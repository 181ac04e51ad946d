--------------------------- MODULE MCSyncedQueue ---------------------------
EXTENDS SyncedQueue, TLC

\* Threads and items are interchangeable.
Symmetry == Permutations(Threads) \cup Permutations(Items)
============================================================================
