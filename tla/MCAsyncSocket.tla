--------------------------- MODULE MCAsyncSocket ---------------------------
(***************************************************************************)
(* AsyncSocket with an empty message and one whose body can be cut, and a  *)
(* server with one CPU thread, as the echo server has.                     *)
(***************************************************************************)
EXTENDS AsyncSocket

CONSTANTS a, z
MCSize == (a :> 2) @@ (z :> 0)
MCSends == [e \in Ends |-> IF e = "client" THEN 2 ELSE 1]
OneCpu == [e \in Sockets |-> IF e = "client" THEN "client's" ELSE "server's"]
============================================================================
