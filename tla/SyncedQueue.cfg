SPECIFICATION Spec
CONSTANTS
  t1 = t1
  t2 = t2
  t3 = t3
  t4 = t4
  a = a
  b = b
  Threads = {t1, t2, t3, t4}
  Items = {a, b}
  Reads = {"pop", "popNull", "top"}
  MaxLen = 3
SYMMETRY Symmetry
INVARIANTS
  PopFindsItem
  ElementsAccounted
