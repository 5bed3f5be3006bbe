CONSTANTS
  Procs = {p1, p2, p3}
  Uris = {u1, u2, u3}
  Lines = {0, 1}
  Main = Main
  Nobody = Nobody
  InitialFiles <- Initial
  MaxItemNumber = 2
  MaxEvents = 4
SPECIFICATION Spec
SYMMETRY Symmetric
INVARIANTS Agreement EchoesBounded
PROPERTY HandsOver
CHECK_DEADLOCK FALSE
