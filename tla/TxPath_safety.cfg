SPECIFICATION Spec
CONSTANTS
  Packets = {p1, p2, p3}
  Tasks = {t1, t2}
  None = None
  Cnt = 2
  HodlerLen = 2
  IdxMod = 4
  MaxOther = 1
SYMMETRY Alike
CHECK_DEADLOCK FALSE
INVARIANTS
  OnePlace RingSound FwOwns Quiet
PROPERTIES
  ImplementsTxService
