SPECIFICATION FairSpec
CONSTANTS
  Packets = {p1, p2, p3}
  Tasks = {t1}
  None = None
  Cnt = 1
  HodlerLen = 2
  IdxMod = 2
  MaxOther = 1
CHECK_DEADLOCK FALSE
PROPERTIES
  Delivered
