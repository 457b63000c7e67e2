SPECIFICATION MCFairSpec
CONSTANTS
  Tasks = {t1, t2}
  Cmds <- MCCmds
  c1 = c1
  c2 = c2
  c3 = c3
  None = None
  id1 = id1
  id2 = id2
  Ids <- MCIds
  Kinds <- FairKinds
  MaxQueued = 3
CHECK_DEADLOCK FALSE
PROPERTIES
  ImplementsChannel Returns Answered
