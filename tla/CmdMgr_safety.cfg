SPECIFICATION Spec
CONSTANTS
  Tasks = {t1, t2, t3}
  Cmds <- MCCmds
  c1 = c1
  c2 = c2
  c3 = c3
  None = None
  id1 = id1
  id2 = id2
  Ids <- MCIds
  Kinds <- AllKinds
  MaxQueued = 2
SYMMETRY Symmetry
CHECK_DEADLOCK FALSE
INVARIANTS
  MailboxFree AckFindsCommand CallerBlockLive MatchedCfm ResultTruth CanStep
