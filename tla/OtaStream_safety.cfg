SPECIFICATION Spec
CONSTANTS
  Block = 3
  MaxSent = 8
  Servers <- AnyServers
CHECK_DEADLOCK FALSE
INVARIANTS
  CommitExact ExactInstalled
