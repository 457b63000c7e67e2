SPECIFICATION Spec
CONSTANTS
  Profiles = {p1, p2}
  StaticIps = {ip1}
  Leases = {l1, l2}
  LeaseEnds = FALSE
  None = None
  MaxCalls = 1
  MaxQueued = 2
CHECK_DEADLOCK FALSE
INVARIANT IPYesHasAddress
