SPECIFICATION FairSpec
CONSTANTS
  Profiles = {p1, p2}
  StaticIps = {ip1}
  Leases = {l1, l2}
  LeaseEnds = TRUE
  None = None
  MaxCalls = 3
  MaxQueued = 3
CHECK_DEADLOCK FALSE
INVARIANTS
  StateFollowsLink RetryOnItsWay ManagerCanStep
  TimeoutOfOwnConnection SeeksAddress
PROPERTIES
  ImplementsStationLink AttemptEnds
