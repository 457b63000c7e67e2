SPECIFICATION FairSpec
CONSTANTS
  Tasks = {t1}
  fast = fast
  slow = slow
  once = once
  LedTimers <- MCLeds
  Scheduled <- MCScheduled
  Delay <- MCDelay
  MaxLate = 1
  MaxStranded = 3
  MaxPosts = 2
CHECK_DEADLOCK FALSE
INVARIANTS
  IInv LoopCanStep
PROPERTIES
  ImplementsEventService Handled Blinks
