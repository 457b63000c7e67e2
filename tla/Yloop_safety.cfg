SPECIFICATION FairSpec
CONSTANTS
  Callers = {k1, k2}
  Events = {e1, e2}
  blink = blink
  check = check
  Actions <- MCActions
  Delay <- MCDelay
  CacheSize = 1
  RxSize = 2
  MaxLate = 1
  MaxUrgent = 1
INVARIANTS
  NoLostWakeup SignalsLivePoll LoopCanStep
PROPERTIES
  ImplementsDispatchService Dispatched
