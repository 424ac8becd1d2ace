SPECIFICATION FairSpec
CONSTANTS
  Threads = {t1, t2}
  MaxRequests = 3
INVARIANTS
  ServedConfigured
  TakenWhenQuiet
PROPERTIES
  EventuallyServed
CHECK_DEADLOCK FALSE
