SPECIFICATION FairSpec
CONSTANTS
  Threads = {t1, t2, t3}
  QueueOf <- ConsoleQueueOf
  Served = {1}
  Polled = {}
  Barrier = FALSE
  NotifyAck = TRUE
  Prompt = TRUE
  MaxRequests = 3
  MaxNotifies = 2
  MaxReplies = 4
  None = None
INVARIANTS
  WindowConsistent
  TakenWhenQuiet
  ServedWhenQuiet
PROPERTIES
  EventuallyCompleted
