SPECIFICATION Spec
CONSTANTS
  Threads = {t1, t2}
  t1 = t1
  t2 = t2
  QueueOf <- BlkQueueOf
  Served = {0}
  Polled = {}
  Barrier = FALSE
  NotifyAck = TRUE
  Prompt = FALSE
  MaxRequests = 2
  MaxNotifies = 2
  MaxReplies = 4
  None = None
SYMMETRY Symmetry
INVARIANTS
  TakenWhenQuiet
