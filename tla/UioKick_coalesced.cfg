SPECIFICATION Spec
CONSTANTS
  Threads = {t1, t2}
  t1 = t1
  t2 = t2
  QueueOf <- BlkQueueOf
  Served = {0}
  Polled = {}
  Barrier = TRUE
  NotifyAck = TRUE
  Prompt = TRUE
  MaxRequests = 3
  MaxNotifies = 2
  MaxReplies = 4
  None = None
SYMMETRY Symmetry
INVARIANTS
  ServedWhenQuiet
