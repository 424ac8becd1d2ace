SPECIFICATION FairSpec
CONSTANTS
  Threads = {t1, t2}
  QueueNum = 2
  IdxMod = 4
  Retries = 1
  MaxFailures = 2
  None = None
INVARIANTS CompletionsInOrder ExecutedAtMostOnce NoStrandedCompletion NoLostKick
PROPERTIES SilentAfterLoss EventuallyCompleted ImplementsService
