SPECIFICATION Spec
CONSTANTS
  QueueCount = 2
  QueueSize = 64
  Features <- ConsoleFeatures
  Prompt = FALSE
  MaxReboots = 0
  MaxNotifies = 2
  MaxAcks = 2
INVARIANTS
  ReadyConfigured
