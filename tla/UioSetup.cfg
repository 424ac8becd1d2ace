SPECIFICATION FairSpec
CONSTANTS
  QueueCount = 2
  QueueSize = 64
  Features <- ConsoleFeatures
  Prompt = TRUE
  MaxReboots = 2
  MaxNotifies = 2
  MaxAcks = 2
INVARIANTS
  ReadyConfigured
  ProbeDelivered
  NeverFails
PROPERTIES
  EventuallyProbed
