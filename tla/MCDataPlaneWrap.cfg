SPECIFICATION Spec
CONSTANTS
  Topic = t1
  Level = 2
  FirstEpoch = 1
  EpochCount = 2
  PublisherIdMax = 2
  CounterMax = 2
  WindowSize = 2
  MaxAssociations = 1
  MaxRotations = 2
  MaxReboots = 0
  MaxFaults = 0
  MaxOutstanding = 1
  None = None
INVARIANTS
  NonceUsedOnce
