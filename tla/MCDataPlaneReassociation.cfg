SPECIFICATION Spec
CONSTANTS
  Topic = t1
  Level = 2
  FirstEpoch = 1
  EpochCount = 3
  PublisherIdMax = 3
  CounterMax = 2
  WindowSize = 2
  MaxAssociations = 2
  MaxRotations = 1
  MaxReboots = 0
  MaxFaults = 0
  MaxOutstanding = 1
  None = None
INVARIANTS
  EpochIdTellsKey
