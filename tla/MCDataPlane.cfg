SPECIFICATION FairSpec
CONSTANTS
  Topic = t1
  Level = 2
  FirstEpoch = 1
  EpochCount = 3
  PublisherIdMax = 2
  CounterMax = 3
  WindowSize = 2
  MaxAssociations = 1
  MaxRotations = 1
  MaxReboots = 1
  MaxFaults = 1
  MaxOutstanding = 1
  None = None
INVARIANTS
  TypeOK
  AtMostOnce
  NonceUsedOnce
  EpochIdTellsKey
PROPERTIES
  RefusedOnlyIfDelivered
  ImplementsSecureTopic
  Converges
  PauseEnds
