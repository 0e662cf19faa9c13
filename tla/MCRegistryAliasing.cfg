SPECIFICATION MCSpec
CONSTANTS
  Topics = {t1, t2}
  LevelRanges <- Ranges
  InitialEpochs = {1}
  EpochCount = 3
  PublisherIdMax = 3
  MaxObjects = 4
  MaxPublisherId = 4
INVARIANTS
  PublisherConfigsConsistent
