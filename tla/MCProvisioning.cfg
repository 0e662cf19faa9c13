SPECIFICATION Spec
CONSTANTS
  NonceSize = 3
  SaltSize = 2
  KmacTagSize = 2
  GcmTagSize = 1
  IdSpan = 4
  CounterSpan = 3
  EpochSpan = 4
  KeySize = 32
  Validity = 1
  Topics <- TwoTopics
  Requests <- AllRequests
  Payloads <- TwoPayloads
  FirstEpochs <- TwoEpochs
  PublisherIds <- LastId
  Reason <- Text
INVARIANTS
  TypeOK
  RangeHonoured
  HeaderDescribesFrame
  FramesReadable
PROPERTIES
  CertificatesHonoured
  MessagesArrive
