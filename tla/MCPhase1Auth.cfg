SPECIFICATION Spec
CONSTANTS
  Clients = {c1, c2}
  MaxRequests = 2
  MaxAnswers = 2
  None = None
INVARIANTS
  TypeOK
  KeyAgreement
  KeysAcceptedOnce
PROPERTIES
  PendingSurvivesBadResponses
  HandshakeCompletes
