SPECIFICATION Spec
CONSTANTS
  Clients = {c1}
  MaxRequests = 1
  MaxAnswers = 1
  None = None
PROPERTIES
  NoSessionForRevoked
