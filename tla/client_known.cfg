\* A response that overtakes the registration of its request.
SPECIFICATION Spec
CONSTANTS
  None = None
  Sends = {s1}
  Messages <- OneRequest
  Events = {x1}
  ServerKey = server
  OtherKeys = {}
  Bodies = {"response"}
  Stateless = FALSE
  EncryptionMode = "Required"
SYMMETRY Symmetry
INVARIANTS
  ResponseIsKnown
CHECK_DEADLOCK FALSE
