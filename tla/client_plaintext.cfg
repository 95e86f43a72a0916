\* A plain answer to a client that requires encryption.
SPECIFICATION Spec
CONSTANTS
  None = None
  Sends = {s1, s2}
  Messages <- OneRequest
  Events = {x1, x2}
  ServerKey = server
  OtherKeys = {}
  Bodies = {"response"}
  Stateless = FALSE
  EncryptionMode = "Required"
SYMMETRY Symmetry
INVARIANTS
  RequiredRejectsPlaintext
CHECK_DEADLOCK FALSE
