\* Concurrent sends of a stateless client; duplicate, foreign, unreadable answers.
SPECIFICATION FairSpec
CONSTANTS
  None = None
  Sends = {s1, s2}
  Messages <- AllMessages
  Events = {x1, x2}
  ServerKey = server
  OtherKeys = {stranger}
  Bodies = {"response", "notification", "malformed"}
  Stateless = TRUE
  EncryptionMode = "Required"
INVARIANTS
  TypeOK
  AtMostOneAnswer
  PendingIsUnanswered
PROPERTIES
  ForgottenOnlyWhenAnswered
  AnswerEndsWait
CHECK_DEADLOCK FALSE
