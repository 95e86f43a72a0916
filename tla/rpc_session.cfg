\* A request, an answer, what others write to either side, every pair of modes.
SPECIFICATION Spec
CONSTANTS
  None = None
  AppId = AppId
  i1 = i1
  i3 = i3
  e1 = e1
  e3 = e3
  ClientKey = client
  ServerKey = server
  Sends = {e1}
  Messages <- OneRequest
  Events = {x1, x2}
  RequestIds = {i1, i3}
  Tokens = {e1}
  Calls = {t1}
  Notices = {}
  other = other
  OtherClients = {other}
  OtherIds = {e3}
  OtherReadings = {r1}
  OtherTraffic <- OtherEvents
  StrangerTraffic <- OneOfAStranger
SYMMETRY Symmetry
INVARIANTS
  RightAnswer
  FormsAgree
  AnswerIsOnItsWay
CHECK_DEADLOCK FALSE
