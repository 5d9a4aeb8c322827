CONSTANTS
  Conn = {c1, c2}
  Addr = {a1, a2}
  Fds = 2
  MaxConnection = 2
  DefaultLimit = 4
  MaxReq = 2
  Orderly = TRUE
  SharedAddr = FALSE
SPECIFICATION Spec
INVARIANTS
  AnswerToAsker
  EventsOnOwnFd
PROPERTIES
  EveryoneAnswered
CHECK_DEADLOCK FALSE
