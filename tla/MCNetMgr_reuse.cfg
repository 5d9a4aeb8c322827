CONSTANTS
  Conn = {c1, c2}
  Addr = {a1, a2}
  Fds = 2
  MaxConnection = 2
  DefaultLimit = 2
  MaxReq = 1
  Orderly = FALSE
  SharedAddr = FALSE
SYMMETRY Symmetry
SPECIFICATION Spec
INVARIANT
  AnswerToAsker
CHECK_DEADLOCK FALSE
