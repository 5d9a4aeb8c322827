CONSTANTS
  Conn = {c1, c2, c3}
  Addr = {a1, a2}
  Fds = 2
  MaxConnection = 2
  DefaultLimit = 2
  MaxReq = 2
  Orderly = FALSE
  SharedAddr = TRUE
SYMMETRY Symmetry
SPECIFICATION Spec
INVARIANTS
  TypeOK
  AnsweredOnce
  NoLostWakeup
CHECK_DEADLOCK FALSE
