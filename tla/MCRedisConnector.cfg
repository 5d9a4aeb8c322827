CONSTANTS
  Ops <- AllOps
  ErrorOps <- AllOps
  MaxReq = 4
  MaxOutage = 2
SPECIFICATION Spec
INVARIANTS
  TypeOK
  RepliesMatch
  QuietWhenIdle
PROPERTIES
  RequestEnds
CHECK_DEADLOCK FALSE
