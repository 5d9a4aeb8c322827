CONSTANTS
  Ops <- PingAndPop
  ErrorOps = {}
  MaxReq = 2
  MaxOutage = 1
SPECIFICATION Spec
INVARIANT
  AppendHasContext
CHECK_DEADLOCK FALSE
