CONSTANTS
  HeadLen = 2
  Kinds = {"json", "line"}
  Sizes = {3, 4}
  RecvSize = 5
  DefaultSize = 2
  EncodeSize = 1
  SocketSize = 3
  MaxReq = 2
SPECIFICATION Spec
INVARIANTS
  RequestsIntact
  AnswersIntact
PROPERTIES
  ImplementsChannel
  BytesGetThrough
CHECK_DEADLOCK FALSE
