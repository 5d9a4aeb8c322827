CONSTANTS
  Thread = {t1, t2}
  ThreadCounts = {1, 2}
  InboxLimit = 1
  QueueLimit = 2
  BlockTime = 1
  SessionTime = 2
  MaxReq = 2
  MaxLine = 1
SPECIFICATION Spec
INVARIANTS
  PoolIsLive
  NobodySleepsOverWork
PROPERTIES
  StopIsHonoured
  ExpiryHappens
  RequestsAreServed
CHECK_DEADLOCK FALSE
