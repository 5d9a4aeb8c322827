CONSTANTS
  Client = {alice, bob}
  Queue = {news}
  Worker = {w1}
  Retry = TRUE
  Reopen = TRUE
  StrayGet = FALSE
  MaxMsg = 2
  MaxFault = 1
  MaxLoad = 1
SYMMETRY ClientSymmetry
SPECIFICATION Spec
INVARIANTS
  TypeOK
  Restartable
  
  NoDuplicateSubscriber
  
  PeerMessageOnce
  LossesAccounted
