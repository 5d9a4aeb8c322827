CONSTANTS
  Client = {alice, bob}
  Queue = {news}
  Worker = {w1, w2}
  Retry = FALSE
  Reopen = FALSE
  StrayGet = FALSE
  MaxMsg = 2
  MaxFault = 1
  MaxLoad = 0
SYMMETRY ThreadSymmetry
SPECIFICATION Spec
INVARIANTS
  PublisherOrder
  PeerMessageOnce
  LossesAccounted
