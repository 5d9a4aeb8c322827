CONSTANTS
  MaxFd = 3
  MaxPid = 5
  MaxForkFail = 2
  MaxKill = 2
SPECIFICATION Spec
INVARIANTS
  OneChild
  StopReachesChild
  DeafOnlyAtLimit
PROPERTIES
  Supervised
  ServiceResumes
  StopEnds
CHECK_DEADLOCK FALSE
