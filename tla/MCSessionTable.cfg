CONSTANTS
  Code = {k1, k2, k3, k4}
  Client = {alice, bob}
  Queue = {news}
  SessionTime = 1
  RemoveOnceCount = 2
  MaxTime = 4
SYMMETRY CodeClientSymmetry
SPECIFICATION Spec
INVARIANTS
  TypeOK
  ListMatchesMap
  NewestFirst
  IndexNeverDangles
PROPERTIES
  ImplementsSessions
