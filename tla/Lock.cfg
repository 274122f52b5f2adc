SPECIFICATION FairSpec
CONSTANTS
  p1 = p1  p2 = p2  q1 = q1  near = near  far = far
  Procs = {p1, p2, q1}
  Hosts = {near, far}
  HostOf <- TwoHosts
  Ahead <- FarAhead
  MaxSkew = 1
  TTL = 3
  MaxGap = 1
  MaxBirths = 2
  MaxWrites = 2
INVARIANTS
  OneCommandAtATime
  WorksOnWhatItRead
PROPERTIES
  AbandonedCanBeTaken
