SPECIFICATION FairSpec
CONSTANTS
  Keep = 3
  Stored = 2
  Shown = 3
  MaxRetries = 1
  MaxEvents = 3
  MaxDrops = 2
  MaxRestarts = 1
INVARIANTS
  NoHole
  
PROPERTIES
  StreamEnds
  RunningIsFollowed
