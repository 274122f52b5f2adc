SPECIFICATION FairSpec
CONSTANTS
  f1 = f1
  f2 = f2
  d1 = d1
  d2 = d2
  Followers = {f1, f2}
  First = f1
  Disks = {d1, d2}
  Cells <- MCCells
  MaxBackups = 2
  MaxUpsets = 1
INVARIANTS
  BarrierHolds
  LostAsksAtMostOnce
  AppliedIsRestored
PROPERTIES
  AppliedStays
  CatchesUp
