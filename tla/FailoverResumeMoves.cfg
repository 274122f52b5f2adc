SPECIFICATION Spec
CONSTANTS
  va = va  vb = vb  da = da  db = db
  VMs = {va, vb}
  Disks = {da, db}
  DisksOf <- TwoVMs
  Modes = {"planned"}
  SkewTolerance = 0
  MaxWrites = 1
  FaultKinds = {"crash"}
  MaxFaults = 1
  MaxRestarts = 0
  MaxPauses = 0
INVARIANTS
  OnlyWhatWasAsked
