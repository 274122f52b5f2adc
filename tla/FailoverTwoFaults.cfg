SPECIFICATION Spec
CONSTANTS
  va = va  vb = vb  da = da  db = db
  VMs = {va, vb}
  Disks = {da, db}
  DisksOf <- TwoVMs
  Modes = {"planned"}
  SkewTolerance = 0
  MaxWrites = 1
  FaultKinds = {"cancel", "crash", "source", "target"}
  MaxFaults = 2
  MaxRestarts = 1
  MaxPauses = 0
INVARIANTS
  InterruptedKeepsItsRun
  FailedOverIsServed
  UndonePutsBack
  BothSitesUpCanFinish
