SPECIFICATION FairSpec
CONSTANTS
  va = va  vb = vb  da = da  db = db
  VMs = {va, vb}
  Disks = {da, db}
  DisksOf <- TwoVMs
  Modes = {"planned"}
  SkewTolerance = 0
  MaxWrites = 1
  FaultKinds = {"cancel", "crash", "source", "target"}
  MaxFaults = 1
  MaxRestarts = 0
  MaxPauses = 2
INVARIANTS
  PauseHandedBack
  NoSplitBrain
  ActivatedNotUndone
  ActivatedKeepsItsRun
PROPERTIES
  InterruptedIsSettled
  ImplementsHandover
