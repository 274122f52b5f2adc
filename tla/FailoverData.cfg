SPECIFICATION Spec
CONSTANTS
  va = va  vb = vb  da = da  db = db
  VMs = {va}
  Disks = {da, db}
  DisksOf <- OneVMTwoDisks
  Modes = {"planned", "unplanned"}
  SkewTolerance = 0
  MaxWrites = 2
  FaultKinds = {"crash", "source"}
  MaxFaults = 2
  MaxRestarts = 0
  MaxPauses = 0
INVARIANTS
  LossReportConservative
PROPERTIES
  ZeroLoss
