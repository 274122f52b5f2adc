SPECIFICATION Spec
CONSTANTS
  va = va  vb = vb
  VMs = {va, vb}
  Covered = {va}
  Explicit = {vb}
  Intervals = {"5 min", "10 min"}
  Given = "5 min"
  Faults = {}
  MaxFaults = 0
  MaxCommands = 4
  MaxLeaves = 1
CHECK_DEADLOCK FALSE
INVARIANTS
  UnprotectNeverStuck
