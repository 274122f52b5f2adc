SPECIFICATION Spec
CONSTANTS
  va = va  vb = vb
  VMs = {va, vb}
  Covered = {va}
  Explicit = {vb}
  Intervals = {"5 min", "10 min"}
  Given = "5 min"
  Faults = {"cancel", "suspend", "fail", "kill", "undo", "silent"}
  MaxFaults = 2
  MaxCommands = 4
  MaxLeaves = 1
CHECK_DEADLOCK FALSE
INVARIANTS
  CancelUndoesAll
  ResumableIsAccepted
  
