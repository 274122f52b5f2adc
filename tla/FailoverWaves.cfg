SPECIFICATION Spec
CONSTANTS
  va = va  vb = vb  vc = vc
  ha = ha  hb = hb  hc = hc  hd = hd
  VMs = {va, vb, vc}
  Waves <- OneWave
  Hooks = {ha, hb, hc, hd}
  At <- HookAt
  Rank <- HookRank
  Skewed = {va}
  MaxStops = 2
INVARIANTS
  HookAfterItsWave
  RememberedHooksAreNotRecalled
  OneStopOwesNoHook
  GateOrStop
PROPERTIES
  WavesInOrder
