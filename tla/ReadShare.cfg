SPECIFICATION FairSpec
CONSTANTS
  ka = ka  kb = kb  c1 = c1  c2 = c2
  Threads = {"t1", "t2"}
  Keys = {ka, kb}
  Clusters = {c1, c2}
  Scope <- OneKeyEach
  NoThread = "nobody"
  MaxEntries = 2
  MaxWrites = 1
  MaxInvalidations = 1
INVARIANTS
  ReadOnce
  FlightsLand
PROPERTIES
  CallsReturn
  KeepsPromise
