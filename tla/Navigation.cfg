SPECIFICATION FairSpec
CONSTANTS
  NotHosts = {"", "-x"}
  NotIds = {"", "-x"}
  Clusters = {"c1", "c2"}
  KvmHosts = {"k1"}
  Pressed = {"vmnets", "pools", "images"}
  Movable = {"c2", "k1"}
  MaxQueue = 1
  MaxEvents = 1
  Words = {"", "c1", "-x", "vms", "folder", "host", "hosts", "folders", "containers", "harvester", "kvm", "dr", "links", "params", "imports", "overview", "events", "network", "pools", "power", "shutdown", "nodes", "forklift", "waves", "automation", "pxe", "plans", "activity", "action", "storage", "kvmstorage"}
  Depth = 4
  Addresses <- MCAddresses
INVARIANTS
  AddressIsScreen
  LastAskedShown
  ReloadKeepsScreen
PROPERTY
  NavigationsEnd
