SPECIFICATION MCSpec
CONSTANTS
  Callers = {c1, c2}
  Bridges = {"b1", "b2"}
  Clients = {"i1"}
  MaxOwner = 2
  MaxNapEvents = 2
  Peer = "p1"
  OtherPeer = "p2"
  KernelNames = {"bnep0", "bnep1"}
  UdevNames = {"enx0", "enx1"}
  MaxPanEvents = 2
  PairCallers = {c1, c2}
  PairPeers = {"d1"}
  MaxPairFaults = 1
  Profiles = {1, 2}
  NmDevices = {1, 2}
  QueueCapacity = 2
  MaxNmChanges = 3
  MaxChanges = 1
  MaxCrashes = 1
  MaxKeys = 1
INVARIANTS PairingLeavesNoTrace PublishedIsOneReport
PROPERTIES PanLinksAreOurs  
CHECK_DEADLOCK FALSE
