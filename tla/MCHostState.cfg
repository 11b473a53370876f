SPECIFICATION MCSpec
CONSTANTS
  Bits = 4
  SegmentLength = 2
  Hosted = {"h1", "h2"}
  Joined = {"j"}
  SegmentOf <- MCSegmentOf
  BridgeOf <- MCBridgeOf
  Pan = "pan"
  Interfaces = {"eth", "pan", "brb1", "brb2"}
  UserPrefixes <- MCUserPrefixes
  MaxMachineChanges = 2
  NmCallers = {c1, c2}
  MaxNmFaults = 1
  Adapters <- MCAdapters
  PeersOfAdapter = {"d1"}
  MaxWatchEvents = 4
  Durable = {"n1"}
  Heard = {"n1", "n2"}
  MaxAirEvents = 4
  AddrCallers = {c1, c2}
  Prefixes4 = {1, 2}
  MaxAddrEvents = 3
INVARIANTS BluezEventsAddUp 
PROPERTIES ProfilesAreOurs AddressesFollowLeases AddressesAreClear
SYMMETRY MCSymmetry
CHECK_DEADLOCK FALSE
