SPECIFICATION MCSpec
CONSTANTS
  HeaderBytes = 2
  BodyBytes = 1
  MaxChunk = 6
  MaxFrames = 2
  Capacity = 6
  MaxSeq = 5
  IdleTimeout = 2
  ClosingTimeout = 2
  Slice = 1
  MaxTime = 6
  MaxFaults = 1
  RetryKeys = {k1, k2}
  Gens = {g1, g2}
  NoSlot = none
  MaxSlots = 1
  MaxAttempts = 3
  BaseDelay = 1
  DelayCap = 2
  AttemptTimeout = 2
  RetryTime = 7
  OtherUses <- MCOtherUses
  Interval = 2
  MaxFailures = 1
  Challenges = {0, 1, 2}
  ChannelCapacity = 2
  p1 = p1
  p2 = p2
  b1 = b1
  Sessions = {a1, a2, b1}
  PeerOf <- MCPeerOf
  Nodes = {p1, p2}
  ZeroNode = zero
  Hosts <- MCHosts
  Networks = {net1}
  Owners = {o1}
  UnknownCeiling = unknown
  MaxGeneration = 2
  NoOwner = none
INVARIANTS OwnersAreSound
PROPERTIES RetriesAreSound ConnectionsAreSound HandshakesAreSound StreamsAreSound ImplementsDelivery SessionsEnd SessionsProceed
CHECK_DEADLOCK FALSE
