SPECIFICATION MCSpec
CONSTANTS
  p1 = p1
  p2 = p2
  k2 = k2
  n2 = n2
  Networks = {n1, n2}
  NoNetwork = NoNetwork
  Peers = {p1, p2}
  Keys = {k1, k2}
  NoKey = NoKey
  NoPeer = NoPeer
  NoSession = NoSession
  MaxOwned = 2
  MaxIds = 2
  MaxMutations = 2
  MaxCrashes = 1
INVARIANTS RegistryMatchesOwners OwnershipWasReal RevocationSticks
PROPERTIES FramesAreApproved ObsoleteSessionsEnd
CHECK_DEADLOCK FALSE
