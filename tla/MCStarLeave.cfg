SPECIFICATION MCSpec
CONSTANTS
  Three = {x1, x2, x3}
  Two = {y1, y2}
  Nodes = {y1, y2}
  ZeroNode = zero
  Networks = {net1}
  Owners = {o1, o2}
  Hosts <- MCHosts
  UnknownCeiling = unknown
  MaxGeneration = 3
  Requests = {y1, y2}
  NetworkIds = {y1, y2}
  Boot = boot
  Observers = {o1}
  NoNetwork = none
  Free = free
  MaxRetries = 2
  MaxCrashes = 1
  Calls = {x1, x2, x3}
  Joinable = {y1, y2}
  ZeroNetwork = zero
  NoMembership = none
  Keys = {x1, x2, x3}
  InvalidKey = invalid
  Ids = {i1, i2, i3, i4}
  ZeroId = zero
  NoSession = none
  MaxSessions = 2
  MaxRecent = 2
  MaxActivations = 6
SYMMETRY MCSymmetry
INVARIANTS LeaveIsNoSilentNoOp
CHECK_DEADLOCK FALSE
