SPECIFICATION MCSpec
CONSTANTS
  NoFile = NoFile
  Torn = Torn
  Starts = {s1, s2}
  MaxIdentities = 5
  MaxFaults = 1
  MaxKills = 2
  Bad = Bad
  Daemons = {d1, d2}
  Callers = {c1, c2}
  MaxRequests = 2
  MaxFailures = 1
  MaxCrashes = 1
  Threads = {1, 2, 3}
  NoPins = NoPins
  MaxRecords = 2
  MaxCalls = 2
  MaxPinFailures = 2
  MaxPinCrashes = 2
  Clients = {s1, s2}
  Networks = {1}
  Versions <- MCVersions
  NoNetwork = NoNetwork
  MaxRestarts = 1
  MaxInvocations = 2
SYMMETRY MCSymmetry
INVARIANTS IncompatibleDaemonsMeetNoCommand
CHECK_DEADLOCK FALSE
