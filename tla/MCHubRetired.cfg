SPECIFICATION MCSpec
CONSTANTS
  n1 = n1
  n2 = n2
  n3 = n3
  n4 = n4
  MaxInterference = 4
  Chain = TRUE
  Nodes <- MCNodes
  Capacity <- MCCapacity
INVARIANTS RetiredHubIsNotLost
CHECK_DEADLOCK FALSE
