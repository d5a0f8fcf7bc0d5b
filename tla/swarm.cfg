\* Two peers and two pieces; the timeout is as long as TimelyTimeouts allows.
SPECIFICATION SwarmSpec
CONSTANTS
  Peers = {p1, p2}
  NumPieces = 2
  Free = Free
  P2PTimeout = 1
  Lateness = 0
  ReassignAfter = 1
INVARIANTS
  SwarmTypeOK
  AssignedArePeers
  OnlyIdleAssignmentsExpire
  FailoverByStream
  PlannedUnlessDropped
