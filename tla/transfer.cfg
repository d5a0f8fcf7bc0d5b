\* Verification on, two versions of one asset, two streams from two peers.
SPECIFICATION Spec
CONSTANTS
  p1 = p1
  p2 = p2
  s1 = s1
  s2 = s2
  v1 = v1
  v2 = v2
  a1 = a1
  None = None
  Peers = {p1, p2}
  Streams = {s1, s2}
  Assets = {a1}
  Blobs = {v1, v2}
  AssetOf <- MCAssetOf
  TotalOf <- MCTotalOf
  MaxChunks = 2
  VerifyIntegrity = TRUE
SYMMETRY MCSymmetry
INVARIANTS
  TypeOK
  ChunkPlacement
  NoFalseAlarm
  OnlyOrphansAreLost
PROPERTY
  DeliversWholeBlobs
\* Streams end, links close: the model stops when all of them have.
CHECK_DEADLOCK FALSE
