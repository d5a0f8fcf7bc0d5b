\* Two browsers, three websockets, one of which drops or is given up, or a link that fails.
SPECIFICATION Spec
CONSTANTS
  b1 = b1
  b2 = b2
  None = None
  Browsers = {b1, b2}
  Draws <- MCPair
  MaxSessions = 3
  MaxTroubles = 1
INVARIANTS
  TypeOK
  AlignedPairsLink
  NoHalfLinks
\* The browsers may be at rest for ever.
CHECK_DEADLOCK FALSE
