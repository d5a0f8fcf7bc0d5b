\* The same, and nothing fails: what the documentation says of negotiation.
SPECIFICATION Spec
CONSTANTS
  b1 = b1
  b2 = b2
  None = None
  Browsers = {b1, b2}
  Draws <- MCPair
  MaxSessions = 3
  MaxTroubles = 0
INVARIANT
  GlareFree
\* The browsers may be at rest for ever.
CHECK_DEADLOCK FALSE
