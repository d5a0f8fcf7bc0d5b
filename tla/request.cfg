\* Two calls for one URL, one of them for its blob; failures, losses and destroy.
SPECIFICATION Spec
CONSTANTS
  q1 = q1
  q2 = q2
  q3 = q3
  u1 = u1
  u2 = u2
  d1 = d1
  d2 = d2
  None = None
  Calls = {q1, q2}
  BlobCalls = {q1}
  Urls = {u1}
  UrlOf <- MCUrlOf
  Deliveries = {d1, d2}
  MaxOutages = 1
  Teardown = TRUE
  Losses = TRUE
INVARIANTS
  TypeOK
  
  WaitingInSomeHands
PROPERTIES
  BlobMissingOnlyIfLost
  CallsSettle
\* The library may be at rest for ever.
CHECK_DEADLOCK FALSE
