\* Two calls for one URL; nothing fails and nothing is lost: what the documentation says.
SPECIFICATION Spec
CONSTANTS
  q1 = q1
  q2 = q2
  q3 = q3
  u1 = u1
  u2 = u2
  d1 = d1
  d2 = d2
  None = None
  Calls = {q1, q2}
  BlobCalls = {q1}
  Urls = {u1}
  UrlOf <- MCUrlOf
  Deliveries = {d1, d2}
  MaxOutages = 0
  Teardown = FALSE
  Losses = FALSE
PROPERTY
  EveryCallSettles
\* The library may be at rest for ever.
CHECK_DEADLOCK FALSE
