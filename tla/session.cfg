\* Two fetches at a time of two URLs, of which the store has room for one, and one failing
\* transaction; up to three sockets for two rooms, and one waiter; and two messages a second
\* for eight thirds of a second.
SPECIFICATION SessionSpec
CONSTANTS
  u1 = u1
  u2 = u2
  NoUrl = NoUrl
  App = App
  MaxFetches = 2
  Users <- MCUsers
  Urls = {u1, u2}
  SizeOf <- MCSizeOf
  MaxSize = 2
  MaxEntries = 2
  MaxFaults = 1
  Rooms = {ra, rb}
  NoRoom = NoRoom
  MaxSockets = 3
  Waiters = {w1}
  Rate = 2
  Grain = 3
  MaxTime = 8
INVARIANTS
  TypeOK
  BoundsKept
  ConnectTypeOK
  OneLiveSocket
  InitializedInRoom
  RememberedUnlessUpset
  WaitersToldOfLinks
  LimiterTypeOK
  BurstBounded
PROPERTIES
  EvictsLeastRecent
  FetchAnswered
  CallersAnswered
  RefusesOnlyExcess
\* The page may be at rest for ever, use up its sockets, and time its bound.
CHECK_DEADLOCK FALSE
