\* Three websockets that join one room with two places at the same time.
SPECIFICATION Spec
CONSTANTS
  c1 = c1
  c2 = c2
  c3 = c3
  r1 = r1
  r2 = r2
  NoRoom = NoRoom
  Clients = {c1, c2, c3}
  Rooms = {r1}
  MaxClientsPerRoom = 2
  MaxRooms = 1
  MaxJoins = 1
  MaxSpawned = 1
  MaxDown = 2
INVARIANT
  RoomCapacity
\* A behaviour ends when all the clients are gone.
CHECK_DEADLOCK FALSE
