\* Two websockets with two joins each, two rooms : progress.
SPECIFICATION Spec
CONSTANTS
  c1 = c1
  c2 = c2
  c3 = c3
  r1 = r1
  r2 = r2
  NoRoom = NoRoom
  Clients = {c1, c2}
  Rooms = {r1, r2}
  MaxClientsPerRoom = 2
  MaxRooms = 2
  MaxJoins = 2
  MaxSpawned = 1
  MaxDown = 1
INVARIANT
  NoGhostMembers
PROPERTIES
  JoinCompletes
  DownIsForgotten
\* A behaviour ends when all the clients are gone.
CHECK_DEADLOCK FALSE
