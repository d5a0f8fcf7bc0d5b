--------------------------- MODULE SignalingServer ---------------------------
(***************************************************************************)
(* The Go signaling server (signaling/main.go): one goroutine per          *)
(* websocket, rooms and clients in maps behind one sync.RWMutex, and the   *)
(* goroutines that writeMessage starts when a write fails.                 *)
(*                                                                         *)
(* A section under globalMu.Lock is one action, guarded by LockFree; what  *)
(* happens between two sections is an action of its own, so that every     *)
(* interleaving of goroutines occurs.  The loop of joinRoom that announces *)
(* a newcomer holds RLock and is modelled write by write.                  *)
(*                                                                         *)
(* A write to a client takes effect at once: writes to one connection are  *)
(* serialised by its mutex and read in order by the library at the other   *)
(* end, whose view of the room is `known'.                                 *)
(***************************************************************************)
EXTENDS Naturals, FiniteSets

CONSTANTS
  Clients,             \* websockets; each gets an id of its own from the server
  Rooms,
  NoRoom,              \* client.room = ""
  MaxClientsPerRoom,   \* appConfig.MaxClientsPerRoom
  MaxRooms,            \* appConfig.MaxRooms
  MaxJoins,            \* bound: join messages per websocket (the library sends one)
  MaxSpawned,          \* bound: unfinished `go handleDisconnect(c)' per client
  MaxDown              \* bound: websockets that go down in a behaviour

ASSUME SignalingAssumption ==
  /\ NoRoom \notin Rooms
  /\ IsFiniteSet(Clients)
  /\ MaxClientsPerRoom \in Nat /\ MaxRooms \in Nat
  /\ MaxJoins \in Nat /\ MaxSpawned \in Nat \ {0}
  /\ MaxDown \in Nat

VARIABLES
  conn,        \* the websocket: not yet made, open, lost (the client is gone but
               \* writes still succeed), broken (writes fail)
  pc,          \* where the goroutine of handleWebSocket is
  registered,  \* clientsById
  room,        \* client.room
  members,     \* rooms; a room with no members has no entry
  want,        \* the room of the join being handled
  found,       \* joinRoom's existingPeers
  toTell,      \* members the announcing loop of joinRoom has still to write to
  joins,       \* join messages read, bounded by MaxJoins
  spawned,     \* go handleDisconnect(c) goroutines that have not run
  farewells,   \* peer-left messages that a handleDisconnect has still to write
  known,       \* the peers a client was told of and not told to have left
  forgotten,   \* history: <<c, r>> when c's client.room, r, was overwritten by a later join,
               \* or cleared by a spawned handleDisconnect before c was added to r
  untold,      \* history: clients for which a spawned handleDisconnect ran between their
               \* addition to a room and their peer-joined
  crossed      \* history: <<y, x>> when y was told that x left before it was
               \* sent its own room-peers

joining == <<want, found, joins>>
history == <<forgotten, untold, crossed>>
vars == <<conn, pc, registered, room, members, want, found, toTell, joins, spawned,
          farewells, known, history>>

Farewells == [who : Clients, to : Clients, nth : 0..MaxJoins]

Places == {"off", "read", "enter", "join", "welcome", "tell", "announce",
           "closing", "leaving", "gone"}

Init ==
  /\ conn = [c \in Clients |-> "none"]
  /\ pc = [c \in Clients |-> "off"]
  /\ registered = {}
  /\ room = [c \in Clients |-> NoRoom]
  /\ members = [r \in Rooms |-> {}]
  /\ want = [c \in Clients |-> NoRoom]
  /\ found = [c \in Clients |-> {}]
  /\ toTell = [c \in Clients |-> {}]
  /\ joins = [c \in Clients |-> 0]
  /\ spawned = [c \in Clients |-> 0]
  /\ farewells = {}
  /\ known = [c \in Clients |-> {}]
  /\ forgotten = {} /\ untold = {}
  /\ crossed = {}

------------------------------------------------------------------------------
(* Locks and writes *)

\* Nobody holds globalMu.RLock over several steps.
LockFree == \A c \in Clients : pc[c] # "announce"

Goto(c, place) == pc' = [pc EXCEPT ![c] = place]

\* Faulty variant: writeMessage disconnects the client itself, which needs the lock.
writeMessageInline(c, view) ==
  /\ conn[c] = "broken" => LockFree
  /\ known' = IF conn[c] = "open" THEN [known EXCEPT ![c] = view] ELSE known
  /\ spawned' = IF conn[c] = "broken" /\ spawned[c] < MaxSpawned
                THEN [spawned EXCEPT ![c] = @ + 1] ELSE spawned

\* writeMessage to c of a message after which the client knows `view': delivered,
\* lost, or failed, and then handleDisconnect is left to a goroutine.
writeMessage(c, view) ==
  /\ known' = IF conn[c] = "open" THEN [known EXCEPT ![c] = view] ELSE known
  /\ spawned' = IF conn[c] = "broken" /\ spawned[c] < MaxSpawned
                THEN [spawned EXCEPT ![c] = @ + 1] ELSE spawned

------------------------------------------------------------------------------
(* handleWebSocket and joinRoom *)

\* Upgrade, registration and self-id.
Connect(c) ==
  /\ pc[c] = "off"
  /\ LockFree
  /\ conn' = [conn EXCEPT ![c] = "open"]
  /\ registered' = registered \cup {c}
  /\ Goto(c, "read")
  /\ UNCHANGED <<room, members, joining, toTell, spawned, farewells, known, history>>

\* A join is read; after the connection went down too, if it was received before.
ReadsJoin(c) ==
  /\ pc[c] = "read"
  /\ joins[c] < MaxJoins
  /\ LockFree

\* rooms[r] is there, or a room may be added, and it has a place left.
HasCapacity(r) ==
  /\ members[r] = {} => Cardinality({q \in Rooms : members[q] # {}}) < MaxRooms
  /\ members[r] # {} => Cardinality(members[r]) < MaxClientsPerRoom

\* The capacity check of a join, a locked section of its own.
AdmitJoin(c, r) ==
  /\ ReadsJoin(c)
  /\ HasCapacity(r)
  /\ joins' = [joins EXCEPT ![c] = @ + 1]
  /\ want' = [want EXCEPT ![c] = r]
  /\ Goto(c, "enter")
  /\ UNCHANGED <<conn, registered, room, members, found, toTell, spawned, farewells,
                 known, history>>

RefuseJoin(c, r) ==
  /\ ReadsJoin(c)
  /\ ~HasCapacity(r)
  /\ joins' = [joins EXCEPT ![c] = @ + 1]
  /\ writeMessage(c, known[c])
  /\ UNCHANGED <<conn, pc, registered, room, members, want, found, toTell, farewells,
                 history>>

\* Faulty variant: a client keeps the room of its first join.
SetRoomOnce(c) ==
  /\ pc[c] = "enter"
  /\ room' = [room EXCEPT ![c] = IF @ = NoRoom THEN want[c] ELSE @]
  /\ Goto(c, "join")
  /\ UNCHANGED <<conn, registered, members, joining, toTell, spawned, farewells, known,
                 history>>

\* client.room = room, outside the lock.
SetRoom(c) ==
  /\ pc[c] = "enter"
  /\ room' = [room EXCEPT ![c] = want[c]]
  /\ forgotten' = (forgotten \cup ({c} \X ({room[c]} \ {NoRoom}))) \ {<<c, want[c]>>}
  /\ Goto(c, "join")
  /\ UNCHANGED <<conn, registered, members, joining, toTell, spawned, farewells, known,
                 untold, crossed>>

\* joinRoom's locked section.
joinRoom(c) ==
  /\ pc[c] = "join"
  /\ LockFree
  /\ found' = [found EXCEPT ![c] = members[want[c]]]
  /\ members' = [members EXCEPT ![want[c]] = @ \cup {c}]
  /\ Goto(c, "welcome")
  /\ UNCHANGED <<conn, registered, room, want, joins, toTell, spawned, farewells, known,
                 history>>

\* room-peers to the newcomer; existingPeers is not used again.
Welcome(c) ==
  /\ pc[c] = "welcome"
  /\ writeMessage(c, known[c] \cup found[c])
  /\ found' = [found EXCEPT ![c] = {}]
  /\ Goto(c, "tell")
  /\ UNCHANGED <<conn, registered, room, members, want, joins, toTell, farewells, history>>

\* Faulty variant: members whose own join is under way are not told, as if the room-peers
\* on its way to them named the newcomer.
StartAnnounceSettledOnly(c) ==
  /\ pc[c] = "tell"
  /\ toTell' = [toTell EXCEPT ![c] = {d \in members[want[c]] \ {c} : pc[d] = "read"}]
  /\ want' = [want EXCEPT ![c] = NoRoom]
  /\ Goto(c, "announce")
  /\ UNCHANGED <<conn, registered, room, members, found, joins, spawned, farewells, known,
                 history>>

\* RLock, and the members at this time will be told.
StartAnnounce(c) ==
  /\ pc[c] = "tell"
  /\ toTell' = [toTell EXCEPT ![c] = members[want[c]] \ {c}]
  /\ want' = [want EXCEPT ![c] = NoRoom]
  /\ Goto(c, "announce")
  /\ UNCHANGED <<conn, registered, room, members, found, joins, spawned, farewells, known,
                 history>>

\* peer-joined to one of them.
Announce(c, d) ==
  /\ pc[c] = "announce"
  /\ d \in toTell[c]
  /\ toTell' = [toTell EXCEPT ![c] = @ \ {d}]
  /\ writeMessage(d, known[d] \cup {c})
  /\ UNCHANGED <<conn, pc, registered, room, members, joining, farewells, history>>

\* RUnlock, and back to reading.
EndAnnounce(c) ==
  /\ pc[c] = "announce"
  /\ toTell[c] = {}
  /\ Goto(c, "read")
  /\ UNCHANGED <<conn, registered, room, members, joining, toTell, spawned, farewells,
                 known, history>>

\* sendToTarget of an offer, an answer or a candidate.
sendToTarget(c, d) ==
  /\ pc[c] = "read"
  /\ d \in registered
  /\ writeMessage(d, known[d])
  /\ UNCHANGED <<conn, pc, registered, room, members, joining, toTell, farewells, history>>

------------------------------------------------------------------------------
(* Disconnection *)

\* Faulty variant: the last member is not deleted from its room.
handleDisconnectKeepsLast(c) ==
  /\ LockFree
  /\ IF room[c] = NoRoom
     THEN UNCHANGED <<room, members, farewells>>
     ELSE LET rest == members[room[c]] \ {c} IN
            /\ members' = IF rest = {} THEN members ELSE [members EXCEPT ![room[c]] = rest]
            /\ farewells' = farewells \cup
                 {[who |-> c, to |-> d, nth |-> joins[c]] : d \in rest}
            /\ room' = [room EXCEPT ![c] = NoRoom]

\* Faulty variant: peersToNotify is shared, and a later departure overwrites it.
handleDisconnectOverwrites(c) ==
  /\ LockFree
  /\ IF room[c] = NoRoom
     THEN UNCHANGED <<room, members, farewells>>
     ELSE LET rest == members[room[c]] \ {c} IN
            /\ members' = [members EXCEPT ![room[c]] = rest]
            /\ farewells' = {[who |-> c, to |-> d, nth |-> joins[c]] : d \in rest}
            /\ room' = [room EXCEPT ![c] = NoRoom]

\* handleDisconnect's locked section: the client leaves client.room, and its peers
\* there will be written to after the lock is released.
handleDisconnect(c) ==
  /\ LockFree
  /\ IF room[c] = NoRoom
     THEN UNCHANGED <<room, members, farewells>>
     ELSE LET rest == members[room[c]] \ {c} IN
            /\ members' = [members EXCEPT ![room[c]] = rest]
            /\ farewells' = farewells \cup
                 {[who |-> c, to |-> d, nth |-> joins[c]] : d \in rest}
            /\ room' = [room EXCEPT ![c] = NoRoom]

\* What handleDisconnect upsets if it runs in the middle of c's join.
Interrupts(c) ==
  /\ forgotten' = IF pc[c] = "join" THEN forgotten \cup {<<c, want[c]>>} ELSE forgotten
  /\ untold' = IF pc[c] \in {"welcome", "tell"} THEN untold \cup {c} ELSE untold

\* Faulty variant: it runs more often than writes failed.
SpawnedDisconnectAgain(c) ==
  /\ conn[c] = "broken"
  /\ handleDisconnect(c)
  /\ spawned' = [spawned EXCEPT ![c] = @ - 1]
  /\ Interrupts(c)
  /\ UNCHANGED <<conn, pc, registered, joining, toTell, known, crossed>>

\* The goroutine that a failed write started.
SpawnedDisconnect(c) ==
  /\ spawned[c] > 0
  /\ handleDisconnect(c)
  /\ spawned' = [spawned EXCEPT ![c] = @ - 1]
  /\ Interrupts(c)
  /\ UNCHANGED <<conn, pc, registered, joining, toTell, known, crossed>>

\* rawWrite of peer-left; a failure is ignored.
Farewell(f) ==
  /\ f \in farewells
  /\ farewells' = farewells \ {f}
  /\ known' = IF conn[f.to] = "open" THEN [known EXCEPT ![f.to] = @ \ {f.who}] ELSE known
  /\ crossed' = IF conn[f.to] = "open" /\ pc[f.to] = "welcome"
                THEN crossed \cup {<<f.to, f.who>>} ELSE crossed
  /\ UNCHANGED <<conn, pc, registered, room, members, joining, toTell, spawned, forgotten,
                 untold>>

\* Faulty variant: only an orderly close ends the reading loop.
ReadFailsOnCloseOnly(c) ==
  /\ pc[c] = "read"
  /\ conn[c] = "lost"
  /\ Goto(c, "closing")
  /\ UNCHANGED <<conn, registered, room, members, joining, toTell, spawned, farewells,
                 known, history>>

\* ReadMessage fails and the deferred cleanup begins.
ReadFails(c) ==
  /\ pc[c] = "read"
  /\ conn[c] \in {"lost", "broken"}
  /\ Goto(c, "closing")
  /\ UNCHANGED <<conn, registered, room, members, joining, toTell, spawned, farewells,
                 known, history>>

\* Its first locked section.
Unregister(c) ==
  /\ pc[c] = "closing"
  /\ LockFree
  /\ registered' = registered \ {c}
  /\ Goto(c, "leaving")
  /\ UNCHANGED <<conn, room, members, joining, toTell, spawned, farewells, known, history>>

\* Its second, in handleDisconnect.
Leave(c) ==
  /\ pc[c] = "leaving"
  /\ handleDisconnect(c)
  /\ Goto(c, "gone")
  /\ UNCHANGED <<conn, registered, joining, toTell, spawned, known, history>>

------------------------------------------------------------------------------
(* The network *)

\* Another websocket may go down.  The view of a client that is gone is gone with it.
GoesDown(c, how) ==
  /\ pc[c] \notin {"off", "gone"}
  /\ conn' = [conn EXCEPT ![c] = how]
  /\ known' = [known EXCEPT ![c] = {}]
  /\ UNCHANGED <<pc, registered, room, members, joining, toTell, spawned, farewells,
                 history>>

Down == {c \in Clients : conn[c] \in {"lost", "broken"}}

\* The client goes away, and writes to it still succeed.
Lose(c) ==
  /\ conn[c] = "open"
  /\ Cardinality(Down) < MaxDown
  /\ GoesDown(c, "lost")

\* The kernel learns of it, at once or later: writes fail from now on.
Break(c) ==
  /\ conn[c] = "lost" \/ (conn[c] = "open" /\ Cardinality(Down) < MaxDown)
  /\ GoesDown(c, "broken")

------------------------------------------------------------------------------
\* The steps of the goroutine that handles c's join.
JoinStep(c) ==
  \/ SetRoom(c)
  \/ joinRoom(c)
  \/ Welcome(c)
  \/ StartAnnounce(c)
  \/ \E d \in Clients : Announce(c, d)
  \/ EndAnnounce(c)

\* The steps that take a client out of the server.
LeaveStep(c) ==
  \/ ReadFails(c)
  \/ Unregister(c)
  \/ Leave(c)

Next ==
  \/ \E c \in Clients : Connect(c)
  \/ \E c \in Clients, r \in Rooms : AdmitJoin(c, r)
  \/ \E c \in Clients, r \in Rooms : RefuseJoin(c, r)
  \/ \E c \in Clients : JoinStep(c)
  \/ \E c, d \in Clients : sendToTarget(c, d)
  \/ \E c \in Clients : SpawnedDisconnect(c)
  \/ \E f \in farewells : Farewell(f)
  \/ \E c \in Clients : LeaveStep(c)
  \/ \E c \in Clients : Lose(c)
  \/ \E c \in Clients : Break(c)

\* Goroutines that can run do: the Go scheduler is fair and every section under the lock
\* ends.  Nothing is assumed of clients or of the network.
Fairness ==
  /\ \A c \in Clients : WF_vars(JoinStep(c)) /\ WF_vars(LeaveStep(c))
  /\ \A c \in Clients : WF_vars(SpawnedDisconnect(c))
  /\ WF_vars(\E f \in farewells : Farewell(f))

Spec == Init /\ [][Next]_vars /\ Fairness

------------------------------------------------------------------------------
(* Properties *)

\* Every variable has the shape the code gives it, and the goroutines that run after a
\* failed write are no more than were started.
TypeOK ==
  /\ conn \in [Clients -> {"none", "open", "lost", "broken"}]
  /\ pc \in [Clients -> Places]
  /\ registered \subseteq Clients
  /\ room \in [Clients -> Rooms \cup {NoRoom}]
  /\ members \in [Rooms -> SUBSET Clients]
  /\ want \in [Clients -> Rooms \cup {NoRoom}]
  /\ found \in [Clients -> SUBSET Clients]
  /\ toTell \in [Clients -> SUBSET Clients]
  /\ joins \in [Clients -> 0..MaxJoins]
  /\ spawned \in [Clients -> 0..MaxSpawned]
  /\ farewells \subseteq Farewells
  /\ known \in [Clients -> SUBSET Clients]
  /\ forgotten \subseteq Clients \X Rooms
  /\ untold \subseteq Clients
  /\ crossed \subseteq Clients \X Clients

\* However their joins interleave, two live clients of a room whose joins are done each
\* know the other: one from room-peers, one from peer-joined (joinRoom).
MutualDiscovery ==
  \A r \in Rooms : \A c, d \in members[r] :
    /\ c # d
    /\ pc[c] = "read" /\ pc[d] = "read"
    /\ conn[c] = "open" /\ conn[d] = "open"
    => d \in known[c]

\* c's goroutine is over, and so is all that failed writes to it started.
Over(c) == pc[c] = "gone" /\ spawned[c] = 0

\* A client that is gone for good is in no room but by one of two races: a later join
\* overwrote client.room and left it in this room, or a spawned handleDisconnect cleared
\* client.room between its being set and the client's being added to this room
\* (handleDisconnect, joinRoom).
NoGhostMembers ==
  \A c \in Clients, r \in Rooms :
    Over(c) /\ c \in members[r] => <<c, r>> \in forgotten

\* A live client still counts a peer that is gone only if the peer is a ghost in a room of
\* its own (NoGhostMembers), if the peer's departure overtook the room-peers that named
\* it, or if a spawned handleDisconnect ran for the peer between its addition to the room
\* and its peer-joined (handleDisconnect, joinRoom).
StaleViewsOnlyByRace ==
  \A c, d \in Clients :
    /\ Over(d) /\ ~ \E f \in farewells : f.who = d
    /\ conn[c] = "open" /\ pc[c] = "read"
    /\ d \in known[c]
    => \/ \E r \in Rooms : {c, d} \subseteq members[r]
       \/ <<c, d>> \in crossed
       \/ d \in untold

\* A join that was admitted is carried through, whatever connections fail meanwhile: no
\* goroutine waits for the lock while it holds RLock (joinRoom, writeMessage).
JoinCompletes ==
  \A c \in Clients : pc[c] = "enter" ~> pc[c] = "read"

\* A connection that is down is noticed, and its client leaves the registry for good
\* (the deferred cleanup of handleWebSocket).
DownIsForgotten ==
  \A c \in Clients : conn[c] = "broken" ~> [](c \notin registered)

\* "Validate room capacity limits" (main.go): no room has more than its maximum.
RoomCapacity ==
  \A r \in Rooms : Cardinality(members[r]) <= MaxClientsPerRoom

==============================================================================
