------------------------ MODULE SignalingServerProofs ------------------------
(***************************************************************************)
(* The safety of SignalingServer, for any clients, rooms and limits, and   *)
(* any number of joins and failed connections.                             *)
(*                                                                         *)
(* The three properties speak of clients at rest or gone; the invariant    *)
(* says what they owe each other on the way.  Who is a member of a room is *)
(* known to, or about to be told to, every other member that is alive      *)
(* (Discovery); whom a live client counts, or is about to count, is a      *)
(* member with it, or its peer-left is on its way (Views); and a client is *)
(* in no room but client.room unless that room was forgotten (Membership). *)
(***************************************************************************)
EXTENDS SignalingServer, TLAPS

------------------------------------------------------------------------------
(* The inductive invariant *)

\* The local variables of joinRoom are live only where the code uses them.
Locals ==
  \A c \in Clients :
    /\ pc[c] \in {"enter", "join", "welcome", "tell"} => want[c] \in Rooms
    /\ found[c] # {} => pc[c] = "welcome"
    /\ toTell[c] # {} => pc[c] = "announce"
    /\ c \notin toTell[c]

\* Only connections that are down lead to cleanups, to failed writes and to peer-left,
\* and a client whose connection is not open has no view.
Connections ==
  /\ \A c \in Clients :
       /\ pc[c] = "off" => conn[c] = "none"
       /\ pc[c] \in {"closing", "leaving", "gone"} => conn[c] \in {"lost", "broken"}
       /\ spawned[c] > 0 => conn[c] = "broken"
       /\ conn[c] # "open" => known[c] = {}
  /\ \A f \in farewells : conn[f.who] \in {"lost", "broken"}

\* Where a client is a member: in client.room, or in a room that client.room no longer
\* names.  A client that is gone has left the room client.room named.
Membership ==
  \A c \in Clients :
    /\ pc[c] = "off" => \A r \in Rooms : c \notin members[r]
    /\ \A r \in Rooms : c \in members[r] => room[c] = r \/ <<c, r>> \in forgotten
    /\ pc[c] = "join" => room[c] = want[c] \/ <<c, want[c]>> \in forgotten
    /\ pc[c] = "gone" => room[c] = NoRoom
    /\ c \notin untold /\ pc[c] \in {"welcome", "tell"} => c \in members[want[c]]

\* c and d are members of one room.
Together(c, d) == \E r \in Rooms : c \in members[r] /\ d \in members[r]

\* A member that is alive knows another, or holds its name in existingPeers, or will be
\* told by the other's announcing loop.
Discovery ==
  \A r \in Rooms : \A c, d \in members[r] :
    c # d /\ conn[c] = "open" /\ conn[d] = "open" =>
      \/ d \in known[c]
      \/ d \in found[c]
      \/ pc[d] \in {"welcome", "tell"} /\ want[d] = r
      \/ c \in toTell[d]

\* Whom the announcing loop still has to tell is a member: nobody leaves while it holds
\* RLock.
Announced ==
  \A c, d \in Clients : c \in toTell[d] /\ d \notin untold => Together(c, d)

\* Whom a live client counts, or finds in existingPeers, is a member with it or its
\* peer-left is on its way.
Views ==
  \A c, d \in Clients :
    /\ c # d /\ conn[c] = "open"
    /\ d \in known[c] \cup found[c]
    /\ d \notin untold /\ <<c, d>> \notin crossed
    => Together(c, d) \/ \E f \in farewells : f.who = d /\ f.to = c

SignalingInv ==
  /\ TypeOK
  /\ Locals
  /\ Connections
  /\ Membership
  /\ Discovery
  /\ Announced
  /\ Views

------------------------------------------------------------------------------
(* Types *)

\* A message changes the view of its receiver only, and counts a failed write at most.
LEMMA WriteTypes ==
  ASSUME TypeOK, NEW c \in Clients, NEW view \in SUBSET Clients, writeMessage(c, view)
  PROVE  /\ known' \in [Clients -> SUBSET Clients]
         /\ spawned' \in [Clients -> 0..MaxSpawned]
  BY SignalingAssumption DEF TypeOK, writeMessage

\* A departure concerns client.room only.
LEMMA DisconnectTypes ==
  ASSUME TypeOK, NEW c \in Clients, handleDisconnect(c)
  PROVE  /\ members' \in [Rooms -> SUBSET Clients]
         /\ room' \in [Clients -> Rooms \cup {NoRoom}]
         /\ farewells' \subseteq Farewells
  <1>1. CASE room[c] = NoRoom
    BY <1>1 DEF TypeOK, handleDisconnect
  <1>2. CASE room[c] # NoRoom
    <2>1. room[c] \in Rooms /\ members[room[c]] \subseteq Clients /\ joins[c] \in 0..MaxJoins
      BY <1>2 DEF TypeOK
    <2>2. farewells' \subseteq Farewells
      BY <1>2, <2>1 DEF TypeOK, handleDisconnect, Farewells
    <2> QED
      BY <1>2, <2>1, <2>2 DEF TypeOK, handleDisconnect
  <1> QED
    BY <1>1, <1>2

\* What a departure does to rooms: only c leaves, only client.room, and the others there
\* are owed a peer-left.
LEMMA DisconnectLeaves ==
  ASSUME TypeOK, NEW c \in Clients, handleDisconnect(c)
  PROVE  /\ \A d \in Clients : pc[d] # "announce"
         /\ \A d \in Clients, r \in Rooms :
              d \in members'[r] <=> d \in members[r] /\ (d = c => r # room[c])
         /\ room'[c] = NoRoom /\ \A d \in Clients : d # c => room'[d] = room[d]
         /\ farewells \subseteq farewells'
         /\ \A f \in farewells' : f \in farewells \/ f.who = c
         /\ \A d \in Clients :
              room[c] \in Rooms /\ d \in members[room[c]] /\ d # c
              => \E f \in farewells' : f.who = c /\ f.to = d
  <1>1. \A d \in Clients : pc[d] # "announce"
    BY DEF handleDisconnect, LockFree
  <1>2. CASE room[c] = NoRoom
    BY <1>1, <1>2, SignalingAssumption DEF TypeOK, handleDisconnect
  <1>3. CASE room[c] # NoRoom
    <2> DEFINE owed == {[who |-> c, to |-> d, nth |-> joins[c]] : d \in members[room[c]] \ {c}}
    <2>1. /\ members' = [members EXCEPT ![room[c]] = members[room[c]] \ {c}]
          /\ farewells' = farewells \cup owed
          /\ room' = [room EXCEPT ![c] = NoRoom]
      BY <1>3 DEF handleDisconnect
    <2>2. room[c] \in Rooms
      BY <1>3 DEF TypeOK
    <2>3. \A d \in Clients, r \in Rooms :
            d \in members'[r] <=> d \in members[r] /\ (d = c => r # room[c])
      BY <2>1, <2>2 DEF TypeOK
    <2>4. room'[c] = NoRoom /\ \A d \in Clients : d # c => room'[d] = room[d]
      BY <2>1 DEF TypeOK
    <2>5. \A f \in owed : f.who = c
      OBVIOUS
    <2>6. ASSUME NEW d \in Clients, d \in members[room[c]], d # c
          PROVE  \E f \in owed : f.who = c /\ f.to = d
      <3> DEFINE f == [who |-> c, to |-> d, nth |-> joins[c]]
      <3>1. f \in owed /\ f.who = c /\ f.to = d
        BY <2>6
      <3> QED
        BY <3>1
    <2> HIDE DEF owed
    <2> QED
      BY <1>1, <2>1, <2>3, <2>4, <2>5, <2>6
  <1> QED
    BY <1>2, <1>3

\* Every step keeps the types.
LEMMA StepTypes == TypeOK /\ Locals /\ [Next]_vars => TypeOK'
  <1> SUFFICES ASSUME TypeOK, Locals, [Next]_vars
               PROVE  TypeOK'
    OBVIOUS
  <1> USE SignalingAssumption
  <1>1. ASSUME NEW c \in Clients, Connect(c)
        PROVE  TypeOK'
    BY <1>1 DEF TypeOK, Places, Connect, Goto, joining, history
  <1>2. ASSUME NEW c \in Clients, NEW r \in Rooms, AdmitJoin(c, r)
        PROVE  TypeOK'
    BY <1>2 DEF TypeOK, Places, AdmitJoin, ReadsJoin, Goto, joining, history
  <1>3. ASSUME NEW c \in Clients, NEW r \in Rooms, RefuseJoin(c, r)
        PROVE  TypeOK'
    <2>1. known' \in [Clients -> SUBSET Clients] /\ spawned' \in [Clients -> 0..MaxSpawned]
      <3>1. known[c] \in SUBSET Clients /\ writeMessage(c, known[c])
        BY <1>3 DEF TypeOK, RefuseJoin
      <3> QED
        BY <3>1, WriteTypes
    <2>2. joins' \in [Clients -> 0..MaxJoins]
      BY <1>3 DEF TypeOK, RefuseJoin, ReadsJoin
    <2> QED
      BY <1>3, <2>1, <2>2 DEF TypeOK, Places, RefuseJoin, history
  <1>4. ASSUME NEW c \in Clients, SetRoom(c)
        PROVE  TypeOK'
    BY <1>4 DEF TypeOK, Places, SetRoom, Goto, joining, history
  <1>5. ASSUME NEW c \in Clients, joinRoom(c)
        PROVE  TypeOK'
    BY <1>5 DEF TypeOK, Locals, Places, joinRoom, Goto, joining, history
  <1>6. ASSUME NEW c \in Clients, Welcome(c)
        PROVE  TypeOK'
    <2>1. known' \in [Clients -> SUBSET Clients] /\ spawned' \in [Clients -> 0..MaxSpawned]
      <3>1. known[c] \cup found[c] \in SUBSET Clients
        BY DEF TypeOK
      <3>2. writeMessage(c, known[c] \cup found[c])
        BY <1>6 DEF Welcome
      <3> QED
        BY <3>1, <3>2, WriteTypes
    <2> QED
      BY <1>6, <2>1 DEF TypeOK, Places, Welcome, Goto, joining, history
  <1>7. ASSUME NEW c \in Clients, StartAnnounce(c)
        PROVE  TypeOK'
    BY <1>7 DEF TypeOK, Locals, Places, StartAnnounce, Goto, joining, history
  <1>8. ASSUME NEW c \in Clients, NEW d \in Clients, Announce(c, d)
        PROVE  TypeOK'
    <2>1. known' \in [Clients -> SUBSET Clients] /\ spawned' \in [Clients -> 0..MaxSpawned]
      <3>1. known[d] \cup {c} \in SUBSET Clients
        BY DEF TypeOK
      <3>2. writeMessage(d, known[d] \cup {c})
        BY <1>8 DEF Announce
      <3> QED
        BY <3>1, <3>2, WriteTypes
    <2> QED
      BY <1>8, <2>1 DEF TypeOK, Places, Announce, joining, history
  <1>9. ASSUME NEW c \in Clients, EndAnnounce(c)
        PROVE  TypeOK'
    BY <1>9 DEF TypeOK, Places, EndAnnounce, Goto, joining, history
  <1>10. ASSUME NEW c \in Clients, NEW d \in Clients, sendToTarget(c, d)
         PROVE  TypeOK'
    <2>1. known' \in [Clients -> SUBSET Clients] /\ spawned' \in [Clients -> 0..MaxSpawned]
      <3>1. known[d] \in SUBSET Clients /\ writeMessage(d, known[d])
        BY <1>10 DEF TypeOK, sendToTarget
      <3> QED
        BY <3>1, WriteTypes
    <2> QED
      BY <1>10, <2>1 DEF TypeOK, Places, sendToTarget, joining, history
  <1>11. ASSUME NEW c \in Clients, SpawnedDisconnect(c)
         PROVE  TypeOK'
    <2>1. handleDisconnect(c)
      BY <1>11 DEF SpawnedDisconnect
    <2> QED
      BY <1>11, <2>1, DisconnectTypes
      DEF TypeOK, Places, Locals, SpawnedDisconnect, Interrupts, joining
  <1>12. ASSUME NEW f \in farewells, Farewell(f)
         PROVE  TypeOK'
    <2>1. f.to \in Clients /\ f.who \in Clients
      BY DEF TypeOK, Farewells
    <2>2. known' \in [Clients -> SUBSET Clients] /\ crossed' \subseteq Clients \X Clients
      BY <1>12, <2>1 DEF TypeOK, Farewell
    <2> QED
      BY <1>12, <2>2 DEF TypeOK, Places, Farewell, joining, history
  <1>13. ASSUME NEW c \in Clients, ReadFails(c) \/ Unregister(c)
         PROVE  TypeOK'
    BY <1>13 DEF TypeOK, Places, ReadFails, Unregister, Goto, joining, history
  <1>14. ASSUME NEW c \in Clients, Leave(c)
         PROVE  TypeOK'
    <2>1. handleDisconnect(c)
      BY <1>14 DEF Leave
    <2> QED
      BY <1>14, <2>1, DisconnectTypes DEF TypeOK, Places, Leave, Goto, joining, history
  <1>15. ASSUME NEW c \in Clients, Lose(c) \/ Break(c)
         PROVE  TypeOK'
    BY <1>15 DEF TypeOK, Places, Lose, Break, GoesDown, joining, history
  <1>16. CASE UNCHANGED vars
    BY <1>16 DEF TypeOK, vars, joining, history
  <1> QED
    BY <1>1, <1>2, <1>3, <1>4, <1>5, <1>6, <1>7, <1>8, <1>9, <1>10, <1>11, <1>12, <1>13,
       <1>14, <1>15, <1>16
    DEF Next, JoinStep, LeaveStep
------------------------------------------------------------------------------
(* One lemma per action, and one step per conjunct the action disturbs *)

\* Before any websocket there is nobody to know.
LEMMA InitInv == Init => SignalingInv
  BY SignalingAssumption
  DEF Init, SignalingInv, TypeOK, Places, Farewells, Locals, Connections, Membership,
      Discovery, Announced, Views, Together

\* What a message does to the views and to the failed writes.
LEMMA WriteViews ==
  ASSUME TypeOK, NEW c \in Clients, NEW view \in SUBSET Clients, writeMessage(c, view)
  PROVE  /\ \A d \in Clients : d # c => known'[d] = known[d] /\ spawned'[d] = spawned[d]
         /\ conn[c] = "open" => known'[c] = view
         /\ conn[c] # "open" => known'[c] = known[c]
         /\ conn[c] # "broken" => spawned'[c] = spawned[c]
  BY DEF TypeOK, writeMessage

\* A new websocket is in no room and knows nobody.
LEMMA ConnectKeeps ==
  ASSUME SignalingInv, TypeOK', NEW c \in Clients, Connect(c)
  PROVE  SignalingInv'
  <1> USE DEF SignalingInv, TypeOK, Connect, Goto, joining, history
  <1>1. Locals' /\ Connections'
    BY DEF Locals, Connections, Farewells
  <1>2. Membership'
    BY DEF Membership, Locals
  <1>3. Discovery'
    <2> SUFFICES ASSUME NEW r \in Rooms, NEW d \in members[r], NEW e \in members[r],
                        d # e, conn'[d] = "open", conn'[e] = "open"
                 PROVE  \/ e \in known[d]
                        \/ e \in found[d]
                        \/ pc'[e] \in {"welcome", "tell"} /\ want[e] = r
                        \/ d \in toTell[e]
      BY DEF Discovery
    <2>1. d \in Clients /\ e \in Clients /\ d # c /\ e # c
      BY DEF Membership
    <2> QED
      BY <2>1 DEF Discovery
  <1>4. Announced'
    BY DEF Announced, Together
  <1>5. Views'
    BY DEF Views, Together, Connections, Locals
  <1> QED
    BY <1>1, <1>2, <1>3, <1>4, <1>5

\* A join that is admitted changes no room and no view.
LEMMA AdmitJoinKeeps ==
  ASSUME SignalingInv, TypeOK', NEW c \in Clients, NEW r \in Rooms, AdmitJoin(c, r)
  PROVE  SignalingInv'
  <1> USE DEF SignalingInv, TypeOK, AdmitJoin, ReadsJoin, Goto, history
  <1>1. Locals' /\ Connections'
    BY DEF Locals, Connections
  <1>2. Membership'
    BY DEF Membership, Locals
  <1>3. Discovery'
    BY DEF Discovery
  <1>4. Announced'
    BY DEF Announced, Together
  <1>5. Views'
    BY DEF Views, Together
  <1> QED
    BY <1>1, <1>2, <1>3, <1>4, <1>5

\* A join that is refused changes no room and no view.
LEMMA RefuseJoinKeeps ==
  ASSUME SignalingInv, TypeOK', NEW c \in Clients, NEW r \in Rooms, RefuseJoin(c, r)
  PROVE  SignalingInv'
  <1>1. /\ known' = known
        /\ \A d \in Clients : conn[d] # "broken" => spawned'[d] = spawned[d]
    BY DEF SignalingInv, TypeOK, RefuseJoin, writeMessage
  <1>2. pc[c] = "read" /\ joins' = [joins EXCEPT ![c] = @ + 1]
    BY DEF RefuseJoin, ReadsJoin
  <1>3. UNCHANGED <<conn, pc, registered, room, members, want, found, toTell, farewells,
                    forgotten, untold, crossed>>
    BY DEF RefuseJoin, history
  <1>4. Locals' /\ Connections'
    BY <1>1, <1>3 DEF SignalingInv, TypeOK, Locals, Connections
  <1>5. Membership'
    BY <1>2, <1>3 DEF SignalingInv, TypeOK, Membership
  <1>6. Discovery' /\ Announced'
    BY <1>1, <1>3 DEF SignalingInv, Discovery, Announced, Together
  <1>7. Views'
    BY <1>1, <1>2, <1>3 DEF SignalingInv, TypeOK, Views, Together
  <1> QED
    BY <1>4, <1>5, <1>6, <1>7 DEF SignalingInv

\* client.room is overwritten, and the room it named is forgotten if it is another.
LEMMA SetRoomKeeps ==
  ASSUME SignalingInv, TypeOK', NEW c \in Clients, SetRoom(c)
  PROVE  SignalingInv'
  <1>1. want[c] \in Rooms /\ pc[c] = "enter"
    BY DEF SignalingInv, Locals, SetRoom
  <1>2. /\ pc'[c] = "join" /\ room'[c] = want[c]
        /\ \A d \in Clients : d # c => pc'[d] = pc[d] /\ room'[d] = room[d]
    BY DEF SignalingInv, TypeOK, SetRoom, Goto
  <1>3. \A d \in Clients, r \in Rooms :
          <<d, r>> \in forgotten \/ (d = c /\ r = room[c])
          => <<d, r>> \in forgotten' \/ (d = c /\ r = want[c])
    BY SignalingAssumption DEF SetRoom
  <1>4. UNCHANGED <<conn, registered, members, want, found, joins, toTell, spawned, farewells,
                    known, untold, crossed>>
    BY DEF SetRoom, joining
  <1>5. Locals' /\ Connections'
    BY <1>1, <1>2, <1>4 DEF SignalingInv, Locals, Connections
  <1>6. Membership'
    <2> SUFFICES ASSUME NEW d \in Clients
                 PROVE  /\ pc'[d] = "off" => \A r \in Rooms : d \notin members[r]
                        /\ \A r \in Rooms : d \in members[r] =>
                             room'[d] = r \/ <<d, r>> \in forgotten'
                        /\ pc'[d] = "join" =>
                             room'[d] = want[d] \/ <<d, want[d]>> \in forgotten'
                        /\ pc'[d] = "gone" => room'[d] = NoRoom
                        /\ d \notin untold /\ pc'[d] \in {"welcome", "tell"}
                           => d \in members[want[d]]
      BY <1>4 DEF Membership
    <2>1. CASE d = c
      BY <1>2, <1>3, <2>1 DEF SignalingInv, Membership
    <2>2. CASE d # c
      <3>1. pc[d] = "join" => want[d] \in Rooms
        BY DEF SignalingInv, Locals
      <3> QED
        BY <1>2, <1>3, <2>2, <3>1 DEF SignalingInv, Membership
    <2> QED
      BY <2>1, <2>2
  <1>7. Discovery'
    <2> SUFFICES ASSUME NEW r \in Rooms, NEW d \in members[r], NEW e \in members[r],
                        d # e, conn[d] = "open", conn[e] = "open"
                 PROVE  \/ e \in known[d]
                        \/ e \in found[d]
                        \/ pc'[e] \in {"welcome", "tell"} /\ want[e] = r
                        \/ d \in toTell[e]
      BY <1>4 DEF Discovery
    <2>1. d \in Clients /\ e \in Clients
      BY DEF SignalingInv, TypeOK
    <2> QED
      BY <1>1, <1>2, <2>1 DEF SignalingInv, Discovery
  <1>8. Announced' /\ Views'
    BY <1>4 DEF SignalingInv, Announced, Views, Together
  <1> QED
    BY <1>5, <1>6, <1>7, <1>8 DEF SignalingInv

\* The newcomer has the names of all the members, and they will be told its name.
LEMMA JoinRoomKeeps ==
  ASSUME SignalingInv, TypeOK', NEW c \in Clients, joinRoom(c)
  PROVE  SignalingInv'
  <1>1. want[c] \in Rooms /\ pc[c] = "join"
    BY DEF SignalingInv, Locals, joinRoom
  <1>2. \A d \in Clients, r \in Rooms :
          d \in members'[r] <=> d \in members[r] \/ (d = c /\ r = want[c])
    BY <1>1 DEF SignalingInv, TypeOK, joinRoom
  <1>3. found'[c] = members[want[c]] /\ \A d \in Clients : d # c => found'[d] = found[d]
    BY DEF SignalingInv, TypeOK, joinRoom
  <1>4. pc'[c] = "welcome" /\ \A d \in Clients : d # c => pc'[d] = pc[d]
    BY DEF SignalingInv, TypeOK, joinRoom, Goto
  <1>5. UNCHANGED <<conn, registered, room, want, joins, toTell, spawned, farewells, known,
                    forgotten, untold, crossed>>
    BY DEF joinRoom, history
  <1>6. Locals' /\ Connections'
    BY <1>1, <1>3, <1>4, <1>5 DEF SignalingInv, Locals, Connections, joinRoom
  <1>7. Membership'
    <2> SUFFICES ASSUME NEW d \in Clients
                 PROVE  /\ pc'[d] = "off" => \A r \in Rooms : d \notin members'[r]
                        /\ \A r \in Rooms : d \in members'[r] =>
                             room[d] = r \/ <<d, r>> \in forgotten
                        /\ pc'[d] = "join" => room[d] = want[d] \/ <<d, want[d]>> \in forgotten
                        /\ pc'[d] = "gone" => room[d] = NoRoom
                        /\ d \notin untold /\ pc'[d] \in {"welcome", "tell"}
                           => d \in members'[want[d]]
      BY <1>5 DEF Membership
    <2>1. CASE d = c
      BY <1>1, <1>2, <1>4, <2>1 DEF SignalingInv, Membership
    <2>2. CASE d # c
      BY <1>2, <1>4, <2>2 DEF SignalingInv, TypeOK, Membership, Locals
    <2> QED
      BY <2>1, <2>2
  <1>8. Discovery'
    <2> SUFFICES ASSUME NEW r \in Rooms, NEW d \in members'[r], NEW e \in members'[r],
                        d # e, conn[d] = "open", conn[e] = "open"
                 PROVE  \/ e \in known[d]
                        \/ e \in found'[d]
                        \/ pc'[e] \in {"welcome", "tell"} /\ want[e] = r
                        \/ d \in toTell[e]
      BY <1>5 DEF Discovery
    <2>1. d \in Clients /\ e \in Clients
      BY <1>2 DEF SignalingInv, TypeOK
    <2>2. CASE d = c /\ r = want[c]
      BY <1>2, <1>3, <2>1, <2>2
    <2>3. CASE e = c /\ r = want[c]
      BY <1>4, <2>3
    <2>4. CASE d \in members[r] /\ e \in members[r]
      BY <1>1, <1>3, <1>4, <2>1, <2>4 DEF SignalingInv, Discovery, Locals
    <2> QED
      BY <1>2, <2>1, <2>2, <2>3, <2>4
  <1>9. \A d, e \in Clients : Together(d, e) => Together(d, e)'
    BY <1>2 DEF Together
  <1>10. Announced'
    BY <1>5, <1>9 DEF SignalingInv, Announced
  <1>11. Views'
    <2> SUFFICES ASSUME NEW d \in Clients, NEW e \in Clients,
                        d # e, conn[d] = "open", e \in known[d] \cup found'[d],
                        e \notin untold, <<d, e>> \notin crossed
                 PROVE  Together(d, e)' \/ \E f \in farewells : f.who = e /\ f.to = d
      BY <1>5 DEF Views
    <2>1. CASE d = c /\ e \in found'[c]
      BY <1>1, <1>2, <1>3, <2>1 DEF Together
    <2>2. CASE e \in known[d] \cup found[d]
      BY <1>9, <2>2 DEF SignalingInv, Views
    <2> QED
      BY <1>3, <2>1, <2>2
  <1> QED
    BY <1>6, <1>7, <1>8, <1>10, <1>11 DEF SignalingInv
\* What was in existingPeers is now in the view, if there is still one.
LEMMA WelcomeKeeps ==
  ASSUME SignalingInv, TypeOK', NEW c \in Clients, Welcome(c)
  PROVE  SignalingInv'
  <1>1. /\ \A d \in Clients : d # c => known'[d] = known[d] /\ spawned'[d] = spawned[d]
        /\ conn[c] = "open" => known'[c] = known[c] \cup found[c]
        /\ conn[c] # "open" => known'[c] = known[c]
        /\ conn[c] # "broken" => spawned'[c] = spawned[c]
    <2>1. writeMessage(c, known[c] \cup found[c])
      BY DEF Welcome
    <2>2. TypeOK /\ known[c] \cup found[c] \in SUBSET Clients
      BY DEF SignalingInv, TypeOK
    <2> QED
      BY <2>1, <2>2, WriteViews
  <1>2. /\ found'[c] = {} /\ \A d \in Clients : d # c => found'[d] = found[d]
        /\ pc[c] = "welcome"
        /\ pc'[c] = "tell" /\ \A d \in Clients : d # c => pc'[d] = pc[d]
    BY DEF SignalingInv, TypeOK, Welcome, Goto
  <1>3. UNCHANGED <<conn, registered, room, members, want, joins, toTell, farewells,
                    forgotten, untold, crossed>>
    BY DEF Welcome, history
  <1>4. Locals' /\ Connections'
    BY <1>1, <1>2, <1>3 DEF SignalingInv, Locals, Connections
  <1>5. Membership'
    BY <1>2, <1>3 DEF SignalingInv, Membership
  <1>6. Discovery'
    <2> SUFFICES ASSUME NEW r \in Rooms, NEW d \in members[r], NEW e \in members[r],
                        d # e, conn[d] = "open", conn[e] = "open"
                 PROVE  \/ e \in known'[d]
                        \/ e \in found'[d]
                        \/ pc'[e] \in {"welcome", "tell"} /\ want[e] = r
                        \/ d \in toTell[e]
      BY <1>3 DEF Discovery
    <2>1. d \in Clients /\ e \in Clients
      BY DEF SignalingInv, TypeOK
    <2> QED
      BY <1>1, <1>2, <2>1 DEF SignalingInv, Discovery
  <1>7. Announced'
    BY <1>3 DEF SignalingInv, Announced, Together
  <1>8. \A d \in Clients : conn[d] = "open" =>
          known'[d] \cup found'[d] \subseteq known[d] \cup found[d]
    BY <1>1, <1>2
  <1>9. Views'
    BY <1>3, <1>8 DEF SignalingInv, Views, Together
  <1> QED
    BY <1>4, <1>5, <1>6, <1>7, <1>9 DEF SignalingInv

\* Everyone else in the room will be told, and is in the room with the newcomer.
LEMMA StartAnnounceKeeps ==
  ASSUME SignalingInv, TypeOK', NEW c \in Clients, StartAnnounce(c)
  PROVE  SignalingInv'
  <1>1. want[c] \in Rooms /\ pc[c] = "tell"
    BY DEF SignalingInv, Locals, StartAnnounce
  <1>2. /\ toTell'[c] = members[want[c]] \ {c}
        /\ \A d \in Clients : d # c => toTell'[d] = toTell[d] /\ want'[d] = want[d]
        /\ pc'[c] = "announce" /\ \A d \in Clients : d # c => pc'[d] = pc[d]
    BY <1>1 DEF SignalingInv, TypeOK, StartAnnounce, Goto
  <1>3. UNCHANGED <<conn, registered, room, members, found, joins, spawned, farewells,
                    known, forgotten, untold, crossed>>
    BY DEF StartAnnounce, history
  <1>4. Locals' /\ Connections'
    BY <1>1, <1>2, <1>3 DEF SignalingInv, Locals, Connections
  <1>5. Membership'
    BY <1>2, <1>3 DEF SignalingInv, Membership
  <1>6. Discovery'
    <2> SUFFICES ASSUME NEW r \in Rooms, NEW d \in members[r], NEW e \in members[r],
                        d # e, conn[d] = "open", conn[e] = "open"
                 PROVE  \/ e \in known[d]
                        \/ e \in found[d]
                        \/ pc'[e] \in {"welcome", "tell"} /\ want'[e] = r
                        \/ d \in toTell'[e]
      BY <1>3 DEF Discovery
    <2>1. d \in Clients /\ e \in Clients
      BY DEF SignalingInv, TypeOK
    <2> QED
      BY <1>1, <1>2, <2>1 DEF SignalingInv, Discovery, Locals
  <1>7. Announced'
    <2>1. c \notin untold => c \in members[want[c]]
      BY <1>1 DEF SignalingInv, Membership
    <2>2. c \notin untold => \A d \in toTell'[c] : Together(d, c)
      BY <1>1, <1>2, <2>1 DEF Together
    <2> QED
      BY <1>2, <1>3, <2>2 DEF SignalingInv, Announced, Together
  <1>8. Views'
    BY <1>3 DEF SignalingInv, Views, Together
  <1> QED
    BY <1>4, <1>5, <1>6, <1>7, <1>8 DEF SignalingInv

\* The member that is told counts the newcomer, which is in the room with it.
LEMMA AnnounceKeeps ==
  ASSUME SignalingInv, TypeOK', NEW c \in Clients, NEW d \in Clients, Announce(c, d)
  PROVE  SignalingInv'
  <1>1. /\ \A e \in Clients : e # d => known'[e] = known[e] /\ spawned'[e] = spawned[e]
        /\ conn[d] = "open" => known'[d] = known[d] \cup {c}
        /\ conn[d] # "open" => known'[d] = known[d]
        /\ conn[d] # "broken" => spawned'[d] = spawned[d]
    <2>1. writeMessage(d, known[d] \cup {c})
      BY DEF Announce
    <2>2. TypeOK /\ known[d] \cup {c} \in SUBSET Clients
      BY DEF SignalingInv, TypeOK
    <2> QED
      BY <2>1, <2>2, WriteViews
  <1>2. /\ d \in toTell[c] /\ toTell'[c] = toTell[c] \ {d}
        /\ \A e \in Clients : e # c => toTell'[e] = toTell[e]
    BY DEF SignalingInv, TypeOK, Announce
  <1>3. UNCHANGED <<conn, pc, registered, room, members, want, found, joins, farewells,
                    forgotten, untold, crossed>>
    BY DEF Announce, joining, history
  <1>4. Locals' /\ Connections'
    BY <1>1, <1>2, <1>3 DEF SignalingInv, Locals, Connections
  <1>5. Membership'
    BY <1>3 DEF SignalingInv, Membership
  <1>6. Discovery'
    <2> SUFFICES ASSUME NEW r \in Rooms, NEW x \in members[r], NEW y \in members[r],
                        x # y, conn[x] = "open", conn[y] = "open"
                 PROVE  \/ y \in known'[x]
                        \/ y \in found[x]
                        \/ pc[y] \in {"welcome", "tell"} /\ want[y] = r
                        \/ x \in toTell'[y]
      BY <1>3 DEF Discovery
    <2>1. x \in Clients /\ y \in Clients
      BY DEF SignalingInv, TypeOK
    <2> QED
      BY <1>1, <1>2, <2>1 DEF SignalingInv, Discovery
  <1>7. Announced'
    BY <1>2, <1>3 DEF SignalingInv, Announced, Together
  <1>8. Views'
    <2> SUFFICES ASSUME NEW x \in Clients, NEW y \in Clients,
                        x # y, conn[x] = "open", y \in known'[x] \cup found[x],
                        y \notin untold, <<x, y>> \notin crossed
                 PROVE  Together(x, y) \/ \E f \in farewells : f.who = y /\ f.to = x
      BY <1>3 DEF Views, Together
    <2>1. CASE y \in known[x] \cup found[x]
      BY <2>1 DEF SignalingInv, Views
    <2>2. CASE x = d /\ y = c
      BY <1>2, <2>2 DEF SignalingInv, Announced
    <2> QED
      BY <1>1, <2>1, <2>2
  <1> QED
    BY <1>4, <1>5, <1>6, <1>7, <1>8 DEF SignalingInv

\* An announcing loop that is over has nobody left to tell.
LEMMA EndAnnounceKeeps ==
  ASSUME SignalingInv, TypeOK', NEW c \in Clients, EndAnnounce(c)
  PROVE  SignalingInv'
  <1> USE DEF SignalingInv, TypeOK, EndAnnounce, Goto, joining, history
  <1>1. Locals' /\ Connections'
    BY DEF Locals, Connections
  <1>2. Membership'
    BY DEF Membership
  <1>3. Discovery'
    BY DEF Discovery
  <1>4. Announced' /\ Views'
    BY DEF Announced, Views, Together
  <1> QED
    BY <1>1, <1>2, <1>3, <1>4

\* A relayed message changes no view.
LEMMA SendToTargetKeeps ==
  ASSUME SignalingInv, TypeOK', NEW c \in Clients, NEW d \in Clients, sendToTarget(c, d)
  PROVE  SignalingInv'
  <1>1. /\ known' = known
        /\ \A e \in Clients : conn[e] # "broken" => spawned'[e] = spawned[e]
    BY DEF SignalingInv, TypeOK, sendToTarget, writeMessage
  <1>2. UNCHANGED <<conn, pc, registered, room, members, joining, toTell, farewells,
                    forgotten, untold, crossed>>
    BY DEF sendToTarget, history
  <1> QED
    BY <1>1, <1>2
    DEF SignalingInv, joining, Locals, Connections, Membership, Discovery, Announced, Views,
        Together
\* What both uses of handleDisconnect keep: the client is down, nobody announces, and
\* those it leaves behind in its only room are owed a peer-left.
LEMMA DisconnectKeeps ==
  ASSUME SignalingInv, TypeOK', NEW c \in Clients, handleDisconnect(c),
         conn[c] \in {"lost", "broken"},
         UNCHANGED <<conn, want, found, toTell, joins, known, crossed>>,
         forgotten \subseteq forgotten', untold \subseteq untold',
         \A d \in Clients : d # c => pc'[d] = pc[d],
         \/ /\ pc'[c] = pc[c]
            /\ pc[c] = "join" => <<c, want[c]>> \in forgotten'
            /\ pc[c] \in {"welcome", "tell"} => c \in untold'
         \/ pc'[c] = "gone"
  PROVE  Membership' /\ Discovery' /\ Announced' /\ Views'
  <1>1. /\ \A d \in Clients : pc[d] # "announce"
        /\ \A d \in Clients, r \in Rooms :
             d \in members'[r] <=> d \in members[r] /\ (d = c => r # room[c])
        /\ \A d \in Clients : d # c => room'[d] = room[d]
        /\ farewells \subseteq farewells'
        /\ \A f \in farewells' : f \in farewells \/ f.who = c
        /\ \A d \in Clients :
             room[c] \in Rooms /\ d \in members[room[c]] /\ d # c
             => \E f \in farewells' : f.who = c /\ f.to = d
    BY DisconnectLeaves DEF SignalingInv
  <1>2. room'[c] = NoRoom
    BY DisconnectLeaves DEF SignalingInv
  <1>3. Membership'
    <2> SUFFICES ASSUME NEW d \in Clients
                 PROVE  /\ pc'[d] = "off" => \A r \in Rooms : d \notin members'[r]
                        /\ \A r \in Rooms : d \in members'[r] =>
                             room'[d] = r \/ <<d, r>> \in forgotten'
                        /\ pc'[d] = "join" =>
                             room'[d] = want[d] \/ <<d, want[d]>> \in forgotten'
                        /\ pc'[d] = "gone" => room'[d] = NoRoom
                        /\ d \notin untold' /\ pc'[d] \in {"welcome", "tell"}
                           => d \in members'[want[d]]
      BY DEF Membership
    <2>1. CASE d = c
      BY <1>1, <1>2, <2>1 DEF SignalingInv, Membership
    <2>2. CASE d # c
      <3>1. pc[d] \in {"welcome", "tell"} => want[d] \in Rooms
        BY DEF SignalingInv, Locals
      <3> QED
        BY <1>1, <2>2, <3>1 DEF SignalingInv, Membership
    <2> QED
      BY <2>1, <2>2
  <1>4. Discovery'
    <2> SUFFICES ASSUME NEW r \in Rooms, NEW d \in members'[r], NEW e \in members'[r],
                        d # e, conn[d] = "open", conn[e] = "open"
                 PROVE  \/ e \in known[d]
                        \/ e \in found[d]
                        \/ pc'[e] \in {"welcome", "tell"} /\ want[e] = r
                        \/ d \in toTell[e]
      BY DEF Discovery
    <2>1. d \in Clients /\ e \in Clients
      BY DEF TypeOK
    <2>2. d \in members[r] /\ e \in members[r] /\ e # c
      BY <1>1, <2>1
    <2> QED
      BY <2>1, <2>2 DEF SignalingInv, Discovery
  <1>5. Announced'
    BY <1>1 DEF SignalingInv, Locals, Announced
  <1>6. Views'
    <2> SUFFICES ASSUME NEW d \in Clients, NEW e \in Clients,
                        d # e, conn[d] = "open", e \in known[d] \cup found[d],
                        e \notin untold', <<d, e>> \notin crossed
                 PROVE  Together(d, e)' \/ \E f \in farewells' : f.who = e /\ f.to = d
      BY DEF Views
    <2>1. CASE \E f \in farewells : f.who = e /\ f.to = d
      BY <1>1, <2>1
    <2>2. CASE Together(d, e)
      <3>1. PICK r \in Rooms : d \in members[r] /\ e \in members[r]
        BY <2>2 DEF Together
      <3>2. CASE e = c /\ room[c] = r
        BY <1>1, <3>1, <3>2
      <3>3. CASE e = c /\ room[c] # r
        <4>1. d # c
          OBVIOUS
        <4> QED
          BY <1>1, <3>1, <3>3, <4>1 DEF Together
      <3>4. CASE e # c
        <4>1. d # c
          OBVIOUS
        <4> QED
          BY <1>1, <3>1, <3>4, <4>1 DEF Together
      <3> QED
        BY <3>2, <3>3, <3>4
    <2>3. e \notin untold
      OBVIOUS
    <2> QED
      BY <2>1, <2>2, <2>3 DEF SignalingInv, Views
  <1> QED
    BY <1>3, <1>4, <1>5, <1>6

\* A spawned handleDisconnect is recorded if it runs in the middle of a join.
LEMMA SpawnedDisconnectKeeps ==
  ASSUME SignalingInv, TypeOK', NEW c \in Clients, SpawnedDisconnect(c)
  PROVE  SignalingInv'
  <1>1. /\ handleDisconnect(c) /\ conn[c] = "broken" /\ Interrupts(c)
        /\ UNCHANGED <<conn, pc, registered, want, found, toTell, joins, known, crossed>>
    BY DEF SignalingInv, Connections, SpawnedDisconnect, joining, history
  <1>2. Membership' /\ Discovery' /\ Announced' /\ Views'
    <2>1. /\ forgotten \subseteq forgotten' /\ untold \subseteq untold'
          /\ pc[c] = "join" => <<c, want[c]>> \in forgotten'
          /\ pc[c] \in {"welcome", "tell"} => c \in untold'
      BY <1>1 DEF Interrupts
    <2> QED
      BY <1>1, <2>1, DisconnectKeeps
  <1>3. \A f \in farewells' : f \in farewells \/ f.who = c
    BY <1>1, DisconnectLeaves DEF SignalingInv
  <1>4. \A d \in Clients : spawned'[d] > 0 => conn[d] = "broken"
    BY <1>1 DEF SignalingInv, TypeOK, Connections, SpawnedDisconnect
  <1>5. Locals' /\ Connections'
    BY <1>1, <1>3, <1>4 DEF SignalingInv, Locals, Connections
  <1> QED
    BY <1>2, <1>5 DEF SignalingInv

\* The deferred handleDisconnect is the last step of its client.
LEMMA LeaveKeeps ==
  ASSUME SignalingInv, TypeOK', NEW c \in Clients, Leave(c)
  PROVE  SignalingInv'
  <1>1. /\ handleDisconnect(c) /\ conn[c] \in {"lost", "broken"} /\ pc[c] = "leaving"
        /\ pc'[c] = "gone" /\ \A d \in Clients : d # c => pc'[d] = pc[d]
        /\ UNCHANGED <<conn, registered, want, found, toTell, joins, spawned, known,
                       forgotten, untold, crossed>>
    BY DEF SignalingInv, TypeOK, Connections, Leave, Goto, joining, history
  <1>2. Membership' /\ Discovery' /\ Announced' /\ Views'
    BY <1>1, DisconnectKeeps
  <1>3. \A f \in farewells' : f \in farewells \/ f.who = c
    BY <1>1, DisconnectLeaves DEF SignalingInv
  <1>4. Locals' /\ Connections'
    BY <1>1, <1>3 DEF SignalingInv, Locals, Connections
  <1> QED
    BY <1>2, <1>4 DEF SignalingInv

\* A peer-left takes its peer out of the view, and is recorded as crossed if the peer is
\* still in existingPeers.
LEMMA FarewellKeeps ==
  ASSUME SignalingInv, TypeOK', NEW f \in farewells, Farewell(f)
  PROVE  SignalingInv'
  <1>1. /\ f.to \in Clients /\ f.who \in Clients /\ conn[f.who] \in {"lost", "broken"}
        /\ farewells' = farewells \ {f}
    BY DEF SignalingInv, TypeOK, Farewells, Connections, Farewell
  <1>2. \A d \in Clients :
          /\ known'[d] \subseteq known[d]
          /\ d # f.to => known'[d] = known[d]
          /\ \A e \in known[d] : e \in known'[d] \/ e = f.who
    BY DEF SignalingInv, TypeOK, Farewell
  <1>3. /\ conn[f.to] = "open" => f.who \notin known'[f.to]
        /\ conn[f.to] = "open" /\ pc[f.to] = "welcome" => <<f.to, f.who>> \in crossed'
        /\ crossed \subseteq crossed'
    BY <1>1 DEF SignalingInv, TypeOK, Farewell
  <1>4. UNCHANGED <<conn, pc, registered, room, members, want, found, joins, toTell, spawned,
                    forgotten, untold>>
    BY DEF Farewell, joining, history
  <1>5. Locals' /\ Connections'
    BY <1>1, <1>2, <1>4 DEF SignalingInv, Locals, Connections
  <1>6. Membership' /\ Announced'
    BY <1>4 DEF SignalingInv, Membership, Announced, Together
  <1>7. Discovery'
    <2> SUFFICES ASSUME NEW r \in Rooms, NEW d \in members[r], NEW e \in members[r],
                        d # e, conn[d] = "open", conn[e] = "open"
                 PROVE  \/ e \in known'[d]
                        \/ e \in found[d]
                        \/ pc[e] \in {"welcome", "tell"} /\ want[e] = r
                        \/ d \in toTell[e]
      BY <1>4 DEF Discovery
    <2>1. d \in Clients /\ e \in Clients
      BY DEF SignalingInv, TypeOK
    <2> QED
      BY <1>1, <1>2, <2>1 DEF SignalingInv, Discovery
  <1>8. Views'
    <2> SUFFICES ASSUME NEW d \in Clients, NEW e \in Clients,
                        d # e, conn[d] = "open", e \in known'[d] \cup found[d],
                        e \notin untold, <<d, e>> \notin crossed'
                 PROVE  Together(d, e) \/ \E g \in farewells' : g.who = e /\ g.to = d
      BY <1>4 DEF Views, Together
    <2>1. Together(d, e) \/ \E g \in farewells : g.who = e /\ g.to = d
      BY <1>2, <1>3 DEF SignalingInv, Views
    <2>2. ~ (f.who = e /\ f.to = d)
      BY <1>3 DEF SignalingInv, Locals
    <2> QED
      BY <1>1, <2>1, <2>2
  <1> QED
    BY <1>5, <1>6, <1>7, <1>8 DEF SignalingInv

\* The reading loop ends and the client is taken from the registry: no room changes.
LEMMA CleanupKeeps ==
  ASSUME SignalingInv, TypeOK', NEW c \in Clients, ReadFails(c) \/ Unregister(c)
  PROVE  SignalingInv'
  <1>1. /\ pc[c] \in {"read", "closing"} /\ pc'[c] \in {"closing", "leaving"}
        /\ conn[c] \in {"lost", "broken"}
        /\ \A d \in Clients : d # c => pc'[d] = pc[d]
        /\ UNCHANGED <<conn, room, members, joining, toTell, spawned, farewells, known,
                       forgotten, untold, crossed>>
    BY DEF SignalingInv, TypeOK, Connections, ReadFails, Unregister, Goto, history
  <1>2. Locals' /\ Connections'
    BY <1>1 DEF SignalingInv, Locals, Connections, joining, history
  <1>3. Membership'
    BY <1>1 DEF SignalingInv, Membership, joining, history
  <1>4. Discovery'
    <2> SUFFICES ASSUME NEW r \in Rooms, NEW d \in members[r], NEW e \in members[r],
                        d # e, conn[d] = "open", conn[e] = "open"
                 PROVE  \/ e \in known[d]
                        \/ e \in found[d]
                        \/ pc'[e] \in {"welcome", "tell"} /\ want[e] = r
                        \/ d \in toTell[e]
      BY <1>1 DEF Discovery, joining, history
    <2>1. d \in Clients /\ e \in Clients
      BY DEF SignalingInv, TypeOK
    <2> QED
      BY <1>1, <2>1 DEF SignalingInv, Discovery
  <1>5. Announced' /\ Views'
    BY <1>1 DEF SignalingInv, Announced, Views, Together, joining, history
  <1> QED
    BY <1>2, <1>3, <1>4, <1>5 DEF SignalingInv

\* A connection that goes down takes its view with it, and owes nothing to anyone.
LEMMA GoesDownKeeps ==
  ASSUME SignalingInv, TypeOK', NEW c \in Clients, Lose(c) \/ Break(c)
  PROVE  SignalingInv'
  <1>1. /\ pc[c] # "off"
        /\ conn[c] = "broken" => conn'[c] = "broken"
        /\ conn'[c] \in {"lost", "broken"} /\ \A d \in Clients : d # c => conn'[d] = conn[d]
        /\ known'[c] = {} /\ \A d \in Clients : d # c => known'[d] = known[d]
        /\ UNCHANGED <<pc, registered, room, members, joining, toTell, spawned, farewells,
                       forgotten, untold, crossed>>
    BY DEF SignalingInv, TypeOK, Lose, Break, GoesDown, history
  <1>2. \A g \in farewells : g.who \in Clients
    BY DEF SignalingInv, TypeOK, Farewells
  <1>3. Locals' /\ Connections'
    BY <1>1, <1>2 DEF SignalingInv, Locals, Connections, joining, Lose, Break
  <1>4. Membership'
    BY <1>1 DEF SignalingInv, Membership, joining, history
  <1>5. Discovery'
    <2> SUFFICES ASSUME NEW r \in Rooms, NEW d \in members[r], NEW e \in members[r],
                        d # e, conn'[d] = "open", conn'[e] = "open"
                 PROVE  \/ e \in known'[d]
                        \/ e \in found[d]
                        \/ pc[e] \in {"welcome", "tell"} /\ want[e] = r
                        \/ d \in toTell[e]
      BY <1>1 DEF Discovery, joining, history
    <2>1. d \in Clients /\ e \in Clients
      BY DEF SignalingInv, TypeOK
    <2> QED
      BY <1>1, <2>1 DEF SignalingInv, Discovery
  <1>6. Announced' /\ Views'
    BY <1>1 DEF SignalingInv, Announced, Views, Together, joining, history
  <1> QED
    BY <1>3, <1>4, <1>5, <1>6 DEF SignalingInv

------------------------------------------------------------------------------
(* The theorems *)

\* Every step keeps the invariant.
LEMMA Step == SignalingInv /\ [Next]_vars => SignalingInv'
  <1> SUFFICES ASSUME SignalingInv, [Next]_vars
               PROVE  SignalingInv'
    OBVIOUS
  <1>1. TypeOK'
    BY StepTypes DEF SignalingInv
  <1>2. CASE UNCHANGED vars
    BY <1>2
    DEF SignalingInv, vars, joining, history, TypeOK, Locals, Connections, Membership, Discovery,
        Announced, Views, Together
  <1>3. CASE Next
    BY <1>1, <1>3, ConnectKeeps, AdmitJoinKeeps, RefuseJoinKeeps, SetRoomKeeps,
       JoinRoomKeeps, WelcomeKeeps, StartAnnounceKeeps, AnnounceKeeps, EndAnnounceKeeps,
       SendToTargetKeeps, SpawnedDisconnectKeeps, FarewellKeeps, CleanupKeeps, LeaveKeeps,
       GoesDownKeeps
    DEF Next, JoinStep, LeaveStep
  <1> QED
    BY <1>2, <1>3

\* The invariant holds in every state of every behaviour.
LEMMA Invariant == Spec => []SignalingInv
  BY InitInv, Step, PTL DEF Spec

\* The server's maps and locals always have the shape main.go gives them, and no more
\* handleDisconnect goroutines are left to run than were started.
THEOREM ServerTypes == Spec => []TypeOK
  <1>1. SignalingInv => TypeOK
    BY DEF SignalingInv
  <1> QED
    BY <1>1, Invariant, PTL

\* For any number of clients and rooms, and any interleaving of their joins with failed
\* writes: two live members of a room whose joins are done know each other.
THEOREM MembersDiscoverEachOther == Spec => []MutualDiscovery
  <1>1. SignalingInv => MutualDiscovery
    <2> SUFFICES ASSUME SignalingInv, NEW r \in Rooms, NEW c \in members[r],
                        NEW d \in members[r], c # d, pc[c] = "read", pc[d] = "read",
                        conn[c] = "open", conn[d] = "open"
                 PROVE  d \in known[c]
      BY DEF MutualDiscovery
    <2>1. c \in Clients /\ d \in Clients
      BY DEF SignalingInv, TypeOK
    <2>2. found[c] = {} /\ toTell[d] = {}
      BY <2>1 DEF SignalingInv, Locals
    <2> QED
      BY <2>2 DEF SignalingInv, Discovery
  <1> QED
    BY <1>1, Invariant, PTL

\* A client that is gone is a member of a room only if a later join overwrote client.room
\* there, or a spawned handleDisconnect cleared it before the client was added.
THEOREM OnlyRacesLeaveGhosts == Spec => []NoGhostMembers
  <1>1. SignalingInv => NoGhostMembers
    <2> SUFFICES ASSUME SignalingInv, NEW c \in Clients, NEW r \in Rooms, pc[c] = "gone",
                        c \in members[r]
                 PROVE  <<c, r>> \in forgotten
      BY DEF NoGhostMembers, Over
    <2> QED
      BY SignalingAssumption DEF SignalingInv, Membership
  <1> QED
    BY <1>1, Invariant, PTL

\* A live client counts a peer that is gone only if the peer is a ghost in its room, its
\* departure overtook the room-peers that named it, or a spawned handleDisconnect ran for
\* it between its addition to the room and its peer-joined.
THEOREM OnlyRacesLeaveStaleViews == Spec => []StaleViewsOnlyByRace
  <1>1. SignalingInv => StaleViewsOnlyByRace
    <2> SUFFICES ASSUME SignalingInv, NEW c \in Clients, NEW d \in Clients, pc[d] = "gone",
                        ~ \E f \in farewells : f.who = d, conn[c] = "open",
                        d \in known[c], <<c, d>> \notin crossed, d \notin untold
                 PROVE  \E r \in Rooms : {c, d} \subseteq members[r]
      BY DEF StaleViewsOnlyByRace, Over
    <2>1. c # d
      BY DEF SignalingInv, Connections
    <2>2. Together(c, d)
      BY <2>1 DEF SignalingInv, Views
    <2> QED
      BY <2>2 DEF Together
  <1> QED
    BY <1>1, Invariant, PTL

==============================================================================
