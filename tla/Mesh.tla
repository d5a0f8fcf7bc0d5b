--------------------------------- MODULE Mesh ---------------------------------
(***************************************************************************)
(* How the browsers of a room connect to each other: MeshManager and       *)
(* PeerConnection in every browser, with the RTCPeerConnection they drive  *)
(* and the signaling server between them.                                  *)
(*                                                                         *)
(* handleSignalingMessage is not awaited by its caller, so its handlers    *)
(* overlap; what orders them is the operations chain of the                *)
(* RTCPeerConnection, which ends one asynchronous operation after the      *)
(* other.  An action is a message up to its first await, or one operation  *)
(* of a chain with the code that awaits it.                                *)
(*                                                                         *)
(* A browser knows the others by the ids the server gave their websockets, *)
(* and itself by an id of its own (ShadowCast.peerId): the server's        *)
(* self-id message is not read.  Ids are random; numbers stand for them,   *)
(* for the code compares them.  The server is the one of module SignalingServer, free of races.  *)
(* ICE candidates are left out: a link comes up, fails, or does neither.   *)
(***************************************************************************)
EXTENDS Naturals, Sequences, FiniteSets

CONSTANTS
  Browsers,
  Draws,          \* the ids considered, of browsers and of their websockets
  MaxSessions,    \* bound: websockets made in a behaviour
  MaxTroubles,    \* bound: websockets that drop or are given up, and links that fail
  None

\* Websockets, in the order in which they are made.
Sessions == 1..MaxSessions

ASSUME MeshAssumption ==
  /\ MaxSessions \in Nat /\ MaxTroubles \in Nat
  /\ Draws \subseteq [local : [Browsers -> Nat], session : [Sessions -> Nat]]

VARIABLES
  ids,          \* localPeerId of each browser, and the server's id of each websocket
  sid,          \* the websocket of a browser, 0 for none
  used,         \* the number of websockets made
  members,      \* the server's room
  announcing,   \* members whose peer-joined is still to be sent
  inbox,        \* messages on their way from the server to a browser, in order
  peers,        \* MeshManager.peers of a browser: its PeerConnection to a session
  made,         \* how many PeerConnections a browser has made for a session
  troubles,     \* how many there were
  missed        \* history: <<b, s>> when b lost its link to s, or had an old connection or an
                \* interrupted loop that keeps it from offering to s

server == <<used, members, announcing>>
vars == <<ids, sid, server, inbox, peers, made, troubles, missed>>

\* PeerConnection objects: the nth that a browser made for a session.
Ids == Browsers \X Sessions \X Nat

\* An asynchronous operation of an RTCPeerConnection.  `rest' is what the loop over
\* room-peers has still to visit; `pc' the PeerConnection a description comes from.
Operation ==
  [op : {"createOffer", "setLocalOffer"}, rest : SUBSET Sessions]
    \cup [op : {"setRemoteOffer", "setRemoteAnswer"}, pc : Ids]
    \cup [op : {"createAnswer", "setLocalAnswer"}]

\* `far' is the PeerConnection that the remote description is of.
PeerConnection ==
  [pc : Ids, far : Ids \cup {None}, dc : {"none", "open", "closed"}, chain : Seq(Operation),
   signalingState : {"stable", "have-local-offer", "have-remote-offer"}]

Message ==
  [type : {"room-peers"}, peers : SUBSET Sessions]
    \cup [type : {"peer-joined", "peer-left"}, id : Sessions]
    \cup [type : {"offer", "answer"}, from : Sessions, pc : Ids]

ASSUME NoneAssumption == None \notin PeerConnection \cup Ids

NoPeers == [s \in Sessions |-> None]

Init ==
  /\ ids \in Draws
  /\ sid = [b \in Browsers |-> 0]
  /\ used = 0
  /\ members = {}
  /\ announcing = {}
  /\ inbox = [b \in Browsers |-> <<>>]
  /\ peers = [b \in Browsers |-> NoPeers]
  /\ made = [b \in Browsers |-> [s \in Sessions |-> 0]]
  /\ troubles = 0
  /\ missed = {}

------------------------------------------------------------------------------
(* The signaling server *)

\* m is sent to the browsers whose sessions are in `to'.
Tell(to, m) ==
  inbox' = [b \in Browsers |-> IF sid[b] \in to THEN Append(inbox[b], m) ELSE inbox[b]]

HasOpenDataChannel(b) == \E s \in Sessions : peers[b][s] # None /\ peers[b][s].dc = "open"

Trouble == troubles < MaxTroubles /\ troubles' = troubles + 1

\* connect: with open channels left from before, the mesh is cleaned up first.  The new
\* websocket joins, and is sent the peers in the room.
Join(b, s) ==
  /\ sid[b] = 0
  /\ s = used + 1
  /\ used' = s
  /\ sid' = [sid EXCEPT ![b] = s]
  /\ members' = members \cup {s}
  /\ announcing' = announcing \cup {s}
  /\ inbox' = [inbox EXCEPT ![b] = Append(@, [type |-> "room-peers", peers |-> members])]
  /\ IF HasOpenDataChannel(b)
     THEN /\ peers' = [peers EXCEPT ![b] = NoPeers]
          /\ UNCHANGED missed
     ELSE /\ missed' = missed \cup {<<b, r>> : r \in {q \in Sessions : peers[b][q] # None}}
          /\ UNCHANGED peers
  /\ UNCHANGED <<ids, made, troubles>>

Announce(s) ==
  /\ s \in announcing
  /\ announcing' = announcing \ {s}
  /\ Tell(members \ {s}, [type |-> "peer-joined", id |-> s])
  /\ UNCHANGED <<ids, sid, used, members, peers, made, troubles, missed>>

\* The websocket drops; the mesh stays.
SocketDrops(b) ==
  /\ sid[b] # 0
  /\ Trouble
  /\ sid' = [sid EXCEPT ![b] = 0]
  /\ inbox' = [inbox EXCEPT ![b] = <<>>]
  /\ UNCHANGED <<ids, server, peers, made, missed>>

\* cleanupMesh, when the browser goes to another room or destroys the library.
cleanupMesh(b) ==
  /\ sid[b] # 0
  /\ Trouble
  /\ sid' = [sid EXCEPT ![b] = 0]
  /\ inbox' = [inbox EXCEPT ![b] = <<>>]
  /\ peers' = [peers EXCEPT ![b] = NoPeers]
  /\ UNCHANGED <<ids, server, made, missed>>

\* Members without a websocket.
Departed == {s \in members : \A b \in Browsers : sid[b] # s}

\* Faulty variant: a member leaves while the handler still announces it.
DepartWhileAnnounced(s) ==
  /\ s \in Departed
  /\ members' = members \ {s}
  /\ Tell(members, [type |-> "peer-left", id |-> s])
  /\ UNCHANGED <<ids, sid, used, announcing, peers, made, troubles, missed>>

\* The server notices, after its handler has finished the join.
Depart(s) ==
  /\ s \in Departed \ announcing
  /\ members' = members \ {s}
  /\ Tell(members, [type |-> "peer-left", id |-> s])
  /\ UNCHANGED <<ids, sid, used, announcing, peers, made, troubles, missed>>

------------------------------------------------------------------------------
(* MeshManager *)

\* The next message of b is of type t; it is taken.
Receive(b, t) ==
  /\ inbox[b] # <<>>
  /\ Head(inbox[b]).type = t
  /\ inbox' = [inbox EXCEPT ![b] = Tail(@)]

shouldInitiate(b, s) == ids.local[b] < ids.session[s]

\* A PeerConnection of b to s whose first operation is op.
NewPeer(b, s, op) ==
  [pc |-> <<b, s, made[b][s] + 1>>, far |-> None, dc |-> "none", chain |-> <<op>>,
   signalingState |-> "stable"]

CountNew(b, s) == made' = [made EXCEPT ![b][s] = @ + 1]

\* Sessions of a loop over `list' that b will offer to, if its peers are `ps'.
Offerable(b, ps, list) == {s \in list : shouldInitiate(b, s) /\ ps[s] = None}

\* Faulty variant: the loop over room-peers ends with its first offer.
OfferLoopFirstOnly(b, ps, list) ==
  IF Offerable(b, ps, list) = {}
  THEN peers' = [peers EXCEPT ![b] = ps] /\ UNCHANGED made
  ELSE \E s \in Offerable(b, ps, list) :
         /\ CountNew(b, s)
         /\ peers' = [peers EXCEPT ![b] = [ps EXCEPT ![s] =
              NewPeer(b, s, [op |-> "createOffer", rest |-> {}])]]

\* maybeInitiateOffer for the peers in `list' one after the other, up to an await: an offer
\* to one of them is begun, or there is none left.  Their order is the server's map's.
OfferLoop(b, ps, list) ==
  IF Offerable(b, ps, list) = {}
  THEN peers' = [peers EXCEPT ![b] = ps] /\ UNCHANGED made
  ELSE \E s \in Offerable(b, ps, list) :
         /\ CountNew(b, s)
         /\ peers' = [peers EXCEPT ![b] = [ps EXCEPT ![s] =
              NewPeer(b, s, [op |-> "createOffer", rest |-> list \ {s}])]]

\* Peers that a loop waiting in this connection has still to offer to.
RestOf(b, p) ==
  UNION {Offerable(b, peers[b], p.chain[k].rest) :
           k \in {j \in 1..Len(p.chain) : p.chain[j].op \in {"createOffer", "setLocalOffer"}}}

\* disconnectPeer: the connection is closed, so what awaits its operations never goes on.
disconnectPeer(b, s) ==
  IF peers[b][s] = None
  THEN UNCHANGED <<peers, missed>>
  ELSE /\ peers' = [peers EXCEPT ![b][s] = None]
       /\ missed' = missed \cup {<<b, r>> : r \in RestOf(b, peers[b][s])}

ReceiveRoomPeers(b) ==
  /\ Receive(b, "room-peers")
  /\ OfferLoop(b, peers[b], Head(inbox[b]).peers)
  /\ UNCHANGED <<ids, sid, server, troubles, missed>>

ReceivePeerJoined(b) ==
  /\ Receive(b, "peer-joined")
  /\ OfferLoop(b, peers[b], {Head(inbox[b]).id})
  /\ UNCHANGED <<ids, sid, server, troubles, missed>>

\* Faulty variant: it is left to the connection to find out that the peer has gone.
ReceivePeerLeftIgnored(b) ==
  /\ Receive(b, "peer-left")
  /\ UNCHANGED <<ids, sid, server, peers, made, troubles, missed>>

ReceivePeerLeft(b) ==
  /\ Receive(b, "peer-left")
  /\ disconnectPeer(b, Head(inbox[b]).id)
  /\ UNCHANGED <<ids, sid, server, made, troubles>>

\* An offer is not wanted: the two are connected, or b's own offer has precedence.
IgnoresOffer(b, s) ==
  /\ peers[b][s] # None
  /\ \/ peers[b][s].far # None /\ peers[b][s].signalingState = "stable"
     \/ peers[b][s].signalingState # "stable" /\ shouldInitiate(b, s)

handleOffer(b) ==
  /\ Receive(b, "offer")
  /\ LET s == Head(inbox[b]).from
         op == [op |-> "setRemoteOffer", pc |-> Head(inbox[b]).pc]
     IN IF IgnoresOffer(b, s)
        THEN UNCHANGED <<peers, made>>
        ELSE IF peers[b][s] = None
        THEN /\ CountNew(b, s)
             /\ peers' = [peers EXCEPT ![b][s] = NewPeer(b, s, op)]
        ELSE /\ peers' = [peers EXCEPT ![b][s].chain = Append(@, op)]
             /\ UNCHANGED made
  /\ UNCHANGED <<ids, sid, server, troubles, missed>>

handleAnswer(b) ==
  /\ Receive(b, "answer")
  /\ LET s == Head(inbox[b]).from
         op == [op |-> "setRemoteAnswer", pc |-> Head(inbox[b]).pc]
     IN IF peers[b][s] = None \/ peers[b][s].signalingState = "stable"
        THEN UNCHANGED peers
        ELSE peers' = [peers EXCEPT ![b][s].chain = Append(@, op)]
  /\ UNCHANGED <<ids, sid, server, made, troubles, missed>>

------------------------------------------------------------------------------
(* The operations of an RTCPeerConnection, and the code after the awaits *)

\* The next operation of b's connection to s is `op'.
Due(b, s, op) ==
  /\ peers[b][s] # None
  /\ peers[b][s].chain # <<>>
  /\ Head(peers[b][s].chain).op = op

\* Connection p when its operation is over and `more' have been called.
Done(p, more) == [p EXCEPT !.chain = Tail(@) \o more]

\* The server hands m to the websocket of session s, if it still knows one.
SendToTarget(b, s, type, pc) ==
  IF sid[b] = 0
  THEN UNCHANGED inbox
  ELSE Tell({s}, [type |-> type, from |-> sid[b], pc |-> pc])

CreateOffer(b, s) ==
  /\ Due(b, s, "createOffer")
  /\ LET p == peers[b][s] IN
       peers' = [peers EXCEPT ![b][s] =
         Done(p, <<[op |-> "setLocalOffer", rest |-> Head(p.chain).rest]>>)]
  /\ UNCHANGED <<ids, sid, server, inbox, made, troubles, missed>>

\* The offer is sent, and the loop over room-peers goes on.
SetLocalOffer(b, s) ==
  /\ Due(b, s, "setLocalOffer")
  /\ peers[b][s].signalingState = "stable"
  /\ LET p == peers[b][s] IN
       /\ SendToTarget(b, s, "offer", p.pc)
       /\ OfferLoop(b, [peers[b] EXCEPT ![s] =
                          [Done(p, <<>>) EXCEPT !.signalingState = "have-local-offer"]],
                    Head(p.chain).rest)
  /\ UNCHANGED <<ids, sid, server, troubles, missed>>

\* A remote offer came in between: the promise is rejected, and the loop ends.
SetLocalOfferFails(b, s) ==
  /\ Due(b, s, "setLocalOffer")
  /\ peers[b][s].signalingState # "stable"
  /\ peers' = [peers EXCEPT ![b][s] = Done(@, <<>>)]
  /\ missed' = missed \cup
       {<<b, r>> : r \in Offerable(b, peers[b], Head(peers[b][s].chain).rest)}
  /\ UNCHANGED <<ids, sid, server, inbox, made, troubles>>

\* A local offer is rolled back.
SetRemoteOffer(b, s) ==
  /\ Due(b, s, "setRemoteOffer")
  /\ LET p == peers[b][s] IN
       peers' = [peers EXCEPT ![b][s] =
         [Done(p, <<[op |-> "createAnswer"]>>) EXCEPT
            !.far = Head(p.chain).pc, !.signalingState = "have-remote-offer"]]
  /\ UNCHANGED <<ids, sid, server, inbox, made, troubles, missed>>

CreateAnswer(b, s) ==
  /\ Due(b, s, "createAnswer")
  /\ peers' = [peers EXCEPT ![b][s] =
       Done(@, IF @.signalingState = "have-remote-offer"
               THEN <<[op |-> "setLocalAnswer"]>> ELSE <<>>)]
  /\ UNCHANGED <<ids, sid, server, inbox, made, troubles, missed>>

SetLocalAnswer(b, s) ==
  /\ Due(b, s, "setLocalAnswer")
  /\ LET p == peers[b][s] IN
       IF p.signalingState = "have-remote-offer"
       THEN /\ peers' = [peers EXCEPT ![b][s] =
                 [Done(p, <<>>) EXCEPT !.signalingState = "stable"]]
            /\ SendToTarget(b, s, "answer", p.pc)
       ELSE /\ peers' = [peers EXCEPT ![b][s] = Done(p, <<>>)]
            /\ UNCHANGED inbox
  /\ UNCHANGED <<ids, sid, server, made, troubles, missed>>

SetRemoteAnswer(b, s) ==
  /\ Due(b, s, "setRemoteAnswer")
  /\ LET p == peers[b][s] IN
       peers' = [peers EXCEPT ![b][s] =
         IF p.signalingState = "have-local-offer"
         THEN [Done(p, <<>>) EXCEPT !.far = Head(p.chain).pc, !.signalingState = "stable"]
         ELSE Done(p, <<>>)]
  /\ UNCHANGED <<ids, sid, server, inbox, made, troubles, missed>>

------------------------------------------------------------------------------
(* Links *)

\* The connection at the other end: pc n exists and has the description of p.
Meets(p, n) ==
  \E d \in Browsers, r \in Sessions :
    /\ peers[d][r] # None
    /\ peers[d][r].pc = n
    /\ peers[d][r].far = p.pc
    /\ peers[d][r].signalingState = "stable"

\* b's connection to s is one end of a link.
Linked(b, s) ==
  /\ peers[b][s] # None
  /\ peers[b][s].signalingState = "stable"
  /\ peers[b][s].far # None
  /\ Meets(peers[b][s], peers[b][s].far)

Exists(n) == \E d \in Browsers, r \in Sessions : peers[d][r] # None /\ peers[d][r].pc = n

ChannelOpens(b, s) ==
  /\ Linked(b, s)
  /\ peers[b][s].dc = "none"
  /\ peers' = [peers EXCEPT ![b][s].dc = "open"]
  /\ UNCHANGED <<ids, sid, server, inbox, made, troubles, missed>>

\* The other end is gone.
Abandoned(b, s) ==
  /\ peers[b][s] # None
  /\ peers[b][s].far # None
  /\ ~Exists(peers[b][s].far)

ChannelCloses(b, s) ==
  /\ Abandoned(b, s)
  /\ peers[b][s].dc = "open"
  /\ peers' = [peers EXCEPT ![b][s].dc = "closed"]
  /\ UNCHANGED <<ids, sid, server, inbox, made, troubles, missed>>

\* connectionState becomes failed or disconnected when the other end has gone.
Disconnected(b, s) ==
  /\ Abandoned(b, s)
  /\ disconnectPeer(b, s)
  /\ UNCHANGED <<ids, sid, server, inbox, made, troubles>>

\* ... or although it has not.
LinkFails(b, s) ==
  /\ peers[b][s] # None
  /\ peers[b][s].far # None
  /\ Trouble
  /\ peers' = [peers EXCEPT ![b][s] = None]
  /\ missed' = missed \cup {<<b, s>>} \cup {<<b, r>> : r \in RestOf(b, peers[b][s])}
  /\ UNCHANGED <<ids, sid, server, inbox, made>>

------------------------------------------------------------------------------
ServerStep == \E s \in Sessions : Announce(s) \/ Depart(s)

Handle(b) ==
  \/ ReceiveRoomPeers(b)
  \/ ReceivePeerJoined(b)
  \/ ReceivePeerLeft(b)
  \/ handleOffer(b)
  \/ handleAnswer(b)

Operate(b, s) ==
  \/ CreateOffer(b, s)
  \/ SetLocalOffer(b, s)
  \/ SetLocalOfferFails(b, s)
  \/ SetRemoteOffer(b, s)
  \/ CreateAnswer(b, s)
  \/ SetLocalAnswer(b, s)
  \/ SetRemoteAnswer(b, s)

Next ==
  \/ \E b \in Browsers, s \in Sessions : Join(b, s)
  \/ \E b \in Browsers : SocketDrops(b)
  \/ \E b \in Browsers : cleanupMesh(b)
  \/ ServerStep
  \/ \E b \in Browsers : Handle(b)
  \/ \E b \in Browsers, s \in Sessions : Operate(b, s)
  \/ \E b \in Browsers, s \in Sessions : ChannelOpens(b, s)
  \/ \E b \in Browsers, s \in Sessions : ChannelCloses(b, s)
  \/ \E b \in Browsers, s \in Sessions : Disconnected(b, s)
  \/ \E b \in Browsers, s \in Sessions : LinkFails(b, s)

Spec == Init /\ [][Next]_vars

------------------------------------------------------------------------------
(* Properties *)

\* Every variable has the shape the code gives it, and a PeerConnection has one place.
TypeOK ==
  /\ ids \in Draws
  /\ sid \in [Browsers -> 0..MaxSessions]
  /\ used \in 0..MaxSessions
  /\ members \subseteq 1..used
  /\ announcing \subseteq members
  /\ inbox \in [Browsers -> Seq(Message)]
  /\ peers \in [Browsers -> [Sessions -> PeerConnection \cup {None}]]
  /\ made \in [Browsers -> [Sessions -> Nat]]
  /\ troubles \in 0..MaxTroubles
  /\ missed \subseteq Browsers \X Sessions

\* The server, the messages, the operations and the links have come to rest.
Quiet ==
  /\ announcing = {} /\ Departed = {}
  /\ \A b \in Browsers :
       /\ inbox[b] = <<>>
       /\ \A s \in Sessions :
            /\ peers[b][s] # None => peers[b][s].chain = <<>>
            /\ ~Abandoned(b, s)

\* Both browsers are in the room.
Together(a, b) == a # b /\ sid[a] # 0 /\ sid[b] # 0

\* Exactly one of a and b takes itself for the one to make the offer.
Aligned(a, b) == shouldInitiate(a, sid[b]) # shouldInitiate(b, sid[a])

\* When all is at rest, two browsers of the room of which exactly one initiates are linked,
\* unless a link between them failed or one of the two gave the other up, as `missed' records
\* (maybeInitiateOffer, handleOffer, handleAnswer): overlapping handlers, late answers and
\* rejoins break no other pair.
AlignedPairsLink ==
  Quiet => \A a, b \in Browsers :
    /\ Together(a, b)
    /\ Aligned(a, b)
    => \/ Linked(a, sid[b]) /\ Linked(b, sid[a])
       \/ <<a, sid[b]>> \in missed \/ <<b, sid[a]>> \in missed

\* However offers cross, when all is at rest no browser of the room holds the description of
\* another member that does not hold its own: no half of a link is left over, but with a
\* browser that has lost its websocket in mid-negotiation.
NoHalfLinks ==
  Quiet => \A b \in Browsers, s \in members :
    sid[b] # 0 /\ peers[b][s] # None /\ peers[b][s].far # None => Linked(b, s)

\* README: "deterministic glare-free peer negotiation": two browsers never have offers to
\* each other out at the same time.
GlareFree ==
  \A a, b \in Browsers :
    Together(a, b) => ~ /\ peers[a][sid[b]] # None /\ peers[b][sid[a]] # None
                        /\ peers[a][sid[b]].signalingState = "have-local-offer"
                        /\ peers[b][sid[a]].signalingState = "have-local-offer"
==============================================================================
