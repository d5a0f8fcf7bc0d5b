------------------------------ MODULE MeshProofs ------------------------------
(***************************************************************************)
(* Proofs about module Mesh, for any browsers, ids, websockets and         *)
(* troubles: MeshTypes; HalfLinksNever, that no half of a link is left     *)
(* over when all is at rest; and PairsLink, that two browsers of a room of *)
(* which exactly one makes the offer are linked then.                      *)
(*                                                                         *)
(* The chains of operations are followed without time: Negotiates is what  *)
(* is true of one connection at any moment, Advances what an operation may *)
(* do to it.  A step of the system either Moves each connection so, and    *)
(* sends the Messages this takes, or only takes connections and messages   *)
(* away.  Both keep the invariant MeshInv.                                 *)
(*                                                                         *)
(* For PairsLink a second invariant, PairInv, follows what a pair waits    *)
(* for: who is to make the offer is still to hear of the other, and an     *)
(* offer that is out has reached the other.  Keeps is what a step does not *)
(* take from a pair, however many loops over room-peers are under way.     *)
(***************************************************************************)
EXTENDS Mesh, TLAPS

USE MeshAssumption, NoneAssumption

------------------------------------------------------------------------------
(* Sequences *)

\* The elements of a sequence.
Elements(q) == {q[i] : i \in 1..Len(q)}

\* What taking the first element off, adding one at the end and joining do to the elements.
LEMMA ElementsOf ==
  ASSUME NEW S, NEW q \in Seq(S), NEW e \in S
  PROVE  /\ Append(q, e) \in Seq(S)
         /\ Elements(Append(q, e)) = Elements(q) \cup {e}
         /\ q # <<>> => /\ Head(q) \in S /\ Tail(q) \in Seq(S)
                        /\ Elements(q) = Elements(Tail(q)) \cup {Head(q)}
         /\ Elements(q) \subseteq S
  <1>1. Append(q, e) \in Seq(S) /\ Elements(q) \subseteq S
    BY DEF Elements
  <1>2. Elements(Append(q, e)) = Elements(q) \cup {e}
    <2>1. Len(Append(q, e)) = Len(q) + 1 /\ Len(q) \in Nat
      OBVIOUS
    <2>2. \A i \in 1..Len(q) : Append(q, e)[i] = q[i]
      OBVIOUS
    <2>3. Append(q, e)[Len(q) + 1] = e
      OBVIOUS
    <2>4. \A x : x \in Elements(Append(q, e)) <=> \E i \in 1..(Len(q) + 1) : Append(q, e)[i] = x
      BY <2>1 DEF Elements
    <2>5. \A i : i \in 1..(Len(q) + 1) <=> i \in 1..Len(q) \/ i = Len(q) + 1
      BY <2>1
    <2>6. \A x : x \in Elements(q) <=> \E i \in 1..Len(q) : q[i] = x
      BY DEF Elements
    <2> QED
      BY <2>2, <2>3, <2>4, <2>5, <2>6
  <1>3. ASSUME q # <<>>
        PROVE  /\ Head(q) \in S /\ Tail(q) \in Seq(S)
               /\ Elements(q) = Elements(Tail(q)) \cup {Head(q)}
    <2>1. Head(q) \in S /\ Tail(q) \in Seq(S) /\ Len(q) \in Nat \ {0} /\ Len(Tail(q)) = Len(q) - 1
      BY <1>3
    <2>2. \A i \in 1..(Len(q) - 1) : Tail(q)[i] = q[i + 1]
      BY <1>3
    <2>3. Head(q) = q[1]
      BY <1>3
    <2>4. \A x : x \in Elements(Tail(q)) <=> \E i \in 1..(Len(q) - 1) : q[i + 1] = x
      BY <2>1, <2>2 DEF Elements
    <2>5. \A x : x \in Elements(q) <=> \E i \in 1..Len(q) : q[i] = x
      BY DEF Elements
    <2>6. \A i \in 1..(Len(q) - 1) : i + 1 \in 1..Len(q)
      BY <2>1
    <2>7. \A i \in 1..Len(q) : i = 1 \/ (i - 1 \in 1..(Len(q) - 1) /\ (i - 1) + 1 = i)
      BY <2>1
    <2>8. 1 \in 1..Len(q)
      BY <2>1
    <2>9. ASSUME NEW x \in Elements(q)
          PROVE  x \in Elements(Tail(q)) \/ x = Head(q)
      <3>1. PICK i \in 1..Len(q) : q[i] = x
        BY <2>5, <2>9
      <3>2. CASE i = 1
        BY <3>1, <3>2, <2>3
      <3>3. CASE i # 1
        BY <3>1, <3>3, <2>4, <2>7
      <3> QED
        BY <3>2, <3>3
    <2>10. ASSUME NEW x \in Elements(Tail(q))
           PROVE  x \in Elements(q)
      BY <2>4, <2>5, <2>6, <2>10
    <2>11. Head(q) \in Elements(q)
      BY <2>3, <2>5, <2>8
    <2> QED
      BY <2>1, <2>9, <2>10, <2>11
  <1> QED
    BY <1>1, <1>2, <1>3

------------------------------------------------------------------------------
(* Types *)

\* The operations of a local offer, and those that take a description of the other end.
Offers(o) == o.op \in {"createOffer", "setLocalOffer"}
Remote(o) == o.op \in {"setRemoteOffer", "setRemoteAnswer"}

\* What they carry.
LEMMA OperationKinds ==
  ASSUME NEW o \in Operation
  PROVE  /\ Offers(o) => o.rest \subseteq Sessions
         /\ Remote(o) => o.pc \in Ids /\ o = [op |-> o.op, pc |-> o.pc]
  BY DEF Operation, Offers, Remote

\* What messages carry.
LEMMA MessageKinds ==
  ASSUME NEW m \in Message
  PROVE  /\ m.type = "room-peers" => m.peers \subseteq Sessions
         /\ m.type = "peer-joined" => m.id \in Sessions
         /\ m.type = "peer-left" => m.id \in Sessions /\ m = [type |-> "peer-left", id |-> m.id]
         /\ m.type \in {"offer", "answer"} =>
              m.from \in Sessions /\ m.pc \in Ids /\ m = [type |-> m.type, from |-> m.from, pc |-> m.pc]
  BY DEF Message

\* A connection that is done with an operation.
LEMMA DoneFields ==
  ASSUME NEW p \in PeerConnection, p.chain # <<>>, NEW more \in Seq(Operation)
  PROVE  /\ Done(p, more) \in PeerConnection
         /\ Done(p, more).chain = Tail(p.chain) \o more
         /\ Done(p, more).pc = p.pc
         /\ Done(p, more).far = p.far
         /\ Done(p, more).dc = p.dc
         /\ Done(p, more).signalingState = p.signalingState
  <1>1. p.chain \in Seq(Operation)
    BY DEF PeerConnection
  <1>2. Tail(p.chain) \o more \in Seq(Operation)
    BY <1>1
  <1> QED
    BY <1>2 DEF Done, PeerConnection

\* A connection that an operation has been called on.
Called(p, op) == [p EXCEPT !.chain = Append(p.chain, op)]

\* What calling one more operation changes.
LEMMA CalledFields ==
  ASSUME NEW p \in PeerConnection, NEW op \in Operation
  PROVE  /\ Called(p, op) \in PeerConnection
         /\ Called(p, op).chain = Append(p.chain, op)
         /\ Called(p, op).pc = p.pc
         /\ Called(p, op).far = p.far
         /\ Called(p, op).dc = p.dc
         /\ Called(p, op).signalingState = p.signalingState
  <1>1. p.chain \in Seq(Operation)
    BY DEF PeerConnection
  <1>2. Append(p.chain, op) \in Seq(Operation)
    BY <1>1
  <1> QED
    BY <1>2 DEF Called, PeerConnection

\* What a new connection is.
LEMMA NewPeerFields ==
  ASSUME TypeOK, NEW b \in Browsers, NEW s \in Sessions, NEW op \in Operation
  PROVE  /\ NewPeer(b, s, op) \in PeerConnection
         /\ NewPeer(b, s, op).pc = <<b, s, made[b][s] + 1>>
         /\ NewPeer(b, s, op).far = None
         /\ NewPeer(b, s, op).chain = <<op>>
         /\ NewPeer(b, s, op).signalingState = "stable"
  <1>1. <<b, s, made[b][s] + 1>> \in Ids
    BY DEF TypeOK, Ids
  <1>2. <<op>> \in Seq(Operation)
    OBVIOUS
  <1> QED
    BY <1>1, <1>2 DEF NewPeer, PeerConnection

\* What is sent is a message, wherever it goes.
LEMMA TellType ==
  ASSUME TypeOK, NEW to, NEW m \in Message, Tell(to, m)
  PROVE  inbox' \in [Browsers -> Seq(Message)]
  BY DEF TypeOK, Tell

\* Taking a message leaves sequences of messages.
LEMMA ReceiveType ==
  ASSUME TypeOK, NEW b \in Browsers, NEW t, Receive(b, t)
  PROVE  /\ inbox' \in [Browsers -> Seq(Message)]
         /\ inbox[b] # <<>> /\ Head(inbox[b]) \in Message /\ Head(inbox[b]).type = t
         /\ inbox'[b] = Tail(inbox[b])
         /\ \A c \in Browsers : c # b => inbox'[c] = inbox[c]
  BY DEF TypeOK, Receive

\* An offer or answer that is sent is a message.
LEMMA SendType ==
  ASSUME TypeOK, NEW b \in Browsers, NEW s \in Sessions, NEW n \in Ids,
         NEW t \in {"offer", "answer"}, SendToTarget(b, s, t, n)
  PROVE  inbox' \in [Browsers -> Seq(Message)]
  <1>1. CASE sid[b] = 0
    BY <1>1 DEF TypeOK, SendToTarget
  <1>2. CASE sid[b] # 0
    <2>1. sid[b] \in Sessions
      BY <1>2 DEF TypeOK, Sessions
    <2>2. [type |-> t, from |-> sid[b], pc |-> n] \in Message
      BY <2>1 DEF Message
    <2> QED
      BY <1>2, <2>2, TellType DEF SendToTarget
  <1> QED
    BY <1>1, <1>2

\* The loop over room-peers leaves connections, and counts them.
LEMMA LoopType ==
  ASSUME TypeOK, NEW b \in Browsers, NEW ps \in [Sessions -> PeerConnection \cup {None}],
         NEW list \in SUBSET Sessions, OfferLoop(b, ps, list)
  PROVE  /\ peers' \in [Browsers -> [Sessions -> PeerConnection \cup {None}]]
         /\ made' \in [Browsers -> [Sessions -> Nat]]
  <1>1. CASE Offerable(b, ps, list) = {}
    BY <1>1 DEF TypeOK, OfferLoop
  <1>2. CASE Offerable(b, ps, list) # {}
    <2>1. PICK s \in Offerable(b, ps, list) :
            /\ CountNew(b, s)
            /\ peers' = [peers EXCEPT ![b] = [ps EXCEPT ![s] =
                 NewPeer(b, s, [op |-> "createOffer", rest |-> list \ {s}])]]
      BY <1>2 DEF OfferLoop
    <2>2. s \in Sessions
      BY DEF Offerable
    <2>3. [op |-> "createOffer", rest |-> list \ {s}] \in Operation
      BY DEF Operation
    <2>4. NewPeer(b, s, [op |-> "createOffer", rest |-> list \ {s}]) \in PeerConnection
      BY <2>2, <2>3, NewPeerFields
    <2>5. [ps EXCEPT ![s] = NewPeer(b, s, [op |-> "createOffer", rest |-> list \ {s}])]
            \in [Sessions -> PeerConnection \cup {None}]
      BY <2>2, <2>4
    <2>6. made' \in [Browsers -> [Sessions -> Nat]]
      BY <2>1, <2>2 DEF TypeOK, CountNew
    <2> QED
      BY <2>1, <2>5, <2>6 DEF TypeOK
  <1> QED
    BY <1>1, <1>2

\* What an interrupted loop had still to visit are sessions.
LEMMA RestType ==
  ASSUME TypeOK, NEW b \in Browsers, NEW p \in PeerConnection
  PROVE  RestOf(b, p) \subseteq Sessions
  <1>1. \A j \in 1..Len(p.chain) : p.chain[j] \in Operation
    BY DEF PeerConnection
  <1>2. ASSUME NEW j \in 1..Len(p.chain), p.chain[j].op \in {"createOffer", "setLocalOffer"}
        PROVE  Offerable(b, peers[b], p.chain[j].rest) \subseteq Sessions
    BY <1>1, <1>2, OperationKinds DEF Offers, Offerable
  <1> QED
    BY <1>2 DEF RestOf

\* A connection that is closed leaves the others as they were.
LEMMA DisconnectType ==
  ASSUME TypeOK, NEW b \in Browsers, NEW s \in Sessions, disconnectPeer(b, s)
  PROVE  /\ peers' \in [Browsers -> [Sessions -> PeerConnection \cup {None}]]
         /\ missed' \subseteq Browsers \X Sessions
  <1>1. CASE peers[b][s] = None
    BY <1>1 DEF TypeOK, disconnectPeer
  <1>2. CASE peers[b][s] # None
    <2>1. peers[b][s] \in PeerConnection
      BY <1>2 DEF TypeOK
    <2>2. RestOf(b, peers[b][s]) \subseteq Sessions
      BY <2>1, RestType
    <2>3. peers' = [peers EXCEPT ![b][s] = None]
      BY <1>2 DEF disconnectPeer
    <2>4. missed' = missed \cup {<<b, r>> : r \in RestOf(b, peers[b][s])}
      BY <1>2 DEF disconnectPeer
    <2>5. missed' \subseteq Browsers \X Sessions
      BY <2>2, <2>4 DEF TypeOK
    <2>6. peers' \in [Browsers -> [Sessions -> PeerConnection \cup {None}]]
      BY <2>3 DEF TypeOK
    <2> QED
      BY <2>5, <2>6
  <1> QED
    BY <1>1, <1>2

\* Replacing one connection keeps the types of all.
LEMMA SlotType ==
  ASSUME TypeOK, NEW b \in Browsers, NEW s \in Sessions, NEW q \in PeerConnection \cup {None},
         peers' = [peers EXCEPT ![b][s] = q]
  PROVE  /\ peers' \in [Browsers -> [Sessions -> PeerConnection \cup {None}]]
         /\ peers'[b][s] = q
         /\ \A c \in Browsers, t \in Sessions : c # b \/ t # s => peers'[c][t] = peers[c][t]
  BY DEF TypeOK

\* The connection whose operation is due.
LEMMA DueType ==
  ASSUME TypeOK, NEW b \in Browsers, NEW s \in Sessions, NEW op, Due(b, s, op)
  PROVE  /\ peers[b][s] \in PeerConnection
         /\ peers[b][s].chain \in Seq(Operation) /\ peers[b][s].chain # <<>>
         /\ Head(peers[b][s].chain) \in Operation /\ Head(peers[b][s].chain).op = op
         /\ peers[b][s].pc \in Ids
  <1>1. peers[b][s] \in PeerConnection
    BY DEF Due, TypeOK
  <1>2. peers[b][s].chain \in Seq(Operation) /\ peers[b][s].pc \in Ids
    BY <1>1 DEF PeerConnection
  <1> QED
    BY <1>1, <1>2 DEF Due

------------------------------------------------------------------------------
(* What an operation makes of its connection *)

AfterCreateOffer(p) == Done(p, <<[op |-> "setLocalOffer", rest |-> Head(p.chain).rest]>>)

AfterSetLocalOffer(p) == [Done(p, <<>>) EXCEPT !.signalingState = "have-local-offer"]

AfterSetRemoteOffer(p) ==
  [Done(p, <<[op |-> "createAnswer"]>>) EXCEPT
     !.far = Head(p.chain).pc, !.signalingState = "have-remote-offer"]

AfterCreateAnswer(p) ==
  Done(p, IF p.signalingState = "have-remote-offer"
          THEN <<[op |-> "setLocalAnswer"]>> ELSE <<>>)

AfterSetLocalAnswer(p) == [Done(p, <<>>) EXCEPT !.signalingState = "stable"]

AfterSetRemoteAnswer(p) ==
  [Done(p, <<>>) EXCEPT !.far = Head(p.chain).pc, !.signalingState = "stable"]

\* Each is a connection, of which the operation changed what it should.
LEMMA AfterTypes ==
  ASSUME NEW p \in PeerConnection, p.chain # <<>>
  PROVE  /\ Head(p.chain).op = "createOffer" => AfterCreateOffer(p) \in PeerConnection
         /\ AfterSetLocalOffer(p) \in PeerConnection
         /\ Head(p.chain).op = "setRemoteOffer" => AfterSetRemoteOffer(p) \in PeerConnection
         /\ AfterCreateAnswer(p) \in PeerConnection
         /\ AfterSetLocalAnswer(p) \in PeerConnection
         /\ Head(p.chain).op = "setRemoteAnswer" => AfterSetRemoteAnswer(p) \in PeerConnection
         /\ Done(p, <<>>) \in PeerConnection
  <1>1. p.chain \in Seq(Operation) /\ Head(p.chain) \in Operation
    BY DEF PeerConnection
  <1>2. Head(p.chain).op = "createOffer" => AfterCreateOffer(p) \in PeerConnection
    <2> SUFFICES ASSUME Head(p.chain).op = "createOffer"
                 PROVE  AfterCreateOffer(p) \in PeerConnection
      OBVIOUS
    <2>1. Head(p.chain).rest \in SUBSET Sessions
      BY <1>1, OperationKinds DEF Offers
    <2>2. [op |-> "setLocalOffer", rest |-> Head(p.chain).rest] \in Operation
      BY <2>1 DEF Operation
    <2>3. <<[op |-> "setLocalOffer", rest |-> Head(p.chain).rest]>> \in Seq(Operation)
      BY <2>2
    <2> QED
      BY <2>3, DoneFields DEF AfterCreateOffer
  <1>3. Done(p, <<>>) \in PeerConnection
    <2>1. <<>> \in Seq(Operation)
      OBVIOUS
    <2> QED
      BY <2>1, DoneFields
  <1>4. AfterSetLocalOffer(p) \in PeerConnection /\ AfterSetLocalAnswer(p) \in PeerConnection
    BY <1>3 DEF AfterSetLocalOffer, AfterSetLocalAnswer, PeerConnection
  <1>5. Remote(Head(p.chain)) => Head(p.chain).pc \in Ids
    BY <1>1, OperationKinds
  <1>6. <<[op |-> "createAnswer"]>> \in Seq(Operation) /\ <<[op |-> "setLocalAnswer"]>> \in Seq(Operation)
    BY DEF Operation
  <1>7. Head(p.chain).op = "setRemoteOffer" => AfterSetRemoteOffer(p) \in PeerConnection
    <2>1. Done(p, <<[op |-> "createAnswer"]>>) \in PeerConnection
      BY <1>6, DoneFields
    <2> QED
      BY <1>5, <2>1 DEF AfterSetRemoteOffer, PeerConnection, Remote
  <1>8. AfterCreateAnswer(p) \in PeerConnection
    BY <1>3, <1>6, DoneFields DEF AfterCreateAnswer
  <1>9. Head(p.chain).op = "setRemoteAnswer" => AfterSetRemoteAnswer(p) \in PeerConnection
    BY <1>3, <1>5 DEF AfterSetRemoteAnswer, PeerConnection, Remote
  <1> QED
    BY <1>2, <1>3, <1>4, <1>7, <1>8, <1>9

\* The operations as replacements of a connection.
LEMMA OperationSteps ==
  ASSUME TypeOK, NEW b \in Browsers, NEW s \in Sessions
  PROVE  LET p == peers[b][s] IN
         /\ CreateOffer(b, s) => peers' = [peers EXCEPT ![b][s] = AfterCreateOffer(p)]
         /\ SetLocalOffer(b, s) =>
              OfferLoop(b, [peers[b] EXCEPT ![s] = AfterSetLocalOffer(p)], Head(p.chain).rest)
         /\ SetLocalOfferFails(b, s) => peers' = [peers EXCEPT ![b][s] = Done(p, <<>>)]
         /\ SetRemoteOffer(b, s) => peers' = [peers EXCEPT ![b][s] = AfterSetRemoteOffer(p)]
         /\ CreateAnswer(b, s) => peers' = [peers EXCEPT ![b][s] = AfterCreateAnswer(p)]
         /\ SetLocalAnswer(b, s) =>
              \/ /\ p.signalingState = "have-remote-offer"
                 /\ peers' = [peers EXCEPT ![b][s] = AfterSetLocalAnswer(p)]
                 /\ SendToTarget(b, s, "answer", p.pc)
              \/ /\ p.signalingState # "have-remote-offer"
                 /\ peers' = [peers EXCEPT ![b][s] = Done(p, <<>>)]
                 /\ UNCHANGED inbox
         /\ SetRemoteAnswer(b, s) =>
              \/ /\ p.signalingState = "have-local-offer"
                 /\ peers' = [peers EXCEPT ![b][s] = AfterSetRemoteAnswer(p)]
              \/ /\ p.signalingState # "have-local-offer"
                 /\ peers' = [peers EXCEPT ![b][s] = Done(p, <<>>)]
  <1>1. CreateOffer(b, s) => peers' = [peers EXCEPT ![b][s] = AfterCreateOffer(peers[b][s])]
    BY DEF TypeOK, CreateOffer, AfterCreateOffer
  <1>2. SetLocalOffer(b, s) =>
              OfferLoop(b, [peers[b] EXCEPT ![s] = AfterSetLocalOffer(peers[b][s])],
                        Head(peers[b][s].chain).rest)
    BY DEF SetLocalOffer, AfterSetLocalOffer
  <1>3. SetLocalOfferFails(b, s) => peers' = [peers EXCEPT ![b][s] = Done(peers[b][s], <<>>)]
    BY DEF TypeOK, SetLocalOfferFails
  <1>4. SetRemoteOffer(b, s) => peers' = [peers EXCEPT ![b][s] = AfterSetRemoteOffer(peers[b][s])]
    BY DEF TypeOK, SetRemoteOffer, AfterSetRemoteOffer
  <1>5. CreateAnswer(b, s) => peers' = [peers EXCEPT ![b][s] = AfterCreateAnswer(peers[b][s])]
    BY DEF TypeOK, CreateAnswer, AfterCreateAnswer
  <1>6. SetLocalAnswer(b, s) =>
          \/ /\ peers[b][s].signalingState = "have-remote-offer"
             /\ peers' = [peers EXCEPT ![b][s] = AfterSetLocalAnswer(peers[b][s])]
             /\ SendToTarget(b, s, "answer", peers[b][s].pc)
          \/ /\ peers[b][s].signalingState # "have-remote-offer"
             /\ peers' = [peers EXCEPT ![b][s] = Done(peers[b][s], <<>>)]
             /\ UNCHANGED inbox
    BY DEF SetLocalAnswer, AfterSetLocalAnswer
  <1>7. SetRemoteAnswer(b, s) =>
          \/ /\ peers[b][s].signalingState = "have-local-offer"
             /\ peers' = [peers EXCEPT ![b][s] = AfterSetRemoteAnswer(peers[b][s])]
          \/ /\ peers[b][s].signalingState # "have-local-offer"
             /\ peers' = [peers EXCEPT ![b][s] = Done(peers[b][s], <<>>)]
    BY DEF SetRemoteAnswer, AfterSetRemoteAnswer
  <1> QED
    BY <1>1, <1>2, <1>3, <1>4, <1>5, <1>6, <1>7

\* Every step keeps the types.
LEMMA StepTypes ==
  ASSUME TypeOK, [Next]_vars
  PROVE  TypeOK'
  <1>1. ASSUME NEW b \in Browsers, NEW s \in Sessions, Join(b, s)
        PROVE  TypeOK'
    <2>1. s \in Nat /\ used \in Nat /\ used' = s /\ s = used + 1 /\ s <= MaxSessions
      BY <1>1 DEF TypeOK, Join, Sessions
    <2>2. members \subseteq Sessions
      BY DEF TypeOK, Sessions
    <2>3. [type |-> "room-peers", peers |-> members] \in Message
      BY <2>2 DEF Message
    <2>4. inbox' \in [Browsers -> Seq(Message)]
      <3>1. inbox' = [inbox EXCEPT ![b] = Append(inbox[b], [type |-> "room-peers", peers |-> members])]
        BY <1>1 DEF TypeOK, Join
      <3>2. Append(inbox[b], [type |-> "room-peers", peers |-> members]) \in Seq(Message)
        BY <2>3 DEF TypeOK
      <3> QED
        BY <3>1, <3>2 DEF TypeOK
    <2>5. members' \subseteq 1..used' /\ announcing' \subseteq members'
      BY <1>1, <2>1 DEF TypeOK, Join
    <2>6. sid' \in [Browsers -> 0..MaxSessions] /\ used' \in 0..MaxSessions
      BY <1>1, <2>1 DEF TypeOK, Join
    <2>7. /\ peers' \in [Browsers -> [Sessions -> PeerConnection \cup {None}]]
          /\ missed' \subseteq Browsers \X Sessions
      <3>1. CASE HasOpenDataChannel(b)
        <4>1. peers' = [peers EXCEPT ![b] = NoPeers] /\ missed' = missed
          BY <1>1, <3>1 DEF Join
        <4> QED
          BY <4>1 DEF TypeOK, NoPeers
      <3>2. CASE ~HasOpenDataChannel(b)
        <4>1. peers' = peers
          BY <1>1, <3>2 DEF Join
        <4>2. missed' = missed \cup {<<b, r>> : r \in {q \in Sessions : peers[b][q] # None}}
          BY <1>1, <3>2 DEF Join
        <4>3. missed' \subseteq Browsers \X Sessions
          BY <4>2 DEF TypeOK
        <4> QED
          BY <4>1, <4>3 DEF TypeOK
      <3> QED
        BY <3>1, <3>2
    <2> QED
      BY <1>1, <2>4, <2>5, <2>6, <2>7 DEF TypeOK, Join
  <1>2. ASSUME NEW b \in Browsers, SocketDrops(b)
        PROVE  TypeOK'
    <2>1. inbox' \in [Browsers -> Seq(Message)]
      BY <1>2 DEF TypeOK, SocketDrops
    <2> QED
      BY <1>2, <2>1 DEF TypeOK, SocketDrops, Trouble, server
  <1>3. ASSUME NEW b \in Browsers, cleanupMesh(b)
        PROVE  TypeOK'
    <2>1. inbox' \in [Browsers -> Seq(Message)]
      BY <1>3 DEF TypeOK, cleanupMesh
    <2>2. peers' \in [Browsers -> [Sessions -> PeerConnection \cup {None}]]
      BY <1>3 DEF TypeOK, cleanupMesh, NoPeers
    <2> QED
      BY <1>3, <2>1, <2>2 DEF TypeOK, cleanupMesh, Trouble, server
  <1>4. ASSUME NEW s \in Sessions, Announce(s)
        PROVE  TypeOK'
    <2>1. [type |-> "peer-joined", id |-> s] \in Message
      BY DEF Message
    <2>2. inbox' \in [Browsers -> Seq(Message)]
      BY <1>4, <2>1, TellType DEF Announce
    <2> QED
      BY <1>4, <2>2 DEF TypeOK, Announce
  <1>5. ASSUME NEW s \in Sessions, Depart(s)
        PROVE  TypeOK'
    <2>1. [type |-> "peer-left", id |-> s] \in Message
      BY DEF Message
    <2>2. inbox' \in [Browsers -> Seq(Message)]
      BY <1>5, <2>1, TellType DEF Depart
    <2> QED
      BY <1>5, <2>2 DEF TypeOK, Depart, Departed
  <1>6. ASSUME NEW b \in Browsers, ReceiveRoomPeers(b)
        PROVE  TypeOK'
    <2>1. Receive(b, "room-peers")
      BY <1>6 DEF ReceiveRoomPeers
    <2>2. Head(inbox[b]).peers \in SUBSET Sessions
      BY <2>1, ReceiveType, MessageKinds
    <2>3. peers[b] \in [Sessions -> PeerConnection \cup {None}]
      BY DEF TypeOK
    <2>4. OfferLoop(b, peers[b], Head(inbox[b]).peers)
      BY <1>6 DEF ReceiveRoomPeers
    <2>5. /\ peers' \in [Browsers -> [Sessions -> PeerConnection \cup {None}]]
          /\ made' \in [Browsers -> [Sessions -> Nat]]
      BY <2>2, <2>3, <2>4, LoopType
    <2>6. inbox' \in [Browsers -> Seq(Message)]
      BY <2>1, ReceiveType
    <2> QED
      BY <1>6, <2>5, <2>6 DEF TypeOK, ReceiveRoomPeers, server
  <1>7. ASSUME NEW b \in Browsers, ReceivePeerJoined(b)
        PROVE  TypeOK'
    <2>1. Receive(b, "peer-joined")
      BY <1>7 DEF ReceivePeerJoined
    <2>2. {Head(inbox[b]).id} \in SUBSET Sessions
      BY <2>1, ReceiveType, MessageKinds
    <2>3. peers[b] \in [Sessions -> PeerConnection \cup {None}]
      BY DEF TypeOK
    <2>4. OfferLoop(b, peers[b], {Head(inbox[b]).id})
      BY <1>7 DEF ReceivePeerJoined
    <2>5. /\ peers' \in [Browsers -> [Sessions -> PeerConnection \cup {None}]]
          /\ made' \in [Browsers -> [Sessions -> Nat]]
      BY <2>2, <2>3, <2>4, LoopType
    <2>6. inbox' \in [Browsers -> Seq(Message)]
      BY <2>1, ReceiveType
    <2> QED
      BY <1>7, <2>5, <2>6 DEF TypeOK, ReceivePeerJoined, server
  <1>8. ASSUME NEW b \in Browsers, ReceivePeerLeft(b)
        PROVE  TypeOK'
    <2>1. Receive(b, "peer-left") /\ disconnectPeer(b, Head(inbox[b]).id)
      BY <1>8 DEF ReceivePeerLeft
    <2>2. Head(inbox[b]).id \in Sessions
      BY <2>1, ReceiveType, MessageKinds
    <2>3. /\ peers' \in [Browsers -> [Sessions -> PeerConnection \cup {None}]]
          /\ missed' \subseteq Browsers \X Sessions
      BY <2>1, <2>2, DisconnectType
    <2>4. inbox' \in [Browsers -> Seq(Message)]
      BY <2>1, ReceiveType
    <2> QED
      BY <1>8, <2>3, <2>4 DEF TypeOK, ReceivePeerLeft, server
  <1>9. ASSUME NEW b \in Browsers, handleOffer(b)
        PROVE  TypeOK'
    <2>1. Receive(b, "offer")
      BY <1>9 DEF handleOffer
    <2>2. Head(inbox[b]).from \in Sessions /\ Head(inbox[b]).pc \in Ids
      BY <2>1, ReceiveType, MessageKinds
    <2>3. PICK s \in Sessions, op \in Operation :
            IF IgnoresOffer(b, s)
            THEN UNCHANGED <<peers, made>>
            ELSE IF peers[b][s] = None
            THEN /\ CountNew(b, s)
                 /\ peers' = [peers EXCEPT ![b][s] = NewPeer(b, s, op)]
            ELSE /\ peers' = [peers EXCEPT ![b][s].chain = Append(@, op)]
                 /\ UNCHANGED made
      <3>1. [op |-> "setRemoteOffer", pc |-> Head(inbox[b]).pc] \in Operation
        BY <2>2 DEF Operation
      <3> QED
        BY <1>9, <2>2, <3>1 DEF handleOffer
    <2>4. /\ peers' \in [Browsers -> [Sessions -> PeerConnection \cup {None}]]
          /\ made' \in [Browsers -> [Sessions -> Nat]]
      <3>1. CASE IgnoresOffer(b, s)
        BY <2>3, <3>1 DEF TypeOK
      <3>2. CASE ~IgnoresOffer(b, s) /\ peers[b][s] = None
        <4>1. NewPeer(b, s, op) \in PeerConnection
          BY NewPeerFields
        <4>2. peers' = [peers EXCEPT ![b][s] = NewPeer(b, s, op)] /\ CountNew(b, s)
          BY <2>3, <3>2
        <4> QED
          BY <4>1, <4>2 DEF TypeOK, CountNew
      <3>3. CASE ~IgnoresOffer(b, s) /\ peers[b][s] # None
        <4> DEFINE q == Called(peers[b][s], op)
        <4>1. peers[b][s] \in PeerConnection
          BY <3>3 DEF TypeOK
        <4>2. q \in PeerConnection
          BY <4>1, CalledFields
        <4>3. peers' = [peers EXCEPT ![b][s] = q] /\ made' = made
          BY <2>3, <3>3 DEF TypeOK, Called
        <4> HIDE DEF q
        <4> QED
          BY <4>2, <4>3 DEF TypeOK
      <3> QED
        BY <3>1, <3>2, <3>3
    <2>5. inbox' \in [Browsers -> Seq(Message)]
      BY <2>1, ReceiveType
    <2> QED
      BY <1>9, <2>4, <2>5 DEF TypeOK, handleOffer, server
  <1>10. ASSUME NEW b \in Browsers, handleAnswer(b)
         PROVE  TypeOK'
    <2>1. Receive(b, "answer")
      BY <1>10 DEF handleAnswer
    <2>2. Head(inbox[b]).from \in Sessions /\ Head(inbox[b]).pc \in Ids
      BY <2>1, ReceiveType, MessageKinds
    <2>3. PICK s \in Sessions, op \in Operation :
            IF peers[b][s] = None \/ peers[b][s].signalingState = "stable"
            THEN UNCHANGED peers
            ELSE peers' = [peers EXCEPT ![b][s].chain = Append(@, op)]
      <3>1. [op |-> "setRemoteAnswer", pc |-> Head(inbox[b]).pc] \in Operation
        BY <2>2 DEF Operation
      <3> QED
        BY <1>10, <2>2, <3>1 DEF handleAnswer
    <2>4. peers' \in [Browsers -> [Sessions -> PeerConnection \cup {None}]]
      <3>1. CASE peers[b][s] = None \/ peers[b][s].signalingState = "stable"
        BY <2>3, <3>1 DEF TypeOK
      <3>3. CASE peers[b][s] # None /\ peers[b][s].signalingState # "stable"
        <4> DEFINE q == Called(peers[b][s], op)
        <4>1. peers[b][s] \in PeerConnection
          BY <3>3 DEF TypeOK
        <4>2. q \in PeerConnection
          BY <4>1, CalledFields
        <4>3. peers' = [peers EXCEPT ![b][s] = q]
          BY <2>3, <3>3 DEF TypeOK, Called
        <4> HIDE DEF q
        <4> QED
          BY <4>2, <4>3 DEF TypeOK
      <3> QED
        BY <3>1, <3>3
    <2>5. inbox' \in [Browsers -> Seq(Message)]
      BY <2>1, ReceiveType
    <2> QED
      BY <1>10, <2>4, <2>5 DEF TypeOK, handleAnswer, server
  <1>11. ASSUME NEW b \in Browsers, NEW s \in Sessions, CreateOffer(b, s)
         PROVE  TypeOK'
    <2>1. peers[b][s] \in PeerConnection /\ peers[b][s].chain # <<>>
          /\ Head(peers[b][s].chain).op = "createOffer"
      BY <1>11, DueType DEF CreateOffer
    <2>2. AfterCreateOffer(peers[b][s]) \in PeerConnection
      BY <2>1, AfterTypes
    <2>3. peers' = [peers EXCEPT ![b][s] = AfterCreateOffer(peers[b][s])]
      BY <1>11, OperationSteps
    <2>4. peers' \in [Browsers -> [Sessions -> PeerConnection \cup {None}]]
      BY <2>2, <2>3, SlotType
    <2> QED
      BY <1>11, <2>4 DEF TypeOK, CreateOffer, server
  <1>12. ASSUME NEW b \in Browsers, NEW s \in Sessions, SetLocalOffer(b, s)
         PROVE  TypeOK'
    <2> DEFINE p == peers[b][s]
               ps == [peers[b] EXCEPT ![s] = AfterSetLocalOffer(p)]
    <2>1. /\ p \in PeerConnection /\ p.chain # <<>> /\ Head(p.chain) \in Operation
          /\ Head(p.chain).op = "setLocalOffer" /\ p.pc \in Ids
      BY <1>12, DueType DEF SetLocalOffer
    <2>2. AfterSetLocalOffer(p) \in PeerConnection
      BY <2>1, AfterTypes
    <2>3. ps \in [Sessions -> PeerConnection \cup {None}]
      BY <2>2 DEF TypeOK
    <2>4. Head(p.chain).rest \in SUBSET Sessions
      BY <2>1, OperationKinds DEF Offers
    <2>5. OfferLoop(b, ps, Head(p.chain).rest)
      BY <1>12, OperationSteps
    <2>6. SendToTarget(b, s, "offer", p.pc)
      BY <1>12 DEF SetLocalOffer
    <2> HIDE DEF p, ps
    <2>7. /\ peers' \in [Browsers -> [Sessions -> PeerConnection \cup {None}]]
          /\ made' \in [Browsers -> [Sessions -> Nat]]
      BY <2>3, <2>4, <2>5, LoopType
    <2>8. inbox' \in [Browsers -> Seq(Message)]
      BY <2>1, <2>6, SendType
    <2>9. UNCHANGED <<ids, sid, server, troubles, missed>>
      BY <1>12 DEF SetLocalOffer
    <2> QED
      BY <2>7, <2>8, <2>9 DEF TypeOK, server
  <1>13. ASSUME NEW b \in Browsers, NEW s \in Sessions, SetLocalOfferFails(b, s)
         PROVE  TypeOK'
    <2>1. peers[b][s] \in PeerConnection /\ peers[b][s].chain # <<>>
      BY <1>13, DueType DEF SetLocalOfferFails
    <2>2. Done(peers[b][s], <<>>) \in PeerConnection
      BY <2>1, AfterTypes
    <2>3. peers' = [peers EXCEPT ![b][s] = Done(peers[b][s], <<>>)]
      BY <1>13, OperationSteps
    <2>4. peers' \in [Browsers -> [Sessions -> PeerConnection \cup {None}]]
      BY <2>2, <2>3, SlotType
    <2>5. /\ Head(peers[b][s].chain) \in Operation
          /\ Head(peers[b][s].chain).op = "setLocalOffer"
      BY <1>13, DueType DEF SetLocalOfferFails
    <2>6. Head(peers[b][s].chain).rest \subseteq Sessions
      BY <2>5, OperationKinds DEF Offers
    <2>7. missed' \subseteq Browsers \X Sessions
      <3>1. missed' = missed \cup
              {<<b, r>> : r \in Offerable(b, peers[b], Head(peers[b][s].chain).rest)}
        BY <1>13 DEF SetLocalOfferFails
      <3>2. Offerable(b, peers[b], Head(peers[b][s].chain).rest) \subseteq Sessions
        BY <2>6 DEF Offerable
      <3> QED
        BY <3>1, <3>2 DEF TypeOK
    <2> QED
      BY <1>13, <2>4, <2>7 DEF TypeOK, SetLocalOfferFails, server
  <1>14. ASSUME NEW b \in Browsers, NEW s \in Sessions, SetRemoteOffer(b, s)
         PROVE  TypeOK'
    <2>1. peers[b][s] \in PeerConnection /\ peers[b][s].chain # <<>>
          /\ Head(peers[b][s].chain).op = "setRemoteOffer"
      BY <1>14, DueType DEF SetRemoteOffer
    <2>2. AfterSetRemoteOffer(peers[b][s]) \in PeerConnection
      BY <2>1, AfterTypes
    <2>3. peers' = [peers EXCEPT ![b][s] = AfterSetRemoteOffer(peers[b][s])]
      BY <1>14, OperationSteps
    <2>4. peers' \in [Browsers -> [Sessions -> PeerConnection \cup {None}]]
      BY <2>2, <2>3, SlotType
    <2> QED
      BY <1>14, <2>4 DEF TypeOK, SetRemoteOffer, server
  <1>15. ASSUME NEW b \in Browsers, NEW s \in Sessions, CreateAnswer(b, s)
         PROVE  TypeOK'
    <2>1. peers[b][s] \in PeerConnection /\ peers[b][s].chain # <<>>
      BY <1>15, DueType DEF CreateAnswer
    <2>2. AfterCreateAnswer(peers[b][s]) \in PeerConnection
      BY <2>1, AfterTypes
    <2>3. peers' = [peers EXCEPT ![b][s] = AfterCreateAnswer(peers[b][s])]
      BY <1>15, OperationSteps
    <2>4. peers' \in [Browsers -> [Sessions -> PeerConnection \cup {None}]]
      BY <2>2, <2>3, SlotType
    <2> QED
      BY <1>15, <2>4 DEF TypeOK, CreateAnswer, server
  <1>16. ASSUME NEW b \in Browsers, NEW s \in Sessions, SetLocalAnswer(b, s)
         PROVE  TypeOK'
    <2>1. peers[b][s] \in PeerConnection /\ peers[b][s].chain # <<>> /\ peers[b][s].pc \in Ids
      BY <1>16, DueType DEF SetLocalAnswer
    <2>2. AfterSetLocalAnswer(peers[b][s]) \in PeerConnection /\ Done(peers[b][s], <<>>) \in PeerConnection
      BY <2>1, AfterTypes
    <2>3. \/ /\ peers' = [peers EXCEPT ![b][s] = AfterSetLocalAnswer(peers[b][s])]
             /\ SendToTarget(b, s, "answer", peers[b][s].pc)
          \/ /\ peers' = [peers EXCEPT ![b][s] = Done(peers[b][s], <<>>)]
             /\ UNCHANGED inbox
      BY <1>16, OperationSteps
    <2>4. /\ peers' \in [Browsers -> [Sessions -> PeerConnection \cup {None}]]
          /\ inbox' \in [Browsers -> Seq(Message)]
      <3>1. CASE /\ peers' = [peers EXCEPT ![b][s] = AfterSetLocalAnswer(peers[b][s])]
                 /\ SendToTarget(b, s, "answer", peers[b][s].pc)
        BY <2>1, <2>2, <3>1, SlotType, SendType
      <3>2. CASE /\ peers' = [peers EXCEPT ![b][s] = Done(peers[b][s], <<>>)]
                 /\ UNCHANGED inbox
        <4>1. inbox' \in [Browsers -> Seq(Message)]
          BY <3>2 DEF TypeOK
        <4> QED
          BY <2>2, <3>2, <4>1, SlotType
      <3> QED
        BY <2>3, <3>1, <3>2
    <2> QED
      BY <1>16, <2>4 DEF TypeOK, SetLocalAnswer, server
  <1>17. ASSUME NEW b \in Browsers, NEW s \in Sessions, SetRemoteAnswer(b, s)
         PROVE  TypeOK'
    <2>1. peers[b][s] \in PeerConnection /\ peers[b][s].chain # <<>>
          /\ Head(peers[b][s].chain).op = "setRemoteAnswer"
      BY <1>17, DueType DEF SetRemoteAnswer
    <2>2. AfterSetRemoteAnswer(peers[b][s]) \in PeerConnection /\ Done(peers[b][s], <<>>) \in PeerConnection
      BY <2>1, AfterTypes
    <2>3. \/ peers' = [peers EXCEPT ![b][s] = AfterSetRemoteAnswer(peers[b][s])]
          \/ peers' = [peers EXCEPT ![b][s] = Done(peers[b][s], <<>>)]
      BY <1>17, OperationSteps
    <2>4. peers' \in [Browsers -> [Sessions -> PeerConnection \cup {None}]]
      BY <2>2, <2>3, SlotType
    <2> QED
      BY <1>17, <2>4 DEF TypeOK, SetRemoteAnswer, server
  <1>18. ASSUME NEW b \in Browsers, NEW s \in Sessions, ChannelOpens(b, s) \/ ChannelCloses(b, s)
         PROVE  TypeOK'
    <2>1. PICK d \in {"open", "closed"} :
            /\ peers' = [peers EXCEPT ![b][s].dc = d]
            /\ UNCHANGED <<ids, sid, server, inbox, made, troubles, missed>>
      BY <1>18 DEF ChannelOpens, ChannelCloses
    <2>2. peers[b][s] # None
      BY <1>18 DEF ChannelOpens, ChannelCloses, Linked, Abandoned
    <2>3. peers[b][s] \in PeerConnection
      BY <2>2 DEF TypeOK
    <2> DEFINE q == [peers[b][s] EXCEPT !.dc = d]
    <2>4. q \in PeerConnection
      BY <2>3 DEF PeerConnection
    <2>5. peers' = [peers EXCEPT ![b][s] = q]
      BY <2>1 DEF TypeOK
    <2> HIDE DEF q
    <2>6. peers' \in [Browsers -> [Sessions -> PeerConnection \cup {None}]]
      BY <2>4, <2>5, SlotType
    <2> QED
      BY <2>1, <2>6 DEF TypeOK, server
  <1>19. ASSUME NEW b \in Browsers, NEW s \in Sessions, Disconnected(b, s)
         PROVE  TypeOK'
    <2>1. disconnectPeer(b, s)
      BY <1>19 DEF Disconnected
    <2>2. /\ peers' \in [Browsers -> [Sessions -> PeerConnection \cup {None}]]
          /\ missed' \subseteq Browsers \X Sessions
      BY <2>1, DisconnectType
    <2> QED
      BY <1>19, <2>2 DEF TypeOK, Disconnected, server
  <1>20. ASSUME NEW b \in Browsers, NEW s \in Sessions, LinkFails(b, s)
         PROVE  TypeOK'
    <2>1. peers[b][s] \in PeerConnection
      BY <1>20 DEF TypeOK, LinkFails
    <2>2. RestOf(b, peers[b][s]) \subseteq Sessions
      BY <2>1, RestType
    <2>3. missed' = missed \cup {<<b, s>>} \cup {<<b, r>> : r \in RestOf(b, peers[b][s])}
      BY <1>20 DEF LinkFails
    <2>4. missed' \subseteq Browsers \X Sessions
      BY <2>2, <2>3 DEF TypeOK
    <2>5. peers' \in [Browsers -> [Sessions -> PeerConnection \cup {None}]]
      BY <1>20, SlotType DEF LinkFails
    <2> QED
      BY <1>20, <2>4, <2>5 DEF TypeOK, LinkFails, Trouble, server
  <1>21. CASE UNCHANGED vars
    BY <1>21 DEF TypeOK, vars, server
  <1> QED
    BY <1>1, <1>2, <1>3, <1>4, <1>5, <1>6, <1>7, <1>8, <1>9, <1>10, <1>11, <1>12, <1>13,
       <1>14, <1>15, <1>16, <1>17, <1>18, <1>19, <1>20, <1>21
    DEF Next, ServerStep, Handle, Operate

------------------------------------------------------------------------------
(* What becomes of a connection *)

\* An offer of its own is created first of all, and set with only remote offers before it.
InOrder(c) ==
  \A j \in 1..Len(c) :
    /\ c[j].op = "createOffer" =>
         j = 1 /\ \A i \in 1..Len(c) : i = 1 \/ c[i].op = "setRemoteOffer"
    /\ c[j].op = "setLocalOffer" => \A i \in 1..(j - 1) : c[i].op = "setRemoteOffer"

\* Until its offer is set a connection has no remote description, or is about to answer;
\* it has one while it is to answer, and none while its own offer is out.
Negotiates(p) ==
  /\ InOrder(p.chain)
  /\ \A o \in Elements(p.chain) :
       /\ o.op = "createOffer" => p.signalingState = "stable"
       /\ Offers(o) => /\ p.signalingState # "have-local-offer"
                       /\ p.signalingState = "stable" => p.far = None
  /\ p.signalingState = "have-local-offer" => p.far = None
  /\ p.signalingState = "have-remote-offer" =>
       /\ p.far # None
       /\ \E o \in Elements(p.chain) : o.op \in {"createAnswer", "setLocalAnswer"}

\* A connection goes on from p to q, with the operations `calls' called on it: the remote
\* description it gets is one its chain held, and an offer is out until then.
Advances(p, q, calls) ==
  /\ q.pc = p.pc
  /\ \/ q.far = p.far
     \/ /\ q.signalingState = "have-remote-offer"
        /\ [op |-> "setRemoteOffer", pc |-> q.far] \in Elements(p.chain)
     \/ [op |-> "setRemoteAnswer", pc |-> q.far] \in Elements(p.chain)
  /\ q.far = None =>
       /\ p.far = None
       /\ p.signalingState = "have-local-offer" =>
            /\ q.signalingState = "have-local-offer"
            /\ \A o \in Elements(p.chain) : Remote(o) => o \in Elements(q.chain)
  /\ \A o \in Elements(q.chain) : Remote(o) => o \in Elements(p.chain) \cup calls
  /\ calls \subseteq Elements(q.chain)
  /\ Negotiates(q)

\* Adding an operation at the end.
LEMMA OrderAppend ==
  ASSUME NEW c \in Seq(Operation), InOrder(c), NEW o \in Operation, o.op # "createOffer",
         \/ o.op = "setRemoteOffer"
         \/ /\ \A e \in Elements(c) : e.op # "createOffer"
            /\ o.op # "setLocalOffer" \/ \A e \in Elements(c) : e.op = "setRemoteOffer"
  PROVE  InOrder(Append(c, o))
  <1> DEFINE d == Append(c, o)
  <1>1. Len(d) = Len(c) + 1 /\ Len(c) \in Nat /\ d[Len(c) + 1] = o
    OBVIOUS
  <1>2. \A i \in 1..Len(c) : d[i] = c[i] /\ c[i] \in Elements(c)
    BY DEF Elements
  <1>3. \A i \in 1..Len(d) : i \in 1..Len(c) \/ i = Len(c) + 1
    BY <1>1
  <1> HIDE DEF d
  <1> SUFFICES ASSUME NEW j \in 1..Len(d)
               PROVE  /\ d[j].op = "createOffer" =>
                           j = 1 /\ \A i \in 1..Len(d) : i = 1 \/ d[i].op = "setRemoteOffer"
                      /\ d[j].op = "setLocalOffer" =>
                           \A i \in 1..(j - 1) : d[i].op = "setRemoteOffer"
    BY DEF InOrder, d
  <1>4. CASE j \in 1..Len(c)
    <2>1. ASSUME d[j].op = "createOffer"
          PROVE  j = 1 /\ \A i \in 1..Len(d) : i = 1 \/ d[i].op = "setRemoteOffer"
      <3>1. c[j].op = "createOffer"
        BY <1>2, <1>4, <2>1
      <3>2. j = 1 /\ \A i \in 1..Len(c) : i = 1 \/ c[i].op = "setRemoteOffer"
        BY <3>1, <1>4 DEF InOrder
      <3>3. o.op = "setRemoteOffer"
        BY <3>1, <1>2, <1>4
      <3> QED
        BY <3>2, <3>3, <1>1, <1>2, <1>3
    <2>2. ASSUME d[j].op = "setLocalOffer"
          PROVE  \A i \in 1..(j - 1) : d[i].op = "setRemoteOffer"
      <3>1. c[j].op = "setLocalOffer"
        BY <1>2, <1>4, <2>2
      <3>2. \A i \in 1..(j - 1) : c[i].op = "setRemoteOffer"
        BY <3>1, <1>4 DEF InOrder
      <3>3. \A i \in 1..(j - 1) : i \in 1..Len(c)
        BY <1>1, <1>4
      <3> QED
        BY <3>2, <3>3, <1>2
    <2> QED
      BY <2>1, <2>2
  <1>5. CASE j = Len(c) + 1
    <2>1. d[j] = o
      BY <1>1, <1>5
    <2>2. ASSUME o.op = "setLocalOffer"
          PROVE  \A i \in 1..(j - 1) : d[i].op = "setRemoteOffer"
      <3>1. \A e \in Elements(c) : e.op = "setRemoteOffer"
        BY <2>2
      <3>2. \A i \in 1..(j - 1) : i \in 1..Len(c)
        BY <1>1, <1>5
      <3> QED
        BY <3>1, <3>2, <1>2
    <2> QED
      BY <2>1, <2>2
  <1> QED
    BY <1>3, <1>4, <1>5

\* Taking the first operation off; what it is, tells what the others are not.
LEMMA OrderTail ==
  ASSUME NEW c \in Seq(Operation), InOrder(c), c # <<>>
  PROVE  /\ InOrder(Tail(c))
         /\ \A o \in Elements(Tail(c)) : o.op # "createOffer"
         /\ Head(c).op # "setRemoteOffer" => \A o \in Elements(Tail(c)) : ~Offers(o)
         /\ Head(c).op = "createOffer" => \A o \in Elements(Tail(c)) : o.op = "setRemoteOffer"
  <1> DEFINE d == Tail(c)
  <1>1. Len(c) \in Nat \ {0} /\ Len(d) = Len(c) - 1 /\ Head(c) = c[1]
    OBVIOUS
  <1>2. \A i \in 1..Len(d) : d[i] = c[i + 1]
    OBVIOUS
  <1>3. \A i \in 1..Len(d) : i + 1 \in 1..Len(c) /\ i + 1 # 1 /\ 1 \in 1..((i + 1) - 1)
    BY <1>1
  <1>4. 1 \in 1..Len(c)
    BY <1>1
  <1> HIDE DEF d
  <1>5. \A i \in 1..Len(d) : d[i].op # "createOffer"
    BY <1>2, <1>3 DEF InOrder
  <1>6. ASSUME NEW j \in 1..Len(d), d[j].op = "setLocalOffer"
        PROVE  (\A i \in 1..(j - 1) : d[i].op = "setRemoteOffer") /\ Head(c).op = "setRemoteOffer"
    <2>1. c[j + 1].op = "setLocalOffer" /\ j + 1 \in 1..Len(c)
      BY <1>2, <1>3, <1>6
    <2>2. \A i \in 1..((j + 1) - 1) : c[i].op = "setRemoteOffer"
      BY <2>1 DEF InOrder
    <2>3. \A i \in 1..(j - 1) : i \in 1..Len(d) /\ i + 1 \in 1..((j + 1) - 1)
      BY <1>1
    <2> QED
      BY <2>2, <2>3, <1>1, <1>2, <1>3
  <1>7. InOrder(d)
    BY <1>5, <1>6 DEF InOrder
  <1>8. \A o \in Elements(d) : \E i \in 1..Len(d) : o = d[i]
    BY DEF Elements
  <1>9. Head(c).op # "setRemoteOffer" => \A o \in Elements(d) : ~Offers(o)
    BY <1>5, <1>6, <1>8 DEF Offers
  <1>10. Head(c).op = "createOffer" => \A o \in Elements(d) : o.op = "setRemoteOffer"
    <2> SUFFICES ASSUME Head(c).op = "createOffer", NEW i \in 1..Len(d)
                 PROVE  d[i].op = "setRemoteOffer"
      BY <1>8
    <2>1. c[1].op = "createOffer"
      BY <1>1
    <2>2. \A k \in 1..Len(c) : k = 1 \/ c[k].op = "setRemoteOffer"
      BY <2>1, <1>4 DEF InOrder
    <2> QED
      BY <2>2, <1>2, <1>3
  <1> QED
    BY <1>5, <1>7, <1>8, <1>9, <1>10 DEF d

\* Joining nothing, or one operation.
LEMMA Chains ==
  ASSUME NEW c \in Seq(Operation), NEW o \in Operation
  PROVE  /\ c \o <<>> = c
         /\ c \o <<o>> = Append(c, o)
  OBVIOUS

\* A chain when its first operation is over: what is known of the rest, with `more' behind it.
LEMMA ChainAfter ==
  ASSUME NEW p \in PeerConnection, p.chain # <<>>, Negotiates(p)
  PROVE  /\ p.chain \in Seq(Operation) /\ Tail(p.chain) \in Seq(Operation)
         /\ Head(p.chain) \in Operation /\ Head(p.chain) \in Elements(p.chain)
         /\ Elements(p.chain) = Elements(Tail(p.chain)) \cup {Head(p.chain)}
         /\ Elements(Tail(p.chain) \o <<>>) = Elements(Tail(p.chain))
         /\ InOrder(Tail(p.chain) \o <<>>)
         /\ \A o \in Operation :
              /\ Elements(Tail(p.chain) \o <<o>>) = Elements(Tail(p.chain)) \cup {o}
              /\ o.op \notin {"createOffer", "setLocalOffer"} => InOrder(Tail(p.chain) \o <<o>>)
  <1>1. p.chain \in Seq(Operation) /\ InOrder(p.chain)
    BY DEF PeerConnection, Negotiates
  <1>2. Head(p.chain) \in Operation /\ Tail(p.chain) \in Seq(Operation)
    BY <1>1
  <1>3. Elements(p.chain) = Elements(Tail(p.chain)) \cup {Head(p.chain)}
    BY <1>1, <1>2, ElementsOf
  <1>4. Tail(p.chain) \o <<>> = Tail(p.chain)
    BY <1>2
  <1>5. /\ InOrder(Tail(p.chain))
        /\ \A o \in Elements(Tail(p.chain)) : o.op # "createOffer"
    BY <1>1, OrderTail
  <1>6. ASSUME NEW o \in Operation
        PROVE  /\ Elements(Tail(p.chain) \o <<o>>) = Elements(Tail(p.chain)) \cup {o}
               /\ o.op \notin {"createOffer", "setLocalOffer"} => InOrder(Tail(p.chain) \o <<o>>)
    <2>1. Tail(p.chain) \o <<o>> = Append(Tail(p.chain), o)
      BY <1>2
    <2>2. Elements(Append(Tail(p.chain), o)) = Elements(Tail(p.chain)) \cup {o}
      <3> DEFINE t == Tail(p.chain)
      <3>1. t \in Seq(Operation)
        BY <1>2
      <3> HIDE DEF t
      <3>2. Elements(Append(t, o)) = Elements(t) \cup {o}
        BY <3>1, ElementsOf
      <3> QED
        BY <3>2 DEF t
    <2>3. o.op \notin {"createOffer", "setLocalOffer"} => InOrder(Append(Tail(p.chain), o))
      BY <1>2, <1>5, OrderAppend
    <2> QED
      BY <2>1, <2>2, <2>3
  <1> QED
    BY <1>1, <1>2, <1>3, <1>4, <1>5, <1>6

\* Each operation of a chain, when its time comes, takes its connection on: createOffer...
LEMMA CreateOfferAdvances ==
  ASSUME NEW p \in PeerConnection, p.chain # <<>>, Negotiates(p),
         Head(p.chain).op = "createOffer"
  PROVE  Advances(p, AfterCreateOffer(p), {})
  <1> DEFINE q == AfterCreateOffer(p)
             o == [op |-> "setLocalOffer", rest |-> Head(p.chain).rest]
             t == Tail(p.chain)
  <1>1. /\ p.chain \in Seq(Operation) /\ t \in Seq(Operation)
        /\ Head(p.chain) \in Operation /\ Head(p.chain) \in Elements(p.chain)
        /\ Elements(p.chain) = Elements(t) \cup {Head(p.chain)}
    BY ChainAfter
  <1>2. o \in Operation /\ o.op = "setLocalOffer"
    <2>1. Head(p.chain).rest \in SUBSET Sessions
      BY <1>1, OperationKinds DEF Offers
    <2> QED
      BY <2>1 DEF Operation
  <1>3. Elements(t \o <<o>>) = Elements(t) \cup {o}
    BY <1>2, ChainAfter
  <1>4. /\ q.pc = p.pc /\ q.far = p.far /\ q.signalingState = p.signalingState
        /\ q.chain = t \o <<o>>
    <2>1. <<o>> \in Seq(Operation)
      BY <1>2
    <2> QED
      BY <2>1, DoneFields DEF AfterCreateOffer
  <1>5. /\ p.signalingState = "stable" /\ p.far = None
    BY <1>1 DEF Negotiates, Offers
  <1>6. InOrder(p.chain)
    BY DEF Negotiates
  <1>7. InOrder(t) /\ \A e \in Elements(t) : e.op = "setRemoteOffer"
    BY <1>1, <1>6, OrderTail
  <1> HIDE DEF q, o, t
  <1>8. InOrder(q.chain)
    <2>1. InOrder(Append(t, o))
      BY <1>1, <1>2, <1>7, OrderAppend
    <2> QED
      BY <2>1, <1>1, <1>2, <1>4, Chains
  <1>9. Elements(q.chain) = Elements(t) \cup {o}
    BY <1>3, <1>4
  <1>10. Negotiates(q)
    BY <1>2, <1>4, <1>5, <1>7, <1>8, <1>9 DEF Negotiates, Offers
  <1> QED
    BY <1>1, <1>2, <1>4, <1>5, <1>9, <1>10 DEF Advances, Remote, q

\* ... setLocalDescription of an offer, when nothing came in between ...
LEMMA SetLocalOfferAdvances ==
  ASSUME NEW p \in PeerConnection, p.chain # <<>>, Negotiates(p),
         Head(p.chain).op = "setLocalOffer", p.signalingState = "stable"
  PROVE  Advances(p, AfterSetLocalOffer(p), {})
  <1> DEFINE q == AfterSetLocalOffer(p)
             t == Tail(p.chain)
  <1>1. /\ p.chain \in Seq(Operation) /\ t \in Seq(Operation)
        /\ Head(p.chain) \in Operation /\ Head(p.chain) \in Elements(p.chain)
        /\ Elements(p.chain) = Elements(t) \cup {Head(p.chain)}
        /\ Elements(t \o <<>>) = Elements(t) /\ InOrder(t \o <<>>)
    BY ChainAfter
  <1>2. /\ q.pc = p.pc /\ q.far = p.far /\ q.signalingState = "have-local-offer"
        /\ q.chain = t \o <<>>
    <2>1. <<>> \in Seq(Operation)
      OBVIOUS
    <2>2. /\ Done(p, <<>>) \in PeerConnection /\ Done(p, <<>>).chain = t \o <<>>
          /\ Done(p, <<>>).pc = p.pc /\ Done(p, <<>>).far = p.far
      BY <2>1, DoneFields
    <2> QED
      BY <2>2 DEF AfterSetLocalOffer, PeerConnection
  <1>3. p.far = None
    BY <1>1 DEF Negotiates, Offers
  <1>4. \A e \in Elements(t) : ~Offers(e)
    <2>1. InOrder(p.chain)
      BY DEF Negotiates
    <2> QED
      BY <2>1, <1>1, OrderTail
  <1> HIDE DEF q, t
  <1>5. Negotiates(q)
    BY <1>1, <1>2, <1>3, <1>4 DEF Negotiates, Offers
  <1> QED
    BY <1>1, <1>2, <1>3, <1>5 DEF Advances, q

\* An operation that only ends.
LEMMA EndingAdvances ==
  ASSUME NEW p \in PeerConnection, p.chain # <<>>, Negotiates(p),
         \/ Head(p.chain).op = "setLocalOffer" /\ p.signalingState # "stable"
         \/ Head(p.chain).op = "setLocalAnswer" /\ p.signalingState # "have-remote-offer"
         \/ Head(p.chain).op = "createAnswer" /\ p.signalingState # "have-remote-offer"
         \/ Head(p.chain).op = "setRemoteAnswer" /\ p.signalingState # "have-local-offer"
  PROVE  Advances(p, Done(p, <<>>), {})
  <1> DEFINE q == Done(p, <<>>)
             t == Tail(p.chain)
  <1>1. /\ p.chain \in Seq(Operation) /\ t \in Seq(Operation)
        /\ Head(p.chain) \in Operation /\ Head(p.chain) \in Elements(p.chain)
        /\ Elements(p.chain) = Elements(t) \cup {Head(p.chain)}
        /\ Elements(t \o <<>>) = Elements(t) /\ InOrder(t \o <<>>)
    BY ChainAfter
  <1>2. /\ q.pc = p.pc /\ q.far = p.far /\ q.signalingState = p.signalingState
        /\ q.chain = t \o <<>>
    <2>1. <<>> \in Seq(Operation)
      OBVIOUS
    <2> QED
      BY <2>1, DoneFields
  <1> HIDE DEF q, t
  <1>3. Negotiates(q)
    BY <1>1, <1>2 DEF Negotiates, Offers
  <1> QED
    BY <1>1, <1>2, <1>3 DEF Advances, Remote, Negotiates, q

\* ... setRemoteDescription of an offer, a rollback included ...
LEMMA SetRemoteOfferAdvances ==
  ASSUME NEW p \in PeerConnection, p.chain # <<>>, Negotiates(p),
         Head(p.chain).op = "setRemoteOffer"
  PROVE  Advances(p, AfterSetRemoteOffer(p), {})
  <1> DEFINE q == AfterSetRemoteOffer(p)
             o == [op |-> "createAnswer"]
             t == Tail(p.chain)
  <1>1. /\ p.chain \in Seq(Operation) /\ t \in Seq(Operation)
        /\ Head(p.chain) \in Operation /\ Head(p.chain) \in Elements(p.chain)
        /\ Elements(p.chain) = Elements(t) \cup {Head(p.chain)}
    BY ChainAfter
  <1>2. o \in Operation /\ o.op = "createAnswer"
    BY DEF Operation
  <1>3. Elements(t \o <<o>>) = Elements(t) \cup {o} /\ InOrder(t \o <<o>>)
    BY <1>2, ChainAfter
  <1>4. Head(p.chain).pc \in Ids /\ Head(p.chain) = [op |-> "setRemoteOffer", pc |-> Head(p.chain).pc]
    BY <1>1, OperationKinds DEF Remote
  <1>5. /\ q.pc = p.pc /\ q.far = Head(p.chain).pc /\ q.signalingState = "have-remote-offer"
        /\ q.chain = t \o <<o>>
    <2>1. <<o>> \in Seq(Operation)
      BY <1>2
    <2>2. /\ Done(p, <<o>>) \in PeerConnection /\ Done(p, <<o>>).chain = t \o <<o>>
          /\ Done(p, <<o>>).pc = p.pc
      BY <2>1, DoneFields
    <2> QED
      BY <2>2 DEF AfterSetRemoteOffer, PeerConnection
  <1>6. \A e \in Elements(t) : e.op # "createOffer"
    <2>1. InOrder(p.chain)
      BY DEF Negotiates
    <2> QED
      BY <2>1, <1>1, OrderTail
  <1> HIDE DEF q, t, o
  <1>7. q.far # None
    BY <1>4, <1>5
  <1>8. Negotiates(q)
    BY <1>1, <1>2, <1>3, <1>5, <1>6, <1>7 DEF Negotiates, Offers
  <1> QED
    BY <1>1, <1>2, <1>3, <1>4, <1>5, <1>7, <1>8 DEF Advances, Remote, q

\* ... createAnswer, which fails without an offer to answer ...
LEMMA CreateAnswerAdvances ==
  ASSUME NEW p \in PeerConnection, p.chain # <<>>, Negotiates(p),
         Head(p.chain).op = "createAnswer"
  PROVE  Advances(p, AfterCreateAnswer(p), {})
  <1>1. CASE p.signalingState # "have-remote-offer"
    <2>1. Advances(p, Done(p, <<>>), {})
      BY <1>1, EndingAdvances
    <2> QED
      BY <1>1, <2>1 DEF AfterCreateAnswer
  <1>2. CASE p.signalingState = "have-remote-offer"
    <2> DEFINE q == AfterCreateAnswer(p)
               o == [op |-> "setLocalAnswer"]
               t == Tail(p.chain)
    <2>1. /\ p.chain \in Seq(Operation) /\ t \in Seq(Operation)
          /\ Head(p.chain) \in Operation /\ Head(p.chain) \in Elements(p.chain)
          /\ Elements(p.chain) = Elements(t) \cup {Head(p.chain)}
      BY ChainAfter
    <2>2. o \in Operation /\ o.op = "setLocalAnswer"
      BY DEF Operation
    <2>3. Elements(t \o <<o>>) = Elements(t) \cup {o} /\ InOrder(t \o <<o>>)
      BY <2>2, ChainAfter
    <2>4. /\ q.pc = p.pc /\ q.far = p.far /\ q.signalingState = p.signalingState
          /\ q.chain = t \o <<o>>
      <3>1. <<o>> \in Seq(Operation)
        BY <2>2
      <3>2. q = Done(p, <<o>>)
        BY <1>2 DEF AfterCreateAnswer
      <3> QED
        BY <3>1, <3>2, DoneFields
    <2> HIDE DEF q, t, o
    <2>5. p.far # None
      BY <1>2 DEF Negotiates
    <2>6. Negotiates(q)
      BY <1>2, <2>1, <2>2, <2>3, <2>4, <2>5 DEF Negotiates, Offers
    <2> QED
      BY <1>2, <2>1, <2>2, <2>3, <2>4, <2>5, <2>6 DEF Advances, Remote, q
  <1> QED
    BY <1>1, <1>2

\* ... setLocalDescription of an answer ...
LEMMA SetLocalAnswerAdvances ==
  ASSUME NEW p \in PeerConnection, p.chain # <<>>, Negotiates(p),
         Head(p.chain).op = "setLocalAnswer", p.signalingState = "have-remote-offer"
  PROVE  Advances(p, AfterSetLocalAnswer(p), {}) /\ AfterSetLocalAnswer(p).far # None
  <1> DEFINE q == AfterSetLocalAnswer(p)
             t == Tail(p.chain)
  <1>1. /\ p.chain \in Seq(Operation) /\ t \in Seq(Operation)
        /\ Head(p.chain) \in Operation /\ Head(p.chain) \in Elements(p.chain)
        /\ Elements(p.chain) = Elements(t) \cup {Head(p.chain)}
        /\ Elements(t \o <<>>) = Elements(t) /\ InOrder(t \o <<>>)
    BY ChainAfter
  <1>2. /\ q.pc = p.pc /\ q.far = p.far /\ q.signalingState = "stable"
        /\ q.chain = t \o <<>>
    <2>1. <<>> \in Seq(Operation)
      OBVIOUS
    <2>2. /\ Done(p, <<>>) \in PeerConnection /\ Done(p, <<>>).chain = t \o <<>>
          /\ Done(p, <<>>).pc = p.pc /\ Done(p, <<>>).far = p.far
      BY <2>1, DoneFields
    <2> QED
      BY <2>2 DEF AfterSetLocalAnswer, PeerConnection
  <1>3. p.far # None
    BY DEF Negotiates
  <1>4. \A e \in Elements(t) : ~Offers(e)
    <2>1. InOrder(p.chain)
      BY DEF Negotiates
    <2> QED
      BY <2>1, <1>1, OrderTail
  <1> HIDE DEF q, t
  <1>5. Negotiates(q)
    BY <1>1, <1>2, <1>3, <1>4 DEF Negotiates, Offers
  <1> QED
    BY <1>1, <1>2, <1>3, <1>5 DEF Advances, q

\* ... and setRemoteDescription of an answer.
LEMMA SetRemoteAnswerAdvances ==
  ASSUME NEW p \in PeerConnection, p.chain # <<>>, Negotiates(p),
         Head(p.chain).op = "setRemoteAnswer", p.signalingState = "have-local-offer"
  PROVE  Advances(p, AfterSetRemoteAnswer(p), {})
  <1> DEFINE q == AfterSetRemoteAnswer(p)
             t == Tail(p.chain)
  <1>1. /\ p.chain \in Seq(Operation) /\ t \in Seq(Operation)
        /\ Head(p.chain) \in Operation /\ Head(p.chain) \in Elements(p.chain)
        /\ Elements(p.chain) = Elements(t) \cup {Head(p.chain)}
        /\ Elements(t \o <<>>) = Elements(t) /\ InOrder(t \o <<>>)
    BY ChainAfter
  <1>2. Head(p.chain).pc \in Ids /\ Head(p.chain) = [op |-> "setRemoteAnswer", pc |-> Head(p.chain).pc]
    BY <1>1, OperationKinds DEF Remote
  <1>3. /\ q.pc = p.pc /\ q.far = Head(p.chain).pc /\ q.signalingState = "stable"
        /\ q.chain = t \o <<>>
    <2>1. <<>> \in Seq(Operation)
      OBVIOUS
    <2>2. /\ Done(p, <<>>) \in PeerConnection /\ Done(p, <<>>).chain = t \o <<>>
          /\ Done(p, <<>>).pc = p.pc
      BY <2>1, DoneFields
    <2> QED
      BY <2>2 DEF AfterSetRemoteAnswer, PeerConnection
  <1>4. \A e \in Elements(t) : ~Offers(e)
    <2>1. InOrder(p.chain)
      BY DEF Negotiates
    <2> QED
      BY <2>1, <1>1, OrderTail
  <1> HIDE DEF q, t
  <1>5. q.far # None
    BY <1>2, <1>3
  <1>6. Negotiates(q)
    BY <1>1, <1>3, <1>4 DEF Negotiates, Offers
  <1> QED
    BY <1>1, <1>2, <1>3, <1>5, <1>6 DEF Advances, q

\* A remote description is handed to a connection.
LEMMA CalledAdvances ==
  ASSUME NEW p \in PeerConnection, Negotiates(p), NEW n \in Ids,
         NEW kind \in {"setRemoteOffer", "setRemoteAnswer"},
         kind = "setRemoteOffer" \/ p.signalingState # "stable"
  PROVE  Advances(p, Called(p, [op |-> kind, pc |-> n]), {[op |-> kind, pc |-> n]})
  <1> DEFINE o == [op |-> kind, pc |-> n]
             q == Called(p, o)
  <1>1. o \in Operation /\ o.op = kind
    BY DEF Operation
  <1>2. p.chain \in Seq(Operation) /\ InOrder(p.chain)
    BY DEF PeerConnection, Negotiates
  <1>3. /\ q.pc = p.pc /\ q.far = p.far /\ q.signalingState = p.signalingState
        /\ q.chain = Append(p.chain, o)
    BY <1>1, CalledFields
  <1>4. Elements(Append(p.chain, o)) = Elements(p.chain) \cup {o}
    BY <1>1, <1>2, ElementsOf
  <1> HIDE DEF q, o
  <1>5. InOrder(Append(p.chain, o))
    <2>1. o.op # "createOffer" /\ o.op # "setLocalOffer"
      BY <1>1
    <2>2. o.op = "setRemoteOffer" \/ \A e \in Elements(p.chain) : e.op # "createOffer"
      BY <1>1 DEF Negotiates
    <2> QED
      BY <2>1, <2>2, <1>1, <1>2, OrderAppend
  <1>6. Negotiates(q)
    BY <1>1, <1>3, <1>4, <1>5 DEF Negotiates, Offers
  <1>7. Advances(p, q, {o})
    BY <1>3, <1>4, <1>6 DEF Advances
  <1> QED
    BY <1>7 DEF q, o

------------------------------------------------------------------------------
(* The inductive invariant *)

\* b has, or is about to get, an offer (an answer) of connection n from s.
Offered(b, s, n) ==
  \/ [type |-> "offer", from |-> s, pc |-> n] \in Elements(inbox[b])
  \/ /\ peers[b][s] # None
     /\ [op |-> "setRemoteOffer", pc |-> n] \in Elements(peers[b][s].chain)

Answered(b, s, n) ==
  \/ [type |-> "answer", from |-> s, pc |-> n] \in Elements(inbox[b])
  \/ /\ peers[b][s] # None
     /\ [op |-> "setRemoteAnswer", pc |-> n] \in Elements(peers[b][s].chain)

Knows(b, s, n) ==
  Offered(b, s, n) \/ Answered(b, s, n) \/ (peers[b][s] # None /\ peers[b][s].far = n)

\* Connection n is in use, and has no remote description yet.
Lives(n) == peers[n[1]][n[2]] # None /\ peers[n[1]][n[2]].pc = n
Waits(n) == Lives(n) /\ peers[n[1]][n[2]].far = None

\* A websocket is one browser's, and the server knows it; without one, no messages come.
Sockets ==
  /\ \A b \in Browsers : sid[b] # 0 => sid[b] \in members
  /\ \A b, d \in Browsers : sid[b] # 0 /\ sid[b] = sid[d] => b = d
  /\ \A b \in Browsers : sid[b] = 0 => inbox[b] = <<>>

\* A PeerConnection has one place.
Places ==
  \A b \in Browsers, s \in Sessions : peers[b][s] # None =>
    \E k \in 1..made[b][s] : peers[b][s].pc = <<b, s, k>>

\* What b knows under session s is of the browser whose session that is, made for b's own
\* session; the one is told that the other has left, unless it gave that connection up.
References ==
  \A b \in Browsers, s \in Sessions, n \in Ids : Knows(b, s, n) =>
    /\ n[3] <= made[n[1]][n[2]]
    /\ s <= used /\ n[2] <= used
    /\ \A d \in Browsers : (sid[d] = s => d = n[1]) /\ (sid[d] = n[2] => d = b)
    /\ sid[n[1]] = s /\ Lives(n) =>
         \/ n[2] \in members
         \/ [type |-> "peer-left", id |-> n[2]] \in Elements(inbox[n[1]])

Negotiations ==
  \A b \in Browsers, s \in Sessions : peers[b][s] # None => Negotiates(peers[b][s])

\* A connection somebody knows has its offer out, or the remote description it answers.
Answers ==
  \A b \in Browsers, s \in Sessions, n \in Ids :
    Knows(b, s, n) /\ Waits(n) =>
      /\ ~Answered(b, s, n)
      /\ peers[n[1]][n[2]].signalingState = "have-local-offer"

\* A remote description is still to come for connection q of d, from session s.
Awaited(d, s) ==
  \/ \E m \in Elements(inbox[d]) : m.type = "answer" /\ m.from = s
  \/ \E o \in Elements(peers[d][s].chain) : Remote(o)

\* If b's connection to d has the description of d's to b, then that one has a description
\* too, or b has still to answer, or d has still to take a description.
Handshakes ==
  \A b, d \in Browsers, s, r \in Sessions :
    /\ sid[b] = r /\ sid[d] = s
    /\ peers[b][s] # None /\ peers[d][r] # None
    /\ peers[b][s].far = peers[d][r].pc
    => \/ peers[d][r].far # None
       \/ peers[b][s].signalingState = "have-remote-offer"
       \/ Awaited(d, r)

MeshInv ==
  Sockets /\ Places /\ References /\ Negotiations /\ Answers /\ Handshakes

------------------------------------------------------------------------------
(* Steps of the browsers *)

\* The message that gives o to a connection of b to s.
Delivered(b, s, o) ==
  \/ /\ o.op = "setRemoteOffer"
     /\ [type |-> "offer", from |-> s, pc |-> o.pc] \in Elements(inbox[b])
  \/ /\ o.op = "setRemoteAnswer"
     /\ [type |-> "answer", from |-> s, pc |-> o.pc] \in Elements(inbox[b])

\* A step leaves b's connection to s alone, ends it, makes it, or it goes on.
Stays(b, s) == peers'[b][s] = peers[b][s] /\ made'[b][s] = made[b][s]
Ends(b, s) == peers'[b][s] = None /\ made'[b][s] = made[b][s]
Begins(b, s) ==
  /\ peers[b][s] = None /\ peers'[b][s] # None
  /\ made'[b][s] = made[b][s] + 1
  /\ peers'[b][s].pc = <<b, s, made'[b][s]>>
  /\ peers'[b][s].far = None /\ peers'[b][s].signalingState = "stable"
  /\ \A o \in Elements(peers'[b][s].chain) : Remote(o) => Delivered(b, s, o)
  /\ Negotiates(peers'[b][s])
GoesOn(b, s) ==
  /\ peers[b][s] # None /\ peers'[b][s] # None
  /\ made'[b][s] = made[b][s]
  /\ \E calls \in SUBSET Operation :
       /\ \A o \in calls : Delivered(b, s, o)
       /\ Advances(peers[b][s], peers'[b][s], calls)

Moves == \A b \in Browsers, s \in Sessions :
  Stays(b, s) \/ Ends(b, s) \/ Begins(b, s) \/ GoesOn(b, s)

\* A message m to b of type t from d, of d's connection to b.
Sent(b, m, t) == \E d \in Browsers, r \in Sessions :
  /\ sid[b] = r /\ sid[d] \in Sessions
  /\ peers[d][r] # None /\ peers'[d][r] # None /\ peers'[d][r].pc = peers[d][r].pc
  /\ m = [type |-> t, from |-> sid[d], pc |-> peers[d][r].pc]
  /\ peers'[d][r].far = None =>
       t = "offer" /\ peers'[d][r].signalingState = "have-local-offer"

\* What else a step must keep: offers and answers are only those sent; a peer-left and an
\* answer are not lost on a connection; who has answered has sent the answer.
Messages ==
  /\ \A b \in Browsers : \A m \in Elements(inbox'[b]) :
       m.type \in {"offer", "answer"} => m \in Elements(inbox[b]) \/ Sent(b, m, m.type)
  /\ \A b \in Browsers, r \in Sessions :
       [type |-> "peer-left", id |-> r] \in Elements(inbox[b]) =>
         peers'[b][r] = None \/ [type |-> "peer-left", id |-> r] \in Elements(inbox'[b])
  /\ \A b \in Browsers : \A m \in Elements(inbox[b]) :
       m.type = "answer" =>
         \/ m \in Elements(inbox'[b])
         \/ peers'[b][m.from] = None
         \/ peers[b][m.from] = None
         \/ peers[b][m.from].signalingState # "have-local-offer"
         \/ \E o \in Elements(peers'[b][m.from].chain) : Remote(o)
  /\ \A b, d \in Browsers, s, r \in Sessions :
       /\ sid[b] = r /\ sid[d] = s
       /\ peers[b][s] # None /\ peers[b][s].signalingState = "have-remote-offer"
       => \/ peers'[b][s] = None
          \/ peers'[b][s].signalingState = "have-remote-offer"
          \/ \E m \in Elements(inbox'[d]) : m.type = "answer" /\ m.from = r
  /\ \A b \in Browsers : sid[b] = 0 => inbox'[b] = <<>>

\* The parts of an id.
LEMMA IdParts ==
  ASSUME NEW n \in Ids
  PROVE  n[1] \in Browsers /\ n[2] \in Sessions /\ n[3] \in Nat /\ n = <<n[1], n[2], n[3]>>
  BY DEF Ids

\* Counts of connections never go back.
LEMMA MovesMade ==
  ASSUME TypeOK, TypeOK', Moves, NEW b \in Browsers, NEW s \in Sessions
  PROVE  made[b][s] \in Nat /\ made'[b][s] \in Nat /\ made[b][s] <= made'[b][s]
  <1>1. made[b][s] \in Nat /\ made'[b][s] \in Nat
    BY DEF TypeOK
  <1>2. made'[b][s] = made[b][s] \/ made'[b][s] = made[b][s] + 1
    BY DEF Moves, Stays, Ends, Begins, GoesOn
  <1> QED
    BY <1>1, <1>2

\* A connection keeps its place.
LEMMA MovesPlaces ==
  ASSUME TypeOK, TypeOK', Moves, Places
  PROVE  Places'
  <1> SUFFICES ASSUME NEW b \in Browsers, NEW s \in Sessions, peers'[b][s] # None
               PROVE  \E k \in 1..made'[b][s] : peers'[b][s].pc = <<b, s, k>>
    BY DEF Places
  <1>1. made[b][s] \in Nat /\ made'[b][s] \in Nat /\ made[b][s] <= made'[b][s]
    BY MovesMade
  <1>2. CASE Begins(b, s)
    BY <1>1, <1>2 DEF Begins
  <1>3. CASE Stays(b, s) \/ GoesOn(b, s)
    <2>1. peers[b][s] # None /\ peers'[b][s].pc = peers[b][s].pc /\ made'[b][s] = made[b][s]
      BY <1>3 DEF Stays, GoesOn, Advances
    <2> QED
      BY <2>1 DEF Places
  <1> QED
    BY <1>2, <1>3 DEF Moves, Ends

\* Each connection is still in the midst of a negotiation, or before or after one.
LEMMA MovesNegotiations ==
  ASSUME Moves, Negotiations
  PROVE  Negotiations'
  BY DEF Moves, Negotiations, Stays, Ends, Begins, GoesOn, Advances

\* A connection counted before the step was there before, and has waited if it waits.
LEMMA MovesLives ==
  ASSUME TypeOK, TypeOK', Moves, Places, NEW n \in Ids, n[3] <= made[n[1]][n[2]], Lives(n)'
  PROVE  /\ Lives(n)
         /\ Waits(n)' => /\ Waits(n)
                         /\ peers[n[1]][n[2]].signalingState = "have-local-offer" =>
                              peers'[n[1]][n[2]].signalingState = "have-local-offer"
  <1> DEFINE b == n[1]
             s == n[2]
  <1>1. b \in Browsers /\ s \in Sessions /\ n[3] \in Nat
    BY IdParts
  <1>2. peers'[b][s] # None /\ peers'[b][s].pc = n
    BY DEF Lives
  <1>3. ~Begins(b, s)
    <2> SUFFICES ASSUME Begins(b, s) PROVE FALSE
      OBVIOUS
    <2>1. n[3] = made[b][s] + 1 /\ made[b][s] \in Nat
      BY <1>1, <1>2, MovesMade DEF Begins
    <2> QED
      BY <2>1
  <1>4. Stays(b, s) \/ GoesOn(b, s)
    BY <1>1, <1>2, <1>3 DEF Moves, Ends
  <1>5. peers[b][s] # None /\ peers[b][s].pc = n
    BY <1>2, <1>4 DEF Stays, GoesOn, Advances
  <1>6. peers'[b][s].far = None =>
          /\ peers[b][s].far = None
          /\ peers[b][s].signalingState = "have-local-offer" =>
               peers'[b][s].signalingState = "have-local-offer"
    BY <1>4 DEF Stays, GoesOn, Advances
  <1> QED
    BY <1>5, <1>6 DEF Lives, Waits

\* What a browser knows after a step it knew, or it has been sent.
LEMMA MovesKnows ==
  ASSUME TypeOK, TypeOK', Moves, Messages,
         NEW b \in Browsers, NEW s \in Sessions, NEW n \in Ids
  PROVE  /\ Offered(b, s, n)' =>
              \/ Offered(b, s, n)
              \/ Sent(b, [type |-> "offer", from |-> s, pc |-> n], "offer")
         /\ Answered(b, s, n)' =>
              \/ Answered(b, s, n)
              \/ Sent(b, [type |-> "answer", from |-> s, pc |-> n], "answer")
         /\ peers'[b][s] # None /\ peers'[b][s].far = n =>
              \/ peers[b][s] # None /\ peers[b][s].far = n
              \/ Offered(b, s, n) /\ peers'[b][s].signalingState = "have-remote-offer"
              \/ Answered(b, s, n)
  <1>1. ASSUME peers'[b][s] # None, NEW o \in Elements(peers'[b][s].chain), Remote(o)
        PROVE  \/ peers[b][s] # None /\ o \in Elements(peers[b][s].chain)
               \/ Delivered(b, s, o)
    BY <1>1 DEF Moves, Stays, Ends, Begins, GoesOn, Advances
  <1>2. ASSUME NEW t \in {"offer", "answer"},
               [type |-> t, from |-> s, pc |-> n] \in Elements(inbox'[b])
        PROVE  \/ [type |-> t, from |-> s, pc |-> n] \in Elements(inbox[b])
               \/ Sent(b, [type |-> t, from |-> s, pc |-> n], t)
    <2> DEFINE m == [type |-> t, from |-> s, pc |-> n]
    <2>1. m.type = t
      OBVIOUS
    <2>2. m \in Elements(inbox'[b])
      BY <1>2
    <2> HIDE DEF m
    <2>3. m \in Elements(inbox[b]) \/ Sent(b, m, t)
      BY <2>1, <2>2 DEF Messages
    <2> QED
      BY <2>3 DEF m
  <1>3. Offered(b, s, n)' =>
              \/ Offered(b, s, n)
              \/ Sent(b, [type |-> "offer", from |-> s, pc |-> n], "offer")
    <2>1. CASE [type |-> "offer", from |-> s, pc |-> n] \in Elements(inbox'[b])
      BY <1>2, <2>1 DEF Offered
    <2>2. CASE /\ peers'[b][s] # None
               /\ [op |-> "setRemoteOffer", pc |-> n] \in Elements(peers'[b][s].chain)
      <3> DEFINE o == [op |-> "setRemoteOffer", pc |-> n]
      <3>1. Remote(o) /\ o.op = "setRemoteOffer" /\ o.pc = n
        BY DEF Remote
      <3>2. o \in Elements(peers'[b][s].chain)
        BY <2>2
      <3> HIDE DEF o
      <3>3. \/ peers[b][s] # None /\ o \in Elements(peers[b][s].chain)
            \/ Delivered(b, s, o)
        BY <1>1, <2>2, <3>1, <3>2
      <3>4. CASE Delivered(b, s, o)
        BY <3>1, <3>4 DEF Delivered, Offered
      <3>5. CASE peers[b][s] # None /\ o \in Elements(peers[b][s].chain)
        BY <3>5 DEF Offered, o
      <3> QED
        BY <3>3, <3>4, <3>5
    <2> QED
      BY <2>1, <2>2 DEF Offered
  <1>4. Answered(b, s, n)' =>
              \/ Answered(b, s, n)
              \/ Sent(b, [type |-> "answer", from |-> s, pc |-> n], "answer")
    <2>1. CASE [type |-> "answer", from |-> s, pc |-> n] \in Elements(inbox'[b])
      BY <1>2, <2>1 DEF Answered
    <2>2. CASE /\ peers'[b][s] # None
               /\ [op |-> "setRemoteAnswer", pc |-> n] \in Elements(peers'[b][s].chain)
      <3> DEFINE o == [op |-> "setRemoteAnswer", pc |-> n]
      <3>1. Remote(o) /\ o.op = "setRemoteAnswer" /\ o.pc = n
        BY DEF Remote
      <3>2. o \in Elements(peers'[b][s].chain)
        BY <2>2
      <3> HIDE DEF o
      <3>3. \/ peers[b][s] # None /\ o \in Elements(peers[b][s].chain)
            \/ Delivered(b, s, o)
        BY <1>1, <2>2, <3>1, <3>2
      <3>4. CASE Delivered(b, s, o)
        BY <3>1, <3>4 DEF Delivered, Answered
      <3>5. CASE peers[b][s] # None /\ o \in Elements(peers[b][s].chain)
        BY <3>5 DEF Answered, o
      <3> QED
        BY <3>3, <3>4, <3>5
    <2> QED
      BY <2>1, <2>2 DEF Answered
  <1>5. ASSUME peers'[b][s] # None, peers'[b][s].far = n
        PROVE  \/ peers[b][s] # None /\ peers[b][s].far = n
               \/ Offered(b, s, n) /\ peers'[b][s].signalingState = "have-remote-offer"
               \/ Answered(b, s, n)
    <2>1. n # None
      OBVIOUS
    <2>2. CASE GoesOn(b, s)
      BY <1>5, <2>2 DEF GoesOn, Advances, Offered, Answered
    <2> QED
      BY <1>5, <2>1, <2>2 DEF Moves, Stays, Ends, Begins
  <1> QED
    BY <1>3, <1>4, <1>5

\* A browser that is sent a message, and the sender.
LEMMA SentFacts ==
  ASSUME TypeOK, MeshInv, NEW b \in Browsers, NEW s \in Sessions, NEW n \in Ids, NEW t,
         Sent(b, [type |-> t, from |-> s, pc |-> n], t)
  PROVE  /\ Lives(n) /\ sid[n[1]] = s /\ sid[b] = n[2]
         /\ n[3] <= made[n[1]][n[2]]
         /\ s \in members /\ n[2] \in members
         /\ peers'[n[1]][n[2]] # None
         /\ peers'[n[1]][n[2]].far = None =>
              t = "offer" /\ peers'[n[1]][n[2]].signalingState = "have-local-offer"
  <1> DEFINE m == [type |-> t, from |-> s, pc |-> n]
  <1>1. PICK d \in Browsers, r \in Sessions :
          /\ sid[b] = r /\ sid[d] \in Sessions
          /\ peers[d][r] # None /\ peers'[d][r] # None /\ peers'[d][r].pc = peers[d][r].pc
          /\ m = [type |-> t, from |-> sid[d], pc |-> peers[d][r].pc]
          /\ peers'[d][r].far = None =>
               t = "offer" /\ peers'[d][r].signalingState = "have-local-offer"
    BY DEF Sent
  <1>2. m.from = s /\ m.pc = n
    OBVIOUS
  <1>3. s = sid[d] /\ n = peers[d][r].pc
    BY <1>1, <1>2
  <1>4. PICK k \in 1..made[d][r] : n = <<d, r, k>>
    BY <1>1, <1>3 DEF MeshInv, Places
  <1>5. made[d][r] \in Nat
    BY DEF TypeOK
  <1>6. n[1] = d /\ n[2] = r /\ n[3] = k /\ k <= made[d][r]
    BY <1>4, <1>5
  <1>7. sid[b] # 0 /\ sid[d] # 0
    BY <1>1 DEF Sessions
  <1>8. sid[b] \in members /\ sid[d] \in members
    BY <1>7 DEF MeshInv, Sockets
  <1> HIDE DEF m
  <1> QED
    BY <1>1, <1>3, <1>6, <1>8 DEF Lives

\* What becomes known was sent by a connection that is there, and the rest is as it was.
LEMMA MovesReferences ==
  ASSUME TypeOK, TypeOK', MeshInv, Moves, Messages, UNCHANGED <<sid, members, used>>
  PROVE  References'
  <1> SUFFICES ASSUME NEW b \in Browsers, NEW s \in Sessions, NEW n \in Ids, Knows(b, s, n)'
               PROVE  /\ n[3] <= made'[n[1]][n[2]]
                      /\ s <= used' /\ n[2] <= used'
                      /\ \A d \in Browsers :
                           (sid'[d] = s => d = n[1]) /\ (sid'[d] = n[2] => d = b)
                      /\ sid'[n[1]] = s /\ Lives(n)' =>
                           \/ n[2] \in members'
                           \/ [type |-> "peer-left", id |-> n[2]] \in Elements(inbox'[n[1]])
    BY DEF References
  <1>1. n[1] \in Browsers /\ n[2] \in Sessions /\ n[3] \in Nat
    BY IdParts
  <1>2. /\ made[n[1]][n[2]] \in Nat /\ made'[n[1]][n[2]] \in Nat
        /\ made[n[1]][n[2]] <= made'[n[1]][n[2]]
    BY <1>1, MovesMade
  <1>3. CASE Knows(b, s, n)
    <2>1. /\ n[3] <= made[n[1]][n[2]]
          /\ s <= used /\ n[2] <= used
          /\ \A d \in Browsers : (sid[d] = s => d = n[1]) /\ (sid[d] = n[2] => d = b)
          /\ sid[n[1]] = s /\ Lives(n) =>
               \/ n[2] \in members
               \/ [type |-> "peer-left", id |-> n[2]] \in Elements(inbox[n[1]])
      BY <1>3 DEF MeshInv, References
    <2>2. n[3] <= made'[n[1]][n[2]]
      BY <1>1, <1>2, <2>1
    <2>3. ASSUME sid'[n[1]] = s, Lives(n)'
          PROVE  \/ n[2] \in members'
                 \/ [type |-> "peer-left", id |-> n[2]] \in Elements(inbox'[n[1]])
      <3>1. Lives(n)
        BY <2>1, <2>3, MovesLives DEF MeshInv
      <3>2. peers'[n[1]][n[2]] # None
        BY <2>3 DEF Lives
      <3> QED
        BY <1>1, <2>1, <2>3, <3>1, <3>2 DEF Messages
    <2> QED
      BY <2>1, <2>2, <2>3
  <1>4. ASSUME NEW t, Sent(b, [type |-> t, from |-> s, pc |-> n], t)
        PROVE  /\ n[3] <= made'[n[1]][n[2]]
               /\ s <= used' /\ n[2] <= used'
               /\ \A d \in Browsers :
                    (sid'[d] = s => d = n[1]) /\ (sid'[d] = n[2] => d = b)
               /\ n[2] \in members'
    <2>1. /\ Lives(n) /\ sid[n[1]] = s /\ sid[b] = n[2]
          /\ n[3] <= made[n[1]][n[2]]
          /\ s \in members /\ n[2] \in members
      BY <1>4, SentFacts
    <2>2. n[3] <= made'[n[1]][n[2]]
      BY <1>1, <1>2, <2>1
    <2>3. s <= used /\ n[2] <= used
      BY <2>1 DEF TypeOK
    <2>4. s # 0 /\ n[2] # 0
      BY <1>1 DEF Sessions
    <2>5. \A d \in Browsers : (sid[d] = s => d = n[1]) /\ (sid[d] = n[2] => d = b)
      BY <1>1, <2>1, <2>4 DEF MeshInv, Sockets
    <2> QED
      BY <2>1, <2>2, <2>3, <2>5
  <1>5. \/ Knows(b, s, n)
        \/ Sent(b, [type |-> "offer", from |-> s, pc |-> n], "offer")
        \/ Sent(b, [type |-> "answer", from |-> s, pc |-> n], "answer")
    <2>1. Offered(b, s, n)' \/ Answered(b, s, n)' \/ (peers'[b][s] # None /\ peers'[b][s].far = n)
      BY DEF Knows
    <2> QED
      BY <2>1, MovesKnows DEF Knows
  <1> QED
    BY <1>3, <1>4, <1>5

\* A connection that has no remote description, and is known, has only its offer out.
LEMMA MovesAnswers ==
  ASSUME TypeOK, TypeOK', MeshInv, Moves, Messages
  PROVE  Answers'
  <1> SUFFICES ASSUME NEW b \in Browsers, NEW s \in Sessions, NEW n \in Ids,
                      Knows(b, s, n)', Waits(n)'
               PROVE  /\ ~Answered(b, s, n)'
                      /\ peers'[n[1]][n[2]].signalingState = "have-local-offer"
    BY DEF Answers
  <1>1. Lives(n)' /\ peers'[n[1]][n[2]].far = None
    BY DEF Waits
  <1>2. ~Sent(b, [type |-> "answer", from |-> s, pc |-> n], "answer")
    BY <1>1, SentFacts
  <1>3. CASE Knows(b, s, n)
    <2>1. n[3] <= made[n[1]][n[2]]
      BY <1>3 DEF MeshInv, References
    <2>2. /\ Waits(n)
          /\ peers[n[1]][n[2]].signalingState = "have-local-offer" =>
               peers'[n[1]][n[2]].signalingState = "have-local-offer"
      BY <1>1, <2>1, MovesLives DEF MeshInv
    <2>3. ~Answered(b, s, n) /\ peers[n[1]][n[2]].signalingState = "have-local-offer"
      BY <1>3, <2>2 DEF MeshInv, Answers
    <2> QED
      BY <1>2, <2>2, <2>3, MovesKnows
  <1>4. CASE ~Knows(b, s, n)
    <2>1. ~Answered(b, s, n) /\ ~Offered(b, s, n) /\ ~(peers[b][s] # None /\ peers[b][s].far = n)
      BY <1>4 DEF Knows
    <2>2. ~Answered(b, s, n)'
      BY <1>2, <2>1, MovesKnows
    <2>3. Sent(b, [type |-> "offer", from |-> s, pc |-> n], "offer")
      BY <2>1, <2>2, MovesKnows DEF Knows
    <2> QED
      BY <1>1, <2>2, <2>3, SentFacts
  <1> QED
    BY <1>3, <1>4

\* A description that is held is answered, or the answer is on its way.
LEMMA MovesHandshakes ==
  ASSUME TypeOK, TypeOK', MeshInv, Moves, Messages, UNCHANGED sid
  PROVE  Handshakes'
  <1> SUFFICES ASSUME NEW b \in Browsers, NEW d \in Browsers,
                      NEW s \in Sessions, NEW r \in Sessions,
                      sid[b] = r, sid[d] = s,
                      peers'[b][s] # None, peers'[d][r] # None,
                      peers'[b][s].far = peers'[d][r].pc,
                      peers'[d][r].far = None,
                      peers'[b][s].signalingState # "have-remote-offer"
               PROVE  Awaited(d, r)'
    BY DEF Handshakes
  <1>1. PICK n \in Ids : n = peers'[d][r].pc
    <2>1. peers'[d][r] \in PeerConnection
      BY DEF TypeOK
    <2> QED
      BY <2>1 DEF PeerConnection
  <1>2. n \in Ids /\ n[1] = d /\ n[2] = r
    <2>1. PICK k \in 1..made'[d][r] : n = <<d, r, k>>
      BY <1>1, MovesPlaces DEF MeshInv, Places
    <2> QED
      BY <2>1
  <1>3. Waits(n)'
    BY <1>1, <1>2 DEF Waits, Lives
  <1>4. peers'[b][s].far = n
    BY <1>1
  <1>5. \/ peers[b][s] # None /\ peers[b][s].far = n
        \/ Answered(b, s, n)
    BY <1>2, <1>4, MovesKnows
  <1>6. Knows(b, s, n)
    BY <1>5 DEF Knows
  <1>7. n[3] <= made[n[1]][n[2]]
    BY <1>2, <1>6 DEF MeshInv, References
  <1>8. Waits(n)
    <2>1. Lives(n)'
      BY <1>3 DEF Waits
    <2> QED
      BY <1>2, <1>3, <1>7, <2>1, MovesLives DEF MeshInv
  <1>9. ~Answered(b, s, n) /\ peers[d][r].signalingState = "have-local-offer"
    BY <1>2, <1>6, <1>8 DEF MeshInv, Answers
  <1>10. /\ peers[b][s] # None /\ peers[b][s].far = n
         /\ peers[d][r] # None /\ peers[d][r].pc = n /\ peers[d][r].far = None
    BY <1>2, <1>5, <1>8, <1>9 DEF Waits, Lives
  <1>11. peers[b][s].signalingState = "have-remote-offer" \/ Awaited(d, r)
    BY <1>10 DEF MeshInv, Handshakes
  <1>12. CASE peers[b][s].signalingState = "have-remote-offer"
    <2>1. \E m \in Elements(inbox'[d]) : m.type = "answer" /\ m.from = r
      BY <1>10, <1>12 DEF Messages
    <2> QED
      BY <2>1 DEF Awaited
  <1>13. CASE \E m \in Elements(inbox[d]) : m.type = "answer" /\ m.from = r
    <2>1. PICK m \in Elements(inbox[d]) : m.type = "answer" /\ m.from = r
      BY <1>13
    <2>2. m \in Elements(inbox'[d]) \/ \E o \in Elements(peers'[d][r].chain) : Remote(o)
      BY <1>9, <1>10, <2>1 DEF Messages
    <2> QED
      BY <2>1, <2>2 DEF Awaited
  <1>14. CASE \E o \in Elements(peers[d][r].chain) : Remote(o)
    <2>1. PICK o \in Elements(peers[d][r].chain) : Remote(o)
      BY <1>14
    <2>2. Stays(d, r) \/ GoesOn(d, r)
      BY <1>10 DEF Moves, Ends, Begins
    <2>3. o \in Elements(peers'[d][r].chain)
      BY <1>9, <2>1, <2>2 DEF Stays, GoesOn, Advances
    <2> QED
      BY <2>1, <2>3 DEF Awaited
  <1> QED
    BY <1>11, <1>12, <1>13, <1>14 DEF Awaited

\* Steps of this kind keep the invariant.
LEMMA MovesInv ==
  ASSUME TypeOK, TypeOK', MeshInv, Moves, Messages, UNCHANGED <<sid, members, used>>
  PROVE  MeshInv'
  <1>1. Sockets'
    BY DEF MeshInv, Sockets, Messages
  <1>2. Places' /\ Negotiations'
    BY MovesPlaces, MovesNegotiations DEF MeshInv
  <1>3. References' /\ Answers' /\ Handshakes'
    BY MovesReferences, MovesAnswers, MovesHandshakes
  <1> QED
    BY <1>1, <1>2, <1>3 DEF MeshInv

------------------------------------------------------------------------------
(* The steps of the browsers are of this kind *)

\* The messages to a browser after others have been sent, and after one has been taken.
LEMMA TellElements ==
  ASSUME TypeOK, NEW to, NEW m \in Message, Tell(to, m), NEW c \in Browsers
  PROVE  /\ sid[c] \in to => Elements(inbox'[c]) = Elements(inbox[c]) \cup {m}
         /\ sid[c] \notin to => inbox'[c] = inbox[c]
  <1>1. inbox[c] \in Seq(Message)
    BY DEF TypeOK
  <1>2. sid[c] \in to => inbox'[c] = Append(inbox[c], m)
    BY DEF Tell
  <1>3. sid[c] \notin to => inbox'[c] = inbox[c]
    BY DEF Tell
  <1>4. Elements(Append(inbox[c], m)) = Elements(inbox[c]) \cup {m}
    <2> DEFINE q == inbox[c]
    <2>1. q \in Seq(Message)
      BY <1>1
    <2> HIDE DEF q
    <2>2. Elements(Append(q, m)) = Elements(q) \cup {m}
      BY <2>1, ElementsOf
    <2> QED
      BY <2>2 DEF q
  <1> QED
    BY <1>2, <1>3, <1>4

\* An offer or answer adds at most itself, to the inbox of its target.
LEMMA SendElements ==
  ASSUME TypeOK, NEW b \in Browsers, NEW s \in Sessions, NEW n \in Ids,
         NEW t \in {"offer", "answer"}, SendToTarget(b, s, t, n), NEW c \in Browsers
  PROVE  /\ sid[b] # 0 /\ sid[c] = s =>
              Elements(inbox'[c]) = Elements(inbox[c]) \cup {[type |-> t, from |-> sid[b], pc |-> n]}
         /\ sid[b] = 0 \/ sid[c] # s => inbox'[c] = inbox[c]
         /\ sid[b] # 0 => sid[b] \in Sessions
  <1>1. CASE sid[b] = 0
    BY <1>1 DEF SendToTarget
  <1>2. CASE sid[b] # 0
    <2>1. sid[b] \in Sessions
      BY <1>2 DEF TypeOK, Sessions
    <2>2. [type |-> t, from |-> sid[b], pc |-> n] \in Message
      BY <2>1 DEF Message
    <2>3. Tell({s}, [type |-> t, from |-> sid[b], pc |-> n])
      BY <1>2 DEF SendToTarget
    <2> QED
      BY <1>2, <2>1, <2>2, <2>3, TellElements
  <1> QED
    BY <1>1, <1>2

\* Taking a message takes at most that message from the inbox.
LEMMA ReceiveElements ==
  ASSUME TypeOK, NEW b \in Browsers, NEW t, Receive(b, t)
  PROVE  /\ Elements(inbox[b]) = Elements(inbox'[b]) \cup {Head(inbox[b])}
         /\ Head(inbox[b]) \in Message /\ Head(inbox[b]).type = t
         /\ \A c \in Browsers : c # b => inbox'[c] = inbox[c]
  <1>1. /\ inbox[b] # <<>> /\ Head(inbox[b]) \in Message /\ Head(inbox[b]).type = t
        /\ inbox'[b] = Tail(inbox[b]) /\ inbox[b] \in Seq(Message)
        /\ \A c \in Browsers : c # b => inbox'[c] = inbox[c]
    BY ReceiveType DEF TypeOK
  <1>2. Elements(inbox[b]) = Elements(Tail(inbox[b])) \cup {Head(inbox[b])}
    <2> DEFINE q == inbox[b]
    <2>1. q \in Seq(Message) /\ q # <<>> /\ Head(q) \in Message
      BY <1>1
    <2> HIDE DEF q
    <2>2. Elements(q) = Elements(Tail(q)) \cup {Head(q)}
      BY <2>1, ElementsOf
    <2> QED
      BY <2>2 DEF q
  <1> QED
    BY <1>1, <1>2

\* A connection begins with an offer of its own or a remote one.
LEMMA NewNegotiates ==
  ASSUME TypeOK, NEW b \in Browsers, NEW s \in Sessions, NEW op \in Operation,
         op.op \in {"createOffer", "setRemoteOffer"}
  PROVE  Negotiates(NewPeer(b, s, op)) /\ Elements(NewPeer(b, s, op).chain) = {op}
  <1> DEFINE q == NewPeer(b, s, op)
  <1>1. q.far = None /\ q.chain = <<op>> /\ q.signalingState = "stable"
    BY NewPeerFields
  <1>2. Elements(<<op>>) = {op}
    BY DEF Elements
  <1>3. InOrder(<<op>>)
    <2>1. \A j \in 1..Len(<<op>>) : j = 1 /\ <<op>>[j] = op
      OBVIOUS
    <2>2. \A i \in 1..(1 - 1) : FALSE
      OBVIOUS
    <2> QED
      BY <2>1, <2>2 DEF InOrder
  <1> HIDE DEF q
  <1>4. Negotiates(q)
    BY <1>1, <1>2, <1>3 DEF Negotiates
  <1> QED
    BY <1>1, <1>2, <1>4 DEF q

\* One connection ends, or goes on without new calls.
LEMMA OneMoves ==
  ASSUME TypeOK, NEW b \in Browsers, NEW s \in Sessions, NEW q \in PeerConnection \cup {None},
         peers' = [peers EXCEPT ![b][s] = q], made' = made,
         q = None \/ (peers[b][s] # None /\ Advances(peers[b][s], q, {}))
  PROVE  Moves
  <1>1. /\ peers'[b][s] = q
        /\ \A c \in Browsers, t \in Sessions : c # b \/ t # s => peers'[c][t] = peers[c][t]
    BY DEF TypeOK
  <1>2. \A c \in Browsers, t \in Sessions : c # b \/ t # s => Stays(c, t)
    BY <1>1 DEF Stays
  <1>3. q = None => Ends(b, s)
    BY <1>1 DEF Ends
  <1>4. ASSUME q # None
        PROVE  GoesOn(b, s)
    <2>1. \A o \in {} : Delivered(b, s, o)
      OBVIOUS
    <2>2. {} \in SUBSET Operation
      OBVIOUS
    <2> QED
      BY <1>1, <1>4, <2>1, <2>2 DEF GoesOn
  <1> QED
    BY <1>1, <1>2, <1>3, <1>4 DEF Moves

\* The loop makes at most one connection, next to what else the step does to b's.
LEMMA LoopMoves ==
  ASSUME TypeOK, NEW b \in Browsers, NEW ps \in [Sessions -> PeerConnection \cup {None}],
         NEW list \in SUBSET Sessions, OfferLoop(b, ps, list),
         \A t \in Sessions :
           \/ ps[t] = peers[b][t]
           \/ /\ peers[b][t] # None /\ ps[t] # None
              /\ Advances(peers[b][t], ps[t], {})
  PROVE  /\ Moves
         /\ \A t \in Sessions : ps[t] # None => peers'[b][t] = ps[t]
         /\ \A c \in Browsers, t \in Sessions : c # b => peers'[c][t] = peers[c][t]
  <1>1. ASSUME NEW t \in Sessions, peers'[b][t] = ps[t], made'[b][t] = made[b][t]
        PROVE  Stays(b, t) \/ GoesOn(b, t)
    <2>1. \A o \in {} : Delivered(b, t, o)
      OBVIOUS
    <2>2. {} \in SUBSET Operation
      OBVIOUS
    <2>3. CASE ps[t] = peers[b][t]
      BY <1>1, <2>3 DEF Stays
    <2>4. CASE /\ peers[b][t] # None /\ ps[t] # None
               /\ Advances(peers[b][t], ps[t], {})
      BY <1>1, <2>1, <2>2, <2>4 DEF GoesOn
    <2> QED
      BY <2>3, <2>4
  <1>2. CASE Offerable(b, ps, list) = {}
    <2>1. peers' = [peers EXCEPT ![b] = ps] /\ made' = made
      BY <1>2 DEF OfferLoop
    <2>2. peers'[b] = ps /\ \A c \in Browsers : c # b => peers'[c] = peers[c]
      BY <2>1 DEF TypeOK
    <2>3. \A c \in Browsers, t \in Sessions : c # b => Stays(c, t)
      BY <2>1, <2>2 DEF Stays
    <2> QED
      BY <1>1, <2>1, <2>2, <2>3 DEF Moves
  <1>3. CASE Offerable(b, ps, list) # {}
    <2>1. PICK s \in Offerable(b, ps, list) :
            /\ CountNew(b, s)
            /\ peers' = [peers EXCEPT ![b] = [ps EXCEPT ![s] =
                 NewPeer(b, s, [op |-> "createOffer", rest |-> list \ {s}])]]
      BY <1>3 DEF OfferLoop
    <2>2. s \in Sessions /\ ps[s] = None
      BY DEF Offerable
    <2> DEFINE op == [op |-> "createOffer", rest |-> list \ {s}]
               q == NewPeer(b, s, op)
    <2>3. op \in Operation /\ op.op = "createOffer"
      BY DEF Operation
    <2>4. /\ q \in PeerConnection
          /\ q.pc = <<b, s, made[b][s] + 1>> /\ q.far = None /\ q.signalingState = "stable"
      BY <2>2, <2>3, NewPeerFields
    <2>5. Negotiates(q) /\ Elements(q.chain) = {op}
      BY <2>2, <2>3, NewNegotiates
    <2> HIDE DEF op, q
    <2>6. peers' = [peers EXCEPT ![b] = [ps EXCEPT ![s] = q]]
      BY <2>1 DEF q, op
    <2>7. /\ peers'[b][s] = q
          /\ \A t \in Sessions : t # s => peers'[b][t] = ps[t]
          /\ \A c \in Browsers : c # b => peers'[c] = peers[c]
      BY <2>2, <2>6 DEF TypeOK
    <2>8. /\ made'[b][s] = made[b][s] + 1
          /\ \A t \in Sessions : t # s => made'[b][t] = made[b][t]
          /\ \A c \in Browsers : c # b => made'[c] = made[c]
      BY <2>1, <2>2 DEF TypeOK, CountNew
    <2>9. peers[b][s] = None
      BY <2>2
    <2>10. q # None
      BY <2>4
    <2>11. Begins(b, s)
      BY <2>3, <2>4, <2>5, <2>7, <2>8, <2>9, <2>10 DEF Begins, Remote
    <2>12. \A c \in Browsers, t \in Sessions : c # b => Stays(c, t)
      BY <2>7, <2>8 DEF Stays
    <2>13. \A t \in Sessions : t # s => Stays(b, t) \/ GoesOn(b, t)
      BY <1>1, <2>7, <2>8
    <2>14. Moves
      BY <2>11, <2>12, <2>13 DEF Moves
    <2> QED
      BY <2>2, <2>7, <2>14
  <1> QED
    BY <1>2, <1>3

\* A step that sends and takes nothing, after which who has to answer has still to.
LEMMA SilentMessages ==
  ASSUME TypeOK, MeshInv, inbox' = inbox,
         \A c \in Browsers, t \in Sessions :
           peers[c][t] # None /\ peers[c][t].signalingState = "have-remote-offer" =>
             peers'[c][t] = None \/ peers'[c][t].signalingState = "have-remote-offer"
  PROVE  Messages
  BY DEF Messages, MeshInv, Sockets

\* A step that takes one message, with which no peer-left and no answer is lost.
LEMMA ReceiveMessages ==
  ASSUME TypeOK, MeshInv, NEW b \in Browsers, NEW t, Receive(b, t),
         \A c \in Browsers, s \in Sessions :
           peers[c][s] # None /\ peers[c][s].signalingState = "have-remote-offer" =>
             peers'[c][s] = None \/ peers'[c][s].signalingState = "have-remote-offer",
         Head(inbox[b]).type = "peer-left" => peers'[b][Head(inbox[b]).id] = None,
         Head(inbox[b]).type = "answer" =>
           LET s == Head(inbox[b]).from IN
           \/ peers'[b][s] = None
           \/ peers[b][s] = None
           \/ peers[b][s].signalingState # "have-local-offer"
           \/ \E o \in Elements(peers'[b][s].chain) : Remote(o)
  PROVE  Messages
  <1>1. /\ Elements(inbox[b]) = Elements(inbox'[b]) \cup {Head(inbox[b])}
        /\ \A c \in Browsers : c # b => inbox'[c] = inbox[c]
    BY ReceiveElements
  <1>2. \A c \in Browsers : \A m \in Elements(inbox'[c]) : m \in Elements(inbox[c])
    BY <1>1
  <1>3. \A c \in Browsers : \A m \in Elements(inbox[c]) :
          m \in Elements(inbox'[c]) \/ (c = b /\ m = Head(inbox[b]))
    BY <1>1
  <1>4. ASSUME NEW c \in Browsers, NEW r \in Sessions,
               [type |-> "peer-left", id |-> r] \in Elements(inbox[c])
        PROVE  peers'[c][r] = None \/ [type |-> "peer-left", id |-> r] \in Elements(inbox'[c])
    <2>1. CASE c = b /\ Head(inbox[b]) = [type |-> "peer-left", id |-> r]
      <3>1. Head(inbox[b]).type = "peer-left" /\ Head(inbox[b]).id = r
        BY <2>1
      <3> QED
        BY <2>1, <3>1
    <2> QED
      BY <1>3, <1>4, <2>1
  <1>5. ASSUME NEW c \in Browsers, NEW m \in Elements(inbox[c]), m.type = "answer"
        PROVE  \/ m \in Elements(inbox'[c])
               \/ peers'[c][m.from] = None
               \/ peers[c][m.from] = None
               \/ peers[c][m.from].signalingState # "have-local-offer"
               \/ \E o \in Elements(peers'[c][m.from].chain) : Remote(o)
    BY <1>3, <1>5
  <1>6. \A c \in Browsers : sid[c] = 0 => inbox'[c] = <<>>
    <2>1. sid[b] # 0
      BY DEF Receive, MeshInv, Sockets
    <2> QED
      BY <1>1, <2>1 DEF MeshInv, Sockets
  <1> QED
    BY <1>2, <1>4, <1>5, <1>6 DEF Messages

\* A step that sends a description of b's connection to s.
LEMMA SendMessages ==
  ASSUME TypeOK, MeshInv, NEW b \in Browsers, NEW s \in Sessions, NEW n \in Ids,
         NEW t \in {"offer", "answer"}, SendToTarget(b, s, t, n),
         peers[b][s] # None, peers[b][s].pc = n, peers'[b][s] # None, peers'[b][s].pc = n,
         peers'[b][s].far = None =>
           t = "offer" /\ peers'[b][s].signalingState = "have-local-offer",
         \A c \in Browsers, u \in Sessions :
           peers[c][u] # None /\ peers[c][u].signalingState = "have-remote-offer" =>
             \/ peers'[c][u] = None \/ peers'[c][u].signalingState = "have-remote-offer"
             \/ c = b /\ u = s /\ t = "answer"
  PROVE  Messages
  <1> DEFINE m == [type |-> t, from |-> sid[b], pc |-> n]
  <1>1. m.type = t /\ m.from = sid[b]
    OBVIOUS
  <1>2. ASSUME NEW c \in Browsers
        PROVE  /\ sid[b] # 0 /\ sid[c] = s => Elements(inbox'[c]) = Elements(inbox[c]) \cup {m}
               /\ sid[b] = 0 \/ sid[c] # s => inbox'[c] = inbox[c]
               /\ sid[b] # 0 => sid[b] \in Sessions
    <2>1. /\ sid[b] # 0 /\ sid[c] = s =>
              Elements(inbox'[c]) = Elements(inbox[c]) \cup {[type |-> t, from |-> sid[b], pc |-> n]}
          /\ sid[b] = 0 \/ sid[c] # s => inbox'[c] = inbox[c]
          /\ sid[b] # 0 => sid[b] \in Sessions
      BY SendElements
    <2> QED
      BY <2>1
  <1>3. ASSUME NEW c \in Browsers, sid[b] # 0, sid[c] = s
        PROVE  Sent(c, m, t)
    BY <1>2, <1>3 DEF Sent
  <1> HIDE DEF m
  <1>4. \A c \in Browsers : \A e \in Elements(inbox[c]) : e \in Elements(inbox'[c])
    BY <1>2
  <1>5. ASSUME NEW c \in Browsers, NEW e \in Elements(inbox'[c])
        PROVE  e \in Elements(inbox[c]) \/ Sent(c, e, e.type)
    <2>1. CASE e \in Elements(inbox[c])
      BY <2>1
    <2>2. CASE e \notin Elements(inbox[c])
      <3>1. sid[b] # 0 /\ sid[c] = s /\ e = m
        BY <1>2, <2>2
      <3> QED
        BY <1>1, <1>3, <3>1
    <2> QED
      BY <2>1, <2>2
  <1>6. \A c \in Browsers : sid[c] = 0 => inbox'[c] = <<>>
    <2>1. s # 0
      BY DEF Sessions
    <2> QED
      BY <1>2, <2>1 DEF MeshInv, Sockets
  <1>7. ASSUME NEW c \in Browsers, NEW d \in Browsers, NEW u \in Sessions, NEW r \in Sessions,
               sid[c] = r, sid[d] = u,
               peers[c][u] # None, peers[c][u].signalingState = "have-remote-offer",
               peers'[c][u] # None, peers'[c][u].signalingState # "have-remote-offer"
        PROVE  \E e \in Elements(inbox'[d]) : e.type = "answer" /\ e.from = r
    <2>1. c = b /\ u = s /\ t = "answer"
      BY <1>7
    <2>2. r # 0
      BY DEF Sessions
    <2>3. m \in Elements(inbox'[d])
      BY <1>2, <1>7, <2>1, <2>2
    <2> QED
      BY <1>1, <1>7, <2>1, <2>3
  <1>8. \A c \in Browsers, r \in Sessions :
          [type |-> "peer-left", id |-> r] \in Elements(inbox[c]) =>
            peers'[c][r] = None \/ [type |-> "peer-left", id |-> r] \in Elements(inbox'[c])
    BY <1>4
  <1>9. \A c \in Browsers : \A e \in Elements(inbox[c]) :
          e.type = "answer" =>
            \/ e \in Elements(inbox'[c])
            \/ peers'[c][e.from] = None
            \/ peers[c][e.from] = None
            \/ peers[c][e.from].signalingState # "have-local-offer"
            \/ \E o \in Elements(peers'[c][e.from].chain) : Remote(o)
    BY <1>4
  <1>10. \A c, d \in Browsers, u, r \in Sessions :
           /\ sid[c] = r /\ sid[d] = u
           /\ peers[c][u] # None /\ peers[c][u].signalingState = "have-remote-offer"
           => \/ peers'[c][u] = None
              \/ peers'[c][u].signalingState = "have-remote-offer"
              \/ \E e \in Elements(inbox'[d]) : e.type = "answer" /\ e.from = r
    BY <1>7
  <1>11. \A c \in Browsers : \A e \in Elements(inbox'[c]) :
           e.type \in {"offer", "answer"} => e \in Elements(inbox[c]) \/ Sent(c, e, e.type)
    BY <1>5
  <1> QED
    BY <1>6, <1>8, <1>9, <1>10, <1>11 DEF Messages

\* The connection whose operation is due, with what the invariant says of it.
LEMMA DueNegotiates ==
  ASSUME TypeOK, MeshInv, NEW b \in Browsers, NEW s \in Sessions, NEW op, Due(b, s, op)
  PROVE  /\ peers[b][s] \in PeerConnection /\ peers[b][s] # None
         /\ peers[b][s].chain # <<>> /\ peers[b][s].pc \in Ids
         /\ Head(peers[b][s].chain) \in Operation /\ Head(peers[b][s].chain).op = op
         /\ Negotiates(peers[b][s])
  <1>1. /\ peers[b][s] \in PeerConnection /\ peers[b][s].chain # <<>> /\ peers[b][s].pc \in Ids
        /\ Head(peers[b][s].chain) \in Operation /\ Head(peers[b][s].chain).op = op
    BY DueType
  <1>2. peers[b][s] # None
    BY DEF Due
  <1> QED
    BY <1>1, <1>2 DEF MeshInv, Negotiations

\* An operation that sends nothing.
LEMMA SilentOperation ==
  ASSUME TypeOK, MeshInv, NEW b \in Browsers, NEW s \in Sessions, NEW q \in PeerConnection,
         peers' = [peers EXCEPT ![b][s] = q], UNCHANGED <<inbox, made>>,
         peers[b][s] # None, Advances(peers[b][s], q, {}),
         peers[b][s].signalingState = "have-remote-offer" => q.signalingState = "have-remote-offer"
  PROVE  Moves /\ Messages
  <1>1. /\ Moves
        /\ peers'[b][s] = q
        /\ \A c \in Browsers, t \in Sessions : c # b \/ t # s => peers'[c][t] = peers[c][t]
    <2>1. made' = made /\ q \in PeerConnection \cup {None}
      OBVIOUS
    <2>2. Moves
      BY <2>1, OneMoves
    <2>3. peers'[b][s] = q
      BY DEF TypeOK
    <2>4. \A c \in Browsers, t \in Sessions : c # b \/ t # s => peers'[c][t] = peers[c][t]
      BY DEF TypeOK
    <2> QED
      BY <2>2, <2>3, <2>4
  <1>2. \A c \in Browsers, t \in Sessions :
           peers[c][t] # None /\ peers[c][t].signalingState = "have-remote-offer" =>
             peers'[c][t] = None \/ peers'[c][t].signalingState = "have-remote-offer"
    BY <1>1
  <1> QED
    BY <1>1, <1>2, SilentMessages

\* Each operation of an RTCPeerConnection is such a step.
LEMMA OperateMoves ==
  ASSUME TypeOK, MeshInv, NEW b \in Browsers, NEW s \in Sessions, Operate(b, s)
  PROVE  Moves /\ Messages /\ UNCHANGED <<sid, members, used>>
  <1> DEFINE p == peers[b][s]
  <1>1. UNCHANGED <<sid, members, used>>
    BY DEF Operate, CreateOffer, SetLocalOffer, SetLocalOfferFails, SetRemoteOffer, CreateAnswer,
           SetLocalAnswer, SetRemoteAnswer, server
  <1>2. ASSUME CreateOffer(b, s)
        PROVE  Moves /\ Messages
    <2>1. Due(b, s, "createOffer") /\ UNCHANGED <<inbox, made>>
      BY <1>2 DEF CreateOffer
    <2>2. /\ p \in PeerConnection /\ p # None /\ p.chain # <<>> /\ Negotiates(p)
          /\ Head(p.chain).op = "createOffer" /\ Head(p.chain) \in Operation
      BY <2>1, DueNegotiates
    <2>3. AfterCreateOffer(p) \in PeerConnection /\ Advances(p, AfterCreateOffer(p), {})
      BY <2>2, AfterTypes, CreateOfferAdvances
    <2>4. peers' = [peers EXCEPT ![b][s] = AfterCreateOffer(p)]
      BY <1>2, OperationSteps
    <2>5. p.signalingState = "have-remote-offer" =>
            AfterCreateOffer(p).signalingState = "have-remote-offer"
      <3>1. Head(p.chain) \in Elements(p.chain)
        BY <2>2, ChainAfter
      <3> QED
        BY <2>2, <3>1 DEF Negotiates
    <2> QED
      BY <2>1, <2>2, <2>3, <2>4, <2>5, SilentOperation
  <1>3. ASSUME SetLocalOffer(b, s)
        PROVE  Moves /\ Messages
    <2> DEFINE q == AfterSetLocalOffer(p)
               ps == [peers[b] EXCEPT ![s] = q]
    <2>1. /\ Due(b, s, "setLocalOffer") /\ p.signalingState = "stable"
          /\ SendToTarget(b, s, "offer", p.pc)
      BY <1>3 DEF SetLocalOffer
    <2>2. /\ p \in PeerConnection /\ p # None /\ p.chain # <<>> /\ Negotiates(p) /\ p.pc \in Ids
          /\ Head(p.chain).op = "setLocalOffer" /\ Head(p.chain) \in Operation
      BY <2>1, DueNegotiates
    <2>3. q \in PeerConnection /\ Advances(p, q, {})
      BY <2>1, <2>2, AfterTypes, SetLocalOfferAdvances
    <2>4. q.signalingState = "have-local-offer" /\ q.pc = p.pc
      <3>1. q.pc = p.pc
        BY <2>3 DEF Advances
      <3>2. Done(p, <<>>) \in PeerConnection
        BY <2>2, AfterTypes
      <3> QED
        BY <3>1, <3>2 DEF AfterSetLocalOffer, PeerConnection
    <2>5. OfferLoop(b, ps, Head(p.chain).rest)
      BY <1>3, OperationSteps
    <2>6. Head(p.chain).rest \in SUBSET Sessions
      BY <2>2, OperationKinds DEF Offers
    <2> HIDE DEF q
    <2>7. /\ ps \in [Sessions -> PeerConnection \cup {None}]
          /\ ps[s] = q /\ \A t \in Sessions : t # s => ps[t] = peers[b][t]
      BY <2>3 DEF TypeOK
    <2>8. q # None
      BY <2>3
    <2>9. \A t \in Sessions :
           \/ ps[t] = peers[b][t]
           \/ /\ peers[b][t] # None /\ ps[t] # None
              /\ Advances(peers[b][t], ps[t], {})
      BY <2>2, <2>3, <2>7, <2>8
    <2> HIDE DEF ps
    <2>10. /\ Moves
           /\ \A t \in Sessions : ps[t] # None => peers'[b][t] = ps[t]
           /\ \A c \in Browsers, t \in Sessions : c # b => peers'[c][t] = peers[c][t]
      BY <2>5, <2>6, <2>7, <2>9, LoopMoves
    <2>11. peers'[b][s] = q
      BY <2>7, <2>8, <2>10
    <2>12. \A c \in Browsers, u \in Sessions :
             peers[c][u] # None /\ peers[c][u].signalingState = "have-remote-offer" =>
               peers'[c][u].signalingState = "have-remote-offer"
      BY <2>1, <2>7, <2>10
    <2>13. Messages
      BY <2>1, <2>2, <2>4, <2>8, <2>11, <2>12, SendMessages
    <2> QED
      BY <2>10, <2>13
  <1>4. ASSUME SetLocalOfferFails(b, s)
        PROVE  Moves /\ Messages
    <2>1. /\ Due(b, s, "setLocalOffer") /\ UNCHANGED <<inbox, made>>
          /\ p.signalingState # "stable"
      BY <1>4 DEF SetLocalOfferFails
    <2>2. /\ p \in PeerConnection /\ p # None /\ p.chain # <<>> /\ Negotiates(p)
          /\ Head(p.chain).op = "setLocalOffer"
      BY <2>1, DueNegotiates
    <2>3. Done(p, <<>>) \in PeerConnection /\ Advances(p, Done(p, <<>>), {})
      BY <2>1, <2>2, AfterTypes, EndingAdvances
    <2>4. peers' = [peers EXCEPT ![b][s] = Done(p, <<>>)]
      BY <1>4, OperationSteps
    <2>5. Done(p, <<>>).signalingState = p.signalingState
      <3>1. <<>> \in Seq(Operation)
        OBVIOUS
      <3> QED
        BY <2>2, <3>1, DoneFields
    <2> QED
      BY <2>1, <2>2, <2>3, <2>4, <2>5, SilentOperation
  <1>5. ASSUME SetRemoteOffer(b, s)
        PROVE  Moves /\ Messages
    <2>1. Due(b, s, "setRemoteOffer") /\ UNCHANGED <<inbox, made>>
      BY <1>5 DEF SetRemoteOffer
    <2>2. /\ p \in PeerConnection /\ p # None /\ p.chain # <<>> /\ Negotiates(p)
          /\ Head(p.chain).op = "setRemoteOffer"
      BY <2>1, DueNegotiates
    <2>3. AfterSetRemoteOffer(p) \in PeerConnection /\ Advances(p, AfterSetRemoteOffer(p), {})
      BY <2>2, AfterTypes, SetRemoteOfferAdvances
    <2>4. peers' = [peers EXCEPT ![b][s] = AfterSetRemoteOffer(p)]
      BY <1>5, OperationSteps
    <2>5. AfterSetRemoteOffer(p).signalingState = "have-remote-offer"
      <3>1. [op |-> "createAnswer"] \in Operation
        BY DEF Operation
      <3>2. <<[op |-> "createAnswer"]>> \in Seq(Operation)
        BY <3>1
      <3>3. Done(p, <<[op |-> "createAnswer"]>>) \in PeerConnection
        BY <2>2, <3>2, DoneFields
      <3> QED
        BY <3>3 DEF AfterSetRemoteOffer, PeerConnection
    <2> QED
      BY <2>1, <2>2, <2>3, <2>4, <2>5, SilentOperation
  <1>6. ASSUME CreateAnswer(b, s)
        PROVE  Moves /\ Messages
    <2>1. Due(b, s, "createAnswer") /\ UNCHANGED <<inbox, made>>
      BY <1>6 DEF CreateAnswer
    <2>2. /\ p \in PeerConnection /\ p # None /\ p.chain # <<>> /\ Negotiates(p)
          /\ Head(p.chain).op = "createAnswer"
      BY <2>1, DueNegotiates
    <2>3. AfterCreateAnswer(p) \in PeerConnection /\ Advances(p, AfterCreateAnswer(p), {})
      BY <2>2, AfterTypes, CreateAnswerAdvances
    <2>4. peers' = [peers EXCEPT ![b][s] = AfterCreateAnswer(p)]
      BY <1>6, OperationSteps
    <2>5. AfterCreateAnswer(p).signalingState = p.signalingState
      <3>1. [op |-> "setLocalAnswer"] \in Operation
        BY DEF Operation
      <3>2. <<>> \in Seq(Operation) /\ <<[op |-> "setLocalAnswer"]>> \in Seq(Operation)
        BY <3>1
      <3> QED
        BY <2>2, <3>2, DoneFields DEF AfterCreateAnswer
    <2> QED
      BY <2>1, <2>2, <2>3, <2>4, <2>5, SilentOperation
  <1>7. ASSUME SetLocalAnswer(b, s)
        PROVE  Moves /\ Messages
    <2>1. Due(b, s, "setLocalAnswer") /\ UNCHANGED made
      BY <1>7 DEF SetLocalAnswer
    <2>2. /\ p \in PeerConnection /\ p # None /\ p.chain # <<>> /\ Negotiates(p) /\ p.pc \in Ids
          /\ Head(p.chain).op = "setLocalAnswer"
      BY <2>1, DueNegotiates
    <2>3. CASE /\ p.signalingState = "have-remote-offer"
               /\ peers' = [peers EXCEPT ![b][s] = AfterSetLocalAnswer(p)]
               /\ SendToTarget(b, s, "answer", p.pc)
      <3> DEFINE q == AfterSetLocalAnswer(p)
      <3>1. q \in PeerConnection /\ Advances(p, q, {}) /\ q.far # None
        BY <2>2, <2>3, AfterTypes, SetLocalAnswerAdvances
      <3>2. q.pc = p.pc /\ q # None
        BY <3>1 DEF Advances
      <3> HIDE DEF q
      <3>3. /\ Moves
            /\ peers'[b][s] = q
            /\ \A c \in Browsers, t \in Sessions : c # b \/ t # s => peers'[c][t] = peers[c][t]
        <4>1. peers' = [peers EXCEPT ![b][s] = q]
          BY <2>3 DEF q
        <4>2. made' = made /\ q \in PeerConnection \cup {None}
          BY <2>1, <3>1
        <4>3. peers[b][s] # None /\ Advances(peers[b][s], q, {})
          BY <2>2, <3>1
        <4>4. Moves
          BY <4>1, <4>2, <4>3, OneMoves
        <4>5. peers'[b][s] = q
          BY <4>1 DEF TypeOK
        <4>6. \A c \in Browsers, t \in Sessions : c # b \/ t # s => peers'[c][t] = peers[c][t]
          BY <4>1 DEF TypeOK
        <4> QED
          BY <4>4, <4>5, <4>6
      <3>4. \A c \in Browsers, u \in Sessions :
              peers[c][u] # None /\ peers[c][u].signalingState = "have-remote-offer" =>
                \/ peers'[c][u].signalingState = "have-remote-offer"
                \/ c = b /\ u = s
        BY <3>3
      <3>5. Messages
        BY <2>2, <2>3, <3>1, <3>2, <3>3, <3>4, SendMessages
      <3> QED
        BY <3>3, <3>5
    <2>4. CASE /\ p.signalingState # "have-remote-offer"
               /\ peers' = [peers EXCEPT ![b][s] = Done(p, <<>>)]
               /\ UNCHANGED inbox
      <3>1. Done(p, <<>>) \in PeerConnection /\ Advances(p, Done(p, <<>>), {})
        BY <2>2, <2>4, AfterTypes, EndingAdvances
      <3> QED
        BY <2>1, <2>2, <2>4, <3>1, SilentOperation
    <2> QED
      BY <1>7, <2>3, <2>4, OperationSteps
  <1>8. ASSUME SetRemoteAnswer(b, s)
        PROVE  Moves /\ Messages
    <2>1. Due(b, s, "setRemoteAnswer") /\ UNCHANGED <<inbox, made>>
      BY <1>8 DEF SetRemoteAnswer
    <2>2. /\ p \in PeerConnection /\ p # None /\ p.chain # <<>> /\ Negotiates(p)
          /\ Head(p.chain).op = "setRemoteAnswer"
      BY <2>1, DueNegotiates
    <2>3. CASE /\ p.signalingState = "have-local-offer"
               /\ peers' = [peers EXCEPT ![b][s] = AfterSetRemoteAnswer(p)]
      <3>1. AfterSetRemoteAnswer(p) \in PeerConnection /\ Advances(p, AfterSetRemoteAnswer(p), {})
        BY <2>2, <2>3, AfterTypes, SetRemoteAnswerAdvances
      <3> QED
        BY <2>1, <2>2, <2>3, <3>1, SilentOperation
    <2>4. CASE /\ p.signalingState # "have-local-offer"
               /\ peers' = [peers EXCEPT ![b][s] = Done(p, <<>>)]
      <3>1. Done(p, <<>>) \in PeerConnection /\ Advances(p, Done(p, <<>>), {})
        BY <2>2, <2>4, AfterTypes, EndingAdvances
      <3>2. Done(p, <<>>).signalingState = p.signalingState
        <4>1. <<>> \in Seq(Operation)
          OBVIOUS
        <4> QED
          BY <2>2, <4>1, DoneFields
      <3> QED
        BY <2>1, <2>2, <2>4, <3>1, <3>2, SilentOperation
    <2> QED
      BY <1>8, <2>3, <2>4, OperationSteps
  <1> QED
    BY <1>1, <1>2, <1>3, <1>4, <1>5, <1>6, <1>7, <1>8 DEF Operate

\* No connection changes.
LEMMA StaysMoves ==
  ASSUME peers' = peers, made' = made
  PROVE  Moves
  BY DEF Moves, Stays

\* A connection that goes on with a description delivered to it.
LEMMA CalledMoves ==
  ASSUME TypeOK, MeshInv, NEW b \in Browsers, NEW s \in Sessions, NEW n \in Ids,
         NEW kind \in {"setRemoteOffer", "setRemoteAnswer"},
         kind = "setRemoteOffer" \/ peers[b][s].signalingState # "stable",
         Delivered(b, s, [op |-> kind, pc |-> n]),
         peers[b][s] # None,
         peers' = [peers EXCEPT ![b][s] = Called(peers[b][s], [op |-> kind, pc |-> n])],
         made' = made
  PROVE  /\ Moves
         /\ \E o \in Elements(peers'[b][s].chain) : Remote(o)
         /\ \A c \in Browsers, t \in Sessions :
              peers[c][t] # None => peers'[c][t].signalingState = peers[c][t].signalingState
  <1> DEFINE o == [op |-> kind, pc |-> n]
             q == Called(peers[b][s], o)
  <1>1. peers[b][s] \in PeerConnection /\ Negotiates(peers[b][s])
    BY DEF TypeOK, MeshInv, Negotiations
  <1>2. o \in Operation /\ Remote(o)
    BY DEF Operation, Remote
  <1>3. Advances(peers[b][s], q, {o})
    BY <1>1, CalledAdvances
  <1>4. q \in PeerConnection /\ q.signalingState = peers[b][s].signalingState
    BY <1>1, <1>2, CalledFields
  <1>5. Delivered(b, s, o)
    OBVIOUS
  <1>6. peers' = [peers EXCEPT ![b][s] = q]
    OBVIOUS
  <1> HIDE DEF o, q
  <1>7. peers'[b][s] = q /\ q # None
    BY <1>4, <1>6 DEF TypeOK
  <1>8. \A c \in Browsers, t \in Sessions : c # b \/ t # s => peers'[c][t] = peers[c][t]
    BY <1>6 DEF TypeOK
  <1>9. GoesOn(b, s)
    <2>1. {o} \in SUBSET Operation /\ \A e \in {o} : Delivered(b, s, e)
      BY <1>2, <1>5
    <2>2. Advances(peers[b][s], peers'[b][s], {o})
      BY <1>3, <1>7
    <2> QED
      BY <1>7, <2>1, <2>2 DEF GoesOn
  <1>10. Moves
    BY <1>8, <1>9 DEF Moves, Stays
  <1>11. o \in Elements(peers'[b][s].chain)
    BY <1>3, <1>7 DEF Advances
  <1> QED
    BY <1>2, <1>4, <1>7, <1>8, <1>10, <1>11

\* Each handler of a message, up to its first await, is such a step.
LEMMA HandleMoves ==
  ASSUME TypeOK, MeshInv, NEW b \in Browsers, Handle(b)
  PROVE  Moves /\ Messages /\ UNCHANGED <<sid, members, used>>
  <1> DEFINE m == Head(inbox[b])
  <1>1. UNCHANGED <<sid, members, used>>
    BY DEF Handle, ReceiveRoomPeers, ReceivePeerJoined, ReceivePeerLeft, handleOffer, handleAnswer,
           server
  <1>2. ASSUME NEW list \in SUBSET Sessions, OfferLoop(b, peers[b], list)
        PROVE  /\ Moves
               /\ \A c \in Browsers, s \in Sessions :
                    peers[c][s] # None => peers'[c][s] = peers[c][s]
    <2> DEFINE ps == peers[b]
    <2>1. ps \in [Sessions -> PeerConnection \cup {None}]
      BY DEF TypeOK
    <2>2. \A t \in Sessions : ps[t] = peers[b][t]
      OBVIOUS
    <2>3. OfferLoop(b, ps, list)
      BY <1>2
    <2> HIDE DEF ps
    <2>4. /\ Moves
          /\ \A t \in Sessions : ps[t] # None => peers'[b][t] = ps[t]
          /\ \A c \in Browsers, t \in Sessions : c # b => peers'[c][t] = peers[c][t]
      BY <2>1, <2>2, <2>3, LoopMoves
    <2> QED
      BY <2>2, <2>4
  <1>3. ASSUME ReceiveRoomPeers(b)
        PROVE  Moves /\ Messages
    <2>1. Receive(b, "room-peers") /\ OfferLoop(b, peers[b], m.peers)
      BY <1>3 DEF ReceiveRoomPeers
    <2>2. m.type = "room-peers" /\ m.peers \in SUBSET Sessions
      BY <2>1, ReceiveType, MessageKinds
    <2>3. /\ Moves
          /\ \A c \in Browsers, s \in Sessions :
               peers[c][s] # None => peers'[c][s] = peers[c][s]
      BY <1>2, <2>1, <2>2
    <2> QED
      BY <2>1, <2>2, <2>3, ReceiveMessages
  <1>4. ASSUME ReceivePeerJoined(b)
        PROVE  Moves /\ Messages
    <2>1. Receive(b, "peer-joined") /\ OfferLoop(b, peers[b], {m.id})
      BY <1>4 DEF ReceivePeerJoined
    <2>2. m.type = "peer-joined" /\ {m.id} \in SUBSET Sessions
      BY <2>1, ReceiveType, MessageKinds
    <2>3. /\ Moves
          /\ \A c \in Browsers, s \in Sessions :
               peers[c][s] # None => peers'[c][s] = peers[c][s]
      BY <1>2, <2>1, <2>2
    <2> QED
      BY <2>1, <2>2, <2>3, ReceiveMessages
  <1>5. ASSUME ReceivePeerLeft(b)
        PROVE  Moves /\ Messages
    <2>1. /\ Receive(b, "peer-left") /\ disconnectPeer(b, m.id) /\ made' = made
      BY <1>5 DEF ReceivePeerLeft
    <2>2. m.type = "peer-left" /\ m.id \in Sessions
      BY <2>1, ReceiveType, MessageKinds
    <2>3. peers' = [peers EXCEPT ![b][m.id] = None]
      <3>1. CASE peers[b][m.id] = None
        <4>1. peers' = peers
          BY <2>1, <3>1 DEF disconnectPeer
        <4> QED
          BY <3>1, <4>1, <2>2 DEF TypeOK
      <3>2. CASE peers[b][m.id] # None
        BY <2>1, <3>2 DEF disconnectPeer
      <3> QED
        BY <3>1, <3>2
    <2>4. Moves
      BY <2>1, <2>2, <2>3, OneMoves
    <2> HIDE DEF m
    <2>5. /\ peers'[b][m.id] = None
          /\ \A c \in Browsers, s \in Sessions : peers'[c][s] = None \/ peers'[c][s] = peers[c][s]
      BY <2>2, <2>3 DEF TypeOK
    <2>6. Messages
      BY <2>1, <2>2, <2>5, ReceiveMessages DEF m
    <2> QED
      BY <2>4, <2>6
  <1>6. ASSUME handleOffer(b)
        PROVE  Moves /\ Messages
    <2>1. Receive(b, "offer")
      BY <1>6 DEF handleOffer
    <2>2. /\ m.type = "offer" /\ m.from \in Sessions /\ m.pc \in Ids
          /\ m = [type |-> m.type, from |-> m.from, pc |-> m.pc]
      BY <2>1, ReceiveType, MessageKinds
    <2>3. PICK s \in Sessions, n \in Ids : s = m.from /\ n = m.pc
      BY <2>2
    <2> DEFINE op == [op |-> "setRemoteOffer", pc |-> n]
    <2>4. Delivered(b, s, op) /\ op \in Operation /\ op.op = "setRemoteOffer"
      <3>1. m \in Elements(inbox[b])
        BY <2>1, ReceiveElements
      <3>2. m = [type |-> "offer", from |-> s, pc |-> n]
        BY <2>2, <2>3
      <3> QED
        BY <3>1, <3>2 DEF Delivered, Operation
    <2>5. IF IgnoresOffer(b, s)
          THEN UNCHANGED <<peers, made>>
          ELSE IF peers[b][s] = None
          THEN /\ CountNew(b, s)
               /\ peers' = [peers EXCEPT ![b][s] = NewPeer(b, s, op)]
          ELSE /\ peers' = [peers EXCEPT ![b][s].chain = Append(@, op)]
               /\ UNCHANGED made
      BY <1>6, <2>3 DEF handleOffer
    <2>6. /\ Moves
          /\ \A c \in Browsers, t \in Sessions :
               peers[c][t] # None => peers'[c][t].signalingState = peers[c][t].signalingState
      <3>1. CASE IgnoresOffer(b, s)
        BY <2>5, <3>1, StaysMoves
      <3>2. CASE ~IgnoresOffer(b, s) /\ peers[b][s] = None
        <4> DEFINE q == NewPeer(b, s, op)
        <4>1. peers' = [peers EXCEPT ![b][s] = q] /\ CountNew(b, s)
          BY <2>5, <3>2
        <4>2. /\ q \in PeerConnection
              /\ q.pc = <<b, s, made[b][s] + 1>> /\ q.far = None /\ q.signalingState = "stable"
          BY <2>4, NewPeerFields
        <4>3. Negotiates(q) /\ Elements(q.chain) = {op}
          BY <2>4, NewNegotiates
        <4> HIDE DEF q, op
        <4>4. q # None
          BY <4>2
        <4>5. /\ peers'[b][s] = q
              /\ made'[b][s] = made[b][s] + 1
          BY <4>1 DEF TypeOK, CountNew
        <4>6. \A c \in Browsers, t \in Sessions : c # b \/ t # s => peers'[c][t] = peers[c][t]
          BY <4>1 DEF TypeOK
        <4>7. \A c \in Browsers, t \in Sessions : c # b \/ t # s => made'[c][t] = made[c][t]
          BY <4>1 DEF TypeOK, CountNew
        <4>8. Begins(b, s)
          BY <2>4, <3>2, <4>2, <4>3, <4>4, <4>5 DEF Begins
        <4>9. Moves
          BY <4>6, <4>7, <4>8 DEF Moves, Stays
        <4> QED
          BY <3>2, <4>6, <4>9
      <3>3. CASE ~IgnoresOffer(b, s) /\ peers[b][s] # None
        <4>1. peers' = [peers EXCEPT ![b][s] = Called(peers[b][s], op)] /\ made' = made
          BY <2>5, <3>3 DEF TypeOK, Called
        <4> QED
          BY <2>4, <3>3, <4>1, CalledMoves
      <3> QED
        BY <3>1, <3>2, <3>3
    <2> HIDE DEF op, m
    <2>7. \A c \in Browsers, t \in Sessions :
            peers[c][t] # None /\ peers[c][t].signalingState = "have-remote-offer" =>
              peers'[c][t] = None \/ peers'[c][t].signalingState = "have-remote-offer"
      BY <2>6
    <2>8. Messages
      BY <2>1, <2>2, <2>7, ReceiveMessages DEF m
    <2> QED
      BY <2>6, <2>8
  <1>7. ASSUME handleAnswer(b)
        PROVE  Moves /\ Messages
    <2>1. Receive(b, "answer") /\ made' = made
      BY <1>7 DEF handleAnswer
    <2>2. /\ m.type = "answer" /\ m.from \in Sessions /\ m.pc \in Ids
          /\ m = [type |-> m.type, from |-> m.from, pc |-> m.pc]
      BY <2>1, ReceiveType, MessageKinds
    <2>3. PICK s \in Sessions, n \in Ids : s = m.from /\ n = m.pc
      BY <2>2
    <2> DEFINE op == [op |-> "setRemoteAnswer", pc |-> n]
    <2>4. Delivered(b, s, op)
      <3>1. m \in Elements(inbox[b])
        BY <2>1, ReceiveElements
      <3>2. m = [type |-> "answer", from |-> s, pc |-> n]
        BY <2>2, <2>3
      <3> QED
        BY <3>1, <3>2 DEF Delivered
    <2>5. IF peers[b][s] = None \/ peers[b][s].signalingState = "stable"
          THEN UNCHANGED peers
          ELSE peers' = [peers EXCEPT ![b][s].chain = Append(@, op)]
      BY <1>7, <2>3 DEF handleAnswer
    <2>6. /\ Moves
          /\ \A c \in Browsers, t \in Sessions :
               peers[c][t] # None => peers'[c][t].signalingState = peers[c][t].signalingState
          /\ \/ peers[b][s] = None
             \/ peers[b][s].signalingState # "have-local-offer"
             \/ \E o \in Elements(peers'[b][s].chain) : Remote(o)
      <3>1. CASE peers[b][s] = None \/ peers[b][s].signalingState = "stable"
        <4>1. peers' = peers
          BY <2>5, <3>1
        <4>2. Moves
          BY <2>1, <4>1, StaysMoves
        <4> QED
          BY <3>1, <4>1, <4>2
      <3>2. CASE peers[b][s] # None /\ peers[b][s].signalingState # "stable"
        <4>1. peers' = [peers EXCEPT ![b][s] = Called(peers[b][s], op)]
          BY <2>5, <3>2 DEF TypeOK, Called
        <4> QED
          BY <2>1, <2>4, <3>2, <4>1, CalledMoves
      <3> QED
        BY <3>1, <3>2
    <2> HIDE DEF op, m
    <2>7. \A c \in Browsers, t \in Sessions :
            peers[c][t] # None /\ peers[c][t].signalingState = "have-remote-offer" =>
              peers'[c][t] = None \/ peers'[c][t].signalingState = "have-remote-offer"
      BY <2>6
    <2>8. Messages
      BY <2>1, <2>2, <2>3, <2>6, <2>7, ReceiveMessages DEF m
    <2> QED
      BY <2>6, <2>8
  <1> QED
    BY <1>1, <1>3, <1>4, <1>5, <1>6, <1>7 DEF Handle

\* A channel opens or closes.
LEMMA ChannelMoves ==
  ASSUME TypeOK, MeshInv, NEW b \in Browsers, NEW s \in Sessions,
         ChannelOpens(b, s) \/ ChannelCloses(b, s)
  PROVE  Moves /\ Messages /\ UNCHANGED <<sid, members, used>>
  <1>1. PICK d \in {"open", "closed"} :
          /\ peers' = [peers EXCEPT ![b][s].dc = d]
          /\ UNCHANGED <<ids, sid, server, inbox, made, troubles, missed>>
    BY DEF ChannelOpens, ChannelCloses
  <1>2. peers[b][s] # None
    BY DEF ChannelOpens, ChannelCloses, Linked, Abandoned
  <1>3. peers[b][s] \in PeerConnection /\ Negotiates(peers[b][s])
    BY <1>2 DEF TypeOK, MeshInv, Negotiations
  <1> DEFINE q == [peers[b][s] EXCEPT !.dc = d]
  <1>4. /\ q \in PeerConnection
        /\ q.pc = peers[b][s].pc /\ q.far = peers[b][s].far /\ q.chain = peers[b][s].chain
        /\ q.signalingState = peers[b][s].signalingState
    BY <1>3 DEF PeerConnection
  <1>5. peers' = [peers EXCEPT ![b][s] = q]
    BY <1>1 DEF TypeOK
  <1> HIDE DEF q
  <1>6. Negotiates(q)
    BY <1>3, <1>4 DEF Negotiates
  <1>7. Advances(peers[b][s], q, {})
    BY <1>4, <1>6 DEF Advances
  <1>8. UNCHANGED <<inbox, made>> /\ UNCHANGED <<sid, members, used>>
    BY <1>1 DEF server
  <1> QED
    BY <1>2, <1>4, <1>5, <1>7, <1>8, SilentOperation

\* A connection is given up.
LEMMA EndMoves ==
  ASSUME TypeOK, MeshInv, NEW b \in Browsers, NEW s \in Sessions,
         Disconnected(b, s) \/ LinkFails(b, s)
  PROVE  Moves /\ Messages /\ UNCHANGED <<sid, members, used>>
  <1>1. peers[b][s] # None
    BY DEF Disconnected, LinkFails, Abandoned
  <1>2. peers' = [peers EXCEPT ![b][s] = None]
    BY <1>1 DEF Disconnected, LinkFails, disconnectPeer
  <1>3. UNCHANGED <<inbox, made>> /\ UNCHANGED <<sid, members, used>>
    BY DEF Disconnected, LinkFails, server
  <1>4. Moves
    BY <1>2, <1>3, OneMoves
  <1>5. \A c \in Browsers, t \in Sessions : peers'[c][t] = None \/ peers'[c][t] = peers[c][t]
    BY <1>2 DEF TypeOK
  <1>6. Messages
    BY <1>3, <1>5, SilentMessages
  <1> QED
    BY <1>3, <1>4, <1>6

\* The server's peer-joined is such a step.
LEMMA AnnounceMoves ==
  ASSUME TypeOK, MeshInv, NEW s \in Sessions, Announce(s)
  PROVE  Moves /\ Messages /\ UNCHANGED <<sid, members, used>>
  <1> DEFINE m == [type |-> "peer-joined", id |-> s]
  <1>1. Tell(members \ {s}, m) /\ UNCHANGED <<sid, members, used, peers, made>>
    BY DEF Announce
  <1>2. m \in Message /\ m.type = "peer-joined"
    BY DEF Message
  <1> HIDE DEF m
  <1>3. Moves
    BY <1>1, StaysMoves
  <1>4. ASSUME NEW c \in Browsers
        PROVE  /\ \A e \in Elements(inbox[c]) : e \in Elements(inbox'[c])
               /\ \A e \in Elements(inbox'[c]) : e \in Elements(inbox[c]) \/ e = m
               /\ sid[c] = 0 => inbox'[c] = inbox[c]
    <2>1. /\ sid[c] \in members \ {s} => Elements(inbox'[c]) = Elements(inbox[c]) \cup {m}
          /\ sid[c] \notin members \ {s} => inbox'[c] = inbox[c]
      BY <1>1, <1>2, TellElements
    <2>2. 0 \notin members
      BY DEF TypeOK
    <2> QED
      BY <2>1, <2>2
  <1>5. Messages
    BY <1>1, <1>2, <1>4 DEF Messages, MeshInv, Sockets
  <1> QED
    BY <1>1, <1>3, <1>5

------------------------------------------------------------------------------
(* Steps of the websockets and the server *)

\* Connections only end, offers and answers only get lost, websockets only go or are new;
\* who stays loses no message, and is told of a member that leaves.
Shrinks ==
  /\ made' = made /\ used <= used'
  /\ \A c \in Browsers, t \in Sessions : peers'[c][t] = None \/ peers'[c][t] = peers[c][t]
  /\ \A c \in Browsers : \A m \in Elements(inbox'[c]) :
       m.type \in {"offer", "answer"} => m \in Elements(inbox[c])
  /\ \A c \in Browsers : sid'[c] = 0 \/ sid'[c] = sid[c] \/ sid'[c] = used + 1
  /\ \A c \in Browsers : sid'[c] # 0 /\ sid'[c] = sid[c] =>
       /\ \A m \in Elements(inbox[c]) : m \in Elements(inbox'[c])
       /\ \A r \in members : r \in members' \/ [type |-> "peer-left", id |-> r] \in Elements(inbox'[c])

\* Where connections and messages only go, nothing becomes known.
LEMMA ShrinksKnows ==
  ASSUME Shrinks, NEW b \in Browsers, NEW s \in Sessions, NEW n \in Ids
  PROVE  /\ Offered(b, s, n)' => Offered(b, s, n)
         /\ Answered(b, s, n)' => Answered(b, s, n)
         /\ Knows(b, s, n)' => Knows(b, s, n)
         /\ Lives(n)' => Lives(n) /\ peers'[n[1]][n[2]] = peers[n[1]][n[2]]
         /\ Waits(n)' => Waits(n)
  <1>1. \A t \in {"offer", "answer"} :
          [type |-> t, from |-> s, pc |-> n] \in Elements(inbox'[b]) =>
            [type |-> t, from |-> s, pc |-> n] \in Elements(inbox[b])
    BY DEF Shrinks
  <1>2. peers'[b][s] = None \/ peers'[b][s] = peers[b][s]
    BY DEF Shrinks
  <1>3. Offered(b, s, n)' => Offered(b, s, n)
    BY <1>1, <1>2 DEF Offered
  <1>4. Answered(b, s, n)' => Answered(b, s, n)
    BY <1>1, <1>2 DEF Answered
  <1>5. Knows(b, s, n)' => Knows(b, s, n)
    BY <1>2, <1>3, <1>4 DEF Knows
  <1>6. n[1] \in Browsers /\ n[2] \in Sessions
    BY IdParts
  <1>7. peers'[n[1]][n[2]] = None \/ peers'[n[1]][n[2]] = peers[n[1]][n[2]]
    BY <1>6 DEF Shrinks
  <1>8. Lives(n)' => Lives(n) /\ peers'[n[1]][n[2]] = peers[n[1]][n[2]]
    BY <1>7 DEF Lives
  <1>9. Waits(n)' => Waits(n)
    BY <1>8 DEF Waits
  <1> QED
    BY <1>3, <1>4, <1>5, <1>8, <1>9

\* Where they only go, the invariant stays.
LEMMA ShrinksInv ==
  ASSUME TypeOK, TypeOK', MeshInv, Shrinks, Sockets'
  PROVE  MeshInv'
  <1>1. Places'
    BY DEF MeshInv, Places, Shrinks
  <1>2. Negotiations'
    BY DEF MeshInv, Negotiations, Shrinks
  <1>3. ASSUME NEW b \in Browsers, NEW s \in Sessions, NEW n \in Ids, Knows(b, s, n)'
        PROVE  /\ n[3] <= made'[n[1]][n[2]]
               /\ s <= used' /\ n[2] <= used'
               /\ \A d \in Browsers :
                    (sid'[d] = s => d = n[1]) /\ (sid'[d] = n[2] => d = b)
               /\ sid'[n[1]] = s /\ Lives(n)' =>
                    \/ n[2] \in members'
                    \/ [type |-> "peer-left", id |-> n[2]] \in Elements(inbox'[n[1]])
    <2>1. n[1] \in Browsers /\ n[2] \in Sessions
      BY IdParts
    <2>2. Knows(b, s, n)
      BY <1>3, ShrinksKnows
    <2>3. /\ n[3] <= made[n[1]][n[2]]
          /\ s <= used /\ n[2] <= used
          /\ \A d \in Browsers : (sid[d] = s => d = n[1]) /\ (sid[d] = n[2] => d = b)
          /\ sid[n[1]] = s /\ Lives(n) =>
               \/ n[2] \in members
               \/ [type |-> "peer-left", id |-> n[2]] \in Elements(inbox[n[1]])
      BY <2>2 DEF MeshInv, References
    <2>4. \A t \in Sessions, d \in Browsers : t <= used /\ sid'[d] = t => sid[d] = t /\ sid'[d] # 0
      <3> SUFFICES ASSUME NEW t \in Sessions, NEW d \in Browsers, t <= used, sid'[d] = t
                   PROVE  sid[d] = t /\ sid'[d] # 0
        OBVIOUS
      <3>1. t \in Nat /\ t # 0 /\ used \in Nat
        BY DEF Sessions, TypeOK
      <3>2. t # used + 1
        BY <3>1
      <3> QED
        BY <3>1, <3>2 DEF Shrinks
    <2>5. s <= used' /\ n[2] <= used'
      <3>1. used \in Nat /\ used' \in Nat /\ s \in Nat /\ n[2] \in Nat /\ used <= used'
        BY <2>1 DEF TypeOK, Sessions, Shrinks
      <3> QED
        BY <2>3, <3>1
    <2>6. n[3] <= made'[n[1]][n[2]]
      BY <2>3 DEF Shrinks
    <2>7. \A d \in Browsers : (sid'[d] = s => d = n[1]) /\ (sid'[d] = n[2] => d = b)
      BY <2>1, <2>3, <2>4
    <2>8. ASSUME sid'[n[1]] = s, Lives(n)'
          PROVE  \/ n[2] \in members'
                 \/ [type |-> "peer-left", id |-> n[2]] \in Elements(inbox'[n[1]])
      <3>1. sid[n[1]] = s /\ sid'[n[1]] # 0
        BY <2>1, <2>3, <2>4, <2>8
      <3>2. Lives(n)
        BY <2>8, ShrinksKnows
      <3> QED
        BY <2>1, <2>3, <2>8, <3>1, <3>2 DEF Shrinks
    <2> QED
      BY <2>5, <2>6, <2>7, <2>8
  <1>4. References'
    BY <1>3 DEF References
  <1>5. Answers'
    <2> SUFFICES ASSUME NEW b \in Browsers, NEW s \in Sessions, NEW n \in Ids,
                        Knows(b, s, n)', Waits(n)'
                 PROVE  /\ ~Answered(b, s, n)'
                        /\ peers'[n[1]][n[2]].signalingState = "have-local-offer"
      BY DEF Answers
    <2>1. Lives(n)'
      BY DEF Waits
    <2>2. Knows(b, s, n) /\ Waits(n) /\ peers'[n[1]][n[2]] = peers[n[1]][n[2]]
      BY <2>1, ShrinksKnows
    <2>3. ~Answered(b, s, n) /\ peers[n[1]][n[2]].signalingState = "have-local-offer"
      BY <2>2 DEF MeshInv, Answers
    <2> QED
      BY <2>2, <2>3, ShrinksKnows
  <1>6. Handshakes'
    <2> SUFFICES ASSUME NEW b \in Browsers, NEW d \in Browsers,
                        NEW s \in Sessions, NEW r \in Sessions,
                        sid'[b] = r, sid'[d] = s,
                        peers'[b][s] # None, peers'[d][r] # None,
                        peers'[b][s].far = peers'[d][r].pc,
                        peers'[d][r].far = None,
                        peers'[b][s].signalingState # "have-remote-offer"
                 PROVE  Awaited(d, r)'
      BY DEF Handshakes
    <2>1. peers'[b][s] = peers[b][s] /\ peers'[d][r] = peers[d][r]
      BY DEF Shrinks
    <2>2. PICK n \in Ids : n = peers[d][r].pc
      <3>1. peers[d][r] # None
        BY <2>1
      <3>2. peers[d][r] \in PeerConnection
        BY <3>1 DEF TypeOK
      <3> QED
        BY <3>2 DEF PeerConnection
    <2>3. n[2] = r
      <3>1. PICK k \in 1..made[d][r] : n = <<d, r, k>>
        BY <2>1, <2>2 DEF MeshInv, Places
      <3> QED
        BY <3>1
    <2>4. s <= used /\ r <= used
      <3>1. peers[b][s] # None /\ peers[b][s].far = n
        BY <2>1, <2>2
      <3>2. Knows(b, s, n)
        BY <3>1 DEF Knows
      <3>3. s <= used /\ n[2] <= used
        BY <3>2 DEF MeshInv, References
      <3> QED
        BY <2>3, <3>3
    <2>5. s # 0 /\ r # 0 /\ s # used + 1 /\ r # used + 1
      <3>1. s \in Nat /\ r \in Nat /\ s # 0 /\ r # 0
        BY DEF Sessions
      <3>2. used \in Nat
        BY DEF TypeOK
      <3> QED
        BY <2>4, <3>1, <3>2
    <2>6. sid[b] = r /\ sid[d] = s
      BY <2>5 DEF Shrinks
    <2>7. Awaited(d, r)
      BY <2>1, <2>6 DEF MeshInv, Handshakes
    <2>8. \A m \in Elements(inbox[d]) : m \in Elements(inbox'[d])
      BY <2>5, <2>6 DEF Shrinks
    <2> QED
      BY <2>1, <2>7, <2>8 DEF Awaited
  <1> QED
    BY <1>1, <1>2, <1>4, <1>5, <1>6 DEF MeshInv

\* A new websocket has met nobody, so the invariant holds of it.
LEMMA JoinInv ==
  ASSUME TypeOK, TypeOK', MeshInv, NEW b \in Browsers, NEW s \in Sessions, Join(b, s)
  PROVE  MeshInv'
  <1> DEFINE m == [type |-> "room-peers", peers |-> members]
  <1>1. /\ s = used + 1 /\ used' = s /\ used \in Nat /\ made' = made
        /\ members' = members \cup {s} /\ members \subseteq 1..used /\ sid[b] = 0
    BY DEF Join, TypeOK
  <1>2. sid' = [sid EXCEPT ![b] = s]
    BY DEF Join
  <1>3. sid'[b] = s /\ \A c \in Browsers : c # b => sid'[c] = sid[c]
    BY <1>2 DEF TypeOK
  <1>4. Elements(inbox'[b]) = Elements(inbox[b]) \cup {m} /\ \A c \in Browsers : c # b => inbox'[c] = inbox[c]
    <2>1. inbox' = [inbox EXCEPT ![b] = Append(inbox[b], m)]
      BY DEF TypeOK, Join
    <2>2. m \in Message
      <3>1. members \subseteq Sessions
        BY DEF TypeOK, Sessions
      <3> QED
        BY <3>1 DEF Message
    <2> DEFINE q == inbox[b]
    <2>3. q \in Seq(Message)
      BY DEF TypeOK
    <2> HIDE DEF q, m
    <2>4. Elements(Append(q, m)) = Elements(q) \cup {m}
      BY <2>2, <2>3, ElementsOf
    <2> QED
      BY <2>1, <2>4 DEF TypeOK, q
  <1>5. m.type = "room-peers"
    OBVIOUS
  <1> HIDE DEF m
  <1>6. \A c \in Browsers, t \in Sessions : peers'[c][t] = None \/ peers'[c][t] = peers[c][t]
    <2>1. CASE HasOpenDataChannel(b)
      <3>1. peers' = [peers EXCEPT ![b] = NoPeers]
        BY <2>1 DEF Join
      <3> QED
        BY <3>1 DEF TypeOK, NoPeers
    <2>2. CASE ~HasOpenDataChannel(b)
      BY <2>2 DEF Join
    <2> QED
      BY <2>1, <2>2
  <1>7. used <= used' /\ s \notin members /\ s # 0
    BY <1>1
  <1>8. Sockets'
    <2>1. \A c \in Browsers : sid'[c] # 0 => sid'[c] \in members'
      BY <1>1, <1>3 DEF MeshInv, Sockets
    <2>2. \A c, d \in Browsers : sid'[c] # 0 /\ sid'[c] = sid'[d] => c = d
      BY <1>3, <1>7 DEF MeshInv, Sockets
    <2>3. \A c \in Browsers : sid'[c] = 0 => inbox'[c] = <<>>
      BY <1>3, <1>4, <1>7 DEF MeshInv, Sockets
    <2> QED
      BY <2>1, <2>2, <2>3 DEF Sockets
  <1>9. Shrinks
    <2>1. \A c \in Browsers : \A e \in Elements(inbox'[c]) :
            e.type \in {"offer", "answer"} => e \in Elements(inbox[c])
      BY <1>4, <1>5
    <2>2. \A c \in Browsers : \A e \in Elements(inbox[c]) : e \in Elements(inbox'[c])
      BY <1>4
    <2>3. \A c \in Browsers : sid'[c] = 0 \/ sid'[c] = sid[c] \/ sid'[c] = used + 1
      BY <1>1, <1>3
    <2>4. \A r \in members : r \in members'
      BY <1>1
    <2> QED
      BY <1>1, <1>6, <1>7, <2>1, <2>2, <2>3, <2>4 DEF Shrinks
  <1> QED
    BY <1>8, <1>9, ShrinksInv

\* A websocket that drops, with its mesh or without, leaves the invariant.
LEMMA DropInv ==
  ASSUME TypeOK, TypeOK', MeshInv, NEW b \in Browsers, SocketDrops(b) \/ cleanupMesh(b)
  PROVE  MeshInv'
  <1>1. /\ sid' = [sid EXCEPT ![b] = 0] /\ inbox' = [inbox EXCEPT ![b] = <<>>]
        /\ UNCHANGED <<used, members, made>>
    BY DEF SocketDrops, cleanupMesh, server
  <1>2. /\ sid'[b] = 0 /\ \A c \in Browsers : c # b => sid'[c] = sid[c]
        /\ inbox'[b] = <<>> /\ \A c \in Browsers : c # b => inbox'[c] = inbox[c]
    BY <1>1 DEF TypeOK
  <1>3. \A c \in Browsers, t \in Sessions : peers'[c][t] = None \/ peers'[c][t] = peers[c][t]
    <2>1. CASE peers' = peers
      BY <2>1
    <2>2. CASE peers' = [peers EXCEPT ![b] = NoPeers]
      BY <2>2 DEF TypeOK, NoPeers
    <2> QED
      BY <2>1, <2>2 DEF SocketDrops, cleanupMesh
  <1>4. Sockets'
    BY <1>1, <1>2 DEF MeshInv, Sockets
  <1>5. Elements(inbox'[b]) = {}
    BY <1>2 DEF Elements
  <1>6. Shrinks
    <2>1. used <= used'
      BY <1>1 DEF TypeOK
    <2>2. \A c \in Browsers : sid'[c] # 0 /\ sid'[c] = sid[c] => c # b
      BY <1>2
    <2> QED
      BY <1>1, <1>2, <1>3, <1>5, <2>1, <2>2 DEF Shrinks
  <1> QED
    BY <1>4, <1>6, ShrinksInv

\* The server's peer-left keeps its promise that one is told.
LEMMA DepartInv ==
  ASSUME TypeOK, TypeOK', MeshInv, NEW s \in Sessions, Depart(s)
  PROVE  MeshInv'
  <1> DEFINE m == [type |-> "peer-left", id |-> s]
  <1>1. /\ Tell(members, m) /\ members' = members \ {s}
        /\ UNCHANGED <<sid, used, peers, made>>
        /\ \A c \in Browsers : sid[c] # s
    BY DEF Depart, Departed
  <1>2. m \in Message /\ m.type = "peer-left"
    BY DEF Message
  <1>3. ASSUME NEW c \in Browsers
        PROVE  /\ sid[c] \in members => Elements(inbox'[c]) = Elements(inbox[c]) \cup {m}
               /\ sid[c] \notin members => inbox'[c] = inbox[c]
    <2> HIDE DEF m
    <2> QED
      BY <1>1, <1>2, TellElements
  <1>4. 0 \notin members
    BY DEF TypeOK
  <1>5. Sockets'
    <2> HIDE DEF m
    <2>1. \A c \in Browsers : sid[c] = 0 => inbox'[c] = inbox[c]
      BY <1>3, <1>4
    <2> QED
      BY <1>1, <2>1 DEF MeshInv, Sockets
  <1>6. Shrinks
    <2>1. used <= used'
      BY <1>1 DEF TypeOK
    <2>2. \A r \in members : r \in members' \/ r = s
      BY <1>1
    <2>3. \A c \in Browsers : sid[c] # 0 => m \in Elements(inbox'[c])
      BY <1>3 DEF MeshInv, Sockets
    <2>4. \A r \in members : r \in members' \/ [type |-> "peer-left", id |-> r] = m
      BY <2>2
    <2> HIDE DEF m
    <2>5. \A c \in Browsers : \A e \in Elements(inbox[c]) : e \in Elements(inbox'[c])
      BY <1>3
    <2>6. \A c \in Browsers : \A e \in Elements(inbox'[c]) :
            e.type \in {"offer", "answer"} => e \in Elements(inbox[c])
      BY <1>2, <1>3
    <2>7. \A c \in Browsers : sid[c] # 0 => \A r \in members :
            r \in members' \/ [type |-> "peer-left", id |-> r] \in Elements(inbox'[c])
      BY <2>3, <2>4
    <2> QED
      BY <1>1, <2>1, <2>5, <2>6, <2>7 DEF Shrinks
  <1> QED
    BY <1>5, <1>6, ShrinksInv

------------------------------------------------------------------------------
(* The theorems *)

\* It holds of browsers that have done nothing.
LEMMA InitInv == Init => TypeOK /\ MeshInv
  <1> SUFFICES ASSUME Init PROVE TypeOK /\ MeshInv
    OBVIOUS
  <1>1. TypeOK
    BY DEF Init, TypeOK, NoPeers
  <1>2. \A b \in Browsers, s \in Sessions : peers[b][s] = None /\ inbox[b] = <<>> /\ sid[b] = 0
    BY DEF Init, NoPeers
  <1>3. \A b \in Browsers, s \in Sessions, n \in Ids : ~Knows(b, s, n)
    BY <1>2 DEF Knows, Offered, Answered, Elements
  <1>4. Sockets
    BY DEF Init, Sockets
  <1>5. Places /\ Negotiations /\ Handshakes
    BY <1>2 DEF Places, Negotiations, Handshakes
  <1>6. References /\ Answers
    BY <1>3 DEF References, Answers
  <1> QED
    BY <1>1, <1>4, <1>5, <1>6 DEF MeshInv

\* Every step of the system keeps it.
LEMMA StepInv ==
  ASSUME TypeOK, MeshInv, [Next]_vars
  PROVE  TypeOK' /\ MeshInv'
  <1>1. TypeOK'
    BY StepTypes
  <1>2. CASE Moves /\ Messages /\ UNCHANGED <<sid, members, used>>
    BY <1>1, <1>2, MovesInv
  <1>3. CASE UNCHANGED vars
    <2>1. UNCHANGED <<sid, used, members, inbox, peers, made>>
      BY <1>3 DEF vars, server
    <2>2. Sockets'
      BY <2>1 DEF MeshInv, Sockets
    <2>3. Shrinks
      BY <2>1 DEF Shrinks, TypeOK
    <2> QED
      BY <1>1, <2>2, <2>3, ShrinksInv
  <1>4. ASSUME NEW b \in Browsers, NEW s \in Sessions, Join(b, s)
        PROVE  MeshInv'
    BY <1>1, <1>4, JoinInv
  <1>5. ASSUME NEW b \in Browsers, SocketDrops(b) \/ cleanupMesh(b)
        PROVE  MeshInv'
    BY <1>1, <1>5, DropInv
  <1>6. ASSUME NEW s \in Sessions, Announce(s) \/ Depart(s)
        PROVE  MeshInv'
    BY <1>1, <1>2, <1>6, AnnounceMoves, DepartInv
  <1>7. ASSUME NEW b \in Browsers, Handle(b)
        PROVE  MeshInv'
    BY <1>2, <1>7, HandleMoves
  <1>8. ASSUME NEW b \in Browsers, NEW s \in Sessions, Operate(b, s)
        PROVE  MeshInv'
    BY <1>2, <1>8, OperateMoves
  <1>9. ASSUME NEW b \in Browsers, NEW s \in Sessions,
               ChannelOpens(b, s) \/ ChannelCloses(b, s) \/ Disconnected(b, s) \/ LinkFails(b, s)
        PROVE  MeshInv'
    BY <1>2, <1>9, ChannelMoves, EndMoves
  <1> QED
    BY <1>1, <1>3, <1>4, <1>5, <1>6, <1>7, <1>8, <1>9 DEF Next, ServerStep

\* The invariants hold in every state.
LEMMA Invariance == Spec => [](TypeOK /\ MeshInv)
  <1>1. Init => TypeOK /\ MeshInv
    BY InitInv
  <1>2. TypeOK /\ MeshInv /\ [Next]_vars => (TypeOK /\ MeshInv)'
    BY StepInv
  <1> QED
    BY <1>1, <1>2, PTL DEF Spec

\* Whatever handlers overlap and whatever messages are lost with a websocket, MeshManager and
\* the connections it drives keep to their types.
THEOREM MeshTypes == Spec => []TypeOK
  <1> QED
    BY Invariance, PTL

\* At rest a connection with a remote description has settled.
LEMMA AtRest ==
  ASSUME TypeOK, MeshInv, Quiet, NEW b \in Browsers, NEW s \in Sessions,
         peers[b][s] # None, peers[b][s].far # None
  PROVE  /\ peers[b][s].signalingState = "stable"
         /\ peers[b][s].far \in Ids /\ Lives(peers[b][s].far)
         /\ Knows(b, s, peers[b][s].far)
  <1>1. peers[b][s] \in PeerConnection
    BY DEF TypeOK
  <1>2. peers[b][s].chain = <<>>
    BY DEF Quiet
  <1>3. Elements(peers[b][s].chain) = {}
    BY <1>2 DEF Elements
  <1>4. peers[b][s].signalingState = "stable"
    <2>1. Negotiates(peers[b][s])
      BY DEF MeshInv, Negotiations
    <2> QED
      BY <1>1, <1>3, <2>1 DEF Negotiates, PeerConnection
  <1>5. peers[b][s].far \in Ids
    BY <1>1 DEF PeerConnection
  <1>6. Exists(peers[b][s].far)
    BY DEF Quiet, Abandoned
  <1>7. PICK d \in Browsers, r \in Sessions :
          peers[d][r] # None /\ peers[d][r].pc = peers[b][s].far
    BY <1>6 DEF Exists
  <1>8. PICK k \in 1..made[d][r] : peers[b][s].far = <<d, r, k>>
    BY <1>7 DEF MeshInv, Places
  <1>9. Lives(peers[b][s].far)
    BY <1>7, <1>8 DEF Lives
  <1> QED
    BY <1>4, <1>5, <1>9 DEF Knows

\* The session under which b knows a connection is that of its browser, and made for b's own.
LEMMA RestSessions ==
  ASSUME TypeOK, MeshInv, Quiet, NEW b \in Browsers, NEW s \in members, s \in Sessions,
         NEW n \in Ids, Knows(b, s, n), Lives(n)
  PROVE  sid[n[1]] = s /\ sid[b] = n[2]
  <1>1. n[1] \in Browsers /\ n[2] \in Sessions
    BY IdParts
  <1>2. /\ \A d \in Browsers : (sid[d] = s => d = n[1]) /\ (sid[d] = n[2] => d = b)
        /\ sid[n[1]] = s =>
             \/ n[2] \in members
             \/ [type |-> "peer-left", id |-> n[2]] \in Elements(inbox[n[1]])
    BY DEF MeshInv, References
  <1>3. \A r \in members : \E d \in Browsers : sid[d] = r
    BY DEF Quiet, Departed
  <1>4. sid[n[1]] = s
    BY <1>2, <1>3
  <1>5. inbox[n[1]] = <<>>
    BY <1>1 DEF Quiet
  <1>6. n[2] \in members
    BY <1>2, <1>4, <1>5 DEF Elements
  <1>7. sid[b] = n[2]
    BY <1>2, <1>3, <1>6
  <1> QED
    BY <1>4, <1>7

\* When all is at rest, the two ends of a description have each other's.
LEMMA RestLinks ==
  ASSUME TypeOK, MeshInv
  PROVE  NoHalfLinks
  <1> SUFFICES ASSUME Quiet, NEW b \in Browsers, NEW s \in members,
                      sid[b] # 0, peers[b][s] # None, peers[b][s].far # None
               PROVE  Linked(b, s)
    BY DEF NoHalfLinks
  <1>1. s \in Sessions
    BY DEF TypeOK, Sessions
  <1> DEFINE p == peers[b][s]
             n == p.far
             d == n[1]
             r == n[2]
             q == peers[d][r]
  <1>2. /\ p.signalingState = "stable" /\ n \in Ids /\ Lives(n) /\ Knows(b, s, n)
    BY <1>1, AtRest
  <1>3. d \in Browsers /\ r \in Sessions /\ q # None /\ q.pc = n
    BY <1>2, IdParts DEF Lives
  <1>4. sid[d] = s /\ sid[b] = r
    BY <1>1, <1>2, RestSessions
  <1>5. q.far # None
    <2> SUFFICES ASSUME q.far = None PROVE FALSE
      OBVIOUS
    <2>1. p.signalingState = "have-remote-offer" \/ Awaited(d, r)
      BY <1>1, <1>3, <1>4 DEF MeshInv, Handshakes
    <2>2. inbox[d] = <<>> /\ q.chain = <<>>
      BY <1>3 DEF Quiet
    <2>3. Elements(inbox[d]) = {} /\ Elements(q.chain) = {}
      BY <2>2 DEF Elements
    <2> QED
      BY <1>2, <2>1, <2>3 DEF Awaited
  <1> DEFINE l == q.far
  <1>6. q.signalingState = "stable" /\ l \in Ids /\ Lives(l) /\ Knows(d, r, l)
    BY <1>3, <1>5, AtRest
  <1>7. r \in members
    BY <1>4 DEF MeshInv, Sockets
  <1>8. sid[l[1]] = r /\ sid[d] = l[2]
    BY <1>3, <1>6, <1>7, RestSessions
  <1>9. l[1] = b /\ l[2] = s
    <2>1. l[1] \in Browsers
      BY <1>6, IdParts
    <2> QED
      BY <1>4, <1>8, <2>1 DEF MeshInv, Sockets
  <1>10. p.pc = l
    BY <1>6, <1>9 DEF Lives
  <1>11. Meets(p, n)
    BY <1>3, <1>6, <1>10 DEF Meets
  <1> QED
    BY <1>2, <1>11 DEF Linked

\* Whatever offers have crossed, when all is at rest no browser of the room keeps half a link
\* to another member: handleOffer, handleAnswer and the order of a connection's operations
\* leave no description without its counterpart, for any number of browsers and websockets.
THEOREM HalfLinksNever == Spec => []NoHalfLinks
  <1>1. TypeOK /\ MeshInv => NoHalfLinks
    BY RestLinks
  <1> QED
    BY <1>1, Invariance, PTL

------------------------------------------------------------------------------
(* What two browsers of a room owe each other *)

\* What the loops that wait in connection p have still to visit.
Rests(p) == {o.rest : o \in {e \in Elements(p.chain) : Offers(e)}}

\* Who has a connection without a description is about to offer, or to take an offer.
Starts(p) ==
  p.signalingState = "stable" /\ p.far = None =>
    \E o \in Elements(p.chain) : Offers(o) \/ o.op = "setRemoteOffer"

Starting == \A b \in Browsers, s \in Sessions : peers[b][s] # None => Starts(peers[b][s])

\* Nobody has heard of a websocket before there is one, or is told that a member has left.
Known ==
  /\ \A b \in Browsers, s \in Sessions : peers[b][s] # None =>
       s <= used /\ \A l \in Rests(peers[b][s]) : l \subseteq 1..used
  /\ \A b \in Browsers : \A m \in Elements(inbox[b]) :
       /\ m.type = "room-peers" => m.peers \subseteq 1..used
       /\ m.type = "peer-joined" => m.id <= used
       /\ m.type = "peer-left" => m.id <= used /\ m.id \notin members

\* Two browsers of the room that have not given each other up.
Pair(a, b) ==
  /\ sid[a] # 0 /\ sid[b] # 0 /\ a # b
  /\ <<a, sid[b]>> \notin missed /\ <<b, sid[a]>> \notin missed

\* b is to hear of s, or a loop of b has still to visit it.
Pending(b, s) ==
  \/ s \in announcing
  \/ \E m \in Elements(inbox[b]) :
       \/ m.type = "room-peers" /\ s \in m.peers
       \/ m.type = "peer-joined" /\ m.id = s
  \/ \E t \in Sessions : peers[b][t] # None /\ \E l \in Rests(peers[b][t]) : s \in l

\* b has an offer of s, or has taken one.
Sought(b, s) ==
  \/ \E m \in Elements(inbox[b]) : m.type = "offer" /\ m.from = s
  \/ /\ peers[b][s] # None
     /\ peers[b][s].far # None \/ \E o \in Elements(peers[b][s].chain) : o.op = "setRemoteOffer"

\* What one of a pair knows of the other is in use, and made for it.
Living == \A a, b \in Browsers, n \in Ids :
  Pair(a, b) /\ Knows(a, sid[b], n) => Lives(n) /\ n[2] = sid[a]

\* Who is to make the offer to the other has a connection to it, or will hear of it.
Told == \A a, b \in Browsers :
  Pair(a, b) /\ shouldInitiate(a, sid[b]) => peers[a][sid[b]] # None \/ Pending(a, sid[b])

\* An offer that is out to who makes none itself is not lost.
Bidding == \A a, b \in Browsers :
  /\ Pair(a, b) /\ ~shouldInitiate(b, sid[a])
  /\ peers[a][sid[b]] # None /\ peers[a][sid[b]].signalingState = "have-local-offer"
  => Sought(b, sid[a])

PairInv == Starting /\ Known /\ Living /\ Told /\ Bidding

------------------------------------------------------------------------------
(* What becomes of it in one connection *)

\* From p to q a connection forgets no description and, but for `lost', no loop.
Retains(p, q, lost) ==
  /\ q.far = None =>
       /\ p.far = None
       /\ \A o \in Elements(p.chain) : o.op = "setRemoteOffer" => o \in Elements(q.chain)
  /\ Starts(q)
  /\ Rests(q) \subseteq Rests(p)
  /\ Rests(p) \subseteq Rests(q) \cup lost

\* The loops of a connection, one by one.
LEMMA RestsOf ==
  ASSUME NEW p, NEW l
  PROVE  l \in Rests(p) <=> \E o \in Elements(p.chain) : Offers(o) /\ o.rest = l
  BY DEF Rests

\* The connection after each operation.
LEMMA AfterFields ==
  ASSUME NEW p \in PeerConnection, p.chain # <<>>, Negotiates(p)
  PROVE  LET t == Elements(Tail(p.chain))
             h == Head(p.chain)
         IN /\ Elements(p.chain) = t \cup {h}
            /\ LET q == Done(p, <<>>) IN
                 /\ q.far = p.far /\ q.signalingState = p.signalingState
                 /\ Elements(q.chain) = t
            /\ h.op = "createOffer" =>
                 LET q == AfterCreateOffer(p) IN
                 /\ q.far = p.far /\ q.signalingState = p.signalingState
                 /\ Elements(q.chain) = t \cup {[op |-> "setLocalOffer", rest |-> h.rest]}
            /\ LET q == AfterSetLocalOffer(p) IN
                 /\ q.far = p.far /\ q.signalingState = "have-local-offer"
                 /\ Elements(q.chain) = t
            /\ h.op = "setRemoteOffer" =>
                 LET q == AfterSetRemoteOffer(p) IN
                 /\ q.far # None /\ q.signalingState = "have-remote-offer"
                 /\ Elements(q.chain) = t \cup {[op |-> "createAnswer"]}
            /\ LET q == AfterCreateAnswer(p) IN
                 /\ q.far = p.far /\ q.signalingState = p.signalingState
                 /\ \/ Elements(q.chain) = t
                    \/ Elements(q.chain) = t \cup {[op |-> "setLocalAnswer"]}
            /\ LET q == AfterSetLocalAnswer(p) IN
                 /\ q.far = p.far /\ q.signalingState = "stable"
                 /\ Elements(q.chain) = t
            /\ h.op = "setRemoteAnswer" =>
                 LET q == AfterSetRemoteAnswer(p) IN
                 /\ q.far # None /\ q.signalingState = "stable"
                 /\ Elements(q.chain) = t
  <1> DEFINE t == Tail(p.chain)
             h == Head(p.chain)
  <1>1. /\ p.chain \in Seq(Operation) /\ t \in Seq(Operation)
        /\ h \in Operation /\ h \in Elements(p.chain)
        /\ Elements(p.chain) = Elements(t) \cup {h}
        /\ Elements(t \o <<>>) = Elements(t)
    BY ChainAfter
  <1>2. \A o \in Operation : Elements(t \o <<o>>) = Elements(t) \cup {o}
    BY ChainAfter
  <1>3. ASSUME NEW more \in Seq(Operation)
        PROVE  /\ Done(p, more) \in PeerConnection
               /\ Done(p, more).far = p.far /\ Done(p, more).signalingState = p.signalingState
               /\ Done(p, more).chain = t \o more
    BY <1>3, DoneFields
  <1>4. <<>> \in Seq(Operation) /\ \A o \in Operation : <<o>> \in Seq(Operation)
    OBVIOUS
  <1>5. /\ [op |-> "createAnswer"] \in Operation /\ [op |-> "setLocalAnswer"] \in Operation
        /\ h.op = "createOffer" => [op |-> "setLocalOffer", rest |-> h.rest] \in Operation
        /\ Remote(h) => h.pc \in Ids
    <2>1. h.op = "createOffer" => h.rest \in SUBSET Sessions
      BY <1>1, OperationKinds DEF Offers
    <2>2. Remote(h) => h.pc \in Ids
      BY <1>1, OperationKinds
    <2> QED
      BY <2>1, <2>2 DEF Operation
  <1> DEFINE d == Done(p, <<>>)
  <1>6. /\ d \in PeerConnection /\ d.far = p.far /\ d.signalingState = p.signalingState
        /\ Elements(d.chain) = Elements(t)
    BY <1>1, <1>3, <1>4
  <1>7. h.op = "createOffer" =>
          LET q == AfterCreateOffer(p) IN
            /\ q.far = p.far /\ q.signalingState = p.signalingState
            /\ Elements(q.chain) = Elements(t) \cup {[op |-> "setLocalOffer", rest |-> h.rest]}
    <2> SUFFICES ASSUME h.op = "createOffer"
                 PROVE  LET q == AfterCreateOffer(p) IN
                          /\ q.far = p.far /\ q.signalingState = p.signalingState
                          /\ Elements(q.chain) =
                               Elements(t) \cup {[op |-> "setLocalOffer", rest |-> h.rest]}
      OBVIOUS
    <2> DEFINE o == [op |-> "setLocalOffer", rest |-> h.rest]
    <2>1. o \in Operation
      BY <1>5
    <2>2. AfterCreateOffer(p) = Done(p, <<o>>)
      BY DEF AfterCreateOffer
    <2> HIDE DEF o, t
    <2>3. /\ Done(p, <<o>>).far = p.far /\ Done(p, <<o>>).signalingState = p.signalingState
          /\ Elements(Done(p, <<o>>).chain) = Elements(t) \cup {o}
      BY <1>2, <1>3, <1>4, <2>1
    <2> QED
      BY <2>2, <2>3 DEF o
  <1>8. /\ AfterSetLocalOffer(p).far = p.far
        /\ AfterSetLocalOffer(p).signalingState = "have-local-offer"
        /\ Elements(AfterSetLocalOffer(p).chain) = Elements(t)
        /\ AfterSetLocalAnswer(p).far = p.far
        /\ AfterSetLocalAnswer(p).signalingState = "stable"
        /\ Elements(AfterSetLocalAnswer(p).chain) = Elements(t)
    <2> HIDE DEF t
    <2> QED
      BY <1>6 DEF AfterSetLocalOffer, AfterSetLocalAnswer, PeerConnection
  <1>9. h.op = "setRemoteOffer" =>
          LET q == AfterSetRemoteOffer(p) IN
            /\ q.far # None /\ q.signalingState = "have-remote-offer"
            /\ Elements(q.chain) = Elements(t) \cup {[op |-> "createAnswer"]}
    <2> DEFINE o == [op |-> "createAnswer"]
               e == Done(p, <<o>>)
    <2>1. e \in PeerConnection /\ Elements(e.chain) = Elements(t) \cup {o}
      <3> HIDE DEF o, t
      <3>1. o \in Operation
        BY <1>5 DEF o
      <3> QED
        BY <1>2, <1>3, <1>4, <3>1
    <2>2. AfterSetRemoteOffer(p) = [e EXCEPT !.far = h.pc, !.signalingState = "have-remote-offer"]
      BY DEF AfterSetRemoteOffer
    <2>3. h.op = "setRemoteOffer" => h.pc # None
      BY <1>5 DEF Remote
    <2> HIDE DEF e, o, t, h
    <2>4. /\ AfterSetRemoteOffer(p).far = h.pc
          /\ AfterSetRemoteOffer(p).signalingState = "have-remote-offer"
          /\ AfterSetRemoteOffer(p).chain = e.chain
      BY <2>1, <2>2 DEF PeerConnection
    <2> QED
      BY <2>1, <2>3, <2>4 DEF o
  <1>10. LET q == AfterCreateAnswer(p) IN
           /\ q.far = p.far /\ q.signalingState = p.signalingState
           /\ \/ Elements(q.chain) = Elements(t)
              \/ Elements(q.chain) = Elements(t) \cup {[op |-> "setLocalAnswer"]}
    <2> DEFINE o == [op |-> "setLocalAnswer"]
    <2>1. AfterCreateAnswer(p) = Done(p, <<o>>) \/ AfterCreateAnswer(p) = d
      BY DEF AfterCreateAnswer
    <2>2. /\ Done(p, <<o>>).far = p.far /\ Done(p, <<o>>).signalingState = p.signalingState
          /\ Elements(Done(p, <<o>>).chain) = Elements(t) \cup {o}
      <3>1. o \in Operation
        BY <1>5
      <3> HIDE DEF o, t
      <3> QED
        BY <1>2, <1>3, <1>4, <3>1
    <2> HIDE DEF d, t
    <2> QED
      BY <1>6, <2>1, <2>2
  <1>11. h.op = "setRemoteAnswer" =>
           LET q == AfterSetRemoteAnswer(p) IN
             /\ q.far # None /\ q.signalingState = "stable"
             /\ Elements(q.chain) = Elements(t)
    <2>1. AfterSetRemoteAnswer(p) = [d EXCEPT !.far = h.pc, !.signalingState = "stable"]
      BY DEF AfterSetRemoteAnswer
    <2>2. h.op = "setRemoteAnswer" => h.pc # None
      BY <1>5 DEF Remote
    <2> HIDE DEF d, t, h
    <2>3. /\ AfterSetRemoteAnswer(p).far = h.pc
          /\ AfterSetRemoteAnswer(p).signalingState = "stable"
          /\ AfterSetRemoteAnswer(p).chain = d.chain
      BY <1>6, <2>1 DEF PeerConnection
    <2> QED
      BY <1>6, <2>2, <2>3
  <1> QED
    BY <1>1, <1>6, <1>7, <1>8, <1>9, <1>10, <1>11

\* An operation h that leaves the others t of its chain, and may call for more.
Turns(p, q, t, h, more) ==
  /\ Elements(p.chain) = t \cup {h} /\ Elements(q.chain) = t \cup more
  /\ q.far = None => p.far = None /\ h.op # "setRemoteOffer"
  /\ \A o \in more : Offers(o) => Offers(h) /\ o.rest = h.rest

\* It retains what it should: the loop of h goes on in `more', or is `lost'.
LEMMA RetainsIf ==
  ASSUME NEW p, NEW q, NEW t, NEW h, NEW more, NEW lost, Turns(p, q, t, h, more),
         Offers(h) => h.rest \in lost \/ \E o \in more : Offers(o) /\ o.rest = h.rest,
         Starts(q)
  PROVE  Retains(p, q, lost)
  <1>1. \A l : l \in Rests(p) <=> \E o \in t \cup {h} : Offers(o) /\ o.rest = l
    BY RestsOf DEF Turns
  <1>2. \A l : l \in Rests(q) <=> \E o \in t \cup more : Offers(o) /\ o.rest = l
    BY RestsOf DEF Turns
  <1>3. Rests(q) \subseteq Rests(p) /\ Rests(p) \subseteq Rests(q) \cup lost
    BY <1>1, <1>2 DEF Turns
  <1>4. q.far = None =>
          /\ p.far = None
          /\ \A o \in Elements(p.chain) : o.op = "setRemoteOffer" => o \in Elements(q.chain)
    BY DEF Turns
  <1> QED
    BY <1>3, <1>4 DEF Retains

\* Each operation keeps what a pair relies on, but for the loop that goes on or fails.
LEMMA OperationRetains ==
  ASSUME NEW p \in PeerConnection, p.chain # <<>>, Negotiates(p), Starts(p)
  PROVE  LET h == Head(p.chain) IN
         /\ h.op = "createOffer" => Retains(p, AfterCreateOffer(p), {})
         /\ h.op = "setLocalOffer" => Retains(p, AfterSetLocalOffer(p), {h.rest})
         /\ h.op = "setLocalOffer" /\ p.signalingState # "stable" => Retains(p, Done(p, <<>>), {h.rest})
         /\ h.op = "setRemoteOffer" => Retains(p, AfterSetRemoteOffer(p), {})
         /\ h.op = "createAnswer" => Retains(p, AfterCreateAnswer(p), {})
         /\ h.op = "setLocalAnswer" /\ p.signalingState = "have-remote-offer" =>
              Retains(p, AfterSetLocalAnswer(p), {})
         /\ h.op \in {"setLocalAnswer", "setRemoteAnswer"} => Retains(p, Done(p, <<>>), {})
         /\ h.op = "setRemoteAnswer" => Retains(p, AfterSetRemoteAnswer(p), {})
  <1> DEFINE t == Elements(Tail(p.chain))
             h == Head(p.chain)
             d == Done(p, <<>>)
             e == AfterCreateOffer(p)
             f == AfterSetLocalOffer(p)
             g == AfterSetRemoteOffer(p)
             i == AfterCreateAnswer(p)
             j == AfterSetLocalAnswer(p)
             k == AfterSetRemoteAnswer(p)
             o == [op |-> "setLocalOffer", rest |-> h.rest]
  <1>1. /\ Elements(p.chain) = t \cup {h}
        /\ d.far = p.far /\ d.signalingState = p.signalingState /\ Elements(d.chain) = t \cup {}
        /\ h.op = "createOffer" =>
             /\ e.far = p.far /\ e.signalingState = p.signalingState
             /\ Elements(e.chain) = t \cup {o}
        /\ f.far = p.far /\ f.signalingState = "have-local-offer" /\ Elements(f.chain) = t \cup {}
        /\ h.op = "setRemoteOffer" =>
             /\ g.far # None /\ g.signalingState = "have-remote-offer"
             /\ Elements(g.chain) = t \cup {[op |-> "createAnswer"]}
        /\ i.far = p.far /\ i.signalingState = p.signalingState
        /\ \/ Elements(i.chain) = t \cup {}
           \/ Elements(i.chain) = t \cup {[op |-> "setLocalAnswer"]}
        /\ j.far = p.far /\ j.signalingState = "stable" /\ Elements(j.chain) = t \cup {}
        /\ h.op = "setRemoteAnswer" =>
             k.far # None /\ k.signalingState = "stable" /\ Elements(k.chain) = t \cup {}
    BY AfterFields
  <1>2. Offers(o) /\ o.rest = h.rest /\ h.op = "createOffer" => Offers(h)
    BY DEF Offers
  <1>3. p.signalingState = "have-remote-offer" => p.far # None
    BY DEF Negotiates
  <1> HIDE DEF t, h, d, e, f, g, i, j, k, o
  <1>4. ASSUME h.op = "createOffer"
        PROVE  Retains(p, e, {})
    <2>1. Offers(o) /\ o.rest = h.rest /\ Offers(h)
      BY <1>2, <1>4 DEF o, Offers
    <2>2. Starts(e)
      BY <1>1, <1>4, <2>1 DEF Starts
    <2>3. e.far = None => p.far = None /\ h.op # "setRemoteOffer"
      BY <1>1, <1>4
    <2>5. Turns(p, e, t, h, {o})
      BY <1>1, <1>4, <2>1, <2>2, <2>3 DEF Turns
    <2> QED
      BY <1>4, <2>1, <2>2, <2>3, <2>5, RetainsIf
  <1>5. ASSUME h.op = "setLocalOffer"
        PROVE  Retains(p, f, {h.rest})
    <2>1. Starts(f)
      BY <1>1 DEF Starts
    <2>2. f.far = None => p.far = None /\ h.op # "setRemoteOffer"
      BY <1>1, <1>5
    <2>3. Offers(h) => h.rest \in {h.rest}
      OBVIOUS
    <2>5. Turns(p, f, t, h, {})
      BY <1>1, <2>1, <2>2, <2>3, <1>5 DEF Turns
    <2> QED
      BY <2>1, <2>2, <2>3, <2>5, RetainsIf
  <1>6. ASSUME h.op = "setLocalOffer", p.signalingState # "stable"
        PROVE  Retains(p, d, {h.rest})
    <2>1. Starts(d)
      BY <1>1, <1>6 DEF Starts
    <2>2. d.far = None => p.far = None /\ h.op # "setRemoteOffer"
      BY <1>1, <1>6
    <2>5. Turns(p, d, t, h, {})
      BY <1>1, <2>1, <2>2, <1>6 DEF Turns
    <2> QED
      BY <2>1, <2>2, <2>5, RetainsIf
  <1>7. ASSUME h.op = "setRemoteOffer"
        PROVE  Retains(p, g, {})
    <2> DEFINE c == [op |-> "createAnswer"]
    <2>1. ~Offers(c) /\ ~Offers(h)
      BY <1>7 DEF Offers
    <2>2. Starts(g) /\ g.far # None
      BY <1>1, <1>7 DEF Starts
    <2>3. Elements(g.chain) = t \cup {c}
      BY <1>1, <1>7
    <2> HIDE DEF c
    <2>5. Turns(p, g, t, h, {c})
      BY <1>1, <2>1, <2>2, <2>3, <1>7 DEF Turns
    <2> QED
      BY <2>1, <2>2, <2>3, <2>5, RetainsIf
  <1>8. ASSUME h.op = "createAnswer"
        PROVE  Retains(p, i, {})
    <2> DEFINE c == [op |-> "setLocalAnswer"]
    <2>1. ~Offers(c) /\ ~Offers(h) /\ h.op # "setRemoteOffer"
      BY <1>8 DEF Offers
    <2>2. PICK more \in {{}, {c}} : Elements(i.chain) = t \cup more
      BY <1>1
    <2> HIDE DEF c
    <2>3. Starts(i)
      BY <1>1, <2>1, <2>2 DEF Starts
    <2>4. \A x \in more : ~Offers(x)
      BY <2>1
    <2>5. Turns(p, i, t, h, more)
      BY <1>1, <2>1, <2>2, <2>3, <2>4, <1>8 DEF Turns
    <2> QED
      BY <2>1, <2>2, <2>3, <2>4, <2>5, RetainsIf
  <1>9. ASSUME h.op = "setLocalAnswer", p.signalingState = "have-remote-offer"
        PROVE  Retains(p, j, {})
    <2>1. Starts(j)
      BY <1>1, <1>3, <1>9 DEF Starts
    <2>2. ~Offers(h) /\ h.op # "setRemoteOffer"
      BY <1>9 DEF Offers
    <2>5. Turns(p, j, t, h, {})
      BY <1>1, <2>1, <2>2, <1>9 DEF Turns
    <2> QED
      BY <2>1, <2>2, <2>5, RetainsIf
  <1>10. ASSUME h.op \in {"setLocalAnswer", "setRemoteAnswer"}
         PROVE  Retains(p, d, {})
    <2>1. ~Offers(h) /\ h.op # "setRemoteOffer"
      BY <1>10 DEF Offers
    <2>2. Starts(d)
      BY <1>1, <2>1 DEF Starts
    <2>5. Turns(p, d, t, h, {})
      BY <1>1, <2>1, <2>2, <1>10 DEF Turns
    <2> QED
      BY <2>1, <2>2, <2>5, RetainsIf
  <1>11. ASSUME h.op = "setRemoteAnswer"
         PROVE  Retains(p, k, {})
    <2>1. ~Offers(h) /\ h.op # "setRemoteOffer"
      BY <1>11 DEF Offers
    <2>2. Starts(k) /\ k.far # None
      BY <1>1, <1>11 DEF Starts
    <2>5. Turns(p, k, t, h, {})
      BY <1>1, <1>11, <2>1, <2>2 DEF Turns
    <2> QED
      BY <1>11, <2>1, <2>2, <2>5, RetainsIf
  <1> QED
    BY <1>4, <1>5, <1>6, <1>7, <1>8, <1>9, <1>10, <1>11 DEF h, d, e, f, g, i, j, k

\* One more operation called takes nothing away.
LEMMA CalledRetains ==
  ASSUME NEW p \in PeerConnection, Starts(p), NEW o \in Operation, Remote(o)
  PROVE  /\ Retains(p, Called(p, o), {})
         /\ Elements(Called(p, o).chain) = Elements(p.chain) \cup {o}
         /\ Called(p, o).signalingState = p.signalingState
  <1> DEFINE q == Called(p, o)
  <1>1. q.far = p.far /\ q.signalingState = p.signalingState /\ q.chain = Append(p.chain, o)
    BY CalledFields
  <1>2. p.chain \in Seq(Operation)
    BY DEF PeerConnection
  <1>3. Elements(q.chain) = Elements(p.chain) \cup {o}
    BY <1>1, <1>2, ElementsOf
  <1> HIDE DEF q
  <1>4. ~Offers(o)
    BY DEF Offers, Remote
  <1>5. \A l : l \in Rests(p) <=> \E e \in Elements(p.chain) : Offers(e) /\ e.rest = l
    BY RestsOf
  <1>6. \A l : l \in Rests(q) <=> \E e \in Elements(p.chain) \cup {o} : Offers(e) /\ e.rest = l
    BY <1>3, RestsOf
  <1>7. Rests(q) = Rests(p)
    BY <1>4, <1>5, <1>6
  <1>8. Starts(q)
    BY <1>1, <1>3 DEF Starts
  <1>9. Retains(p, q, {})
    BY <1>1, <1>3, <1>7, <1>8 DEF Retains
  <1> QED
    BY <1>1, <1>3, <1>9 DEF q

------------------------------------------------------------------------------
(* What a step keeps for a pair *)

\* There is a reason why b ends its connection to s.
Parting(b, s) ==
  \/ <<b, s>> \in missed'
  \/ s \notin members
  \/ peers[b][s].far # None /\ ~Exists(peers[b][s].far)

\* Nothing is forgiven; a connection ends for a reason; an offer that is out was out before or
\* has reached the other; who does not initiate does not lose an offer; who does is still to
\* hear of the other, has heard, or has given up.
Keeps ==
  /\ missed \subseteq missed'
  /\ \A b \in Browsers, s \in Sessions :
       peers[b][s] # None /\ peers'[b][s] = None => Parting(b, s)
  /\ \A b, d \in Browsers, s, r \in Sessions :
       /\ sid[b] = r /\ sid[d] = s
       /\ peers'[b][s] # None /\ peers'[b][s].signalingState = "have-local-offer"
       => \/ peers[b][s] # None /\ peers[b][s].signalingState = "have-local-offer"
          \/ Sought(d, r)'
  /\ \A b \in Browsers, s \in Sessions :
       Sought(b, s) /\ ~shouldInitiate(b, s) =>
         \/ Sought(b, s)'
         \/ peers[b][s] # None /\ peers'[b][s] = None
  /\ \A b \in Browsers, s \in Sessions :
       /\ sid[b] \in members \ {s} /\ shouldInitiate(b, s) /\ peers[b][s] = None
       /\ Pending(b, s)
       => Pending(b, s)' \/ peers'[b][s] # None \/ <<b, s>> \in missed'

\* No news of others is lost but that of which b takes `list', no offer but those that were
\* taken or have no precedence, and the server sends none.
Brings(b, list) ==
  \A c \in Browsers :
    /\ \A m \in Elements(inbox[c]) : m.type \in {"room-peers", "peer-joined"} =>
         \/ m \in Elements(inbox'[c])
         \/ c = b /\ m.type = "room-peers" /\ m.peers = list
         \/ c = b /\ m.type = "peer-joined" /\ {m.id} = list
    /\ \A m \in Elements(inbox[c]) : m.type = "offer" =>
         Sought(c, m.from)' \/ shouldInitiate(c, m.from)
    /\ \A m \in Elements(inbox'[c]) : m \in Elements(inbox[c]) \/ m.type \in {"offer", "answer"}

\* What is known stays known.
LEMMA KnownStays ==
  ASSUME Known, NEW b, NEW list, Brings(b, list), UNCHANGED <<used, members>>,
         \A c \in Browsers, t \in Sessions : peers'[c][t] # None =>
           t <= used /\ \A l \in Rests(peers'[c][t]) : l \subseteq 1..used
  PROVE  Known'
  <1>1. \A c \in Browsers, t \in Sessions : peers'[c][t] # None =>
          t <= used' /\ \A l \in Rests(peers'[c][t]) : l \subseteq 1..used'
    OBVIOUS
  <1>2. \A c \in Browsers : \A m \in Elements(inbox'[c]) :
          /\ m.type = "room-peers" => m.peers \subseteq 1..used'
          /\ m.type = "peer-joined" => m.id <= used'
          /\ m.type = "peer-left" => m.id <= used' /\ m.id \notin members'
    BY DEF Known, Brings
  <1> QED
    BY <1>1, <1>2 DEF Known, Rests

\* b's connection to s goes on as q, or ends.
OneGoes(b, s, q, lost) ==
  /\ peers[b][s] # None
  /\ peers' = [peers EXCEPT ![b][s] = q]
  /\ q = None => Parting(b, s) /\ Rests(peers[b][s]) \subseteq lost
  /\ q # None => /\ Retains(peers[b][s], q, lost)
                 /\ q.signalingState = "have-local-offer" =>
                      peers[b][s].signalingState = "have-local-offer"
  /\ \A l \in lost : \A r \in Offerable(b, peers[b], l) : <<b, r>> \in missed'
  /\ Brings(b, {}) /\ missed \subseteq missed' /\ UNCHANGED <<ids, used, members, announcing>>

\* ... and with it everything is kept.
LEMMA OneKeeps ==
  ASSUME TypeOK, PairInv, NEW b \in Browsers, NEW s \in Sessions,
         NEW q \in PeerConnection \cup {None}, NEW lost, OneGoes(b, s, q, lost)
  PROVE  Starting' /\ Known' /\ Keeps
  <1> USE DEF OneGoes
  <1>1. /\ peers'[b][s] = q
        /\ \A c \in Browsers, t \in Sessions : c # b \/ t # s => peers'[c][t] = peers[c][t]
    BY DEF TypeOK
  <1>2. Starting'
    BY <1>1 DEF PairInv, Starting, Retains
  <1>3. Known'
    <2>1. ASSUME NEW c \in Browsers, NEW t \in Sessions, peers'[c][t] # None
          PROVE  t <= used /\ \A l \in Rests(peers'[c][t]) : l \subseteq 1..used
      <3>1. peers[c][t] # None
        BY <1>1, <2>1
      <3>2. t <= used /\ \A l \in Rests(peers[c][t]) : l \subseteq 1..used
        BY <3>1 DEF PairInv, Known
      <3>3. Rests(peers'[c][t]) \subseteq Rests(peers[c][t])
        BY <1>1, <2>1 DEF Retains
      <3> QED
        BY <3>2, <3>3
    <2> QED
      BY <2>1, KnownStays DEF PairInv
  <1>4. \A c \in Browsers, t \in Sessions :
          peers[c][t] # None /\ peers'[c][t] = None => Parting(c, t)
    BY <1>1
  <1>5. \A c \in Browsers, t \in Sessions :
          peers'[c][t] # None /\ peers'[c][t].signalingState = "have-local-offer" =>
            peers[c][t] # None /\ peers[c][t].signalingState = "have-local-offer"
    BY <1>1
  <1>6. ASSUME NEW c \in Browsers, NEW t \in Sessions, Sought(c, t), ~shouldInitiate(c, t)
        PROVE  Sought(c, t)' \/ (peers[c][t] # None /\ peers'[c][t] = None)
    <2>1. CASE \E m \in Elements(inbox[c]) : m.type = "offer" /\ m.from = t
      BY <1>6, <2>1 DEF Brings
    <2>2. CASE peers[c][t] # None /\ peers'[c][t] # None
      <3>1. peers'[c][t] = peers[c][t] \/ Retains(peers[c][t], peers'[c][t], lost)
        BY <1>1, <2>2
      <3>2. peers[c][t].far # None \/ (\E o \in Elements(peers[c][t].chain) : o.op = "setRemoteOffer")
              => \/ peers'[c][t].far # None
                 \/ \E o \in Elements(peers'[c][t].chain) : o.op = "setRemoteOffer"
        BY <3>1 DEF Retains
      <3> QED
        BY <1>6, <2>1, <2>2, <3>2 DEF Sought
    <2> QED
      BY <1>6, <2>1, <2>2 DEF Sought
  <1>7. ASSUME NEW c \in Browsers, NEW t \in Sessions,
               shouldInitiate(c, t), peers[c][t] = None, Pending(c, t)
        PROVE  Pending(c, t)' \/ <<c, t>> \in missed'
    <2>1. CASE t \in announcing
      BY <2>1 DEF Pending
    <2>2. ASSUME NEW m \in Elements(inbox[c]),
                 (m.type = "room-peers" /\ t \in m.peers) \/ (m.type = "peer-joined" /\ m.id = t)
          PROVE  Pending(c, t)'
      <3>1. m \in Elements(inbox'[c])
        BY <2>2 DEF Brings
      <3> QED
        BY <2>2, <3>1 DEF Pending
    <2>3. ASSUME NEW u \in Sessions, peers[c][u] # None, NEW l \in Rests(peers[c][u]), t \in l
          PROVE  Pending(c, t)' \/ <<c, t>> \in missed'
      <3>1. CASE peers'[c][u] # None /\ l \in Rests(peers'[c][u])
        BY <2>3, <3>1 DEF Pending
      <3>2. CASE ~(peers'[c][u] # None /\ l \in Rests(peers'[c][u]))
        <4>1. c = b /\ u = s
          BY <1>1, <2>3, <3>2
        <4>2. l \in lost
          <5>1. CASE q = None
            BY <2>3, <4>1, <5>1
          <5>2. CASE q # None
            BY <1>1, <2>3, <3>2, <4>1, <5>2 DEF Retains
          <5> QED
            BY <5>1, <5>2
        <4>3. t \in Offerable(b, peers[b], l)
          BY <1>7, <2>3, <4>1 DEF Offerable
        <4> QED
          BY <4>1, <4>2, <4>3
      <3> QED
        BY <3>1, <3>2
    <2> QED
      BY <1>7, <2>1, <2>2, <2>3 DEF Pending
  <1> QED
    BY <1>2, <1>3, <1>4, <1>5, <1>6, <1>7 DEF Keeps

\* What the loop over `list' does: it leaves the connections there are, makes one at most,
\* for one of the list, and forgets none of the others.
LEMMA LoopGives ==
  ASSUME TypeOK, NEW b \in Browsers, NEW ps \in [Sessions -> PeerConnection \cup {None}],
         NEW list \in SUBSET Sessions, OfferLoop(b, ps, list)
  PROVE  /\ \A c \in Browsers, t \in Sessions : c # b => peers'[c][t] = peers[c][t]
         /\ \A t \in Sessions : ps[t] # None => peers'[b][t] = ps[t]
         /\ \A t \in Sessions : ps[t] = None /\ peers'[b][t] # None =>
              /\ t \in list
              /\ peers'[b][t].signalingState = "stable"
              /\ Starts(peers'[b][t])
              /\ \A l \in Rests(peers'[b][t]) : l \subseteq list
         /\ \A r \in list : shouldInitiate(b, r) /\ ps[r] = None =>
              \/ peers'[b][r] # None
              \/ \E t \in Sessions : peers'[b][t] # None /\ \E l \in Rests(peers'[b][t]) : r \in l
  <1>1. CASE Offerable(b, ps, list) = {}
    <2>1. peers' = [peers EXCEPT ![b] = ps]
      BY <1>1 DEF OfferLoop
    <2>2. peers'[b] = ps /\ \A c \in Browsers : c # b => peers'[c] = peers[c]
      BY <2>1 DEF TypeOK
    <2>3. \A r \in list : ~(shouldInitiate(b, r) /\ ps[r] = None)
      BY <1>1 DEF Offerable
    <2> QED
      BY <2>2, <2>3
  <1>2. CASE Offerable(b, ps, list) # {}
    <2>1. PICK s \in Offerable(b, ps, list) :
            peers' = [peers EXCEPT ![b] = [ps EXCEPT ![s] =
              NewPeer(b, s, [op |-> "createOffer", rest |-> list \ {s}])]]
      BY <1>2 DEF OfferLoop
    <2>2. s \in Sessions /\ s \in list /\ ps[s] = None
      BY DEF Offerable
    <2> DEFINE op == [op |-> "createOffer", rest |-> list \ {s}]
               q == NewPeer(b, s, op)
    <2>3. op \in Operation /\ op.op = "createOffer" /\ op.rest = list \ {s} /\ Offers(op)
      BY DEF Operation, Offers
    <2>4. q \in PeerConnection /\ q.signalingState = "stable"
      BY <2>2, <2>3, NewPeerFields
    <2>5. Elements(q.chain) = {op}
      BY <2>2, <2>3, NewNegotiates
    <2> HIDE DEF op, q
    <2>6. peers' = [peers EXCEPT ![b] = [ps EXCEPT ![s] = q]]
      BY <2>1 DEF q, op
    <2>7. /\ peers'[b][s] = q
          /\ \A t \in Sessions : t # s => peers'[b][t] = ps[t]
          /\ \A c \in Browsers : c # b => peers'[c] = peers[c]
      BY <2>2, <2>6 DEF TypeOK
    <2>8. \A l : l \in Rests(q) <=> l = list \ {s}
      BY <2>3, <2>5, RestsOf
    <2>9. Starts(q)
      BY <2>3, <2>5 DEF Starts
    <2>10. q # None
      BY <2>4
    <2>11. \A t \in Sessions : ps[t] # None => peers'[b][t] = ps[t]
      BY <2>2, <2>7
    <2>12. ASSUME NEW t \in Sessions, ps[t] = None, peers'[b][t] # None
           PROVE  /\ t \in list
                  /\ peers'[b][t].signalingState = "stable"
                  /\ Starts(peers'[b][t])
                  /\ \A l \in Rests(peers'[b][t]) : l \subseteq list
      <3>1. t = s
        BY <2>7, <2>12
      <3> QED
        BY <2>2, <2>4, <2>7, <2>8, <2>9, <3>1
    <2>13. ASSUME NEW r \in list
           PROVE  \/ peers'[b][r] # None
                  \/ \E t \in Sessions : peers'[b][t] # None /\ \E l \in Rests(peers'[b][t]) : r \in l
      <3>1. CASE r = s
        BY <2>7, <2>10, <3>1
      <3>2. CASE r # s
        <4>1. list \ {s} \in Rests(peers'[b][s]) /\ r \in list \ {s}
          BY <2>7, <2>8, <3>2
        <4> QED
          BY <2>2, <2>7, <2>10, <4>1
      <3> QED
        BY <3>1, <3>2
    <2> QED
      BY <2>7, <2>11, <2>12, <2>13
  <1> QED
    BY <1>1, <1>2

\* The loop of b over `list' goes on, or begins, when b's connections are `ps'.
LoopGoes(b, ps, list) ==
  /\ list \subseteq 1..used /\ OfferLoop(b, ps, list) /\ Brings(b, list)
  /\ missed' = missed /\ UNCHANGED <<ids, used, members, announcing>>
  /\ \A t \in Sessions :
       \/ ps[t] = peers[b][t]
       \/ /\ peers[b][t] # None /\ ps[t] # None
          /\ Retains(peers[b][t], ps[t], {list})
          /\ \A d \in Browsers, r \in Sessions : sid[b] = r /\ sid[d] = t => Sought(d, r)'

\* ... and with it everything is kept.
LEMMA LoopKeeps ==
  ASSUME TypeOK, PairInv, NEW b \in Browsers, NEW ps \in [Sessions -> PeerConnection \cup {None}],
         NEW list \in SUBSET Sessions, LoopGoes(b, ps, list)
  PROVE  Starting' /\ Known' /\ Keeps
  <1>0. OfferLoop(b, ps, list)
    BY DEF LoopGoes
  <1>1. \A c \in Browsers, t \in Sessions : c # b => peers'[c][t] = peers[c][t]
    BY <1>0, LoopGives
  <1>2. \A t \in Sessions : ps[t] # None => peers'[b][t] = ps[t]
    BY <1>0, LoopGives
  <1>3. \A t \in Sessions : ps[t] = None /\ peers'[b][t] # None =>
          /\ t \in list
          /\ peers'[b][t].signalingState = "stable"
          /\ Starts(peers'[b][t])
          /\ \A l \in Rests(peers'[b][t]) : l \subseteq list
    BY <1>0, LoopGives
  <1>4. \A r \in list : shouldInitiate(b, r) /\ ps[r] = None =>
          \/ peers'[b][r] # None
          \/ \E t \in Sessions : peers'[b][t] # None /\ \E l \in Rests(peers'[b][t]) : r \in l
    BY <1>0, LoopGives
  <1> USE DEF LoopGoes
  <1>5. \A t \in Sessions : peers[b][t] # None =>
          /\ peers'[b][t] # None
          /\ peers'[b][t] = peers[b][t] \/ Retains(peers[b][t], peers'[b][t], {list})
    BY <1>2
  <1>6. Starting'
    <2> SUFFICES ASSUME NEW c \in Browsers, NEW t \in Sessions, peers'[c][t] # None
                 PROVE  Starts(peers'[c][t])
      BY DEF Starting, Starts
    <2>1. CASE peers[c][t] # None
      <3>1. Starts(peers[c][t])
        BY <2>1 DEF PairInv, Starting
      <3> QED
        BY <1>1, <1>5, <2>1, <3>1 DEF Retains
    <2>2. CASE peers[c][t] = None
      BY <1>1, <1>3, <2>2
    <2> QED
      BY <2>1, <2>2
  <1>7. Known'
    <2>1. ASSUME NEW c \in Browsers, NEW t \in Sessions, peers'[c][t] # None
          PROVE  t <= used /\ \A l \in Rests(peers'[c][t]) : l \subseteq 1..used
      <3>1. CASE peers[c][t] # None
        <4>1. t <= used /\ \A l \in Rests(peers[c][t]) : l \subseteq 1..used
          BY <3>1 DEF PairInv, Known
        <4>2. Rests(peers'[c][t]) \subseteq Rests(peers[c][t])
          BY <1>1, <1>5, <3>1 DEF Retains
        <4> QED
          BY <4>1, <4>2
      <3>2. CASE peers[c][t] = None
        <4>1. c = b
          BY <1>1, <2>1, <3>2
        <4>2. t \in list /\ \A l \in Rests(peers'[c][t]) : l \subseteq list
          BY <1>3, <2>1, <3>2, <4>1
        <4>3. used \in Nat /\ t \in 1..used
          BY <4>2 DEF TypeOK
        <4>4. \A l \in Rests(peers'[c][t]) : l \subseteq 1..used
          BY <4>2
        <4>5. t <= used
          BY <4>3
        <4> QED
          BY <4>4, <4>5
      <3> QED
        BY <3>1, <3>2
    <2> QED
      BY <2>1, KnownStays DEF PairInv
  <1>8. \A c \in Browsers, t \in Sessions : peers[c][t] # None => peers'[c][t] # None
    BY <1>1, <1>5
  <1>9. ASSUME NEW c \in Browsers, NEW d \in Browsers, NEW t \in Sessions, NEW r \in Sessions,
               sid[c] = r, sid[d] = t, peers'[c][t] # None,
               peers'[c][t].signalingState = "have-local-offer"
        PROVE  \/ peers[c][t] # None /\ peers[c][t].signalingState = "have-local-offer"
               \/ Sought(d, r)'
    <2>1. CASE c # b
      BY <1>1, <1>9, <2>1
    <2>2. CASE c = b
      <3>1. ps[t] # None
        BY <1>3, <1>9, <2>2
      <3> QED
        BY <1>2, <1>9, <2>2, <3>1
    <2> QED
      BY <2>1, <2>2
  <1>10. ASSUME NEW c \in Browsers, NEW t \in Sessions, Sought(c, t), ~shouldInitiate(c, t)
         PROVE  Sought(c, t)'
    <2>1. CASE \E m \in Elements(inbox[c]) : m.type = "offer" /\ m.from = t
      BY <1>10, <2>1 DEF Brings
    <2>2. CASE peers[c][t] # None
      <3>1. peers'[c][t] # None
        BY <1>8, <2>2
      <3>2. peers'[c][t] = peers[c][t] \/ Retains(peers[c][t], peers'[c][t], {list})
        BY <1>1, <1>5, <2>2
      <3>3. peers[c][t].far # None \/ (\E o \in Elements(peers[c][t].chain) : o.op = "setRemoteOffer")
              => \/ peers'[c][t].far # None
                 \/ \E o \in Elements(peers'[c][t].chain) : o.op = "setRemoteOffer"
        BY <3>2 DEF Retains
      <3> QED
        BY <1>10, <2>1, <3>1, <3>3 DEF Sought
    <2> QED
      BY <1>10, <2>1, <2>2 DEF Sought
  <1>11. ASSUME NEW c \in Browsers, NEW t \in Sessions,
                shouldInitiate(c, t), peers[c][t] = None, Pending(c, t)
         PROVE  Pending(c, t)' \/ peers'[c][t] # None
    <2>1. CASE t \in announcing
      BY <2>1 DEF Pending
    <2>2. CASE c = b /\ t \in list
      <3>1. ps[t] = None
        BY <1>11, <2>2
      <3>2. \/ peers'[b][t] # None
            \/ \E u \in Sessions : peers'[b][u] # None /\ \E l \in Rests(peers'[b][u]) : t \in l
        BY <1>4, <1>11, <2>2, <3>1
      <3> QED
        BY <2>2, <3>2 DEF Pending
    <2>3. ASSUME NEW m \in Elements(inbox[c]),
                 (m.type = "room-peers" /\ t \in m.peers) \/ (m.type = "peer-joined" /\ m.id = t)
          PROVE  Pending(c, t)' \/ (c = b /\ t \in list)
      <3>1. m \in Elements(inbox'[c]) \/ (c = b /\ t \in list)
        BY <2>3 DEF Brings
      <3> QED
        BY <2>3, <3>1 DEF Pending
    <2>4. ASSUME NEW u \in Sessions, peers[c][u] # None, NEW l \in Rests(peers[c][u]), t \in l
          PROVE  Pending(c, t)' \/ (c = b /\ t \in list)
      <3>1. peers'[c][u] # None
        BY <1>8, <2>4
      <3>2. l \in Rests(peers'[c][u]) \/ (c = b /\ l = list)
        BY <1>1, <1>5, <2>4 DEF Retains
      <3> QED
        BY <2>4, <3>1, <3>2 DEF Pending
    <2> QED
      BY <1>11, <2>1, <2>2, <2>3, <2>4 DEF Pending
  <1>12. \A c \in Browsers, t \in Sessions :
           peers[c][t] # None /\ peers'[c][t] = None => Parting(c, t)
    BY <1>8
  <1> QED
    BY <1>6, <1>7, <1>9, <1>10, <1>11, <1>12 DEF Keeps

------------------------------------------------------------------------------
(* The steps of the browsers keep it *)

\* Nothing is lost where nothing is sent or taken.
LEMMA SilentBrings ==
  ASSUME NEW b, NEW list, inbox' = inbox
  PROVE  Brings(b, list)
  BY DEF Brings, Sought

\* An offer or an answer that is sent takes nothing away.
LEMMA SendBrings ==
  ASSUME TypeOK, NEW b \in Browsers, NEW s \in Sessions, NEW n \in Ids,
         NEW t \in {"offer", "answer"}, SendToTarget(b, s, t, n), NEW c, NEW list
  PROVE  Brings(c, list)
  <1> SUFFICES ASSUME NEW e \in Browsers
               PROVE  /\ \A m \in Elements(inbox[e]) : m \in Elements(inbox'[e])
                      /\ \A m \in Elements(inbox'[e]) :
                           m \in Elements(inbox[e]) \/ m.type \in {"offer", "answer"}
    BY DEF Brings, Sought
  <1> DEFINE o == [type |-> t, from |-> sid[b], pc |-> n]
  <1>1. /\ sid[b] # 0 /\ sid[e] = s => Elements(inbox'[e]) = Elements(inbox[e]) \cup {o}
        /\ sid[b] = 0 \/ sid[e] # s => inbox'[e] = inbox[e]
    BY SendElements
  <1>2. o.type \in {"offer", "answer"}
    OBVIOUS
  <1> HIDE DEF o
  <1> QED
    BY <1>1, <1>2

\* disconnectPeer gives up what the loops had still to visit.
LEMMA RestOfRests ==
  ASSUME TypeOK, NEW b \in Browsers, NEW p, NEW l \in Rests(p)
  PROVE  Offerable(b, peers[b], l) \subseteq RestOf(b, p)
  <1>1. PICK o \in Elements(p.chain) : Offers(o) /\ o.rest = l
    BY RestsOf
  <1>2. PICK k \in 1..Len(p.chain) : p.chain[k] = o
    BY DEF Elements
  <1>3. k \in {j \in 1..Len(p.chain) : p.chain[j].op \in {"createOffer", "setLocalOffer"}}
    BY <1>1, <1>2 DEF Offers
  <1>4. p.chain[k].rest = l
    BY <1>1, <1>2
  <1> QED
    BY <1>3, <1>4 DEF RestOf

\* Each operation of an RTCPeerConnection.
LEMMA OperateKeeps ==
  ASSUME TypeOK, MeshInv, PairInv, NEW b \in Browsers, NEW s \in Sessions, Operate(b, s)
  PROVE  Starting' /\ Known' /\ Keeps
  <1> DEFINE p == peers[b][s]
             h == Head(p.chain)
  <1>1. UNCHANGED <<ids, used, members, announcing>>
    BY DEF Operate, CreateOffer, SetLocalOffer, SetLocalOfferFails, SetRemoteOffer, CreateAnswer,
           SetLocalAnswer, SetRemoteAnswer, server
  <1>2. ASSUME NEW op, Due(b, s, op)
        PROVE  /\ p \in PeerConnection /\ p # None /\ p.chain # <<>> /\ Negotiates(p)
               /\ h.op = op /\ h \in Operation /\ p.pc \in Ids /\ Starts(p)
    <2>1. /\ p \in PeerConnection /\ p # None /\ p.chain # <<>> /\ Negotiates(p)
          /\ h.op = op /\ h \in Operation /\ p.pc \in Ids
      BY <1>2, DueNegotiates
    <2>2. Starts(p)
      BY <2>1 DEF PairInv, Starting
    <2> QED
      BY <2>1, <2>2
  <1>3. ASSUME p \in PeerConnection, p # None,
               NEW q \in PeerConnection, peers' = [peers EXCEPT ![b][s] = q], Retains(p, q, {}),
               q.signalingState = "have-local-offer" => p.signalingState = "have-local-offer",
               missed' = missed, Brings(b, {})
        PROVE  Starting' /\ Known' /\ Keeps
    <2>1. \A l \in {} : \A r \in Offerable(b, peers[b], l) : <<b, r>> \in missed'
      OBVIOUS
    <2>2. q \in PeerConnection \cup {None} /\ q # None /\ missed \subseteq missed'
      BY <1>3
    <2> QED
      <3>1. OneGoes(b, s, q, {})
        BY <1>1, <1>3, <2>1, <2>2 DEF OneGoes
      <3> QED
        BY <2>2, <3>1, OneKeeps
  <1>4. ASSUME CreateOffer(b, s)
        PROVE  Starting' /\ Known' /\ Keeps
    <2> DEFINE q == AfterCreateOffer(p)
    <2>1. Due(b, s, "createOffer") /\ inbox' = inbox /\ missed' = missed
      BY <1>4 DEF CreateOffer
    <2>2. /\ p \in PeerConnection /\ p # None /\ p.chain # <<>>
          /\ Negotiates(p) /\ Starts(p) /\ h.op = "createOffer"
      BY <1>2, <2>1
    <2>3. q \in PeerConnection /\ Retains(p, q, {}) /\ q.signalingState = p.signalingState
      BY <2>2, AfterTypes, OperationRetains, AfterFields
    <2>4. peers' = [peers EXCEPT ![b][s] = q]
      BY <1>4, OperationSteps
    <2>5. Brings(b, {})
      BY <2>1, SilentBrings
    <2> HIDE DEF p, q
    <2> QED
      BY <1>3, <2>1, <2>2, <2>3, <2>4, <2>5
  <1>5. ASSUME SetLocalOfferFails(b, s)
        PROVE  Starting' /\ Known' /\ Keeps
    <2> DEFINE q == Done(p, <<>>)
    <2>1. /\ Due(b, s, "setLocalOffer") /\ inbox' = inbox /\ p.signalingState # "stable"
          /\ missed' = missed \cup {<<b, r>> : r \in Offerable(b, peers[b], h.rest)}
      BY <1>5 DEF SetLocalOfferFails
    <2>2. /\ p \in PeerConnection /\ p # None /\ p.chain # <<>>
          /\ Negotiates(p) /\ Starts(p) /\ h.op = "setLocalOffer"
      BY <1>2, <2>1
    <2>3. q \in PeerConnection /\ Retains(p, q, {h.rest}) /\ q.signalingState = p.signalingState
      BY <2>1, <2>2, AfterTypes, OperationRetains, AfterFields
    <2>4. peers' = [peers EXCEPT ![b][s] = q]
      BY <1>5, OperationSteps
    <2>5. Brings(b, {})
      BY <2>1, SilentBrings
    <2>6. \A l \in {h.rest} : \A r \in Offerable(b, peers[b], l) : <<b, r>> \in missed'
      BY <2>1
    <2>7. q \in PeerConnection \cup {None} /\ q # None /\ missed \subseteq missed'
      BY <2>1, <2>3
    <2> HIDE DEF q, h
    <2> QED
      <3>1. OneGoes(b, s, q, {h.rest})
        BY <1>1, <2>2, <2>3, <2>4, <2>5, <2>6, <2>7 DEF OneGoes
      <3> QED
        BY <2>7, <3>1, OneKeeps
  <1>6. ASSUME SetLocalOffer(b, s)
        PROVE  Starting' /\ Known' /\ Keeps
    <2> DEFINE q == AfterSetLocalOffer(p)
               ps == [peers[b] EXCEPT ![s] = q]
               list == h.rest
    <2>1. /\ Due(b, s, "setLocalOffer") /\ p.signalingState = "stable" /\ missed' = missed
          /\ SendToTarget(b, s, "offer", p.pc)
      BY <1>6 DEF SetLocalOffer
    <2>2. /\ p \in PeerConnection /\ p # None /\ p.chain # <<>> /\ Negotiates(p) /\ Starts(p)
          /\ h.op = "setLocalOffer" /\ h \in Operation /\ p.pc \in Ids
      BY <1>2, <2>1
    <2>3. q \in PeerConnection /\ Retains(p, q, {list})
      BY <2>2, AfterTypes, OperationRetains
    <2>4. OfferLoop(b, ps, list)
      BY <1>6, OperationSteps
    <2>5. list \in SUBSET Sessions /\ list \subseteq 1..used
      <3>1. list \in SUBSET Sessions /\ Offers(h)
        BY <2>2, OperationKinds DEF Offers
      <3>2. h \in Elements(p.chain)
        BY <2>2, ChainAfter
      <3>3. list \in Rests(p)
        BY <3>1, <3>2, RestsOf
      <3> QED
        BY <2>2, <3>1, <3>3 DEF PairInv, Known
    <2>6. Brings(b, list)
      BY <2>1, <2>2, SendBrings
    <2>7. \A d \in Browsers, r \in Sessions : sid[b] = r /\ sid[d] = s => Sought(d, r)'
      <3> SUFFICES ASSUME NEW d \in Browsers, NEW r \in Sessions, sid[b] = r, sid[d] = s
                   PROVE  Sought(d, r)'
        OBVIOUS
      <3> DEFINE o == [type |-> "offer", from |-> r, pc |-> p.pc]
      <3>1. sid[b] # 0
        BY DEF Sessions
      <3>2. Elements(inbox'[d]) = Elements(inbox[d]) \cup {o}
        BY <2>1, <2>2, <3>1, SendElements
      <3>3. o.type = "offer" /\ o.from = r
        OBVIOUS
      <3> HIDE DEF o
      <3>4. \E m \in Elements(inbox'[d]) : m.type = "offer" /\ m.from = r
        BY <3>2, <3>3
      <3> QED
        BY <3>4 DEF Sought
    <2> HIDE DEF q, list
    <2>8. /\ ps \in [Sessions -> PeerConnection \cup {None}]
          /\ ps[s] = q /\ \A t \in Sessions : t # s => ps[t] = peers[b][t]
      BY <2>3 DEF TypeOK
    <2>9. q # None
      BY <2>3
    <2>10. \A t \in Sessions :
             \/ ps[t] = peers[b][t]
             \/ /\ peers[b][t] # None /\ ps[t] # None
                /\ Retains(peers[b][t], ps[t], {list})
                /\ \A d \in Browsers, r \in Sessions : sid[b] = r /\ sid[d] = t => Sought(d, r)'
      BY <2>2, <2>3, <2>7, <2>8, <2>9
    <2> HIDE DEF ps
    <2> QED
      <3>1. LoopGoes(b, ps, list)
        BY <1>1, <2>1, <2>4, <2>5, <2>6, <2>10 DEF LoopGoes
      <3> QED
        BY <2>5, <2>8, <3>1, LoopKeeps
  <1>7. ASSUME SetRemoteOffer(b, s)
        PROVE  Starting' /\ Known' /\ Keeps
    <2> DEFINE q == AfterSetRemoteOffer(p)
    <2>1. Due(b, s, "setRemoteOffer") /\ inbox' = inbox /\ missed' = missed
      BY <1>7 DEF SetRemoteOffer
    <2>2. /\ p \in PeerConnection /\ p # None /\ p.chain # <<>>
          /\ Negotiates(p) /\ Starts(p) /\ h.op = "setRemoteOffer"
      BY <1>2, <2>1
    <2>3. q \in PeerConnection /\ Retains(p, q, {}) /\ q.signalingState = "have-remote-offer"
      BY <2>2, AfterTypes, OperationRetains, AfterFields
    <2>4. peers' = [peers EXCEPT ![b][s] = q]
      BY <1>7, OperationSteps
    <2>5. Brings(b, {})
      BY <2>1, SilentBrings
    <2> HIDE DEF p, q
    <2> QED
      BY <1>3, <2>1, <2>2, <2>3, <2>4, <2>5
  <1>8. ASSUME CreateAnswer(b, s)
        PROVE  Starting' /\ Known' /\ Keeps
    <2> DEFINE q == AfterCreateAnswer(p)
    <2>1. Due(b, s, "createAnswer") /\ inbox' = inbox /\ missed' = missed
      BY <1>8 DEF CreateAnswer
    <2>2. /\ p \in PeerConnection /\ p # None /\ p.chain # <<>>
          /\ Negotiates(p) /\ Starts(p) /\ h.op = "createAnswer"
      BY <1>2, <2>1
    <2>3. q \in PeerConnection /\ Retains(p, q, {}) /\ q.signalingState = p.signalingState
      BY <2>2, AfterTypes, OperationRetains, AfterFields
    <2>4. peers' = [peers EXCEPT ![b][s] = q]
      BY <1>8, OperationSteps
    <2>5. Brings(b, {})
      BY <2>1, SilentBrings
    <2> HIDE DEF p, q
    <2> QED
      BY <1>3, <2>1, <2>2, <2>3, <2>4, <2>5
  <1>9. ASSUME SetLocalAnswer(b, s)
        PROVE  Starting' /\ Known' /\ Keeps
    <2>1. Due(b, s, "setLocalAnswer") /\ missed' = missed
      BY <1>9 DEF SetLocalAnswer
    <2>2. /\ p \in PeerConnection /\ p # None /\ p.chain # <<>> /\ Negotiates(p) /\ Starts(p)
          /\ h.op = "setLocalAnswer" /\ p.pc \in Ids
      BY <1>2, <2>1
    <2>3. CASE /\ p.signalingState = "have-remote-offer"
               /\ peers' = [peers EXCEPT ![b][s] = AfterSetLocalAnswer(p)]
               /\ SendToTarget(b, s, "answer", p.pc)
      <3> DEFINE q == AfterSetLocalAnswer(p)
      <3>1. q \in PeerConnection /\ Retains(p, q, {}) /\ q.signalingState = "stable"
        BY <2>2, <2>3, AfterTypes, OperationRetains, AfterFields
      <3>2. Brings(b, {})
        BY <2>2, <2>3, SendBrings
      <3>3. peers' = [peers EXCEPT ![b][s] = q]
        BY <2>3
      <3> HIDE DEF p, q
      <3> QED
        BY <1>3, <2>1, <2>2, <3>1, <3>2, <3>3
    <2>4. CASE /\ p.signalingState # "have-remote-offer"
               /\ peers' = [peers EXCEPT ![b][s] = Done(p, <<>>)]
               /\ UNCHANGED inbox
      <3> DEFINE q == Done(p, <<>>)
      <3>1. q \in PeerConnection /\ Retains(p, q, {}) /\ q.signalingState = p.signalingState
        BY <2>2, AfterTypes, OperationRetains, AfterFields
      <3>2. Brings(b, {})
        BY <2>4, SilentBrings
      <3>3. peers' = [peers EXCEPT ![b][s] = q]
        BY <2>4
      <3> HIDE DEF p, q
      <3> QED
        BY <1>3, <2>1, <2>2, <3>1, <3>2, <3>3
    <2> QED
      BY <1>9, <2>3, <2>4, OperationSteps
  <1>10. ASSUME SetRemoteAnswer(b, s)
         PROVE  Starting' /\ Known' /\ Keeps
    <2>1. Due(b, s, "setRemoteAnswer") /\ inbox' = inbox /\ missed' = missed
      BY <1>10 DEF SetRemoteAnswer
    <2>2. /\ p \in PeerConnection /\ p # None /\ p.chain # <<>>
          /\ Negotiates(p) /\ Starts(p) /\ h.op = "setRemoteAnswer"
      BY <1>2, <2>1
    <2>3. Brings(b, {})
      BY <2>1, SilentBrings
    <2>4. CASE peers' = [peers EXCEPT ![b][s] = AfterSetRemoteAnswer(p)]
      <3> DEFINE q == AfterSetRemoteAnswer(p)
      <3>1. q \in PeerConnection /\ Retains(p, q, {}) /\ q.signalingState = "stable"
        BY <2>2, AfterTypes, OperationRetains, AfterFields
      <3>2. peers' = [peers EXCEPT ![b][s] = q]
        BY <2>4
      <3> HIDE DEF p, q
      <3> QED
        BY <1>3, <2>1, <2>2, <2>3, <3>1, <3>2
    <2>5. CASE peers' = [peers EXCEPT ![b][s] = Done(p, <<>>)]
      <3> DEFINE q == Done(p, <<>>)
      <3>1. q \in PeerConnection /\ Retains(p, q, {}) /\ q.signalingState = p.signalingState
        BY <2>2, AfterTypes, OperationRetains, AfterFields
      <3>2. peers' = [peers EXCEPT ![b][s] = q]
        BY <2>5
      <3> HIDE DEF p, q
      <3> QED
        BY <1>3, <2>1, <2>2, <2>3, <3>1, <3>2
    <2> QED
      BY <1>10, <2>4, <2>5, OperationSteps
  <1> QED
    BY <1>4, <1>5, <1>6, <1>7, <1>8, <1>9, <1>10 DEF Operate

\* Where no connection ends or goes on, and one begins at most with an offer that was taken.
NewGoes(b) ==
  /\ \A c \in Browsers, t \in Sessions :
       \/ peers'[c][t] = peers[c][t]
       \/ /\ peers[c][t] = None /\ peers'[c][t] # None
          /\ t <= used /\ Rests(peers'[c][t]) = {}
          /\ Starts(peers'[c][t]) /\ peers'[c][t].signalingState = "stable"
  /\ Brings(b, {}) /\ missed \subseteq missed' /\ UNCHANGED <<ids, used, members, announcing>>

\* ... everything is kept.
LEMMA NewKeeps ==
  ASSUME TypeOK, PairInv, NEW b \in Browsers, NewGoes(b)
  PROVE  Starting' /\ Known' /\ Keeps
  <1> USE DEF NewGoes
  <1>1. Starting'
    BY DEF PairInv, Starting, Starts
  <1>2. Known'
    <2>1. ASSUME NEW c \in Browsers, NEW t \in Sessions, peers'[c][t] # None
          PROVE  t <= used /\ \A l \in Rests(peers'[c][t]) : l \subseteq 1..used
      BY <2>1 DEF PairInv, Known
    <2> QED
      BY <2>1, KnownStays DEF PairInv
  <1>3. \A c \in Browsers, t \in Sessions : peers[c][t] # None => peers'[c][t] = peers[c][t]
    OBVIOUS
  <1>4. \A c \in Browsers, t \in Sessions :
          peers'[c][t] # None /\ peers'[c][t].signalingState = "have-local-offer" =>
            peers[c][t] # None /\ peers[c][t].signalingState = "have-local-offer"
    OBVIOUS
  <1>5. ASSUME NEW c \in Browsers, NEW t \in Sessions, Sought(c, t), ~shouldInitiate(c, t)
        PROVE  Sought(c, t)'
    <2>1. CASE \E m \in Elements(inbox[c]) : m.type = "offer" /\ m.from = t
      BY <1>5, <2>1 DEF Brings
    <2>2. CASE peers[c][t] # None
      <3>1. peers'[c][t] = peers[c][t]
        BY <1>3, <2>2
      <3> QED
        BY <1>5, <2>1, <2>2, <3>1 DEF Sought
    <2> QED
      BY <1>5, <2>1, <2>2 DEF Sought
  <1>6. ASSUME NEW c \in Browsers, NEW t \in Sessions, Pending(c, t)
        PROVE  Pending(c, t)'
    <2>1. CASE t \in announcing
      BY <2>1 DEF Pending
    <2>2. ASSUME NEW m \in Elements(inbox[c]),
                 (m.type = "room-peers" /\ t \in m.peers) \/ (m.type = "peer-joined" /\ m.id = t)
          PROVE  Pending(c, t)'
      <3>1. m \in Elements(inbox'[c])
        BY <2>2 DEF Brings
      <3> QED
        BY <2>2, <3>1 DEF Pending
    <2>3. ASSUME NEW u \in Sessions, peers[c][u] # None, NEW l \in Rests(peers[c][u]), t \in l
          PROVE  Pending(c, t)'
      <3>1. peers'[c][u] = peers[c][u]
        BY <1>3, <2>3
      <3> QED
        BY <2>3, <3>1 DEF Pending
    <2> QED
      BY <1>6, <2>1, <2>2, <2>3 DEF Pending
  <1> QED
    BY <1>1, <1>2, <1>3, <1>4, <1>5, <1>6 DEF Keeps

\* What the taking of one message does.
LEMMA ReceiveBrings ==
  ASSUME TypeOK, NEW b \in Browsers, NEW t, Receive(b, t), NEW list,
         t = "room-peers" => Head(inbox[b]).peers = list,
         t = "peer-joined" => {Head(inbox[b]).id} = list,
         t = "offer" => \A s \in Sessions :
           s = Head(inbox[b]).from => Sought(b, s)' \/ shouldInitiate(b, s)
  PROVE  Brings(b, list)
  <1> DEFINE h == Head(inbox[b])
  <1>1. /\ Elements(inbox[b]) = Elements(inbox'[b]) \cup {h} /\ h.type = t
        /\ \A c \in Browsers : c # b => inbox'[c] = inbox[c]
    BY ReceiveElements
  <1>2. /\ t = "room-peers" => h.peers = list
        /\ t = "peer-joined" => {h.id} = list
        /\ t = "offer" => \A s \in Sessions :
             s = h.from => Sought(b, s)' \/ shouldInitiate(b, s)
    OBVIOUS
  <1> HIDE DEF h
  <1>3. ASSUME NEW c \in Browsers, NEW m \in Elements(inbox[c])
        PROVE  m \in Elements(inbox'[c]) \/ (c = b /\ m = h)
    BY <1>1, <1>3
  <1>4. \A c \in Browsers : \A m \in Elements(inbox'[c]) : m \in Elements(inbox[c])
    BY <1>1
  <1>5. ASSUME NEW c \in Browsers, NEW m \in Elements(inbox[c]), m.type = "offer"
        PROVE  Sought(c, m.from)' \/ shouldInitiate(c, m.from)
    <2>1. CASE m \in Elements(inbox'[c])
      BY <1>5, <2>1 DEF Sought
    <2>2. CASE c = b /\ m = h
      <3>1. m \in Message
        BY <1>1, <2>2, ReceiveElements DEF h
      <3>2. m.from \in Sessions
        BY <1>5, <3>1, MessageKinds
      <3> QED
        BY <1>1, <1>2, <1>5, <2>2, <3>2
    <2> QED
      BY <1>3, <2>1, <2>2
  <1>6. ASSUME NEW c \in Browsers, NEW m \in Elements(inbox[c]),
               m.type \in {"room-peers", "peer-joined"}
        PROVE  \/ m \in Elements(inbox'[c])
               \/ c = b /\ m.type = "room-peers" /\ m.peers = list
               \/ c = b /\ m.type = "peer-joined" /\ {m.id} = list
    BY <1>1, <1>2, <1>3, <1>6
  <1> QED
    BY <1>4, <1>5, <1>6 DEF Brings

\* Each handler of a message, up to its first await.
LEMMA HandleKeeps ==
  ASSUME TypeOK, MeshInv, PairInv, NEW b \in Browsers, Handle(b)
  PROVE  Starting' /\ Known' /\ Keeps
  <1> DEFINE m == Head(inbox[b])
  <1>1. UNCHANGED <<ids, used, members, announcing>>
    BY DEF Handle, ReceiveRoomPeers, ReceivePeerJoined, ReceivePeerLeft, handleOffer, handleAnswer,
           server
  <1>2. ASSUME NEW list \in SUBSET Sessions, list \subseteq 1..used,
               OfferLoop(b, peers[b], list), missed' = missed, Brings(b, list)
        PROVE  Starting' /\ Known' /\ Keeps
    <2> DEFINE ps == peers[b]
    <2>1. ps \in [Sessions -> PeerConnection \cup {None}]
      BY DEF TypeOK
    <2>2. \A t \in Sessions : ps[t] = peers[b][t]
      OBVIOUS
    <2>3. OfferLoop(b, ps, list)
      BY <1>2
    <2> HIDE DEF ps
    <2>4. LoopGoes(b, ps, list)
      BY <1>1, <1>2, <2>2, <2>3 DEF LoopGoes
    <2> QED
      BY <2>1, <2>4, LoopKeeps
  <1>3. ASSUME ReceiveRoomPeers(b)
        PROVE  Starting' /\ Known' /\ Keeps
    <2>1. Receive(b, "room-peers") /\ OfferLoop(b, peers[b], m.peers) /\ missed' = missed
      BY <1>3 DEF ReceiveRoomPeers
    <2>2. m.type = "room-peers" /\ m.peers \in SUBSET Sessions /\ m \in Elements(inbox[b])
      BY <2>1, ReceiveElements, MessageKinds
    <2>3. m.peers \subseteq 1..used
      BY <2>2 DEF PairInv, Known
    <2>4. Brings(b, m.peers)
      BY <2>1, ReceiveBrings
    <2> HIDE DEF m
    <2> QED
      BY <1>2, <2>1, <2>2, <2>3, <2>4
  <1>4. ASSUME ReceivePeerJoined(b)
        PROVE  Starting' /\ Known' /\ Keeps
    <2>1. Receive(b, "peer-joined") /\ OfferLoop(b, peers[b], {m.id}) /\ missed' = missed
      BY <1>4 DEF ReceivePeerJoined
    <2>2. m.type = "peer-joined" /\ m.id \in Sessions /\ m \in Elements(inbox[b])
      BY <2>1, ReceiveElements, MessageKinds
    <2>3. {m.id} \subseteq 1..used
      BY <2>2 DEF PairInv, Known, TypeOK, Sessions
    <2>4. Brings(b, {m.id})
      BY <2>1, ReceiveBrings
    <2>5. {m.id} \in SUBSET Sessions
      BY <2>2
    <2> HIDE DEF m
    <2> QED
      BY <1>2, <2>1, <2>3, <2>4, <2>5
  <1>5. ASSUME ReceivePeerLeft(b)
        PROVE  Starting' /\ Known' /\ Keeps
    <2>1. Receive(b, "peer-left") /\ disconnectPeer(b, m.id)
      BY <1>5 DEF ReceivePeerLeft
    <2>2. m.type = "peer-left" /\ m.id \in Sessions /\ m \in Elements(inbox[b])
      BY <2>1, ReceiveElements, MessageKinds
    <2>3. PICK s \in Sessions : s = m.id
      BY <2>2
    <2>4. s \notin members
      BY <2>2, <2>3 DEF PairInv, Known
    <2>5. Brings(b, {})
      BY <2>1, ReceiveBrings
    <2>6. CASE peers[b][s] = None
      <3>1. peers' = peers /\ missed' = missed
        BY <2>1, <2>3, <2>6 DEF disconnectPeer
      <3>2. NewGoes(b)
        BY <1>1, <2>5, <3>1 DEF NewGoes
      <3> QED
        BY <3>2, NewKeeps
    <2>7. CASE peers[b][s] # None
      <3> DEFINE p == peers[b][s]
                 lost == Rests(p)
      <3>1. /\ peers' = [peers EXCEPT ![b][s] = None]
            /\ missed' = missed \cup {<<b, r>> : r \in RestOf(b, p)}
        BY <2>1, <2>3, <2>7 DEF disconnectPeer
      <3>2. \A l \in lost : \A r \in Offerable(b, peers[b], l) : <<b, r>> \in missed'
        BY <3>1, RestOfRests
      <3>3. Parting(b, s)
        BY <2>4 DEF Parting
      <3> HIDE DEF m
      <3>4. OneGoes(b, s, None, lost)
        BY <1>1, <2>5, <2>7, <3>1, <3>2, <3>3 DEF OneGoes
      <3> QED
        BY <3>4, OneKeeps
    <2> QED
      BY <2>6, <2>7
  <1>6. ASSUME handleOffer(b)
        PROVE  Starting' /\ Known' /\ Keeps
    <2>1. Receive(b, "offer") /\ missed' = missed
      BY <1>6 DEF handleOffer
    <2>2. /\ m.type = "offer" /\ m.from \in Sessions /\ m.pc \in Ids
          /\ m = [type |-> m.type, from |-> m.from, pc |-> m.pc]
      BY <2>1, ReceiveType, MessageKinds
    <2>3. PICK s \in Sessions, n \in Ids : s = m.from /\ n = m.pc
      BY <2>2
    <2> DEFINE op == [op |-> "setRemoteOffer", pc |-> n]
    <2>4. op \in Operation /\ op.op = "setRemoteOffer" /\ Remote(op)
      BY DEF Operation, Remote
    <2>5. IF IgnoresOffer(b, s)
          THEN UNCHANGED <<peers, made>>
          ELSE IF peers[b][s] = None
          THEN /\ CountNew(b, s)
               /\ peers' = [peers EXCEPT ![b][s] = NewPeer(b, s, op)]
          ELSE /\ peers' = [peers EXCEPT ![b][s].chain = Append(@, op)]
               /\ UNCHANGED made
      BY <1>6, <2>3 DEF handleOffer
    <2>6. ASSUME Sought(b, s)' \/ shouldInitiate(b, s)
          PROVE  Brings(b, {})
      <3>1. \A t \in Sessions : t = m.from => Sought(b, t)' \/ shouldInitiate(b, t)
        BY <2>3, <2>6
      <3> QED
        BY <2>1, <3>1, ReceiveBrings
    <2>7. CASE IgnoresOffer(b, s)
      <3>1. peers' = peers
        BY <2>5, <2>7
      <3>2. Sought(b, s)' \/ shouldInitiate(b, s)
        BY <2>7, <3>1 DEF IgnoresOffer, Sought
      <3>3. NewGoes(b)
        BY <1>1, <2>1, <2>6, <3>1, <3>2 DEF NewGoes
      <3> QED
        BY <3>3, NewKeeps
    <2>8. CASE ~IgnoresOffer(b, s) /\ peers[b][s] = None
      <3> DEFINE q == NewPeer(b, s, op)
      <3>1. peers' = [peers EXCEPT ![b][s] = q]
        BY <2>5, <2>8
      <3>2. q \in PeerConnection /\ q.signalingState = "stable" /\ Elements(q.chain) = {op}
        BY <2>4, NewPeerFields, NewNegotiates
      <3>3. s <= used
        <4>1. m \in Elements(inbox[b])
          BY <2>1, ReceiveElements
        <4>2. m = [type |-> "offer", from |-> s, pc |-> n]
          BY <2>2, <2>3
        <4>3. Knows(b, s, n)
          BY <4>1, <4>2 DEF Knows, Offered
        <4> QED
          BY <4>3 DEF MeshInv, References
      <3>4. ~Offers(op)
        BY <2>4 DEF Offers
      <3> HIDE DEF q, op, m
      <3>5. q # None
        BY <3>2
      <3>6. /\ peers'[b][s] = q
            /\ \A c \in Browsers, t \in Sessions : c # b \/ t # s => peers'[c][t] = peers[c][t]
        BY <3>1 DEF TypeOK
      <3>7. Rests(q) = {}
        BY <3>2, <3>4, RestsOf
      <3>8. Starts(q)
        BY <2>4, <3>2 DEF Starts
      <3>9. \E o \in Elements(peers'[b][s].chain) : o.op = "setRemoteOffer"
        BY <2>4, <3>2, <3>6
      <3>10. Sought(b, s)'
        BY <3>5, <3>6, <3>9 DEF Sought
      <3>11. NewGoes(b)
        BY <1>1, <2>1, <2>6, <2>8, <3>2, <3>3, <3>5, <3>6, <3>7, <3>8, <3>10 DEF NewGoes
      <3> QED
        BY <3>11, NewKeeps
    <2>9. CASE ~IgnoresOffer(b, s) /\ peers[b][s] # None
      <3> DEFINE p == peers[b][s]
                 q == Called(p, op)
      <3>1. peers' = [peers EXCEPT ![b][s] = q]
        BY <2>5, <2>9 DEF TypeOK, Called
      <3>2. p \in PeerConnection /\ Starts(p)
        BY <2>9 DEF TypeOK, PairInv, Starting
      <3>3. /\ Retains(p, q, {}) /\ Elements(q.chain) = Elements(p.chain) \cup {op}
            /\ q.signalingState = p.signalingState
        BY <2>4, <3>2, CalledRetains
      <3>4. q \in PeerConnection
        BY <2>4, <3>2, CalledFields
      <3> HIDE DEF q, op, m
      <3>5. q # None
        BY <3>4
      <3>6. peers'[b][s] = q
        BY <3>1 DEF TypeOK
      <3>7. \E o \in Elements(peers'[b][s].chain) : o.op = "setRemoteOffer"
        BY <2>4, <3>3, <3>6
      <3>8. Sought(b, s)'
        BY <3>5, <3>6, <3>7 DEF Sought
      <3>9. OneGoes(b, s, q, {})
        BY <1>1, <2>1, <2>6, <2>9, <3>1, <3>3, <3>5, <3>8 DEF OneGoes
      <3>10. q \in PeerConnection \cup {None}
        BY <3>4
      <3> QED
        BY <3>9, <3>10, OneKeeps
    <2> QED
      BY <2>7, <2>8, <2>9
  <1>7. ASSUME handleAnswer(b)
        PROVE  Starting' /\ Known' /\ Keeps
    <2>1. Receive(b, "answer") /\ missed' = missed
      BY <1>7 DEF handleAnswer
    <2>2. m.type = "answer" /\ m.from \in Sessions /\ m.pc \in Ids
      BY <2>1, ReceiveType, MessageKinds
    <2>3. PICK s \in Sessions, n \in Ids : s = m.from /\ n = m.pc
      BY <2>2
    <2> DEFINE op == [op |-> "setRemoteAnswer", pc |-> n]
    <2>4. op \in Operation /\ Remote(op)
      BY DEF Operation, Remote
    <2>5. IF peers[b][s] = None \/ peers[b][s].signalingState = "stable"
          THEN UNCHANGED peers
          ELSE peers' = [peers EXCEPT ![b][s].chain = Append(@, op)]
      BY <1>7, <2>3 DEF handleAnswer
    <2>6. Brings(b, {})
      BY <2>1, ReceiveBrings
    <2>7. CASE peers[b][s] = None \/ peers[b][s].signalingState = "stable"
      <3>1. NewGoes(b)
        BY <1>1, <2>1, <2>5, <2>6, <2>7 DEF NewGoes
      <3> QED
        BY <3>1, NewKeeps
    <2>8. CASE peers[b][s] # None /\ peers[b][s].signalingState # "stable"
      <3> DEFINE p == peers[b][s]
                 q == Called(p, op)
      <3>1. peers' = [peers EXCEPT ![b][s] = q]
        BY <2>5, <2>8 DEF TypeOK, Called
      <3>2. p \in PeerConnection /\ Starts(p)
        BY <2>8 DEF TypeOK, PairInv, Starting
      <3>3. Retains(p, q, {}) /\ q.signalingState = p.signalingState
        BY <2>4, <3>2, CalledRetains
      <3>4. q \in PeerConnection
        BY <2>4, <3>2, CalledFields
      <3> HIDE DEF q, op, m
      <3>5. q # None /\ q \in PeerConnection \cup {None}
        BY <3>4
      <3>6. OneGoes(b, s, q, {})
        BY <1>1, <2>1, <2>6, <2>8, <3>1, <3>3, <3>5 DEF OneGoes
      <3> QED
        BY <3>5, <3>6, OneKeeps
    <2> QED
      BY <2>7, <2>8
  <1> QED
    BY <1>3, <1>4, <1>5, <1>6, <1>7 DEF Handle

\* A channel opens or closes.
LEMMA ChannelKeeps ==
  ASSUME TypeOK, MeshInv, PairInv, NEW b \in Browsers, NEW s \in Sessions,
         ChannelOpens(b, s) \/ ChannelCloses(b, s)
  PROVE  Starting' /\ Known' /\ Keeps
  <1>1. PICK d \in {"open", "closed"} :
          /\ peers' = [peers EXCEPT ![b][s].dc = d]
          /\ UNCHANGED <<ids, sid, server, inbox, made, troubles, missed>>
    BY DEF ChannelOpens, ChannelCloses
  <1>2. peers[b][s] # None
    BY DEF ChannelOpens, ChannelCloses, Linked, Abandoned
  <1> DEFINE p == peers[b][s]
             q == [p EXCEPT !.dc = d]
  <1>3. p \in PeerConnection /\ Starts(p)
    BY <1>2 DEF TypeOK, PairInv, Starting
  <1>4. /\ q \in PeerConnection
        /\ q.far = p.far /\ q.chain = p.chain /\ q.signalingState = p.signalingState
    BY <1>3 DEF PeerConnection
  <1>5. peers' = [peers EXCEPT ![b][s] = q]
    BY <1>1 DEF TypeOK
  <1>6. /\ UNCHANGED <<ids, used, members, announcing>> /\ missed' = missed /\ inbox' = inbox
    BY <1>1 DEF server
  <1> HIDE DEF q
  <1>7. Retains(p, q, {})
    BY <1>3, <1>4 DEF Retains, Starts, Rests
  <1>8. Brings(b, {})
    BY <1>6, SilentBrings
  <1>9. q # None /\ q \in PeerConnection \cup {None}
    BY <1>4
  <1>10. OneGoes(b, s, q, {})
    BY <1>2, <1>4, <1>5, <1>6, <1>7, <1>8, <1>9 DEF OneGoes
  <1> QED
    BY <1>9, <1>10, OneKeeps

\* A connection is given up.
LEMMA EndKeeps ==
  ASSUME TypeOK, MeshInv, PairInv, NEW b \in Browsers, NEW s \in Sessions,
         Disconnected(b, s) \/ LinkFails(b, s)
  PROVE  Starting' /\ Known' /\ Keeps
  <1> DEFINE p == peers[b][s]
             lost == Rests(p)
  <1>1. p # None
    BY DEF Disconnected, LinkFails, Abandoned
  <1>2. /\ peers' = [peers EXCEPT ![b][s] = None]
        /\ missed \subseteq missed' /\ \A r \in RestOf(b, p) : <<b, r>> \in missed'
    BY <1>1 DEF Disconnected, LinkFails, disconnectPeer
  <1>3. UNCHANGED <<ids, used, members, announcing>> /\ inbox' = inbox
    BY DEF Disconnected, LinkFails, server
  <1>4. Parting(b, s)
    BY DEF Disconnected, LinkFails, Abandoned, Parting
  <1>5. \A l \in lost : \A r \in Offerable(b, peers[b], l) : <<b, r>> \in missed'
    BY <1>2, RestOfRests
  <1>6. Brings(b, {})
    BY <1>3, SilentBrings
  <1>7. OneGoes(b, s, None, lost)
    BY <1>1, <1>2, <1>3, <1>4, <1>5, <1>6 DEF OneGoes
  <1> QED
    BY <1>7, OneKeeps

\* The server's peer-joined reaches every other member.
LEMMA AnnounceKeeps ==
  ASSUME TypeOK, MeshInv, PairInv, NEW s \in Sessions, Announce(s)
  PROVE  Starting' /\ Known' /\ Keeps
  <1> DEFINE m == [type |-> "peer-joined", id |-> s]
  <1>1. /\ Tell(members \ {s}, m) /\ announcing' = announcing \ {s}
        /\ UNCHANGED <<ids, used, members, peers, missed>>
        /\ s <= used /\ used \in Nat
    BY DEF Announce, TypeOK
  <1>2. m \in Message /\ m.type = "peer-joined" /\ m.id = s
    BY DEF Message
  <1> HIDE DEF m
  <1>3. ASSUME NEW c \in Browsers
        PROVE  /\ \A e \in Elements(inbox[c]) : e \in Elements(inbox'[c])
               /\ \A e \in Elements(inbox'[c]) : e \in Elements(inbox[c]) \/ e = m
               /\ sid[c] \in members \ {s} => m \in Elements(inbox'[c])
    <2>1. /\ sid[c] \in members \ {s} => Elements(inbox'[c]) = Elements(inbox[c]) \cup {m}
          /\ sid[c] \notin members \ {s} => inbox'[c] = inbox[c]
      BY <1>1, <1>2, TellElements
    <2> QED
      BY <2>1
  <1>4. Starting'
    BY <1>1 DEF PairInv, Starting, Starts
  <1>5. Known'
    <2>1. \A c \in Browsers, t \in Sessions : peers'[c][t] # None =>
            t <= used' /\ \A l \in Rests(peers'[c][t]) : l \subseteq 1..used'
      BY <1>1 DEF PairInv, Known
    <2>2. \A c \in Browsers : \A e \in Elements(inbox'[c]) :
            /\ e.type = "room-peers" => e.peers \subseteq 1..used'
            /\ e.type = "peer-joined" => e.id <= used'
            /\ e.type = "peer-left" => e.id <= used' /\ e.id \notin members'
      BY <1>1, <1>2, <1>3 DEF PairInv, Known
    <2> QED
      BY <2>1, <2>2 DEF Known, Rests
  <1>6. ASSUME NEW c \in Browsers, NEW t \in Sessions, Sought(c, t)
        PROVE  Sought(c, t)'
    <2>1. CASE \E e \in Elements(inbox[c]) : e.type = "offer" /\ e.from = t
      BY <1>3, <2>1 DEF Sought
    <2>2. CASE /\ peers[c][t] # None
               /\ \/ peers[c][t].far # None
                  \/ \E o \in Elements(peers[c][t].chain) : o.op = "setRemoteOffer"
      BY <1>1, <2>2 DEF Sought
    <2> QED
      BY <1>6, <2>1, <2>2 DEF Sought
  <1>7. ASSUME NEW c \in Browsers, NEW t \in Sessions, sid[c] \in members \ {t}, Pending(c, t)
        PROVE  Pending(c, t)'
    <2>1. CASE t \in announcing /\ t # s
      BY <1>1, <2>1 DEF Pending
    <2>2. CASE t = s
      BY <1>2, <1>3, <1>7, <2>2 DEF Pending
    <2>3. CASE \E e \in Elements(inbox[c]) :
                 (e.type = "room-peers" /\ t \in e.peers) \/ (e.type = "peer-joined" /\ e.id = t)
      BY <1>3, <2>3 DEF Pending
    <2>4. CASE \E u \in Sessions : peers[c][u] # None /\ \E l \in Rests(peers[c][u]) : t \in l
      BY <1>1, <2>4 DEF Pending
    <2> QED
      BY <1>7, <2>1, <2>2, <2>3, <2>4 DEF Pending
  <1> QED
    BY <1>1, <1>4, <1>5, <1>6, <1>7 DEF Keeps

------------------------------------------------------------------------------
(* Every step keeps what a pair relies on *)

\* Both of a pair are in the room, under websockets of their own.
LEMMA PairSessions ==
  ASSUME TypeOK, MeshInv, NEW a \in Browsers, NEW b \in Browsers, Pair(a, b)
  PROVE  /\ sid[a] \in Sessions /\ sid[b] \in Sessions /\ sid[a] # sid[b]
         /\ sid[a] \in members /\ sid[b] \in members /\ Pair(b, a)
  <1>1. sid[a] \in Sessions /\ sid[b] \in Sessions
    <2>1. sid[a] \in 0..MaxSessions /\ sid[b] \in 0..MaxSessions
      BY DEF TypeOK
    <2>2. sid[a] # 0 /\ sid[b] # 0
      BY DEF Pair
    <2> QED
      BY <2>1, <2>2 DEF Sessions
  <1>2. sid[a] # sid[b] /\ sid[a] \in members /\ sid[b] \in members
    BY DEF MeshInv, Sockets, Pair
  <1> QED
    BY <1>1, <1>2 DEF Pair

\* What one of a pair knows is the other's connection to it.
LEMMA PairKnows ==
  ASSUME TypeOK, MeshInv, PairInv, NEW a \in Browsers, NEW b \in Browsers, Pair(a, b),
         NEW n \in Ids, Knows(a, sid[b], n)
  PROVE  /\ n[1] = b /\ n[2] = sid[a]
         /\ peers[b][sid[a]] # None /\ peers[b][sid[a]].pc = n
  <1>1. sid[b] \in Sessions
    BY PairSessions
  <1>2. n[1] = b
    <2>1. PICK s \in Sessions : s = sid[b]
      BY <1>1
    <2>2. Knows(a, s, n)
      BY <2>1
    <2>3. \A d \in Browsers : (sid[d] = s => d = n[1]) /\ (sid[d] = n[2] => d = a)
      BY <2>2 DEF MeshInv, References
    <2> QED
      BY <2>1, <2>3
  <1>3. Lives(n) /\ n[2] = sid[a]
    BY DEF PairInv, Living
  <1> QED
    BY <1>2, <1>3 DEF Lives

\* The connections of two that are a pair after the step have not ended with it.
LEMMA PairStays ==
  ASSUME TypeOK, MeshInv, PairInv, Keeps, sid' = sid,
         NEW a \in Browsers, NEW b \in Browsers, Pair(a, b)'
  PROVE  /\ Pair(a, b)
         /\ peers[a][sid[b]] # None => peers'[a][sid[b]] # None
         /\ peers[b][sid[a]] # None => peers'[b][sid[a]] # None
  <1>1. Pair(a, b) /\ <<a, sid[b]>> \notin missed' /\ <<b, sid[a]>> \notin missed'
    BY DEF Pair, Keeps
  <1>2. ASSUME NEW c \in Browsers, NEW d \in Browsers, Pair(c, d), <<c, sid[d]>> \notin missed',
               peers[c][sid[d]] # None
        PROVE  peers'[c][sid[d]] # None
    <2> SUFFICES ASSUME peers'[c][sid[d]] = None PROVE FALSE
      OBVIOUS
    <2> DEFINE p == peers[c][sid[d]]
    <2>1. sid[d] \in Sessions /\ sid[d] \in members
      BY <1>2, PairSessions
    <2>2. Parting(c, sid[d])
      BY <1>2, <2>1 DEF Keeps
    <2>3. p.far # None /\ ~Exists(p.far)
      BY <1>2, <2>1, <2>2 DEF Parting
    <2>4. p.far \in Ids
      BY <1>2, <2>1, <2>3 DEF TypeOK, PeerConnection
    <2>5. Knows(c, sid[d], p.far)
      BY <1>2 DEF Knows
    <2>6. peers[d][sid[c]] # None /\ peers[d][sid[c]].pc = p.far /\ sid[c] \in Sessions
      BY <1>2, <2>4, <2>5, PairKnows, PairSessions
    <2> QED
      BY <2>3, <2>6 DEF Exists
  <1>3. Pair(b, a)
    BY <1>1 DEF Pair
  <1> QED
    BY <1>1, <1>2, <1>3

\* A step of the browsers, or an announcement.
LEMMA KeepsPairs ==
  ASSUME TypeOK, TypeOK', MeshInv, PairInv, Moves, Messages, Keeps,
         UNCHANGED <<ids, sid, members, used>>
  PROVE  Living' /\ Told' /\ Bidding'
  <1>1. \A a, b \in Browsers : Pair(a, b)' =>
          /\ Pair(a, b) /\ <<a, sid[b]>> \notin missed' /\ <<b, sid[a]>> \notin missed'
          /\ peers[a][sid[b]] # None => peers'[a][sid[b]] # None
          /\ peers[b][sid[a]] # None => peers'[b][sid[a]] # None
    BY PairStays DEF Pair
  <1>2. ASSUME NEW n \in Ids, Lives(n), peers'[n[1]][n[2]] # None
        PROVE  Lives(n)'
    <2>1. n[1] \in Browsers /\ n[2] \in Sessions
      BY IdParts
    <2> QED
      BY <1>2, <2>1 DEF Lives, Moves, Stays, Ends, Begins, GoesOn, Advances
  <1>3. ASSUME NEW a \in Browsers, NEW b \in Browsers, NEW n \in Ids,
               Pair(a, b)', Knows(a, sid[b], n)'
        PROVE  Lives(n)' /\ n[2] = sid'[a]
    <2> DEFINE s == sid[b]
    <2>1. Pair(a, b) /\ s \in Sessions
      BY <1>1, <1>3, PairSessions
    <2>2. PICK t \in Sessions : t = s
      BY <2>1
    <2>3. Knows(a, t, n)'
      BY <1>3, <2>2 DEF Knows, Offered, Answered
    <2>4. \/ Knows(a, t, n)
          \/ Sent(a, [type |-> "offer", from |-> t, pc |-> n], "offer")
          \/ Sent(a, [type |-> "answer", from |-> t, pc |-> n], "answer")
      BY <2>3, MovesKnows DEF Knows
    <2>5. CASE Knows(a, t, n)
      <3>1. /\ n[1] = b /\ n[2] = sid[a]
            /\ peers[b][sid[a]] # None /\ peers[b][sid[a]].pc = n
        BY <2>1, <2>2, <2>5, PairKnows
      <3>2. peers'[n[1]][n[2]] # None
        BY <1>1, <1>3, <3>1
      <3>3. Lives(n)
        BY <3>1 DEF Lives
      <3> QED
        BY <1>2, <3>1, <3>2, <3>3
    <2>6. ASSUME NEW k \in {"offer", "answer"}, Sent(a, [type |-> k, from |-> t, pc |-> n], k)
          PROVE  Lives(n)' /\ n[2] = sid'[a]
      <3>1. Lives(n) /\ sid[a] = n[2] /\ peers'[n[1]][n[2]] # None
        BY <2>6, SentFacts
      <3> QED
        BY <1>2, <3>1
    <2> QED
      BY <2>4, <2>5, <2>6
  <1>4. ASSUME NEW a \in Browsers, NEW b \in Browsers, Pair(a, b)', shouldInitiate(a, sid[b])
        PROVE  peers'[a][sid[b]] # None \/ Pending(a, sid[b])'
    <2>1. Pair(a, b) /\ sid[a] \in members \ {sid[b]} /\ sid[b] \in Sessions
      BY <1>1, <1>4, PairSessions
    <2>2. peers[a][sid[b]] # None \/ Pending(a, sid[b])
      BY <1>4, <2>1 DEF PairInv, Told
    <2>3. PICK s \in Sessions : s = sid[b]
      BY <2>1
    <2>4. ASSUME peers[a][s] = None
          PROVE  peers'[a][s] # None \/ Pending(a, s)'
      <3>1. <<a, s>> \notin missed'
        BY <1>1, <1>4, <2>3
      <3>2. Pending(a, s)' \/ peers'[a][s] # None \/ <<a, s>> \in missed'
        BY <1>4, <2>1, <2>2, <2>3, <2>4 DEF Keeps
      <3> QED
        BY <3>1, <3>2
    <2>5. peers[a][s] # None => peers'[a][s] # None
      BY <1>1, <1>4, <2>3
    <2>6. Pending(a, s)' => Pending(a, sid[b])'
      BY <2>3 DEF Pending
    <2> QED
      BY <2>3, <2>4, <2>5, <2>6
  <1>5. ASSUME NEW a \in Browsers, NEW b \in Browsers, Pair(a, b)', ~shouldInitiate(b, sid[a]),
               peers'[a][sid[b]] # None, peers'[a][sid[b]].signalingState = "have-local-offer"
        PROVE  Sought(b, sid[a])'
    <2>1. Pair(a, b) /\ sid[a] \in Sessions /\ sid[b] \in Sessions
      BY <1>1, <1>5, PairSessions
    <2>2. PICK s \in Sessions, r \in Sessions : s = sid[b] /\ r = sid[a]
      BY <2>1
    <2>3. \/ peers[a][s] # None /\ peers[a][s].signalingState = "have-local-offer"
          \/ Sought(b, r)'
      BY <1>5, <2>2 DEF Keeps
    <2>4. ASSUME peers[a][s] # None, peers[a][s].signalingState = "have-local-offer"
          PROVE  Sought(b, r)'
      <3>1. Sought(b, r)
        BY <1>5, <2>1, <2>2, <2>4 DEF PairInv, Bidding
      <3>2. Sought(b, r)' \/ (peers[b][r] # None /\ peers'[b][r] = None)
        BY <1>5, <2>2, <3>1 DEF Keeps
      <3> QED
        BY <1>1, <1>5, <2>2, <3>2
    <2>5. Sought(b, r)' => Sought(b, sid[a])'
      BY <2>2 DEF Sought
    <2> QED
      BY <2>3, <2>4, <2>5
  <1>7. Living'
    BY <1>3 DEF Living
  <1>8. Told'
    <2>1. \A a, b \in Browsers : shouldInitiate(a, sid[b])' => shouldInitiate(a, sid[b])
      BY DEF shouldInitiate
    <2>2. \A a, b \in Browsers : Pair(a, b)' /\ shouldInitiate(a, sid[b])' =>
            peers'[a][sid'[b]] # None \/ Pending(a, sid[b])'
      BY <1>4, <2>1
    <2> QED
      BY <2>2 DEF Told
  <1>9. Bidding'
    <2>1. \A a, b \in Browsers : shouldInitiate(b, sid[a]) => shouldInitiate(b, sid[a])'
      BY DEF shouldInitiate
    <2>2. \A a, b \in Browsers :
            /\ Pair(a, b)' /\ ~shouldInitiate(b, sid[a])'
            /\ peers'[a][sid'[b]] # None /\ peers'[a][sid'[b]].signalingState = "have-local-offer"
            => Sought(b, sid[a])'
      BY <1>5, <2>1
    <2> QED
      BY <2>2 DEF Bidding
  <1> QED
    BY <1>7, <1>8, <1>9

\* A step that is not theirs, but gives or takes b a websocket, leaves the others as they were.
Others(b) ==
  /\ \A c \in Browsers : c # b =>
       peers'[c] = peers[c] /\ inbox'[c] = inbox[c] /\ sid'[c] = sid[c]
  /\ ids' = ids /\ announcing \subseteq announcing' /\ missed \subseteq missed'

\* ... so what two of them rely on stays.
LEMMA OthersKeep ==
  ASSUME TypeOK, MeshInv, PairInv, NEW b \in Browsers, Others(b),
         NEW a \in Browsers, NEW c \in Browsers, a # b, c # b, Pair(a, c)'
  PROVE  /\ \A n \in Ids : Knows(a, sid[c], n)' => Lives(n)' /\ n[2] = sid'[a]
         /\ shouldInitiate(a, sid[c])' => peers'[a][sid'[c]] # None \/ Pending(a, sid[c])'
         /\ /\ ~shouldInitiate(c, sid[a])'
            /\ peers'[a][sid'[c]] # None /\ peers'[a][sid'[c]].signalingState = "have-local-offer"
            => Sought(c, sid[a])'
  <1>1. /\ peers'[a] = peers[a] /\ inbox'[a] = inbox[a] /\ sid'[a] = sid[a]
        /\ peers'[c] = peers[c] /\ inbox'[c] = inbox[c] /\ sid'[c] = sid[c]
        /\ ids' = ids /\ announcing \subseteq announcing' /\ missed \subseteq missed'
    BY DEF Others
  <1>2. Pair(a, c)
    BY <1>1 DEF Pair
  <1>3. ASSUME NEW n \in Ids, Knows(a, sid[c], n)'
        PROVE  Lives(n)' /\ n[2] = sid'[a]
    <2>1. Knows(a, sid[c], n)
      BY <1>1, <1>3 DEF Knows, Offered, Answered
    <2>2. /\ n[1] = c /\ n[2] = sid[a]
          /\ peers[c][sid[a]] # None /\ peers[c][sid[a]].pc = n
      BY <1>2, <2>1, PairKnows
    <2> QED
      BY <1>1, <2>2 DEF Lives
  <1>4. ASSUME shouldInitiate(a, sid[c])'
        PROVE  peers'[a][sid'[c]] # None \/ Pending(a, sid[c])'
    <2>1. shouldInitiate(a, sid[c])
      BY <1>1, <1>4 DEF shouldInitiate
    <2>2. peers[a][sid[c]] # None \/ Pending(a, sid[c])
      BY <1>2, <2>1 DEF PairInv, Told
    <2> QED
      BY <1>1, <2>2 DEF Pending
  <1>5. ASSUME ~shouldInitiate(c, sid[a])', peers'[a][sid'[c]] # None,
               peers'[a][sid'[c]].signalingState = "have-local-offer"
        PROVE  Sought(c, sid[a])'
    <2>1. ~shouldInitiate(c, sid[a])
      BY <1>1, <1>5 DEF shouldInitiate
    <2>2. Sought(c, sid[a])
      BY <1>1, <1>2, <1>5, <2>1 DEF PairInv, Bidding
    <2> QED
      BY <1>1, <2>2 DEF Sought
  <1> QED
    BY <1>3, <1>4, <1>5

\* A new websocket, of which nobody has heard; what its browser had from before is missed.
LEMMA JoinPairs ==
  ASSUME TypeOK, TypeOK', MeshInv, PairInv, NEW b \in Browsers, NEW s \in Sessions, Join(b, s)
  PROVE  PairInv'
  <1> DEFINE m == [type |-> "room-peers", peers |-> members]
  <1>1. /\ s = used + 1 /\ used' = s /\ used \in Nat /\ ids' = ids
        /\ members' = members \cup {s} /\ members \subseteq 1..used /\ sid[b] = 0
        /\ announcing' = announcing \cup {s}
    BY DEF Join, TypeOK
  <1>2. sid'[b] = s /\ \A c \in Browsers : c # b => sid'[c] = sid[c]
    BY DEF Join, TypeOK
  <1>3. Elements(inbox'[b]) = {m} /\ \A c \in Browsers : c # b => inbox'[c] = inbox[c]
    <2>1. inbox' = [inbox EXCEPT ![b] = Append(inbox[b], m)]
      BY DEF TypeOK, Join
    <2>2. inbox[b] = <<>>
      BY <1>1 DEF MeshInv, Sockets
    <2>3. Elements(Append(<<>>, m)) = {m}
      BY DEF Elements
    <2> HIDE DEF m
    <2> QED
      BY <2>1, <2>2, <2>3 DEF TypeOK
  <1>4. m.type = "room-peers" /\ m.peers = members
    OBVIOUS
  <1> HIDE DEF m
  <1>5. /\ missed \subseteq missed'
        /\ \A c \in Browsers : c # b => peers'[c] = peers[c]
        /\ \A t \in Sessions : peers'[b][t] # None =>
             peers'[b][t] = peers[b][t] /\ <<b, t>> \in missed'
    <2>1. CASE HasOpenDataChannel(b)
      <3>1. peers' = [peers EXCEPT ![b] = NoPeers] /\ missed' = missed
        BY <2>1 DEF Join
      <3> QED
        BY <3>1 DEF TypeOK, NoPeers
    <2>2. CASE ~HasOpenDataChannel(b)
      <3>1. /\ missed' = missed \cup {<<b, r>> : r \in {q \in Sessions : peers[b][q] # None}}
            /\ peers' = peers
        BY <2>2 DEF Join
      <3> QED
        BY <3>1
    <2> QED
      BY <2>1, <2>2
  <1>6. Others(b)
    BY <1>1, <1>2, <1>3, <1>5 DEF Others
  <1>7. \A c \in Browsers : peers[c][s] = None
    BY <1>1 DEF PairInv, Known
  <1>8. Starting'
    <2> SUFFICES ASSUME NEW c \in Browsers, NEW t \in Sessions, peers'[c][t] # None
                 PROVE  Starts(peers'[c][t])
      BY DEF Starting, Starts
    <2>1. peers'[c][t] = peers[c][t]
      BY <1>5
    <2>2. peers[c][t] # None => Starts(peers[c][t])
      BY DEF PairInv, Starting
    <2> QED
      BY <2>1, <2>2
  <1>9. Known'
    <2>1. \A c \in Browsers, t \in Sessions : peers'[c][t] # None => peers'[c][t] = peers[c][t]
      BY <1>5
    <2>2. \A c \in Browsers, t \in Sessions : peers'[c][t] # None =>
            t <= used' /\ \A l \in Rests(peers'[c][t]) : l \subseteq 1..used'
      <3> SUFFICES ASSUME NEW c \in Browsers, NEW t \in Sessions, peers'[c][t] # None
                   PROVE  t <= used' /\ \A l \in Rests(peers'[c][t]) : l \subseteq 1..used'
        OBVIOUS
      <3>1. t <= used /\ \A l \in Rests(peers'[c][t]) : l \subseteq 1..used
        BY <2>1 DEF PairInv, Known
      <3>2. used <= used' /\ 1..used \subseteq 1..used'
        BY <1>1
      <3>3. t <= used'
        BY <1>1, <3>1, <3>2 DEF Sessions
      <3> QED
        BY <3>1, <3>2, <3>3
    <2>3. \A c \in Browsers : \A e \in Elements(inbox'[c]) :
            /\ e.type = "room-peers" => e.peers \subseteq 1..used'
            /\ e.type = "peer-joined" => e.id <= used'
            /\ e.type = "peer-left" => e.id <= used' /\ e.id \notin members'
      <3> SUFFICES ASSUME NEW c \in Browsers, NEW e \in Elements(inbox'[c])
                   PROVE  /\ e.type = "room-peers" => e.peers \subseteq 1..used'
                          /\ e.type = "peer-joined" => e.id <= used'
                          /\ e.type = "peer-left" => e.id <= used' /\ e.id \notin members'
        OBVIOUS
      <3>1. CASE c = b
        BY <1>1, <1>3, <1>4, <3>1
      <3>2. CASE c # b
        <4>1. e \in Elements(inbox[c])
          BY <1>3, <3>2
        <4>2. /\ e.type = "room-peers" => e.peers \subseteq 1..used
              /\ e.type = "peer-joined" => e.id <= used
              /\ e.type = "peer-left" => e.id <= used /\ e.id \notin members
          BY <4>1 DEF PairInv, Known
        <4>3. e \in Message
          <5> DEFINE q == inbox[c]
          <5>1. q \in Seq(Message) /\ e \in Elements(q)
            BY <4>1 DEF TypeOK
          <5> HIDE DEF q
          <5> QED
            BY <5>1 DEF Elements
        <4>4. e.type \in {"peer-joined", "peer-left"} => e.id \in Nat
          BY <4>3, MessageKinds DEF Sessions
        <4> QED
          BY <1>1, <4>2, <4>4
      <3> QED
        BY <3>1, <3>2
    <2> QED
      BY <2>2, <2>3 DEF Known, Rests
  <1>10. ASSUME NEW a \in Browsers, Pair(b, a)'
         PROVE  peers'[b][sid'[a]] = None /\ sid'[a] = sid[a] /\ sid[a] \in members /\ a # b
    <2>1. a # b /\ sid'[a] # 0 /\ <<b, sid'[a]>> \notin missed'
      BY <1>10 DEF Pair
    <2>2. sid'[a] = sid[a]
      BY <1>2, <2>1
    <2>3. sid[a] \in members
      BY <2>1, <2>2 DEF MeshInv, Sockets
    <2>4. sid'[a] \in Sessions
      BY <2>2, <2>3 DEF TypeOK, Sessions
    <2>5. peers'[b][sid'[a]] = None
      BY <1>5, <2>1, <2>4
    <2> QED
      BY <2>1, <2>2, <2>3, <2>5
  <1>11. ASSUME NEW a \in Browsers, NEW n \in Ids, Pair(a, b)'
         PROVE  ~Knows(a, sid[b], n)'
    <2>1. a # b
      BY <1>11 DEF Pair
    <2>2. peers'[a] = peers[a] /\ inbox'[a] = inbox[a]
      BY <1>3, <1>5, <2>1
    <2>3. Knows(a, sid[b], n)' => Knows(a, s, n)
      BY <1>2, <2>2 DEF Knows, Offered, Answered
    <2>4. Knows(a, s, n) => s <= used
      BY DEF MeshInv, References
    <2> QED
      BY <1>1, <1>2, <1>7, <2>2, <2>3, <2>4
  <1>12. ASSUME NEW a \in Browsers, Pair(a, b)'
         PROVE  peers'[a][sid'[b]] = None /\ s \in announcing'
    <2>1. a # b
      BY <1>12 DEF Pair
    <2> QED
      BY <1>1, <1>2, <1>5, <1>7, <2>1
  <1>13. ASSUME NEW a \in Browsers, NEW c \in Browsers, NEW n \in Ids,
                Pair(a, c)', Knows(a, sid[c], n)'
         PROVE  Lives(n)' /\ n[2] = sid'[a]
    <2>1. CASE c = b
      BY <1>11, <1>13, <2>1
    <2>2. CASE a = b
      <3>1. peers'[b][sid'[c]] = None
        BY <1>10, <1>13, <2>2
      <3>2. \A e \in Elements(inbox'[b]) : e.type = "room-peers"
        BY <1>3, <1>4
      <3>3. \A t \in {"offer", "answer"} : [type |-> t, from |-> sid'[c], pc |-> n].type = t
        OBVIOUS
      <3>4. \A t \in {"offer", "answer"} :
              [type |-> t, from |-> sid'[c], pc |-> n] \notin Elements(inbox'[b])
        BY <3>2, <3>3
      <3>5. ~Knows(b, sid[c], n)'
        BY <3>1, <3>4 DEF Knows, Offered, Answered
      <3> QED
        BY <1>13, <2>2, <3>5
    <2>3. CASE a # b /\ c # b
      BY <1>6, <1>13, <2>3, OthersKeep
    <2> QED
      BY <2>1, <2>2, <2>3
  <1>14. ASSUME NEW a \in Browsers, NEW c \in Browsers,
                Pair(a, c)', shouldInitiate(a, sid[c])'
         PROVE  peers'[a][sid'[c]] # None \/ Pending(a, sid[c])'
    <2>1. CASE c = b
      <3>1. s \in announcing'
        BY <1>12, <1>14, <2>1
      <3> QED
        BY <1>2, <2>1, <3>1 DEF Pending
    <2>2. CASE a = b
      <3>1. sid'[c] = sid[c] /\ sid[c] \in members
        BY <1>10, <1>14, <2>2
      <3>2. m \in Elements(inbox'[b]) /\ sid'[c] \in m.peers
        BY <1>3, <1>4, <3>1
      <3> QED
        BY <1>4, <2>2, <3>2 DEF Pending
    <2>3. CASE a # b /\ c # b
      BY <1>6, <1>14, <2>3, OthersKeep
    <2> QED
      BY <2>1, <2>2, <2>3
  <1>15. ASSUME NEW a \in Browsers, NEW c \in Browsers, Pair(a, c)', ~shouldInitiate(c, sid[a])',
                peers'[a][sid'[c]] # None, peers'[a][sid'[c]].signalingState = "have-local-offer"
         PROVE  Sought(c, sid[a])'
    <2>1. CASE c = b
      BY <1>12, <1>15, <2>1
    <2>2. CASE a = b
      BY <1>10, <1>15, <2>2
    <2>3. CASE a # b /\ c # b
      BY <1>6, <1>15, <2>3, OthersKeep
    <2> QED
      BY <2>1, <2>2, <2>3
  <1>16. Living'
    BY <1>13 DEF Living
  <1>17. Told'
    BY <1>14 DEF Told
  <1>18. Bidding'
    BY <1>15 DEF Bidding
  <1> QED
    BY <1>8, <1>9, <1>16, <1>17, <1>18 DEF PairInv

\* A browser without a websocket is one of no pair.
LEMMA DropPairs ==
  ASSUME TypeOK, TypeOK', MeshInv, PairInv, NEW b \in Browsers, SocketDrops(b) \/ cleanupMesh(b)
  PROVE  PairInv'
  <1>1. /\ sid' = [sid EXCEPT ![b] = 0] /\ inbox' = [inbox EXCEPT ![b] = <<>>]
        /\ UNCHANGED <<ids, used, members, announcing, missed>>
    BY DEF SocketDrops, cleanupMesh, server
  <1>2. /\ sid'[b] = 0 /\ \A c \in Browsers : c # b => sid'[c] = sid[c]
        /\ inbox'[b] = <<>> /\ \A c \in Browsers : c # b => inbox'[c] = inbox[c]
    BY <1>1 DEF TypeOK
  <1>3. /\ \A c \in Browsers : c # b => peers'[c] = peers[c]
        /\ \A t \in Sessions : peers'[b][t] # None => peers'[b][t] = peers[b][t]
    <2>1. CASE peers' = peers
      BY <2>1
    <2>2. CASE peers' = [peers EXCEPT ![b] = NoPeers]
      BY <2>2 DEF TypeOK, NoPeers
    <2> QED
      BY <2>1, <2>2 DEF SocketDrops, cleanupMesh
  <1>4. Others(b)
    BY <1>1, <1>2, <1>3 DEF Others
  <1>5. Elements(inbox'[b]) = {}
    BY <1>2 DEF Elements
  <1>6. Starting'
    BY <1>3 DEF PairInv, Starting, Starts
  <1>7. Known'
    <2>1. \A c \in Browsers, t \in Sessions : peers'[c][t] # None => peers'[c][t] = peers[c][t]
      BY <1>3
    <2>2. \A c \in Browsers, t \in Sessions : peers'[c][t] # None =>
            t <= used' /\ \A l \in Rests(peers'[c][t]) : l \subseteq 1..used'
      BY <1>1, <2>1 DEF PairInv, Known
    <2>3. \A c \in Browsers : \A e \in Elements(inbox'[c]) : e \in Elements(inbox[c])
      BY <1>2, <1>5
    <2>4. \A c \in Browsers : \A e \in Elements(inbox'[c]) :
            /\ e.type = "room-peers" => e.peers \subseteq 1..used'
            /\ e.type = "peer-joined" => e.id <= used'
            /\ e.type = "peer-left" => e.id <= used' /\ e.id \notin members'
      BY <1>1, <2>3 DEF PairInv, Known
    <2> QED
      BY <2>2, <2>4 DEF Known, Rests
  <1>8. \A a, c \in Browsers : Pair(a, c)' => a # b /\ c # b
    BY <1>2 DEF Pair
  <1>9. Living'
    BY <1>4, <1>8, OthersKeep DEF Living
  <1>10. Told'
    BY <1>4, <1>8, OthersKeep DEF Told
  <1>11. Bidding'
    BY <1>4, <1>8, OthersKeep DEF Bidding
  <1> QED
    BY <1>6, <1>7, <1>9, <1>10, <1>11 DEF PairInv

\* The server's peer-left tells of a websocket that nobody has.
LEMMA DepartPairs ==
  ASSUME TypeOK, MeshInv, PairInv, NEW s \in Sessions, Depart(s)
  PROVE  PairInv'
  <1> DEFINE m == [type |-> "peer-left", id |-> s]
  <1>1. /\ Tell(members, m) /\ members' = members \ {s} /\ s \in members /\ s <= used
        /\ UNCHANGED <<ids, sid, used, announcing, peers, missed>>
    BY DEF Depart, Departed, TypeOK
  <1>2. m \in Message /\ m.type = "peer-left" /\ m.id = s
    BY DEF Message
  <1> HIDE DEF m
  <1>3. \A c \in Browsers :
          /\ \A e \in Elements(inbox[c]) : e \in Elements(inbox'[c])
          /\ \A e \in Elements(inbox'[c]) : e \in Elements(inbox[c]) \/ e = m
    <2> SUFFICES ASSUME NEW c \in Browsers
                 PROVE  /\ \A e \in Elements(inbox[c]) : e \in Elements(inbox'[c])
                        /\ \A e \in Elements(inbox'[c]) : e \in Elements(inbox[c]) \/ e = m
      OBVIOUS
    <2>1. /\ sid[c] \in members => Elements(inbox'[c]) = Elements(inbox[c]) \cup {m}
          /\ sid[c] \notin members => inbox'[c] = inbox[c]
      BY <1>1, <1>2, TellElements
    <2> QED
      BY <2>1
  <1>4. Starting'
    BY <1>1 DEF PairInv, Starting, Starts
  <1>5. Known'
    <2>1. \A c \in Browsers, t \in Sessions : peers'[c][t] # None =>
            t <= used' /\ \A l \in Rests(peers'[c][t]) : l \subseteq 1..used'
      BY <1>1 DEF PairInv, Known
    <2>2. \A c \in Browsers : \A e \in Elements(inbox'[c]) :
            /\ e.type = "room-peers" => e.peers \subseteq 1..used'
            /\ e.type = "peer-joined" => e.id <= used'
            /\ e.type = "peer-left" => e.id <= used' /\ e.id \notin members'
      BY <1>1, <1>2, <1>3 DEF PairInv, Known
    <2> QED
      BY <2>1, <2>2 DEF Known, Rests
  <1>6. \A a, c \in Browsers : Pair(a, c)' => Pair(a, c)
    BY <1>1 DEF Pair
  <1>7. Living'
    <2> SUFFICES ASSUME NEW a \in Browsers, NEW c \in Browsers, NEW n \in Ids,
                        Pair(a, c)', Knows(a, sid[c], n)'
                 PROVE  Lives(n)' /\ n[2] = sid'[a]
      BY DEF Living
    <2>1. \A t \in {"offer", "answer"} : [type |-> t, from |-> sid[c], pc |-> n].type = t
      OBVIOUS
    <2>2. \A t \in {"offer", "answer"} :
            [type |-> t, from |-> sid[c], pc |-> n] \in Elements(inbox'[a]) =>
              [type |-> t, from |-> sid[c], pc |-> n] \in Elements(inbox[a])
      BY <1>2, <1>3, <2>1
    <2>3. Knows(a, sid[c], n)
      BY <1>1, <2>2 DEF Knows, Offered, Answered
    <2>4. Lives(n) /\ n[2] = sid[a]
      BY <1>6, <2>3 DEF PairInv, Living
    <2> QED
      BY <1>1, <2>4 DEF Lives
  <1>8. Told'
    <2> SUFFICES ASSUME NEW a \in Browsers, NEW c \in Browsers,
                        Pair(a, c)', shouldInitiate(a, sid[c])'
                 PROVE  peers'[a][sid'[c]] # None \/ Pending(a, sid[c])'
      BY DEF Told
    <2>1. shouldInitiate(a, sid[c])
      BY <1>1 DEF shouldInitiate
    <2>2. peers[a][sid[c]] # None \/ Pending(a, sid[c])
      BY <1>6, <2>1 DEF PairInv, Told
    <2> QED
      BY <1>1, <1>3, <2>2 DEF Pending
  <1>9. Bidding'
    <2> SUFFICES ASSUME NEW a \in Browsers, NEW c \in Browsers,
                        Pair(a, c)', ~shouldInitiate(c, sid[a])', peers'[a][sid'[c]] # None,
                        peers'[a][sid'[c]].signalingState = "have-local-offer"
                 PROVE  Sought(c, sid[a])'
      BY DEF Bidding
    <2>1. ~shouldInitiate(c, sid[a])
      BY <1>1 DEF shouldInitiate
    <2>2. Sought(c, sid[a])
      BY <1>1, <1>6, <2>1 DEF PairInv, Bidding
    <2> QED
      BY <1>1, <1>3, <2>2 DEF Sought
  <1> QED
    BY <1>4, <1>5, <1>7, <1>8, <1>9 DEF PairInv

\* It holds of browsers that have done nothing.
LEMMA InitPairs == Init => PairInv
  <1> SUFFICES ASSUME Init PROVE PairInv
    OBVIOUS
  <1>1. \A b \in Browsers, s \in Sessions : peers[b][s] = None
    BY DEF Init, NoPeers
  <1>2. \A b \in Browsers : sid[b] = 0 /\ Elements(inbox[b]) = {}
    BY DEF Init, Elements
  <1>3. Starting /\ Known
    BY <1>1, <1>2 DEF Starting, Known
  <1>4. Living /\ Told /\ Bidding
    BY <1>2 DEF Living, Told, Bidding, Pair
  <1> QED
    BY <1>3, <1>4 DEF PairInv

\* Every step of the system keeps it.
LEMMA StepPairs ==
  ASSUME TypeOK, MeshInv, PairInv, [Next]_vars
  PROVE  PairInv'
  <1>1. TypeOK'
    BY StepTypes
  <1>2. ASSUME Moves, Messages, UNCHANGED <<ids, sid, members, used>>,
               Starting' /\ Known' /\ Keeps
        PROVE  PairInv'
    <2>1. Living' /\ Told' /\ Bidding'
      BY <1>1, <1>2, KeepsPairs
    <2> QED
      BY <1>2, <2>1 DEF PairInv
  <1>3. CASE UNCHANGED vars
    <2>1. UNCHANGED <<ids, sid, used, members, announcing, inbox, peers, made, missed>>
      BY <1>3 DEF vars, server
    <2>2. Starting' /\ Known'
      BY <2>1 DEF PairInv, Starting, Known, Starts, Rests
    <2>3. Keeps
      BY <2>1 DEF Keeps, Sought, Pending
    <2>4. Moves
      BY <2>1, StaysMoves
    <2>5. Messages
      BY <2>1, SilentMessages
    <2> QED
      BY <1>2, <2>1, <2>2, <2>3, <2>4, <2>5
  <1>4. ASSUME NEW b \in Browsers, NEW s \in Sessions, Join(b, s)
        PROVE  PairInv'
    BY <1>1, <1>4, JoinPairs
  <1>5. ASSUME NEW b \in Browsers, SocketDrops(b) \/ cleanupMesh(b)
        PROVE  PairInv'
    BY <1>1, <1>5, DropPairs
  <1>6. ASSUME NEW s \in Sessions, Announce(s)
        PROVE  PairInv'
    <2>1. ids' = ids
      BY <1>6 DEF Announce
    <2> QED
      BY <1>2, <1>6, <2>1, AnnounceMoves, AnnounceKeeps
  <1>7. ASSUME NEW s \in Sessions, Depart(s)
        PROVE  PairInv'
    BY <1>7, DepartPairs
  <1>8. ASSUME NEW b \in Browsers, Handle(b)
        PROVE  PairInv'
    <2>1. ids' = ids
      BY <1>8 DEF Handle, ReceiveRoomPeers, ReceivePeerJoined, ReceivePeerLeft, handleOffer,
                  handleAnswer
    <2> QED
      BY <1>2, <1>8, <2>1, HandleMoves, HandleKeeps
  <1>9. ASSUME NEW b \in Browsers, NEW s \in Sessions, Operate(b, s)
        PROVE  PairInv'
    <2>1. ids' = ids
      BY <1>9 DEF Operate, CreateOffer, SetLocalOffer, SetLocalOfferFails, SetRemoteOffer,
                  CreateAnswer, SetLocalAnswer, SetRemoteAnswer
    <2> QED
      BY <1>2, <1>9, <2>1, OperateMoves, OperateKeeps
  <1>10. ASSUME NEW b \in Browsers, NEW s \in Sessions, ChannelOpens(b, s) \/ ChannelCloses(b, s)
         PROVE  PairInv'
    <2>1. ids' = ids
      BY <1>10 DEF ChannelOpens, ChannelCloses
    <2> QED
      BY <1>2, <1>10, <2>1, ChannelMoves, ChannelKeeps
  <1>11. ASSUME NEW b \in Browsers, NEW s \in Sessions, Disconnected(b, s) \/ LinkFails(b, s)
         PROVE  PairInv'
    <2>1. ids' = ids
      BY <1>11 DEF Disconnected, LinkFails
    <2> QED
      BY <1>2, <1>11, <2>1, EndMoves, EndKeeps
  <1> QED
    BY <1>3, <1>4, <1>5, <1>6, <1>7, <1>8, <1>9, <1>10, <1>11 DEF Next, ServerStep

\* Who is linked to another of a pair has its description in the other's connection.
LEMMA LinkFaces ==
  ASSUME TypeOK, MeshInv, PairInv, NEW a \in Browsers, NEW b \in Browsers, Pair(a, b),
         Linked(a, sid[b])
  PROVE  peers[b][sid[a]] # None /\ peers[b][sid[a]].far # None
  <1> DEFINE p == peers[a][sid[b]]
  <1>1. sid[a] \in Sessions /\ sid[b] \in Sessions
    BY PairSessions
  <1>2. p # None /\ p.far # None /\ Meets(p, p.far)
    BY DEF Linked
  <1>3. p.far \in Ids /\ p.pc \in Ids
    BY <1>1, <1>2 DEF TypeOK, PeerConnection
  <1>4. Knows(a, sid[b], p.far)
    BY <1>2 DEF Knows
  <1>5. peers[b][sid[a]] # None /\ peers[b][sid[a]].pc = p.far
    BY <1>3, <1>4, PairKnows
  <1>6. PICK d \in Browsers, r \in Sessions :
          peers[d][r] # None /\ peers[d][r].pc = p.far /\ peers[d][r].far = p.pc
    BY <1>2 DEF Meets
  <1>7. PICK k \in 1..made[d][r] : p.far = <<d, r, k>>
    BY <1>6 DEF MeshInv, Places
  <1>8. PICK j \in 1..made[b][sid[a]] : p.far = <<b, sid[a], j>>
    BY <1>1, <1>5 DEF MeshInv, Places
  <1>9. d = b /\ r = sid[a]
    BY <1>7, <1>8
  <1> QED
    BY <1>3, <1>5, <1>6, <1>9

\* At rest, one of a pair that makes the offer to the other, and not the other way, is linked.
LEMMA RestPairs ==
  ASSUME TypeOK, MeshInv, PairInv, Quiet, NEW a \in Browsers, NEW b \in Browsers, Pair(a, b),
         shouldInitiate(a, sid[b]), ~shouldInitiate(b, sid[a])
  PROVE  Linked(a, sid[b]) /\ Linked(b, sid[a])
  <1> DEFINE s == sid[b]
             r == sid[a]
             p == peers[a][s]
             q == peers[b][r]
  <1>1. /\ r \in Sessions /\ s \in Sessions /\ r \in members /\ s \in members
        /\ sid[a] # 0 /\ sid[b] # 0 /\ Pair(b, a)
    BY PairSessions DEF Pair
  <1>2. \A c \in Browsers : Elements(inbox[c]) = {}
    BY DEF Quiet, Elements
  <1>3. \A c \in Browsers, t \in Sessions :
          peers[c][t] # None => Elements(peers[c][t].chain) = {}
    BY DEF Quiet, Elements
  <1>4. p # None
    <2>1. \A c \in Browsers, t \in Sessions : peers[c][t] # None => Rests(peers[c][t]) = {}
      BY <1>3 DEF Rests
    <2>2. ~Pending(a, s)
      BY <1>2, <2>1 DEF Pending, Quiet
    <2> QED
      BY <2>2 DEF PairInv, Told
  <1>5. ASSUME NEW c \in Browsers, NEW t \in members, sid[c] # 0,
               peers[c][t] # None, peers[c][t].far # None
        PROVE  Linked(c, t)
    BY <1>5, RestLinks DEF NoHalfLinks
  <1>6. p.far # None
    <2> SUFFICES ASSUME p.far = None PROVE FALSE
      OBVIOUS
    <2>1. Negotiates(p) /\ Starts(p) /\ p \in PeerConnection
      BY <1>1, <1>4 DEF MeshInv, Negotiations, PairInv, Starting, TypeOK
    <2>2. p.signalingState = "have-local-offer"
      BY <1>1, <1>3, <1>4, <2>1 DEF Negotiates, Starts, PeerConnection
    <2>3. Sought(b, r)
      BY <1>4, <2>2 DEF PairInv, Bidding
    <2>4. q # None /\ q.far # None
      BY <1>1, <1>2, <1>3, <2>3 DEF Sought
    <2>5. Linked(b, r)
      BY <1>1, <1>5, <2>4
    <2> QED
      BY <1>1, <2>5, LinkFaces
  <1>7. Linked(a, s)
    BY <1>1, <1>4, <1>5, <1>6
  <1>8. q # None /\ q.far # None
    BY <1>7, LinkFaces
  <1>9. Linked(b, r)
    BY <1>1, <1>5, <1>8
  <1> QED
    BY <1>7, <1>9

\* However messages, handlers and rejoins interleave, when all is at rest two browsers of the
\* room, of which maybeInitiateOffer lets exactly one make the offer, are linked to each other,
\* unless a link failed, or an interrupted loop or an old connection kept one of the two from
\* offering to the other: for any number of browsers and websockets, and any ids.
THEOREM PairsLink == Spec => []AlignedPairsLink
  <1>1. TypeOK /\ MeshInv /\ PairInv => AlignedPairsLink
    <2> SUFFICES ASSUME TypeOK, MeshInv, PairInv, Quiet, NEW a \in Browsers, NEW b \in Browsers,
                        Together(a, b), Aligned(a, b),
                        <<a, sid[b]>> \notin missed, <<b, sid[a]>> \notin missed
                 PROVE  Linked(a, sid[b]) /\ Linked(b, sid[a])
      BY DEF AlignedPairsLink
    <2>1. Pair(a, b) /\ Pair(b, a)
      BY DEF Pair, Together
    <2>2. \/ shouldInitiate(a, sid[b]) /\ ~shouldInitiate(b, sid[a])
          \/ shouldInitiate(b, sid[a]) /\ ~shouldInitiate(a, sid[b])
      <3> DEFINE x == shouldInitiate(a, sid[b])
                 y == shouldInitiate(b, sid[a])
      <3>1. x \in BOOLEAN /\ y \in BOOLEAN
        BY SMT DEF shouldInitiate
      <3>2. x # y
        BY DEF Aligned
      <3> HIDE DEF x, y
      <3>3. (x /\ ~y) \/ (y /\ ~x)
        BY <3>1, <3>2, SMT
      <3> QED
        BY <3>3 DEF x, y
    <2> QED
      BY <2>1, <2>2, RestPairs
  <1>2. Init => TypeOK /\ MeshInv /\ PairInv
    BY InitInv, InitPairs
  <1>3. TypeOK /\ MeshInv /\ PairInv /\ [Next]_vars => (TypeOK /\ MeshInv /\ PairInv)'
    BY StepInv, StepPairs
  <1> QED
    BY <1>1, <1>2, <1>3, PTL DEF Spec
==============================================================================
