----------------------------- MODULE SwarmProofs -----------------------------
(***************************************************************************)
(* The safety of Swarm for every number of peers and pieces and every      *)
(* timeout.  Each property is a conjunct of SwarmInv or follows from it:   *)
(* assignments need Watched (the request an assignment was made during     *)
(* still has a timer, as old as it or older), and streams need OwedAreOpen *)
(* (a peer that opens again owes nothing).                                 *)
(***************************************************************************)
EXTENDS Swarm, FiniteSetTheorems, TLAPS

\* While a request waits one of its timers runs, and what was assigned during it is no
\* older than some timer.
Watched ==
  /\ waiting => timers # {}
  /\ \A i \in Pieces :
       assigned[i] # Free /\ assigned[i].during =>
         waiting /\ \E a \in timers : a >= assigned[i].age

OwedAreOpen == owed \subseteq open

SwarmInv ==
  /\ SwarmTypeOK
  /\ AssignedArePeers
  /\ Watched
  /\ OwedAreOpen
  /\ FailoverByStream
  /\ PlannedUnlessDropped

USE DEF picker, requests

\* Ages are numbers.
LEMMA AgesAreNumbers ==
  /\ MaxWait \in Nat /\ MaxAge \in Nat /\ ReassignAfter \in Nat
  /\ 0 \in 0..MaxAge /\ 0 \in 0..MaxWait
  /\ Pieces \subseteq Nat /\ Pieces # {} /\ IsFiniteSet(Pieces)
  <1>1. /\ NumPieces \in Nat /\ NumPieces > 0
        /\ P2PTimeout \in Nat /\ Lateness \in Nat /\ ReassignAfter \in Nat
    BY SwarmAssumption
  <1>2. IsFiniteSet(Pieces)
    BY <1>1, FS_Interval DEF Pieces
  <1>3. 0 \in Pieces
    BY <1>1 DEF Pieces
  <1> QED
    BY <1>1, <1>2, <1>3 DEF MaxWait, MaxAge, Pieces

\* What an assignment is made of.
LEMMA AssignmentParts ==
  \A x \in Assignment : x.peer \in Peers /\ x.age \in Nat /\ x.during \in BOOLEAN
  BY AgesAreNumbers DEF Assignment

\* The three facts of the invariant about the picker hold when it holds nothing.
LEMMA EmptyPicker ==
  ASSUME clearAsset
  PROVE  /\ assigned' \in [Pieces -> Assignment \cup {Free}]
         /\ avail' \subseteq {} /\ dropped' \subseteq Pieces
         /\ \A i \in Pieces : assigned'[i] = Free
         /\ AssignedArePeers' /\ PlannedUnlessDropped'
  BY DEF clearAsset, AssignedArePeers, PlannedUnlessDropped

\* A peer is chosen for each needed piece when one is valid.
LEMMA ChosenAreValid ==
  ASSUME NEW valid, IsFiniteSet(valid), valid # {},
         NEW order \in [0..(Cardinality(valid) - 1) -> valid]
  PROVE  \A i \in Needed : Chosen(order, Cardinality(valid))[i] \in valid
  <1> DEFINE n == Cardinality(valid)
  <1>1. n \in Nat /\ n # 0
    BY FS_CardinalityType, FS_EmptySet
  <1>2. SUFFICES ASSUME NEW i \in Needed
                 PROVE  order[Cardinality({j \in Needed : j < i}) % n] \in valid
    BY DEF Chosen
  <1> DEFINE k == Cardinality({j \in Needed : j < i})
  <1>3. {j \in Needed : j < i} \in SUBSET Pieces
    BY DEF Needed
  <1>4. k \in Nat
    BY <1>3, AgesAreNumbers, FS_Subset, FS_CardinalityType
  <1> HIDE DEF n, k
  <1>5. k % n \in 0..(n - 1)
    BY <1>1, <1>4
  <1> QED
    BY <1>5 DEF n, k

------------------------------------------------------------------------------
\* Nothing is known, asked or assigned at first.
LEMMA SwarmInitInv == SwarmInit => SwarmInv
  BY AgesAreNumbers
  DEF SwarmInit, SwarmInv, SwarmTypeOK, AssignedArePeers, Watched, OwedAreOpen,
      FailoverByStream, PlannedUnlessDropped

\* A request is made of open peers, and gets a timer of its own.
LEMMA RequestKeeps ==
  ASSUME SwarmInv, NEW serve \in SUBSET open, requestAsset(serve)
  PROVE  SwarmInv'
  <1>1. SwarmTypeOK'
    BY AgesAreNumbers DEF SwarmInv, SwarmTypeOK, requestAsset
  <1>2. Watched'
    BY DEF SwarmInv, Watched, requestAsset
  <1>3. FailoverByStream'
    BY DEF SwarmInv, SwarmTypeOK, FailoverByStream, requestAsset
  <1>4. AssignedArePeers' /\ OwedAreOpen' /\ PlannedUnlessDropped'
    BY DEF SwarmInv, AssignedArePeers, OwedAreOpen, PlannedUnlessDropped, requestAsset
  <1> QED
    BY <1>1, <1>2, <1>3, <1>4 DEF SwarmInv

\* A bitfield has what is needed assigned to peers that are valid, and to no one else.
LEMMA BitfieldKeeps ==
  ASSUME SwarmInv, NEW p \in announced, NEW order, NEW serve \in SUBSET open,
         handleSwarmBitfield(p, order, serve)
  PROVE  SwarmInv'
  <1> DEFINE valid == open \cap (avail \cup {p})
             chosen == Chosen(order, Cardinality(valid))
  <1>1. valid \in SUBSET Peers /\ p \in valid /\ p \in Peers /\ p \in peers
    BY DEF SwarmInv, SwarmTypeOK
  <1>2. IsFiniteSet(valid)
    BY <1>1, FS_Subset, SwarmAssumption
  <1>3. order \in [0..(Cardinality(valid) - 1) -> valid]
    BY DEF handleSwarmBitfield
  <1>4. \A i \in Needed : chosen[i] \in valid
    BY <1>1, <1>2, <1>3, ChosenAreValid
  <1> HIDE DEF chosen
  <1>5. /\ planPieceRequests(chosen)
        /\ avail' = avail \cup {p} /\ announced' = announced \ {p}
        /\ coming' = [q \in Peers |->
                        IF q \in serve THEN coming[q] \cup {i \in Needed : chosen[i] = q}
                                       ELSE coming[q]]
        /\ UNCHANGED <<peers, open, received, requests, owed>>
    BY DEF handleSwarmBitfield, chosen
  <1>6. \A i \in Needed : [peer |-> chosen[i], age |-> 0, during |-> waiting] \in Assignment
    BY <1>1, <1>4, AgesAreNumbers DEF SwarmInv, SwarmTypeOK, Assignment
  <1>7. assigned' \in [Pieces -> Assignment \cup {Free}] /\ dropped' = {}
    BY <1>5, <1>6 DEF SwarmInv, SwarmTypeOK, planPieceRequests
  <1>8. \A i \in Pieces :
          \/ i \in received /\ assigned'[i] = Free
          \/ /\ i \in Needed /\ assigned'[i] # Free
             /\ assigned'[i].peer = chosen[i] /\ assigned'[i].age = 0
             /\ assigned'[i].during = waiting
          \/ i \notin received /\ assigned[i] # Free /\ assigned'[i] = assigned[i]
    BY <1>5, <1>6, FreeAssumption DEF planPieceRequests, Needed
  <1>9. Needed \subseteq Pieces
    BY DEF Needed
  <1>10. SwarmTypeOK'
    BY <1>1, <1>5, <1>7, <1>9 DEF SwarmInv, SwarmTypeOK
  <1>11. AssignedArePeers'
    BY <1>1, <1>4, <1>5, <1>8 DEF SwarmInv, AssignedArePeers
  <1>12. Watched'
    <2>1. timers \subseteq Nat
      BY AgesAreNumbers DEF SwarmInv, SwarmTypeOK
    <2>2. UNCHANGED <<waiting, timers>> /\ (waiting => timers # {})
      BY <1>5 DEF SwarmInv, Watched
    <2>3. ASSUME NEW i \in Pieces, assigned'[i] # Free, assigned'[i].during
          PROVE  waiting /\ \E a \in timers : a >= assigned'[i].age
      <3>1. CASE /\ assigned'[i].age = 0
                 /\ assigned'[i].during = waiting
        <4>1. waiting
          BY <2>3, <3>1, Zenon
        <4>2. PICK a \in timers : a \in Nat
          BY <2>1, <2>2, <4>1
        <4>3. a >= 0 /\ assigned'[i].age = 0
          BY <3>1, <4>2
        <4> QED
          BY <4>1, <4>3
      <3>2. CASE assigned[i] # Free /\ assigned'[i] = assigned[i]
        <4>1. assigned[i].during
          BY <2>3, <3>2, Zenon
        <4> QED
          BY <3>2, <4>1 DEF SwarmInv, Watched
      <3> QED
        BY <1>8, <2>3, <3>1, <3>2, Zenon
    <2> QED
      BY <2>2, <2>3 DEF Watched
  <1>13. FailoverByStream' /\ OwedAreOpen'
    BY <1>5 DEF SwarmInv, SwarmTypeOK, FailoverByStream, OwedAreOpen
  <1>14. PlannedUnlessDropped'
    BY <1>5, <1>8 DEF PlannedUnlessDropped
  <1> QED
    BY <1>10, <1>11, <1>12, <1>13, <1>14 DEF SwarmInv

\* A piece that comes is no longer to come, and is received until the asset is complete.
LEMMA ReceiveKeeps ==
  ASSUME SwarmInv, NEW p \in Peers, NEW i \in coming[p], ReceivePiece(p, i)
  PROVE  SwarmInv'
  <1>1. PICK rest \in OneLess(coming[p], i) : coming' = [coming EXCEPT ![p] = rest]
    BY DEF ReceivePiece
  <1>2. rest \subseteq coming[p] /\ coming[p] \subseteq rest \cup {i} /\ i \in Pieces
    BY DEF OneLess, SwarmInv, SwarmTypeOK
  <1>3. UNCHANGED <<peers, open, picker, announced, waiting, timers>>
    BY DEF ReceivePiece
  <1>4. \/ received' = {} /\ owed' = {} /\ deliveries' # {}
           /\ deliveries' \subseteq deliveries \cup {"claimed", "late"}
        \/ received' = received \cup {i} /\ UNCHANGED <<deliveries, owed>>
    BY DEF ReceivePiece, StorePiece
  <1>5. SwarmTypeOK'
    BY <1>1, <1>2, <1>3, <1>4 DEF SwarmInv, SwarmTypeOK
  <1>6. AssignedArePeers' /\ Watched'
    BY <1>3 DEF SwarmInv, AssignedArePeers, Watched
  <1>7. OwedAreOpen' /\ FailoverByStream'
    BY <1>1, <1>2, <1>3, <1>4 DEF SwarmInv, SwarmTypeOK, OwedAreOpen, FailoverByStream
  <1>8. PlannedUnlessDropped'
    BY <1>3, <1>4 DEF SwarmInv, PlannedUnlessDropped
  <1> QED
    BY <1>5, <1>6, <1>7, <1>8 DEF SwarmInv

\* Who sends a piece that is lost owes nothing any more.
LEMMA LoseKeeps ==
  ASSUME SwarmInv, NEW p \in Peers, NEW i \in coming[p], LosePiece(p, i)
  PROVE  SwarmInv'
  <1>1. PICK rest \in OneLess(coming[p], i) : coming' = [coming EXCEPT ![p] = rest]
    BY DEF LosePiece
  <1>2. rest \subseteq coming[p]
    BY DEF OneLess
  <1>3. owed' = owed \ {p} /\ UNCHANGED <<peers, open, picker, announced, received, requests>>
    BY DEF LosePiece
  <1>4. SwarmTypeOK'
    BY <1>1, <1>2, <1>3 DEF SwarmInv, SwarmTypeOK
  <1>5. AssignedArePeers' /\ Watched' /\ PlannedUnlessDropped'
    BY <1>3 DEF SwarmInv, AssignedArePeers, Watched, PlannedUnlessDropped
  <1>6. OwedAreOpen' /\ FailoverByStream'
    BY <1>1, <1>3 DEF SwarmInv, SwarmTypeOK, OwedAreOpen, FailoverByStream
  <1> QED
    BY <1>4, <1>5, <1>6 DEF SwarmInv

\* A delivery empties the picker.
LEMMA DeliveredKeeps ==
  ASSUME SwarmInv, NEW d \in deliveries, Delivered(d)
  PROVE  SwarmInv'
  <1>1. /\ assigned' \in [Pieces -> Assignment \cup {Free}]
        /\ avail' \subseteq {} /\ dropped' \subseteq Pieces
        /\ \A i \in Pieces : assigned'[i] = Free
        /\ AssignedArePeers' /\ PlannedUnlessDropped'
    BY EmptyPicker DEF Delivered
  <1>2. deliveries' \subseteq deliveries /\ waiting' \in BOOLEAN /\ (waiting' => waiting)
    BY DEF Delivered, OneLess, SwarmInv, SwarmTypeOK
  <1>3. UNCHANGED <<peers, open, announced, coming, received, timers, owed>>
    BY DEF Delivered
  <1>4. SwarmTypeOK'
    BY <1>1, <1>2, <1>3 DEF SwarmInv, SwarmTypeOK
  <1>5. Watched'
    BY <1>1, <1>2, <1>3 DEF SwarmInv, Watched
  <1>6. OwedAreOpen' /\ FailoverByStream'
    BY <1>3 DEF SwarmInv, OwedAreOpen, FailoverByStream
  <1> QED
    BY <1>1, <1>4, <1>5, <1>6 DEF SwarmInv

\* A timer that ends a request empties the picker; another finds nothing that a request
\* watches.
LEMMA TimerKeeps ==
  ASSUME SwarmInv, NEW a \in timers, TimerFires(a)
  PROVE  SwarmInv'
  <1>1. /\ timers' \subseteq timers /\ waiting' = FALSE
        /\ UNCHANGED <<peers, open, announced, coming, received, deliveries, owed>>
    BY DEF TimerFires, OneLess
  <1>2. /\ assigned' \in [Pieces -> Assignment \cup {Free}]
        /\ avail' \subseteq avail /\ dropped' \subseteq Pieces
        /\ \A i \in Pieces : assigned'[i] # Free => ~assigned'[i].during
        /\ AssignedArePeers' /\ PlannedUnlessDropped'
    <2>1. CASE waiting
      BY <2>1, EmptyPicker DEF TimerFires
    <2>2. CASE ~waiting
      <3>1. UNCHANGED <<picker, peers, received, deliveries>>
        BY <2>2 DEF TimerFires
      <3> QED
        BY <2>2, <3>1
        DEF SwarmInv, SwarmTypeOK, AssignedArePeers, PlannedUnlessDropped, Watched
    <2> QED
      BY <2>1, <2>2
  <1>3. SwarmTypeOK'
    BY <1>1, <1>2 DEF SwarmInv, SwarmTypeOK
  <1>4. Watched' /\ OwedAreOpen' /\ FailoverByStream'
    BY <1>1, <1>2 DEF SwarmInv, Watched, OwedAreOpen, FailoverByStream
  <1> QED
    BY <1>2, <1>3, <1>4 DEF SwarmInv

\* Assignments and timers grow old together.
LEMMA TickKeeps ==
  ASSUME SwarmInv, Tick
  PROVE  SwarmInv'
  <1>1. /\ \A a \in timers : a < MaxWait
        /\ timers' = {a + 1 : a \in timers}
        /\ assigned' = [i \in Pieces |-> Older(assigned[i])]
        /\ UNCHANGED <<peers, open, avail, dropped, announced, coming, received, waiting,
                       deliveries, owed>>
    BY DEF Tick
  <1>2. \A x \in Assignment :
          /\ Older(x) \in Assignment
          /\ Older(x).peer = x.peer /\ Older(x).during = x.during
          /\ Older(x).age =< x.age + 1
    BY AgesAreNumbers, FreeAssumption DEF Older, Assignment
  <1>3. Older(Free) = Free
    BY DEF Older
  <1>4. \A i \in Pieces :
          \/ assigned[i] = Free /\ assigned'[i] = Free
          \/ /\ assigned[i] \in Assignment /\ assigned[i] # Free
             /\ assigned'[i] \in Assignment /\ assigned'[i] # Free
             /\ assigned'[i].peer = assigned[i].peer
             /\ assigned'[i].during = assigned[i].during
             /\ assigned'[i].age =< assigned[i].age + 1
    BY <1>1, <1>2, <1>3, FreeAssumption DEF SwarmInv, SwarmTypeOK
  <1>5. assigned' \in [Pieces -> Assignment \cup {Free}]
    BY <1>1, <1>4
  <1>6. timers' \subseteq 0..MaxWait
    BY <1>1, AgesAreNumbers DEF SwarmInv, SwarmTypeOK
  <1>7. SwarmTypeOK'
    BY <1>1, <1>5, <1>6 DEF SwarmInv, SwarmTypeOK
  <1>8. AssignedArePeers'
    BY <1>1, <1>4 DEF SwarmInv, AssignedArePeers
  <1>9. Watched'
    <2>1. waiting' => timers' # {}
      BY <1>1 DEF SwarmInv, Watched
    <2>2. ASSUME NEW i \in Pieces, assigned'[i] # Free, assigned'[i].during
          PROVE  waiting' /\ \E a \in timers' : a >= assigned'[i].age
      <3>1. /\ assigned[i] \in Assignment /\ assigned[i] # Free /\ assigned[i].during
            /\ assigned'[i] \in Assignment
            /\ assigned'[i].age =< assigned[i].age + 1
        BY <1>4, <2>2
      <3>2. PICK a \in timers : a >= assigned[i].age
        BY <3>1 DEF SwarmInv, Watched
      <3>3. a \in Nat /\ assigned[i].age \in Nat /\ assigned'[i].age \in Nat
        <4>1. a \in Nat
          BY AgesAreNumbers DEF SwarmInv, SwarmTypeOK
        <4>2. assigned[i].age \in Nat /\ assigned'[i].age \in Nat
          BY <3>1, AssignmentParts, Zenon
        <4> QED
          BY <4>1, <4>2
      <3>4. a + 1 \in timers' /\ a + 1 >= assigned'[i].age
        BY <1>1, <3>1, <3>2, <3>3
      <3> QED
        BY <1>1, <3>1, <3>4 DEF SwarmInv, Watched
    <2> QED
      BY <2>1, <2>2 DEF Watched
  <1>10. OwedAreOpen' /\ FailoverByStream'
    BY <1>1 DEF SwarmInv, OwedAreOpen, FailoverByStream
  <1>11. PlannedUnlessDropped'
    BY <1>1, <1>4 DEF SwarmInv, PlannedUnlessDropped
  <1> QED
    BY <1>7, <1>8, <1>9, <1>10, <1>11 DEF SwarmInv

\* A peer that opens owes nothing, as what it owed went with its channel.
LEMMA OpensKeeps ==
  ASSUME SwarmInv, NEW p \in Peers, PeerOpens(p)
  PROVE  SwarmInv'
  <1>1. SwarmTypeOK' /\ AssignedArePeers' /\ Watched'
    BY DEF SwarmInv, SwarmTypeOK, AssignedArePeers, Watched, PeerOpens
  <1>2. OwedAreOpen' /\ FailoverByStream' /\ PlannedUnlessDropped'
    BY DEF SwarmInv, OwedAreOpen, FailoverByStream, PlannedUnlessDropped, PeerOpens
  <1> QED
    BY <1>1, <1>2 DEF SwarmInv

\* A link that is cut takes what was on it, and what its peer owed.
LEMMA CutTypes ==
  ASSUME SwarmInv, NEW gone, Cut(gone), received' = received
  PROVE  /\ open' = open \ gone
         /\ announced' \subseteq open'
         /\ coming' \in [Peers -> SUBSET Pieces]
         /\ owed' \subseteq open' /\ owed' \subseteq owed
         /\ FailoverByStream'
  BY DEF SwarmInv, SwarmTypeOK, OwedAreOpen, FailoverByStream, Cut

\* A channel that closes leaves the picker alone.
LEMMA ChannelClosesKeeps ==
  ASSUME SwarmInv, NEW p \in Peers, ChannelCloses(p)
  PROVE  SwarmInv'
  <1>1. Cut({p}) /\ UNCHANGED <<peers, picker, received, requests>>
    BY DEF ChannelCloses
  <1>2. /\ open' = open \ {p}
        /\ announced' \subseteq open'
        /\ coming' \in [Peers -> SUBSET Pieces]
        /\ owed' \subseteq open' /\ owed' \subseteq owed
        /\ FailoverByStream'
    BY <1>1, CutTypes
  <1>3. SwarmTypeOK'
    BY <1>1, <1>2 DEF SwarmInv, SwarmTypeOK
  <1>4. AssignedArePeers' /\ Watched' /\ PlannedUnlessDropped'
    BY <1>1 DEF SwarmInv, AssignedArePeers, Watched, PlannedUnlessDropped
  <1> QED
    BY <1>2, <1>3, <1>4 DEF SwarmInv, OwedAreOpen

\* A peer that leaves takes its assignments along.
LEMMA LeavesKeeps ==
  ASSUME SwarmInv, NEW p \in Peers, PeerLeaves(p)
  PROVE  SwarmInv'
  <1>1. /\ peers' = peers \ {p} /\ Cut({p})
        /\ UNCHANGED <<received, requests>>
        /\ avail' = avail \ {p}
        /\ assigned' = [i \in Pieces |-> IF i \in AssignedTo(p) THEN Free ELSE assigned[i]]
        /\ dropped' = dropped \cup AssignedTo(p)
    BY DEF PeerLeaves, unregisterPeer
  <1>2. /\ open' = open \ {p}
        /\ announced' \subseteq open'
        /\ coming' \in [Peers -> SUBSET Pieces]
        /\ owed' \subseteq open' /\ owed' \subseteq owed
        /\ FailoverByStream'
    BY <1>1, CutTypes
  <1>3. \A i \in Pieces :
          \/ i \in AssignedTo(p) /\ assigned'[i] = Free /\ i \in dropped'
          \/ assigned'[i] = assigned[i] /\ (assigned[i] # Free => assigned[i].peer # p)
    BY <1>1 DEF AssignedTo
  <1>4. SwarmTypeOK'
    BY <1>1, <1>2 DEF SwarmInv, SwarmTypeOK, AssignedTo
  <1>5. AssignedArePeers'
    BY <1>1, <1>3 DEF SwarmInv, AssignedArePeers
  <1>6. Watched'
    BY <1>1, <1>3 DEF SwarmInv, Watched
  <1>7. PlannedUnlessDropped'
    BY <1>1, <1>3 DEF SwarmInv, PlannedUnlessDropped
  <1> QED
    BY <1>2, <1>4, <1>5, <1>6, <1>7 DEF SwarmInv, OwedAreOpen

\* cleanupMesh cuts every link and empties the picker.
LEMMA CleanupMeshKeeps ==
  ASSUME SwarmInv, cleanupMesh
  PROVE  SwarmInv'
  <1>1. peers' = {} /\ Cut(Peers) /\ clearAsset /\ UNCHANGED <<received, requests>>
    BY DEF cleanupMesh
  <1>2. /\ open' = {}
        /\ announced' \subseteq open'
        /\ coming' \in [Peers -> SUBSET Pieces]
        /\ owed' \subseteq open'
        /\ FailoverByStream'
    BY <1>1, CutTypes DEF SwarmInv, SwarmTypeOK
  <1>3. /\ assigned' \in [Pieces -> Assignment \cup {Free}]
        /\ avail' \subseteq {} /\ dropped' \subseteq Pieces
        /\ \A i \in Pieces : assigned'[i] = Free
        /\ AssignedArePeers' /\ PlannedUnlessDropped'
    BY <1>1, EmptyPicker
  <1>4. SwarmTypeOK'
    BY <1>1, <1>2, <1>3 DEF SwarmInv, SwarmTypeOK
  <1>5. Watched'
    BY <1>1, <1>3 DEF SwarmInv, Watched
  <1> QED
    BY <1>2, <1>3, <1>4, <1>5 DEF SwarmInv, OwedAreOpen

\* So does destroy, which forgets the requests as well.
LEMMA DestroyKeeps ==
  ASSUME SwarmInv, destroySwarm
  PROVE  SwarmInv'
  <1>1. /\ peers' = {} /\ Cut(Peers) /\ clearAsset
        /\ received' = {} /\ waiting' = FALSE
        /\ UNCHANGED <<timers, deliveries>>
    BY DEF destroySwarm
  <1>2. /\ open' = {} /\ announced' = {} /\ owed' = {}
        /\ coming' \in [Peers -> SUBSET Pieces]
    BY <1>1 DEF Cut, SwarmInv, SwarmTypeOK, OwedAreOpen
  <1>3. /\ assigned' \in [Pieces -> Assignment \cup {Free}]
        /\ avail' \subseteq {} /\ dropped' \subseteq Pieces
        /\ \A i \in Pieces : assigned'[i] = Free
        /\ AssignedArePeers' /\ PlannedUnlessDropped'
    BY <1>1, EmptyPicker
  <1>4. SwarmTypeOK'
    BY <1>1, <1>2, <1>3 DEF SwarmInv, SwarmTypeOK
  <1>5. Watched' /\ OwedAreOpen' /\ FailoverByStream'
    BY <1>1, <1>2, <1>3 DEF Watched, OwedAreOpen, FailoverByStream
  <1> QED
    BY <1>3, <1>4, <1>5 DEF SwarmInv

------------------------------------------------------------------------------
\* Every step preserves the invariant.
LEMMA SwarmStep == SwarmInv /\ [SwarmNext]_swarmVars => SwarmInv'
  <1> SUFFICES ASSUME SwarmInv, [SwarmNext]_swarmVars
               PROVE  SwarmInv'
    OBVIOUS
  <1>1. CASE \E serve \in SUBSET open : requestAsset(serve)
    BY <1>1, RequestKeeps
  <1>2. CASE \E p \in announced : \E order \in Orders(p), serve \in SUBSET open :
               handleSwarmBitfield(p, order, serve)
    BY <1>2, BitfieldKeeps
  <1>3. CASE \E p \in Peers : \E i \in coming[p] : ReceivePiece(p, i) \/ LosePiece(p, i)
    BY <1>3, ReceiveKeeps, LoseKeeps
  <1>4. CASE \E d \in deliveries : Delivered(d)
    BY <1>4, DeliveredKeeps
  <1>5. CASE \E a \in timers : TimerFires(a)
    BY <1>5, TimerKeeps
  <1>6. CASE Tick
    BY <1>6, TickKeeps
  <1>7. CASE \E p \in Peers : PeerOpens(p) \/ ChannelCloses(p) \/ PeerLeaves(p)
    BY <1>7, OpensKeeps, ChannelClosesKeeps, LeavesKeeps
  <1>8. CASE cleanupMesh
    BY <1>8, CleanupMeshKeeps
  <1>9. CASE destroySwarm
    BY <1>9, DestroyKeeps
  <1>10. CASE UNCHANGED swarmVars
    BY <1>10
    DEF SwarmInv, SwarmTypeOK, AssignedArePeers, Watched, OwedAreOpen, FailoverByStream,
        PlannedUnlessDropped, swarmVars
  <1> QED
    BY <1>1, <1>2, <1>3, <1>4, <1>5, <1>6, <1>7, <1>8, <1>9, <1>10 DEF SwarmNext

\* The invariant holds in every reachable state.
LEMMA SwarmInvariant == SwarmSpec => []SwarmInv
  BY SwarmInitInv, SwarmStep, PTL DEF SwarmSpec

\* The state of a download is well formed, in whatever order bitfields, pieces, timers,
\* departures and clean-ups come (PiecePicker, ShadowCast).
THEOREM SwarmTypeCorrect == SwarmSpec => []SwarmTypeOK
  <1>1. SwarmInv => SwarmTypeOK
    BY DEF SwarmInv
  <1> QED
    BY <1>1, SwarmInvariant, PTL

\* Pieces are assigned to linked peers that announced them, and to none that left
\* (PiecePicker.unregisterPeer, cleanupMesh).
THEOREM AssigneesAreLinked == SwarmSpec => []AssignedArePeers
  <1>1. SwarmInv => AssignedArePeers
    BY DEF SwarmInv
  <1> QED
    BY <1>1, SwarmInvariant, PTL

\* Where p2pTimeout fires within the 6 seconds of planPieceRequests, as by default, an
\* assignment that expires was made while no call waited (PiecePicker.planPieceRequests).
THEOREM ExpiredWereIdle == SwarmSpec => []OnlyIdleAssignmentsExpire
  <1>1. SwarmInv => OnlyIdleAssignmentsExpire
    <2> SUFFICES ASSUME SwarmInv, TimelyTimeouts,
                        NEW i \in Pieces, Expired(i), assigned[i].during
                 PROVE  FALSE
      BY DEF OnlyIdleAssignmentsExpire
    <2>1. assigned[i] # Free /\ assigned[i] \in Assignment /\ assigned[i].age > ReassignAfter
      BY DEF SwarmInv, SwarmTypeOK, Expired
    <2>2. PICK a \in timers : a >= assigned[i].age
      BY <2>1 DEF SwarmInv, Watched
    <2>3. a \in Nat /\ a =< MaxWait /\ assigned[i].age \in Nat
      BY <2>1, AgesAreNumbers DEF SwarmInv, SwarmTypeOK, Assignment
    <2> QED
      BY <2>1, <2>2, <2>3, AgesAreNumbers DEF TimelyTimeouts
  <1> QED
    BY <1>1, SwarmInvariant, PTL

\* Whatever happens to the picker, each linked peer that began to stream and lost no piece
\* has still to send whatever is missing (handlePeerAssetRequest).
THEOREM StreamsSuffice == SwarmSpec => []FailoverByStream
  <1>1. SwarmInv => FailoverByStream
    BY DEF SwarmInv
  <1> QED
    BY <1>1, SwarmInvariant, PTL

\* Only the departure of a peer leaves a missing piece unassigned once a bitfield was
\* planned with (ShadowCast.onPeerLeave, PiecePicker.unregisterPeer).
THEOREM UnassignedWasDropped == SwarmSpec => []PlannedUnlessDropped
  <1>1. SwarmInv => PlannedUnlessDropped
    BY DEF SwarmInv
  <1> QED
    BY <1>1, SwarmInvariant, PTL

==============================================================================
