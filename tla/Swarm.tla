-------------------------------- MODULE Swarm --------------------------------
(***************************************************************************)
(* The download of one asset from a swarm: PiecePicker, which assigns the  *)
(* pieces of the asset to the peers that announced them, and the handlers  *)
(* of ShadowCast around it.  Each peer that is asked for the asset and has *)
(* it sends a bitfield, streams the whole of it, and answers requests for  *)
(* single pieces besides.                                                  *)
(*                                                                         *)
(* What a peer will send in answer to a request is decided when it is      *)
(* asked (it may have lost the asset, or not know its URL) and arrives     *)
(* later, in any order: the digests that both sides await do away with     *)
(* that of the channel.  Pieces are of one version and are stored or lost  *)
(* at once; ChunkTransfer has versions, digests and buffers.  Time goes in *)
(* ticks, and setTimeout fires up to Lateness ticks late.                  *)
(*                                                                         *)
(* Copies are not counted: when a piece that may have been sent twice has  *)
(* come, or one of several timers of an age has fired, or one of several   *)
(* deliveries has ended, there may or may not be another.                  *)
(***************************************************************************)
EXTENDS Naturals, FiniteSets

CONSTANTS
  Peers,
  NumPieces,      \* totalChunks
  Free,           \* no assignment
  P2PTimeout,     \* config.p2pTimeout
  Lateness,       \* how late a timer may fire
  ReassignAfter   \* the 6 seconds of planPieceRequests

ASSUME SwarmAssumption ==
  /\ IsFiniteSet(Peers)
  /\ NumPieces \in Nat \ {0}
  /\ P2PTimeout \in Nat /\ Lateness \in Nat /\ ReassignAfter \in Nat

Pieces == 0..(NumPieces - 1)
MaxWait == P2PTimeout + Lateness
MaxAge == ReassignAfter + 1

\* An assignment: to whom, how long ago, and whether during a request.
Assignment == [peer : Peers, age : 0..MaxAge, during : BOOLEAN]

ASSUME FreeAssumption == Free \notin Assignment

VARIABLES
  peers,       \* MeshManager.peers
  open,        \* those of them whose data channel is open
  avail,       \* swarmAvailability: the peers whose bitfield was registered
  assigned,    \* activeAssignments
  announced,   \* peers whose bitfield is on its way
  coming,      \* the pieces a peer has still to send
  received,    \* ChunkReceiver: the pieces in the asset's buffer
  waiting,     \* assetResolvers has an entry for the asset
  timers,      \* the ages of the p2pTimeouts that run
  deliveries,  \* calls of handleAssetReassembled at their await, by whether they
               \* hold a resolver
  owed,        \* history: peers that began to stream since the asset was last complete, and
               \* of whose pieces none was lost
  dropped      \* history: pieces whose assignment went with its peer

picker == <<avail, assigned, dropped>>
requests == <<waiting, timers, deliveries>>
swarmVars == <<peers, open, picker, announced, coming, received, requests, owed>>

SwarmInit ==
  /\ peers = {} /\ open = {}
  /\ avail = {} /\ dropped = {}
  /\ assigned = [i \in Pieces |-> Free]
  /\ announced = {} /\ owed = {}
  /\ coming = [p \in Peers |-> {}]
  /\ received = {}
  /\ waiting = FALSE /\ timers = {} /\ deliveries = {}

------------------------------------------------------------------------------
\* One of possibly several x is gone from s.
OneLess(s, x) == {s, s \ {x}}

(* PiecePicker *)

\* Faulty variant: availability is cleared and assignments are kept.
clearAssetKeeps ==
  /\ avail' = {}
  /\ dropped' = {}
  /\ UNCHANGED assigned

\* clearAsset, and clear.
clearAsset ==
  /\ avail' = {}
  /\ dropped' = {}
  /\ assigned' = [i \in Pieces |-> Free]

AssignedTo(p) == {i \in Pieces : assigned[i] # Free /\ assigned[i].peer = p}

\* Faulty variant: the peer's assignments are kept.
unregisterPeerKeeps(p) ==
  /\ avail' = avail \ {p}
  /\ UNCHANGED <<assigned, dropped>>

\* The pieces that lost their peer are free again.  The caller ignores which they are.
unregisterPeer(p) ==
  /\ avail' = avail \ {p}
  /\ assigned' = [i \in Pieces |-> IF i \in AssignedTo(p) THEN Free ELSE assigned[i]]
  /\ dropped' = dropped \cup AssignedTo(p)

Expired(i) == assigned[i] # Free /\ assigned[i].age > ReassignAfter

\* Faulty variant: only the pieces that were never assigned.
NeededUnassigned == {i \in Pieces \ received : assigned[i] = Free /\ i \notin dropped}

\* neededChunks of planPieceRequests.
Needed == {i \in Pieces \ received : assigned[i] = Free \/ Expired(i)}

\* The chosen peer of each needed piece: round robin over the valid peers, in the order
\* of the mesh's map, which may be any.
Chosen(order, n) ==
  [i \in Needed |-> order[Cardinality({j \in Needed : j < i}) % n]]

\* planPieceRequests: pieces that were received lose their assignment.
planPieceRequests(chosen) ==
  /\ assigned' =
       [i \in Pieces |->
          IF i \in received THEN Free
          ELSE IF i \in Needed THEN [peer |-> chosen[i], age |-> 0, during |-> waiting]
          ELSE assigned[i]]
  /\ dropped' = {}

------------------------------------------------------------------------------
(* Requests and what comes of them *)

\* requestAsset with a peer at hand: the peers in `serve' have the asset, so that they
\* announce and stream it (handlePeerAssetRequest).
requestAsset(serve) ==
  /\ open # {}
  /\ waiting' = TRUE
  /\ timers' = timers \cup {0}
  /\ announced' = announced \cup serve
  /\ coming' = [p \in Peers |-> IF p \in serve THEN Pieces ELSE coming[p]]
  /\ owed' = owed \cup serve
  /\ UNCHANGED <<peers, open, picker, received, deliveries>>

\* A bitfield arrives: pieces are planned and asked for, and the peers in `serve' will
\* send theirs (handleSwarmBitfield, handleSwarmPieceRequest).
handleSwarmBitfield(p, order, serve) ==
  LET valid == open \cap (avail \cup {p})
      n == Cardinality(valid)
      chosen == Chosen(order, n)
  IN  /\ p \in announced
      /\ order \in [0..(n - 1) -> valid]
      /\ \A x, y \in 0..(n - 1) : order[x] = order[y] => x = y
      /\ announced' = announced \ {p}
      /\ avail' = avail \cup {p}
      /\ planPieceRequests(chosen)
      /\ coming' = [q \in Peers |->
                      IF q \in serve THEN coming[q] \cup {i \in Needed : chosen[i] = q}
                                     ELSE coming[q]]
      /\ UNCHANGED <<peers, open, received, requests, owed>>

\* Faulty variant: a piece is stored only if it was assigned to its sender.
StorePieceAssigned(p, i) ==
  /\ received' = IF i \in AssignedTo(p) THEN received \cup {i} ELSE received
  /\ UNCHANGED <<deliveries, owed>>

\* A piece arrives: the last one completes the asset, whose buffer is dropped and whose
\* delivery holds the resolver there is (storeBinaryChunk, tryReassemble).
StorePiece(p, i) ==
  IF received \cup {i} = Pieces
  THEN /\ received' = {}
       /\ deliveries' = deliveries \cup {IF waiting THEN "claimed" ELSE "late"}
       /\ owed' = {}
  ELSE /\ received' = received \cup {i}
       /\ UNCHANGED <<deliveries, owed>>

ReceivePiece(p, i) ==
  /\ \E rest \in OneLess(coming[p], i) : coming' = [coming EXCEPT ![p] = rest]
  /\ StorePiece(p, i)
  /\ UNCHANGED <<peers, open, picker, announced, waiting, timers>>

\* A piece is dropped, as a failure of its check or for want of its metadata
\* (storeBinaryChunk).
LosePiece(p, i) ==
  /\ \E rest \in OneLess(coming[p], i) : coming' = [coming EXCEPT ![p] = rest]
  /\ owed' = owed \ {p}
  /\ UNCHANGED <<peers, open, picker, announced, received, requests>>

\* handleAssetReassembled after its await: it answers its call, if it has one, and removes
\* whatever resolver there is.
Delivered(d) ==
  /\ deliveries' \in OneLess(deliveries, d)
  /\ clearAsset
  /\ waiting' = (waiting /\ d # "claimed")
  /\ UNCHANGED <<peers, open, announced, coming, received, timers, owed>>

\* The p2pTimeout of some call.
TimerFires(a) ==
  /\ a >= P2PTimeout
  /\ timers' \in OneLess(timers, a)
  /\ waiting' = FALSE
  /\ IF waiting THEN clearAsset ELSE UNCHANGED picker
  /\ UNCHANGED <<peers, open, announced, coming, received, deliveries, owed>>

Older(x) == IF x # Free /\ x.age < MaxAge THEN [x EXCEPT !.age = @ + 1] ELSE x

\* Time passes; no timer is later than Lateness.
Tick ==
  /\ \A a \in timers : a < MaxWait
  /\ timers' = {a + 1 : a \in timers}
  /\ assigned' = [i \in Pieces |-> Older(assigned[i])]
  /\ UNCHANGED <<peers, open, avail, dropped, announced, coming, received, waiting,
                 deliveries, owed>>

------------------------------------------------------------------------------
(* Peers that come and go *)

\* A data channel opens.
PeerOpens(p) ==
  /\ p \notin peers
  /\ peers' = peers \cup {p}
  /\ open' = open \cup {p}
  /\ UNCHANGED <<picker, announced, coming, received, requests, owed>>

\* What was on the links to these peers is lost.
Cut(gone) ==
  /\ open' = open \ gone
  /\ announced' = announced \ gone
  /\ coming' = [p \in Peers |-> IF p \in gone THEN {} ELSE coming[p]]
  /\ owed' = owed \ gone

\* A channel closes, and its connection is not yet reported as lost.
ChannelCloses(p) ==
  /\ p \in open
  /\ Cut({p})
  /\ UNCHANGED <<peers, picker, received, requests>>

\* disconnectPeer, and onPeerLeave.
PeerLeaves(p) ==
  /\ p \in peers
  /\ peers' = peers \ {p}
  /\ Cut({p})
  /\ unregisterPeer(p)
  /\ UNCHANGED <<received, requests>>

\* Faulty variant: peers are forgotten with their channels open.
cleanupMeshOpen ==
  /\ peers' = {}
  /\ Cut({})
  /\ clearAsset
  /\ UNCHANGED <<received, requests>>

\* cleanupMesh, when the page changes rooms or connects again.
cleanupMesh ==
  /\ peers' = {}
  /\ Cut(Peers)
  /\ clearAsset
  /\ UNCHANGED <<received, requests>>

\* destroy: timers and deliveries under way are not stopped.
destroySwarm ==
  /\ peers' = {}
  /\ Cut(Peers)
  /\ clearAsset
  /\ received' = {}
  /\ waiting' = FALSE
  /\ UNCHANGED <<timers, deliveries>>

------------------------------------------------------------------------------
Orders(p) == UNION {[0..(n - 1) -> open \cap (avail \cup {p})] : n \in 1..Cardinality(Peers)}

SwarmNext ==
  \/ \E serve \in SUBSET open : requestAsset(serve)
  \/ \E p \in announced : \E order \in Orders(p), serve \in SUBSET open :
       handleSwarmBitfield(p, order, serve)
  \/ \E p \in Peers : \E i \in coming[p] : ReceivePiece(p, i) \/ LosePiece(p, i)
  \/ \E d \in deliveries : Delivered(d)
  \/ \E a \in timers : TimerFires(a)
  \/ Tick
  \/ \E p \in Peers : PeerOpens(p) \/ ChannelCloses(p) \/ PeerLeaves(p)
  \/ cleanupMesh
  \/ destroySwarm

SwarmSpec == SwarmInit /\ [][SwarmNext]_swarmVars

------------------------------------------------------------------------------
(* Properties *)

\* Every variable has the shape the code gives it.
SwarmTypeOK ==
  /\ open \subseteq peers /\ peers \subseteq Peers
  /\ avail \subseteq Peers
  /\ assigned \in [Pieces -> Assignment \cup {Free}]
  /\ announced \subseteq open
  /\ coming \in [Peers -> SUBSET Pieces]
  /\ received \subseteq Pieces
  /\ waiting \in BOOLEAN
  /\ timers \subseteq 0..MaxWait
  /\ deliveries \subseteq {"claimed", "late"}
  /\ owed \subseteq Peers
  /\ dropped \subseteq Pieces

\* No piece stays with a peer that is gone, in whatever order bitfields, departures and
\* clean-ups come (PiecePicker.unregisterPeer, cleanupMesh).
AssignedArePeers ==
  /\ avail \subseteq peers
  /\ \A i \in Pieces : assigned[i] # Free => assigned[i].peer \in avail

\* A call gives up before an assignment made while it waits can expire: p2pTimeout, 5
\* seconds unless configured, fires less than a second late.
TimelyTimeouts == MaxWait =< ReassignAfter

\* An assignment made while a call waits is cleared with the end of the wait, before its 6
\* seconds are over, so a peer that does not send the piece is not given up in time for
\* that call.  Only what a late bitfield has assigned while nobody waited can expire, and
\* may then be assigned anew during a later request (planPieceRequests, p2pTimeout).
OnlyIdleAssignmentsExpire ==
  TimelyTimeouts => \A i \in Pieces : Expired(i) => ~assigned[i].during

\* Streams do not depend on what becomes of other peers, of assignments and of timers:
\* whatever is missing is still to come from every peer that began to stream, is linked
\* ever since and of whose pieces none was dropped (handlePeerAssetRequest, ChunkReceiver).
FailoverByStream ==
  \A p \in owed \cap open : Pieces \subseteq received \cup coming[p]

\* Once a bitfield was planned with, every piece is received, or assigned to somebody, or
\* was with a peer that left: the result of unregisterPeer is ignored and only another
\* bitfield will have it planned again (handleSwarmBitfield, onPeerLeave).
PlannedUnlessDropped ==
  avail # {} /\ deliveries = {} =>
    \A i \in Pieces : i \in received \/ assigned[i] # Free \/ i \in dropped

==============================================================================
