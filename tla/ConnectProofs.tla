---------------------------- MODULE ConnectProofs ----------------------------
(***************************************************************************)
(* The safety of Connect, for any rooms, waiters and number of sockets.    *)
(*                                                                         *)
(* The properties are almost inductive together.  What they lack is why    *)
(* the room is right when a socket opens: that is settled when it is       *)
(* dialed, and only a call that shares its promise unsettles it            *)
(* (RoomSettled).                                                          *)
(***************************************************************************)
EXTENDS Connect, TLAPS

\* The socket in use joins the room last asked for, unless its promise was shared.
RoomSettled == ws # NoSocket => joins = currentRoom \/ misled

ConnectInv ==
  /\ ConnectTypeOK
  /\ OneLiveSocket
  /\ RoomSettled
  /\ InitializedInRoom
  /\ RememberedUnlessUpset
  /\ WaitersToldOfLinks

USE DEF NoSocket

\* A page begins with no socket, no room and no link.
LEMMA ConnectInitInv == ConnectInit => ConnectInv
  BY ConnectAssumption
  DEF ConnectInit, ConnectInv, ConnectTypeOK, OneLiveSocket, RoomSettled, InitializedInRoom,
      RememberedUnlessUpset, WaitersToldOfLinks, Sockets, ReadyStates, isConnected, linked

\* disconnect closes the only socket that may be alive.
LEMMA HangupCloses ==
  ASSUME ConnectTypeOK, OneLiveSocket
  PROVE  /\ Hangup \in [Sockets -> ReadyStates]
         /\ \A s \in Sockets : Hangup[s] \notin {"connecting", "open"}
  BY DEF ConnectTypeOK, OneLiveSocket, Hangup, AfterClose, ReadyStates

\* cleanup leaves no link, and nobody whom a later link would tell.
LEMMA CleanupTypes ==
  ASSUME ConnectTypeOK, WaitersToldOfLinks,
         cleanup \/ UNCHANGED mesh
  PROVE  /\ link' \in {"none", "met", "open"}
         /\ waiter' \in [Waiters -> {"none", "waiting", "forgotten", "ready", "alone"}]
         /\ WaitersToldOfLinks'
  BY DEF ConnectTypeOK, WaitersToldOfLinks, cleanup, mesh, linked

------------------------------------------------------------------------------
(* One lemma per action. *)

\* A call that shares the promise of its room only adds a caller.
LEMMA JoinDialKeeps ==
  ASSUME ConnectInv, NEW room \in Rooms, JoinDial(room)
  PROVE  ConnectInv'
  BY DEF ConnectInv, ConnectTypeOK, OneLiveSocket, RoomSettled, InitializedInRoom,
         RememberedUnlessUpset, WaitersToldOfLinks, JoinDial, signaling, mesh, isConnected,
         linked

\* A call that shares the promise of another room says so.
LEMMA ShareDialKeeps ==
  ASSUME ConnectInv, NEW room \in Rooms, ShareDial(room)
  PROVE  ConnectInv'
  BY DEF ConnectInv, ConnectTypeOK, OneLiveSocket, RoomSettled, InitializedInRoom,
         RememberedUnlessUpset, WaitersToldOfLinks, ShareDial, signaling, mesh, isConnected,
         linked

\* A call that dials hangs up first.
LEMMA DialKeeps ==
  ASSUME ConnectInv, NEW room \in Rooms, NEW s \in Sockets, Dial(room, s)
  PROVE  ConnectInv'
  <1>1. /\ Hangup \in [Sockets -> ReadyStates]
        /\ \A t \in Sockets : Hangup[t] \notin {"connecting", "open"}
    BY HangupCloses DEF ConnectInv
  <1>2. /\ link' \in {"none", "met", "open"}
        /\ waiter' \in [Waiters -> {"none", "waiting", "forgotten", "ready", "alone"}]
        /\ WaitersToldOfLinks'
    BY CleanupTypes DEF ConnectInv, Dial
  <1>3. readyState' \in [Sockets -> ReadyStates] /\ readyState'[s] = "connecting"
    BY <1>1 DEF Dial, ReadyStates
  <1>4. s # NoSocket
    BY ConnectAssumption DEF Sockets
  <1>5. ConnectTypeOK'
    BY <1>2, <1>3 DEF ConnectInv, ConnectTypeOK, Dial
  <1>6. OneLiveSocket'
    BY <1>1 DEF OneLiveSocket, Dial
  <1>7. RoomSettled' /\ InitializedInRoom'
    BY DEF RoomSettled, InitializedInRoom, Dial
  <1>8. RememberedUnlessUpset'
    BY <1>3 DEF RememberedUnlessUpset, Dial
  <1> QED
    BY <1>2, <1>5, <1>6, <1>7, <1>8 DEF ConnectInv

\* destroy leaves no socket in use.
LEMMA DestroyKeeps ==
  ASSUME ConnectInv, destroyConnection
  PROVE  ConnectInv'
  <1>1. /\ Hangup \in [Sockets -> ReadyStates]
        /\ \A t \in Sockets : Hangup[t] \notin {"connecting", "open"}
    BY HangupCloses DEF ConnectInv
  <1>2. /\ link' \in {"none", "met", "open"}
        /\ waiter' \in [Waiters -> {"none", "waiting", "forgotten", "ready", "alone"}]
        /\ WaitersToldOfLinks'
    BY CleanupTypes DEF ConnectInv, destroyConnection
  <1> QED
    BY <1>1, <1>2
    DEF ConnectInv, ConnectTypeOK, OneLiveSocket, RoomSettled, InitializedInRoom,
        RememberedUnlessUpset, destroyConnection

\* A socket that opens is the one in use, and its room is settled.
LEMMA OpensKeeps ==
  ASSUME ConnectInv, NEW s \in Sockets, Opens(s)
  PROVE  ConnectInv'
  <1>1. s = ws /\ ws # NoSocket
    BY ConnectAssumption DEF ConnectInv, OneLiveSocket, Opens, Sockets
  <1>2. ConnectTypeOK'
    BY DEF ConnectInv, ConnectTypeOK, Opens, ReadyStates
  <1>3. OneLiveSocket'
    BY <1>1 DEF ConnectInv, ConnectTypeOK, OneLiveSocket, Opens
  <1>4. RoomSettled' /\ InitializedInRoom' /\ RememberedUnlessUpset'
    BY <1>1 DEF ConnectInv, ConnectTypeOK, RoomSettled, InitializedInRoom,
                RememberedUnlessUpset, Opens, isConnected
  <1>5. WaitersToldOfLinks'
    BY DEF ConnectInv, WaitersToldOfLinks, Opens, linked
  <1> QED
    BY <1>2, <1>3, <1>4, <1>5 DEF ConnectInv

\* The error of the socket in use comes before it opened; that of another upsets it.
LEMMA FailsKeeps ==
  ASSUME ConnectInv, NEW s \in Sockets, Fails(s)
  PROVE  ConnectInv'
  <1>1. ConnectTypeOK'
    BY DEF ConnectInv, ConnectTypeOK, Fails, Upsets, mesh, ReadyStates
  <1>2. OneLiveSocket' /\ RoomSettled'
    BY DEF ConnectInv, ConnectTypeOK, OneLiveSocket, RoomSettled, Fails
  <1>3. InitializedInRoom'
    BY DEF ConnectInv, ConnectTypeOK, InitializedInRoom, Fails, isConnected
  <1>4. RememberedUnlessUpset'
    BY DEF ConnectInv, ConnectTypeOK, RememberedUnlessUpset, Fails, Upsets
  <1>5. WaitersToldOfLinks'
    BY DEF ConnectInv, WaitersToldOfLinks, Fails, linked, mesh
  <1> QED
    BY <1>1, <1>2, <1>3, <1>4, <1>5 DEF ConnectInv

\* So does its close.
LEMMA ClosesKeeps ==
  ASSUME ConnectInv, NEW s \in Sockets, Closes(s)
  PROVE  ConnectInv'
  <1>1. ConnectTypeOK'
    BY DEF ConnectInv, ConnectTypeOK, Closes, Upsets, mesh, ReadyStates
  <1>2. OneLiveSocket' /\ RoomSettled' /\ InitializedInRoom'
    BY DEF ConnectInv, ConnectTypeOK, OneLiveSocket, RoomSettled, InitializedInRoom, Closes
  <1>3. RememberedUnlessUpset'
    BY DEF ConnectInv, ConnectTypeOK, RememberedUnlessUpset, Closes, Upsets
  <1>4. WaitersToldOfLinks'
    BY DEF ConnectInv, WaitersToldOfLinks, Closes, linked, mesh
  <1> QED
    BY <1>1, <1>2, <1>3, <1>4 DEF ConnectInv

\* A socket that the server begins to close is still the one in use.
LEMMA ServerClosesKeeps ==
  ASSUME ConnectInv, NEW s \in Sockets, ServerCloses(s)
  PROVE  ConnectInv'
  <1>1. ConnectTypeOK'
    BY DEF ConnectInv, ConnectTypeOK, ServerCloses, facade, mesh, ReadyStates
  <1>2. OneLiveSocket' /\ RoomSettled' /\ InitializedInRoom' /\ RememberedUnlessUpset'
    BY DEF ConnectInv, ConnectTypeOK, OneLiveSocket, RoomSettled, InitializedInRoom,
           RememberedUnlessUpset, ServerCloses, facade
  <1>3. WaitersToldOfLinks'
    BY DEF ConnectInv, WaitersToldOfLinks, ServerCloses, linked, mesh
  <1> QED
    BY <1>1, <1>2, <1>3 DEF ConnectInv

\* Links and waits touch nothing of the connection.
LEMMA LinkKeeps ==
  ASSUME ConnectInv, UNCHANGED <<signaling, facade, upset, misled>>,
         \/ LinkOpens \/ LinkCloses
         \/ \E w \in Waiters : waitForPeers(w) \/ WaitEnds(w) \/ WaitReturns(w)
  PROVE  ConnectInv'
  <1>1. /\ link' \in {"none", "met", "open"}
        /\ waiter' \in [Waiters -> {"none", "waiting", "forgotten", "ready", "alone"}]
    BY DEF ConnectInv, ConnectTypeOK, LinkOpens, LinkCloses, waitForPeers, WaitEnds,
           WaitReturns
  <1>2. WaitersToldOfLinks'
    BY DEF ConnectInv, ConnectTypeOK, WaitersToldOfLinks, LinkOpens, LinkCloses,
           waitForPeers, WaitEnds, WaitReturns, linked
  <1> QED
    BY <1>1, <1>2
    DEF ConnectInv, ConnectTypeOK, OneLiveSocket, RoomSettled, InitializedInRoom,
        RememberedUnlessUpset, signaling, facade, isConnected

\* Every step of the page preserves the invariant.
LEMMA ConnectStep == ConnectInv /\ [ConnectNext]_connectVars => ConnectInv'
  <1> SUFFICES ASSUME ConnectInv, [ConnectNext]_connectVars
               PROVE  ConnectInv'
    OBVIOUS
  <1>1. CASE \E room \in Rooms : connect(room)
    BY <1>1, JoinDialKeeps, ShareDialKeeps, DialKeeps DEF connect
  <1>2. CASE destroyConnection
    BY <1>2, DestroyKeeps
  <1>3. CASE \E s \in Sockets : SocketEvent(s) \/ ServerCloses(s)
    BY <1>3, OpensKeeps, FailsKeeps, ClosesKeeps, ServerClosesKeeps DEF SocketEvent
  <1>4. CASE \/ LinkOpens \/ LinkCloses
             \/ \E w \in Waiters : waitForPeers(w) \/ WaitEnds(w) \/ WaitReturns(w)
    <2>1. UNCHANGED <<signaling, facade, upset, misled>>
      BY <1>4 DEF LinkOpens, LinkCloses, waitForPeers, WaitEnds, WaitReturns
    <2> QED
      BY <1>4, <2>1, LinkKeeps
  <1>5. CASE UNCHANGED connectVars
    BY <1>5
    DEF ConnectInv, ConnectTypeOK, OneLiveSocket, RoomSettled, InitializedInRoom,
        RememberedUnlessUpset, WaitersToldOfLinks, connectVars, signaling, facade, mesh,
        isConnected, linked
  <1> QED
    BY <1>1, <1>2, <1>3, <1>4, <1>5 DEF ConnectNext

\* The invariant holds in every reachable state.
LEMMA ConnectInvariant == ConnectSpec => []ConnectInv
  BY ConnectInitInv, ConnectStep, PTL DEF ConnectSpec

------------------------------------------------------------------------------
(* The theorems *)

\* The state of the connection is well formed, and the promise that the client remembers
\* is that of the socket in use (SignalingClient).
THEOREM ConnectTypeCorrect == ConnectSpec => []ConnectTypeOK
  <1>1. ConnectInv => ConnectTypeOK
    BY DEF ConnectInv
  <1> QED
    BY <1>1, ConnectInvariant, PTL

\* A page has at most one live websocket, the one it uses, whatever calls and socket events
\* interleave (SignalingClient.connect, disconnect).
THEOREM NeverTwoSockets == ConnectSpec => []OneLiveSocket
  <1>1. ConnectInv => OneLiveSocket
    BY DEF ConnectInv
  <1> QED
    BY <1>1, ConnectInvariant, PTL

\* A page that counts as connected is, or its socket is just closing, and it is in the room
\* last asked for unless it shared another's promise (ShadowCast.connect).
THEOREM InitializedMeansInRoom == ConnectSpec => []InitializedInRoom
  <1>1. ConnectInv => InitializedInRoom
    BY DEF ConnectInv
  <1> QED
    BY <1>1, ConnectInvariant, PTL

\* Only the events of a replaced socket make the page forget the connection in use
\* (SignalingClient.onclose, ShadowCast.connect).
THEOREM ForgottenOnlyIfUpset == ConnectSpec => []RememberedUnlessUpset
  <1>1. ConnectInv => RememberedUnlessUpset
    BY DEF ConnectInv
  <1> QED
    BY <1>1, ConnectInvariant, PTL

\* Nobody who waits for peers is left waiting when there is one, but those whom a cleanup
\* forgot (MeshManager.waitForPeers).
THEOREM WaitersAreTold == ConnectSpec => []WaitersToldOfLinks
  <1>1. ConnectInv => WaitersToldOfLinks
    BY DEF ConnectInv
  <1> QED
    BY <1>1, ConnectInvariant, PTL
==============================================================================
