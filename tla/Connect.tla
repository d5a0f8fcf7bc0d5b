------------------------------- MODULE Connect -------------------------------
(***************************************************************************)
(* How a page comes to be in a room: ShadowCast.connect over               *)
(* SignalingClient.connect and disconnect, each of which remembers a       *)
(* connection under way in a connectingPromise of its own, and             *)
(* MeshManager.waitForPeers, which waits for the first link of the room.   *)
(*                                                                         *)
(* A promise of a connection is named by the socket it will settle with.   *)
(* The handlers of a socket are never taken off it, so a socket that was   *)
(* replaced still tells both layers of its error and its close.  An event  *)
(* of a socket and the promise reactions it sets off are one step; a page  *)
(* may call connect again between the onerror and the onclose of one       *)
(* socket, and then only.                                                  *)
(***************************************************************************)
EXTENDS Naturals

CONSTANTS
  Rooms,
  NoRoom,       \* currentRoom = ''
  MaxSockets,   \* bound: the websockets a page makes
  Waiters       \* callers of waitForPeers, each with one wait at a time

Sockets == 1..MaxSockets
NoSocket == 0

ASSUME ConnectAssumption ==
  /\ NoRoom \notin Rooms
  /\ MaxSockets \in Nat

VARIABLES
  readyState,   \* of a socket; "aborted" was closed before it opened, "failed" has fired
                \* onerror and not yet onclose
  ws,           \* SignalingClient.ws
  joins,        \* the room that its onopen joins; no other socket can open any more
  dialing,      \* SignalingClient.connectingPromise
  connecting,   \* ShadowCast.connectingPromise
  initialized,
  currentRoom,
  callers,      \* the sockets whose promise callers of connect await
  link,         \* the mesh: no peers, peers being met, or an open data channel
  waiter,       \* a call of waitForPeers
  upset,        \* history: since ws is in use an older socket fired onerror or onclose
  misled        \* history: the promise of ws was given to a call for another room

signaling == <<readyState, ws, joins, dialing>>
facade == <<connecting, initialized, currentRoom, callers>>
mesh == <<link, waiter>>
connectVars == <<signaling, facade, mesh, upset, misled>>

ReadyStates ==
  {"unused", "connecting", "open", "closing", "closed", "aborted", "failed"}

ConnectInit ==
  /\ readyState = [s \in Sockets |-> "unused"]
  /\ ws = NoSocket
  /\ joins = NoRoom
  /\ dialing = NoSocket
  /\ connecting = NoSocket
  /\ initialized = FALSE
  /\ currentRoom = NoRoom
  /\ callers = {}
  /\ link = "none"
  /\ waiter = [w \in Waiters |-> "none"]
  /\ upset = FALSE
  /\ misled = FALSE

------------------------------------------------------------------------------
(* connect *)

linked == link = "open"

isConnected == ws # NoSocket /\ readyState[ws] = "open"

\* connect has nothing to do.
AlreadyIn(room) == initialized /\ currentRoom = room /\ isConnected

\* close().
AfterClose(state) ==
  IF state = "connecting" THEN "aborted" ELSE IF state = "open" THEN "closing" ELSE state

\* SignalingClient.disconnect closes the socket in use.
Hangup == [s \in Sockets |-> IF s = ws THEN AfterClose(readyState[s]) ELSE readyState[s]]

\* MeshManager.cleanup: links are closed and the waiters forgotten, not answered.
cleanup ==
  /\ link' = "none"
  /\ waiter' = [w \in Waiters |-> IF waiter[w] = "waiting" THEN "forgotten" ELSE waiter[w]]

\* Whether connect begins with cleanupMesh.
Cleans == isConnected \/ linked

\* A call for the room that is being connected to shares its promise.
JoinDial(room) ==
  /\ ~AlreadyIn(room)
  /\ connecting # NoSocket /\ currentRoom = room
  /\ callers' = callers \cup {connecting}
  /\ UNCHANGED <<signaling, connecting, initialized, currentRoom, mesh, upset, misled>>

\* A call for another room while a socket is opening: SignalingClient.connect returns the
\* promise it has, whatever room that socket will join.
ShareDial(room) ==
  /\ ~AlreadyIn(room) /\ ~(connecting # NoSocket /\ currentRoom = room)
  /\ ~Cleans /\ dialing # NoSocket
  /\ currentRoom' = room
  /\ initialized' = FALSE
  /\ connecting' = dialing
  /\ callers' = callers \cup {dialing}
  /\ misled' = (misled \/ joins # room)
  /\ UNCHANGED <<signaling, mesh, upset>>

\* Faulty variant: the socket in use is not closed.
DialLeavesOpen(room, s) ==
  /\ ~AlreadyIn(room) /\ ~(connecting # NoSocket /\ currentRoom = room)
  /\ Cleans \/ dialing = NoSocket
  /\ readyState[s] = "unused" /\ \A t \in Sockets : t < s => readyState[t] # "unused"
  /\ readyState' = [readyState EXCEPT ![s] = "connecting"]
  /\ ws' = s
  /\ joins' = room
  /\ dialing' = s
  /\ connecting' = s
  /\ initialized' = FALSE
  /\ currentRoom' = room
  /\ callers' = callers \cup {s}
  /\ IF Cleans THEN cleanup ELSE UNCHANGED mesh
  /\ upset' = FALSE /\ misled' = FALSE

\* Faulty variant: disconnect comes after the promise is set, and resets it.
DialThenDisconnect(room, s) ==
  /\ ~AlreadyIn(room) /\ ~(connecting # NoSocket /\ currentRoom = room)
  /\ Cleans \/ dialing = NoSocket
  /\ readyState[s] = "unused" /\ \A t \in Sockets : t < s => readyState[t] # "unused"
  /\ readyState' = [Hangup EXCEPT ![s] = "connecting"]
  /\ ws' = s
  /\ joins' = room
  /\ dialing' = NoSocket
  /\ connecting' = s
  /\ initialized' = FALSE
  /\ currentRoom' = room
  /\ callers' = callers \cup {s}
  /\ IF Cleans THEN cleanup ELSE UNCHANGED mesh
  /\ upset' = FALSE /\ misled' = FALSE

\* Every other call: cleanupMesh if there is something to clean, and a socket of its own.
Dial(room, s) ==
  /\ ~AlreadyIn(room) /\ ~(connecting # NoSocket /\ currentRoom = room)
  /\ Cleans \/ dialing = NoSocket
  /\ readyState[s] = "unused" /\ \A t \in Sockets : t < s => readyState[t] # "unused"
  /\ readyState' = [Hangup EXCEPT ![s] = "connecting"]
  /\ ws' = s
  /\ joins' = room
  /\ dialing' = s
  /\ connecting' = s
  /\ initialized' = FALSE
  /\ currentRoom' = room
  /\ callers' = callers \cup {s}
  /\ IF Cleans THEN cleanup ELSE UNCHANGED mesh
  /\ upset' = FALSE /\ misled' = FALSE

connect(room) ==
  \/ JoinDial(room)
  \/ ShareDial(room)
  \/ \E s \in Sockets : Dial(room, s)

\* Faulty variant: the client goes on remembering the attempt that disconnect gave up.
destroyConnectionRemembers ==
  /\ readyState' = Hangup
  /\ ws' = NoSocket
  /\ initialized' = FALSE
  /\ cleanup
  /\ UNCHANGED <<dialing, joins, connecting, currentRoom, callers, upset, misled>>

\* destroy, as far as it goes here: cleanupMesh, which leaves connectingPromise alone.
destroyConnection ==
  /\ readyState' = Hangup
  /\ ws' = NoSocket
  /\ dialing' = NoSocket
  /\ initialized' = FALSE
  /\ cleanup
  /\ UNCHANGED <<joins, connecting, currentRoom, callers, upset, misled>>

------------------------------------------------------------------------------
(* The events of sockets *)

\* Between its onerror and its onclose a socket lets no other event through.
Between(s) == \A t \in Sockets \ {s} : readyState[t] # "failed"

\* An event of a socket that was replaced.
Upsets(s) == upset \/ s # ws

\* onopen: the room is joined, and everybody who waits for this socket is told.  Peers may
\* be met from now on.
Opens(s) ==
  /\ readyState[s] = "connecting" /\ Between(s)
  /\ readyState' = [readyState EXCEPT ![s] = "open"]
  /\ dialing' = NoSocket
  /\ connecting' = NoSocket
  /\ initialized' = TRUE
  /\ callers' = callers \ {s}
  /\ link' = IF link = "none" THEN "met" ELSE link
  /\ UNCHANGED <<joins, ws, currentRoom, waiter, upset, misled>>

\* Faulty variant: onerror does not reject.
FailsSilently(s) ==
  /\ readyState[s] \in {"connecting", "aborted"} /\ Between(s)
  /\ readyState' = [readyState EXCEPT ![s] = "failed"]
  /\ dialing' = NoSocket
  /\ upset' = Upsets(s)
  /\ UNCHANGED <<joins, ws, facade, mesh, misled>>

\* onerror of a socket that never opened: callers are rejected.
Fails(s) ==
  /\ readyState[s] \in {"connecting", "aborted"} /\ Between(s)
  /\ readyState' = [readyState EXCEPT ![s] = "failed"]
  /\ dialing' = NoSocket
  /\ connecting' = NoSocket
  /\ callers' = callers \ {s}
  /\ upset' = Upsets(s)
  /\ UNCHANGED <<joins, ws, initialized, currentRoom, mesh, misled>>

\* The server begins to close an open socket: isConnected is false from now on, but no
\* handler is called before Closes.
ServerCloses(s) ==
  /\ readyState[s] = "open" /\ Between(s)
  /\ readyState' = [readyState EXCEPT ![s] = "closing"]
  /\ UNCHANGED <<ws, joins, dialing, facade, mesh, upset, misled>>

\* Faulty variant: ShadowCast is not told of a close.
ClosesUntold(s) ==
  /\ readyState[s] \in {"failed", "closing", "open"} /\ Between(s)
  /\ readyState' = [readyState EXCEPT ![s] = "closed"]
  /\ dialing' = NoSocket
  /\ upset' = Upsets(s)
  /\ UNCHANGED <<joins, ws, facade, mesh, misled>>

\* onclose, after an error, after close(), or when an open socket drops.
Closes(s) ==
  /\ readyState[s] \in {"failed", "closing", "open"} /\ Between(s)
  /\ readyState' = [readyState EXCEPT ![s] = "closed"]
  /\ dialing' = NoSocket
  /\ connecting' = NoSocket
  /\ initialized' = FALSE
  /\ upset' = Upsets(s)
  /\ UNCHANGED <<joins, ws, currentRoom, callers, mesh, misled>>

------------------------------------------------------------------------------
(* Links and those who wait for one *)

\* Faulty variant: only a new waiter is told, not those who wait already.
LinkOpensUntold ==
  /\ link = "met"
  /\ link' = "open"
  /\ UNCHANGED <<signaling, facade, waiter, upset, misled>>

\* A first data channel opens, maybe of a peer met over a socket that has since closed.
LinkOpens ==
  /\ link = "met"
  /\ link' = "open"
  /\ waiter' = [w \in Waiters |-> IF waiter[w] = "waiting" THEN "ready" ELSE waiter[w]]
  /\ UNCHANGED <<signaling, facade, upset, misled>>

\* The last one closes.
LinkCloses ==
  /\ linked
  /\ link' = "met"
  /\ UNCHANGED <<signaling, facade, waiter, upset, misled>>

waitForPeers(w) ==
  /\ waiter[w] = "none"
  /\ waiter' = [waiter EXCEPT ![w] = IF linked THEN "ready" ELSE "waiting"]
  /\ UNCHANGED <<signaling, facade, link, upset, misled>>

\* The timer of waitForPeers answers false.
WaitEnds(w) ==
  /\ waiter[w] \in {"waiting", "forgotten"}
  /\ waiter' = [waiter EXCEPT ![w] = "alone"]
  /\ UNCHANGED <<signaling, facade, link, upset, misled>>

------------------------------------------------------------------------------
SocketEvent(s) == Opens(s) \/ Fails(s) \/ Closes(s)

\* A wait is over and its caller may wait again.
WaitReturns(w) ==
  /\ waiter[w] \in {"ready", "alone"}
  /\ waiter' = [waiter EXCEPT ![w] = "none"]
  /\ UNCHANGED <<signaling, facade, link, upset, misled>>

ConnectNext ==
  \/ \E room \in Rooms : connect(room)
  \/ destroyConnection
  \/ \E s \in Sockets : SocketEvent(s) \/ ServerCloses(s)
  \/ LinkOpens
  \/ LinkCloses
  \/ \E w \in Waiters : waitForPeers(w) \/ WaitEnds(w) \/ WaitReturns(w)

\* An attempt to connect ends, with onopen or onerror, and the onclose that an onerror or a
\* close() announces comes.  Nothing is assumed of open sockets, links or callers.
ConnectFairness ==
  \A s \in Sockets : WF_connectVars(readyState[s] # "open" /\ SocketEvent(s))

ConnectSpec == ConnectInit /\ [][ConnectNext]_connectVars /\ ConnectFairness

------------------------------------------------------------------------------
(* Properties *)

\* Every variable has the shape the code gives it; the attempt that the client remembers is
\* of the socket in use, and still under way.
ConnectTypeOK ==
  /\ readyState \in [Sockets -> ReadyStates]
  /\ ws \in Sockets \cup {NoSocket}
  /\ joins \in Rooms \cup {NoRoom}
  /\ dialing \in {ws, NoSocket}
  /\ dialing # NoSocket => readyState[dialing] = "connecting"
  /\ connecting \in Sockets \cup {NoSocket}
  /\ initialized \in BOOLEAN
  /\ currentRoom \in Rooms \cup {NoRoom}
  /\ callers \subseteq Sockets
  /\ link \in {"none", "met", "open"}
  /\ waiter \in [Waiters -> {"none", "waiting", "forgotten", "ready", "alone"}]
  /\ upset \in BOOLEAN
  /\ misled \in BOOLEAN

\* However calls and socket events interleave, the page keeps no websocket alive but the
\* one it uses: a second would make it two peers of its rooms (SignalingClient.connect).
OneLiveSocket ==
  \A s \in Sockets : readyState[s] \in {"connecting", "open"} => s = ws

\* A page that counts itself as connected is connected, or its socket is just closing, and
\* that socket joined the room it was last asked to connect to, unless that call came while
\* a socket for another room was opening and was given that socket's promise
\* (ShadowCast.connect, SignalingClient.connect).
InitializedInRoom ==
  initialized =>
    /\ ws # NoSocket /\ readyState[ws] \in {"open", "closing"}
    /\ joins = currentRoom \/ misled

\* The two layers remember the connection in use: the attempt while it lasts, and then that
\* it succeeded, so that later calls neither hang up nor dial again.  Only an onerror or
\* onclose of a socket that had been replaced makes them forget (SignalingClient.onclose).
RememberedUnlessUpset ==
  ws # NoSocket /\ ~upset =>
    /\ readyState[ws] = "connecting" => dialing = ws /\ connecting = ws
    /\ readyState[ws] = "open" => initialized

\* Nobody waits for peers while a link is open, but those whom a cleanup has forgotten and
\* who have to wait for their timer (MeshManager.waitForPeers, notifyPeerWaiters, cleanup).
WaitersToldOfLinks ==
  linked => \A w \in Waiters : waiter[w] # "waiting"

\* Every call of connect is answered: a promise that callers were given settles, also when
\* its socket is replaced before it opens.
CallersAnswered ==
  \A s \in Sockets : []<>(s \notin callers)

==============================================================================
