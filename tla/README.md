# A TLA+ model of ShadowCast

ShadowCast lets the browsers that visit a site fetch its assets from each other. A TypeScript
library (`src/library`) runs in every page; a Go server (`src/signaling`) introduces the pages of a
room to each other; the pages then open WebRTC data channels and stream assets in chunks, with
their own cache and plain HTTP as the alternatives.

This directory holds TLA+ modules of the parts of it that are concurrent, the TLC configurations
that check them, and proofs for the TLA+ proof system. The modules follow the code, not its
documentation; where the two disagree a run shows it (see *Findings*).

    tlc -config transfer.cfg MCChunkTransfer      # any run of PROJECT.json
    tlapm ChunkTransferProofs.tla                 # any module named ...Proofs

## 1. The system

| Part | State | Operations | Talks to |
|---|---|---|---|
| Signaling server (`main.go`) | `rooms`, `clientsById`, `client.room`, behind `globalMu` | join, relay, disconnect | every page, over websockets |
| Signaling client, `connect` | `ws`, two `connectingPromise`s, `currentRoom`, `initialized` | connect, disconnect, send | server, mesh, facade |
| Mesh (`MeshManager`, `PeerConnection`) | `peers`, `peerWaiters`, the RTCPeerConnections | offer, answer, disconnect, `waitForPeers` | server through the client; other meshes |
| Chunked transfer (`ChunkSender`, `ChunkReceiver`) | `chunkBuffers`, `pendingChunkMeta` | `sendBlob`, `handleMessage`, reassembly | data channels; facade by callbacks |
| Swarm scheduling (`PiecePicker`) | `swarmAvailability`, `activeAssignments` | register, plan, unregister, clear | facade handlers |
| Asset requests (`ShadowCast`) | `assetResolvers`, `assetUrlsById` | `requestAsset`, `requestAssetBlob`, fallback, `destroy` | everything above |
| Cache (`CacheManager`, stores, `LRUPolicy`) | the store, `objectUrls` | get, set, clear, eviction | facade |
| Interception (`sw.ts`, `ServiceWorkerManager`) | one MessageChannel per fetch | intercept, answer, time out | facade |
| Rate limiter, configuration, metrics | tokens, counters | allow | server |

A page runs one task at a time, so a TypeScript function is atomic up to its next `await`; handlers
are mostly *not* awaited by whoever calls them, so they overlap at their awaits. The Go server runs
one goroutine per websocket, atomic only in the sections under its lock. Nothing persists but the
IndexedDB store; the failures that matter are links, websockets and fetches.

What is hard in each part, and what makes it correct:

* **Transfer.** Binary messages carry no index and get theirs from the metadata before them; two
  SHA-256 digests are awaited in the middle of the receiver, and state read before them is used
  after them; peers may hold different versions of one asset. Correct if a chunk lands in its own
  place, what is delivered is one whole version, checks never fail for honest peers, and a stream
  that arrives whole is delivered.
* **Requests.** A call is answered by the cache, by an asset that comes in, by a timer's fallback or
  not at all; the resolvers are kept per asset and not per call. Correct if every call is answered,
  once, and the blob it was promised is there.
* **Signaling.** A join takes five steps, and disconnections run in two goroutines at once. Correct
  if the members of a room know each other and nobody else, rooms keep to their limit, and no
  goroutine waits for ever.
* **Mesh.** Both sides may offer, handlers overlap, websockets come back under another id. Correct
  if every two pages of a room end up with one link, and no page with half of one.
* **Connect.** Two layers each remember a connection under way, and a replaced socket still fires.
  Correct if the page has one live websocket, counts as connected only when it is, in the room it
  was asked for, forgets no connection in use, and answers whoever waits.
* **Swarm.** Assignments expire, peers leave, and requests give up on clocks of their own. Correct
  if nothing stays with a peer that is gone, and whatever is missing is still to come.
* **Cache.** Checking the bounds, evicting and storing are separate transactions. Correct if what
  goes is the least recently used, and what stays fits.
* **Interception.** The worker's timeout races the page's answer, and the page's own fetches are
  intercepted too. Correct if every fetch is answered.
* **Rate limiter.** Tokens accrue with time and go with messages. Correct if bursts are bounded and
  only excess is refused.

`PROJECT.json` lists the hazards at their lines, with the properties that cover each one.

## 2. The modules

| Module | Models | Status |
|---|---|---|
| `AssetDelivery` | what the transfer promises to the rest of the library | abstract specification |
| `ChunkTransfer` | `ChunkSender.sendBlob`, the data channels, `ChunkReceiver` | checked, proved, implements `AssetDelivery` |
| `ChunkTransferProofs` | theorems about it | 6 theorems |
| `AssetRequest` | `requestAsset`, `requestAssetBlob`, fallback, deliveries, cache facade | checked, proved |
| `AssetRequestProofs` | theorems about it | 4 theorems |
| `SignalingServer` | the Go server | checked, proved |
| `SignalingServerProofs` | theorems about it | 4 theorems |
| `Mesh` | `MeshManager` and `PeerConnection` in every page, over an orderly server | checked, proved |
| `MeshProofs` | theorems about it | 3 theorems |
| `Swarm` | `PiecePicker` and the handlers of bitfields, pieces, requests and departures | checked, proved |
| `SwarmProofs` | theorems about it | 5 theorems |
| `Connect` | `connect` of `ShadowCast` and `SignalingClient`, `waitForPeers` | checked, proved |
| `ConnectProofs` | theorems about it | 5 theorems |
| `Cache` | `MemoryCache`, `IndexedDBCache`, `LRUPolicy` | checked and proved within `Interception` |
| `Interception` | `sw.ts`, `ServiceWorkerManager`, `requestAssetBlob` over `Cache` | checked, proved |
| `InterceptionProofs` | theorems about it and `Cache` | 3 theorems |
| `RateLimiter` | `ratelimit.go` | checked, proved |
| `RateLimiterProofs` | theorems about it | 3 theorems |
| `MC...` | the small instances of the runs | |

Definitions named "Faulty variant" are not part of a specification: each is a definition with one
plausible mistake in it, put there to see that the properties notice.

### ChunkTransfer

`stream` is the calls of `sendBlob` at the peers, `channel` the ordered data channels, `pending`
`pendingChunkMeta`, `current` the map `chunkBuffers`, and `bufs` every buffer object ever made,
because a task that awaits a digest keeps a buffer that the map may have lost. `hashing` and
`assembling` are the tasks behind the two awaits (`hashBuffer`, `hashBlob`), and end in any order.
A chunk is the pair of its blob and its index, which stands for its bytes and its digest; a blob
stands for the digest of an asset. `SendChunk` is one turn of the sender's loop, `SendFails` a send
that returns false or throws, also between a chunk's metadata and its data. The branches of
`storeBinaryChunk` are `DropOrphan`, `DropUnbuffered`, `DropDuplicate`, `HashChunk` with
`ChunkHashed`, and `StoreUnverified`. `sendBlob` awaits the digest of what it sends: that delay is
the freedom of `SendChunk` to come at any time.

### AssetDelivery

Peers offer blobs; a delivery is a whole copy of an offered blob, under that blob's asset, and is
never withdrawn. `ChunkTransfer` maps `offered` to the blobs of its streams and keeps `delivered`.

### AssetRequest

`pc` and `http` say where each call and its fallback are; `resolvers` is `assetResolvers`, one per
URL; `timers` are the `setTimeout`s in the order they fire, which is the order they were set in, as
all have the same delay. `delivery` is the calls of `handleAssetReassembled`, split at the await of
`cacheManager.set` and at that of `getObjectUrl`. What transfers promise is all it knows of them:
assets that were asked for may arrive early, late, twice or never. The store may keep, lose or
refuse a blob, and a read of it or a `clear` may fail, which `IndexedDBCache` swallows: a read that
failed finds nothing (`FindsNothing`). `StoreCleared` is the second half of `clear`. Two histories
serve the properties: `lost`, the URLs whose blob the cache refused, evicted or cleared and has not
stored since, and `overtaken`, the calls whose entry in `assetResolvers` was replaced or removed by
another call, its timer or its delivery, or by `destroy` (`Overtake`).

### SignalingServer

A section under `globalMu.Lock` is an action, and what happens between sections is another. The
loop of `joinRoom` that announces a newcomer holds `RLock` and is a write per step, with everybody
who needs the lock waiting. `spawned` counts the `go handleDisconnect(c)` of failed writes,
`farewells` the `peer-left`s that a `handleDisconnect` has still to write. `known` is what a page
has been told: the peers it believes to be in the room. A websocket is open, lost (the page is gone
but writes succeed) or broken (writes fail). Three histories name the races of the code: `forgotten`,
the rooms that a later join overwrote in `client.room`, or that a spawned `handleDisconnect` cleared
there before the client was added to them; `untold`, the clients for which such a goroutine ran
between their addition and their `peer-joined`; and `crossed`, a `peer-left` that overtook the
`room-peers` of its receiver.

### Mesh

Every browser has its own id (`ShadowCast.peerId`) and knows others by the ids the server gave
their websockets, here `ids`. `peers[b][s]` is b's PeerConnection to websocket s with its
`signalingState`, the connection its remote description is of (`far`), its data channel, and its
`chain`: the asynchronous operations called on it and not ended, which a browser performs one after
the other. A message is handled up to its first await; the end of an operation is an action with
the code that awaited it, which may call the next operation, send, or go on with the loop over
room-peers (`rest`). Closing a connection drops its chain, and with it the handlers that wait there.
The RTCPeerConnection itself is external: the module takes from its specification which states
admit which descriptions, and that a remote offer rolls back a local one.

### Swarm

The download of one asset. `avail` is `swarmAvailability` and `assigned` `activeAssignments`, each
entry with its age and, for the properties, whether a request was under way when it was made.
`requestAsset` asks every open peer; those that have the asset (`serve`) announce and stream it, and
a bitfield has the missing pieces planned and asked for, in the same step as `planPieceRequests`.
`coming` is what each peer has still to send, in any order. `timers` are the `p2pTimeout`s by age:
they and the assignments grow old together, in ticks, and a timer is at most `Lateness` late. A
piece is stored or lost at once, since `ChunkTransfer` has the metadata and digests in between;
completing the asset is one step, and the await of `handleAssetReassembled` another. Copies are not
counted: where there may have been several of a message, a timer or a delivery, one more may or may
not come. The set of peers that `planPieceRequests` goes through is in the order of the mesh's map,
which may be any.

### Connect

`readyState` has a websocket from its making to its `onclose`. `dialing` and `connecting` are the
two `connectingPromise`s, named by the socket they will settle with, `joins` the room that the
`onopen` of the socket in use will join, and `callers` the sockets whose promise somebody awaits. A
call of `connect` either has nothing to do, shares a promise (`JoinDial`, `ShareDial`), or hangs up
and dials (`Dial`). The handlers of a socket close over the client and are never taken off, so
`Opens`, `Fails` and `Closes` are events of any socket, also of one that was replaced; between its
`onerror` and its `onclose` no other socket has an event. A socket that the server begins to close
(`ServerCloses`) is no longer `isConnected`, although no handler has been called yet: until its
`onclose` the page still counts as connected, and `InitializedInRoom` says so. `upset` and `misled`
record the two ways in which the code goes wrong: an event of a replaced socket, and a promise for
another room.

### Cache

A store is the set of its URLs, those of them whose TTL has not passed (`fresh`), and two orders,
by last access and by time of storing, each a set of pairs. What the two passes of
`findEvictionCandidates` choose is said without the passes: whatever has expired, and every entry
that, with all those used after it, leaves no room for the new one. The order in which they are
deleted is the list that `EvictionLists` admits. The in-memory store sets in one step.
`IndexedDBCache.set` lists the store and chooses (`BeginSet`), deletes one entry at a time
(`EvictNext`), and puts (`EndSet`), with every other operation in between; any transaction may fail,
which `set` does not tell its caller.

### Interception

`worker` and `task` are the two ends of an intercepted fetch, in the service worker and in the page:
the worker asks a client, which may be this page, a window that does not listen, or nobody, and goes
to the network when its timer fires or the answer is a failure. The page's task is
`requestAssetBlob`, with the lookup, the object URL, the acquisition by swarm or fallback, the store
and the second lookup as steps over `Cache`. A fallback's `fetch` is an intercepted fetch of its
own, `by` the task that made it.

### RateLimiter

A bucket of `Grain`-th parts of a token, which a tick of time adds `Rate` of. `allowed` is the
history that the bounds speak of.

## 3. The runs

| Run | Instance | Shows |
|---|---|---|
| `transfer` | 2 peers, 2 streams, an asset in two versions of 2 and 1 chunks, verification on | `TypeOK`, `ChunkPlacement`, `NoFalseAlarm`, `OnlyOrphansAreLost`; implements `AssetDelivery` (`DeliversWholeBlobs`) |
| `transfer_unverified` | the same, verification off | `ChunkPlacement`, `FullStreamReassembles` |
| `transfer_lost` | one stream, verification on | **violates** `FullStreamReassembles` |
| `signaling` | 3 websockets, a room of 2 places, 1 join each, 2 go down | `TypeOK`, `MutualDiscovery`, `NoGhostMembers`, `StaleViewsOnlyByRace` |
| `signaling_progress` | 2 websockets, 2 rooms, 2 joins each, 1 goes down | `NoGhostMembers`, `JoinCompletes`, `DownIsForgotten` |
| `signaling_capacity` | 3 websockets, a room of 2 places | **violates** `RoomCapacity` |
| `request` | 2 calls for a URL, one of them for its blob, 2 deliveries, 1 outage, losses, `destroy` | `TypeOK`, `ResolverGuarded`, `WaitingInSomeHands`, `BlobMissingOnlyIfLost`, `CallsSettle` |
| `request_hang` | the same with no failure, loss or `destroy` | **violates** `EveryCallSettles` |
| `mesh` | 2 browsers, 3 websockets, 1 trouble | `TypeOK`, `AlignedPairsLink`, `NoHalfLinks` |
| `mesh_glare` | 2 browsers, no trouble | **violates** `GlareFree` |
| `swarm` | 2 peers, 2 pieces, a timer of 1 tick, expiry after more than 1 | `SwarmTypeOK`, `AssignedArePeers`, `OnlyIdleAssignmentsExpire`, `FailoverByStream`, `PlannedUnlessDropped` |
| `session` | 2 fetches of 2 URLs over a store of size 2, 1 failed transaction; or 3 websockets, 2 rooms, 1 waiter; or 2 messages a second for 8/3 s | `TypeOK`, `BoundsKept`, `EvictsLeastRecent`, `FetchAnswered`; `ConnectTypeOK`, `OneLiveSocket`, `InitializedInRoom`, `RememberedUnlessUpset`, `WaitersToldOfLinks`, `CallersAnswered`; `LimiterTypeOK`, `BurstBounded`, `RefusesOnlyExcess` |

`session` is three systems in one run. They share no variable in the modules and the code they stand
for meets only in `ShadowCast`'s calls, which each module already makes at any time, so the run
chooses in its initial state which one moves: interleaving them would multiply the states and show
nothing more of any.

Bounds, and why they are enough for these questions:

* `Streams`: two calls of `sendBlob`. Two streams can share a link or not, be of one version or of
  two, be full or ask for pieces, and each pair of these meets. A third adds no new pair.
* `MaxChunks`: 2, the least for which the metadata of one chunk can overtake the digest of
  another, for holes, and for versions of different length. The theorems hold for every number.
* `Clients`: three websockets, the least at which two newcomers and a member, or a departure, a
  newcomer and a witness, meet. `MaxJoins` is 1 in `signaling`, as the library sends one `join` per
  websocket, and 2 in `signaling_progress`, which is what lets a client change rooms. `MaxSpawned`
  saturates: one unfinished `handleDisconnect` of a client does what several do, as all but the
  first find `client.room` empty unless the client has joined again. `MaxDown` leaves a witness.
* `Calls`, `Deliveries`: two calls of one URL, where every interaction of resolvers is; calls for
  different URLs share only the cache. Two deliveries, so that one may come late after another.
  `MaxOutages`: one failure of connect or fetch; each call's failure is seen. `Teardown` and
  `Losses` switch `destroy` and the cache's losses and failures off where a run is about their
  absence. A call is excused by the properties only if its own entry was taken, so the two calls
  that share a URL are held to an answer in every behaviour in which the code keeps their entries.
* `MaxSessions`: 3, so that one of two browsers may rejoin. `MaxTroubles`: one websocket that drops
  or is given up, or one link that fails. `Draws` in `mesh`: the ids are such that, depending on
  which browser makes which websocket, offers cross, or one side offers, and this changes with the
  rejoin. Pairs of which neither side offers have no behaviour to check.

* `swarm`: two peers and two pieces, so that a piece can move from one peer to another and be sent
  by both, and the asset be complete or not. `P2PTimeout + Lateness = ReassignAfter` is the tightest
  case of `TimelyTimeouts`: 5 seconds and a second's lateness against 6. `p2pTimeout` is
  configurable, and `OnlyIdleAssignmentsExpire` alone supposes it to be in time.
* `session`: two fetches, one of which may be the other's fallback, and two URLs of which the store
  holds one or the smaller and itself; a set of one evicts while the other's reads, puts or clears.
  Three sockets: one in use, one replaced, one to come. Three quarters of the limiter's time
  fill an empty bucket, so that bursts, refusals, and times between them all occur; the theorems are for
  every rate and time.

The runs but `swarm` switch deadlock checking off since their systems may come to rest: streams end,
clients go, sockets and ticks run out, nobody asks for anything.

`AlignedPairsLink`, `StaleViewsOnlyByRace`, `NoGhostMembers`, `OnlyOrphansAreLost`,
`WaitingInSomeHands`, `CallsSettle`, `InitializedInRoom`, `RememberedUnlessUpset` and
`PlannedUnlessDropped` have this form in common: what ought to hold, or one of a few named reasons.
The reasons are ways in which this code does fail. Such a property does not catch the failure it
excuses: it shows that there is no other, and the reason is a history of one event of the clients,
sockets or calls concerned, so that it excuses only them. `NoGhostMembers` excuses a client that is
gone only in the very room that was forgotten, `StaleViewsOnlyByRace` only a ghost in the room of
who still counts it, and `CallsSettle` only a call whose own entry was taken. For `AlignedPairsLink`
they are recorded in `missed`: a link that failed (nobody offers again), a connection that a dropped
websocket left half negotiated (it is still in the map after the rejoin, so no offer is made), and a
loop over room-peers that ended early because an offer of it was refused or its connection closed.

**Fairness.** Four specifications state it. `SignalingServer`: goroutines that can run do, and the
sections under the lock end: the Go scheduler and the code's `Unlock`s. Nothing is assumed of
clients and networks, so no join, failure or message need ever happen. `AssetRequest`: awaited
promises settle and timers fire. Connecting ends with an `onopen`, `onerror` or `onclose` of the
browser, waiting for peers with its timer, a fetch with an answer or a failure. Nothing makes the
swarm deliver or anybody call. `Connect`: the browser ends an attempt to connect with an `onopen` or
an `onerror`, and fires the `onclose` that an `onerror` or a `close()` announces, as the WebSocket
standard demands; open sockets need never close. `Interception`: the worker's timers fire and the
fetches it makes itself end; nothing is assumed of the page, which may be deaf or stuck.
`ChunkTransfer`, `Mesh`, `Swarm` and `RateLimiter` are checked for safety: what they owe in
the end is stated of the states in which nothing is in flight (`Quiet`).

## 4. Findings

* **A whole stream may never complete** (`transfer_lost`). `storeBinaryChunk` deletes the peer's
  pending metadata after the digest (`ChunkReceiver.ts:125`), when it may be that of the next chunk,
  whose data is then dropped. With verification off there is no await there and
  `transfer_unverified` shows the property to hold.
* **A room exceeds its limit** (`signaling_capacity`). The limit is checked in one locked section
  (`main.go:207`) and the client added in another.
* **A call is never answered** (`request_hang`). A second call for a URL replaces the resolver of
  the first (`ShadowCast.ts:231`), and the timer or delivery that comes first removes it for both.
* **Offers cross, and both sides wait** (`mesh_glare`). `src/README.md` promises "glare-free"
  negotiation, but each side compares its own UUID with the id the *server* gave the other
  (`MeshManager.ts:27`), so both may offer. When both offers are out each side ignores the other's.
  It follows from the same line that neither may offer.

## 5. The proofs

Every proof module shows an inductive invariant and derives the theorems. Of the constants it assumes
what the `ASSUME`s of its system say, which TLC evaluates in the runs: kinds, a number of chunks for
each blob, that `None` or `Free` is none of the values it is told from, and that rates are positive.
Streams,
assets, versions, calls, URLs, deliveries, rooms, waiters and (but in `Swarm`) peers may be any
number, also infinite.

**ChunkTransferProofs.** `TransferInv` is `TypeOK` with

* `LinkInv`: what is on a channel, and what is pending at its end, is of a version that was offered,
  and right before the data of a chunk comes its own metadata, on the channel or already pending
  (or nothing is pending, and the data will be dropped): the batches of two streams alternate on a
  link but never mix;
* `BufferInv`: a place in a buffer holds the chunk of that place, of a version that was offered, of
  the asset the buffer is for, and the buffer's length and hash are those of such versions;
* `CurrentInv`: the map points to buffers of the right asset;
* `HashInv`, `AssemblyInv`: what tasks captured before their await still agrees with the buffer
  they hold.

`ChunkPlacement` is not inductive alone: that a chunk goes to its own place depends on the metadata
pending when its data comes, and so on the order on the channel. From `TransferInv` follow
`TypeCorrect`, `PlacementCorrect`, `NoFalseAlarms`, and, with `VerifyIntegrity`,
`TransferImplementsDelivery`: `AssetHashed` is a `Deliver` since the digest admits only `Content`
of an offered blob, `StartStream` an `Offer`, and every other step a stutter.

`OnlyOrphansAreLost` speaks of states at rest only, so what it rests on is an account of every
chunk before that. `DeliveryInv` adds to `TransferInv`

* `NothingVanishes`: while an asset that is wholly sent over an open link has not been delivered,
  each of its chunks is still to be sent, in flight, being hashed, in the buffer that counts, or
  orphaned;
* `CapturedInv`: pending metadata has a buffer, and a digest that runs holds the buffer that the map
  holds, unless the asset has been delivered: only a delivery or the end of the page replaces one;
* `TriedInv`: a buffer that has all its chunks is being assembled, for whoever put its last chunk
  tried, and with one version around no assembly fails (`HonestHashes`);
* `SentInv`: streams and metadata have chunks of their blob only, so that no buffer is whole from
  the beginning.

At rest nothing is left of `NothingVanishes` but the buffer and the orphans, and a whole buffer
contradicts `TriedInv`: `LossesAreOrphans`. Without verification no digest runs and data at the head
of a channel always finds its metadata (`Immediate`), so there are no orphans:
`UnverifiedTransfersComplete`.

**AssetRequestProofs.** `ResolverInv` is `TypeOK`, `ResolverGuarded`, `EarlyInv` (a call that has not
yet asked the swarm has neither timer nor fallback) and `DeliveryInv` (a delivery that holds a
resolver holds one of a call that has asked, for its own URL, and once the asset is stored that
call's entry is out of the map). Without them the call that enters its resolver could be one that is
already falling back, and a delivery could settle a call whose entry stays.
`WaitingInSomeHands` is inductive with `TypeOK` (`HandsInv`): an entry goes to the delivery or the
fallback of its own call, or its owner is `overtaken`, and a delivery or fallback that is done has
answered its call. So no other call is ever left waiting with nobody to answer it
(`NoOtherCallIsForgotten`). `CacheInv` says that the
URLs with an object URL, and those of calls, fallbacks and deliveries that are past storing the
blob, are in the store or were lost; so the read that misses the blob finds it gone or fails, which
is `MissingOnlyIfLost`.

**ConnectProofs.** `ConnectInv` joins the properties with `RoomSettled`: the socket in use joins the
room last asked for, unless its promise was shared with a call for another. `OneLiveSocket` carries
the others: a socket that opens is the one in use, so what its `onopen` writes is about that one,
and any other event is of a socket that was replaced and upsets it.

**SwarmProofs.** `SwarmInv` adds two conjuncts to the properties. `Watched` says that while a
request waits one of its timers runs, and that an assignment made during a request is no older than
some timer that runs: a timer that fires either ends the request, which clears the assignments, or
finds none waiting. `OnlyIdleAssignmentsExpire` follows where timers are in time. `ExpiredWereIdle`
says no more than that: pieces may be asked for twice within a request, when an assignment from
before it expires or its peer leaves. `OwedAreOpen` says that who owes the rest of a stream is
linked: without it a peer that opens again would owe what was lost with its first channel.

**RateLimiterProofs.** `Spent` bounds from above what passed since a message together with what the
bucket holds, `Earned` from below, since some message that found the bucket full or since the
beginning. What holds at the last refill holds now, as time only adds to the bucket: the first gives
`BurstBounded`, the second that a message that finds no token is one too many.

**SignalingServerProofs.** `SignalingInv` is `TypeOK` with

* `Discovery`: of two live members of a room, one knows the other, has its name in `existingPeers`,
  or is on the list of the other's announcing loop, or the other has not come to that loop yet.
  `MutualDiscovery` is what is left of it when both joins are done;
* `Announced`: whom the loop has still to tell is a member with the one it announces, as nobody
  leaves while it holds `RLock`, and `Views`: whom a live client counts, or is about to be told of,
  is a member with it or its `peer-left` is on its way, but for `untold` and `crossed`.
  `StaleViewsOnlyByRace` follows;
* `Membership`: a client is a member of `client.room`, or of a room that was forgotten; before it is
  added to a room, that room is `client.room` or already forgotten; and `client.room` is empty once it
  is gone. It gives `NoGhostMembers`, for any number of joins;
* `Connections`, `Locals`: cleanups and failed writes are of connections that are down, and the
  goroutines' locals are empty where the code does not use them.

**InterceptionProofs.** `InterceptionInv` is the invariant of the store, `CacheInv`, with what the
calls of `set` have to do with the page's tasks. `RoomLeft` says of a call of `set` that was alone
since it looked that without what it has still to evict the store has room for its blob, so that its
put keeps `BoundsKept`; sizes are the numbers of elements of `Bytes`, which makes their arithmetic
one of finite sets. `OldestChosen` says of the entries it has still to evict that each, unless it
was used since, comes in the order of access before all it spares: with entries that others store,
renew and delete in the meantime, `EvictsLeastRecent` needs it of every entry chosen. That a choice
leaves room, however many entries there are, rests on `Earliest`: of finitely many entries in an
order one comes before all the others, the one with the fewest before it.

**MeshProofs.** `NoHalfLinks` is about states at rest; before that, a description that is held is one
half of a link that is under way. `MeshInv` follows it:

* `Negotiations`: what `signalingState`, `far` and the chain of one connection have to do with each
  other. A local offer is only begun on a new connection, at most remote offers come before it, and
  a connection that has a remote offer has the operations of its answer before it;
* `Places`, `References`: a connection is made for one browser and one websocket, the numbers of a
  browser's connections do not come back, and what is known of another browser under a websocket's
  id, in messages, operations or `far`, is a connection it made for the session of who knows it. If
  that connection is still there although the other has left, its `peer-left` is on the way;
* `Answers`: a connection without a remote description that the other side knows is in
  have-local-offer, and no answer was made from it. It is why an answer that arrives late, or for a
  connection that was replaced, completes no link halfway;
* `Handshakes`: if one end has the other's description, then the other has one too, or an answer is
  to be sent, is in an inbox, or a description is among its operations. At rest only the first is
  left, and `References` says whose description it is;
* `Sockets`: a websocket is one browser's, and the server knows it.

Every step but those of `Join`, `SocketDrops`, `cleanupMesh` and `Depart` is shown to be one of
`Moves` and `Messages`, which say what may become of one connection and of one message; that those
keep `MeshInv` is shown once. An action per operation remains, and each shows what it does to the
chain (`Advances`), a lemma about one connection outside time. The others only take connections and
messages away (`Shrinks`), or add a websocket nobody has met.

`AlignedPairsLink` says of two browsers at rest not only that nothing is half done but that
something was done at all. `PairInv` follows what is still owed to a `Pair`, two browsers of the
room that have not given each other up (`missed`):

* `Told`: who is to make the offer to the other has a connection to it, or is `Pending` to hear of
  it: in the peer-joined still to be sent, in a message on its way, or in what a loop over
  room-peers has still to visit, which waits in the operations of a third browser's connection;
* `Starting`: a connection without a description is about to offer, or to take an offer;
* `Bidding`: an offer of the one that is out has reached the other, unless that one would make
  offers itself: it is in its inbox, among its operations, or taken. Without `~shouldInitiate` it
  is false, for `handleOffer` ignores an offer that collides with its own;
* `Living`: what one knows of the other is a connection that is in use and made for it, so that
  neither `disconnectPeer` nor a failed connection ends it;
* `Known`: nobody has heard of a websocket that is not made yet, and a peer-left is of no member.

`Keeps` is what a step must not take from a pair, one clause for each of these. That a loop keeps it
although it begins one connection and waits there with the rest of its list (`LoopKeeps`), and that
a connection that goes on forgets no loop but the one that goes on or fails (`Retains`), is what the
overlapping handlers come down to. At rest nothing is pending, so the one has a connection, and by
`Starting`, `Bidding` and `NoHalfLinks` a link.

Checked by TLC only: the liveness properties (`CallsSettle`, `JoinCompletes`, `DownIsForgotten`,
`FetchAnswered`, `CallersAnswered`), which are beyond the proof system.

## 6. What is left out

* Servers: `broadcastToRoom`, which is for messages without a target, and no client sends one;
  authentication, HTTP endpoints, shutdown, configuration and metrics. Writes end: a page that stops
  reading may block the server's writer for ever, for the code sets no deadline, and that is a
  hazard without a property. The limiter's floating-point numbers are exact.
* Transfer: progress callbacks, and blobs of no bytes, which are never delivered.
* Requests: the statistics and events, mime types. A failure to connect rejects a call although
  HTTP might serve it; that counts as an answer.
* Mesh: ICE candidates, `broadcast` and `sendToPeer`; a connection attempt under way is one step
  here, and `Connect`'s there.
* Swarm: several assets, which share no state but the 5 seconds each has; bitfields of parts, which
  no peer announces. What a peer will send is decided when it is asked.
* Cache: `delete` and the size queries by themselves; two accesses at the same millisecond. A blob
  larger than the store is stored all the same, and `BoundsKept` excepts it.
* Interception: the worker's life cycle and its filter on URLs.
* Formats, digests, identifiers and events are data: a value stands for its digest, a URL for its
  asset identifier. The demo's pages only show the library.

Three remarks that no run makes, as no line of the repository promises otherwise. The page's own
HTTP fallback is intercepted by its worker, which may ask the same page for it, so that a fallback
can cost another 8 seconds. A dropped websocket makes the next request take down links that work
(`ShadowCast.ts:181`). The 6 seconds after which a piece would be asked of another peer outlast the
default 5 of the request. An assignment made while a call waits is therefore cleared before it
expires (`ExpiredWereIdle`), and a peer that then does not send is not replaced for that call; only
an assignment that a late bitfield made while nobody waited may expire and be made anew in a later
request, and only a longer `p2pTimeout` would let others. What `src/README.md` calls failover is
within a call mostly the work of the full streams that every peer sends besides
(`FailoverByStream`).

## 7. Plan

Every component that carries the protocol has its module, and each of these its proofs. What remains:

1. `ChunkTransfer` with retries, so that the buffer kept after a failed check
   (`ChunkReceiver.ts:152`) has its property.
