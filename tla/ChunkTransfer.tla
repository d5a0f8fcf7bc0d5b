---------------------------- MODULE ChunkTransfer ----------------------------
(***************************************************************************)
(* The chunked transfer of assets into one browser: ChunkSender.sendBlob   *)
(* at the peers that hold an asset, the ordered RTCDataChannel of each     *)
(* peer, and ChunkReceiver at the browser that wants it.                   *)
(*                                                                         *)
(* Everything between two awaits of the TypeScript is one action, because  *)
(* a browser tab runs one task at a time.  The awaits are the two SHA-256  *)
(* digests of the receiver (hashBuffer of a chunk, hashBlob of the         *)
(* assembled asset); they run off the event loop and end in any order, so  *)
(* the continuations after them are actions of their own that work on the  *)
(* objects captured before the await.                                      *)
(*                                                                         *)
(* A chunk is [blob, index]: that pair stands for its bytes and for their  *)
(* digest, and a blob stands for the digest of the whole asset.  Two blobs *)
(* of one asset are two versions of it in the caches of different peers.   *)
(***************************************************************************)
EXTENDS Naturals, Sequences, FiniteSets

CONSTANTS
  Peers,            \* the peers the browser has a data channel to
  Assets,           \* asset identifiers (getAssetId of a URL)
  Blobs,            \* the contents peers hold
  AssetOf,          \* the asset a blob is a version of
  TotalOf,          \* the number of chunks of a blob, Math.ceil(size / chunkSize)
  MaxChunks,        \* bound: the largest number of chunks of a blob
  Streams,          \* bound: the calls of sendBlob in a behaviour
  VerifyIntegrity,  \* ShadowCastConfig.verifyIntegrity
  None              \* absent

Index == 0..(MaxChunks - 1)
Chunk == [blob : Blobs, index : Index]

Stream == [peer : Peers, blob : Blobs, todo : SUBSET Index, full : BOOLEAN,
           phase : {"sending", "finished", "failed"}]

ASSUME TransferAssumption ==
  /\ MaxChunks \in Nat
  /\ AssetOf \in [Blobs -> Assets]
  /\ TotalOf \in [Blobs -> 0..MaxChunks]
  /\ VerifyIntegrity \in BOOLEAN
  /\ None \notin Chunk \cup Stream

VARIABLES
  stream,      \* the calls of sendBlob: what is left to send, to which peer's link
  channel,     \* the messages in flight on the data channel of each peer, in order
  open,        \* the peers whose data channel is open
  pending,     \* ChunkReceiver.pendingChunkMeta
  bufs,        \* every ChunkBuffer object made, for tasks hold on to deleted ones
  current,     \* ChunkReceiver.chunkBuffers: the buffer of an asset, 0 for none
  hashing,     \* storeBinaryChunk calls that await hashBuffer
  assembling,  \* tryReassemble calls that await hashBlob
  delivered,   \* the calls of onAssetComplete so far
  orphaned     \* history: chunks dropped because no metadata was pending

link == <<channel, open>>
vars == <<stream, channel, open, pending, bufs, current, hashing, assembling,
          delivered, orphaned>>

\* `src' says which stream a message is of; it is not on the wire.
Message ==
  [kind : {"meta", "data"}, src : Streams, chunk : Chunk]
    \cup [kind : {"done"}, src : Streams, blob : Blobs]

Buffer == [asset : Assets, total : 0..MaxChunks, hash : Blobs,
           received : [Index -> Chunk \cup {None}]]

HashTask == [src : Streams, peer : Peers, meta : Chunk, data : Chunk, buf : Nat]

\* What sets off a reassembly: chunk `at' of a stream, or its chunk-done (MaxChunks).
Cause == Streams \X (0..MaxChunks)

Parts == UNION {[0..(n - 1) -> Chunk] : n \in 0..MaxChunks}

AssemblyTask == [id : Cause, buf : Nat, asset : Assets, parts : Parts]

Content(b) == [i \in 0..(TotalOf[b] - 1) |-> [blob |-> b, index |-> i]]

Init ==
  /\ stream = [s \in Streams |-> None]
  /\ channel = [p \in Peers |-> <<>>]
  /\ open = Peers
  /\ pending = [p \in Peers |-> None]
  /\ bufs = <<>>
  /\ current = [a \in Assets |-> 0]
  /\ hashing = {}
  /\ assembling = {}
  /\ delivered = {}
  /\ orphaned = {}

------------------------------------------------------------------------------
(* ChunkSender.sendBlob *)

receiver == <<pending, bufs, current, hashing, assembling, delivered, orphaned>>

\* Faulty variant: the number of chunks is rounded down, so the last is not sent.
StartStreamRoundedDown(s, p, b, wanted) ==
  /\ stream[s] = None
  /\ LET all == 0..(TotalOf[b] - 2) IN
       stream' = [stream EXCEPT ![s] =
         [peer |-> p, blob |-> b, full |-> wanted = {}, phase |-> "sending",
          todo |-> IF wanted = {} THEN all ELSE wanted \cap all]]
  /\ UNCHANGED <<link, receiver>>

\* sendBlob up to its loop: all indices, or the requested ones that exist.  An
\* empty request is a request for everything.
StartStream(s, p, b, wanted) ==
  /\ stream[s] = None
  /\ LET all == 0..(TotalOf[b] - 1) IN
       stream' = [stream EXCEPT ![s] =
         [peer |-> p, blob |-> b, full |-> wanted = {}, phase |-> "sending",
          todo |-> IF wanted = {} THEN all ELSE wanted \cap all]]
  /\ UNCHANGED <<link, receiver>>

Sending(s) == stream[s] # None /\ stream[s].phase = "sending"

\* A full stream goes by index; a piece request in the order of the request.
Due(s) == {i \in stream[s].todo :
             stream[s].full => \A j \in stream[s].todo : i <= j}

DoneMsg(s) == [kind |-> "done", src |-> s, blob |-> stream[s].blob]

ChunkMsg(kind, s, i) ==
  [kind |-> kind, src |-> s, chunk |-> [blob |-> stream[s].blob, index |-> i]]

\* Faulty variant: the data of a chunk goes out before its metadata.
BatchDataFirst(s, i) ==
  <<ChunkMsg("data", s, i), ChunkMsg("meta", s, i)>>
    \o (IF stream[s].todo = {i} THEN <<DoneMsg(s)>> ELSE <<>>)

\* What one turn of the loop sends without an await in between.
Batch(s, i) ==
  <<ChunkMsg("meta", s, i), ChunkMsg("data", s, i)>>
    \o (IF stream[s].todo = {i} THEN <<DoneMsg(s)>> ELSE <<>>)

Send(p, msgs) == channel' = [channel EXCEPT ![p] = @ \o msgs]

SendChunk(s, i) ==
  /\ Sending(s)
  /\ i \in Due(s)
  /\ stream[s].peer \in open
  /\ Send(stream[s].peer, Batch(s, i))
  /\ stream' = [stream EXCEPT
       ![s].todo = @ \ {i},
       ![s].phase = IF stream[s].todo = {i} THEN "finished" ELSE "sending"]
  /\ UNCHANGED <<open, receiver>>

\* No chunk to send (an empty blob, or no requested index exists): only chunk-done.
SendOnlyDone(s) ==
  /\ Sending(s)
  /\ stream[s].todo = {}
  /\ stream[s].peer \in open
  /\ Send(stream[s].peer, <<DoneMsg(s)>>)
  /\ stream' = [stream EXCEPT ![s].phase = "finished"]
  /\ UNCHANGED <<open, receiver>>

\* A sendFn that returns false (channel not open) or throws (send buffer full)
\* ends the stream, between the metadata and the data of a chunk too.
SendFails(s) ==
  /\ Sending(s)
  /\ stream' = [stream EXCEPT ![s].phase = "failed"]
  /\ \/ UNCHANGED channel
     \/ /\ stream[s].peer \in open
        /\ \E i \in Due(s), n \in 1..2 :
             /\ n < Len(Batch(s, i))
             /\ Send(stream[s].peer, SubSeq(Batch(s, i), 1, n))
  /\ UNCHANGED <<open, receiver>>

------------------------------------------------------------------------------
(* ChunkReceiver *)

sender == <<stream, open>>

\* Peer p's next message is a `kind' one; it is taken off the channel.
Receive(p, kind) ==
  /\ channel[p] # <<>>
  /\ Head(channel[p]).kind = kind
  /\ channel' = [channel EXCEPT ![p] = Tail(@)]

NewBuffer(b) ==
  [asset |-> AssetOf[b], total |-> TotalOf[b], hash |-> b,
   received |-> [i \in Index |-> None]]

\* bs with a chunk put in buffer n, in the place its metadata gives.
Stored(bs, n, meta, chunk) == [bs EXCEPT ![n].received[meta.index] = chunk]

\* onAssetComplete, and the asset's buffer forgotten, whichever it is by now.
Complete(id, a, parts) ==
  /\ current' = [current EXCEPT ![a] = 0]
  /\ delivered' = delivered \cup {[id |-> id, asset |-> a, parts |-> parts]}

\* Faulty variant: the number of chunks decides, and a hole is not looked for.
TryReassembleByCount(a, id, bs) ==
  LET n == current[a]
      whole == /\ n # 0
               /\ Cardinality({i \in Index : bs[n].received[i] # None}) >= bs[n].total
      parts == [i \in 0..(bs[n].total - 1) |-> bs[n].received[i]]
  IN IF ~whole
     THEN UNCHANGED <<current, assembling, delivered>>
     ELSE /\ assembling' = assembling \cup
               {[id |-> id, buf |-> n, asset |-> a, parts |-> parts]}
          /\ UNCHANGED <<current, delivered>>

\* tryReassemble up to its await, with the buffers as `bs' has them.
TryReassemble(a, id, bs) ==
  LET n == current[a]
      whole == n # 0 /\ \A i \in 0..(bs[n].total - 1) : bs[n].received[i] # None
      parts == [i \in 0..(bs[n].total - 1) |-> bs[n].received[i]]
  IN IF ~whole
     THEN UNCHANGED <<current, assembling, delivered>>
     ELSE IF VerifyIntegrity
     THEN /\ assembling' = assembling \cup
               {[id |-> id, buf |-> n, asset |-> a, parts |-> parts]}
          /\ UNCHANGED <<current, delivered>>
     ELSE Complete(id, a, parts) /\ UNCHANGED assembling

ReceiveMeta(p) ==
  /\ Receive(p, "meta")
  /\ LET c == Head(channel[p]).chunk
         a == AssetOf[c.blob]
     IN /\ pending' = [pending EXCEPT ![p] = c]
        /\ IF current[a] = 0
           THEN /\ bufs' = Append(bufs, NewBuffer(c.blob))
                /\ current' = [current EXCEPT ![a] = Len(bufs) + 1]
           ELSE UNCHANGED <<bufs, current>>
  /\ UNCHANGED <<sender, hashing, assembling, delivered, orphaned>>

ReceiveDone(p) ==
  /\ Receive(p, "done")
  /\ LET m == Head(channel[p])
         a == AssetOf[m.blob]
     IN IF current[a] = 0
        THEN UNCHANGED <<bufs, current, assembling, delivered>>
        ELSE /\ bufs' = [bufs EXCEPT ![current[a]].hash = m.blob]
             /\ TryReassemble(a, <<m.src, MaxChunks>>, bufs')
  /\ UNCHANGED <<sender, pending, hashing, orphaned>>

\* The buffer of the metadata that awaits its data, 0 for none.
PendingBuffer(p) == current[AssetOf[pending[p].blob]]

Accepted(n, c) == bufs[n].received[c.index] # None

\* storeBinaryChunk without metadata: the data is thrown away.
DropOrphan(p) ==
  /\ Receive(p, "data")
  /\ pending[p] = None
  /\ orphaned' = orphaned \cup {<<Head(channel[p]).src, Head(channel[p]).chunk.index>>}
  /\ UNCHANGED <<sender, pending, bufs, current, hashing, assembling, delivered>>

\* ... without a buffer: thrown away, and the metadata stays pending.
DropUnbuffered(p) ==
  /\ Receive(p, "data")
  /\ pending[p] # None
  /\ PendingBuffer(p) = 0
  /\ UNCHANGED <<sender, receiver>>

\* ... for an index already accepted.
DropDuplicate(p) ==
  /\ Receive(p, "data")
  /\ pending[p] # None
  /\ PendingBuffer(p) # 0
  /\ Accepted(PendingBuffer(p), pending[p])
  /\ pending' = [pending EXCEPT ![p] = None]
  /\ UNCHANGED <<sender, bufs, current, hashing, assembling, delivered, orphaned>>

\* ... up to `await hashBuffer'.
HashChunk(p) ==
  /\ VerifyIntegrity
  /\ Receive(p, "data")
  /\ pending[p] # None
  /\ PendingBuffer(p) # 0
  /\ ~Accepted(PendingBuffer(p), pending[p])
  /\ hashing' = hashing \cup
       {[src |-> Head(channel[p]).src, peer |-> p, meta |-> pending[p],
         data |-> Head(channel[p]).chunk, buf |-> PendingBuffer(p)]}
  /\ UNCHANGED <<sender, pending, bufs, current, assembling, delivered, orphaned>>

\* ... without verification, to its end.
StoreUnverified(p) ==
  /\ ~VerifyIntegrity
  /\ Receive(p, "data")
  /\ pending[p] # None
  /\ PendingBuffer(p) # 0
  /\ ~Accepted(PendingBuffer(p), pending[p])
  /\ LET m == Head(channel[p]) IN
       /\ bufs' = Stored(bufs, PendingBuffer(p), pending[p], m.chunk)
       /\ TryReassemble(AssetOf[pending[p].blob], <<m.src, m.chunk.index>>, bufs')
  /\ pending' = [pending EXCEPT ![p] = None]
  /\ UNCHANGED <<sender, hashing, orphaned>>

\* Faulty variant: the metadata is read again after the await.
ChunkHashedRereads(t) ==
  /\ t \in hashing
  /\ pending[t.peer] # None
  /\ hashing' = hashing \ {t}
  /\ pending' = [pending EXCEPT ![t.peer] = None]
  /\ bufs' = Stored(bufs, t.buf, pending[t.peer], t.data)
  /\ TryReassemble(AssetOf[t.meta.blob], <<t.src, t.data.index>>, bufs')
  /\ UNCHANGED <<sender, channel, orphaned>>

\* storeBinaryChunk after `await hashBuffer': the buffer is the captured one, the
\* pending metadata deleted is whatever the peer's metadata is by now.
ChunkHashed(t) ==
  /\ t \in hashing
  /\ hashing' = hashing \ {t}
  /\ pending' = [pending EXCEPT ![t.peer] = None]
  /\ IF t.meta = t.data
     THEN /\ bufs' = Stored(bufs, t.buf, t.meta, t.data)
          /\ TryReassemble(AssetOf[t.meta.blob], <<t.src, t.data.index>>, bufs')
     ELSE UNCHANGED <<bufs, current, assembling, delivered>>
  /\ UNCHANGED <<sender, channel, orphaned>>

\* Faulty variant: the assembled asset is not compared with its hash.
AssetHashedUnchecked(t) ==
  /\ t \in assembling
  /\ assembling' = assembling \ {t}
  /\ Complete(t.id, t.asset, t.parts)
  /\ UNCHANGED <<sender, channel, pending, bufs, hashing, orphaned>>

\* tryReassemble after `await hashBlob'; the expected hash is read only now.
AssetHashed(t) ==
  /\ t \in assembling
  /\ assembling' = assembling \ {t}
  /\ IF t.parts = Content(bufs[t.buf].hash)
     THEN Complete(t.id, t.asset, t.parts)
     ELSE UNCHANGED <<current, delivered>>
  /\ UNCHANGED <<sender, channel, pending, bufs, hashing, orphaned>>

------------------------------------------------------------------------------
(* Link failures and the end of the page *)

\* The data channel of p closes; what is in flight is lost.
Disconnect(p) ==
  /\ p \in open
  /\ open' = open \ {p}
  /\ channel' = [channel EXCEPT ![p] = <<>>]
  /\ UNCHANGED <<stream, receiver>>

\* ShadowCast.destroy: the mesh is closed, the receiver cleared.
Destroy ==
  /\ open' = {}
  /\ channel' = [p \in Peers |-> <<>>]
  /\ current' = [a \in Assets |-> 0]
  /\ pending' = [p \in Peers |-> None]
  /\ UNCHANGED <<stream, bufs, hashing, assembling, delivered, orphaned>>

------------------------------------------------------------------------------
Next ==
  \/ \E s \in Streams, p \in Peers, b \in Blobs, wanted \in SUBSET Index :
       StartStream(s, p, b, wanted)
  \/ \E s \in Streams, i \in Index : SendChunk(s, i)
  \/ \E s \in Streams : SendOnlyDone(s)
  \/ \E s \in Streams : SendFails(s)
  \/ \E p \in Peers : ReceiveMeta(p)
  \/ \E p \in Peers : ReceiveDone(p)
  \/ \E p \in Peers : DropOrphan(p)
  \/ \E p \in Peers : DropUnbuffered(p)
  \/ \E p \in Peers : DropDuplicate(p)
  \/ \E p \in Peers : HashChunk(p)
  \/ \E p \in Peers : StoreUnverified(p)
  \/ \E t \in hashing : ChunkHashed(t)
  \/ \E t \in assembling : AssetHashed(t)
  \/ \E p \in Peers : Disconnect(p)
  \/ Destroy

Spec == Init /\ [][Next]_vars

------------------------------------------------------------------------------
(* Properties *)

\* Every variable has the shape the code gives it; a buffer in the map or held by a
\* task exists, and
\* no assembled asset has a hole in it.
TypeOK ==
  /\ stream \in [Streams -> Stream \cup {None}]
  /\ channel \in [Peers -> Seq(Message)]
  /\ open \subseteq Peers
  /\ pending \in [Peers -> Chunk \cup {None}]
  /\ bufs \in Seq(Buffer)
  /\ current \in [Assets -> 0..Len(bufs)]
  /\ hashing \subseteq HashTask
  /\ assembling \subseteq AssemblyTask
  /\ \A t \in hashing \cup assembling : t.buf \in 1..Len(bufs)
  /\ delivered \subseteq [id : Cause, asset : Assets, parts : Parts]
  /\ orphaned \subseteq Streams \X Index

\* However the streams of several peers interleave with the digests, a buffer holds
\* at place i only chunk i of some version of the buffer's own asset: binary
\* messages carry no index, and get theirs from the metadata before them.
ChunkPlacement ==
  \A n \in 1..Len(bufs), i \in Index :
    LET c == bufs[n].received[i] IN
      c # None => c.index = i /\ AssetOf[c.blob] = bufs[n].asset

\* All the streams of asset a so far send the same version of it.
SingleVersion(a) ==
  \A s, r \in Streams :
    /\ stream[s] # None /\ AssetOf[stream[s].blob] = a
    /\ stream[r] # None /\ AssetOf[stream[r].blob] = a
    => stream[s].blob = stream[r].blob

\* onIntegrityError is never a false alarm: with honest peers a chunk is checked
\* against its own hash, and as long as one version of an asset circulates its
\* assembly matches the hash it will be compared with.
NoFalseAlarm ==
  /\ \A t \in hashing : t.meta = t.data
  /\ \A t \in assembling :
       SingleVersion(t.asset) => t.parts = Content(bufs[t.buf].hash)

\* Nothing is in flight, and no digest is running.
Quiet ==
  /\ \A p \in Peers : channel[p] = <<>>
  /\ hashing = {} /\ assembling = {}

\* Stream s has sent all of a non-empty asset over a link that is still open, and
\* it is the only version of the asset around.
WholeSent(s) ==
  /\ stream[s] # None
  /\ stream[s].full
  /\ stream[s].phase = "finished"
  /\ stream[s].peer \in open
  /\ TotalOf[stream[s].blob] > 0
  /\ SingleVersion(AssetOf[stream[s].blob])

AssetDelivered(a) == \E d \in delivered : d.asset = a

\* A full stream that was wholly received has had its asset delivered: the test of
\* ChunkSender and ChunkReceiver ("slice, stream, and reassemble Blobs identically").
FullStreamReassembles ==
  Quiet => \A s \in Streams :
             WholeSent(s) => AssetDelivered(AssetOf[stream[s].blob])

\* The only way the receiver loses an asset that was wholly sent is that the metadata
\* of one of its chunks was deleted before the data came: neither duplicates, nor
\* buffers replaced while a digest runs, nor piece requests lose one.
OnlyOrphansAreLost ==
  Quiet => \A s \in Streams :
             WholeSent(s) =>
               \/ AssetDelivered(AssetOf[stream[s].blob])
               \/ \E i \in Index : <<s, i>> \in orphaned

Offered == {stream[s].blob : s \in {r \in Streams : stream[r] # None}}

Delivery == INSTANCE AssetDelivery WITH offered <- Offered, DeliveryIds <- Cause

\* With verification on, onAssetComplete hands over only whole, unmixed copies of blobs
\* that peers offered for that asset, whatever versions they hold.
DeliversWholeBlobs == Delivery!Spec

==============================================================================
