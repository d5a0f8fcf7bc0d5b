------------------------ MODULE ChunkTransferProofs --------------------------
(***************************************************************************)
(* Proofs about ChunkTransfer, for any number of peers, streams, assets,   *)
(* versions and chunks: type correctness, that chunks end up in their own  *)
(* places (ChunkPlacement), that honest peers raise no integrity error     *)
(* (NoFalseAlarm), that with verification on the transfer implements       *)
(* AssetDelivery, that only chunks whose metadata was deleted are lost     *)
(* (OnlyOrphansAreLost), and that without verification none is             *)
(* (FullStreamReassembles).                                                *)
(***************************************************************************)
EXTENDS ChunkTransfer, TLAPS

USE TransferAssumption

------------------------------------------------------------------------------
(* Type correctness *)

\* Replacing an element of a sequence keeps its length and its type.
LEMMA UpdateType ==
  ASSUME NEW S, NEW q \in Seq(S), NEW n \in 1..Len(q), NEW e \in S
  PROVE  /\ [q EXCEPT ![n] = e] \in Seq(S)
         /\ Len([q EXCEPT ![n] = e]) = Len(q)
OBVIOUS

\* An index stays in range when a chunk is put in its place.
LEMMA StoredType ==
  ASSUME NEW bs \in Seq(Buffer), NEW n \in 1..Len(bs),
         NEW meta \in Chunk, NEW chunk \in Chunk
  PROVE  /\ Stored(bs, n, meta, chunk) \in Seq(Buffer)
         /\ Len(Stored(bs, n, meta, chunk)) = Len(bs)
<1> DEFINE new == [bs[n] EXCEPT !.received[meta.index] = chunk]
<1>1. meta.index \in Index
  BY DEF Chunk
<1>2. bs[n] \in Buffer
  OBVIOUS
<1>3. new \in Buffer
  BY <1>1, <1>2 DEF Buffer
<1>4. Stored(bs, n, meta, chunk) = [bs EXCEPT ![n] = new]
  BY DEF Stored
<1> HIDE DEF new
<1> QED  BY <1>3, <1>4, UpdateType

\* What a reassembly starts or delivers is well formed, for no part of it is absent.
LEMMA TryReassembleType ==
  ASSUME TypeOK, NEW a \in Assets, NEW id \in Cause,
         NEW bs \in Seq(Buffer), Len(bs) = Len(bufs),
         TryReassemble(a, id, bs)
  PROVE  /\ current' \in [Assets -> 0..Len(bs)]
         /\ assembling' \subseteq AssemblyTask
         /\ \A t \in assembling' : t.buf \in 1..Len(bs)
         /\ delivered' \subseteq [id : Cause, asset : Assets, parts : Parts]
<1> DEFINE n == current[a]
           parts == [i \in 0..(bs[n].total - 1) |-> bs[n].received[i]]
<1>1. n \in 0..Len(bs)
  BY DEF TypeOK
<1>2. CASE n = 0 \/ ~ \A i \in 0..(bs[n].total - 1) : bs[n].received[i] # None
  BY <1>2 DEF TryReassemble, TypeOK
<1>3. CASE n # 0 /\ \A i \in 0..(bs[n].total - 1) : bs[n].received[i] # None
  <2>1. n \in 1..Len(bs) /\ bs[n] \in Buffer
    BY <1>1, <1>3
  <2>2. bs[n].total \in 0..MaxChunks /\ bs[n].received \in [Index -> Chunk \cup {None}]
    BY <2>1 DEF Buffer
  <2>3. parts \in [0..(bs[n].total - 1) -> Chunk]
    BY <2>2, <1>3 DEF Index
  <2>4. parts \in Parts
    BY <2>2, <2>3 DEF Parts
  <2>5. CASE VerifyIntegrity
    <3>1. [id |-> id, buf |-> n, asset |-> a, parts |-> parts] \in AssemblyTask
      BY <2>1, <2>4 DEF AssemblyTask
    <3>2. /\ assembling' = assembling \cup
                {[id |-> id, buf |-> n, asset |-> a, parts |-> parts]}
          /\ UNCHANGED <<current, delivered>>
      BY <1>3, <2>5 DEF TryReassemble
    <3> HIDE DEF parts
    <3> QED  BY <2>1, <3>1, <3>2 DEF TypeOK
  <2>6. CASE ~VerifyIntegrity
    <3>1. /\ current' = [current EXCEPT ![a] = 0]
          /\ delivered' = delivered \cup {[id |-> id, asset |-> a, parts |-> parts]}
          /\ assembling' = assembling
      BY <2>6, <1>3 DEF TryReassemble, Complete
    <3>2. current' \in [Assets -> 0..Len(bs)]
      BY <3>1 DEF TypeOK
    <3> HIDE DEF parts
    <3> QED  BY <2>4, <3>1, <3>2 DEF TypeOK
  <2> QED  BY <2>5, <2>6
<1> QED  BY <1>2, <1>3

\* A record of a stream in use.
LEMMA StreamInUse ==
  ASSUME TypeOK, NEW s \in Streams, stream[s] # None
  PROVE  stream[s] \in Stream
BY DEF TypeOK

\* The messages of one turn of the sender's loop: metadata, its data, maybe chunk-done.
LEMMA BatchType ==
  ASSUME TypeOK, NEW s \in Streams, NEW i \in Index, Sending(s)
  PROVE  /\ ChunkMsg("meta", s, i) \in Message
         /\ ChunkMsg("data", s, i) \in Message
         /\ DoneMsg(s) \in Message
         /\ Batch(s, i) \in Seq(Message)
<1>1. stream[s].blob \in Blobs
  BY StreamInUse DEF Sending, Stream
<1>2. /\ ChunkMsg("meta", s, i) \in Message
      /\ ChunkMsg("data", s, i) \in Message
      /\ DoneMsg(s) \in Message
  BY <1>1 DEF ChunkMsg, DoneMsg, Message, Chunk
<1> QED  BY <1>2 DEF Batch

\* Sending keeps the channels sequences of messages.
LEMMA SendType ==
  ASSUME TypeOK, NEW p \in Peers, NEW msgs \in Seq(Message), Send(p, msgs)
  PROVE  channel' \in [Peers -> Seq(Message)]
BY DEF TypeOK, Send

\* So does receiving.
LEMMA ReceiveType ==
  ASSUME TypeOK, NEW p \in Peers, NEW kind, Receive(p, kind)
  PROVE  /\ channel' \in [Peers -> Seq(Message)]
         /\ Head(channel[p]) \in Message
         /\ Head(channel[p]).kind = kind
BY DEF TypeOK, Receive

\* What a message of a chunk carries, and what a chunk-done carries.
LEMMA MessageType ==
  ASSUME NEW m \in Message
  PROVE  /\ m.src \in Streams
         /\ m.kind \in {"meta", "data"} => m.chunk \in Chunk
         /\ m.kind = "done" => m.blob \in Blobs
BY DEF Message

LEMMA NewBufferType ==
  ASSUME NEW b \in Blobs
  PROVE  NewBuffer(b) \in Buffer
BY DEF NewBuffer, Buffer

LEMMA ChunkType ==
  ASSUME NEW c \in Chunk
  PROVE  c.blob \in Blobs /\ c.index \in Index /\ AssetOf[c.blob] \in Assets
BY DEF Chunk

LEMMA TypeInit == Init => TypeOK
BY DEF Init, TypeOK

LEMMA TypeStep == TypeOK /\ [Next]_vars => TypeOK'
<1> SUFFICES ASSUME TypeOK, [Next]_vars PROVE TypeOK'
  OBVIOUS
<1>1. ASSUME NEW s \in Streams, NEW p \in Peers, NEW b \in Blobs,
             NEW wanted \in SUBSET Index, StartStream(s, p, b, wanted)
      PROVE  TypeOK'
  <2> DEFINE all == 0..(TotalOf[b] - 1)
             new == [peer |-> p, blob |-> b, full |-> wanted = {}, phase |-> "sending",
                     todo |-> IF wanted = {} THEN all ELSE wanted \cap all]
  <2>1. TotalOf[b] \in 0..MaxChunks
    OBVIOUS
  <2>2. all \subseteq Index
    BY <2>1 DEF Index
  <2>3. (wanted = {}) \in BOOLEAN
    OBVIOUS
  <2>4. new \in Stream
    BY <2>2, <2>3 DEF Stream
  <2>5. stream' = [stream EXCEPT ![s] = new]
    BY <1>1 DEF StartStream
  <2> HIDE DEF new
  <2>6. stream' \in [Streams -> Stream \cup {None}]
    BY <2>4, <2>5 DEF TypeOK
  <2>7. UNCHANGED <<link, receiver>>
    BY <1>1 DEF StartStream
  <2> QED  BY <2>6, <2>7 DEF TypeOK, link, receiver
<1>2. ASSUME NEW s \in Streams, NEW i \in Index, SendChunk(s, i)
      PROVE  TypeOK'
  <2>1. stream[s] \in Stream /\ Sending(s)
    BY <1>2, StreamInUse DEF SendChunk, Sending
  <2>2. channel' \in [Peers -> Seq(Message)]
    BY <1>2, <2>1, BatchType, SendType DEF SendChunk, Stream
  <2>3. stream' \in [Streams -> Stream \cup {None}]
    BY <1>2, <2>1 DEF SendChunk, Stream, TypeOK
  <2> QED  BY <1>2, <2>2, <2>3 DEF SendChunk, TypeOK, receiver
<1>3. ASSUME NEW s \in Streams, SendOnlyDone(s)
      PROVE  TypeOK'
  <2>1. stream[s] \in Stream
    BY <1>3, StreamInUse DEF SendOnlyDone, Sending
  <2>2. <<DoneMsg(s)>> \in Seq(Message)
    BY <2>1 DEF DoneMsg, Message, Stream
  <2>3. channel' \in [Peers -> Seq(Message)]
    BY <1>3, <2>1, <2>2, SendType DEF SendOnlyDone, Stream
  <2>4. stream' \in [Streams -> Stream \cup {None}]
    BY <1>3, <2>1 DEF SendOnlyDone, Stream, TypeOK
  <2> QED  BY <1>3, <2>3, <2>4 DEF SendOnlyDone, TypeOK, receiver
<1>4. ASSUME NEW s \in Streams, SendFails(s)
      PROVE  TypeOK'
  <2>1. stream[s] \in Stream /\ Sending(s)
    BY <1>4, StreamInUse DEF SendFails, Sending
  <2>2. channel' \in [Peers -> Seq(Message)]
    <3>1. CASE UNCHANGED channel
      BY <3>1 DEF TypeOK
    <3>2. ASSUME NEW i \in Due(s), NEW n \in 1..2, n < Len(Batch(s, i)),
                 Send(stream[s].peer, SubSeq(Batch(s, i), 1, n))
          PROVE  channel' \in [Peers -> Seq(Message)]
      <4>1. i \in Index
        BY <2>1 DEF Due, Stream
      <4>2. SubSeq(Batch(s, i), 1, n) \in Seq(Message)
        BY <2>1, <3>2, <4>1, BatchType
      <4> QED  BY <2>1, <3>2, <4>2, SendType DEF Stream
    <3> QED  BY <1>4, <3>1, <3>2 DEF SendFails
  <2>3. stream' \in [Streams -> Stream \cup {None}]
    BY <1>4, <2>1 DEF SendFails, Stream, TypeOK
  <2> QED  BY <1>4, <2>2, <2>3 DEF SendFails, TypeOK, receiver
<1>5. ASSUME NEW p \in Peers, ReceiveMeta(p)
      PROVE  TypeOK'
  <2> DEFINE c == Head(channel[p]).chunk
  <2>1. channel' \in [Peers -> Seq(Message)] /\ c \in Chunk
    BY <1>5, ReceiveType, MessageType DEF ReceiveMeta
  <2>2. c.blob \in Blobs /\ AssetOf[c.blob] \in Assets
    BY <2>1, ChunkType
  <2>3. pending' \in [Peers -> Chunk \cup {None}]
    BY <1>5, <2>1 DEF ReceiveMeta, TypeOK
  <2>4. CASE current[AssetOf[c.blob]] = 0
    <3>1. bufs' = Append(bufs, NewBuffer(c.blob))
      BY <1>5, <2>4 DEF ReceiveMeta
    <3>2. bufs' \in Seq(Buffer) /\ Len(bufs') = Len(bufs) + 1
      BY <2>2, <3>1, NewBufferType DEF TypeOK
    <3>3. current' = [current EXCEPT ![AssetOf[c.blob]] = Len(bufs) + 1]
      BY <1>5, <2>4 DEF ReceiveMeta
    <3>4. current' \in [Assets -> 0..Len(bufs')]
      BY <2>2, <3>2, <3>3 DEF TypeOK
    <3> QED  BY <1>5, <2>1, <2>3, <3>2, <3>4 DEF ReceiveMeta, TypeOK, sender
  <2>5. CASE current[AssetOf[c.blob]] # 0
    BY <1>5, <2>1, <2>3, <2>5 DEF ReceiveMeta, TypeOK, sender
  <2> QED  BY <2>4, <2>5
<1>6. ASSUME NEW p \in Peers, ReceiveDone(p)
      PROVE  TypeOK'
  <2> DEFINE m == Head(channel[p])
             a == AssetOf[m.blob]
             n == current[a]
  <2>1. /\ channel' \in [Peers -> Seq(Message)]
        /\ m.src \in Streams /\ m.blob \in Blobs /\ a \in Assets
    BY <1>6, ReceiveType, MessageType DEF ReceiveDone
  <2>2. CASE n = 0
    BY <1>6, <2>1, <2>2 DEF ReceiveDone, TypeOK, sender
  <2>3. CASE n # 0
    <3>1. n \in 1..Len(bufs) /\ bufs[n] \in Buffer
      BY <2>1, <2>3 DEF TypeOK
    <3>2. [bufs[n] EXCEPT !.hash = m.blob] \in Buffer
      BY <2>1, <3>1 DEF Buffer
    <3>3. bufs' = [bufs EXCEPT ![n] = [bufs[n] EXCEPT !.hash = m.blob]]
      BY <1>6, <2>3 DEF ReceiveDone
    <3>4. bufs' \in Seq(Buffer) /\ Len(bufs') = Len(bufs)
      <4> DEFINE new == [bufs[n] EXCEPT !.hash = m.blob]
      <4>1. bufs \in Seq(Buffer) /\ new \in Buffer /\ n \in 1..Len(bufs)
        BY <3>1, <3>2 DEF TypeOK
      <4>2. bufs' = [bufs EXCEPT ![n] = new]
        BY <3>3
      <4> HIDE DEF new, n
      <4> QED  BY <4>1, <4>2, UpdateType
    <3>5. <<m.src, MaxChunks>> \in Cause
      BY <2>1 DEF Cause
    <3>6. TryReassemble(a, <<m.src, MaxChunks>>, bufs')
      BY <1>6, <2>3 DEF ReceiveDone
    <3>7. /\ current' \in [Assets -> 0..Len(bufs')]
          /\ assembling' \subseteq AssemblyTask
          /\ \A t \in assembling' : t.buf \in 1..Len(bufs')
          /\ delivered' \subseteq [id : Cause, asset : Assets, parts : Parts]
      BY <2>1, <3>4, <3>5, <3>6, TryReassembleType
    <3> QED  BY <1>6, <2>1, <3>4, <3>7 DEF ReceiveDone, TypeOK, sender
  <2> QED  BY <2>2, <2>3
<1>7. ASSUME NEW p \in Peers, DropOrphan(p)
      PROVE  TypeOK'
  <2>1. /\ channel' \in [Peers -> Seq(Message)]
        /\ Head(channel[p]).src \in Streams /\ Head(channel[p]).chunk \in Chunk
    BY <1>7, ReceiveType, MessageType DEF DropOrphan
  <2>2. orphaned' \subseteq Streams \X Index
    BY <1>7, <2>1, ChunkType DEF DropOrphan, TypeOK
  <2> QED  BY <1>7, <2>1, <2>2 DEF DropOrphan, TypeOK, sender
<1>8. ASSUME NEW p \in Peers, DropUnbuffered(p)
      PROVE  TypeOK'
  BY <1>8, ReceiveType DEF DropUnbuffered, TypeOK, sender, receiver
<1>9. ASSUME NEW p \in Peers, DropDuplicate(p)
      PROVE  TypeOK'
  BY <1>9, ReceiveType DEF DropDuplicate, TypeOK, sender
<1>10. ASSUME NEW p \in Peers, HashChunk(p)
       PROVE  TypeOK'
  <2> DEFINE new == [src |-> Head(channel[p]).src, peer |-> p, meta |-> pending[p],
                     data |-> Head(channel[p]).chunk, buf |-> PendingBuffer(p)]
  <2>1. /\ channel' \in [Peers -> Seq(Message)]
        /\ Head(channel[p]).src \in Streams /\ Head(channel[p]).chunk \in Chunk
    BY <1>10, ReceiveType, MessageType DEF HashChunk
  <2>2. pending[p] \in Chunk
    BY <1>10 DEF HashChunk, TypeOK
  <2>3. PendingBuffer(p) \in Nat
    BY <2>2, ChunkType DEF PendingBuffer, TypeOK
  <2>4. new \in HashTask
    BY <2>1, <2>2, <2>3 DEF HashTask
  <2>5. hashing' = hashing \cup {new}
    BY <1>10 DEF HashChunk
  <2>6. new.buf \in 1..Len(bufs)
    BY <1>10, <2>2, <2>3, ChunkType DEF HashChunk, PendingBuffer, TypeOK
  <2> HIDE DEF new
  <2> QED  BY <1>10, <2>1, <2>4, <2>5, <2>6 DEF HashChunk, TypeOK, sender
<1>11. ASSUME NEW p \in Peers, StoreUnverified(p)
       PROVE  TypeOK'
  <2> DEFINE m == Head(channel[p])
             a == AssetOf[pending[p].blob]
             n == PendingBuffer(p)
  <2>1. /\ channel' \in [Peers -> Seq(Message)]
        /\ m.src \in Streams /\ m.chunk \in Chunk
    BY <1>11, ReceiveType, MessageType DEF StoreUnverified
  <2>2. pending[p] \in Chunk /\ a \in Assets
    BY <1>11, ChunkType DEF StoreUnverified, TypeOK
  <2>3. n \in 1..Len(bufs)
    BY <1>11, <2>2 DEF StoreUnverified, PendingBuffer, TypeOK
  <2>4. bufs' = Stored(bufs, n, pending[p], m.chunk)
    BY <1>11 DEF StoreUnverified
  <2>5. bufs' \in Seq(Buffer) /\ Len(bufs') = Len(bufs)
    BY <2>1, <2>2, <2>3, <2>4, StoredType DEF TypeOK
  <2>6. <<m.src, m.chunk.index>> \in Cause
    BY <2>1, ChunkType DEF Cause, Index
  <2>7. TryReassemble(a, <<m.src, m.chunk.index>>, bufs')
    BY <1>11 DEF StoreUnverified
  <2>8. /\ current' \in [Assets -> 0..Len(bufs')]
        /\ assembling' \subseteq AssemblyTask
        /\ \A t \in assembling' : t.buf \in 1..Len(bufs')
        /\ delivered' \subseteq [id : Cause, asset : Assets, parts : Parts]
    BY <2>2, <2>5, <2>6, <2>7, TryReassembleType
  <2> QED  BY <1>11, <2>1, <2>5, <2>8 DEF StoreUnverified, TypeOK, sender
<1>12. ASSUME NEW t \in hashing, ChunkHashed(t)
       PROVE  TypeOK'
  <2>1. t \in HashTask
    BY DEF TypeOK
  <2>2. pending' \in [Peers -> Chunk \cup {None}] /\ hashing' \subseteq HashTask
    BY <1>12 DEF ChunkHashed, TypeOK
  <2>3. CASE t.meta = t.data
    <3>1. /\ t.meta \in Chunk /\ t.data \in Chunk /\ t.src \in Streams
          /\ AssetOf[t.meta.blob] \in Assets /\ t.buf \in 1..Len(bufs)
      BY <2>1, ChunkType DEF HashTask, TypeOK
    <3>2. bufs' = Stored(bufs, t.buf, t.meta, t.data)
      BY <1>12, <2>3 DEF ChunkHashed
    <3>3. bufs' \in Seq(Buffer) /\ Len(bufs') = Len(bufs)
      BY <3>1, <3>2, StoredType DEF TypeOK
    <3>4. <<t.src, t.data.index>> \in Cause
      BY <3>1, ChunkType DEF Cause, Index
    <3>5. TryReassemble(AssetOf[t.meta.blob], <<t.src, t.data.index>>, bufs')
      BY <1>12, <2>3 DEF ChunkHashed
    <3>6. /\ current' \in [Assets -> 0..Len(bufs')]
          /\ assembling' \subseteq AssemblyTask
          /\ \A r \in assembling' : r.buf \in 1..Len(bufs')
          /\ delivered' \subseteq [id : Cause, asset : Assets, parts : Parts]
      BY <3>1, <3>3, <3>4, <3>5, TryReassembleType
    <3> QED  BY <1>12, <2>2, <3>3, <3>6 DEF ChunkHashed, TypeOK, sender
  <2>4. CASE t.meta # t.data
    BY <1>12, <2>2, <2>4 DEF ChunkHashed, TypeOK, sender
  <2> QED  BY <2>3, <2>4
<1>13. ASSUME NEW t \in assembling, AssetHashed(t)
       PROVE  TypeOK'
  <2>1. t.id \in Cause /\ t.asset \in Assets /\ t.parts \in Parts
    BY DEF TypeOK, AssemblyTask
  <2>2. CASE t.parts = Content(bufs[t.buf].hash)
    <3>1. /\ current' = [current EXCEPT ![t.asset] = 0]
          /\ delivered' = delivered \cup
               {[id |-> t.id, asset |-> t.asset, parts |-> t.parts]}
      BY <1>13, <2>2 DEF AssetHashed, Complete
    <3>2. current' \in [Assets -> 0..Len(bufs)]
      BY <2>1, <3>1 DEF TypeOK
    <3>3. delivered' \subseteq [id : Cause, asset : Assets, parts : Parts]
      BY <2>1, <3>1 DEF TypeOK
    <3> QED  BY <1>13, <3>2, <3>3 DEF AssetHashed, TypeOK, sender
  <2>3. CASE t.parts # Content(bufs[t.buf].hash)
    BY <1>13, <2>3 DEF AssetHashed, TypeOK, sender
  <2> QED  BY <2>2, <2>3
<1>14. ASSUME NEW p \in Peers, Disconnect(p)
       PROVE  TypeOK'
  BY <1>14 DEF Disconnect, TypeOK, receiver
<1>15. CASE Destroy
  BY <1>15 DEF Destroy, TypeOK
<1>16. CASE UNCHANGED vars
  BY <1>16 DEF vars, TypeOK
<1> QED  BY <1>1, <1>2, <1>3, <1>4, <1>5, <1>6, <1>7, <1>8, <1>9, <1>10, <1>11, <1>12,
            <1>13, <1>14, <1>15, <1>16 DEF Next

\* Every reachable state is well formed, for every number of peers, assets and chunks.
THEOREM TypeCorrect == Spec => []TypeOK
BY TypeInit, TypeStep, PTL DEF Spec

------------------------------------------------------------------------------
(* The inductive invariant.  A binary message gets its index from the        *)
(* pending metadata of its peer, so the heart of it is that the data of a    *)
(* chunk directly follows the metadata of that chunk on an ordered channel.  *)

\* Data follows its own metadata; at the head of the channel that metadata was the
\* last thing received, and is pending unless a digest that ended deleted it.
Paired(q, pend) ==
  \A k \in 1..Len(q) : q[k].kind = "data" =>
    IF k = 1
    THEN pend \in {None, q[1].chunk}
    ELSE q[k - 1].kind = "meta" /\ q[k - 1].chunk = q[k].chunk

\* A message is about a blob some peer offered.
FromOffer(m) ==
  IF m.kind = "done" THEN m.blob \in Offered ELSE m.chunk.blob \in Offered

LinkInv ==
  \A p \in Peers :
    /\ Paired(channel[p], pending[p])
    /\ \A k \in 1..Len(channel[p]) : FromOffer(channel[p][k])
    /\ pending[p] # None => pending[p].blob \in Offered

\* Chunk c is chunk i of an offered version of asset a.
InPlace(c, i, a) == c.index = i /\ AssetOf[c.blob] = a /\ c.blob \in Offered

BufferOK(buf) ==
  /\ buf.hash \in Offered /\ AssetOf[buf.hash] = buf.asset
  /\ \E b \in Offered : AssetOf[b] = buf.asset /\ TotalOf[b] = buf.total
  /\ \A i \in Index : buf.received[i] # None => InPlace(buf.received[i], i, buf.asset)

BufferInv == \A n \in 1..Len(bufs) : BufferOK(bufs[n])

CurrentInv == \A a \in Assets : current[a] # 0 => bufs[current[a]].asset = a

HashInv ==
  \A t \in hashing :
    /\ t.meta = t.data
    /\ t.meta.blob \in Offered
    /\ bufs[t.buf].asset = AssetOf[t.meta.blob]

AssemblyOK(t, buf) ==
  /\ buf.asset = t.asset
  /\ t.parts \in [0..(buf.total - 1) -> Chunk]
  /\ \A i \in 0..(buf.total - 1) : InPlace(t.parts[i], i, t.asset)

AssemblyInv == \A t \in assembling : AssemblyOK(t, bufs[t.buf])

TransferInv == TypeOK /\ LinkInv /\ BufferInv /\ CurrentInv /\ HashInv /\ AssemblyInv

\* Appending a run of messages in which data follows its metadata.
LEMMA PairedAppend ==
  ASSUME NEW q \in Seq(Message), NEW msgs \in Seq(Message), NEW pend,
         Paired(q, pend),
         \A k \in 1..Len(msgs) : msgs[k].kind = "data" =>
           k > 1 /\ msgs[k - 1].kind = "meta" /\ msgs[k - 1].chunk = msgs[k].chunk
  PROVE  Paired(q \o msgs, pend)
<1> DEFINE r == q \o msgs
<1> SUFFICES ASSUME NEW k \in 1..Len(r), r[k].kind = "data"
             PROVE  IF k = 1 THEN pend \in {None, r[1].chunk}
                    ELSE r[k - 1].kind = "meta" /\ r[k - 1].chunk = r[k].chunk
  BY DEF Paired
<1>1. CASE k <= Len(q)
  <2>1. r[k] = q[k] /\ (k > 1 => r[k - 1] = q[k - 1])
    BY <1>1
  <2> QED  BY <1>1, <2>1 DEF Paired
<1>2. CASE k > Len(q)
  <2> DEFINE j == k - Len(q)
  <2>1. j \in 1..Len(msgs) /\ r[k] = msgs[j]
    BY <1>2
  <2>2. j > 1 /\ msgs[j - 1].kind = "meta" /\ msgs[j - 1].chunk = msgs[j].chunk
    BY <2>1
  <2>3. r[k - 1] = msgs[j - 1] /\ k # 1
    BY <2>1, <2>2
  <2> QED  BY <2>1, <2>2, <2>3
<1> QED  BY <1>1, <1>2

\* Taking the head off, when metadata at the head becomes the pending one.
LEMMA PairedTail ==
  ASSUME NEW q \in Seq(Message), q # <<>>, NEW pend, NEW new,
         Paired(q, pend),
         Head(q).kind = "meta" => new = Head(q).chunk
  PROVE  Paired(Tail(q), new)
<1> SUFFICES ASSUME NEW k \in 1..Len(Tail(q)), Tail(q)[k].kind = "data"
             PROVE  IF k = 1 THEN new \in {None, Tail(q)[1].chunk}
                    ELSE /\ Tail(q)[k - 1].kind = "meta"
                         /\ Tail(q)[k - 1].chunk = Tail(q)[k].chunk
  BY DEF Paired
<1>1. k + 1 \in 1..Len(q) /\ Tail(q)[k] = q[k + 1]
  OBVIOUS
<1>2. q[k].kind = "meta" /\ q[k].chunk = q[k + 1].chunk
  BY <1>1 DEF Paired
<1>3. k = 1 => Head(q) = q[k]
  OBVIOUS
<1>4. k > 1 => Tail(q)[k - 1] = q[k]
  OBVIOUS
<1> QED  BY <1>1, <1>2, <1>3, <1>4

\* A stream in use stays in use and never changes its blob; only StartStream makes one.
LEMMA StreamsKept ==
  ASSUME TypeOK, [Next]_vars
  PROVE  /\ \A s \in Streams : stream[s] # None =>
              stream'[s] # None /\ stream'[s].blob = stream[s].blob
         /\ \/ \E s \in Streams, p \in Peers, b \in Blobs, wanted \in SUBSET Index :
                 StartStream(s, p, b, wanted)
            \/ \A s \in Streams : stream[s] = None => stream'[s] = None
<1>1. ASSUME NEW s \in Streams, NEW p \in Peers, NEW b \in Blobs,
             NEW wanted \in SUBSET Index, StartStream(s, p, b, wanted)
      PROVE  \A r \in Streams : stream[r] # None => stream'[r] = stream[r]
  BY <1>1 DEF StartStream, TypeOK
<1>2. ASSUME NEW s \in Streams, stream[s] # None,
             \/ \E i \in Index : SendChunk(s, i)
             \/ SendOnlyDone(s)
             \/ SendFails(s)
      PROVE  /\ stream'[s] \in Stream /\ stream'[s].blob = stream[s].blob
             /\ \A r \in Streams \ {s} : stream'[r] = stream[r]
  <2>1. stream[s] \in Stream
    BY <1>2, StreamInUse
  <2>2. CASE \E i \in Index : SendChunk(s, i)
    <3>1. PICK i \in Index : SendChunk(s, i)
      BY <2>2
    <3> DEFINE new == [stream[s] EXCEPT
                         !.todo = @ \ {i},
                         !.phase = IF stream[s].todo = {i} THEN "finished" ELSE "sending"]
    <3>2. new \in Stream /\ new.blob = stream[s].blob
      BY <2>1 DEF Stream
    <3>3. stream' = [stream EXCEPT ![s] = new]
      BY <3>1, <2>1 DEF SendChunk, TypeOK, Stream
    <3> HIDE DEF new
    <3> QED  BY <3>2, <3>3 DEF TypeOK
  <2>3. CASE SendOnlyDone(s)
    BY <2>1, <2>3 DEF SendOnlyDone, Stream, TypeOK
  <2>4. CASE SendFails(s)
    <3>1. stream' = [stream EXCEPT ![s] = [stream[s] EXCEPT !.phase = "failed"]]
      BY <2>4 DEF SendFails
    <3>2. [stream[s] EXCEPT !.phase = "failed"] \in Stream
      BY <2>1 DEF Stream
    <3>3. [stream[s] EXCEPT !.phase = "failed"].blob = stream[s].blob
      BY <2>1 DEF Stream
    <3> QED  BY <3>1, <3>2, <3>3 DEF TypeOK
  <2> QED  BY <1>2, <2>2, <2>3, <2>4
<1>3. ASSUME ~ \E s \in Streams :
               \/ \E p \in Peers, b \in Blobs, wanted \in SUBSET Index :
                    StartStream(s, p, b, wanted)
               \/ \E i \in Index : SendChunk(s, i)
               \/ SendOnlyDone(s)
               \/ SendFails(s)
      PROVE  UNCHANGED stream
  BY <1>3 DEF Next, ReceiveMeta, ReceiveDone, DropOrphan, DropUnbuffered, DropDuplicate,
       HashChunk, StoreUnverified, ChunkHashed, AssetHashed, Disconnect, Destroy,
       sender, vars
<1>4. \A s \in Streams :
        (\E i \in Index : SendChunk(s, i)) \/ SendOnlyDone(s) \/ SendFails(s)
          => stream[s] # None
  BY DEF SendChunk, SendOnlyDone, SendFails, Sending
<1> QED  BY <1>1, <1>2, <1>3, <1>4

\* So what is offered only grows, and by StartStream alone.
LEMMA OfferedGrows ==
  ASSUME TypeOK, [Next]_vars
  PROVE  /\ Offered \subseteq Offered'
         /\ \/ \E s \in Streams, p \in Peers, b \in Blobs, wanted \in SUBSET Index :
                 StartStream(s, p, b, wanted)
            \/ Offered' = Offered
BY StreamsKept DEF Offered

\* What a sender appends is about its own blob, with data after its metadata.
LEMMA AppendInv ==
  ASSUME TypeOK, LinkInv, NEW s \in Streams, stream[s] # None,
         NEW msgs \in Seq(Message), Send(stream[s].peer, msgs),
         UNCHANGED pending, Offered \subseteq Offered',
         \A k \in 1..Len(msgs) :
           /\ FromOffer(msgs[k])
           /\ msgs[k].kind = "data" =>
                k > 1 /\ msgs[k - 1].kind = "meta" /\ msgs[k - 1].chunk = msgs[k].chunk
  PROVE  LinkInv'
<1> SUFFICES ASSUME NEW p \in Peers
             PROVE  /\ Paired(channel'[p], pending[p])
                    /\ \A k \in 1..Len(channel'[p]) : FromOffer(channel'[p][k])
  BY DEF LinkInv, FromOffer, Paired
<1> DEFINE q == channel[p]
<1>1. q \in Seq(Message) /\ Paired(q, pending[p]) /\ \A k \in 1..Len(q) : FromOffer(q[k])
  BY DEF TypeOK, LinkInv
<1>2. CASE p # stream[s].peer
  BY <1>1, <1>2 DEF Send, TypeOK
<1>3. CASE p = stream[s].peer
  <2>1. channel'[p] = q \o msgs
    BY <1>3 DEF Send, TypeOK
  <2>2. Paired(q \o msgs, pending[p])
    BY <1>1, PairedAppend
  <2>3. \A k \in 1..Len(q \o msgs) : FromOffer((q \o msgs)[k])
    <3> SUFFICES ASSUME NEW k \in 1..Len(q \o msgs) PROVE FromOffer((q \o msgs)[k])
      OBVIOUS
    <3>1. CASE k <= Len(q)
      BY <1>1, <3>1
    <3>2. CASE k > Len(q)
      <4>1. k - Len(q) \in 1..Len(msgs) /\ (q \o msgs)[k] = msgs[k - Len(q)]
        BY <1>1, <3>2
      <4> QED  BY <4>1
    <3> QED  BY <1>1, <3>1, <3>2
  <2> QED  BY <2>1, <2>2, <2>3
<1> QED  BY <1>2, <1>3

\* What is sent in one turn, and any beginning of it, is such a run of messages.
LEMMA BatchPaired ==
  ASSUME TypeOK, NEW s \in Streams, NEW i \in Index, Sending(s)
  PROVE  \A k \in 1..Len(Batch(s, i)) :
           /\ FromOffer(Batch(s, i)[k])
           /\ Batch(s, i)[k].kind = "data" =>
                /\ k > 1
                /\ Batch(s, i)[k - 1].kind = "meta"
                /\ Batch(s, i)[k - 1].chunk = Batch(s, i)[k].chunk
<1> DEFINE meta == ChunkMsg("meta", s, i)
           data == ChunkMsg("data", s, i)
           done == DoneMsg(s)
<1>1. stream[s].blob \in Offered
  BY DEF Offered, Sending
<1>2. /\ meta.kind = "meta" /\ data.kind = "data" /\ done.kind = "done"
      /\ meta.chunk = data.chunk /\ meta.chunk.blob = stream[s].blob
      /\ done.blob = stream[s].blob
  BY DEF ChunkMsg, DoneMsg
<1>3. FromOffer(meta) /\ FromOffer(data) /\ FromOffer(done)
  BY <1>1, <1>2 DEF FromOffer
<1>4. meta \in Message /\ data \in Message /\ done \in Message
  BY BatchType
<1>5. PICK last \in {<<>>, <<done>>} : Batch(s, i) = <<meta, data>> \o last
  BY DEF Batch
<1> HIDE DEF meta, data, done
<1>6. /\ Len(Batch(s, i)) \in {2, 3}
      /\ Batch(s, i)[1] = meta /\ Batch(s, i)[2] = data
      /\ Len(Batch(s, i)) = 3 => Batch(s, i)[3] = done
  BY <1>4, <1>5
<1> QED  BY <1>2, <1>3, <1>6

\* Receiving a message keeps the link in order, if metadata becomes the pending one.
LEMMA ReceiveInv ==
  ASSUME TypeOK, LinkInv, NEW p \in Peers, NEW kind, Receive(p, kind),
         NEW new, pending' = [pending EXCEPT ![p] = new], UNCHANGED stream,
         new # None => new.blob \in Offered,
         kind = "meta" => new = Head(channel[p]).chunk
  PROVE  LinkInv'
<1> SUFFICES ASSUME NEW r \in Peers
             PROVE  /\ Paired(channel'[r], pending'[r])
                    /\ \A k \in 1..Len(channel'[r]) : FromOffer(channel'[r][k])
                    /\ pending'[r] # None => pending'[r].blob \in Offered
  BY DEF LinkInv, FromOffer, Paired, Offered
<1>1. CASE r # p
  BY <1>1 DEF Receive, LinkInv, TypeOK
<1>2. CASE r = p
  <2> DEFINE q == channel[p]
  <2>1. q \in Seq(Message) /\ q # <<>> /\ Head(q).kind = kind
    BY DEF Receive, TypeOK
  <2>2. channel'[p] = Tail(q) /\ pending'[p] = new
    BY DEF Receive, TypeOK
  <2>3. Paired(Tail(q), new)
    BY <2>1, PairedTail DEF LinkInv
  <2>4. \A k \in 1..Len(Tail(q)) : FromOffer(Tail(q)[k])
    BY <2>1 DEF LinkInv
  <2> QED  BY <1>2, <2>2, <2>3, <2>4
<1> QED  BY <1>1, <1>2

\* The same for a message that leaves the pending metadata alone.
LEMMA ReceiveSameInv ==
  ASSUME TypeOK, LinkInv, NEW p \in Peers, NEW kind, Receive(p, kind), kind # "meta",
         UNCHANGED <<pending, stream>>
  PROVE  LinkInv'
<1> DEFINE new == pending[p]
<1>1. pending' = [pending EXCEPT ![p] = new]
  BY DEF TypeOK
<1>2. new # None => new.blob \in Offered
  BY DEF LinkInv
<1> HIDE DEF new
<1> QED  BY <1>1, <1>2, ReceiveInv

\* And for data that uses up the pending metadata.
LEMMA ReceiveDataInv ==
  ASSUME TypeOK, LinkInv, NEW p \in Peers, Receive(p, "data"),
         pending' = [pending EXCEPT ![p] = None], UNCHANGED stream
  PROVE  LinkInv'
<1> DEFINE kind == "data"
           new == None
<1>1. /\ Receive(p, kind) /\ pending' = [pending EXCEPT ![p] = new]
      /\ new = None /\ kind # "meta"
  OBVIOUS
<1> HIDE DEF kind, new
<1> QED  BY <1>1, ReceiveInv

\* Nor does losing what is in flight, or the pending metadata, put it out of order.
LEMMA LossInv ==
  ASSUME LinkInv, UNCHANGED stream,
         \A p \in Peers : channel'[p] = channel[p] \/ channel'[p] = <<>>,
         \A p \in Peers : pending'[p] = pending[p] \/ pending'[p] = None
  PROVE  LinkInv'
<1>1. Offered' = Offered
  BY DEF Offered
<1> SUFFICES ASSUME NEW p \in Peers
             PROVE  /\ Paired(channel'[p], pending'[p])
                    /\ \A k \in 1..Len(channel'[p]) : FromOffer(channel'[p][k])
                    /\ pending'[p] # None => pending'[p].blob \in Offered
  BY <1>1 DEF LinkInv, FromOffer, Paired
<1>2. /\ Paired(channel[p], pending[p])
      /\ \A k \in 1..Len(channel[p]) : FromOffer(channel[p][k])
      /\ pending[p] # None => pending[p].blob \in Offered
  BY DEF LinkInv
<1>3. CASE channel'[p] = <<>>
  BY <1>2, <1>3 DEF Paired
<1>4. CASE channel'[p] = channel[p]
  BY <1>2, <1>4 DEF Paired
<1> QED  BY <1>3, <1>4

\* The message received is about an offered blob.
LEMMA HeadFromOffer ==
  ASSUME TypeOK, LinkInv, NEW p \in Peers, channel[p] # <<>>
  PROVE  FromOffer(Head(channel[p])) /\ Head(channel[p]) = channel[p][1]
         /\ 1 \in 1..Len(channel[p])
BY DEF TypeOK, LinkInv

\* What the receiver holds stays good when it does nothing and more is offered.
LEMMA ReceiverUntouched ==
  ASSUME TransferInv, Offered \subseteq Offered', UNCHANGED receiver
  PROVE  BufferInv' /\ CurrentInv' /\ HashInv' /\ AssemblyInv'
<1>1. BufferInv'
  <2> SUFFICES ASSUME NEW n \in 1..Len(bufs) PROVE BufferOK(bufs[n])'
    BY DEF BufferInv, receiver
  <2>1. BufferOK(bufs[n]) /\ bufs' = bufs
    BY DEF TransferInv, BufferInv, receiver
  <2> QED  BY <2>1 DEF BufferOK, InPlace
<1>2. CurrentInv'
  BY DEF TransferInv, CurrentInv, receiver
<1>3. HashInv'
  BY DEF TransferInv, HashInv, receiver
<1>4. AssemblyInv'
  <2> SUFFICES ASSUME NEW t \in assembling PROVE AssemblyOK(t, bufs[t.buf])'
    BY DEF AssemblyInv, receiver
  <2>1. AssemblyOK(t, bufs[t.buf]) /\ bufs' = bufs
    BY DEF TransferInv, AssemblyInv, receiver
  <2> QED  BY <2>1 DEF AssemblyOK, InPlace
<1> QED  BY <1>1, <1>2, <1>3, <1>4

\* No buffer object changes its asset or its size, and the new contents are good.
BuffersKept ==
  /\ Len(bufs') = Len(bufs)
  /\ \A n \in 1..Len(bufs) :
       /\ BufferOK(bufs'[n])
       /\ bufs'[n].asset = bufs[n].asset
       /\ bufs'[n].total = bufs[n].total

\* Tasks that hold buffers are indifferent to such a change.
LEMMA BuffersKeptInv ==
  ASSUME TransferInv, BuffersKept, UNCHANGED stream
  PROVE  /\ BufferInv'
         /\ \A t \in hashing : bufs'[t.buf].asset = AssetOf[t.meta.blob]
         /\ \A t \in assembling : AssemblyOK(t, bufs'[t.buf])
         /\ \A a \in Assets : current[a] # 0 => bufs'[current[a]].asset = a
<1>1. BufferInv'
  BY DEF BuffersKept, BufferInv, BufferOK, InPlace, Offered
<1>2. \A t \in hashing : bufs'[t.buf].asset = AssetOf[t.meta.blob]
  BY DEF BuffersKept, TransferInv, TypeOK, HashInv
<1>3. \A t \in assembling : AssemblyOK(t, bufs'[t.buf])
  BY DEF BuffersKept, TransferInv, TypeOK, AssemblyInv, AssemblyOK
<1>4. \A a \in Assets : current[a] # 0 => bufs'[current[a]].asset = a
  BY DEF BuffersKept, TransferInv, TypeOK, CurrentInv
<1> QED  BY <1>1, <1>2, <1>3, <1>4

\* A chunk that belongs to a buffer's asset can be put in the place its index names.
LEMMA StoredKept ==
  ASSUME TransferInv, NEW n \in 1..Len(bufs), NEW c \in Chunk,
         c.blob \in Offered, AssetOf[c.blob] = bufs[n].asset,
         bufs' = Stored(bufs, n, c, c)
  PROVE  BuffersKept
<1> DEFINE new == [bufs[n] EXCEPT !.received[c.index] = c]
<1>1. bufs \in Seq(Buffer) /\ bufs[n] \in Buffer /\ c.index \in Index /\ BufferOK(bufs[n])
  BY ChunkType DEF TransferInv, TypeOK, BufferInv
<1>2. bufs' = [bufs EXCEPT ![n] = new]
  BY DEF Stored
<1>3. /\ new.asset = bufs[n].asset /\ new.total = bufs[n].total /\ new.hash = bufs[n].hash
      /\ \A i \in Index : new.received[i] = IF i = c.index THEN c ELSE bufs[n].received[i]
  BY <1>1 DEF Buffer
<1> HIDE DEF new
<1>4. BufferOK(new)
  BY <1>1, <1>3 DEF BufferOK, InPlace
<1>5. Len(bufs') = Len(bufs) /\ \A k \in 1..Len(bufs) : bufs'[k] = IF k = n THEN new ELSE bufs[k]
  BY <1>1, <1>2
<1> QED  BY <1>3, <1>4, <1>5 DEF BuffersKept, TransferInv, BufferInv

\* A reassembly started from good buffers is good.
LEMMA TryReassembleInv ==
  ASSUME TransferInv, TypeOK', BuffersKept, UNCHANGED stream, NEW a \in Assets, NEW id,
         TryReassemble(a, id, bufs')
  PROVE  CurrentInv' /\ AssemblyInv'
<1> DEFINE n == current[a]
           parts == [i \in 0..(bufs'[n].total - 1) |-> bufs'[n].received[i]]
           new == [id |-> id, buf |-> n, asset |-> a, parts |-> parts]
<1>1. /\ \A t \in assembling : AssemblyOK(t, bufs'[t.buf])
      /\ \A b \in Assets : current[b] # 0 => bufs'[current[b]].asset = b
  BY BuffersKeptInv
<1>2. ASSUME assembling' \subseteq assembling PROVE AssemblyInv'
  BY <1>1, <1>2 DEF AssemblyInv, AssemblyOK, InPlace, Offered
<1>3. ASSUME current' = [current EXCEPT ![a] = 0] \/ current' = current PROVE CurrentInv'
  BY <1>1, <1>3 DEF CurrentInv, TransferInv, TypeOK
<1>4. CASE UNCHANGED <<current, assembling>>
  BY <1>2, <1>3, <1>4
<1>5. CASE current' = [current EXCEPT ![a] = 0] /\ UNCHANGED assembling
  BY <1>2, <1>3, <1>5
<1>6. CASE /\ n # 0 /\ \A i \in 0..(bufs'[n].total - 1) : bufs'[n].received[i] # None
           /\ assembling' = assembling \cup {new} /\ UNCHANGED current
  <2>1. n \in 1..Len(bufs)
    BY <1>6 DEF TransferInv, TypeOK
  <2>2. bufs'[n].asset = a
    BY <1>1, <1>6
  <2>3. BufferOK(bufs'[n]) /\ bufs'[n] \in Buffer
    BY <2>1 DEF BuffersKept, TypeOK
  <2>4. 0..(bufs'[n].total - 1) \subseteq Index
    BY <2>3 DEF Buffer, Index
  <2>5. \A i \in 0..(bufs'[n].total - 1) :
          bufs'[n].received[i] \in Chunk /\ InPlace(bufs'[n].received[i], i, a)
    BY <1>6, <2>2, <2>3, <2>4 DEF BufferOK, Buffer
  <2>6. /\ parts \in [0..(bufs'[n].total - 1) -> Chunk]
        /\ \A i \in 0..(bufs'[n].total - 1) : InPlace(parts[i], i, a)
    BY <2>5
  <2>7. new.buf = n /\ new.asset = a /\ new.parts = parts
    OBVIOUS
  <2> HIDE DEF parts, new
  <2>8. AssemblyOK(new, bufs'[new.buf])
    BY <2>2, <2>6, <2>7 DEF AssemblyOK
  <2>9. AssemblyInv'
    BY <1>1, <1>6, <2>8 DEF AssemblyInv, AssemblyOK, InPlace, Offered
  <2> QED  BY <1>3, <1>6, <2>9
<1> QED  BY <1>4, <1>5, <1>6 DEF TryReassemble, Complete

LEMMA InvInit == Init => TransferInv
<1> SUFFICES ASSUME Init PROVE TransferInv
  OBVIOUS
<1>1. TypeOK
  BY TypeInit
<1>2. LinkInv
  BY DEF Init, LinkInv, Paired
<1>3. BufferInv /\ CurrentInv /\ HashInv /\ AssemblyInv
  BY DEF Init, BufferInv, CurrentInv, HashInv, AssemblyInv
<1> QED  BY <1>1, <1>2, <1>3 DEF TransferInv

LEMMA InvStep == TransferInv /\ [Next]_vars => TransferInv'
<1> SUFFICES ASSUME TransferInv, [Next]_vars
             PROVE  LinkInv' /\ BufferInv' /\ CurrentInv' /\ HashInv' /\ AssemblyInv'
  BY TypeStep DEF TransferInv
<1> TypeOK /\ TypeOK' /\ LinkInv
  BY TypeStep DEF TransferInv
<1> Offered \subseteq Offered'
  BY OfferedGrows
<1>0. ASSUME UNCHANGED <<bufs, current, assembling, stream>>, HashInv'
      PROVE  BufferInv' /\ CurrentInv' /\ HashInv' /\ AssemblyInv'
  <2>1. BufferInv'
    BY <1>0 DEF TransferInv, BufferInv, BufferOK, InPlace, Offered
  <2>2. AssemblyInv'
    BY <1>0 DEF TransferInv, AssemblyInv, AssemblyOK, InPlace, Offered
  <2>3. CurrentInv'
    BY <1>0 DEF TransferInv, CurrentInv
  <2> QED  BY <1>0, <2>1, <2>2, <2>3
<1>1. ASSUME NEW s \in Streams, NEW p \in Peers, NEW b \in Blobs,
             NEW wanted \in SUBSET Index, StartStream(s, p, b, wanted)
      PROVE  LinkInv' /\ BufferInv' /\ CurrentInv' /\ HashInv' /\ AssemblyInv'
  <2>1. UNCHANGED <<channel, pending>> /\ UNCHANGED receiver
    BY <1>1 DEF StartStream, link, receiver
  <2>2. LinkInv'
    BY <2>1 DEF LinkInv, Paired, FromOffer
  <2> QED  BY <2>1, <2>2, ReceiverUntouched
<1>2. ASSUME NEW s \in Streams, NEW i \in Index, SendChunk(s, i)
      PROVE  LinkInv' /\ BufferInv' /\ CurrentInv' /\ HashInv' /\ AssemblyInv'
  <2>1. Sending(s) /\ stream[s] # None /\ Send(stream[s].peer, Batch(s, i)) /\ UNCHANGED receiver
    BY <1>2 DEF SendChunk, Sending
  <2>2. UNCHANGED pending
    BY <2>1 DEF receiver
  <2> DEFINE msgs == Batch(s, i)
  <2>3. /\ msgs \in Seq(Message)
        /\ \A k \in 1..Len(msgs) :
             /\ FromOffer(msgs[k])
             /\ msgs[k].kind = "data" =>
                  k > 1 /\ msgs[k - 1].kind = "meta" /\ msgs[k - 1].chunk = msgs[k].chunk
    BY <2>1, BatchType, BatchPaired
  <2>4. stream[s] # None /\ Send(stream[s].peer, msgs)
    BY <2>1
  <2> HIDE DEF msgs
  <2>5. LinkInv'
    BY <2>2, <2>3, <2>4, AppendInv
  <2> QED  BY <2>1, <2>5, ReceiverUntouched
<1>3. ASSUME NEW s \in Streams, SendOnlyDone(s)
      PROVE  LinkInv' /\ BufferInv' /\ CurrentInv' /\ HashInv' /\ AssemblyInv'
  <2> DEFINE msgs == <<DoneMsg(s)>>
  <2>1. stream[s] # None /\ Send(stream[s].peer, msgs) /\ UNCHANGED receiver
    BY <1>3 DEF SendOnlyDone, Sending
  <2>2. UNCHANGED pending
    BY <2>1 DEF receiver
  <2>3. msgs \in Seq(Message)
    BY <2>1, StreamInUse DEF DoneMsg, Message, Stream
  <2>4. \A k \in 1..Len(msgs) : FromOffer(msgs[k]) /\ msgs[k].kind # "data"
    BY <2>1 DEF DoneMsg, FromOffer, Offered
  <2> HIDE DEF msgs
  <2>6. \A k \in 1..Len(msgs) :
          /\ FromOffer(msgs[k])
          /\ msgs[k].kind = "data" =>
               k > 1 /\ msgs[k - 1].kind = "meta" /\ msgs[k - 1].chunk = msgs[k].chunk
    BY <2>4
  <2>5. LinkInv'
    BY <2>1, <2>2, <2>3, <2>6, AppendInv
  <2> QED  BY <2>1, <2>5, ReceiverUntouched
<1>4. ASSUME NEW s \in Streams, SendFails(s)
      PROVE  LinkInv' /\ BufferInv' /\ CurrentInv' /\ HashInv' /\ AssemblyInv'
  <2>1. Sending(s) /\ stream[s] # None /\ UNCHANGED receiver
    BY <1>4 DEF SendFails, Sending
  <2>2. UNCHANGED pending
    BY <2>1 DEF receiver
  <2>3. LinkInv'
    <3>1. CASE UNCHANGED channel
      BY <2>2, <3>1 DEF LinkInv, Paired, FromOffer
    <3>2. ASSUME NEW i \in Due(s), NEW n \in 1..2, n < Len(Batch(s, i)),
                 Send(stream[s].peer, SubSeq(Batch(s, i), 1, n))
          PROVE  LinkInv'
      <4> DEFINE batch == Batch(s, i)
                 msgs == SubSeq(batch, 1, n)
      <4>1. i \in Index
        BY <2>1, StreamInUse DEF Due, Stream
      <4>2. batch \in Seq(Message)
        BY <2>1, <4>1, BatchType
      <4>3. \A k \in 1..Len(batch) :
              /\ FromOffer(batch[k])
              /\ batch[k].kind = "data" =>
                   k > 1 /\ batch[k - 1].kind = "meta" /\ batch[k - 1].chunk = batch[k].chunk
        BY <2>1, <4>1, BatchPaired
      <4>4. Send(stream[s].peer, msgs) /\ n < Len(batch)
        BY <3>2
      <4> HIDE DEF batch
      <4>5. msgs \in Seq(Message) /\ Len(msgs) = n /\ \A k \in 1..n : msgs[k] = batch[k]
        BY <4>2, <4>4
      <4> HIDE DEF msgs
      <4>6. \A k \in 1..Len(msgs) :
              /\ FromOffer(msgs[k])
              /\ msgs[k].kind = "data" =>
                   k > 1 /\ msgs[k - 1].kind = "meta" /\ msgs[k - 1].chunk = msgs[k].chunk
        <5> SUFFICES ASSUME NEW k \in 1..Len(msgs)
                     PROVE  /\ FromOffer(msgs[k])
                            /\ msgs[k].kind = "data" =>
                                 /\ k > 1 /\ msgs[k - 1].kind = "meta"
                                 /\ msgs[k - 1].chunk = msgs[k].chunk
          OBVIOUS
        <5>1. k \in 1..Len(batch) /\ msgs[k] = batch[k] /\ (k > 1 => msgs[k - 1] = batch[k - 1])
          BY <4>2, <4>4, <4>5
        <5> QED  BY <4>3, <5>1
      <4> QED  BY <2>1, <2>2, <4>4, <4>5, <4>6, AppendInv
    <3> QED  BY <1>4, <3>1, <3>2 DEF SendFails
  <2> QED  BY <2>1, <2>3, ReceiverUntouched
<1>5. ASSUME NEW p \in Peers, ReceiveMeta(p)
      PROVE  LinkInv' /\ BufferInv' /\ CurrentInv' /\ HashInv' /\ AssemblyInv'
  <2> DEFINE c == Head(channel[p]).chunk
             a == AssetOf[c.blob]
  <2>1. /\ Receive(p, "meta") /\ pending' = [pending EXCEPT ![p] = c]
        /\ UNCHANGED <<stream, open, hashing, assembling, delivered, orphaned>>
    BY <1>5 DEF ReceiveMeta, sender
  <2>2. c \in Chunk /\ c.blob \in Blobs /\ a \in Assets
    BY <2>1, ReceiveType, MessageType, ChunkType
  <2>3. c.blob \in Offered
    BY <2>1, ReceiveType, HeadFromOffer DEF Receive, FromOffer
  <2>4. LinkInv'
    BY <2>1, <2>3, ReceiveInv
  <2>5. CASE current[a] # 0
    <3>1. UNCHANGED <<bufs, current, assembling, stream, hashing>>
      BY <1>5, <2>1, <2>5 DEF ReceiveMeta
    <3>2. HashInv'
      BY <3>1 DEF TransferInv, HashInv, Offered
    <3> QED  BY <1>0, <2>4, <3>1, <3>2
  <2>6. CASE current[a] = 0
    <3> DEFINE new == NewBuffer(c.blob)
    <3>1. /\ bufs' = Append(bufs, new)
          /\ current' = [current EXCEPT ![a] = Len(bufs) + 1]
      BY <1>5, <2>6 DEF ReceiveMeta
    <3>2. new \in Buffer
      BY <2>2, NewBufferType
    <3>3. BufferOK(new) /\ new.asset = a
      BY <2>2, <2>3 DEF BufferOK, NewBuffer
    <3> HIDE DEF new
    <3>4. /\ Len(bufs') = Len(bufs) + 1 /\ bufs'[Len(bufs) + 1] = new
          /\ \A n \in 1..Len(bufs) : bufs'[n] = bufs[n]
      BY <3>1, <3>2 DEF TypeOK
    <3>5. Offered' = Offered
      BY <2>1 DEF Offered
    <3>6. \A n \in 1..Len(bufs') : BufferOK(bufs'[n])
      <4> SUFFICES ASSUME NEW n \in 1..Len(bufs') PROVE BufferOK(bufs'[n])
        OBVIOUS
      <4>1. CASE n = Len(bufs) + 1
        BY <3>3, <3>4, <4>1
      <4>2. CASE n # Len(bufs) + 1
        <5>1. n \in 1..Len(bufs)
          BY <3>4, <4>2 DEF TypeOK
        <5> QED  BY <3>4, <5>1 DEF TransferInv, BufferInv
      <4> QED  BY <4>1, <4>2
    <3>7. BufferInv'
      BY <3>5, <3>6 DEF BufferInv, BufferOK, InPlace
    <3>8. CurrentInv'
      BY <2>2, <3>1, <3>3, <3>4 DEF TransferInv, CurrentInv, TypeOK
    <3>9. HashInv'
      BY <2>1, <3>4, <3>5 DEF TransferInv, HashInv, TypeOK
    <3>10. \A t \in assembling : AssemblyOK(t, bufs'[t.buf])
      BY <3>4 DEF TransferInv, AssemblyInv, TypeOK
    <3>11. AssemblyInv'
      BY <2>1, <3>5, <3>10 DEF AssemblyInv, AssemblyOK, InPlace
    <3> QED  BY <2>4, <3>7, <3>8, <3>9, <3>11
  <2> QED  BY <2>5, <2>6
<1>6. ASSUME NEW p \in Peers, ReceiveDone(p)
      PROVE  LinkInv' /\ BufferInv' /\ CurrentInv' /\ HashInv' /\ AssemblyInv'
  <2> DEFINE m == Head(channel[p])
             a == AssetOf[m.blob]
             n == current[a]
  <2>1. /\ Receive(p, "done")
        /\ UNCHANGED <<stream, pending, hashing>>
    BY <1>6 DEF ReceiveDone, sender
  <2>2. m.blob \in Blobs /\ a \in Assets /\ m.blob \in Offered
    BY <2>1, ReceiveType, MessageType, HeadFromOffer DEF Receive, FromOffer
  <2>3. LinkInv'
    BY <2>1, ReceiveSameInv
  <2>4. CASE n = 0
    <3>1. UNCHANGED <<bufs, current, assembling, stream, hashing>>
      BY <1>6, <2>1, <2>4 DEF ReceiveDone
    <3>2. HashInv'
      BY <3>1 DEF TransferInv, HashInv, Offered
    <3> QED  BY <1>0, <2>3, <3>1, <3>2
  <2>5. CASE n # 0
    <3> DEFINE new == [bufs[n] EXCEPT !.hash = m.blob]
    <3>1. n \in 1..Len(bufs) /\ bufs[n] \in Buffer /\ BufferOK(bufs[n]) /\ bufs[n].asset = a
      <4>1. n \in 1..Len(bufs)
        BY <2>2, <2>5 DEF TypeOK
      <4>2. bufs[n] \in Buffer
        BY <4>1 DEF TypeOK
      <4>3. BufferOK(bufs[n])
        BY <4>1 DEF TransferInv, BufferInv
      <4>4. bufs[n].asset = a
        BY <2>2, <2>5 DEF TransferInv, CurrentInv
      <4> QED  BY <4>1, <4>2, <4>3, <4>4
    <3>2. bufs' = [bufs EXCEPT ![n] = new] /\ TryReassemble(a, <<m.src, MaxChunks>>, bufs')
      BY <1>6, <2>5 DEF ReceiveDone
    <3>3. /\ new.asset = bufs[n].asset /\ new.total = bufs[n].total
          /\ new.received = bufs[n].received /\ new.hash = m.blob
      BY <3>1 DEF Buffer
    <3> HIDE DEF new
    <3>4. BufferOK(new)
      BY <2>2, <3>1, <3>3 DEF BufferOK
    <3>5. /\ Len(bufs') = Len(bufs)
          /\ \A k \in 1..Len(bufs) : bufs'[k] = IF k = n THEN new ELSE bufs[k]
      <4> HIDE DEF n
      <4> QED  BY <3>1, <3>2 DEF TypeOK
    <3>6. BuffersKept
      BY <3>3, <3>4, <3>5 DEF BuffersKept, TransferInv, BufferInv
    <3>7. CurrentInv' /\ AssemblyInv'
      BY <2>1, <2>2, <3>2, <3>6, TryReassembleInv
    <3>8. HashInv'
      BY <2>1, <3>6, BuffersKeptInv DEF TransferInv, HashInv, Offered
    <3> QED  BY <2>1, <2>3, <3>6, <3>7, <3>8, BuffersKeptInv
  <2> QED  BY <2>4, <2>5
<1>7. ASSUME NEW p \in Peers, DropOrphan(p)
      PROVE  LinkInv' /\ BufferInv' /\ CurrentInv' /\ HashInv' /\ AssemblyInv'
  <2>1. /\ Receive(p, "data")
        /\ UNCHANGED <<stream, pending, bufs, current, hashing, assembling>>
    BY <1>7 DEF DropOrphan, sender
  <2>2. HashInv'
    BY <2>1 DEF TransferInv, HashInv, Offered
  <2> QED  BY <1>0, <2>1, <2>2, ReceiveSameInv
<1>8. ASSUME NEW p \in Peers, DropUnbuffered(p)
      PROVE  LinkInv' /\ BufferInv' /\ CurrentInv' /\ HashInv' /\ AssemblyInv'
  <2>1. /\ Receive(p, "data")
        /\ UNCHANGED <<stream, pending, bufs, current, hashing, assembling>>
    BY <1>8 DEF DropUnbuffered, sender, receiver
  <2>2. HashInv'
    BY <2>1 DEF TransferInv, HashInv, Offered
  <2> QED  BY <1>0, <2>1, <2>2, ReceiveSameInv
<1>9. ASSUME NEW p \in Peers, DropDuplicate(p)
      PROVE  LinkInv' /\ BufferInv' /\ CurrentInv' /\ HashInv' /\ AssemblyInv'
  <2>1. /\ Receive(p, "data")
        /\ pending' = [pending EXCEPT ![p] = None]
        /\ UNCHANGED <<stream, bufs, current, hashing, assembling>>
    BY <1>9 DEF DropDuplicate, sender
  <2>2. HashInv'
    BY <2>1 DEF TransferInv, HashInv, Offered
  <2>3. LinkInv'
    BY <2>1, ReceiveDataInv
  <2> QED  BY <1>0, <2>1, <2>2, <2>3
<1>10. ASSUME NEW p \in Peers, HashChunk(p)
       PROVE  LinkInv' /\ BufferInv' /\ CurrentInv' /\ HashInv' /\ AssemblyInv'
  <2> DEFINE new == [src |-> Head(channel[p]).src, peer |-> p, meta |-> pending[p],
                     data |-> Head(channel[p]).chunk, buf |-> PendingBuffer(p)]
  <2>1. /\ Receive(p, "data") /\ pending[p] # None /\ PendingBuffer(p) # 0
        /\ hashing' = hashing \cup {new}
        /\ UNCHANGED <<stream, pending, bufs, current, assembling>>
    BY <1>10 DEF HashChunk, sender
  <2>2. pending[p] = Head(channel[p]).chunk
    BY <2>1, HeadFromOffer DEF Receive, LinkInv, Paired
  <2>3. pending[p] \in Chunk /\ pending[p].blob \in Offered
    BY <2>1 DEF TypeOK, LinkInv
  <2>4. bufs[PendingBuffer(p)].asset = AssetOf[pending[p].blob]
    BY <2>1, <2>3, ChunkType DEF PendingBuffer, TransferInv, CurrentInv
  <2>5. /\ new.meta = new.data /\ new.meta.blob \in Offered
        /\ bufs[new.buf].asset = AssetOf[new.meta.blob]
    BY <2>2, <2>3, <2>4
  <2> HIDE DEF new
  <2>6. HashInv'
    BY <2>1, <2>5 DEF TransferInv, HashInv, Offered
  <2> QED  BY <1>0, <2>1, <2>6, ReceiveSameInv
<1>11. ASSUME NEW p \in Peers, StoreUnverified(p)
       PROVE  LinkInv' /\ BufferInv' /\ CurrentInv' /\ HashInv' /\ AssemblyInv'
  <2> DEFINE m == Head(channel[p])
             c == pending[p]
             a == AssetOf[c.blob]
             n == PendingBuffer(p)
  <2>1. /\ Receive(p, "data") /\ c # None /\ n # 0
        /\ bufs' = Stored(bufs, n, c, m.chunk)
        /\ TryReassemble(a, <<m.src, m.chunk.index>>, bufs')
        /\ pending' = [pending EXCEPT ![p] = None]
        /\ UNCHANGED <<stream, hashing>>
    BY <1>11 DEF StoreUnverified, sender
  <2>2. c = m.chunk
    BY <2>1, HeadFromOffer DEF Receive, LinkInv, Paired
  <2>3. c \in Chunk /\ c.blob \in Offered /\ a \in Assets
    BY <2>1, ChunkType DEF TypeOK, LinkInv
  <2>4. n \in 1..Len(bufs) /\ bufs[n].asset = a
    BY <2>1, <2>3 DEF PendingBuffer, TransferInv, CurrentInv, TypeOK
  <2>5. BuffersKept
    BY <2>1, <2>2, <2>3, <2>4, StoredKept
  <2>6. CurrentInv' /\ AssemblyInv'
    BY <2>1, <2>3, <2>5, TryReassembleInv
  <2>7. HashInv'
    BY <2>1, <2>5, BuffersKeptInv DEF TransferInv, HashInv, Offered
  <2>8. LinkInv'
    BY <2>1, ReceiveDataInv
  <2> QED  BY <2>1, <2>5, <2>6, <2>7, <2>8, BuffersKeptInv
<1>12. ASSUME NEW t \in hashing, ChunkHashed(t)
       PROVE  LinkInv' /\ BufferInv' /\ CurrentInv' /\ HashInv' /\ AssemblyInv'
  <2> DEFINE c == t.meta
             a == AssetOf[c.blob]
             n == t.buf
  <2>1. /\ t.data = c /\ c \in Chunk /\ c.blob \in Offered /\ a \in Assets
        /\ n \in 1..Len(bufs) /\ bufs[n].asset = a
    BY ChunkType DEF TransferInv, HashInv, TypeOK, HashTask
  <2>2. /\ hashing' = hashing \ {t}
        /\ pending' = [pending EXCEPT ![t.peer] = None]
        /\ bufs' = Stored(bufs, n, c, c)
        /\ TryReassemble(a, <<t.src, t.data.index>>, bufs')
        /\ UNCHANGED <<stream, channel>>
    BY <1>12, <2>1 DEF ChunkHashed, sender
  <2>3. LinkInv'
    BY <2>2, LossInv DEF TypeOK
  <2>4. BuffersKept
    BY <2>1, <2>2, StoredKept
  <2>5. CurrentInv' /\ AssemblyInv'
    BY <2>1, <2>2, <2>4, TryReassembleInv
  <2>6. HashInv'
    BY <2>2, <2>4, BuffersKeptInv DEF TransferInv, HashInv, Offered
  <2> QED  BY <2>2, <2>3, <2>4, <2>5, <2>6, BuffersKeptInv
<1>13. ASSUME NEW t \in assembling, AssetHashed(t)
       PROVE  LinkInv' /\ BufferInv' /\ CurrentInv' /\ HashInv' /\ AssemblyInv'
  <2>1. /\ UNCHANGED <<stream, channel, pending, bufs, hashing>>
        /\ assembling' \subseteq assembling
        /\ \/ current' = [current EXCEPT ![t.asset] = 0]
           \/ current' = current
    BY <1>13 DEF AssetHashed, Complete, sender
  <2>2. LinkInv'
    BY <2>1, LossInv
  <2>3. BufferInv' /\ HashInv'
    BY <2>1 DEF TransferInv, BufferInv, BufferOK, HashInv, InPlace, Offered
  <2>4. AssemblyInv'
    BY <2>1 DEF TransferInv, AssemblyInv, AssemblyOK, InPlace, Offered
  <2>5. CurrentInv'
    BY <2>1 DEF TransferInv, CurrentInv, TypeOK
  <2> QED  BY <2>2, <2>3, <2>4, <2>5
<1>14. ASSUME NEW p \in Peers, Disconnect(p)
       PROVE  LinkInv' /\ BufferInv' /\ CurrentInv' /\ HashInv' /\ AssemblyInv'
  <2>1. channel' = [channel EXCEPT ![p] = <<>>] /\ UNCHANGED <<stream, pending>>
        /\ UNCHANGED receiver
    BY <1>14 DEF Disconnect, receiver
  <2>2. LinkInv'
    BY <2>1, LossInv DEF TypeOK
  <2> QED  BY <2>1, <2>2, ReceiverUntouched
<1>15. CASE Destroy
  <2>1. /\ UNCHANGED <<stream, bufs, hashing, assembling>>
        /\ channel' = [p \in Peers |-> <<>>] /\ pending' = [p \in Peers |-> None]
        /\ current' = [a \in Assets |-> 0]
    BY <1>15 DEF Destroy
  <2>2. LinkInv'
    BY <2>1, LossInv
  <2>3. BufferInv' /\ HashInv'
    BY <2>1 DEF TransferInv, BufferInv, BufferOK, HashInv, InPlace, Offered
  <2>4. AssemblyInv'
    BY <2>1 DEF TransferInv, AssemblyInv, AssemblyOK, InPlace, Offered
  <2>5. CurrentInv'
    BY <2>1 DEF CurrentInv
  <2> QED  BY <2>2, <2>3, <2>4, <2>5
<1>16. CASE UNCHANGED vars
  <2>1. UNCHANGED <<stream, channel, pending>> /\ UNCHANGED receiver
    BY <1>16 DEF vars, receiver
  <2>2. LinkInv'
    BY <2>1, LossInv
  <2> QED  BY <2>1, <2>2, ReceiverUntouched
<1> QED  BY <1>1, <1>2, <1>3, <1>4, <1>5, <1>6, <1>7, <1>8, <1>9, <1>10, <1>11, <1>12,
            <1>13, <1>14, <1>15, <1>16 DEF Next

LEMMA Invariant == Spec => []TransferInv
BY InvInit, InvStep, PTL DEF Spec

------------------------------------------------------------------------------
(* The results *)

\* Chunk i of an asset is only ever stored at place i of a buffer of that asset, for any
\* number of peers streaming any versions of any assets at once (storeBinaryChunk).
THEOREM PlacementCorrect == Spec => []ChunkPlacement
<1>1. TransferInv => ChunkPlacement
  BY DEF TransferInv, BufferInv, BufferOK, InPlace, ChunkPlacement
<1> QED  BY <1>1, Invariant, PTL

\* With one version of an asset about, only that version is offered for it.
LEMMA OneVersionOffered ==
  ASSUME NEW a, SingleVersion(a), NEW b \in Offered, NEW c \in Offered,
         AssetOf[b] = a, AssetOf[c] = a
  PROVE  b = c
BY DEF SingleVersion, Offered

\* No digest that is running will raise a false alarm.
LEMMA HonestHashes == TransferInv => NoFalseAlarm
<1> SUFFICES ASSUME TransferInv PROVE NoFalseAlarm
  OBVIOUS
<1>1. \A t \in hashing : t.meta = t.data
  BY DEF TransferInv, HashInv
<1>2. ASSUME NEW t \in assembling, SingleVersion(t.asset)
      PROVE  t.parts = Content(bufs[t.buf].hash)
  <2> DEFINE buf == bufs[t.buf]
  <2>1. BufferOK(buf) /\ AssemblyOK(t, buf)
    BY DEF TransferInv, TypeOK, BufferInv, AssemblyInv
  <2>2. buf.total = TotalOf[buf.hash]
    BY <1>2, <2>1, OneVersionOffered DEF BufferOK, AssemblyOK
  <2>3. ASSUME NEW i \in 0..(buf.total - 1)
        PROVE  t.parts[i] = [blob |-> buf.hash, index |-> i]
    <3>1. t.parts[i] \in Chunk /\ InPlace(t.parts[i], i, t.asset)
      BY <2>1 DEF AssemblyOK
    <3>2. t.parts[i].blob = buf.hash /\ t.parts[i].index = i
      BY <1>2, <2>1, <3>1, OneVersionOffered DEF BufferOK, AssemblyOK, InPlace
    <3> QED  BY <3>1, <3>2 DEF Chunk
  <2>4. t.parts = [i \in 0..(buf.total - 1) |-> t.parts[i]]
    BY <2>1 DEF AssemblyOK
  <2> HIDE DEF buf
  <2>5. t.parts = [i \in 0..(buf.total - 1) |-> [blob |-> buf.hash, index |-> i]]
    BY <2>3, <2>4
  <2> QED  BY <2>2, <2>5 DEF Content, buf
<1> QED  BY <1>1, <1>2 DEF NoFalseAlarm

\* Honest peers never make the receiver report an integrity error, as long as a single
\* version of the asset circulates (onIntegrityError in storeBinaryChunk, tryReassemble).
THEOREM NoFalseAlarms == Spec => []NoFalseAlarm
BY HonestHashes, Invariant, PTL

\* With verification on, every call of onAssetComplete hands over a whole, unmixed copy of
\* a blob that a peer offered for that asset: the chunked transfer implements
\* AssetDelivery, whatever versions, duplicates, failures and digest orders occur.
THEOREM TransferImplementsDelivery ==
  ASSUME VerifyIntegrity
  PROVE  Spec => DeliversWholeBlobs
<1>1. Init => Delivery!Init
  BY DEF Init, Delivery!Init, Offered
<1>2. TransferInv /\ [Next]_vars => [Delivery!Next]_(Delivery!dvars)
  <2> SUFFICES ASSUME TransferInv, [Next]_vars
               PROVE  Delivery!Next \/ UNCHANGED <<Offered, delivered>>
    BY DEF Delivery!dvars
  <2> TypeOK
    BY DEF TransferInv
  <2>1. ASSUME NEW s \in Streams, NEW p \in Peers, NEW b \in Blobs,
               NEW wanted \in SUBSET Index, StartStream(s, p, b, wanted)
        PROVE  Delivery!Next
    <3>1. UNCHANGED delivered
      BY <2>1 DEF StartStream, receiver
    <3>2. /\ stream[s] = None /\ stream'[s] # None /\ stream'[s].blob = b
          /\ \A r \in Streams \ {s} : stream'[r] = stream[r]
      <4> DEFINE all == 0..(TotalOf[b] - 1)
                 new == [peer |-> p, blob |-> b, full |-> wanted = {}, phase |-> "sending",
                         todo |-> IF wanted = {} THEN all ELSE wanted \cap all]
      <4>1. stream[s] = None /\ stream' = [stream EXCEPT ![s] = new]
        BY <2>1 DEF StartStream
      <4>2. stream'[s] \in Stream \cup {None} /\ stream'[s] = new
        BY <4>1, TypeStep DEF TypeOK
      <4>3. new.blob = b /\ new # None
        <5>1. all \subseteq Index
          BY DEF Index
        <5>2. (wanted = {}) \in BOOLEAN
          OBVIOUS
        <5>3. new \in Stream
          BY <5>1, <5>2 DEF Stream
        <5> QED  BY <5>3
      <4> QED  BY <4>1, <4>2, <4>3 DEF TypeOK
    <3>3. Offered' = Offered \cup {b}
      BY <3>2 DEF Offered
    <3> QED  BY <3>1, <3>3 DEF Delivery!Next, Delivery!Offer
  <2>2. ASSUME NEW t \in assembling, AssetHashed(t)
        PROVE  Delivery!Next \/ UNCHANGED <<Offered, delivered>>
    <3> DEFINE b == bufs[t.buf].hash
    <3>1. Offered' = Offered
      BY <2>2 DEF AssetHashed, sender, Offered
    <3>2. CASE t.parts # Content(b)
      BY <2>2, <3>1, <3>2 DEF AssetHashed
    <3>3. CASE t.parts = Content(b)
      <4>1. delivered' = delivered \cup {[id |-> t.id, asset |-> t.asset, parts |-> Content(b)]}
        BY <2>2, <3>3 DEF AssetHashed, Complete
      <4>2. t.id \in Cause /\ t.asset \in Assets
        BY DEF TypeOK, AssemblyTask
      <4>3. b \in Offered /\ AssetOf[b] = t.asset
        BY DEF TransferInv, TypeOK, BufferInv, BufferOK, AssemblyInv, AssemblyOK
      <4>4. Delivery!Content(b) = Content(b)
        BY DEF Content, Delivery!Content
      <4> HIDE DEF b
      <4> QED  BY <3>1, <4>1, <4>2, <4>3, <4>4 DEF Delivery!Next, Delivery!Deliver
    <3> QED  BY <3>2, <3>3
  <2>3. ASSUME NEW a, NEW id, NEW bs, TryReassemble(a, id, bs)
        PROVE  UNCHANGED delivered
    BY <2>3 DEF TryReassemble
  <2>4. ASSUME ~ \E t \in assembling : AssetHashed(t)
        PROVE  UNCHANGED delivered
    BY <2>3, <2>4 DEF Next, StartStream, SendChunk, SendOnlyDone, SendFails, ReceiveMeta,
         ReceiveDone, DropOrphan, DropUnbuffered, DropDuplicate, HashChunk, StoreUnverified,
         ChunkHashed, Disconnect, Destroy, receiver, vars
  <2>5. ASSUME ~ \E s \in Streams, p \in Peers, b \in Blobs, wanted \in SUBSET Index :
                   StartStream(s, p, b, wanted)
        PROVE  Offered' = Offered
    BY <2>5, OfferedGrows
  <2> QED  BY <2>1, <2>2, <2>4, <2>5
<1> QED  BY <1>1, <1>2, Invariant, PTL DEF Spec, DeliversWholeBlobs, Delivery!Spec

------------------------------------------------------------------------------
(* What becomes of a chunk.  Of a stream whose link stays open, as long as   *)
(* its asset is not delivered and one version of it circulates, every chunk  *)
(* is somewhere: still to be sent, in flight, being hashed, stored in the    *)
(* buffer that counts, or dropped for want of its metadata.                  *)

InRange(c) == c.index < TotalOf[c.blob]

\* A stream has only chunks of its blob left, and none when it is finished; metadata is of a
\* chunk that the blob has, so that every buffer waits for at least one.
SentInv ==
  /\ \A s \in Streams : stream[s] # None =>
       /\ stream[s].todo \subseteq 0..(TotalOf[stream[s].blob] - 1)
       /\ stream[s].phase = "finished" => stream[s].todo = {}
  /\ \A p \in Peers : \A k \in 1..Len(channel[p]) :
       channel[p][k].kind = "meta" => InRange(channel[p][k].chunk)
  /\ \A n \in 1..Len(bufs) : bufs[n].total > 0

\* Pending metadata has a buffer, and what is being hashed goes to the buffer of its asset,
\* until the asset is delivered.
CapturedInv ==
  /\ \A p \in Peers :
       pending[p] # None /\ ~AssetDelivered(AssetOf[pending[p].blob]) => PendingBuffer(p) # 0
  /\ open # {} =>
       \A t \in hashing :
         ~AssetDelivered(AssetOf[t.meta.blob]) => t.buf = current[AssetOf[t.meta.blob]]

\* The buffer of a has all its chunks.
Whole(a) ==
  /\ current[a] # 0
  /\ \A i \in 0..(bufs[current[a]].total - 1) : bufs[current[a]].received[i] # None

\* A buffer that has all its chunks is being assembled.
TriedInv ==
  \A a \in Assets :
    SingleVersion(a) /\ ~AssetDelivered(a) /\ Whole(a) => \E t \in assembling : t.asset = a

\* The receiver still owes its application the asset that s sends.
Owed(s) ==
  /\ stream[s] # None /\ stream[s].full /\ stream[s].peer \in open
  /\ SingleVersion(AssetOf[stream[s].blob])
  /\ ~AssetDelivered(AssetOf[stream[s].blob])

InFlight(s, i) ==
  \E k \in 1..Len(channel[stream[s].peer]) :
    channel[stream[s].peer][k] = ChunkMsg("data", s, i)

BeingHashed(s, i) ==
  \E t \in hashing : t.meta.blob = stream[s].blob /\ t.meta.index = i

Arrived(s, i) ==
  LET n == current[AssetOf[stream[s].blob]] IN n # 0 /\ bufs[n].received[i] # None

NothingVanishes ==
  \A s \in Streams : Owed(s) =>
    \A i \in 0..(TotalOf[stream[s].blob] - 1) :
      \/ i \in stream[s].todo
      \/ InFlight(s, i)
      \/ BeingHashed(s, i)
      \/ Arrived(s, i)
      \/ <<s, i>> \in orphaned

DeliveryInv ==
  TransferInv /\ SentInv /\ CapturedInv /\ TriedInv /\ NothingVanishes

------------------------------------------------------------------------------
(* What a step leaves as it was *)

\* A stream keeps its peer, its blob and its kind, and loses a chunk only by sending it.
LEMMA SenderSteps ==
  ASSUME TypeOK, [Next]_vars, NEW s \in Streams, stream[s] # None
  PROVE  /\ stream'[s] # None
         /\ stream'[s].peer = stream[s].peer /\ stream'[s].blob = stream[s].blob
         /\ stream'[s].full = stream[s].full
         /\ stream'[s].todo \subseteq stream[s].todo
         /\ \A i \in stream[s].todo \ stream'[s].todo : SendChunk(s, i)
         /\ stream'[s].phase = "finished" =>
              stream[s].phase = "finished" \/ stream'[s].todo = {}
<1>1. stream[s] \in Stream
  BY StreamInUse
<1>2. CASE \E i \in Index : SendChunk(s, i)
  <2>1. PICK i \in Index : SendChunk(s, i)
    BY <1>2
  <2> DEFINE new == [stream[s] EXCEPT
                       !.todo = @ \ {i},
                       !.phase = IF stream[s].todo = {i} THEN "finished" ELSE "sending"]
  <2>2. /\ new \in Stream /\ new.peer = stream[s].peer /\ new.blob = stream[s].blob
        /\ new.full = stream[s].full /\ new.todo = stream[s].todo \ {i}
        /\ new.phase = "finished" => stream[s].todo = {i}
    BY <1>1 DEF Stream
  <2>3. stream' = [stream EXCEPT ![s] = new]
    BY <2>1, <1>1 DEF SendChunk, TypeOK, Stream
  <2> HIDE DEF new
  <2>4. stream'[s] = new /\ new # None
    BY <2>2, <2>3 DEF TypeOK
  <2> QED  BY <2>1, <2>2, <2>4
<1>3. CASE SendOnlyDone(s)
  <2> DEFINE new == [stream[s] EXCEPT !.phase = "finished"]
  <2>1. /\ new \in Stream /\ new.peer = stream[s].peer /\ new.blob = stream[s].blob
        /\ new.full = stream[s].full /\ new.todo = stream[s].todo
    BY <1>1 DEF Stream
  <2>2. stream' = [stream EXCEPT ![s] = new] /\ stream[s].todo = {}
    BY <1>3 DEF SendOnlyDone
  <2> HIDE DEF new
  <2>3. stream'[s] = new /\ new # None
    BY <2>1, <2>2 DEF TypeOK
  <2> QED  BY <2>1, <2>2, <2>3
<1>4. CASE SendFails(s)
  <2> DEFINE new == [stream[s] EXCEPT !.phase = "failed"]
  <2>1. /\ new \in Stream /\ new.peer = stream[s].peer /\ new.blob = stream[s].blob
        /\ new.full = stream[s].full /\ new.todo = stream[s].todo /\ new.phase = "failed"
    BY <1>1 DEF Stream
  <2>2. stream' = [stream EXCEPT ![s] = new]
    BY <1>4 DEF SendFails
  <2> HIDE DEF new
  <2>3. stream'[s] = new /\ new # None
    BY <2>1, <2>2 DEF TypeOK
  <2> QED  BY <2>1, <2>2, <2>3
<1>5. CASE ~ \/ \E i \in Index : SendChunk(s, i)
             \/ SendOnlyDone(s)
             \/ SendFails(s)
  <2>1. stream'[s] = stream[s]
    BY <1>5 DEF Next, StartStream, SendChunk, SendOnlyDone, SendFails, ReceiveMeta, ReceiveDone,
         DropOrphan, DropUnbuffered, DropDuplicate, HashChunk, StoreUnverified, ChunkHashed,
         AssetHashed, Disconnect, Destroy, TypeOK, sender, vars
  <2> QED  BY <2>1
<1> QED  BY <1>2, <1>3, <1>4, <1>5

\* What is sent in one turn has the data of its chunk, and metadata of no other.
LEMMA BatchCarries ==
  ASSUME TypeOK, NEW s \in Streams, NEW i \in Index, Sending(s)
  PROVE  /\ 2 \in 1..Len(Batch(s, i)) /\ Batch(s, i)[2] = ChunkMsg("data", s, i)
         /\ Batch(s, i) \in Seq(Message)
         /\ \A k \in 1..Len(Batch(s, i)) : Batch(s, i)[k].kind = "meta" =>
              Batch(s, i)[k].chunk.blob = stream[s].blob /\ Batch(s, i)[k].chunk.index = i
<1> DEFINE meta == ChunkMsg("meta", s, i)
           data == ChunkMsg("data", s, i)
           done == DoneMsg(s)
<1>1. /\ meta.kind = "meta" /\ data.kind = "data" /\ done.kind = "done"
      /\ meta.chunk.blob = stream[s].blob /\ meta.chunk.index = i
  BY DEF ChunkMsg, DoneMsg
<1>2. meta \in Message /\ data \in Message /\ done \in Message /\ Batch(s, i) \in Seq(Message)
  BY BatchType
<1>3. PICK last \in {<<>>, <<done>>} : Batch(s, i) = <<meta, data>> \o last
  BY DEF Batch
<1> HIDE DEF meta, data, done
<1>4. /\ Len(Batch(s, i)) \in {2, 3}
      /\ Batch(s, i)[1] = meta /\ Batch(s, i)[2] = data
      /\ Len(Batch(s, i)) = 3 => Batch(s, i)[3] = done
  BY <1>2, <1>3
<1> QED  BY <1>1, <1>2, <1>4 DEF data

\* The five ways of taking data off a channel.
TakesData(p) ==
  DropOrphan(p) \/ DropUnbuffered(p) \/ DropDuplicate(p) \/ HashChunk(p) \/ StoreUnverified(p)

\* A channel only grows at its end, and by metadata or chunk-done first, loses its head, or
\* closes; metadata that is added is of a chunk that a stream had still to send.
LEMMA ChannelSteps ==
  ASSUME TypeOK, [Next]_vars, NEW p \in Peers
  PROVE  \/ channel'[p] = channel[p]
         \/ \E msgs \in Seq(Message) :
              /\ channel'[p] = channel[p] \o msgs
              /\ msgs # <<>> => msgs[1].kind # "data"
              /\ \A k \in 1..Len(msgs) : msgs[k].kind = "meta" =>
                   \E s \in Streams :
                     /\ stream[s] # None
                     /\ msgs[k].chunk.blob = stream[s].blob
                     /\ msgs[k].chunk.index \in stream[s].todo
         \/ /\ channel[p] # <<>> /\ channel'[p] = Tail(channel[p])
            /\ Head(channel[p]).kind = "data" => TakesData(p)
            /\ Head(channel[p]).kind = "meta" => ReceiveMeta(p)
         \/ channel'[p] = <<>> /\ p \notin open'
<1> DEFINE Good(msgs) ==
             /\ msgs \in Seq(Message)
             /\ msgs # <<>> => msgs[1].kind # "data"
             /\ \A k \in 1..Len(msgs) : msgs[k].kind = "meta" =>
                  \E s \in Streams :
                    /\ stream[s] # None
                    /\ msgs[k].chunk.blob = stream[s].blob
                    /\ msgs[k].chunk.index \in stream[s].todo
<1>1. ASSUME NEW s \in Streams, NEW msgs, Good(msgs), Send(stream[s].peer, msgs)
      PROVE  \/ channel'[p] = channel[p]
             \/ \E m \in Seq(Message) : channel'[p] = channel[p] \o m /\ Good(m)
  <2>1. CASE p = stream[s].peer
    <3>1. channel'[p] = channel[p] \o msgs
      BY <1>1, <2>1 DEF Send, TypeOK
    <3> HIDE DEF Good
    <3>2. msgs \in Seq(Message)
      BY <1>1 DEF Good
    <3> QED  BY <1>1, <3>1, <3>2
  <2>2. CASE p # stream[s].peer
    BY <1>1, <2>2 DEF Send, TypeOK
  <2> QED  BY <2>1, <2>2
<1>2. ASSUME NEW s \in Streams, NEW i \in Due(s), Sending(s)
      PROVE  Good(Batch(s, i)) /\ \A n \in 1..2 : n < Len(Batch(s, i)) =>
                                    Good(SubSeq(Batch(s, i), 1, n))
  <2>1. i \in Index /\ i \in stream[s].todo /\ stream[s] # None
    BY <1>2, StreamInUse DEF Due, Sending, Stream
  <2> DEFINE batch == Batch(s, i)
  <2>2. /\ batch \in Seq(Message)
        /\ \A k \in 1..Len(batch) : batch[k].kind = "meta" =>
             batch[k].chunk.blob = stream[s].blob /\ batch[k].chunk.index = i
        /\ batch # <<>> => batch[1].kind # "data"
    BY <1>2, <2>1, BatchCarries, BatchPaired
  <2> HIDE DEF batch
  <2>3. Good(batch)
    BY <2>1, <2>2
  <2>4. ASSUME NEW n \in 1..2, n < Len(batch)
        PROVE  Good(SubSeq(batch, 1, n))
    <3> DEFINE msgs == SubSeq(batch, 1, n)
    <3>1. msgs \in Seq(Message) /\ Len(msgs) = n /\ \A k \in 1..n : msgs[k] = batch[k]
      BY <2>2, <2>4
    <3> HIDE DEF msgs
    <3>2. \A k \in 1..Len(msgs) : k \in 1..Len(batch) /\ msgs[k] = batch[k]
      BY <2>2, <2>4, <3>1
    <3>3. Good(msgs)
      BY <2>1, <2>2, <3>1, <3>2
    <3> QED  BY <3>3 DEF msgs
  <2> QED  BY <2>3, <2>4 DEF batch
<1>3. ASSUME NEW s \in Streams, NEW i \in Index, SendChunk(s, i)
      PROVE  \/ channel'[p] = channel[p]
             \/ \E m \in Seq(Message) : channel'[p] = channel[p] \o m /\ Good(m)
  <2>1. Sending(s) /\ i \in Due(s) /\ Send(stream[s].peer, Batch(s, i))
    BY <1>3 DEF SendChunk
  <2> HIDE DEF Good
  <2> QED  BY <1>1, <1>2, <2>1
<1>4. ASSUME NEW s \in Streams, SendOnlyDone(s)
      PROVE  \/ channel'[p] = channel[p]
             \/ \E m \in Seq(Message) : channel'[p] = channel[p] \o m /\ Good(m)
  <2> DEFINE msgs == <<DoneMsg(s)>>
  <2>1. Send(stream[s].peer, msgs) /\ stream[s] \in Stream
    BY <1>4, StreamInUse DEF SendOnlyDone, Sending
  <2>2. DoneMsg(s) \in Message /\ DoneMsg(s).kind = "done"
    BY <2>1 DEF DoneMsg, Message, Stream
  <2>3. Good(msgs)
    BY <2>2
  <2> HIDE DEF msgs, Good
  <2> QED  BY <1>1, <2>1, <2>3
<1>5. ASSUME NEW s \in Streams, SendFails(s)
      PROVE  \/ channel'[p] = channel[p]
             \/ \E m \in Seq(Message) : channel'[p] = channel[p] \o m /\ Good(m)
  <2>1. Sending(s)
    BY <1>5 DEF SendFails
  <2>2. CASE UNCHANGED channel
    BY <2>2
  <2>3. CASE \E i \in Due(s), n \in 1..2 :
               n < Len(Batch(s, i)) /\ Send(stream[s].peer, SubSeq(Batch(s, i), 1, n))
    <3> HIDE DEF Good
    <3> QED  BY <1>1, <1>2, <2>1, <2>3
  <2> QED  BY <1>5, <2>2, <2>3 DEF SendFails
<1>6. ASSUME NEW r \in Peers, NEW kind, Receive(r, kind)
      PROVE  \/ channel'[p] = channel[p]
             \/ r = p /\ channel[p] # <<>> /\ Head(channel[p]).kind = kind
                      /\ channel'[p] = Tail(channel[p])
  BY <1>6 DEF Receive, TypeOK
<1> DEFINE Result ==
             \/ channel'[p] = channel[p]
             \/ \E msgs \in Seq(Message) : channel'[p] = channel[p] \o msgs /\ Good(msgs)
             \/ /\ channel[p] # <<>> /\ channel'[p] = Tail(channel[p])
                /\ Head(channel[p]).kind = "data" => TakesData(p)
                /\ Head(channel[p]).kind = "meta" => ReceiveMeta(p)
             \/ channel'[p] = <<>> /\ p \notin open'
<1>7. Result
  <2> HIDE DEF Good
  <2>1. ASSUME NEW r \in Peers, ReceiveMeta(r) PROVE Result
    <3>1. Receive(r, "meta")
      BY <2>1 DEF ReceiveMeta
    <3> QED  BY <1>6, <2>1, <3>1
  <2>2. ASSUME NEW r \in Peers, ReceiveDone(r) PROVE Result
    <3>1. Receive(r, "done")
      BY <2>2 DEF ReceiveDone
    <3> QED  BY <1>6, <3>1
  <2>3. ASSUME NEW r \in Peers, TakesData(r) PROVE Result
    <3>1. Receive(r, "data")
      BY <2>3 DEF TakesData, DropOrphan, DropUnbuffered, DropDuplicate, HashChunk,
           StoreUnverified
    <3> QED  BY <1>6, <2>3, <3>1
  <2>4. ASSUME NEW r \in Peers, Disconnect(r) PROVE Result
    BY <2>4 DEF Disconnect, TypeOK
  <2>5. CASE Destroy
    BY <2>5 DEF Destroy
  <2>6. CASE \/ \E s \in Streams, r \in Peers, b \in Blobs, wanted \in SUBSET Index :
                  StartStream(s, r, b, wanted)
             \/ \E t \in hashing : ChunkHashed(t)
             \/ \E t \in assembling : AssetHashed(t)
             \/ UNCHANGED vars
    BY <2>6 DEF StartStream, ChunkHashed, AssetHashed, link, vars
  <2> HIDE DEF Result
  <2>7. ASSUME NEW s \in Streams, NEW i \in Index, SendChunk(s, i) PROVE Result
    BY <1>3, <2>7 DEF Result
  <2>8. ASSUME NEW s \in Streams, SendOnlyDone(s) \/ SendFails(s) PROVE Result
    BY <1>4, <1>5, <2>8 DEF Result
  <2> QED  BY <2>1, <2>2, <2>3, <2>4, <2>5, <2>6, <2>7, <2>8 DEF Next, TakesData
<1> QED  BY <1>7

\* Storing a chunk changes its own place only.
LEMMA StoredSteps ==
  ASSUME TypeOK, NEW n \in 1..Len(bufs), NEW c \in Chunk, bufs' = Stored(bufs, n, c, c)
  PROVE  /\ Len(bufs') = Len(bufs)
         /\ \A k \in 1..Len(bufs) :
              /\ bufs'[k].total = bufs[k].total
              /\ \A i \in Index : bufs'[k].received[i] =
                   IF k = n /\ i = c.index THEN c ELSE bufs[k].received[i]
<1> DEFINE new == [bufs[n] EXCEPT !.received[c.index] = c]
<1>1. bufs \in Seq(Buffer) /\ bufs[n] \in Buffer /\ c.index \in Index
  BY ChunkType DEF TypeOK
<1>2. bufs' = [bufs EXCEPT ![n] = new]
  BY DEF Stored
<1>3. /\ new.total = bufs[n].total
      /\ \A i \in Index : new.received[i] = IF i = c.index THEN c ELSE bufs[n].received[i]
  BY <1>1 DEF Buffer
<1> HIDE DEF new
<1>4. Len(bufs') = Len(bufs) /\ \A k \in 1..Len(bufs) : bufs'[k] = IF k = n THEN new ELSE bufs[k]
  BY <1>1, <1>2
<1> QED  BY <1>3, <1>4

\* A reassembly that is tried ends in an assembly or a delivery, if the buffer is whole.
LEMMA TryOutcome ==
  ASSUME TypeOK, NEW a \in Assets, NEW id, TryReassemble(a, id, bufs')
  PROVE  /\ delivered \subseteq delivered' /\ assembling \subseteq assembling'
         /\ \A c \in Assets : current'[c] # current[c] => \E d \in delivered' : d.asset = c
         /\ /\ current[a] # 0
            /\ \A i \in 0..(bufs'[current[a]].total - 1) :
                 bufs'[current[a]].received[i] # None
            => (\E d \in delivered' : d.asset = a) \/ \E t \in assembling' : t.asset = a
<1> DEFINE n == current[a]
           parts == [i \in 0..(bufs'[n].total - 1) |-> bufs'[n].received[i]]
           task == [id |-> id, buf |-> n, asset |-> a, parts |-> parts]
           delivery == [id |-> id, asset |-> a, parts |-> parts]
           whole == n # 0 /\ \A i \in 0..(bufs'[n].total - 1) : bufs'[n].received[i] # None
<1>1. task.asset = a /\ delivery.asset = a
  OBVIOUS
<1>2. \/ ~whole /\ UNCHANGED <<current, assembling, delivered>>
      \/ /\ whole /\ assembling' = assembling \cup {task} /\ UNCHANGED <<current, delivered>>
      \/ /\ whole /\ UNCHANGED assembling
         /\ current' = [current EXCEPT ![a] = 0]
         /\ delivered' = delivered \cup {delivery}
  BY DEF TryReassemble, Complete
<1> HIDE DEF task, delivery
<1> QED  BY <1>1, <1>2 DEF TypeOK

\* What is delivered or dropped stays so, links do not open again, and a buffer keeps what it
\* has; the buffer of an asset changes only with its delivery or the end of the page.
ReceiverMonotone ==
  /\ open' \subseteq open /\ orphaned \subseteq orphaned' /\ delivered \subseteq delivered'
  /\ \A n \in 1..Len(bufs) :
       /\ n \in 1..Len(bufs') /\ bufs'[n].total = bufs[n].total
       /\ \A i \in Index : bufs[n].received[i] # None => bufs'[n].received[i] # None
  /\ \A n \in 1..Len(bufs') : n \in 1..Len(bufs) \/ bufs'[n].total > 0
  /\ \A a \in Assets : current[a] # 0 /\ current'[a] # current[a] =>
       \/ \E d \in delivered' : d.asset = a
       \/ open' = {} /\ \A p \in Peers : pending'[p] = None

\* The buffer of a is as it was, has a place without a chunk, or a reassembly is tried.
BufferSettled(a) ==
  \/ current'[a] = 0
  \/ /\ current'[a] = current[a]
     /\ bufs'[current[a]].total = bufs[current[a]].total
     /\ bufs'[current[a]].received = bufs[current[a]].received
  \/ \E i \in 0..(bufs'[current'[a]].total - 1) : bufs'[current'[a]].received[i] = None
  \/ \E id : TryReassemble(a, id, bufs')

\* Nothing but messages and streams change.
LEMMA NoReceipt ==
  ASSUME TypeOK, UNCHANGED <<bufs, current>>, open' \subseteq open,
         orphaned \subseteq orphaned', UNCHANGED delivered
  PROVE  ReceiverMonotone /\ \A a \in Assets : BufferSettled(a)
BY DEF ReceiverMonotone, BufferSettled

\* A chunk is stored, and a reassembly is tried.
LEMMA ChunkStored ==
  ASSUME TransferInv, NEW n \in 1..Len(bufs), NEW c \in Chunk, bufs' = Stored(bufs, n, c, c),
         AssetOf[c.blob] = bufs[n].asset, NEW id, TryReassemble(AssetOf[c.blob], id, bufs'),
         UNCHANGED <<open, orphaned>>
  PROVE  ReceiverMonotone /\ \A a \in Assets : BufferSettled(a)
<1> DEFINE own == AssetOf[c.blob]
<1>1. TypeOK /\ own \in Assets /\ c # None
  BY ChunkType DEF TransferInv
<1>2. /\ Len(bufs') = Len(bufs)
      /\ \A k \in 1..Len(bufs) :
           /\ bufs'[k].total = bufs[k].total
           /\ \A i \in Index : bufs'[k].received[i] =
                IF k = n /\ i = c.index THEN c ELSE bufs[k].received[i]
  BY <1>1, StoredSteps
<1>3. /\ delivered \subseteq delivered'
      /\ \A a \in Assets : current'[a] # current[a] => \E d \in delivered' : d.asset = a
  BY <1>1, TryOutcome
<1>4. ReceiverMonotone
  BY <1>1, <1>2, <1>3 DEF ReceiverMonotone
<1>5. ASSUME NEW a \in Assets
      PROVE  BufferSettled(a)
  <2>1. CASE a = own
    BY <2>1 DEF BufferSettled
  <2>2. CASE a # own
    <3>1. current'[a] = current[a]
      BY <1>1, <2>2 DEF TryReassemble, Complete, TypeOK
    <3>2. CASE current[a] # 0
      <4>1. current[a] \in 1..Len(bufs) /\ bufs[current[a]].asset = a
        BY <1>1, <3>2 DEF TransferInv, TypeOK, CurrentInv
      <4>2. current[a] # n
        BY <2>2, <4>1
      <4>3. bufs'[current[a]] = bufs[current[a]]
        BY <1>1, <4>1, <4>2 DEF Stored, TypeOK
      <4> QED  BY <3>1, <4>3 DEF BufferSettled
    <3> QED  BY <3>1, <3>2 DEF BufferSettled
  <2> QED  BY <2>1, <2>2
<1> QED  BY <1>4, <1>5

\* Every step of the receiver is one of these.
LEMMA ReceiverSteps ==
  ASSUME TransferInv, SentInv, [Next]_vars
  PROVE  ReceiverMonotone /\ \A a \in Assets : BufferSettled(a)
<1> DEFINE Goal == ReceiverMonotone /\ \A a \in Assets : BufferSettled(a)
<1> TypeOK /\ LinkInv /\ HashInv
  BY DEF TransferInv
<1> HIDE DEF Goal
<1>1. ASSUME NEW p \in Peers, ReceiveMeta(p) PROVE Goal
  <2> DEFINE c == Head(channel[p]).chunk
             own == AssetOf[c.blob]
  <2>1. /\ channel[p] # <<>> /\ Head(channel[p]).kind = "meta"
        /\ UNCHANGED <<open, delivered, orphaned>>
    BY <1>1 DEF ReceiveMeta, Receive, sender
  <2>2. c \in Chunk /\ c.blob \in Blobs /\ own \in Assets /\ c.index \in Index
    BY <1>1, ReceiveType, MessageType, ChunkType DEF ReceiveMeta
  <2>3. CASE current[own] # 0
    BY <1>1, <2>1, <2>3, NoReceipt DEF ReceiveMeta, Goal
  <2>4. CASE current[own] = 0
    <3> DEFINE new == NewBuffer(c.blob)
               last == Len(bufs) + 1
    <3>1. /\ bufs' = Append(bufs, new)
          /\ current' = [current EXCEPT ![own] = last]
      BY <1>1, <2>4 DEF ReceiveMeta
    <3>2. /\ new \in Buffer /\ new.total = TotalOf[c.blob]
          /\ \A i \in Index : new.received[i] = None
      BY <2>2, NewBufferType DEF NewBuffer
    <3> HIDE DEF new
    <3>3. /\ Len(bufs') = last /\ bufs'[last] = new /\ last # 0 /\ Len(bufs) \in Nat
          /\ \A n \in 1..Len(bufs) : n \in 1..Len(bufs') /\ bufs'[n] = bufs[n]
      BY <3>1, <3>2 DEF TypeOK
    <3>4. 0 \in 0..(TotalOf[c.blob] - 1) /\ 0 \in Index /\ TotalOf[c.blob] > 0
      <4>1. InRange(c)
        BY <2>1, HeadFromOffer DEF SentInv
      <4>2. c.index \in Nat /\ TotalOf[c.blob] \in 0..MaxChunks
        BY <2>2 DEF Index
      <4> QED  BY <4>1, <4>2 DEF InRange, Index
    <3>5. ReceiverMonotone
      BY <2>1, <2>2, <2>4, <3>1, <3>2, <3>3, <3>4 DEF ReceiverMonotone, TypeOK
    <3>6. ASSUME NEW a \in Assets
          PROVE  BufferSettled(a)
      <4>1. CASE a = own
        <5>1. current'[a] = last
          BY <3>1, <4>1 DEF TypeOK
        <5>2. 0 \in 0..(bufs'[last].total - 1) /\ bufs'[last].received[0] = None
          BY <3>2, <3>3, <3>4
        <5> QED  BY <5>1, <5>2 DEF BufferSettled
      <4>2. CASE a # own
        <5>1. current'[a] = current[a]
          BY <3>1, <4>2 DEF TypeOK
        <5>2. current[a] = 0 \/ bufs'[current[a]] = bufs[current[a]]
          BY <3>3 DEF TypeOK
        <5> QED  BY <5>1, <5>2 DEF BufferSettled
      <4> QED  BY <4>1, <4>2
    <3> QED  BY <3>5, <3>6 DEF Goal
  <2> QED  BY <2>3, <2>4
<1>2. ASSUME NEW p \in Peers, ReceiveDone(p) PROVE Goal
  <2> DEFINE m == Head(channel[p])
             own == AssetOf[m.blob]
             n == current[own]
  <2>1. UNCHANGED <<open, orphaned>>
    BY <1>2 DEF ReceiveDone, sender
  <2>2. own \in Assets
    BY <1>2, ReceiveType, MessageType DEF ReceiveDone
  <2>3. CASE n = 0
    BY <1>2, <2>1, <2>3, NoReceipt DEF ReceiveDone, Goal
  <2>4. CASE n # 0
    <3>1. /\ bufs' = [bufs EXCEPT ![n] = [bufs[n] EXCEPT !.hash = m.blob]]
          /\ TryReassemble(own, <<m.src, MaxChunks>>, bufs')
      BY <1>2, <2>4 DEF ReceiveDone
    <3>2. n \in 1..Len(bufs) /\ bufs[n] \in Buffer
      BY <2>2, <2>4 DEF TypeOK
    <3> DEFINE new == [bufs[n] EXCEPT !.hash = m.blob]
    <3>3. new.total = bufs[n].total /\ new.received = bufs[n].received
      BY <3>2 DEF Buffer
    <3> HIDE DEF new
    <3>4. bufs' = [bufs EXCEPT ![n] = new]
      BY <3>1 DEF new
    <3>5. /\ Len(bufs') = Len(bufs)
          /\ \A k \in 1..Len(bufs) :
               bufs'[k].total = bufs[k].total /\ bufs'[k].received = bufs[k].received
      <4> HIDE DEF n
      <4> QED  BY <3>2, <3>3, <3>4 DEF TypeOK
    <3>6. /\ delivered \subseteq delivered'
          /\ \A a \in Assets : current'[a] # current[a] => \E d \in delivered' : d.asset = a
      BY <2>2, <3>1, TryOutcome
    <3>7. ReceiverMonotone
      BY <2>1, <3>5, <3>6 DEF ReceiverMonotone
    <3>8. ASSUME NEW a \in Assets
          PROVE  BufferSettled(a)
      <4>1. CASE a = own
        BY <3>1, <4>1 DEF BufferSettled
      <4>2. CASE a # own
        <5>1. current'[a] = current[a]
          BY <2>2, <3>1, <4>2 DEF TryReassemble, Complete, TypeOK
        <5>2. current[a] \in 0..Len(bufs)
          BY DEF TypeOK
        <5> QED  BY <3>5, <5>1, <5>2 DEF BufferSettled
      <4> QED  BY <4>1, <4>2
    <3> QED  BY <3>7, <3>8 DEF Goal
  <2> QED  BY <2>3, <2>4
<1>3. ASSUME NEW p \in Peers, StoreUnverified(p) PROVE Goal
  <2> DEFINE m == Head(channel[p])
             c == pending[p]
             n == PendingBuffer(p)
  <2>1. /\ Receive(p, "data") /\ c # None /\ n # 0
        /\ bufs' = Stored(bufs, n, c, m.chunk)
        /\ TryReassemble(AssetOf[c.blob], <<m.src, m.chunk.index>>, bufs')
        /\ UNCHANGED <<open, orphaned>>
    BY <1>3 DEF StoreUnverified, sender
  <2>2. c = m.chunk /\ c \in Chunk /\ AssetOf[c.blob] \in Assets
    BY <2>1, HeadFromOffer, ChunkType DEF Receive, LinkInv, Paired, TypeOK
  <2>3. n \in 1..Len(bufs) /\ bufs[n].asset = AssetOf[c.blob]
    <3> DEFINE a == AssetOf[c.blob]
    <3>1. n = current[a]
      BY DEF PendingBuffer
    <3>2. a \in Assets /\ n # 0
      BY <2>1, <2>2
    <3> HIDE DEF a, n
    <3>3. n \in 1..Len(bufs) /\ bufs[n].asset = a
      BY <3>1, <3>2 DEF TransferInv, CurrentInv, TypeOK
    <3> QED  BY <3>3 DEF a
  <2> HIDE DEF n
  <2> QED  BY <2>1, <2>2, <2>3, ChunkStored DEF Goal
<1>4. ASSUME NEW t \in hashing, ChunkHashed(t) PROVE Goal
  <2>1. /\ t.data = t.meta /\ t.meta \in Chunk
        /\ t.buf \in 1..Len(bufs) /\ bufs[t.buf].asset = AssetOf[t.meta.blob]
    BY DEF HashInv, TypeOK, HashTask
  <2>2. /\ bufs' = Stored(bufs, t.buf, t.meta, t.meta)
        /\ TryReassemble(AssetOf[t.meta.blob], <<t.src, t.data.index>>, bufs')
        /\ UNCHANGED <<open, orphaned>>
    BY <1>4, <2>1 DEF ChunkHashed, sender
  <2> QED  BY <2>1, <2>2, ChunkStored DEF Goal
<1>5. ASSUME NEW t \in assembling, AssetHashed(t) PROVE Goal
  <2>1. UNCHANGED <<open, bufs, orphaned>>
    BY <1>5 DEF AssetHashed, sender
  <2>2. CASE UNCHANGED <<current, delivered>>
    BY <2>1, <2>2, NoReceipt DEF Goal
  <2>3. CASE Complete(t.id, t.asset, t.parts)
    <3>1. /\ current' = [current EXCEPT ![t.asset] = 0]
          /\ delivered' = delivered \cup
                {[id |-> t.id, asset |-> t.asset, parts |-> t.parts]}
      BY <2>3 DEF Complete
    <3> DEFINE delivery == [id |-> t.id, asset |-> t.asset, parts |-> t.parts]
    <3>2. \E d \in delivered' : d.asset = t.asset
      <4>1. delivery.asset = t.asset /\ delivery \in delivered'
        BY <3>1
      <4> QED  BY <4>1
    <3>3. \A a \in Assets : \/ current'[a] = current[a]
                            \/ current'[a] = 0 /\ a = t.asset
      BY <3>1 DEF TypeOK
    <3>4. ReceiverMonotone
      BY <2>1, <3>1, <3>2, <3>3 DEF ReceiverMonotone
    <3> QED  BY <2>1, <3>3, <3>4 DEF BufferSettled, Goal
  <2> QED  BY <1>5, <2>2, <2>3 DEF AssetHashed
<1>6. CASE Destroy
  <2>1. /\ open' = {} /\ current' = [a \in Assets |-> 0] /\ pending' = [p \in Peers |-> None]
        /\ UNCHANGED <<bufs, delivered, orphaned>>
    BY <1>6 DEF Destroy
  <2> QED  BY <2>1 DEF ReceiverMonotone, BufferSettled, Goal
<1>7. CASE \/ \E s \in Streams, p \in Peers, b \in Blobs, wanted \in SUBSET Index :
                StartStream(s, p, b, wanted)
           \/ \E s \in Streams : (\E i \in Index : SendChunk(s, i)) \/ SendOnlyDone(s) \/ SendFails(s)
           \/ \E p \in Peers : DropOrphan(p) \/ DropUnbuffered(p) \/ DropDuplicate(p)
                                 \/ HashChunk(p) \/ Disconnect(p)
           \/ UNCHANGED vars
  <2>1. /\ UNCHANGED <<bufs, current, delivered>> /\ open' \subseteq open
        /\ orphaned \subseteq orphaned'
    BY <1>7 DEF StartStream, SendChunk, SendOnlyDone, SendFails, DropOrphan, DropUnbuffered,
         DropDuplicate, HashChunk, Disconnect, link, sender, receiver, vars
  <2> QED  BY <2>1, NoReceipt DEF Goal
<1> QED  BY <1>1, <1>2, <1>3, <1>4, <1>5, <1>6, <1>7 DEF Next, Goal

\* A digest that runs goes on or ends with its own step, a new one is of the pending
\* metadata, and metadata becomes pending only when it is received.
LEMMA TaskSteps ==
  ASSUME TypeOK, [Next]_vars
  PROVE  /\ \A t \in hashing : t \in hashing' \/ ChunkHashed(t)
         /\ \A t \in hashing' : t \in hashing \/ \E p \in Peers :
              HashChunk(p) /\ t.meta = pending[p] /\ t.buf = PendingBuffer(p)
         /\ \A t \in assembling : t \in assembling' \/ AssetHashed(t)
         /\ \A p \in Peers : pending'[p] \in {pending[p], None} \/ ReceiveMeta(p)
<1>1. ASSUME NEW p \in Peers, HashChunk(p)
      PROVE  /\ hashing \subseteq hashing'
             /\ \A t \in hashing' :
                  t \in hashing \/ (t.meta = pending[p] /\ t.buf = PendingBuffer(p))
  <2> DEFINE new == [src |-> Head(channel[p]).src, peer |-> p, meta |-> pending[p],
                     data |-> Head(channel[p]).chunk, buf |-> PendingBuffer(p)]
  <2>1. hashing' = hashing \cup {new} /\ new.meta = pending[p] /\ new.buf = PendingBuffer(p)
    BY <1>1 DEF HashChunk
  <2> HIDE DEF new
  <2> QED  BY <2>1
<1>2. ASSUME NEW a, NEW id, NEW bs, TryReassemble(a, id, bs)
      PROVE  assembling \subseteq assembling'
  BY <1>2 DEF TryReassemble
<1>3. \/ \E p \in Peers : HashChunk(p)
      \/ \E t \in hashing : ChunkHashed(t) /\ hashing' = hashing \ {t}
      \/ UNCHANGED hashing
  BY DEF Next, StartStream, SendChunk, SendOnlyDone, SendFails, ReceiveMeta, ReceiveDone,
     DropOrphan, DropUnbuffered, DropDuplicate, StoreUnverified, ChunkHashed, AssetHashed,
     Disconnect, Destroy, receiver, vars
<1>4. \/ \E t \in assembling : AssetHashed(t) /\ assembling' = assembling \ {t}
      \/ assembling \subseteq assembling'
  BY <1>2 DEF Next, StartStream, SendChunk, SendOnlyDone, SendFails, ReceiveMeta, ReceiveDone,
     DropOrphan, DropUnbuffered, DropDuplicate, HashChunk, StoreUnverified, ChunkHashed,
     AssetHashed, Disconnect, Destroy, receiver, vars
<1>5. \A p \in Peers : pending'[p] \in {pending[p], None} \/ ReceiveMeta(p)
  <2> SUFFICES ASSUME NEW p \in Peers, ~ReceiveMeta(p)
               PROVE  pending'[p] \in {pending[p], None}
    OBVIOUS
  <2>1. ASSUME NEW r \in Peers, ReceiveMeta(r)
        PROVE  pending'[p] \in {pending[p], None}
    BY <2>1 DEF ReceiveMeta, TypeOK
  <2>2. ASSUME NEW r, pending' = [pending EXCEPT ![r] = None]
        PROVE  pending'[p] \in {pending[p], None}
    BY <2>2 DEF TypeOK
  <2>3. CASE Destroy
    BY <2>3 DEF Destroy
  <2>4. CASE UNCHANGED pending
    BY <2>4
  <2>5. \/ \E r \in Peers : ReceiveMeta(r)
        \/ \E r : pending' = [pending EXCEPT ![r] = None]
        \/ Destroy
        \/ UNCHANGED pending
    BY DEF Next, StartStream, SendChunk, SendOnlyDone, SendFails, ReceiveDone, DropOrphan,
       DropUnbuffered, DropDuplicate, HashChunk, StoreUnverified, ChunkHashed, AssetHashed,
       Disconnect, receiver, vars
  <2> QED  BY <2>1, <2>2, <2>3, <2>4, <2>5
<1> QED  BY <1>1, <1>3, <1>4, <1>5

\* A new stream has only chunks of its blob to send, and all of them if it is full.
LEMMA StreamStarted ==
  ASSUME TypeOK, NEW s \in Streams, NEW p \in Peers, NEW b \in Blobs,
         NEW wanted \in SUBSET Index, StartStream(s, p, b, wanted)
  PROVE  /\ stream'[s].blob = b /\ stream'[s].phase = "sending"
         /\ stream'[s].todo \subseteq 0..(TotalOf[b] - 1)
         /\ stream'[s].full => stream'[s].todo = 0..(TotalOf[b] - 1)
         /\ \A r \in Streams \ {s} : stream'[r] = stream[r]
<1> DEFINE all == 0..(TotalOf[b] - 1)
           new == [peer |-> p, blob |-> b, full |-> wanted = {}, phase |-> "sending",
                   todo |-> IF wanted = {} THEN all ELSE wanted \cap all]
<1>1. stream' = [stream EXCEPT ![s] = new]
  BY DEF StartStream
<1>2. /\ new.blob = b /\ new.phase = "sending" /\ new.todo \subseteq all
      /\ new.full => new.todo = all
  OBVIOUS
<1> HIDE DEF new
<1> QED  BY <1>1, <1>2 DEF TypeOK

\* A stream that was not in use before a step has just started.
LEMMA NewStreams ==
  ASSUME TypeOK, [Next]_vars, NEW s \in Streams, stream[s] = None, stream'[s] # None
  PROVE  \E p \in Peers, b \in Blobs, wanted \in SUBSET Index : StartStream(s, p, b, wanted)
<1>1. PICK r \in Streams, p \in Peers, b \in Blobs, wanted \in SUBSET Index :
        StartStream(r, p, b, wanted)
  BY StreamsKept
<1>2. r = s
  BY <1>1, StreamStarted
<1> QED  BY <1>1, <1>2

\* Versions of an asset only come to be.
LEMMA VersionsGrow ==
  ASSUME TypeOK, [Next]_vars, NEW a, SingleVersion(a)'
  PROVE  SingleVersion(a)
BY StreamsKept DEF SingleVersion

LEMMA SentStep ==
  ASSUME TransferInv, SentInv, [Next]_vars
  PROVE  SentInv'
<1> TypeOK
  BY DEF TransferInv
<1>1. ASSUME NEW s \in Streams, stream'[s] # None
      PROVE  /\ stream'[s].todo \subseteq 0..(TotalOf[stream'[s].blob] - 1)
             /\ stream'[s].phase = "finished" => stream'[s].todo = {}
  <2>1. CASE stream[s] = None
    BY <1>1, <2>1, NewStreams, StreamStarted
  <2>2. CASE stream[s] # None
    BY <2>2, SenderSteps DEF SentInv
  <2> QED  BY <2>1, <2>2
<1>2. ASSUME NEW p \in Peers, NEW k \in 1..Len(channel'[p]), channel'[p][k].kind = "meta"
      PROVE  InRange(channel'[p][k].chunk)
  <2> DEFINE q == channel[p]
  <2>1. q \in Seq(Message) /\ \A j \in 1..Len(q) : q[j].kind = "meta" => InRange(q[j].chunk)
    BY DEF TypeOK, SentInv
  <2>2. CASE channel'[p] = q
    BY <1>2, <2>1, <2>2
  <2>3. ASSUME NEW msgs \in Seq(Message), channel'[p] = q \o msgs,
               \A j \in 1..Len(msgs) : msgs[j].kind = "meta" =>
                 \E s \in Streams :
                   /\ stream[s] # None
                   /\ msgs[j].chunk.blob = stream[s].blob
                   /\ msgs[j].chunk.index \in stream[s].todo
        PROVE  InRange(channel'[p][k].chunk)
    <3>1. CASE k <= Len(q)
      BY <1>2, <2>1, <2>3, <3>1
    <3>2. CASE k > Len(q)
      <4> DEFINE m == channel'[p][k]
      <4>1. \E j \in 1..Len(msgs) : m = msgs[j]
        <5>1. k - Len(q) \in 1..Len(msgs) /\ m = msgs[k - Len(q)]
          BY <2>1, <2>3, <3>2
        <5> QED  BY <5>1
      <4>2. PICK s \in Streams : /\ stream[s] # None
                                 /\ m.chunk.blob = stream[s].blob
                                 /\ m.chunk.index \in stream[s].todo
        BY <1>2, <2>3, <4>1
      <4>3. m.chunk.index \in 0..(TotalOf[m.chunk.blob] - 1)
        BY <4>2 DEF SentInv
      <4>4. TotalOf[m.chunk.blob] \in Nat
        BY <4>2, StreamInUse DEF Stream
      <4> HIDE DEF m
      <4>5. InRange(m.chunk)
        BY <4>3, <4>4 DEF InRange
      <4> QED  BY <4>5 DEF m
    <3> QED  BY <2>1, <3>1, <3>2
  <2>4. CASE q # <<>> /\ channel'[p] = Tail(q)
    <3>1. k + 1 \in 1..Len(q) /\ channel'[p][k] = q[k + 1]
      BY <2>1, <2>4
    <3> QED  BY <1>2, <2>1, <3>1
  <2>5. CASE channel'[p] = <<>>
    BY <2>5
  <2> QED  BY <2>2, <2>3, <2>4, <2>5, ChannelSteps
<1>3. \A n \in 1..Len(bufs') : bufs'[n].total > 0
  BY ReceiverSteps DEF ReceiverMonotone, SentInv
<1> QED  BY <1>1, <1>2, <1>3 DEF SentInv, InRange

LEMMA CapturedStep ==
  ASSUME TransferInv, SentInv, CapturedInv, [Next]_vars
  PROVE  CapturedInv'
<1> TypeOK /\ TypeOK'
  BY InvStep DEF TransferInv
<1>0. ReceiverMonotone
  BY ReceiverSteps
<1> DEFINE Undelivered(a) == ~ \E d \in delivered' : d.asset = a
<1>1. \A a \in Assets : Undelivered(a) => ~AssetDelivered(a)
  BY <1>0 DEF ReceiverMonotone, AssetDelivered
<1>2. ASSUME NEW p \in Peers, pending'[p] # None, Undelivered(AssetOf[pending'[p].blob])
      PROVE  PendingBuffer(p)' # 0
  <2> DEFINE a == AssetOf[pending'[p].blob]
  <2>1. a \in Assets
    BY <1>2, ChunkType DEF TypeOK
  <2>2. CASE ReceiveMeta(p)
    <3> DEFINE c == Head(channel[p]).chunk
    <3>1. /\ pending'[p] = c
          /\ current[AssetOf[c.blob]] = 0 => current' = [current EXCEPT ![AssetOf[c.blob]] = Len(bufs) + 1]
          /\ current[AssetOf[c.blob]] # 0 => current' = current
      BY <2>2 DEF ReceiveMeta, TypeOK
    <3> HIDE DEF c
    <3>2. current'[a] # 0
      BY <2>1, <3>1 DEF TypeOK
    <3> QED  BY <3>2 DEF PendingBuffer
  <2>3. CASE pending'[p] = pending[p]
    <3>1. current[a] # 0
      BY <1>1, <1>2, <2>1, <2>3 DEF CapturedInv, PendingBuffer
    <3>2. current'[a] = current[a]
      BY <1>0, <1>2, <2>1, <3>1 DEF ReceiverMonotone
    <3> QED  BY <3>1, <3>2 DEF PendingBuffer
  <2> QED  BY <1>2, <2>2, <2>3, TaskSteps
<1>3. ASSUME open' # {}, NEW t \in hashing', Undelivered(AssetOf[t.meta.blob])
      PROVE  t.buf = current'[AssetOf[t.meta.blob]]
  <2> DEFINE a == AssetOf[t.meta.blob]
  <2>1. a \in Assets
    BY ChunkType DEF TypeOK, HashTask
  <2>2. CASE t \in hashing
    <3>1. open # {}
      BY <1>0, <1>3 DEF ReceiverMonotone
    <3>2. t.buf = current[a] /\ t.buf \in 1..Len(bufs)
      BY <1>1, <1>3, <2>1, <2>2, <3>1 DEF CapturedInv, TypeOK
    <3>3. current[a] # 0
      BY <3>2
    <3> QED  BY <1>0, <1>3, <2>1, <3>2, <3>3 DEF ReceiverMonotone
  <2>3. CASE \E p \in Peers : HashChunk(p) /\ t.meta = pending[p] /\ t.buf = PendingBuffer(p)
    BY <2>3 DEF HashChunk, PendingBuffer
  <2> QED  BY <2>2, <2>3, TaskSteps
<1> QED  BY <1>2, <1>3 DEF CapturedInv, AssetDelivered

LEMMA TriedStep ==
  ASSUME TransferInv, SentInv, TriedInv, [Next]_vars
  PROVE  TriedInv'
<1> SUFFICES ASSUME NEW a \in Assets, SingleVersion(a)', ~AssetDelivered(a)', Whole(a)'
             PROVE  \E t \in assembling' : t.asset = a
  BY DEF TriedInv
<1> TypeOK
  BY DEF TransferInv
<1>1. ReceiverMonotone /\ BufferSettled(a)
  BY ReceiverSteps
<1>2. ~AssetDelivered(a) /\ SingleVersion(a) /\ ~ \E d \in delivered' : d.asset = a
  BY <1>1, VersionsGrow DEF ReceiverMonotone, AssetDelivered
<1>3. /\ current'[a] # 0
      /\ \A i \in 0..(bufs'[current'[a]].total - 1) : bufs'[current'[a]].received[i] # None
  BY DEF Whole
<1>4. CASE /\ current'[a] = current[a]
           /\ bufs'[current[a]].total = bufs[current[a]].total
           /\ bufs'[current[a]].received = bufs[current[a]].received
  <2>1. PICK t \in assembling : t.asset = a
    BY <1>2, <1>3, <1>4 DEF TriedInv, Whole
  <2>2. ASSUME AssetHashed(t)
        PROVE  FALSE
    <3>1. t.parts = Content(bufs[t.buf].hash)
      BY <1>2, <2>1, HonestHashes DEF NoFalseAlarm
    <3>2. Complete(t.id, t.asset, t.parts)
      BY <2>2, <3>1 DEF AssetHashed
    <3> DEFINE delivery == [id |-> t.id, asset |-> t.asset, parts |-> t.parts]
    <3>3. delivery \in delivered' /\ delivery.asset = a
      BY <2>1, <3>2 DEF Complete
    <3> QED  BY <1>2, <3>3
  <2> QED  BY <2>1, <2>2, TaskSteps
<1>5. CASE \E id : TryReassemble(a, id, bufs')
  <2>1. PICK id : TryReassemble(a, id, bufs')
    BY <1>5
  <2>2. current'[a] = current[a]
    BY <1>2, <2>1, TryOutcome
  <2> QED  BY <1>2, <1>3, <2>1, <2>2, TryOutcome
<1> QED  BY <1>1, <1>3, <1>4, <1>5 DEF BufferSettled

\* A chunk stored in the buffer of its asset has arrived, or completes the asset.
LEMMA ChunkArrives ==
  ASSUME TypeOK, NEW a \in Assets, NEW c \in Chunk, current[a] # 0,
         bufs' = Stored(bufs, current[a], c, c), NEW id, TryReassemble(a, id, bufs')
  PROVE  \/ \E d \in delivered' : d.asset = a
         \/ current'[a] # 0 /\ bufs'[current'[a]].received[c.index] # None
<1>1. current[a] \in 1..Len(bufs) /\ c.index \in Index /\ c # None
  BY ChunkType DEF TypeOK
<1>2. bufs'[current[a]].received[c.index] = c
  BY <1>1, StoredSteps
<1>3. current'[a] = current[a] \/ \E d \in delivered' : d.asset = a
  BY TryOutcome
<1> QED  BY <1>1, <1>2, <1>3

\* Data at the head of a channel arrives, is hashed, or finds its metadata gone.
LEMMA DataTaken ==
  ASSUME TransferInv, CapturedInv, [Next]_vars, NEW p \in Peers, TakesData(p),
         NEW s \in Streams, NEW c \in Chunk, channel[p] # <<>>,
         Head(channel[p]).src = s, Head(channel[p]).chunk = c, Head(channel[p]).kind = "data"
  PROVE  LET a == AssetOf[c.blob] IN
           \/ \E d \in delivered' : d.asset = a
           \/ current'[a] # 0 /\ bufs'[current'[a]].received[c.index] # None
           \/ \E t \in hashing' : t.meta = c
           \/ <<s, c.index>> \in orphaned'
<1> DEFINE a == AssetOf[c.blob]
           Goal == \/ \E d \in delivered' : d.asset = a
                   \/ current'[a] # 0 /\ bufs'[current'[a]].received[c.index] # None
                   \/ \E t \in hashing' : t.meta = c
                   \/ <<s, c.index>> \in orphaned'
<1> TypeOK /\ LinkInv /\ a \in Assets
  BY ChunkType DEF TransferInv
<1>1. CASE DropOrphan(p)
  BY <1>1 DEF DropOrphan
<1>2. ASSUME pending[p] # None
      PROVE  pending[p] = c /\ PendingBuffer(p) = current[a]
  <2>1. pending[p] = c
    BY <1>2, HeadFromOffer DEF LinkInv, Paired
  <2> QED  BY <2>1 DEF PendingBuffer
<1>3. CASE DropUnbuffered(p)
  <2>1. AssetDelivered(a) /\ UNCHANGED delivered
    BY <1>2, <1>3 DEF DropUnbuffered, CapturedInv, receiver
  <2> QED  BY <2>1 DEF AssetDelivered
<1>4. CASE DropDuplicate(p)
  BY <1>2, <1>4 DEF DropDuplicate, Accepted
<1>5. CASE HashChunk(p)
  <2> DEFINE new == [src |-> Head(channel[p]).src, peer |-> p, meta |-> pending[p],
                     data |-> Head(channel[p]).chunk, buf |-> PendingBuffer(p)]
  <2>1. new.meta = c /\ new \in hashing'
    BY <1>2, <1>5 DEF HashChunk
  <2> QED  BY <2>1
<1>6. CASE StoreUnverified(p)
  <2>1. /\ current[a] # 0 /\ bufs' = Stored(bufs, current[a], c, c)
        /\ TryReassemble(a, <<s, c.index>>, bufs')
    BY <1>2, <1>6 DEF StoreUnverified
  <2> QED  BY <2>1, ChunkArrives
<1> QED  BY <1>1, <1>3, <1>4, <1>5, <1>6 DEF TakesData

LEMMA VanishStep ==
  ASSUME TransferInv, SentInv, CapturedInv, NothingVanishes, [Next]_vars
  PROVE  NothingVanishes'
<1> SUFFICES ASSUME NEW s \in Streams, Owed(s)', NEW i \in 0..(TotalOf[stream'[s].blob] - 1)
             PROVE  \/ i \in stream'[s].todo \/ InFlight(s, i)' \/ BeingHashed(s, i)'
                    \/ Arrived(s, i)' \/ <<s, i>> \in orphaned'
  BY DEF NothingVanishes
<1> TypeOK /\ TypeOK'
  BY InvStep DEF TransferInv
<1>0. PICK b \in Blobs, p \in Peers : stream'[s].blob = b /\ stream'[s].peer = p
  <2>1. stream'[s] \in Stream
    BY DEF Owed, TypeOK
  <2> QED  BY <2>1 DEF Stream
<1> DEFINE a == AssetOf[b]
           n == current[a]
<1>1. stream'[s] # None /\ stream'[s].full /\ p \in open' /\ SingleVersion(a)'
      /\ ~ \E d \in delivered' : d.asset = a
  BY <1>0 DEF Owed, AssetDelivered, SingleVersion
<1>2. b \in Blobs /\ p \in Peers /\ a \in Assets
  OBVIOUS
<1>3. i \in Index /\ i \in 0..(TotalOf[b] - 1)
  BY <1>0 DEF Index
<1>4. CASE stream[s] = None
  BY <1>0, <1>1, <1>3, <1>4, NewStreams, StreamStarted
<1>5. CASE stream[s] # None
  <2>1. ReceiverMonotone
    BY ReceiverSteps
  <2>2. stream[s].blob = b /\ stream[s].peer = p /\ stream[s].full = stream'[s].full
    BY <1>0, <1>5, SenderSteps
  <2>3. Owed(s)
    BY <1>1, <1>5, <2>1, <2>2, VersionsGrow DEF Owed, ReceiverMonotone, AssetDelivered
  <2>4. \/ i \in stream[s].todo \/ InFlight(s, i) \/ BeingHashed(s, i)
        \/ Arrived(s, i) \/ <<s, i>> \in orphaned
    BY <1>3, <2>2, <2>3 DEF NothingVanishes
  <2> DEFINE data == ChunkMsg("data", s, i)
             c == [blob |-> b, index |-> i]
  <2>5. /\ data.src = s /\ data.kind = "data" /\ data.chunk = c /\ ChunkMsg("data", s, i)' = data
        /\ c \in Chunk /\ c.blob = b /\ c.index = i
    BY <1>0, <1>3, <2>2 DEF ChunkMsg, Chunk
  <2> HIDE DEF data
  <2>6. InFlight(s, i) <=> \E k \in 1..Len(channel[p]) : channel[p][k] = data
    BY <2>2 DEF InFlight, data
  <2>7. InFlight(s, i)' <=> \E k \in 1..Len(channel'[p]) : channel'[p][k] = data
    BY <1>0, <2>5 DEF InFlight
  <2>8. CASE i \in stream[s].todo
    <3>1. CASE SendChunk(s, i)
      <4>1. channel'[p] = channel[p] \o Batch(s, i) /\ Sending(s)
        BY <1>2, <2>2, <3>1 DEF SendChunk, Send, TypeOK
      <4>2. /\ Batch(s, i) \in Seq(Message) /\ 2 \in 1..Len(Batch(s, i))
            /\ Batch(s, i)[2] = data
        BY <1>3, <4>1, BatchCarries DEF data
      <4>3. channel[p] \in Seq(Message)
        BY <1>2 DEF TypeOK
      <4>4. /\ Len(channel[p]) + 2 \in 1..Len(channel'[p])
            /\ channel'[p][Len(channel[p]) + 2] = data
        BY <4>1, <4>2, <4>3
      <4> QED  BY <2>7, <4>4
    <3>2. CASE ~SendChunk(s, i)
      BY <1>5, <2>8, <3>2, SenderSteps
    <3> QED  BY <3>1, <3>2
  <2>9. CASE InFlight(s, i)
    <3>1. PICK k \in 1..Len(channel[p]) : channel[p][k] = data
      BY <2>6, <2>9
    <3>2. channel[p] \in Seq(Message)
      BY <1>2 DEF TypeOK
    <3>3. CASE channel'[p] = channel[p]
      BY <2>7, <3>1, <3>3
    <3>4. CASE \E msgs \in Seq(Message) : channel'[p] = channel[p] \o msgs
      <4>1. k \in 1..Len(channel'[p]) /\ channel'[p][k] = data
        BY <3>1, <3>2, <3>4
      <4> QED  BY <2>7, <4>1
    <3>5. CASE /\ channel[p] # <<>> /\ channel'[p] = Tail(channel[p])
               /\ Head(channel[p]).kind = "data" => TakesData(p)
      <4>1. CASE k = 1
        <5>1. Head(channel[p]) = data
          BY <3>1, <3>2, <4>1
        <5>2. TakesData(p)
          BY <2>5, <3>5, <5>1
        <5>3. \/ \E d \in delivered' : d.asset = a
              \/ current'[a] # 0 /\ bufs'[current'[a]].received[i] # None
              \/ \E t \in hashing' : t.meta = c
              \/ <<s, i>> \in orphaned'
          BY <1>2, <2>5, <3>5, <5>1, <5>2, DataTaken
        <5> QED  BY <1>0, <1>1, <2>5, <5>3 DEF BeingHashed, Arrived
      <4>2. CASE k # 1
        <5>1. k - 1 \in 1..Len(channel'[p]) /\ channel'[p][k - 1] = data
          BY <3>1, <3>2, <3>5, <4>2
        <5> QED  BY <2>7, <5>1
      <4> QED  BY <4>1, <4>2
    <3> QED  BY <1>1, <1>2, <3>3, <3>4, <3>5, ChannelSteps
  <2>10. CASE BeingHashed(s, i)
    <3>1. PICK t \in hashing : t.meta.blob = b /\ t.meta.index = i
      BY <2>2, <2>10 DEF BeingHashed
    <3>2. CASE t \in hashing'
      BY <1>0, <3>1, <3>2 DEF BeingHashed
    <3>3. CASE ChunkHashed(t)
      <4>1. t.meta = t.data /\ t.meta \in Chunk /\ t.buf \in 1..Len(bufs)
        BY DEF TransferInv, HashInv, TypeOK, HashTask
      <4>2. t.buf = n
        BY <2>1, <1>1, <3>1 DEF CapturedInv, ReceiverMonotone, AssetDelivered
      <4>3. /\ n # 0 /\ bufs' = Stored(bufs, n, t.meta, t.meta)
            /\ TryReassemble(a, <<t.src, t.data.index>>, bufs')
        BY <3>1, <3>3, <4>1, <4>2 DEF ChunkHashed
      <4>4. current'[a] # 0 /\ bufs'[current'[a]].received[i] # None
        BY <1>1, <1>2, <3>1, <4>1, <4>3, ChunkArrives
      <4> QED  BY <1>0, <4>4 DEF Arrived
    <3> QED  BY <3>2, <3>3, TaskSteps
  <2>11. CASE Arrived(s, i)
    <3>1. n # 0 /\ bufs[n].received[i] # None
      BY <2>2, <2>11 DEF Arrived
    <3>2. current'[a] = n
      BY <1>1, <1>2, <2>1, <3>1 DEF ReceiverMonotone
    <3>3. n \in 1..Len(bufs)
      BY <1>2, <3>1 DEF TypeOK
    <3>4. bufs'[n].received[i] # None
      BY <1>3, <2>1, <3>1, <3>3 DEF ReceiverMonotone
    <3> QED  BY <1>0, <3>1, <3>2, <3>4 DEF Arrived
  <2>12. CASE <<s, i>> \in orphaned
    BY <2>1, <2>12 DEF ReceiverMonotone
  <2> QED  BY <2>4, <2>8, <2>9, <2>10, <2>11, <2>12
<1> QED  BY <1>4, <1>5

LEMMA DeliveryInit == Init => DeliveryInv
<1> SUFFICES ASSUME Init PROVE DeliveryInv
  OBVIOUS
<1>1. TransferInv
  BY InvInit
<1>2. SentInv /\ CapturedInv /\ NothingVanishes
  BY DEF Init, SentInv, CapturedInv, NothingVanishes, Owed
<1>3. TriedInv
  BY DEF Init, TriedInv, Whole
<1> QED  BY <1>1, <1>2, <1>3 DEF DeliveryInv

LEMMA DeliveryStep == DeliveryInv /\ [Next]_vars => DeliveryInv'
BY InvStep, SentStep, CapturedStep, TriedStep, VanishStep DEF DeliveryInv

LEMMA DeliveryInvariant == Spec => []DeliveryInv
BY DeliveryInit, DeliveryStep, PTL DEF Spec

\* The only way the receiver loses an asset that was wholly sent is that metadata is deleted
\* before its data comes (storeBinaryChunk after its await): for any number of peers,
\* streams, piece requests, duplicates and digests in any order.
THEOREM LossesAreOrphans == Spec => []OnlyOrphansAreLost
<1>1. DeliveryInv => OnlyOrphansAreLost
  <2> SUFFICES ASSUME DeliveryInv, Quiet, NEW s \in Streams, WholeSent(s),
                      ~AssetDelivered(AssetOf[stream[s].blob]),
                      \A i \in Index : <<s, i>> \notin orphaned
               PROVE  FALSE
    BY DEF OnlyOrphansAreLost
  <2> TransferInv /\ TypeOK /\ SentInv /\ TriedInv /\ NothingVanishes
    BY DEF DeliveryInv, TransferInv
  <2> DEFINE b == stream[s].blob
             a == AssetOf[b]
             n == current[a]
  <2>1. b \in Blobs /\ stream[s].peer \in Peers /\ b \in Offered
    BY StreamInUse DEF WholeSent, Stream, Offered
  <2>2. TotalOf[b] \in 0..MaxChunks /\ TotalOf[b] > 0 /\ a \in Assets /\ SingleVersion(a)
    BY <2>1 DEF WholeSent
  <2>3. ASSUME NEW i \in 0..(TotalOf[b] - 1)
        PROVE  Arrived(s, i)
    <3>1. stream[s].todo = {} /\ Owed(s)
      BY DEF WholeSent, Owed, SentInv
    <3>2. ~InFlight(s, i) /\ ~BeingHashed(s, i)
      BY <2>1 DEF Quiet, InFlight, BeingHashed
    <3>3. i \in Index
      BY <2>2 DEF Index
    <3> QED  BY <3>1, <3>2, <3>3 DEF NothingVanishes
  <2>4. n # 0 /\ \A i \in 0..(TotalOf[b] - 1) : bufs[n].received[i] # None
    BY <2>2, <2>3 DEF Arrived
  <2>5. n \in 1..Len(bufs) /\ BufferOK(bufs[n]) /\ bufs[n].asset = a
    BY <2>2, <2>4 DEF TransferInv, TypeOK, BufferInv, CurrentInv
  <2>6. bufs[n].total = TotalOf[b]
    BY <2>1, <2>2, <2>5, OneVersionOffered DEF BufferOK
  <2>7. Whole(a)
    BY <2>4, <2>6 DEF Whole
  <2> QED  BY <2>2, <2>7 DEF TriedInv, Quiet
<1> QED  BY <1>1, DeliveryInvariant, PTL

\* Without verification nothing runs beside the messages, and data always finds its metadata.
Immediate ==
  /\ hashing = {} /\ assembling = {} /\ orphaned = {}
  /\ \A p \in Peers :
       channel[p] # <<>> /\ Head(channel[p]).kind = "data" => pending[p] # None

LEMMA ImmediateStep ==
  ASSUME ~VerifyIntegrity, TransferInv, Immediate, [Next]_vars
  PROVE  Immediate'
<1> TypeOK /\ LinkInv
  BY DEF TransferInv
<1>1. hashing' = {}
  BY TaskSteps DEF Immediate, HashChunk
<1>2. assembling' = {}
  BY DEF Immediate, Next, StartStream, SendChunk, SendOnlyDone, SendFails, ReceiveMeta,
     ReceiveDone, DropOrphan, DropUnbuffered, DropDuplicate, HashChunk, StoreUnverified,
     AssetHashed, Disconnect, Destroy, TryReassemble, receiver, vars
<1>3. orphaned' = {}
  BY DEF Immediate, Next, StartStream, SendChunk, SendOnlyDone, SendFails, ReceiveMeta,
     ReceiveDone, DropOrphan, Receive, DropUnbuffered, DropDuplicate, HashChunk,
     StoreUnverified, AssetHashed, Disconnect, Destroy, receiver, vars
<1>4. ASSUME NEW p \in Peers, channel'[p] # <<>>, Head(channel'[p]).kind = "data"
      PROVE  pending'[p] # None
  <2> DEFINE q == channel[p]
  <2>1. q \in Seq(Message) /\ Paired(q, pending[p])
    BY DEF TypeOK, LinkInv
  <2>2. CASE ReceiveMeta(p)
    <3>1. Head(q).chunk \in Chunk /\ pending'[p] = Head(q).chunk
      BY <2>2, ReceiveType, MessageType DEF ReceiveMeta, TypeOK
    <3> QED  BY <3>1
  <2>3. ASSUME q # <<>>, channel'[p] = Tail(q)
        PROVE  Head(q).kind = "meta"
    <3>1. 2 \in 1..Len(q) /\ q[2].kind = "data" /\ Head(q) = q[1]
      BY <1>4, <2>1, <2>3
    <3> QED  BY <2>1, <3>1 DEF Paired
  <2>4. CASE TakesData(p)
    <3>1. q # <<>> /\ channel'[p] = Tail(q) /\ Head(q).kind = "data"
      BY <2>4 DEF TakesData, DropOrphan, DropUnbuffered, DropDuplicate, HashChunk,
         StoreUnverified, Receive, TypeOK
    <3> QED  BY <2>3, <3>1
  <2>5. CASE pending'[p] = pending[p] /\ ~ReceiveMeta(p)
    <3>1. CASE channel'[p] = q
      BY <1>4, <2>5, <3>1 DEF Immediate
    <3>2. ASSUME NEW msgs \in Seq(Message), channel'[p] = q \o msgs,
                 msgs # <<>> => msgs[1].kind # "data"
          PROVE  pending'[p] # None
      <4>1. CASE q = <<>>
        BY <1>4, <3>2, <4>1
      <4>2. CASE q # <<>>
        <5>1. Head(channel'[p]) = Head(q)
          BY <2>1, <3>2, <4>2
        <5> QED  BY <1>4, <2>5, <4>2, <5>1 DEF Immediate
      <4> QED  BY <4>1, <4>2
    <3> QED  BY <1>4, <2>3, <2>5, <3>1, <3>2, ChannelSteps
  <2>6. pending'[p] = pending[p] \/ ReceiveMeta(p) \/ TakesData(p) \/ channel'[p] = <<>>
    BY DEF Immediate, Next, StartStream, SendChunk, SendOnlyDone, SendFails, ReceiveMeta,
       ReceiveDone, DropOrphan, DropUnbuffered, DropDuplicate, HashChunk, StoreUnverified,
       AssetHashed, Disconnect, Destroy, TakesData, TypeOK, receiver, vars
  <2> QED  BY <1>4, <2>2, <2>4, <2>5, <2>6
<1> QED  BY <1>1, <1>2, <1>3, <1>4 DEF Immediate

\* Without verification every asset that was wholly sent over a link that is still open has
\* been delivered, when nothing is in flight any more (sendBlob, storeBinaryChunk).
THEOREM UnverifiedTransfersComplete ==
  ASSUME ~VerifyIntegrity
  PROVE  Spec => []FullStreamReassembles
<1>1. Init => Immediate
  BY DEF Init, Immediate
<1>2. TransferInv /\ Immediate /\ [Next]_vars => Immediate'
  BY ImmediateStep
<1>3. Immediate /\ OnlyOrphansAreLost => FullStreamReassembles
  BY DEF Immediate, OnlyOrphansAreLost, FullStreamReassembles
<1> QED  BY <1>1, <1>2, <1>3, Invariant, LossesAreOrphans, PTL DEF Spec

==============================================================================
