---------------------------- MODULE AssetRequest -----------------------------
(***************************************************************************)
(* ShadowCast.requestAsset and requestAssetBlob: how a call is answered    *)
(* from the cache, by the swarm or over HTTP, with the timer that bounds   *)
(* the wait for the swarm, the reassembled assets that come in, and the    *)
(* cache they are put into.                                                *)
(*                                                                         *)
(* An action is what runs between two awaits.  The transfer itself is      *)
(* abstract here: any number of reassembled copies of an asset that was    *)
(* asked for may arrive, early, late or never (module AssetDelivery is     *)
(* the promise about their contents).  Connecting, waiting for peers and   *)
(* fetching end, with either outcome.                                      *)
(***************************************************************************)
EXTENDS Naturals, Sequences

CONSTANTS
  Calls,        \* bound: the calls of requestAsset, directly or by requestAssetBlob
  BlobCalls,    \* those made by requestAssetBlob
  Urls,
  UrlOf,        \* the URL a call asks for
  Deliveries,   \* bound: the calls of handleAssetReassembled
  None,
  MaxOutages,   \* bound: failures of connect or fetch in a behaviour
  Teardown,     \* whether destroy is called in a behaviour
  Losses        \* whether the cache loses blobs, or fails, in a behaviour

ASSUME RequestAssumption ==
  /\ BlobCalls \subseteq Calls
  /\ UrlOf \in [Calls -> Urls]
  /\ None \notin Calls
  /\ MaxOutages \in Nat
  /\ Teardown \in BOOLEAN /\ Losses \in BOOLEAN

VARIABLES
  pc,           \* where a call is
  http,         \* where the fallbackToHttp of a call is
  resolvers,    \* assetResolvers: the call whose promise an asset will resolve
  timers,       \* the calls whose p2pTimeout runs, in the order they will fire
  asked,        \* URLs the peers have been asked for
  urlKnown,     \* assetUrlsById
  delivery,     \* the calls of handleAssetReassembled
  store,        \* URLs whose blob is in the cache store
  objectUrls,   \* URLs with an entry in CacheManager.objectUrls
  clearing,     \* a clear of the store has begun and not ended
  outages,      \* failures so far
  destroyed,    \* history: destroy was called
  lost,         \* history: URLs whose blob the cache refused, evicted or cleared, and has
                \* not stored since
  overtaken     \* history: calls whose resolver was replaced by another call, or removed
                \* by the timer or delivery of another call, or by destroy

cache == <<store, objectUrls, clearing, lost>>
env == <<outages, destroyed>>
vars == <<pc, http, resolvers, timers, asked, urlKnown, delivery, cache, env, overtaken>>

Pending == Calls \cup {None}

Idle == [at |-> "idle", url |-> None, pending |-> None]

Delivery ==
  {Idle} \cup [at : {"store", "done"}, url : Urls, pending : Pending]
         \cup [at : {"url"}, url : Urls, pending : Calls]

Init ==
  /\ pc = [c \in Calls |-> "new"]
  /\ http = [c \in Calls |-> "idle"]
  /\ resolvers = [u \in Urls |-> None]
  /\ timers = <<>>
  /\ asked = {}
  /\ urlKnown = {}
  /\ delivery = [d \in Deliveries |-> Idle]
  /\ store = {}
  /\ objectUrls = {}
  /\ clearing = FALSE
  /\ outages = 0
  /\ destroyed = FALSE
  /\ lost = {} /\ overtaken = {}

Settled(c) == pc[c] \in {"resolved", "rejected", "missing"}

Goto(c, place) == pc' = [pc EXCEPT ![c] = place]

\* The promise of requestAsset is resolved, once; requestAssetBlob reads the cache then.
Resolve(c) ==
  pc' = [pc EXCEPT ![c] =
    IF @ \notin {"lookup", "p2p", "http"} THEN @
    ELSE IF c \in BlobCalls THEN "reread" ELSE "resolved"]

\* The entry of u is lost to a call other than c, whoever it is.
Overtake(u, c) == overtaken' = overtaken \cup ({resolvers[u]} \ {None, c})

Outage == outages < MaxOutages /\ outages' = outages + 1 /\ UNCHANGED destroyed

------------------------------------------------------------------------------
(* CacheManager *)

\* store.get finds the blob, or it does not: the blob is not there, or the transaction
\* fails and get answers undefined all the same.
Finds(u) == u \in store
FindsNothing(u) == u \notin store \/ Losses

\* The end of set: the blob is in the store, or the store failed and swallowed it.
StorePut(u) ==
  /\ \/ store' = store \cup {u} /\ lost' = lost \ {u}
     \/ Losses /\ lost' = lost \cup ({u} \ store) /\ UNCHANGED store
  /\ UNCHANGED <<objectUrls, clearing>>

\* getObjectUrl when the caller makes a URL itself if it returns none.
RegisterUrl(u) ==
  /\ \/ Finds(u) /\ objectUrls' = objectUrls \cup {u}
     \/ FindsNothing(u) /\ UNCHANGED objectUrls
  /\ UNCHANGED <<store, clearing, lost>>

------------------------------------------------------------------------------
(* requestAssetBlob and requestAsset *)

\* cacheManager.get of requestAssetBlob.
BlobHit(c) ==
  /\ pc[c] = "new" /\ c \in BlobCalls
  /\ Finds(UrlOf[c])
  /\ Goto(c, "resolved")
  /\ UNCHANGED <<http, resolvers, timers, asked, urlKnown, delivery, cache, env, overtaken>>

\* requestAsset starts with getObjectUrl: a registered URL is returned as it is.
UrlHit(c) ==
  /\ pc[c] = "new" /\ (c \in BlobCalls => FindsNothing(UrlOf[c]))
  /\ UrlOf[c] \in objectUrls
  /\ Goto(c, IF c \in BlobCalls THEN "reread" ELSE "resolved")
  /\ UNCHANGED <<http, resolvers, timers, asked, urlKnown, delivery, cache, env, overtaken>>

Lookup(c) ==
  /\ pc[c] = "new" /\ (c \in BlobCalls => FindsNothing(UrlOf[c]))
  /\ UrlOf[c] \notin objectUrls
  /\ Goto(c, "lookup")
  /\ UNCHANGED <<http, resolvers, timers, asked, urlKnown, delivery, cache, env, overtaken>>

LookupHit(c) ==
  /\ pc[c] = "lookup"
  /\ Finds(UrlOf[c])
  /\ objectUrls' = objectUrls \cup {UrlOf[c]}
  /\ Resolve(c)
  /\ UNCHANGED <<http, resolvers, timers, asked, urlKnown, delivery, store, clearing,
                 lost, env, overtaken>>

LookupMiss(c) ==
  /\ pc[c] = "lookup"
  /\ FindsNothing(UrlOf[c])
  /\ Goto(c, "connect")
  /\ UNCHANGED <<http, resolvers, timers, asked, urlKnown, delivery, cache, env, overtaken>>

ConnectFails(c) ==
  /\ pc[c] = "connect"
  /\ Outage
  /\ Goto(c, "rejected")
  /\ UNCHANGED <<http, resolvers, timers, asked, urlKnown, delivery, cache, overtaken>>

Connected(c) ==
  /\ pc[c] = "connect"
  /\ urlKnown' = urlKnown \cup {UrlOf[c]}
  /\ Goto(c, "wait")
  /\ UNCHANGED <<http, resolvers, timers, asked, delivery, cache, env, overtaken>>

\* Faulty variant: the call that waits for the asset already keeps its entry.
AskPeersBeside(c) ==
  /\ pc[c] = "wait"
  /\ resolvers' = [resolvers EXCEPT ![UrlOf[c]] = IF @ = None THEN c ELSE @]
  /\ asked' = asked \cup {UrlOf[c]}
  /\ timers' = Append(timers, c)
  /\ Goto(c, "p2p")
  /\ UNCHANGED <<http, urlKnown, delivery, cache, env, overtaken>>

\* waitForPeers is over: the swarm is asked, and the timer armed.
AskPeers(c) ==
  /\ pc[c] = "wait"
  /\ resolvers' = [resolvers EXCEPT ![UrlOf[c]] = c]
  /\ Overtake(UrlOf[c], c)
  /\ asked' = asked \cup {UrlOf[c]}
  /\ timers' = Append(timers, c)
  /\ Goto(c, "p2p")
  /\ UNCHANGED <<http, urlKnown, delivery, cache, env>>

NoPeers(c) ==
  /\ pc[c] = "wait"
  /\ http' = [http EXCEPT ![c] = "fetch"]
  /\ Goto(c, "http")
  /\ UNCHANGED <<resolvers, timers, asked, urlKnown, delivery, cache, env, overtaken>>

\* The callback of setTimeout, for the call that armed the oldest timer.  It looks for
\* an entry of its URL, which may be that of another call.
TimerFires ==
  /\ timers # <<>>
  /\ LET c == Head(timers)
         u == UrlOf[c]
     IN IF resolvers[u] = None
        THEN UNCHANGED <<resolvers, http, overtaken>>
        ELSE /\ resolvers' = [resolvers EXCEPT ![u] = None]
             /\ Overtake(u, c)
             /\ http' = [http EXCEPT ![c] = "fetch"]
  /\ timers' = Tail(timers)
  /\ UNCHANGED <<pc, asked, urlKnown, delivery, cache, env>>

\* requestAssetBlob reads the cache again when requestAsset has resolved.
Reread(c) ==
  /\ pc[c] = "reread"
  /\ \/ Finds(UrlOf[c]) /\ Goto(c, "resolved")
     \/ FindsNothing(UrlOf[c]) /\ Goto(c, "missing")
  /\ UNCHANGED <<http, resolvers, timers, asked, urlKnown, delivery, cache, env, overtaken>>

------------------------------------------------------------------------------
(* fallbackToHttp *)

\* fetch fails or answers with an error: the caller is rejected, but a fallback begun by
\* the timer has no caller, and its promise is never settled.
FetchFails(c) ==
  /\ http[c] = "fetch"
  /\ Outage
  /\ http' = [http EXCEPT ![c] = "failed"]
  /\ pc' = IF pc[c] = "http" THEN [pc EXCEPT ![c] = "rejected"] ELSE pc
  /\ UNCHANGED <<resolvers, timers, asked, urlKnown, delivery, cache, overtaken>>

Fetched(c) ==
  /\ http[c] = "fetch"
  /\ http' = [http EXCEPT ![c] = "store"]
  /\ UNCHANGED <<pc, resolvers, timers, asked, urlKnown, delivery, cache, env, overtaken>>

HttpStored(c) ==
  /\ http[c] = "store"
  /\ StorePut(UrlOf[c])
  /\ http' = [http EXCEPT ![c] = "url"]
  /\ UNCHANGED <<pc, resolvers, timers, asked, urlKnown, delivery, env, overtaken>>

HttpResolves(c) ==
  /\ http[c] = "url"
  /\ RegisterUrl(UrlOf[c])
  /\ Resolve(c)
  /\ http' = [http EXCEPT ![c] = "done"]
  /\ UNCHANGED <<resolvers, timers, asked, urlKnown, delivery, env, overtaken>>

------------------------------------------------------------------------------
(* handleAssetReassembled *)

\* An asset is complete: the resolver is read before the await of the cache.
Reassembled(d, u) ==
  /\ delivery[d] = Idle
  /\ u \in asked
  /\ resolvers[u] # None \/ u \in urlKnown
  /\ delivery' = [delivery EXCEPT ![d] =
       [at |-> "store", url |-> u, pending |-> resolvers[u]]]
  /\ UNCHANGED <<pc, http, resolvers, timers, asked, urlKnown, cache, env, overtaken>>

\* Faulty variant: the asset is taken to be waited for by somebody.
DeliveryStoredUnchecked(d) ==
  /\ delivery[d].at = "store"
  /\ LET t == delivery[d] IN
       /\ StorePut(t.url)
       /\ delivery' = [delivery EXCEPT ![d].at = "url"]
       /\ resolvers' = [resolvers EXCEPT ![t.url] = None]
       /\ Overtake(t.url, t.pending)
  /\ UNCHANGED <<pc, http, timers, asked, urlKnown, env>>

\* Faulty variant: the entry is left for the timer to find.
DeliveryKeepsEntry(d) ==
  /\ delivery[d].at = "store"
  /\ LET t == delivery[d] IN
       /\ StorePut(t.url)
       /\ delivery' = [delivery EXCEPT ![d].at = IF t.pending = None THEN "done" ELSE "url"]
  /\ UNCHANGED <<pc, http, resolvers, timers, asked, urlKnown, env, overtaken>>

\* Faulty variant: the promise is resolved without waiting for the cache.
DeliveryUnstored(d) ==
  /\ delivery[d].at = "store"
  /\ LET t == delivery[d] IN
       /\ delivery' = [delivery EXCEPT ![d].at = IF t.pending = None THEN "done" ELSE "url"]
       /\ IF t.pending = None THEN UNCHANGED <<resolvers, overtaken>>
          ELSE /\ resolvers' = [resolvers EXCEPT ![t.url] = None]
               /\ Overtake(t.url, t.pending)
  /\ UNCHANGED <<pc, http, timers, asked, urlKnown, cache, env>>

\* Faulty variant: the entry is deleted by an asset that nobody waited for, too.
DeliveryDropsAny(d) ==
  /\ delivery[d].at = "store"
  /\ LET t == delivery[d] IN
       /\ StorePut(t.url)
       /\ delivery' = [delivery EXCEPT ![d].at = IF t.pending = None THEN "done" ELSE "url"]
       /\ resolvers' = [resolvers EXCEPT ![t.url] = None]
       /\ IF t.pending = None THEN UNCHANGED overtaken ELSE Overtake(t.url, t.pending)
  /\ UNCHANGED <<pc, http, timers, asked, urlKnown, env>>

\* The blob is cached; the entry of the URL is deleted, whoever's it is by now.
DeliveryStored(d) ==
  /\ delivery[d].at = "store"
  /\ LET t == delivery[d] IN
       /\ StorePut(t.url)
       /\ delivery' = [delivery EXCEPT ![d].at = IF t.pending = None THEN "done" ELSE "url"]
       /\ IF t.pending = None THEN UNCHANGED <<resolvers, overtaken>>
          ELSE /\ resolvers' = [resolvers EXCEPT ![t.url] = None]
               /\ Overtake(t.url, t.pending)
  /\ UNCHANGED <<pc, http, timers, asked, urlKnown, env>>

DeliveryResolves(d) ==
  /\ delivery[d].at = "url"
  /\ RegisterUrl(delivery[d].url)
  /\ Resolve(delivery[d].pending)
  /\ delivery' = [delivery EXCEPT ![d].at = "done"]
  /\ UNCHANGED <<http, resolvers, timers, asked, urlKnown, env, overtaken>>

------------------------------------------------------------------------------
(* Losses of the cache, clearCache and destroy *)

\* The store evicts or expires a blob; its object URL stays registered.
Evict(u) ==
  /\ Losses
  /\ u \in store
  /\ store' = store \ {u}
  /\ lost' = lost \cup {u}
  /\ UNCHANGED <<pc, http, resolvers, timers, asked, urlKnown, delivery, objectUrls,
                 clearing, env, overtaken>>

\* CacheManager.clear up to its await, and after it: a clear that fails is swallowed.
BeginClear ==
  /\ objectUrls' = {}
  /\ clearing' = TRUE
  /\ UNCHANGED <<store, lost>>

clearCache ==
  /\ Losses /\ ~clearing
  /\ BeginClear
  /\ UNCHANGED <<pc, http, resolvers, timers, asked, urlKnown, delivery, env, overtaken>>

StoreCleared ==
  /\ clearing
  /\ \/ store' = {} /\ lost' = lost \cup store
     \/ Losses /\ UNCHANGED <<store, lost>>
  /\ clearing' = FALSE
  /\ UNCHANGED <<pc, http, resolvers, timers, asked, urlKnown, delivery, objectUrls, env,
                 overtaken>>

\* destroy drops the resolvers, and with them the calls that wait for the swarm.  An asset
\* whose digest still runs may yet be reassembled.
destroy ==
  /\ Teardown /\ ~destroyed
  /\ destroyed' = TRUE
  /\ resolvers' = [u \in Urls |-> None]
  /\ overtaken' = overtaken \cup ({resolvers[u] : u \in Urls} \ {None})
  /\ urlKnown' = {}
  /\ BeginClear
  /\ UNCHANGED <<pc, http, timers, asked, delivery, outages>>

------------------------------------------------------------------------------
\* The continuations of a call that is under way.
CallStep(c) ==
  \/ LookupHit(c)
  \/ LookupMiss(c)
  \/ ConnectFails(c)
  \/ Connected(c)
  \/ AskPeers(c)
  \/ NoPeers(c)
  \/ Reread(c)

HttpStep(c) ==
  \/ FetchFails(c)
  \/ Fetched(c)
  \/ HttpStored(c)
  \/ HttpResolves(c)

DeliveryStep(d) ==
  \/ DeliveryStored(d)
  \/ DeliveryResolves(d)

Next ==
  \/ \E c \in Calls : BlobHit(c)
  \/ \E c \in Calls : UrlHit(c)
  \/ \E c \in Calls : Lookup(c)
  \/ \E c \in Calls : CallStep(c)
  \/ TimerFires
  \/ \E c \in Calls : HttpStep(c)
  \/ \E d \in Deliveries, u \in Urls : Reassembled(d, u)
  \/ \E d \in Deliveries : DeliveryStep(d)
  \/ \E u \in Urls : Evict(u)
  \/ clearCache
  \/ StoreCleared
  \/ destroy

\* Promises that are awaited settle, and timers fire: the event loop is fair, connecting
\* and waiting for peers are bounded by the browser and by peerWaitTimeout, and a fetch
\* answers or fails.  Nothing makes the swarm deliver, or a user call anything.
Fairness ==
  /\ \A c \in Calls : WF_vars(CallStep(c)) /\ WF_vars(HttpStep(c))
  /\ \A d \in Deliveries : WF_vars(DeliveryStep(d))
  /\ WF_vars(TimerFires)
  /\ WF_vars(StoreCleared)

Spec == Init /\ [][Next]_vars /\ Fairness

------------------------------------------------------------------------------
(* Properties *)

\* Every variable has the shape the code gives it, and a delivery that goes on to resolve
\* a call has one to resolve.
TypeOK ==
  /\ pc \in [Calls -> {"new", "lookup", "connect", "wait", "p2p", "http", "reread",
                       "resolved", "rejected", "missing"}]
  /\ http \in [Calls -> {"idle", "fetch", "store", "url", "failed", "done"}]
  /\ resolvers \in [Urls -> Pending]
  /\ timers \in Seq(Calls)
  /\ asked \subseteq Urls
  /\ urlKnown \subseteq Urls
  /\ delivery \in [Deliveries -> Delivery]
  /\ store \subseteq Urls
  /\ objectUrls \subseteq Urls
  /\ clearing \in BOOLEAN
  /\ outages \in 0..MaxOutages
  /\ destroyed \in BOOLEAN
  /\ lost \subseteq Urls
  /\ overtaken \subseteq Calls

Armed(c) == \E k \in 1..Len(timers) : timers[k] = c

\* A resolver in the map is always backed by the timer of its own call: no entry outlives
\* the timeout that is to remove it, and none is for a call that is settled or already
\* falling back (requestAsset, handleAssetReassembled).
ResolverGuarded ==
  \A u \in Urls :
    LET c == resolvers[u] IN
      c # None => /\ UrlOf[c] = u
                  /\ pc[c] = "p2p" /\ http[c] = "idle"
                  /\ Armed(c)

Waited(d, c) == delivery[d].at \in {"store", "url"} /\ delivery[d].pending = c

\* A call that waits for the swarm is in somebody's hands: the map still has its resolver,
\* which its timer will find, or an asset on its way to the cache took it, or its own
\* fallback runs or has failed; all others lost their entry to another call or to destroy
\* (requestAsset, handleAssetReassembled).
WaitingInSomeHands ==
  \A c \in Calls :
    pc[c] = "p2p" =>
      \/ resolvers[UrlOf[c]] = c
      \/ \E d \in Deliveries : Waited(d, c)
      \/ http[c] \in {"fetch", "store", "url", "failed"}
      \/ c \in overtaken

\* Reasons a call may wait for ever: the HTTP fallback of its timer failed, or its entry
\* was lost to another call or to destroy.
Stranded(c) == http[c] = "failed" \/ c \in overtaken

\* Any other call is answered, whatever the swarm does and whatever the cache loses: above
\* all, an asset that arrives when nobody waits, or twice, takes no caller's answer away
\* (requestAsset, handleAssetReassembled).
CallsSettle ==
  \A c \in Calls : pc[c] = "lookup" ~> Settled(c) \/ Stranded(c)

\* requestAssetBlob throws for want of the blob it has just been promised only when the
\* cache refused or lost it, and has not stored it since, or when it is there and the read
\* fails: every way a call is resolved puts the blob into the cache first
\* (requestAssetBlob, IndexedDBCache.get).
BlobMissingOnlyIfLost ==
  [][\A c \in Calls : pc[c] # "missing" /\ pc'[c] = "missing" =>
       UrlOf[c] \in lost \/ UrlOf[c] \in store]_vars

\* README: a requested asset is "automatically resolved via P2P swarm, cache, or HTTP
\* fallback".
EveryCallSettles ==
  \A c \in Calls : pc[c] = "lookup" ~> Settled(c)

==============================================================================
