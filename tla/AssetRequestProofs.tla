------------------------- MODULE AssetRequestProofs --------------------------
(***************************************************************************)
(* Proofs about AssetRequest, for any number of calls, URLs, deliveries    *)
(* and outages: type correctness, that every resolver in the map is backed *)
(* by the timer of its own call (ResolverGuarded), that a call that waits  *)
(* is forgotten in the ways named only (WaitingInSomeHands), and that a    *)
(* promised blob is missing only if the cache lost it or fails to read it  *)
(* (BlobMissingOnlyIfLost).                                                *)
(***************************************************************************)
EXTENDS AssetRequest, TLAPS

USE RequestAssumption

------------------------------------------------------------------------------
(* Type correctness *)

\* A delivery that moves on to another place keeps its URL and the call it resolves.
LEMMA DeliveryMoves ==
  ASSUME NEW t \in Delivery, t # Idle, t.at # "idle", NEW at \in {"done", "url"},
         at = "url" => t.pending \in Calls
  PROVE  [t EXCEPT !.at = at] \in Delivery
<1>1. t.url \in Urls /\ t.pending \in Pending
      /\ t = [at |-> t.at, url |-> t.url, pending |-> t.pending]
  BY DEF Delivery, Pending
<1>2. [t EXCEPT !.at = at] = [at |-> at, url |-> t.url, pending |-> t.pending]
  BY <1>1
<1>3. CASE at = "done"
  BY <1>1, <1>2, <1>3 DEF Delivery
<1>4. CASE at = "url"
  BY <1>1, <1>2, <1>4 DEF Delivery
<1> QED  BY <1>3, <1>4

\* A delivery that is not idle is of a URL, and one that resolves has a call to resolve.
LEMMA DeliveryType ==
  ASSUME NEW t \in Delivery
  PROVE  /\ t.at \in {"store", "url", "done"} => t.url \in Urls /\ t # Idle
         /\ t.pending \in Pending
         /\ t.at = "url" => t.pending \in Calls
         /\ t.pending # None => t.url \in Urls
BY DEF Delivery, Idle, Pending

\* Resolving a call, or nobody, keeps the places of calls well formed.
LEMMA ResolveType ==
  ASSUME TypeOK, NEW c \in Calls, Resolve(c)
  PROVE  pc' \in [Calls -> {"new", "lookup", "connect", "wait", "p2p", "http", "reread",
                            "resolved", "rejected", "missing"}]
BY DEF TypeOK, Resolve

\* Only calls lose an entry to others.
LEMMA OvertakeType ==
  ASSUME TypeOK, NEW u \in Urls, NEW c, Overtake(u, c)
  PROVE  overtaken' \subseteq Calls
BY DEF TypeOK, Overtake, Pending

LEMMA TypeInit == Init => TypeOK
<1>1. None \in Pending
  BY DEF Pending
<1>2. Idle \in Delivery
  BY DEF Delivery
<1>3. <<>> \in Seq(Calls) /\ 0 \in 0..MaxOutages
  OBVIOUS
<1> SUFFICES ASSUME Init PROVE TypeOK
  OBVIOUS
<1>4. pc \in [Calls -> {"new", "lookup", "connect", "wait", "p2p", "http", "reread",
                       "resolved", "rejected", "missing"}]
      /\ http \in [Calls -> {"idle", "fetch", "store", "url", "failed", "done"}]
  BY DEF Init
<1>5. resolvers \in [Urls -> Pending] /\ delivery \in [Deliveries -> Delivery]
  BY <1>1, <1>2 DEF Init
<1> QED  BY <1>3, <1>4, <1>5 DEF Init, TypeOK

LEMMA TypeStep == TypeOK /\ [Next]_vars => TypeOK'
<1> SUFFICES ASSUME TypeOK, [Next]_vars PROVE TypeOK'
  OBVIOUS
<1> USE DEF TypeOK
<1>1. ASSUME NEW c \in Calls, BlobHit(c) PROVE TypeOK'
  BY <1>1 DEF BlobHit, Goto, cache, env
<1>2. ASSUME NEW c \in Calls, UrlHit(c) PROVE TypeOK'
  BY <1>2 DEF UrlHit, Goto, cache, env
<1>3. ASSUME NEW c \in Calls, Lookup(c) PROVE TypeOK'
  BY <1>3 DEF Lookup, Goto, cache, env
<1>4. ASSUME NEW c \in Calls, CallStep(c) PROVE TypeOK'
  <2>1. CASE LookupHit(c)
    <3>1. UrlOf[c] \in Urls
      OBVIOUS
    <3> QED  BY <2>1, <3>1, ResolveType DEF LookupHit, env
  <2>2. CASE LookupMiss(c)
    BY <2>2 DEF LookupMiss, Goto, cache, env
  <2>3. CASE ConnectFails(c)
    BY <2>3 DEF ConnectFails, Goto, Outage, cache
  <2>4. CASE Connected(c)
    BY <2>4 DEF Connected, Goto, cache, env
  <2>5. CASE AskPeers(c)
    <3>1. UrlOf[c] \in Urls /\ c \in Pending
      BY DEF Pending
    <3>2. timers' \in Seq(Calls)
      BY <2>5 DEF AskPeers
    <3> QED  BY <2>5, <3>1, <3>2, OvertakeType DEF AskPeers, Goto, cache, env
  <2>6. CASE NoPeers(c)
    BY <2>6 DEF NoPeers, Goto, cache, env
  <2>7. CASE Reread(c)
    BY <2>7 DEF Reread, Goto, cache, env
  <2> QED  BY <1>4, <2>1, <2>2, <2>3, <2>4, <2>5, <2>6, <2>7 DEF CallStep
<1>5. ASSUME TimerFires PROVE TypeOK'
  <2> DEFINE c == Head(timers)
  <2>1. c \in Calls /\ timers' \in Seq(Calls)
    BY <1>5 DEF TimerFires
  <2>2. None \in Pending
    BY DEF Pending
  <2> HIDE DEF c
  <2>3. \/ UNCHANGED <<resolvers, http, overtaken>>
        \/ /\ resolvers' = [resolvers EXCEPT ![UrlOf[c]] = None]
           /\ Overtake(UrlOf[c], c)
           /\ http' = [http EXCEPT ![c] = "fetch"]
    BY <1>5 DEF TimerFires, c
  <2>4. resolvers' \in [Urls -> Pending]
    BY <2>2, <2>3
  <2>5. http' \in [Calls -> {"idle", "fetch", "store", "url", "failed", "done"}]
    BY <2>3
  <2>6. overtaken' \subseteq Calls
    BY <2>1, <2>3, OvertakeType
  <2>7. UNCHANGED <<pc, asked, urlKnown, delivery, cache, env>>
    BY <1>5 DEF TimerFires
  <2> QED  BY <2>1, <2>4, <2>5, <2>6, <2>7 DEF cache, env
<1>6. ASSUME NEW c \in Calls, HttpStep(c) PROVE TypeOK'
  <2> UrlOf[c] \in Urls
    OBVIOUS
  <2>1. CASE FetchFails(c)
    BY <2>1 DEF FetchFails, Outage, cache
  <2>2. CASE Fetched(c)
    BY <2>2 DEF Fetched, cache, env
  <2>3. CASE HttpStored(c)
    BY <2>3 DEF HttpStored, StorePut, env
  <2>4. CASE HttpResolves(c)
    BY <2>4, ResolveType DEF HttpResolves, RegisterUrl, env
  <2> QED  BY <1>6, <2>1, <2>2, <2>3, <2>4 DEF HttpStep
<1>7. ASSUME NEW d \in Deliveries, NEW u \in Urls, Reassembled(d, u) PROVE TypeOK'
  <2> DEFINE new == [at |-> "store", url |-> u, pending |-> resolvers[u]]
  <2>1. new \in Delivery
    BY DEF Delivery
  <2>2. delivery' = [delivery EXCEPT ![d] = new]
    BY <1>7 DEF Reassembled
  <2> HIDE DEF new
  <2> QED  BY <1>7, <2>1, <2>2 DEF Reassembled, cache, env
<1>8. ASSUME NEW d \in Deliveries, DeliveryStep(d) PROVE TypeOK'
  <2>1. CASE DeliveryStored(d)
    <3> DEFINE t == delivery[d]
               at == IF t.pending = None THEN "done" ELSE "url"
    <3>1. t \in Delivery /\ t.at = "store"
      BY <2>1 DEF DeliveryStored
    <3>2. t # Idle /\ t.url \in Urls /\ t.pending \in Pending
      BY <3>1, DeliveryType
    <3>3. [t EXCEPT !.at = at] \in Delivery
      <4>1. at \in {"done", "url"} /\ (at = "url" => t.pending \in Calls)
        BY <3>2 DEF Pending
      <4> HIDE DEF t, at
      <4> QED  BY <3>1, <3>2, <4>1, DeliveryMoves
    <3>4. delivery' = [delivery EXCEPT ![d] = [t EXCEPT !.at = at]]
      BY <2>1 DEF DeliveryStored
    <3>5. delivery' \in [Deliveries -> Delivery]
      <4> HIDE DEF t, at
      <4> QED  BY <3>3, <3>4
    <3>6. None \in Pending
      BY DEF Pending
    <3>7. resolvers' \in [Urls -> Pending]
      BY <2>1, <3>6 DEF DeliveryStored
    <3>8. store' \subseteq Urls /\ lost' \subseteq Urls /\ UNCHANGED <<objectUrls, clearing>>
      BY <2>1, <3>2 DEF DeliveryStored, StorePut
    <3>9. overtaken' \subseteq Calls
      BY <2>1, <3>2, OvertakeType DEF DeliveryStored
    <3> QED  BY <2>1, <3>5, <3>7, <3>8, <3>9 DEF DeliveryStored, env
  <2>2. CASE DeliveryResolves(d)
    <3> DEFINE t == delivery[d]
    <3>1. t \in Delivery /\ t.at = "url"
      BY <2>2 DEF DeliveryResolves
    <3>2. t # Idle /\ t.url \in Urls /\ t.pending \in Calls
      BY <3>1, DeliveryType
    <3>3. [t EXCEPT !.at = "done"] \in Delivery
      <4> HIDE DEF t
      <4> QED  BY <3>1, <3>2, DeliveryMoves
    <3>4. delivery' = [delivery EXCEPT ![d] = [t EXCEPT !.at = "done"]]
      BY <2>2 DEF DeliveryResolves
    <3>5. delivery' \in [Deliveries -> Delivery]
      <4> HIDE DEF t
      <4> QED  BY <3>3, <3>4
    <3>6. Resolve(t.pending) /\ RegisterUrl(t.url)
      BY <2>2 DEF DeliveryResolves
    <3>7. pc' \in [Calls -> {"new", "lookup", "connect", "wait", "p2p", "http", "reread",
                             "resolved", "rejected", "missing"}]
      BY <3>2, <3>6, ResolveType
    <3> QED  BY <2>2, <3>2, <3>5, <3>6, <3>7 DEF DeliveryResolves, RegisterUrl, env
  <2> QED  BY <1>8, <2>1, <2>2 DEF DeliveryStep
<1>9. ASSUME NEW u \in Urls, Evict(u) PROVE TypeOK'
  BY <1>9 DEF Evict, env
<1>10. ASSUME clearCache PROVE TypeOK'
  BY <1>10 DEF clearCache, BeginClear, env
<1>11. ASSUME StoreCleared PROVE TypeOK'
  BY <1>11 DEF StoreCleared, env
<1>12. ASSUME destroy PROVE TypeOK'
  <2>1. overtaken' \subseteq Calls
    BY <1>12 DEF destroy, Pending
  <2> QED  BY <1>12, <2>1 DEF destroy, BeginClear, Pending
<1>13. ASSUME UNCHANGED vars PROVE TypeOK'
  BY <1>13 DEF vars, cache, env
<1> QED  BY <1>1, <1>2, <1>3, <1>4, <1>5, <1>6, <1>7, <1>8, <1>9, <1>10, <1>11, <1>12,
            <1>13 DEF Next

\* Every reachable state has the shape TypeOK gives: no continuation resolves a call that
\* is not there, however calls, timers, deliveries and destroy interleave.
THEOREM TypeCorrect == Spec => []TypeOK
<1> QED  BY TypeInit, TypeStep, PTL DEF Spec

------------------------------------------------------------------------------
(* Resolvers and their timers *)

\* A call that has not asked the swarm yet.
Early(c) == pc[c] \in {"new", "lookup", "connect", "wait"}

\* A call that has not asked the swarm has no timer and no fallback.
EarlyInv ==
  \A c \in Calls : Early(c) => http[c] = "idle" /\ ~Armed(c)

\* A delivery that will resolve a call was waited for by it, and once the asset is stored
\* that call's entry is out of the map.
DeliveryOK(t) ==
  t.pending # None =>
    /\ UrlOf[t.pending] = t.url
    /\ ~Early(t.pending)
    /\ t.at = "url" => resolvers[t.url] # t.pending

DeliveryInv == \A d \in Deliveries : DeliveryOK(delivery[d])

\* The strengthening of ResolverGuarded that every step preserves.
ResolverInv ==
  /\ TypeOK
  /\ EarlyInv
  /\ ResolverGuarded
  /\ DeliveryInv

\* A step that leaves resolvers, timers and deliveries alone keeps the invariant if it
\* neither makes a call early nor moves one that waits for the swarm.
LEMMA PlacesOnly ==
  ASSUME ResolverInv, TypeOK', UNCHANGED <<resolvers, timers, delivery>>,
         \A c \in Calls :
           /\ (Early(c))' => Early(c) /\ http'[c] = http[c]
           /\ pc[c] = "p2p" /\ http[c] = "idle" => pc'[c] = "p2p" /\ http'[c] = "idle"
  PROVE  ResolverInv'
<1> USE DEF ResolverInv
<1>1. \A c \in Calls : (Armed(c))' = Armed(c)
  BY DEF Armed
<1>2. EarlyInv'
  BY <1>1 DEF EarlyInv
<1>3. ResolverGuarded'
  <2> SUFFICES ASSUME NEW u \in Urls, NEW c, c = resolvers'[u], c # None
               PROVE  UrlOf[c] = u /\ pc'[c] = "p2p" /\ http'[c] = "idle" /\ (Armed(c))'
    BY DEF ResolverGuarded, Armed
  <2>1. c \in Calls /\ UrlOf[c] = u /\ pc[c] = "p2p" /\ http[c] = "idle" /\ Armed(c)
    BY DEF TypeOK, Pending, ResolverGuarded
  <2>2. pc'[c] = "p2p" /\ http'[c] = "idle"
    BY <2>1
  <2>3. (Armed(c))'
    BY <1>1, <2>1
  <2> QED  BY <2>1, <2>2, <2>3
<1>4. DeliveryInv'
  <2> SUFFICES ASSUME NEW d \in Deliveries
               PROVE  DeliveryOK(delivery[d])'
    BY DEF DeliveryInv
  <2> DEFINE t == delivery[d]
  <2>1. t \in Delivery /\ t' = t /\ DeliveryOK(t)
    BY DEF TypeOK, DeliveryInv
  <2>2. t.pending # None => t.pending \in Calls
    BY <2>1, DeliveryType DEF Pending
  <2>3. t.pending # None => ~(Early(t.pending))'
    BY <2>1, <2>2 DEF DeliveryOK
  <2> QED  BY <2>1, <2>3 DEF DeliveryOK
<1> QED  BY <1>2, <1>3, <1>4

\* Resolving a call touches no other, and never makes one early.
LEMMA ResolvePlaces ==
  ASSUME TypeOK, NEW c \in Calls, Resolve(c)
  PROVE  /\ \A k \in Calls \ {c} : pc'[k] = pc[k]
         /\ (Early(c))' => Early(c)
BY DEF TypeOK, Resolve, Early

\* Moving a call to a place touches no other.
LEMMA GotoPlaces ==
  ASSUME TypeOK, NEW c \in Calls, NEW place, Goto(c, place)
  PROVE  pc'[c] = place /\ \A k \in Calls \ {c} : pc'[k] = pc[k]
BY DEF TypeOK, Goto

LEMMA ResolverInit == Init => ResolverInv
<1> SUFFICES ASSUME Init PROVE ResolverInv
  OBVIOUS
<1>1. EarlyInv
  BY DEF Init, EarlyInv, Armed
<1>2. ResolverGuarded
  BY DEF Init, ResolverGuarded
<1>3. DeliveryInv
  BY DEF Init, DeliveryInv, DeliveryOK, Idle
<1> QED  BY <1>1, <1>2, <1>3, TypeInit DEF ResolverInv

\* Asking the swarm registers a call that was early, with a timer of its own.
LEMMA AskPeersResolver ==
  ASSUME ResolverInv, TypeOK', NEW c \in Calls, AskPeers(c)
  PROVE  ResolverInv'
<1> USE DEF ResolverInv
<1>1. /\ pc[c] = "wait" /\ http' = http /\ delivery' = delivery
      /\ pc'[c] = "p2p" /\ \A k \in Calls \ {c} : pc'[k] = pc[k]
  BY GotoPlaces DEF AskPeers
<1>2. /\ \A u \in Urls \ {UrlOf[c]} : resolvers'[u] = resolvers[u]
      /\ resolvers'[UrlOf[c]] = c /\ UrlOf[c] \in Urls
  BY DEF AskPeers, TypeOK
<1>3. timers' = Append(timers, c) /\ timers \in Seq(Calls)
  BY DEF AskPeers, TypeOK
<1>4. (Armed(c))' /\ \A k \in Calls \ {c} : (Armed(k))' <=> Armed(k)
  BY <1>3 DEF Armed
<1>5. EarlyInv'
  BY <1>1, <1>4 DEF EarlyInv, Early
<1>6. ResolverGuarded'
  <2> SUFFICES ASSUME NEW u \in Urls, NEW k, k = resolvers'[u], k # None
               PROVE  UrlOf[k] = u /\ pc'[k] = "p2p" /\ http'[k] = "idle" /\ (Armed(k))'
    BY DEF ResolverGuarded, Armed
  <2>1. CASE u = UrlOf[c]
    BY <2>1, <1>1, <1>2, <1>4 DEF EarlyInv, Early
  <2>2. CASE u # UrlOf[c]
    <3>1. k = resolvers[u]
      BY <1>2, <2>2
    <3>2. k \in Calls /\ UrlOf[k] = u /\ pc[k] = "p2p" /\ http[k] = "idle" /\ Armed(k)
      BY <3>1 DEF TypeOK, Pending, ResolverGuarded
    <3> QED  BY <1>1, <1>4, <2>2, <3>2
  <2> QED  BY <2>1, <2>2
<1>7. DeliveryInv'
  <2> SUFFICES ASSUME NEW d \in Deliveries
               PROVE  DeliveryOK(delivery[d])'
    BY DEF DeliveryInv
  <2> DEFINE t == delivery[d]
  <2>1. t \in Delivery /\ t' = t /\ DeliveryOK(t)
    BY <1>1 DEF TypeOK, DeliveryInv
  <2>2. t.pending # None => t.pending \in Calls /\ t.url \in Urls
    BY <2>1, DeliveryType DEF Pending
  <2>3. t.pending # None => t.pending # c /\ ~(Early(t.pending))'
    BY <1>1, <2>1, <2>2 DEF DeliveryOK, Early
  <2>4. t.pending # None /\ t.at = "url" => resolvers'[t.url] # t.pending
    BY <1>2, <2>1, <2>2, <2>3 DEF DeliveryOK
  <2> QED  BY <2>1, <2>3, <2>4 DEF DeliveryOK
<1> QED  BY <1>5, <1>6, <1>7

\* The oldest timer removes the entry of its URL, so no entry loses its timer.
LEMMA TimerFiresResolver ==
  ASSUME ResolverInv, TypeOK', TimerFires
  PROVE  ResolverInv'
<1> USE DEF ResolverInv
<1> DEFINE c == Head(timers)
<1>1. /\ timers \in Seq(Calls) /\ timers # <<>> /\ timers' = Tail(timers)
      /\ c = timers[1] /\ c \in Calls /\ UrlOf[c] \in Urls
  BY DEF TimerFires, TypeOK
<1>2. pc' = pc /\ delivery' = delivery /\ Armed(c)
  BY <1>1 DEF TimerFires, Armed
<1>3. /\ \A u \in Urls \ {UrlOf[c]} : resolvers'[u] = resolvers[u]
      /\ resolvers'[UrlOf[c]] = None
      /\ \A k \in Calls \ {c} : http'[k] = http[k]
  BY <1>1 DEF TimerFires, TypeOK
<1>4. \A k \in Calls : (Armed(k))' => Armed(k)
  BY <1>1 DEF Armed
<1>5. \A k \in Calls \ {c} : Armed(k) => (Armed(k))'
  <2> SUFFICES ASSUME NEW k \in Calls \ {c}, NEW i \in 1..Len(timers), timers[i] = k
               PROVE  (Armed(k))'
    BY DEF Armed
  <2>1. i # 1
    BY <1>1
  <2>2. i - 1 \in 1..Len(timers') /\ timers'[i - 1] = k
    BY <1>1, <2>1
  <2> QED  BY <2>2 DEF Armed
<1> HIDE DEF c
<1>6. EarlyInv'
  BY <1>1, <1>2, <1>3, <1>4 DEF EarlyInv, Early
<1>7. ResolverGuarded'
  <2> SUFFICES ASSUME NEW u \in Urls, NEW k, k = resolvers'[u], k # None
               PROVE  UrlOf[k] = u /\ pc'[k] = "p2p" /\ http'[k] = "idle" /\ (Armed(k))'
    BY DEF ResolverGuarded, Armed
  <2>1. u # UrlOf[c] /\ k = resolvers[u]
    BY <1>3
  <2>2. k \in Calls /\ UrlOf[k] = u /\ pc[k] = "p2p" /\ http[k] = "idle" /\ Armed(k)
    BY <2>1 DEF TypeOK, Pending, ResolverGuarded
  <2>3. k # c
    BY <2>1, <2>2
  <2> QED  BY <1>2, <1>3, <1>5, <2>2, <2>3
<1>8. DeliveryInv'
  <2> SUFFICES ASSUME NEW d \in Deliveries
               PROVE  DeliveryOK(delivery[d])'
    BY DEF DeliveryInv
  <2> DEFINE t == delivery[d]
  <2>1. t \in Delivery /\ t' = t /\ DeliveryOK(t)
    BY <1>2 DEF TypeOK, DeliveryInv
  <2>2. t.pending # None => t.pending \in Calls /\ t.url \in Urls
    BY <2>1, DeliveryType DEF Pending
  <2> QED  BY <1>2, <1>3, <2>1, <2>2 DEF DeliveryOK, Early
<1> QED  BY <1>6, <1>7, <1>8

\* Reassembly takes down the call whose entry is in the map.
LEMMA ReassembledResolver ==
  ASSUME ResolverInv, TypeOK', NEW d \in Deliveries, NEW u \in Urls, Reassembled(d, u)
  PROVE  ResolverInv'
<1> USE DEF ResolverInv
<1>1. pc' = pc /\ http' = http /\ resolvers' = resolvers /\ timers' = timers
  BY DEF Reassembled
<1>2. EarlyInv' /\ ResolverGuarded'
  BY <1>1 DEF EarlyInv, ResolverGuarded, Early, Armed
<1>3. DeliveryInv'
  <2> SUFFICES ASSUME NEW e \in Deliveries
               PROVE  DeliveryOK(delivery[e])'
    BY DEF DeliveryInv
  <2>1. CASE e = d
    <3>1. delivery'[d] = [at |-> "store", url |-> u, pending |-> resolvers[u]]
      BY DEF Reassembled, TypeOK
    <3>2. resolvers[u] # None => UrlOf[resolvers[u]] = u /\ ~Early(resolvers[u])
      BY DEF ResolverGuarded, Early
    <3> QED  BY <1>1, <2>1, <3>1, <3>2 DEF DeliveryOK, Early
  <2>2. CASE e # d
    <3>1. delivery'[e] = delivery[e] /\ DeliveryOK(delivery[e])
      BY <2>2 DEF Reassembled, TypeOK, DeliveryInv
    <3> QED  BY <1>1, <3>1 DEF DeliveryOK, Early
  <2> QED  BY <2>1, <2>2
<1> QED  BY <1>2, <1>3

\* Storing the asset takes the entry of its URL out of the map.
LEMMA DeliveryStoredResolver ==
  ASSUME ResolverInv, TypeOK', NEW d \in Deliveries, DeliveryStored(d)
  PROVE  ResolverInv'
<1> USE DEF ResolverInv
<1> DEFINE t == delivery[d]
<1>1. pc' = pc /\ http' = http /\ timers' = timers
  BY DEF DeliveryStored
<1>2. t \in Delivery /\ t.url \in Urls /\ t.pending \in Pending
  BY DeliveryType DEF TypeOK, DeliveryStored
<1>3. \A u \in Urls : resolvers'[u] = resolvers[u] \/ resolvers'[u] = None
  BY DEF DeliveryStored, TypeOK
<1>4. t.pending # None => resolvers'[t.url] = None
  BY <1>2 DEF DeliveryStored, TypeOK
<1>5. EarlyInv' /\ ResolverGuarded'
  <2>1. EarlyInv'
    BY <1>1 DEF EarlyInv, Early, Armed
  <2>2. ResolverGuarded'
    BY <1>1, <1>3 DEF ResolverGuarded, Armed
  <2> QED  BY <2>1, <2>2
<1>6. DeliveryInv'
  <2> SUFFICES ASSUME NEW e \in Deliveries
               PROVE  DeliveryOK(delivery[e])'
    BY DEF DeliveryInv
  <2>1. DeliveryOK(delivery[e]) /\ delivery[e] \in Delivery
    BY DEF DeliveryInv, TypeOK
  <2>2. CASE e = d
    <3>1. delivery'[d].url = t.url /\ delivery'[d].pending = t.pending
      BY <1>2 DEF DeliveryStored, TypeOK, Delivery
    <3> QED  BY <1>1, <1>4, <2>1, <2>2, <3>1 DEF DeliveryOK, Early
  <2>3. CASE e # d
    <3>1. delivery'[e] = delivery[e]
      BY <2>3 DEF DeliveryStored, TypeOK
    <3>2. delivery[e].pending # None => delivery[e].url \in Urls
      BY <2>1, DeliveryType
    <3> QED  BY <1>1, <1>3, <2>1, <3>1, <3>2 DEF DeliveryOK, Early
  <2> QED  BY <2>2, <2>3
<1> QED  BY <1>5, <1>6

\* The call a delivery resolves has no entry in the map any more.
LEMMA DeliveryResolvesResolver ==
  ASSUME ResolverInv, TypeOK', NEW d \in Deliveries, DeliveryResolves(d)
  PROVE  ResolverInv'
<1> USE DEF ResolverInv
<1>1. http' = http /\ timers' = timers /\ resolvers' = resolvers
  BY DEF DeliveryResolves
<1>2. delivery[d] \in Delivery /\ delivery[d].at = "url"
  BY DEF DeliveryResolves, TypeOK
<1>3. PICK c \in Calls : c = delivery[d].pending
  BY <1>2, DeliveryType
<1>4. UrlOf[c] = delivery[d].url /\ ~Early(c) /\ resolvers[UrlOf[c]] # c
  BY <1>2, <1>3 DEF DeliveryInv, DeliveryOK
<1>5. /\ \A k \in Calls \ {c} : pc'[k] = pc[k]
      /\ \A k \in Calls : (Early(k))' => Early(k)
  <2>1. Resolve(c)
    BY <1>3 DEF DeliveryResolves
  <2>2. (\A k \in Calls \ {c} : pc'[k] = pc[k]) /\ ((Early(c))' => Early(c))
    BY <1>3, <2>1, ResolvePlaces
  <2> QED  BY <2>2 DEF Early
<1>6. \A e \in Deliveries : /\ delivery'[e].url = delivery[e].url
                            /\ delivery'[e].pending = delivery[e].pending
                            /\ delivery'[e].at = "url" => delivery[e].at = "url"
  BY <1>2 DEF DeliveryResolves, TypeOK, Delivery, Idle
<1>7. EarlyInv'
  BY <1>1, <1>5 DEF EarlyInv, Armed
<1>8. ResolverGuarded'
  <2> SUFFICES ASSUME NEW u \in Urls, NEW k, k = resolvers'[u], k # None
               PROVE  UrlOf[k] = u /\ pc'[k] = "p2p" /\ http'[k] = "idle" /\ (Armed(k))'
    BY DEF ResolverGuarded, Armed
  <2>1. k \in Calls /\ UrlOf[k] = u /\ pc[k] = "p2p" /\ http[k] = "idle" /\ Armed(k)
    BY <1>1 DEF TypeOK, Pending, ResolverGuarded
  <2>2. k # c
    BY <1>1, <1>4, <2>1
  <2> QED  BY <1>1, <1>5, <2>1, <2>2 DEF Armed
<1>9. DeliveryInv'
  <2> SUFFICES ASSUME NEW e \in Deliveries
               PROVE  DeliveryOK(delivery[e])'
    BY DEF DeliveryInv
  <2>1. DeliveryOK(delivery[e]) /\ delivery[e] \in Delivery
    BY DEF DeliveryInv, TypeOK
  <2>2. PICK k \in Pending : k = delivery[e].pending
    BY <2>1, DeliveryType
  <2>3. k # None => ~Early(k) /\ ~(Early(k))'
    BY <1>5, <2>1, <2>2 DEF DeliveryOK, Pending
  <2>4. k # None => /\ UrlOf[k] = delivery[e].url
                    /\ delivery[e].at = "url" => resolvers[delivery[e].url] # k
    BY <2>1, <2>2 DEF DeliveryOK
  <2>5. /\ delivery'[e].pending = k /\ delivery'[e].url = delivery[e].url
        /\ delivery'[e].at = "url" => delivery[e].at = "url"
    BY <1>6, <2>2
  <2> HIDE DEF ResolverInv
  <2> QED  BY <1>1, <2>3, <2>4, <2>5 DEF DeliveryOK, Early
<1> QED  BY <1>7, <1>8, <1>9

\* destroy empties the map.
LEMMA DestroyResolver ==
  ASSUME ResolverInv, TypeOK', destroy
  PROVE  ResolverInv'
<1> USE DEF ResolverInv
<1>1. /\ pc' = pc /\ http' = http /\ timers' = timers /\ delivery' = delivery
      /\ \A u \in Urls : resolvers'[u] = None
  BY DEF destroy
<1>2. EarlyInv' /\ ResolverGuarded'
  BY <1>1 DEF EarlyInv, ResolverGuarded, Early, Armed
<1>3. DeliveryInv'
  <2> SUFFICES ASSUME NEW e \in Deliveries
               PROVE  DeliveryOK(delivery[e])'
    BY DEF DeliveryInv
  <2>1. DeliveryOK(delivery[e]) /\ delivery[e] \in Delivery
    BY DEF DeliveryInv, TypeOK
  <2>2. delivery[e].pending # None => delivery[e].url \in Urls
    BY <2>1, DeliveryType
  <2> QED  BY <1>1, <2>1, <2>2 DEF DeliveryOK, Early
<1> QED  BY <1>2, <1>3

LEMMA ResolverStep == ResolverInv /\ [Next]_vars => ResolverInv'
<1> SUFFICES ASSUME ResolverInv, [Next]_vars PROVE ResolverInv'
  OBVIOUS
<1>1. TypeOK /\ TypeOK'
  BY TypeStep DEF ResolverInv
<1> DEFINE Kept == UNCHANGED <<resolvers, timers, delivery>>
           Waiting(c) == pc[c] = "p2p" /\ http[c] = "idle"
<1>2. ASSUME Kept,
             \A c \in Calls : /\ (Early(c))' => Early(c) /\ http'[c] = http[c]
                              /\ Waiting(c) => pc'[c] = "p2p" /\ http'[c] = "idle"
      PROVE  ResolverInv'
  BY <1>1, <1>2, PlacesOnly
<1>3. ASSUME NEW c \in Calls, BlobHit(c) PROVE ResolverInv'
  BY <1>1, <1>2, <1>3, GotoPlaces DEF BlobHit, Early
<1>4. ASSUME NEW c \in Calls, UrlHit(c) PROVE ResolverInv'
  BY <1>1, <1>2, <1>4, GotoPlaces DEF UrlHit, Early
<1>5. ASSUME NEW c \in Calls, Lookup(c) PROVE ResolverInv'
  BY <1>1, <1>2, <1>5, GotoPlaces DEF Lookup, Early
<1>6. ASSUME NEW c \in Calls, CallStep(c) PROVE ResolverInv'
  <2>1. CASE LookupHit(c)
    BY <1>1, <1>2, <2>1, ResolvePlaces DEF LookupHit, Early
  <2>2. CASE LookupMiss(c)
    BY <1>1, <1>2, <2>2, GotoPlaces DEF LookupMiss, Early
  <2>3. CASE ConnectFails(c)
    BY <1>1, <1>2, <2>3, GotoPlaces DEF ConnectFails, Early
  <2>4. CASE Connected(c)
    BY <1>1, <1>2, <2>4, GotoPlaces DEF Connected, Early
  <2>5. CASE AskPeers(c)
    BY <1>1, <2>5, AskPeersResolver
  <2>6. CASE NoPeers(c)
    <3>1. /\ pc[c] = "wait" /\ pc'[c] = "http"
          /\ \A k \in Calls \ {c} : pc'[k] = pc[k] /\ http'[k] = http[k]
      BY <1>1, <2>6, GotoPlaces DEF NoPeers, TypeOK
    <3> QED  BY <1>2, <2>6, <3>1 DEF NoPeers, Early
  <2>7. CASE Reread(c)
    BY <1>1, <1>2, <2>7, GotoPlaces DEF Reread, Early
  <2> QED  BY <1>6, <2>1, <2>2, <2>3, <2>4, <2>5, <2>6, <2>7 DEF CallStep
<1>7. ASSUME NEW c \in Calls, HttpStep(c) PROVE ResolverInv'
  <2>1. http[c] # "idle" /\ ~Early(c) /\ \A k \in Calls \ {c} : http'[k] = http[k]
    BY <1>1, <1>7 DEF HttpStep, FetchFails, Fetched, HttpStored, HttpResolves,
                      ResolverInv, EarlyInv, TypeOK
  <2>2. Kept /\ \A k \in Calls \ {c} : pc'[k] = pc[k]
    BY <1>1, <1>7, ResolvePlaces DEF HttpStep, FetchFails, Fetched, HttpStored, HttpResolves,
                                     TypeOK
  <2>3. ~(Early(c))'
    BY <1>1, <1>7, <2>1, ResolvePlaces DEF HttpStep, FetchFails, Fetched, HttpStored,
                                           HttpResolves, TypeOK, Early
  <2> QED  BY <1>2, <2>1, <2>2, <2>3 DEF Early
<1>8. ASSUME TimerFires PROVE ResolverInv'
  BY <1>1, <1>8, TimerFiresResolver
<1>9. ASSUME NEW d \in Deliveries, NEW u \in Urls, Reassembled(d, u) PROVE ResolverInv'
  BY <1>1, <1>9, ReassembledResolver
<1>10. ASSUME NEW d \in Deliveries, DeliveryStep(d) PROVE ResolverInv'
  BY <1>1, <1>10, DeliveryStoredResolver, DeliveryResolvesResolver DEF DeliveryStep
<1>11. ASSUME \/ \E u \in Urls : Evict(u)
              \/ clearCache \/ StoreCleared \/ UNCHANGED vars
       PROVE  ResolverInv'
  <2>1. UNCHANGED <<pc, http, resolvers, timers, delivery>>
    BY <1>11 DEF Evict, clearCache, StoreCleared, vars
  <2> QED  BY <1>2, <2>1 DEF Early
<1>12. ASSUME destroy PROVE ResolverInv'
  BY <1>1, <1>12, DestroyResolver
<1> QED  BY <1>3, <1>4, <1>5, <1>6, <1>7, <1>8, <1>9, <1>10, <1>11, <1>12 DEF Next

\* No entry of assetResolvers outlives its timer, and none is for a call that is settled,
\* falling back, or of another URL, for any number of calls, URLs and deliveries.
THEOREM ResolversGuarded == Spec => []ResolverGuarded
<1>1. ResolverInv => ResolverGuarded
  BY DEF ResolverInv
<1> QED  BY <1>1, ResolverInit, ResolverStep, PTL DEF Spec

------------------------------------------------------------------------------
(* Calls that wait for the swarm *)

Answering == {"fetch", "store", "url", "failed"}

\* A step keeps the waiting calls in somebody's hands if it takes none out of them but to
\* put it in others' or to mark it as overtaken.
HandsKept(c) ==
  pc'[c] = "p2p" =>
    /\ pc[c] = "p2p"
    /\ resolvers[UrlOf[c]] = c =>
         \/ resolvers'[UrlOf[c]] = c
         \/ \E d \in Deliveries : (Waited(d, c))'
         \/ http'[c] \in Answering
         \/ c \in overtaken'
    /\ \A d \in Deliveries : Waited(d, c) => (Waited(d, c))'
    /\ http[c] \in Answering => http'[c] \in Answering
    /\ c \in overtaken => c \in overtaken'

LEMMA HandsStep ==
  ASSUME WaitingInSomeHands, NEW C \in SUBSET Calls,
         \A c \in C : HandsKept(c),
         \A c \in Calls \ C : pc'[c] = "p2p" => resolvers'[UrlOf[c]] = c
  PROVE  WaitingInSomeHands'
BY DEF WaitingInSomeHands, HandsKept, Answering

\* A step that leaves the entries, the deliveries and the overtaken alone.
LEMMA HandsPlaces ==
  ASSUME WaitingInSomeHands, UNCHANGED <<resolvers, delivery, overtaken>>,
         \A c \in Calls :
           pc'[c] = "p2p" => /\ pc[c] = "p2p"
                             /\ http[c] \in Answering => http'[c] \in Answering
  PROVE  WaitingInSomeHands'
<1>1. \A c \in Calls, d \in Deliveries : Waited(d, c) => (Waited(d, c))'
  BY DEF Waited
<1> QED  BY <1>1 DEF WaitingInSomeHands, Answering

\* Asking the swarm takes an entry over, and says so.
LEMMA AskPeersHands ==
  ASSUME TypeOK, WaitingInSomeHands, NEW c \in Calls, AskPeers(c)
  PROVE  WaitingInSomeHands'
<1>1. /\ http' = http /\ delivery' = delivery
      /\ \A k \in Calls \ {c} : pc'[k] = pc[k]
  BY GotoPlaces DEF AskPeers
<1>2. /\ \A u \in Urls \ {UrlOf[c]} : resolvers'[u] = resolvers[u]
      /\ resolvers'[UrlOf[c]] = c /\ UrlOf[c] \in Urls
  BY DEF AskPeers, TypeOK
<1>3. overtaken' = overtaken \cup ({resolvers[UrlOf[c]]} \ {None, c})
  BY DEF AskPeers, Overtake
<1>4. ASSUME NEW k \in Calls \ {c} PROVE HandsKept(k)
  <2>1. pc'[k] = pc[k] /\ http'[k] = http[k] /\ UrlOf[k] \in Urls
    BY <1>1
  <2>2. \A d \in Deliveries : Waited(d, k) => (Waited(d, k))'
    BY <1>1 DEF Waited
  <2>3. resolvers[UrlOf[k]] = k => resolvers'[UrlOf[k]] = k \/ k \in overtaken'
    BY <1>2, <1>3, <2>1
  <2> QED  BY <1>3, <2>1, <2>2, <2>3 DEF HandsKept
<1>5. \A k \in Calls \ (Calls \ {c}) : resolvers'[UrlOf[k]] = k
  BY <1>2
<1> QED  BY <1>4, <1>5, HandsStep

\* The timer of a call takes the entry of its URL: its own call falls back, any other is
\* overtaken.
LEMMA TimerFiresHands ==
  ASSUME TypeOK, WaitingInSomeHands, TimerFires
  PROVE  WaitingInSomeHands'
<1> DEFINE c == Head(timers)
<1>1. c \in Calls /\ UrlOf[c] \in Urls
  BY DEF TimerFires, TypeOK
<1>2. \/ UNCHANGED <<resolvers, http, overtaken>>
      \/ /\ resolvers' = [resolvers EXCEPT ![UrlOf[c]] = None]
         /\ overtaken' = overtaken \cup ({resolvers[UrlOf[c]]} \ {None, c})
         /\ http' = [http EXCEPT ![c] = "fetch"]
  BY DEF TimerFires, Overtake
<1>3. pc' = pc /\ delivery' = delivery
  BY DEF TimerFires
<1> HIDE DEF c
<1>4. ASSUME NEW k \in Calls PROVE HandsKept(k)
  <2>1. resolvers[UrlOf[k]] = k =>
          resolvers'[UrlOf[k]] = k \/ http'[k] \in Answering \/ k \in overtaken'
    BY <1>1, <1>2 DEF TypeOK, Answering
  <2>2. http[k] \in Answering => http'[k] \in Answering
    BY <1>1, <1>2 DEF TypeOK, Answering
  <2>3. k \in overtaken => k \in overtaken'
    BY <1>2
  <2>4. \A d \in Deliveries : Waited(d, k) => (Waited(d, k))'
    BY <1>3 DEF Waited
  <2> QED  BY <1>3, <2>1, <2>2, <2>3, <2>4 DEF HandsKept
<1> QED  BY <1>4, HandsStep

\* An asset that is stored takes the entry of its URL: the call it resolves is in its
\* hands, any other is overtaken.
LEMMA DeliveryStoredHands ==
  ASSUME TypeOK, WaitingInSomeHands, NEW d \in Deliveries, DeliveryStored(d)
  PROVE  WaitingInSomeHands'
<1> DEFINE t == delivery[d]
<1>1. t \in Delivery /\ t.at = "store" /\ t.url \in Urls /\ t.pending \in Pending
  BY DeliveryType DEF TypeOK, DeliveryStored
<1>2. /\ \A e \in Deliveries \ {d} : delivery'[e] = delivery[e]
      /\ delivery'[d].pending = t.pending
      /\ t.pending # None => delivery'[d].at = "url"
  BY <1>1 DEF DeliveryStored, TypeOK, Delivery, Idle
<1>3. \/ t.pending = None /\ UNCHANGED <<resolvers, overtaken>>
      \/ /\ t.pending # None
         /\ resolvers' = [resolvers EXCEPT ![t.url] = None]
         /\ overtaken' = overtaken \cup ({resolvers[t.url]} \ {None, t.pending})
  BY DEF DeliveryStored, Overtake
<1>4. pc' = pc /\ http' = http
  BY DEF DeliveryStored
<1>5. ASSUME NEW k \in Calls PROVE HandsKept(k)
  <2>1. \A e \in Deliveries : Waited(e, k) => (Waited(e, k))'
    BY <1>1, <1>2 DEF Waited
  <2>2. t.pending = k => (Waited(d, k))'
    BY <1>2 DEF Waited
  <2>3. resolvers[UrlOf[k]] = k =>
          resolvers'[UrlOf[k]] = k \/ t.pending = k \/ k \in overtaken'
    BY <1>1, <1>3 DEF TypeOK
  <2> QED  BY <1>3, <1>4, <2>1, <2>2, <2>3 DEF HandsKept
<1> QED  BY <1>5, HandsStep

\* The call a delivery resolves waits no more.
LEMMA DeliveryResolvesHands ==
  ASSUME TypeOK, WaitingInSomeHands, NEW d \in Deliveries, DeliveryResolves(d)
  PROVE  WaitingInSomeHands'
<1>1. PICK c \in Calls : c = delivery[d].pending
  BY DeliveryType DEF DeliveryResolves, TypeOK
<1>2. /\ pc'[c] # "p2p" /\ \A k \in Calls \ {c} : pc'[k] = pc[k]
      /\ UNCHANGED <<http, resolvers, overtaken>>
      /\ \A e \in Deliveries \ {d} : delivery'[e] = delivery[e]
  BY <1>1 DEF DeliveryResolves, Resolve, TypeOK
<1>3. ASSUME NEW k \in Calls PROVE HandsKept(k)
  <2>1. k # c => \A e \in Deliveries : Waited(e, k) => (Waited(e, k))'
    BY <1>1, <1>2 DEF Waited
  <2> QED  BY <1>2, <2>1 DEF HandsKept
<1> QED  BY <1>3, HandsStep

LEMMA HandsInv == TypeOK /\ WaitingInSomeHands /\ [Next]_vars => WaitingInSomeHands'
<1> SUFFICES ASSUME TypeOK, WaitingInSomeHands, [Next]_vars PROVE WaitingInSomeHands'
  OBVIOUS
<1>1. ASSUME NEW c \in Calls, BlobHit(c) \/ UrlHit(c) \/ Lookup(c)
      PROVE  WaitingInSomeHands'
  <2>1. /\ UNCHANGED <<http, resolvers, delivery, overtaken>>
        /\ pc'[c] # "p2p" /\ \A k \in Calls \ {c} : pc'[k] = pc[k]
    BY <1>1, GotoPlaces DEF BlobHit, UrlHit, Lookup
  <2> QED  BY <2>1, HandsPlaces
<1>2. ASSUME NEW c \in Calls, CallStep(c) PROVE WaitingInSomeHands'
  <2>1. CASE AskPeers(c)
    BY <2>1, AskPeersHands
  <2>2. CASE LookupHit(c)
    <3>1. /\ UNCHANGED <<http, resolvers, delivery, overtaken>>
          /\ pc'[c] # "p2p" /\ \A k \in Calls \ {c} : pc'[k] = pc[k]
      BY <2>2 DEF LookupHit, Resolve, TypeOK
    <3> QED  BY <3>1, HandsPlaces
  <2>3. CASE LookupMiss(c) \/ ConnectFails(c) \/ Connected(c) \/ Reread(c)
    <3>1. /\ UNCHANGED <<http, resolvers, delivery, overtaken>>
          /\ pc'[c] # "p2p" /\ \A k \in Calls \ {c} : pc'[k] = pc[k]
      BY <2>3, GotoPlaces DEF LookupMiss, ConnectFails, Connected, Reread
    <3> QED  BY <3>1, HandsPlaces
  <2>4. CASE NoPeers(c)
    <3>1. /\ UNCHANGED <<resolvers, delivery, overtaken>> /\ pc'[c] # "p2p"
          /\ \A k \in Calls \ {c} : pc'[k] = pc[k] /\ http'[k] = http[k]
      BY <2>4, GotoPlaces DEF NoPeers, TypeOK
    <3> QED  BY <3>1, HandsPlaces
  <2> QED  BY <1>2, <2>1, <2>2, <2>3, <2>4 DEF CallStep
<1>3. ASSUME NEW c \in Calls, HttpStep(c) PROVE WaitingInSomeHands'
  <2>1. /\ UNCHANGED <<resolvers, delivery, overtaken>>
        /\ \A k \in Calls \ {c} : pc'[k] = pc[k] /\ http'[k] = http[k]
    BY <1>3 DEF HttpStep, FetchFails, Fetched, HttpStored, HttpResolves, Resolve, TypeOK
  <2>2. pc'[c] = "p2p" => pc[c] = "p2p" /\ http'[c] \in Answering
    BY <1>3 DEF HttpStep, FetchFails, Fetched, HttpStored, HttpResolves, Resolve, TypeOK,
                Answering
  <2> QED  BY <2>1, <2>2, HandsPlaces
<1>4. ASSUME TimerFires PROVE WaitingInSomeHands'
  BY <1>4, TimerFiresHands
<1>5. ASSUME NEW d \in Deliveries, NEW u \in Urls, Reassembled(d, u)
      PROVE  WaitingInSomeHands'
  <2>1. /\ UNCHANGED <<pc, http, resolvers, overtaken>> /\ delivery[d].at = "idle"
        /\ \A e \in Deliveries \ {d} : delivery'[e] = delivery[e]
    BY <1>5 DEF Reassembled, TypeOK, Idle
  <2>2. \A c \in Calls, e \in Deliveries : Waited(e, c) => (Waited(e, c))'
    BY <2>1 DEF Waited
  <2>3. \A c \in Calls : HandsKept(c)
    BY <2>1, <2>2 DEF HandsKept
  <2> QED  BY <2>3, HandsStep
<1>6. ASSUME NEW d \in Deliveries, DeliveryStep(d) PROVE WaitingInSomeHands'
  BY <1>6, DeliveryStoredHands, DeliveryResolvesHands DEF DeliveryStep
<1>7. ASSUME \/ \E u \in Urls : Evict(u)
             \/ clearCache \/ StoreCleared \/ UNCHANGED vars
      PROVE  WaitingInSomeHands'
  <2>1. UNCHANGED <<pc, http, resolvers, delivery, overtaken>>
    BY <1>7 DEF Evict, clearCache, StoreCleared, vars
  <2> QED  BY <2>1, HandsPlaces
<1>8. ASSUME destroy PROVE WaitingInSomeHands'
  <2>1. /\ UNCHANGED <<pc, http, delivery>>
        /\ overtaken' = overtaken \cup ({resolvers[u] : u \in Urls} \ {None})
    BY <1>8 DEF destroy
  <2>2. \A c \in Calls, d \in Deliveries : Waited(d, c) => (Waited(d, c))'
    BY <2>1 DEF Waited
  <2>3. \A c \in Calls : resolvers[UrlOf[c]] = c => c \in overtaken'
    BY <2>1
  <2>4. \A c \in Calls : HandsKept(c)
    BY <2>1, <2>2, <2>3 DEF HandsKept
  <2> QED  BY <2>4, HandsStep
<1> QED  BY <1>1, <1>2, <1>3, <1>4, <1>5, <1>6, <1>7, <1>8 DEF Next

\* Whatever calls, timers, deliveries and destroy interleave, a call that waits for the
\* swarm and was not overtaken has a resolver in the map, an asset on its way to it or a
\* fallback of its own: none is forgotten in another way.
THEOREM NoOtherCallIsForgotten == Spec => []WaitingInSomeHands
<1>1. Init => WaitingInSomeHands
  BY DEF Init, WaitingInSomeHands
<1> QED  BY <1>1, TypeInit, TypeStep, HandsInv, PTL DEF Spec

------------------------------------------------------------------------------
(* The cache *)

\* What was put in the cache is in the store or among the losses.
Accounted == store \cup lost

\* The invariant behind BlobMissingOnlyIfLost: whatever is promised, registered or about
\* to be promised is accounted for.
CacheInv ==
  /\ objectUrls \subseteq Accounted
  /\ \A c \in Calls : http[c] = "url" \/ pc[c] = "reread" => UrlOf[c] \in Accounted
  /\ \A d \in Deliveries : delivery[d].at = "url" => delivery[d].url \in Accounted

LEMMA CacheInit == Init => CacheInv
BY DEF Init, CacheInv, Accounted, Idle

\* A step that leaves the cache alone keeps the invariant if what it newly promises is
\* accounted for.
LEMMA CacheKept ==
  ASSUME CacheInv, UNCHANGED cache,
         \A c \in Calls :
           /\ http'[c] = "url" => http[c] = "url"
           /\ pc'[c] = "reread" => pc[c] = "reread" \/ UrlOf[c] \in Accounted,
         \A d \in Deliveries :
           delivery'[d].at = "url" => delivery[d].at = "url" /\ delivery'[d].url = delivery[d].url
  PROVE  CacheInv'
BY DEF CacheInv, Accounted, cache

\* Registering an object URL for a blob that is there, or none.
Registers(u) ==
  /\ objectUrls' = objectUrls \/ (u \in store /\ objectUrls' = objectUrls \cup {u})
  /\ UNCHANGED <<store, clearing, lost>>

\* Storing, registering, evicting and clearing keep what is accounted for accounted for.
LEMMA AccountedGrows ==
  ASSUME TypeOK, CacheInv, NEW u \in Urls,
         \/ StorePut(u)
         \/ Registers(u)
         \/ Evict(u)
         \/ BeginClear
         \/ StoreCleared
  PROVE  /\ Accounted \subseteq Accounted'
         /\ (objectUrls \subseteq Accounted)'
         /\ StorePut(u) => u \in Accounted'
<1>1. StorePut(u) => u \in Accounted'
  BY DEF StorePut, Accounted
<1>2. CASE StorePut(u)
  BY <1>1, <1>2 DEF StorePut, TypeOK, CacheInv, Accounted
<1>3. CASE Registers(u)
  BY <1>1, <1>3 DEF Registers, TypeOK, CacheInv, Accounted
<1>4. CASE Evict(u)
  BY <1>1, <1>4 DEF Evict, TypeOK, CacheInv, Accounted
<1>5. CASE BeginClear
  BY <1>1, <1>5 DEF BeginClear, TypeOK, CacheInv, Accounted
<1>6. CASE StoreCleared
  BY <1>1, <1>6 DEF StoreCleared, TypeOK, CacheInv, Accounted
<1> QED  BY <1>2, <1>3, <1>4, <1>5, <1>6

LEMMA RegisterUrlRegisters ==
  ASSUME NEW u, RegisterUrl(u)
  PROVE  Registers(u)
BY DEF RegisterUrl, Registers, Finds

LEMMA CacheStep == ResolverInv /\ CacheInv /\ [Next]_vars => CacheInv'
<1> SUFFICES ASSUME ResolverInv, CacheInv, [Next]_vars PROVE CacheInv'
  OBVIOUS
<1>1. TypeOK /\ TypeOK'
  BY TypeStep DEF ResolverInv
<1> DEFINE Grows == Accounted \subseteq Accounted' /\ (objectUrls \subseteq Accounted)'
\* Steps that leave the cache alone.
<1>2. ASSUME NEW c \in Calls, BlobHit(c) PROVE CacheInv'
  BY <1>1, <1>2, CacheKept, GotoPlaces DEF BlobHit
<1>3. ASSUME NEW c \in Calls, UrlHit(c) PROVE CacheInv'
  <2>1. UrlOf[c] \in Accounted
    BY <1>3 DEF UrlHit, CacheInv
  <2> QED  BY <1>1, <1>3, <2>1, CacheKept, GotoPlaces DEF UrlHit
<1>4. ASSUME NEW c \in Calls, Lookup(c) PROVE CacheInv'
  BY <1>1, <1>4, CacheKept, GotoPlaces DEF Lookup
<1>5. ASSUME NEW c \in Calls, CallStep(c), ~LookupHit(c) PROVE CacheInv'
  <2>1. CASE LookupMiss(c)
    BY <1>1, <2>1, CacheKept, GotoPlaces DEF LookupMiss
  <2>2. CASE ConnectFails(c)
    BY <1>1, <2>2, CacheKept, GotoPlaces DEF ConnectFails
  <2>3. CASE Connected(c)
    BY <1>1, <2>3, CacheKept, GotoPlaces DEF Connected
  <2>4. CASE AskPeers(c)
    BY <1>1, <2>4, CacheKept, GotoPlaces DEF AskPeers
  <2>5. CASE NoPeers(c)
    <3>1. pc'[c] = "http" /\ http'[c] = "fetch"
          /\ \A k \in Calls \ {c} : pc'[k] = pc[k] /\ http'[k] = http[k]
      BY <1>1, <2>5, GotoPlaces DEF NoPeers, TypeOK
    <3> QED  BY <2>5, <3>1, CacheKept DEF NoPeers
  <2>6. CASE Reread(c)
    <3>1. /\ pc'[c] # "reread" /\ \A k \in Calls \ {c} : pc'[k] = pc[k]
          /\ UNCHANGED <<http, delivery, cache>>
      BY <1>1, <2>6, GotoPlaces DEF Reread
    <3> QED  BY <3>1, CacheKept
  <2> QED  BY <1>5, <2>1, <2>2, <2>3, <2>4, <2>5, <2>6 DEF CallStep
<1>6. ASSUME TimerFires PROVE CacheInv'
  <2>1. Head(timers) \in Calls
    BY <1>1, <1>6 DEF TimerFires, TypeOK
  <2>2. \A c \in Calls : http'[c] = "url" => http[c] = "url"
    BY <1>1, <1>6, <2>1 DEF TimerFires, TypeOK
  <2>3. UNCHANGED <<pc, delivery, cache>>
    BY <1>6 DEF TimerFires
  <2> QED  BY <2>2, <2>3, CacheKept
<1>7. ASSUME NEW d \in Deliveries, NEW u \in Urls, Reassembled(d, u) PROVE CacheInv'
  <2>1. delivery'[d].at = "store" /\ \A e \in Deliveries \ {d} : delivery'[e] = delivery[e]
    BY <1>1, <1>7 DEF Reassembled, TypeOK
  <2> QED  BY <1>7, <2>1, CacheKept DEF Reassembled
<1>8. ASSUME UNCHANGED vars PROVE CacheInv'
  BY <1>8, CacheKept DEF vars
\* Steps of the cache.
<1>9. ASSUME NEW c \in Calls, LookupHit(c) PROVE CacheInv'
  <2>1. UrlOf[c] \in Urls /\ UrlOf[c] \in Accounted /\ Registers(UrlOf[c])
    BY <1>1, <1>9 DEF LookupHit, Accounted, Finds, Registers
  <2>2. Grows
    BY <1>1, <2>1, AccountedGrows
  <2>3. \A k \in Calls \ {c} : pc'[k] = pc[k]
    BY <1>1, <1>9 DEF LookupHit, Resolve, TypeOK
  <2>4. UNCHANGED <<http, delivery>>
    BY <1>9 DEF LookupHit
  <2> QED  BY <2>1, <2>2, <2>3, <2>4 DEF CacheInv
<1>10. ASSUME NEW c \in Calls, HttpStep(c) PROVE CacheInv'
  <2> UrlOf[c] \in Urls
    BY <1>1
  <2>1. CASE FetchFails(c)
    BY <1>1, <2>1, CacheKept DEF FetchFails, TypeOK
  <2>2. CASE Fetched(c)
    BY <1>1, <2>2, CacheKept DEF Fetched, TypeOK
  <2>3. CASE HttpStored(c)
    <3>1. Grows /\ UrlOf[c] \in Accounted'
      BY <1>1, <2>3, AccountedGrows DEF HttpStored
    <3>2. UNCHANGED <<pc, delivery>> /\ \A k \in Calls \ {c} : http'[k] = http[k]
      BY <1>1, <2>3 DEF HttpStored, TypeOK
    <3> QED  BY <3>1, <3>2 DEF CacheInv
  <2>4. CASE HttpResolves(c)
    <3>1. Grows /\ UrlOf[c] \in Accounted
      BY <1>1, <2>4, AccountedGrows, RegisterUrlRegisters DEF HttpResolves, CacheInv
    <3>2. /\ \A k \in Calls \ {c} : pc'[k] = pc[k] /\ http'[k] = http[k]
          /\ UNCHANGED delivery
      BY <1>1, <2>4 DEF HttpResolves, Resolve, TypeOK
    <3> QED  BY <3>1, <3>2 DEF CacheInv
  <2> QED  BY <1>10, <2>1, <2>2, <2>3, <2>4 DEF HttpStep
<1>11. ASSUME NEW d \in Deliveries, DeliveryStep(d) PROVE CacheInv'
  <2>1. delivery[d] \in Delivery
    BY <1>1 DEF TypeOK
  <2>2. CASE DeliveryStored(d)
    <3>1. delivery[d].url \in Urls
      BY <2>1, <2>2, DeliveryType DEF DeliveryStored
    <3>2. Grows /\ delivery[d].url \in Accounted'
      BY <1>1, <2>2, <3>1, AccountedGrows DEF DeliveryStored
    <3>3. /\ \A e \in Deliveries \ {d} : delivery'[e] = delivery[e]
          /\ delivery'[d].url = delivery[d].url
      BY <1>1, <2>1, <2>2 DEF DeliveryStored, TypeOK, Delivery, Idle
    <3>4. UNCHANGED <<pc, http>>
      BY <2>2 DEF DeliveryStored
    <3> QED  BY <3>2, <3>3, <3>4 DEF CacheInv
  <2>3. CASE DeliveryResolves(d)
    <3>1. PICK c \in Calls : c = delivery[d].pending
      BY <2>1, <2>3, DeliveryType DEF DeliveryResolves
    <3>2. delivery[d].url \in Urls /\ delivery[d].at = "url" /\ c # None
      BY <2>1, <2>3, DeliveryType DEF DeliveryResolves
    <3>3. Grows
      BY <1>1, <2>3, <3>2, AccountedGrows, RegisterUrlRegisters DEF DeliveryResolves
    <3>4. UrlOf[c] \in Accounted
      BY <3>1, <3>2 DEF ResolverInv, DeliveryInv, DeliveryOK, CacheInv
    <3>5. UNCHANGED http /\ \A k \in Calls \ {c} : pc'[k] = pc[k]
      BY <1>1, <2>3, <3>1 DEF DeliveryResolves, Resolve, TypeOK
    <3>6. /\ \A e \in Deliveries \ {d} : delivery'[e] = delivery[e]
          /\ delivery'[d].at = "done"
      BY <1>1, <2>1, <2>3 DEF DeliveryResolves, TypeOK, Delivery, Idle
    <3> QED  BY <3>3, <3>4, <3>5, <3>6 DEF CacheInv
  <2> QED  BY <1>11, <2>2, <2>3 DEF DeliveryStep
<1>12. ASSUME NEW u \in Urls, Evict(u) \/ clearCache \/ StoreCleared \/ destroy
       PROVE  CacheInv'
  <2>1. Grows
    BY <1>1, <1>12, AccountedGrows DEF clearCache, destroy
  <2>2. UNCHANGED <<pc, http, delivery>>
    BY <1>12 DEF Evict, clearCache, StoreCleared, destroy
  <2> QED  BY <2>1, <2>2 DEF CacheInv
<1>13. ASSUME clearCache \/ StoreCleared \/ destroy, Urls = {} PROVE CacheInv'
  BY <1>1, <1>13 DEF clearCache, StoreCleared, destroy, BeginClear, CacheInv, Accounted, TypeOK
<1> QED  BY <1>2, <1>3, <1>4, <1>5, <1>6, <1>7, <1>8, <1>9, <1>10, <1>11, <1>12, <1>13
         DEF Next

\* Only requestAssetBlob's second read makes a call throw for want of its blob.
LEMMA MissingByReread ==
  ASSUME TypeOK, Next, NEW c \in Calls, pc[c] # "missing", pc'[c] = "missing"
  PROVE  pc[c] = "reread"
<1>1. ASSUME NEW k \in Calls, Resolve(k) PROVE FALSE
  BY <1>1 DEF TypeOK, Resolve
<1>2. ASSUME NEW k \in Calls, NEW place, Goto(k, place), place # "missing" PROVE FALSE
  BY <1>2, GotoPlaces
<1>3. pc' # pc
  OBVIOUS
<1>4. ASSUME NEW k \in Calls, BlobHit(k) \/ UrlHit(k) \/ Lookup(k) PROVE FALSE
  BY <1>2, <1>4 DEF BlobHit, UrlHit, Lookup
<1>5. ASSUME NEW k \in Calls, CallStep(k) PROVE pc[c] = "reread"
  <2>1. CASE Reread(k)
    BY <2>1, GotoPlaces DEF Reread
  <2>2. CASE LookupHit(k)
    BY <1>1, <2>2 DEF LookupHit
  <2>3. CASE LookupMiss(k) \/ ConnectFails(k) \/ Connected(k) \/ AskPeers(k) \/ NoPeers(k)
    BY <1>2, <2>3 DEF LookupMiss, ConnectFails, Connected, AskPeers, NoPeers
  <2> QED  BY <1>5, <2>1, <2>2, <2>3 DEF CallStep
<1>6. ASSUME NEW k \in Calls, HttpStep(k) PROVE FALSE
  <2>1. CASE FetchFails(k)
    BY <2>1 DEF FetchFails, TypeOK
  <2>2. CASE Fetched(k) \/ HttpStored(k)
    BY <1>3, <2>2 DEF Fetched, HttpStored
  <2>3. CASE HttpResolves(k)
    BY <1>1, <2>3 DEF HttpResolves
  <2> QED  BY <1>6, <2>1, <2>2, <2>3 DEF HttpStep
<1>7. ASSUME NEW d \in Deliveries, DeliveryStep(d) PROVE FALSE
  <2>1. CASE DeliveryStored(d)
    BY <1>3, <2>1 DEF DeliveryStored
  <2>2. CASE DeliveryResolves(d)
    <3>1. delivery[d].pending \in Calls /\ Resolve(delivery[d].pending)
      BY <2>2, DeliveryType DEF DeliveryResolves, TypeOK
    <3> QED  BY <1>1, <3>1
  <2> QED  BY <1>7, <2>1, <2>2 DEF DeliveryStep
<1>8. ASSUME \/ TimerFires
             \/ \E d \in Deliveries, u \in Urls : Reassembled(d, u)
             \/ \E u \in Urls : Evict(u)
             \/ clearCache \/ StoreCleared \/ destroy
      PROVE  FALSE
  BY <1>3, <1>8 DEF TimerFires, Reassembled, Evict, clearCache, StoreCleared, destroy
<1> QED  BY <1>4, <1>5, <1>6, <1>7, <1>8 DEF Next

\* A call of requestAssetBlob whose asset was promised fails to find the blob only if the
\* cache refused or lost it, or holds it and fails to read it, for any number of calls, URLs
\* and deliveries.
THEOREM MissingOnlyIfLost == Spec => BlobMissingOnlyIfLost
<1> DEFINE Accountable ==
  \A c \in Calls : pc[c] # "missing" /\ pc'[c] = "missing" =>
    UrlOf[c] \in lost \/ UrlOf[c] \in store
<1>1. ResolverInv /\ CacheInv /\ [Next]_vars => [Accountable]_vars
  <2> SUFFICES ASSUME ResolverInv, CacheInv, Next,
                      NEW c \in Calls, pc[c] # "missing", pc'[c] = "missing"
               PROVE  UrlOf[c] \in Accounted
    BY DEF Accounted
  <2>1. pc[c] = "reread"
    BY MissingByReread DEF ResolverInv
  <2> QED  BY <2>1 DEF CacheInv
<1> QED  BY <1>1, ResolverInit, ResolverStep, CacheInit, CacheStep, PTL
         DEF Spec, BlobMissingOnlyIfLost

==============================================================================
