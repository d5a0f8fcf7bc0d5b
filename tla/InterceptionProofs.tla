------------------------- MODULE InterceptionProofs --------------------------
(***************************************************************************)
(* The safety of the cache under the fetches of Interception, for any      *)
(* URLs, sizes, limits, number of fetches and failing transactions.        *)
(*                                                                         *)
(* A call of IndexedDBCache.set looks at the store, evicts entry by entry  *)
(* and puts; other calls come in between.  What it still relies on at its  *)
(* put is that nothing but what it has marked for eviction takes up the    *)
(* room it needs (RoomLeft), and what makes its late evictions right is    *)
(* that what it marked stays behind, in the order of accesses, what it     *)
(* spares (OldestChosen).                                                  *)
(***************************************************************************)
EXTENDS Interception, FiniteSetTheorems, WellFoundedInduction, SequenceTheorems, TLAPS

------------------------------------------------------------------------------
(* The inductive invariant *)

\* What a call of set, alone since its look, will leave in the store is nothing, or leaves
\* room for its blob.
RoomLeft ==
  \A u \in Users :
    setting[u].at = "evict" /\ setting[u].alone =>
      \/ stored \subseteq ToSet(setting[u].evict)
      \/ HasRoom(stored \ ToSet(setting[u].evict), SizeOf[wants[u]])

\* What a call of set has marked and is fresh was accessed before all that it spares, but
\* for what was accessed since or could not be deleted.
OldestChosen ==
  \A u \in Users :
    setting[u].at = "evict" =>
      \A url \in (ToSet(setting[u].evict) \cap fresh) \ setting[u].touched :
        \A v \in stored \ (ToSet(setting[u].evict) \cup setting[u].touched) :
          <<url, v>> \in accessed

\* The part of the invariant that is about the cache.
CacheInv ==
  /\ CacheTypeOK
  /\ IsFiniteSet(stored)
  /\ BoundsKept
  /\ RoomLeft
  /\ OldestChosen
  /\ \A u \in Users : setting[u].at = "evict" => driver = "indexeddb" /\ wants[u] \in Urls

\* The page's tasks and their calls of set go together, and a task has a URL.
Tasks ==
  \A f \in Fetches :
    /\ setting[f].at = "evict" <=> task[f] = "setting"
    /\ worker[f] = "idle" => task[f] = "none"
    /\ worker[f] # "idle" => wants[f] \in Urls

\* The part of TypeOK that is not about the cache.
Handlings ==
  /\ worker \in [Fetches -> {"idle", "asked", "network", "over"}]
  /\ task \in [Fetches -> {"none", "lookup", "acquire", "fetching", "setting",
                           "stored", "request", "reread", "over"}]
  /\ by \in [Fetches -> {App} \cup Fetches]
  /\ \A f \in Fetches : by[f] # f

InterceptionInv ==
  /\ CacheInv
  /\ Handlings
  /\ Tasks

------------------------------------------------------------------------------
(* Numbers and finite sets *)

\* Every set of naturals that is not empty has a least member.
LEMMA Least ==
  ASSUME NEW T, T \subseteq Nat, T # {}
  PROVE  \E m \in T : \A k \in T : m <= k
  <1> DEFINE R == OpToRel(<, Nat)
  <1>1. IsWellFoundedOn(R, Nat)
    BY NatLessThanWellFounded, Zenon
  <1>2. PICK m \in T : \A k \in T : ~ (<<k, m>> \in R)
    <2> HIDE DEF R
    <2> QED
      BY <1>1, WFMin
  <1>3. \A k \in T : ~ (k < m)
    BY <1>2 DEF OpToRel
  <1> QED
    BY <1>3

\* Of finitely many entries in an order, one is before all the others: that with the fewest
\* before it.
LEMMA Earliest ==
  ASSUME NEW before, NEW S, Orders(before, S), NEW T, T \subseteq S, T # {}, IsFiniteSet(T)
  PROVE  \E m \in T : \A v \in T : v = m \/ <<m, v>> \in before
  <1> DEFINE earlier(x) == {w \in T : <<w, x>> \in before}
             numbers == {Cardinality(earlier(x)) : x \in T}
  <1>1. \A x \in T : IsFiniteSet(earlier(x)) /\ Cardinality(earlier(x)) \in Nat
    <2> SUFFICES ASSUME NEW x \in T
                 PROVE  IsFiniteSet(earlier(x)) /\ Cardinality(earlier(x)) \in Nat
      OBVIOUS
    <2>1. earlier(x) \in SUBSET T
      OBVIOUS
    <2> HIDE DEF earlier
    <2> QED
      BY <2>1, FS_Subset, FS_CardinalityType
  <1>2. numbers \subseteq Nat /\ numbers # {}
    BY <1>1
  <1>3. PICK n \in numbers : \A k \in numbers : n <= k
    <2> HIDE DEF numbers
    <2> QED
      BY <1>2, Least
  <1>4. PICK m \in T : n = Cardinality(earlier(m))
    OBVIOUS
  <1>5. ASSUME NEW v \in T, v # m, <<m, v>> \notin before
        PROVE  FALSE
    <2>1. <<v, m>> \in before
      BY <1>5 DEF Orders
    <2>2. earlier(v) \subseteq earlier(m)
      BY <2>1 DEF Orders
    <2>3. v \in earlier(m) /\ v \notin earlier(v)
      BY <2>1 DEF Orders
    <2>4. Cardinality(earlier(m)) <= Cardinality(earlier(v))
      BY <1>3, <1>4
    <2>5. earlier(v) = earlier(m)
      <3> HIDE DEF earlier
      <3>1. /\ Cardinality(earlier(v)) <= Cardinality(earlier(m))
            /\ Cardinality(earlier(m)) = Cardinality(earlier(v)) => earlier(m) = earlier(v)
        BY <1>1, <2>2, FS_Subset
      <3> QED
        BY <1>1, <2>4, <3>1
    <2> QED
      BY <2>3, <2>5
  <1> QED
    BY <1>5

------------------------------------------------------------------------------
(* The operators of LRUPolicy *)

\* A blob has as many bytes as its size says.
LEMMA BlobSize ==
  ASSUME NEW url \in Urls
  PROVE  /\ IsFiniteSet({url} \X (1..SizeOf[url]))
         /\ Cardinality({url} \X (1..SizeOf[url])) = SizeOf[url]
  <1> DEFINE n == SizeOf[url]
  <1>1. n \in Nat
    BY CacheAssumption
  <1> HIDE DEF n
  <1>2. IsFiniteSet(1..n) /\ Cardinality(1..n) = IF 1 > n THEN 0 ELSE n - 1 + 1
    <2>1. 1 \in Int /\ n \in Int
      BY <1>1
    <2> QED
      BY <2>1, FS_Interval
  <1>3. Cardinality(1..n) = n
    BY <1>1, <1>2
  <1>4. IsFiniteSet({url})
    BY FS_Singleton
  <1>5. Cardinality({url}) = 1
    BY FS_Singleton
  <1>6. /\ IsFiniteSet({url} \X (1..n))
        /\ Cardinality({url} \X (1..n)) = Cardinality({url}) * Cardinality(1..n)
    BY <1>2, <1>4, FS_Product
  <1>7. Cardinality({url} \X (1..n)) = n
    BY <1>1, <1>3, <1>5, <1>6
  <1> QED
    BY <1>6, <1>7 DEF n

\* Finitely many blobs have finitely many bytes.
LEMMA BytesFinite ==
  ASSUME NEW urls, urls \subseteq Urls, IsFiniteSet(urls)
  PROVE  IsFiniteSet(Bytes(urls)) /\ TotalSize(urls) \in Nat
  <1> DEFINE blob(url) == {url} \X (1..SizeOf[url])
             blobs == {blob(url) : url \in urls}
             f == [url \in urls |-> blob(url)]
  <1>1. IsFiniteSet(blobs)
    <2>1. f \in Surjection(urls, blobs)
      BY DEF Surjection
    <2> HIDE DEF f, blobs
    <2> QED
      BY <2>1, FS_Surjection
  <1>2. \A b \in blobs : IsFiniteSet(b)
    BY BlobSize
  <1>3. IsFiniteSet(UNION blobs)
    <2> HIDE DEF blobs
    <2> QED
      BY <1>1, <1>2, FS_UNION
  <1> QED
    BY <1>3, FS_CardinalityType DEF Bytes, TotalSize

\* Fewer blobs have fewer bytes.
LEMMA SizeGrows ==
  ASSUME NEW T, T \subseteq Urls, IsFiniteSet(T), NEW S, S \subseteq T
  PROVE  /\ IsFiniteSet(S)
         /\ Cardinality(S) \in Nat /\ Cardinality(T) \in Nat
         /\ Cardinality(S) <= Cardinality(T)
         /\ TotalSize(S) \in Nat /\ TotalSize(T) \in Nat
         /\ TotalSize(S) <= TotalSize(T)
  <1>1. IsFiniteSet(S) /\ Cardinality(S) <= Cardinality(T)
    BY FS_Subset
  <1>2. IsFiniteSet(Bytes(T)) /\ TotalSize(T) \in Nat /\ TotalSize(S) \in Nat
    BY <1>1, BytesFinite
  <1>3. Bytes(S) \subseteq Bytes(T)
    BY DEF Bytes
  <1>4. TotalSize(S) <= TotalSize(T)
    BY <1>2, <1>3, FS_Subset DEF TotalSize
  <1> QED
    BY <1>1, <1>2, <1>4, FS_CardinalityType

\* A blob adds its size, if it was not there.
LEMMA SizeAdds ==
  ASSUME NEW S, S \subseteq Urls, IsFiniteSet(S), NEW url \in Urls
  PROVE  /\ IsFiniteSet(S \cup {url})
         /\ Cardinality(S \cup {url}) \in Nat
         /\ Cardinality(S \cup {url}) <= Cardinality(S) + 1
         /\ TotalSize(S \cup {url}) \in Nat
         /\ TotalSize(S \cup {url}) <= TotalSize(S) + SizeOf[url]
  <1> DEFINE blob == {url} \X (1..SizeOf[url])
  <1>1. IsFiniteSet(S \cup {url}) /\ Cardinality(S) \in Nat
    BY FS_AddElement, FS_CardinalityType
  <1>2. Cardinality(S \cup {url}) <= Cardinality(S) + 1
    BY <1>1, FS_AddElement
  <1>3. IsFiniteSet(blob) /\ Cardinality(blob) = SizeOf[url]
    BY BlobSize
  <1>4. Bytes(S \cup {url}) = Bytes(S) \cup blob
    BY DEF Bytes
  <1>5. IsFiniteSet(Bytes(S)) /\ TotalSize(S) \in Nat
    BY BytesFinite
  <1>6. /\ Cardinality(Bytes(S) \cup blob)
             = Cardinality(Bytes(S)) + Cardinality(blob) - Cardinality(Bytes(S) \cap blob)
        /\ Cardinality(Bytes(S) \cap blob) \in Nat
    <2> HIDE DEF blob
    <2>1. IsFiniteSet(Bytes(S) \cap blob)
      BY <1>5, FS_Intersection
    <2> QED
      BY <1>3, <1>5, <2>1, FS_Union, FS_CardinalityType
  <1>7. TotalSize(S \cup {url}) \in Nat
    BY <1>1, BytesFinite
  <1>8. Cardinality(S \cup {url}) \in Nat
    BY <1>1, FS_CardinalityType
  <1>9. TotalSize(S \cup {url}) <= TotalSize(S) + SizeOf[url]
    <2> HIDE DEF blob
    <2>1. TotalSize(S \cup {url}) = TotalSize(S) + SizeOf[url] - Cardinality(Bytes(S) \cap blob)
      BY <1>3, <1>4, <1>6 DEF TotalSize
    <2>2. SizeOf[url] \in Nat
      BY CacheAssumption
    <2> QED
      BY <1>5, <1>6, <2>1, <2>2
  <1> QED
    BY <1>1, <1>2, <1>7, <1>8, <1>9

\* Where there is room beside many there is room beside fewer.
LEMMA RoomShrinks ==
  ASSUME NEW T, T \subseteq Urls, IsFiniteSet(T), NEW S, S \subseteq T, NEW size \in Nat,
         HasRoom(T, size)
  PROVE  HasRoom(S, size)
  <1>1. /\ Cardinality(S) \in Nat /\ Cardinality(T) \in Nat
        /\ Cardinality(S) <= Cardinality(T)
        /\ TotalSize(S) \in Nat /\ TotalSize(T) \in Nat
        /\ TotalSize(S) <= TotalSize(T)
    BY SizeGrows
  <1> QED
    BY <1>1, CacheAssumption DEF HasRoom

\* Room for one more means that the bounds hold when it is there.
LEMMA RoomSuffices ==
  ASSUME NEW S, S \subseteq Urls, IsFiniteSet(S), NEW url \in Urls, HasRoom(S, SizeOf[url])
  PROVE  /\ TotalSize(S \cup {url}) <= MaxSize
         /\ Cardinality(S \cup {url}) <= MaxEntries
  <1>1. /\ Cardinality(S \cup {url}) \in Nat
        /\ Cardinality(S \cup {url}) <= Cardinality(S) + 1
        /\ TotalSize(S \cup {url}) \in Nat
        /\ TotalSize(S \cup {url}) <= TotalSize(S) + SizeOf[url]
    BY SizeAdds
  <1>2. TotalSize(S) \in Nat /\ Cardinality(S) \in Nat /\ SizeOf[url] \in Nat
    BY SizeGrows, CacheAssumption
  <1> QED
    BY <1>1, <1>2, CacheAssumption DEF HasRoom

\* findEvictionCandidates leaves nothing, or room for the incoming entry; and what it marks
\* and is fresh was accessed before all that it spares.
LEMMA CandidatesRight ==
  ASSUME stored \subseteq Urls, fresh \subseteq stored, IsFiniteSet(stored),
         Orders(accessed, stored), NEW size \in Nat
  PROVE  LET marked == findEvictionCandidates(size) IN
           /\ marked \subseteq stored
           /\ stored \subseteq marked \/ HasRoom(stored \ marked, size)
           /\ \A url \in marked \cap fresh, v \in stored \ marked : <<url, v>> \in accessed
  <1> DEFINE marked == findEvictionCandidates(size)
             spared == stored \ marked
  <1>1. marked \subseteq stored
    BY DEF findEvictionCandidates
  <1>2. \A v \in spared : v \in fresh /\ HasRoom(From(v), size)
    BY DEF findEvictionCandidates
  <1>3. \A v \in fresh : IsFiniteSet(From(v)) /\ From(v) \subseteq Urls
    <2> SUFFICES ASSUME NEW v \in fresh
                 PROVE  IsFiniteSet(From(v)) /\ From(v) \subseteq Urls
      OBVIOUS
    <2>1. From(v) \subseteq stored
      BY DEF From
    <2> QED
      BY <2>1, FS_Subset
  <1>4. ASSUME spared # {}
        PROVE  HasRoom(spared, size)
    <2>1. IsFiniteSet(spared) /\ spared \subseteq stored
      <3>1. spared \subseteq stored
        OBVIOUS
      <3> HIDE DEF spared
      <3> QED
        BY <3>1, FS_Subset
    <2>2. PICK m \in spared : \A v \in spared : v = m \/ <<m, v>> \in accessed
      <3> HIDE DEF spared
      <3> QED
        BY <1>4, <2>1, Earliest
    <2>3. spared \subseteq From(m)
      BY <1>2, <2>2 DEF From
    <2>4. HasRoom(From(m), size) /\ m \in fresh
      BY <1>2
    <2> QED
      BY <1>3, <2>3, <2>4, RoomShrinks
  <1>5. ASSUME NEW url \in marked \cap fresh, NEW v \in spared, <<url, v>> \notin accessed
        PROVE  FALSE
    <2>1. v \in fresh /\ HasRoom(From(v), size)
      BY <1>2
    <2>2. ~ HasRoom(From(url), size)
      BY DEF findEvictionCandidates
    <2>3. <<v, url>> \in accessed
      BY <1>5, <2>1 DEF Orders
    <2>4. From(url) \subseteq From(v)
      BY <2>1, <2>3 DEF From, Orders
    <2> QED
      BY <1>3, <2>1, <2>2, <2>4, RoomShrinks
  <1> QED
    BY <1>1, <1>4, <1>5

\* A list of a set has its members, and no others.
LEMMA ListHasAll ==
  ASSUME NEW S, IsFiniteSet(S), NEW list \in SetToSeqs(S)
  PROVE  list \in Seq(S) /\ ToSet(list) = S
  <1> DEFINE n == Cardinality(S)
  <1>1. n \in Nat
    BY FS_CardinalityType
  <1>2. list \in [1..n -> S] /\ \A i, j \in 1..n : i # j => list[i] # list[j]
    BY DEF SetToSeqs
  <1>3. IsFiniteSet(1..n) /\ Cardinality(1..n) = n
    <2> HIDE DEF n
    <2>1. 1 \in Int /\ n \in Int
      BY <1>1
    <2>2. IsFiniteSet(1..n) /\ Cardinality(1..n) = IF 1 > n THEN 0 ELSE n - 1 + 1
      BY <2>1, FS_Interval
    <2> QED
      BY <1>1, <2>2
  <1>4. list \in Injection(1..n, S)
    BY <1>2 DEF Injection, IsInjective
  <1>5. list \in Surjection(1..n, S)
    BY <1>3, <1>4, FS_Injection
  <1>6. ToSet(list) = S
    BY <1>2, <1>5 DEF ToSet, Surjection
  <1>7. list \in Seq(S)
    <2> HIDE DEF n
    <2> QED
      BY <1>1, <1>2
  <1> QED
    BY <1>6, <1>7

\* A list is its first member and the rest.
LEMMA ListSplits ==
  ASSUME NEW S, NEW list \in Seq(S), list # <<>>
  PROVE  /\ Head(list) \in S /\ Tail(list) \in Seq(S)
         /\ ToSet(list) = {Head(list)} \cup ToSet(Tail(list))
  <1>1. /\ Head(list) \in S /\ Tail(list) \in Seq(S)
        /\ Len(list) \in Nat \ {0}
        /\ Len(Tail(list)) = Len(list) - 1
        /\ DOMAIN list = 1..Len(list) /\ DOMAIN Tail(list) = 1..(Len(list) - 1)
        /\ \A i \in 1..(Len(list) - 1) : Tail(list)[i] = list[i + 1]
        /\ Head(list) = list[1]
    OBVIOUS
  <1>2. ASSUME NEW x \in ToSet(list)
        PROVE  x = Head(list) \/ x \in ToSet(Tail(list))
    <2>1. PICK i \in 1..Len(list) : x = list[i]
      BY <1>1 DEF ToSet
    <2>2. CASE i = 1
      BY <1>1, <2>1, <2>2
    <2>3. CASE i # 1
      <3>1. i - 1 \in 1..(Len(list) - 1) /\ Tail(list)[i - 1] = list[i]
        BY <1>1, <2>3
      <3> QED
        BY <1>1, <2>1, <3>1 DEF ToSet
    <2> QED
      BY <2>2, <2>3
  <1>3. ASSUME NEW x \in ToSet(Tail(list))
        PROVE  x \in ToSet(list)
    <2>1. PICK i \in 1..(Len(list) - 1) : x = Tail(list)[i]
      BY <1>1 DEF ToSet
    <2>2. i + 1 \in 1..Len(list) /\ list[i + 1] = x
      BY <1>1, <2>1
    <2> QED
      BY <1>1, <2>2 DEF ToSet
  <1>4. Head(list) \in ToSet(list)
    <2>1. 1 \in 1..Len(list)
      BY <1>1
    <2> QED
      BY <1>1, <2>1 DEF ToSet
  <1> QED
    BY <1>1, <1>2, <1>3, <1>4

\* A list of no more than S has members in S.
LEMMA ListWithin ==
  ASSUME NEW S, NEW list \in Seq(S)
  PROVE  ToSet(list) \subseteq S
  BY DEF ToSet

------------------------------------------------------------------------------
(* Orders *)

\* Entries that leave take their times with them.
LEMMA AmongOrders ==
  ASSUME NEW before, NEW S, Orders(before, S), NEW urls
  PROVE  Orders(Among(before, urls), S \cap urls)
  BY DEF Orders, Among

\* An entry with the time of now comes last.
LEMMA RenewOrders ==
  ASSUME NEW before, NEW S, Orders(before, S), NEW url
  PROVE  /\ Orders(Renew(before, S, url), S \cup {url})
         /\ \A x, y \in S : x # url /\ y # url =>
              (<<x, y>> \in Renew(before, S, url) <=> <<x, y>> \in before)
         /\ \A x \in S : x # url => <<x, url>> \in Renew(before, S, url)
  <1> DEFINE after == Renew(before, S, url)
  <1>1. \A x, y \in S : x # url /\ y # url => (<<x, y>> \in after <=> <<x, y>> \in before)
    BY DEF Renew
  <1>2. \A x \in S : x # url => <<x, url>> \in after
    BY DEF Renew
  <1>3. \A x : <<url, x>> \notin after
    BY DEF Renew
  <1>4. after \subseteq (S \cup {url}) \X (S \cup {url})
    BY DEF Renew, Orders
  <1> HIDE DEF after
  <1>5. Orders(after, S \cup {url})
    BY <1>1, <1>2, <1>3, <1>4 DEF Orders
  <1> QED
    BY <1>1, <1>2, <1>5 DEF after

------------------------------------------------------------------------------
(* The store when entries leave or come *)

\* What is left of a store that was in order is in order.
LEMMA RetainTypes ==
  ASSUME CacheTypeOK, IsFiniteSet(stored), NEW urls, Retain(urls)
  PROVE  /\ stored' = stored \cap urls /\ fresh' = fresh \cap urls
         /\ stored' \subseteq Urls /\ fresh' \subseteq stored'
         /\ Orders(accessed', stored') /\ Orders(storedAt', fresh')
         /\ IsFiniteSet(stored')
         /\ \A x, y \in stored' : <<x, y>> \in accessed' <=> <<x, y>> \in accessed
  <1>1. stored' = stored \cap urls /\ fresh' = fresh \cap urls
    BY DEF Retain
  <1>2. Orders(accessed', stored') /\ Orders(storedAt', fresh')
    BY AmongOrders DEF Retain, CacheTypeOK
  <1>3. IsFiniteSet(stored')
    BY <1>1, FS_Intersection
  <1>4. \A x, y \in stored' : <<x, y>> \in accessed' <=> <<x, y>> \in accessed
    BY DEF Retain, Among
  <1> QED
    BY <1>1, <1>2, <1>3, <1>4 DEF CacheTypeOK

\* With url put, what was left of the store keeps its order and url comes last.
LEMMA PutTypes ==
  ASSUME CacheTypeOK, IsFiniteSet(stored), NEW urls \in SUBSET stored, NEW url \in Urls,
         Put(urls, url)
  PROVE  /\ stored' = urls \cup {url} /\ fresh' = (fresh \cap urls) \cup {url}
         /\ stored' \subseteq Urls /\ fresh' \subseteq stored'
         /\ Orders(accessed', stored') /\ Orders(storedAt', fresh')
         /\ IsFiniteSet(stored')
         /\ \A x, y \in urls : x # url /\ y # url =>
              (<<x, y>> \in accessed' <=> <<x, y>> \in accessed)
         /\ \A x \in urls : x # url => <<x, url>> \in accessed'
  <1>1. stored' = urls \cup {url} /\ fresh' = (fresh \cap urls) \cup {url}
    BY DEF Put
  <1>2. Orders(Among(accessed, urls), urls) /\ Orders(Among(storedAt, urls), fresh \cap urls)
    <2>1. stored \cap urls = urls
      OBVIOUS
    <2> QED
      BY <2>1, AmongOrders DEF CacheTypeOK
  <1>3. Orders(accessed', stored') /\ Orders(storedAt', fresh')
    BY <1>1, <1>2, RenewOrders DEF Put
  <1>4. \A x, y \in urls : x # url /\ y # url =>
          (<<x, y>> \in accessed' <=> <<x, y>> \in Among(accessed, urls))
    BY <1>2, RenewOrders DEF Put
  <1>5. \A x \in urls : x # url => <<x, url>> \in accessed'
    BY <1>2, RenewOrders DEF Put
  <1>6. \A x, y \in urls : <<x, y>> \in Among(accessed, urls) <=> <<x, y>> \in accessed
    BY DEF Among
  <1>7. IsFiniteSet(stored')
    <2>1. IsFiniteSet(urls)
      BY FS_Subset
    <2> QED
      BY <1>1, <2>1, FS_AddElement
  <1> QED
    BY <1>1, <1>3, <1>4, <1>5, <1>6, <1>7 DEF CacheTypeOK

\* Fewer entries keep the bounds that more did.
LEMMA BoundsShrink ==
  ASSUME stored \subseteq Urls, IsFiniteSet(stored), BoundsKept,
         stored' \subseteq stored, tainted' = tainted
  PROVE  BoundsKept'
  <1>1. /\ Cardinality(stored') \in Nat /\ Cardinality(stored) \in Nat
        /\ Cardinality(stored') <= Cardinality(stored)
        /\ TotalSize(stored') \in Nat /\ TotalSize(stored) \in Nat
        /\ TotalSize(stored') <= TotalSize(stored)
    BY SizeGrows
  <1>2. MaxSize \in Nat /\ MaxEntries \in Nat
    BY CacheAssumption
  <1>3. TotalSize(stored)' = TotalSize(stored')
    BY DEF TotalSize, Bytes
  <1> QED
    BY <1>1, <1>2, <1>3 DEF BoundsKept

\* Entries that leave, and times that pass, keep the cache's part of the invariant while the
\* users' URLs stay and calls of set, if they change, rely on no more than they did.
LEMMA FewerKeeps ==
  ASSUME CacheInv, stored' \subseteq stored, fresh' \subseteq fresh,
         \A x, y \in stored' : <<x, y>> \in accessed' <=> <<x, y>> \in accessed,
         fresh' \subseteq stored',
         \A u \in Users : setting'[u].at = "evict" =>
           LET old == ToSet(setting[u].evict)
               new == ToSet(setting'[u].evict)
           IN  /\ setting[u].at = "evict"
               /\ setting'[u].alone => setting[u].alone /\ stored' \cap old \subseteq new
               /\ (new \cap fresh') \ setting'[u].touched \subseteq old \ setting[u].touched
               /\ stored' \cap (old \cup setting[u].touched)
                    \subseteq new \cup setting'[u].touched,
         UNCHANGED <<driver, wants, tainted>>
  PROVE  BoundsKept' /\ RoomLeft' /\ OldestChosen'
  <1>1. BoundsKept'
    BY BoundsShrink DEF CacheInv, CacheTypeOK
  <1>2. RoomLeft'
    <2> SUFFICES ASSUME NEW u \in Users, setting'[u].at = "evict", setting'[u].alone,
                        ~ (stored' \subseteq ToSet(setting'[u].evict))
                 PROVE  HasRoom(stored' \ ToSet(setting'[u].evict), SizeOf[wants[u]])
      BY DEF RoomLeft, HasRoom, TotalSize, Bytes
    <2> DEFINE left == stored \ ToSet(setting[u].evict)
    <2>1. HasRoom(left, SizeOf[wants[u]])
      BY DEF CacheInv, RoomLeft
    <2>2. left \subseteq Urls /\ IsFiniteSet(left)
      BY FS_Difference DEF CacheInv, CacheTypeOK
    <2>3. SizeOf[wants[u]] \in Nat
      BY CacheAssumption DEF CacheInv
    <2>4. stored' \ ToSet(setting'[u].evict) \subseteq left
      OBVIOUS
    <2> HIDE DEF left
    <2> QED
      BY <2>1, <2>2, <2>3, <2>4, RoomShrinks
  <1>3. OldestChosen'
    <2> SUFFICES ASSUME NEW u \in Users, setting'[u].at = "evict",
                        NEW x \in (ToSet(setting'[u].evict) \cap fresh') \ setting'[u].touched,
                        NEW v \in stored' \ (ToSet(setting'[u].evict) \cup setting'[u].touched)
                 PROVE  <<x, v>> \in accessed'
      BY DEF OldestChosen
    <2>1. x \in (ToSet(setting[u].evict) \cap fresh) \ setting[u].touched
      OBVIOUS
    <2>2. v \in stored \ (ToSet(setting[u].evict) \cup setting[u].touched)
      OBVIOUS
    <2>3. <<x, v>> \in accessed
      BY <2>1, <2>2 DEF CacheInv, OldestChosen
    <2> QED
      BY <2>3
  <1> QED
    BY <1>1, <1>2, <1>3

------------------------------------------------------------------------------
(* One lemma per operation of the cache *)

\* The database opens or does not.
LEMMA GetDBKeeps ==
  ASSUME CacheInv, getDB
  PROVE  CacheInv' /\ UNCHANGED <<setting, wants>>
  BY DEF CacheInv, CacheTypeOK, BoundsKept, RoomLeft, OldestChosen, TotalSize, Bytes, HasRoom,
         getDB, content

\* Dropping entries keeps the invariant.
LEMMA DropKeeps ==
  ASSUME CacheInv, NEW urls, Drop(urls),
         UNCHANGED <<driver, db, setting, wants, tainted>>, faults' \in 0..MaxFaults
  PROVE  CacheInv'
  <1>1. Retain(stored \ urls)
    BY DEF Drop
  <1>2. /\ stored' = stored \cap (stored \ urls) /\ fresh' = fresh \cap (stored \ urls)
        /\ stored' \subseteq Urls /\ fresh' \subseteq stored'
        /\ Orders(accessed', stored') /\ Orders(storedAt', fresh')
        /\ IsFiniteSet(stored')
        /\ \A x, y \in stored' : <<x, y>> \in accessed' <=> <<x, y>> \in accessed
    BY <1>1, RetainTypes DEF CacheInv
  <1>3. BoundsKept' /\ RoomLeft' /\ OldestChosen'
    BY <1>2, FewerKeeps
  <1> QED
    BY <1>2, <1>3 DEF CacheInv, CacheTypeOK

\* Those who are about to evict url have it as touched; nothing else of a call changes.
LEMMA TouchMarks ==
  ASSUME CacheTypeOK, NEW url \in Urls
  PROVE  /\ Touch(url) \in [Users -> [at : {"idle", "evict"}, evict : Seq(Urls),
                                      alone : BOOLEAN, touched : SUBSET Urls]]
         /\ \A u \in Users :
              /\ Touch(url)[u].at = setting[u].at
              /\ Touch(url)[u].evict = setting[u].evict
              /\ Touch(url)[u].alone = setting[u].alone
              /\ setting[u].touched \subseteq Touch(url)[u].touched
              /\ Touch(url)[u].touched \subseteq setting[u].touched \cup {url}
              /\ url \in ToSet(setting[u].evict) => url \in Touch(url)[u].touched
  <1>1. ASSUME NEW u \in Users
        PROVE  /\ Touch(url)[u] \in [at : {"idle", "evict"}, evict : Seq(Urls),
                                     alone : BOOLEAN, touched : SUBSET Urls]
               /\ Touch(url)[u].at = setting[u].at
               /\ Touch(url)[u].evict = setting[u].evict
               /\ Touch(url)[u].alone = setting[u].alone
               /\ setting[u].touched \subseteq Touch(url)[u].touched
               /\ Touch(url)[u].touched \subseteq setting[u].touched \cup {url}
               /\ url \in ToSet(setting[u].evict) => url \in Touch(url)[u].touched
    <2>1. setting[u] \in [at : {"idle", "evict"}, evict : Seq(Urls), alone : BOOLEAN,
                          touched : SUBSET Urls]
      BY DEF CacheTypeOK
    <2>2. CASE url \in ToSet(setting[u].evict)
      <3>1. Touch(url)[u] = [setting[u] EXCEPT !.touched = @ \cup {url}]
        BY <2>2 DEF Touch
      <3> QED
        BY <2>1, <3>1
    <2>3. CASE url \notin ToSet(setting[u].evict)
      <3>1. Touch(url)[u] = setting[u]
        BY <2>3 DEF Touch
      <3> QED
        BY <2>1, <2>3, <3>1
    <2> QED
      BY <2>2, <2>3
  <1>2. Touch(url) = [u \in Users |-> Touch(url)[u]]
    BY DEF Touch
  <1> QED
    BY <1>1, <1>2

\* A hit makes its entry the last one accessed, for those who spare it too.
LEMMA HitKeeps ==
  ASSUME CacheInv, NEW url \in fresh,
         accessed' = Renew(accessed, stored, url), setting' = Touch(url),
         UNCHANGED <<driver, db, stored, fresh, storedAt, faults, wants, tainted>>
  PROVE  CacheInv' /\ \A u \in Users : setting'[u].at = setting[u].at
  <1>1. url \in stored /\ url \in Urls
    BY DEF CacheInv, CacheTypeOK
  <1>2. /\ Orders(accessed', stored)
        /\ \A x, y \in stored : x # url /\ y # url =>
             (<<x, y>> \in accessed' <=> <<x, y>> \in accessed)
        /\ \A x \in stored : x # url => <<x, url>> \in accessed'
    <2>1. stored \cup {url} = stored
      BY <1>1
    <2> QED
      BY <2>1, RenewOrders DEF CacheInv, CacheTypeOK
  <1>3. /\ setting' \in [Users -> [at : {"idle", "evict"}, evict : Seq(Urls),
                                   alone : BOOLEAN, touched : SUBSET Urls]]
        /\ \A u \in Users :
             /\ setting'[u].at = setting[u].at
             /\ setting'[u].evict = setting[u].evict
             /\ setting'[u].alone = setting[u].alone
             /\ setting[u].touched \subseteq setting'[u].touched
             /\ setting'[u].touched \subseteq setting[u].touched \cup {url}
             /\ url \in ToSet(setting[u].evict) => url \in setting'[u].touched
    BY <1>1, TouchMarks DEF CacheInv
  <1>4. CacheTypeOK' /\ IsFiniteSet(stored')
    BY <1>2, <1>3 DEF CacheInv, CacheTypeOK
  <1>5. BoundsKept' /\ RoomLeft'
    BY <1>3 DEF CacheInv, BoundsKept, RoomLeft, TotalSize, Bytes, HasRoom
  <1>6. OldestChosen'
    <2> SUFFICES ASSUME NEW u \in Users, setting'[u].at = "evict",
                        NEW x \in (ToSet(setting'[u].evict) \cap fresh) \ setting'[u].touched,
                        NEW v \in stored \ (ToSet(setting'[u].evict) \cup setting'[u].touched)
                 PROVE  <<x, v>> \in accessed'
      BY DEF OldestChosen
    <2>1. x # url /\ x \in stored
      BY <1>3 DEF CacheInv, CacheTypeOK
    <2>2. <<x, v>> \in accessed
      BY <1>3 DEF CacheInv, OldestChosen
    <2> QED
      BY <1>2, <2>1, <2>2
  <1>7. \A u \in Users : setting'[u].at = "evict" => driver' = "indexeddb" /\ wants'[u] \in Urls
    BY <1>3 DEF CacheInv
  <1> QED
    BY <1>3, <1>4, <1>5, <1>6, <1>7 DEF CacheInv

\* A look into the cache.
LEMMA GetKeeps ==
  ASSUME CacheInv, NEW u \in Users, wants[u] \in Urls, NEW found \in BOOLEAN, get(u, found)
  PROVE  CacheInv' /\ UNCHANGED wants /\ \A w \in Users : setting'[w].at = setting[w].at
  <1> DEFINE url == wants[u]
  <1>1. UNCHANGED <<driver, db, wants, tainted>>
    BY DEF get
  <1>2. CASE /\ Hit(url)
             /\ accessed' = Renew(accessed, stored, url)
             /\ setting' = Touch(url)
             /\ UNCHANGED <<stored, fresh, storedAt, faults>>
    BY <1>1, <1>2, HitKeeps DEF Hit
  <1>3. CASE Drop({url}) /\ UNCHANGED <<setting, faults>>
    BY <1>1, <1>3, DropKeeps DEF CacheInv, CacheTypeOK
  <1>4. CASE UNCHANGED <<content, setting>> /\ faults' \in 0..MaxFaults
    BY <1>1, <1>4
    DEF CacheInv, CacheTypeOK, BoundsKept, RoomLeft, OldestChosen, TotalSize, Bytes, HasRoom,
        content
  <1>5. Faulty => faults' \in 0..MaxFaults
    BY CacheAssumption DEF Faulty, CacheInv, CacheTypeOK
  <1>6. faults \in 0..MaxFaults
    BY DEF CacheInv, CacheTypeOK
  <1> QED
    BY <1>2, <1>3, <1>4, <1>5, <1>6 DEF get

\* set does nothing.
LEMMA SetNothingKeeps ==
  ASSUME CacheInv, NEW u \in Users, SetNothing(u)
  PROVE  CacheInv' /\ UNCHANGED <<setting, wants>>
  <1>1. faults' \in 0..MaxFaults
    BY CacheAssumption DEF Faulty, CacheInv, CacheTypeOK, SetNothing
  <1> QED
    BY <1>1
    DEF CacheInv, CacheTypeOK, BoundsKept, RoomLeft, OldestChosen, TotalSize, Bytes, HasRoom,
        SetNothing, store, content

\* A look for an object URL, which need not look in the store.
LEMMA GetObjectUrlKeeps ==
  ASSUME CacheInv, NEW u \in Users, wants[u] \in Urls, NEW found \in BOOLEAN,
         getObjectUrl(u, found)
  PROVE  CacheInv' /\ UNCHANGED wants /\ \A w \in Users : setting'[w].at = setting[w].at
  <1>1. CASE UNCHANGED cacheVars
    BY <1>1
    DEF CacheInv, CacheTypeOK, BoundsKept, RoomLeft, OldestChosen, TotalSize, Bytes, HasRoom,
        cacheVars, store, content
  <1>2. CASE get(u, found)
    BY <1>2, GetKeeps
  <1> QED
    BY <1>1, <1>2 DEF getObjectUrl

\* A put into a store with room for it keeps the bounds.
LEMMA PutBounds ==
  ASSUME NEW S, S \subseteq Urls, IsFiniteSet(S), NEW url \in Urls, stored' = S \cup {url},
         tainted' \/ HasRoom(S, SizeOf[url])
  PROVE  BoundsKept'
  <1>1. TotalSize(stored)' = TotalSize(stored')
    BY DEF TotalSize, Bytes
  <1>2. CASE tainted'
    BY <1>2 DEF BoundsKept
  <1>3. CASE HasRoom(S, SizeOf[url])
    BY <1>1, <1>3, RoomSuffices DEF BoundsKept
  <1> QED
    BY <1>2, <1>3

\* MemoryCache.set evicts and puts at once.
LEMMA SetInMemoryKeeps ==
  ASSUME CacheInv, NEW u \in Users, wants[u] \in Urls, SetInMemory(u)
  PROVE  CacheInv' /\ UNCHANGED <<setting, wants>>
  <1> DEFINE url == wants[u]
             size == SizeOf[url]
             kept == stored \ findEvictionCandidates(size)
  <1>1. /\ driver = "memory" /\ Put(kept, url) /\ tainted' = ~HasRoom({}, size)
        /\ UNCHANGED <<driver, db, setting, faults, wants>>
    BY DEF SetInMemory
  <1>2. size \in Nat
    BY CacheAssumption
  <1>3. kept = {} \/ HasRoom(kept, size)
    <2> HIDE DEF size
    <2> QED
      BY <1>2, CandidatesRight DEF CacheInv, CacheTypeOK
  <1>4. kept \in SUBSET stored /\ kept \subseteq Urls
    BY DEF CacheInv, CacheTypeOK
  <1>5. IsFiniteSet(kept)
    <2> HIDE DEF kept
    <2> QED
      BY <1>4, FS_Subset DEF CacheInv
  <1> HIDE DEF kept
  <1>6. /\ stored' = kept \cup {url} /\ stored' \subseteq Urls /\ fresh' \subseteq stored'
        /\ Orders(accessed', stored') /\ Orders(storedAt', fresh')
        /\ IsFiniteSet(stored')
    BY <1>1, <1>4, PutTypes DEF CacheInv
  <1>7. BoundsKept'
    <2>1. tainted' \/ HasRoom(kept, size)
      BY <1>1, <1>3
    <2> QED
      BY <1>4, <1>5, <1>6, <2>1, PutBounds
  <1>8. \A w \in Users : setting[w].at # "evict"
    BY <1>1 DEF CacheInv
  <1>9. CacheTypeOK'
    BY <1>1, <1>6 DEF CacheInv, CacheTypeOK
  <1>10. RoomLeft' /\ OldestChosen'
    BY <1>1, <1>8 DEF RoomLeft, OldestChosen
  <1> QED
    BY <1>1, <1>6, <1>7, <1>8, <1>9, <1>10 DEF CacheInv

\* The look of IndexedDBCache.set at the store makes what it relies on true.
LEMMA BeginSetKeeps ==
  ASSUME CacheInv, NEW u \in Users, wants[u] \in Urls, BeginSet(u)
  PROVE  /\ CacheInv' /\ UNCHANGED wants
         /\ setting'[u].at = "evict"
         /\ \A w \in Users : w # u => setting'[w].at = setting[w].at
  <1> DEFINE size == SizeOf[wants[u]]
             marked == findEvictionCandidates(size)
  <1>1. driver = "indexeddb" /\ UNCHANGED <<store, faults, wants, tainted>>
    BY DEF BeginSet
  <1>2. UNCHANGED <<driver, db, stored, accessed, fresh, storedAt>>
    BY <1>1 DEF store, content
  <1>3. PICK list \in EvictionLists(size) :
          setting' = [setting EXCEPT ![u] =
            [at |-> "evict", evict |-> list, alone |-> TRUE, touched |-> {}]]
    BY DEF BeginSet
  <1>4. size \in Nat
    BY CacheAssumption
  <1>5. /\ marked \subseteq stored
        /\ stored \subseteq marked \/ HasRoom(stored \ marked, size)
        /\ \A url \in marked \cap fresh, v \in stored \ marked : <<url, v>> \in accessed
    <2> HIDE DEF size
    <2> QED
      BY <1>4, CandidatesRight DEF CacheInv, CacheTypeOK
  <1>6. list \in Seq(marked) /\ ToSet(list) = marked
    <2>1. IsFiniteSet(marked)
      <3> HIDE DEF marked
      <3> QED
        BY <1>5, FS_Subset DEF CacheInv
    <2>2. list \in SetToSeqs(marked)
      BY DEF EvictionLists
    <2> HIDE DEF marked
    <2> QED
      BY <2>1, <2>2, ListHasAll
  <1>7. list \in Seq(Urls)
    <2>1. marked \subseteq Urls
      BY <1>5 DEF CacheInv, CacheTypeOK
    <2> HIDE DEF marked
    <2> QED
      BY <1>6, <2>1
  <1> HIDE DEF marked
  <1>8. /\ setting'[u].at = "evict" /\ setting'[u].evict = list
        /\ setting'[u].touched = {}
        /\ \A w \in Users : w # u => setting'[w] = setting[w]
        /\ setting' \in [Users -> [at : {"idle", "evict"}, evict : Seq(Urls),
                                   alone : BOOLEAN, touched : SUBSET Urls]]
    BY <1>3, <1>7 DEF CacheInv, CacheTypeOK
  <1>9. CacheTypeOK' /\ IsFiniteSet(stored')
    BY <1>1, <1>2, <1>8 DEF CacheInv, CacheTypeOK
  <1>10. BoundsKept'
    BY <1>1, <1>2 DEF CacheInv, BoundsKept, TotalSize, Bytes
  <1>11. RoomLeft'
    <2> SUFFICES ASSUME NEW w \in Users, setting'[w].at = "evict", setting'[w].alone
                 PROVE  \/ stored \subseteq ToSet(setting'[w].evict)
                        \/ HasRoom(stored \ ToSet(setting'[w].evict), SizeOf[wants[w]])
      BY <1>1, <1>2 DEF RoomLeft, HasRoom, TotalSize, Bytes
    <2>1. CASE w = u
      BY <1>5, <1>6, <1>8, <2>1
    <2>2. CASE w # u
      BY <1>8, <2>2 DEF CacheInv, RoomLeft
    <2> QED
      BY <2>1, <2>2
  <1>12. OldestChosen'
    <2> SUFFICES ASSUME NEW w \in Users, setting'[w].at = "evict",
                        NEW x \in (ToSet(setting'[w].evict) \cap fresh) \ setting'[w].touched,
                        NEW v \in stored \ (ToSet(setting'[w].evict) \cup setting'[w].touched)
                 PROVE  <<x, v>> \in accessed
      BY <1>2 DEF OldestChosen
    <2>1. CASE w = u
      BY <1>5, <1>6, <1>8, <2>1
    <2>2. CASE w # u
      BY <1>8, <2>2 DEF CacheInv, OldestChosen
    <2> QED
      BY <2>1, <2>2
  <1>13. \A w \in Users : setting'[w].at = "evict" => driver' = "indexeddb" /\ wants'[w] \in Urls
    BY <1>1, <1>2, <1>8 DEF CacheInv
  <1> QED
    BY <1>1, <1>8, <1>9, <1>10, <1>11, <1>12, <1>13 DEF CacheInv

\* The next of the marked entries is deleted, if it is still there.
LEMMA EvictNextKeeps ==
  ASSUME CacheInv, NEW u \in Users, EvictNext(u)
  PROVE  CacheInv' /\ UNCHANGED wants /\ \A w \in Users : setting'[w].at = setting[w].at
  <1> DEFINE list == setting[u].evict
             url == Head(list)
  <1>1. /\ setting[u].at = "evict" /\ list # <<>>
        /\ Retain(stored \ {url})
        /\ setting' = [setting EXCEPT ![u].evict = Tail(list),
                                      ![u].touched = setting[u].touched \ {url}]
        /\ UNCHANGED <<driver, db, faults, wants, tainted>>
    BY DEF EvictNext, Drop
  <1>2. /\ list \in Seq(Urls)
        /\ setting[u].touched \subseteq Urls
    BY DEF CacheInv, CacheTypeOK
  <1>3. /\ url \in Urls /\ Tail(list) \in Seq(Urls)
        /\ ToSet(list) = {url} \cup ToSet(Tail(list))
    BY <1>1, <1>2, ListSplits
  <1>4. /\ stored' = stored \ {url} /\ fresh' = fresh \ {url}
        /\ stored' \subseteq Urls /\ fresh' \subseteq stored'
        /\ Orders(accessed', stored') /\ Orders(storedAt', fresh')
        /\ IsFiniteSet(stored')
        /\ \A x, y \in stored' : <<x, y>> \in accessed' <=> <<x, y>> \in accessed
    <2>1. stored \cap (stored \ {url}) = stored \ {url}
      OBVIOUS
    <2>2. fresh \cap (stored \ {url}) = fresh \ {url}
      BY DEF CacheInv, CacheTypeOK
    <2> QED
      BY <1>1, <2>1, <2>2, RetainTypes DEF CacheInv
  <1>5. /\ setting' \in [Users -> [at : {"idle", "evict"}, evict : Seq(Urls),
                                   alone : BOOLEAN, touched : SUBSET Urls]]
        /\ \A w \in Users : w # u => setting'[w] = setting[w]
        /\ setting'[u].at = setting[u].at /\ setting'[u].alone = setting[u].alone
        /\ setting'[u].evict = Tail(list)
        /\ setting'[u].touched = setting[u].touched \ {url}
    BY <1>1, <1>2, <1>3 DEF CacheInv, CacheTypeOK
  <1>6. BoundsKept' /\ RoomLeft' /\ OldestChosen'
    BY <1>1, <1>3, <1>4, <1>5, FewerKeeps
  <1> QED
    BY <1>1, <1>4, <1>5, <1>6 DEF CacheInv, CacheTypeOK

\* A deletion fails: the call no longer counts as alone, and the entry as touched.
LEMMA EvictFailsKeeps ==
  ASSUME CacheInv, NEW u \in Users, EvictFails(u)
  PROVE  CacheInv' /\ UNCHANGED wants /\ \A w \in Users : setting'[w].at = setting[w].at
  <1> DEFINE list == setting[u].evict
             url == Head(list)
  <1>1. /\ setting[u].at = "evict" /\ list # <<>>
        /\ setting' = [setting EXCEPT ![u].evict = Tail(list), ![u].alone = FALSE,
                                      ![u].touched = setting[u].touched \cup {url}]
        /\ faults' = faults + 1 /\ faults < MaxFaults
        /\ UNCHANGED <<driver, db, stored, accessed, fresh, storedAt, wants, tainted>>
    BY DEF EvictFails, Faulty, store, content
  <1>2. /\ list \in Seq(Urls)
        /\ setting[u].touched \subseteq Urls
    BY DEF CacheInv, CacheTypeOK
  <1>3. /\ url \in Urls /\ Tail(list) \in Seq(Urls)
        /\ ToSet(list) = {url} \cup ToSet(Tail(list))
    BY <1>1, <1>2, ListSplits
  <1>4. /\ setting' \in [Users -> [at : {"idle", "evict"}, evict : Seq(Urls),
                                   alone : BOOLEAN, touched : SUBSET Urls]]
        /\ \A w \in Users : w # u => setting'[w] = setting[w]
        /\ setting'[u].at = setting[u].at /\ setting'[u].alone = FALSE
        /\ setting'[u].evict = Tail(list)
        /\ setting'[u].touched = setting[u].touched \cup {url}
    BY <1>1, <1>2, <1>3 DEF CacheInv, CacheTypeOK
  <1>5. BoundsKept' /\ RoomLeft' /\ OldestChosen'
    <2>1. fresh \subseteq stored
      BY DEF CacheInv, CacheTypeOK
    <2> QED
      BY <1>1, <1>3, <1>4, <2>1, FewerKeeps
  <1>6. faults' \in 0..MaxFaults
    BY <1>1, CacheAssumption DEF CacheInv, CacheTypeOK
  <1> QED
    BY <1>1, <1>4, <1>5, <1>6 DEF CacheInv, CacheTypeOK

\* The put fails, and the call is over.
LEMMA PutFailsKeeps ==
  ASSUME CacheInv, NEW u \in Users, PutFails(u)
  PROVE  /\ CacheInv' /\ UNCHANGED wants
         /\ setting'[u].at = "idle"
         /\ \A w \in Users : w # u => setting'[w].at = setting[w].at
  <1>1. /\ setting' = [setting EXCEPT ![u] = NotSetting]
        /\ faults' = faults + 1 /\ faults < MaxFaults
        /\ UNCHANGED <<driver, db, stored, accessed, fresh, storedAt, wants, tainted>>
    BY DEF PutFails, Faulty, store, content
  <1>2. /\ setting' \in [Users -> [at : {"idle", "evict"}, evict : Seq(Urls),
                                   alone : BOOLEAN, touched : SUBSET Urls]]
        /\ \A w \in Users : w # u => setting'[w] = setting[w]
        /\ setting'[u].at = "idle"
    BY <1>1 DEF NotSetting, CacheInv, CacheTypeOK
  <1>3. BoundsKept' /\ RoomLeft' /\ OldestChosen'
    <2>1. fresh \subseteq stored
      BY DEF CacheInv, CacheTypeOK
    <2> QED
      BY <1>1, <1>2, <2>1, FewerKeeps
  <1>4. faults' \in 0..MaxFaults
    BY <1>1, CacheAssumption DEF CacheInv, CacheTypeOK
  <1> QED
    BY <1>1, <1>2, <1>3, <1>4 DEF CacheInv, CacheTypeOK

\* The blob is put into the store as the look, and what came in between, has left it.
LEMMA EndSetKeeps ==
  ASSUME CacheInv, NEW u \in Users, EndSet(u)
  PROVE  /\ CacheInv' /\ UNCHANGED wants
         /\ setting'[u].at = "idle"
         /\ \A w \in Users : w # u => setting'[w].at = setting[w].at
  <1> DEFINE url == wants[u]
             size == SizeOf[url]
  <1>1. /\ setting[u].at = "evict" /\ setting[u].evict = <<>>
        /\ Put(stored, url)
        /\ tainted' = (~setting[u].alone \/ ~HasRoom({}, size))
        /\ setting' = [w \in Users |->
             IF w = u \/ setting[w].at = "idle" THEN NotSetting
             ELSE [Touch(url)[w] EXCEPT !.alone = FALSE]]
        /\ UNCHANGED <<driver, db, faults, wants>>
    BY DEF EndSet
  <1>2. url \in Urls
    BY <1>1 DEF CacheInv
  <1>3. /\ stored' = stored \cup {url} /\ fresh' = (fresh \cap stored) \cup {url}
        /\ stored' \subseteq Urls /\ fresh' \subseteq stored'
        /\ Orders(accessed', stored') /\ Orders(storedAt', fresh')
        /\ IsFiniteSet(stored')
        /\ \A x, y \in stored : x # url /\ y # url =>
             (<<x, y>> \in accessed' <=> <<x, y>> \in accessed)
        /\ \A x \in stored : x # url => <<x, url>> \in accessed'
    BY <1>1, <1>2, PutTypes DEF CacheInv
  <1>4. ASSUME NEW w \in Users
        PROVE  /\ setting'[w] \in [at : {"idle", "evict"}, evict : Seq(Urls),
                                   alone : BOOLEAN, touched : SUBSET Urls]
               /\ setting'[w].at = "evict" =>
                    /\ w # u
                    /\ setting[w].at = "evict"
                    /\ setting'[w].evict = setting[w].evict
                    /\ ~setting'[w].alone
                    /\ setting[w].touched \subseteq setting'[w].touched
                    /\ url \in ToSet(setting[w].evict) => url \in setting'[w].touched
               /\ w # u => setting'[w].at = setting[w].at
    <2>1. CASE w = u \/ setting[w].at = "idle"
      <3>1. setting'[w] = NotSetting
        BY <1>1, <2>1
      <3>2. NotSetting \in [at : {"idle", "evict"}, evict : Seq(Urls), alone : BOOLEAN,
                            touched : SUBSET Urls]
        BY DEF NotSetting
      <3> QED
        BY <2>1, <3>1, <3>2 DEF NotSetting
    <2>2. CASE w # u /\ setting[w].at # "idle"
      <3>1. setting'[w] = [Touch(url)[w] EXCEPT !.alone = FALSE]
        BY <1>1, <2>2
      <3>2. /\ Touch(url)[w] \in [at : {"idle", "evict"}, evict : Seq(Urls), alone : BOOLEAN,
                                  touched : SUBSET Urls]
            /\ Touch(url)[w].at = setting[w].at
            /\ Touch(url)[w].evict = setting[w].evict
            /\ setting[w].touched \subseteq Touch(url)[w].touched
            /\ url \in ToSet(setting[w].evict) => url \in Touch(url)[w].touched
        BY <1>2, TouchMarks DEF CacheInv
      <3>3. setting[w].at \in {"idle", "evict"}
        BY DEF CacheInv, CacheTypeOK
      <3> DEFINE touching == Touch(url)[w]
      <3> HIDE DEF touching
      <3>4. setting'[w] = [touching EXCEPT !.alone = FALSE]
        BY <3>1 DEF touching
      <3>5. touching \in [at : {"idle", "evict"}, evict : Seq(Urls), alone : BOOLEAN,
                          touched : SUBSET Urls]
        BY <3>2 DEF touching
      <3>6. /\ setting'[w] \in [at : {"idle", "evict"}, evict : Seq(Urls), alone : BOOLEAN,
                                touched : SUBSET Urls]
            /\ setting'[w].at = touching.at /\ setting'[w].evict = touching.evict
            /\ setting'[w].alone = FALSE /\ setting'[w].touched = touching.touched
        BY <3>4, <3>5
      <3> QED
        BY <2>2, <3>2, <3>3, <3>6 DEF touching
    <2> QED
      BY <2>1, <2>2
  <1>5. CacheTypeOK'
    <2>1. setting' \in [Users -> [at : {"idle", "evict"}, evict : Seq(Urls), alone : BOOLEAN,
                                  touched : SUBSET Urls]]
      <3>1. setting' = [w \in Users |-> setting'[w]]
        BY <1>1
      <3> QED
        BY <1>4, <3>1
    <2>2. tainted' \in BOOLEAN
      BY <1>1
    <2> QED
      BY <1>1, <1>3, <2>1, <2>2 DEF CacheInv, CacheTypeOK
  <1>6. BoundsKept'
    <2>1. ToSet(<<>>) = {}
      BY DEF ToSet
    <2>2. setting[u].alone => stored = {} \/ HasRoom(stored, size)
      <3>1. stored \ {} = stored
        OBVIOUS
      <3> QED
        BY <1>1, <2>1, <3>1 DEF CacheInv, RoomLeft
    <2>3. tainted' \/ HasRoom(stored, size)
      BY <1>1, <2>2
    <2>4. stored \subseteq Urls /\ IsFiniteSet(stored)
      BY DEF CacheInv, CacheTypeOK
    <2> QED
      BY <1>2, <1>3, <2>3, <2>4, PutBounds
  <1>7. RoomLeft'
    BY <1>4 DEF RoomLeft
  <1>8. OldestChosen'
    <2> SUFFICES ASSUME NEW w \in Users, setting'[w].at = "evict",
                        NEW x \in (ToSet(setting'[w].evict) \cap fresh') \ setting'[w].touched,
                        NEW v \in stored' \ (ToSet(setting'[w].evict) \cup setting'[w].touched)
                 PROVE  <<x, v>> \in accessed'
      BY DEF OldestChosen
    <2>1. /\ setting[w].at = "evict" /\ setting'[w].evict = setting[w].evict
          /\ setting[w].touched \subseteq setting'[w].touched
          /\ url \in ToSet(setting[w].evict) => url \in setting'[w].touched
      BY <1>4
    <2>2. x # url /\ x \in fresh /\ x \in stored
      BY <1>3, <2>1 DEF CacheInv, CacheTypeOK
    <2>3. CASE v = url
      BY <1>3, <2>2, <2>3
    <2>4. CASE v # url
      <3>1. <<x, v>> \in accessed
        BY <1>3, <2>1, <2>2, <2>4 DEF CacheInv, OldestChosen
      <3> QED
        BY <1>3, <2>2, <2>4, <3>1
    <2> QED
      BY <2>3, <2>4
  <1>9. \A w \in Users : setting'[w].at = "evict" => driver' = "indexeddb" /\ wants'[w] \in Urls
    BY <1>1, <1>4 DEF CacheInv
  <1>10. setting'[u].at = "idle"
    BY <1>1 DEF NotSetting
  <1> QED
    BY <1>1, <1>3, <1>4, <1>5, <1>6, <1>7, <1>8, <1>9, <1>10 DEF CacheInv

\* A TTL passes.
LEMMA ExpireKeeps ==
  ASSUME CacheInv, Expire
  PROVE  CacheInv' /\ UNCHANGED <<setting, wants>>
  <1>1. PICK url \in fresh :
          /\ fresh' = fresh \ {url}
          /\ storedAt' = Among(storedAt, fresh \ {url})
    BY DEF Expire
  <1>2. UNCHANGED <<driver, db, stored, accessed, setting, faults, wants, tainted>>
    BY DEF Expire
  <1>3. Orders(storedAt', fresh')
    <2>1. fresh \cap (fresh \ {url}) = fresh'
      BY <1>1
    <2> QED
      BY <1>1, <2>1, AmongOrders DEF CacheInv, CacheTypeOK
  <1>4. BoundsKept' /\ RoomLeft' /\ OldestChosen'
    <2>1. fresh' \subseteq stored
      BY <1>1 DEF CacheInv, CacheTypeOK
    <2> QED
      BY <1>1, <1>2, <2>1, FewerKeeps
  <1> QED
    BY <1>1, <1>2, <1>3, <1>4 DEF CacheInv, CacheTypeOK

\* The store is emptied, or that fails.
LEMMA ClearKeeps ==
  ASSUME CacheInv, clear
  PROVE  CacheInv' /\ UNCHANGED <<setting, wants>>
  <1>1. UNCHANGED <<driver, db, setting, wants, tainted>>
    BY DEF clear
  <1>2. CASE Drop(stored) /\ UNCHANGED faults
    BY <1>1, <1>2, DropKeeps DEF CacheInv, CacheTypeOK
  <1>3. CASE Faulty /\ UNCHANGED content
    <2>1. faults' \in 0..MaxFaults
      BY <1>3, CacheAssumption DEF Faulty, CacheInv, CacheTypeOK
    <2> QED
      BY <1>1, <1>3, <2>1
      DEF CacheInv, CacheTypeOK, BoundsKept, RoomLeft, OldestChosen, TotalSize, Bytes, HasRoom,
          content
  <1> QED
    BY <1>2, <1>3 DEF clear

------------------------------------------------------------------------------
(* One lemma per step of the worker and of the page *)

\* Fetches and the users of the cache are the same.
LEMMA UsersFetch == Users = Fetches
  BY InterceptionAssumption

\* A user without a call of set may want another URL.
LEMMA WantsChange ==
  ASSUME CacheInv, NEW f \in Users, setting[f].at # "evict", NEW url \in Urls \cup {NoUrl},
         wants' = [wants EXCEPT ![f] = url], UNCHANGED <<store, setting, faults, tainted>>
  PROVE  CacheInv'
  <1>1. UNCHANGED <<driver, db, stored, accessed, fresh, storedAt>>
    BY DEF store, content
  <1>2. /\ wants' \in [Users -> Urls \cup {NoUrl}]
        /\ \A u \in Users : setting[u].at = "evict" => wants'[u] = wants[u]
    BY DEF CacheInv, CacheTypeOK
  <1>3. CacheTypeOK' /\ IsFiniteSet(stored') /\ BoundsKept'
    BY <1>1, <1>2 DEF CacheInv, CacheTypeOK, BoundsKept, TotalSize, Bytes
  <1>4. RoomLeft'
    <2> SUFFICES ASSUME NEW u \in Users, setting[u].at = "evict", setting[u].alone
                 PROVE  \/ stored \subseteq ToSet(setting[u].evict)
                        \/ HasRoom(stored \ ToSet(setting[u].evict), SizeOf[wants'[u]])
      BY <1>1 DEF RoomLeft, HasRoom, TotalSize, Bytes
    <2> QED
      BY <1>2 DEF CacheInv, RoomLeft
  <1>5. OldestChosen'
    BY <1>1 DEF CacheInv, OldestChosen
  <1>6. \A u \in Users : setting'[u].at = "evict" => driver' = "indexeddb" /\ wants'[u] \in Urls
    BY <1>1, <1>2 DEF CacheInv
  <1> QED
    BY <1>3, <1>4, <1>5, <1>6 DEF CacheInv

\* Nothing of the cache changes.
LEMMA CacheStays ==
  ASSUME CacheInv, UNCHANGED cacheVars
  PROVE  CacheInv' /\ UNCHANGED <<setting, wants>>
  BY DEF CacheInv, CacheTypeOK, BoundsKept, RoomLeft, OldestChosen, TotalSize, Bytes, HasRoom,
         cacheVars, store, content

\* A fetch is intercepted, for the page or for the fallback of a task.
LEMMA InterceptKeeps ==
  ASSUME InterceptionInv, NEW f \in Fetches, NEW from \in {App} \cup Fetches, from # f,
         NEW url \in Urls, NEW rest, Intercept(f, from, url, rest),
         rest \in [Fetches -> {"none", "lookup", "acquire", "fetching", "setting",
                               "stored", "request", "reread", "over"}],
         \A g \in Fetches : /\ rest[g] = "setting" <=> task[g] = "setting"
                            /\ worker[g] = "idle" => rest[g] = task[g]
  PROVE  InterceptionInv'
  <1>1. /\ worker[f] = "idle"
        /\ by' = [by EXCEPT ![f] = from]
        /\ wants' = [wants EXCEPT ![f] = url]
        /\ worker' = [worker EXCEPT ![f] = "asked"] \/ worker' = [worker EXCEPT ![f] = "network"]
        /\ task' = [rest EXCEPT ![f] = "lookup"] \/ task' = rest
        /\ UNCHANGED <<store, setting, faults, tainted>>
    BY DEF Intercept
  <1>2. task[f] = "none" /\ rest[f] = "none" /\ setting[f].at # "evict"
    BY <1>1 DEF InterceptionInv, Tasks
  <1>3. CacheInv'
    <2>1. f \in Users /\ url \in Urls \cup {NoUrl}
      BY UsersFetch
    <2> QED
      BY <1>1, <1>2, <2>1, WantsChange DEF InterceptionInv
  <1>4. Handlings'
    <2>1. worker' \in [Fetches -> {"idle", "asked", "network", "over"}]
      BY <1>1 DEF InterceptionInv, Handlings
    <2>2. task' \in [Fetches -> {"none", "lookup", "acquire", "fetching", "setting",
                                 "stored", "request", "reread", "over"}]
      BY <1>1
    <2>3. by' \in [Fetches -> {App} \cup Fetches] /\ \A g \in Fetches : by'[g] # g
      BY <1>1 DEF InterceptionInv, Handlings
    <2> QED
      BY <2>1, <2>2, <2>3 DEF Handlings
  <1>5. Tasks'
    <2> SUFFICES ASSUME NEW g \in Fetches
                 PROVE  /\ setting[g].at = "evict" <=> task'[g] = "setting"
                        /\ worker'[g] = "idle" => task'[g] = "none"
                        /\ worker'[g] # "idle" => wants'[g] \in Urls
      BY <1>1 DEF Tasks
    <2>1. wants \in [Fetches -> Urls \cup {NoUrl}]
      BY UsersFetch DEF InterceptionInv, CacheInv, CacheTypeOK
    <2>2. CASE g = f
      <3>1. worker'[f] # "idle" /\ wants'[f] = url /\ task'[f] # "setting"
        BY <1>1, <1>2, <2>1 DEF InterceptionInv, Handlings
      <3> QED
        BY <1>2, <2>2, <3>1
    <2>3. CASE g # f
      <3>1. worker'[g] = worker[g] /\ wants'[g] = wants[g] /\ task'[g] = rest[g]
        BY <1>1, <2>1, <2>3 DEF InterceptionInv, Handlings
      <3> QED
        BY <3>1 DEF InterceptionInv, Tasks
    <2> QED
      BY <2>2, <2>3
  <1> QED
    BY <1>3, <1>4, <1>5 DEF InterceptionInv

\* The content of the page fetches.
LEMMA AppFetchesKeeps ==
  ASSUME InterceptionInv, NEW f \in Fetches, NEW url \in Urls, AppFetches(f, url)
  PROVE  InterceptionInv'
  <1>1. App # f
    BY InterceptionAssumption
  <1>2. task \in [Fetches -> {"none", "lookup", "acquire", "fetching", "setting",
                              "stored", "request", "reread", "over"}]
    BY DEF InterceptionInv, Handlings
  <1> QED
    BY <1>1, <1>2, InterceptKeeps DEF AppFetches

\* A task falls back to HTTP.
LEMMA FallbackKeeps ==
  ASSUME InterceptionInv, NEW f \in Fetches, NEW g \in Fetches, fallbackToHttp(f, g)
  PROVE  InterceptionInv'
  <1> DEFINE rest == [task EXCEPT ![f] = "fetching"]
  <1>1. task[f] = "acquire" /\ Intercept(g, f, wants[f], rest) /\ worker[g] = "idle"
    BY DEF fallbackToHttp, Intercept
  <1>2. f # g /\ wants[f] \in Urls /\ worker[f] # "idle"
    BY <1>1 DEF InterceptionInv, Tasks
  <1>3. /\ rest \in [Fetches -> {"none", "lookup", "acquire", "fetching", "setting",
                                 "stored", "request", "reread", "over"}]
        /\ \A h \in Fetches : /\ rest[h] = "setting" <=> task[h] = "setting"
                              /\ worker[h] = "idle" => rest[h] = task[h]
    BY <1>1, <1>2 DEF InterceptionInv, Handlings
  <1> HIDE DEF rest
  <1> QED
    BY <1>1, <1>2, <1>3, InterceptKeeps

\* The worker goes on by itself.
LEMMA WorkerKeeps ==
  ASSUME InterceptionInv, NEW f \in Fetches, WorkerStep(f)
  PROVE  InterceptionInv'
  <1>1. /\ worker[f] # "idle"
        /\ \/ worker' = [worker EXCEPT ![f] = "network"]
           \/ worker' = [worker EXCEPT ![f] = "over"]
        /\ UNCHANGED <<cacheVars, task, by>>
    BY DEF WorkerStep, TimesOut, NetworkAnswers
  <1>2. CacheInv' /\ UNCHANGED <<setting, wants>>
    BY <1>1, CacheStays DEF InterceptionInv
  <1>3. Handlings'
    BY <1>1 DEF InterceptionInv, Handlings
  <1>4. Tasks'
    BY <1>1, <1>2 DEF InterceptionInv, Handlings, Tasks
  <1> QED
    BY <1>2, <1>3, <1>4 DEF InterceptionInv

\* A step of one task, whatever it does to the cache: what is left to show is that the task
\* and its call of set still go together.
LEMMA TaskMoves ==
  ASSUME InterceptionInv, NEW f \in Fetches, worker[f] # "idle", CacheInv', UNCHANGED wants,
         NEW next \in {"none", "lookup", "acquire", "fetching", "setting",
                       "stored", "request", "reread", "over"},
         task' = [task EXCEPT ![f] = next],
         setting'[f].at = "evict" <=> next = "setting",
         \A g \in Users : g # f => setting'[g].at = setting[g].at,
         \/ UNCHANGED worker
         \/ worker' = [worker EXCEPT ![f] = "over"]
         \/ worker' = [worker EXCEPT ![f] = "network"],
         by' \in [Fetches -> {App} \cup Fetches], \A g \in Fetches : by'[g] # g
  PROVE  InterceptionInv'
  <1>1. Handlings'
    <2>1. worker' \in [Fetches -> {"idle", "asked", "network", "over"}]
      BY DEF InterceptionInv, Handlings
    <2>2. task' \in [Fetches -> {"none", "lookup", "acquire", "fetching", "setting",
                                 "stored", "request", "reread", "over"}]
      BY DEF InterceptionInv, Handlings
    <2> QED
      BY <2>1, <2>2 DEF Handlings
  <1>2. Tasks'
    <2> SUFFICES ASSUME NEW g \in Fetches
                 PROVE  /\ setting'[g].at = "evict" <=> task'[g] = "setting"
                        /\ worker'[g] = "idle" => task'[g] = "none"
                        /\ worker'[g] # "idle" => wants[g] \in Urls
      BY DEF Tasks
    <2>1. worker'[g] = "idle" <=> worker[g] = "idle"
      BY DEF InterceptionInv, Handlings
    <2>2. CASE g = f
      <3>1. task'[f] = next
        BY DEF InterceptionInv, Handlings
      <3> QED
        BY <2>1, <2>2, <3>1 DEF InterceptionInv, Tasks
    <2>3. CASE g # f
      <3>1. task'[g] = task[g] /\ setting'[g].at = setting[g].at
        BY <2>3, UsersFetch DEF InterceptionInv, Handlings
      <3> QED
        BY <2>1, <3>1 DEF InterceptionInv, Tasks
    <2> QED
      BY <2>2, <2>3
  <1> QED
    BY <1>1, <1>2 DEF InterceptionInv

\* What a task under way has: a URL, and a worker that is not idle.
LEMMA UnderWay ==
  ASSUME InterceptionInv, NEW f \in Fetches, task[f] # "none"
  PROVE  /\ f \in Users /\ worker[f] # "idle" /\ wants[f] \in Urls
         /\ setting[f].at = "evict" <=> task[f] = "setting"
         /\ by \in [Fetches -> {App} \cup Fetches] /\ \A g \in Fetches : by[g] # g
  BY UsersFetch DEF InterceptionInv, Tasks, Handlings

\* An answer ends the task, and the fetch or its wait for the page.
LEMMA ReplyMoves ==
  ASSUME InterceptionInv, NEW f \in Fetches, NEW success, Reply(f, success)
  PROVE  /\ task' = [task EXCEPT ![f] = "over"]
         /\ \/ UNCHANGED worker
            \/ worker' = [worker EXCEPT ![f] = "over"]
            \/ worker' = [worker EXCEPT ![f] = "network"]
  BY DEF Reply

\* requestAssetBlob looks in the cache.
LEMMA LookupKeeps ==
  ASSUME InterceptionInv, NEW f \in Fetches, Lookup(f)
  PROVE  InterceptionInv'
  <1>1. task[f] = "lookup" /\ UNCHANGED by
    BY DEF Lookup
  <1>2. PICK found \in BOOLEAN :
          /\ get(f, found)
          /\ \/ Reply(f, TRUE)
             \/ task' = [task EXCEPT ![f] = "request"] /\ UNCHANGED worker
    BY DEF Lookup
  <1>3. /\ f \in Users /\ worker[f] # "idle" /\ wants[f] \in Urls
        /\ setting[f].at # "evict"
        /\ by \in [Fetches -> {App} \cup Fetches] /\ \A g \in Fetches : by[g] # g
    BY <1>1, UnderWay
  <1>4. CacheInv' /\ UNCHANGED wants /\ \A w \in Users : setting'[w].at = setting[w].at
    BY <1>2, <1>3, GetKeeps DEF InterceptionInv
  <1>5. CASE Reply(f, TRUE)
    BY <1>1, <1>3, <1>4, <1>5, ReplyMoves, TaskMoves
  <1>6. CASE task' = [task EXCEPT ![f] = "request"] /\ UNCHANGED worker
    BY <1>1, <1>3, <1>4, <1>6, TaskMoves
  <1> QED
    BY <1>2, <1>5, <1>6

\* requestAsset asks for an object URL.
LEMMA GetUrlKeeps ==
  ASSUME InterceptionInv, NEW f \in Fetches, GetUrl(f)
  PROVE  InterceptionInv'
  <1>1. task[f] \in {"request", "stored"} /\ UNCHANGED <<worker, by>>
    BY DEF GetUrl
  <1>2. PICK found \in BOOLEAN :
          /\ getObjectUrl(f, found)
          /\ \/ task' = [task EXCEPT ![f] = "reread"]
             \/ task' = [task EXCEPT ![f] = "acquire"]
    BY DEF GetUrl
  <1>3. /\ f \in Users /\ worker[f] # "idle" /\ wants[f] \in Urls
        /\ setting[f].at # "evict"
        /\ by \in [Fetches -> {App} \cup Fetches] /\ \A g \in Fetches : by[g] # g
    BY <1>1, UnderWay
  <1>4. CacheInv' /\ UNCHANGED wants /\ \A w \in Users : setting'[w].at = setting[w].at
    BY <1>2, <1>3, GetObjectUrlKeeps DEF InterceptionInv
  <1>5. CASE task' = [task EXCEPT ![f] = "reread"]
    BY <1>1, <1>3, <1>4, <1>5, TaskMoves
  <1>6. CASE task' = [task EXCEPT ![f] = "acquire"]
    BY <1>1, <1>3, <1>4, <1>6, TaskMoves
  <1> QED
    BY <1>2, <1>5, <1>6

\* The blob of a task goes to the cache.
LEMMA StoreKeeps ==
  ASSUME InterceptionInv, NEW f \in Fetches, task[f] \in {"acquire", "fetching"}, Store(f),
         UNCHANGED worker, by' \in [Fetches -> {App} \cup Fetches],
         \A g \in Fetches : by'[g] # g
  PROVE  InterceptionInv'
  <1>1. f \in Users /\ worker[f] # "idle" /\ wants[f] \in Urls /\ setting[f].at # "evict"
    BY UnderWay
  <1>2. CASE BeginSet(f) /\ task' = [task EXCEPT ![f] = "setting"]
    <2>1. /\ CacheInv' /\ UNCHANGED wants
          /\ setting'[f].at = "evict"
          /\ \A w \in Users : w # f => setting'[w].at = setting[w].at
      BY <1>1, <1>2, BeginSetKeeps DEF InterceptionInv
    <2> QED
      BY <1>1, <1>2, <2>1, TaskMoves
  <1>3. CASE (SetInMemory(f) \/ SetNothing(f)) /\ task' = [task EXCEPT ![f] = "stored"]
    <2>1. CacheInv' /\ UNCHANGED <<setting, wants>>
      BY <1>1, <1>3, SetInMemoryKeeps, SetNothingKeeps DEF InterceptionInv
    <2> QED
      BY <1>1, <1>3, <2>1, TaskMoves
  <1> QED
    BY <1>2, <1>3 DEF Store

\* The swarm delivers.
LEMMA SwarmDeliversKeeps ==
  ASSUME InterceptionInv, NEW f \in Fetches, SwarmDelivers(f)
  PROVE  InterceptionInv'
  BY StoreKeeps, UnderWay DEF SwarmDelivers

\* A task ends with an error and leaves the cache alone.
LEMMA GivesUp ==
  ASSUME InterceptionInv, NEW f \in Fetches, task[f] \in {"acquire", "fetching"},
         Reply(f, FALSE), UNCHANGED cacheVars, by' \in [Fetches -> {App} \cup Fetches],
         \A g \in Fetches : by'[g] # g
  PROVE  InterceptionInv'
  <1>1. f \in Users /\ worker[f] # "idle" /\ setting[f].at # "evict"
    BY UnderWay
  <1>2. CacheInv' /\ UNCHANGED <<setting, wants>>
    BY CacheStays DEF InterceptionInv
  <1> QED
    BY <1>1, <1>2, ReplyMoves, TaskMoves

\* connect is rejected.
LEMMA RejectedKeeps ==
  ASSUME InterceptionInv, NEW f \in Fetches, Rejected(f)
  PROVE  InterceptionInv'
  BY GivesUp, UnderWay DEF Rejected

\* The fallback of a task ends.
LEMMA FallbackEndsKeeps ==
  ASSUME InterceptionInv, NEW f \in Fetches, NEW g \in Fetches, FallbackEnds(f, g)
  PROVE  InterceptionInv'
  <1>1. task[f] = "fetching" /\ by' = [by EXCEPT ![g] = App]
    BY DEF FallbackEnds
  <1>2. by' \in [Fetches -> {App} \cup Fetches] /\ \A h \in Fetches : by'[h] # h
    BY <1>1, UnderWay, InterceptionAssumption
  <1>3. CASE Store(f) /\ UNCHANGED worker
    BY <1>1, <1>2, <1>3, StoreKeeps
  <1>4. CASE Reply(f, FALSE) /\ UNCHANGED cacheVars
    BY <1>1, <1>2, <1>4, GivesUp
  <1> QED
    BY <1>3, <1>4 DEF FallbackEnds

\* A transaction of the task's set.
LEMMA SetStepKeeps ==
  ASSUME InterceptionInv, NEW f \in Fetches, SetStep(f)
  PROVE  InterceptionInv'
  <1>1. task[f] = "setting" /\ UNCHANGED <<worker, by>>
    BY DEF SetStep
  <1>2. /\ f \in Users /\ worker[f] # "idle" /\ setting[f].at = "evict"
        /\ by \in [Fetches -> {App} \cup Fetches] /\ \A g \in Fetches : by[g] # g
    BY <1>1, UnderWay
  <1>3. CASE (EvictNext(f) \/ EvictFails(f)) /\ UNCHANGED task
    <2>1. CacheInv' /\ UNCHANGED wants /\ \A w \in Users : setting'[w].at = setting[w].at
      BY <1>2, <1>3, EvictNextKeeps, EvictFailsKeeps DEF InterceptionInv
    <2>2. task' = [task EXCEPT ![f] = "setting"]
      BY <1>1, <1>3 DEF InterceptionInv, Handlings
    <2> QED
      BY <1>1, <1>2, <2>1, <2>2, TaskMoves
  <1>4. CASE (EndSet(f) \/ PutFails(f)) /\ task' = [task EXCEPT ![f] = "stored"]
    <2>1. /\ CacheInv' /\ UNCHANGED wants
          /\ setting'[f].at = "idle"
          /\ \A w \in Users : w # f => setting'[w].at = setting[w].at
      BY <1>2, <1>4, EndSetKeeps, PutFailsKeeps DEF InterceptionInv
    <2> QED
      BY <1>1, <1>2, <1>4, <2>1, TaskMoves
  <1> QED
    BY <1>3, <1>4 DEF SetStep

\* requestAssetBlob reads what was stored.
LEMMA RereadKeeps ==
  ASSUME InterceptionInv, NEW f \in Fetches, Reread(f)
  PROVE  InterceptionInv'
  <1>1. task[f] = "reread" /\ UNCHANGED by
    BY DEF Reread
  <1>2. PICK found \in BOOLEAN : get(f, found) /\ Reply(f, found)
    BY DEF Reread
  <1>3. /\ f \in Users /\ worker[f] # "idle" /\ wants[f] \in Urls
        /\ setting[f].at # "evict"
        /\ by \in [Fetches -> {App} \cup Fetches] /\ \A g \in Fetches : by[g] # g
    BY <1>1, UnderWay
  <1>4. CacheInv' /\ UNCHANGED wants /\ \A w \in Users : setting'[w].at = setting[w].at
    BY <1>2, <1>3, GetKeeps DEF InterceptionInv
  <1> QED
    BY <1>1, <1>2, <1>3, <1>4, ReplyMoves, TaskMoves

\* A fetch that is over on all sides is forgotten.
LEMMA ForgetKeeps ==
  ASSUME InterceptionInv, NEW f \in Fetches, Forget(f)
  PROVE  InterceptionInv'
  <1>1. /\ task[f] \in {"none", "over"}
        /\ worker' = [worker EXCEPT ![f] = "idle"]
        /\ task' = [task EXCEPT ![f] = "none"]
        /\ wants' = [wants EXCEPT ![f] = NoUrl]
        /\ UNCHANGED <<store, setting, faults, tainted>> /\ UNCHANGED by
    BY DEF Forget
  <1>2. setting[f].at # "evict" /\ f \in Users
    BY <1>1, UsersFetch DEF InterceptionInv, Tasks
  <1>3. CacheInv'
    BY <1>1, <1>2, WantsChange DEF InterceptionInv
  <1>4. Handlings'
    BY <1>1 DEF InterceptionInv, Handlings
  <1>5. Tasks'
    <2>1. wants \in [Fetches -> Urls \cup {NoUrl}]
      BY UsersFetch DEF InterceptionInv, CacheInv, CacheTypeOK
    <2> QED
      BY <1>1, <1>2, <2>1 DEF InterceptionInv, Handlings, Tasks
  <1> QED
    BY <1>3, <1>4, <1>5 DEF InterceptionInv

\* A step of the cache that is of no call of set.
LEMMA CacheKeeps ==
  ASSUME InterceptionInv, CacheInv', UNCHANGED <<setting, wants>>, UNCHANGED workerVars
  PROVE  InterceptionInv'
  BY DEF InterceptionInv, Handlings, Tasks, workerVars

------------------------------------------------------------------------------
(* The theorems *)

\* The invariant holds at the start.
LEMMA InitInv == Init => InterceptionInv
  <1> SUFFICES ASSUME Init
               PROVE  InterceptionInv
    OBVIOUS
  <1>1. /\ driver \in {"memory", "indexeddb"}
        /\ db \in {"closed", "open"}
        /\ stored = {} /\ accessed = {} /\ fresh = {} /\ storedAt = {}
        /\ setting = [u \in Users |-> NotSetting]
        /\ faults = 0
        /\ wants = [u \in Users |-> NoUrl]
        /\ tainted = FALSE
    BY DEF Init, CacheInit
  <1>2. CacheTypeOK
    <2>1. Orders({}, {})
      BY DEF Orders
    <2>2. NotSetting \in [at : {"idle", "evict"}, evict : Seq(Urls), alone : BOOLEAN,
                          touched : SUBSET Urls]
      BY DEF NotSetting
    <2>3. faults \in 0..MaxFaults
      BY <1>1, CacheAssumption
    <2> QED
      BY <1>1, <2>1, <2>2, <2>3 DEF CacheTypeOK
  <1>3. IsFiniteSet({}) /\ Cardinality({}) = 0
    BY FS_EmptySet
  <1>4. BoundsKept
    <2>1. Bytes({}) = {}
      BY DEF Bytes
    <2>2. TotalSize(stored) = 0 /\ Cardinality(stored) = 0
      BY <1>1, <1>3, <2>1 DEF TotalSize
    <2> QED
      BY <2>2, CacheAssumption DEF BoundsKept
  <1>5. \A u \in Users : setting[u].at = "idle"
    BY <1>1 DEF NotSetting
  <1>6. CacheInv
    BY <1>1, <1>2, <1>3, <1>4, <1>5 DEF CacheInv, RoomLeft, OldestChosen
  <1>7. Handlings
    BY InterceptionAssumption DEF Init, Handlings
  <1>8. Tasks
    BY <1>5, UsersFetch DEF Init, Tasks
  <1> QED
    BY <1>6, <1>7, <1>8 DEF InterceptionInv

\* And every step keeps it.
LEMMA Step == InterceptionInv /\ [Next]_vars => InterceptionInv'
  <1> SUFFICES ASSUME InterceptionInv, [Next]_vars
               PROVE  InterceptionInv'
    OBVIOUS
  <1>1. CASE \E f \in Fetches, url \in Urls : AppFetches(f, url)
    BY <1>1, AppFetchesKeeps
  <1>2. CASE \E f \in Fetches : WorkerStep(f)
    BY <1>2, WorkerKeeps
  <1>3. CASE \E f \in Fetches : TaskStep(f)
    <2>1. PICK f \in Fetches : TaskStep(f)
      BY <1>3
    <2>2. CASE \E g \in Fetches : fallbackToHttp(f, g) \/ FallbackEnds(f, g)
      BY <2>2, FallbackKeeps, FallbackEndsKeeps
    <2> QED
      BY <2>1, <2>2, LookupKeeps, GetUrlKeeps, SwarmDeliversKeeps, RejectedKeeps, SetStepKeeps,
         RereadKeeps
      DEF TaskStep
  <1>4. CASE \E f \in Fetches : Forget(f)
    BY <1>4, ForgetKeeps
  <1>5. CASE getDB /\ UNCHANGED workerVars
    BY <1>5, GetDBKeeps, CacheKeeps DEF InterceptionInv
  <1>6. CASE Expire /\ UNCHANGED workerVars
    BY <1>6, ExpireKeeps, CacheKeeps DEF InterceptionInv
  <1>7. CASE clear /\ UNCHANGED workerVars
    BY <1>7, ClearKeeps, CacheKeeps DEF InterceptionInv
  <1>8. CASE UNCHANGED vars
    <2>1. UNCHANGED cacheVars /\ UNCHANGED workerVars
      BY <1>8 DEF vars
    <2> QED
      BY <2>1, CacheStays, CacheKeeps DEF InterceptionInv
  <1> QED
    BY <1>1, <1>2, <1>3, <1>4, <1>5, <1>6, <1>7, <1>8 DEF Next

\* The inductive invariant.
LEMMA Invariant == Spec => []InterceptionInv
  BY InitInv, Step, PTL DEF Spec

\* Every variable keeps its shape: in particular no entry of the store ever has two times of a
\* kind, nor two entries the same, whatever transactions come in between or fail.
THEOREM InterceptionTypes == Spec => []TypeOK
  <1>1. InterceptionInv => TypeOK
    BY DEF InterceptionInv, CacheInv, Handlings, TypeOK
  <1> QED
    BY <1>1, Invariant, PTL

\* The store keeps to maxSizeBytes and maxEntries, for all sizes, limits and numbers of users:
\* only a blob too large for any store, calls of set that overlap and evictions that fail
\* take it beyond them (findEvictionCandidates, MemoryCache.set, IndexedDBCache.set).
THEOREM StoreKeepsItsBounds == Spec => []BoundsKept
  <1>1. InterceptionInv => BoundsKept
    BY DEF InterceptionInv, CacheInv
  <1> QED
    BY <1>1, Invariant, PTL

\* An eviction, however long after the entry was chosen, is of an expired entry, of one that
\* was read or put since, or of one accessed before every entry that the call spares
\* (findEvictionCandidates, IndexedDBCache.set).
THEOREM EvictionsAreOfTheLeastRecent == Spec => EvictsLeastRecent
  <1> DEFINE right ==
        \A u \in Users : EvictNext(u) =>
          LET url == Head(setting[u].evict)
              spared == stored \ (ToSet(setting[u].evict) \cup setting[u].touched)
          IN  url \in fresh \ setting[u].touched => \A v \in spared : <<url, v>> \in accessed
  <1>1. InterceptionInv => right
    <2> SUFFICES ASSUME InterceptionInv, NEW u \in Users, EvictNext(u),
                        Head(setting[u].evict) \in fresh \ setting[u].touched,
                        NEW v \in stored \ (ToSet(setting[u].evict) \cup setting[u].touched)
                 PROVE  <<Head(setting[u].evict), v>> \in accessed
      OBVIOUS
    <2>1. setting[u].at = "evict" /\ setting[u].evict # <<>>
      BY DEF EvictNext
    <2>2. setting[u].evict \in Seq(Urls)
      BY DEF InterceptionInv, CacheInv, CacheTypeOK
    <2>3. Head(setting[u].evict) \in ToSet(setting[u].evict)
      BY <2>1, <2>2, ListSplits
    <2> QED
      BY <2>1, <2>3 DEF InterceptionInv, CacheInv, OldestChosen
  <1> HIDE DEF right
  <1>2. InterceptionInv => [right]_cacheVars
    BY <1>1, Zenon
  <1>3. Spec => [][right]_cacheVars
    BY <1>2, Invariant, PTL
  <1> QED
    BY <1>3 DEF right, EvictsLeastRecent

==============================================================================
