-------------------------------- MODULE Cache --------------------------------
(***************************************************************************)
(* The stores behind CacheManager, MemoryCache and IndexedDBCache, with    *)
(* their eviction policy.  MemoryCache does each operation at once.        *)
(* IndexedDBCache.set is a transaction that lists the entries, one for     *)
(* every entry to evict, and one that puts, each awaited, so that other    *)
(* operations come in between; its get is one transaction.  A transaction  *)
(* may fail, and operations swallow that.  Which object URLs CacheManager  *)
(* has given out is left to AssetRequest: here it may have any.            *)
(*                                                                         *)
(* A store is the set of the URLs in it, their order by lastAccessedAt     *)
(* and, of those whose TTL has not passed, their order by storedAt.  An    *)
(* order is a set of pairs, the earlier one first: no two times are equal. *)
(***************************************************************************)
EXTENDS Naturals, Sequences, SequencesExt, FiniteSets

CONSTANTS
  Urls,
  SizeOf,       \* the size of the blob of a URL
  MaxSize,      \* maxSizeBytes
  MaxEntries,
  Users,        \* those who call set, one call at a time each
  NoUrl,
  MaxFaults     \* bound: transactions that fail in a behaviour

ASSUME CacheAssumption ==
  /\ SizeOf \in [Urls -> Nat]
  /\ MaxSize \in Nat /\ MaxEntries \in Nat
  /\ NoUrl \notin Urls
  /\ MaxFaults \in Nat

VARIABLES
  driver,   \* the store that CacheManager chose
  db,       \* dbPromise: not asked for, open, or rejected for good
  stored,   \* the URLs in the store
  accessed, \* their order by lastAccessedAt
  fresh,    \* those whose TTL has not passed
  storedAt, \* their order by storedAt
  setting,  \* the calls of IndexedDBCache.set
  faults,
  wants,    \* the URL a user is after
  tainted   \* history: the last put was of a blob too large for any store, overlapped
            \* another, or came after a failed eviction

content == <<stored, accessed, fresh, storedAt>>
store == <<driver, db, content>>
cacheVars == <<store, setting, faults, wants, tainted>>

\* A call of set: the entries it has still to evict and, for the properties, whether since it
\* listed the store nobody has put and no deletion of its own failed, and the entries to evict
\* that were read or put since or that it could not delete.
NotSetting == [at |-> "idle", evict |-> <<>>, alone |-> TRUE, touched |-> {}]

CacheInit ==
  /\ driver \in {"memory", "indexeddb"}
  /\ db = IF driver = "memory" THEN "open" ELSE "closed"
  /\ stored = {} /\ accessed = {}
  /\ fresh = {} /\ storedAt = {}
  /\ setting = [u \in Users |-> NotSetting]
  /\ faults = 0
  /\ wants = [u \in Users |-> NoUrl]
  /\ tainted = FALSE

Usable == db = "open"

\* getDB: the first user opens the database; if that fails the promise stays rejected.
getDB ==
  /\ db = "closed"
  /\ db' \in {"open", "failed"}
  /\ UNCHANGED <<driver, content, setting, faults, wants, tainted>>

\* A transaction may fail, but a Map does not.
Faulty ==
  /\ driver = "indexeddb" /\ Usable
  /\ faults < MaxFaults
  /\ faults' = faults + 1

------------------------------------------------------------------------------
(* LRUPolicy *)

\* The bytes of the blobs of `urls', and how many they are.
Bytes(urls) == UNION {{url} \X (1..SizeOf[url]) : url \in urls}
TotalSize(urls) == Cardinality(Bytes(urls))

\* Beside `urls' there is room for one more entry of this size.
HasRoom(urls, size) ==
  TotalSize(urls) + size =< MaxSize /\ Cardinality(urls) + 1 =< MaxEntries

\* What of the fresh entries is left when those accessed before url are gone.
From(url) == {v \in fresh : v = url \/ <<url, v>> \in accessed}

\* Faulty variant: the incoming entry is not counted.
findEvictionCandidatesUncounted(size) ==
  (stored \ fresh) \cup
    {url \in fresh : ~ (TotalSize(From(url)) =< MaxSize /\ Cardinality(From(url)) =< MaxEntries)}

\* Faulty variant: the most recently used first.
findEvictionCandidatesNewest(size) ==
  (stored \ fresh) \cup
    {url \in fresh : ~HasRoom({v \in fresh : v = url \/ <<v, url>> \in accessed}, size)}

\* The expired entries, and of the others the least recently used, until what remains has
\* room for one more entry of this size: url goes if too much remains when it is next.  An
\* entry that the incoming one will replace counts like any other.
findEvictionCandidates(size) ==
  (stored \ fresh) \cup {url \in fresh : ~HasRoom(From(url), size)}

\* The lists it may return: the expired entries come first, in the order of the store, then
\* the others, the least recently used first.
EvictionLists(size) ==
  {list \in SetToSeqs(findEvictionCandidates(size)) :
     \A i, j \in DOMAIN list :
       i < j /\ list[i] \in fresh => list[j] \in fresh /\ <<list[i], list[j]>> \in accessed}

------------------------------------------------------------------------------
(* The stores' operations *)

\* The order `before' of what is among `urls'.
Among(before, urls) == {p \in before : p[1] \in urls /\ p[2] \in urls}

\* Faulty variant: the old time is kept beside the new one.
RenewBeside(before, urls, url) == before \cup ((urls \ {url}) \X {url})

\* The order `before' of `urls' when url has been given the time of now.
Renew(before, urls, url) ==
  {p \in before : p[1] # url} \cup ((urls \ {url}) \X {url})

\* Only `urls' stay in the store.
Retain(urls) ==
  /\ stored' = stored \cap urls
  /\ accessed' = Among(accessed, urls)
  /\ fresh' = fresh \cap urls
  /\ storedAt' = Among(storedAt, urls)

Drop(urls) == Retain(stored \ urls)

\* When only `urls' are left in the store, an entry is stored, or replaced, with new times.
Put(urls, url) ==
  /\ stored' = urls \cup {url}
  /\ accessed' = Renew(Among(accessed, urls), urls, url)
  /\ fresh' = (fresh \cap urls) \cup {url}
  /\ storedAt' = Renew(Among(storedAt, urls), fresh \cap urls, url)

\* Those who are about to evict an entry do not know that it was read.
Touch(url) ==
  [u \in Users |-> IF url \notin ToSet(setting[u].evict) THEN setting[u]
                   ELSE [setting[u] EXCEPT !.touched = @ \cup {url}]]

Hit(url) == Usable /\ url \in fresh

\* get: a hit renews the time of access, an entry that expired is deleted, and a failure is
\* a miss.
get(u, found) ==
  LET url == wants[u] IN
    /\ \/ /\ Hit(url) /\ found
          /\ accessed' = Renew(accessed, stored, url)
          /\ setting' = Touch(url)
          /\ UNCHANGED <<stored, fresh, storedAt, faults>>
       \/ /\ ~Hit(url) /\ ~found
          /\ IF Usable THEN Drop({url}) ELSE UNCHANGED content
          /\ UNCHANGED <<setting, faults>>
       \/ /\ Faulty /\ ~found
          /\ UNCHANGED <<content, setting>>
    /\ UNCHANGED <<driver, db, wants, tainted>>

\* getObjectUrl, which looks in the store only if it has no object URL yet.
getObjectUrl(u, found) ==
  \/ found /\ UNCHANGED cacheVars
  \/ get(u, found)

\* set, when the database is not to be had, or its entries cannot be listed: nothing
\* happens.
SetNothing(u) ==
  /\ \/ db = "failed" /\ UNCHANGED faults
     \/ Faulty
  /\ UNCHANGED <<store, setting, wants, tainted>>

\* MemoryCache.set.
SetInMemory(u) ==
  LET size == SizeOf[wants[u]] IN
    /\ driver = "memory"
    /\ Put(stored \ findEvictionCandidates(size), wants[u])
    /\ tainted' = ~HasRoom({}, size)
    /\ UNCHANGED <<driver, db, setting, faults, wants>>

\* IndexedDBCache.set: the entries are listed and those to evict chosen.
BeginSet(u) ==
  /\ driver = "indexeddb" /\ Usable
  /\ \E list \in EvictionLists(SizeOf[wants[u]]) :
       setting' = [setting EXCEPT ![u] =
         [at |-> "evict", evict |-> list, alone |-> TRUE, touched |-> {}]]
  /\ UNCHANGED <<store, faults, wants, tainted>>

\* The next of them is deleted.
EvictNext(u) ==
  /\ setting[u].at = "evict" /\ setting[u].evict # <<>>
  /\ Drop({Head(setting[u].evict)})
  /\ setting' = [setting EXCEPT ![u].evict = Tail(@),
                                ![u].touched = @ \ {Head(setting[u].evict)}]
  /\ UNCHANGED <<driver, db, faults, wants, tainted>>

\* And the blob is put.
EndSet(u) ==
  LET url == wants[u] IN
    /\ setting[u].at = "evict" /\ setting[u].evict = <<>>
    /\ Put(stored, url)
    /\ tainted' = (~setting[u].alone \/ ~HasRoom({}, SizeOf[url]))
    /\ setting' = [w \in Users |-> IF w = u \/ setting[w].at = "idle" THEN NotSetting
                                   ELSE [Touch(url)[w] EXCEPT !.alone = FALSE]]
    /\ UNCHANGED <<driver, db, faults, wants>>

\* A deletion fails, which set does not notice.
EvictFails(u) ==
  /\ Faulty
  /\ setting[u].at = "evict" /\ setting[u].evict # <<>>
  /\ setting' = [setting EXCEPT ![u].evict = Tail(@), ![u].alone = FALSE,
                                ![u].touched = @ \cup {Head(setting[u].evict)}]
  /\ UNCHANGED <<store, wants, tainted>>

\* The put fails, with the evictions done; the caller is not told.
PutFails(u) ==
  /\ Faulty
  /\ setting[u].at = "evict" /\ setting[u].evict = <<>>
  /\ setting' = [setting EXCEPT ![u] = NotSetting]
  /\ UNCHANGED <<store, wants, tainted>>

\* The TTL of the entry that was stored first passes.
Expire ==
  /\ \E url \in fresh :
       /\ \A v \in fresh \ {url} : <<url, v>> \in storedAt
       /\ fresh' = fresh \ {url}
       /\ storedAt' = Among(storedAt, fresh \ {url})
  /\ UNCHANGED <<driver, db, stored, accessed, setting, faults, wants, tainted>>

\* clear, which may fail.
clear ==
  /\ Usable
  /\ \/ Drop(stored) /\ UNCHANGED faults
     \/ Faulty /\ UNCHANGED content
  /\ UNCHANGED <<driver, db, setting, wants, tainted>>

------------------------------------------------------------------------------
(* Properties *)

\* `before' orders S by times that differ.
Orders(before, S) ==
  /\ before \subseteq S \X S
  /\ \A x, y \in S : x # y => (<<x, y>> \in before <=> <<y, x>> \notin before)
  /\ \A x \in S : <<x, x>> \notin before
  /\ \A x, y, z \in S : <<x, y>> \in before /\ <<y, z>> \in before => <<x, z>> \in before

\* Every variable has the shape the code gives it: an entry has one time of each kind.
CacheTypeOK ==
  /\ driver \in {"memory", "indexeddb"}
  /\ db \in {"closed", "open", "failed"}
  /\ stored \subseteq Urls /\ fresh \subseteq stored
  /\ Orders(accessed, stored) /\ Orders(storedAt, fresh)
  /\ setting \in [Users -> [at : {"idle", "evict"}, evict : Seq(Urls), alone : BOOLEAN,
                            touched : SUBSET Urls]]
  /\ faults \in 0..MaxFaults
  /\ wants \in [Users -> Urls \cup {NoUrl}]
  /\ tainted \in BOOLEAN

\* The store keeps to maxSizeBytes and maxEntries, unless the last put was of a blob that an
\* empty store has no room for, or other calls put theirs between its look at the store and
\* its put, or an eviction failed: what a call does by itself always restores the bounds
\* (LRUPolicy, MemoryCache.set, IndexedDBCache.set).
BoundsKept == tainted \/ (TotalSize(stored) =< MaxSize /\ Cardinality(stored) =< MaxEntries)

\* What a call of set evicts, however long after it chose it, is expired, or was read or put
\* since, or is less recently used than everything it spares (but for what it could not
\* delete): other calls in between do not turn the order round (findEvictionCandidates,
\* IndexedDBCache.set).
EvictsLeastRecent ==
  [][\A u \in Users : EvictNext(u) =>
       LET url == Head(setting[u].evict)
           spared == stored \ (ToSet(setting[u].evict) \cup setting[u].touched)
       IN  url \in fresh \ setting[u].touched => \A v \in spared : <<url, v>> \in accessed
    ]_cacheVars

==============================================================================
