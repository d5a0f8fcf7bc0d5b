---------------------------- MODULE Interception -----------------------------
(***************************************************************************)
(* Fetches that the service worker (sw.ts) intercepts, the page that       *)
(* answers for them (ServiceWorkerManager, requestAssetBlob) and the cache *)
(* both of them fill and read (module Cache).                              *)
(*                                                                         *)
(* The page is one of the clients of the worker.  Its own fallback is a    *)
(* fetch of the page, which the worker intercepts like any other.  How an  *)
(* asset is got otherwise is AssetRequest's: here it comes, fails, falls   *)
(* back or never ends.                                                     *)
(***************************************************************************)
EXTENDS Cache

CONSTANTS
  MaxFetches,   \* bound: intercepted fetches under way at a time
  App           \* the page's own content

Fetches == 1..MaxFetches

ASSUME InterceptionAssumption ==
  /\ Users = Fetches
  /\ App \notin Fetches

VARIABLES
  worker,      \* the worker's handling of a fetch
  task,        \* the page's handling of the worker's message
  by           \* whom the fetch is for: the page's content, or the fallback of a task

workerVars == <<worker, task, by>>
vars == <<cacheVars, workerVars>>

Init ==
  /\ CacheInit
  /\ worker = [f \in Fetches |-> "idle"]
  /\ task = [f \in Fetches |-> "none"]
  /\ by = [f \in Fetches |-> App]

------------------------------------------------------------------------------
(* The worker *)

\* A fetch is intercepted.  The worker asks the first client it finds, which may be this
\* page, while it has a listener, or a window that has none, and starts its timer; if there
\* is no client it goes to the network.
Intercept(f, from, url, rest) ==
  /\ worker[f] = "idle" /\ \A g \in Fetches : g < f => worker[g] # "idle"
  /\ by' = [by EXCEPT ![f] = from]
  /\ wants' = [wants EXCEPT ![f] = url]
  /\ \/ worker' = [worker EXCEPT ![f] = "asked"] /\ task' = [rest EXCEPT ![f] = "lookup"]
     \/ worker' = [worker EXCEPT ![f] = "asked"] /\ task' = rest
     \/ worker' = [worker EXCEPT ![f] = "network"] /\ task' = rest
  /\ UNCHANGED <<store, setting, faults, tainted>>

AppFetches(f, url) == Intercept(f, App, url, task)

\* Faulty variant: the timer is stopped as soon as the page has taken the request.
TimesOutUntaken(f) ==
  /\ worker[f] = "asked" /\ task[f] \in {"none", "lookup"}
  /\ worker' = [worker EXCEPT ![f] = "network"]
  /\ UNCHANGED <<cacheVars, task, by>>

\* The 8 seconds pass.
TimesOut(f) ==
  /\ worker[f] = "asked"
  /\ worker' = [worker EXCEPT ![f] = "network"]
  /\ UNCHANGED <<cacheVars, task, by>>

\* fetch(request) ends, with a response or an error.
NetworkAnswers(f) ==
  /\ worker[f] = "network"
  /\ worker' = [worker EXCEPT ![f] = "over"]
  /\ UNCHANGED <<cacheVars, task, by>>

------------------------------------------------------------------------------
(* The page *)

\* The listener posts its answer; a worker that has given up does not hear it.
Reply(f, success) ==
  /\ task' = [task EXCEPT ![f] = "over"]
  /\ worker' = IF worker[f] # "asked" THEN worker
               ELSE [worker EXCEPT ![f] = IF success THEN "over" ELSE "network"]

\* requestAssetBlob looks in the cache.
Lookup(f) ==
  /\ task[f] = "lookup" /\ db # "closed"
  /\ \E found \in BOOLEAN :
       /\ get(f, found)
       /\ IF found THEN Reply(f, TRUE)
          ELSE task' = [task EXCEPT ![f] = "request"] /\ UNCHANGED worker
  /\ UNCHANGED by

\* requestAsset asks for an object URL, before it asks anybody else and again when it has
\* stored the blob.
GetUrl(f) ==
  /\ task[f] \in {"request", "stored"}
  /\ \E found \in BOOLEAN :
       /\ getObjectUrl(f, found)
       /\ task' = [task EXCEPT ![f] = IF found \/ @ = "stored" THEN "reread" ELSE "acquire"]
  /\ UNCHANGED <<worker, by>>

\* The blob of a task is there and its set begins.
Store(f) ==
  \/ BeginSet(f) /\ task' = [task EXCEPT ![f] = "setting"]
  \/ (SetInMemory(f) \/ SetNothing(f)) /\ task' = [task EXCEPT ![f] = "stored"]

\* The swarm delivers.
SwarmDelivers(f) ==
  /\ task[f] = "acquire"
  /\ Store(f)
  /\ UNCHANGED <<worker, by>>

\* connect is rejected.
Rejected(f) ==
  /\ task[f] = "acquire"
  /\ Reply(f, FALSE)
  /\ UNCHANGED <<cacheVars, by>>

\* fallbackToHttp, whose fetch is intercepted.
fallbackToHttp(f, g) ==
  /\ task[f] = "acquire"
  /\ Intercept(g, f, wants[f], [task EXCEPT ![f] = "fetching"])

\* It ends, with a blob or without.
FallbackEnds(f, g) ==
  /\ task[f] = "fetching" /\ by[g] = f /\ worker[g] = "over"
  /\ by' = [by EXCEPT ![g] = App]
  /\ \/ Store(f) /\ UNCHANGED worker
     \/ Reply(f, FALSE) /\ UNCHANGED cacheVars

\* A transaction of the task's set.
SetStep(f) ==
  /\ task[f] = "setting"
  /\ \/ (EvictNext(f) \/ EvictFails(f)) /\ UNCHANGED task
     \/ (EndSet(f) \/ PutFails(f)) /\ task' = [task EXCEPT ![f] = "stored"]
  /\ UNCHANGED <<worker, by>>

\* requestAssetBlob reads what requestAsset has stored, or should have.
Reread(f) ==
  /\ task[f] = "reread"
  /\ \E found \in BOOLEAN : get(f, found) /\ Reply(f, found)
  /\ UNCHANGED by

------------------------------------------------------------------------------
\* A fetch is over on all sides; another may take its place.
Forget(f) ==
  /\ worker[f] = "over" /\ task[f] \in {"none", "over"} /\ by[f] = App
  /\ worker' = [worker EXCEPT ![f] = "idle"]
  /\ task' = [task EXCEPT ![f] = "none"]
  /\ wants' = [wants EXCEPT ![f] = NoUrl]
  /\ UNCHANGED <<store, setting, faults, tainted, by>>

WorkerStep(f) == TimesOut(f) \/ NetworkAnswers(f)

TaskStep(f) ==
  \/ Lookup(f)
  \/ GetUrl(f)
  \/ SwarmDelivers(f)
  \/ Rejected(f)
  \/ \E g \in Fetches : fallbackToHttp(f, g) \/ FallbackEnds(f, g)
  \/ SetStep(f)
  \/ Reread(f)

Next ==
  \/ \E f \in Fetches, url \in Urls : AppFetches(f, url)
  \/ \E f \in Fetches : WorkerStep(f)
  \/ \E f \in Fetches : TaskStep(f)
  \/ \E f \in Fetches : Forget(f)
  \/ getDB /\ UNCHANGED workerVars
  \/ Expire /\ UNCHANGED workerVars
  \/ clear /\ UNCHANGED workerVars

\* Timers fire and fetches of the worker end.  Nothing is assumed of the page.
Fairness == \A f \in Fetches : WF_vars(WorkerStep(f))

Spec == Init /\ [][Next]_vars /\ Fairness

------------------------------------------------------------------------------
(* Properties *)

\* Every variable has the shape the code gives it, and no fetch is its own fallback.
TypeOK ==
  /\ CacheTypeOK
  /\ worker \in [Fetches -> {"idle", "asked", "network", "over"}]
  /\ task \in [Fetches -> {"none", "lookup", "acquire", "fetching", "setting",
                           "stored", "request", "reread", "over"}]
  /\ by \in [Fetches -> {App} \cup Fetches]
  /\ \A f \in Fetches : by[f] # f

\* Every fetch that the worker intercepts is answered, whatever becomes of the page, of the
\* clients it chose from and of the requests it made of itself (sw.ts).
FetchAnswered ==
  \A f \in Fetches : []<>(worker[f] \notin {"asked", "network"})

==============================================================================
