------------------------------ MODULE MCSession ------------------------------
(***************************************************************************)
(* What goes on around the transfers of a page, on small instances: the    *)
(* fetches its worker intercepts, with the cache (Interception), its way   *)
(* into a room (Connect), and the limiter through which its messages pass  *)
(* at the server (RateLimiter).  The three share no variable, so that what *)
(* one of them can do is seen with the other two at rest: which one moves  *)
(* is chosen in the initial state.                                         *)
(***************************************************************************)
EXTENDS Interception, Connect, RateLimiter

CONSTANTS u1, u2

MCUsers == 1..MaxFetches

\* u2 has the larger blob.
MCSizeOf == [url \in Urls |-> IF url = u1 THEN 1 ELSE 2]

VARIABLE part

sessionVars == <<part, vars, connectVars, limiterVars>>

SessionInit ==
  /\ part \in {"interception", "connect", "limiter"}
  /\ Init
  /\ ConnectInit
  /\ LimiterInit
  /\ part # "interception" => driver = "memory"

SessionNext ==
  /\ UNCHANGED part
  /\ \/ part = "interception" /\ Next /\ UNCHANGED <<connectVars, limiterVars>>
     \/ part = "connect" /\ ConnectNext /\ UNCHANGED <<vars, limiterVars>>
     \/ part = "limiter" /\ LimiterNext /\ UNCHANGED <<vars, connectVars>>

SessionSpec == SessionInit /\ [][SessionNext]_sessionVars /\ Fairness /\ ConnectFairness
==============================================================================
