----------------------------- MODULE RateLimiter -----------------------------
(***************************************************************************)
(* The token bucket that the signaling server keeps for each client        *)
(* (ratelimit.go): a message that finds a token is handled, one that does  *)
(* not is answered with an error.                                          *)
(*                                                                         *)
(* Time is whole ticks, Grain of them a second, and tokens are counted in  *)
(* Grain-th parts, so that a tick is worth Rate parts.  The rounding of    *)
(* the floating-point numbers of the code is left out.                     *)
(***************************************************************************)
EXTENDS Naturals, Sequences

CONSTANTS
  Rate,      \* ratePerSec
  Grain,     \* ticks in a second
  MaxTime    \* bound: ticks that pass

ASSUME RateAssumption ==
  /\ Rate \in Nat \ {0}
  /\ Grain \in Nat \ {0}
  /\ MaxTime \in Nat

VARIABLES
  tokens,
  lastRefill,
  now,
  allowed    \* history: when messages were let through

limiterVars == <<tokens, lastRefill, now, allowed>>

Token == Grain
Capacity == 2 * Rate * Grain

\* NewRateLimiter, when the client connects.
LimiterInit ==
  /\ tokens = Rate * Grain
  /\ lastRefill = 0 /\ now = 0
  /\ allowed = <<>>

\* Faulty variant: the bucket overflows.
RefilledWithoutEnd == tokens + (now - lastRefill) * Rate

\* What the bucket holds when a message comes.
Refilled ==
  LET sum == tokens + (now - lastRefill) * Rate IN
    IF sum > Capacity THEN Capacity ELSE sum

\* Faulty variant: part of a token is enough.
PassOnCredit ==
  /\ Refilled > 0
  /\ tokens' = Refilled - Token
  /\ lastRefill' = now
  /\ allowed' = Append(allowed, now)
  /\ UNCHANGED now

\* Allow returns true.
Pass ==
  /\ Refilled >= Token
  /\ tokens' = Refilled - Token
  /\ lastRefill' = now
  /\ allowed' = Append(allowed, now)
  /\ UNCHANGED now

\* Faulty variant: time since the last refill is forgotten when there is no token.
RefuseForgets ==
  /\ Refilled < Token
  /\ lastRefill' = now
  /\ UNCHANGED <<tokens, now, allowed>>

\* Allow returns false.
Refuse ==
  /\ Refilled < Token
  /\ tokens' = Refilled
  /\ lastRefill' = now
  /\ UNCHANGED <<now, allowed>>

TimePasses ==
  /\ now < MaxTime
  /\ now' = now + 1
  /\ UNCHANGED <<tokens, lastRefill, allowed>>

LimiterNext == Pass \/ Refuse \/ TimePasses

LimiterSpec == LimiterInit /\ [][LimiterNext]_limiterVars

------------------------------------------------------------------------------
(* Properties *)

\* The bucket is never in debt and never holds more than two seconds' worth.
LimiterTypeOK ==
  /\ tokens \in 0..Capacity
  /\ now \in Nat /\ lastRefill \in 0..now
  /\ allowed \in Seq(0..now)

\* From any message to any later one, no more pass than the burst of two seconds and what
\* the rate allows for the time between the two (RateLimiter.Allow).
BurstBounded ==
  \A i, j \in 1..Len(allowed) :
    i =< j => (j - i + 1) * Token =< Capacity + (allowed[j] - allowed[i]) * Rate

\* Only a client that is too fast is refused a message: with it, more would have passed
\* than the first second's allowance and the rate since allow, or than a whole burst and
\* the rate since some earlier message (RateLimiter.Allow).
RefusesOnlyExcess ==
  [][Refuse =>
       LET n == Len(allowed) + 1 IN
         \/ n * Token > (Grain + now) * Rate
         \/ \E i \in 1..Len(allowed) :
              (n - i + 1) * Token > Capacity + (now - allowed[i]) * Rate]_limiterVars

==============================================================================
