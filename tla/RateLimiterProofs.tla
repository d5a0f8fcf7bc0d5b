-------------------------- MODULE RateLimiterProofs --------------------------
(***************************************************************************)
(* The bounds of RateLimiter for every rate and every grain of time.  What *)
(* was let through since some message and what the bucket holds bound each *)
(* other: the two are at most a burst and what the rate gave since         *)
(* (Spent), and they are no less than that since some message at which the *)
(* bucket was full, or than what the client began with (Earned).           *)
(***************************************************************************)
EXTENDS RateLimiter, SequenceTheorems, TLAPS

Spent ==
  \A i \in 1..Len(allowed) :
    (Len(allowed) - i + 1) * Token + tokens =< Capacity + (lastRefill - allowed[i]) * Rate

Earned ==
  \/ Len(allowed) * Token + tokens >= (Grain + lastRefill) * Rate
  \/ \E i \in 1..Len(allowed) :
       (Len(allowed) - i + 1) * Token + tokens
         >= Capacity + (lastRefill - allowed[i]) * Rate

Remembered == \A i \in 1..Len(allowed) : allowed[i] =< lastRefill

LimiterInv ==
  /\ LimiterTypeOK
  /\ Remembered
  /\ Spent
  /\ Earned
  /\ BurstBounded

------------------------------------------------------------------------------
\* The capacity is two seconds' worth, so more than a token.
LEMMA Sizes ==
  /\ Rate \in Nat \ {0} /\ Grain \in Nat \ {0}
  /\ Token \in Nat /\ Token = Grain
  /\ Rate * Grain \in Nat /\ Rate * Grain >= Grain
  /\ Capacity \in Nat /\ Capacity > Token /\ Rate * Grain =< Capacity
  <1>1. Rate \in Nat \ {0} /\ Grain \in Nat \ {0}
    BY RateAssumption
  <1>2. Rate * Grain \in Nat /\ Rate * Grain >= Grain
    BY <1>1
  <1>3. Capacity = 2 * (Rate * Grain)
    BY <1>1 DEF Capacity
  <1> QED
    BY <1>1, <1>2, <1>3 DEF Token

\* The rate of a time is that of its two parts.
LEMMA Parts ==
  ASSUME NEW a \in Int, NEW b \in Int, NEW c \in Int, NEW r \in Int
  PROVE  /\ (a - b) * r \in Int
         /\ (a - b) * r = (a - c) * r + (c - b) * r
  OBVIOUS

\* One more of n messages is one more token.
LEMMA OneMore ==
  ASSUME NEW n \in Int, NEW t \in Int
  PROVE  /\ n * t \in Int
         /\ (n + 1) * t = n * t + t
  OBVIOUS

\* A part is no more than the whole.
LEMMA LessWithout ==
  ASSUME NEW x \in Int, NEW y \in Int, NEW c \in Int, NEW t \in Nat, x + t =< c + y
  PROVE  x =< c + y
  OBVIOUS

\* The bucket holds what it held and what time gave, but no more than its capacity.
LEMMA RefilledBounds ==
  ASSUME LimiterTypeOK
  PROVE  /\ Refilled \in 0..Capacity
         /\ (now - lastRefill) * Rate \in Nat
         /\ Refilled =< tokens + (now - lastRefill) * Rate
         /\ Refilled = Capacity \/ Refilled = tokens + (now - lastRefill) * Rate
  <1>1. now - lastRefill \in Nat /\ tokens \in Nat
    BY Sizes DEF LimiterTypeOK
  <1>2. (now - lastRefill) * Rate \in Nat
    BY <1>1, Sizes
  <1> QED
    BY <1>1, <1>2, Sizes DEF Refilled

\* A new client has the tokens of one second.
LEMMA LimiterInitInv == LimiterInit => LimiterInv
  <1> SUFFICES ASSUME LimiterInit PROVE LimiterInv
    OBVIOUS
  <1>1. LimiterTypeOK
    BY Sizes DEF LimiterInit, LimiterTypeOK
  <1>2. Len(allowed) = 0
    BY DEF LimiterInit
  <1>3. Remembered /\ Spent /\ BurstBounded
    BY <1>2 DEF Remembered, Spent, BurstBounded
  <1>4. Earned
    BY <1>2, Sizes DEF LimiterInit, Earned
  <1> QED
    BY <1>1, <1>3, <1>4 DEF LimiterInv

\* Messages that were let through keep their times.
LEMMA AllowedTimes ==
  ASSUME LimiterTypeOK
  PROVE  /\ Len(allowed) \in Nat
         /\ \A i \in 1..Len(allowed) : allowed[i] \in Nat /\ allowed[i] =< now
  <1>1. allowed \in Seq(0..now) /\ now \in Nat
    BY DEF LimiterTypeOK
  <1>2. Len(allowed) \in Nat /\ \A i \in 1..Len(allowed) : allowed[i] \in 0..now
    BY <1>1, ElementOfSeq, LenProperties
  <1> QED
    BY <1>1, <1>2

\* A message that passes takes a token.
LEMMA PassKeeps ==
  ASSUME LimiterInv, Pass
  PROVE  LimiterInv'
  <1> DEFINE n == Len(allowed)
  <1>1. LimiterTypeOK
    BY DEF LimiterInv
  <1>2. /\ Refilled >= Token /\ tokens' = Refilled - Token
        /\ lastRefill' = now /\ now' = now /\ allowed' = Append(allowed, now)
    BY DEF Pass
  <1>3. /\ n \in Nat /\ \A i \in 1..n : allowed[i] \in Nat /\ allowed[i] =< now
        /\ now \in Nat /\ lastRefill \in Nat /\ lastRefill =< now /\ tokens \in Nat
    BY <1>1, AllowedTimes, Sizes DEF LimiterTypeOK
  <1>4. /\ allowed' \in Seq(0..now) /\ Len(allowed') = n + 1
        /\ \A i \in 1..n : allowed'[i] = allowed[i]
        /\ allowed'[n + 1] = now
    BY <1>1, <1>2, <1>3, AppendProperties DEF LimiterTypeOK
  <1> HIDE DEF n
  <1>a. Token' = Token /\ Capacity' = Capacity
    BY DEF Token, Capacity
  <1>b. Spent' <=> \A i \in 1..(n + 1) :
                     (n + 1 - i + 1) * Token + tokens'
                       =< Capacity + (now - allowed'[i]) * Rate
    BY <1>2, <1>3, <1>4, <1>a DEF Spent
  <1>c. Earned' <=> \/ (n + 1) * Token + tokens' >= (Grain + now) * Rate
                    \/ \E i \in 1..(n + 1) :
                         (n + 1 - i + 1) * Token + tokens'
                           >= Capacity + (now - allowed'[i]) * Rate
    BY <1>2, <1>3, <1>4, <1>a DEF Earned
  <1>d. BurstBounded' <=> \A i, j \in 1..(n + 1) :
                            i =< j => (j - i + 1) * Token
                                        =< Capacity + (allowed'[j] - allowed'[i]) * Rate
    BY <1>4, <1>a, Zenon DEF BurstBounded
  <1>5. LimiterTypeOK'
    BY <1>1, <1>2, <1>3, <1>4, RefilledBounds, Sizes DEF LimiterTypeOK
  <1>6. Remembered'
    BY <1>2, <1>3, <1>4 DEF Remembered
  <1>7. \A i \in 1..n : /\ (n - i + 1) * Token \in Int
                        /\ (n + 1 - i + 1) * Token = (n - i + 1) * Token + Token
    <2> SUFFICES ASSUME NEW i \in 1..n
                 PROVE  /\ (n - i + 1) * Token \in Int
                        /\ (n + 1 - i + 1) * Token = (n - i + 1) * Token + Token
      OBVIOUS
    <2>1. n - i + 1 \in Int /\ n + 1 - i + 1 = (n - i + 1) + 1
      BY <1>3
    <2> QED
      BY <2>1, OneMore, Sizes
  <1>8. \A i \in 1..n :
          /\ (lastRefill - allowed[i]) * Rate \in Int /\ (now - allowed[i]) * Rate \in Int
          /\ (now - allowed[i]) * Rate
               = (now - lastRefill) * Rate + (lastRefill - allowed[i]) * Rate
    BY <1>3, Parts, Sizes
  <1>9. \A i \in 1..n :
          (n + 1 - i + 1) * Token + tokens' =< Capacity + (now - allowed[i]) * Rate
    <2> SUFFICES ASSUME NEW i \in 1..n
                 PROVE  (n + 1 - i + 1) * Token + tokens'
                          =< Capacity + (now - allowed[i]) * Rate
      OBVIOUS
    <2>1. (n - i + 1) * Token + tokens =< Capacity + (lastRefill - allowed[i]) * Rate
      BY DEF LimiterInv, Spent, n
    <2> DEFINE x == (n - i + 1) * Token
               y == (lastRefill - allowed[i]) * Rate
               z == (now - lastRefill) * Rate
    <2>2. /\ x \in Int /\ y \in Int /\ z \in Int /\ x + tokens =< Capacity + y
          /\ Refilled \in Int /\ Refilled =< tokens + z
          /\ (n + 1 - i + 1) * Token = x + Token
          /\ (now - allowed[i]) * Rate = z + y
      BY <1>1, <1>7, <1>8, <2>1, RefilledBounds, Sizes
    <2> HIDE DEF x, y, z
    <2> QED
      BY <1>2, <1>3, <2>2, Sizes
  <1>10. 1 * Token + tokens' =< Capacity + (now - now) * Rate
    <2>1. (now - now) * Rate = 0 /\ 1 * Token = Token /\ Refilled \in 0..Capacity
      BY <1>1, <1>3, RefilledBounds, Sizes
    <2> QED
      BY <1>2, <2>1, Sizes
  <1>11. Spent'
    <2> SUFFICES ASSUME NEW i \in 1..(n + 1)
                 PROVE  (n + 1 - i + 1) * Token + tokens'
                          =< Capacity + (now - allowed'[i]) * Rate
      BY <1>b
    <2>1. CASE i \in 1..n
      BY <1>4, <1>9, <2>1
    <2>2. CASE i = n + 1
      <3>1. n + 1 - i + 1 = 1 /\ allowed'[i] = now
        BY <1>3, <1>4, <2>2
      <3> QED
        BY <1>10, <3>1
    <2> QED
      BY <1>3, <2>1, <2>2
  <1>12. Earned'
    <2>1. CASE Refilled = Capacity
      <3>1. 1 * Token + tokens' >= Capacity + (now - now) * Rate
        <4>1. (now - now) * Rate = 0 /\ 1 * Token = Token
          BY <1>3, Sizes
        <4> QED
          BY <1>2, <2>1, <4>1, Sizes
      <3>2. n + 1 \in 1..(n + 1) /\ n + 1 - (n + 1) + 1 = 1
        BY <1>3
      <3> QED
        BY <1>c, <1>4, <3>1, <3>2, Zenon
    <2>2. CASE Refilled = tokens + (now - lastRefill) * Rate
      <3>1. CASE n * Token + tokens >= (Grain + lastRefill) * Rate
        <4> DEFINE x == n * Token
                   y == (Grain + lastRefill) * Rate
                   z == (now - lastRefill) * Rate
        <4>1. /\ x \in Int /\ (n + 1) * Token = x + Token
              /\ z \in Int /\ y \in Int /\ (Grain + now) * Rate = z + y
          BY <1>3, OneMore, Sizes
        <4>2. x + tokens >= y /\ Refilled = tokens + z
          BY <2>2, <3>1
        <4> HIDE DEF x, y, z
        <4>3. (n + 1) * Token + tokens' >= (Grain + now) * Rate
          BY <1>2, <1>3, <4>1, <4>2, Sizes
        <4> QED
          BY <1>c, <4>3, Zenon
      <3>2. CASE \E i \in 1..n :
                   (n - i + 1) * Token + tokens
                     >= Capacity + (lastRefill - allowed[i]) * Rate
        <4>1. PICK i \in 1..n :
                (n - i + 1) * Token + tokens
                  >= Capacity + (lastRefill - allowed[i]) * Rate
          BY <3>2
        <4> DEFINE x == (n - i + 1) * Token
                   y == (lastRefill - allowed[i]) * Rate
                   z == (now - lastRefill) * Rate
        <4>2. /\ x \in Int /\ y \in Int /\ z \in Int /\ x + tokens >= Capacity + y
              /\ Refilled = tokens + z
              /\ (n + 1 - i + 1) * Token = x + Token
              /\ (now - allowed[i]) * Rate = z + y
          BY <1>1, <1>7, <1>8, <2>2, <4>1, RefilledBounds
        <4> HIDE DEF x, y, z
        <4>3. (n + 1 - i + 1) * Token + tokens' >= Capacity + (now - allowed[i]) * Rate
          BY <1>2, <1>3, <4>2, Sizes
        <4>4. i \in 1..(n + 1) /\ allowed'[i] = allowed[i]
          BY <1>3, <1>4
        <4> QED
          BY <1>c, <4>3, <4>4, Zenon
      <3> QED
        BY <3>1, <3>2 DEF LimiterInv, Earned, n
    <2> QED
      BY <1>1, <2>1, <2>2, RefilledBounds
  <1>13. BurstBounded'
    <2> SUFFICES ASSUME NEW i \in 1..(n + 1), NEW j \in 1..(n + 1), i =< j
                 PROVE  (j - i + 1) * Token
                          =< Capacity + (allowed'[j] - allowed'[i]) * Rate
      BY <1>d
    <2>1. CASE j \in 1..n
      <3>1. i \in 1..n
        BY <1>3, <2>1
      <3> QED
        BY <1>4, <2>1, <3>1 DEF LimiterInv, BurstBounded, n
    <2>2. CASE j = n + 1
      <3>1. (n + 1 - i + 1) * Token + tokens' =< Capacity + (now - allowed'[i]) * Rate
        BY <1>b, <1>11
      <3>2. tokens' \in Nat
        BY <1>5, Sizes DEF LimiterTypeOK, Capacity
      <3>3. allowed'[i] \in Int
        BY <1>3, <1>4
      <3>4. (n + 1 - i + 1) * Token \in Int /\ (now - allowed'[i]) * Rate \in Int
        BY <1>3, <3>3, Sizes
      <3>5. Capacity \in Int
        BY Sizes
      <3>6. (n + 1 - i + 1) * Token =< Capacity + (now - allowed'[i]) * Rate
        BY <3>1, <3>2, <3>4, <3>5, LessWithout
      <3>7. (j - i + 1) * Token = (n + 1 - i + 1) * Token
        BY <1>3, <2>2, Sizes
      <3>8. (allowed'[j] - allowed'[i]) * Rate = (now - allowed'[i]) * Rate
        BY <1>4, <2>2
      <3> QED
        BY <3>6, <3>7, <3>8
    <2> QED
      BY <1>3, <2>1, <2>2
  <1> QED
    BY <1>5, <1>6, <1>11, <1>12, <1>13 DEF LimiterInv

\* A message that is refused has the bucket refilled, which was not full then.
LEMMA RefuseKeeps ==
  ASSUME LimiterInv, Refuse
  PROVE  LimiterInv'
  <1> DEFINE n == Len(allowed)
  <1>1. LimiterTypeOK
    BY DEF LimiterInv
  <1>2. /\ Refilled < Token /\ tokens' = Refilled
        /\ lastRefill' = now /\ now' = now /\ allowed' = allowed
    BY DEF Refuse
  <1>3. /\ n \in Nat /\ \A i \in 1..n : allowed[i] \in Nat /\ allowed[i] =< now
        /\ now \in Nat /\ lastRefill \in Nat /\ lastRefill =< now /\ tokens \in Nat
    BY <1>1, AllowedTimes, Sizes DEF LimiterTypeOK
  <1>4. tokens' = tokens + (now - lastRefill) * Rate
    BY <1>1, <1>2, RefilledBounds, Sizes
  <1>5. LimiterTypeOK'
    BY <1>1, <1>2, <1>3, RefilledBounds, Sizes DEF LimiterTypeOK, Capacity
  <1> HIDE DEF n
  <1>a. Token' = Token /\ Capacity' = Capacity
    BY DEF Token, Capacity
  <1>b. Spent' <=> \A i \in 1..n :
                     (n - i + 1) * Token + tokens'
                       =< Capacity + (now - allowed[i]) * Rate
    BY <1>2, <1>3, <1>a DEF Spent, n
  <1>c. Earned' <=> \/ n * Token + tokens' >= (Grain + now) * Rate
                    \/ \E i \in 1..n :
                         (n - i + 1) * Token + tokens'
                           >= Capacity + (now - allowed[i]) * Rate
    BY <1>2, <1>3, <1>a DEF Earned, n
  <1>6. \A i \in 1..n :
          /\ (n - i + 1) * Token \in Int
          /\ (lastRefill - allowed[i]) * Rate \in Int /\ (now - lastRefill) * Rate \in Int
          /\ (now - allowed[i]) * Rate
               = (now - lastRefill) * Rate + (lastRefill - allowed[i]) * Rate
    BY <1>3, Parts, OneMore, Sizes
  <1>7. Spent'
    <2> SUFFICES ASSUME NEW i \in 1..n
                 PROVE  (n - i + 1) * Token + tokens' =< Capacity + (now - allowed[i]) * Rate
      BY <1>b
    <2> DEFINE x == (n - i + 1) * Token
               y == (lastRefill - allowed[i]) * Rate
               z == (now - lastRefill) * Rate
    <2>1. /\ x \in Int /\ y \in Int /\ z \in Int
          /\ (now - allowed[i]) * Rate = z + y /\ tokens' = tokens + z
      BY <1>4, <1>6
    <2>2. x + tokens =< Capacity + y
      BY DEF LimiterInv, Spent, n
    <2> HIDE DEF x, y, z
    <2>3. x + tokens' =< Capacity + (now - allowed[i]) * Rate
      BY <1>3, <2>1, <2>2, Sizes
    <2> QED
      BY <2>3 DEF x
  <1>8. Earned'
    <2>1. CASE n * Token + tokens >= (Grain + lastRefill) * Rate
      <3> DEFINE x == n * Token
                 y == (Grain + lastRefill) * Rate
                 z == (now - lastRefill) * Rate
      <3>1. x \in Int /\ y \in Int /\ z \in Int /\ (Grain + now) * Rate = z + y
        BY <1>3, Sizes
      <3>2. x + tokens >= y /\ tokens' = tokens + z
        BY <1>4, <2>1
      <3> HIDE DEF x, y, z
      <3>3. x + tokens' >= (Grain + now) * Rate
        BY <1>3, <3>1, <3>2
      <3> QED
        BY <1>c, <3>3, Zenon DEF x
    <2>2. ASSUME NEW i \in 1..n,
                 (n - i + 1) * Token + tokens
                   >= Capacity + (lastRefill - allowed[i]) * Rate
          PROVE  Earned'
      <3> DEFINE x == (n - i + 1) * Token
                 y == (lastRefill - allowed[i]) * Rate
                 z == (now - lastRefill) * Rate
      <3>1. /\ x \in Int /\ y \in Int /\ z \in Int
            /\ (now - allowed[i]) * Rate = z + y /\ tokens' = tokens + z
        BY <1>4, <1>6
      <3>2. x + tokens >= Capacity + y
        BY <2>2
      <3> HIDE DEF x, y, z
      <3>3. x + tokens' >= Capacity + (now - allowed[i]) * Rate
        BY <1>3, <3>1, <3>2, Sizes
      <3> QED
        BY <1>c, <3>3, Zenon DEF x
    <2> QED
      BY <2>1, <2>2 DEF LimiterInv, Earned, n
  <1>9. Remembered' /\ BurstBounded'
    BY <1>2, <1>3, <1>a DEF LimiterInv, Remembered, BurstBounded, n
  <1> QED
    BY <1>5, <1>7, <1>8, <1>9 DEF LimiterInv

\* Every step of the limiter preserves the invariant.
LEMMA LimiterStep == LimiterInv /\ [LimiterNext]_limiterVars => LimiterInv'
  <1> SUFFICES ASSUME LimiterInv, [LimiterNext]_limiterVars
               PROVE  LimiterInv'
    OBVIOUS
  <1>1. CASE TimePasses
    <2>1. UNCHANGED <<tokens, lastRefill, allowed>> /\ now' = now + 1
      BY <1>1 DEF TimePasses
    <2>2. LimiterTypeOK'
      <3>1. allowed \in Seq(0..now) /\ now \in Nat
        BY DEF LimiterInv, LimiterTypeOK
      <3>2. Len(allowed) \in Nat /\ allowed \in [1..Len(allowed) -> 0..now]
        BY <3>1, LenProperties
      <3>3. \A i \in 1..Len(allowed) : allowed[i] \in 0..(now + 1)
        BY <3>1, <3>2
      <3>4. allowed \in Seq(0..(now + 1))
        BY <3>1, <3>3
      <3> QED
        BY <2>1, <3>4 DEF LimiterInv, LimiterTypeOK, Capacity
    <2>3. Remembered' /\ BurstBounded' /\ Spent' /\ Earned'
      BY <2>1
      DEF LimiterInv, Remembered, BurstBounded, Spent, Earned, Token, Capacity
    <2> QED
      BY <2>2, <2>3 DEF LimiterInv
  <1>2. CASE UNCHANGED limiterVars
    BY <1>2
    DEF LimiterInv, LimiterTypeOK, Remembered, BurstBounded, Spent, Earned, Token, Capacity,
        limiterVars
  <1> QED
    BY <1>1, <1>2, PassKeeps, RefuseKeeps DEF LimiterNext

\* The invariant holds in every reachable state.
LEMMA LimiterInvariant == LimiterSpec => []LimiterInv
  BY LimiterInitInv, LimiterStep, PTL DEF LimiterSpec

\* The bucket is never in debt and never overflows (RateLimiter.Allow).
THEOREM LimiterTypeCorrect == LimiterSpec => []LimiterTypeOK
  <1>1. LimiterInv => LimiterTypeOK
    BY DEF LimiterInv
  <1> QED
    BY <1>1, LimiterInvariant, PTL

\* However a client spreads its messages, between any two of them no more pass than a burst
\* and what the rate allows for the time between (RateLimiter.Allow).
THEOREM BurstsAreBounded == LimiterSpec => []BurstBounded
  <1>1. LimiterInv => BurstBounded
    BY DEF LimiterInv
  <1> QED
    BY <1>1, LimiterInvariant, PTL

\* A message is refused only if with it more would have passed than the rate and a burst
\* allow (RateLimiter.Allow).
THEOREM OnlyExcessIsRefused == LimiterSpec => RefusesOnlyExcess
  <1> DEFINE n == Len(allowed)
             Excess == \/ (n + 1) * Token > (Grain + now) * Rate
                       \/ \E i \in 1..n :
                            (n + 1 - i + 1) * Token > Capacity + (now - allowed[i]) * Rate
  <1>1. ASSUME LimiterInv, Refuse
        PROVE  Excess
    <2>1. LimiterTypeOK
      BY <1>1 DEF LimiterInv
    <2>2. /\ n \in Nat /\ \A i \in 1..n : allowed[i] \in Nat /\ allowed[i] =< now
          /\ now \in Nat /\ lastRefill \in Nat /\ lastRefill =< now /\ tokens \in Nat
      BY <2>1, AllowedTimes, Sizes DEF LimiterTypeOK
    <2>3. tokens + (now - lastRefill) * Rate < Token
      BY <1>1, <2>1, RefilledBounds, Sizes DEF Refuse
    <2> HIDE DEF n
    <2>4. CASE n * Token + tokens >= (Grain + lastRefill) * Rate
      <3> DEFINE x == n * Token
                 y == (Grain + lastRefill) * Rate
                 z == (now - lastRefill) * Rate
      <3>1. /\ x \in Int /\ y \in Int /\ z \in Int
            /\ (n + 1) * Token = x + Token /\ (Grain + now) * Rate = z + y
        BY <2>2, OneMore, Sizes
      <3>2. x + tokens >= y /\ tokens + z < Token
        BY <2>3, <2>4
      <3> HIDE DEF x, y, z
      <3>3. (n + 1) * Token > (Grain + now) * Rate
        BY <2>2, <3>1, <3>2, Sizes
      <3> QED
        BY <3>3, Zenon
    <2>5. ASSUME NEW i \in 1..n,
                 (n - i + 1) * Token + tokens
                   >= Capacity + (lastRefill - allowed[i]) * Rate
          PROVE  Excess
      <3> DEFINE x == (n - i + 1) * Token
                 y == (lastRefill - allowed[i]) * Rate
                 z == (now - lastRefill) * Rate
      <3>1. n - i + 1 \in Int /\ n + 1 - i + 1 = (n - i + 1) + 1
        BY <2>2
      <3>2. x \in Int /\ (n + 1 - i + 1) * Token = x + Token
        BY <3>1, OneMore, Sizes
      <3>3. y \in Int /\ z \in Int /\ (now - allowed[i]) * Rate = z + y
        BY <2>2, Parts, Sizes
      <3>4. x + tokens >= Capacity + y /\ tokens + z < Token
        BY <2>3, <2>5
      <3> HIDE DEF x, y, z
      <3>5. (n + 1 - i + 1) * Token > Capacity + (now - allowed[i]) * Rate
        BY <2>2, <3>2, <3>3, <3>4, Sizes
      <3> QED
        BY <3>5, Zenon
    <2> QED
      BY <1>1, <2>4, <2>5 DEF LimiterInv, Earned, n
  <1> DEFINE Stated == LET m == Len(allowed) + 1 IN
                         \/ m * Token > (Grain + now) * Rate
                         \/ \E i \in 1..Len(allowed) :
                              (m - i + 1) * Token > Capacity + (now - allowed[i]) * Rate
  <1>2. Excess => Stated
    OBVIOUS
  <1> HIDE DEF Excess, Stated
  <1>3. LimiterInv => [Refuse => Stated]_limiterVars
    BY <1>1, <1>2
  <1>4. LimiterSpec => [][Refuse => Stated]_limiterVars
    BY <1>3, LimiterInvariant, PTL DEF LimiterSpec
  <1> QED
    BY <1>4, PTL DEF Stated, RefusesOnlyExcess

==============================================================================
