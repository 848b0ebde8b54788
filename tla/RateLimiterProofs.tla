------------------------- MODULE RateLimiterProofs -------------------------
(***************************************************************************)
(* The limit and Retry-After hold for any rates, bursts, delays, number of *)
(* clients and of handlers.                                                *)
(*                                                                         *)
(* The idea: what a bucket holds, less what its time has earned, never     *)
(* grows (Level), in whatever order the times come at which it is          *)
(* refilled.  A grant lowers it by a token; the first grant of a span      *)
(* finds it no higher than the capacity less what the start has earned.    *)
(***************************************************************************)
EXTENDS RateLimiter, FiniteSetTheorems, SequenceTheorems, TLAPS

Bucket == [tokens : Int, lastSeen : Int]

Earned(t) == t * limits.rate

Level(b) == b.tokens - Earned(b.lastSeen)

\* How many of the times in g are in W.
Count(g, W) == Cardinality({n \in DOMAIN g : g[n] \in W})

From(s) == {t \in Nat : s <= t}

---------------------------------------------------------------------------
(* The invariant.                                                          *)

Types ==
    /\ limits \in [rate : Nat, burst : Int, trustProxy : BOOLEAN]
    /\ Limited => One <= limits.burst
    /\ clock \in 0 .. MaxClock
    /\ buckets \in [Clients -> Bucket]
    /\ now \in [Handlers -> {NotRead} \cup 0 .. clock]
    /\ client \in [Handlers -> [key : Clients \cup {NoHeader},
                                sender : Clients \cup {NoHeader}]]
    /\ sweepNow \in {NotRead} \cup 0 .. clock
    /\ granted \in [Clients -> Seq(0 .. clock)]
    /\ promised \in [Clients -> {NotRead} \cup Nat]
    /\ forgotten \in [Clients -> {NotRead} \cup 0 .. clock]
    /\ late \in [Clients -> Nat]

\* Nobody waits for the lock longer than MaxDelay, and a request is counted
\* for who sent it.
Delays ==
    /\ \A h \in Handlers : now[h] # NotRead =>
          /\ clock - now[h] <= MaxDelay
          /\ client[h].key \in Clients /\ client[h].sender = client[h].key
    /\ sweepNow # NotRead => Limited /\ clock - sweepNow <= MaxDelay

\* The debt of a bucket is what the requests that overtook earned.
Debts ==
    \A k \in Clients : Present(k) =>
        /\ Limited
        /\ buckets[k].lastSeen \in 0 .. clock
        /\ buckets[k].tokens <= limits.burst
        /\ -(MaxDelay * limits.rate) <= buckets[k].tokens
        /\ -Earned(clock) <= Level(buckets[k])

\* A bucket that has gone counts as full at the time it went; when buckets
\* are fast, at the earliest time anybody still waits with.
FullAt(k) == IF Fast THEN forgotten[k] - MaxDelay ELSE forgotten[k]

Balance(k) ==
    IF Present(k) THEN Level(buckets[k]) ELSE limits.burst - Earned(FullAt(k))

\* What has been granted since s has been taken from what was there at s.
TakenSince(k, s) ==
    Count(granted[k], From(s)) > 0 =>
        Balance(k) + Count(granted[k], From(s)) * One
            <= limits.burst - Earned(s) + LateGain(k)

Accounts ==
    Limited => \A k \in Clients :
        /\ ~Present(k) /\ forgotten[k] = NotRead => granted[k] = << >>
        /\ \A s \in Nat : TakenSince(k, s)

\* WindowBound for all spans, those that are not over included.
SpanBound(k, s, e) ==
    Count(granted[k], s .. e) * One
        <= limits.burst + (Earned(e) - Earned(s)) + LateGain(k)

Spans == Limited => \A k \in Clients, s \in Nat : \A e \in Nat : s <= e => SpanBound(k, s, e)

\* At the time promised there is a token, unless it has been granted.
Promises ==
    \A k \in Clients : Present(k) /\ promised[k] # NotRead =>
        One <= Level(buckets[k]) + Earned(promised[k])

RInv == Types /\ Delays /\ Debts /\ Accounts /\ Spans /\ Promises

---------------------------------------------------------------------------
(* Arithmetic.                                                             *)

LEMMA LaterEarnsMore ==
    ASSUME NEW rate \in Nat, NEW x \in Int, NEW y \in Int, x <= y
    PROVE  x * rate <= y * rate
OBVIOUS

LEMMA Distributes ==
    ASSUME NEW rate \in Int, NEW x \in Int, NEW y \in Int
    PROVE  /\ (x - y) * rate = x * rate - y * rate
           /\ x * rate \in Int
OBVIOUS

LEMMA EarnedGrows ==
    ASSUME limits.rate \in Nat, NEW x \in Int, NEW y \in Int
    PROVE  Earned(x) \in Int /\ Earned(y) \in Int /\ (x <= y => Earned(x) <= Earned(y))
BY LaterEarnsMore, Distributes DEF Earned

\* Retry-After waits for what is missing, at least.
LEMMA WaitEarnsEnough ==
    ASSUME NEW rate \in Nat \ {0}, NEW x \in Nat
    PROVE  (x \div rate) \in Nat /\ x <= (x \div rate + 1) * rate
OBVIOUS

---------------------------------------------------------------------------
(* Counting.                                                               *)

LEMMA CountIsNat ==
    ASSUME NEW T, NEW g \in Seq(T), NEW W
    PROVE  IsFiniteSet({n \in DOMAIN g : g[n] \in W}) /\ Count(g, W) \in Nat
<1>1. DOMAIN g = 1 .. Len(g) /\ Len(g) \in Nat
  OBVIOUS
<1>2. IsFiniteSet(1 .. Len(g))
  BY <1>1, FS_Interval
<1>3. IsFiniteSet({n \in DOMAIN g : g[n] \in W})
  BY <1>1, <1>2, FS_Subset
<1> QED
  BY <1>3, FS_CardinalityType DEF Count

LEMMA CountGrows ==
    ASSUME NEW T, NEW g \in Seq(T), NEW V, NEW W, V \subseteq W
    PROVE  Count(g, V) <= Count(g, W)
<1>1. {n \in DOMAIN g : g[n] \in V} \in SUBSET {n \in DOMAIN g : g[n] \in W}
  OBVIOUS
<1>2. IsFiniteSet({n \in DOMAIN g : g[n] \in W})
  BY CountIsNat
<1> QED
  BY <1>1, <1>2, FS_Subset DEF Count

LEMMA CountAppend ==
    ASSUME NEW T, NEW g \in Seq(T), NEW t \in T, NEW W
    PROVE  Count(Append(g, t), W) = IF t \in W THEN Count(g, W) + 1 ELSE Count(g, W)
<1> DEFINE In == {n \in DOMAIN g : g[n] \in W}
<1>1. Len(g) + 1 \notin In
  OBVIOUS
<1>2. {n \in DOMAIN Append(g, t) : Append(g, t)[n] \in W}
         = IF t \in W THEN In \cup {Len(g) + 1} ELSE In
  <2>1. DOMAIN Append(g, t) = DOMAIN g \cup {Len(g) + 1}
    OBVIOUS
  <2>2. \A n \in DOMAIN g : Append(g, t)[n] = g[n]
    OBVIOUS
  <2>3. Append(g, t)[Len(g) + 1] = t
    OBVIOUS
  <2> QED
    BY <2>1, <2>2, <2>3
<1>3. IsFiniteSet(In)
  BY CountIsNat
<1>4. Cardinality(In \cup {Len(g) + 1}) = Cardinality(In) + 1
  BY <1>1, <1>3, FS_AddElement
<1> QED
  BY <1>2, <1>4 DEF Count

LEMMA CountNothing == ASSUME NEW W PROVE Count(<< >>, W) = 0
<1>1. {n \in DOMAIN << >> : << >>[n] \in W} = {}
  OBVIOUS
<1> QED
  BY <1>1, FS_EmptySet DEF Count

---------------------------------------------------------------------------
(* Refilling.                                                              *)

\* Whatever the time, refilling raises no level, and lowers one only to the
\* capacity.
LEMMA RefilledLevel ==
    ASSUME Types, NEW b \in Bucket, NEW t \in Int
    PROVE  LET r == Refilled(b, t) IN
           /\ r \in Bucket /\ r.lastSeen = t
           /\ r.tokens <= limits.burst /\ Level(r) <= Level(b)
           /\ r.tokens = limits.burst \/ Level(r) = Level(b)
<1>1. limits.rate \in Int /\ limits.burst \in Int /\ b.tokens \in Int /\ b.lastSeen \in Int
  BY DEF Types, Bucket
<1>2. /\ (t - b.lastSeen) * limits.rate = Earned(t) - Earned(b.lastSeen)
      /\ Earned(t) \in Int /\ Earned(b.lastSeen) \in Int
  BY <1>1, Distributes DEF Earned
<1> HIDE DEF Earned
<1> QED
  BY <1>1, <1>2 DEF Refilled, Lower, Bucket, Level

\* Nobody who has waited can bring a bucket into more debt than a handler
\* may have been late.
LEMMA RefilledDebt ==
    ASSUME RInv, NEW k \in Clients, Present(k), NEW t \in 0 .. clock, clock - t <= MaxDelay
    PROVE  LET r == Refilled(buckets[k], t) IN
           /\ -(MaxDelay * limits.rate) <= r.tokens
           /\ -Earned(clock) <= Level(r)
<1> DEFINE r == Refilled(buckets[k], t)
<1>1. /\ limits.rate \in Nat /\ clock \in Int /\ One <= limits.burst /\ limits.burst \in Int
      /\ One \in Nat /\ -Earned(clock) <= Level(buckets[k])
  BY RateAssumption DEF RInv, Types, Debts
<1>2. /\ r \in Bucket /\ r.lastSeen = t
      /\ r.tokens = limits.burst \/ Level(r) = Level(buckets[k])
  <2>1. Types /\ buckets[k] \in Bucket /\ t \in Int
    BY DEF RInv, Types
  <2> QED
    BY <2>1, RefilledLevel
<1>3. Earned(t) <= Earned(clock) /\ Earned(t) \in Int /\ Earned(clock) \in Int
  BY <1>1, LaterEarnsMore, Distributes DEF Earned
<1>4. Earned(clock) - Earned(t) <= MaxDelay * limits.rate
  <2>1. (clock - t) * limits.rate <= MaxDelay * limits.rate
    BY <1>1, RateAssumption, LaterEarnsMore
  <2> QED
    BY <1>1, <2>1, Distributes DEF Earned
<1>5. MaxDelay * limits.rate \in Nat
  BY <1>1, RateAssumption
<1> HIDE DEF Earned, r
<1>6. r.tokens = Level(r) + Earned(t) /\ r.tokens \in Int /\ Level(r) \in Int
  BY <1>2, <1>3 DEF Level, Bucket
<1>7. -Earned(clock) <= Level(r)
  BY <1>1, <1>2, <1>3, <1>6
<1>8. -(MaxDelay * limits.rate) <= r.tokens
  BY <1>1, <1>3, <1>4, <1>5, <1>6, <1>7
<1> QED
  BY <1>7, <1>8 DEF r

---------------------------------------------------------------------------

LEMMA RInvInit == ASSUME Init PROVE RInv
<1>1. PICK o \in Options : limits = newRateLimiter(o)
  BY DEF Init
<1>2. /\ limits \in [rate : Nat, burst : Int, trustProxy : BOOLEAN]
      /\ Limited => One <= limits.burst
  BY <1>1, RateAssumption DEF newRateLimiter, Limited, Higher
<1>3. 0 \in 0 .. MaxClock /\ << >> \in Seq(0 .. clock)
  BY RateAssumption
<1>4. NoBucket \in Bucket
  BY DEF NoBucket, Bucket
<1>5. Types
  BY <1>2, <1>3, <1>4 DEF Init, Types
<1>6. \A k \in Clients : ~Present(k) /\ granted[k] = << >>
  BY DEF Init, Present
<1>7. Delays /\ Debts /\ Promises
  BY <1>6 DEF Init, Delays, Debts, Promises
<1>8. \A k \in Clients, s \in Nat : TakenSince(k, s)
  BY <1>6, CountNothing DEF TakenSince
<1>9. Spans
  <2> SUFFICES ASSUME Limited, NEW k \in Clients, NEW s \in Nat, NEW e \in Nat, s <= e
               PROVE  SpanBound(k, s, e)
    BY DEF Spans
  <2>1. Count(granted[k], s .. e) = 0 /\ One \in Nat /\ LateGain(k) = 0
    BY <1>6, CountNothing, RateAssumption, <1>2 DEF LateGain, Init
  <2>2. Earned(s) <= Earned(e) /\ Earned(s) \in Int /\ Earned(e) \in Int
    BY <1>2, LaterEarnsMore, Distributes DEF Earned
  <2> HIDE DEF Earned
  <2> QED
    BY <1>2, <2>1, <2>2, RateAssumption DEF SpanBound
<1> QED
  BY <1>5, <1>6, <1>7, <1>8, <1>9 DEF RInv, Accounts

---------------------------------------------------------------------------
(* A step that leaves a key alone keeps what is said of it.                *)

LEMMA OtherKeys ==
    ASSUME NEW k \in Clients, limits' = limits, buckets'[k] = buckets[k],
           granted'[k] = granted[k], forgotten'[k] = forgotten[k], late'[k] = late[k]
    PROVE  /\ Present(k)' <=> Present(k)
           /\ \A s \in Nat : TakenSince(k, s) => TakenSince(k, s)'
           /\ \A s, e \in Nat : SpanBound(k, s, e) => SpanBound(k, s, e)'
<1>1. (Present(k)' <=> Present(k)) /\ LateGain(k)' = LateGain(k) /\ Balance(k)' = Balance(k)
  BY DEF Present, LateGain, Fast, Balance, FullAt, Level, Earned
<1> QED
  BY <1>1 DEF TakenSince, SpanBound, Earned

LEMMA GrantCounted ==
    ASSUME NEW h, NEW k, now[h] \in 0 .. clock, granted[k] \in Seq(0 .. clock)
    PROVE  \A W : Count(Append(granted[k], now[h]), W)
                    = IF now[h] \in W THEN Count(granted[k], W) + 1 ELSE Count(granted[k], W)
BY CountAppend, Zenon

\* What both grants have in common.
LEMMA GrantKeepsRInv ==
    ASSUME RInv, Limited, NEW h \in Handlers, now[h] # NotRead, Granted(h),
           NEW k, k = client[h].key,
           NEW b \in Bucket, buckets' = [buckets EXCEPT ![k] = b],
           b.lastSeen = now[h], 0 <= b.tokens, b.tokens <= limits.burst - One,
           late' \in [Clients -> Nat], late[k] <= late'[k],
           \A j \in Clients \ {k} : late'[j] = late[j],
           \A s \in Nat : Count(granted[k], From(s)) > 0 =>
               Level(b) + (Count(granted[k], From(s)) + 1) * One
                  <= limits.burst - Earned(s) + LateGain(k)'
    PROVE  RInv'
<1>1. /\ granted' = [granted EXCEPT ![k] = Append(@, now[h])]
      /\ promised' = [promised EXCEPT ![k] = NotRead]
      /\ now' = [now EXCEPT ![h] = NotRead]
      /\ UNCHANGED <<limits, clock, client, sweepNow, forgotten>>
      /\ k \in Clients
  BY DEF Granted, RInv, Delays
<1>2. /\ now[h] \in 0 .. clock /\ now[h] \in Nat /\ clock \in Nat
      /\ limits.rate \in Nat /\ limits.burst \in Int /\ One \in Nat \ {0}
      /\ limits.burst \in Nat /\ MaxDelay \in Nat
  BY RateAssumption DEF RInv, Types
<1>0. \A W : Count(Append(granted[k], now[h]), W)
                = IF now[h] \in W THEN Count(granted[k], W) + 1 ELSE Count(granted[k], W)
  <2>1. now[h] \in 0 .. clock
    BY <1>2
  <2>2. granted[k] \in Seq(0 .. clock)
    BY <1>1 DEF RInv, Types
  <2> QED
    BY ONLY <2>1, <2>2, GrantCounted
<1>3. /\ Limited' /\ Present(k)' /\ buckets'[k] = b
      /\ \A j \in Clients \ {k} : Present(j)' = Present(j) /\ buckets'[j] = buckets[j]
  BY <1>1, <1>2 DEF Limited, Present, NoBucket, RInv, Types
<1>4. Types'
  BY <1>1, <1>3 DEF RInv, Types
<1>5. Delays'
  BY <1>1, <1>3 DEF RInv, Types, Delays
<1>6. Debts'
  <2>1. -(MaxDelay * limits.rate) <= 0 /\ Earned(now[h]) <= Earned(clock)
        /\ Earned(now[h]) \in Int /\ Earned(clock) \in Int
    BY <1>2, LaterEarnsMore, Distributes DEF Earned
  <2>2. -(MaxDelay * limits.rate) <= b.tokens /\ -Earned(clock) <= Level(b)
    <3> HIDE DEF Earned
    <3>1. MaxDelay * limits.rate \in Int
      BY <1>2
    <3>2. b.tokens \in Int
      BY DEF Bucket
    <3> QED
      BY <2>1, <3>1, <3>2 DEF Level
  <2> SUFFICES ASSUME NEW j \in Clients, Present(j)' PROVE Debts!(j)!2'
    BY DEF Debts
  <2>3. CASE j = k
    <3>1. Earned(clock)' = Earned(clock) /\ Level(buckets[k])' = Level(b)
      BY <1>1, <1>3 DEF Earned, Level
    <3>2. Limited' /\ b.lastSeen \in 0 .. clock /\ b.tokens <= limits.burst
      <4>1. b.tokens \in Int
        BY DEF Bucket
      <4> QED
        BY <1>2, <1>3, <4>1
    <3>3. buckets'[j] = b /\ limits' = limits /\ clock' = clock /\ Level(buckets[j])' = Level(b)
      BY <1>1, <1>3, <2>3, <3>1
    <3> HIDE DEF Earned
    <3> QED
      BY ONLY <2>2, <3>1, <3>2, <3>3
  <2>4. CASE j # k
    BY <1>1, <1>3, <2>4 DEF RInv, Debts, Level, Earned
  <2> QED
    BY <2>3, <2>4
<1>7. LateGain(k) <= LateGain(k)' /\ LateGain(k) \in Nat /\ LateGain(k)' \in Nat
  <2>1. late[k] \in Nat /\ late'[k] \in Nat /\ late[k] <= late'[k]
    BY <1>1 DEF RInv, Types
  <2>2. late[k] * (MaxDelay * limits.rate) <= late'[k] * (MaxDelay * limits.rate)
    <3>1. MaxDelay * limits.rate \in Nat
      BY <1>2
    <3> QED
      BY ONLY <2>1, <3>1, LaterEarnsMore
  <2> QED
    <3>1. MaxDelay * limits.rate \in Nat
      BY <1>2
    <3>2. /\ late[k] * (MaxDelay * limits.rate) \in Nat
          /\ late'[k] * (MaxDelay * limits.rate) \in Nat
      BY <2>1, <3>1
    <3>3. /\ LateGain(k) = IF Fast THEN 0 ELSE late[k] * (MaxDelay * limits.rate)
          /\ LateGain(k)' = IF Fast THEN 0 ELSE late'[k] * (MaxDelay * limits.rate)
      BY <1>1 DEF LateGain, Fast
    <3> QED
      BY <2>2, <3>2, <3>3
<1>8. \A s \in Nat : Level(b) + Count(granted'[k], From(s)) * One
                         <= limits.burst - Earned(s) + LateGain(k)'
                    \/ Count(granted'[k], From(s)) = 0
  <2> SUFFICES ASSUME NEW s \in Nat, Count(granted'[k], From(s)) # 0
               PROVE  Level(b) + Count(granted'[k], From(s)) * One
                         <= limits.burst - Earned(s) + LateGain(k)'
    OBVIOUS
  <2> DEFINE c == Count(granted[k], From(s))
             d == Count(granted'[k], From(s))
  <2>1. c \in Nat /\ d = IF now[h] \in From(s) THEN c + 1 ELSE c
    <3>1. granted[k] \in Seq(0 .. clock) /\ granted'[k] = Append(granted[k], now[h])
      BY <1>1 DEF RInv, Types
    <3>2. Count(Append(granted[k], now[h]), From(s)) = IF now[h] \in From(s) THEN c + 1 ELSE c
      BY <1>0, <1>2, <3>1
    <3>3. c \in Nat
      BY <3>1, CountIsNat
    <3> QED
      BY <3>1, <3>2, <3>3
  <2>2. Level(b) \in Int /\ Earned(s) \in Int /\ Earned(now[h]) \in Int
    BY <1>2 DEF Bucket, Level, Earned
  <2>3. CASE c > 0
    <3>1. Level(b) + (c + 1) * One <= limits.burst - Earned(s) + LateGain(k)'
      BY <2>3
    <3>2. d * One <= (c + 1) * One
      BY <1>2, <2>1, LaterEarnsMore
    <3> HIDE DEF c, d, Level, Earned
    <3> QED
      BY <1>2, <1>7, <2>1, <2>2, <3>1, <3>2 DEF d
  <2>4. CASE c = 0
    <3>1. d = 1 /\ s <= now[h]
      BY <2>1, <2>4 DEF From
    <3>2. Earned(s) <= Earned(now[h])
      BY <1>2, <3>1, LaterEarnsMore DEF Earned
    <3>3. Level(b) <= limits.burst - One - Earned(now[h])
      BY <1>2, <2>2 DEF Level, Bucket, Earned
    <3> HIDE DEF Level, Earned
    <3> QED
      BY <1>2, <1>7, <2>2, <3>1, <3>2, <3>3
  <2> QED
    BY <2>1, <2>3, <2>4
<1>9. Accounts'
  <2>1. ASSUME NEW s \in Nat PROVE TakenSince(k, s)'
    BY <1>1, <1>3, <1>8 DEF TakenSince, Balance, Level, Earned
  <2>2. ASSUME NEW j \in Clients \ {k}, NEW s \in Nat PROVE TakenSince(j, s)'
    <3>1. granted'[j] = granted[j] /\ TakenSince(j, s)
      BY <1>1 DEF RInv, Types, Accounts
    <3> QED
      BY <1>1, <1>3, <3>1, OtherKeys
  <2>3. \A j \in Clients \ {k} : granted'[j] = granted[j]
    BY <1>1 DEF RInv, Types
  <2> QED
    BY <1>1, <1>3, <2>1, <2>2, <2>3 DEF RInv, Accounts
<1>10. ASSUME NEW s \in Nat, NEW e \in Nat, s <= e PROVE SpanBound(k, s, e)'
  <2> DEFINE c == Count(granted[k], s .. e)
             d == Count(granted'[k], s .. e)
             f == Count(granted'[k], From(s))
  <2>1. /\ c \in Nat /\ d = IF now[h] \in s .. e THEN c + 1 ELSE c
        /\ f \in Nat /\ d <= f
    <3>1. granted[k] \in Seq(0 .. clock) /\ granted'[k] = Append(granted[k], now[h])
      BY <1>1 DEF RInv, Types
    <3>2. granted'[k] \in Seq(0 .. clock)
      BY <1>2, <3>1
    <3>3. s .. e \subseteq From(s)
      BY DEF From
    <3>4. Count(Append(granted[k], now[h]), s .. e)
             = IF now[h] \in s .. e THEN c + 1 ELSE c
      BY <1>0
    <3>5. c \in Nat
      BY <3>1, CountIsNat
    <3>6. f \in Nat
      BY <3>2, CountIsNat
    <3>7. d <= f
      BY <3>2, <3>3, CountGrows
    <3> QED
      BY <3>1, <3>4, <3>5, <3>6, <3>7
  <2>2. SpanBound(k, s, e)
    BY <1>1, <1>10 DEF RInv, Spans
  <2>3. /\ Earned(s) \in Int /\ Earned(e) \in Int /\ Level(b) \in Int
        /\ Earned(s)' = Earned(s) /\ Earned(e)' = Earned(e) /\ Earned(now[h]) \in Int
    BY <1>1, <1>2 DEF Earned, Level, Bucket
  <2>4. CASE d = c
    <3>1. c * One <= limits.burst + (Earned(e) - Earned(s)) + LateGain(k)
      BY <2>2 DEF SpanBound
    <3>2. d * One <= limits.burst + (Earned(e) - Earned(s)) + LateGain(k)'
      <4>1. c * One \in Int
        BY <1>2, <2>1
      <4> HIDE DEF c, d, Earned
      <4> QED
        BY <1>2, <1>7, <2>3, <2>4, <3>1, <4>1
    <3> QED
      BY <1>1, <2>3, <3>2 DEF SpanBound
  <2>5. CASE now[h] \in s .. e
    <3>0. d = c + 1
      BY <2>1, <2>5
    <3>1. d # 0 /\ f # 0 /\ Earned(now[h]) <= Earned(e)
      <4>1. now[h] <= e
        BY <1>2, <2>5
      <4>2. Earned(now[h]) <= Earned(e)
        BY <1>2, <4>1, LaterEarnsMore DEF Earned
      <4> HIDE DEF c, d, f
      <4> QED
        BY <2>1, <3>0, <4>2
    <3>2. Level(b) + f * One <= limits.burst - Earned(s) + LateGain(k)'
      BY <1>8, <3>1
    <3>3. -Earned(now[h]) <= Level(b)
      BY <2>3 DEF Level, Bucket
    <3>4. d * One <= f * One /\ d * One \in Int /\ f * One \in Int
      <4> HIDE DEF c, d, f
      <4> QED
        BY <1>2, <2>1, <3>0, LaterEarnsMore
    <3>5. d * One <= limits.burst + (Earned(e) - Earned(s)) + LateGain(k)'
      <4> HIDE DEF d, f, Level, Earned
      <4> QED
        BY <1>2, <1>7, <2>3, <3>1, <3>2, <3>3, <3>4
    <3> QED
      BY <1>1, <2>3, <3>5 DEF SpanBound
  <2> QED
    BY <2>1, <2>4, <2>5
<1>11. Spans'
  <2>1. ASSUME NEW j \in Clients \ {k}, NEW s \in Nat, NEW e \in Nat, s <= e
        PROVE  SpanBound(j, s, e)'
    <3>1. granted'[j] = granted[j] /\ SpanBound(j, s, e)
      BY <1>1, <2>1 DEF RInv, Types, Spans
    <3> QED
      BY <1>1, <1>3, <3>1, OtherKeys
  <2> QED
    BY <1>10, <2>1 DEF Spans
<1>12. Promises'
  BY <1>1, <1>3 DEF RInv, Types, Promises, Level, Earned
<1> QED
  BY <1>4, <1>5, <1>6, <1>9, <1>11, <1>12 DEF RInv

---------------------------------------------------------------------------
(* The steps of a handler.                                                 *)

\* A new bucket is no more than the one that has gone would hold, but for what
\* a late request gains.
LEMMA AllowNewKeepsRInv == ASSUME RInv, NEW h \in Handlers, AllowNew(h) PROVE RInv'
<1>0. PICK k \in Clients : k = client[h].key
  BY DEF AllowNew, RInv, Delays
<1>a. PICK b : b = [tokens |-> limits.burst - One, lastSeen |-> now[h]]
  OBVIOUS
<1>1. /\ now[h] # NotRead /\ Limited /\ ~Present(k)
      /\ buckets' = [buckets EXCEPT ![k] = b]
      /\ late' = [late EXCEPT ![k] = IF now[h] < forgotten[k] THEN @ + 1 ELSE @]
      /\ Granted(h) /\ limits' = limits
  BY <1>0, <1>a DEF AllowNew, Granted
<1>2. /\ k \in Clients /\ now[h] \in 0 .. clock /\ clock - now[h] <= MaxDelay
      /\ clock \in Nat /\ limits.rate \in Nat /\ limits.burst \in Int /\ One \in Nat \ {0}
      /\ One <= limits.burst /\ MaxDelay \in Nat /\ late[k] \in Nat
      /\ forgotten[k] \in {NotRead} \cup 0 .. clock
      /\ granted[k] \in Seq(0 .. clock)
  BY <1>1, RateAssumption DEF RInv, Types, Delays
<1>3. /\ late' \in [Clients -> Nat]
      /\ \A j \in Clients \ {k} : late'[j] = late[j]
      /\ late'[k] = IF now[h] < forgotten[k] THEN late[k] + 1 ELSE late[k]
  BY <1>1, <1>2 DEF RInv, Types
<1>4. b \in Bucket /\ b.lastSeen = now[h] /\ 0 <= b.tokens /\ b.tokens <= limits.burst - One
  BY <1>0, <1>a, <1>2 DEF Bucket
<1>5. ASSUME NEW s \in Nat, Count(granted[k], From(s)) > 0
      PROVE  Level(b) + (Count(granted[k], From(s)) + 1) * One
                <= limits.burst - Earned(s) + LateGain(k)'
  <2> DEFINE c == Count(granted[k], From(s))
  <2>0. c \in Nat
    BY <1>2, CountIsNat
  <2>1. forgotten[k] # NotRead
    BY <1>1, <1>2, <1>5, CountNothing DEF RInv, Accounts
  <2>2. forgotten[k] \in 0 .. clock /\ FullAt(k) \in Int
    BY <1>2, <2>1 DEF FullAt
  <2>a. now[h] \in Int /\ forgotten[k] \in Int /\ limits.rate \in Nat /\ MaxDelay \in Nat
    BY <1>2, <2>2
  <2>3. limits.burst - Earned(FullAt(k)) + c * One <= limits.burst - Earned(s) + LateGain(k)
    BY <1>1, <1>2, <1>5 DEF RInv, Accounts, TakenSince, Balance
  <2>4. Earned(FullAt(k)) + LateGain(k) <= Earned(now[h]) + LateGain(k)'
    <3>0. Fast' <=> Fast
      BY <1>1 DEF Fast
    <3>1. CASE Fast
      <4>1. LateGain(k) = 0 /\ LateGain(k)' = 0
        BY <3>0, <3>1 DEF LateGain
      <4>2. FullAt(k) <= now[h]
        BY <1>2, <2>2, <3>1 DEF FullAt
      <4>3. /\ Earned(FullAt(k)) <= Earned(now[h])
            /\ Earned(FullAt(k)) \in Int /\ Earned(now[h]) \in Int
        BY ONLY <2>a, <2>2, <4>2, EarnedGrows
      <4> QED
        BY <4>1, <4>3
    <3>2. CASE ~Fast
      <4> DEFINE gain == MaxDelay * limits.rate
      <4>1. /\ LateGain(k) = late[k] * gain /\ LateGain(k)' = late'[k] * gain
            /\ FullAt(k) = forgotten[k] /\ gain \in Nat
        BY <1>1, <1>2, <3>0, <3>2 DEF LateGain, FullAt
      <4>a. /\ Earned(forgotten[k]) \in Int /\ Earned(now[h]) \in Int
            /\ late[k] * gain \in Int
        <5>1. forgotten[k] \in Int /\ now[h] \in Int /\ late[k] \in Int /\ gain \in Int
          BY <1>2, <2>2, <4>1
        <5> HIDE DEF gain
        <5> QED
          BY <1>2, <5>1, EarnedGrows, Distributes
      <4>2. CASE now[h] < forgotten[k]
        <5>1. (forgotten[k] - now[h]) * limits.rate <= gain
          <6>1. /\ forgotten[k] - now[h] \in Int /\ forgotten[k] - now[h] <= MaxDelay
                /\ MaxDelay \in Int /\ limits.rate \in Nat
            BY <1>2, <2>2
          <6> QED
            BY ONLY <6>1, LaterEarnsMore
        <5>2. Earned(forgotten[k]) - Earned(now[h]) <= gain
          <6>1. (forgotten[k] - now[h]) * limits.rate = Earned(forgotten[k]) - Earned(now[h])
            <7>1. forgotten[k] \in Int /\ now[h] \in Int /\ limits.rate \in Int
              BY <1>2, <2>2
            <7> QED
              BY ONLY <7>1, Distributes DEF Earned
          <6> QED
            BY <5>1, <6>1
        <5>3. late'[k] * gain = late[k] * gain + gain
          <6> HIDE DEF gain
          <6> QED
            BY <1>2, <1>3, <4>1, <4>2
        <5> HIDE DEF gain
        <5> QED
          BY <4>1, <4>a, <5>2, <5>3
      <4>3. CASE ~(now[h] < forgotten[k])
        <5>1. Earned(forgotten[k]) <= Earned(now[h])
          BY ONLY <2>a, <4>3, EarnedGrows
        <5> HIDE DEF gain
        <5> QED
          BY <1>3, <4>1, <4>3, <4>a, <5>1
      <4> QED
        BY <4>2, <4>3
    <3> QED
      BY <3>1, <3>2
  <2>5. /\ Earned(s) \in Int /\ Earned(now[h]) \in Int /\ Earned(FullAt(k)) \in Int
        /\ Level(b) = limits.burst - One - Earned(now[h])
        /\ LateGain(k) \in Int /\ LateGain(k)' \in Int
    <3>1. late'[k] \in Nat /\ MaxDelay * limits.rate \in Nat
      BY <1>2, <1>3
    <3>2. /\ late[k] * (MaxDelay * limits.rate) \in Int
          /\ late'[k] * (MaxDelay * limits.rate) \in Int
      BY <1>2, <3>1
    <3>3. LateGain(k) \in Int /\ LateGain(k)' \in Int
      BY <1>1, <3>2 DEF LateGain, Fast
    <3>4. Level(b) = limits.burst - One - Earned(now[h])
      BY <1>0, <1>a DEF Level
    <3>5. s \in Int /\ now[h] \in Int /\ FullAt(k) \in Int
      BY <1>2, <2>2
    <3>6. Earned(s) \in Int /\ Earned(now[h]) \in Int /\ Earned(FullAt(k)) \in Int
      BY <1>2, <3>5, EarnedGrows
    <3> QED
      BY <3>3, <3>4, <3>6
  <2>6. (c + 1) * One = c * One + One /\ c * One \in Int
    BY <1>2, <2>0
  <2>7. PICK taken, taking : taken = c * One /\ taking = (c + 1) * One
    OBVIOUS
  <2>8. taking = taken + One /\ taken \in Int
    BY <2>6, <2>7
  <2>9. limits.burst - Earned(FullAt(k)) + taken <= limits.burst - Earned(s) + LateGain(k)
    BY <2>3, <2>7
  <2>10. Level(b) + taking <= limits.burst - Earned(s) + LateGain(k)'
    <3>1. One \in Int /\ limits.burst \in Int
      BY <1>2
    <3> QED
      BY ONLY <2>4, <2>5, <2>8, <2>9, <3>1
  <2> QED
    BY <2>7, <2>10
<1>6. late[k] <= late'[k]
  BY <1>2, <1>3
<1> QED
  BY <1>0, <1>a, <1>1, <1>3, <1>4, <1>5, <1>6, GrantKeepsRInv

LEMMA AllowKnownKeepsRInv == ASSUME RInv, NEW h \in Handlers, AllowKnown(h) PROVE RInv'
<1>0. PICK k \in Clients : k = client[h].key
  BY DEF AllowKnown, RInv, Delays
<1>a. PICK r, b : r = Refilled(buckets[k], now[h]) /\ b = Taken(r)
  OBVIOUS
<1>1. /\ now[h] # NotRead /\ Limited /\ Present(k) /\ One <= r.tokens
      /\ buckets' = [buckets EXCEPT ![k] = b]
      /\ Granted(h) /\ late' = late /\ limits' = limits
  BY <1>0, <1>a DEF AllowKnown, Granted
<1>2. /\ k \in Clients /\ now[h] \in 0 .. clock /\ buckets[k] \in Bucket
      /\ clock \in Nat /\ limits.rate \in Nat /\ limits.burst \in Int /\ One \in Nat \ {0}
      /\ granted[k] \in Seq(0 .. clock) /\ late \in [Clients -> Nat]
  BY <1>1, RateAssumption DEF RInv, Types, Delays
<1>3. /\ r \in Bucket /\ r.lastSeen = now[h] /\ r.tokens <= limits.burst
      /\ Level(r) <= Level(buckets[k])
  <2>1. Types /\ now[h] \in Int
    BY <1>2 DEF RInv
  <2> QED
    BY <1>0, <1>a, <1>2, <2>1, RefilledLevel
<1>4. /\ b \in Bucket /\ b.lastSeen = now[h] /\ b.tokens = r.tokens - One
      /\ Level(b) = Level(r) - One /\ Level(r) \in Int /\ Level(buckets[k]) \in Int
  <2>1. b \in Bucket /\ b.lastSeen = now[h] /\ b.tokens = r.tokens - One
    BY <1>0, <1>a, <1>2, <1>3 DEF Taken, Bucket
  <2>2. Earned(now[h]) \in Int /\ Earned(buckets[k].lastSeen) \in Int
    BY <1>2 DEF Earned, Bucket
  <2>3. r.tokens \in Int /\ buckets[k].tokens \in Int /\ One \in Int
    BY <1>2, <1>3 DEF Bucket
  <2>4. /\ Level(b) = r.tokens - One - Earned(now[h]) /\ Level(r) = r.tokens - Earned(now[h])
        /\ Level(buckets[k]) = buckets[k].tokens - Earned(buckets[k].lastSeen)
    BY <1>3, <2>1 DEF Level
  <2>5. Level(b) = Level(r) - One /\ Level(r) \in Int /\ Level(buckets[k]) \in Int
    BY ONLY <2>2, <2>3, <2>4
  <2> QED
    BY <1>3, <2>1, <2>5
<1>5. ASSUME NEW s \in Nat, Count(granted[k], From(s)) > 0
      PROVE  Level(b) + (Count(granted[k], From(s)) + 1) * One
                <= limits.burst - Earned(s) + LateGain(k)'
  <2> DEFINE c == Count(granted[k], From(s))
  <2>1. c \in Nat /\ (c + 1) * One = c * One + One /\ c * One \in Int
    <3>1. c \in Nat
      BY <1>2, CountIsNat
    <3> HIDE DEF c
    <3> QED
      BY <1>2, <3>1
  <2>2. Level(buckets[k]) + c * One <= limits.burst - Earned(s) + LateGain(k)
    BY <1>1, <1>2, <1>5 DEF RInv, Accounts, TakenSince, Balance
  <2>3. LateGain(k)' = LateGain(k) /\ LateGain(k) \in Int /\ Earned(s) \in Int
    <3>1. late[k] \in Nat /\ MaxDelay * limits.rate \in Nat
      BY <1>2, RateAssumption
    <3>2. late[k] * (MaxDelay * limits.rate) \in Int
      BY <3>1
    <3> QED
      BY <1>1, <1>2, <3>2 DEF Earned, LateGain, Fast
  <2>4. PICK taken, taking : taken = c * One /\ taking = (c + 1) * One
    OBVIOUS
  <2>5. taking = taken + One /\ taken \in Int
    BY <2>1, <2>4
  <2>6. Level(buckets[k]) + taken <= limits.burst - Earned(s) + LateGain(k)
    BY <2>2, <2>4
  <2>7. Level(b) + taking <= limits.burst - Earned(s) + LateGain(k)'
    <3>1. PICK after, before, held, bound :
             /\ after = Level(b) /\ before = Level(r) /\ held = Level(buckets[k])
             /\ bound = limits.burst - Earned(s) + LateGain(k)
      OBVIOUS
    <3>2. /\ before \in Int /\ held \in Int /\ bound \in Int /\ taken \in Int /\ One \in Int
          /\ after = before - One /\ before <= held /\ held + taken <= bound
          /\ taking = taken + One
      BY ONLY <3>1, <1>2, <1>3, <1>4, <2>3, <2>5, <2>6
    <3>3. after + taking <= bound
      BY ONLY <3>2
    <3> QED
      BY ONLY <3>1, <3>3, <2>3
  <2> QED
    BY <2>4, <2>7
<1>6. 0 <= b.tokens /\ b.tokens <= limits.burst - One
  <2> QED
    BY <1>1, <1>2, <1>3, <1>4 DEF Bucket
<1>7. late' \in [Clients -> Nat] /\ late[k] <= late'[k]
      /\ \A j \in Clients \ {k} : late'[j] = late[j]
  BY <1>1, <1>2
<1> QED
  BY <1>0, <1>a, <1>1, <1>4, <1>5, <1>6, <1>7, GrantKeepsRInv

\* A bucket may be brought up to date at any time somebody waits with: what
\* is said of the accounts, the spans and the promises stays true.
LEMMA RefillKeepsLevels ==
    ASSUME RInv, NEW k \in Clients, Present(k), NEW t \in 0 .. clock, clock - t <= MaxDelay,
           limits' = limits, clock' = clock, granted' = granted, late' = late,
           buckets'[k] = Refilled(buckets[k], t)
    PROVE  /\ Debts!(k)!2'
           /\ Present(k)'
           /\ \A s \in Nat : TakenSince(k, s)'
           /\ Level(buckets'[k]) = Level(buckets[k]) \/ buckets'[k].tokens = limits.burst
<1>1. Limited /\ buckets[k] \in Bucket /\ t \in Int /\ t \in 0 .. clock
  BY DEF RInv, Types, Debts
<1>2. /\ buckets'[k] \in Bucket /\ buckets'[k].lastSeen = t
      /\ buckets'[k].tokens <= limits.burst /\ Level(buckets'[k]) <= Level(buckets[k])
      /\ buckets'[k].tokens = limits.burst \/ Level(buckets'[k]) = Level(buckets[k])
  BY <1>1, RefilledLevel DEF RInv
<1>3. Present(k)'
  BY <1>1, <1>2 DEF Present, NoBucket
<1>4. Debts!(k)!2'
  BY <1>1, <1>2, RefilledDebt DEF Limited, Level, Earned
<1>5. LateGain(k)' = LateGain(k) /\ Balance(k)' = Level(buckets'[k])
      /\ Balance(k) = Level(buckets[k])
  BY <1>3 DEF LateGain, Fast, Balance, Level, Earned
<1>6. ASSUME NEW s \in Nat PROVE TakenSince(k, s)'
  <2> DEFINE c == Count(granted[k], From(s))
  <2> SUFFICES ASSUME c > 0
               PROVE  Level(buckets'[k]) + c * One <= limits.burst - Earned(s) + LateGain(k)
    BY <1>5 DEF TakenSince, Earned
  <2>1. Level(buckets[k]) + c * One <= limits.burst - Earned(s) + LateGain(k)
    BY <1>1, <1>5 DEF RInv, Accounts, TakenSince
  <2>2. c \in Nat /\ One \in Nat /\ limits.rate \in Nat /\ limits.burst \in Int
        /\ late[k] \in Nat
    BY CountIsNat, RateAssumption DEF RInv, Types
  <2>3. Level(buckets'[k]) \in Int /\ Level(buckets[k]) \in Int /\ Earned(s) \in Int
    BY <1>1, <1>2, <2>2, EarnedGrows DEF Level, Bucket
  <2>4. LateGain(k) \in Int
    <3>1. late[k] * (MaxDelay * limits.rate) \in Int
      BY <2>2, RateAssumption
    <3> QED
      BY <3>1 DEF LateGain
  <2>5. PICK taken : taken = c * One
    OBVIOUS
  <2>6. taken \in Int
    BY <2>2, <2>5
  <2>7. Level(buckets[k]) + taken <= limits.burst - Earned(s) + LateGain(k)
    BY <2>1, <2>5
  <2>8. Level(buckets'[k]) + taken <= limits.burst - Earned(s) + LateGain(k)
    <3>1. limits.burst \in Int /\ Level(buckets'[k]) <= Level(buckets[k])
      BY <1>2, <2>2
    <3> QED
      BY ONLY <2>3, <2>4, <2>6, <2>7, <3>1
  <2> QED
    BY <2>5, <2>8
<1> QED
  BY <1>2, <1>3, <1>4, <1>6

LEMMA RefuseKeepsRInv == ASSUME RInv, NEW h \in Handlers, Refuse(h) PROVE RInv'
<1>0. PICK k \in Clients : k = client[h].key /\ k = client[h].sender
  BY DEF Refuse, RInv, Delays
<1> DEFINE b == Refilled(buckets[k], now[h])
<1>1. /\ now[h] # NotRead /\ Limited /\ Present(k) /\ b.tokens < One
      /\ buckets' = [buckets EXCEPT ![k] = b]
      /\ promised' = [promised EXCEPT ![k] =
                          IF @ = NotRead THEN now[h] + RetryAfter(b) ELSE @]
      /\ now' = [now EXCEPT ![h] = NotRead]
      /\ UNCHANGED <<limits, clock, client, sweepNow, granted, forgotten, late>>
  BY <1>0 DEF Refuse
<1>2. /\ now[h] \in 0 .. clock /\ clock - now[h] <= MaxDelay /\ buckets[k] \in Bucket
      /\ limits.rate \in Nat \ {0} /\ limits.burst \in Int /\ One \in Nat
      /\ One <= limits.burst /\ clock \in Nat
  BY <1>1, RateAssumption DEF RInv, Types, Delays, Limited
<1>3. buckets'[k] = b /\ \A j \in Clients \ {k} : buckets'[j] = buckets[j]
  BY <1>1 DEF RInv, Types
<1>4. /\ Debts!(k)!2' /\ Present(k)' /\ \A s \in Nat : TakenSince(k, s)'
      /\ Level(b) = Level(buckets[k]) \/ b.tokens = limits.burst
  BY <1>1, <1>2, <1>3, RefillKeepsLevels
<1>5. /\ b \in Bucket /\ b.lastSeen = now[h] /\ Level(b) = Level(buckets[k])
      /\ Level(b) = b.tokens - Earned(now[h])
  <2>1. Types /\ now[h] \in Int
    BY <1>2 DEF RInv
  <2>2. b \in Bucket /\ b.lastSeen = now[h]
    BY <1>2, <2>1, RefilledLevel
  <2> HIDE DEF b
  <2> QED
    BY <1>1, <1>2, <1>4, <2>2 DEF Level, Bucket
<1>6. /\ RetryAfter(b) \in Nat /\ now[h] + RetryAfter(b) \in Nat
      /\ One <= Level(b) + Earned(now[h] + RetryAfter(b))
  <2>1. One - b.tokens \in Nat /\ b.tokens \in Int
    BY <1>1, <1>2, <1>5 DEF Bucket
  <2>2. PICK wait \in Nat : wait = RetryAfter(b)
    BY <1>2, <2>1, WaitEarnsEnough DEF RetryAfter
  <2>3. One - b.tokens <= wait * limits.rate
    BY <1>2, <2>1, <2>2, WaitEarnsEnough DEF RetryAfter
  <2>4. Earned(now[h] + wait) = Earned(now[h]) + wait * limits.rate
        /\ Earned(now[h]) \in Int /\ wait * limits.rate \in Int
    BY <1>2, <2>2 DEF Earned
  <2>5. One <= Level(b) + Earned(now[h] + wait)
    <3>1. One \in Int
      BY <1>2
    <3> HIDE DEF b
    <3> QED
      BY ONLY <1>5, <2>1, <2>3, <2>4, <3>1
  <2> QED
    BY <1>2, <2>2, <2>5
<1>7. Types'
  <2> HIDE DEF b
  <2> QED
    BY <1>1, <1>5, <1>6 DEF RInv, Types, Limited
<1>8. Delays'
  BY <1>1 DEF RInv, Types, Delays, Limited
<1>9. \A j \in Clients \ {k} :
         /\ Present(j)' <=> Present(j)
         /\ \A s \in Nat : TakenSince(j, s) => TakenSince(j, s)'
  BY <1>1, <1>3, OtherKeys
<1>10. Debts'
  <2> SUFFICES ASSUME NEW j \in Clients, Present(j)' PROVE Debts!(j)!2'
    BY DEF Debts
  <2>1. CASE j = k
    BY <1>4, <2>1
  <2>2. CASE j # k
    BY <1>1, <1>3, <1>9, <2>2 DEF RInv, Debts, Level, Earned, Limited
  <2> QED
    BY <2>1, <2>2
<1>11. Accounts'
  BY <1>1, <1>4, <1>9 DEF RInv, Accounts, Limited
<1>12. Spans'
  BY <1>1 DEF RInv, Spans, SpanBound, LateGain, Fast, Earned, Limited
<1>13. Promises'
  <2> HIDE DEF b
  <2>1. promised'[k] # NotRead => One <= Level(b) + Earned(promised'[k])
    BY <1>1, <1>5, <1>6 DEF RInv, Types, Promises
  <2> QED
    BY <1>1, <1>3, <1>9, <2>1 DEF RInv, Types, Promises, Level, Earned
<1> QED
  BY <1>7, <1>8, <1>10, <1>11, <1>12, <1>13 DEF RInv

---------------------------------------------------------------------------
(* cleanup.                                                                *)

\* A bucket that goes was full; a fast one was so before anybody who waits
\* came in.
LEMMA ForgottenWhenFull ==
    ASSUME RInv, NEW k \in Clients, Present(k), sweepNow # NotRead,
           Swept(buckets[k]) = NoBucket, limits' = limits, forgotten'[k] = sweepNow
    PROVE  limits.burst - Earned(FullAt(k)') <= Level(buckets[k])
<1> DEFINE b == buckets[k]
           full == Refilled(b, sweepNow)
<1>1. /\ sweepNow \in 0 .. clock /\ clock \in Nat /\ b \in Bucket
      /\ limits.rate \in Nat /\ limits.burst \in Int /\ MaxDelay \in Nat /\ IdleFor \in Nat
      /\ -(MaxDelay * limits.rate) <= b.tokens
  BY RateAssumption DEF RInv, Types, Debts
<1>2. Idle(b) /\ limits.burst <= full.tokens
  <2>1. full.lastSeen # -1
    BY <1>1 DEF Refilled
  <2>2. full # NoBucket
    BY <2>1 DEF NoBucket
  <2> QED
    BY <2>2, <1>1 DEF Swept, Present, RInv, Types, Refilled, Lower, Bucket
<1>3. Fast' <=> Fast
  BY DEF Fast
<1>4. /\ Earned(sweepNow) \in Int /\ Earned(b.lastSeen) \in Int
      /\ b.tokens \in Int /\ b.lastSeen \in Int
  BY <1>1, EarnedGrows DEF Bucket
<1>5. CASE ~Fast
  <2>1. full \in Bucket /\ full.lastSeen = sweepNow /\ Level(full) <= Level(b)
    <3>1. Types /\ sweepNow \in Int
      BY <1>1 DEF RInv
    <3> QED
      BY <1>1, <3>1, RefilledLevel
  <2>2. FullAt(k)' = sweepNow
    BY <1>3, <1>5 DEF FullAt
  <2> HIDE DEF full
  <2> QED
    BY <1>1, <1>2, <1>4, <2>1, <2>2 DEF Level, Bucket
<1>6. CASE Fast
  <2>1. FullAt(k)' = sweepNow - MaxDelay
    BY <1>3, <1>6 DEF FullAt
  <2>2. b.lastSeen <= sweepNow - IdleFor
    BY <1>1, <1>2, <1>4 DEF Idle
  <2>3. Earned(b.lastSeen) <= Earned(sweepNow - IdleFor)
    BY <1>1, <1>4, <2>2, EarnedGrows
  <2>4. /\ Earned(sweepNow - IdleFor) = Earned(sweepNow) - IdleFor * limits.rate
        /\ Earned(sweepNow - MaxDelay) = Earned(sweepNow) - MaxDelay * limits.rate
    BY <1>1, Distributes DEF Earned
  <2>5. limits.burst <= IdleFor * limits.rate - 2 * (MaxDelay * limits.rate)
    <3>1. limits.rate * (IdleFor - 2 * MaxDelay)
             = IdleFor * limits.rate - 2 * (MaxDelay * limits.rate)
      BY <1>1
    <3> QED
      BY <1>6, <3>1 DEF Fast
  <2>6. PICK idle, delay : idle = IdleFor * limits.rate /\ delay = MaxDelay * limits.rate
    OBVIOUS
  <2>7. idle \in Int /\ delay \in Int
    BY <1>1, <2>6
  <2>8. /\ -delay <= b.tokens
        /\ Earned(b.lastSeen) <= Earned(sweepNow) - idle
        /\ limits.burst <= idle - 2 * delay
        /\ Earned(FullAt(k)') = Earned(sweepNow) - delay
    BY <1>1, <2>1, <2>3, <2>4, <2>5, <2>6
  <2>9. limits.burst - Earned(FullAt(k)') <= b.tokens - Earned(b.lastSeen)
    <3>1. limits.burst \in Int
      BY <1>1
    <3> HIDE DEF b
    <3> QED
      BY ONLY <1>4, <2>7, <2>8, <3>1
  <2> QED
    BY <2>9 DEF Level
<1> QED
  BY <1>5, <1>6

LEMMA SweepKeepsRInv == ASSUME RInv, Sweep PROVE RInv'
<1>1. /\ sweepNow # NotRead /\ sweepNow' = NotRead
      /\ \A k \in Clients : buckets'[k] = Swept(buckets[k])
      /\ \A k \in Clients :
            forgotten'[k] = IF Present(k) /\ ~Present(k)' THEN sweepNow ELSE forgotten[k]
      /\ forgotten' = [k \in Clients |-> forgotten'[k]]
      /\ buckets' = [k \in Clients |-> buckets'[k]]
      /\ UNCHANGED <<limits, clock, now, client, granted, promised, late>>
  BY DEF Sweep
<1>2. /\ Limited /\ sweepNow \in 0 .. clock /\ clock - sweepNow <= MaxDelay
      /\ sweepNow \in Nat /\ limits.rate \in Nat /\ limits.burst \in Int
  BY <1>1 DEF RInv, Types, Delays
<1>3. ASSUME NEW k \in Clients
      PROVE  \/ buckets'[k] = buckets[k]
             \/ /\ Present(k) /\ buckets'[k] = Refilled(buckets[k], sweepNow)
                /\ ~(buckets'[k].tokens >= limits.burst)
             \/ Present(k) /\ buckets'[k] = NoBucket
  BY <1>1 DEF Swept, Present
<1>4. ASSUME NEW k \in Clients, buckets'[k] = buckets[k]
      PROVE  /\ Present(k)' <=> Present(k)
             /\ forgotten'[k] = forgotten[k]
             /\ Present(k) => Debts!(k)!2'
             /\ \A s \in Nat : TakenSince(k, s)'
  <2>1. (Present(k)' <=> Present(k)) /\ forgotten'[k] = forgotten[k]
    BY <1>1, <1>4 DEF Present
  <2>2. Present(k) => Debts!(k)!2'
    BY <1>1, <1>4 DEF RInv, Debts, Level, Earned, Limited
  <2> QED
    BY <1>1, <1>2, <1>4, <2>1, <2>2, OtherKeys DEF RInv, Accounts
<1>5. ASSUME NEW k \in Clients, Present(k), buckets'[k] = Refilled(buckets[k], sweepNow),
             ~(buckets'[k].tokens >= limits.burst)
      PROVE  /\ Present(k)' /\ Debts!(k)!2'
             /\ \A s \in Nat : TakenSince(k, s)'
             /\ Level(buckets'[k]) = Level(buckets[k])
  BY <1>1, <1>2, <1>5, RefillKeepsLevels
<1>6. ASSUME NEW k \in Clients, Present(k), buckets'[k] = NoBucket
      PROVE  /\ ~Present(k)' /\ forgotten'[k] # NotRead
             /\ \A s \in Nat : TakenSince(k, s)'
  <2>1. ~Present(k)' /\ forgotten'[k] = sweepNow
    BY <1>1, <1>6 DEF Present
  <2>2. limits.burst - Earned(FullAt(k)') <= Level(buckets[k])
    BY <1>1, <1>6, <2>1, ForgottenWhenFull
  <2>3. Balance(k)' = limits.burst - Earned(FullAt(k)') /\ Balance(k) = Level(buckets[k])
        /\ LateGain(k)' = LateGain(k)
    BY <1>1, <1>6, <2>1 DEF Balance, Earned, LateGain, Fast
  <2>4. /\ FullAt(k)' \in Int /\ Earned(FullAt(k)') \in Int /\ Level(buckets[k]) \in Int
        /\ LateGain(k) \in Int
    <3>1. FullAt(k)' \in Int
      BY <1>1, <1>2, <2>1, RateAssumption DEF FullAt
    <3>2. late[k] \in Nat /\ MaxDelay * limits.rate \in Nat
      BY <1>2, RateAssumption DEF RInv, Types
    <3>3. late[k] * (MaxDelay * limits.rate) \in Int
      BY <3>2
    <3>4. buckets[k].tokens \in Int /\ buckets[k].lastSeen \in Int
      BY DEF RInv, Types, Bucket
    <3>5. Earned(FullAt(k)') \in Int /\ Earned(buckets[k].lastSeen) \in Int
      BY <1>2, <3>1, <3>4, EarnedGrows
    <3> QED
      BY <3>1, <3>3, <3>4, <3>5 DEF Level, LateGain
  <2>5. ASSUME NEW s \in Nat PROVE TakenSince(k, s)'
    <3> DEFINE c == Count(granted[k], From(s))
    <3>1. c > 0 => Level(buckets[k]) + c * One <= limits.burst - Earned(s) + LateGain(k)
      BY <1>2, <2>3 DEF RInv, Accounts, TakenSince
    <3>2. c \in Nat /\ One \in Nat /\ Earned(s) \in Int
      <4>1. granted[k] \in Seq(0 .. clock)
        BY DEF RInv, Types
      <4>2. c \in Nat
        BY <4>1, CountIsNat
      <4> QED
        BY <1>2, <4>2, RateAssumption, EarnedGrows
    <3>3. PICK taken : taken = c * One
      OBVIOUS
    <3>4. taken \in Int /\ limits.burst \in Int
      BY <1>2, <3>2, <3>3
    <3>5. c > 0 => Level(buckets[k]) + taken <= limits.burst - Earned(s) + LateGain(k)
      BY <3>1, <3>3
    <3>6. c > 0 => limits.burst - Earned(FullAt(k)') + taken
                      <= limits.burst - Earned(s) + LateGain(k)
      <4> HIDE DEF c
      <4> QED
        BY ONLY <2>2, <2>4, <3>2, <3>4, <3>5
    <3>7. granted'[k] = granted[k] /\ Earned(s)' = Earned(s) /\ limits' = limits
      BY <1>1 DEF Earned
    <3> QED
      BY <2>3, <3>3, <3>6, <3>7 DEF TakenSince
  <2> QED
    BY <1>2, <2>1, <2>5 DEF NotRead
<1>7. ASSUME NEW k \in Clients
      PROVE  /\ buckets'[k] \in Bucket
             /\ forgotten'[k] \in {NotRead} \cup 0 .. clock
             /\ Present(k)' => Debts!(k)!2'
             /\ \A s \in Nat : TakenSince(k, s)'
             /\ ~Present(k)' /\ forgotten'[k] = NotRead =>
                    ~Present(k) /\ forgotten[k] = NotRead
             /\ Present(k)' => Present(k) /\ Level(buckets'[k]) = Level(buckets[k])
  <2>1. buckets[k] \in Bucket /\ NoBucket \in Bucket /\ sweepNow \in Int
        /\ forgotten[k] \in {NotRead} \cup 0 .. clock
    BY <1>2 DEF RInv, Types, Bucket, NoBucket
  <2>2. Refilled(buckets[k], sweepNow) \in Bucket
    BY <2>1, RefilledLevel DEF RInv
  <2>3. buckets'[k] \in Bucket /\ forgotten'[k] \in {NotRead} \cup 0 .. clock
    BY <1>1, <1>2, <1>3, <2>1, <2>2
  <2> QED
    BY <1>3, <1>4, <1>5, <1>6, <2>3
<1>8. Types'
  BY <1>1, <1>7 DEF RInv, Types, Limited
<1>9. Delays'
  BY <1>1 DEF RInv, Delays
<1>10. Debts'
  BY <1>7 DEF Debts
<1>11. Accounts'
  BY <1>1, <1>7 DEF RInv, Accounts, Limited
<1>12. Spans'
  BY <1>1 DEF RInv, Spans, SpanBound, LateGain, Fast, Earned, Limited
<1>13. Promises'
  <2> SUFFICES ASSUME NEW k \in Clients, Present(k)', promised'[k] # NotRead
               PROVE  One <= Level(buckets'[k]) + Earned(promised[k])
    BY <1>1 DEF Promises, Level, Earned
  <2>1. Present(k) /\ One <= Level(buckets[k]) + Earned(promised[k])
    BY <1>1, <1>7 DEF RInv, Promises
  <2> QED
    BY <1>7, <2>1
<1> QED
  BY <1>8, <1>9, <1>10, <1>11, <1>12, <1>13 DEF RInv

---------------------------------------------------------------------------
(* Time, and what does not touch the buckets.                              *)

LEMMA TickKeepsRInv == ASSUME RInv, Tick PROVE RInv'
<1>1. /\ clock < MaxClock /\ clock' = clock + 1
      /\ \A t \in Waiting \ {NotRead} : clock - t < MaxDelay
      /\ UNCHANGED <<limits, buckets, now, client, sweepNow, granted, promised, forgotten, late>>
  BY DEF Tick, history
<1>2. clock \in Nat /\ MaxClock \in Nat /\ MaxDelay \in Nat /\ limits.rate \in Nat
  BY RateAssumption DEF RInv, Types
<1>3. 0 .. clock \subseteq 0 .. clock' /\ clock' \in 0 .. MaxClock
  BY <1>1, <1>2
<1>4. granted' \in [Clients -> Seq(0 .. clock')]
  <2>1. ASSUME NEW k \in Clients PROVE granted[k] \in Seq(0 .. clock')
    BY <1>3, SeqMonotonic DEF RInv, Types
  <2> QED
    BY <1>1, <2>1 DEF RInv, Types
<1>5. Types'
  BY <1>1, <1>3, <1>4 DEF RInv, Types, Limited
<1>6. Delays'
  <2>1. \A h \in Handlers : now[h] # NotRead => clock - now[h] < MaxDelay /\ now[h] \in Int
    BY <1>1 DEF Waiting, RInv, Types
  <2>2. sweepNow # NotRead => clock - sweepNow < MaxDelay /\ sweepNow \in Int
    BY <1>1 DEF Waiting, RInv, Types
  <2> QED
    BY <1>1, <1>2, <2>1, <2>2 DEF RInv, Delays, Limited
<1>7. Debts'
  <2>1. Earned(clock) <= Earned(clock') /\ Earned(clock) \in Int /\ Earned(clock') \in Int
    BY <1>1, <1>2, EarnedGrows
  <2> SUFFICES ASSUME NEW k \in Clients, Present(k) PROVE Debts!(k)!2'
    BY <1>1 DEF Debts, Present
  <2>2. -Earned(clock) <= Level(buckets[k]) /\ Level(buckets[k]) \in Int
    <3>1. buckets[k].tokens \in Int /\ buckets[k].lastSeen \in Int
      BY DEF RInv, Types, Bucket
    <3>2. Earned(buckets[k].lastSeen) \in Int
      BY <1>2, <3>1, EarnedGrows
    <3> QED
      BY <3>1, <3>2 DEF RInv, Debts, Level
  <2>3. -Earned(clock') <= Level(buckets[k])
    BY ONLY <2>1, <2>2
  <2>4. Level(buckets[k])' = Level(buckets[k]) /\ Earned(clock)' = Earned(clock')
    BY <1>1 DEF Level, Earned
  <2> QED
    BY <1>1, <1>3, <2>3, <2>4 DEF RInv, Debts, Limited
<1>8. Accounts' /\ Spans' /\ Promises'
  BY <1>1 DEF RInv, Accounts, TakenSince, Balance, FullAt, Present, Spans, SpanBound, Promises,
     Level, LateGain, Fast, Earned, Limited
<1> QED
  BY <1>5, <1>6, <1>7, <1>8 DEF RInv

\* A request is counted for who sent it: its proxy says so, or, without one,
\* the connection does, whatever the headers say.
LEMMA KeyIsSender ==
    ASSUME Types, NEW r \in Requests(limits.trustProxy)
    PROVE  clientKey(r) = Sender(r) /\ Sender(r) \in Clients
<1>1. limits.trustProxy \in BOOLEAN
  BY DEF Types
<1>2. r \in [remote : Clients, forwarded : Seq(Clients),
             realIP : Clients \cup {NoHeader}, from : Clients]
  BY <1>1, RateAssumption
<1>3. CASE limits.trustProxy = TRUE
  <2>1. r.from = IF r.forwarded # << >> THEN Head(r.forwarded)
                 ELSE IF r.realIP # NoHeader THEN r.realIP ELSE r.remote
    BY <1>3, ProxyAssumption
  <2> QED
    BY <1>2, <1>3, <2>1 DEF clientKey, Sender
<1>4. CASE limits.trustProxy = FALSE
  BY <1>2, <1>4 DEF clientKey, Sender
<1> QED
  BY <1>1, <1>3, <1>4

\* The rest leaves everything but the waiting alone.
LEMMA WaitingKeepsRInv ==
    ASSUME RInv, UNCHANGED <<limits, clock, buckets, history>>, Types', Delays'
    PROVE  RInv'
BY DEF RInv, Debts, Accounts, TakenSince, Balance, FullAt, Present, Spans, SpanBound, Promises,
       Level, LateGain, Fast, Earned, Limited, history

LEMMA ArriveKeepsRInv ==
    ASSUME RInv, NEW h \in Handlers, NEW r \in Requests(limits.trustProxy), Arrive(h, r)
    PROVE  RInv'
<1>1. /\ now' = [now EXCEPT ![h] = clock]
      /\ client' = [client EXCEPT ![h] = [key |-> clientKey(r), sender |-> Sender(r)]]
      /\ UNCHANGED <<limits, clock, buckets, sweepNow, history>>
  BY DEF Arrive
<1>2. clientKey(r) = Sender(r) /\ Sender(r) \in Clients
  BY KeyIsSender DEF RInv
<1>3. clock \in 0 .. clock /\ clock - clock <= MaxDelay
  BY RateAssumption DEF RInv, Types
<1>4. Types'
  BY <1>1, <1>2, <1>3 DEF RInv, Types, history, Limited
<1>5. Delays'
  BY <1>1, <1>2, <1>3 DEF RInv, Types, Delays, Limited
<1> QED
  BY <1>1, <1>4, <1>5, WaitingKeepsRInv

LEMMA OthersKeepRInv ==
    ASSUME RInv, \/ SweepStart \/ UNCHANGED vars \/ \E h \in Handlers : AllowAll(h)
    PROVE  RInv'
<1>1. UNCHANGED <<limits, clock, buckets, history, client>>
  <2>1. CASE SweepStart
    BY <2>1 DEF SweepStart
  <2>2. CASE UNCHANGED vars
    BY <2>2 DEF vars
  <2>3. ASSUME NEW h \in Handlers, AllowAll(h)
        PROVE  UNCHANGED <<limits, clock, buckets, history, client>>
    BY <2>3 DEF AllowAll
  <2> QED
    BY <2>1, <2>2, <2>3
<1>2. /\ now' \in [Handlers -> {NotRead} \cup 0 .. clock]
      /\ \A h \in Handlers : now'[h] # NotRead => now'[h] = now[h]
  BY DEF SweepStart, AllowAll, vars, RInv, Types
<1>3. \/ sweepNow' = sweepNow
      \/ Limited /\ sweepNow' = clock
  <2>1. CASE SweepStart
    BY <2>1 DEF SweepStart
  <2>2. CASE UNCHANGED vars
    BY <2>2 DEF vars
  <2>3. ASSUME NEW h \in Handlers, AllowAll(h) PROVE sweepNow' = sweepNow
    BY <2>3 DEF AllowAll
  <2> QED
    BY <2>1, <2>2, <2>3
<1>4. clock \in 0 .. clock /\ clock - clock <= MaxDelay
  BY RateAssumption DEF RInv, Types
<1>5. Types'
  BY <1>1, <1>2, <1>3, <1>4 DEF RInv, Types, history, Limited
<1>6. Delays'
  BY <1>1, <1>2, <1>3, <1>4 DEF RInv, Delays, Limited
<1> QED
  BY <1>1, <1>5, <1>6, WaitingKeepsRInv

LEMMA NextKeepsRInv == ASSUME RInv, [Next]_vars PROVE RInv'
<1>1. CASE Tick
  BY <1>1, TickKeepsRInv
<1>2. CASE Sweep
  BY <1>2, SweepKeepsRInv
<1>3. ASSUME NEW h \in Handlers, NEW r \in Requests(limits.trustProxy), Arrive(h, r) PROVE RInv'
  BY <1>3, ArriveKeepsRInv
<1>4. ASSUME NEW h \in Handlers, AllowNew(h) \/ AllowKnown(h) \/ Refuse(h) PROVE RInv'
  BY <1>4, AllowNewKeepsRInv, AllowKnownKeepsRInv, RefuseKeepsRInv
<1>5. CASE SweepStart \/ UNCHANGED vars \/ \E h \in Handlers : AllowAll(h)
  BY <1>5, OthersKeepRInv
<1> QED
  BY <1>1, <1>2, <1>3, <1>4, <1>5 DEF Next

---------------------------------------------------------------------------

LEMMA RInvImplies == ASSUME RInv PROVE TypeOK /\ WindowBound
<1>1. TypeOK
  <2>1. ASSUME NEW k \in Clients, Present(k)
        PROVE  buckets[k].tokens \in -(MaxDelay * limits.rate) .. limits.burst
    <3>1. MaxDelay * limits.rate \in Int
      BY RateAssumption DEF RInv, Types
    <3>2. buckets[k].tokens \in Int /\ limits.burst \in Int
      BY DEF RInv, Types, Bucket
    <3> QED
      BY <2>1, <3>1, <3>2 DEF RInv, Debts
  <2> QED
    BY <2>1 DEF RInv, Types, Debts, TypeOK
<1>2. WindowBound
  <2> SUFFICES ASSUME Limited, NEW k \in Clients, NEW s \in 0 .. clock, NEW e \in s .. clock
               PROVE  GrantedWithin(k, s, e) * One
                         <= limits.burst + (e - s) * limits.rate + LateGain(k)
    BY DEF WindowBound
  <2>1. s \in Nat /\ e \in Nat /\ s <= e /\ limits.rate \in Int
    BY DEF RInv, Types
  <2>2. SpanBound(k, s, e)
    BY <2>1 DEF RInv, Spans
  <2>3. (e - s) * limits.rate = Earned(e) - Earned(s)
    BY <2>1, Distributes DEF Earned
  <2> QED
    BY <2>2, <2>3 DEF SpanBound, GrantedWithin, Count
<1> QED
  BY <1>1, <1>2

\* Whatever the rate and the burst, however many handlers overtake each other,
\* whenever cleanup runs and whatever headers are made up: in no span of time
\* is anybody granted more than the burst and what the span earns, but for what
\* late requests gain when a slow bucket has just been forgotten.
THEOREM LimitHolds == Spec => [](TypeOK /\ WindowBound)
<1>1. Init => RInv
  BY RInvInit
<1>2. RInv /\ [Next]_vars => RInv'
  BY NextKeepsRInv
<1>3. RInv => TypeOK /\ WindowBound
  BY RInvImplies
<1> QED
  BY <1>1, <1>2, <1>3, PTL DEF Spec

\* A client that waits as long as Retry-After says is not refused.
LEMMA RefusedBeforePromise ==
    ASSUME RInv, NEW h \in Handlers, Refuse(h)
    PROVE  \/ promised[client[h].sender] = NotRead
           \/ now[h] < promised[client[h].sender]
<1>0. PICK k \in Clients : k = client[h].key /\ k = client[h].sender
  BY DEF Refuse, RInv, Delays
<1> SUFFICES ASSUME promised[k] # NotRead PROVE now[h] < promised[k]
  BY <1>0
<1> DEFINE r == Refilled(buckets[k], now[h])
<1>1. now[h] # NotRead /\ Limited /\ Present(k) /\ r.tokens < One
  BY <1>0 DEF Refuse
<1>2. /\ now[h] \in Int /\ promised[k] \in Int /\ buckets[k] \in Bucket
      /\ limits.rate \in Nat /\ limits.burst \in Int /\ One \in Nat /\ One <= limits.burst
  BY <1>1, RateAssumption DEF RInv, Types
<1>3. /\ r \in Bucket /\ r.lastSeen = now[h]
      /\ r.tokens = limits.burst \/ Level(r) = Level(buckets[k])
  BY <1>2, RefilledLevel DEF RInv
<1>4. One <= Level(buckets[k]) + Earned(promised[k])
  BY <1>1 DEF RInv, Promises
<1>5. /\ Earned(now[h]) \in Int /\ Earned(promised[k]) \in Int
      /\ promised[k] <= now[h] => Earned(promised[k]) <= Earned(now[h])
  BY <1>2, EarnedGrows
<1> HIDE DEF r
<1>6. Level(r) = r.tokens - Earned(now[h]) /\ r.tokens \in Int
  BY <1>3 DEF Level, Bucket
<1>7. ~(promised[k] <= now[h])
  <2>1. Level(r) = Level(buckets[k])
    BY <1>1, <1>2, <1>3, <1>6
  <2> QED
    BY <1>1, <1>2, <1>4, <1>5, <1>6, <2>1
<1> QED
  BY <1>2, <1>7

\* Retry-After is kept, whatever others send and whenever cleanup runs.
THEOREM RetryAfterIsKept == Spec => RetryIsHonoured
<1>1. Init => RInv
  BY RInvInit
<1>2. RInv /\ [Next]_vars => RInv'
  BY NextKeepsRInv
<1>3. RInv => \A h \in Handlers :
          LET k == client[h].sender IN
          Refuse(h) => promised[k] = NotRead \/ now[h] < promised[k]
  BY RefusedBeforePromise
<1> QED
  BY <1>1, <1>2, <1>3, PTL DEF Spec, RetryIsHonoured
=============================================================================
