---------------------------- MODULE RateLimiter ----------------------------
(***************************************************************************)
(* The token buckets of the HTTP server (internal/httpmcp/ratelimit.go).   *)
(* A handler and the reaper read the clock BEFORE they take the lock, so   *)
(* the times at which a bucket is refilled need not increase.              *)
(*                                                                         *)
(* A token is One fractions; a bucket earns `rate' fractions in a tick of  *)
(* the clock.  The code counts in float64; fractions are exact.            *)
(***************************************************************************)
EXTENDS Integers, Sequences, FiniteSets

CONSTANTS
    Clients,       \* addresses
    Requests(_),   \* what arrives, with or without a trusted proxy in front:
                   \* [remote, forwarded, realIP] and the client it is from
    Handlers,      \* HTTP requests in progress
    One,
    Options,       \* what the server may be started with: [rate, burst, trustProxy]
    IdleFor,       \* sessionTTL: age from which cleanup looks at a bucket
    MaxDelay,      \* ticks between reading the clock and having the lock
    MaxClock,      \* bound of the instance: last tick
    MaxGrants      \* bound of the instance: requests granted to a client

NoHeader == "none"

ASSUME RateAssumption ==
    /\ One \in Nat \ {0}
    /\ Options \subseteq [rate : Int, burst : Int, trustProxy : BOOLEAN]
    /\ IdleFor \in Nat /\ MaxDelay \in 0 .. IdleFor /\ MaxClock \in Nat
    /\ \A trustProxy \in BOOLEAN :
          Requests(trustProxy) \subseteq
            [remote : Clients, forwarded : Seq(Clients),
             realIP : Clients \cup {NoHeader}, from : Clients]

\* -trust-proxy is for a server behind a proxy that names its clients, in one
\* header or the other.
ASSUME ProxyAssumption ==
    \A r \in Requests(TRUE) :
        r.from = IF r.forwarded # << >> THEN Head(r.forwarded)
                 ELSE IF r.realIP # NoHeader THEN r.realIP ELSE r.remote

VARIABLES
    limits,        \* the options in force; they never change
    clock,
    buckets,       \* one of [tokens, lastSeen] per key, or NoBucket
    now,           \* now[h]: the time h read, or NotRead
    client,        \* client[h]: the key and the sender of its request
    sweepNow,      \* the time cleanup read, or NotRead
    granted,       \* when the granted requests of each sender came in (history)
    promised,      \* when a refusal since the last grant says to come back (history)
    forgotten,     \* the time up to which a key's bucket was full when it went (history)
    late           \* new buckets of requests older than that (history)

history == <<granted, promised, forgotten, late>>
vars == <<limits, clock, buckets, now, client, sweepNow, history>>

NoBucket == [tokens |-> 0, lastSeen |-> -1]
NotRead == -1

Present(k) == buckets[k] # NoBucket

Lower(x, y) == IF x < y THEN x ELSE y
Higher(x, y) == IF x < y THEN y ELSE x

\* Without a rate there is no limiter (nil), else at least one token to burst.
newRateLimiter(o) ==
    IF o.rate <= 0 THEN [o EXCEPT !.rate = 0] ELSE [o EXCEPT !.burst = Higher(One, @)]

Limited == limits.rate > 0

Init ==
    /\ limits \in {newRateLimiter(o) : o \in Options}
    /\ clock = 0
    /\ buckets = [k \in Clients |-> NoBucket]
    /\ now = [h \in Handlers |-> NotRead]
    /\ client = [h \in Handlers |-> [key |-> NoHeader, sender |-> NoHeader]]
    /\ sweepNow = NotRead
    /\ granted = [k \in Clients |-> << >>]
    /\ promised = [k \in Clients |-> NotRead]
    /\ forgotten = [k \in Clients |-> NotRead]
    /\ late = [k \in Clients |-> 0]

\* Mutant: the headers are believed whoever sends them.
clientKeyFromHeaders(r) ==
    IF r.forwarded # << >> THEN Head(r.forwarded)
    ELSE IF r.realIP # NoHeader THEN r.realIP ELSE r.remote

clientKey(r) ==
    IF limits.trustProxy /\ r.forwarded # << >> THEN Head(r.forwarded)
    ELSE IF limits.trustProxy /\ r.realIP # NoHeader THEN r.realIP
    ELSE r.remote

\* Who sent r, as far as the server can know: the client its proxy names, or
\* who opened the connection.
Sender(r) == IF limits.trustProxy THEN r.from ELSE r.remote

Waiting == {now[h] : h \in Handlers} \cup {sweepNow}

\* A mutex keeps nobody waiting longer than MaxDelay.
Tick ==
    /\ clock < MaxClock
    /\ \A t \in Waiting \ {NotRead} : clock - t < MaxDelay
    /\ clock' = clock + 1
    /\ UNCHANGED <<limits, buckets, now, client, sweepNow, history>>

\* Allow: now := time.Now()
Arrive(h, r) ==
    /\ now[h] = NotRead /\ Len(granted[Sender(r)]) < MaxGrants
    /\ now' = [now EXCEPT ![h] = clock]
    /\ client' = [client EXCEPT ![h] = [key |-> clientKey(r), sender |-> Sender(r)]]
    /\ UNCHANGED <<limits, clock, buckets, sweepNow, history>>

\* Mutant: what is earned while idle is not cut off at the capacity.
RefilledUncapped(b, t) ==
    [tokens |-> b.tokens + (t - b.lastSeen) * limits.rate, lastSeen |-> t]

\* Mutant: an older time takes nothing away but becomes lastSeen, so that the
\* time since is earned twice.
RefilledTwice(b, t) ==
    [tokens   |-> IF t < b.lastSeen THEN b.tokens
                  ELSE Lower(limits.burst, b.tokens + (t - b.lastSeen) * limits.rate),
     lastSeen |-> t]

Refilled(b, t) ==
    [tokens   |-> Lower(limits.burst, b.tokens + (t - b.lastSeen) * limits.rate),
     lastSeen |-> t]

Taken(b) == [b EXCEPT !.tokens = @ - One]

\* Allow ends with a grant...
Granted(h) ==
    /\ granted' = [granted EXCEPT ![client[h].sender] = Append(@, now[h])]
    /\ promised' = [promised EXCEPT ![client[h].sender] = NotRead]
    /\ now' = [now EXCEPT ![h] = NotRead]
    /\ UNCHANGED <<limits, clock, client, sweepNow, forgotten>>

\* ... which nobody counts when there is no limiter ...
AllowAll(h) ==
    /\ now[h] # NotRead /\ ~Limited
    /\ now' = [now EXCEPT ![h] = NotRead]
    /\ UNCHANGED <<limits, clock, buckets, client, sweepNow, history>>

AllowNew(h) ==
    LET k == client[h].key IN
    /\ now[h] # NotRead /\ Limited /\ ~Present(k)
    /\ buckets' = [buckets EXCEPT ![k] =
          [tokens |-> limits.burst - One, lastSeen |-> now[h]]]
    /\ late' = [late EXCEPT ![k] = IF now[h] < forgotten[k] THEN @ + 1 ELSE @]
    /\ Granted(h)

AllowKnown(h) ==
    LET k == client[h].key
        b == Refilled(buckets[k], now[h])
    IN  /\ now[h] # NotRead /\ Limited /\ Present(k)
        /\ b.tokens >= One
        /\ buckets' = [buckets EXCEPT ![k] = Taken(b)]
        /\ Granted(h)
        /\ UNCHANGED late

\* Mutant: the wait for what is there, not for what is missing.
RetryForTheRest(b) == b.tokens \div limits.rate + 1

\* ... or with a refusal: Retry-After is the whole seconds of the time the
\* missing part of a token takes, and one more (handleMCP).
RetryAfter(b) == (One - b.tokens) \div limits.rate + 1

\* The promise remembered is the first one since the last grant.
Refuse(h) ==
    LET k == client[h].key
        b == Refilled(buckets[k], now[h])
    IN  /\ now[h] # NotRead /\ Limited /\ Present(k)
        /\ b.tokens < One
        /\ buckets' = [buckets EXCEPT ![k] = b]
        /\ promised' = [promised EXCEPT ![client[h].sender] =
                            IF @ = NotRead THEN now[h] + RetryAfter(b) ELSE @]
        /\ now' = [now EXCEPT ![h] = NotRead]
        /\ UNCHANGED <<limits, clock, client, sweepNow, granted, forgotten, late>>

\* cleanup, every five minutes; without a limiter it returns.
SweepStart ==
    /\ sweepNow = NotRead /\ Limited
    /\ sweepNow' = clock
    /\ UNCHANGED <<limits, clock, buckets, now, client, history>>

Idle(b) == b.lastSeen < sweepNow - IdleFor

\* Mutant: an idle bucket goes, full or not.
SweptWhenIdle(b) == IF b # NoBucket /\ Idle(b) THEN NoBucket ELSE b

\* An idle bucket is brought up to date, and goes when it is full.
Swept(b) ==
    LET full == Refilled(b, sweepNow) IN
    IF b = NoBucket \/ ~Idle(b) THEN b
    ELSE IF full.tokens >= limits.burst THEN NoBucket ELSE full

Sweep ==
    /\ sweepNow # NotRead
    /\ buckets' = [k \in Clients |-> Swept(buckets[k])]
    /\ forgotten' = [k \in Clients |->
          IF Present(k) /\ ~Present(k)' THEN sweepNow ELSE forgotten[k]]
    /\ sweepNow' = NotRead
    /\ UNCHANGED <<limits, clock, now, client, granted, promised, late>>

Next ==
    \/ Tick \/ SweepStart \/ Sweep
    \/ \E h \in Handlers :
          \/ \E r \in Requests(limits.trustProxy) : Arrive(h, r)
          \/ AllowAll(h) \/ AllowNew(h) \/ AllowKnown(h) \/ Refuse(h)

Spec == Init /\ [][Next]_vars

---------------------------------------------------------------------------

\* The types; a bucket may be in debt, but not by more than a handler can
\* have been late, and never holds more than the capacity.
TypeOK ==
    /\ clock \in 0 .. MaxClock
    /\ now \in [Handlers -> {NotRead} \cup 0 .. clock]
    /\ client \in [Handlers -> [key : Clients \cup {NoHeader},
                                sender : Clients \cup {NoHeader}]]
    /\ sweepNow \in {NotRead} \cup 0 .. clock
    /\ forgotten \in [Clients -> {NotRead} \cup 0 .. clock]
    /\ promised \in [Clients -> {NotRead} \cup Nat]
    /\ late \in [Clients -> Nat]
    /\ \A k \in Clients :
          /\ granted[k] \in Seq(0 .. clock)
          /\ Present(k) =>
                /\ buckets[k].lastSeen \in 0 .. clock
                /\ buckets[k].tokens \in -(MaxDelay * limits.rate) .. limits.burst

GrantedWithin(k, s, e) ==
    Cardinality({n \in DOMAIN granted[k] : granted[k][n] \in s .. e})

\* A bucket so fast that, when cleanup looks at it, it has been full for
\* longer than any request has been waiting, whatever the debt it had.
Fast == limits.burst <= limits.rate * (IdleFor - 2 * MaxDelay)

\* A slow bucket that goes when full takes no note of the time it was full:
\* a request that read the clock before that, and finds no bucket, may earn
\* once more what the time it waited earns.
LateGain(k) == IF Fast THEN 0 ELSE late[k] * (MaxDelay * limits.rate)

\* The limit: of the requests somebody sends in any span of time, however
\* handlers overtake each other, buckets are forgotten and headers are made
\* up, no more are granted than the burst and what the span earns.
WindowBound ==
    Limited =>
    \A k \in Clients : \A s \in 0 .. clock : \A e \in s .. clock :
        GrantedWithin(k, s, e) * One
            <= limits.burst + (e - s) * limits.rate + LateGain(k)

\* Retry-After is long enough: a client that comes back then, having been
\* granted nothing since, is not refused.
RetryIsHonoured ==
    [][\A h \in Handlers :
          LET k == client[h].sender IN
          Refuse(h) => promised[k] = NotRead \/ now[h] < promised[k]]_vars
===========================================================================
