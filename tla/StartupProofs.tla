--------------------------- MODULE StartupProofs ---------------------------
(***************************************************************************)
(* Proofs about Startup: for any flags, credentials and requests, who is   *)
(* let in is what the configuration says; and whatever a client writes to  *)
(* stdin, its responses are those of its requests, in their order.         *)
(***************************************************************************)
EXTENDS Startup, FiniteSetTheorems, SequenceTheorems, TLAPS

---------------------------------------------------------------------------
(* Who is let in.                                                          *)

\* Some place is the last of those that fulfil a condition.
LEMMA LastPlace ==
    ASSUME NEW len \in Nat, NEW S \in SUBSET (1 .. len), S # {}
    PROVE  \E n \in S : \A m \in S : m <= n
<1> DEFINE T == {len - n : n \in S}
           R == OpToRel(<, Nat)
<1>1. \A n \in S : n \in Nat /\ len - n \in Nat
  OBVIOUS
<1>2. T \in SUBSET Nat /\ T # {}
  BY <1>1 DEF T
<1>3. IsWellFoundedOn(R, Nat)
  BY NatLessThanWellFounded
<1>8. \A x, y \in Nat : x < y => <<x, y>> \in R
  BY DEF OpToRel
<1> HIDE DEF R, T
<1>4. PICK t \in T : \A u \in T : ~(<<u, t>> \in R)
  BY <1>2, <1>3, WFMin
<1>5. \A u \in T : ~(u < t)
  BY <1>2, <1>8, <1>4
<1>6. PICK n \in S : t = len - n
  BY <1>4 DEF T
<1>7. \A m \in S : ~(len - m < len - n)
  BY <1>5, <1>6 DEF T
<1> QED
  BY <1>1, <1>7

\* What the server was started with lets it serve.
Admissible ==
    /\ config \in Configurations
    /\ phase = "http" => ~TokensMalformed(config.tokens) /\ ~Exposed

AInv == Admissible /\ AuthorityIsConfigured /\ OriginIsConfigured

LEMMA AInvInit == Init => AInv
BY DEF Init, AInv, Admissible, AuthorityIsConfigured, OriginIsConfigured, NoRequest

\* A bearer that matches an entry is given the name that was written last.
LEMMA LookupIsLast ==
    ASSUME NEW bearer, config \in Configurations, ~TokensMalformed(config.tokens),
           Matching(ParseTokens(config.tokens), bearer) # {}
    PROVE  \E n \in Chunks(config.tokens) :
              /\ IsLastEntry(n, bearer)
              /\ Lookup(ParseTokens(config.tokens), bearer)
                    = Principal(config.tokens[n][2], config.tokens[n][3])
<1> DEFINE raw == config.tokens
           hits == Matching(ParseTokens(raw), bearer)
<1>1. raw \in Seq(Seq(STRING))
  BY ConfigurationsAssumption
<1>2. DOMAIN raw = 1 .. Len(raw) /\ Len(raw) \in Nat
  BY <1>1, LenProperties
<1>3. hits = {n \in Chunks(raw) : raw[n][1] = bearer}
  BY DEF Matching, ParseTokens
<1>4. hits \in SUBSET (1 .. Len(raw))
  BY <1>2, <1>3 DEF Chunks
<1>5. \E n \in hits : \A m \in hits : m <= n
  BY <1>2, <1>4, LastPlace
<1>6. PICK n : n = CHOOSE k \in hits : \A m \in hits : m <= k
  OBVIOUS
<1>7. n \in hits /\ \A m \in hits : m <= n
  BY <1>5, <1>6
<1>8. IsLastEntry(n, bearer)
  <2>1. ASSUME NEW m \in n + 1 .. Len(raw), raw[m] # << >>, raw[m][1] = bearer PROVE FALSE
    <3>1. n \in 1 .. Len(raw)
      BY <1>4, <1>7
    <3>2. m \in 1 .. Len(raw) /\ ~(m <= n)
      BY <1>2, <2>1, <3>1
    <3>3. m \in hits
      BY <1>2, <1>3, <2>1, <3>2 DEF Chunks
    <3> QED
      BY <1>7, <3>2, <3>3
  <2>2. raw[n] # << >> /\ raw[n][1] = bearer
    BY <1>3, <1>7 DEF Chunks
  <2> QED
    BY <2>1, <2>2 DEF IsLastEntry
<1>9. Lookup(ParseTokens(raw), bearer) = Principal(raw[n][2], raw[n][3])
  BY <1>3, <1>6, <1>7 DEF Lookup, ParseTokens
<1> QED
  BY <1>3, <1>7, <1>8, <1>9

\* Without credentials, only where that was allowed, and as the environment
\* says.
LEMMA FallbackIsConfigured ==
    ASSUME ~Exposed, Empty(config.tokens)
    PROVE  /\ config.insecure \/ Host \in {"localhost"} \cup LoopbackIPs
           /\ Fallback.role \in {"waiter"} \cup (Roles \cap {config.role})
<1>1. config.insecure \/ Host \in {"localhost"} \cup LoopbackIPs
  BY DEF Exposed, IsLoopback
<1>2. Fallback.role = RoleFromEnv(config.role)
  BY DEF Fallback, identityFromEnv, Principal
<1> QED
  BY <1>1, <1>2 DEF RoleFromEnv

LEMMA OriginsListed ==
    ASSUME NEW request
    PROVE  Allowed(request) <=>
              \/ request.origin = Blank
              \/ \E n \in DOMAIN Origins : Origins[n].text \in {request.origin, "*"}
<1>1. \A s, t : Origin(s) = Origin(t) <=> s = t
  BY DEF Origin
<1>2. CASE request.origin # Blank
  <2>1. \A t : Origin(t) \in NormalizeOrigins(Origins) <=>
                  t # Blank /\ \E n \in DOMAIN Origins : Origins[n].text = t
    BY <1>1 DEF NormalizeOrigins
  <2>2. "*" # Blank
    BY DEF Blank
  <2> QED
    BY <1>2, <2>1, <2>2 DEF Allowed, originAllowed
<1> QED
  BY <1>2 DEF Allowed, originAllowed

LEMMA RejectKept ==
    ASSUME AInv, NEW request, RejectOrigin(request)
    PROVE  AInv'
<1>1. /\ outcome' = [request |-> request, status |-> 403, as |-> Nobody]
      /\ config' = config /\ phase' = phase
  BY DEF RejectOrigin, Answered
<1>2. outcome'.status = 403 /\ outcome'.request = request
  BY <1>1
<1>3. Admissible'
  BY <1>1 DEF AInv, Admissible, Exposed, Host
<1>4. AuthorityIsConfigured'
  BY <1>2 DEF AuthorityIsConfigured
<1>5. request.origin # Blank
      /\ ~\E n \in DOMAIN Origins : Origins[n].text \in {request.origin, "*"}
  BY OriginsListed DEF RejectOrigin
<1>6. OriginIsConfigured'
  BY <1>1, <1>2, <1>5 DEF OriginIsConfigured, Origins
<1> QED
  BY <1>3, <1>4, <1>6 DEF AInv

LEMMA AuthenticateKept ==
    ASSUME AInv, NEW request, Authenticate(request)
    PROVE  AInv'
<1> DEFINE raw == config.tokens
           entries == ParseTokens(raw)
<1>1. PICK status, as :
         /\ outcome' = [request |-> request, status |-> status, as |-> as]
         /\ \/ Empty(raw) /\ status = 200 /\ as = Fallback
            \/ /\ ~Empty(raw) /\ Matching(entries, request.bearer) # {}
               /\ status = 200 /\ as = Lookup(entries, request.bearer)
            \/ /\ ~Empty(raw) /\ status = 401
               /\ request.bearer = NoBearer \/ Matching(entries, request.bearer) = {}
  BY DEF Authenticate, Answered
<1>2. config' = config /\ phase' = phase /\ phase = "http" /\ Allowed(request)
  BY DEF Authenticate, Answered
<1>3. /\ outcome'.request = request /\ outcome'.status = status /\ outcome'.as = as
      /\ status \in {200, 401}
  BY <1>1
<1>4. config \in Configurations /\ ~TokensMalformed(raw) /\ ~Exposed
  BY <1>2 DEF AInv, Admissible
<1>5. Admissible'
  BY <1>2, <1>4 DEF Admissible, Exposed, Host
<1>6. AuthorityIsConfigured'
  <2>1. ASSUME status = 200, Chunks(raw) # {}
        PROVE  \E n \in Chunks(raw) :
                  IsLastEntry(n, request.bearer) /\ as = Principal(raw[n][2], raw[n][3])
    <3>3. ~Empty(raw) /\ status # 401
      BY <2>1 DEF Empty
    <3>1. Matching(entries, request.bearer) # {} /\ as = Lookup(entries, request.bearer)
      BY <1>1, <3>3
    <3>2. PICK n \in Chunks(raw) :
             /\ IsLastEntry(n, request.bearer)
             /\ Lookup(entries, request.bearer) = Principal(raw[n][2], raw[n][3])
      BY <1>4, <3>1, LookupIsLast
    <3> QED
      BY <3>1, <3>2
  <2>2. ASSUME status = 200, Chunks(raw) = {}
        PROVE  /\ config.insecure \/ Host \in {"localhost"} \cup LoopbackIPs
               /\ as.role \in {"waiter"} \cup (Roles \cap {config.role})
    BY <1>1, <1>4, <2>2, FallbackIsConfigured DEF Empty
  <2>3. ASSUME status = 401
        PROVE  Chunks(raw) # {} /\ \A n \in Chunks(raw) : raw[n][1] # request.bearer
    <3>1. Chunks(raw) # {} /\ (request.bearer = NoBearer \/ Matching(entries, request.bearer) = {})
      BY <1>1, <2>3 DEF Empty
    <3>2. \A n \in Chunks(raw) : raw[n][1] # NoBearer
      BY <1>4, ConfigurationsAssumption
    <3> QED
      BY <3>1, <3>2 DEF Matching, ParseTokens
  <2> QED
    <3>1. CASE status = 200 /\ Chunks(raw) = {}
      <4>1. Host' = Host /\ \A n \in DOMAIN config'.tokens : config'.tokens[n] = << >>
        BY <1>2, <3>1 DEF Host, Chunks
      <4>2. /\ config.insecure \/ Host \in {"localhost"} \cup LoopbackIPs
            /\ as.role \in {"waiter"} \cup (Roles \cap {config.role})
        BY <2>2, <3>1
      <4>3. ~(status = 401)
        BY <3>1
      <4>4. {n \in DOMAIN config'.tokens : config'.tokens[n] # << >>} = {}
        BY <4>1
      <4> QED
        BY <1>2, <1>3, <4>1, <4>2, <4>3, <4>4 DEF AuthorityIsConfigured
    <3>2. CASE status = 200 /\ Chunks(raw) # {}
      <4>1. PICK n \in Chunks(raw) :
               IsLastEntry(n, request.bearer) /\ as = Principal(raw[n][2], raw[n][3])
        BY <2>1, <3>2
      <4>2. n \in {m \in DOMAIN raw : raw[m] # << >>}
        BY <4>1 DEF Chunks
      <4> QED
        BY <1>2, <1>3, <3>2, <4>1, <4>2 DEF AuthorityIsConfigured, IsLastEntry
    <3>3. CASE status = 401
      BY <1>2, <1>3, <2>3, <3>3 DEF AuthorityIsConfigured, Chunks
    <3> QED
      BY <1>3, <3>1, <3>2, <3>3
<1>7. OriginIsConfigured'
  BY <1>2, <1>3, OriginsListed DEF OriginIsConfigured, Origins
<1> QED
  BY <1>5, <1>6, <1>7 DEF AInv

LEMMA AInvStep == AInv /\ [Next]_vars => AInv'
<1> SUFFICES ASSUME AInv, [Next]_vars PROVE AInv'
  OBVIOUS
<1>1. ASSUME UNCHANGED <<config, phase, outcome>> PROVE AInv'
  BY <1>1 DEF AInv, Admissible, Exposed, Host, AuthorityIsConfigured, IsLastEntry,
     OriginIsConfigured, Origins
<1>2. ASSUME UNCHANGED <<config, outcome>>, phase' # "http" PROVE AInv'
  BY <1>2 DEF AInv, Admissible, Host, AuthorityIsConfigured, IsLastEntry,
     OriginIsConfigured, Origins
<1>3. CASE RepositoryFails \/ StartStdio \/ RefuseHttp
  BY <1>2, <1>3 DEF RepositoryFails, StartStdio, RefuseHttp, Enter
<1>4. CASE StartHttp
  BY <1>4 DEF StartHttp, Enter, AInv, Admissible, Exposed, Host, AuthorityIsConfigured,
     IsLastEntry, OriginIsConfigured, Origins
<1>5. ASSUME NEW request \in Arrivals, RejectOrigin(request) \/ Authenticate(request) PROVE AInv'
  BY <1>5, RejectKept, AuthenticateKept
<1>6. CASE StdioLoop \/ StdioClient \/ Ended \/ UNCHANGED vars
  BY <1>1, <1>6 DEF StdioLoop, StdioClient, OverStdio, Ended, vars
<1> QED
  BY <1>3, <1>4, <1>5, <1>6 DEF Next

\* Whatever is configured and whoever asks: with credentials, a request is
\* served in the name of the last one of its bearer; without, only where the
\* address or the author of the configuration allows it; and a web page only
\* from a listed origin (authenticate, runHTTP, originAllowed).
THEOREM ServedAsConfigured == Spec => [](AuthorityIsConfigured /\ OriginIsConfigured)
<1>1. AInv => AuthorityIsConfigured /\ OriginIsConfigured
  BY DEF AInv
<1> QED
  BY <1>1, AInvInit, AInvStep, PTL DEF Spec

---------------------------------------------------------------------------
(* What a client of stdio gets.                                            *)

StdioTypes ==
    /\ input \in Seq(Lines)
    /\ closed \in BOOLEAN
    /\ next \in 0 .. Len(input)
    /\ loop \in {"scan", "write"}
    /\ lifecycle \in [initialized : BOOLEAN, confirmed : BOOLEAN, version : {NoVersion, Supported}]
    /\ out \in Seq([to : Nat, ok : BOOLEAN])

\* The two messages of the handshake.
InitializesAt(n) ==
    input[n].method = "initialize" /\ IsRequestAt(n) /\ input[n].version # NoVersion
ConfirmsAt(n) ==
    input[n].method = "notifications/initialized" /\ Proper(n) /\ ~input[n].hasId

\* The session is where the lines that were read have brought it.
LifecycleIsRead ==
    /\ lifecycle.initialized <=> \E n \in 1 .. next : InitializesAt(n)
    /\ lifecycle.confirmed <=> \E n \in 1 .. next : ConfirmsAt(n)

\* Every response is what a request that was read deserves, and they are in
\* the order of the requests; no request is left out.
Responses ==
    /\ \A j \in 1 .. Len(out) : \E n \in 1 .. Done :
          out[j].to = n /\ IsRequestAt(n) /\ (out[j].ok <=> Deserves(n))
    /\ \A j, k \in 1 .. Len(out) : j < k => out[j].to < out[k].to
    /\ \A n \in 1 .. Done : IsRequestAt(n) => \E j \in 1 .. Len(out) : out[j].to = n

LoopInv ==
    /\ StdioTypes /\ LifecycleIsRead /\ Responses
    /\ loop = "write" => next > 0 /\ IsRequestAt(next)
    /\ exit = "normal" => closed /\ loop = "scan" /\ next = Len(input)

LEMMA LoopInvInit == Init => LoopInv
<1> SUFFICES ASSUME Init PROVE LoopInv
  OBVIOUS
<1>1. /\ input = << >> /\ out = << >> /\ next = 0 /\ loop = "scan" /\ closed = FALSE
      /\ lifecycle = Fresh /\ exit = "no"
  BY DEF Init, InitStdio
<1>2. Len(input) = 0 /\ Len(out) = 0 /\ 1 .. 0 = {}
  BY <1>1
<1>3. StdioTypes
  <2>1. lifecycle \in [initialized : BOOLEAN, confirmed : BOOLEAN, version : {NoVersion, Supported}]
    BY <1>1 DEF Fresh
  <2>2. input \in Seq(Lines) /\ out \in Seq([to : Nat, ok : BOOLEAN])
    BY <1>1, EmptySeq
  <2>3. next \in 0 .. Len(input)
    <3>1. 0 \in 0 .. 0
      OBVIOUS
    <3> QED
      BY <1>1, <1>2, <3>1
  <2>4. closed \in BOOLEAN /\ loop \in {"scan", "write"}
    BY <1>1
  <2> QED
    BY <2>1, <2>2, <2>3, <2>4 DEF StdioTypes
<1> QED
  BY <1>1, <1>2, <1>3 DEF LoopInv, LifecycleIsRead, Responses, Done, Fresh

\* A request that is dispatched is answered as the lines before it deserve.
LEMMA ResultIsDeserved ==
    ASSUME LoopInv, loop = "write"
    PROVE  Result(lifecycle, input[next]) <=> Deserves(next)
<1>1. next \in Nat /\ next \in 1 .. Len(input) /\ IsRequestAt(next)
  BY DEF LoopInv, StdioTypes
<1>2. Result(lifecycle, input[next]) <=>
         \/ input[next].method = "ping"
         \/ input[next].method = "initialize" /\ input[next].version # NoVersion
         \/ input[next].method \in {"tools/list", "tools/call"} /\ Ready(lifecycle)
  BY DEF Result, Methods, Accepts, IsNotification, Message
<1>3. ASSUME input[next].method \in {"tools/list", "tools/call"}
      PROVE  Ready(lifecycle) <=> HandshakeBefore(next)
  <2>1. ~InitializesAt(next) /\ ~ConfirmsAt(next)
    BY <1>3 DEF InitializesAt, ConfirmsAt
  <2>2. \A n \in 1 .. next : n \in 1 .. next - 1 \/ n = next
    BY <1>1
  <2>3. \A n \in 1 .. next - 1 : n \in 1 .. next
    BY <1>1
  <2>4. (\E n \in 1 .. next : InitializesAt(n)) <=> \E n \in 1 .. next - 1 : InitializesAt(n)
    BY <2>1, <2>2, <2>3
  <2>5. (\E n \in 1 .. next : ConfirmsAt(n)) <=> \E n \in 1 .. next - 1 : ConfirmsAt(n)
    BY <2>1, <2>2, <2>3
  <2>6. HandshakeBefore(next) <=>
           /\ \E n \in 1 .. next - 1 : InitializesAt(n)
           /\ \E n \in 1 .. next - 1 : ConfirmsAt(n)
    BY DEF HandshakeBefore, InitializesAt, ConfirmsAt
  <2> QED
    BY <2>4, <2>5, <2>6 DEF Ready, LoopInv, LifecycleIsRead
<1> QED
  BY <1>2, <1>3 DEF Deserves

\* What is said of a line depends on the lines up to it only.
LEMMA LinesKept ==
    ASSUME NEW k \in Nat, \A n \in 1 .. k : input'[n] = input[n], NEW n \in 1 .. k
    PROVE  /\ IsRequestAt(n)' <=> IsRequestAt(n)
           /\ InitializesAt(n)' <=> InitializesAt(n)
           /\ ConfirmsAt(n)' <=> ConfirmsAt(n)
           /\ Deserves(n)' <=> Deserves(n)
<1>1. \A m \in 1 .. n - 1 : input'[m] = input[m]
  OBVIOUS
<1>2. HandshakeBefore(n)' <=> HandshakeBefore(n)
  BY <1>1 DEF HandshakeBefore, IsRequestAt, Proper
<1> QED
  BY <1>2 DEF IsRequestAt, Proper, InitializesAt, ConfirmsAt, Deserves

LEMMA WriteLineKept ==
    ASSUME LoopInv, NEW line \in Lines, WriteLine(line)
    PROVE  LoopInv'
<1>1. /\ ~closed /\ input' = Append(input, line) /\ closed' = closed /\ next' = next
      /\ loop' = loop /\ lifecycle' = lifecycle /\ out' = out /\ exit' = exit
  BY DEF WriteLine
<1>2. /\ input \in Seq(Lines) /\ next \in 0 .. Len(input) /\ Len(input) \in Nat /\ next \in Nat
      /\ out \in Seq([to : Nat, ok : BOOLEAN]) /\ Len(out) \in Nat
  BY LenProperties DEF LoopInv, StdioTypes
<1>3. /\ input' \in Seq(Lines) /\ Len(input') = Len(input) + 1
      /\ \A n \in 1 .. Len(input) : input'[n] = input[n]
  BY <1>1, <1>2, AppendProperties
<1>4. \A n \in 1 .. next : n \in 1 .. Len(input)
  BY <1>2
<1>5. \A n \in 1 .. next :
         /\ IsRequestAt(n)' <=> IsRequestAt(n)
         /\ InitializesAt(n)' <=> InitializesAt(n)
         /\ ConfirmsAt(n)' <=> ConfirmsAt(n)
         /\ Deserves(n)' <=> Deserves(n)
  BY <1>2, <1>3, <1>4, LinesKept
<1>6. StdioTypes'
  BY <1>1, <1>2, <1>3 DEF LoopInv, StdioTypes
<1>7. LifecycleIsRead'
  BY <1>1, <1>5 DEF LoopInv, LifecycleIsRead
<1>8. Done' = Done /\ \A n \in 1 .. Done : n \in 1 .. next
  BY <1>1, <1>2 DEF Done
<1>9. Responses'
  BY <1>1, <1>5, <1>8 DEF LoopInv, Responses
<1>10. loop' = "write" => next' > 0 /\ IsRequestAt(next)'
  BY <1>1, <1>2, <1>5 DEF LoopInv
<1> QED
  BY <1>1, <1>6, <1>7, <1>9, <1>10 DEF LoopInv

\* A line that is read is either a request, to be answered, or none; and it
\* brings the handshake on if it is part of it.
LEMMA ReadKept ==
    ASSUME LoopInv, Scanned, next' = next + 1, UNCHANGED <<client, out, exit>>,
           IF IsRequestAt(next + 1) THEN loop' = "write" ELSE loop' = loop,
           lifecycle' \in [initialized : BOOLEAN, confirmed : BOOLEAN,
                           version : {NoVersion, Supported}],
           lifecycle'.initialized <=> lifecycle.initialized \/ InitializesAt(next + 1),
           lifecycle'.confirmed <=> lifecycle.confirmed \/ ConfirmsAt(next + 1)
    PROVE  LoopInv'
<1>1. PICK k : k = next + 1
  OBVIOUS
<1>2. /\ next \in Nat /\ k \in Nat /\ k \in 1 .. Len(input) /\ next = k - 1 /\ Len(input) \in Nat
      /\ loop = "scan" /\ exit = "no" /\ next' = k /\ input' = input /\ out' = out
      /\ exit' = exit /\ closed' = closed
  BY <1>1, LenProperties DEF Scanned, LoopInv, StdioTypes, client
<1>3. \A n \in 1 .. k :
         /\ n \in 1 .. next \/ n = k
         /\ IsRequestAt(n)' <=> IsRequestAt(n)
         /\ InitializesAt(n)' <=> InitializesAt(n)
         /\ ConfirmsAt(n)' <=> ConfirmsAt(n)
         /\ Deserves(n)' <=> Deserves(n)
  BY <1>2, LinesKept
<1>4. k \in 1 .. k /\ \A n \in 1 .. next : n \in 1 .. k
  BY <1>2
<1>5. loop' \in {"scan", "write"} /\ (loop' = "write" <=> IsRequestAt(k))
  BY <1>1, <1>2
<1>6. StdioTypes'
  BY <1>2, <1>5 DEF LoopInv, StdioTypes
<1>7. LifecycleIsRead'
  <2>1. (\E n \in 1 .. k : InitializesAt(n)') <=>
           (\E n \in 1 .. next : InitializesAt(n)) \/ InitializesAt(k)
    BY <1>3, <1>4
  <2>2. (\E n \in 1 .. k : ConfirmsAt(n)') <=>
           (\E n \in 1 .. next : ConfirmsAt(n)) \/ ConfirmsAt(k)
    BY <1>3, <1>4
  <2> QED
    BY <1>1, <1>2, <2>1, <2>2 DEF LoopInv, LifecycleIsRead
<1>8. Responses'
  <2>1. Done = next /\ Done' = (IF IsRequestAt(k) THEN next ELSE k)
    BY <1>2, <1>5 DEF Done
  <2>2. ASSUME NEW j \in 1 .. Len(out)
        PROVE  \E n \in 1 .. Done' :
                  out'[j].to = n /\ IsRequestAt(n)' /\ (out'[j].ok <=> Deserves(n)')
    <3>1. PICK n \in 1 .. next : out[j].to = n /\ IsRequestAt(n) /\ (out[j].ok <=> Deserves(n))
      BY <2>1 DEF LoopInv, Responses
    <3>2. IsRequestAt(n)' /\ (Deserves(n)' <=> Deserves(n)) /\ n \in 1 .. Done'
      BY <1>2, <1>3, <1>4, <2>1, <3>1
    <3> QED
      BY <1>2, <3>1, <3>2
  <2>3. \A j, l \in 1 .. Len(out) : j < l => out[j].to < out[l].to
    BY DEF LoopInv, Responses
  <2>4. \A n \in 1 .. Done' : IsRequestAt(n)' => \E j \in 1 .. Len(out) : out'[j].to = n
    <3> TAKE n \in 1 .. Done'
    <3> HAVE IsRequestAt(n)'
    <3>1. n \in 1 .. k
      BY <1>2, <2>1
    <3>2. IsRequestAt(n)
      BY <1>3, <3>1
    <3>3. n \in 1 .. next
      <4>1. CASE IsRequestAt(k)
        BY <2>1, <4>1
      <4>2. CASE ~IsRequestAt(k)
        BY <1>3, <3>1, <3>2, <4>2
      <4> QED
        BY <4>1, <4>2
    <3> QED
      BY <1>2, <2>1, <3>2, <3>3 DEF LoopInv, Responses
  <2> QED
    BY <1>2, <2>2, <2>3, <2>4 DEF Responses
<1>9. loop' = "write" => next' > 0 /\ IsRequestAt(next)'
  <2>1. IsRequestAt(k)' <=> IsRequestAt(k)
    BY <1>3, <1>4
  <2> QED
    BY <1>2, <1>5, <2>1
<1> QED
  BY <1>2, <1>6, <1>7, <1>8, <1>9 DEF LoopInv

\* What ParseMessage makes of the line that is read next.
LEMMA NextLine ==
    ASSUME LoopInv, Scanned
    PROVE  /\ Line \in Lines
           /\ IsRequestAt(next + 1) <=> ParseMessage(Line) = "request"
           /\ Proper(next + 1) /\ ~Line.hasId <=> ParseMessage(Line) = "notification"
<1>1. next + 1 \in 1 .. Len(input) /\ input \in Seq(Lines)
  BY LenProperties DEF LoopInv, StdioTypes, Scanned
<1>2. Line \in Lines
  BY <1>1, ElementOfSeq DEF Line
<1>3. Line.text \in {"empty", "too long", "garbage", "message"} /\ Line.jsonrpc \in BOOLEAN
      /\ Line.hasId \in BOOLEAN /\ Line.hasResult \in BOOLEAN
  BY <1>2, StdioAssumption
<1>4. Line = input[next + 1]
  BY DEF Line
<1> QED
  BY <1>2, <1>3, <1>4 DEF IsRequestAt, Proper, ParseMessage

LEMMA DiscardKept == ASSUME LoopInv, Discard PROVE LoopInv'
<1>1. /\ Scanned /\ next' = next + 1 /\ UNCHANGED <<client, loop, lifecycle, out, exit>>
      /\ Line.text = "empty" \/ ParseMessage(Line) \in {"invalid", "response"}
  BY DEF Discard
<1>2. ParseMessage(Line) \in {"invalid", "response"}
  BY <1>1 DEF ParseMessage
<1>3. ~IsRequestAt(next + 1) /\ ~InitializesAt(next + 1) /\ ~ConfirmsAt(next + 1)
  <2>1. Line = input[next + 1]
    BY DEF Line
  <2> QED
    BY <1>1, <1>2, <2>1, NextLine DEF InitializesAt, ConfirmsAt
<1>4. lifecycle \in [initialized : BOOLEAN, confirmed : BOOLEAN, version : {NoVersion, Supported}]
  BY DEF LoopInv, StdioTypes
<1> QED
  BY <1>1, <1>3, <1>4, ReadKept

LEMMA NoticeKept == ASSUME LoopInv, Notice PROVE LoopInv'
<1>1. /\ Scanned /\ next' = next + 1 /\ UNCHANGED <<client, loop, out, exit>>
      /\ ParseMessage(Line) = "notification" /\ lifecycle' = Dispatched(lifecycle, Line)
  BY DEF Notice
<1>2. Line = input[next + 1]
  BY DEF Line
<1>3. /\ ~IsRequestAt(next + 1) /\ ~InitializesAt(next + 1)
      /\ ConfirmsAt(next + 1) <=> Line.method = "notifications/initialized"
  BY <1>1, <1>2, NextLine DEF InitializesAt, ConfirmsAt
<1>4. lifecycle \in [initialized : BOOLEAN, confirmed : BOOLEAN, version : {NoVersion, Supported}]
  BY DEF LoopInv, StdioTypes
<1>5. lifecycle' = IF Line.method = "notifications/initialized"
                   THEN [lifecycle EXCEPT !.confirmed = TRUE] ELSE lifecycle
  BY <1>1 DEF Dispatched, Notifications, Dispatch, Message
<1> QED
  BY <1>1, <1>3, <1>4, <1>5, ReadKept

LEMMA AnswerKept == ASSUME LoopInv, Answer PROVE LoopInv'
<1>1. /\ Scanned /\ next' = next + 1 /\ loop' = "write" /\ UNCHANGED <<client, out, exit>>
      /\ ParseMessage(Line) = "request" /\ lifecycle' = Dispatched(lifecycle, Line)
  BY DEF Answer
<1>2. Line = input[next + 1]
  BY DEF Line
<1>3. /\ IsRequestAt(next + 1) /\ ~ConfirmsAt(next + 1)
      /\ InitializesAt(next + 1) <=> Line.method = "initialize" /\ Line.version # NoVersion
  BY <1>1, <1>2, NextLine DEF InitializesAt, ConfirmsAt
<1>4. lifecycle \in [initialized : BOOLEAN, confirmed : BOOLEAN, version : {NoVersion, Supported}]
  BY DEF LoopInv, StdioTypes
<1>5. lifecycle' = IF Line.method = "initialize" /\ Line.version # NoVersion
                   THEN [lifecycle EXCEPT !.initialized = TRUE, !.version = Supported]
                   ELSE lifecycle
  BY <1>1 DEF Dispatched, Methods, Dispatch, Message, Negotiated
<1> QED
  BY <1>1, <1>3, <1>4, <1>5, ReadKept

LEMMA WriteMessageKept == ASSUME LoopInv, WriteMessage PROVE LoopInv'
<1>1. /\ exit = "no" /\ loop = "write" /\ out' = Append(out, Response) /\ loop' = "scan"
      /\ UNCHANGED <<client, next, lifecycle, exit>>
  BY DEF WriteMessage
<1>2. /\ input' = input /\ closed' = closed /\ next' = next /\ lifecycle' = lifecycle /\ exit' = exit
  BY <1>1 DEF client
<1>3. /\ out \in Seq([to : Nat, ok : BOOLEAN]) /\ Len(out) \in Nat /\ next \in Nat /\ next > 0
      /\ IsRequestAt(next) /\ Done = next - 1 /\ Done' = next
  BY <1>1, <1>2, LenProperties DEF LoopInv, StdioTypes, Done
<1>4. PICK response : response = Response
  OBVIOUS
<1>5. /\ response \in [to : Nat, ok : BOOLEAN] /\ response.to = next
      /\ response.ok <=> Deserves(next)
  <2>1. Result(lifecycle, input[next]) <=> Deserves(next)
    BY <1>1, ResultIsDeserved
  <2>2. Result(lifecycle, input[next]) \in BOOLEAN
    BY DEF Result, Accepts, IsNotification
  <2> QED
    BY <1>3, <1>4, <2>1, <2>2 DEF Response
<1>6. /\ out' \in Seq([to : Nat, ok : BOOLEAN]) /\ Len(out') = Len(out) + 1
      /\ \A j \in 1 .. Len(out) : out'[j] = out[j]
      /\ out'[Len(out) + 1] = response
  BY <1>1, <1>3, <1>4, <1>5, AppendProperties
<1>7. \A n : (IsRequestAt(n)' <=> IsRequestAt(n)) /\ (Deserves(n)' <=> Deserves(n))
  BY <1>2 DEF IsRequestAt, Proper, Deserves, HandshakeBefore
<1>8. StdioTypes'
  BY <1>1, <1>2, <1>6 DEF LoopInv, StdioTypes
<1>9. LifecycleIsRead'
  BY <1>2 DEF LoopInv, LifecycleIsRead, InitializesAt, ConfirmsAt, IsRequestAt, Proper
<1>10. Responses'
  <2>1. ASSUME NEW j \in 1 .. Len(out')
        PROVE  \E n \in 1 .. Done' :
                  out'[j].to = n /\ IsRequestAt(n)' /\ (out'[j].ok <=> Deserves(n)')
    <3>1. CASE j \in 1 .. Len(out)
      <4>1. PICK n \in 1 .. Done : out[j].to = n /\ IsRequestAt(n) /\ (out[j].ok <=> Deserves(n))
        BY <3>1 DEF LoopInv, Responses
      <4> QED
        BY <1>3, <1>6, <1>7, <3>1, <4>1
    <3>2. CASE j = Len(out) + 1
      <4>1. next \in 1 .. Done'
        BY <1>3
      <4> QED
        BY <1>3, <1>5, <1>6, <1>7, <3>2, <4>1
    <3> QED
      BY <1>3, <1>6, <3>1, <3>2
  <2>2. ASSUME NEW j \in 1 .. Len(out'), NEW k \in 1 .. Len(out'), j < k
        PROVE  out'[j].to < out'[k].to
    <3>1. j \in 1 .. Len(out) /\ (k \in 1 .. Len(out) \/ k = Len(out) + 1)
      <4>1. PICK len : len = Len(out)
        OBVIOUS
      <4>2. len \in Nat /\ j \in 1 .. len + 1 /\ k \in 1 .. len + 1 /\ j < k
        BY <1>3, <1>6, <2>2, <4>1
      <4>3. j \in 1 .. len /\ (k \in 1 .. len \/ k = len + 1)
        BY ONLY <4>2
      <4> QED
        BY <4>1, <4>3
    <3>2. PICK n \in 1 .. Done : out[j].to = n
      BY <3>1 DEF LoopInv, Responses
    <3>3. CASE k \in 1 .. Len(out)
      BY <1>6, <2>2, <3>1, <3>3 DEF LoopInv, Responses
    <3>4. CASE k = Len(out) + 1
      BY <1>3, <1>5, <1>6, <3>1, <3>2, <3>4
    <3> QED
      BY <3>1, <3>3, <3>4
  <2>3. ASSUME NEW n \in 1 .. Done', IsRequestAt(n)'
        PROVE  \E j \in 1 .. Len(out') : out'[j].to = n
    <3>1. n \in 1 .. Done \/ n = next
      BY <1>3
    <3>2. CASE n \in 1 .. Done
      <4>1. PICK j \in 1 .. Len(out) : out[j].to = n
        BY <1>7, <2>3, <3>2 DEF LoopInv, Responses
      <4> QED
        BY <1>3, <1>6, <4>1
    <3>3. CASE n = next
      <4>1. Len(out) + 1 \in 1 .. Len(out')
        BY <1>3, <1>6
      <4> QED
        BY <1>5, <1>6, <3>3, <4>1
    <3> QED
      BY <3>1, <3>2, <3>3
  <2> QED
    BY <2>1, <2>2, <2>3 DEF Responses
<1> QED
  BY <1>1, <1>2, <1>8, <1>9, <1>10 DEF LoopInv

\* The other steps read nothing and write nothing.
LEMMA QuietKept ==
    ASSUME LoopInv, UNCHANGED <<input, next, loop, lifecycle, out>>, closed' \in BOOLEAN,
           exit' = "normal" => closed' /\ loop = "scan" /\ next = Len(input)
    PROVE  LoopInv'
<1>1. StdioTypes'
  BY DEF LoopInv, StdioTypes
<1>2. \A n : /\ IsRequestAt(n)' <=> IsRequestAt(n)
             /\ InitializesAt(n)' <=> InitializesAt(n)
             /\ ConfirmsAt(n)' <=> ConfirmsAt(n)
             /\ Deserves(n)' <=> Deserves(n)
  BY DEF InitializesAt, ConfirmsAt, Deserves, HandshakeBefore, IsRequestAt, Proper
<1>3. LifecycleIsRead'
  BY <1>2 DEF LoopInv, LifecycleIsRead
<1>4. Responses'
  BY <1>2 DEF LoopInv, Responses, Done
<1>5. IsRequestAt(next)' <=> IsRequestAt(next)
  BY <1>2 DEF IsRequestAt, Proper
<1> QED
  BY <1>1, <1>3, <1>4, <1>5 DEF LoopInv

LEMMA LoopInvStep == LoopInv /\ [Next]_vars => LoopInv'
<1> SUFFICES ASSUME LoopInv, [Next]_vars PROVE LoopInv'
  OBVIOUS
<1>1. closed \in BOOLEAN /\ (exit = "normal" => closed /\ loop = "scan" /\ next = Len(input))
  BY DEF LoopInv, StdioTypes
<1>2. CASE UNCHANGED stdio
  BY <1>1, <1>2, QuietKept DEF stdio, client
<1>3. CASE LoopStep
  <2>1. CASE EndOfInput \/ WriteFails \/ LineTooLong
    BY <1>1, <2>1, QuietKept DEF EndOfInput, WriteFails, LineTooLong, Ends, client
  <2> QED
    BY <1>3, <2>1, DiscardKept, NoticeKept, AnswerKept, WriteMessageKept DEF LoopStep
<1>4. CASE ClientStep
  <2>1. CASE CloseStdin \/ Take \/ CloseStdout
    BY <1>1, <2>1, QuietKept DEF CloseStdin, Take, CloseStdout
  <2> QED
    BY <1>4, <2>1, WriteLineKept DEF ClientStep
<1> QED
  BY <1>2, <1>3, <1>4 DEF Next, RepositoryFails, StartStdio, RefuseHttp, StartHttp, Enter,
     RejectOrigin, Authenticate, Answered, StdioLoop, StdioClient, OverStdio, Ended, vars

\* Whatever a client writes, and however slowly it reads: a request is
\* answered once, in its turn, and a tool is served exactly when the lines
\* before it hold a whole handshake (stdioLoop, ParseMessage, the dispatcher).
THEOREM RequestsAreAnswered == Spec => []AnsweredInOrder
<1>1. ASSUME LoopInv PROVE AnsweredInOrder
  <2>1. DOMAIN out = 1 .. Len(out) /\ next \in Nat
    BY <1>1, LenProperties DEF LoopInv, StdioTypes
  <2>2. \A j \in DOMAIN out :
          /\ out[j].to \in 1 .. Done /\ IsRequestAt(out[j].to)
          /\ out[j].ok <=> Deserves(out[j].to)
    BY <1>1, <2>1 DEF LoopInv, Responses
  <2>3. exit = "normal" => Done = Len(input)
    BY <1>1 DEF LoopInv, Done
  <2> QED
    BY <1>1, <2>1, <2>2, <2>3 DEF AnsweredInOrder, LoopInv, Responses
<1> QED
  BY <1>1, LoopInvInit, LoopInvStep, PTL DEF Spec
=============================================================================
