-------------------------- MODULE HttpServerProofs --------------------------
(***************************************************************************)
(* For any number of handlers, requests, sessions and signals: requests do *)
(* not mix up sessions, what has ended stays so, the reaper leaves alone   *)
(* what is in use; no signal cuts a request off within the grace, and the  *)
(* process does not outlive it.                                            *)
(***************************************************************************)
EXTENDS HttpServer, TLAPS

Steps == {"idle", "resolve", "version", "lock", "serve", "delete"}

---------------------------------------------------------------------------
(* The sessions.  What moves them: the handlers, time and the reaper.      *)

SessionStep == Next \/ Tick \/ ReapStart \/ Reap

Lifecycles ==
    [initialized : BOOLEAN, confirmed : BOOLEAN, version : {NoVersion, Supported}]

SessionTypes ==
    /\ clock \in 0 .. MaxClock
    /\ reapNow \in {NotRead} \cup 0 .. clock
    /\ session \in [Ids -> [principal : Principals \cup {Nobody},
                            lastSeen : {NotRead} \cup 0 .. clock, lifecycle : Lifecycles]]
    /\ sessions \subseteq Ids
    /\ pc \in [Handlers -> Steps]
    /\ req \in [Handlers -> Requests \cup {NoRequest}]
    /\ sess \in [Handlers -> Ids \cup {NoId}]
    /\ gone \in [Handlers -> SUBSET Ids]
    /\ found \in [Handlers -> BOOLEAN]

\* The owner of the session has sent it this message of the handshake.
HeardFromOwner(id, method) ==
    [by |-> session[id].principal, method |-> method, on |-> id] \in heard

\* A session that was issued has been seen and is somebody's, its handshake is
\* as far as its owner has brought it; what is listed has been issued.
SessionsSound ==
    /\ \A id \in Ids :
          /\ Issued(id) => session[id].lastSeen # NotRead
                           /\ session[id].principal \in Principals
          /\ session[id].lifecycle.initialized => HeardFromOwner(id, "initialize")
          /\ session[id].lifecycle.confirmed =>
                HeardFromOwner(id, "notifications/initialized")
    /\ \A id \in sessions : Issued(id)

Holds(h) == pc[h] \in {"version", "lock", "serve"}

\* A handler past the lookup holds a session that was issued, that is its
\* caller's, and that had not ended when the request came in.
HandlersSound ==
    \A h \in Handlers :
        /\ pc[h] # "idle" => req[h] \in Requests /\ Authenticated(req[h])
        /\ pc[h] = "delete" => req[h].verb = "DELETE"
        /\ \A id \in gone[h] : Issued(id) /\ id \notin sessions
        /\ Holds(h) =>
              /\ sess[h] \in Ids /\ Issued(sess[h])
              /\ session[sess[h]].principal = req[h].principal
              /\ sess[h] \notin gone[h]

\* While it serves it is alone, it is not late, and the reaper, whose
\* time is not later than the clock, leaves the session where it was found.
ServiceSound ==
    \A h \in Handlers : pc[h] = "serve" =>
        /\ \A g \in Handlers \ {h} : pc[g] = "serve" => sess[g] # sess[h]
        /\ clock - session[sess[h]].lastSeen <= MaxService
        /\ found[h] => sess[h] \in sessions \cup deleted

SInv == SessionTypes /\ SessionsSound /\ HandlersSound /\ ServiceSound /\ ToolsRunAsCaller

---------------------------------------------------------------------------

\* At the start.
LEMMA SInvInit == ASSUME Init PROVE SInv
<1>1. Unissued \in [principal : Principals \cup {Nobody},
                    lastSeen : {NotRead} \cup 0 .. clock, lifecycle : Lifecycles]
  BY DEF Unissued, Lifecycles, Fresh
<1>2. 0 \in 0 .. MaxClock
  BY TimeAssumption
<1>3. SessionTypes
  BY <1>1, <1>2 DEF Init, SessionTypes, Steps
<1>4. SessionsSound /\ HandlersSound /\ ServiceSound /\ ToolsRunAsCaller
  BY <1>3 DEF Init, SessionsSound, HandlersSound, ServiceSound, ToolsRunAsCaller, Holds, Issued,
     Unissued, Fresh
<1> QED
  BY <1>3, <1>4 DEF SInv

\* A flag of the lifecycle rises only with its own message, once accepted.
LEMMA DispatchSound ==
    ASSUME NEW l \in Lifecycles, NEW m
    PROVE  /\ Dispatch(l, m) \in Lifecycles
           /\ Dispatch(l, m).initialized =>
                 l.initialized \/ (m.method = "initialize" /\ Accepts(l, m))
           /\ Dispatch(l, m).confirmed =>
                 l.confirmed \/ (m.method = "notifications/initialized" /\ Accepts(l, m))
BY DEF Dispatch, Lifecycles, Negotiated, Accepts, IsNotification

LEMMA RespondTypes ==
    ASSUME SessionTypes, NEW h \in Handlers, NEW code, Respond(h, code)
    PROVE  /\ pc' \in [Handlers -> Steps] /\ req' \in [Handlers -> Requests \cup {NoRequest}]
           /\ sess' \in [Handlers -> Ids \cup {NoId}]
           /\ gone' \in [Handlers -> SUBSET Ids] /\ found' \in [Handlers -> BOOLEAN]
           /\ pc'[h] = "idle" /\ gone'[h] = {}
           /\ \A g \in Handlers \ {h} :
                 /\ pc'[g] = pc[g] /\ req'[g] = req[g] /\ sess'[g] = sess[g]
                 /\ gone'[g] = gone[g] /\ found'[g] = found[g]
BY DEF Respond, Goto, SessionTypes, Steps

LEMMA GotoTypes ==
    ASSUME SessionTypes, NEW h \in Handlers, NEW step \in Steps, Goto(h, step)
    PROVE  /\ pc' \in [Handlers -> Steps] /\ pc'[h] = step
           /\ \A g \in Handlers \ {h} : pc'[g] = pc[g]
BY DEF Goto, SessionTypes

LEMMA ReceiveKeepsSInv ==
    ASSUME SInv, NEW h \in Handlers, NEW r \in Requests, Receive(h, r) \/ ReceiveRefused(h, r)
    PROVE  SInv'
<1>1. CASE ReceiveRefused(h, r)
  BY <1>1 DEF ReceiveRefused, SInv, SessionTypes, SessionsSound, HeardFromOwner, HandlersSound, ServiceSound,
     ToolsRunAsCaller, Holds, Issued, server, history
<1>2. CASE Receive(h, r)
  <2>1. /\ UNCHANGED <<clock, sessions, session, sess, reapNow, deleted, found, heard, ran>>
        /\ req' = [req EXCEPT ![h] = r]
        /\ gone' = [gone EXCEPT ![h] = {id \in Ids \ sessions : Issued(id)}]
        /\ Authenticated(r) /\ pc[h] = "idle"
        /\ Goto(h, IF r.verb = "POST" THEN "resolve" ELSE "delete")
    BY <1>2 DEF Receive, Refusal, server
  <2>2. r.verb # "POST" => r.verb = "DELETE"
    BY RequestsAssumption
  <2>3. /\ pc' \in [Handlers -> Steps]
        /\ pc'[h] = IF r.verb = "POST" THEN "resolve" ELSE "delete"
        /\ \A g \in Handlers \ {h} : pc'[g] = pc[g]
    BY <2>1 DEF Goto, SInv, SessionTypes, Steps
  <2>4. SessionTypes'
    BY <2>1, <2>3 DEF SInv, SessionTypes
  <2>5. SessionsSound' /\ ToolsRunAsCaller'
    BY <2>1 DEF SInv, SessionsSound, HeardFromOwner, ToolsRunAsCaller, Issued
  <2>6. HandlersSound'
    BY <2>1, <2>2, <2>3 DEF SInv, SessionTypes, HandlersSound, Holds, Issued
  <2>7. ServiceSound'
    BY <2>1, <2>3 DEF SInv, ServiceSound
  <2> QED
    BY <2>4, <2>5, <2>6, <2>7 DEF SInv
<1> QED
  BY <1>1, <1>2

LEMMA CreateKeepsSInv == ASSUME SInv, NEW h \in Handlers, Create(h) PROVE SInv'
<1>1. PICK id \in Ids :
          /\ ~Issued(id)
          /\ session' = [session EXCEPT ![id] =
                [principal |-> req[h].principal, lastSeen |-> clock, lifecycle |-> Fresh]]
          /\ sessions' = sessions \cup {id}
          /\ sess' = [sess EXCEPT ![h] = id]
  BY DEF Create
<1>2. /\ Goto(h, "lock") /\ pc[h] = "resolve"
      /\ UNCHANGED <<clock, req, reapNow, deleted, gone, found, heard, ran>>
  BY DEF Create, history
<1>3. /\ req[h] \in Requests /\ req[h].principal \in Principals
      /\ clock \in 0 .. clock /\ clock # NotRead
  BY <1>2, RequestsAssumption, TimeAssumption
  DEF SInv, SessionTypes, HandlersSound, Authenticated, NotRead
<1>4. /\ pc' \in [Handlers -> Steps] /\ pc'[h] = "lock"
      /\ \A g \in Handlers \ {h} : pc'[g] = pc[g]
  BY <1>2, GotoTypes DEF SInv, Steps
<1>5. [principal |-> req[h].principal, lastSeen |-> clock, lifecycle |-> Fresh]
         \in [principal : Principals \cup {Nobody}, lastSeen : {NotRead} \cup 0 .. clock,
              lifecycle : Lifecycles]
  BY <1>3 DEF Fresh, Lifecycles
<1>6. SessionTypes'
  BY <1>1, <1>2, <1>4, <1>5 DEF SInv, SessionTypes
<1>7. Issued(id)' /\ \A j \in Ids \ {id} : session'[j] = session[j]
  BY <1>1, <1>3 DEF SInv, SessionTypes, Issued, Unissued
<1>8. SessionsSound'
  BY <1>1, <1>2, <1>3, <1>7 DEF SInv, SessionTypes, SessionsSound, HeardFromOwner, Issued, Fresh
<1>9. HandlersSound'
  <2> SUFFICES ASSUME NEW g \in Handlers PROVE HandlersSound!(g)'
    BY DEF HandlersSound
  <2>1. \A j \in gone[g] : Issued(j)' /\ j \notin sessions'
    BY <1>1, <1>7 DEF SInv, SessionTypes, HandlersSound, Issued
  <2>2. CASE g = h
    BY <1>1, <1>2, <1>3, <1>4, <1>7, <2>1, <2>2 DEF SInv, SessionTypes, HandlersSound, Holds
  <2>3. CASE g # h
    BY <1>1, <1>2, <1>4, <1>7, <2>1, <2>3 DEF SInv, SessionTypes, HandlersSound, Holds, Issued
  <2> QED
    BY <2>2, <2>3
<1>10. ServiceSound'
  BY <1>1, <1>2, <1>4, <1>7 DEF SInv, SessionTypes, ServiceSound, HandlersSound, Holds
<1>11. ToolsRunAsCaller'
  BY <1>2 DEF SInv, ToolsRunAsCaller
<1> QED
  BY <1>6, <1>8, <1>9, <1>10, <1>11 DEF SInv

\* The other steps of a handler on its way to the lock or to a refusal.
LEMMA ResolveKeepsSInv ==
    ASSUME SInv, NEW h \in Handlers, Lookup(h) \/ LookupRefused(h) \/ CheckVersion(h)
    PROVE  SInv'
<1>1. UNCHANGED <<clock, session, sessions, reapNow, deleted, heard, ran>>
  BY DEF Lookup, LookupRefused, CheckVersion, server, history
<1>2. SessionsSound' /\ ToolsRunAsCaller'
  BY <1>1 DEF SInv, SessionsSound, HeardFromOwner, ToolsRunAsCaller, Issued
<1>3. CASE Lookup(h)
  <2>1. /\ Goto(h, "version") /\ req[h].id \in sessions /\ pc[h] = "resolve"
        /\ session[req[h].id].principal = req[h].principal
        /\ sess' = [sess EXCEPT ![h] = req[h].id] /\ UNCHANGED <<req, gone, found>>
    BY <1>3 DEF Lookup, Listed, Owned, history
  <2>2. /\ pc' \in [Handlers -> Steps] /\ pc'[h] = "version"
        /\ \A g \in Handlers \ {h} : pc'[g] = pc[g]
    BY <2>1, GotoTypes DEF SInv, Steps
  <2>3. SessionTypes'
    BY <1>1, <2>1, <2>2 DEF SInv, SessionTypes
  <2>4. HandlersSound'
    BY <1>1, <2>1, <2>2 DEF SInv, SessionTypes, SessionsSound, HandlersSound, Holds, Issued
  <2>5. ServiceSound'
    BY <1>1, <2>1, <2>2 DEF SInv, SessionTypes, ServiceSound
  <2> QED
    BY <1>2, <2>3, <2>4, <2>5 DEF SInv
<1>4. ASSUME NEW code, Respond(h, code) PROVE SInv'
  <2>1. SessionTypes'
    BY <1>1, <1>4, RespondTypes DEF SInv, SessionTypes
  <2>2. HandlersSound'
    BY <1>1, <1>4, RespondTypes DEF SInv, HandlersSound, Holds, Issued
  <2>3. ServiceSound'
    BY <1>1, <1>4, RespondTypes DEF SInv, ServiceSound
  <2> QED
    BY <1>2, <2>1, <2>2, <2>3 DEF SInv
<1>5. CASE LookupRefused(h)
  BY <1>4, <1>5 DEF LookupRefused
<1>6. CASE pc[h] = "version" /\ Goto(h, "lock") /\ UNCHANGED <<req, sess, gone, found>>
  <2>1. /\ pc' \in [Handlers -> Steps] /\ pc'[h] = "lock"
        /\ \A g \in Handlers \ {h} : pc'[g] = pc[g]
    BY <1>6, GotoTypes DEF SInv, Steps
  <2>2. SessionTypes'
    BY <1>1, <1>6, <2>1 DEF SInv, SessionTypes
  <2>3. HandlersSound'
    BY <1>1, <1>6, <2>1 DEF SInv, HandlersSound, Holds, Issued
  <2>4. ServiceSound'
    BY <1>1, <1>6, <2>1 DEF SInv, ServiceSound
  <2> QED
    BY <1>2, <2>2, <2>3, <2>4 DEF SInv
<1>7. CASE CheckVersion(h)
  BY <1>4, <1>6, <1>7 DEF CheckVersion
<1> QED
  BY <1>3, <1>5, <1>7

LEMMA LockKeepsSInv == ASSUME SInv, NEW h \in Handlers, Lock(h) PROVE SInv'
<1>1. /\ pc[h] = "lock" /\ SessionFree(sess[h]) /\ Goto(h, "serve")
      /\ session' = [session EXCEPT ![sess[h]].lastSeen = clock]
      /\ found' = [found EXCEPT ![h] = sess[h] \in sessions]
      /\ UNCHANGED <<clock, sessions, req, sess, reapNow, deleted, gone, heard, ran>>
  BY DEF Lock
<1>2. /\ pc' \in [Handlers -> Steps] /\ pc'[h] = "serve"
      /\ \A g \in Handlers \ {h} : pc'[g] = pc[g]
  BY <1>1, GotoTypes DEF SInv, Steps
<1>3. sess[h] \in Ids /\ Issued(sess[h]) /\ clock \in 0 .. clock /\ clock # NotRead
  BY <1>1, TimeAssumption DEF SInv, SessionTypes, HandlersSound, Holds, NotRead
<1>4. /\ session' \in [Ids -> [principal : Principals \cup {Nobody},
                               lastSeen : {NotRead} \cup 0 .. clock, lifecycle : Lifecycles]]
      /\ session'[sess[h]].lastSeen = clock
      /\ \A id \in Ids : /\ session'[id].principal = session[id].principal
                         /\ session'[id].lifecycle = session[id].lifecycle
                         /\ id # sess[h] => session'[id] = session[id]
  BY <1>1, <1>3 DEF SInv, SessionTypes
<1>0. /\ found' \in [Handlers -> BOOLEAN]
      /\ found'[h] => sess[h] \in sessions
      /\ \A g \in Handlers \ {h} : found'[g] = found[g]
  <2>1. (sess[h] \in sessions) \in BOOLEAN
    OBVIOUS
  <2> QED
    BY <1>1, <2>1, Zenon DEF SInv, SessionTypes
<1>5. SessionTypes'
  BY <1>0, <1>1, <1>2, <1>4 DEF SInv, SessionTypes
<1>6. \A id \in Ids : Issued(id) <=> Issued(id)'
  BY <1>1, <1>3, <1>4 DEF Issued, Unissued
<1>7. SessionsSound'
  BY <1>1, <1>3, <1>4, <1>6 DEF SInv, SessionTypes, SessionsSound, HeardFromOwner, Issued
<1>8. HandlersSound'
  BY <1>1, <1>2, <1>4, <1>6 DEF SInv, SessionTypes, HandlersSound, Holds
<1>9. ServiceSound'
  <2> SUFFICES ASSUME NEW g \in Handlers, pc'[g] = "serve" PROVE ServiceSound!(g)!2'
    BY DEF ServiceSound
  <2>1. \A k \in Handlers : pc[k] = "serve" => sess[k] # sess[h]
    BY <1>1 DEF SessionFree
  <2>2. CASE g = h
    BY <1>0, <1>1, <1>2, <1>3, <1>4, <2>1, <2>2, TimeAssumption DEF SInv, SessionTypes
  <2>3. CASE g # h
    BY <1>0, <1>1, <1>2, <1>4, <2>1, <2>3 DEF SInv, SessionTypes, ServiceSound, HandlersSound, Holds
  <2> QED
    BY <2>2, <2>3
<1>10. ToolsRunAsCaller'
  BY <1>1, <1>4 DEF SInv, ToolsRunAsCaller
<1> QED
  BY <1>5, <1>7, <1>8, <1>9, <1>10 DEF SInv

LEMMA ServeKeepsSInv == ASSUME SInv, NEW h \in Handlers, Serve(h) PROVE SInv'
<1> DEFINE l == session[sess[h]].lifecycle
           m == req[h].message
<1>1. /\ pc[h] = "serve"
      /\ session' = [session EXCEPT ![sess[h]].lifecycle = Dispatch(l, m)]
      /\ heard' = heard \cup HandshakeHeard(h, l)
      /\ ran' = ran \cup ToolsRun(h, l)
      /\ Respond(h, StatusOf(m))
      /\ UNCHANGED <<clock, sessions, reapNow, deleted>>
  BY DEF Serve
<1>2. sess[h] \in Ids /\ session[sess[h]].principal = req[h].principal
  BY <1>1 DEF SInv, HandlersSound, Holds
<1>3. /\ l \in Lifecycles
      /\ l.initialized => HeardFromOwner(sess[h], "initialize")
      /\ l.confirmed => HeardFromOwner(sess[h], "notifications/initialized")
  BY <1>2 DEF SInv, SessionTypes, SessionsSound
<1>4. /\ session' \in [Ids -> [principal : Principals \cup {Nobody},
                               lastSeen : {NotRead} \cup 0 .. clock, lifecycle : Lifecycles]]
      /\ session'[sess[h]].lifecycle = Dispatch(l, m)
      /\ \A id \in Ids : /\ session'[id].principal = session[id].principal
                         /\ session'[id].lastSeen = session[id].lastSeen
                         /\ id # sess[h] => session'[id] = session[id]
  <2>1. Dispatch(l, m) \in Lifecycles
    BY <1>3, DispatchSound
  <2> HIDE DEF l, m
  <2> QED
    BY <1>1, <1>2, <2>1 DEF SInv, SessionTypes
<1>5. \A id \in Ids :
          /\ session'[id].lifecycle.initialized => HeardFromOwner(id, "initialize")'
          /\ session'[id].lifecycle.confirmed =>
                HeardFromOwner(id, "notifications/initialized")'
  <2>1. PICK i : i = sess[h]
    OBVIOUS
  <2>2. /\ i \in Ids /\ session'[i].principal = session[i].principal
        /\ session'[i].lifecycle = Dispatch(l, m)
        /\ heard \subseteq heard'
        /\ \A id \in Ids \ {i} : session'[id] = session[id]
    BY <1>1, <1>2, <1>4, <2>1
  <2>3. ASSUME NEW k, HeardFromOwner(i, k) PROVE HeardFromOwner(i, k)'
    BY <2>2, <2>3 DEF HeardFromOwner
  <2>4. ASSUME NEW k \in Opening, m.method = k, Accepts(l, m) PROVE HeardFromOwner(i, k)'
    BY <1>1, <1>2, <2>1, <2>2, <2>4 DEF HeardFromOwner, HandshakeHeard
  <2> HIDE DEF l, m
  <2>5. /\ Dispatch(l, m).initialized => HeardFromOwner(i, "initialize")'
        /\ Dispatch(l, m).confirmed => HeardFromOwner(i, "notifications/initialized")'
    BY <1>3, <2>1, <2>3, <2>4, DispatchSound DEF Opening
  <2> QED
    BY <2>2, <2>5 DEF SInv, SessionsSound, HeardFromOwner
<1>6. \A id \in Ids : Issued(id) <=> Issued(id)'
  BY <1>1, <1>2, <1>4 DEF SInv, SessionTypes, SessionsSound, HandlersSound, Holds, Issued,
     Unissued
<1>7. SessionTypes'
  BY <1>1, <1>4, RespondTypes DEF SInv, SessionTypes
<1>8. SessionsSound'
  BY <1>1, <1>4, <1>5, <1>6 DEF SInv, SessionTypes, SessionsSound
<1>9. HandlersSound'
  BY <1>1, <1>4, <1>6, RespondTypes DEF SInv, SessionTypes, HandlersSound, Holds
<1>10. ServiceSound'
  BY <1>1, <1>4, RespondTypes DEF SInv, SessionTypes, ServiceSound, HandlersSound, Holds
<1>11. ToolsRunAsCaller'
  <2>1. ASSUME NEW t \in ToolsRun(h, l)
        PROVE  /\ t.by = t.as
               /\ \A k \in Opening : [by |-> t.by, method |-> k, on |-> t.on] \in heard
    <3>1. /\ t = [by |-> req[h].principal, as |-> session[sess[h]].principal, on |-> sess[h]]
          /\ l.initialized /\ l.confirmed
      BY <2>1 DEF ToolsRun, Accepts, IsNotification, Ready
    <3> QED
      BY <1>2, <1>3, <3>1 DEF HeardFromOwner, Opening
  <2> HIDE DEF l
  <2> QED
    BY <1>1, <2>1 DEF SInv, ToolsRunAsCaller
<1> QED
  BY <1>7, <1>8, <1>9, <1>10, <1>11 DEF SInv

LEMMA DeleteKeepsSInv == ASSUME SInv, NEW h \in Handlers, Delete(h) PROVE SInv'
<1>1. /\ sessions' = sessions \ {req[h].id}
      /\ deleted' = deleted \cup (sessions \cap {req[h].id})
      /\ Respond(h, IF Listed(h) THEN 204 ELSE 404)
      /\ UNCHANGED <<clock, session, reapNow, heard, ran>>
  BY DEF Delete
<1>2. SessionTypes'
  BY <1>1, RespondTypes DEF SInv, SessionTypes
<1>3. SessionsSound' /\ ToolsRunAsCaller'
  BY <1>1 DEF SInv, SessionsSound, HeardFromOwner, ToolsRunAsCaller, Issued
<1>4. HandlersSound'
  BY <1>1, RespondTypes DEF SInv, HandlersSound, Holds, Issued
<1>5. ServiceSound'
  BY <1>1, RespondTypes DEF SInv, ServiceSound
<1> QED
  BY <1>2, <1>3, <1>4, <1>5 DEF SInv

---------------------------------------------------------------------------
(* Time and the reaper.                                                    *)

LEMMA TickKeepsSInv == ASSUME SInv, Tick PROVE SInv'
<1>1. /\ clock < MaxClock /\ clock' = clock + 1
      /\ \A h \in Handlers :
            pc[h] = "serve" => clock - session[sess[h]].lastSeen < MaxService
      /\ UNCHANGED <<sessions, session, pc, req, sess, reapNow, deleted, gone, found, heard, ran>>
  BY DEF Tick, server, history
<1>2. clock \in Int /\ 0 <= clock /\ MaxClock \in Nat /\ MaxService \in Nat
  BY TimeAssumption DEF SInv, SessionTypes
<1>3. 0 .. clock \subseteq 0 .. clock' /\ clock' \in 0 .. MaxClock
  BY <1>1, <1>2
<1>4. SessionTypes'
  BY <1>1, <1>3 DEF SInv, SessionTypes
<1>5. SessionsSound' /\ HandlersSound' /\ ToolsRunAsCaller'
  BY <1>1 DEF SInv, SessionsSound, HeardFromOwner, HandlersSound, ToolsRunAsCaller, Issued, Holds
<1>6. ServiceSound'
  <2>1. \A h \in Handlers : pc[h] = "serve" => session[sess[h]].lastSeen \in Int
    BY DEF SInv, SessionTypes, HandlersSound, Holds, NotRead
  <2> QED
    BY <1>1, <1>2, <2>1 DEF SInv, ServiceSound
<1> QED
  BY <1>4, <1>5, <1>6 DEF SInv

LEMMA ReaperKeepsSInv == ASSUME SInv, ReapStart \/ Reap PROVE SInv'
<1>1. /\ UNCHANGED <<clock, session, pc, req, sess, deleted, gone, found, heard, ran>>
      /\ sessions' \subseteq sessions /\ reapNow' \in {NotRead} \cup 0 .. clock
  BY TimeAssumption DEF ReapStart, Reap, server, history, SInv, SessionTypes
<1>2. SessionTypes' /\ SessionsSound' /\ HandlersSound' /\ ToolsRunAsCaller'
  BY <1>1 DEF SInv, SessionTypes, SessionsSound, HeardFromOwner, HandlersSound, ToolsRunAsCaller, Issued, Holds
<1>3. CASE ReapStart
  BY <1>1, <1>2, <1>3 DEF ReapStart, server, SInv, ServiceSound
<1>4. CASE Reap
  <2>1. reapNow # NotRead /\ sessions' = {id \in sessions : ~Expired(id)}
    BY <1>4 DEF Reap
  <2>2. \A h \in Handlers : pc[h] = "serve" => ~Expired(sess[h])
    <3> SUFFICES ASSUME NEW h \in Handlers, pc[h] = "serve" PROVE ~Expired(sess[h])
      OBVIOUS
    <3>1. /\ session[sess[h]].lastSeen \in Int /\ reapNow \in Int /\ clock \in Int
          /\ reapNow <= clock /\ clock - session[sess[h]].lastSeen <= MaxService
      BY <2>1, TimeAssumption
      DEF SInv, SessionTypes, HandlersSound, ServiceSound, Holds, NotRead
    <3> QED
      BY <3>1, TimeAssumption DEF Expired
  <2>3. ServiceSound'
    BY <1>1, <2>1, <2>2 DEF SInv, ServiceSound
  <2> QED
    BY <1>2, <2>3 DEF SInv
<1> QED
  BY <1>3, <1>4

LEMMA StepKeepsSInv == ASSUME SInv, [SessionStep]_vars PROVE SInv'
<1>1. ASSUME NEW h \in Handlers, NEW r \in Requests, Receive(h, r) \/ ReceiveRefused(h, r)
      PROVE  SInv'
  BY <1>1, ReceiveKeepsSInv
<1>2. ASSUME NEW h \in Handlers, Resolve(h) \/ Lock(h) \/ Serve(h) \/ Delete(h) PROVE SInv'
  BY <1>2, CreateKeepsSInv, ResolveKeepsSInv, LockKeepsSInv, ServeKeepsSInv, DeleteKeepsSInv
  DEF Resolve
<1>3. CASE Tick \/ ReapStart \/ Reap
  BY <1>3, TickKeepsSInv, ReaperKeepsSInv
<1>4. CASE UNCHANGED vars
  BY <1>4 DEF vars, server, history, SInv, SessionTypes, SessionsSound, HeardFromOwner, HandlersSound,
     ServiceSound, ToolsRunAsCaller, Issued, Holds
<1> QED
  BY <1>1, <1>2, <1>3, <1>4 DEF SessionStep, Next

\* Beside the process, the server does what the sessions allow.
LEMMA ServerStepsSessions == [NextServer]_svars => [SessionStep]_vars
<1> SUFFICES ASSUME [NextServer]_svars PROVE SessionStep \/ UNCHANGED vars
  OBVIOUS
<1>1. CASE UNCHANGED http
  BY <1>1 DEF http, vars
<1>2. CASE MainStep \/ Signal \/ StartReaper \/ Serving \/ ListenerReturns \/ ReaperStops
  BY <1>1, <1>2 DEF MainStep, Notify, Launch, SelectSignal, SelectError, ShutdownDone,
     ShutdownTimesOut, Exit, Signal, StartReaper, Serving, ListenerReturns, ReaperStops
<1>3. CASE ReaperStep \/ TimePasses \/ Finished
  BY <1>1, <1>3 DEF ReaperStep, TimePasses, Finished, SessionStep
<1>4. ASSUME NEW h \in Handlers, Accept(h) \/ HandlerStep(h) \/ HandlerLocks(h) \/ HandlerServes(h)
      PROVE  SessionStep
  BY <1>4 DEF Accept, HandlerStep, HandlerLocks, HandlerServes, SessionStep, Next
<1> QED
  BY <1>1, <1>2, <1>3, <1>4 DEF NextServer, svars

LEMMA SInvImplies ==
    ASSUME SInv
    PROVE  TypeOK /\ ToolsRunAsCaller /\ EndedStaysEnded /\ ServedSessionsSurvive
<1>1. TypeOK
  BY DEF SInv, SessionTypes, SessionsSound, HandlersSound, ServiceSound, TypeOK, Steps,
     Holds, Lifecycles
<1> QED
  BY <1>1 DEF SInv, HandlersSound, ServiceSound, ToolsRunAsCaller, Holds, ToolsRunAsCaller,
     EndedStaysEnded, ServedSessionsSurvive

\* Whatever requests arrive, and however their handlers overtake each other: a
\* tool runs with the identity of its caller, in a session to which this caller
\* has sent both messages of the handshake.
THEOREM SessionsIsolated == Spec => [](TypeOK /\ ToolsRunAsCaller)
<1>1. Init => SInv
  BY SInvInit
<1>2. SInv /\ [Next]_vars => SInv'
  BY StepKeepsSInv DEF SessionStep
<1>3. SInv => TypeOK /\ ToolsRunAsCaller
  BY SInvImplies
<1> QED
  BY <1>1, <1>2, <1>3, PTL DEF Spec

\* The same beside the reaper, while time passes and until the process ends;
\* besides, what has ended serves no request that comes in later, and nothing but
\* a DELETE ends a session that is serving.
THEOREM SessionsEndOnce ==
    SpecServer => [](ToolsRunAsCaller /\ EndedStaysEnded /\ ServedSessionsSurvive)
<1>1. InitServer => SInv
  BY SInvInit DEF InitServer
<1>2. SInv /\ [NextServer]_svars => SInv'
  BY ServerStepsSessions, StepKeepsSInv
<1>3. SInv => ToolsRunAsCaller /\ EndedStaysEnded /\ ServedSessionsSurvive
  BY SInvImplies
<1> QED
  BY <1>1, <1>2, <1>3, PTL DEF SpecServer

---------------------------------------------------------------------------
(* The process.                                                            *)

Types ==
    /\ clock \in Nat
    /\ signalled \in Nat \cup {NotRead}
    /\ deadline \in Nat \cup {NotRead}
    /\ pc \in [Handlers -> Steps]
    /\ main \in {"notify", "launch", "select", "shutdown", "return", "exited"}
    /\ main = "exited" <=> exit # "no"

\* Before the goroutine of the listener there is nobody; until a signal is
\* taken from the channel no time passes.
Started ==
    /\ listener = "unstarted" => InFlight = {}
    /\ main = "notify" =>
          listener = "unstarted" /\ ~handled /\ signals = 0 /\ signalled = NotRead
    /\ main = "launch" => listener = "unstarted"
    /\ main \in {"launch", "select"} =>
          /\ handled
          /\ signalled # NotRead => signals = 1 /\ clock = signalled
          /\ signals = 1 => signalled # NotRead

\* Then main waits for the requests, and until the deadline only.
ShuttingDown ==
    /\ main = "shutdown" =>
          /\ handled /\ stopping /\ signalled # NotRead
          /\ deadline = signalled + Grace /\ clock <= deadline
    /\ main = "return" =>
          /\ stopping /\ signalled # NotRead /\ clock <= signalled + Grace
          /\ InFlight = {} \/ clock = signalled + Grace

IInv == Types /\ Started /\ ShuttingDown /\ CutOnlyAfterGrace /\ StopsWithinGrace

---------------------------------------------------------------------------

LEMMA NextSteps ==
    /\ Head(StartOrder) = "notify"
    /\ After("notify") = "launch" /\ After("launch") = "select"
<1>1. \A i \in DOMAIN StartOrder : StartOrder[i] = "notify" <=> i = 1
  BY DEF StartOrder
<1>2. \A i \in DOMAIN StartOrder : StartOrder[i] = "launch" <=> i = 2
  BY DEF StartOrder
<1>3. 1 \in DOMAIN StartOrder /\ 2 \in DOMAIN StartOrder
  BY DEF StartOrder
<1>4. (CHOOSE i \in DOMAIN StartOrder : StartOrder[i] = "notify") = 1
  BY <1>1, <1>3
<1>5. (CHOOSE i \in DOMAIN StartOrder : StartOrder[i] = "launch") = 2
  BY <1>2, <1>3
<1>6. After("notify") = StartOrder[1 + 1] /\ After("launch") = StartOrder[1 + 2]
  BY <1>4, <1>5, Zenon DEF After
<1> QED
  BY <1>6 DEF StartOrder

LEMMA IInvInit == ASSUME InitServer PROVE IInv
<1>1. Types /\ InFlight = {}
  BY NextSteps DEF InitServer, Init, Types, Steps, InFlight, NotRead
<1> QED
  BY <1>1, NextSteps
  DEF InitServer, IInv, Started, ShuttingDown, CutOnlyAfterGrace, StopsWithinGrace

\* A step that leaves the clock and the process alone, and that only requests
\* that are there already can take.
LEMMA HandlersKeepIInv ==
    ASSUME IInv, UNCHANGED <<clock, process>>, pc' \in [Handlers -> Steps],
           InFlight' \subseteq InFlight
    PROVE  IInv'
<1>1. Types'
  BY DEF IInv, Types, process
<1>2. Started' /\ ShuttingDown'
  BY DEF IInv, Started, ShuttingDown, process
<1>3. CutOnlyAfterGrace' /\ StopsWithinGrace'
  BY DEF IInv, CutOnlyAfterGrace, StopsWithinGrace, process
<1> QED
  BY <1>1, <1>2, <1>3 DEF IInv

LEMMA InProgressMoves ==
    ASSUME IInv, NEW h \in Handlers, Resolve(h) \/ Lock(h) \/ Serve(h) \/ Delete(h)
    PROVE  clock' = clock /\ pc' \in [Handlers -> Steps] /\ InFlight' \subseteq InFlight
<1>1. /\ clock' = clock /\ pc[h] # "idle"
      /\ \E step \in Steps : pc' = [pc EXCEPT ![h] = step]
  <2> USE DEF Goto, Respond, Steps
  <2>1. CASE Resolve(h)
    BY <2>1 DEF Resolve, Create, Lookup, LookupRefused, CheckVersion
  <2>2. CASE Lock(h)
    BY <2>2 DEF Lock
  <2>3. CASE Serve(h)
    BY <2>3 DEF Serve
  <2>4. CASE Delete(h)
    BY <2>4 DEF Delete
  <2> QED
    BY <2>1, <2>2, <2>3, <2>4
<1> QED
  BY <1>1 DEF IInv, Types, InFlight

LEMMA AcceptKeepsIInv == ASSUME IInv, NEW h \in Handlers, Accept(h) PROVE IInv'
<1>1. /\ exit = "no" /\ listener = "serving" /\ ~stopping /\ UNCHANGED <<clock, process>>
      /\ pc' = pc \/ \E step \in Steps : pc' = [pc EXCEPT ![h] = step]
  BY DEF Accept, Receive, ReceiveRefused, Goto, Steps
<1>2. Types'
  BY <1>1 DEF IInv, Types, process
<1>3. main \notin {"notify", "launch", "shutdown", "return"}
  BY <1>1 DEF IInv, Started, ShuttingDown
<1>4. Started' /\ ShuttingDown'
  BY <1>1, <1>3 DEF IInv, Started, ShuttingDown, process
<1>5. CutOnlyAfterGrace' /\ StopsWithinGrace'
  BY <1>1 DEF IInv, CutOnlyAfterGrace, StopsWithinGrace, process
<1> QED
  BY <1>2, <1>4, <1>5 DEF IInv

---------------------------------------------------------------------------
(* The main goroutine and the signals.                                     *)

LEMMA MainKeepsIInv == ASSUME IInv, MainStep PROVE IInv'
<1> USE DEF http, InFlight
<1>0. Grace \in Nat
  BY GraceAssumption
<1>1. CASE Notify
  BY <1>1, NextSteps
  DEF Notify, IInv, Types, Started, ShuttingDown, CutOnlyAfterGrace, StopsWithinGrace
<1>2. CASE Launch
  BY <1>2, NextSteps
  DEF Launch, IInv, Types, Started, ShuttingDown, CutOnlyAfterGrace, StopsWithinGrace
<1>3. CASE SelectSignal
  BY <1>0, <1>3
  DEF SelectSignal, Deadline, IInv, Types, Started, ShuttingDown, CutOnlyAfterGrace,
      StopsWithinGrace, NotRead
<1>4. CASE SelectError
  BY <1>4
  DEF SelectError, Ends, IInv, Types, Started, ShuttingDown, CutOnlyAfterGrace,
      StopsWithinGrace
<1>5. CASE ShutdownDone
  BY <1>0, <1>5
  DEF ShutdownDone, AllAnswered, IInv, Types, Started, ShuttingDown, CutOnlyAfterGrace,
      StopsWithinGrace
<1>6. CASE ShutdownTimesOut
  BY <1>0, <1>6
  DEF ShutdownTimesOut, IInv, Types, Started, ShuttingDown, CutOnlyAfterGrace,
      StopsWithinGrace
<1>7. CASE Exit
  BY <1>0, <1>7
  DEF Exit, Ends, IInv, Types, Started, ShuttingDown, CutOnlyAfterGrace,
      StopsWithinGrace
<1> QED
  BY <1>1, <1>2, <1>3, <1>4, <1>5, <1>6, <1>7 DEF MainStep

LEMMA SignalKeepsIInv == ASSUME IInv, Signal PROVE IInv'
<1> USE DEF http, InFlight
<1>0. Grace \in Nat
  BY GraceAssumption
<1>1. CASE handled
  <2>1. /\ UNCHANGED <<main, exit, cut, clock, pc, handled, deadline, listener, stopping>>
        /\ signals' = 1 /\ exit = "no" /\ main \notin {"notify", "exited"}
        /\ signalled' = IF signalled = NotRead THEN clock ELSE signalled
    BY <1>1 DEF Signal, IInv, Types, Started
  <2>0. signalled' \in Nat /\ NotRead \notin Nat
    BY <2>1 DEF IInv, Types, NotRead
  <2>2. Types' /\ signalled' \in Nat /\ NotRead \notin Nat
    BY <2>0, <2>1 DEF IInv, Types
  <2>3. Started'
    BY <2>1, <2>2 DEF IInv, Types, Started
  <2>4. ShuttingDown'
    BY <2>1, <2>2 DEF IInv, ShuttingDown
  <2>5. CutOnlyAfterGrace'
    BY <1>0, <2>1, <2>2 DEF IInv, CutOnlyAfterGrace
  <2>6. StopsWithinGrace'
    BY <1>0, <2>1, <2>2 DEF IInv, Types, Started, StopsWithinGrace
  <2> QED
    BY <2>2, <2>3, <2>4, <2>5, <2>6 DEF IInv
<1>2. CASE ~handled
  <2>1. main \in {"notify", "return"} /\ main' = "exited" /\ exit' = "killed"
    BY <1>2 DEF Signal, Ends, IInv, Types, Started, ShuttingDown
  <2>2. cut' = cut \cup InFlight
    BY <1>2 DEF Signal, Ends
  <2>3. CutOnlyAfterGrace'
    BY <1>0, <1>2, <2>1, <2>2
    DEF Signal, IInv, Types, Started, ShuttingDown, CutOnlyAfterGrace
  <2> QED
    BY <1>2, <2>1, <2>3
    DEF Signal, IInv, Types, Started, ShuttingDown, StopsWithinGrace
<1> QED
  BY <1>1, <1>2

LEMMA TimeKeepsIInv == ASSUME IInv, TimePasses PROVE IInv'
<1>0. Grace \in Nat
  BY GraceAssumption
<1>1. clock' = clock + 1 /\ clock \in Nat /\ pc' = pc /\ UNCHANGED process /\ MainWaits
  BY DEF TimePasses, Tick, IInv, Types
<1>2. Types'
  BY <1>1 DEF IInv, Types, process
<1>3. Started' /\ ShuttingDown'
  BY <1>0, <1>1 DEF IInv, Types, Started, ShuttingDown, InFlight, process, MainWaits, NotRead
<1>4. CutOnlyAfterGrace' /\ StopsWithinGrace'
  BY <1>0, <1>1
  DEF IInv, Types, Started, ShuttingDown, CutOnlyAfterGrace, StopsWithinGrace, process,
      MainWaits, NotRead
<1> QED
  BY <1>2, <1>3, <1>4 DEF IInv

\* The goroutines beside main decide nothing: they tell it through channels.
LEMMA ListenerKeepsIInv ==
    ASSUME IInv, StartReaper \/ Serving \/ ListenerReturns \/ ReaperStops \/ ReaperStep
                 \/ Finished
    PROVE  IInv'
<1>1. /\ UNCHANGED <<clock, pc, main, handled, signals, deadline, stopping, exit,
                     signalled, cut>>
      /\ listener' = "unstarted" => listener = "unstarted"
      /\ listener = "unstarted" => listener' = "unstarted"
  BY DEF StartReaper, Serving, ListenerReturns, ReaperStops, ReaperStep, Finished, http,
         process, ReapStart, Reap
<1>2. InFlight' = InFlight
  BY <1>1 DEF InFlight
<1> QED
  BY <1>1, <1>2
  DEF IInv, Types, Started, ShuttingDown, CutOnlyAfterGrace, StopsWithinGrace

---------------------------------------------------------------------------

LEMMA NextKeepsIInv == ASSUME IInv, [NextServer]_svars PROVE IInv'
<1>1. CASE MainStep
  BY <1>1, MainKeepsIInv
<1>2. CASE Signal
  BY <1>2, SignalKeepsIInv
<1>3. CASE StartReaper \/ Serving \/ ListenerReturns \/ ReaperStops \/ ReaperStep \/ Finished
  BY <1>3, ListenerKeepsIInv
<1>4. CASE TimePasses
  BY <1>4, TimeKeepsIInv
<1>5. ASSUME NEW h \in Handlers, Accept(h) PROVE IInv'
  BY <1>5, AcceptKeepsIInv
<1>6. ASSUME NEW h \in Handlers, HandlerStep(h) \/ HandlerLocks(h) \/ HandlerServes(h)
      PROVE  IInv'
  BY <1>6, InProgressMoves, HandlersKeepIInv DEF HandlerStep, HandlerLocks, HandlerServes
<1>7. CASE UNCHANGED svars
  BY <1>7, HandlersKeepIInv DEF svars, http, InFlight, IInv, Types
<1> QED
  BY <1>1, <1>2, <1>3, <1>4, <1>5, <1>6, <1>7 DEF NextServer

\* However many requests are in progress, whenever signals come and whatever
\* the listener does: a request is cut off by the end of the grace or by a
\* failing listener only, and when the grace is over the process has ended.
THEOREM OrderlyShutdown == SpecServer => [](CutOnlyAfterGrace /\ StopsWithinGrace)
<1>1. InitServer => IInv
  BY IInvInit
<1>2. IInv /\ [NextServer]_svars => IInv'
  BY NextKeepsIInv
<1>3. IInv => CutOnlyAfterGrace /\ StopsWithinGrace
  BY DEF IInv
<1> QED
  BY <1>1, <1>2, <1>3, PTL DEF SpecServer
=============================================================================
