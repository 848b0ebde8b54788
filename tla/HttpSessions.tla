---------------------------- MODULE HttpSessions ----------------------------
(***************************************************************************)
(* The sessions of the HTTP transport (internal/httpmcp/server.go): the    *)
(* handlers of POST and DELETE, one goroutine per HTTP request, and the    *)
(* reaper.  Server.mu guards the map of sessions for single operations     *)
(* only; a handler goes on with the session it looked up, whatever happens *)
(* to the map meanwhile, and serves it under the lock of that session.     *)
(*                                                                         *)
(* lastSeen is written under the session's lock and read by the reaper     *)
(* under Server.mu: a data race.  Times of one process compare by a single *)
(* machine word, so the reaper reads the time before or after the write.   *)
(***************************************************************************)
EXTENDS Lifecycle, Integers, FiniteSets

CONSTANTS
    Principals,    \* identities the tokens stand for
    Nobody,        \* the bearer of a missing or invalid token
    Ids,           \* session identifiers, each issued once
    NoId,          \* a request without the Mcp-Session-Id header
    Handlers,      \* HTTP requests in progress
    Requests,      \* what they may ask
    NoRequest,     \* what an idle handler has
    TTL,           \* sessionTTL, in ticks
    MaxService,    \* ticks it takes to serve a message
    MaxClock       \* bound of the instance: last tick

ASSUME TimeAssumption ==
    TTL \in Nat \ {0} /\ MaxService \in 1 .. TTL /\ MaxClock \in Nat

\* What arrives: the identifier is any the client has heard of, or invented.
ASSUME RequestsAssumption ==
    Requests \subseteq
        [verb : {"POST", "DELETE"}, principal : Principals \cup {Nobody},
         wellFormed : BOOLEAN, message : Messages, id : Ids \cup {NoId},
         version : {Supported, Unsupported, NoVersion}]

VARIABLES
    clock,
    sessions,      \* the identifiers in Server.sessions
    session,       \* session[id]: the object, also when no longer listed
    pc, req, sess, \* per handler: next step, its request, the session it uses
    status,        \* per handler: the HTTP status it answered with
    reapNow,       \* the time the reaper read, or NotRead
    deleted,       \* the identifiers a DELETE ended (history)
    gone,          \* per handler: those unlisted when it began (history)
    found,         \* per handler: its session was listed when it locked it (history)
    heard,         \* the handshake served: who sent what where (history)
    ran            \* the tool calls executed: who, as whom, where (history)

history == <<deleted, gone, found, heard, ran>>
server == <<sessions, session>>
vars == <<clock, server, pc, req, sess, status, reapNow, history>>

NotRead == -1

Unissued == [principal |-> Nobody, lastSeen |-> NotRead, lifecycle |-> Fresh]
Issued(id) == session[id] # Unissued

Init ==
    /\ clock = 0
    /\ sessions = {} /\ session = [id \in Ids |-> Unissued]
    /\ pc = [h \in Handlers |-> "idle"]
    /\ req = [h \in Handlers |-> NoRequest]
    /\ sess = [h \in Handlers |-> NoId]
    /\ status = [h \in Handlers |-> 0]
    /\ reapNow = NotRead
    /\ deleted = {} /\ heard = {} /\ ran = {}
    /\ gone = [h \in Handlers |-> {}]
    /\ found = [h \in Handlers |-> FALSE]

---------------------------------------------------------------------------

Goto(h, step) == pc' = [pc EXCEPT ![h] = step]

\* The answer leaves, and the locals of the handler with it.
Respond(h, code) ==
    /\ Goto(h, "idle")
    /\ status' = [status EXCEPT ![h] = code]
    /\ req' = [req EXCEPT ![h] = NoRequest]
    /\ sess' = [sess EXCEPT ![h] = NoId]
    /\ gone' = [gone EXCEPT ![h] = {}]
    /\ found' = [found EXCEPT ![h] = FALSE]

\* Serving a message takes less than MaxService.
Tick ==
    /\ clock < MaxClock
    /\ \A h \in Handlers :
          pc[h] = "serve" => clock - session[sess[h]].lastSeen < MaxService
    /\ clock' = clock + 1
    /\ UNCHANGED <<server, pc, req, sess, status, reapNow, history>>

Authenticated(r) == r.principal # Nobody

Initializes(r) == r.message.method = "initialize"

Creates(r) == Initializes(r) /\ r.id = NoId

\* Bound of the instance: identifiers last for the sessions being created.
IdsLeft ==
    Cardinality({h \in Handlers : pc[h] = "resolve" /\ Creates(req[h])})
        < Cardinality({id \in Ids : ~Issued(id)})

\* authenticate and the checks of the body, before any session is looked at.
Refusal(r) ==
    IF ~Authenticated(r) THEN 401
    ELSE IF r.verb = "POST" /\ ~r.wellFormed THEN 400
    ELSE IF r.verb = "DELETE" /\ r.id = NoId THEN 400
    ELSE 0

ReceiveRefused(h, r) ==
    /\ pc[h] = "idle" /\ Refusal(r) # 0
    /\ status' = [status EXCEPT ![h] = Refusal(r)]
    /\ UNCHANGED <<clock, server, pc, req, sess, reapNow, history>>

Receive(h, r) ==
    /\ pc[h] = "idle" /\ Refusal(r) = 0
    /\ Creates(r) => IdsLeft
    /\ req' = [req EXCEPT ![h] = r]
    /\ status' = [status EXCEPT ![h] = 0]
    /\ gone' = [gone EXCEPT ![h] = {id \in Ids \ sessions : Issued(id)}]
    /\ Goto(h, IF r.verb = "POST" THEN "resolve" ELSE "delete")
    /\ UNCHANGED <<clock, server, sess, reapNow, deleted, found, heard, ran>>

\* initialize without a session: newSession.
Create(h) ==
    /\ pc[h] = "resolve" /\ Creates(req[h])
    /\ \E id \in Ids :
          /\ ~Issued(id)
          /\ session' = [session EXCEPT ![id] =
                [principal |-> req[h].principal, lastSeen |-> clock, lifecycle |-> Fresh]]
          /\ sessions' = sessions \cup {id}
          /\ sess' = [sess EXCEPT ![h] = id]
    /\ Goto(h, "lock")
    /\ UNCHANGED <<clock, req, status, reapNow, history>>

\* Mutant: a session that has gone is still found.
FoundEvenIfGone(h) == req[h].id # NoId /\ Issued(req[h].id)

Listed(h) == req[h].id \in sessions

Owned(h) == session[req[h].id].principal = req[h].principal

\* resolveSession: the session is looked up under Server.mu, then compared.
Lookup(h) ==
    /\ pc[h] = "resolve" /\ Listed(h) /\ Owned(h)
    /\ sess' = [sess EXCEPT ![h] = req[h].id]
    /\ Goto(h, "version")
    /\ UNCHANGED <<clock, server, req, status, reapNow, history>>

LookupRefused(h) ==
    /\ pc[h] = "resolve"
    /\ \/ req[h].id = NoId /\ ~Initializes(req[h]) /\ Respond(h, 400)
       \/ req[h].id # NoId /\ ~Listed(h) /\ Respond(h, 404)
       \/ Listed(h) /\ ~Owned(h) /\ Respond(h, 403)
    /\ UNCHANGED <<clock, server, reapNow, deleted, heard, ran>>

\* The version is read under the lifecycle's own lock, not the session's.
VersionAgrees(h) ==
    req[h].version \in {NoVersion, session[sess[h]].lifecycle.version}

CheckVersion(h) ==
    /\ pc[h] = "version"
    /\ \/ VersionAgrees(h) /\ Goto(h, "lock") /\ UNCHANGED <<req, sess, status, gone, found>>
       \/ ~VersionAgrees(h) /\ Respond(h, 400)
    /\ UNCHANGED <<clock, server, reapNow, deleted, heard, ran>>

\* Mutant: the session's lock is not taken.
LockedByMany(id) == TRUE

\* sess.mu is not held.
SessionFree(id) == \A h \in Handlers : pc[h] = "serve" => sess[h] # id

\* Mutant: the time of the request is not noted.
LockOnly(h) ==
    /\ pc[h] = "lock" /\ SessionFree(sess[h])
    /\ found' = [found EXCEPT ![h] = sess[h] \in sessions]
    /\ Goto(h, "serve")
    /\ UNCHANGED <<clock, server, req, sess, status, reapNow, deleted, gone, heard, ran>>

\* sess.mu.Lock(); sess.lastSeen = time.Now()
Lock(h) ==
    /\ pc[h] = "lock" /\ SessionFree(sess[h])
    /\ session' = [session EXCEPT ![sess[h]].lastSeen = clock]
    /\ found' = [found EXCEPT ![h] = sess[h] \in sessions]
    /\ Goto(h, "serve")
    /\ UNCHANGED <<clock, sessions, req, sess, status, reapNow, deleted, gone, heard, ran>>

StatusOf(m) ==
    IF IsRequest(m) THEN 200 ELSE IF IsNotification(m) THEN 202 ELSE 400

\* A tool runs with the identity of its session.
ToolsRun(h, l) ==
    IF req[h].message.method = "tools/call" /\ Accepts(l, req[h].message)
    THEN {[by |-> req[h].principal, as |-> session[sess[h]].principal, on |-> sess[h]]}
    ELSE {}

Opening == {"initialize", "notifications/initialized"}

\* What a caller opens a session with, and the session accepts.
HandshakeHeard(h, l) ==
    IF req[h].message.method \in Opening /\ Accepts(l, req[h].message)
    THEN {[by |-> req[h].principal, method |-> req[h].message.method, on |-> sess[h]]}
    ELSE {}

\* Mutant: one lifecycle for all sessions, as if the process had a single one.
ServeShared(h) ==
    LET shared == Dispatch(session[sess[h]].lifecycle, req[h].message) IN
    /\ pc[h] = "serve"
    /\ session' = [id \in Ids |->
          IF Issued(id) THEN [session[id] EXCEPT !.lifecycle = shared] ELSE Unissued]
    /\ heard' = heard \cup HandshakeHeard(h, session[sess[h]].lifecycle)
    /\ ran' = ran \cup ToolsRun(h, session[sess[h]].lifecycle)
    /\ Respond(h, StatusOf(req[h].message))
    /\ UNCHANGED <<clock, sessions, reapNow, deleted>>

\* Mutant: a message that is no request returns without unlocking.
ServeRequestsOnly(h) ==
    LET l == session[sess[h]].lifecycle IN
    /\ pc[h] = "serve" /\ IsRequest(req[h].message)
    /\ session' = [session EXCEPT ![sess[h]].lifecycle = Dispatch(l, req[h].message)]
    /\ heard' = heard \cup HandshakeHeard(h, l)
    /\ ran' = ran \cup ToolsRun(h, l)
    /\ Respond(h, 200)
    /\ UNCHANGED <<clock, sessions, reapNow, deleted>>

\* The message is dispatched and the lock released.
Serve(h) ==
    LET l == session[sess[h]].lifecycle IN
    /\ pc[h] = "serve"
    /\ session' = [session EXCEPT ![sess[h]].lifecycle = Dispatch(l, req[h].message)]
    /\ heard' = heard \cup HandshakeHeard(h, l)
    /\ ran' = ran \cup ToolsRun(h, l)
    /\ Respond(h, StatusOf(req[h].message))
    /\ UNCHANGED <<clock, sessions, reapNow, deleted>>

\* handleDelete.
Delete(h) ==
    /\ pc[h] = "delete"
    /\ sessions' = sessions \ {req[h].id}
    /\ deleted' = deleted \cup (sessions \cap {req[h].id})
    /\ Respond(h, IF Listed(h) THEN 204 ELSE 404)
    /\ UNCHANGED <<clock, session, reapNow, heard, ran>>

\* The reaper reads the clock, then takes Server.mu.
ReapStart ==
    /\ reapNow = NotRead
    /\ reapNow' = clock
    /\ UNCHANGED <<clock, server, pc, req, sess, status, history>>

Expired(id) == session[id].lastSeen < reapNow - TTL

Reap ==
    /\ reapNow # NotRead
    /\ sessions' = {id \in sessions : ~Expired(id)}
    /\ reapNow' = NotRead
    /\ UNCHANGED <<clock, session, pc, req, sess, status, history>>

---------------------------------------------------------------------------

Resolve(h) == Create(h) \/ Lookup(h) \/ LookupRefused(h) \/ CheckVersion(h)

\* The handlers among themselves, at one moment; HttpServer runs them beside
\* the reaper as time passes, and until the process ends.
Next ==
    \E h \in Handlers :
        \/ \E r \in Requests : Receive(h, r) \/ ReceiveRefused(h, r)
        \/ Resolve(h) \/ Lock(h) \/ Serve(h) \/ Delete(h)

Spec == Init /\ [][Next]_vars

---------------------------------------------------------------------------

\* The types, and what a handler's step says: which requests it can be the
\* step of, and that it holds a session that was issued, alone when serving.
TypeOK ==
    /\ clock \in 0 .. MaxClock /\ reapNow \in {NotRead} \cup 0 .. clock
    /\ \A id \in Ids : Issued(id) =>
          /\ session[id].principal \in Principals
          /\ session[id].lastSeen \in 0 .. clock
          /\ session[id].lifecycle.version \in {NoVersion, Supported}
    /\ \A id \in sessions : Issued(id)
    /\ \A h \in Handlers :
          /\ pc[h] \in {"idle", "resolve", "version", "lock", "serve", "delete"}
          /\ pc[h] \in {"version", "lock", "serve"} => Issued(sess[h])
          /\ pc[h] = "delete" => req[h].verb = "DELETE"
          /\ pc[h] = "serve" => \A g \in Handlers \ {h} :
                                    pc[g] = "serve" => sess[g] # sess[h]

\* A tool runs with the identity of its caller, in a session that this very
\* caller has opened with both messages of the handshake, in either order: no
\* interleaving of requests of several identities on several sessions lets one
\* use the session of another, inherit another's handshake, or put one together
\* from messages to two sessions (resolveSession, Lifecycle.Ready; session.go:
\* a waiter's session must not inherit an administrator's handshake).
ToolsRunAsCaller ==
    \A t \in ran :
        /\ t.by = t.as
        /\ \A m \in Opening : [by |-> t.by, method |-> m, on |-> t.on] \in heard

\* A session that has ended stays so: a request that comes in after its end,
\* by DELETE or by the reaper, is not served in it.
EndedStaysEnded ==
    \A h \in Handlers :
        pc[h] \in {"version", "lock", "serve"} => sess[h] \notin gone[h]

\* A request whose session is listed when it notes the time still has it when
\* it answers, unless a DELETE ended it: the reaper cannot take it
\* away while it is used, though it looks at lastSeen without the lock.
ServedSessionsSurvive ==
    \A h \in Handlers :
        pc[h] = "serve" /\ found[h] => sess[h] \in sessions \cup deleted
===========================================================================
