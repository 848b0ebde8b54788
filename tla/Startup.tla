------------------------------ MODULE Startup ------------------------------
(***************************************************************************)
(* The program (cmd/server/main.go): what it makes of its flags and its    *)
(* environment, whether it starts at all, and in whose name it then serves *)
(* over HTTP or over stdio.  The file of the database is SqliteRepository, *)
(* the sessions of HTTP and the end of its server are HttpServer; here an  *)
(* HTTP request is only let in, as somebody, or turned away.               *)
(***************************************************************************)
EXTENDS Stdio, Credentials

CONSTANTS
    Configurations,   \* flags and environment
    Arrivals          \* what an HTTP request says of its sender: [origin, bearer]

VARIABLES
    config,
    phase,            \* "starting"; "no repository" or "refused"; "http" or "stdio"
    outcome           \* of the last HTTP request: [request, status, as]

vars == <<stdio, config, phase, outcome>>

NotGiven == "not given"      \* an empty flag or variable; the host of ":8080" is Blank
NoBearer == "no bearer"      \* no header "Authorization: Bearer ..."

\* The absence of a bearer is none of the tokens.
ASSUME ConfigurationsAssumption ==
    \A c \in Configurations :
        /\ c.tokens \in Seq(Seq(STRING))
        /\ \A n \in Chunks(c.tokens) : c.tokens[n][1] # NoBearer

Nobody == Principal(Blank, Blank)
NoRequest == [request |-> [origin |-> Blank, bearer |-> NoBearer], status |-> 0, as |-> Nobody]

Init ==
    /\ InitStdio
    /\ config \in Configurations
    /\ phase = "starting" /\ outcome = NoRequest

---------------------------------------------------------------------------
(* main and runHTTP.                                                       *)

\* A flag goes before its variable of the environment.
Host == IF config.hostFlag # NotGiven THEN config.hostFlag ELSE config.hostEnv
Origins == IF config.originsFlag # << >> THEN config.originsFlag ELSE config.originsEnv

Fallback == identityFromEnv(config.role, config.user)

\* Reachable from the network, for everybody, and nobody insisted.
Exposed == ~IsLoopback(Host) /\ Empty(config.tokens) /\ ~config.insecure

Enter(next_phase) ==
    /\ phase = "starting" /\ phase' = next_phase
    /\ UNCHANGED <<stdio, config, outcome>>

\* openRepository fails.
RepositoryFails == Enter("no repository")

StartStdio == Host = NotGiven /\ Enter("stdio")

RefuseHttp ==
    /\ Host # NotGiven
    /\ TokensMalformed(config.tokens) \/ OriginsMalformed(Origins) \/ Exposed
    /\ Enter("refused")

StartHttp ==
    /\ Host # NotGiven
    /\ ~TokensMalformed(config.tokens) /\ ~OriginsMalformed(Origins) /\ ~Exposed
    /\ Enter("http")

---------------------------------------------------------------------------
(* One HTTP request: its origin, then its credentials.                     *)

Answered(request, status, as) ==
    /\ phase = "http"
    /\ outcome' = [request |-> request, status |-> status, as |-> as]
    /\ UNCHANGED <<stdio, config, phase>>

Allowed(request) == originAllowed(NormalizeOrigins(Origins), request.origin)

RejectOrigin(request) == ~Allowed(request) /\ Answered(request, 403, Nobody)

Authenticate(request) ==
    LET entries == ParseTokens(config.tokens) IN
    /\ phase = "http" /\ Allowed(request)
    /\ IF Empty(config.tokens) THEN Answered(request, 200, Fallback)
       ELSE IF request.bearer # NoBearer /\ Matching(entries, request.bearer) # {}
       THEN Answered(request, 200, Lookup(entries, request.bearer))
       ELSE Answered(request, 401, Nobody)

---------------------------------------------------------------------------

OverStdio(step) == phase = "stdio" /\ step /\ UNCHANGED <<config, phase, outcome>>

StdioLoop == OverStdio(LoopStep)
StdioClient == OverStdio(ClientStep)
ClientReads == OverStdio(Take)

\* The process has ended.
Ended == (phase \in {"no repository", "refused"} \/ exit # "no") /\ UNCHANGED vars

Next ==
    \/ RepositoryFails \/ StartStdio \/ RefuseHttp \/ StartHttp
    \/ \E request \in Arrivals : RejectOrigin(request) \/ Authenticate(request)
    \/ StdioLoop \/ StdioClient
    \/ Ended

\* The loop is the only goroutine there is, and runs; the client reads what it
\* gets unless it goes away.  What it writes, and when, is up to the client.
Spec == Init /\ [][Next]_vars /\ WF_vars(StdioLoop) /\ WF_vars(ClientReads)

---------------------------------------------------------------------------

\* The last credential written for a bearer, read off the configuration.
IsLastEntry(n, bearer) ==
    /\ config.tokens[n] # << >> /\ config.tokens[n][1] = bearer
    /\ \A m \in n + 1 .. Len(config.tokens) :
          config.tokens[m] # << >> => config.tokens[m][1] # bearer

\* "Por HTTP el rol se deriva del token": when credentials are configured, a
\* request is let in exactly in the name of the last one of its bearer.
\* Without any, only on an address of this machine or where somebody insisted,
\* and with more rights than a waiter only where MCP_USER_ROLE names them.
AuthorityIsConfigured ==
    LET as == outcome.as
        written == {n \in DOMAIN config.tokens : config.tokens[n] # << >>}
    IN  /\ outcome.status = 200 =>
             IF written # {}
             THEN \E n \in written :
                     /\ IsLastEntry(n, outcome.request.bearer)
                     /\ as = Principal(config.tokens[n][2], config.tokens[n][3])
             ELSE /\ config.insecure \/ Host \in {"localhost"} \cup LoopbackIPs
                  /\ as.role \in {"waiter"} \cup (Roles \cap {config.role})
        /\ outcome.status = 401 =>
             written # {} /\ \A n \in written : config.tokens[n][1] # outcome.request.bearer

\* A web page gets in only if its origin is in the list, slash or not, or the
\* list names every origin; and one that is in the list is never turned away.
OriginIsConfigured ==
    LET origin == outcome.request.origin
        listed == \E n \in DOMAIN Origins : Origins[n].text \in {origin, "*"}
    IN  /\ outcome.status \in {200, 401} => origin = Blank \/ listed
        /\ outcome.status = 403 => origin # Blank /\ ~listed
===========================================================================
