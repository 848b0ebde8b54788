----------------------------- MODULE Lifecycle -----------------------------
(***************************************************************************)
(* The handshake of one MCP session (internal/mcp) as what each message    *)
(* does to it: a transport applies Dispatch to one message after another.  *)
(***************************************************************************)

CONSTANTS Supported, Unsupported   \* protocol versions a client may ask for

NoVersion == "none yet"

ASSUME SupportedAssumption == Supported # NoVersion

Fresh == [initialized |-> FALSE, confirmed |-> FALSE, version |-> NoVersion]

\* A message is its method and, for initialize, the version it asks for.
Messages ==
    [method : {"initialize"}, version : {Supported, Unsupported, NoVersion}]
        \cup [method : {"notifications/initialized", "notifications/other", "ping",
                        "tools/list", "tools/call", "unknown", "response"},
              version : {NoVersion}]

\* A message without an id is a notification; nobody listens to the others.
IsNotification(m) == m.method \in {"notifications/initialized", "notifications/other"}
IsRequest(m) == ~IsNotification(m) /\ m.method # "response"

\* The version is negotiated, never refused; a missing one is an error.
Negotiated(version) == Supported

Ready(l) == l.initialized /\ l.confirmed

Accepts(l, m) ==
    \/ IsNotification(m) \/ m.method = "ping"
    \/ m.method = "initialize" /\ m.version # NoVersion
    \/ m.method \in {"tools/list", "tools/call"} /\ Ready(l)

\* The lifecycle after message m: only an initialize with a version and the
\* notification change it, in whatever order and however often they come.
Dispatch(l, m) ==
    IF m.method = "initialize" /\ m.version # NoVersion
    THEN [l EXCEPT !.initialized = TRUE, !.version = Negotiated(m.version)]
    ELSE IF m.method = "notifications/initialized" THEN [l EXCEPT !.confirmed = TRUE]
    ELSE l
===========================================================================
