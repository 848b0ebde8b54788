--------------------------- MODULE MCHttpSessions ---------------------------
(* Small instances of HttpSessions. *)
EXTENDS HttpSessions, TLC

CONSTANTS h1, h2, s1, s2, ana, luis

Symmetry == Permutations({h1, h2})

Message(method) ==
    [method |-> method,
     version |-> IF method = "initialize" THEN Supported ELSE NoVersion]

Request(verb, p, wellFormed, message, id, version) ==
    [verb |-> verb, principal |-> p, wellFormed |-> wellFormed,
     message |-> message, id |-> id, version |-> version]

Post(p, method, id) == Request("POST", p, TRUE, Message(method), id, NoVersion)
End(p, id) == Request("DELETE", p, TRUE, Message("ping"), id, NoVersion)

Handshake == {"initialize", "notifications/initialized", "tools/call"}

\* Two identities go through the handshake on each other's sessions.
TwoClients ==
    {Post(p, "initialize", NoId) : p \in Principals}
        \cup {Post(p, m, id) : p \in Principals, m \in Handshake, id \in Ids}
        \cup {End(ana, id) : id \in Ids}

\* Everything else one identity may send.
OddRequests ==
    {Post(Nobody, "initialize", NoId), Post(ana, "tools/call", NoId),
     End(Nobody, s1), End(ana, NoId),
     Request("POST", ana, FALSE, Message("ping"), s1, NoVersion),
     Request("POST", ana, TRUE, [method |-> "initialize", version |-> NoVersion],
             NoId, NoVersion),
     Request("POST", ana, TRUE, [method |-> "initialize", version |-> Unsupported],
             s1, NoVersion)}
        \cup {Request("POST", ana, TRUE, Message("ping"), s1, v) :
                 v \in {Supported, Unsupported}}
        \cup {Post(ana, m, s1) : m \in {"response", "notifications/other"}}

AllClients == TwoClients \cup OddRequests
===========================================================================
