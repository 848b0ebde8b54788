---------------------------- MODULE Credentials ----------------------------
(***************************************************************************)
(* Who is on the other side: the credentials of the HTTP transport         *)
(* (internal/auth/tokens.go), the identity of the environment              *)
(* (cmd/server/main.go), and the addresses and origins that decide whether *)
(* credentials are needed (internal/httpmcp/server.go).                    *)
(*                                                                         *)
(* A text that is split is the sequence of its parts; blanks around a part *)
(* and the case of a role do not count, so a part is what is left of it.   *)
(***************************************************************************)
EXTENDS Integers, Sequences

CONSTANTS
    LoopbackIPs,   \* hosts that net.ParseIP takes for a loopback address
    Urls           \* what url.Parse takes for a scheme and a host

Roles == {"waiter", "cook", "admin"}

Blank == ""

Principal(role, user) == [role |-> role, userID |-> user]

---------------------------------------------------------------------------
(* MCP_AUTH_TOKENS: token:role:user,...  A chunk is its parts.             *)

WellFormed(chunk) ==
    /\ Len(chunk) = 3
    /\ chunk[1] # Blank /\ chunk[2] \in Roles /\ chunk[3] # Blank

\* The places of the chunks that are not blank.
Chunks(raw) == {n \in DOMAIN raw : raw[n] # << >>}

TokensMalformed(raw) == \E n \in Chunks(raw) : ~WellFormed(raw[n])

\* No credential is configured.
Empty(raw) == Chunks(raw) = {}

\* The entries, in the order of the places they were written at.
ParseTokens(raw) ==
    [n \in Chunks(raw) |-> [token |-> raw[n][1], principal |-> Principal(raw[n][2], raw[n][3])]]

\* Mutant: the comparison is left out, and any token is somebody's.
MatchesAny(entries, candidate) == DOMAIN entries

Matching(entries, candidate) == {n \in DOMAIN entries : entries[n].token = candidate}

\* Lookup compares with every entry, so the last one that matches counts.
Lookup(entries, candidate) ==
    LET hits == Matching(entries, candidate) IN
    entries[CHOOSE n \in hits : \A m \in hits : m <= n].principal

---------------------------------------------------------------------------
(* The environment.                                                        *)

\* Mutant: an unknown role is taken as it comes.
RoleAsGiven(raw) == IF raw = Blank THEN "waiter" ELSE raw

RoleFromEnv(raw) == IF raw \in Roles THEN raw ELSE "waiter"

identityFromEnv(role, user) ==
    Principal(RoleFromEnv(role), IF user = Blank THEN "unspecified" ELSE user)

---------------------------------------------------------------------------
(* Addresses and origins.                                                  *)

\* Mutant: an address without a host is taken for this machine.
LoopbackOrEmpty(host) == host \in {Blank, "localhost"} \cup LoopbackIPs

IsLoopback(host) == host # Blank /\ (host = "localhost" \/ host \in LoopbackIPs)

\* An item of the list is a text, with or without a slash at its end.
Origin(text) == [text |-> text, slash |-> FALSE]

OriginsMalformed(raw) ==
    \E n \in DOMAIN raw : raw[n].text \notin Urls /\ raw[n] \notin {Origin(Blank), Origin("*")}

\* Mutant: the slash stays.
NormalizeNothing(raw) == {raw[n] : n \in DOMAIN raw} \ {Origin(Blank)}

NormalizeOrigins(raw) == {Origin(raw[n].text) : n \in DOMAIN raw} \ {Origin(Blank)}

\* No Origin, no browser.
originAllowed(allowed, origin) ==
    \/ origin = Blank
    \/ allowed \cap {Origin("*"), Origin(origin)} # {}
===========================================================================
