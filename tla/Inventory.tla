----------------------------- MODULE Inventory -----------------------------
(***************************************************************************)
(* What a Repository promises to the callers of ApplyMovement: one stock   *)
(* and one append-only ledger of movements, changed together and in one    *)
(* step however many callers there are, each idempotency key at most once. *)
(* A caller learns the movement recorded under its key, a refusal that the *)
(* stock of that moment justifies, or nothing.                             *)
(***************************************************************************)
EXTENDS Movements

CONSTANTS
    Calls,       \* the callers of ApplyMovement
    NoRequest    \* what request[c] is before the first call of c

VARIABLES
    stock,       \* quantity of each ingredient
    ledger,      \* the movements, oldest first
    request,     \* request[c]: what c asked for last
    reply        \* reply[c]: what c knows of it

vars == <<stock, ledger, request, reply>>

Refusals == {"insufficient", "unknown ingredient", "invalid operation"}
Outcomes == Refusals \cup {"none", "pending", "recorded", "replayed", "failed", "lost"}

Reply(outcome, place) == [outcome |-> outcome, place |-> place]

Pending(c) == reply[c].outcome = "pending"

Init ==
    /\ stock = OpeningStock
    /\ ledger = << >>
    /\ request = [c \in Calls |-> NoRequest]
    /\ reply = [c \in Calls |-> Reply("none", 0)]

Invoke(c, r) ==
    /\ ~Pending(c)
    /\ request' = [request EXCEPT ![c] = r]
    /\ reply' = [reply EXCEPT ![c] = Reply("pending", 0)]
    /\ UNCHANGED <<stock, ledger>>

\* What the adjustment r would leave, on unbounded integers.
Outcome(r) == Exact(r.operation, stock[r.ingredient], r.quantity)

\* The adjustment takes effect: the only step that changes stock or ledger.
Record(c) ==
    LET r == request[c] IN
    /\ Pending(c)
    /\ r.ingredient \in Ingredients /\ r.operation \in Operations
    /\ ~KeyRecorded(ledger, r.key)
    /\ Outcome(r) \in Quantity
    /\ ledger' = Append(ledger, MovementOf(r, stock[r.ingredient]))
    /\ stock' = [stock EXCEPT ![r.ingredient] = Outcome(r)]
    /\ UNCHANGED <<request, reply>>

Answer(c, outcome, place) ==
    /\ reply' = [reply EXCEPT ![c] = Reply(outcome, place)]
    /\ UNCHANGED <<stock, ledger, request>>

\* "recorded" shows the movement of the request itself; "replayed" shows
\* whatever movement was recorded under its key.
Confirm(c) ==
    /\ Pending(c)
    /\ \E n \in 1 .. Len(ledger) :
          /\ ledger[n].key = request[c].key
          /\ \/ /\ ledger[n] = MovementOf(request[c], ledger[n].previous)
                /\ Answer(c, "recorded", n)
             \/ Answer(c, "replayed", n)

Refuse(c) ==
    LET r == request[c] IN
    /\ Pending(c)
    /\ \/ r.ingredient \notin Ingredients /\ Answer(c, "unknown ingredient", 0)
       \/ r.operation \notin Operations /\ Answer(c, "invalid operation", 0)
       \/ /\ r.ingredient \in Ingredients /\ r.operation \in Operations
          /\ Outcome(r) \notin Quantity
          /\ Answer(c, "insufficient", 0)

\* An error.  The caller cannot tell whether its movement was recorded, and
\* may ask again with the same key; nor can the callers of a server that
\* died, all at once.
Fail(c) == Pending(c) /\ Answer(c, "failed", 0)

Lose(S) ==
    /\ \A c \in S : Pending(c)
    /\ reply' = [c \in Calls |-> IF c \in S THEN Reply("lost", 0) ELSE reply[c]]
    /\ UNCHANGED <<stock, ledger, request>>

Next ==
    \/ \E c \in Calls :
          \/ \E r \in Requests : Invoke(c, r)
          \/ Record(c)
          \/ Confirm(c)
          \/ Refuse(c)
          \/ Fail(c)
    \/ \E S \in SUBSET Calls : Lose(S)

Spec == Init /\ [][Next]_vars

---------------------------------------------------------------------------

\* The types, and that a caller that waits has asked for an adjustment.
TypeOK ==
    /\ stock \in [Ingredients -> Quantity]
    /\ ledger \in Seq(Movement)
    /\ request \in [Calls -> Requests \cup {NoRequest}]
    /\ reply \in [Calls -> [outcome : Outcomes, place : Nat]]
    /\ \A c \in Calls : Pending(c) => request[c] \in Requests

\* No idempotency key has two movements: a retry cannot take stock twice.
KeysUnique ==
    \A m, n \in 1 .. Len(ledger) : ledger[m].key = ledger[n].key => m = n

\* The stock is what the audit trail says it is: for every ingredient, what
\* its last movement left, or the opening stock.
StockMatchesLedger ==
    \A i \in Ingredients : IsBalance(ledger, i, Len(ledger), stock[i])

\* The audit trail has no gap: every movement starts from the quantity the
\* movement before it on the same ingredient left.
AuditChain ==
    \A n \in 1 .. Len(ledger) :
        IsBalance(ledger, ledger[n].ingredient, n - 1, ledger[n].previous)

\* Every movement is of an ingredient of the catalogue and its arithmetic is
\* exact: it left what its operation means, without wrapping around, and that
\* is not negative.
LedgerExact ==
    \A n \in 1 .. Len(ledger) :
        /\ ledger[n].ingredient \in Ingredients
        /\ ledger[n].resulting \in Quantity
        /\ ledger[n].resulting =
              Exact(ledger[n].operation, ledger[n].previous, ledger[n].quantity)
===========================================================================
