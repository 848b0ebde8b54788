-------------------------- MODULE MemoryRepository --------------------------
(***************************************************************************)
(* The repository of the tests (internal/storage/memory.go): maps behind   *)
(* one mutex, held from the first line of a method to its return.  A       *)
(* method is a step; what an adjustment found or made is told to its       *)
(* caller after the mutex is released, when others may have gone on.       *)
(***************************************************************************)
EXTENDS Movements

CONSTANTS
    Calls,       \* the callers of ApplyMovement
    NoRequest    \* what request[c] is before the first call of c

VARIABLES
    inventory,        \* quantity of each ingredient
    movementsByKey,   \* the movements, each [id, movement], by their keys
    movementSeq,
    request,          \* request[c]: what c asked for last
    reply,            \* reply[c]: what c knows of it
    made              \* made[c]: id of the movement c has made and not shown, or 0

vars == <<inventory, movementsByKey, movementSeq, request, reply, made>>

Reply(outcome, id) == [outcome |-> outcome, place |-> id]

Waiting(c) == reply[c].outcome = "pending" /\ made[c] = 0

Recorded == DOMAIN movementsByKey

\* NewInMemoryRepository and Seed.
Init ==
    /\ inventory = OpeningStock
    /\ movementsByKey = [k \in {} |-> 0]
    /\ movementSeq = 0
    /\ request = [c \in Calls |-> NoRequest]
    /\ reply = [c \in Calls |-> Reply("none", 0)]
    /\ made = [c \in Calls |-> 0]

Invoke(c, r) ==
    /\ reply[c].outcome # "pending"
    /\ request' = [request EXCEPT ![c] = r]
    /\ reply' = [reply EXCEPT ![c] = Reply("pending", 0)]
    /\ UNCHANGED <<inventory, movementsByKey, movementSeq, made>>

Answer(c, outcome, id) ==
    /\ reply' = [reply EXCEPT ![c] = Reply(outcome, id)]
    /\ made' = [made EXCEPT ![c] = 0]
    /\ UNCHANGED <<inventory, movementsByKey, movementSeq, request>>

Replay(c) ==
    /\ Waiting(c) /\ request[c].key \in Recorded
    /\ Answer(c, "replayed", movementsByKey[request[c].key].id)

Checked(c) == Waiting(c) /\ request[c].key \notin Recorded

ResultingFor(r) == Resulting(r.operation, inventory[r.ingredient], r.quantity)

Reject(c) ==
    LET r == request[c] IN
    /\ Checked(c)
    /\ \/ r.ingredient \notin Ingredients /\ Answer(c, "unknown ingredient", 0)
       \/ /\ r.ingredient \in Ingredients /\ r.operation \notin Operations
          /\ Answer(c, "invalid operation", 0)
       \/ /\ r.ingredient \in Ingredients /\ r.operation \in Operations
          /\ ResultingFor(r) < 0
          /\ Answer(c, "insufficient", 0)

\* A user without a name stays without one.
MovementMade(r) ==
    [MovementOf(r, inventory[r.ingredient]) EXCEPT !.performedBy = r.performedBy]

\* The three writes, under the mutex.
Store(c) ==
    LET r == request[c] IN
    /\ Checked(c)
    /\ r.ingredient \in Ingredients /\ r.operation \in Operations
    /\ ResultingFor(r) >= 0
    /\ movementSeq' = movementSeq + 1
    /\ inventory' = [inventory EXCEPT ![r.ingredient] = ResultingFor(r)]
    /\ movementsByKey' =
          [k \in Recorded \cup {r.key} |->
              IF k = r.key THEN [id |-> movementSeq + 1, movement |-> MovementMade(r)]
              ELSE movementsByKey[k]]
    /\ made' = [made EXCEPT ![c] = movementSeq + 1]
    /\ UNCHANGED <<request, reply>>

Return(c) == made[c] # 0 /\ Answer(c, "recorded", made[c])

Next ==
    \E c \in Calls :
        \/ \E r \in Requests : Invoke(c, r)
        \/ Replay(c) \/ Reject(c) \/ Store(c) \/ Return(c)

Spec == Init /\ [][Next]_vars

---------------------------------------------------------------------------

\* The movements of a map, by their numbers.
LedgerOf(byKey, seq) ==
    [n \in 1 .. seq |-> byKey[CHOOSE k \in DOMAIN byKey : byKey[k].id = n].movement]

Ledger == LedgerOf(movementsByKey, movementSeq)

\* "The behavioral tests run against both implementations": the maps are one
\* of the implementations of the contract that SqliteRepository implements,
\* as long as every request names its user, as those of the tests do.
Contract == INSTANCE Inventory WITH stock <- inventory, ledger <- Ledger

NamedRequests == \A r \in Requests : r.performedBy # ""

ImplementsInventory == Contract!Spec
===========================================================================
