-------------------------- MODULE SqliteRepository --------------------------
(***************************************************************************)
(* SQLiteRepository (internal/storage/sqlite.go): server processes that    *)
(* share one database file, each with a connection pool of one, and the    *)
(* calls of ApplyMovement they serve, one SQL statement at a time.  SQLite *)
(* itself is external: BEGIN IMMEDIATE takes the one write lock of the     *)
(* file or gives up after busy_timeout, the writer works on a view of its  *)
(* own, COMMIT makes the view durable and anything else discards it.       *)
(*                                                                         *)
(* The step a call is at (pc) says what it holds: its pool's connection in *)
(* ConnSteps, and the write lock in TxSteps.                               *)
(***************************************************************************)
EXTENDS Movements

CONSTANTS
    Procs,        \* server processes opened on the file
    Calls,        \* the calls of ApplyMovement they serve
    ProcOf,       \* the process that serves each call
    NoRequest,
    Faults        \* what may go wrong in a run

ASSUME ProcessAssumption == ProcOf \in [Calls -> Procs]
ASSUME FaultsAssumption == Faults \subseteq {"begin", "lookup", "statement", "commit", "crash"}

VARIABLES
    catalogue,    \* committed rows of ingredients
    inventory,    \* committed rows of inventory
    movements,    \* committed rows of inventory_movements, by seq
    txInventory,  \* inventory as the writer sees it
    txMovements,  \* inventory_movements as the writer sees it
    proc,         \* how far each process has come in openRepository
    pc,           \* the statement each call is about to run
    request,      \* the argument of each call
    previous,     \* local variable of ApplyMovement
    seq,          \* local variable of ApplyMovement
    reply         \* what the caller knows

database == <<catalogue, inventory, movements>>
view == <<txInventory, txMovements>>
locals == <<previous, seq>>
vars == <<database, view, proc, pc, request, locals, reply>>

NoRow == -1

TxSteps == {"lookup", "validate", "insert", "upsert", "commit"}
ConnSteps == TxSteps \cup {"begin"}
Steps == ConnSteps \cup {"idle", "conn", "committed"}

\* The state of Inventory this one stands for.  An ingredient without a row
\* has its opening stock: Seed gives it one before the first call.
Stock(rows) ==
    [i \in Ingredients |-> IF rows[i] = NoRow THEN OpeningStock[i] ELSE rows[i]]

Abstract == INSTANCE Inventory WITH stock <- Stock(inventory), ledger <- movements

Reply(outcome, place) == [outcome |-> outcome, place |-> place]

ConnFree(p) == \A c \in Calls : ProcOf[c] = p => pc[c] \notin ConnSteps

LockFree ==
    /\ \A c \in Calls : pc[c] \notin TxSteps
    /\ \A p \in Procs : proc[p] # "seeding"

Init ==
    /\ catalogue = {}
    /\ inventory = [i \in Ingredients |-> NoRow] /\ txInventory = inventory
    /\ movements = << >> /\ txMovements = movements
    /\ proc = [p \in Procs |-> "down"]
    /\ pc = [c \in Calls |-> "idle"]
    /\ request = [c \in Calls |-> NoRequest]
    /\ previous = [c \in Calls |-> 0]
    /\ seq = [c \in Calls |-> 0]
    /\ reply = [c \in Calls |-> Reply("none", 0)]

---------------------------------------------------------------------------
(* Opening the repository: OpenSQLite, IsEmpty, Seed.  A process whose     *)
(* opening fails exits, and may be started again.                          *)

startup == <<movements, pc, request, locals, reply>>

Open(p) ==
    /\ proc[p] = "down"
    /\ proc' = [proc EXCEPT ![p] = "opened"]
    /\ UNCHANGED <<database, view, startup>>

Inspect(p) ==
    /\ proc[p] = "opened"
    /\ proc' = [proc EXCEPT ![p] = IF catalogue = {} THEN "empty" ELSE "up"]
    /\ UNCHANGED <<database, view, startup>>

SeedBegin(p) ==
    /\ proc[p] = "empty" /\ LockFree
    /\ proc' = [proc EXCEPT ![p] = "seeding"]
    /\ UNCHANGED <<database, view, startup>>

\* Mutant: a seed that writes its quantities over those it finds.
SeedOverwrites(rows) == OpeningStock

\* INSERT ... ON CONFLICT(ingredient_id) DO NOTHING
SeededInventory(rows) == Stock(rows)

SeedCommit(p) ==
    /\ proc[p] = "seeding"
    /\ catalogue' = Ingredients
    /\ inventory' = SeededInventory(inventory) /\ txInventory' = inventory'
    /\ proc' = [proc EXCEPT ![p] = "up"]
    /\ UNCHANGED <<txMovements, startup>>

SeedFails(p) ==
    /\ \/ proc[p] = "empty" /\ (~LockFree \/ "begin" \in Faults)
       \/ proc[p] = "seeding" /\ "statement" \in Faults
    /\ proc' = [proc EXCEPT ![p] = "down"]
    /\ UNCHANGED <<database, view, startup>>

---------------------------------------------------------------------------
(* ApplyMovement *)

Goto(c, step) == pc' = [pc EXCEPT ![c] = step]

\* The deferred Rollback: discards the writer's view.
Rollback == txInventory' = inventory /\ txMovements' = movements

Return(c, outcome, place) ==
    /\ reply' = [reply EXCEPT ![c] = Reply(outcome, place)]
    /\ Goto(c, "idle")
    /\ previous' = [previous EXCEPT ![c] = 0]
    /\ seq' = [seq EXCEPT ![c] = 0]
    /\ IF pc[c] \in TxSteps THEN Rollback ELSE UNCHANGED view
    /\ UNCHANGED <<database, proc, request>>

Invoke(c, r) ==
    /\ pc[c] = "idle" /\ proc[ProcOf[c]] = "up"
    /\ request' = [request EXCEPT ![c] = r]
    /\ reply' = [reply EXCEPT ![c] = Reply("pending", 0)]
    /\ Goto(c, "conn")
    /\ UNCHANGED <<database, view, proc, locals>>

\* SetMaxOpenConns(1): a call waits for the connection of its process.
AcquireConn(c) ==
    /\ pc[c] = "conn" /\ ConnFree(ProcOf[c])
    /\ Goto(c, "begin")
    /\ UNCHANGED <<database, view, proc, request, locals, reply>>

\* Mutant: a transaction that takes no lock before its first write.
BeginDeferred(c) ==
    /\ pc[c] = "begin"
    /\ Goto(c, "lookup")
    /\ UNCHANGED <<database, view, proc, request, locals, reply>>

\* _txlock=immediate: the write lock is taken before anything is read.
BeginImmediate(c) ==
    /\ pc[c] = "begin" /\ LockFree
    /\ Goto(c, "lookup")
    /\ UNCHANGED <<database, view, proc, request, locals, reply>>

\* Mutant: no busy_timeout, the call waits for the lock as long as it takes.
BeginWaits(c) ==
    /\ pc[c] = "begin" /\ "begin" \in Faults
    /\ Return(c, "failed", 0)

\* busy_timeout ran out, or the file could not be read.
BeginFails(c) ==
    /\ pc[c] = "begin" /\ (~LockFree \/ "begin" \in Faults)
    /\ Return(c, "failed", 0)

KeyFound(c) == KeyRecorded(txMovements, request[c].key)

\* Mutant: the newest movement instead of the one under the key.
ReplayNewest(c) ==
    /\ pc[c] = "lookup" /\ KeyFound(c)
    /\ Return(c, "replayed", Len(txMovements))

\* The movement of a repeated key is returned as it was recorded.
Replay(c) ==
    /\ pc[c] = "lookup" /\ KeyFound(c)
    /\ Return(c, "replayed", PlaceOf(txMovements, request[c].key))

\* Mutant: the checks of the adjustment come before the lookup of its key.
ChecksFirst(c) ==
    /\ pc[c] = "lookup"
    /\ Goto(c, "validate")
    /\ UNCHANGED <<database, view, proc, request, locals, reply>>

\* scanMovement takes every error for "not found".
LookupMisses(c) ==
    /\ pc[c] = "lookup" /\ (~KeyFound(c) \/ "lookup" \in Faults)
    /\ Goto(c, "validate")
    /\ UNCHANGED <<database, view, proc, request, locals, reply>>

\* sql.ErrNoRows leaves previous at 0.
PreviousOf(i) == IF txInventory[i] = NoRow THEN 0 ELSE txInventory[i]

ResultingFor(r) == Resulting(r.operation, PreviousOf(r.ingredient), r.quantity)

RejectUnknown(c) ==
    /\ pc[c] = "validate" /\ request[c].ingredient \notin catalogue
    /\ Return(c, "unknown ingredient", 0)

RejectOperation(c) ==
    /\ pc[c] = "validate" /\ request[c].ingredient \in catalogue
    /\ request[c].operation \notin Operations
    /\ Return(c, "invalid operation", 0)

RejectInsufficient(c) ==
    /\ pc[c] = "validate" /\ request[c].ingredient \in catalogue
    /\ request[c].operation \in Operations
    /\ ResultingFor(request[c]) < 0
    /\ Return(c, "insufficient", 0)

\* Mutant: a result below zero is let through.
ValidateNothing(c) ==
    /\ pc[c] = "validate" /\ request[c].ingredient \in catalogue
    /\ request[c].operation \in Operations
    /\ previous' = [previous EXCEPT ![c] = PreviousOf(request[c].ingredient)]
    /\ Goto(c, "insert")
    /\ UNCHANGED <<database, view, proc, request, seq, reply>>

Validate(c) ==
    /\ pc[c] = "validate" /\ request[c].ingredient \in catalogue
    /\ request[c].operation \in Operations
    /\ ResultingFor(request[c]) >= 0
    /\ previous' = [previous EXCEPT ![c] = PreviousOf(request[c].ingredient)]
    /\ Goto(c, "insert")
    /\ UNCHANGED <<database, view, proc, request, seq, reply>>

\* Mutant: the table without its UNIQUE constraint.
Unconstrained(c) == TRUE

\* UNIQUE(idempotency_key).  The table's other constraints repeat what
\* Validate has checked of the same values.
Unique(c) == ~KeyFound(c)

Insert(c) ==
    /\ pc[c] = "insert" /\ Unique(c)
    /\ txMovements' = Append(txMovements, MovementOf(request[c], previous[c]))
    /\ seq' = [seq EXCEPT ![c] = Len(txMovements) + 1]
    /\ Goto(c, "upsert")
    /\ UNCHANGED <<database, txInventory, proc, request, previous, reply>>

InsertViolatesUnique(c) ==
    /\ pc[c] = "insert" /\ ~Unique(c)
    /\ Return(c, "failed", 0)

\* INSERT ... ON CONFLICT(ingredient_id) DO UPDATE
Upserted(rows, r, before) ==
    [rows EXCEPT ![r.ingredient] = Resulting(r.operation, before, r.quantity)]

Upsert(c) ==
    /\ pc[c] = "upsert"
    /\ txInventory' = Upserted(txInventory, request[c], previous[c])
    /\ Goto(c, "commit")
    /\ UNCHANGED <<database, txMovements, proc, request, locals, reply>>

Commit(c) ==
    /\ pc[c] = "commit"
    /\ inventory' = txInventory /\ movements' = txMovements
    /\ Goto(c, "committed")
    /\ UNCHANGED <<catalogue, view, proc, request, locals, reply>>

StatementFails(c) ==
    /\ "statement" \in Faults /\ pc[c] \in TxSteps \ {"lookup"}
    /\ Return(c, "failed", 0)

\* COMMIT made the movement durable and reports an error all the same: the
\* caller sees the failure of what has happened.
CommitReportsError(c) ==
    /\ "commit" \in Faults /\ pc[c] = "committed"
    /\ Return(c, "failed", 0)

\* Mutant: the answer leaves before COMMIT.
AcknowledgeEarly(c) ==
    /\ pc[c] = "commit"
    /\ Return(c, "recorded", seq[c])

\* The movement is durable; now the caller learns it.
Acknowledge(c) ==
    /\ pc[c] = "committed"
    /\ Return(c, "recorded", seq[c])

---------------------------------------------------------------------------

Serves(p, c) == ProcOf[c] = p /\ pc[c] # "idle"

InTx(p) == proc[p] = "seeding" \/ \E c \in Calls : ProcOf[c] = p /\ pc[c] \in TxSteps

\* The process dies: its calls are never answered, its write lock is gone,
\* and SQLite recovers the committed rows.
Crash(p) ==
    /\ "crash" \in Faults /\ proc[p] # "down"
    /\ proc' = [proc EXCEPT ![p] = "down"]
    /\ pc' = [c \in Calls |-> IF Serves(p, c) THEN "idle" ELSE pc[c]]
    /\ reply' = [c \in Calls |-> IF Serves(p, c) THEN Reply("lost", 0) ELSE reply[c]]
    /\ previous' = [c \in Calls |-> IF Serves(p, c) THEN 0 ELSE previous[c]]
    /\ seq' = [c \in Calls |-> IF Serves(p, c) THEN 0 ELSE seq[c]]
    /\ IF InTx(p) THEN Rollback ELSE UNCHANGED view
    /\ UNCHANGED <<database, request>>

StartUp(p) ==
    \/ Open(p) \/ Inspect(p) \/ SeedBegin(p) \/ SeedCommit(p) \/ SeedFails(p)

Transaction(c) ==
    \/ BeginImmediate(c) \/ BeginFails(c)
    \/ Replay(c) \/ LookupMisses(c)
    \/ RejectUnknown(c) \/ RejectOperation(c) \/ RejectInsufficient(c)
    \/ Validate(c) \/ Insert(c) \/ InsertViolatesUnique(c) \/ Upsert(c)
    \/ Commit(c) \/ StatementFails(c) \/ CommitReportsError(c) \/ Acknowledge(c)

Next ==
    \/ \E p \in Procs : StartUp(p) \/ Crash(p)
    \/ \E c \in Calls :
          \/ \E r \in Requests : Invoke(c, r)
          \/ AcquireConn(c)
          \/ Transaction(c)

Spec == Init /\ [][Next]_vars

(***************************************************************************)
(* A goroutine that can run a statement runs it, and a seeding process     *)
(* goes on.  database/sql hands a freed connection to one of the waiters   *)
(* at random, so each of them gets it in the end if it is freed again and  *)
(* again: strong fairness, of AcquireConn only.                            *)
(***************************************************************************)
FairSpec ==
    /\ Spec
    /\ \A c \in Calls : WF_vars(Transaction(c)) /\ SF_vars(AcquireConn(c))
    /\ \A p \in Procs : WF_vars(SeedBegin(p) \/ SeedCommit(p) \/ SeedFails(p))

---------------------------------------------------------------------------

\* The types; above all, that no committed or pending row holds a quantity
\* below zero.
TypeOK ==
    /\ catalogue \in {{}, Ingredients}
    /\ inventory \in [Ingredients -> Quantity \cup {NoRow}]
    /\ txInventory \in [Ingredients -> Quantity \cup {NoRow}]
    /\ movements \in Seq(Movement)
    /\ txMovements \in Seq(Movement)
    /\ proc \in [Procs -> {"down", "opened", "empty", "seeding", "up"}]
    /\ pc \in [Calls -> Steps]
    /\ request \in [Calls -> Requests \cup {NoRequest}]
    /\ previous \in [Calls -> Quantity]
    /\ seq \in [Calls -> Nat]
    /\ reply \in [Calls -> [outcome : Abstract!Outcomes, place : Nat]]

\* ApplyMovement does what a Repository promises, whatever processes,
\* failures and crashes come between its statements.
ImplementsInventory == Abstract!Spec

\* The committed stock is what the committed audit trail says it is.
StockMatchesLedger == Abstract!StockMatchesLedger

\* No key was ever recorded twice.
KeysUnique == Abstract!KeysUnique

\* Every movement starts where the last one on the ingredient ended.
AuditChain == Abstract!AuditChain

\* No movement wrapped around.
LedgerExact == Abstract!LedgerExact

\* A refusal is never the answer to a request whose key is recorded: the
\* client that retries learns the movement it made, not that there is too
\* little left for another (ApplyMovement looks the key up first).
RepeatedKeyNeverRefused ==
    [][\A c \in Calls :
          /\ reply'[c] # reply[c]
          /\ reply'[c].outcome \in Abstract!Refusals
          => ~KeyRecorded(movements, request[c].key)]_vars

\* A movement is never changed or removed, and a caller that was shown one
\* was shown the one on file under its key, whatever crashes since then.
AcknowledgedIsOnFile ==
    \A c \in Calls :
        reply[c].outcome \in {"recorded", "replayed"} =>
            /\ reply[c].place \in 1 .. Len(movements)
            /\ movements[reply[c].place].key = request[c].key

---------------------------------------------------------------------------
(* Why: what is known at each step of ApplyMovement.                       *)

\* A call is in progress exactly while its caller waits, in a process that
\* has found or made the catalogue.
CallsServed ==
    \A c \in Calls :
        /\ pc[c] = "idle" <=> reply[c].outcome # "pending"
        /\ pc[c] # "idle" => proc[ProcOf[c]] = "up" /\ request[c] \in Requests

Seeded ==
    /\ \A p \in Procs : proc[p] = "up" => catalogue = Ingredients
    /\ catalogue = Ingredients => \A i \in Ingredients : inventory[i] # NoRow

\* One transaction at a time on the whole file.
OneWriter ==
    /\ \A c, d \in Calls : pc[c] \in TxSteps /\ pc[d] \in TxSteps => c = d
    /\ \A p, q \in Procs : proc[p] = "seeding" /\ proc[q] = "seeding" => p = q
    /\ \A c \in Calls, p \in Procs : ~(pc[c] \in TxSteps /\ proc[p] = "seeding")

Writing == \E c \in Calls : pc[c] \in {"upsert", "commit"}

\* Nobody writes but through a transaction: until its INSERT the view of the
\* writer is what is committed.
ViewIsCommitted ==
    ~Writing => txInventory = inventory /\ txMovements = movements

\* From Validate on, what c read of the stock is still so.
PreviousIsCurrent(c) ==
    LET r == request[c] IN
    /\ r.ingredient \in Ingredients /\ r.operation \in Operations
    /\ previous[c] = inventory[r.ingredient]
    /\ Resulting(r.operation, previous[c], r.quantity) >= 0

\* From INSERT on, the view is the ledger with one movement more.
MovementInserted(c) ==
    /\ ~KeyRecorded(movements, request[c].key)
    /\ txMovements = Append(movements, MovementOf(request[c], previous[c]))
    /\ seq[c] = Len(movements) + 1

InventoryInView(c) ==
    txInventory = IF pc[c] = "upsert" THEN inventory
                  ELSE Upserted(inventory, request[c], previous[c])

\* Once committed, the movement c is about to be shown is on file.
OwnMovementOnFile(c) ==
    /\ seq[c] \in 1 .. Len(movements)
    /\ movements[seq[c]] = MovementOf(request[c], movements[seq[c]].previous)

StepsKnow ==
    \A c \in Calls :
        /\ pc[c] \in {"insert", "upsert", "commit"} => PreviousIsCurrent(c)
        /\ pc[c] \in {"upsert", "commit"} => MovementInserted(c) /\ InventoryInView(c)
        /\ pc[c] = "committed" => OwnMovementOnFile(c)

IInv ==
    /\ TypeOK /\ CallsServed /\ Seeded /\ OneWriter
    /\ ViewIsCommitted /\ StepsKnow /\ AcknowledgedIsOnFile

---------------------------------------------------------------------------

\* Every call of ApplyMovement comes to an end, even when it has to wait for
\* the connection of its process and for the lock of another.
EveryCallEnds == \A c \in Calls : pc[c] = "conn" ~> pc[c] = "idle"
===========================================================================
