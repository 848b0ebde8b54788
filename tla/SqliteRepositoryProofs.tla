----------------------- MODULE SqliteRepositoryProofs -----------------------
(***************************************************************************)
(* Proofs about SqliteRepository: the inductive invariant IInv, and that   *)
(* every step of ApplyMovement is a step of Inventory or leaves what       *)
(* Inventory shows unchanged, so that everything proved of Inventory holds *)
(* of the committed rows.                                                  *)
(***************************************************************************)
EXTENDS SqliteRepository, TLAPS

---------------------------------------------------------------------------
(* The arithmetic of an adjustment is that of the contract, for which it   *)
(* is proved that a result that is not negative did not wrap around.       *)

Promise == INSTANCE InventoryProofs WITH stock <- Stock(inventory), ledger <- movements

\* The assumptions of Inventory are those of this module.
LEMMA PromiseAssumptions ==
    /\ MaxInt \in Nat \ {0}
    /\ Ingredients # {} /\ OpeningStock \in [Ingredients -> Promise!Quantity]
    /\ \A r \in Requests :
          /\ DOMAIN r = {"key", "ingredient", "operation", "quantity", "performedBy"}
          /\ r.quantity \in Promise!Int64
BY MaxIntAssumption, CatalogueAssumption, RequestsAssumption
DEF Quantity, Int64, MinInt, Promise!Quantity, Promise!Int64, Promise!MinInt

LEMMA SameArithmetic ==
    /\ Promise!Operations = Operations /\ Promise!Quantity = Quantity
    /\ Promise!Int64 = Int64
    /\ \A op, before, q :
          /\ Promise!Exact(op, before, q) = Exact(op, before, q)
          /\ Promise!Resulting(op, before, q) = Resulting(op, before, q)
BY DEF Promise!Operations, Operations, Promise!Quantity, Quantity, Promise!Int64, Int64,
       Promise!MinInt, MinInt, Promise!Exact, Exact, Promise!Resulting, Resulting,
       Promise!Wrap, Wrap

LEMMA OverflowCaught ==
    ASSUME NEW op \in Operations, NEW before \in Quantity, NEW q \in Int64,
           Resulting(op, before, q) >= 0
    PROVE  /\ Resulting(op, before, q) = Exact(op, before, q)
           /\ Resulting(op, before, q) \in Quantity
BY PromiseAssumptions, SameArithmetic, Promise!OverflowCaught

LEMMA NoOverflow ==
    ASSUME NEW op, NEW before, NEW q, Exact(op, before, q) \in Quantity
    PROVE  Resulting(op, before, q) = Exact(op, before, q)
BY PromiseAssumptions, SameArithmetic, Promise!NoOverflow

---------------------------------------------------------------------------
(* The invariant.                                                          *)

LEMMA IInvInit == Init => IInv
<1> SUFFICES ASSUME Init PROVE IInv
  OBVIOUS
<1> USE DEF Init
<1>1. Reply("none", 0) \in [outcome : Abstract!Outcomes, place : Nat]
  BY DEF Reply, Abstract!Outcomes
<1>2. TypeOK
  BY <1>1, MaxIntAssumption DEF TypeOK, Quantity, Steps
<1>3. CallsServed
  BY DEF CallsServed, Reply
<1>4. Seeded
  BY CatalogueAssumption DEF Seeded
<1>5. OneWriter /\ ViewIsCommitted /\ StepsKnow
  BY DEF OneWriter, ViewIsCommitted, StepsKnow, TxSteps
<1>6. AcknowledgedIsOnFile
  BY DEF AcknowledgedIsOnFile, Reply
<1> QED
  BY <1>2, <1>3, <1>4, <1>5, <1>6 DEF IInv

---------------------------------------------------------------------------
(* Steps of ApplyMovement that only go on to the next statement. *)

LEMMA GotoKeepsIInv ==
    ASSUME IInv, NEW c \in Calls, NEW s \in {"begin", "lookup", "validate"},
           pc[c] \in {"conn", "begin", "lookup"},
           s \in TxSteps /\ pc[c] \notin TxSteps => LockFree,
           Goto(c, s),
           UNCHANGED <<database, view, proc, request, locals, reply>>
    PROVE  IInv'
<1> USE DEF Goto, database, view, locals
<1>1. pc \in [Calls -> Steps] /\ s \in Steps
  BY DEF IInv, TypeOK, Steps, ConnSteps, TxSteps
<1>2. pc'[c] = s /\ \A d \in Calls \ {c} : pc'[d] = pc[d]
  BY <1>1
<1>3. TypeOK'
  BY <1>1 DEF IInv, TypeOK
<1>4. CallsServed'
  BY <1>2 DEF IInv, CallsServed
<1>5. Seeded'
  BY DEF IInv, Seeded
<1>6. OneWriter'
  BY <1>2 DEF IInv, OneWriter, LockFree
<1>7. ViewIsCommitted'
  BY <1>2 DEF IInv, ViewIsCommitted, Writing
<1>8. StepsKnow'
  BY <1>2 DEF IInv, StepsKnow, PreviousIsCurrent, MovementInserted, InventoryInView,
              OwnMovementOnFile
<1>9. AcknowledgedIsOnFile'
  BY DEF IInv, AcknowledgedIsOnFile
<1> QED
  BY <1>3, <1>4, <1>5, <1>6, <1>7, <1>8, <1>9 DEF IInv

---------------------------------------------------------------------------
(* The ends of ApplyMovement. *)

LEMMA ReturnKeepsIInv ==
    ASSUME IInv, NEW c \in Calls, pc[c] # "idle",
           NEW outcome \in Abstract!Outcomes \ {"pending"}, NEW place \in Nat,
           Return(c, outcome, place),
           outcome \in {"recorded", "replayed"} =>
               place \in 1 .. Len(movements) /\ movements[place].key = request[c].key
    PROVE  IInv'
<1> USE DEF Return, Goto, database, view, Rollback
<1>1. pc \in [Calls -> Steps] /\ "idle" \in Steps
  BY DEF IInv, TypeOK, Steps
<1>2. pc'[c] = "idle" /\ \A d \in Calls \ {c} : pc'[d] = pc[d]
  BY <1>1
<1>3. /\ reply'[c] = Reply(outcome, place)
      /\ Reply(outcome, place) \in [outcome : Abstract!Outcomes, place : Nat]
      /\ \A d \in Calls \ {c} : reply'[d] = reply[d]
  BY DEF IInv, TypeOK, Reply
<1>4. \A d \in Calls \ {c} : previous'[d] = previous[d] /\ seq'[d] = seq[d]
  BY DEF IInv, TypeOK
<1>5. CASE pc[c] \in TxSteps
  <2>1. txInventory' = inventory /\ txMovements' = movements
    BY <1>5
  <2>2. \A d \in Calls \ {c} : pc[d] \notin TxSteps
    BY <1>5 DEF IInv, OneWriter
  <2>3. TypeOK'
    BY <1>1, <1>3, <2>1, MaxIntAssumption DEF IInv, TypeOK, Quantity
  <2>4. CallsServed'
    BY <1>2, <1>3 DEF IInv, CallsServed, Reply
  <2>5. Seeded'
    BY DEF IInv, Seeded
  <2>6. OneWriter'
    BY <1>2, <2>2 DEF IInv, OneWriter, TxSteps
  <2>7. ViewIsCommitted'
    BY <2>1 DEF ViewIsCommitted
  <2>8. StepsKnow'
    BY <1>2, <1>4, <2>2
    DEF IInv, StepsKnow, TxSteps, OwnMovementOnFile
  <2>9. AcknowledgedIsOnFile'
    BY <1>3 DEF IInv, AcknowledgedIsOnFile, Reply
  <2> QED
    BY <2>3, <2>4, <2>5, <2>6, <2>7, <2>8, <2>9 DEF IInv
<1>6. CASE pc[c] \notin TxSteps
  <2>1. UNCHANGED <<txInventory, txMovements>>
    BY <1>6
  <2>3. TypeOK'
    BY <1>1, <1>3, <2>1, MaxIntAssumption DEF IInv, TypeOK, Quantity
  <2>4. CallsServed'
    BY <1>2, <1>3 DEF IInv, CallsServed, Reply
  <2>5. Seeded'
    BY DEF IInv, Seeded
  <2>6. OneWriter'
    BY <1>2 DEF IInv, OneWriter, TxSteps
  <2>7. ViewIsCommitted'
    BY <1>2, <1>6, <2>1 DEF IInv, ViewIsCommitted, Writing, TxSteps
  <2>8. StepsKnow'
    BY <1>2, <1>4, <2>1
    DEF IInv, StepsKnow, PreviousIsCurrent, MovementInserted, InventoryInView,
        OwnMovementOnFile
  <2>9. AcknowledgedIsOnFile'
    BY <1>3 DEF IInv, AcknowledgedIsOnFile, Reply
  <2> QED
    BY <2>3, <2>4, <2>5, <2>6, <2>7, <2>8, <2>9 DEF IInv
<1> QED
  BY <1>5, <1>6

---------------------------------------------------------------------------
(* The steps that read and write the stock. *)

LEMMA InvokeKeepsIInv ==
    ASSUME IInv, NEW c \in Calls, NEW r \in Requests, Invoke(c, r)
    PROVE  IInv'
<1> USE DEF Invoke, Goto, database, view, locals
<1>1. pc \in [Calls -> Steps] /\ "conn" \in Steps
  BY DEF IInv, TypeOK, Steps, ConnSteps, TxSteps
<1>2. pc'[c] = "conn" /\ \A d \in Calls \ {c} : pc'[d] = pc[d]
  BY <1>1
<1>3. /\ reply'[c] = Reply("pending", 0)
      /\ Reply("pending", 0) \in [outcome : Abstract!Outcomes, place : Nat]
      /\ \A d \in Calls \ {c} : reply'[d] = reply[d]
  BY DEF IInv, TypeOK, Reply, Abstract!Outcomes
<1>4. /\ request'[c] = r
      /\ \A d \in Calls \ {c} : request'[d] = request[d]
  BY DEF IInv, TypeOK
<1>5. TypeOK'
  BY <1>1, <1>3, <1>4 DEF IInv, TypeOK
<1>6. CallsServed'
  BY <1>2, <1>3, <1>4 DEF IInv, CallsServed, Reply
<1>7. Seeded'
  BY DEF IInv, Seeded
<1>8. OneWriter'
  BY <1>2 DEF IInv, OneWriter, TxSteps
<1>9. ViewIsCommitted'
  BY <1>2 DEF IInv, ViewIsCommitted, Writing
<1>10. StepsKnow'
  BY <1>2, <1>4
  DEF IInv, StepsKnow, PreviousIsCurrent, MovementInserted, InventoryInView,
      OwnMovementOnFile
<1>11. AcknowledgedIsOnFile'
  BY <1>3, <1>4 DEF IInv, AcknowledgedIsOnFile, Reply
<1> QED
  BY <1>5, <1>6, <1>7, <1>8, <1>9, <1>10, <1>11 DEF IInv

\* In a transaction, before its writes, every row is there and the view is
\* what is committed, so previous is the stock of the ingredient.
LEMMA ViewBeforeWrites ==
    ASSUME IInv, NEW c \in Calls, pc[c] \in {"lookup", "validate", "insert"}
    PROVE  /\ txInventory = inventory /\ txMovements = movements
           /\ catalogue = Ingredients
           /\ request[c] \in Requests
           /\ \A i \in Ingredients :
                 inventory[i] \in Quantity /\ PreviousOf(i) = inventory[i]
<1>1. ~Writing
  BY DEF IInv, OneWriter, Writing, TxSteps
<1>2. txInventory = inventory /\ txMovements = movements
  BY <1>1 DEF IInv, ViewIsCommitted
<1>3. proc[ProcOf[c]] = "up" /\ request[c] \in Requests /\ ProcOf[c] \in Procs
  BY ProcessAssumption DEF IInv, CallsServed
<1>4. catalogue = Ingredients /\ \A i \in Ingredients : inventory[i] # NoRow
  BY <1>3 DEF IInv, Seeded
<1>5. \A i \in Ingredients : inventory[i] \in Quantity
  BY <1>4 DEF IInv, TypeOK
<1> QED
  BY <1>2, <1>3, <1>4, <1>5 DEF PreviousOf

LEMMA ValidateKeepsIInv == ASSUME IInv, NEW c \in Calls, Validate(c) PROVE IInv'
<1> USE DEF Validate, Goto, database, view
<1>1. pc \in [Calls -> Steps] /\ "insert" \in Steps
  BY DEF IInv, TypeOK, Steps, ConnSteps, TxSteps
<1>2. pc'[c] = "insert" /\ \A d \in Calls \ {c} : pc'[d] = pc[d]
  BY <1>1
<1>3. /\ catalogue = Ingredients /\ request[c] \in Requests
      /\ \A i \in Ingredients :
            inventory[i] \in Quantity /\ PreviousOf(i) = inventory[i]
  BY ViewBeforeWrites
<1>4. /\ previous'[c] = inventory[request[c].ingredient]
      /\ previous'[c] \in Quantity
      /\ \A d \in Calls \ {c} : previous'[d] = previous[d]
  BY <1>3 DEF IInv, TypeOK
<1>5. TypeOK'
  BY <1>1, <1>3, <1>4 DEF IInv, TypeOK
<1>6. CallsServed'
  BY <1>2 DEF IInv, CallsServed
<1>7. Seeded'
  BY DEF IInv, Seeded
<1>8. OneWriter'
  BY <1>2 DEF IInv, OneWriter, TxSteps
<1>9. ViewIsCommitted'
  BY <1>2 DEF IInv, ViewIsCommitted, Writing
<1>10. PreviousIsCurrent(c)'
  BY <1>3, <1>4 DEF PreviousIsCurrent, ResultingFor
<1>11. StepsKnow'
  BY <1>2, <1>4, <1>10
  DEF IInv, StepsKnow, PreviousIsCurrent, MovementInserted, InventoryInView,
      OwnMovementOnFile
<1>12. AcknowledgedIsOnFile'
  BY DEF IInv, AcknowledgedIsOnFile
<1> QED
  BY <1>5, <1>6, <1>7, <1>8, <1>9, <1>11, <1>12 DEF IInv

LEMMA InsertKeepsIInv == ASSUME IInv, NEW c \in Calls, Insert(c) PROVE IInv'
<1> USE DEF Insert, Goto, database
<1>1. pc \in [Calls -> Steps] /\ "upsert" \in Steps
  BY DEF IInv, TypeOK, Steps, ConnSteps, TxSteps
<1>2. pc'[c] = "upsert" /\ \A d \in Calls \ {c} : pc'[d] = pc[d]
  BY <1>1
<1>3. \A d \in Calls \ {c} : pc[d] \notin TxSteps
  BY DEF IInv, OneWriter, TxSteps
<1>4. /\ txInventory = inventory /\ txMovements = movements
      /\ request[c] \in Requests
  BY ViewBeforeWrites
<1>5. MovementOf(request[c], previous[c]) \in Movement
  BY <1>4 DEF IInv, TypeOK, Movement
<1>6. Len(txMovements) \in Nat /\ seq'[c] = Len(movements) + 1
  BY <1>4 DEF IInv, TypeOK
<1>7. TypeOK'
  BY <1>1, <1>5, <1>6 DEF IInv, TypeOK
<1>8. CallsServed'
  BY <1>2 DEF IInv, CallsServed
<1>9. Seeded'
  BY DEF IInv, Seeded
<1>10. OneWriter'
  BY <1>2 DEF IInv, OneWriter, TxSteps
<1>11. ViewIsCommitted'
  BY <1>2 DEF ViewIsCommitted, Writing
<1>12. PreviousIsCurrent(c)' /\ MovementInserted(c)' /\ InventoryInView(c)'
  BY <1>2, <1>4, <1>6
  DEF IInv, StepsKnow, PreviousIsCurrent, MovementInserted, InventoryInView,
      Unique, KeyFound
<1>13. StepsKnow'
  BY <1>2, <1>3, <1>12 DEF IInv, StepsKnow, TxSteps, OwnMovementOnFile, TypeOK
<1>14. AcknowledgedIsOnFile'
  BY DEF IInv, AcknowledgedIsOnFile
<1> QED
  BY <1>7, <1>8, <1>9, <1>10, <1>11, <1>13, <1>14 DEF IInv

\* What a transaction is about to write is a quantity.
LEMMA ResultingIsQuantity ==
    ASSUME IInv, NEW c \in Calls, pc[c] \in {"insert", "upsert", "commit"}
    PROVE  LET r == request[c] IN
           /\ r \in Requests /\ r.ingredient \in Ingredients
           /\ inventory[r.ingredient] \in Quantity /\ inventory[r.ingredient] # NoRow
           /\ Resulting(r.operation, previous[c], r.quantity) \in Quantity
           /\ Resulting(r.operation, previous[c], r.quantity)
                = Exact(r.operation, inventory[r.ingredient], r.quantity)
<1>1. proc[ProcOf[c]] = "up" /\ request[c] \in Requests /\ ProcOf[c] \in Procs
  BY ProcessAssumption DEF IInv, CallsServed
<1>2. \A i \in Ingredients : inventory[i] # NoRow
  BY <1>1 DEF IInv, Seeded
<1>3. PreviousIsCurrent(c)
  BY DEF IInv, StepsKnow
<1>4. request[c].quantity \in Int64 /\ previous[c] \in Quantity
  BY <1>1, RequestsAssumption DEF IInv, TypeOK
<1>5. request[c].ingredient \in Ingredients /\ request[c].operation \in Operations
  BY <1>3 DEF PreviousIsCurrent
<1>6. previous[c] = inventory[request[c].ingredient]
  BY <1>3 DEF PreviousIsCurrent
<1>7. Resulting(request[c].operation, previous[c], request[c].quantity) >= 0
  BY <1>3 DEF PreviousIsCurrent
<1> QED
  BY <1>1, <1>2, <1>4, <1>5, <1>6, <1>7, OverflowCaught

LEMMA UpsertKeepsIInv == ASSUME IInv, NEW c \in Calls, Upsert(c) PROVE IInv'
<1> USE DEF Upsert, Goto, database, locals
<1>1. pc \in [Calls -> Steps] /\ "commit" \in Steps
  BY DEF IInv, TypeOK, Steps, ConnSteps, TxSteps
<1>2. pc'[c] = "commit" /\ \A d \in Calls \ {c} : pc'[d] = pc[d]
  BY <1>1
<1>3. \A d \in Calls \ {c} : pc[d] \notin TxSteps
  BY DEF IInv, OneWriter, TxSteps
<1>4. /\ request[c].ingredient \in Ingredients
      /\ Resulting(request[c].operation, previous[c], request[c].quantity) \in Quantity
  BY ResultingIsQuantity
<1>5. txInventory' \in [Ingredients -> Quantity \cup {NoRow}]
  BY <1>4 DEF IInv, TypeOK, Upserted
<1>6. TypeOK'
  BY <1>1, <1>5 DEF IInv, TypeOK
<1>7. CallsServed'
  BY <1>2 DEF IInv, CallsServed
<1>8. Seeded'
  BY DEF IInv, Seeded
<1>9. OneWriter'
  BY <1>2 DEF IInv, OneWriter, TxSteps
<1>10. ViewIsCommitted'
  BY <1>2 DEF ViewIsCommitted, Writing
<1>11. PreviousIsCurrent(c)' /\ MovementInserted(c)'
  BY DEF IInv, StepsKnow, PreviousIsCurrent, MovementInserted
<1>12. InventoryInView(c)'
  BY <1>2 DEF IInv, StepsKnow, InventoryInView, Upserted
<1>13. StepsKnow'
  BY <1>2, <1>3, <1>11, <1>12 DEF IInv, StepsKnow, TxSteps, OwnMovementOnFile
<1>14. AcknowledgedIsOnFile'
  BY DEF IInv, AcknowledgedIsOnFile
<1> QED
  BY <1>6, <1>7, <1>8, <1>9, <1>10, <1>13, <1>14 DEF IInv

\* What COMMIT makes durable: one movement more, and the stock it left.
LEMMA Committed ==
    ASSUME IInv, NEW c \in Calls, Commit(c)
    PROVE  LET r == request[c]
               m == MovementOf(r, inventory[r.ingredient])
           IN  /\ r \in Requests /\ r.ingredient \in Ingredients
               /\ r.operation \in Operations
               /\ inventory[r.ingredient] \in Quantity
               /\ m.key = r.key /\ m.previous = inventory[r.ingredient]
               /\ Exact(r.operation, inventory[r.ingredient], r.quantity) \in Quantity
               /\ ~KeyRecorded(movements, r.key)
               /\ movements' = Append(movements, m) /\ m \in Movement
               /\ inventory' = [inventory EXCEPT ![r.ingredient] =
                                  Exact(r.operation, inventory[r.ingredient], r.quantity)]
               /\ seq[c] = Len(movements) + 1
<1>1. /\ request[c] \in Requests /\ request[c].ingredient \in Ingredients
      /\ inventory[request[c].ingredient] \in Quantity
      /\ Resulting(request[c].operation, previous[c], request[c].quantity) \in Quantity
      /\ Resulting(request[c].operation, previous[c], request[c].quantity)
           = Exact(request[c].operation, inventory[request[c].ingredient],
                   request[c].quantity)
  BY ResultingIsQuantity DEF Commit
<1>2. PreviousIsCurrent(c) /\ MovementInserted(c) /\ InventoryInView(c)
  BY DEF Commit, IInv, StepsKnow
<1>3. request[c].operation \in Operations /\ previous[c] = inventory[request[c].ingredient]
  BY <1>2 DEF PreviousIsCurrent
<1>4. /\ ~KeyRecorded(movements, request[c].key)
      /\ movements' = Append(movements, MovementOf(request[c], previous[c]))
      /\ seq[c] = Len(movements) + 1
  BY <1>2 DEF MovementInserted, Commit
<1>5. inventory' = Upserted(inventory, request[c], previous[c])
  BY <1>2 DEF InventoryInView, Commit
<1>6. MovementOf(request[c], previous[c]) \in Movement
  BY <1>1, <1>3 DEF Movement
<1>7. /\ MovementOf(request[c], previous[c]).key = request[c].key
      /\ MovementOf(request[c], previous[c]).previous = previous[c]
  BY DEF MovementOf
<1> QED
  BY <1>1, <1>3, <1>4, <1>5, <1>6, <1>7 DEF Upserted

LEMMA CommitKeepsIInv == ASSUME IInv, NEW c \in Calls, Commit(c) PROVE IInv'
<1> USE DEF Commit, Goto, view, locals
<1>1. pc \in [Calls -> Steps] /\ "committed" \in Steps
  BY DEF IInv, TypeOK, Steps
<1>2. pc'[c] = "committed" /\ \A d \in Calls \ {c} : pc'[d] = pc[d]
  BY <1>1
<1>3. \A d \in Calls \ {c} : pc[d] \notin TxSteps
  BY DEF IInv, OneWriter, TxSteps
<1> DEFINE m == MovementOf(request[c], inventory[request[c].ingredient])
<1>4. /\ movements' = Append(movements, m) /\ m \in Movement
      /\ m.key = request[c].key
      /\ m = MovementOf(request[c], m.previous)
      /\ seq[c] = Len(movements) + 1
  BY Committed
<1> HIDE DEF m
<1>5. /\ Len(movements) \in Nat /\ Len(movements') = Len(movements) + 1
      /\ movements'[Len(movements) + 1] = m
      /\ \A n \in 1 .. Len(movements) : movements'[n] = movements[n]
  BY <1>4 DEF IInv, TypeOK
<1>6. TypeOK'
  BY <1>1 DEF IInv, TypeOK
<1>7. CallsServed'
  BY <1>2 DEF IInv, CallsServed
<1>8. Seeded'
  <2>1. /\ request[c].ingredient \in Ingredients
        /\ Exact(request[c].operation, inventory[request[c].ingredient],
                 request[c].quantity) \in Quantity
        /\ inventory' = [inventory EXCEPT ![request[c].ingredient] =
                           Exact(request[c].operation,
                                 inventory[request[c].ingredient], request[c].quantity)]
    BY Committed
  <2>2. \A i \in Ingredients : inventory'[i] = inventory[i] \/ inventory'[i] \in Quantity
    BY <2>1 DEF IInv, TypeOK
  <2>3. NoRow \notin Quantity
    BY MaxIntAssumption DEF Quantity, NoRow
  <2> QED
    BY <2>2, <2>3 DEF IInv, Seeded
<1>9. OneWriter'
  BY <1>2 DEF IInv, OneWriter, TxSteps
<1>10. ViewIsCommitted'
  BY DEF ViewIsCommitted
<1>11. OwnMovementOnFile(c)'
  BY <1>4, <1>5 DEF OwnMovementOnFile
<1>12. ASSUME NEW d \in Calls, d # c, pc[d] = "committed"
       PROVE  OwnMovementOnFile(d)'
  <2>1. OwnMovementOnFile(d)
    BY <1>12 DEF IInv, StepsKnow
  <2> QED
    BY <1>5, <2>1 DEF OwnMovementOnFile
<1>13. StepsKnow'
  BY <1>2, <1>3, <1>11, <1>12 DEF StepsKnow, TxSteps
<1>14. AcknowledgedIsOnFile'
  BY <1>5 DEF IInv, AcknowledgedIsOnFile
<1> QED
  BY <1>6, <1>7, <1>8, <1>9, <1>10, <1>13, <1>14 DEF IInv

---------------------------------------------------------------------------
(* Opening the repository, and crashes. *)

\* A step that touches only how far processes have come, none of them up.
LEMMA StartUpKeepsIInv ==
    ASSUME IInv, NEW p \in Procs, proc[p] # "up",
           NEW s \in {"down", "opened", "empty", "seeding", "up"},
           s = "up" => catalogue # {},
           s = "seeding" => LockFree,
           proc' = [proc EXCEPT ![p] = s],
           UNCHANGED <<database, view, startup>>
    PROVE  IInv'
<1> USE DEF database, view, startup, locals
<1>1. proc'[p] = s /\ \A q \in Procs \ {p} : proc'[q] = proc[q]
  BY DEF IInv, TypeOK
<1>2. TypeOK'
  BY DEF IInv, TypeOK
<1>3. CallsServed'
  BY <1>1, ProcessAssumption DEF IInv, CallsServed
<1>4. Seeded'
  BY <1>1 DEF IInv, Seeded, TypeOK
<1>5. OneWriter'
  BY <1>1 DEF IInv, OneWriter, LockFree
<1>6. ViewIsCommitted'
  BY DEF IInv, ViewIsCommitted, Writing
<1>7. StepsKnow'
  BY DEF IInv, StepsKnow, PreviousIsCurrent, MovementInserted, InventoryInView,
         OwnMovementOnFile
<1>8. AcknowledgedIsOnFile'
  BY DEF IInv, AcknowledgedIsOnFile
<1> QED
  BY <1>2, <1>3, <1>4, <1>5, <1>6, <1>7, <1>8 DEF IInv

\* Seeding again what is already there changes no row of inventory.
LEMMA SeedCommitKeepsIInv == ASSUME IInv, NEW p \in Procs, SeedCommit(p) PROVE IInv'
<1> USE DEF SeedCommit, startup, locals
<1>1. proc'[p] = "up" /\ \A q \in Procs \ {p} : proc'[q] = proc[q]
  BY DEF IInv, TypeOK
<1>2. \A c \in Calls : pc[c] \notin TxSteps
  BY DEF IInv, OneWriter
<1>3. txMovements = movements
  BY <1>2 DEF IInv, ViewIsCommitted, Writing, TxSteps
<1>4. inventory' \in [Ingredients -> Quantity]
  BY CatalogueAssumption DEF SeededInventory, Stock, IInv, TypeOK
<1>5. NoRow \notin Quantity
  BY MaxIntAssumption DEF Quantity, NoRow
<1>6. TypeOK'
  BY <1>4 DEF IInv, TypeOK
<1>7. CallsServed'
  BY <1>1, ProcessAssumption DEF IInv, CallsServed
<1>8. Seeded'
  BY <1>4, <1>5 DEF Seeded
<1>9. OneWriter'
  BY <1>1, <1>2 DEF IInv, OneWriter
<1>10. ViewIsCommitted'
  BY <1>3 DEF ViewIsCommitted
<1>11. StepsKnow'
  BY <1>2 DEF IInv, StepsKnow, TxSteps, OwnMovementOnFile
<1>12. AcknowledgedIsOnFile'
  BY DEF IInv, AcknowledgedIsOnFile
<1> QED
  BY <1>6, <1>7, <1>8, <1>9, <1>10, <1>11, <1>12 DEF IInv

LEMMA CrashKeepsIInv == ASSUME IInv, NEW p \in Procs, Crash(p) PROVE IInv'
<1> USE DEF Crash, database, view, Rollback
<1>1. proc'[p] = "down" /\ \A q \in Procs \ {p} : proc'[q] = proc[q]
  BY DEF IInv, TypeOK
<1>2. \A c \in Calls : Serves(p, c) =>
          pc'[c] = "idle" /\ reply'[c] = Reply("lost", 0)
  OBVIOUS
<1>3. \A c \in Calls : ~Serves(p, c) =>
          /\ pc'[c] = pc[c] /\ reply'[c] = reply[c]
          /\ previous'[c] = previous[c] /\ seq'[c] = seq[c]
  OBVIOUS
<1>4. TypeOK'
  <2>1. Reply("lost", 0) \in [outcome : Abstract!Outcomes, place : Nat]
    BY DEF Reply, Abstract!Outcomes
  <2>2. pc' \in [Calls -> Steps]
    BY DEF IInv, TypeOK, Steps
  <2>3. reply' \in [Calls -> [outcome : Abstract!Outcomes, place : Nat]]
    BY <2>1 DEF IInv, TypeOK
  <2>4. previous' \in [Calls -> Quantity] /\ seq' \in [Calls -> Nat]
    BY MaxIntAssumption DEF IInv, TypeOK, Quantity
  <2>5. /\ txInventory' \in [Ingredients -> Quantity \cup {NoRow}]
        /\ txMovements' \in Seq(Movement)
    BY DEF IInv, TypeOK
  <2>6. proc' \in [Procs -> {"down", "opened", "empty", "seeding", "up"}]
    BY DEF IInv, TypeOK
  <2> QED
    BY <2>2, <2>3, <2>4, <2>5, <2>6 DEF IInv, TypeOK
<1>5. CallsServed'
  <2> SUFFICES ASSUME NEW c \in Calls
               PROVE  /\ pc'[c] = "idle" <=> reply'[c].outcome # "pending"
                      /\ pc'[c] # "idle" =>
                            proc'[ProcOf[c]] = "up" /\ request'[c] \in Requests
    BY DEF CallsServed
  <2>1. CASE Serves(p, c)
    BY <1>2, <2>1 DEF Reply
  <2>2. CASE ~Serves(p, c)
    <3>1. ProcOf[c] \in Procs
      BY ProcessAssumption
    <3>2. pc[c] # "idle" => ProcOf[c] # p
      BY <2>2 DEF Serves
    <3> QED
      BY <1>1, <1>3, <2>2, <3>1, <3>2 DEF IInv, CallsServed
  <2> QED
    BY <2>1, <2>2
<1>6. Seeded'
  BY <1>1 DEF IInv, Seeded
<1>7. \A c \in Calls : pc'[c] \in TxSteps => pc[c] \in TxSteps
  BY <1>2, <1>3 DEF TxSteps
<1>8. OneWriter'
  BY <1>1, <1>7 DEF IInv, OneWriter
<1>9. ASSUME InTx(p) PROVE \A c \in Calls : pc'[c] \notin TxSteps
  <2> SUFFICES ASSUME NEW c \in Calls, pc'[c] \in TxSteps PROVE FALSE
    OBVIOUS
  <2>1. pc[c] \in TxSteps /\ ~Serves(p, c) /\ pc[c] # "idle"
    BY <1>2, <1>7 DEF TxSteps
  <2>2. ProcOf[c] # p
    BY <2>1 DEF Serves
  <2> QED
    BY <1>9, <2>1, <2>2 DEF InTx, IInv, OneWriter
<1>10. ASSUME ~InTx(p)
       PROVE  /\ UNCHANGED view
              /\ \A c \in Calls : pc[c] \in TxSteps => pc'[c] = pc[c]
  BY <1>3, <1>10 DEF InTx, Serves
<1>11. ViewIsCommitted'
  <2>1. CASE InTx(p)
    BY <2>1 DEF ViewIsCommitted
  <2>2. CASE ~InTx(p)
    <3>1. Writing => Writing'
      BY <1>10, <2>2 DEF Writing, TxSteps
    <3> QED
      BY <1>10, <2>2, <3>1 DEF IInv, ViewIsCommitted
  <2> QED
    BY <2>1, <2>2
<1>12. StepsKnow'
  <2>1. \A c \in Calls : pc'[c] = "committed" => OwnMovementOnFile(c)'
    BY <1>2, <1>3 DEF IInv, StepsKnow, OwnMovementOnFile
  <2>2. CASE InTx(p)
    BY <1>9, <2>1, <2>2 DEF StepsKnow, TxSteps
  <2>3. CASE ~InTx(p)
    <3>1. UNCHANGED <<txInventory, txMovements>>
      BY <1>10, <2>3
    <3> QED
      BY <1>2, <1>3, <2>1, <3>1
      DEF IInv, StepsKnow, PreviousIsCurrent, MovementInserted, InventoryInView
  <2> QED
    BY <2>2, <2>3
<1>13. AcknowledgedIsOnFile'
  BY <1>2, <1>3 DEF IInv, AcknowledgedIsOnFile, Reply
<1> QED
  BY <1>4, <1>5, <1>6, <1>8, <1>11, <1>12, <1>13 DEF IInv

---------------------------------------------------------------------------
(* All steps. *)

LEMMA PlaceOfIsKey ==
    ASSUME NEW l, NEW k, KeyRecorded(l, k)
    PROVE  PlaceOf(l, k) \in 1 .. Len(l) /\ l[PlaceOf(l, k)].key = k
BY DEF KeyRecorded, PlaceOf

\* The movement Replay shows is on file under the key of the request.
LEMMA ReplayedOnFile ==
    ASSUME IInv, NEW c \in Calls, Replay(c)
    PROVE  LET n == PlaceOf(txMovements, request[c].key) IN
           /\ n \in 1 .. Len(movements) /\ n \in Nat
           /\ movements[n].key = request[c].key
<1>1. txMovements = movements
  BY ViewBeforeWrites DEF Replay
<1>2. movements \in Seq(Movement)
  BY DEF IInv, TypeOK
<1> QED
  BY <1>1, <1>2, PlaceOfIsKey DEF Replay, KeyFound

LEMMA AcknowledgedNow ==
    ASSUME IInv, NEW c \in Calls, Acknowledge(c)
    PROVE  /\ seq[c] \in 1 .. Len(movements) /\ seq[c] \in Nat
           /\ movements[seq[c]] = MovementOf(request[c], movements[seq[c]].previous)
           /\ movements[seq[c]].key = request[c].key
<1>1. OwnMovementOnFile(c) /\ seq[c] \in Nat
  BY DEF Acknowledge, IInv, StepsKnow, TypeOK
<1>2. MovementOf(request[c], movements[seq[c]].previous).key = request[c].key
  BY DEF MovementOf
<1> QED
  BY <1>1, <1>2 DEF OwnMovementOnFile

LEMMA TransactionKeepsIInv == ASSUME IInv, NEW c \in Calls, Transaction(c) PROVE IInv'
<1>1. /\ "failed" \in Abstract!Outcomes \ {"pending"}
      /\ "unknown ingredient" \in Abstract!Outcomes \ {"pending"}
      /\ "invalid operation" \in Abstract!Outcomes \ {"pending"}
      /\ "insufficient" \in Abstract!Outcomes \ {"pending"}
      /\ "recorded" \in Abstract!Outcomes \ {"pending"}
      /\ "replayed" \in Abstract!Outcomes \ {"pending"}
  BY DEF Abstract!Outcomes, Abstract!Refusals
<1>2. CASE BeginImmediate(c)
  BY <1>2, GotoKeepsIInv DEF BeginImmediate
<1>3. CASE LookupMisses(c)
  BY <1>3, GotoKeepsIInv DEF LookupMisses, TxSteps
<1>4. CASE BeginFails(c)
  BY <1>1, <1>4, ReturnKeepsIInv DEF BeginFails
<1>5. CASE Replay(c)
  BY <1>1, <1>5, ReplayedOnFile, ReturnKeepsIInv DEF Replay
<1>6. CASE RejectUnknown(c)
  BY <1>1, <1>6, ReturnKeepsIInv DEF RejectUnknown
<1>7. CASE RejectOperation(c)
  BY <1>1, <1>7, ReturnKeepsIInv DEF RejectOperation
<1>8. CASE RejectInsufficient(c)
  BY <1>1, <1>8, ReturnKeepsIInv DEF RejectInsufficient
<1>9. CASE Validate(c)
  BY <1>9, ValidateKeepsIInv
<1>10. CASE Insert(c)
  BY <1>10, InsertKeepsIInv
<1>11. CASE InsertViolatesUnique(c)
  BY <1>1, <1>11, ReturnKeepsIInv DEF InsertViolatesUnique
<1>12. CASE Upsert(c)
  BY <1>12, UpsertKeepsIInv
<1>13. CASE Commit(c)
  BY <1>13, CommitKeepsIInv
<1>14. CASE StatementFails(c)
  BY <1>1, <1>14, ReturnKeepsIInv DEF StatementFails, TxSteps
<1>15. CASE Acknowledge(c)
  BY <1>1, <1>15, AcknowledgedNow, ReturnKeepsIInv DEF Acknowledge
<1>16. CASE CommitReportsError(c)
  BY <1>1, <1>16, ReturnKeepsIInv DEF CommitReportsError
<1> QED
  BY <1>2, <1>3, <1>4, <1>5, <1>6, <1>7, <1>8, <1>9, <1>10, <1>11, <1>12, <1>13,
     <1>14, <1>15, <1>16 DEF Transaction

LEMMA NextKeepsIInv == IInv /\ [Next]_vars => IInv'
<1> SUFFICES ASSUME IInv, [Next]_vars PROVE IInv'
  OBVIOUS
<1>1. ASSUME NEW p \in Procs, StartUp(p) PROVE IInv'
  <2>1. CASE Open(p)
    BY <2>1, StartUpKeepsIInv DEF Open
  <2>2. CASE Inspect(p)
    <3>1. CASE catalogue = {}
      BY <2>2, <3>1, StartUpKeepsIInv DEF Inspect
    <3>2. CASE catalogue # {}
      BY <2>2, <3>2, StartUpKeepsIInv DEF Inspect
    <3> QED
      BY <3>1, <3>2
  <2>3. CASE SeedBegin(p)
    BY <2>3, StartUpKeepsIInv DEF SeedBegin
  <2>4. CASE SeedCommit(p)
    BY <2>4, SeedCommitKeepsIInv
  <2>5. CASE SeedFails(p)
    BY <2>5, StartUpKeepsIInv DEF SeedFails
  <2> QED
    BY <1>1, <2>1, <2>2, <2>3, <2>4, <2>5 DEF StartUp
<1>2. ASSUME NEW p \in Procs, Crash(p) PROVE IInv'
  BY <1>2, CrashKeepsIInv
<1>3. ASSUME NEW c \in Calls, NEW r \in Requests, Invoke(c, r) PROVE IInv'
  BY <1>3, InvokeKeepsIInv
<1>4. ASSUME NEW c \in Calls, AcquireConn(c) PROVE IInv'
  BY <1>4, GotoKeepsIInv DEF AcquireConn, TxSteps
<1>5. ASSUME NEW c \in Calls, Transaction(c) PROVE IInv'
  BY <1>5, TransactionKeepsIInv
<1>6. CASE UNCHANGED vars
  BY <1>6 DEF vars, database, view, locals, IInv, TypeOK, CallsServed, Seeded, OneWriter,
     ViewIsCommitted, Writing, StepsKnow, PreviousIsCurrent, MovementInserted,
     InventoryInView, OwnMovementOnFile, AcknowledgedIsOnFile
<1> QED
  BY <1>1, <1>2, <1>3, <1>4, <1>5, <1>6 DEF Next

\* What the steps of ApplyMovement rely on holds for any number of processes,
\* calls and requests, and whatever fails: the types, one writer at a time,
\* the stock it read still current when it writes, and the movement a caller
\* was shown on file under its key.
THEOREM RepositoryInvariant == Spec => []IInv
BY IInvInit, NextKeepsIInv, PTL DEF Spec

---------------------------------------------------------------------------
(* Refinement: COMMIT is the step Inventory calls Record; the ends of      *)
(* ApplyMovement are its answers; every other statement shows nothing.     *)

\* The instance of Inventory has a copy of every operator on movements; each
\* copy is the original.
LEMMA SameOperators ==
    /\ Abstract!Quantity = Quantity /\ Abstract!Operations = Operations
    /\ \A op, before, q : Abstract!Exact(op, before, q) = Exact(op, before, q)
    /\ \A r, before : Abstract!MovementOf(r, before) = MovementOf(r, before)
    /\ \A l, k : Abstract!KeyRecorded(l, k) <=> KeyRecorded(l, k)
<1>1. Abstract!Quantity = Quantity /\ Abstract!Operations = Operations
  BY DEF Abstract!Quantity, Quantity, Abstract!Operations, Operations
<1>2. \A op, before, q : Abstract!Exact(op, before, q) = Exact(op, before, q)
  BY DEF Abstract!Exact, Exact
<1>3. \A x : Abstract!Wrap(x) = Wrap(x)
  BY DEF Abstract!Wrap, Wrap, Abstract!MinInt, MinInt
<1>4. \A op, before, q : Abstract!Resulting(op, before, q) = Resulting(op, before, q)
  BY <1>2, <1>3 DEF Abstract!Resulting, Resulting
<1>5. \A user : Abstract!PerformerOrDefault(user) = PerformerOrDefault(user)
  BY DEF Abstract!PerformerOrDefault, PerformerOrDefault
<1>6. \A r, before : Abstract!MovementOf(r, before) = MovementOf(r, before)
  BY <1>4, <1>5 DEF Abstract!MovementOf, MovementOf
<1>7. \A l, k : Abstract!KeyRecorded(l, k) <=> KeyRecorded(l, k)
  BY DEF Abstract!KeyRecorded, KeyRecorded
<1> QED
  BY <1>1, <1>2, <1>6, <1>7

LEMMA InitRefines == Init => Abstract!Init
<1> SUFFICES ASSUME Init PROVE Abstract!Init
  OBVIOUS
<1>1. Stock(inventory) = OpeningStock
  BY CatalogueAssumption DEF Init, Stock
<1> QED
  BY <1>1 DEF Init, Abstract!Init, Reply, Abstract!Reply

\* A call in progress has a pending reply in the abstract state.
LEMMA PendingInProgress ==
    ASSUME IInv, NEW c \in Calls PROVE pc[c] # "idle" <=> Abstract!Pending(c)
BY DEF IInv, CallsServed, Abstract!Pending

\* Stock shows the row of an ingredient that has one.
LEMMA StockShowsRow ==
    ASSUME NEW rows, NEW i \in Ingredients, rows[i] # NoRow
    PROVE  Stock(rows)[i] = rows[i]
BY DEF Stock

LEMMA ReturnRefines ==
    ASSUME NEW c \in Calls, NEW outcome, NEW place, Return(c, outcome, place)
    PROVE  Abstract!Answer(c, outcome, place)
BY DEF Return, Abstract!Answer, Abstract!Reply, Reply, database

LEMMA CommitRefines == ASSUME IInv, NEW c \in Calls, Commit(c) PROVE Abstract!Record(c)
<1> DEFINE r == request[c]
           left == Exact(r.operation, inventory[r.ingredient], r.quantity)
<1>1. /\ r \in Requests /\ r.ingredient \in Ingredients /\ r.operation \in Operations
      /\ inventory[r.ingredient] \in Quantity
      /\ left \in Quantity
      /\ ~KeyRecorded(movements, r.key)
      /\ movements' = Append(movements, MovementOf(r, inventory[r.ingredient]))
      /\ inventory' = [inventory EXCEPT ![r.ingredient] = left]
  BY Committed
<1>2. NoRow \notin Quantity
  BY MaxIntAssumption DEF Quantity, NoRow
<1>3. Stock(inventory)[r.ingredient] = inventory[r.ingredient]
  BY <1>1, <1>2, StockShowsRow
<1>4. Abstract!Pending(c)
  BY PendingInProgress DEF Commit
<1> HIDE DEF r
<1>5. Abstract!Outcome(r) = left
  BY <1>3, SameOperators DEF Abstract!Outcome
<1> HIDE DEF left
<1>6. inventory \in [Ingredients -> Quantity \cup {NoRow}]
  BY DEF IInv, TypeOK
<1>7. Stock(inventory)' = [Stock(inventory) EXCEPT ![r.ingredient] = left]
  BY <1>1, <1>2, <1>6 DEF Stock
<1>8. UNCHANGED <<request, reply>>
  BY DEF Commit, locals
<1> QED
  BY <1>1, <1>3, <1>4, <1>5, <1>7, <1>8, SameOperators DEF Abstract!Record, r

\* A statement that commits nothing and ends nothing shows nothing.
LEMMA SilentRefines ==
    ASSUME UNCHANGED <<database, request, reply>> PROVE UNCHANGED Abstract!vars
BY DEF database, Abstract!vars, Stock

\* The refusals of ApplyMovement are justified by the stock of that moment:
\* the row it read is the committed one.
LEMMA RefusalRefines ==
    ASSUME IInv, NEW c \in Calls,
           RejectUnknown(c) \/ RejectOperation(c) \/ RejectInsufficient(c)
    PROVE  Abstract!Refuse(c)
<1>1. pc[c] = "validate"
  BY DEF RejectUnknown, RejectOperation, RejectInsufficient
<1>2. /\ catalogue = Ingredients /\ request[c] \in Requests
      /\ \A i \in Ingredients :
            inventory[i] \in Quantity /\ PreviousOf(i) = inventory[i]
  BY <1>1, ViewBeforeWrites
<1>3. Abstract!Pending(c)
  BY <1>1, PendingInProgress
<1>4. CASE RejectUnknown(c)
  BY <1>2, <1>3, <1>4, ReturnRefines DEF RejectUnknown, Abstract!Refuse
<1>5. CASE RejectOperation(c)
  BY <1>2, <1>3, <1>5, ReturnRefines, SameOperators DEF RejectOperation, Abstract!Refuse
<1>6. CASE RejectInsufficient(c)
  <2> DEFINE r == request[c]
  <2>1. r.ingredient \in Ingredients /\ r.operation \in Operations
    BY <1>2, <1>6 DEF RejectInsufficient
  <2>2. inventory[r.ingredient] \in Quantity /\ NoRow \notin Quantity
    BY <1>2, <2>1, MaxIntAssumption DEF Quantity, NoRow
  <2>3. Stock(inventory)[r.ingredient] = inventory[r.ingredient]
    BY <2>1, <2>2, StockShowsRow
  <2>4. Resulting(r.operation, inventory[r.ingredient], r.quantity) < 0
    BY <1>2, <1>6, <2>1 DEF RejectInsufficient, ResultingFor
  <2>5. Exact(r.operation, inventory[r.ingredient], r.quantity) \notin Quantity
    <3> SUFFICES ASSUME Exact(r.operation, inventory[r.ingredient], r.quantity) \in Quantity
                 PROVE  FALSE
      OBVIOUS
    <3>1. Resulting(r.operation, inventory[r.ingredient], r.quantity) \in Quantity
      BY NoOverflow
    <3> HIDE DEF r
    <3> QED
      BY <2>4, <3>1, MaxIntAssumption DEF Quantity
  <2>6. Abstract!Outcome(r) \notin Abstract!Quantity
    BY <2>3, <2>5, SameOperators DEF Abstract!Outcome
  <2>7. Abstract!Answer(c, "insufficient", 0)
    BY <1>6, ReturnRefines DEF RejectInsufficient
  <2> QED
    BY <1>3, <2>1, <2>6, <2>7, SameOperators DEF Abstract!Refuse
<1> QED
  BY <1>4, <1>5, <1>6

LEMMA ConfirmationRefines ==
    ASSUME IInv, NEW c \in Calls, Replay(c) \/ Acknowledge(c)
    PROVE  Abstract!Confirm(c)
<1>1. Abstract!Pending(c)
  BY PendingInProgress DEF Replay, Acknowledge
<1>2. CASE Replay(c)
  <2> DEFINE n == PlaceOf(txMovements, request[c].key)
  <2>1. n \in 1 .. Len(movements) /\ movements[n].key = request[c].key
    BY <1>2, ReplayedOnFile
  <2>2. Abstract!Answer(c, "replayed", n)
    BY <1>2, ReturnRefines DEF Replay
  <2> QED
    BY <1>1, <2>1, <2>2 DEF Abstract!Confirm
<1>3. CASE Acknowledge(c)
  <2>1. /\ seq[c] \in 1 .. Len(movements)
        /\ movements[seq[c]] = MovementOf(request[c], movements[seq[c]].previous)
        /\ movements[seq[c]].key = request[c].key
    BY <1>3, AcknowledgedNow
  <2>2. Abstract!Answer(c, "recorded", seq[c])
    BY <1>3, ReturnRefines DEF Acknowledge
  <2>3. movements[seq[c]] = Abstract!MovementOf(request[c], movements[seq[c]].previous)
    BY <2>1, SameOperators
  <2> QED
    BY <1>1, <2>1, <2>2, <2>3 DEF Abstract!Confirm
<1> QED
  BY <1>2, <1>3

LEMMA TransactionRefines ==
    ASSUME IInv, NEW c \in Calls, Transaction(c)
    PROVE  Abstract!Next \/ UNCHANGED Abstract!vars
<1>1. CASE BeginImmediate(c) \/ LookupMisses(c) \/ Validate(c) \/ Insert(c) \/ Upsert(c)
  BY <1>1, SilentRefines
  DEF BeginImmediate, LookupMisses, Validate, Insert, Upsert
<1>2. CASE BeginFails(c) \/ InsertViolatesUnique(c) \/ StatementFails(c)
           \/ CommitReportsError(c)
  <2>1. Return(c, "failed", 0) /\ pc[c] # "idle"
    BY <1>2 DEF BeginFails, InsertViolatesUnique, StatementFails,
                CommitReportsError, TxSteps
  <2>2. Abstract!Fail(c)
    BY <2>1, PendingInProgress, ReturnRefines DEF Abstract!Fail
  <2> QED
    BY <2>2 DEF Abstract!Next
<1>3. CASE Replay(c) \/ Acknowledge(c)
  BY <1>3, ConfirmationRefines DEF Abstract!Next
<1>4. CASE RejectUnknown(c) \/ RejectOperation(c) \/ RejectInsufficient(c)
  BY <1>4, RefusalRefines DEF Abstract!Next
<1>5. CASE Commit(c)
  BY <1>5, CommitRefines DEF Abstract!Next
<1> QED
  BY <1>1, <1>2, <1>3, <1>4, <1>5 DEF Transaction

\* Seeding gives a row to the ingredients that have none, and to them the
\* opening stock Inventory has shown from the start.
LEMMA SeedRefines == ASSUME NEW p \in Procs, SeedCommit(p) PROVE UNCHANGED Abstract!vars
<1>1. NoRow \notin Quantity
  BY MaxIntAssumption DEF Quantity, NoRow
<1>2. inventory' = Stock(inventory)
  BY DEF SeedCommit, SeededInventory
<1>3. \A i \in Ingredients : OpeningStock[i] # NoRow
  BY <1>1, CatalogueAssumption
<1>4. \A i \in Ingredients : Stock(inventory)[i] # NoRow
  BY <1>3 DEF Stock
<1>5. Stock(inventory)' = Stock(inventory)
  BY <1>2, <1>4 DEF Stock
<1> QED
  BY <1>5 DEF SeedCommit, startup, Abstract!vars

LEMMA CrashRefines ==
    ASSUME IInv, NEW p \in Procs, Crash(p) PROVE Abstract!Next
<1> DEFINE S == {c \in Calls : Serves(p, c)}
<1>1. \A c \in S : Abstract!Pending(c)
  BY PendingInProgress DEF Serves
<1>2. reply' = [c \in Calls |-> IF c \in S THEN Abstract!Reply("lost", 0) ELSE reply[c]]
  BY DEF Crash, Reply, Abstract!Reply
<1>3. UNCHANGED <<Stock(inventory), movements, request>>
  BY DEF Crash, database, Stock
<1>4. Abstract!Lose(S)
  BY <1>1, <1>2, <1>3 DEF Abstract!Lose
<1> QED
  BY <1>4 DEF Abstract!Next

LEMMA NextRefines == IInv /\ [Next]_vars => [Abstract!Next]_(Abstract!vars)
<1> SUFFICES ASSUME IInv, [Next]_vars PROVE Abstract!Next \/ UNCHANGED Abstract!vars
  OBVIOUS
<1>1. ASSUME NEW p \in Procs, StartUp(p) PROVE UNCHANGED Abstract!vars
  <2>1. CASE SeedCommit(p)
    BY <2>1, SeedRefines
  <2>2. CASE Open(p) \/ Inspect(p) \/ SeedBegin(p) \/ SeedFails(p)
    BY <2>2, SilentRefines DEF Open, Inspect, SeedBegin, SeedFails, startup
  <2> QED
    BY <1>1, <2>1, <2>2 DEF StartUp
<1>2. ASSUME NEW p \in Procs, Crash(p) PROVE Abstract!Next
  BY <1>2, CrashRefines
<1>3. ASSUME NEW c \in Calls, NEW r \in Requests, Invoke(c, r) PROVE Abstract!Next
  <2>1. ~Abstract!Pending(c)
    BY <1>3, PendingInProgress DEF Invoke
  <2>2. Abstract!Invoke(c, r)
    BY <1>3, <2>1 DEF Invoke, Abstract!Invoke, Reply, Abstract!Reply, database
  <2> QED
    BY <2>2 DEF Abstract!Next
<1>4. ASSUME NEW c \in Calls, AcquireConn(c) PROVE UNCHANGED Abstract!vars
  BY <1>4, SilentRefines DEF AcquireConn
<1>5. ASSUME NEW c \in Calls, Transaction(c) PROVE Abstract!Next \/ UNCHANGED Abstract!vars
  BY <1>5, TransactionRefines
<1>6. CASE UNCHANGED vars
  BY <1>6, SilentRefines DEF vars
<1> QED
  BY <1>1, <1>2, <1>3, <1>4, <1>5, <1>6 DEF Next

\* SQLiteRepository implements Inventory: however its statements interleave
\* with those of other calls and processes, and wherever it fails or crashes,
\* a caller sees one indivisible adjustment or none.
THEOREM RepositoryRefinesInventory == Spec => ImplementsInventory
BY RepositoryInvariant, InitRefines, NextRefines, PTL
DEF Spec, ImplementsInventory, Abstract!Spec

---------------------------------------------------------------------------
(* What Inventory promises holds of the committed rows. *)

LEMMA PromiseInit == Abstract!Init => Promise!Inv
<1>1. Promise!Init => Promise!Inv
  BY PromiseAssumptions, Promise!InvInit DEF Promise!Quantity, Promise!Int64, Promise!MinInt
<1>2. Abstract!Init => Promise!Init
  BY DEF Abstract!Init, Promise!Init, Abstract!Reply, Promise!Reply
<1> QED
  BY <1>1, <1>2

LEMMA PromiseNext ==
    Promise!Inv /\ [Abstract!Next]_(Abstract!vars) => Promise!Inv'
<1>1. Promise!Inv /\ [Promise!Next]_(Promise!vars) => Promise!Inv'
  BY PromiseAssumptions, Promise!NextKeepsInv DEF Promise!Quantity, Promise!Int64, Promise!MinInt
<1>2. Abstract!Next => Promise!Next
  BY Zenon
  DEF Abstract!Next, Promise!Next, Abstract!Invoke, Promise!Invoke,
      Abstract!Pending, Promise!Pending, Abstract!Reply, Promise!Reply,
      Abstract!Record, Promise!Record, Abstract!Confirm, Promise!Confirm,
      Abstract!Answer, Promise!Answer, Abstract!Refuse, Promise!Refuse,
      Abstract!Fail, Promise!Fail, Abstract!Lose, Promise!Lose,
      Abstract!Outcome, Promise!Outcome, Abstract!KeyRecorded, Promise!KeyRecorded,
      Abstract!MovementOf, Promise!MovementOf, Abstract!Operations, Promise!Operations,
      Abstract!Resulting, Promise!Resulting, Abstract!Exact, Promise!Exact,
      Abstract!Wrap, Promise!Wrap, Abstract!MinInt, Promise!MinInt,
      Abstract!Quantity, Promise!Quantity,
      Abstract!PerformerOrDefault, Promise!PerformerOrDefault
<1>3. UNCHANGED Abstract!vars => UNCHANGED Promise!vars
  BY DEF Abstract!vars, Promise!vars
<1> QED
  BY <1>1, <1>2, <1>3

\* With any number of processes, calls and requests, through every failure
\* and crash: the committed stock is what the audit trail says, the trail has
\* no gap, no key was recorded twice, no movement wrapped around, no row is below
\* zero, and what a caller was shown is on file.
THEOREM RepositoryCorrect ==
    Spec => [](/\ TypeOK /\ AcknowledgedIsOnFile
               /\ StockMatchesLedger /\ AuditChain /\ KeysUnique /\ LedgerExact)
<1>1. Init => Promise!Inv
  BY InitRefines, PromiseInit
<1>2. IInv /\ Promise!Inv /\ [Next]_vars => Promise!Inv'
  BY NextRefines, PromiseNext
<1>3. Promise!Inv => StockMatchesLedger /\ AuditChain /\ KeysUnique /\ LedgerExact
  BY DEF Promise!Inv, StockMatchesLedger, AuditChain, KeysUnique, LedgerExact,
         Promise!StockMatchesLedger, Promise!AuditChain, Promise!KeysUnique,
         Promise!LedgerExact, Abstract!StockMatchesLedger, Abstract!AuditChain,
         Abstract!KeysUnique, Abstract!LedgerExact, Promise!IsBalance,
         Abstract!IsBalance, Promise!Exact, Abstract!Exact, Promise!Quantity,
         Abstract!Quantity
<1>4. IInv => TypeOK /\ AcknowledgedIsOnFile
  BY DEF IInv
<1> QED
  BY RepositoryInvariant, <1>1, <1>2, <1>3, <1>4, PTL DEF Spec

---------------------------------------------------------------------------
(* A repeated key is not refused, where lookups do not fail.               *)

\* A call past the lookup asks for a key that is not recorded, and stays so
\* as long as it holds the lock.
KeyLookedUp ==
    \A c \in Calls :
        pc[c] \in {"validate", "insert"} => ~KeyRecorded(movements, request[c].key)

\* Only COMMIT appends a movement, and then nobody else is past its lookup.
LEMMA NextKeepsKeyLookedUp ==
    ASSUME "lookup" \notin Faults, IInv, KeyLookedUp, [Next]_vars PROVE KeyLookedUp'
<1> USE DEF Goto, database, locals
<1>0. pc \in [Calls -> Steps] /\ request \in [Calls -> Requests \cup {NoRequest}]
  BY DEF IInv, TypeOK
<1>1. ASSUME NEW p \in Procs, StartUp(p) \/ Crash(p) PROVE KeyLookedUp'
  <2>1. UNCHANGED <<movements, request>> /\ \A c \in Calls : pc'[c] \in {pc[c], "idle"}
    BY <1>1 DEF StartUp, Open, Inspect, SeedBegin, SeedCommit, SeedFails, Crash, startup
  <2> QED
    BY <2>1 DEF KeyLookedUp
<1>2. ASSUME NEW c \in Calls, NEW r \in Requests, Invoke(c, r) PROVE KeyLookedUp'
  BY <1>0, <1>2 DEF Invoke, KeyLookedUp
<1>3. ASSUME NEW c \in Calls, AcquireConn(c) \/ BeginImmediate(c) \/ Upsert(c)
      PROVE  KeyLookedUp'
  BY <1>0, <1>3 DEF AcquireConn, BeginImmediate, Upsert, KeyLookedUp
<1>4. ASSUME NEW c \in Calls, LookupMisses(c) PROVE KeyLookedUp'
  <2>1. txMovements = movements
    BY <1>4, ViewBeforeWrites DEF LookupMisses
  <2> QED
    BY <1>0, <1>4, <2>1 DEF LookupMisses, KeyFound, KeyLookedUp
<1>5. ASSUME NEW c \in Calls, Validate(c) \/ Insert(c) PROVE KeyLookedUp'
  BY <1>0, <1>5 DEF Validate, Insert, KeyLookedUp
<1>6. ASSUME NEW c \in Calls, Commit(c) PROVE KeyLookedUp'
  <2>1. \A d \in Calls \ {c} : pc[d] \notin TxSteps
    BY <1>6 DEF Commit, IInv, OneWriter, TxSteps
  <2>2. pc'[c] = "committed" /\ \A d \in Calls \ {c} : pc'[d] = pc[d]
    BY <1>0, <1>6 DEF Commit
  <2> QED
    BY <2>1, <2>2 DEF KeyLookedUp, TxSteps
<1>7. ASSUME NEW c \in Calls, NEW outcome, NEW place, Return(c, outcome, place)
      PROVE  KeyLookedUp'
  BY <1>0, <1>7 DEF Return, KeyLookedUp
<1>8. CASE UNCHANGED vars
  BY <1>8 DEF vars, KeyLookedUp
<1>9. ASSUME NEW c \in Calls, Transaction(c) PROVE KeyLookedUp'
  BY <1>3, <1>4, <1>5, <1>6, <1>7, <1>9
  DEF Transaction, BeginFails, Replay, RejectUnknown, RejectOperation,
      RejectInsufficient, InsertViolatesUnique, StatementFails, CommitReportsError,
      Acknowledge
<1> QED
  BY <1>1, <1>2, <1>3, <1>8, <1>9 DEF Next

\* The refusals all come after the lookup.
LEMMA RefusalAfterLookup ==
    ASSUME IInv, KeyLookedUp, [Next]_vars, NEW c \in Calls,
           reply'[c] # reply[c], reply'[c].outcome \in Abstract!Refusals
    PROVE  ~KeyRecorded(movements, request[c].key)
<1>a. /\ "pending" \notin Abstract!Refusals /\ "lost" \notin Abstract!Refusals
      /\ "failed" \notin Abstract!Refusals /\ "recorded" \notin Abstract!Refusals
      /\ "replayed" \notin Abstract!Refusals
  BY DEF Abstract!Refusals
<1>b. \A outcome, place : Reply(outcome, place).outcome = outcome
  BY DEF Reply
<1>0. reply \in [Calls -> [outcome : Abstract!Outcomes, place : Nat]]
  BY DEF IInv, TypeOK
<1>1. ASSUME NEW p \in Procs, StartUp(p) \/ Crash(p) PROVE FALSE
  <2>1. reply'[c] \in {reply[c], Reply("lost", 0)}
    BY <1>1 DEF StartUp, Open, Inspect, SeedBegin, SeedCommit, SeedFails, Crash, startup
  <2> QED
    BY <1>a, <1>b, <2>1
<1>2. ASSUME NEW d \in Calls, NEW r \in Requests, Invoke(d, r) PROVE FALSE
  <2>1. reply'[c] \in {reply[c], Reply("pending", 0)}
    BY <1>0, <1>2 DEF Invoke
  <2> QED
    BY <1>a, <1>b, <2>1
<1>3. ASSUME NEW d \in Calls, AcquireConn(d) \/ BeginImmediate(d) \/ LookupMisses(d)
                 \/ Validate(d) \/ Insert(d) \/ Upsert(d) \/ Commit(d)
      PROVE  FALSE
  BY <1>3 DEF AcquireConn, BeginImmediate, LookupMisses, Validate, Insert, Upsert,
              Commit, locals
<1>4. ASSUME NEW d \in Calls, NEW outcome, NEW place, Return(d, outcome, place)
      PROVE  d = c /\ outcome \in Abstract!Refusals
  BY <1>b, <1>0, <1>4 DEF Return
<1>5. ASSUME NEW d \in Calls, Transaction(d) PROVE d = c /\ pc[c] = "validate"
  <2>1. CASE BeginFails(d) \/ Replay(d) \/ InsertViolatesUnique(d)
             \/ StatementFails(d) \/ CommitReportsError(d) \/ Acknowledge(d)
    BY <1>a, <1>4, <2>1
    DEF BeginFails, Replay, InsertViolatesUnique, StatementFails,
        CommitReportsError, Acknowledge
  <2>2. CASE RejectUnknown(d) \/ RejectOperation(d) \/ RejectInsufficient(d)
    BY <1>4, <2>2 DEF RejectUnknown, RejectOperation, RejectInsufficient
  <2>3. ~(BeginImmediate(d) \/ LookupMisses(d) \/ Validate(d) \/ Insert(d)
           \/ Upsert(d) \/ Commit(d))
    BY <1>3
  <2> QED
    BY <1>5, <2>1, <2>2, <2>3 DEF Transaction
<1>6. CASE UNCHANGED vars
  BY <1>6 DEF vars
<1> QED
  BY <1>1, <1>2, <1>3, <1>5, <1>6 DEF Next, KeyLookedUp

\* Where reading a movement does not fail, a client that repeats a key is
\* never told that its adjustment is impossible: it is shown the movement.
THEOREM RetryIsNeverRefused ==
    ASSUME "lookup" \notin Faults PROVE Spec => RepeatedKeyNeverRefused
<1>1. Init => KeyLookedUp
  BY DEF Init, KeyLookedUp
<1>2. IInv /\ KeyLookedUp /\ [Next]_vars => KeyLookedUp'
  BY NextKeepsKeyLookedUp
<1>3. IInv /\ KeyLookedUp /\ [Next]_vars =>
          [\A c \in Calls :
              /\ reply'[c] # reply[c]
              /\ reply'[c].outcome \in Abstract!Refusals
              => ~KeyRecorded(movements, request[c].key)]_vars
  BY RefusalAfterLookup
<1> QED
  BY RepositoryInvariant, <1>1, <1>2, <1>3, PTL DEF Spec, RepeatedKeyNeverRefused
===========================================================================
