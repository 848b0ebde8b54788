----------------------- MODULE MemoryRepositoryProofs -----------------------
(***************************************************************************)
(* MemoryRepository implements Inventory: the map of movements, ordered by *)
(* the numbers it gave them, is the ledger of the contract.                *)
(***************************************************************************)
EXTENDS MemoryRepository, TLAPS

---------------------------------------------------------------------------
(* The arithmetic of an adjustment is that of the contract, for which it   *)
(* is proved that a result that is not negative did not wrap around.       *)

Promise == INSTANCE InventoryProofs WITH stock <- inventory, ledger <- Ledger

\* The assumptions of Inventory are those of this module.
LEMMA PromiseAssumptions ==
    /\ MaxInt \in Nat \ {0}
    /\ Ingredients # {} /\ OpeningStock \in [Ingredients -> Promise!Quantity]
    /\ \A r \in Requests :
          /\ DOMAIN r = {"key", "ingredient", "operation", "quantity", "performedBy"}
          /\ r.quantity \in Promise!Int64
BY MaxIntAssumption, CatalogueAssumption, RequestsAssumption
DEF Quantity, Int64, MinInt, Promise!Quantity, Promise!Int64, Promise!MinInt

LEMMA SameArithmetic ==
    /\ Promise!Operations = Operations /\ Promise!Quantity = Quantity
    /\ Promise!Int64 = Int64
    /\ \A op, before, q :
          /\ Promise!Exact(op, before, q) = Exact(op, before, q)
          /\ Promise!Resulting(op, before, q) = Resulting(op, before, q)
BY DEF Promise!Operations, Operations, Promise!Quantity, Quantity, Promise!Int64, Int64,
       Promise!MinInt, MinInt, Promise!Exact, Exact, Promise!Resulting, Resulting,
       Promise!Wrap, Wrap

LEMMA OverflowCaught ==
    ASSUME NEW op \in Operations, NEW before \in Quantity, NEW q \in Int64,
           Resulting(op, before, q) >= 0
    PROVE  /\ Resulting(op, before, q) = Exact(op, before, q)
           /\ Resulting(op, before, q) \in Quantity
BY PromiseAssumptions, SameArithmetic, Promise!OverflowCaught

LEMMA NoOverflow ==
    ASSUME NEW op, NEW before, NEW q, Exact(op, before, q) \in Quantity
    PROVE  Resulting(op, before, q) = Exact(op, before, q)
BY PromiseAssumptions, SameArithmetic, Promise!NoOverflow

---------------------------------------------------------------------------
(* The invariant.                                                          *)

Types ==
    /\ inventory \in [Ingredients -> Quantity]
    /\ movementSeq \in Nat
    /\ request \in [Calls -> Requests \cup {NoRequest}]
    /\ reply \in [Calls -> [outcome : Contract!Outcomes, place : Nat]]
    /\ made \in [Calls -> Nat]
    /\ \A c \in Calls : reply[c].outcome = "pending" => request[c] \in Requests

\* Every number up to seq is that of exactly one movement, and every movement
\* is under its own key.
NumberedUpTo(byKey, seq) ==
    /\ \A k \in DOMAIN byKey :
          /\ byKey[k].id \in 1 .. seq
          /\ byKey[k].movement \in Movement
          /\ byKey[k].movement.key = k
    /\ \A j, k \in DOMAIN byKey : byKey[j].id = byKey[k].id => j = k
    /\ \A n \in 1 .. seq : \E k \in DOMAIN byKey : byKey[k].id = n

Numbered == NumberedUpTo(movementsByKey, movementSeq)

\* A movement that a call has made and not shown is the one it asked for.
MadeIsOwn ==
    \A c \in Calls : made[c] # 0 =>
        LET k == request[c].key IN
        /\ reply[c].outcome = "pending"
        /\ k \in Recorded /\ movementsByKey[k].id = made[c]
        /\ movementsByKey[k].movement
              = MovementOf(request[c], movementsByKey[k].movement.previous)

IInv == Types /\ Numbered /\ MadeIsOwn

---------------------------------------------------------------------------
(* The ledger.                                                             *)

LEMMA LedgerIsSequence ==
    ASSUME NEW byKey, NEW seq \in Nat, NumberedUpTo(byKey, seq)
    PROVE  /\ LedgerOf(byKey, seq) \in Seq(Movement)
           /\ Len(LedgerOf(byKey, seq)) = seq
           /\ \A k \in DOMAIN byKey :
                 LedgerOf(byKey, seq)[byKey[k].id] = byKey[k].movement
<1> DEFINE KeyOf(n) == CHOOSE k \in DOMAIN byKey : byKey[k].id = n
<1>1. ASSUME NEW n \in 1 .. seq
      PROVE  KeyOf(n) \in DOMAIN byKey /\ byKey[KeyOf(n)].id = n
  <2>1. \E k \in DOMAIN byKey : byKey[k].id = n
    BY DEF NumberedUpTo
  <2> QED
    BY <2>1
<1>2. LedgerOf(byKey, seq) = [n \in 1 .. seq |-> byKey[KeyOf(n)].movement]
  BY DEF LedgerOf
<1> HIDE DEF KeyOf
<1>3. \A n \in 1 .. seq : byKey[KeyOf(n)].movement \in Movement
  BY <1>1 DEF NumberedUpTo
<1>4. LedgerOf(byKey, seq) \in Seq(Movement) /\ Len(LedgerOf(byKey, seq)) = seq
  BY <1>2, <1>3
<1>5. ASSUME NEW k \in DOMAIN byKey
      PROVE  LedgerOf(byKey, seq)[byKey[k].id] = byKey[k].movement
  <2>1. byKey[k].id \in 1 .. seq
    BY DEF NumberedUpTo
  <2>2. KeyOf(byKey[k].id) = k
    BY <1>1, <2>1 DEF NumberedUpTo
  <2> QED
    BY <1>2, <2>1, <2>2
<1> QED
  BY <1>4, <1>5

\* A key is on the ledger when it is in the map.
LEMMA LedgerKeys ==
    ASSUME NEW byKey, NEW seq \in Nat, NumberedUpTo(byKey, seq), NEW k
    PROVE  Contract!KeyRecorded(LedgerOf(byKey, seq), k) <=> k \in DOMAIN byKey
<1> DEFINE l == LedgerOf(byKey, seq)
<1>0. Len(l) = seq /\ \A j \in DOMAIN byKey : l[byKey[j].id] = byKey[j].movement
  BY LedgerIsSequence
<1> HIDE DEF l
<1>1. ASSUME k \in DOMAIN byKey PROVE Contract!KeyRecorded(l, k)
  <2>1. byKey[k].id \in 1 .. Len(l) /\ l[byKey[k].id].key = k
    BY <1>0, <1>1 DEF NumberedUpTo
  <2> QED
    BY <2>1 DEF Contract!KeyRecorded
<1>2. ASSUME Contract!KeyRecorded(l, k) PROVE k \in DOMAIN byKey
  <2>1. PICK n \in 1 .. Len(l) : l[n].key = k
    BY <1>2 DEF Contract!KeyRecorded
  <2>2. PICK j \in DOMAIN byKey : byKey[j].id = n
    BY <1>0, <2>1 DEF NumberedUpTo
  <2>3. l[n] = byKey[j].movement /\ byKey[j].movement.key = j
    BY <1>0, <2>2 DEF NumberedUpTo
  <2> QED
    BY <2>1, <2>3
<1> QED
  BY <1>1, <1>2 DEF l

LEMMA AppendIs ==
    ASSUME NEW S, NEW s \in Seq(S), NEW t \in Seq(S), NEW m \in S,
           Len(t) = Len(s) + 1, t[Len(s) + 1] = m, \A n \in 1 .. Len(s) : t[n] = s[n]
    PROVE  t = Append(s, m)
OBVIOUS

---------------------------------------------------------------------------
(* The one step that records.                                              *)

LEMMA StoredMovement ==
    ASSUME NamedRequests, IInv, NEW c \in Calls, Store(c)
    PROVE  LET r == request[c]
               m == MovementOf(r, inventory[r.ingredient])
           IN  /\ r \in Requests /\ m \in Movement
               /\ m.key = r.key /\ m.previous = inventory[r.ingredient]
               /\ MovementMade(r) = m
               /\ ResultingFor(r) = Exact(r.operation, inventory[r.ingredient], r.quantity)
               /\ ResultingFor(r) \in Quantity
<1> DEFINE r == request[c]
           m == MovementOf(r, inventory[r.ingredient])
<1>1. r \in Requests /\ r.ingredient \in Ingredients /\ r.operation \in Operations
  BY DEF IInv, Types, Store, Checked, Waiting
<1>2. inventory[r.ingredient] \in Quantity /\ r.quantity \in Int64
  BY <1>1, RequestsAssumption DEF IInv, Types
<1>3. m \in Movement
  BY <1>1, <1>2 DEF Movement
<1>4. MovementMade(r) = m
  <2>1. m.performedBy = r.performedBy
    BY <1>1 DEF NamedRequests, MovementOf, PerformerOrDefault
  <2>2. [m EXCEPT !.performedBy = m.performedBy] = m
    BY DEF MovementOf
  <2> QED
    BY <2>1, <2>2 DEF MovementMade
<1>5. ResultingFor(r) >= 0
  BY DEF Store
<1>6. /\ ResultingFor(r) = Exact(r.operation, inventory[r.ingredient], r.quantity)
      /\ ResultingFor(r) \in Quantity
  BY <1>1, <1>2, <1>5, OverflowCaught DEF ResultingFor
<1>7. m.key = r.key /\ m.previous = inventory[r.ingredient]
  BY DEF MovementOf
<1> QED
  BY <1>1, <1>3, <1>4, <1>6, <1>7

LEMMA StoreRecords ==
    ASSUME NamedRequests, IInv, NEW c \in Calls, Store(c)
    PROVE  /\ Numbered' /\ movementSeq' \in Nat
           /\ Ledger' = Append(Ledger, MovementOf(request[c], inventory[request[c].ingredient]))
           /\ \A k \in Recorded : k \in Recorded' /\ movementsByKey'[k] = movementsByKey[k]
           /\ request[c].key \in Recorded'
           /\ movementsByKey'[request[c].key].id = movementSeq + 1
           /\ movementsByKey'[request[c].key].movement
                 = MovementOf(request[c], inventory[request[c].ingredient])
<1> DEFINE r == request[c]
           m == MovementOf(r, inventory[r.ingredient])
<1>1. /\ m \in Movement /\ m.key = r.key /\ MovementMade(r) = m
  BY StoredMovement
<1>2. /\ movementSeq \in Nat /\ Numbered /\ r.key \notin Recorded
      /\ movementSeq' = movementSeq + 1
      /\ movementsByKey' = [k \in Recorded \cup {r.key} |->
            IF k = r.key THEN [id |-> movementSeq + 1, movement |-> m]
            ELSE movementsByKey[k]]
  BY <1>1 DEF IInv, Types, Store, Checked
<1> HIDE DEF m
<1>3. /\ Recorded' = Recorded \cup {r.key}
      /\ \A k \in Recorded : movementsByKey'[k] = movementsByKey[k]
      /\ movementsByKey'[r.key] = [id |-> movementSeq + 1, movement |-> m]
  BY <1>2 DEF Recorded
<1>4. Numbered'
  <2>1. \A k \in Recorded' :
          /\ movementsByKey'[k].id \in 1 .. movementSeq'
          /\ movementsByKey'[k].movement \in Movement
          /\ movementsByKey'[k].movement.key = k
    BY <1>1, <1>2, <1>3 DEF Numbered, NumberedUpTo, Recorded
  <2>2. \A j, k \in Recorded' : movementsByKey'[j].id = movementsByKey'[k].id => j = k
    BY <1>2, <1>3 DEF Numbered, NumberedUpTo, Recorded
  <2>3. ASSUME NEW n \in 1 .. movementSeq'
        PROVE  \E k \in Recorded' : movementsByKey'[k].id = n
    <3>1. CASE n = movementSeq + 1
      BY <1>3, <3>1
    <3>2. CASE n # movementSeq + 1
      <4>1. n \in 1 .. movementSeq
        BY <1>2, <3>2
      <4> QED
        BY <1>2, <1>3, <4>1 DEF Numbered, NumberedUpTo, Recorded
    <3> QED
      BY <3>1, <3>2
  <2> QED
    BY <2>1, <2>2, <2>3 DEF Numbered, NumberedUpTo, Recorded
<1>5. movementSeq' \in Nat
  BY <1>2
<1>6. /\ Ledger \in Seq(Movement) /\ Len(Ledger) = movementSeq
      /\ \A k \in Recorded : Ledger[movementsByKey[k].id] = movementsByKey[k].movement
  BY <1>2, LedgerIsSequence DEF Numbered, Ledger, Recorded
<1>7. /\ Ledger' \in Seq(Movement) /\ Len(Ledger') = movementSeq'
      /\ \A k \in Recorded' : Ledger'[movementsByKey'[k].id] = movementsByKey'[k].movement
  BY <1>4, <1>5, LedgerIsSequence DEF Numbered, Ledger, Recorded
<1>8. Ledger'[movementSeq + 1] = m
  BY <1>3, <1>7
<1>9. ASSUME NEW n \in 1 .. movementSeq PROVE Ledger'[n] = Ledger[n]
  <2>1. PICK k \in Recorded : movementsByKey[k].id = n
    BY <1>2 DEF Numbered, NumberedUpTo, Recorded
  <2> QED
    BY <1>3, <1>6, <1>7, <2>1
<1>10. Ledger' = Append(Ledger, m)
  BY <1>1, <1>2, <1>6, <1>7, <1>8, <1>9, AppendIs
<1> QED
  BY <1>3, <1>4, <1>5, <1>10 DEF m

---------------------------------------------------------------------------
(* The invariant is inductive.                                             *)

LEMMA IInvInit == ASSUME Init PROVE IInv
<1>1. Types
  BY CatalogueAssumption DEF Init, Types, Reply, Contract!Outcomes
<1>2. Numbered
  BY DEF Init, Numbered, NumberedUpTo
<1>3. MadeIsOwn
  BY DEF Init, MadeIsOwn
<1> QED
  BY <1>1, <1>2, <1>3 DEF IInv

LEMMA InvokeKeepsIInv ==
    ASSUME IInv, NEW c \in Calls, NEW r \in Requests, Invoke(c, r) PROVE IInv'
<1>1. /\ request'[c] = r /\ reply'[c] = Reply("pending", 0)
      /\ \A d \in Calls \ {c} : request'[d] = request[d] /\ reply'[d] = reply[d]
  BY DEF Invoke, IInv, Types
<1>2. Types'
  BY <1>1 DEF Invoke, IInv, Types, Reply, Contract!Outcomes
<1>3. Numbered'
  BY DEF Invoke, IInv, Numbered
<1>4. MadeIsOwn'
  BY <1>1 DEF Invoke, IInv, MadeIsOwn, Recorded
<1> QED
  BY <1>2, <1>3, <1>4 DEF IInv

LEMMA AnswerKeepsIInv ==
    ASSUME IInv, NEW c \in Calls, NEW outcome \in Contract!Outcomes \ {"pending"},
           NEW id \in Nat, Answer(c, outcome, id)
    PROVE  IInv'
<1>1. /\ made'[c] = 0 /\ reply'[c] = Reply(outcome, id)
      /\ \A d \in Calls \ {c} : made'[d] = made[d] /\ reply'[d] = reply[d]
  BY DEF Answer, IInv, Types
<1>2. Types'
  BY <1>1 DEF Answer, IInv, Types, Reply
<1>3. Numbered'
  BY DEF Answer, IInv, Numbered
<1>4. MadeIsOwn'
  BY <1>1 DEF Answer, IInv, MadeIsOwn, Recorded
<1> QED
  BY <1>2, <1>3, <1>4 DEF IInv

LEMMA StoreKeepsIInv ==
    ASSUME NamedRequests, IInv, NEW c \in Calls, Store(c) PROVE IInv'
<1>1. /\ Numbered' /\ movementSeq' \in Nat
      /\ \A k \in Recorded : k \in Recorded' /\ movementsByKey'[k] = movementsByKey[k]
      /\ request[c].key \in Recorded'
      /\ movementsByKey'[request[c].key].id = movementSeq + 1
      /\ movementsByKey'[request[c].key].movement
            = MovementOf(request[c], inventory[request[c].ingredient])
  BY StoreRecords
<1>2. /\ reply[c].outcome = "pending" /\ UNCHANGED <<request, reply>>
      /\ made'[c] = movementSeq + 1 /\ movementSeq \in Nat
      /\ \A d \in Calls \ {c} : made'[d] = made[d]
  BY DEF Store, Checked, Waiting, IInv, Types
<1>3. Types'
  <2>1. ResultingFor(request[c]) \in Quantity
    BY StoredMovement
  <2>2. inventory' \in [Ingredients -> Quantity] /\ made' \in [Calls -> Nat]
    BY <2>1 DEF Store, IInv, Types
  <2> QED
    BY <1>1, <1>2, <2>2 DEF IInv, Types
<1>4. MadeIsOwn'
  <2>1. ASSUME NEW d \in Calls, made'[d] # 0
        PROVE  LET k == request'[d].key IN
               /\ reply'[d].outcome = "pending"
               /\ k \in Recorded' /\ movementsByKey'[k].id = made'[d]
               /\ movementsByKey'[k].movement
                     = MovementOf(request'[d], movementsByKey'[k].movement.previous)
    <3>1. CASE d = c
      <4>1. MovementOf(request[c], inventory[request[c].ingredient]).previous
              = inventory[request[c].ingredient]
        BY DEF MovementOf
      <4> QED
        BY <1>1, <1>2, <3>1, <4>1
    <3>2. CASE d # c
      BY <1>1, <1>2, <2>1, <3>2 DEF IInv, MadeIsOwn
    <3> QED
      BY <3>1, <3>2
  <2> QED
    BY <2>1 DEF MadeIsOwn
<1> QED
  BY <1>1, <1>3, <1>4 DEF IInv

\* What the steps that answer answer.
LEMMA AnswersAre ==
    ASSUME IInv, NEW c \in Calls, Replay(c) \/ Reject(c) \/ Return(c)
    PROVE  \E outcome \in Contract!Outcomes \ {"pending"}, id \in Nat :
              Answer(c, outcome, id)
<1>1. CASE Replay(c)
  <2>1. movementsByKey[request[c].key].id \in Nat
    BY <1>1 DEF Replay, IInv, Types, Numbered, NumberedUpTo, Recorded
  <2> QED
    BY <1>1, <2>1 DEF Replay, Contract!Outcomes
<1>2. CASE Reject(c)
  BY <1>2 DEF Reject, Contract!Outcomes, Contract!Refusals
<1>3. CASE Return(c)
  BY <1>3 DEF Return, IInv, Types, Contract!Outcomes
<1> QED
  BY <1>1, <1>2, <1>3

LEMMA NextKeepsIInv == ASSUME NamedRequests, IInv, [Next]_vars PROVE IInv'
<1>1. ASSUME NEW c \in Calls, NEW r \in Requests, Invoke(c, r) PROVE IInv'
  BY <1>1, InvokeKeepsIInv
<1>2. ASSUME NEW c \in Calls, Replay(c) \/ Reject(c) \/ Return(c) PROVE IInv'
  BY <1>2, AnswersAre, AnswerKeepsIInv
<1>3. ASSUME NEW c \in Calls, Store(c) PROVE IInv'
  BY <1>3, StoreKeepsIInv
<1>4. CASE UNCHANGED vars
  BY <1>4 DEF vars, IInv, Types, Numbered, MadeIsOwn, Recorded
<1> QED
  BY <1>1, <1>2, <1>3, <1>4 DEF Next

---------------------------------------------------------------------------
(* Refinement: Store is the step Inventory calls Record, and the answers   *)
(* are its answers.                                                        *)

\* The operators of the contract are those of this module.
LEMMA SameOperators ==
    /\ \A r, q : Contract!MovementOf(r, q) = MovementOf(r, q)
    /\ \A op, p, q : Contract!Exact(op, p, q) = Exact(op, p, q)
    /\ Contract!Quantity = Quantity /\ Contract!Operations = Operations
BY DEF Contract!MovementOf, MovementOf, Contract!PerformerOrDefault, PerformerOrDefault,
       Contract!Resulting, Resulting, Contract!Exact, Exact, Contract!Wrap, Wrap,
       Contract!MinInt, MinInt, Contract!Quantity, Quantity, Contract!Operations, Operations

LEMMA InitRefines == ASSUME Init PROVE Contract!Init
<1>1. Ledger = << >>
  BY DEF Init, Ledger, LedgerOf
<1> QED
  BY <1>1 DEF Init, Contract!Init, Reply, Contract!Reply

\* An answer is an answer of the contract, whose ledger it does not touch.
LEMMA AnswerRefines ==
    ASSUME NEW c \in Calls, NEW outcome, NEW id, Answer(c, outcome, id)
    PROVE  Contract!Answer(c, outcome, id)
BY DEF Answer, Contract!Answer, Reply, Contract!Reply, Ledger

\* A key of the map shows the movement at the place of its number.
LEMMA LedgerShows ==
    ASSUME IInv, NEW k \in Recorded
    PROVE  /\ movementsByKey[k].id \in 1 .. Len(Ledger)
           /\ Ledger[movementsByKey[k].id] = movementsByKey[k].movement
           /\ movementsByKey[k].movement.key = k
<1>1. movementSeq \in Nat /\ NumberedUpTo(movementsByKey, movementSeq)
  BY DEF IInv, Types, Numbered
<1>2. /\ Len(Ledger) = movementSeq
      /\ Ledger[movementsByKey[k].id] = movementsByKey[k].movement
  BY <1>1, LedgerIsSequence DEF Ledger, Recorded
<1>3. movementsByKey[k].id \in 1 .. movementSeq /\ movementsByKey[k].movement.key = k
  BY <1>1 DEF NumberedUpTo, Recorded
<1> QED
  BY <1>2, <1>3

LEMMA ConfirmationRefines ==
    ASSUME IInv, NEW c \in Calls, Replay(c) \/ Return(c)
    PROVE  Contract!Confirm(c)
<1> DEFINE k == request[c].key
           n == movementsByKey[k].id
<1>1. CASE Replay(c)
  <2>1. k \in Recorded /\ Contract!Pending(c) /\ Contract!Answer(c, "replayed", n)
    BY <1>1, AnswerRefines DEF Replay, Waiting, Contract!Pending
  <2>2. n \in 1 .. Len(Ledger) /\ Ledger[n].key = k
    BY <2>1, LedgerShows
  <2> QED
    BY <2>1, <2>2 DEF Contract!Confirm
<1>2. CASE Return(c)
  <2>1. /\ k \in Recorded /\ n = made[c] /\ Contract!Pending(c)
        /\ movementsByKey[k].movement
              = MovementOf(request[c], movementsByKey[k].movement.previous)
    BY <1>2 DEF Return, IInv, MadeIsOwn, Contract!Pending
  <2>2. Contract!Answer(c, "recorded", n)
    BY <1>2, <2>1, AnswerRefines DEF Return
  <2>3. /\ n \in 1 .. Len(Ledger) /\ Ledger[n].key = k
        /\ Ledger[n] = Contract!MovementOf(request[c], Ledger[n].previous)
    BY <2>1, LedgerShows, SameOperators
  <2> QED
    BY <2>1, <2>2, <2>3 DEF Contract!Confirm
<1> QED
  BY <1>1, <1>2

LEMMA RefusalRefines ==
    ASSUME IInv, NEW c \in Calls, Reject(c) PROVE Contract!Refuse(c)
<1> DEFINE r == request[c]
<1>1. Contract!Pending(c) /\ r \in Requests
  BY DEF Reject, Checked, Waiting, Contract!Pending, IInv, Types
<1>2. CASE r.ingredient \notin Ingredients /\ Answer(c, "unknown ingredient", 0)
  BY <1>1, <1>2, AnswerRefines DEF Contract!Refuse
<1>3. CASE r.operation \notin Operations /\ Answer(c, "invalid operation", 0)
  BY <1>1, <1>3, AnswerRefines, SameOperators DEF Contract!Refuse
<1>4. CASE /\ r.ingredient \in Ingredients /\ r.operation \in Operations
           /\ ResultingFor(r) < 0 /\ Answer(c, "insufficient", 0)
  <2>1. Exact(r.operation, inventory[r.ingredient], r.quantity) \notin Quantity
    <3> SUFFICES ASSUME Exact(r.operation, inventory[r.ingredient], r.quantity) \in Quantity
                 PROVE  FALSE
      OBVIOUS
    <3>1. ResultingFor(r) \in Quantity
      BY NoOverflow DEF ResultingFor
    <3> QED
      BY <1>4, <3>1, MaxIntAssumption DEF Quantity
  <2>2. Contract!Outcome(r) \notin Contract!Quantity
    BY <2>1, SameOperators DEF Contract!Outcome
  <2>3. Contract!Answer(c, "insufficient", 0)
    BY <1>4, AnswerRefines
  <2> QED
    BY <1>1, <1>4, <2>2, <2>3, SameOperators DEF Contract!Refuse
<1> QED
  BY <1>2, <1>3, <1>4 DEF Reject

LEMMA StoreRefines ==
    ASSUME NamedRequests, IInv, NEW c \in Calls, Store(c) PROVE Contract!Record(c)
<1> DEFINE r == request[c]
<1>1. /\ Contract!Pending(c) /\ r.ingredient \in Ingredients /\ r.operation \in Operations
      /\ r.key \notin Recorded /\ UNCHANGED <<request, reply>>
      /\ inventory' = [inventory EXCEPT ![r.ingredient] = ResultingFor(r)]
  BY DEF Store, Checked, Waiting, Contract!Pending
<1>2. ~Contract!KeyRecorded(Ledger, r.key)
  BY <1>1, LedgerKeys DEF IInv, Types, Numbered, Ledger, Recorded
<1>3. /\ ResultingFor(r) = Exact(r.operation, inventory[r.ingredient], r.quantity)
      /\ ResultingFor(r) \in Quantity
  BY StoredMovement
<1>4. Ledger' = Append(Ledger, MovementOf(r, inventory[r.ingredient]))
  BY StoreRecords
<1>5. Contract!Outcome(r) = ResultingFor(r)
  BY <1>3, SameOperators DEF Contract!Outcome
<1> QED
  BY <1>1, <1>2, <1>3, <1>4, <1>5, SameOperators DEF Contract!Record

LEMMA NextRefines ==
    ASSUME NamedRequests, IInv, [Next]_vars
    PROVE  [Contract!Next]_(Contract!vars)
<1>1. ASSUME NEW c \in Calls, NEW r \in Requests, Invoke(c, r) PROVE Contract!Next
  <2>1. Contract!Invoke(c, r)
    BY <1>1 DEF Invoke, Contract!Invoke, Contract!Pending, Reply, Contract!Reply, Ledger
  <2> QED
    BY <2>1 DEF Contract!Next
<1>2. ASSUME NEW c \in Calls, Replay(c) \/ Return(c) PROVE Contract!Next
  BY <1>2, ConfirmationRefines DEF Contract!Next
<1>3. ASSUME NEW c \in Calls, Reject(c) PROVE Contract!Next
  BY <1>3, RefusalRefines DEF Contract!Next
<1>4. ASSUME NEW c \in Calls, Store(c) PROVE Contract!Next
  BY <1>4, StoreRefines DEF Contract!Next
<1>5. CASE UNCHANGED vars
  BY <1>5 DEF vars, Contract!vars, Ledger
<1> QED
  BY <1>1, <1>2, <1>3, <1>4, <1>5 DEF Next

\* The maps behind the mutex keep the contract that the transactions of
\* SQLiteRepository keep: what the tests learn of one of them against the
\* other is not an accident of the maps.  Requests name their user, because
\* only SQLiteRepository fills in one that is missing.
THEOREM MemoryRefinesInventory == ASSUME NamedRequests PROVE Spec => ImplementsInventory
<1>1. Init => IInv
  BY IInvInit
<1>2. IInv /\ [Next]_vars => IInv'
  BY NextKeepsIInv
<1>3. Init => Contract!Init
  BY InitRefines
<1>4. IInv /\ [Next]_vars => [Contract!Next]_(Contract!vars)
  BY NextRefines
<1> QED
  BY <1>1, <1>2, <1>3, <1>4, PTL DEF Spec, ImplementsInventory, Contract!Spec

---------------------------------------------------------------------------
(* What Inventory promises holds of the maps. *)

LEMMA PromiseInit == Contract!Init => Promise!Inv
<1>1. Promise!Init => Promise!Inv
  BY PromiseAssumptions, Promise!InvInit DEF Promise!Quantity, Promise!Int64, Promise!MinInt
<1>2. Contract!Init => Promise!Init
  BY DEF Contract!Init, Promise!Init, Contract!Reply, Promise!Reply
<1> QED
  BY <1>1, <1>2

LEMMA PromiseNext ==
    Promise!Inv /\ [Contract!Next]_(Contract!vars) => Promise!Inv'
<1>1. Promise!Inv /\ [Promise!Next]_(Promise!vars) => Promise!Inv'
  BY PromiseAssumptions, Promise!NextKeepsInv DEF Promise!Quantity, Promise!Int64, Promise!MinInt
<1>2. Contract!Next => Promise!Next
  BY Zenon
  DEF Contract!Next, Promise!Next, Contract!Invoke, Promise!Invoke,
      Contract!Pending, Promise!Pending, Contract!Reply, Promise!Reply,
      Contract!Record, Promise!Record, Contract!Confirm, Promise!Confirm,
      Contract!Answer, Promise!Answer, Contract!Refuse, Promise!Refuse,
      Contract!Fail, Promise!Fail, Contract!Lose, Promise!Lose,
      Contract!Outcome, Promise!Outcome, Contract!KeyRecorded, Promise!KeyRecorded,
      Contract!MovementOf, Promise!MovementOf, Contract!Operations, Promise!Operations,
      Contract!Resulting, Promise!Resulting, Contract!Exact, Promise!Exact,
      Contract!Wrap, Promise!Wrap, Contract!MinInt, Promise!MinInt,
      Contract!Quantity, Promise!Quantity,
      Contract!PerformerOrDefault, Promise!PerformerOrDefault
<1>3. UNCHANGED Contract!vars => UNCHANGED Promise!vars
  BY DEF Contract!vars, Promise!vars
<1> QED
  BY <1>1, <1>2, <1>3

\* So the maps have what InventoryCorrect says: whatever is asked and in
\* whatever order, no key is stored twice, the quantities are those the last
\* movements left, the movements form an unbroken chain, and none wrapped
\* around (MemoryRepository.ApplyMovement).
THEOREM MemoryLedgerCorrect ==
    ASSUME NamedRequests
    PROVE  Spec => [](/\ Contract!KeysUnique /\ Contract!StockMatchesLedger
                      /\ Contract!AuditChain /\ Contract!LedgerExact)
<1>1. Init => IInv /\ Promise!Inv
  BY IInvInit, InitRefines, PromiseInit
<1>2. IInv /\ Promise!Inv /\ [Next]_vars => IInv' /\ Promise!Inv'
  BY NextKeepsIInv, NextRefines, PromiseNext
<1>3. Promise!Inv => /\ Contract!KeysUnique /\ Contract!StockMatchesLedger
                     /\ Contract!AuditChain /\ Contract!LedgerExact
  BY DEF Promise!Inv, Promise!StockMatchesLedger, Promise!AuditChain, Promise!KeysUnique,
         Promise!LedgerExact, Contract!StockMatchesLedger, Contract!AuditChain,
         Contract!KeysUnique, Contract!LedgerExact, Promise!IsBalance, Contract!IsBalance,
         Promise!Exact, Contract!Exact, Promise!Quantity, Contract!Quantity
<1> QED
  BY <1>1, <1>2, <1>3, PTL DEF Spec
===========================================================================
