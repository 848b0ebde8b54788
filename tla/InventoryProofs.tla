-------------------------- MODULE InventoryProofs --------------------------
(***************************************************************************)
(* Proofs about Inventory: its ledger and its stock always agree, whatever *)
(* the requests, and no recorded movement ever wrapped around.             *)
(***************************************************************************)
EXTENDS Inventory, TLAPS

---------------------------------------------------------------------------
(* The arithmetic of an adjustment.                                        *)

\* Resulting computes on int64 and only its sign is tested afterwards; a
\* result that is not negative is the exact one.  So the check of
\* "resulting < 0" in ApplyMovement catches every overflow too.
THEOREM OverflowCaught ==
    ASSUME NEW op \in Operations, NEW previous \in Quantity, NEW q \in Int64,
           Resulting(op, previous, q) >= 0
    PROVE  /\ Resulting(op, previous, q) = Exact(op, previous, q)
           /\ Resulting(op, previous, q) \in Quantity
<1>1. MaxInt \in Nat \ {0}
  BY MaxIntAssumption
<1>2. previous \in Int /\ 0 <= previous /\ previous <= MaxInt
  BY <1>1 DEF Quantity
<1>3. q \in Int /\ -(MaxInt + 1) <= q /\ q <= MaxInt
  BY <1>1 DEF Int64, MinInt
<1>4. CASE op = "add"
  BY <1>1, <1>2, <1>3, <1>4 DEF Resulting, Exact, Wrap, MinInt, Quantity
<1>5. CASE op = "subtract"
  BY <1>1, <1>2, <1>3, <1>5 DEF Resulting, Exact, Wrap, MinInt, Quantity
<1>6. CASE op = "set"
  BY <1>1, <1>2, <1>3, <1>6 DEF Resulting, Exact, Wrap, MinInt, Quantity
<1> QED
  BY <1>4, <1>5, <1>6 DEF Operations

\* The converse: an adjustment whose exact result is a quantity is computed
\* without wrapping around.
LEMMA NoOverflow ==
    ASSUME NEW op, NEW previous, NEW q, Exact(op, previous, q) \in Quantity
    PROVE  Resulting(op, previous, q) = Exact(op, previous, q)
BY MaxIntAssumption DEF Resulting, Wrap, Quantity, MinInt

---------------------------------------------------------------------------
(* How a balance changes when a movement is appended. *)

\* Appending does not change what the movements before it left.
LEMMA BalanceKept ==
    ASSUME NEW S, NEW l \in Seq(S), NEW m \in S, NEW i, NEW q,
           NEW n \in 0 .. Len(l), IsBalance(l, i, n, q)
    PROVE  IsBalance(Append(l, m), i, n, q)
<1>1. \A k \in 1 .. n : Append(l, m)[k] = l[k]
  OBVIOUS
<1>2. CASE q = OpeningStock[i] /\ \A k \in 1 .. n : l[k].ingredient # i
  BY <1>1, <1>2 DEF IsBalance
<1>3. CASE \E k \in 1 .. n : /\ l[k].ingredient = i /\ l[k].resulting = q
                             /\ \A later \in k + 1 .. n : l[later].ingredient # i
  <2>1. PICK k \in 1 .. n : /\ l[k].ingredient = i /\ l[k].resulting = q
                            /\ \A later \in k + 1 .. n : l[later].ingredient # i
    BY <1>3
  <2>2. \A later \in k + 1 .. n : later \in 1 .. n
    BY <2>1
  <2> QED
    BY <1>1, <2>1, <2>2 DEF IsBalance
<1> QED
  BY <1>2, <1>3 DEF IsBalance

\* After a movement, its ingredient has what it left.
LEMMA BalanceMoved ==
    ASSUME NEW S, NEW l \in Seq(S), NEW m \in S
    PROVE  IsBalance(Append(l, m), m.ingredient, Len(l) + 1, m.resulting)
<1>1. Len(l) + 1 \in 1 .. Len(l) + 1 /\ Append(l, m)[Len(l) + 1] = m
  OBVIOUS
<1>2. (Len(l) + 1) + 1 .. Len(l) + 1 = {}
  OBVIOUS
<1> QED
  BY <1>1, <1>2 DEF IsBalance

\* After a movement, every other ingredient has what it had.
LEMMA BalanceOther ==
    ASSUME NEW S, NEW l \in Seq(S), NEW m \in S, NEW i, NEW q,
           m.ingredient # i, IsBalance(l, i, Len(l), q)
    PROVE  IsBalance(Append(l, m), i, Len(l) + 1, q)
<1> DEFINE a == Append(l, m)
<1>1. /\ \A k \in 1 .. Len(l) : a[k] = l[k]
      /\ a[Len(l) + 1] = m
      /\ \A k \in 1 .. Len(l) + 1 : k \in 1 .. Len(l) \/ k = Len(l) + 1
  OBVIOUS
<1>2. CASE q = OpeningStock[i] /\ \A k \in 1 .. Len(l) : l[k].ingredient # i
  BY <1>1, <1>2 DEF IsBalance
<1>3. CASE \E k \in 1 .. Len(l) :
              /\ l[k].ingredient = i /\ l[k].resulting = q
              /\ \A later \in k + 1 .. Len(l) : l[later].ingredient # i
  <2>1. PICK k \in 1 .. Len(l) :
              /\ l[k].ingredient = i /\ l[k].resulting = q
              /\ \A later \in k + 1 .. Len(l) : l[later].ingredient # i
    BY <1>3
  <2>2. k \in 1 .. Len(l) + 1 /\ a[k].ingredient = i /\ a[k].resulting = q
    BY <1>1, <2>1
  <2>3. \A later \in k + 1 .. Len(l) + 1 : a[later].ingredient # i
    <3> TAKE later \in k + 1 .. Len(l) + 1
    <3>1. later \in k + 1 .. Len(l) \/ later = Len(l) + 1
      BY <2>1
    <3>2. later \in k + 1 .. Len(l) => a[later] = l[later]
      BY <1>1, <2>1
    <3> QED
      BY <1>1, <2>1, <3>1, <3>2
  <2> QED
    BY <2>2, <2>3 DEF IsBalance
<1> HIDE DEF a
<1> QED
  BY <1>2, <1>3 DEF IsBalance, a
---------------------------------------------------------------------------
(* The invariant.  Its parts need each other: the chain of the audit trail *)
(* needs the stock to match the ledger, and both need the types.           *)

Inv == TypeOK /\ KeysUnique /\ StockMatchesLedger /\ AuditChain /\ LedgerExact

LEMMA InvInit == Init => Inv
<1> SUFFICES ASSUME Init PROVE Inv
  OBVIOUS
<1> USE DEF Init
<1>1. TypeOK
  BY CatalogueAssumption
  DEF TypeOK, Reply, Outcomes, Refusals, Pending
<1>2. Len(ledger) = 0 /\ 1 .. 0 = {}
  OBVIOUS
<1>3. KeysUnique /\ AuditChain /\ LedgerExact
  BY <1>2 DEF KeysUnique, AuditChain, LedgerExact
<1>4. StockMatchesLedger
  BY <1>2 DEF StockMatchesLedger, IsBalance
<1> QED
  BY <1>1, <1>3, <1>4 DEF Inv

\* What the movement of a step is, and what it does to stock and ledger.
LEMMA RecordedMovement ==
    ASSUME Inv, NEW c \in Calls, Record(c)
    PROVE  LET r == request[c]
               m == MovementOf(r, stock[r.ingredient])
           IN  /\ r \in Requests /\ m \in Movement
               /\ m.ingredient = r.ingredient /\ m.ingredient \in Ingredients
               /\ m.key = r.key
               /\ m.previous = stock[r.ingredient]
               /\ m.resulting = Outcome(r) /\ m.resulting \in Quantity
               /\ m.resulting = Exact(m.operation, m.previous, m.quantity)
               /\ ledger' = Append(ledger, m)
               /\ stock' = [stock EXCEPT ![m.ingredient] = m.resulting]
<1> DEFINE r == request[c]
           m == MovementOf(r, stock[r.ingredient])
<1>1. r \in Requests /\ r.ingredient \in Ingredients
  BY DEF Inv, TypeOK, Record
<1>2. stock[r.ingredient] \in Quantity
  BY <1>1 DEF Inv, TypeOK
<1>3. m \in Movement
  BY <1>1, <1>2 DEF Movement
<1>4. Outcome(r) \in Quantity /\ ledger' = Append(ledger, m)
  BY DEF Record
<1>5. Resulting(r.operation, stock[r.ingredient], r.quantity) = Outcome(r)
  BY <1>4, NoOverflow DEF Outcome
<1>6. /\ m.ingredient = r.ingredient /\ m.key = r.key /\ m.operation = r.operation
      /\ m.quantity = r.quantity /\ m.previous = stock[r.ingredient]
      /\ m.resulting = Outcome(r)
  BY <1>5 DEF MovementOf
<1>7. stock' = [stock EXCEPT ![r.ingredient] = Outcome(r)]
  BY DEF Record
<1>8. m.resulting = Exact(m.operation, m.previous, m.quantity)
  BY <1>6 DEF Outcome
<1> QED
  BY <1>1, <1>3, <1>4, <1>6, <1>7, <1>8

LEMMA RecordKeepsInv == ASSUME Inv, NEW c \in Calls, Record(c) PROVE Inv'
<1> DEFINE r == request[c]
           m == MovementOf(r, stock[r.ingredient])
<1>1. /\ r \in Requests /\ m \in Movement
      /\ m.ingredient = r.ingredient /\ m.ingredient \in Ingredients
      /\ m.key = r.key
      /\ m.previous = stock[r.ingredient]
      /\ m.resulting = Outcome(r) /\ m.resulting \in Quantity
      /\ m.resulting = Exact(m.operation, m.previous, m.quantity)
      /\ ledger' = Append(ledger, m)
      /\ stock' = [stock EXCEPT ![m.ingredient] = m.resulting]
  BY RecordedMovement
<1>2. ~KeyRecorded(ledger, m.key) /\ UNCHANGED <<request, reply>>
  BY <1>1 DEF Record
<1> HIDE DEF m, r
<1>3. ledger \in Seq(Movement) /\ stock \in [Ingredients -> Quantity]
  BY DEF Inv, TypeOK
<1>4. /\ Len(ledger') = Len(ledger) + 1 /\ Len(ledger) \in Nat
      /\ ledger'[Len(ledger) + 1] = m
      /\ \A n \in 1 .. Len(ledger) : ledger'[n] = ledger[n]
      /\ \A n \in 1 .. Len(ledger') : n \in 1 .. Len(ledger) \/ n = Len(ledger) + 1
  BY <1>1, <1>3
<1>5. TypeOK'
  <2>1. ledger' \in Seq(Movement) /\ stock' \in [Ingredients -> Quantity]
    BY <1>1, <1>3
  <2> QED
    BY <2>1, <1>2 DEF Inv, TypeOK, Pending
<1>6. KeysUnique'
  BY <1>2, <1>4 DEF Inv, KeysUnique, KeyRecorded
<1>7. StockMatchesLedger'
  <2> SUFFICES ASSUME NEW i \in Ingredients
               PROVE  IsBalance(ledger', i, Len(ledger) + 1, stock'[i])
    BY <1>4 DEF StockMatchesLedger
  <2>1. CASE i = m.ingredient
    <3>1. stock'[i] = m.resulting
      BY <1>1, <1>3, <2>1
    <3> QED
      BY <1>1, <1>3, <2>1, <3>1, BalanceMoved
  <2>2. CASE i # m.ingredient
    <3>1. stock'[i] = stock[i]
      BY <1>1, <1>3, <2>2
    <3>2. IsBalance(ledger, i, Len(ledger), stock[i])
      BY DEF Inv, StockMatchesLedger
    <3> QED
      BY <1>1, <1>3, <2>2, <3>1, <3>2, BalanceOther
  <2> QED
    BY <2>1, <2>2
<1>8. AuditChain'
  <2> SUFFICES ASSUME NEW n \in 1 .. Len(ledger')
               PROVE  IsBalance(ledger', ledger'[n].ingredient, n - 1, ledger'[n].previous)
    BY DEF AuditChain
  <2>1. CASE n \in 1 .. Len(ledger)
    <3>1. IsBalance(ledger, ledger[n].ingredient, n - 1, ledger[n].previous)
      BY <2>1 DEF Inv, AuditChain
    <3>2. n - 1 \in 0 .. Len(ledger)
      BY <2>1, <1>4
    <3>3. IsBalance(ledger', ledger[n].ingredient, n - 1, ledger[n].previous)
      BY <1>1, <1>3, <3>1, <3>2, BalanceKept
    <3> QED
      BY <1>4, <2>1, <3>3
  <2>2. CASE n = Len(ledger) + 1
    <3>1. IsBalance(ledger, m.ingredient, Len(ledger), m.previous)
      BY <1>1 DEF Inv, StockMatchesLedger
    <3>2. Len(ledger) \in 0 .. Len(ledger) /\ n - 1 = Len(ledger)
      BY <1>4, <2>2
    <3>3. IsBalance(ledger', m.ingredient, Len(ledger), m.previous)
      BY <1>1, <1>3, <3>1, <3>2, BalanceKept
    <3> QED
      BY <1>4, <2>2, <3>2, <3>3
  <2> QED
    BY <2>1, <2>2, <1>4
<1>9. LedgerExact'
  BY <1>1, <1>4 DEF Inv, LedgerExact
<1> QED
  BY <1>5, <1>6, <1>7, <1>8, <1>9 DEF Inv

\* A step that leaves stock and ledger alone keeps all but the types.
LEMMA QuietKeepsInv ==
    ASSUME Inv, UNCHANGED <<stock, ledger>>, TypeOK' PROVE Inv'
BY DEF Inv, KeysUnique, StockMatchesLedger, AuditChain, LedgerExact

LEMMA AnswerKeepsInv ==
    ASSUME Inv, NEW c \in Calls, NEW outcome \in Outcomes, outcome # "pending",
           NEW place \in Nat, Answer(c, outcome, place)
    PROVE  Inv'
<1>1. Reply(outcome, place) \in [outcome : Outcomes, place : Nat]
  BY DEF Reply
<1>2. reply' \in [Calls -> [outcome : Outcomes, place : Nat]]
  BY <1>1 DEF Inv, TypeOK, Answer
<1>3. \A d \in Calls : Pending(d)' => Pending(d)
  BY DEF Inv, TypeOK, Answer, Pending, Reply
<1>4. TypeOK'
  BY <1>2, <1>3 DEF Inv, TypeOK, Answer
<1> QED
  BY <1>4, QuietKeepsInv DEF Answer

LEMMA NextKeepsInv == Inv /\ [Next]_vars => Inv'
<1> SUFFICES ASSUME Inv, [Next]_vars PROVE Inv'
  OBVIOUS
<1> USE DEF Outcomes, Refusals
<1>1. ASSUME NEW c \in Calls, NEW r \in Requests, Invoke(c, r) PROVE Inv'
  <2>1. Reply("pending", 0) \in [outcome : Outcomes, place : Nat]
    BY DEF Reply
  <2>2. TypeOK'
    BY <1>1, <2>1 DEF Inv, TypeOK, Invoke, Pending
  <2> QED
    BY <1>1, <2>2, QuietKeepsInv DEF Invoke
<1>2. ASSUME NEW c \in Calls, Record(c) PROVE Inv'
  BY <1>2, RecordKeepsInv
<1>3. ASSUME NEW c \in Calls, Confirm(c) PROVE Inv'
  <2>1. ledger \in Seq(Movement)
    BY DEF Inv, TypeOK
  <2>2. PICK n \in 1 .. Len(ledger) :
           Answer(c, "recorded", n) \/ Answer(c, "replayed", n)
    BY <1>3 DEF Confirm
  <2>3. n \in Nat
    BY <2>1, <2>2
  <2>4. CASE Answer(c, "recorded", n)
    BY <2>3, <2>4, AnswerKeepsInv
  <2>5. CASE Answer(c, "replayed", n)
    BY <2>3, <2>5, AnswerKeepsInv
  <2> QED
    BY <2>2, <2>4, <2>5
<1>4. ASSUME NEW c \in Calls, Refuse(c) PROVE Inv'
  BY <1>4, AnswerKeepsInv DEF Refuse
<1>5. ASSUME NEW c \in Calls, Fail(c) PROVE Inv'
  BY <1>5, AnswerKeepsInv DEF Fail
<1>6. ASSUME NEW S \in SUBSET Calls, Lose(S) PROVE Inv'
  <2>1. Reply("lost", 0) \in [outcome : Outcomes, place : Nat]
    BY DEF Reply
  <2>2. \A d \in Calls : Pending(d)' => Pending(d)
    BY <1>6 DEF Inv, TypeOK, Lose, Pending, Reply
  <2>3. TypeOK'
    BY <1>6, <2>1, <2>2 DEF Inv, TypeOK, Lose
  <2> QED
    BY <1>6, <2>3, QuietKeepsInv DEF Lose
<1>7. CASE UNCHANGED vars
  BY <1>7, QuietKeepsInv DEF Inv, TypeOK, vars, Pending
<1> QED
  BY <1>1, <1>2, <1>3, <1>4, <1>5, <1>6, <1>7 DEF Next

\* Under every interleaving of any number of callers and requests: no key is
\* recorded twice, the stock is what the audit trail says, the trail has no
\* gap, and no movement wrapped around.
THEOREM InventoryCorrect == Spec => []Inv
BY InvInit, NextKeepsInv, PTL DEF Spec
===========================================================================
