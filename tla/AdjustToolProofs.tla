-------------------------- MODULE AdjustToolProofs --------------------------
(***************************************************************************)
(* Proofs about AdjustTool: it uses the repository as Inventory allows, so *)
(* that what Inventory promises holds, and the stock is moved only by      *)
(* users whose role allows it.                                             *)
(***************************************************************************)
EXTENDS AdjustTool, TLAPS

Promise == INSTANCE InventoryProofs

---------------------------------------------------------------------------
(* Every step of the tool is a step of Inventory, or shows it nothing.     *)

\* A call asks the repository once: while it waits for the answer it is at
\* "applying", and asks nothing else.
AsksOnce ==
    /\ pc \in [Calls -> {"idle", "called", "applying"}]
    /\ args \in [Calls -> Arguments]
    /\ reply \in [Calls -> [outcome : Repository!Outcomes, place : Nat]]
    /\ \A c \in Calls : Repository!Pending(c) => pc[c] = "applying"

LEMMA ApplyInvokes ==
    ASSUME AsksOnce, NEW c \in Calls, Apply(c)
    PROVE  \E r \in Requests :
              /\ Repository!Invoke(c, r)
              /\ r.performedBy = UserOf[c]
<1>1. PICK q \in Converted(args[c]) :
          Repository!Invoke(c, RequestFor(args[c], q, UserOf[c]))
  BY DEF Apply
<1>2. args[c] \in Arguments /\ Valid(args[c]) /\ args[c].ingredient \in Ingredients
  BY DEF Apply, AsksOnce
<1>3. RequestFor(args[c], q, UserOf[c]) \in Requests
  BY <1>2, RequestsCoverArguments
<1>4. RequestFor(args[c], q, UserOf[c]).performedBy = UserOf[c]
  BY DEF RequestFor
<1> QED
  BY <1>1, <1>3, <1>4

\* What is left of the tool's own steps leaves the repository alone.
LEMMA OwnSteps ==
    ASSUME NEW c \in Calls,
           \/ \E a \in Arguments : Call(c, a)
           \/ Deny(c) \/ RejectArguments(c) \/ RejectIngredient(c) \/ RejectUnit(c)
           \/ ReportMovement(c) \/ ReportError(c) \/ ReportNothing(c)
    PROVE  UNCHANGED repository
BY DEF Call, Deny, RejectArguments, RejectIngredient, RejectUnit, ReportMovement,
       ReportError, ReportNothing, Return

LEMMA NextRefines ==
    AsksOnce /\ [Next]_vars => [Repository!Next]_(Repository!vars)
<1> SUFFICES ASSUME AsksOnce, [Next]_vars
             PROVE  Repository!Next \/ UNCHANGED Repository!vars
  OBVIOUS
<1>1. CASE RepositoryStep
  BY <1>1 DEF RepositoryStep, Repository!Next
<1>2. ASSUME NEW c \in Calls, Apply(c) PROVE Repository!Next
  BY <1>2, ApplyInvokes DEF Repository!Next
<1>3. CASE UNCHANGED repository
  BY <1>3 DEF repository, Repository!vars
<1> QED
  BY <1>1, <1>2, <1>3, OwnSteps DEF Next, vars

LEMMA InitAsksOnce == Init => AsksOnce
<1> SUFFICES ASSUME Init PROVE AsksOnce
  OBVIOUS
<1>1. reply = [c \in Calls |-> [outcome |-> "none", place |-> 0]]
  BY DEF Init, Repository!Init, Repository!Reply
<1>2. "none" \in Repository!Outcomes /\ 0 \in Nat
  BY DEF Repository!Outcomes
<1>3. reply \in [Calls -> [outcome : Repository!Outcomes, place : Nat]]
  BY <1>1, <1>2
<1>4. NoArguments \in Arguments
  BY ArgumentsAssumption DEF NoArguments
<1> QED
  BY <1>1, <1>3, <1>4 DEF Init, AsksOnce, Repository!Pending

\* What the repository does on its own makes no call wait that did not.
LEMMA RepositoryAsksNothing ==
    ASSUME AsksOnce, RepositoryStep PROVE AsksOnce'
<1> USE DEF Repository!Outcomes, Repository!Refusals
<1>1. UNCHANGED <<pc, args>>
  BY DEF RepositoryStep
<1>2. ASSUME NEW c \in Calls, NEW outcome \in Repository!Outcomes \ {"pending"},
             NEW place \in Nat, Repository!Answer(c, outcome, place)
      PROVE  AsksOnce'
  BY <1>1, <1>2 DEF AsksOnce, Repository!Answer, Repository!Reply, Repository!Pending
<1>3. ASSUME NEW c \in Calls, Repository!Record(c) PROVE AsksOnce'
  BY <1>1, <1>3 DEF AsksOnce, Repository!Record, Repository!Pending
<1>4. ASSUME NEW c \in Calls, Repository!Confirm(c) PROVE AsksOnce'
  <2>1. PICK n \in 1 .. Len(ledger) :
           Repository!Answer(c, "recorded", n) \/ Repository!Answer(c, "replayed", n)
    BY <1>4 DEF Repository!Confirm
  <2>2. n \in Nat
    BY <2>1
  <2> QED
    BY <1>2, <2>1, <2>2
<1>5. ASSUME NEW c \in Calls, Repository!Refuse(c) \/ Repository!Fail(c) PROVE AsksOnce'
  BY <1>2, <1>5 DEF Repository!Refuse, Repository!Fail
<1>6. ASSUME NEW S \in SUBSET Calls, Repository!Lose(S) PROVE AsksOnce'
  BY <1>1, <1>6 DEF AsksOnce, Repository!Lose, Repository!Reply, Repository!Pending
<1> QED
  BY <1>3, <1>4, <1>5, <1>6 DEF RepositoryStep

LEMMA NextAsksOnce == AsksOnce /\ [Next]_vars => AsksOnce'
<1> SUFFICES ASSUME AsksOnce, [Next]_vars PROVE AsksOnce'
  OBVIOUS
<1>1. CASE RepositoryStep
  BY <1>1, RepositoryAsksNothing
<1>2. ASSUME NEW c \in Calls, Apply(c) PROVE AsksOnce'
  <2>1. PICK r \in Requests : Repository!Invoke(c, r)
    BY <1>2, ApplyInvokes
  <2>2. pc' = [pc EXCEPT ![c] = "applying"] /\ UNCHANGED args
    BY <1>2 DEF Apply, Goto
  <2> QED
    BY <2>1, <2>2
    DEF AsksOnce, Repository!Invoke, Repository!Reply, Repository!Pending,
        Repository!Outcomes, Repository!Refusals
<1>3. ASSUME NEW c \in Calls, NEW a \in Arguments, Call(c, a) PROVE AsksOnce'
  BY <1>3 DEF AsksOnce, Call, Goto, repository, Repository!Pending
<1>4. ASSUME NEW c \in Calls, NEW r, Return(c, r), ~Repository!Pending(c)
      PROVE  AsksOnce'
  BY <1>4 DEF AsksOnce, Return, Goto, repository, Repository!Pending
<1>5. ASSUME NEW c \in Calls,
             Deny(c) \/ RejectArguments(c) \/ RejectIngredient(c) \/ RejectUnit(c)
      PROVE  AsksOnce'
  BY <1>4, <1>5
  DEF Deny, RejectArguments, RejectIngredient, RejectUnit, AsksOnce
<1>6. ASSUME NEW c \in Calls, ReportMovement(c) \/ ReportError(c) \/ ReportNothing(c)
      PROVE  AsksOnce'
  BY <1>4, <1>6
  DEF ReportMovement, ReportError, ReportNothing, Repository!Pending
<1>7. CASE UNCHANGED vars
  BY <1>7 DEF AsksOnce, vars, repository, Repository!Pending
<1> QED
  BY <1>1, <1>2, <1>3, <1>5, <1>6, <1>7 DEF Next

\* The handler never asks twice at a time and asks for nothing it did not
\* check: every behaviour of the tool, seen at the repository, is one that
\* Inventory allows, for any users, arguments and number of calls.
THEOREM ToolKeepsContract == Spec => Repository!Spec
<1>1. Init => Repository!Init
  BY DEF Init
<1> QED
  BY <1>1, InitAsksOnce, NextAsksOnce, NextRefines, PTL DEF Spec, Repository!Spec

---------------------------------------------------------------------------
(* What Inventory promises of stock and ledger holds under the tool.       *)

LEMMA PromiseAssumptions ==
    /\ MaxInt \in Nat \ {0}
    /\ Ingredients # {} /\ OpeningStock \in [Ingredients -> Promise!Quantity]
    /\ \A r \in Requests :
          /\ DOMAIN r = {"key", "ingredient", "operation", "quantity", "performedBy"}
          /\ r.quantity \in Promise!Int64
BY MaxIntAssumption, CatalogueAssumption, RequestsAssumption
DEF Quantity, Int64, MinInt, Promise!Quantity, Promise!Int64, Promise!MinInt

LEMMA PromiseInit == Init => Promise!Inv
<1>1. Promise!Init => Promise!Inv
  BY PromiseAssumptions, Promise!InvInit DEF Promise!Quantity, Promise!Int64, Promise!MinInt
<1> QED
  BY <1>1 DEF Init, Repository!Init, Promise!Init, Repository!Reply, Promise!Reply

LEMMA PromiseNext ==
    Promise!Inv /\ [Repository!Next]_(Repository!vars) => Promise!Inv'
<1>1. Promise!Inv /\ [Promise!Next]_(Promise!vars) => Promise!Inv'
  BY PromiseAssumptions, Promise!NextKeepsInv DEF Promise!Quantity, Promise!Int64, Promise!MinInt
<1>2. Repository!Next => Promise!Next
  BY Zenon
  DEF Repository!Next, Promise!Next, Repository!Invoke, Promise!Invoke,
      Repository!Pending, Promise!Pending, Repository!Reply, Promise!Reply,
      Repository!Record, Promise!Record, Repository!Confirm, Promise!Confirm,
      Repository!Answer, Promise!Answer, Repository!Refuse, Promise!Refuse,
      Repository!Fail, Promise!Fail, Repository!Lose, Promise!Lose,
      Repository!Outcome, Promise!Outcome, Repository!KeyRecorded, Promise!KeyRecorded,
      Repository!MovementOf, Promise!MovementOf,
      Repository!Operations, Promise!Operations,
      Repository!Resulting, Promise!Resulting, Repository!Exact, Promise!Exact,
      Repository!Wrap, Promise!Wrap, Repository!MinInt, Promise!MinInt,
      Repository!Quantity, Promise!Quantity,
      Repository!PerformerOrDefault, Promise!PerformerOrDefault
<1>3. UNCHANGED Repository!vars => UNCHANGED Promise!vars
  BY DEF Repository!vars, Promise!vars
<1> QED
  BY <1>1, <1>2, <1>3

LEMMA PromiseKept == Spec => []Promise!Inv
BY PromiseInit, PromiseNext, InitAsksOnce, NextAsksOnce, NextRefines, PTL DEF Spec

---------------------------------------------------------------------------
(* Who moves the stock.                                                    *)

\* A request the repository is working on was let through the role gate, and
\* carries the name of the user it was let through for.
AskedByAuthorised ==
    \A c \in Calls : Repository!Pending(c) =>
        /\ request[c].performedBy = UserOf[c]
        /\ RoleOf[UserOf[c]] \in {"cook", "admin"}

LEMMA RecordedBy ==
    ASSUME Promise!Inv, OnlyAuthorisedMove, AskedByAuthorised,
           NEW c \in Calls, Repository!Record(c)
    PROVE  OnlyAuthorisedMove'
<1> DEFINE m == Repository!MovementOf(request[c], stock[request[c].ingredient])
<1>1. ledger' = Append(ledger, m)
  BY DEF Repository!Record
<1>2. ledger \in Seq(Promise!Movement)
  BY DEF Promise!Inv, Promise!TypeOK
<1>3. m.performedBy = UserOf[c]
  BY UsersAssumption
  DEF AskedByAuthorised, Repository!Record, Repository!MovementOf,
      Repository!PerformerOrDefault
<1>4. RoleOf[m.performedBy] \in {"cook", "admin"}
  BY <1>3 DEF AskedByAuthorised, Repository!Record
<1> HIDE DEF m
<1>5. /\ Len(ledger') = Len(ledger) + 1
      /\ \A n \in 1 .. Len(ledger) : ledger'[n] = ledger[n]
      /\ ledger'[Len(ledger) + 1] = m
  BY <1>1, <1>2
<1>6. \A n \in 1 .. Len(ledger') : n \in 1 .. Len(ledger) \/ n = Len(ledger) + 1
  BY <1>2, <1>5
<1> QED
  BY <1>4, <1>5, <1>6 DEF OnlyAuthorisedMove

\* A step that leaves the ledger alone and makes nobody wait anew.
LEMMA QuietStep ==
    ASSUME OnlyAuthorisedMove, AskedByAuthorised, UNCHANGED <<ledger, request>>,
           \A c \in Calls : Repository!Pending(c)' => Repository!Pending(c)
    PROVE  OnlyAuthorisedMove' /\ AskedByAuthorised'
BY DEF OnlyAuthorisedMove, AskedByAuthorised

LEMMA NextKeepsAuthority ==
    /\ Promise!Inv /\ AsksOnce /\ OnlyAuthorisedMove /\ AskedByAuthorised /\ [Next]_vars
    => OnlyAuthorisedMove' /\ AskedByAuthorised'
<1> SUFFICES ASSUME Promise!Inv, AsksOnce, OnlyAuthorisedMove, AskedByAuthorised, [Next]_vars
             PROVE  OnlyAuthorisedMove' /\ AskedByAuthorised'
  OBVIOUS
<1>1. ASSUME NEW c \in Calls, Repository!Record(c)
      PROVE  OnlyAuthorisedMove' /\ AskedByAuthorised'
  BY <1>1, RecordedBy DEF AskedByAuthorised, Repository!Record, Repository!Pending
<1>2. ASSUME NEW c \in Calls, NEW outcome, outcome # "pending", NEW place,
             Repository!Answer(c, outcome, place)
      PROVE  OnlyAuthorisedMove' /\ AskedByAuthorised'
  <2>1. \A d \in Calls : Repository!Pending(d)' => Repository!Pending(d)
    BY <1>2 DEF AsksOnce, Repository!Answer, Repository!Reply, Repository!Pending
  <2> QED
    BY <1>2, <2>1, QuietStep DEF Repository!Answer
<1>3. ASSUME NEW S \in SUBSET Calls, Repository!Lose(S)
      PROVE  OnlyAuthorisedMove' /\ AskedByAuthorised'
  <2>1. \A d \in Calls : Repository!Pending(d)' => Repository!Pending(d)
    BY <1>3 DEF AsksOnce, Repository!Lose, Repository!Reply, Repository!Pending
  <2> QED
    BY <1>3, <2>1, QuietStep DEF Repository!Lose
<1>4. CASE RepositoryStep
  BY <1>1, <1>2, <1>3, <1>4
  DEF RepositoryStep, Repository!Confirm, Repository!Refuse, Repository!Fail
<1>5. ASSUME NEW c \in Calls, Apply(c) PROVE OnlyAuthorisedMove' /\ AskedByAuthorised'
  <2>1. PICK r \in Requests : Repository!Invoke(c, r) /\ r.performedBy = UserOf[c]
    BY <1>5, ApplyInvokes
  <2>2. RoleOf[UserOf[c]] \in {"cook", "admin"}
    BY <1>5 DEF Apply, Allows
  <2>3. request \in [Calls -> Requests \cup {NoRequest}]
    BY DEF Promise!Inv, Promise!TypeOK
  <2>4. request'[c].performedBy = UserOf[c]
    BY <2>1, <2>3 DEF Repository!Invoke
  <2>5. \A d \in Calls \ {c} : request'[d] = request[d] /\ reply'[d] = reply[d]
    BY <2>1, <2>3 DEF AsksOnce, Repository!Invoke
  <2>6. AskedByAuthorised'
    BY <2>2, <2>4, <2>5 DEF AskedByAuthorised, Repository!Pending
  <2>7. UNCHANGED ledger
    BY <2>1 DEF Repository!Invoke
  <2> QED
    BY <2>6, <2>7 DEF OnlyAuthorisedMove
<1>6. CASE UNCHANGED repository
  BY <1>6, QuietStep DEF repository, Repository!Pending
<1> QED
  BY <1>4, <1>5, <1>6, OwnSteps DEF Next, vars

\* However the calls of any number of users interleave, with each other and
\* with crashes of the server: every movement on file is in the name of a user
\* whose role may adjust the inventory.
THEOREM AuthorisedMovesOnly == Spec => []OnlyAuthorisedMove
<1>1. Init => OnlyAuthorisedMove /\ AskedByAuthorised
  BY DEF Init, Repository!Init, OnlyAuthorisedMove, AskedByAuthorised,
         Repository!Reply, Repository!Pending
<1> QED
  BY <1>1, InitAsksOnce, NextAsksOnce, PromiseKept, NextKeepsAuthority, PTL DEF Spec

---------------------------------------------------------------------------
(* What a call reports.                                                    *)

\* A quantity that fits becomes the nearest whole one, one that does not the
\* least integer or the largest.
LEMMA ConvertedIsNearest ==
    ASSUME NEW x \in Int, NEW unit, NEW base, NEW q \in ToBaseUnits(x, unit, base),
           q # MinInt
    PROVE  /\ x * BaseFactor(unit) <= 1000 * MaxInt =>
                 Distance(1000 * q, x * BaseFactor(unit)) <= 500
           /\ x * BaseFactor(unit) > 1000 * MaxInt => q = MaxInt
<1> DEFINE exact == x * BaseFactor(unit)
<1>1. exact \in Int /\ MaxInt \in Nat
  BY MaxIntAssumption DEF BaseFactor
<1> HIDE DEF exact
<1>2. PICK rounded : rounded = Round(exact)
  OBVIOUS
<1>3. rounded \in Int /\ Distance(1000 * rounded, exact) <= 500
  BY <1>1, <1>2 DEF Round, Distance
<1>4. q = rounded \/ (rounded > MaxInt /\ q = MaxInt)
  BY <1>2 DEF ToBaseUnits, exact
<1>5. CASE exact <= 1000 * MaxInt
  <2>1. ~(rounded > MaxInt)
    BY <1>1, <1>3, <1>5 DEF Distance
  <2> QED
    BY <1>1, <1>3, <1>4, <1>5, <2>1 DEF exact
<1>6. CASE exact > 1000 * MaxInt
  <2>1. rounded >= MaxInt
    BY <1>1, <1>3, <1>6 DEF Distance
  <2>2. rounded = MaxInt \/ q = MaxInt
    <3>1. q \in Int64 \/ q = MaxInt
      BY <1>2 DEF ToBaseUnits, exact
    <3> QED
      BY <1>1, <1>3, <1>4, <2>1, <3>1 DEF Int64, MinInt
  <2> QED
    BY <1>1, <1>4, <1>6, <2>2 DEF exact
<1> QED
  BY <1>1, <1>5, <1>6 DEF exact

\* Nothing that starts from a quantity and leaves one moves the least integer.
LEMMA LeastNeverMoves ==
    ASSUME NEW m, m.previous \in Quantity, m.resulting \in Quantity,
           m.resulting = Exact(m.operation, m.previous, m.quantity)
    PROVE  m.quantity # MinInt
<1>1. MaxInt \in Nat
  BY MaxIntAssumption
<1>2. PICK p, r : p = m.previous /\ r = m.resulting
  OBVIOUS
<1> QED
  BY <1>1, <1>2 DEF Exact, Quantity, MinInt

\* m is a movement that c asked for.
IsOwn(c, m) ==
    /\ m.key = args[c].key /\ m.ingredient = args[c].ingredient
    /\ m.operation = args[c].operation /\ m.performedBy = UserOf[c]
    /\ args[c].quantity * BaseFactor(args[c].unit) <= 1000 * MaxInt =>
          Distance(1000 * m.quantity, args[c].quantity * BaseFactor(args[c].unit)) <= 500
    /\ args[c].quantity * BaseFactor(args[c].unit) > 1000 * MaxInt => m.quantity = MaxInt

\* What the repository is asked for is what the call was asked for.
AskedFor ==
    \A c \in Calls : pc[c] = "applying" =>
        \E q \in Converted(args[c]) : request[c] = RequestFor(args[c], q, UserOf[c])

\* An answer that shows a movement shows one on file.
Answered ==
    \A c \in Calls :
        /\ reply[c].place \in 0 .. Len(ledger)
        /\ reply[c].outcome \in {"recorded", "replayed"} => reply[c].place # 0
        /\ reply[c].outcome = "recorded" =>
              \E p : ledger[reply[c].place] = MovementOf(request[c], p)

Reported ==
    /\ report = [c \in Calls |-> report[c]]
    /\ \A c \in Calls :
          /\ pc[c] = "idle" <=> report[c].kind # "pending"
          /\ report[c].place \in 0 .. Len(ledger)
          /\ report[c].kind = "moved" =>
                /\ report[c].place # 0
                /\ ~report[c].idempotent => IsOwn(c, ledger[report[c].place])

ReportInv == Promise!Inv /\ AsksOnce /\ AskedFor /\ Answered /\ Reported

LEMMA ErrorMovesNothing ==
    ASSUME NEW kind PROVE Error(kind).kind = kind /\ Error(kind).place = 0
BY DEF Error, Result, NoMovement

LedgerGrows ==
    /\ Len(ledger) \in Nat /\ Len(ledger') \in Nat /\ Len(ledger) <= Len(ledger')
    /\ \A n \in 1 .. Len(ledger) : ledger'[n] = ledger[n]

LEMMA LedgerStays ==
    ASSUME Promise!Inv, UNCHANGED ledger PROVE LedgerGrows
<1>1. ledger \in Seq(Promise!Movement)
  BY DEF Promise!Inv, Promise!TypeOK
<1>2. Len(ledger) \in Nat
  BY <1>1
<1> QED
  BY <1>2 DEF LedgerGrows

LEMMA RecordGrows ==
    ASSUME Promise!Inv, NEW c \in Calls, Repository!Record(c) PROVE LedgerGrows
<1>1. ledger \in Seq(Promise!Movement)
  BY DEF Promise!Inv, Promise!TypeOK
<1>2. PICK m : ledger' = Append(ledger, m)
  BY DEF Repository!Record
<1> QED
  BY <1>1, <1>2 DEF LedgerGrows

\* What was answered and what was reported stays true when the ledger grows.
LEMMA GrowthKeepsReports ==
    ASSUME ReportInv, LedgerGrows, UNCHANGED <<pc, args, report>>
    PROVE  Reported'
<1>1. ASSUME NEW c \in Calls, report[c].kind = "moved"
      PROVE  ledger'[report[c].place] = ledger[report[c].place]
  BY <1>1 DEF ReportInv, Reported, LedgerGrows
<1>2. \A c \in Calls : report[c].place \in 0 .. Len(ledger')
  BY DEF ReportInv, Reported, LedgerGrows
<1> QED
  BY <1>1, <1>2 DEF ReportInv, Reported, IsOwn

LEMMA AnswerKeepsReports ==
    ASSUME ReportInv, UNCHANGED <<pc, args, report>>,
           NEW c \in Calls, NEW outcome, NEW place \in 0 .. Len(ledger),
           Repository!Answer(c, outcome, place),
           outcome \in {"recorded", "replayed"} => place # 0,
           outcome = "recorded" => \E p : ledger[place] = MovementOf(request[c], p)
    PROVE  AskedFor' /\ Answered' /\ Reported'
<1>1. /\ reply' = [reply EXCEPT ![c] = Repository!Reply(outcome, place)]
      /\ UNCHANGED <<stock, ledger, request>>
  BY DEF Repository!Answer
<1>2. Reported' /\ AskedFor'
  BY <1>1, LedgerStays, GrowthKeepsReports DEF ReportInv, AskedFor
<1>3. Answered'
  <2>1. reply \in [Calls -> [outcome : Repository!Outcomes, place : Nat]]
    BY DEF ReportInv, AsksOnce
  <2>2. reply'[c] = Repository!Reply(outcome, place)
    BY <1>1, <2>1
  <2>3. \A d \in Calls \ {c} : reply'[d] = reply[d]
    BY <1>1, <2>1
  <2> QED
    BY <1>1, <2>2, <2>3 DEF ReportInv, Answered, Repository!Reply
<1> QED
  BY <1>2, <1>3

LEMMA RepositoryKeepsReports ==
    ASSUME ReportInv, RepositoryStep PROVE AskedFor' /\ Answered' /\ Reported'
<1>1. UNCHANGED <<pc, args, report>>
  BY DEF RepositoryStep
<1>2. Len(ledger) \in Nat /\ 0 \in 0 .. Len(ledger)
  BY DEF ReportInv, Promise!Inv, Promise!TypeOK
<1>3. ASSUME NEW c \in Calls, Repository!Record(c) PROVE AskedFor' /\ Answered' /\ Reported'
  <2>1. LedgerGrows /\ UNCHANGED <<request, reply>>
    BY <1>3, RecordGrows DEF ReportInv, Repository!Record
  <2>2. AskedFor' /\ Reported'
    BY <1>1, <2>1, GrowthKeepsReports DEF ReportInv, AskedFor
  <2>3. Answered'
    BY <2>1 DEF ReportInv, Answered, LedgerGrows
  <2> QED
    BY <2>2, <2>3
<1>4. ASSUME NEW c \in Calls, Repository!Confirm(c) PROVE AskedFor' /\ Answered' /\ Reported'
  <2>1. PICK n \in 1 .. Len(ledger) :
           \/ /\ ledger[n] = MovementOf(request[c], ledger[n].previous)
              /\ Repository!Answer(c, "recorded", n)
           \/ Repository!Answer(c, "replayed", n)
    BY <1>4 DEF Repository!Confirm, Repository!MovementOf, MovementOf,
                Repository!PerformerOrDefault, PerformerOrDefault,
                Repository!Resulting, Resulting, Repository!Exact, Exact,
                Repository!Wrap, Wrap, Repository!MinInt, MinInt
  <2>2. n \in 0 .. Len(ledger) /\ n # 0
    BY <1>2
  <2> QED
    BY <1>1, <2>1, <2>2, AnswerKeepsReports
<1>5. ASSUME NEW c \in Calls, Repository!Refuse(c) \/ Repository!Fail(c)
      PROVE  AskedFor' /\ Answered' /\ Reported'
  <2>1. PICK outcome \in {"unknown ingredient", "invalid operation", "insufficient", "failed"} :
           Repository!Answer(c, outcome, 0)
    BY <1>5 DEF Repository!Refuse, Repository!Fail
  <2>2. outcome # "recorded" /\ outcome # "replayed"
    OBVIOUS
  <2> QED
    BY <1>1, <1>2, <2>1, <2>2, AnswerKeepsReports
<1>6. ASSUME NEW S \in SUBSET Calls, Repository!Lose(S)
      PROVE  AskedFor' /\ Answered' /\ Reported'
  <2>1. /\ UNCHANGED <<ledger, request>>
        /\ \A d \in Calls : reply'[d] = IF d \in S THEN Repository!Reply("lost", 0) ELSE reply[d]
    BY <1>6 DEF Repository!Lose
  <2>2. AskedFor' /\ Reported'
    BY <1>1, <2>1, LedgerStays, GrowthKeepsReports DEF ReportInv, AskedFor
  <2>3. Answered'
    BY <1>2, <2>1 DEF ReportInv, Answered, Repository!Reply
  <2> QED
    BY <2>2, <2>3
<1> QED
  BY <1>3, <1>4, <1>5, <1>6 DEF RepositoryStep

LEMMA ApplyKeepsReports ==
    ASSUME ReportInv, NEW c \in Calls, Apply(c) PROVE AskedFor' /\ Answered' /\ Reported'
<1>1. PICK q \in Converted(args[c]) :
          Repository!Invoke(c, RequestFor(args[c], q, UserOf[c]))
  BY DEF Apply
<1>2. /\ pc' = [pc EXCEPT ![c] = "applying"] /\ pc[c] = "called"
      /\ UNCHANGED <<args, report, ledger>>
      /\ request' = [request EXCEPT ![c] = RequestFor(args[c], q, UserOf[c])]
      /\ reply' = [reply EXCEPT ![c] = Repository!Reply("pending", 0)]
  BY <1>1 DEF Apply, Goto, Repository!Invoke
<1>3. /\ request \in [Calls -> Requests \cup {NoRequest}]
      /\ reply \in [Calls -> [outcome : Repository!Outcomes, place : Nat]]
      /\ pc \in [Calls -> {"idle", "called", "applying"}]
      /\ Len(ledger) \in Nat
  BY DEF ReportInv, Promise!Inv, Promise!TypeOK, AsksOnce
<1>4. AskedFor'
  BY <1>2, <1>3 DEF ReportInv, AskedFor, Converted
<1>5. Answered'
  <2>1. reply'[c] = Repository!Reply("pending", 0)
    BY <1>2, <1>3
  <2>2. \A d \in Calls \ {c} : reply'[d] = reply[d] /\ request'[d] = request[d]
    BY <1>2, <1>3
  <2> QED
    BY <1>2, <1>3, <2>1, <2>2 DEF ReportInv, Answered, Repository!Reply
<1>6. Reported'
  <2>1. \A d \in Calls : pc'[d] = "idle" <=> pc[d] = "idle"
    BY <1>2, <1>3
  <2> QED
    BY <1>2, <2>1 DEF ReportInv, Reported, IsOwn
<1> QED
  BY <1>4, <1>5, <1>6

LEMMA CallKeepsReports ==
    ASSUME ReportInv, NEW c \in Calls, NEW a \in Arguments, Call(c, a)
    PROVE  AskedFor' /\ Answered' /\ Reported'
<1>1. /\ pc' = [pc EXCEPT ![c] = "called"] /\ args' = [args EXCEPT ![c] = a]
      /\ report' = [report EXCEPT ![c] = Error("pending")]
      /\ UNCHANGED <<ledger, request, reply>>
  BY DEF Call, Goto, repository
<1>2. /\ pc \in [Calls -> {"idle", "called", "applying"}] /\ args \in [Calls -> Arguments]
      /\ Len(ledger) \in Nat
      /\ report = [d \in Calls |-> report[d]]
  BY DEF ReportInv, Promise!Inv, Promise!TypeOK, AsksOnce, Reported
<1>3. /\ pc'[c] = "called" /\ report'[c] = Error("pending")
      /\ \A d \in Calls \ {c} : pc'[d] = pc[d] /\ args'[d] = args[d] /\ report'[d] = report[d]
      /\ report' = [d \in Calls |-> report'[d]]
  BY <1>1, <1>2
<1>4. AskedFor' /\ Answered'
  BY <1>1, <1>3 DEF ReportInv, AskedFor, Answered
<1>5. Reported'
  <2>1. /\ report'[c].kind = "pending" /\ report'[c].place = 0
        /\ pc'[c] # "idle" /\ report'[c].kind # "moved" /\ 0 \in 0 .. Len(ledger)
    BY <1>2, <1>3, ErrorMovesNothing
  <2> QED
    BY <1>1, <1>3, <2>1 DEF ReportInv, Reported, IsOwn
<1> QED
  BY <1>4, <1>5

LEMMA ReturnKeepsReports ==
    ASSUME ReportInv, NEW c \in Calls, NEW r, Return(c, r), r.kind # "pending",
           r.place \in 0 .. Len(ledger),
           r.kind = "moved" => r.place # 0 /\ (~r.idempotent => IsOwn(c, ledger[r.place]))
    PROVE  AskedFor' /\ Answered' /\ Reported'
<1>1. /\ pc' = [pc EXCEPT ![c] = "idle"] /\ report' = [report EXCEPT ![c] = r]
      /\ UNCHANGED <<args, ledger, request, reply>>
  BY DEF Return, Goto, repository
<1>2. /\ pc \in [Calls -> {"idle", "called", "applying"}]
      /\ report = [d \in Calls |-> report[d]]
  BY DEF ReportInv, AsksOnce, Reported
<1>3. /\ pc'[c] = "idle" /\ report'[c] = r
      /\ \A d \in Calls \ {c} : pc'[d] = pc[d] /\ report'[d] = report[d]
      /\ report' = [d \in Calls |-> report'[d]]
  BY <1>1, <1>2
<1>4. AskedFor' /\ Answered'
  BY <1>1, <1>3 DEF ReportInv, AskedFor, Answered
<1>5. Reported'
  BY <1>1, <1>3 DEF ReportInv, Reported, IsOwn
<1> QED
  BY <1>4, <1>5

\* The movement that a call learns was recorded for it is one it asked for.
LEMMA RecordedIsOwn ==
    ASSUME ReportInv, NEW c \in Calls, pc[c] = "applying", reply[c].outcome = "recorded"
    PROVE  IsOwn(c, ledger[reply[c].place])
<1>1. PICK q \in Converted(args[c]) : request[c] = RequestFor(args[c], q, UserOf[c])
  BY DEF ReportInv, AskedFor
<1>2. PICK n : n = reply[c].place
  OBVIOUS
<1>3. n \in 1 .. Len(ledger)
  <2>1. n \in 0 .. Len(ledger) /\ n # 0 /\ Len(ledger) \in Nat
    BY <1>2 DEF ReportInv, Answered, Promise!Inv, Promise!TypeOK
  <2> QED
    BY <2>1
<1>4. PICK p : ledger[n] = MovementOf(request[c], p)
  BY <1>2 DEF ReportInv, Answered
<1>5. /\ ledger[n].key = args[c].key /\ ledger[n].ingredient = args[c].ingredient
      /\ ledger[n].operation = args[c].operation /\ ledger[n].quantity = q
      /\ ledger[n].performedBy = UserOf[c]
  <2>1. /\ request[c].key = args[c].key /\ request[c].ingredient = args[c].ingredient
        /\ request[c].operation = args[c].operation /\ request[c].quantity = q
        /\ request[c].performedBy = UserOf[c]
    BY <1>1 DEF RequestFor
  <2>2. /\ ledger[n].key = request[c].key /\ ledger[n].ingredient = request[c].ingredient
        /\ ledger[n].operation = request[c].operation
        /\ ledger[n].quantity = request[c].quantity
        /\ ledger[n].performedBy = PerformerOrDefault(request[c].performedBy)
    BY <1>4 DEF MovementOf
  <2>3. PerformerOrDefault(UserOf[c]) = UserOf[c]
    BY UsersAssumption DEF PerformerOrDefault
  <2> QED
    BY <2>1, <2>2, <2>3
<1>6. q # MinInt
  <2>1. ledger[n] \in Promise!Movement
    BY <1>3 DEF ReportInv, Promise!Inv, Promise!TypeOK
  <2>2. ledger[n].previous \in Quantity
    BY <2>1 DEF Promise!Movement, Promise!MovementOf, Promise!Quantity, Quantity
  <2>3. /\ ledger[n].resulting \in Quantity
        /\ ledger[n].resulting
              = Exact(ledger[n].operation, ledger[n].previous, ledger[n].quantity)
    BY <1>3
    DEF ReportInv, Promise!Inv, Promise!LedgerExact, Promise!Quantity, Quantity,
        Promise!Exact, Exact
  <2> QED
    BY <1>5, <2>2, <2>3, LeastNeverMoves
<1>7. args[c].quantity \in Int
  BY ArgumentsAssumption DEF ReportInv, AsksOnce
<1>8. /\ args[c].quantity * BaseFactor(args[c].unit) <= 1000 * MaxInt =>
            Distance(1000 * q, args[c].quantity * BaseFactor(args[c].unit)) <= 500
      /\ args[c].quantity * BaseFactor(args[c].unit) > 1000 * MaxInt => q = MaxInt
  BY <1>6, <1>7, ConvertedIsNearest DEF Converted
<1> QED
  BY <1>2, <1>5, <1>8 DEF IsOwn

LEMMA NextKeepsReports ==
    ASSUME ReportInv, [Next]_vars PROVE ReportInv'
<1>1. Promise!Inv' /\ AsksOnce'
  BY NextAsksOnce, NextRefines, PromiseNext DEF ReportInv
<1>2. CASE RepositoryStep
  BY <1>1, <1>2, RepositoryKeepsReports DEF ReportInv
<1>3. ASSUME NEW c \in Calls, Apply(c) PROVE ReportInv'
  BY <1>1, <1>3, ApplyKeepsReports DEF ReportInv
<1>4. ASSUME NEW c \in Calls, NEW a \in Arguments, Call(c, a) PROVE ReportInv'
  BY <1>1, <1>4, CallKeepsReports DEF ReportInv
<1>5. ASSUME NEW c \in Calls, NEW kind, Return(c, Error(kind)), kind \notin {"pending", "moved"}
      PROVE  ReportInv'
  <2>1. Len(ledger) \in Nat
    BY DEF ReportInv, Promise!Inv, Promise!TypeOK
  <2>2. Error(kind).kind = kind /\ Error(kind).place = 0 /\ 0 \in 0 .. Len(ledger)
    BY <2>1, ErrorMovesNothing
  <2> QED
    BY <1>1, <1>5, <2>2, ReturnKeepsReports DEF ReportInv
<1>6. ASSUME NEW c \in Calls, ReportMovement(c) PROVE ReportInv'
  <2>1. PICK r : r = Result("moved", reply[c].place, BaseOf[args[c].ingredient],
                            reply[c].outcome = "replayed")
    OBVIOUS
  <2>2. /\ Return(c, r) /\ pc[c] = "applying"
        /\ reply[c].outcome \in {"recorded", "replayed"}
    BY <1>6, <2>1 DEF ReportMovement
  <2>3. /\ r.kind = "moved" /\ r.place = reply[c].place
        /\ r.idempotent = (reply[c].outcome = "replayed")
    BY <2>1 DEF Result
  <2>4. r.place \in 0 .. Len(ledger) /\ r.place # 0
    BY <2>2, <2>3 DEF ReportInv, Answered
  <2>5. ~r.idempotent => IsOwn(c, ledger[r.place])
    BY <2>2, <2>3, RecordedIsOwn
  <2> QED
    BY <1>1, <2>2, <2>3, <2>4, <2>5, ReturnKeepsReports DEF ReportInv
<1>7. ASSUME NEW c \in Calls,
             \/ Deny(c) \/ RejectArguments(c) \/ RejectIngredient(c) \/ RejectUnit(c)
             \/ ReportError(c) \/ ReportNothing(c)
      PROVE  ReportInv'
  BY <1>5, <1>7
  DEF Deny, RejectArguments, RejectIngredient, RejectUnit, ReportError, ReportNothing
<1>8. CASE UNCHANGED vars
  BY <1>1, <1>8
  DEF vars, repository, ReportInv, AskedFor, Answered, Reported, IsOwn
<1> QED
  BY <1>2, <1>3, <1>4, <1>6, <1>7, <1>8 DEF Next

LEMMA InitReports == Init => ReportInv
<1> SUFFICES ASSUME Init PROVE ReportInv
  OBVIOUS
<1>1. Promise!Inv /\ AsksOnce
  BY PromiseInit, InitAsksOnce
<1>2. Len(ledger) = 0
  BY DEF Init, Repository!Init
<1>3. AskedFor /\ Answered
  BY <1>2 DEF Init, Repository!Init, AskedFor, Answered, Repository!Reply
<1>4. Reported
  <2>1. report = [c \in Calls |-> Error("none")] /\ pc = [c \in Calls |-> "idle"]
    BY DEF Init
  <2>2. \A c \in Calls : report[c].kind = "none" /\ report[c].place = 0 /\ pc[c] = "idle"
    BY <2>1, ErrorMovesNothing
  <2> QED
    BY <1>2, <2>1, <2>2 DEF Reported
<1> QED
  BY <1>1, <1>3, <1>4 DEF ReportInv

LEMMA ReportsAreOwn ==
    ASSUME ReportInv PROVE TypeOK /\ ReportsOwnMovement
<1>1. Repository!TypeOK
  <2>1. Promise!TypeOK
    BY DEF ReportInv, Promise!Inv
  <2>2. Promise!Quantity = Repository!Quantity
    BY DEF Promise!Quantity, Repository!Quantity
  <2>3. Promise!Movement = Repository!Movement
    <3>1. \A r, p : Promise!MovementOf(r, p) = Repository!MovementOf(r, p)
      BY Zenon
      DEF Promise!MovementOf, Repository!MovementOf,
          Promise!PerformerOrDefault, Repository!PerformerOrDefault,
          Promise!Resulting, Repository!Resulting, Promise!Exact, Repository!Exact,
          Promise!Wrap, Repository!Wrap, Promise!MinInt, Repository!MinInt
    <3> QED
      BY <2>2, <3>1 DEF Promise!Movement, Repository!Movement
  <2> QED
    BY <2>1, <2>2, <2>3
    DEF Promise!TypeOK, Repository!TypeOK, Promise!Outcomes, Repository!Outcomes,
        Promise!Refusals, Repository!Refusals, Promise!Pending, Repository!Pending
<1>2. TypeOK
  BY <1>1 DEF ReportInv, AsksOnce, Reported, TypeOK
<1>3. ReportsOwnMovement
  BY DEF ReportInv, Reported, IsOwn, ReportsOwnMovement
<1> QED
  BY <1>2, <1>3

\* Whoever reports a movement of its own has it on file, under its key and for
\* its ingredient, operation and user, and of the quantity asked for to the
\* nearest whole one or, when no integer holds it, of the largest; whatever the
\* other calls did meanwhile with the same key and whenever the server died.
THEOREM ReportsAreTrue == Spec => [](TypeOK /\ ReportsOwnMovement)
BY InitReports, NextKeepsReports, ReportsAreOwn, PTL DEF Spec
===========================================================================
