----------------------------- MODULE AdjustTool -----------------------------
(***************************************************************************)
(* The tool adjust_inventory (internal/tools): the role gate of            *)
(* Registry.Call and handleAdjustInventory, on top of what a Repository    *)
(* promises (Inventory).  Several sessions call it at the same time; the   *)
(* catalogue of ingredients does not change, so that looking one up is     *)
(* part of the check that needs it.                                        *)
(***************************************************************************)
EXTENDS Movements, FiniteSets

CONSTANTS
    Calls,        \* calls of the tool in progress
    NoRequest,
    UserOf,       \* the user of the session of each call
    RoleOf,       \* the role of each user
    BaseOf,       \* base unit of each ingredient
    Arguments     \* what clients may send

ASSUME ArgumentsAssumption ==
    /\ DOMAIN BaseOf = Ingredients /\ Arguments # {}
    /\ \A a \in Arguments :
          /\ DOMAIN a = {"key", "ingredient", "operation", "quantity", "unit"}
          /\ a.quantity \in Int

\* SetIdentity ignores an empty name.
ASSUME UsersAssumption == \A c \in Calls : UserOf[c] # ""

VARIABLES
    stock, ledger, request, reply,   \* of the repository
    pc,                              \* what each call does next
    args,                            \* its arguments
    report                           \* what the client learns

repository == <<stock, ledger, request, reply>>
vars == <<repository, pc, args, report>>

Repository == INSTANCE Inventory

NoMovement == 0

Result(kind, place, unit, idempotent) ==
    [kind |-> kind, place |-> place, unit |-> unit, idempotent |-> idempotent]

Error(kind) == Result(kind, NoMovement, "", FALSE)

NoArguments == CHOOSE a \in Arguments : TRUE

Init ==
    /\ Repository!Init
    /\ pc = [c \in Calls |-> "idle"]
    /\ args = [c \in Calls |-> NoArguments]
    /\ report = [c \in Calls |-> Error("none")]

---------------------------------------------------------------------------

Goto(c, step) == pc' = [pc EXCEPT ![c] = step]

Return(c, r) ==
    /\ report' = [report EXCEPT ![c] = r]
    /\ Goto(c, "idle")
    /\ UNCHANGED <<repository, args>>

Call(c, a) ==
    /\ pc[c] = "idle"
    /\ args' = [args EXCEPT ![c] = a]
    /\ report' = [report EXCEPT ![c] = Error("pending")]
    /\ Goto(c, "called")
    /\ UNCHANGED repository

\* Mutant: an empty set of roles, which restricts nothing.
Unrestricted(role) == TRUE

\* RequiredRoles of adjust_inventory.
Allows(role) == role \in {"cook", "admin"}

Deny(c) ==
    /\ pc[c] = "called" /\ ~Allows(RoleOf[UserOf[c]])
    /\ Return(c, Error("denied"))

\* Nothing but the key and the operation is checked here; not the sign of
\* the quantity.
Valid(a) == a.key # "" /\ a.operation \in Operations

RejectArguments(c) ==
    /\ pc[c] = "called" /\ Allows(RoleOf[UserOf[c]])
    /\ ~Valid(args[c])
    /\ Return(c, Error("invalid params"))

RejectIngredient(c) ==
    /\ pc[c] = "called" /\ Allows(RoleOf[UserOf[c]]) /\ Valid(args[c])
    /\ args[c].ingredient \notin Ingredients
    /\ Return(c, Error("unknown ingredient"))

Converted(a) == ToBaseUnits(a.quantity, a.unit, BaseOf[a.ingredient])

RejectUnit(c) ==
    /\ pc[c] = "called" /\ Allows(RoleOf[UserOf[c]]) /\ Valid(args[c])
    /\ args[c].ingredient \in Ingredients /\ Converted(args[c]) = {}
    /\ Return(c, Error("incompatible unit"))

RequestFor(a, q, user) ==
    [key |-> a.key, ingredient |-> a.ingredient, operation |-> a.operation,
     quantity |-> q, performedBy |-> user]

\* Requests has every request the handler can make of these arguments.
ASSUME RequestsCoverArguments ==
    \A c \in Calls, a \in Arguments :
        Valid(a) /\ a.ingredient \in Ingredients =>
            \A q \in Converted(a) : RequestFor(a, q, UserOf[c]) \in Requests

\* Mutant: the call ends when the repository is asked.
ApplyAndForget(c) ==
    /\ pc[c] = "called" /\ Allows(RoleOf[UserOf[c]]) /\ Valid(args[c])
    /\ args[c].ingredient \in Ingredients
    /\ \E q \in Converted(args[c]) :
          Repository!Invoke(c, RequestFor(args[c], q, UserOf[c]))
    /\ Goto(c, "idle")
    /\ UNCHANGED <<args, report>>

Apply(c) ==
    /\ pc[c] = "called" /\ Allows(RoleOf[UserOf[c]]) /\ Valid(args[c])
    /\ args[c].ingredient \in Ingredients
    /\ \E q \in Converted(args[c]) :
          Repository!Invoke(c, RequestFor(args[c], q, UserOf[c]))
    /\ Goto(c, "applying")
    /\ UNCHANGED <<args, report>>

\* What the repository does on its own: it answers, or the server dies.
RepositoryStep ==
    /\ \/ \E c \in Calls :
             \/ Repository!Record(c) \/ Repository!Confirm(c)
             \/ Repository!Refuse(c) \/ Repository!Fail(c)
       \/ \E S \in SUBSET Calls \ {{}} : Repository!Lose(S)
    /\ UNCHANGED <<pc, args, report>>

\* Mutant: every movement is reported as the call's own.
ReportAsOwn(c) ==
    /\ pc[c] = "applying" /\ reply[c].outcome \in {"recorded", "replayed"}
    /\ Return(c, Result("moved", reply[c].place, BaseOf[args[c].ingredient], FALSE))

\* The result of a movement: its fields, the unit of the ingredient asked
\* for, and whether the key had been used before.
ReportMovement(c) ==
    /\ pc[c] = "applying" /\ reply[c].outcome \in {"recorded", "replayed"}
    /\ Return(c, Result("moved", reply[c].place, BaseOf[args[c].ingredient],
                        reply[c].outcome = "replayed"))

ReportError(c) ==
    /\ pc[c] = "applying"
    /\ \/ /\ reply[c].outcome \in {"insufficient", "unknown ingredient"}
          /\ Return(c, Error(reply[c].outcome))
       \/ /\ reply[c].outcome \in {"invalid operation", "failed"}
          /\ Return(c, Error("internal error"))

\* The client of a server that died is told nothing.
ReportNothing(c) ==
    /\ pc[c] = "applying" /\ reply[c].outcome = "lost"
    /\ Return(c, Error("lost"))

Next ==
    \/ RepositoryStep
    \/ \E c \in Calls :
          \/ \E a \in Arguments : Call(c, a)
          \/ Deny(c) \/ RejectArguments(c) \/ RejectIngredient(c) \/ RejectUnit(c)
          \/ Apply(c)
          \/ ReportMovement(c) \/ ReportError(c) \/ ReportNothing(c)

Spec == Init /\ [][Next]_vars

---------------------------------------------------------------------------

\* The types, and that the handler waits exactly while the repository works.
TypeOK ==
    /\ Repository!TypeOK
    /\ pc \in [Calls -> {"idle", "called", "applying"}]
    /\ args \in [Calls -> Arguments]
    /\ \A c \in Calls :
          /\ Repository!Pending(c) => pc[c] = "applying"
          /\ pc[c] = "idle" <=> report[c].kind # "pending"
          /\ report[c].place \in 0 .. Len(ledger)

\* Only users whose role allows it ever change the stock, and the audit trail
\* says which user did: nobody appears in it who was denied the tool.
OnlyAuthorisedMove ==
    \A n \in 1 .. Len(ledger) : RoleOf[ledger[n].performedBy] \in {"cook", "admin"}

Distance(x, y) == IF x < y THEN y - x ELSE x - y

\* A call that reports a movement of its own (not idempotent) has one on
\* file, of the user, the ingredient and the operation it asked for, and of
\* the quantity in the base unit to the nearest whole one, whatever other
\* calls did with the same key; a quantity no integer holds is on file as the
\* largest one or not at all, whatever the platform made of it
\* (handleAdjustInventory, ToBaseUnits).
ReportsOwnMovement ==
    \A c \in Calls :
        report[c].kind = "moved" /\ ~report[c].idempotent =>
            LET m == ledger[report[c].place]
                exact == args[c].quantity * BaseFactor(args[c].unit)
            IN  /\ m.key = args[c].key /\ m.ingredient = args[c].ingredient
                /\ m.operation = args[c].operation /\ m.performedBy = UserOf[c]
                /\ exact <= 1000 * MaxInt => Distance(1000 * m.quantity, exact) <= 500
                /\ exact > 1000 * MaxInt => m.quantity = MaxInt

\* "Inputs are validated against each tool's declared JSON Schema before
\* reaching the domain": the schema wants quantity > 0 (exclusiveMinimum 0).
OnlySchemaInputsMove ==
    \A c \in Calls :
        report[c].kind = "moved" /\ ~report[c].idempotent => args[c].quantity > 0

\* "Repeating the call with the same key returns the original movement": the
\* unit of the report is that of the movement's ingredient.
ReportIsOfTheMovement ==
    \A c \in Calls :
        report[c].kind = "moved" =>
            report[c].unit = BaseOf[ledger[report[c].place].ingredient]
===========================================================================
