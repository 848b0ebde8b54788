----------------------------- MODULE Movements -----------------------------
(***************************************************************************)
(* What the two repositories share: the requests for an adjustment, the    *)
(* movements recorded for them, and the questions the ledger of movements  *)
(* answers (internal/storage/repository.go, internal/domain/model.go).     *)
(*                                                                         *)
(* A movement is identified by its place in the ledger, which is the       *)
(* number in the code's "mv-%06d".  Reason and creation time are left out. *)
(***************************************************************************)
EXTENDS Quantities, Sequences

CONSTANTS
    Ingredients,    \* identifiers of the catalogue
    OpeningStock,   \* quantity of each ingredient in the seed data
    Requests        \* the adjustments clients may ask for

ASSUME CatalogueAssumption ==
    Ingredients # {} /\ OpeningStock \in [Ingredients -> Quantity]

\* A request may name an unknown ingredient or operation; its quantity is
\* any int64, for ApplyMovement puts no condition on it.
ASSUME RequestsAssumption ==
    \A r \in Requests :
        /\ DOMAIN r = {"key", "ingredient", "operation", "quantity", "performedBy"}
        /\ r.quantity \in Int64

PerformerOrDefault(user) == IF user = "" THEN "unspecified" ELSE user

\* The movement recorded for request r when the stock was previous.
MovementOf(r, previous) ==
    [key         |-> r.key,
     ingredient  |-> r.ingredient,
     operation   |-> r.operation,
     quantity    |-> r.quantity,
     performedBy |-> PerformerOrDefault(r.performedBy),
     previous    |-> previous,
     resulting   |-> Resulting(r.operation, previous, r.quantity)]

Movement == {MovementOf(r, previous) : r \in Requests, previous \in Quantity}

---------------------------------------------------------------------------
(* Questions about a ledger l. *)

KeyRecorded(l, k) == \E n \in 1 .. Len(l) : l[n].key = k

PlaceOf(l, k) == CHOOSE n \in 1 .. Len(l) : l[n].key = k

\* q is the stock of i after the first n movements: what the last of them on
\* i left, or the opening stock when none is on i.
IsBalance(l, i, n, q) ==
    \/ q = OpeningStock[i] /\ \A m \in 1 .. n : l[m].ingredient # i
    \/ \E m \in 1 .. n :
          /\ l[m].ingredient = i /\ l[m].resulting = q
          /\ \A later \in m + 1 .. n : l[later].ingredient # i
===========================================================================
