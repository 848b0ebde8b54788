---------------------------- MODULE Quantities ----------------------------
(***************************************************************************)
(* The arithmetic of the inventory: 64-bit integers that wrap around, the  *)
(* three adjustment operations, and the conversion of a requested quantity *)
(* to the base unit of an ingredient (internal/domain/units.go).           *)
(***************************************************************************)
EXTENDS Integers

CONSTANT MaxInt   \* the largest int64; TLC runs with a small one

ASSUME MaxIntAssumption == MaxInt \in Nat \ {0}

MinInt == -(MaxInt + 1)
Int64 == MinInt .. MaxInt
Quantity == 0 .. MaxInt

\* Two's complement reduction of the sum or the difference of two int64.
Wrap(x) == IF x > MaxInt THEN x - 2 * (MaxInt + 1)
           ELSE IF x < MinInt THEN x + 2 * (MaxInt + 1)
           ELSE x

---------------------------------------------------------------------------
(* Adjustments. *)

Operations == {"add", "subtract", "set"}

\* What the operation means on unbounded integers.
Exact(op, previous, q) ==
    IF op = "add" THEN previous + q
    ELSE IF op = "subtract" THEN previous - q
    ELSE q

\* Mutant: arithmetic that stops at the largest value instead of wrapping.
Saturated(op, previous, q) ==
    IF Exact(op, previous, q) > MaxInt THEN MaxInt ELSE Exact(op, previous, q)

\* What the switch on req.Operation computes on int64.
Resulting(op, previous, q) == Wrap(Exact(op, previous, q))

---------------------------------------------------------------------------
(* Units.  A quantity of the request is a JSON number; it is modelled in   *)
(* thousandths, so 1.5 l is 1500 with unit "l".                            *)

Family(u) == CASE u \in {"g", "kg"} -> "mass"
               [] u \in {"ml", "l"} -> "volume"
               [] u = "unit"        -> "piece"
               [] OTHER             -> "none"

BaseFactor(u) == IF u \in {"kg", "l"} THEN 1000 ELSE 1

\* math.Round: to the nearest integer, halves away from zero.
Round(thousandths) ==
    IF thousandths >= 0 THEN (thousandths + 500) \div 1000
                        ELSE -((500 - thousandths) \div 1000)

(***************************************************************************)
(* The int64 values ToBaseUnits can return; none when it returns           *)
(* ErrIncompatibleUnit.  Go leaves int64(f) to the platform when f does    *)
(* not fit: amd64 gives the minimum, arm64 the nearest bound.              *)
(***************************************************************************)
ToBaseUnits(thousandths, from, base) ==
    LET rounded == Round(thousandths * BaseFactor(from))
    IN  IF Family(from) = "none" \/ Family(from) # Family(base) THEN {}
        ELSE IF rounded \in Int64 THEN {rounded}
        ELSE IF rounded > MaxInt THEN {MinInt, MaxInt}
        ELSE {MinInt}
===========================================================================
