------------------------------- MODULE Takes -------------------------------
(***************************************************************************)
(* Take numbers, shared by every module: take-NNNN is its number.          *)
(***************************************************************************)
EXTENDS Integers

\* The highest number a take can have: u32::MAX in the code.
CONSTANT MaxTake

ASSUME MaxTakeAssumption == MaxTake \in Nat \ {0}

Take   == 1 .. MaxTake
NoTake == 0

\* Mutant of SaturatingSucc: no end to the numbers.
UnboundedSucc(n) == n + 1

\* u32::saturating_add(1).
SaturatingSucc(n) == IF n < MaxTake THEN n + 1 ELSE MaxTake
=============================================================================
