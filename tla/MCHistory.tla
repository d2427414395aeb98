----------------------------- MODULE MCHistory -----------------------------
(***************************************************************************)
(* History.cfg has one take, two scenes and five numbers, and compacts     *)
(* more than three entries down to two.                                    *)
(***************************************************************************)
EXTENDS HistoryMachine
=============================================================================
