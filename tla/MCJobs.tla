------------------------------ MODULE MCJobs ------------------------------
(* Small instances of OutputJobs for TLC: any two requests are alike. *)
EXTENDS OutputJobs, TLC

Symmetry == Permutations(Reqs)
===========================================================================
