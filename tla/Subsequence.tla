---------------------------- MODULE Subsequence ----------------------------
(***************************************************************************)
(* The elements of a sequence that are in a set, in their order.  It is    *)
(* SelectSeq for a set, written as a recursive function: the provers know  *)
(* SelectSeq by its name only.                                             *)
(***************************************************************************)
EXTENDS Integers, Sequences

Only(seq, S) ==
    LET some[i \in 0 .. Len(seq)] ==
          IF i = 0 THEN <<>>
          ELSE IF seq[i] \in S THEN Append(some[i - 1], seq[i]) ELSE some[i - 1]
    IN  some[Len(seq)]
=============================================================================
