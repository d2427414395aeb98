------------------------------ MODULE MCRecord ------------------------------
(* Small instances of RecordMachine for TLC. *)
EXTENDS RecordSafety

Empty ==
  [ status |-> [t \in Take |-> "none"], dur |-> [t \in Take |-> 0],
    placed |-> [t \in Take |-> FALSE], replaced |-> [t \in Take |-> <<>>],
    missing |-> [t \in Take |-> {}], next |-> 1, clips |-> <<>>, scene |-> TRUE ]

\* Take 1 on the timeline, split into two clips.
OneTake ==
  [Empty EXCEPT !.status[1] = "ok", !.dur[1] = 2, !.placed[1] = TRUE, !.next = 2,
                !.clips = <<[id |-> 11, take |-> 1, out |-> 2], [id |-> 12, take |-> 1, out |-> 1]>>]

\* Take 1 taken off the timeline: in the bin.
InBin == [OneTake EXCEPT !.clips = <<>>]

\* A host died while it recorded the project's first take.
LeftFirst == [Empty EXCEPT !.status[1] = "recording", !.next = 2]

JustOneTake == {OneTake}
JustLeftFirst == {LeftFirst}
JustBinned == {InBin}

Symmetry == Permutations(Req)
=============================================================================
