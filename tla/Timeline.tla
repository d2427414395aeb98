------------------------------ MODULE Timeline ------------------------------
(***************************************************************************)
(* The list operations of qrec-core/src/timeline.rs on a sequence of clips *)
(* [id, take, out].  A clip shows a take from frame 0 up to out: where it  *)
(* starts inside its take (in) is abstracted, every operation here treats  *)
(* both edges alike.                                                       *)
(***************************************************************************)
EXTENDS Takes, FiniteSets, Subsequence, SequencesExt

Clip == [id : Nat, take : Take, out : Nat]

ClipIds(clips) == {clips[i].id : i \in DOMAIN clips}

\* The positions of the clips with these ids.
PositionsOf(clips, ids) == {i \in DOMAIN clips : clips[i].id \in ids}

\* The clips with these ids sit next to each other; no id is unknown and an
\* empty set is no run.
IsContiguous(clips, ids) ==
  LET at == PositionsOf(clips, ids)
  IN  /\ ids # {}
      /\ ids \subseteq ClipIds(clips)
      /\ \A i, j \in at : \A k \in i .. j : k \in at

\* The first position of a run of clips.
StartOf(clips, ids) ==
  CHOOSE i \in PositionsOf(clips, ids) : \A j \in PositionsOf(clips, ids) : i <= j

RemoveClips(clips, ids) == Only(clips, {c \in ToSet(clips) : c.id \notin ids})

\* new goes before position at (past the end: after the last clip).
InsertClips(clips, at, new) ==
  LET n == IF at > Len(clips) + 1 THEN Len(clips) + 1 ELSE at
  IN  SubSeq(clips, 1, n - 1) \o new \o SubSeq(clips, n, Len(clips))

AppendClip(clips, clip) == InsertClips(clips, Len(clips) + 1, <<clip>>)

\* The len clips from position start give way to new.
ReplaceRun(clips, start, len, new) ==
  SubSeq(clips, 1, start - 1) \o new \o SubSeq(clips, start + len, Len(clips))
=============================================================================
