--------------------------- MODULE HistoryMachine ---------------------------
(***************************************************************************)
(* The commands and events that move the undo history (apply/history.rs,   *)
(* on_event/disk.rs, history/commit.rs), on a project in memory.  snap is  *)
(* the project of the last history.base.json, top the highest number an    *)
(* entry ever had.                                                         *)
(***************************************************************************)
EXTENDS History

CONSTANT MaxSeq  \* bound: entries ever numbered

VARIABLES project, history, snap, top

vars == <<project, history, snap, top>>

Init == /\ project = NewProject
        /\ history = NewHistory
        /\ snap = NewProject
        /\ top = 0

\* What a step with a history effect leaves.
Leaves(c) ==
  /\ c.h.next <= MaxSeq + 1
  /\ project' = c.p
  /\ history' = c.h
  /\ snap' = IF c.op = "rewrite" THEN c.base ELSE snap
  /\ top' = Max({top} \cup Seqs(c.h))

InFlight == Pool(project) \ project.done

---------------------------------------------------------------------------
\* An edit of the timeline or of scenes; refused while recording.
Edit ==
  /\ InFlight = {}
  /\ \E d \in Doc(Pool(project)) :
       LET q == [project EXCEPT !.doc = d]
       IN  d # project.doc /\ Valid(q) /\ Leaves(Commit(history, project, q))

\* A take begins: a fact, no entry.
BeginTake ==
  /\ InFlight = {}
  /\ project.num \in Take
  /\ project' = Begun(project)
  /\ UNCHANGED <<history, snap, top>>

\* A take ends: its facts first, then (if any of it is kept) the entry that
\* puts its clips on the timeline.
EndTake ==
  \E t \in InFlight, placed \in BOOLEAN :
    LET facts == [project EXCEPT !.done = @ \cup {t}]
        q     == IF placed THEN [facts EXCEPT !.doc[TL] = @ \cup {t}] ELSE facts
    IN  Leaves(Commit(history, facts, q))

\* Undo, redo and restore move the cursor by positions, all or nothing.
MoveTo(pos) ==
  /\ InFlight = {}
  /\ CanMove(history, project, pos)
  /\ LET m == Moved(history, project, pos)
     IN  history' = m.h /\ project' = m.p
  /\ UNCHANGED <<snap, top>>

Undo == \E pos \in 0 .. CursorPosition(history) - 1 : MoveTo(pos)

Redo == \E pos \in CursorPosition(history) + 1 .. Len(history.entries) : MoveTo(pos)

\* qrec history clear: no entries, the base is the project.
Clear ==
  /\ InFlight = {}
  /\ history.entries # <<>>
  /\ Leaves([h |-> Rewritten(history, <<>>, history.cursor, history.cursor),
             p |-> project, op |-> "rewrite", base |-> project])

\* qrec take purge: takes in the bin leave the pool, the history and later
\* the disk.
Purge ==
  /\ InFlight = {}
  /\ \E takes \in SUBSET (project.done \ Uses(project.doc)) \ {{}} :
       LET r == PurgeRewrite(history, project, takes)
       IN  Leaves([h |-> r.h, p |-> WithoutTakes(project, takes),
                   op |-> "rewrite", base |-> r.base])

\* A hand edit is merged and committed as "External edit"; a merge that does
\* not validate changes nothing but disk_invalid.  A take in flight is recorded
\* by this host, or left by an earlier one and being recovered.
ProjectChangedOnDisk ==
  \E file \in File, recorded \in SUBSET InFlight :
    LET q == MergeExternal(project, file, recorded)
    IN  file # project /\ Valid(q) /\ Leaves(Commit(history, project, q))

Next == \/ Edit \/ BeginTake \/ EndTake \/ Undo \/ Redo \/ Clear \/ Purge
        \/ ProjectChangedOnDisk

Spec == Init /\ [][Next]_vars

---------------------------------------------------------------------------
\* Entries are numbered upwards from the base, and no number is given twice,
\* whatever undo, purge, clear and compaction did to the entries between
\* (state.rs "Seqs are never reused").
SeqsAreNotReused ==
  LET e == history.entries
  IN  /\ \A i, j \in DOMAIN e : i < j => e[i].seq < e[j].seq
      /\ \A i \in DOMAIN e : history.base < e[i].seq
      /\ top < history.next

\* Every entry can be undone back to the base and redone to the newest, and
\* every project on the way validates: no undo finds the project drifted and
\* none brings back a clip of a purged take.
EveryStateIsReachable ==
  LET s == States(history, project.doc)
  IN  \A i \in DOMAIN s : s[i] # Drifted /\ Valid([project EXCEPT !.doc = s[i]])

\* history.base.json is the oldest state the history undoes to, but for the
\* takes recorded since: what a rebuild starts from is what undo ends at.
BaseIsTheOldestState ==
  LET oldest == States(history, project.doc)[0]
  IN  \A x \in DOMAIN snap.doc : x \in DOMAIN oldest /\ oldest[x] = snap.doc[x]

\* An entry's after_hash is of the state the entry leads to, but for the takes
\* that came later: the cursor a lost commit record is rebuilt from.
HashesMatch ==
  LET s == States(history, project.doc)
  IN  \A i \in DOMAIN history.entries :
        LET after == history.entries[i].after
        IN  \A x \in DOMAIN after : x \in DOMAIN s[i] /\ s[i][x] = after[x]
=============================================================================
