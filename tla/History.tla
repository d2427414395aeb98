------------------------------ MODULE History ------------------------------
(***************************************************************************)
(* Undo, redo, compaction, the rewrite that goes with a purge and the      *)
(* merge of a hand edit, as qrec-core/src/history/ computes them.          *)
(*                                                                         *)
(* A project is its undoable view doc, the takes with media facts (done)   *)
(* and nextTakeNumber (num).  doc maps a path to its value: TL, the        *)
(* timeline, to the set of takes its clips use, SC to the project's scene  *)
(* and each take of the pool to its own.  A patch maps every path it       *)
(* touches to the values before and after: the test the code puts before a *)
(* change is Fits.  The code patches a timeline clip by clip and a scene   *)
(* member by member, here each is one value.                               *)
(*                                                                         *)
(* No operator here is RECURSIVE; the walks are recursive functions.       *)
(***************************************************************************)
EXTENDS Takes, Sequences, FiniteSets, FiniteSetsExt, Subsequence

CONSTANTS
  Scene,    \* the scenes a project or a take can have
  NewScene, \* the one a new project starts with
  Above,    \* COMPACT_ABOVE
  Keep      \* COMPACT_TO

ASSUME SceneAssumption == NewScene \in Scene
ASSUME CompactAssumption == Keep \in Nat /\ Above \in Nat /\ Keep <= Above
TL      == NoTake
SC      == -1
Pool(p) == DOMAIN p.doc \cap Take
Uses(d) == d[TL]

\* No view (a view has at least TL): a patch of a walk did not fit.
Drifted == <<>>

\* validate: a clip shows a finalized take, and the next number is free.
Valid(p) == /\ Uses(p.doc) \subseteq p.done
            /\ \A t \in Pool(p) : t < p.num

\* Every view of a project with these takes.
Doc(pool) == {[x \in {TL, SC} \cup pool |-> IF x = TL THEN uses ELSE scenes[x]] :
                uses \in SUBSET Take, scenes \in [{SC} \cup pool -> Scene]}

\* qrec.json as a text editor can leave it: any valid project.
File == {f \in [doc : UNION {Doc(pool) : pool \in SUBSET Take},
                done : SUBSET Take, num : 1 .. MaxTake + 1] :
           f.done \subseteq Pool(f) /\ Valid(f)}

NewProject == [doc |-> [x \in {TL, SC} |-> IF x = TL THEN {} ELSE NewScene],
               done |-> {}, num |-> 1]
NewHistory == [entries |-> <<>>, cursor |-> 0, base |-> 0, next |-> 1]

---------------------------------------------------------------------------
\* Patches

\* Only what both views have is compared: a take that comes or goes is a fact.
Diff(before, after) ==
  [x \in {y \in DOMAIN before \cap DOMAIN after : before[y] # after[y]} |->
     [from |-> before[x], to |-> after[x]]]

Flip(patch) == [x \in DOMAIN patch |-> [from |-> patch[x].to, to |-> patch[x].from]]

Fits(doc, patch) == \A x \in DOMAIN patch : x \in DOMAIN doc /\ doc[x] = patch[x].from

Step(doc, patch) ==
  IF doc # Drifted /\ Fits(doc, patch)
  THEN [x \in DOMAIN doc |-> IF x \in DOMAIN patch THEN patch[x].to ELSE doc[x]]
  ELSE Drifted

---------------------------------------------------------------------------
\* Positions: S_0 is the base, S_i the project after the i-th entry

Seqs(h) == {h.entries[i].seq : i \in DOMAIN h.entries}

Known(h, seq) == seq = h.base \/ seq \in Seqs(h)

PositionOf(h, seq) ==
  IF seq = h.base THEN 0 ELSE CHOOSE i \in DOMAIN h.entries : h.entries[i].seq = seq

SeqAt(h, pos) == IF pos = 0 THEN h.base ELSE h.entries[pos].seq

CursorPosition(h) == PositionOf(h, h.cursor)

\* Every state the history can reach from doc, the view at the cursor.
States(h, doc) ==
  LET c       == CursorPosition(h)
      n       == Len(h.entries)
      back[i \in 0 .. c] ==
        IF i = c THEN doc ELSE Step(back[i + 1], Flip(h.entries[i + 1].patch))
      forth[i \in c .. n] ==
        IF i = c THEN doc ELSE Step(forth[i - 1], h.entries[i].patch)
  IN  [i \in 0 .. n |-> IF i <= c THEN back[i] ELSE forth[i]]

\* move_to: what undo, redo and restore do, or nothing (none).
CanMove(h, p, pos) == LET doc == States(h, p.doc)[pos]
                      IN  doc # Drifted /\ Valid([p EXCEPT !.doc = doc])

Moved(h, p, pos) == [h |-> [h EXCEPT !.cursor = SeqAt(h, pos)],
                     p |-> [p EXCEPT !.doc = States(h, p.doc)[pos]]]

---------------------------------------------------------------------------
\* The ways a history is rewritten; base is the project of history.base.json

Rewritten(h, entries, base, cursor) ==
  [h EXCEPT !.entries = entries, !.base = base, !.cursor = cursor]

\* The entries an undo can still reach: those after the cursor are the redo tail.
Undoable(h) == Only(h.entries, {e \in Range(h.entries) : e.seq <= h.cursor})

\* Mutant of Appended: the number follows the newest entry that is left.
AppendedAfterLast(h, patch, after) ==
  LET kept == Undoable(h)
      seq  == IF kept = <<>> THEN h.base + 1 ELSE kept[Len(kept)].seq + 1
  IN  [h EXCEPT !.entries = Append(kept, [seq |-> seq, patch |-> patch, after |-> after]),
                !.cursor = seq, !.next = seq + 1]

\* An append drops the redo tail.
Appended(h, patch, after) ==
  LET kept == Undoable(h)
  IN  [h EXCEPT !.entries = Append(kept, [seq |-> h.next, patch |-> patch, after |-> after]),
                !.cursor = h.next, !.next = h.next + 1]

\* walk_back: the oldest position from which stop can be seen, and the view
\* there; an entry whose inverse no longer fits ends the walk.
WalkBack(h, doc, stop) ==
  LET s == States(h, doc)
      c == CursorPosition(h)
      reached == Min({i \in stop .. c : \A j \in i .. c : s[j] # Drifted})
  IN  [pos |-> reached, doc |-> s[reached]]

\* How many of the oldest entries a compaction drops; never one after the cursor.
Dropped(h) ==
  IF Len(h.entries) <= Above THEN 0
  ELSE Min({Len(h.entries) - Keep, CursorPosition(h)})

\* Mutant of CompactedTo: the base is the first entry kept.
CompactedOneShort(h, p, drop) ==
  LET w == WalkBack(h, p.doc, drop)
  IN  [h |-> Rewritten(h, SubSeq(h.entries, w.pos + 1, Len(h.entries)),
                       SeqAt(h, w.pos + 1), h.cursor),
       base |-> [p EXCEPT !.doc = w.doc]]

CompactedTo(h, p, drop) ==
  LET w == WalkBack(h, p.doc, drop)
  IN  [h |-> Rewritten(h, SubSeq(h.entries, w.pos + 1, Len(h.entries)),
                       SeqAt(h, w.pos), h.cursor),
       base |-> [p EXCEPT !.doc = w.doc]]

\* derive_base: the base of a history whose history.base.json is lost.
Derived(h, p) == CompactedTo(h, p, 0)

WithoutTakes(p, takes) ==
  [p EXCEPT !.doc = [x \in DOMAIN p.doc \ takes |-> p.doc[x]], !.done = @ \ takes]

\* An entry without what it does below /takes/T.
Stripped(e, takes) == [e EXCEPT !.patch = [x \in DOMAIN e.patch \ takes |-> e.patch[x]]]

\* A state that would bring a purged take back, or that no walk reaches.
Unwanted(doc, takes) == doc = Drifted \/ Uses(doc) \cap takes # {}

\* Mutant of Front: the entry that last used a take is kept.
FrontOneShort(h, s, takes) ==
  LET c == CursorPosition(h)
      bad == {i \in 0 .. c - 1 : Unwanted(s[i], takes)}
  IN  IF bad = {} THEN 0 ELSE Max(bad)

\* The entries up to Front go: with i the last position before the cursor
\* whose state uses a purged take or cannot be reached, i + 1.
Front(h, s, takes) ==
  LET c == CursorPosition(h)
      bad == {i \in 0 .. c - 1 : Unwanted(s[i], takes)}
  IN  IF bad = {} THEN 0 ELSE Max(bad) + 1

\* The entries after Back go: the redo tail up to its first such state.
Back(h, s, takes) ==
  LET n   == Len(h.entries)
      bad == {i \in CursorPosition(h) + 1 .. n : Unwanted(s[i], takes)}
  IN  IF bad = {} THEN n ELSE Min(bad) - 1

\* The cursor after entries went: the newest kept one not after it.
CursorAfter(h, kept, base) ==
  LET at == {kept[i].seq : i \in DOMAIN kept} \cap 0 .. h.cursor
  IN  IF at = {} THEN base ELSE Max(at)

\* Mutant of Rehashed: the hashes stay as they were.
KeptHashes(entries, doc) == entries

\* Hashes are taken again: the view after each entry, from the new base on.
Rehashed(entries, doc) ==
  LET view[i \in 0 .. Len(entries)] ==
        IF i = 0 THEN doc ELSE Step(view[i - 1], entries[i].patch)
  IN  [i \in DOMAIN entries |-> [entries[i] EXCEPT !.after = view[i]]]

\* rewrite (purge.rs): the states that used the takes go, the others stay
\* reachable without them.
PurgeRewrite(h, p, takes) ==
  LET s     == States(h, p.doc)
      front == Front(h, s, takes)
      base  == WithoutTakes([p EXCEPT !.doc = s[front]], takes)
      seq   == SeqAt(h, front)
      some  == SubSeq(h.entries, front + 1, Back(h, s, takes))
      bare  == [i \in DOMAIN some |-> Stripped(some[i], takes)]
      kept  == Only(bare, {e \in Range(bare) : DOMAIN e.patch # {}})
  IN  [h    |-> Rewritten(h, Rehashed(kept, base.doc), seq, CursorAfter(h, kept, seq)),
       base |-> base]

---------------------------------------------------------------------------
\* Commits

\* commit: p becomes q; equal views append nothing.  op is the one history
\* effect: an append, a rewrite (with the project of the new base) or none.
Commit(h, p, q) ==
  LET patch == Diff(p.doc, q.doc)
      next  == Appended(h, patch, q.doc)
      drop  == Dropped(next)
      short == CompactedTo(next, q, drop)
  IN  IF DOMAIN patch = {} THEN [p |-> q, h |-> h, op |-> "none", base |-> q]
      ELSE IF drop = 0 THEN [p |-> q, h |-> next, op |-> "append", base |-> q]
      ELSE [p |-> q, h |-> short.h, op |-> "rewrite", base |-> short.base]

\* begin_take: take num joins the pool with the project's scene.
Begun(p) ==
  [p EXCEPT !.doc = [x \in DOMAIN p.doc \cup {p.num} |->
                       IF x = p.num THEN p.doc[SC] ELSE p.doc[x]],
            !.num = @ + 1]

\* merge_external: the timeline and the scenes are the file's; takes only
\* memory knows stay, takes only the file knows come with its facts, and of
\* a take both know the facts stay as in memory.  The take this host records
\* keeps its scene too; one an earlier host left takes the file's.
MergeExternal(p, file, recorded) ==
  LET new == Pool(file) \ Pool(p)
  IN  [doc  |-> [x \in DOMAIN p.doc \cup new |->
                   IF x \in DOMAIN file.doc \ recorded THEN file.doc[x] ELSE p.doc[x]],
       done |-> p.done \cup (file.done \cap new),
       num  |-> Max({p.num, file.num})]
=============================================================================
