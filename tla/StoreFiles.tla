----------------------------- MODULE StoreFiles -----------------------------
(***************************************************************************)
(* The files of a project and what an open makes of them (store/load.rs).  *)
(*                                                                         *)
(* disk is a record: qrec, the project in qrec.json (or Missing, or Broken *)
(* when it does not parse, migrate and validate); base, the project and    *)
(* seq of history.base.json; lines and torn, the entries of history.jsonl  *)
(* and whether half a line follows them; head, the commit record of        *)
(* history.head.json.                                                      *)
(***************************************************************************)
EXTENDS History

CONSTANTS Missing, Broken, Nothing

Empty == [qrec |-> Missing, base |-> Nothing, lines |-> <<>>, torn |-> FALSE,
          head |-> Nothing]

Usable(d) == d.qrec \notin {Missing, Broken}

\* classify: what the folder rule makes of them.
IsEmptyFolder(d) == d = Empty
IsMissingFile(d) == d.qrec = Missing /\ ~IsEmptyFolder(d)

LastSeq(entries, base) == IF entries = <<>> THEN base ELSE entries[Len(entries)].seq

Since(entries, base) == Only(entries, {e \in Range(entries) : e.seq > base})

\* parse_history: refused unless the lines are numbered upwards.
Readable(d) == \A i, j \in DOMAIN d.lines : i < j => d.lines[i].seq < d.lines[j].seq

---------------------------------------------------------------------------
\* With a commit record

\* Mutant of FinishesCommit: no commit is ever finished.
NeverFinished(h, head, new, file) == FALSE

\* Mutant of FinishesCommit: whatever follows the head is taken.
FinishesAny(h, head, new, file) == new # <<>>

\* file is what the commit saved that appended the lines new past the head.
FinishesCommit(h, head, new, file) ==
  /\ new # <<>>
  /\ \A i \in DOMAIN new : new[i].seq = head.next + i - 1
  /\ LastSeq(h.entries, h.base) = h.cursor
  /\ Pool(head.p) \subseteq Pool(file) /\ file.num >= head.p.num
  /\ file.doc = new[Len(new)].after

\* with_head; file is a usable qrec.json that differs from the head's, if any.
WithHead(d, file) ==
  LET head  == d.head
      seq   == IF d.base = Nothing THEN head.base ELSE d.base.seq
      since == Since(d.lines, seq)
      old   == Only(since, {e \in Range(since) : e.seq < head.next})
      new   == Only(since, {e \in Range(since) : e.seq >= head.next})
      h     == [entries |-> old, cursor |-> head.cursor, base |-> seq,
                next |-> Max({head.next, LastSeq(old, 0) + 1, seq + 1})]
      known == Known(h, head.cursor)
      ends  == known /\ file # Nothing /\ FinishesCommit(h, head, new, file)
  IN  [p      |-> IF ends THEN file ELSE head.p,
       h      |-> IF ~known THEN [h EXCEPT !.entries = <<>>, !.base = head.cursor]
                  ELSE IF ends THEN [h EXCEPT !.entries = since, !.cursor = LastSeq(new, 0),
                                              !.next = Max({@, LastSeq(new, 0) + 1})]
                  ELSE h,
       base   |-> IF known THEN Nothing ELSE head.p,
       repair |-> \/ d.torn \/ seq # head.base \/ ~known \/ ends
                  \/ Len(old) < Len(d.lines)]

---------------------------------------------------------------------------
\* Without one

\* without_head: qrec.json is the project, the cursor is found by its hash.
WithoutHead(d) ==
  LET seq     == IF d.base = Nothing THEN 0 ELSE d.base.seq
      since   == Since(d.lines, seq)
      hits    == {e.seq : e \in {since[i] : i \in {j \in DOMAIN since :
                                                    since[j].after = d.qrec.doc}}}
      cursor  == IF hits # {} THEN Max(hits)
                 ELSE IF d.base # Nothing /\ d.base.p.doc = d.qrec.doc THEN seq
                 ELSE LastSeq(since, seq)
  IN  [p      |-> d.qrec,
       h      |-> [entries |-> since, cursor |-> cursor, base |-> seq,
                   next |-> Max({LastSeq(since, 0) + 1, seq + 1})],
       base   |-> IF d.base = Nothing /\ since = <<>> THEN d.qrec ELSE Nothing,
       repair |-> TRUE]

\* The takes an entry's forward patch names, and all it names.
Mentions(e)   == (DOMAIN e.patch \cap Take)
                 \cup (IF TL \in DOMAIN e.patch THEN e.patch[TL].to \ e.patch[TL].from ELSE {})
TakesNamed(e) == Mentions(e)
                 \cup (IF TL \in DOMAIN e.patch THEN e.patch[TL].from \ e.patch[TL].to ELSE {})

\* readd: takes found on disk join the pool, still recording, with the
\* project's scene as it is then.
Readd(p, takes) ==
  [p EXCEPT !.doc = [x \in DOMAIN p.doc \cup takes |-> IF x \in takes THEN p.doc[SC] ELSE p.doc[x]],
            !.num = Max({@} \cup {t + 1 : t \in takes})]

\* rebuild: the base replayed, each take of dirs right before the entry that
\* needs it; an entry that does not fit ends the replay.
Rebuild(d, dirs) ==
  LET since == Since(d.lines, d.base.seq)
      named == UNION {TakesNamed(since[i]) : i \in DOMAIN since}
      first == [d.base.p EXCEPT !.num = Max({@} \cup {t + 1 : t \in named})]
      with(p, e) == Readd(p, (dirs \cap Mentions(e)) \ Pool(p))
      at[i \in 0 .. Len(since)] ==
        IF i = 0 THEN first
        ELSE IF at[i - 1].doc = Drifted THEN at[i - 1]
        ELSE LET q == with(at[i - 1], since[i])
             IN  [q EXCEPT !.doc = Step(q.doc, since[i].patch)]
      n    == Max({i \in 0 .. Len(since) : at[i].doc # Drifted})
      \* The takes the entry that did not fit brought stay.
      last == IF n = Len(since) THEN at[n] ELSE with(at[n], since[n + 1])
      kept == SubSeq(since, 1, n)
      seq  == LastSeq(kept, d.base.seq)
  IN  [p      |-> Readd(last, dirs \ Pool(last)),
       h      |-> [entries |-> kept, cursor |-> seq, base |-> d.base.seq, next |-> seq + 1],
       base   |-> Nothing,
       repair |-> TRUE]

---------------------------------------------------------------------------
\* load: the project, its history, the project of a base still to be written,
\* and whether the files need a repair

\* derive_lost_base: a history with entries and no base gets one.
WithBase(d, l) ==
  IF d.base # Nothing \/ l.base # Nothing \/ l.h.entries = <<>> THEN l
  ELSE LET c == Derived(l.h, l.p)
       IN  [p |-> l.p, h |-> c.h, base |-> c.base, repair |-> TRUE]

\* An open that is refused: normal mode needs a qrec.json, recovery mode
\* something to recover from.
Refused(d, recovery) ==
  \/ ~Readable(d)
  \/ ~Usable(d) /\ (~recovery \/ (d.head = Nothing /\ d.base = Nothing))

Load(d, recovery, dirs) ==
  LET edit == IF Usable(d) /\ d.qrec # d.head.p THEN d.qrec ELSE Nothing
  IN  WithBase(d, IF d.head # Nothing THEN WithHead(d, edit)
                  ELSE IF Usable(d) THEN WithoutHead(d)
                  ELSE Rebuild(d, dirs))

\* What of qrec.json the core still has to merge.
External(d, l) == IF Usable(d) /\ d.qrec # l.p THEN d.qrec ELSE Nothing
=============================================================================
