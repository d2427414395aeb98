----------------------------- MODULE StoreProofs -----------------------------
(* The project store, proved for any number of takes, entries, failing     *)
(* writes, crashes and hand edits: no command or event replaces an edit    *)
(* nobody has read, and a store with nothing to repair has in its files    *)
(* what it has in memory.                                                  *)
EXTENDS ProjectStore, SequenceLemmas

----------------------------------------------------------------------------
(* What everything is made of.                                             *)

Fcn(f) == f = [x \in DOMAIN f |-> f[x]]

\* None is no project, no base, no record and no commit.
NothingIsNone == ~Fcn(Nothing)

Project(p) ==
    /\ p = [doc |-> p.doc, done |-> p.done, num |-> p.num]
    /\ Fcn(p.doc) /\ TL \in DOMAIN p.doc /\ p.done \subseteq Take

Entry(e) == e = [seq |-> e.seq, patch |-> e.patch, after |-> e.after] /\ e.seq \in Nat

Lines(l) == l \in Seq(Range(l)) /\ \A i \in 1 .. Len(l) : Entry(l[i])

Upward(l) == \A i, j \in 1 .. Len(l) : i < j => l[i].seq < l[j].seq

\* A history: numbered upwards from the base, the cursor at one of its numbers.
Ordered(h) ==
    /\ h = [entries |-> h.entries, cursor |-> h.cursor, base |-> h.base, next |-> h.next]
    /\ h.base \in Nat /\ h.cursor \in Nat /\ h.next \in Nat /\ h.base < h.next
    /\ Lines(h.entries)
    /\ \A i \in 1 .. Len(h.entries) : h.base < h.entries[i].seq /\ h.entries[i].seq < h.next
    /\ \A i, j \in 1 .. Len(h.entries) : i < j => h.entries[i].seq < h.entries[j].seq
    /\ \E c \in 0 .. Len(h.entries) : SeqAt(h, c) = h.cursor

Text(q) == q \in {Missing, Broken} \/ Project(q)

Base(b) == b # Nothing => b = [seq |-> b.seq, p |-> b.p] /\ b.seq \in Nat /\ Project(b.p)

HeadRecord(h) ==
    h # Nothing =>
      /\ h = [cursor |-> h.cursor, base |-> h.base, next |-> h.next, p |-> h.p]
      /\ h.cursor \in Nat /\ h.base \in Nat /\ h.next \in Nat
      /\ h.cursor < h.next /\ h.base < h.next
      /\ Project(h.p)

Disk(d) ==
    /\ d = [qrec |-> d.qrec, base |-> d.base, lines |-> d.lines, torn |-> d.torn, head |-> d.head]
    /\ Text(d.qrec) /\ Base(d.base) /\ Lines(d.lines) /\ d.torn \in BOOLEAN /\ HeadRecord(d.head)

Mem(m) ==
    /\ m = [p |-> m.p, h |-> m.h, bad |-> m.bad, recorded |-> m.recorded]
    /\ m.p # Nothing => Project(m.p)
    /\ m.p = Nothing => m = NoState
    /\ Ordered(m.h) /\ m.bad \in BOOLEAN

Store(s) ==
    /\ s = [dirty |-> s.dirty, hasBase |-> s.hasBase, pending |-> s.pending, known |-> s.known,
            replaced |-> s.replaced]
    /\ s.dirty \in BOOLEAN /\ Base(s.pending)

\* The files the outcome's lines are written to hold the history m.h, where
\* the commit takes that on trust.
Outcome(o, m) ==
    /\ o = [p |-> o.p, h |-> o.h, bad |-> o.bad, op |-> o.op, base |-> o.base,
            write |-> o.write, made |-> o.made, gone |-> o.gone]
    /\ Project(o.p) /\ Ordered(o.h) /\ o.bad \in BOOLEAN
    /\ o.op = "rewrite" => Project(o.base)
    /\ o.op = "none" => o.h.entries = m.h.entries
    /\ o.op = "append" /\ ~HasRedoTail(m.h) =>
         o.h.entries = Append(m.h.entries, o.h.entries[Len(o.h.entries)])

Hands == {"own", "unseen", "seen", "bad"}

MarkOf(k) ==
    /\ k = [qrec |-> k.qrec, base |-> k.base, dirty |-> k.dirty, hasBase |-> k.hasBase,
            pending |-> k.pending, known |-> k.known, hand |-> k.hand]
    /\ Text(k.qrec) /\ Base(k.base) /\ k.dirty \in BOOLEAN /\ Base(k.pending)
    /\ k.hand \in Hands

Writing == {"base", "lines", "project"}
Undoing == {"dropProject", "dropBase", "dropLines"}

Commit1(r, m) ==
    /\ r = [at |-> r.at, o |-> r.o, origin |-> r.origin, forced |-> r.forced,
            reclaimed |-> r.reclaimed, mark |-> r.mark]
    /\ r.at \in Writing \cup {"head", "failed", "keep"} \cup Undoing
    /\ r.origin \in {"command", "event", "open", "exit"}
    /\ Outcome(r.o, m) /\ r.reclaimed \in BOOLEAN
    /\ r.mark # Nothing => MarkOf(r.mark)
    /\ r.at \in Undoing => r.mark # Nothing

Todo(q) ==
    /\ q \in Seq(Range(q))
    /\ \A i \in 1 .. Len(q) :
         /\ q[i] = [what |-> q[i].what, file |-> q[i].file, attempts |-> q[i].attempts]
         /\ q[i].what \in {"command", "takeEnds", "external"}
         /\ q[i].what = "external" => Text(q[i].file)
         /\ i > 1 => q[i].what = "external"

FilesInv ==
    /\ Disk(disk) /\ Mem(mem) /\ Store(store) /\ Todo(todo)
    /\ proc \in {"off", "opening", "on"} /\ hand \in Hands
    /\ proc = "off" => run = Nothing /\ todo = <<>>
    /\ proc = "opening" => Initialized
    /\ run # Nothing => Commit1(run, mem)
    /\ \A i \in 1 .. Len(todo) : todo[i].what = "external" => Initialized
    /\ run # Nothing => (run.origin \in {"command", "event"} <=> todo # <<>>)
    /\ run # Nothing /\ run.mark # Nothing => Len(todo) = 1 /\ Top.what = "command"

\* Where the edits are: nobody has read what the store does not know, and
\* what it could not merge makes the state bad.
HandInv ==
    /\ disk.head = Nothing => hand = "own"
    /\ disk.head # Nothing /\ proc # "off" => Initialized
    /\ proc # "off" => (hand = "unseen" => Changed) /\ (hand = "bad" => mem.bad)
    /\ run # Nothing /\ run.at \in Writing /\ ~run.forced /\ run.origin \in {"command", "event"}
         => hand \in {"own", "seen"}
    /\ run # Nothing /\ run.mark # Nothing =>
         /\ run.mark.hand \in {"own", "unseen", "seen"}
         /\ run.mark.hand = "unseen" => run.mark.known # run.mark.qrec
         /\ disk.head = Nothing => run.mark.hand = "own"
    /\ run # Nothing /\ run.origin \in {"open", "exit"} => ~mem.bad
    /\ run # Nothing /\ run.origin \in {"command", "event"} /\ Top.what = "external" => ~run.o.bad
    /\ ~lost

\* qrec.json is Qrec's own and not the project only while the open merges it,
\* or when it could not be.
OwnIs(q, k, t) ==
    /\ k = q
    /\ \/ q = mem.p
       \/ Len(t) = 1 /\ t[1].what = "external" /\ t[1].file = q
       \/ mem.bad /\ (t = <<>> \/ (Len(t) = 1 /\ t[1].what # "external"))

CleanInv ==
    /\ proc # "off" /\ ~Initialized => disk.lines = <<>> /\ ~disk.torn
    /\ run # Nothing /\ ~Initialized => run.o.op = "none"
    /\ proc # "off" /\ run = Nothing /\ Initialized /\ ~store.dirty =>
         /\ disk.lines = mem.h.entries /\ ~disk.torn /\ disk.head = HeadOf(mem)
         /\ hand = "own" /\ disk.qrec # Missing => OwnIs(disk.qrec, store.known, todo)
    /\ run # Nothing /\ run.at \in {"base", "lines"} /\ Initialized /\ ~store.dirty =>
         disk.lines = mem.h.entries /\ ~disk.torn
    /\ run # Nothing /\ run.at \in Writing \cup {"head"} =>
         /\ Initialized /\ ~store.dirty => disk.head = HeadOf(mem)
         /\ run.mark # Nothing => run.mark.dirty = store.dirty
    /\ run # Nothing /\ run.at \in {"project", "head"} =>
         disk.lines = run.o.h.entries /\ ~disk.torn
    /\ run # Nothing /\ run.at = "head" =>
         /\ store.known = run.o.p
         /\ hand = "own" /\ disk.qrec # Missing => disk.qrec = run.o.p
    /\ run # Nothing /\ run.at \in {"keep"} \cup Undoing => store.dirty
    /\ run # Nothing /\ run.mark # Nothing /\ ~run.mark.dirty /\ Initialized =>
         /\ run.at \in {"failed", "keep"} \cup Undoing => disk.head = HeadOf(mem)
         /\ run.mark.hand = "own" /\ run.mark.qrec # Missing =>
              run.mark.known = run.mark.qrec /\ (mem.bad \/ run.mark.qrec = mem.p)
    /\ run # Nothing /\ run.at \in {"dropBase", "dropLines"} /\ hand = "own"
         /\ disk.qrec # Missing =>
         disk.qrec = run.mark.qrec /\ run.mark.hand = "own" /\ store.known = run.mark.known

----------------------------------------------------------------------------
(* Projects and histories.                                                 *)

LEMMA SomeProject ==
  ASSUME NothingIsNone, NEW p, Project(p)
  PROVE  p # Nothing /\ p.doc # Drifted /\ Fcn(p)
<1>1. Fcn(p)
  BY DEF Project, Fcn
<1>2. p.doc # Drifted
  BY DEF Project, Drifted
<1>3. QED BY <1>1, <1>2 DEF NothingIsNone

\* A project whose view changed.
LEMMA OtherDoc ==
  ASSUME NEW p, Project(p), NEW d, Fcn(d), TL \in DOMAIN d
  PROVE  Project([p EXCEPT !.doc = d])
BY DEF Project

LEMMA LinesFacts ==
  ASSUME NEW l, Lines(l)
  PROVE  /\ l \in Seq(Range(l)) /\ Len(l) \in Nat /\ DOMAIN l = 1 .. Len(l)
         /\ \A i \in 1 .. Len(l) : l[i] \in Range(l) /\ Entry(l[i]) /\ l[i].seq \in Nat
<1>1. l \in Seq(Range(l)) /\ \A i \in 1 .. Len(l) : Entry(l[i])
  BY DEF Lines
<1>2. Len(l) \in Nat /\ DOMAIN l = 1 .. Len(l)
  BY <1>1
<1>3. \A i \in 1 .. Len(l) : l[i] \in Range(l)
  BY <1>2 DEF Range
<1>4. QED BY <1>1, <1>2, <1>3 DEF Entry

\* Leaving lines out keeps the others in order.
LEMMA OnlyLines ==
  ASSUME NEW l, Lines(l), NEW S
  PROVE  LET o == Only(l, S)
         IN  /\ Lines(o)
             /\ \A x \in 1 .. Len(o) : o[x] \in S
             /\ \A x \in 1 .. Len(o) : \E j \in 1 .. Len(l) : o[x] = l[j]
             /\ \A j \in 1 .. Len(l) : l[j] \in S => \E x \in 1 .. Len(o) : o[x] = l[j]
             /\ Upward(l) => Upward(o)
             /\ Len(o) \in Nat /\ Len(o) <= Len(l)
             /\ Len(o) = Len(l) => o = l
<1> DEFINE C == Range(l)
           o == Only(l, S)
<1>1. l \in Seq(C) /\ Len(l) \in Nat /\ \A i \in 1 .. Len(l) : Entry(l[i]) /\ l[i].seq \in Nat
  BY LinesFacts
<1> HIDE DEF C
<1>2. PICK m \in [1 .. Len(o) -> 1 .. Len(l)] :
           /\ \A x, y \in 1 .. Len(o) : x < y => m[x] < m[y]
           /\ \A x \in 1 .. Len(o) : o[x] = l[m[x]] /\ l[m[x]] \in S
           /\ \A j \in 1 .. Len(l) : l[j] \in S => \E x \in 1 .. Len(o) : m[x] = j
  BY <1>1, OnlyKeepsOrder, SMTT(30)
<1>3. o \in Seq(C)
  BY <1>1, OnlyKeepsOrder
<1>4. Len(o) <= Len(l) /\ (Len(o) = Len(l) => o = l)
  BY <1>1, OnlyFull
<1> HIDE DEF o
<1>5. o \in Seq(Range(o)) /\ Len(o) \in Nat
  BY <1>3, SeqOverRange
<1>6. \A x \in 1 .. Len(o) : m[x] \in 1 .. Len(l) /\ o[x] = l[m[x]] /\ o[x] \in S
  BY <1>2
<1>7. Lines(o)
  BY <1>1, <1>5, <1>6 DEF Lines
<1>8. Upward(l) => Upward(o)
  BY <1>2, <1>6 DEF Upward
<1>9. \A j \in 1 .. Len(l) : l[j] \in S => \E x \in 1 .. Len(o) : o[x] = l[j]
  BY <1>2
<1>10. QED BY <1>4, <1>5, <1>6, <1>7, <1>8, <1>9 DEF o

LEMMA OrderedFacts ==
  ASSUME NEW h, Ordered(h)
  PROVE  /\ h.entries \in Seq(Range(h.entries)) /\ Len(h.entries) \in Nat
         /\ DOMAIN h.entries = 1 .. Len(h.entries)
         /\ \A i \in 1 .. Len(h.entries) :
              /\ h.entries[i] \in Range(h.entries) /\ Entry(h.entries[i])
              /\ h.entries[i].seq \in Nat
              /\ h.base < h.entries[i].seq /\ h.entries[i].seq < h.next
         /\ \A i, j \in 1 .. Len(h.entries) : i < j => h.entries[i].seq < h.entries[j].seq
         /\ h.base \in Nat /\ h.cursor \in Nat /\ h.next \in Nat /\ h.base < h.next
<1> DEFINE q == h.entries
<1>1. Lines(q) /\ h.base \in Nat /\ h.cursor \in Nat /\ h.next \in Nat /\ h.base < h.next
  BY DEF Ordered
<1>2. \A i \in 1 .. Len(q) : h.base < q[i].seq /\ q[i].seq < h.next
  BY DEF Ordered
<1>3. \A i, j \in 1 .. Len(q) : i < j => q[i].seq < q[j].seq
  BY DEF Ordered
<1> HIDE DEF q
<1>4. QED BY <1>1, <1>2, <1>3, LinesFacts DEF q

\* The cursor is at one position, the entries an undo reaches are before it.
LEMMA CursorIs ==
  ASSUME NEW h, Ordered(h)
  PROVE  LET c == CursorPosition(h)
         IN  /\ c \in 0 .. Len(h.entries) /\ SeqAt(h, c) = h.cursor
             /\ \A i \in 1 .. Len(h.entries) : h.entries[i].seq <= h.cursor <=> i <= c
             /\ h.base <= h.cursor /\ h.cursor < h.next
<1> DEFINE n == Len(h.entries)
           e == h.entries
<1>1. PICK c \in 0 .. Len(h.entries) : SeqAt(h, c) = h.cursor
  BY DEF Ordered
<1>2. /\ n \in Nat /\ DOMAIN e = 1 .. n /\ h.base \in Nat /\ h.cursor \in Nat /\ h.next \in Nat
      /\ h.base < h.next
      /\ \A i \in 1 .. n : e[i].seq \in Nat /\ h.base < e[i].seq /\ e[i].seq < h.next
      /\ \A i, j \in 1 .. n : i < j => e[i].seq < e[j].seq
  BY OrderedFacts
<1>3. SeqAt(h, c) = IF c = 0 THEN h.base ELSE e[c].seq
  BY DEF SeqAt
<1>4. CursorPosition(h) = IF h.cursor = h.base THEN 0 ELSE CHOOSE i \in DOMAIN e : e[i].seq = h.cursor
  BY DEF CursorPosition, PositionOf
<1> HIDE DEF n, e
<1>5. CursorPosition(h) = c
  <2>1. CASE c = 0
    BY <1>1, <1>3, <1>4, <2>1
  <2>2. CASE c # 0
    <3>1. c \in 1 .. n /\ e[c].seq = h.cursor /\ h.cursor # h.base
      BY <1>1, <1>2, <1>3, <2>2 DEF n
    <3>2. \A i \in 1 .. n : e[i].seq = h.cursor => i = c
      BY <1>2, <3>1
    <3>3. (CHOOSE i \in 1 .. n : e[i].seq = h.cursor) = c
      BY <3>1, <3>2
    <3>4. QED BY <1>2, <1>4, <3>1, <3>3
  <2>3. QED BY <2>1, <2>2
<1>6. \A i \in 1 .. n : e[i].seq <= h.cursor <=> i <= c
  <2>1. CASE c = 0
    BY <1>1, <1>2, <1>3, <2>1
  <2>2. CASE c # 0
    <3>1. c \in 1 .. n /\ e[c].seq = h.cursor
      BY <1>1, <1>3, <2>2 DEF n
    <3>2. QED BY <1>2, <3>1
  <2>3. QED BY <2>1, <2>2
<1>7. h.base <= h.cursor /\ h.cursor < h.next
  <2>1. CASE c = 0
    BY <1>1, <1>2, <1>3, <2>1
  <2>2. CASE c # 0
    <3>1. c \in 1 .. n /\ e[c].seq = h.cursor
      BY <1>1, <1>3, <2>2 DEF n
    <3>2. QED BY <1>2, <3>1
  <2>3. QED BY <2>1, <2>2
<1>8. QED BY <1>1, <1>5, <1>6, <1>7 DEF n, e

\* A patch leads to a view of the same things, or nowhere.
Like(d, p) == d = Drifted \/ (Fcn(d) /\ DOMAIN d = DOMAIN p.doc)

LEMMA StepLike ==
  ASSUME NEW p, NEW d, NEW patch, Like(d, p)
  PROVE  Like(Step(d, patch), p)
BY DEF Like, Step, Fcn

\* Whatever the patches are, the view at the cursor is the project's.
LEMMA StatesAre ==
  ASSUME NEW h, Ordered(h), NEW p, Project(p)
  PROVE  LET s == States(h, p.doc)
         IN  /\ s[CursorPosition(h)] = p.doc
             /\ \A i \in 0 .. Len(h.entries) : Like(s[i], p)
<1> DEFINE c == CursorPosition(h)
           n == Len(h.entries)
           doc == p.doc
           Back1(i, d) == Step(d, Flip(h.entries[i + 1].patch))
           Forth1(i, d) == Step(d, h.entries[i].patch)
           Undone(f) == f = [i \in 0 .. c |-> IF i = c THEN doc ELSE Back1(i, f[i + 1])]
           Redone(f) == f = [i \in c .. n |-> IF i = c THEN doc ELSE Forth1(i, f[i - 1])]
<1>1. c \in 0 .. n /\ n \in Nat
  BY CursorIs, OrderedFacts
<1>2. Like(doc, p) /\ (\A i, d : Like(d, p) => Like(Back1(i, d), p) /\ Like(Forth1(i, d), p))
  BY StepLike DEF Project, Like
<1>3. \E f : Undone(f)
  <2> DEFINE Part(f, k) == f = [i \in k .. c |-> IF i = c THEN doc ELSE Back1(i, f[i + 1])]
             I == {k \in 0 .. c : \E f : Part(f, k)}
  <2> HIDE DEF c, n, doc, Back1
  <2>1. c \in I
    <3> DEFINE f == [i \in c .. c |-> doc]
    <3>1. Part(f, c)
      BY <1>1
    <3> HIDE DEF Part, f
    <3>2. \E g : Part(g, c)
      BY <3>1
    <3>3. QED BY <1>1, <3>2
  <2>2. ASSUME NEW k \in 0 .. c - 1, k + 1 \in I PROVE k \in I
    <3>1. PICK g : Part(g, k + 1)
      BY <2>2
    <3> DEFINE f == [i \in k .. c |-> IF i = c THEN doc ELSE Back1(i, g[i + 1])]
    <3>2. \A i \in k + 1 .. c : g[i] = f[i]
      BY <1>1, <3>1
    <3>3. \A i \in k .. c : i = c \/ i + 1 \in k + 1 .. c
      BY <1>1
    <3>4. \A i \in k .. c : f[i] = IF i = c THEN doc ELSE Back1(i, f[i + 1])
      BY <3>2, <3>3
    <3>5. Part(f, k)
      BY <3>4
    <3> HIDE DEF Part, f
    <3>6. \E q : Part(q, k)
      BY <3>5
    <3>7. k \in 0 .. c
      BY <1>1
    <3>8. QED BY <3>6, <3>7
  <2>3. c \in Nat
    BY <1>1
  <2> HIDE DEF I
  <2>4. 0 .. c \subseteq I
    BY <2>1, <2>2, <2>3, Downwards
  <2>5. 0 \in I
    BY <2>3, <2>4
  <2>6. QED BY <2>5 DEF I
<1>4. \E f : Redone(f)
  <2> DEFINE Part(f, k) == f = [i \in c .. c + k |-> IF i = c THEN doc ELSE Forth1(i, f[i - 1])]
             I == {k \in 0 .. n - c : \E f : Part(f, k)}
  <2> HIDE DEF c, n, doc, Forth1
  <2>1. 0 \in I
    <3> DEFINE f == [i \in c .. c + 0 |-> doc]
    <3>1. Part(f, 0)
      BY <1>1
    <3> HIDE DEF Part, f
    <3>2. \E g : Part(g, 0)
      BY <3>1
    <3>3. QED BY <1>1, <3>2
  <2>2. ASSUME NEW k \in 1 .. n - c, k - 1 \in I PROVE k \in I
    <3>1. PICK g : Part(g, k - 1)
      BY <2>2
    <3> DEFINE f == [i \in c .. c + k |-> IF i = c THEN doc ELSE Forth1(i, g[i - 1])]
    <3>2. \A i \in c .. c + (k - 1) : g[i] = f[i]
      BY <1>1, <3>1
    <3>3. \A i \in c .. c + k : i = c \/ i - 1 \in c .. c + (k - 1)
      BY <1>1
    <3>4. \A i \in c .. c + k : f[i] = IF i = c THEN doc ELSE Forth1(i, f[i - 1])
      BY <3>2, <3>3
    <3>5. Part(f, k)
      BY <3>4
    <3> HIDE DEF Part, f
    <3>6. \E q : Part(q, k)
      BY <3>5
    <3>7. QED BY <1>1, <3>6
  <2>3. n - c \in Nat
    BY <1>1
  <2> HIDE DEF I
  <2>4. 0 .. n - c \subseteq I
    BY <2>1, <2>2, <2>3, Upwards
  <2>5. n - c \in I
    BY <2>3, <2>4
  <2>6. PICK f : Part(f, n - c)
    BY <2>5 DEF I
  <2>7. c + (n - c) = n
    BY <1>1
  <2>8. QED BY <2>6, <2>7
<1> HIDE DEF c, n, doc, Back1, Forth1
<1>5. PICK back : back = CHOOSE f : Undone(f)
  OBVIOUS
<1>6. Undone(back)
  <2> HIDE DEF Undone
  <2> QED BY <1>3, <1>5
<1>7. PICK forth : forth = CHOOSE f : Redone(f)
  OBVIOUS
<1>8. Redone(forth)
  <2> HIDE DEF Redone
  <2> QED BY <1>4, <1>7
<1>9. States(h, doc) = [i \in 0 .. n |-> IF i <= c THEN back[i] ELSE forth[i]]
  BY <1>5, <1>7 DEF States, c, n, Back1, Forth1
<1>10. back[c] = doc /\ c \in 0 .. n /\ c <= c
  BY <1>1, <1>6
<1>11. \A i \in 0 .. c : Like(back[i], p)
  <2> DEFINE I == {i \in 0 .. c : Like(back[i], p)}
  <2>1. c \in I
    BY <1>1, <1>2, <1>10
  <2>2. ASSUME NEW i \in 0 .. c - 1, i + 1 \in I PROVE i \in I
    <3>1. i \in 0 .. c /\ i # c
      BY <1>1
    <3>2. back[i] = Back1(i, back[i + 1])
      BY <1>6, <3>1
    <3>3. QED BY <1>2, <2>2, <3>1, <3>2
  <2>3. c \in Nat
    BY <1>1
  <2> HIDE DEF I
  <2>4. 0 .. c \subseteq I
    BY <2>1, <2>2, <2>3, Downwards
  <2>5. QED BY <2>4 DEF I
<1>12. \A i \in c .. n : Like(forth[i], p)
  <2> DEFINE I == {i \in 0 .. n : i >= c => Like(forth[i], p)}
  <2>0. forth[c] = doc
    BY <1>1, <1>8
  <2>1. 0 \in I
    BY <1>1, <1>2, <2>0
  <2>2. ASSUME NEW i \in 1 .. n, i - 1 \in I PROVE i \in I
    <3>1. CASE i > c
      <4>1. i \in c .. n /\ i # c /\ i - 1 >= c
        BY <1>1, <3>1
      <4>2. forth[i] = Forth1(i, forth[i - 1])
        BY <1>8, <4>1
      <4>3. QED BY <1>2, <2>2, <4>1, <4>2
    <3>2. CASE ~(i > c)
      BY <1>1, <1>2, <2>0, <3>2
    <3>3. QED BY <3>1, <3>2
  <2> HIDE DEF I
  <2>3. 0 .. n \subseteq I
    BY <1>1, <2>1, <2>2, Upwards
  <2>4. ASSUME NEW i \in c .. n PROVE Like(forth[i], p)
    <3>1. i \in 0 .. n /\ i >= c
      BY <1>1
    <3>2. QED BY <2>3, <3>1 DEF I
  <2>5. QED BY <2>4
<1>13. ASSUME NEW i \in 0 .. n PROVE Like(States(h, doc)[i], p)
  <2>1. CASE i <= c
    <3>1. i \in 0 .. c /\ States(h, doc)[i] = back[i]
      BY <1>1, <1>9, <2>1
    <3>2. QED BY <1>11, <3>1
  <2>2. CASE ~(i <= c)
    <3>1. i \in c .. n /\ States(h, doc)[i] = forth[i]
      BY <1>1, <1>9, <2>2
    <3>2. QED BY <1>12, <3>1
  <2>3. QED BY <2>1, <2>2
<1>14. States(h, doc)[c] = doc
  BY <1>1, <1>9, <1>10
<1>15. QED BY <1>13, <1>14 DEF c, n, doc

----------------------------------------------------------------------------
(* Rewriting a history.                                                    *)

\* Entries e, numbered upwards from base, with the cursor at one of them.
Fits1(h, e, base, cursor) ==
    /\ Lines(e) /\ base \in Nat /\ base < h.next
    /\ \A i \in 1 .. Len(e) : base < e[i].seq /\ e[i].seq < h.next
    /\ \A i, j \in 1 .. Len(e) : i < j => e[i].seq < e[j].seq
    /\ cursor = base \/ \E i \in 1 .. Len(e) : e[i].seq = cursor

LEMMA RewrittenIs ==
  ASSUME NEW h, Ordered(h), NEW e, NEW base, NEW cursor, Fits1(h, e, base, cursor)
  PROVE  /\ Ordered(Rewritten(h, e, base, cursor))
         /\ Rewritten(h, e, base, cursor).entries = e
         /\ Rewritten(h, e, base, cursor).base = base
         /\ Rewritten(h, e, base, cursor).cursor = cursor
         /\ Rewritten(h, e, base, cursor).next = h.next
<1> DEFINE g == Rewritten(h, e, base, cursor)
<1>1. g = [entries |-> e, cursor |-> cursor, base |-> base, next |-> h.next]
  <2>1. h = [entries |-> h.entries, cursor |-> h.cursor, base |-> h.base, next |-> h.next]
    BY DEF Ordered
  <2>2. g = [h EXCEPT !.entries = e, !.base = base, !.cursor = cursor]
    BY DEF Rewritten
  <2> HIDE DEF g
  <2>3. QED BY <2>1, <2>2
<1>2. Len(e) \in Nat /\ \A i \in 1 .. Len(e) : e[i].seq \in Nat
  BY LinesFacts DEF Fits1
<1>3. cursor \in Nat
  BY <1>2 DEF Fits1
<1>4. h.next \in Nat
  BY OrderedFacts
<1> HIDE DEF g
<1>5. g.entries = e /\ g.cursor = cursor /\ g.base = base /\ g.next = h.next
  BY <1>1
<1>6. \E c \in 0 .. Len(e) : SeqAt(g, c) = cursor
  <2>1. CASE cursor = base
    <3>1. SeqAt(g, 0) = cursor /\ 0 \in 0 .. Len(e)
      BY <1>2, <1>5, <2>1 DEF SeqAt
    <3>2. QED BY <3>1
  <2>2. CASE cursor # base
    <3>1. PICK i \in 1 .. Len(e) : e[i].seq = cursor
      BY <2>2 DEF Fits1
    <3>2. SeqAt(g, i) = cursor /\ i \in 0 .. Len(e)
      BY <1>2, <1>5, <3>1 DEF SeqAt
    <3>3. QED BY <3>2
  <2>3. QED BY <2>1, <2>2
<1>7. Ordered(g)
  BY <1>1, <1>3, <1>4, <1>5, <1>6 DEF Ordered, Fits1
<1>8. QED BY <1>5, <1>7 DEF g

\* The entries after position lo, up to hi.
LEMMA SliceIs ==
  ASSUME NEW h, Ordered(h), NEW lo \in 0 .. Len(h.entries), NEW hi \in lo .. Len(h.entries)
  PROVE  LET e == SubSeq(h.entries, lo + 1, hi)
         IN  /\ Lines(e) /\ Len(e) = hi - lo
             /\ \A i \in 1 .. hi - lo : e[i] = h.entries[i + lo]
             /\ SeqAt(h, lo) \in Nat /\ SeqAt(h, lo) < h.next
             /\ \A i \in 1 .. hi - lo : SeqAt(h, lo) < e[i].seq /\ e[i].seq < h.next
             /\ \A i, j \in 1 .. hi - lo : i < j => e[i].seq < e[j].seq
<1> DEFINE q == h.entries
           n == Len(h.entries)
           e == SubSeq(h.entries, lo + 1, hi)
           k == hi - lo
<1>1. /\ q \in Seq(Range(q)) /\ n \in Nat /\ DOMAIN q = 1 .. n
      /\ \A i \in 1 .. n : Entry(q[i]) /\ q[i].seq \in Nat /\ h.base < q[i].seq /\ q[i].seq < h.next
      /\ \A i, j \in 1 .. n : i < j => q[i].seq < q[j].seq
      /\ h.base \in Nat /\ h.next \in Nat /\ h.base < h.next
  BY OrderedFacts
<1>2. lo \in 0 .. n /\ hi \in lo .. n /\ lo \in Nat /\ hi \in Nat /\ k \in Nat
  BY <1>1
<1> HIDE DEF n, q
<1>3. e \in Seq(Range(q)) /\ Len(e) = k /\ \A i \in 1 .. k : e[i] = q[i + lo]
  <2>1. e = SubSeq(q, lo + 1, hi)
    BY DEF q
  <2>2. n = Len(q)
    BY DEF n, q
  <2> HIDE DEF e
  <2>3. QED BY <1>1, <1>2, <2>1, <2>2
<1>4. \A i \in 1 .. k : i + lo \in 1 .. n
  BY <1>1, <1>2
<1>5. Len(e) = k /\ DOMAIN e = 1 .. k
  BY <1>2, <1>3
<1> HIDE DEF e
<1>6. \A i \in 1 .. k : e[i] = q[i + lo] /\ Entry(e[i])
  BY <1>1, <1>3, <1>4
<1>7. e \in Seq(Range(e))
  BY <1>3, SeqOverRange
<1>8. Lines(e)
  BY <1>5, <1>6, <1>7 DEF Lines
<1>9. SeqAt(h, lo) = IF lo = 0 THEN h.base ELSE q[lo].seq
  BY DEF SeqAt, q
<1>10. lo # 0 => lo \in 1 .. n
  BY <1>2
<1>11. SeqAt(h, lo) \in Nat /\ SeqAt(h, lo) < h.next
  BY <1>1, <1>9, <1>10
<1>12. \A i \in 1 .. k : SeqAt(h, lo) < e[i].seq /\ e[i].seq < h.next
  <2>1. TAKE i \in 1 .. k
  <2>2. i + lo \in 1 .. n /\ lo < i + lo /\ e[i].seq = q[i + lo].seq
    BY <1>2, <1>4, <1>6
  <2>3. QED BY <1>1, <1>9, <1>10, <2>2
<1>13. \A i, j \in 1 .. k : i < j => e[i].seq < e[j].seq
  <2>1. TAKE i, j \in 1 .. k
  <2>2. i < j => i + lo < j + lo
    BY <1>2
  <2>3. QED BY <1>1, <1>4, <1>6, <2>2
<1>14. QED
  BY <1>5, <1>6, <1>8, <1>11, <1>12, <1>13 DEF e, q, n

\* A compaction, or the base that is derived when it is lost.
LEMMA CompactedIs ==
  ASSUME NothingIsNone, NEW h, Ordered(h), NEW p, Project(p), NEW drop \in 0 .. CursorPosition(h)
  PROVE  Ordered(CompactedTo(h, p, drop).h) /\ Project(CompactedTo(h, p, drop).base)
<1> DEFINE s == States(h, p.doc)
           c == CursorPosition(h)
           n == Len(h.entries)
           S == {i \in drop .. c : \A j \in i .. c : s[j] # Drifted}
           w == Min(S)
<1>1. c \in 0 .. n /\ SeqAt(h, c) = h.cursor /\ n \in Nat
  BY CursorIs, OrderedFacts
<1>2. s[c] = p.doc /\ (\A i \in 0 .. n : Like(s[i], p)) /\ p.doc # Drifted
  BY StatesAre, SomeProject
<1> HIDE DEF c, s, n
<1>3. c \in S
  BY <1>1, <1>2 DEF c
<1>4. S \in SUBSET (0 .. c) /\ c \in Nat
  BY <1>1 DEF c
<1>5. w \in S
  BY <1>3, <1>4, HasMin
<1>6. w \in drop .. c /\ w \in 0 .. n /\ s[w] # Drifted
  BY <1>1, <1>4, <1>5
<1>7. WalkBack(h, p.doc, drop) = [pos |-> w, doc |-> s[w]]
  BY DEF WalkBack, s, c
<1> HIDE DEF w, S
<1>8. CompactedTo(h, p, drop) =
        [h |-> Rewritten(h, SubSeq(h.entries, w + 1, n), SeqAt(h, w), h.cursor),
         base |-> [p EXCEPT !.doc = s[w]]]
  BY <1>7 DEF CompactedTo, n
<1> DEFINE e == SubSeq(h.entries, w + 1, n)
<1>9. /\ Lines(e) /\ Len(e) = n - w
      /\ \A i \in 1 .. n - w : e[i] = h.entries[i + w]
      /\ SeqAt(h, w) \in Nat /\ SeqAt(h, w) < h.next
      /\ \A i \in 1 .. n - w : SeqAt(h, w) < e[i].seq /\ e[i].seq < h.next
      /\ \A i, j \in 1 .. n - w : i < j => e[i].seq < e[j].seq
  <2>1. n \in w .. n
    BY <1>1, <1>6
  <2>2. QED BY <1>6, <2>1, SliceIs DEF n
<1> HIDE DEF e
<1>10. h.cursor = SeqAt(h, w) \/ \E i \in 1 .. n - w : e[i].seq = h.cursor
  <2>1. CASE c = w
    BY <1>1, <2>1
  <2>2. CASE c # w
    <3>1. c - w \in 1 .. n - w /\ (c - w) + w = c /\ c # 0
      BY <1>1, <1>6, <2>2
    <3>2. h.cursor = h.entries[c].seq
      BY <1>1, <3>1 DEF SeqAt
    <3>3. QED BY <1>9, <3>1, <3>2
  <2>3. QED BY <2>1, <2>2
<1>11. Fits1(h, e, SeqAt(h, w), h.cursor)
  BY <1>9, <1>10 DEF Fits1
<1>12. Ordered(Rewritten(h, e, SeqAt(h, w), h.cursor))
  BY <1>11, RewrittenIs
<1>13. Project([p EXCEPT !.doc = s[w]])
  BY <1>2, <1>6, OtherDoc DEF Like, Project
<1>14. QED BY <1>8, <1>12, <1>13 DEF e

\* What an undo reaches: all of it without a redo tail.
LEMMA UndoableIs ==
  ASSUME NEW h, Ordered(h)
  PROVE  LET c == CursorPosition(h)
         IN  /\ Undoable(h) \in Seq(Range(h.entries)) /\ Len(Undoable(h)) = c
             /\ \A i \in 1 .. c : Undoable(h)[i] = h.entries[i]
             /\ ~HasRedoTail(h) => Undoable(h) = h.entries
<1> DEFINE c == CursorPosition(h)
           e == h.entries
           n == Len(h.entries)
           S == {x \in Range(h.entries) : x.seq <= h.cursor}
<1>1. e \in Seq(Range(e)) /\ n \in Nat /\ (\A i \in 1 .. n : e[i] \in Range(e))
  BY OrderedFacts
<1>2. c \in 0 .. n /\ \A i \in 1 .. n : e[i].seq <= h.cursor <=> i <= c
  BY CursorIs
<1>3. \A i \in 1 .. n : e[i] \in S <=> i <= c
  BY <1>1, <1>2
<1>4. Undoable(h) = Only(e, S)
  BY DEF Undoable
<1>5. ~HasRedoTail(h) => c = n
  <2>1. HAVE ~HasRedoTail(h)
  <2>2. CASE n = 0
    BY <1>2, <2>2
  <2>3. CASE n # 0
    <3>1. e # <<>> /\ n \in 1 .. n
      BY <1>1, <2>3
    <3>2. LastSeq(e, 0) = e[n].seq
      BY <3>1 DEF LastSeq
    <3>3. ~(e[n].seq > h.cursor) /\ e[n].seq \in Nat /\ h.cursor \in Nat
      BY <2>1, <3>1, <3>2, OrderedFacts DEF HasRedoTail
    <3>4. QED BY <1>1, <1>2, <3>1, <3>3
  <2>4. QED BY <2>2, <2>3
<1> HIDE DEF c, e, n, S
<1>6. n = Len(e)
  BY DEF n, e
<1>7. Only(e, S) \in Seq(Range(e)) /\ Len(Only(e, S)) = c /\ \A i \in 1 .. c : Only(e, S)[i] = e[i]
  BY <1>1, <1>2, <1>3, <1>6, OnlyPrefix
<1>8. c = n => Only(e, S) = e
  <2>1. c = n => \A i \in 1 .. Len(e) : e[i] \in S
    BY <1>1, <1>3, <1>6
  <2>2. QED BY <1>1, <2>1, OnlyAll
<1>9. QED BY <1>4, <1>5, <1>7, <1>8 DEF c, e

LEMMA AppendedIs ==
  ASSUME NEW h, Ordered(h), NEW patch, NEW after
  PROVE  LET g == Appended(h, patch, after)
         IN  /\ Ordered(g)
             /\ ~HasRedoTail(h) => g.entries = Append(h.entries, g.entries[Len(g.entries)])
<1> DEFINE kept == Undoable(h)
           c == CursorPosition(h)
           new == [seq |-> h.next, patch |-> patch, after |-> after]
           g == Appended(h, patch, after)
           q == Append(kept, new)
<1>1. /\ kept \in Seq(Range(h.entries)) /\ Len(kept) = c
      /\ \A i \in 1 .. c : kept[i] = h.entries[i]
      /\ ~HasRedoTail(h) => kept = h.entries
  BY UndoableIs
<1>2. c \in Nat /\ c \in 0 .. Len(h.entries)
  BY CursorIs, OrderedFacts
<1>3. /\ \A i \in 1 .. c : Entry(kept[i]) /\ kept[i].seq \in Nat /\ h.base < kept[i].seq /\ kept[i].seq < h.next
      /\ \A i, j \in 1 .. c : i < j => kept[i].seq < kept[j].seq
      /\ h.base \in Nat /\ h.next \in Nat /\ h.base < h.next
  <2>1. \A i \in 1 .. c : i \in 1 .. Len(h.entries)
    BY <1>2
  <2>2. QED BY <1>1, <2>1, OrderedFacts
<1>4. g = [entries |-> q, cursor |-> h.next, base |-> h.base, next |-> h.next + 1]
  <2>1. h = [entries |-> h.entries, cursor |-> h.cursor, base |-> h.base, next |-> h.next]
    BY DEF Ordered
  <2>2. g = [h EXCEPT !.entries = q, !.cursor = h.next, !.next = h.next + 1]
    BY DEF Appended
  <2> HIDE DEF g, q
  <2>3. QED BY <2>1, <2>2
<1> HIDE DEF kept, c, g
<1>5. /\ q \in Seq(Range(h.entries) \cup {new}) /\ Len(q) = c + 1 /\ q[c + 1] = new
      /\ \A i \in 1 .. c : q[i] = kept[i]
  <2>1. kept \in Seq(Range(h.entries) \cup {new}) /\ new \in Range(h.entries) \cup {new}
    BY <1>1
  <2> HIDE DEF new
  <2>2. QED BY <1>1, <1>2, <2>1
<1>6. Entry(new) /\ new.seq = h.next
  BY <1>3 DEF Entry
<1> HIDE DEF q, new
<1>7. \A i \in 1 .. c + 1 : i \in 1 .. c \/ i = c + 1
  BY <1>2
<1>8. \A i \in 1 .. c + 1 : Entry(q[i]) /\ q[i].seq \in Nat /\ h.base < q[i].seq /\ q[i].seq < h.next + 1
  <2>1. TAKE i \in 1 .. c + 1
  <2>2. CASE i \in 1 .. c
    BY <1>3, <1>5, <2>2
  <2>3. CASE i = c + 1
    BY <1>3, <1>5, <1>6, <2>3
  <2>4. QED BY <1>7, <2>2, <2>3
<1>9. \A i, j \in 1 .. c + 1 : i < j => q[i].seq < q[j].seq
  <2>1. TAKE i, j \in 1 .. c + 1
  <2>2. HAVE i < j
  <2>3. i \in 1 .. c
    BY <1>2, <2>2
  <2>4. CASE j \in 1 .. c
    BY <1>3, <1>5, <2>2, <2>3, <2>4
  <2>5. CASE j = c + 1
    BY <1>3, <1>5, <1>6, <2>3, <2>5
  <2>6. QED BY <1>7, <2>4, <2>5
<1>10. Lines(q)
  <2>1. \A i \in 1 .. Len(q) : q[i] \in Range(q)
    BY <1>5 DEF Range
  <2>2. q \in Seq(Range(q))
    BY <1>2, <1>5, <2>1
  <2>3. QED BY <1>5, <1>8, <2>2 DEF Lines
<1>11. g.entries = q /\ g.cursor = h.next /\ g.base = h.base /\ g.next = h.next + 1
  BY <1>4
<1>12. SeqAt(g, c + 1) = g.cursor /\ c + 1 \in 0 .. Len(q)
  BY <1>2, <1>5, <1>6, <1>11 DEF SeqAt
<1>13. Ordered(g)
  BY <1>3, <1>4, <1>5, <1>8, <1>9, <1>10, <1>11, <1>12 DEF Ordered
<1>14. ~HasRedoTail(h) => q = Append(h.entries, q[Len(q)])
  BY <1>1, <1>5 DEF q
<1>15. QED BY <1>11, <1>13, <1>14 DEF g

\* What commit returns: the project it was given, and a history that the lines
\* on disk and one more, or none, hold.
CommitIs(c, h, q) ==
    /\ c.p = q /\ Ordered(c.h) /\ c.op \in {"none", "append", "rewrite"}
    /\ c.op = "rewrite" => Project(c.base)
    /\ c.op = "none" => c.h = h
    /\ c.op = "append" /\ ~HasRedoTail(h) =>
         c.h.entries = Append(h.entries, c.h.entries[Len(c.h.entries)])

LEMMA CommitGoes ==
  ASSUME NothingIsNone, NEW h, Ordered(h), NEW p, NEW q, Project(q)
  PROVE  CommitIs(Commit(h, p, q), h, q)
<1> DEFINE patch == Diff(p.doc, q.doc)
           next == Appended(h, patch, q.doc)
           drop == Dropped(next)
           short == CompactedTo(next, q, drop)
<1>1. /\ Ordered(next)
      /\ ~HasRedoTail(h) => next.entries = Append(h.entries, next.entries[Len(next.entries)])
  BY AppendedIs
<1>2. drop \in 0 .. CursorPosition(next)
  <2> DEFINE n == Len(next.entries)
             c == CursorPosition(next)
  <2>1. n \in Nat /\ c \in 0 .. n
    BY <1>1, CursorIs, OrderedFacts
  <2>2. drop = IF n <= Above THEN 0 ELSE Min({n - Keep, c})
    BY DEF Dropped
  <2> HIDE DEF n, c, drop
  <2>3. n > Above => n - Keep \in 0 .. n
    BY <2>1, CompactAssumption
  <2>4. n > Above => Min({n - Keep, c}) \in {n - Keep, c} /\ Min({n - Keep, c}) <= c
    <3>1. HAVE n > Above
    <3>2. {n - Keep, c} \in SUBSET (0 .. n) /\ {n - Keep, c} # {}
      BY <2>1, <2>3, <3>1
    <3>3. QED BY <2>1, <3>2, HasMin
  <2>5. QED BY <2>1, <2>2, <2>3, <2>4, CompactAssumption DEF c
<1> DEFINE r == Commit(h, p, q)
<1>3. r = IF DOMAIN patch = {} THEN [p |-> q, h |-> h, op |-> "none", base |-> q]
          ELSE IF drop = 0 THEN [p |-> q, h |-> next, op |-> "append", base |-> q]
          ELSE [p |-> q, h |-> short.h, op |-> "rewrite", base |-> short.base]
  BY DEF Commit
<1>4. Ordered(short.h) /\ Project(short.base)
  BY <1>1, <1>2, CompactedIs
<1> HIDE DEF r, patch, next, drop, short
<1>5. QED BY <1>1, <1>3, <1>4 DEF CommitIs, r

\* A move puts the cursor elsewhere.
LEMMA MovedIs ==
  ASSUME NothingIsNone, NEW h, Ordered(h), NEW p, Project(p), NEW pos \in 0 .. Len(h.entries),
         CanMove(h, p, pos)
  PROVE  Project(Moved(h, p, pos).p) /\ Ordered(Moved(h, p, pos).h)
<1> DEFINE s == States(h, p.doc)
           x == SeqAt(h, pos)
           g == [h EXCEPT !.cursor = x]
<1>1. Like(s[pos], p) /\ s[pos] # Drifted
  BY StatesAre DEF CanMove
<1>2. Moved(h, p, pos) = [h |-> g, p |-> [p EXCEPT !.doc = s[pos]]]
  BY DEF Moved
<1> HIDE DEF s, x, g
<1>3. Project([p EXCEPT !.doc = s[pos]])
  BY <1>1, OtherDoc DEF Like, Project
<1>4. Lines(h.entries) /\ h = [entries |-> h.entries, cursor |-> h.cursor, base |-> h.base, next |-> h.next]
  BY DEF Ordered
<1>5. g = [entries |-> h.entries, cursor |-> x, base |-> h.base, next |-> h.next]
  BY <1>4 DEF g
<1>6. x \in Nat /\ x = IF pos = 0 THEN h.base ELSE h.entries[pos].seq
  <2>1. x = IF pos = 0 THEN h.base ELSE h.entries[pos].seq
    BY DEF x, SeqAt
  <2>2. pos # 0 => pos \in 1 .. Len(h.entries)
    BY OrderedFacts
  <2>3. QED BY <2>1, <2>2, OrderedFacts
<1>7. SeqAt(g, pos) = x
  BY <1>5, <1>6 DEF SeqAt
<1>8. Ordered(g)
  BY <1>4, <1>5, <1>6, <1>7, OrderedFacts DEF Ordered
<1>9. QED BY <1>2, <1>3, <1>8

----------------------------------------------------------------------------
(* A purge.                                                                *)

\* The views before the front go: the one there is a view.
LEMMA FrontIs ==
  ASSUME NothingIsNone, NEW h, Ordered(h), NEW p, Project(p), NEW takes
  PROVE  LET s == States(h, p.doc)
             f == Front(h, s, takes)
         IN  f \in 0 .. CursorPosition(h) /\ s[f] # Drifted /\ Like(s[f], p)
<1> DEFINE s == States(h, p.doc)
           c == CursorPosition(h)
           bad == {i \in 0 .. c - 1 : Unwanted(s[i], takes)}
           f == Front(h, s, takes)
<1>1. c \in Nat /\ c \in 0 .. Len(h.entries)
  BY CursorIs, OrderedFacts
<1>2. s[c] # Drifted /\ \A i \in 0 .. Len(h.entries) : Like(s[i], p)
  BY StatesAre, SomeProject
<1>3. f = IF bad = {} THEN 0 ELSE Max(bad) + 1
  BY DEF Front
<1> HIDE DEF f, s, c
<1>4. f \in 0 .. c /\ (f # c => f \notin bad /\ f \in 0 .. c - 1)
  <2>1. CASE bad = {}
    BY <1>1, <1>3, <2>1
  <2>2. CASE bad # {}
    <3>1. bad \in SUBSET (0 .. c) /\ \A i \in bad : i \in 0 .. c - 1
      BY <1>1
    <3> HIDE DEF bad
    <3>2. Max(bad) \in bad /\ \A x \in bad : x <= Max(bad)
      BY <1>1, <2>2, <3>1, HasMax
    <3>3. Max(bad) \in 0 .. c - 1 /\ f = Max(bad) + 1
      BY <1>3, <2>2, <3>1, <3>2
    <3>4. f \notin bad
      BY <1>1, <3>2, <3>3
    <3>5. QED BY <1>1, <3>3, <3>4
  <2>3. QED BY <2>1, <2>2
<1>5. s[f] # Drifted
  BY <1>2, <1>4 DEF Unwanted
<1>6. f \in 0 .. Len(h.entries)
  BY <1>1, <1>4
<1>7. QED BY <1>2, <1>4, <1>5, <1>6 DEF f, s, c

LEMMA BackIs ==
  ASSUME NEW h, Ordered(h), NEW s, NEW takes
  PROVE  Back(h, s, takes) \in CursorPosition(h) .. Len(h.entries)
<1> DEFINE c == CursorPosition(h)
           n == Len(h.entries)
           bad == {i \in c + 1 .. n : Unwanted(s[i], takes)}
           b == Back(h, s, takes)
<1>1. n \in Nat /\ c \in 0 .. n
  BY CursorIs, OrderedFacts
<1>2. b = IF bad = {} THEN n ELSE Min(bad) - 1
  BY DEF Back
<1> HIDE DEF b, c, n
<1>3. CASE bad = {}
  BY <1>1, <1>2, <1>3 DEF b, c, n
<1>4. CASE bad # {}
  <2>1. bad \in SUBSET (0 .. n) /\ \A i \in bad : i \in c + 1 .. n
    BY <1>1
  <2> HIDE DEF bad
  <2>2. Min(bad) \in bad
    BY <1>1, <1>4, <2>1, HasMin
  <2>3. Min(bad) \in c + 1 .. n /\ b = Min(bad) - 1
    BY <1>2, <1>4, <2>1, <2>2
  <2>4. QED BY <1>1, <2>3 DEF b, c, n
<1>5. QED BY <1>3, <1>4

\* Only what its patch leaves out of an entry differs.
LEMMA StrippedIs ==
  ASSUME NEW e, Entry(e), NEW takes
  PROVE  Entry(Stripped(e, takes)) /\ Stripped(e, takes).seq = e.seq
BY DEF Entry, Stripped

LEMMA RehashedIs ==
  ASSUME NEW l, Lines(l), NEW doc
  PROVE  LET r == Rehashed(l, doc)
         IN  Lines(r) /\ Len(r) = Len(l) /\ \A i \in 1 .. Len(l) : r[i].seq = l[i].seq
<1> DEFINE r == Rehashed(l, doc)
           n == Len(l)
<1>1. n \in Nat /\ DOMAIN l = 1 .. n /\ \A i \in 1 .. n : Entry(l[i]) /\ l[i].seq \in Nat
  BY LinesFacts
<1>2. PICK v : r = [i \in DOMAIN l |-> [l[i] EXCEPT !.after = v[i]]]
  BY DEF Rehashed
<1> HIDE DEF r
<1>3. \A i \in 1 .. n : r[i] = [l[i] EXCEPT !.after = v[i]]
  BY <1>1, <1>2
<1>4. \A i \in 1 .. n : Entry(r[i]) /\ r[i].seq = l[i].seq
  <2>1. TAKE i \in 1 .. n
  <2>2. Entry(l[i]) /\ r[i] = [l[i] EXCEPT !.after = v[i]]
    BY <1>1, <1>3
  <2>3. QED BY <2>2 DEF Entry
<1>5. r \in Seq({r[i] : i \in 1 .. n}) /\ Len(r) = n
  <2> HIDE DEF n
  <2>1. r \in [1 .. n -> {r[i] : i \in 1 .. n}]
    BY <1>1, <1>2
  <2>2. QED BY <1>1, <2>1
<1>6. r \in Seq(Range(r))
  BY <1>5, SeqOverRange
<1>7. QED BY <1>4, <1>5, <1>6 DEF Lines, r, n

\* The cursor a purge leaves is the base or at an entry.
LEMMA CursorAfterIs ==
  ASSUME NEW h, Ordered(h), NEW kept, Lines(kept), NEW base
  PROVE  \/ CursorAfter(h, kept, base) = base
         \/ \E i \in 1 .. Len(kept) : kept[i].seq = CursorAfter(h, kept, base)
<1> DEFINE at == {kept[i].seq : i \in DOMAIN kept} \cap 0 .. h.cursor
<1>1. CursorAfter(h, kept, base) = IF at = {} THEN base ELSE Max(at)
  BY DEF CursorAfter
<1>2. at \in SUBSET (0 .. h.cursor) /\ h.cursor \in Nat
  BY OrderedFacts
<1>3. at # {} => Max(at) \in at
  <2> HIDE DEF at
  <2> QED BY <1>2, HasMax
<1>4. \A x \in at : \E i \in 1 .. Len(kept) : kept[i].seq = x
  BY LinesFacts
<1> HIDE DEF at
<1>5. QED BY <1>1, <1>3, <1>4

LEMMA PurgedIs ==
  ASSUME NothingIsNone, NEW h, Ordered(h), NEW p, Project(p), NEW takes \in SUBSET Take
  PROVE  LET r == PurgeRewrite(h, p, takes)
         IN  Ordered(r.h) /\ Project(r.base) /\ Project(WithoutTakes(p, takes))
<1> DEFINE s == States(h, p.doc)
           front == Front(h, s, takes)
           back == Back(h, s, takes)
           base == WithoutTakes([p EXCEPT !.doc = s[front]], takes)
           seq == SeqAt(h, front)
           some == SubSeq(h.entries, front + 1, back)
           bare == [i \in DOMAIN some |-> Stripped(some[i], takes)]
           K == {e \in Range(bare) : DOMAIN e.patch # {}}
           kept == Only(bare, K)
           r == PurgeRewrite(h, p, takes)
<1>1. r = [h |-> Rewritten(h, Rehashed(kept, base.doc), seq, CursorAfter(h, kept, seq)), base |-> base]
  BY DEF PurgeRewrite
<1>2. \A q : Project(q) => Project(WithoutTakes(q, takes))
  <2>1. TAKE q
  <2>2. HAVE Project(q)
  <2>3. TL \notin takes
    BY DEF TL, NoTake, Take
  <2> DEFINE d == [x \in DOMAIN q.doc \ takes |-> q.doc[x]]
             w == WithoutTakes(q, takes)
  <2>4. Fcn(d) /\ TL \in DOMAIN d
    BY <2>2, <2>3 DEF Project, Fcn
  <2>5. w = [q EXCEPT !.doc = d, !.done = q.done \ takes]
    BY DEF WithoutTakes
  <2> HIDE DEF d, w
  <2>6. q = [doc |-> q.doc, done |-> q.done, num |-> q.num] /\ q.done \subseteq Take
    BY <2>2 DEF Project
  <2>7. w = [doc |-> d, done |-> q.done \ takes, num |-> q.num]
    BY <2>5, <2>6
  <2>8. QED BY <2>4, <2>6, <2>7 DEF Project, w
<1>3. front \in 0 .. CursorPosition(h) /\ s[front] # Drifted /\ Like(s[front], p)
  BY FrontIs
<1>4. back \in CursorPosition(h) .. Len(h.entries)
  BY BackIs
<1>5. Project(base)
  BY <1>2, <1>3, OtherDoc DEF Like, Project
<1> HIDE DEF s, front, back, base, bare, K, kept, r
<1>6. /\ CursorPosition(h) \in 0 .. Len(h.entries) /\ Len(h.entries) \in Nat
      /\ front \in 0 .. Len(h.entries) /\ back \in front .. Len(h.entries)
  BY <1>3, <1>4, CursorIs, OrderedFacts
<1> DEFINE k == back - front
<1>7. /\ Lines(some) /\ Len(some) = k /\ k \in Nat
      /\ seq \in Nat /\ seq < h.next
      /\ \A i \in 1 .. k : seq < some[i].seq /\ some[i].seq < h.next
      /\ \A i, j \in 1 .. k : i < j => some[i].seq < some[j].seq
  <2>1. k \in Nat
    BY <1>6
  <2> HIDE DEF k
  <2>2. QED BY <1>6, <2>1, SliceIs DEF k
<1> HIDE DEF some, seq, k
<1>8. DOMAIN some = 1 .. k /\ \A i \in 1 .. k : Entry(bare[i]) /\ bare[i].seq = some[i].seq
  <2>1. DOMAIN some = 1 .. k /\ \A i \in 1 .. k : Entry(some[i])
    BY <1>7, LinesFacts
  <2>2. \A i \in 1 .. k : bare[i] = Stripped(some[i], takes)
    BY <2>1 DEF bare
  <2>3. QED BY <2>1, <2>2, StrippedIs
<1>9. bare \in Seq({bare[i] : i \in 1 .. k}) /\ Len(bare) = k
  <2>1. bare = [i \in 1 .. k |-> bare[i]]
    BY <1>8 DEF bare
  <2>2. bare \in [1 .. k -> {bare[i] : i \in 1 .. k}]
    BY <2>1
  <2>3. QED BY <1>7, <2>2
<1>10. Lines(bare) /\ Upward(bare)
  BY <1>7, <1>8, <1>9, SeqOverRange DEF Lines, Upward
<1>13. /\ Lines(kept) /\ Upward(kept)
       /\ \A x \in 1 .. Len(kept) : \E j \in 1 .. Len(bare) : kept[x] = bare[j]
  BY <1>10, OnlyLines DEF kept
<1>14. /\ \A x \in 1 .. Len(kept) : seq < kept[x].seq /\ kept[x].seq < h.next
       /\ \A x, y \in 1 .. Len(kept) : x < y => kept[x].seq < kept[y].seq
  BY <1>7, <1>8, <1>9, <1>13 DEF Upward
<1> DEFINE e == Rehashed(kept, base.doc)
           k2 == CursorAfter(h, kept, seq)
<1>15. Lines(e) /\ Len(e) = Len(kept) /\ \A x \in 1 .. Len(kept) : e[x].seq = kept[x].seq
  BY <1>13, RehashedIs
<1>16. k2 = seq \/ \E x \in 1 .. Len(kept) : kept[x].seq = k2
  BY <1>13, CursorAfterIs
<1> HIDE DEF e, k2
<1>17. Fits1(h, e, seq, k2)
  BY <1>7, <1>14, <1>15, <1>16 DEF Fits1
<1>18. Ordered(Rewritten(h, e, seq, k2))
  BY <1>17, RewrittenIs
<1>19. r.h = Rewritten(h, e, seq, k2) /\ r.base = base
  BY <1>1 DEF e, k2
<1>20. Ordered(r.h) /\ Project(r.base) /\ Project(WithoutTakes(p, takes))
  BY <1>2, <1>5, <1>18, <1>19
<1>21. QED BY <1>20 DEF r

----------------------------------------------------------------------------
(* What an open makes of the files.                                        *)

LEMMA MaxOf3 ==
  ASSUME NEW a \in Nat, NEW b \in Nat, NEW c \in Nat
  PROVE  LET m == Max({a, b, c}) IN m \in {a, b, c} /\ a <= m /\ b <= m /\ c <= m /\ m \in Nat
<1>1. {a, b, c} \in SUBSET (0 .. a + b + c) /\ {a, b, c} # {} /\ a + b + c \in Nat
  OBVIOUS
<1>2. Max({a, b, c}) \in {a, b, c} /\ \A x \in {a, b, c} : x <= Max({a, b, c})
  BY <1>1, HasMax
<1>3. QED BY <1>2

LEMMA MaxOf2 ==
  ASSUME NEW a \in Nat, NEW b \in Nat
  PROVE  LET m == Max({a, b}) IN m \in {a, b} /\ a <= m /\ b <= m /\ m \in Nat
<1>1. {a, b} \in SUBSET (0 .. a + b) /\ {a, b} # {} /\ a + b \in Nat
  OBVIOUS
<1>2. Max({a, b}) \in {a, b} /\ \A x \in {a, b} : x <= Max({a, b})
  BY <1>1, HasMax
<1>3. QED BY <1>2

\* Lines in their order, and where their numbers lie.
Numbered(e, base, next) ==
    /\ Lines(e) /\ Upward(e) /\ base \in Nat /\ next \in Nat /\ base < next
    /\ \A i \in 1 .. Len(e) : base < e[i].seq /\ e[i].seq < next

LEMMA HistoryOf ==
  ASSUME NEW h, h = [entries |-> h.entries, cursor |-> h.cursor, base |-> h.base, next |-> h.next],
         Numbered(h.entries, h.base, h.next),
         h.cursor = h.base \/ \E i \in 1 .. Len(h.entries) : h.entries[i].seq = h.cursor
  PROVE  Ordered(h)
<1> DEFINE e == h.entries
<1>1. /\ Lines(e) /\ Upward(e) /\ h.base \in Nat /\ h.next \in Nat /\ h.base < h.next
      /\ \A i \in 1 .. Len(e) : h.base < e[i].seq /\ e[i].seq < h.next
  BY DEF Numbered
<1>2. Len(e) \in Nat /\ \A i \in 1 .. Len(e) : e[i].seq \in Nat
  BY <1>1, LinesFacts
<1>3. h.cursor \in Nat
  BY <1>1, <1>2
<1>4. \E c \in 0 .. Len(e) : SeqAt(h, c) = h.cursor
  <2>1. CASE h.cursor = h.base
    <3>1. SeqAt(h, 0) = h.cursor /\ 0 \in 0 .. Len(e)
      BY <1>2, <2>1 DEF SeqAt
    <3>2. QED BY <3>1
  <2>2. CASE h.cursor # h.base
    <3>1. PICK i \in 1 .. Len(e) : e[i].seq = h.cursor
      BY <2>2
    <3>2. SeqAt(h, i) = h.cursor /\ i \in 0 .. Len(e)
      BY <1>2, <3>1 DEF SeqAt
    <3>3. QED BY <3>2
  <2>3. QED BY <2>1, <2>2
<1>5. QED BY <1>1, <1>3, <1>4 DEF Ordered, Upward

LEMMA LastIs ==
  ASSUME NEW e, Lines(e), Upward(e), NEW b
  PROVE  /\ e = <<>> => LastSeq(e, b) = b
         /\ e # <<>> => /\ Len(e) \in 1 .. Len(e) /\ LastSeq(e, b) = e[Len(e)].seq
                        /\ \A i \in 1 .. Len(e) : e[i].seq <= LastSeq(e, b)
<1>1. e \in Seq(Range(e)) /\ Len(e) \in Nat /\ \A i \in 1 .. Len(e) : e[i].seq \in Nat
  BY LinesFacts
<1>2. e # <<>> => Len(e) \in 1 .. Len(e)
  BY <1>1
<1>3. QED BY <1>1, <1>2 DEF LastSeq, Upward

\* What a load returns, and what needs no repair is what the files hold.
LoadedIs(d, l) ==
    /\ Project(l.p) /\ Ordered(l.h) /\ (l.base # Nothing => Project(l.base)) /\ l.repair \in BOOLEAN
    /\ ~l.repair /\ l.base = Nothing =>
         /\ d.lines = l.h.entries /\ ~d.torn
         /\ d.head = [cursor |-> l.h.cursor, base |-> l.h.base, next |-> l.h.next, p |-> l.p]

LEMMA SinceIs ==
  ASSUME NEW l, Lines(l), Upward(l), NEW base
  PROVE  LET s == Since(l, base)
         IN  Lines(s) /\ Upward(s) /\ \A i \in 1 .. Len(s) : s[i].seq > base
BY OnlyLines DEF Since

LEMMA WithHeadIs ==
  ASSUME NothingIsNone, NEW d, Disk(d), Readable(d), d.head # Nothing,
         NEW file, file = Nothing \/ Project(file)
  PROVE  LoadedIs(d, WithHead(d, file))
<1> DEFINE head  == d.head
           seq   == IF d.base = Nothing THEN head.base ELSE d.base.seq
           since == Since(d.lines, seq)
           old   == Only(since, {e \in Range(since) : e.seq < head.next})
           new   == Only(since, {e \in Range(since) : e.seq >= head.next})
           next  == Max({head.next, LastSeq(old, 0) + 1, seq + 1})
           h     == [entries |-> old, cursor |-> head.cursor, base |-> seq, next |-> next]
           known == Known(h, head.cursor)
           ends  == known /\ file # Nothing /\ FinishesCommit(h, head, new, file)
           hDrop == [h EXCEPT !.entries = <<>>, !.base = head.cursor]
           hEnds == [h EXCEPT !.entries = since, !.cursor = LastSeq(new, 0),
                              !.next = Max({@, LastSeq(new, 0) + 1})]
           l     == WithHead(d, file)
<1>1. l = [p      |-> IF ends THEN file ELSE head.p,
           h      |-> IF ~known THEN hDrop ELSE IF ends THEN hEnds ELSE h,
           base   |-> IF known THEN Nothing ELSE head.p,
           repair |-> \/ d.torn \/ seq # head.base \/ ~known \/ ends
                      \/ Len(old) < Len(d.lines)]
  BY DEF WithHead
<1>2. /\ head = [cursor |-> head.cursor, base |-> head.base, next |-> head.next, p |-> head.p]
      /\ head.cursor \in Nat /\ head.base \in Nat /\ head.next \in Nat
      /\ head.cursor < head.next /\ head.base < head.next /\ Project(head.p)
  BY DEF Disk, HeadRecord
<1>3. seq \in Nat
  BY <1>2 DEF Disk, Base
<1>4. Lines(d.lines) /\ Upward(d.lines) /\ d.torn \in BOOLEAN
  <2>1. Lines(d.lines) /\ d.torn \in BOOLEAN
    BY DEF Disk
  <2>2. QED BY <2>1, LinesFacts DEF Readable, Upward
<1> HIDE DEF l, head, seq
<1>5. Lines(since) /\ Upward(since) /\ (\A i \in 1 .. Len(since) : since[i].seq > seq)
  BY <1>4, SinceIs
<1>6. Len(since) <= Len(d.lines) /\ (Len(since) = Len(d.lines) => since = d.lines)
  BY <1>4, OnlyLines DEF Since
<1> HIDE DEF since
<1>7. /\ Lines(old) /\ Upward(old) /\ \A i \in 1 .. Len(old) : old[i].seq < head.next
      /\ \A i \in 1 .. Len(old) : \E j \in 1 .. Len(since) : old[i] = since[j]
      /\ Len(old) <= Len(since) /\ (Len(old) = Len(since) => old = since)
  BY <1>5, OnlyLines
<1>8. /\ Lines(new) /\ Upward(new)
      /\ \A i \in 1 .. Len(new) : \E j \in 1 .. Len(since) : new[i] = since[j]
  BY <1>5, OnlyLines
<1>9. \A j \in 1 .. Len(since) : since[j].seq >= head.next => \E i \in 1 .. Len(new) : new[i] = since[j]
  <2> DEFINE T == {e \in Range(since) : e.seq >= head.next}
  <2>1. \A j \in 1 .. Len(since) : since[j].seq >= head.next => since[j] \in T
    BY <1>5, LinesFacts
  <2> HIDE DEF T
  <2>2. \A j \in 1 .. Len(since) : since[j] \in T => \E i \in 1 .. Len(Only(since, T)) : Only(since, T)[i] = since[j]
    BY <1>5, OnlyLines
  <2>3. QED BY <2>1, <2>2 DEF T
<1> HIDE DEF old, new
<1>10. /\ Len(old) \in Nat /\ Len(new) \in Nat /\ Len(since) \in Nat /\ Len(d.lines) \in Nat
       /\ \A i \in 1 .. Len(old) : old[i].seq \in Nat /\ seq < old[i].seq
       /\ \A i \in 1 .. Len(since) : since[i].seq \in Nat
       /\ \A i \in 1 .. Len(new) : new[i].seq \in Nat /\ seq < new[i].seq
  BY <1>3, <1>4, <1>5, <1>7, <1>8, LinesFacts
<1>11. LastSeq(old, 0) \in Nat /\ LastSeq(old, 0) < head.next
  BY <1>2, <1>7, <1>10, LastIs
<1>12. next \in Nat /\ head.next <= next /\ seq < next /\ next \in {head.next, LastSeq(old, 0) + 1, seq + 1}
  BY <1>2, <1>3, <1>11, MaxOf3
<1>13. next = IF seq >= head.next THEN seq + 1 ELSE head.next
  BY <1>2, <1>3, <1>11, <1>12
<1> HIDE DEF next
<1> DEFINE hh == h
<1>14. /\ hh = [entries |-> old, cursor |-> head.cursor, base |-> seq, next |-> next]
       /\ hh.entries = old /\ hh.cursor = head.cursor /\ hh.base = seq /\ hh.next = next
  OBVIOUS
<1> HIDE DEF hh
<1>15. Numbered(old, seq, next)
  BY <1>2, <1>3, <1>7, <1>10, <1>12 DEF Numbered
<1>16. known <=> head.cursor = seq \/ \E i \in 1 .. Len(old) : old[i].seq = head.cursor
  BY <1>7, <1>10, LinesFacts DEF Known, Seqs
<1>17. known => Ordered(h)
  <2>1. HAVE known
  <2>2. hh.cursor = hh.base \/ \E i \in 1 .. Len(hh.entries) : hh.entries[i].seq = hh.cursor
    BY <1>14, <1>16, <2>1
  <2>3. QED BY <1>14, <1>15, <2>2, HistoryOf DEF hh
<1>18. Ordered(hDrop)
  <2> DEFINE g == hDrop
  <2>0. g = [hh EXCEPT !.entries = <<>>, !.base = head.cursor]
    BY DEF hh
  <2> HIDE DEF g
  <2>1. g = [entries |-> <<>>, cursor |-> head.cursor, base |-> head.cursor, next |-> next]
    BY <1>14, <2>0
  <2> HIDE DEF g
  <2>2. Numbered(g.entries, g.base, g.next)
    <3>1. Lines(<<>>) /\ Upward(<<>>) /\ Len(<<>>) = 0
      BY DEF Lines, Upward, Range
    <3>2. QED BY <1>2, <1>12, <2>1, <3>1 DEF Numbered
  <2>3. QED BY <2>1, <2>2, HistoryOf DEF g
<1>19. ends => Ordered(hEnds)
  <2>1. HAVE ends
  <2> DEFINE last == LastSeq(new, 0)
             top == Max({next, last + 1})
             g == hEnds
  <2> HIDE DEF g
  <2>2. g = [entries |-> since, cursor |-> last, base |-> seq, next |-> top]
    <3>1. g = [hh EXCEPT !.entries = since, !.cursor = last, !.next = Max({hh.next, last + 1})]
      BY DEF g, hh
    <3> HIDE DEF last
    <3>2. QED BY <1>14, <3>1
  <2>3. new # <<>>
    BY <2>1 DEF FinishesCommit
  <2>4. last = new[Len(new)].seq /\ Len(new) \in 1 .. Len(new) /\ \A i \in 1 .. Len(new) : new[i].seq <= last
    BY <1>8, <2>3, LastIs
  <2>5. last \in Nat /\ \E j \in 1 .. Len(since) : since[j].seq = last
    BY <1>8, <1>10, <2>4
  <2> HIDE DEF last
  <2>6. top \in Nat /\ next <= top /\ last < top
    BY <1>12, <2>5, MaxOf2
  <2> HIDE DEF top, g
  <2>7. \A j \in 1 .. Len(since) : seq < since[j].seq /\ since[j].seq < top
    <3>1. TAKE j \in 1 .. Len(since)
    <3>2. since[j].seq > seq /\ since[j].seq \in Nat
      BY <1>5, <1>10
    <3>3. CASE since[j].seq >= head.next
      BY <1>9, <2>4, <2>5, <2>6, <3>2, <3>3
    <3>4. CASE ~(since[j].seq >= head.next)
      BY <1>2, <1>12, <2>6, <3>2, <3>4
    <3>5. QED BY <1>3, <3>2, <3>3, <3>4
  <2>8. seq < top
    BY <1>3, <1>12, <2>6
  <2>9. Numbered(g.entries, g.base, g.next)
    BY <1>3, <1>5, <2>2, <2>6, <2>7, <2>8 DEF Numbered
  <2>10. \E i \in 1 .. Len(g.entries) : g.entries[i].seq = g.cursor
    BY <2>2, <2>5
  <2>11. QED BY <2>2, <2>9, <2>10, HistoryOf DEF g
<1>20. Ordered(l.h)
  BY <1>1, <1>17, <1>18, <1>19
<1>21. Project(l.p) /\ (l.base # Nothing => Project(l.base))
  BY <1>1, <1>2
<1>22. ends \in BOOLEAN /\ known \in BOOLEAN
  BY DEF Known
<1>23. l.repair \in BOOLEAN
  BY <1>1, <1>4, <1>22
<1>24. ASSUME ~l.repair
       PROVE  /\ d.lines = l.h.entries /\ ~d.torn
              /\ d.head = [cursor |-> l.h.cursor, base |-> l.h.base, next |-> l.h.next, p |-> l.p]
  <2>1. ~d.torn /\ seq = head.base /\ known /\ ~ends /\ ~(Len(old) < Len(d.lines))
    BY <1>1, <1>4, <1>22, <1>24
  <2>2. l.h = hh /\ l.p = head.p
    BY <1>1, <2>1 DEF hh
  <2>3. d.lines = old
    BY <1>6, <1>7, <1>10, <2>1
  <2>4. next = head.next
    BY <1>2, <1>13, <2>1
  <2>5. QED BY <1>2, <1>14, <2>1, <2>2, <2>3, <2>4 DEF head
<1>25. QED BY <1>20, <1>21, <1>23, <1>24 DEF LoadedIs, l

LEMMA WithoutHeadIs ==
  ASSUME NothingIsNone, NEW d, Disk(d), Readable(d), Project(d.qrec)
  PROVE  LoadedIs(d, WithoutHead(d))
<1> DEFINE seq     == IF d.base = Nothing THEN 0 ELSE d.base.seq
           since   == Since(d.lines, seq)
           hits    == {e.seq : e \in {since[i] : i \in {j \in DOMAIN since :
                                                         since[j].after = d.qrec.doc}}}
           cursor  == IF hits # {} THEN Max(hits)
                      ELSE IF d.base # Nothing /\ d.base.p.doc = d.qrec.doc THEN seq
                      ELSE LastSeq(since, seq)
           next    == Max({LastSeq(since, 0) + 1, seq + 1})
           h       == [entries |-> since, cursor |-> cursor, base |-> seq, next |-> next]
           l       == WithoutHead(d)
<1>1. l = [p |-> d.qrec, h |-> h,
           base   |-> IF d.base = Nothing /\ since = <<>> THEN d.qrec ELSE Nothing,
           repair |-> TRUE]
  BY DEF WithoutHead
<1>2. seq \in Nat
  BY DEF Disk, Base
<1>3. Lines(d.lines) /\ Upward(d.lines)
  <2>1. Lines(d.lines)
    BY DEF Disk
  <2>2. QED BY <2>1, LinesFacts DEF Readable, Upward
<1> HIDE DEF l, seq
<1>4. Lines(since) /\ Upward(since) /\ (\A i \in 1 .. Len(since) : since[i].seq > seq)
  BY <1>3, SinceIs
<1> HIDE DEF since
<1>5. /\ Len(since) \in Nat /\ DOMAIN since = 1 .. Len(since)
      /\ \A i \in 1 .. Len(since) : since[i].seq \in Nat
  BY <1>4, LinesFacts
<1>6. /\ since = <<>> => LastSeq(since, seq) = seq
      /\ since # <<>> =>
           /\ Len(since) \in 1 .. Len(since)
           /\ LastSeq(since, seq) = since[Len(since)].seq /\ LastSeq(since, 0) = since[Len(since)].seq
           /\ \A i \in 1 .. Len(since) : since[i].seq <= LastSeq(since, 0)
      /\ LastSeq(since, 0) \in Nat
  BY <1>4, <1>5, LastIs
<1>7. hits # {} => \E i \in 1 .. Len(since) : since[i].seq = Max(hits)
  <2>1. HAVE hits # {}
  <2>2. since # <<>>
    BY <1>5, <2>1
  <2>3. hits \in SUBSET (0 .. LastSeq(since, 0)) /\ \A x \in hits : \E i \in 1 .. Len(since) : since[i].seq = x
    BY <1>5, <1>6, <2>2
  <2> HIDE DEF hits
  <2>4. Max(hits) \in hits
    BY <1>6, <2>1, <2>3, HasMax
  <2>5. QED BY <2>3, <2>4
<1> HIDE DEF hits
<1>8. cursor = seq \/ \E i \in 1 .. Len(since) : since[i].seq = cursor
  BY <1>6, <1>7
<1>9. next \in Nat /\ LastSeq(since, 0) < next /\ seq < next
  BY <1>2, <1>6, MaxOf2
<1> HIDE DEF cursor, next
<1>10. Numbered(since, seq, next)
  <2>1. \A i \in 1 .. Len(since) : since[i].seq < next
    BY <1>5, <1>6, <1>9
  <2>2. QED BY <1>2, <1>4, <1>5, <1>9, <2>1 DEF Numbered
<1>11. Ordered(h)
  <2> DEFINE g == h
  <2>1. g = [entries |-> since, cursor |-> cursor, base |-> seq, next |-> next]
    OBVIOUS
  <2> HIDE DEF g
  <2>2. QED BY <1>8, <1>10, <2>1, HistoryOf DEF g
<1>12. QED BY <1>1, <1>11 DEF LoadedIs, l

\* A step of the rebuild leads to a project, or to none.
Drifting(q) ==
    /\ q = [doc |-> q.doc, done |-> q.done, num |-> q.num] /\ q.done \subseteq Take
    /\ q.doc = Drifted \/ (Fcn(q.doc) /\ TL \in DOMAIN q.doc)

LEMMA ReaddIs ==
  ASSUME NEW p, Project(p), NEW takes
  PROVE  Project(Readd(p, takes))
<1> DEFINE d == [x \in DOMAIN p.doc \cup takes |-> IF x \in takes THEN p.doc[SC] ELSE p.doc[x]]
           r == Readd(p, takes)
<1>1. Fcn(d) /\ TL \in DOMAIN d
  BY DEF Project, Fcn
<1>2. PICK m : r = [p EXCEPT !.doc = d, !.num = m]
  BY DEF Readd
<1> HIDE DEF d, r
<1>3. p = [doc |-> p.doc, done |-> p.done, num |-> p.num] /\ p.done \subseteq Take
  BY DEF Project
<1>4. r = [doc |-> d, done |-> p.done, num |-> m]
  BY <1>2, <1>3
<1>5. QED BY <1>1, <1>3, <1>4 DEF Project, r

LEMMA DriftingIs ==
  ASSUME NEW p, Drifting(p), p.doc # Drifted
  PROVE  Project(p)
BY DEF Drifting, Project

LEMMA StepDrifting ==
  ASSUME NEW p, Project(p), NEW patch
  PROVE  Drifting([p EXCEPT !.doc = Step(p.doc, patch)])
<1> DEFINE d == Step(p.doc, patch)
<1>1. d = Drifted \/ (Fcn(d) /\ DOMAIN d = DOMAIN p.doc)
  BY StepLike DEF Like, Project
<1> HIDE DEF d
<1>2. QED BY <1>1 DEF Drifting, Project, d

LEMMA RebuildIs ==
  ASSUME NothingIsNone, NEW d, Disk(d), Readable(d), d.base # Nothing, NEW on
  PROVE  LoadedIs(d, Rebuild(d, on))
<1> DEFINE since == Since(d.lines, d.base.seq)
           named == UNION {TakesNamed(since[i]) : i \in DOMAIN since}
           first == [d.base.p EXCEPT !.num = Max({@} \cup {t + 1 : t \in named})]
           with(p, e) == Readd(p, (on \cap Mentions(e)) \ Pool(p))
           Next1(i, p) == IF p.doc = Drifted THEN p
                          ELSE LET q == with(p, since[i])
                               IN  [q EXCEPT !.doc = Step(q.doc, since[i].patch)]
           k == Len(since)
           Walk(f, m) == f = [i \in 0 .. m |-> IF i = 0 THEN first ELSE Next1(i, f[i - 1])]
           l == Rebuild(d, on)
<1>1. Lines(d.lines) /\ Upward(d.lines) /\ d.base.seq \in Nat /\ Project(d.base.p)
  <2>1. Lines(d.lines) /\ d.base.seq \in Nat /\ Project(d.base.p)
    BY DEF Disk, Base
  <2>2. QED BY <2>1, LinesFacts DEF Readable, Upward
<1>2. PICK at : at = CHOOSE f : Walk(f, k)
  OBVIOUS
<1> DEFINE N == {i \in 0 .. k : at[i].doc # Drifted}
           n == Max(N)
           last == IF n = k THEN at[n] ELSE with(at[n], since[n + 1])
           kept == SubSeq(since, 1, n)
           seq == LastSeq(kept, d.base.seq)
           h == [entries |-> kept, cursor |-> seq, base |-> d.base.seq, next |-> seq + 1]
<1>3. l = [p |-> Readd(last, on \ Pool(last)), h |-> h, base |-> Nothing, repair |-> TRUE]
  BY <1>2 DEF Rebuild
<1> HIDE DEF l
<1>4. Lines(since) /\ Upward(since) /\ (\A i \in 1 .. k : since[i].seq > d.base.seq)
  BY <1>1, SinceIs
<1>5. Project(first)
  <2> DEFINE m == Max({d.base.p.num} \cup {t + 1 : t \in named})
  <2>1. first = [d.base.p EXCEPT !.num = m]
    OBVIOUS
  <2> HIDE DEF m, first
  <2>2. QED BY <1>1, <2>1 DEF Project
<1> HIDE DEF since, first
<1>6. k \in Nat
  BY <1>4, LinesFacts
<1>7. \A p, e : Project(p) => Project(with(p, e))
  BY ReaddIs
<1>8. ASSUME NEW i, NEW p, Drifting(p) PROVE Drifting(Next1(i, p))
  <2>1. CASE p.doc = Drifted
    BY <1>8, <2>1
  <2>2. CASE p.doc # Drifted
    <3> DEFINE q == with(p, since[i])
    <3>1. Project(q)
      BY <1>7, <1>8, <2>2, DriftingIs
    <3>2. Next1(i, p) = [q EXCEPT !.doc = Step(q.doc, since[i].patch)]
      BY <2>2
    <3> HIDE DEF q, with, Next1
    <3>3. QED BY <3>1, <3>2, StepDrifting
  <2>3. QED BY <2>1, <2>2
<1> HIDE DEF with, Next1, k
<1>9. \E f : Walk(f, k)
  <2> DEFINE I == {m \in 0 .. k : \E f : Walk(f, m)}
  <2>1. 0 \in I
    <3> DEFINE f == [i \in 0 .. 0 |-> first]
    <3>1. Walk(f, 0)
      OBVIOUS
    <3> HIDE DEF Walk, f
    <3>2. \E g : Walk(g, 0)
      BY <3>1
    <3>3. QED BY <1>6, <3>2
  <2>2. ASSUME NEW m \in 1 .. k, m - 1 \in I PROVE m \in I
    <3>1. PICK g : Walk(g, m - 1)
      BY <2>2
    <3> DEFINE f == [i \in 0 .. m |-> IF i = 0 THEN first ELSE Next1(i, g[i - 1])]
    <3>2. \A i \in 0 .. m - 1 : g[i] = f[i]
      BY <1>6, <3>1
    <3>3. \A i \in 0 .. m : i = 0 \/ i - 1 \in 0 .. m - 1
      BY <1>6
    <3>4. \A i \in 0 .. m : f[i] = IF i = 0 THEN first ELSE Next1(i, f[i - 1])
      BY <3>2, <3>3
    <3>5. Walk(f, m)
      BY <3>4
    <3> HIDE DEF Walk, f
    <3>6. \E q : Walk(q, m)
      BY <3>5
    <3>7. m \in 0 .. k
      BY <1>6
    <3>8. QED BY <3>6, <3>7
  <2> HIDE DEF I
  <2>3. 0 .. k \subseteq I
    BY <1>6, <2>1, <2>2, Upwards
  <2>4. k \in I
    BY <1>6, <2>3
  <2>5. QED BY <2>4 DEF I
<1>10. Walk(at, k)
  <2> HIDE DEF Walk
  <2> QED BY <1>2, <1>9
<1>11. \A i \in 0 .. k : Drifting(at[i])
  <2> DEFINE I == {i \in 0 .. k : Drifting(at[i])}
  <2>1. 0 \in I
    <3>1. at[0] = first /\ 0 \in 0 .. k
      BY <1>6, <1>10
    <3>2. QED BY <1>5, <3>1 DEF Drifting, Project
  <2>2. ASSUME NEW i \in 1 .. k, i - 1 \in I PROVE i \in I
    <3>1. i \in 0 .. k /\ i # 0
      BY <1>6
    <3>2. at[i] = Next1(i, at[i - 1])
      BY <1>10, <3>1
    <3>3. QED BY <1>8, <2>2, <3>1, <3>2
  <2> HIDE DEF I
  <2>3. 0 .. k \subseteq I
    BY <1>6, <2>1, <2>2, Upwards
  <2>4. QED BY <2>3 DEF I
<1>12. 0 \in N
  <2>1. at[0] = first /\ 0 \in 0 .. k
    BY <1>6, <1>10
  <2>2. first.doc # Drifted
    BY <1>5, SomeProject
  <2>3. QED BY <2>1, <2>2
<1>13. n \in N
  <2>1. N \in SUBSET (0 .. k) /\ N # {}
    BY <1>12
  <2> HIDE DEF N
  <2>2. QED BY <1>6, <2>1, HasMax
<1>14. n \in 0 .. k /\ Project(at[n])
  <2>1. n \in 0 .. k /\ at[n].doc # Drifted
    BY <1>13
  <2> HIDE DEF n
  <2>2. QED BY <1>11, <2>1, DriftingIs
<1> HIDE DEF n, N
<1>15. Project(last)
  BY <1>7, <1>14
<1> HIDE DEF last
<1>16. /\ kept \in Seq(Range(since)) /\ Len(kept) = n
       /\ \A i \in 1 .. n : kept[i] = since[i] /\ i \in 1 .. k
  <2>1. since \in Seq(Range(since)) /\ n \in 0 .. Len(since) /\ n \in Nat /\ k = Len(since)
    BY <1>4, <1>6, <1>14, LinesFacts DEF k
  <2>2. QED BY <1>6, <2>1
<1> HIDE DEF kept
<1>17. Lines(kept) /\ Upward(kept) /\ \A i \in 1 .. Len(kept) : kept[i].seq > d.base.seq
  <2>1. kept \in Seq(Range(kept))
    BY <1>16, SeqOverRange
  <2>2. \A i \in 1 .. n : Entry(kept[i])
    BY <1>4, <1>16 DEF Lines, k
  <2>3. \A i, j \in 1 .. n : i < j => kept[i].seq < kept[j].seq
    BY <1>4, <1>16 DEF Upward, k
  <2>4. QED BY <1>4, <1>16, <2>1, <2>2, <2>3 DEF Lines, Upward
<1>18. /\ Len(kept) \in Nat /\ \A i \in 1 .. Len(kept) : kept[i].seq \in Nat
       /\ kept = <<>> => seq = d.base.seq
       /\ kept # <<>> => /\ Len(kept) \in 1 .. Len(kept) /\ seq = kept[Len(kept)].seq
                         /\ \A i \in 1 .. Len(kept) : kept[i].seq <= seq
  BY <1>17, LinesFacts, LastIs
<1> HIDE DEF seq
<1>19. seq \in Nat /\ d.base.seq <= seq /\ \A i \in 1 .. Len(kept) : kept[i].seq < seq + 1
  <2>1. CASE kept = <<>>
    BY <1>1, <1>18, <2>1
  <2>2. CASE kept # <<>>
    BY <1>1, <1>17, <1>18, <2>2
  <2>3. QED BY <2>1, <2>2
<1>20. Numbered(kept, d.base.seq, seq + 1)
  BY <1>1, <1>17, <1>18, <1>19 DEF Numbered
<1>21. Ordered(h)
  <2> DEFINE g == h
  <2>1. g = [entries |-> kept, cursor |-> seq, base |-> d.base.seq, next |-> seq + 1]
    OBVIOUS
  <2> HIDE DEF g
  <2>2. g.cursor = g.base \/ \E i \in 1 .. Len(g.entries) : g.entries[i].seq = g.cursor
    BY <1>18, <2>1
  <2>3. QED BY <1>20, <2>1, <2>2, HistoryOf DEF g
<1>22. Project(Readd(last, on \ Pool(last)))
  BY <1>15, ReaddIs
<1>23. QED BY <1>3, <1>21, <1>22 DEF LoadedIs, l

LEMMA LoadIs ==
  ASSUME NothingIsNone, NEW d, Disk(d), NEW rec, ~Refused(d, rec), NEW on
  PROVE  LoadedIs(d, Load(d, rec, on))
<1> DEFINE edit == IF Usable(d) /\ d.qrec # d.head.p THEN d.qrec ELSE Nothing
           raw == IF d.head # Nothing THEN WithHead(d, edit)
                  ELSE IF Usable(d) THEN WithoutHead(d)
                  ELSE Rebuild(d, on)
<1>1. Usable(d) => Project(d.qrec)
  BY DEF Usable, Disk, Text
<1>2. Readable(d) /\ (d.head = Nothing /\ ~Usable(d) => d.base # Nothing)
  BY DEF Refused
<1>3. edit = Nothing \/ Project(edit)
  BY <1>1
<1>4. Load(d, rec, on) = WithBase(d, raw)
  BY DEF Load
<1> HIDE DEF edit
<1>5. LoadedIs(d, raw)
  BY <1>1, <1>2, <1>3, WithHeadIs, WithoutHeadIs, RebuildIs
<1> HIDE DEF raw
<1>6. CASE d.base # Nothing \/ raw.base # Nothing \/ raw.h.entries = <<>>
  BY <1>4, <1>5, <1>6 DEF WithBase
<1>7. CASE ~(d.base # Nothing \/ raw.base # Nothing \/ raw.h.entries = <<>>)
  <2> DEFINE c == Derived(raw.h, raw.p)
  <2>1. Ordered(raw.h) /\ Project(raw.p)
    BY <1>5 DEF LoadedIs
  <2>2. 0 \in 0 .. CursorPosition(raw.h)
    BY <2>1, CursorIs, OrderedFacts
  <2>3. Ordered(c.h) /\ Project(c.base)
    BY <2>1, <2>2, CompactedIs DEF Derived
  <2> HIDE DEF c
  <2>4. WithBase(d, raw) = [p |-> raw.p, h |-> c.h, base |-> c.base, repair |-> TRUE]
    BY <1>7 DEF WithBase, c
  <2>5. QED BY <1>4, <2>1, <2>3, <2>4 DEF LoadedIs
<1>8. QED BY <1>6, <1>7

----------------------------------------------------------------------------
(* What commands and events return.                                        *)

\* An outcome of the memory there is; without a history effect the history
\* stays.
Returned(o) == Outcome(o, mem) /\ (o.op = "none" => o.h = mem.h)

LEMMA PlainIs ==
  ASSUME Mem(mem)
  PROVE  /\ Plain = [p |-> mem.p, h |-> mem.h, bad |-> mem.bad, op |-> "none", base |-> Nothing,
                     write |-> FALSE, made |-> {}, gone |-> {}]
         /\ mem = [p |-> mem.p, h |-> mem.h, bad |-> mem.bad, recorded |-> mem.recorded]
         /\ Ordered(mem.h) /\ mem.bad \in BOOLEAN /\ (Initialized => Project(mem.p))
BY DEF Plain, Mem, Initialized

LEMMA PlainReturned ==
  ASSUME Mem(mem), Initialized, NEW bad \in BOOLEAN
  PROVE  Returned([Plain EXCEPT !.bad = bad]) /\ Returned(Plain)
BY PlainIs DEF Returned, Outcome

LEMMA InitsReturned ==
  ASSUME NothingIsNone, Mem(mem), ~Initialized, NEW o \in Inits
  PROVE  Returned(o)
<1>1. Project(NewProject)
  BY DEF NewProject, Project, Fcn
<1>2. mem = NoState
  BY DEF Mem, Initialized
<1>3. mem.h = NewHistory
  BY <1>2 DEF NoState
<1>4. o = [Plain EXCEPT !.p = NewProject, !.h = NewHistory, !.bad = FALSE]
  BY DEF Inits
<1> HIDE DEF NewProject, NewHistory
<1>5. o = [p |-> NewProject, h |-> NewHistory, bad |-> FALSE, op |-> "none", base |-> Nothing,
           write |-> FALSE, made |-> {}, gone |-> {}]
  BY <1>4, Zenon DEF Plain
<1>6. Ordered(NewHistory)
  BY <1>3, PlainIs
<1>7. QED BY <1>1, <1>3, <1>5, <1>6 DEF Returned, Outcome

LEMMA CommitReturned ==
  ASSUME NothingIsNone, Mem(mem), NEW p, NEW q, Project(q)
  PROVE  Returned(OfCommit(p, q)) /\ OfCommit(p, q).p = q
<1> DEFINE c == Commit(mem.h, p, q)
           o == OfCommit(p, q)
<1>1. CommitIs(c, mem.h, q)
  BY PlainIs, CommitGoes
<1>2. o = [Plain EXCEPT !.p = c.p, !.h = c.h, !.op = c.op, !.base = c.base]
  BY DEF OfCommit
<1> HIDE DEF c, o
<1>3. o = [p |-> c.p, h |-> c.h, bad |-> mem.bad, op |-> c.op, base |-> c.base,
           write |-> FALSE, made |-> {}, gone |-> {}]
  BY <1>2, Zenon DEF Plain
<1>4. Returned(o) /\ o.p = q
  BY <1>1, <1>3, PlainIs DEF Returned, Outcome, CommitIs
<1>5. QED BY <1>4 DEF o

\* What it makes of the invalid file is not part of what the history needs.
LEMMA StillReturned ==
  ASSUME NEW o, Returned(o), NEW bad \in BOOLEAN, NEW r,
         r = [p |-> o.p, h |-> o.h, bad |-> bad, op |-> o.op, base |-> o.base,
              write |-> r.write, made |-> o.made, gone |-> o.gone]
  PROVE  Returned(r) /\ r.p = o.p /\ r.op = o.op /\ r.bad = bad
<1>1. r.p = o.p /\ r.h = o.h /\ r.bad = bad /\ r.op = o.op /\ r.base = o.base /\ r.made = o.made /\ r.gone = o.gone
  OBVIOUS
<1>2. r = [p |-> r.p, h |-> r.h, bad |-> r.bad, op |-> r.op, base |-> r.base,
           write |-> r.write, made |-> r.made, gone |-> r.gone]
  BY <1>1
<1>3. QED BY <1>1, <1>2 DEF Returned, Outcome

LEMMA EditsReturned ==
  ASSUME NothingIsNone, Mem(mem), Initialized, NEW o \in Edits
  PROVE  Returned(o)
<1>1. PICK d \in Doc(Pool(mem.p)) : o = OfCommit(mem.p, [mem.p EXCEPT !.doc = d])
  BY DEF Edits
<1>2. Fcn(d) /\ TL \in DOMAIN d
  BY DEF Doc, Fcn
<1>3. Project([mem.p EXCEPT !.doc = d])
  BY <1>2, PlainIs, OtherDoc
<1>4. QED BY <1>1, <1>3, CommitReturned

LEMMA MovesReturned ==
  ASSUME NothingIsNone, Mem(mem), Initialized, NEW pos \in 0 .. Len(mem.h.entries),
         CanMove(mem.h, mem.p, pos)
  PROVE  /\ Returned(OfMove(pos)) /\ OfMove(pos).bad = mem.bad
         /\ LET o == [OfMove(pos) EXCEPT !.bad = FALSE] IN Returned(o) /\ o.bad = FALSE
<1> DEFINE m == Moved(mem.h, mem.p, pos)
           o == OfMove(pos)
           r == [o EXCEPT !.bad = FALSE]
<1>1. Project(m.p) /\ Ordered(m.h)
  BY PlainIs, MovedIs
<1>2. o = [Plain EXCEPT !.p = m.p, !.h = m.h, !.op = "cursor"]
  BY DEF OfMove
<1> HIDE DEF m, o
<1>3. o = [p |-> m.p, h |-> m.h, bad |-> mem.bad, op |-> "cursor", base |-> Nothing,
           write |-> FALSE, made |-> {}, gone |-> {}]
  BY <1>2, Zenon DEF Plain
<1>4. Returned(o) /\ o.bad = mem.bad
  BY <1>1, <1>3, PlainIs DEF Returned, Outcome
<1>5. Returned(r) /\ r.bad = FALSE
  <2>1. r = [o EXCEPT !.bad = FALSE]
    OBVIOUS
  <2> HIDE DEF r
  <2>2. r = [p |-> o.p, h |-> o.h, bad |-> FALSE, op |-> o.op, base |-> o.base,
             write |-> r.write, made |-> o.made, gone |-> o.gone]
    BY <1>3, <2>1
  <2>3. QED BY <1>4, <2>2, StillReturned
<1>6. QED BY <1>4, <1>5 DEF o, r

LEMMA ClearsReturned ==
  ASSUME NothingIsNone, Mem(mem), Initialized, NEW o \in Clears
  PROVE  Returned(o)
<1> DEFINE g == Rewritten(mem.h, <<>>, mem.h.cursor, mem.h.cursor)
<1>1. o = [Plain EXCEPT !.h = g, !.op = "rewrite", !.base = mem.p]
  BY DEF Clears
<1>2. Fits1(mem.h, <<>>, mem.h.cursor, mem.h.cursor)
  <2>1. Ordered(mem.h)
    BY PlainIs
  <2>2. mem.h.cursor \in Nat /\ mem.h.cursor < mem.h.next
    BY <2>1, CursorIs, OrderedFacts
  <2>3. Lines(<<>>) /\ Len(<<>>) = 0
    BY DEF Lines, Range
  <2>4. QED BY <2>2, <2>3 DEF Fits1
<1>3. Ordered(g)
  BY <1>2, PlainIs, RewrittenIs
<1> HIDE DEF g
<1>4. o = [p |-> mem.p, h |-> g, bad |-> mem.bad, op |-> "rewrite", base |-> mem.p,
           write |-> FALSE, made |-> {}, gone |-> {}]
  BY <1>1, Zenon DEF Plain
<1>5. QED BY <1>3, <1>4, PlainIs DEF Returned, Outcome

LEMMA PurgesReturned ==
  ASSUME NothingIsNone, Mem(mem), Initialized, NEW o \in Purges
  PROVE  Returned(o)
<1>1. PICK takes \in SUBSET (mem.p.done \ Uses(mem.p.doc)) \ {{}} :
        o = LET r == PurgeRewrite(mem.h, mem.p, takes)
            IN  [Plain EXCEPT !.p = WithoutTakes(mem.p, takes), !.h = r.h, !.op = "rewrite",
                              !.base = r.base, !.gone = takes]
  BY DEF Purges
<1> DEFINE r == PurgeRewrite(mem.h, mem.p, takes)
           w == WithoutTakes(mem.p, takes)
<1>2. o = [Plain EXCEPT !.p = w, !.h = r.h, !.op = "rewrite", !.base = r.base, !.gone = takes]
  BY <1>1
<1>3. takes \in SUBSET Take
  BY PlainIs DEF Project
<1>4. Ordered(r.h) /\ Project(r.base) /\ Project(w)
  BY <1>3, PlainIs, PurgedIs
<1> HIDE DEF r, w
<1>5. o = [p |-> w, h |-> r.h, bad |-> mem.bad, op |-> "rewrite", base |-> r.base,
           write |-> FALSE, made |-> {}, gone |-> takes]
  BY <1>2, Zenon DEF Plain
<1>6. QED BY <1>4, <1>5, PlainIs DEF Returned, Outcome

LEMMA StartsReturned ==
  ASSUME NothingIsNone, Mem(mem), Initialized, NEW o \in Starts
  PROVE  Returned(o)
<1> DEFINE f == FreshNumber
           b == [mem.p EXCEPT !.num = f]
           d == [x \in DOMAIN b.doc \cup {b.num} |-> IF x = b.num THEN b.doc[SC] ELSE b.doc[x]]
           q == Begun(b)
<1>1. o = [Plain EXCEPT !.p = q, !.made = {f}]
  BY DEF Starts
<1> HIDE DEF f
<1>2. Project(b)
  BY PlainIs DEF Project
<1>3. q = [b EXCEPT !.doc = d, !.num = @ + 1]
  BY DEF Begun
<1> HIDE DEF b
<1>4. Fcn(d) /\ TL \in DOMAIN d
  BY <1>2 DEF Project, Fcn
<1> HIDE DEF d, q
<1>5. Project(q)
  BY <1>2, <1>3, <1>4 DEF Project
<1>6. o = [p |-> q, h |-> mem.h, bad |-> mem.bad, op |-> "none", base |-> Nothing,
           write |-> FALSE, made |-> {f}, gone |-> {}]
  BY <1>1, Zenon DEF Plain
<1>7. QED BY <1>5, <1>6, PlainIs DEF Returned, Outcome

LEMMA TakeEndsReturned ==
  ASSUME NothingIsNone, Mem(mem), NEW o \in TakeEnds
  PROVE  Returned(o) /\ Initialized /\ o.bad = mem.bad
<1>1. PICK t \in InFlight, placed \in BOOLEAN : o = TakeEnd(t, placed)
  BY DEF TakeEnds
<1>2. Initialized /\ t \in Take
  BY DEF InFlight, Pool
<1> DEFINE facts == [mem.p EXCEPT !.done = @ \cup {t}]
           q == IF placed THEN [facts EXCEPT !.doc[TL] = @ \cup {t}] ELSE facts
<1>3. Project(facts)
  BY <1>2, PlainIs DEF Project
<1>4. Project([facts EXCEPT !.doc[TL] = @ \cup {t}])
  <2> HIDE DEF facts
  <2> DEFINE d == [facts.doc EXCEPT ![TL] = @ \cup {t}]
  <2>1. Fcn(d) /\ TL \in DOMAIN d
    BY <1>3 DEF Project, Fcn
  <2>2. [facts EXCEPT !.doc[TL] = @ \cup {t}] = [facts EXCEPT !.doc = d]
    OBVIOUS
  <2> HIDE DEF d
  <2>3. QED BY <1>3, <2>1, <2>2, OtherDoc
<1>5. o = OfCommit(facts, q) /\ Project(q)
  BY <1>1, <1>3, <1>4 DEF TakeEnd
<1> HIDE DEF facts, q
<1>6. Returned(o)
  BY <1>5, CommitReturned
<1>7. o.bad = mem.bad
  BY <1>5, PlainIs DEF OfCommit
<1>8. QED BY <1>2, <1>6, <1>7

\* What the merge of an edit returns.
MergeReturned(o, file) ==
    /\ Returned(o)
    /\ Writes(o) => ~o.bad
    /\ ~Writes(o) /\ ~o.bad => file = mem.p

LEMMA ExternalReturned ==
  ASSUME NothingIsNone, Mem(mem), Initialized, NEW file, Text(file)
  PROVE  MergeReturned(OfExternal(file), file)
<1> DEFINE o == OfExternal(file)
           q == MergeExternal(mem.p, file, mem.recorded)
<1>1. o = IF file \in {Missing, Broken} THEN [Plain EXCEPT !.bad = TRUE]
          ELSE IF file = mem.p THEN [Plain EXCEPT !.bad = FALSE]
          ELSE IF ~Valid(q) THEN [Plain EXCEPT !.bad = TRUE]
          ELSE [OfCommit(mem.p, q) EXCEPT !.bad = FALSE, !.write = q # file]
  BY DEF OfExternal
<1>2. \A bad \in BOOLEAN : ~Writes([Plain EXCEPT !.bad = bad]) /\ [Plain EXCEPT !.bad = bad].bad = bad
  BY PlainIs DEF Writes
<1> HIDE DEF o, q
<1>3. CASE file \in {Missing, Broken} \/ ~Valid(q)
  <2>1. o = [Plain EXCEPT !.bad = TRUE] \/ (o = [Plain EXCEPT !.bad = FALSE] /\ file = mem.p)
    BY <1>1, <1>3
  <2>2. QED BY <1>2, <2>1, PlainReturned DEF MergeReturned, o
<1>4. CASE file = mem.p /\ ~(file \in {Missing, Broken})
  BY <1>1, <1>2, <1>4, PlainReturned DEF MergeReturned, o
<1>5. CASE file \notin {Missing, Broken} /\ file # mem.p /\ Valid(q)
  <2>1. Project(file) /\ Project(mem.p)
    BY <1>5, PlainIs DEF Text
  <2> DEFINE new == Pool(file) \ Pool(mem.p)
             d == [x \in DOMAIN mem.p.doc \cup new |->
                     IF x \in DOMAIN file.doc \ mem.recorded THEN file.doc[x] ELSE mem.p.doc[x]]
             m == Max({mem.p.num, file.num})
             done == mem.p.done \cup (file.done \cap new)
  <2>2. q = [doc |-> d, done |-> done, num |-> m]
    BY DEF q, MergeExternal
  <2>3. Fcn(d) /\ TL \in DOMAIN d /\ done \subseteq Take
    BY <2>1 DEF Project, Fcn
  <2> HIDE DEF d, m, done
  <2>4. Project(q)
    BY <2>2, <2>3 DEF Project
  <2> DEFINE wr == (q # file)
  <2>5. wr \in BOOLEAN /\ o = [OfCommit(mem.p, q) EXCEPT !.bad = FALSE, !.write = wr]
    BY <1>1, <1>5
  <2> HIDE DEF wr
  <2>6. Returned(o) /\ o.p = q /\ o.bad = FALSE /\ o.write = wr
    <3> DEFINE c == OfCommit(mem.p, q)
    <3>1. Returned(c) /\ c.p = q
      BY <2>4, CommitReturned
    <3> HIDE DEF c
    <3>2. o = [c EXCEPT !.bad = FALSE, !.write = wr]
      BY <2>5 DEF c
    <3>3. c = [p |-> c.p, h |-> c.h, bad |-> c.bad, op |-> c.op, base |-> c.base,
               write |-> c.write, made |-> c.made, gone |-> c.gone]
      BY <3>1 DEF Returned, Outcome
    <3>4. /\ o = [p |-> c.p, h |-> c.h, bad |-> FALSE, op |-> c.op, base |-> c.base,
                  write |-> o.write, made |-> c.made, gone |-> c.gone]
          /\ o.write = wr
      BY <3>2, <3>3
    <3>5. QED BY <3>1, <3>4, StillReturned
  <2>7. ~Writes(o) => q = file /\ q = mem.p
    BY <2>5, <2>6 DEF Writes, wr
  <2>8. QED BY <1>5, <2>6, <2>7 DEF MergeReturned, o
<1>6. QED BY <1>3, <1>4, <1>5

\* Whatever runs first: only a merge makes a state bad.
LEMMA OutcomesReturned ==
  ASSUME NothingIsNone, Mem(mem), Top.what \in {"command", "takeEnds", "external"},
         Top.what = "external" => Initialized /\ Text(Top.file),
         NEW o \in Outcomes
  PROVE  /\ Returned(o)
         /\ Top.what = "external" => MergeReturned(o, Top.file)
         /\ Top.what # "external" /\ o.bad => mem.bad
<1>1. CASE Top.what = "external"
  <2>1. o = OfExternal(Top.file)
    BY <1>1 DEF Outcomes
  <2>2. QED BY <1>1, <2>1, ExternalReturned DEF MergeReturned
<1>2. CASE Top.what = "takeEnds"
  <2>1. o \in TakeEnds
    BY <1>2 DEF Outcomes
  <2>2. QED BY <1>2, <2>1, TakeEndsReturned
<1>3. CASE Top.what = "command"
  <2>1. o \in Commands
    BY <1>3 DEF Outcomes
  <2>2. CASE ~Initialized
    <3>1. o \in Inits
      BY <2>1, <2>2 DEF Commands
    <3>2. o.bad = FALSE
      BY <3>1, PlainIs DEF Inits
    <3>3. QED BY <1>3, <2>2, <3>1, <3>2, InitsReturned
  <2>3. CASE Initialized
    <3>1. o \in Starts \cup Restores \cup Edits \cup Moves \cup Clears \cup Purges
      BY <2>1, <2>3 DEF Commands
    <3>2. CASE o \in Restores
      <4>1. PICK pos \in {i \in 0 .. Len(mem.h.entries) : CanMove(mem.h, mem.p, i)} :
              o = [OfMove(pos) EXCEPT !.bad = FALSE]
        BY <3>2 DEF Restores
      <4>2. QED BY <1>3, <2>3, <4>1, MovesReturned
    <3>3. CASE o \in Moves
      <4>1. PICK pos \in {i \in 0 .. Len(mem.h.entries) : i # CursorPosition(mem.h) /\ CanMove(mem.h, mem.p, i)} :
              o = OfMove(pos)
        BY <3>3 DEF Moves
      <4>2. QED BY <1>3, <2>3, <4>1, MovesReturned
    <3>4. CASE o \in Edits
      <4>1. o.bad = mem.bad
        BY <3>4 DEF Edits, OfCommit, Plain
      <4>2. QED BY <1>3, <2>3, <3>4, <4>1, EditsReturned
    <3>5. CASE o \in Clears
      <4>1. o.bad = mem.bad
        BY <3>5 DEF Clears, Plain
      <4>2. QED BY <1>3, <2>3, <3>5, <4>1, ClearsReturned
    <3>6. CASE o \in Purges
      <4>1. o.bad = mem.bad
        BY <3>6 DEF Purges, Plain
      <4>2. QED BY <1>3, <2>3, <3>6, <4>1, PurgesReturned
    <3>7. CASE o \in Starts
      <4>1. o.bad = mem.bad
        BY <3>7 DEF Starts, Plain
      <4>2. QED BY <1>3, <2>3, <3>7, <4>1, StartsReturned
    <3>8. QED BY <3>1, <3>2, <3>3, <3>4, <3>5, <3>6, <3>7
  <2>4. QED BY <2>2, <2>3
<1>4. QED BY <1>1, <1>2, <1>3

----------------------------------------------------------------------------
(* What everything is made of, step by step.                               *)

LEMMA NothingYet ==
  /\ Mem(NoState) /\ Store(NewStore) /\ Todo(<<>>) /\ NoState.p = Nothing
  /\ Lines(<<>>) /\ NoState.bad = FALSE /\ NewStore.dirty = FALSE
<1>1. Lines(<<>>)
  BY DEF Lines, Range
<1>2. Ordered(NewHistory)
  <2>1. Numbered(<<>>, 0, 1)
    BY <1>1 DEF Numbered, Upward
  <2>2. QED BY <2>1, HistoryOf DEF NewHistory
<1>3. Todo(<<>>)
  BY DEF Todo, Range
<1>4. QED BY <1>1, <1>2, <1>3 DEF NoState, NewStore, Mem, Store, Base

LEMMA TodoFacts ==
  ASSUME NEW q, Todo(q)
  PROVE  /\ q \in Seq(Range(q)) /\ Len(q) \in Nat /\ DOMAIN q = 1 .. Len(q)
         /\ q # <<>> => Len(q) \in 1 .. Len(q)
         /\ \A i \in 1 .. Len(q) :
              /\ q[i] = [what |-> q[i].what, file |-> q[i].file, attempts |-> q[i].attempts]
              /\ q[i].what \in {"command", "takeEnds", "external"}
              /\ q[i].what = "external" => Text(q[i].file)
              /\ i > 1 => q[i].what = "external"
<1>1. q \in Seq(Range(q))
  BY DEF Todo
<1>2. Len(q) \in Nat /\ DOMAIN q = 1 .. Len(q) /\ (q # <<>> => Len(q) \in 1 .. Len(q))
  BY <1>1
<1>3. QED BY <1>1, <1>2 DEF Todo

\* The innermost goes.
LEMMA PopIs ==
  ASSUME NEW q, Todo(q), q # <<>>
  PROVE  LET r == SubSeq(q, 1, Len(q) - 1)
         IN  /\ Todo(r) /\ Len(r) = Len(q) - 1
             /\ \A i \in 1 .. Len(r) : i \in 1 .. Len(q) /\ r[i] = q[i]
             /\ Len(q) = 1 => r = <<>>
<1> DEFINE n == Len(q)
           r == SubSeq(q, 1, n - 1)
<1>1. q \in Seq(Range(q)) /\ n \in Nat /\ n \in 1 .. n
  BY TodoFacts
<1>2. r \in Seq(Range(q)) /\ Len(r) = n - 1 /\ \A i \in 1 .. n - 1 : r[i] = q[i] /\ i \in 1 .. n
  <2>1. r = SubSeq(q, 1, n - 1) /\ n = Len(q) /\ n - 1 \in 0 .. n
    BY <1>1
  <2> HIDE DEF r, n
  <2>2. QED BY <1>1, <2>1
<1> HIDE DEF r
<1>3. r \in Seq(Range(r))
  BY <1>2, SeqOverRange
<1> HIDE DEF n
<1>4. \A i \in 1 .. Len(r) : r[i] = q[i] /\ i \in 1 .. n
  BY <1>2
<1>5. Todo(r)
  BY <1>1, <1>2, <1>3, <1>4, TodoFacts DEF Todo, n
<1>6. n = 1 => r = <<>>
  BY <1>2
<1>7. QED BY <1>2, <1>4, <1>5, <1>6 DEF r, n

\* An edit to merge is the new innermost.
LEMMA PushIs ==
  ASSUME NEW q, Todo(q), NEW file, Text(file)
  PROVE  LET r == Append(q, Item("external", file))
         IN  /\ Todo(r) /\ Len(r) = Len(q) + 1 /\ r # <<>>
             /\ r[Len(r)].what = "external" /\ r[Len(r)].file = file
             /\ \A i \in 1 .. Len(q) : r[i] = q[i]
<1> DEFINE it == Item("external", file)
           r == Append(q, it)
           n == Len(q)
<1>1. q \in Seq(Range(q)) /\ n \in Nat
  BY TodoFacts
<1>2. it = [what |-> it.what, file |-> it.file, attempts |-> it.attempts] /\ it.what = "external" /\ it.file = file
  BY DEF Item
<1> HIDE DEF it
<1>3. r \in Seq(Range(q) \cup {it}) /\ Len(r) = n + 1 /\ r[n + 1] = it /\ \A i \in 1 .. n : r[i] = q[i]
  <2>1. q \in Seq(Range(q) \cup {it}) /\ it \in Range(q) \cup {it}
    BY <1>1
  <2>2. QED BY <2>1
<1> HIDE DEF r
<1>4. r \in Seq(Range(r))
  BY <1>3, SeqOverRange
<1>5. \A i \in 1 .. Len(r) : i \in 1 .. n \/ i = n + 1
  BY <1>1, <1>3
<1> HIDE DEF n
<1>6. Todo(r)
  <2>1. ASSUME NEW i \in 1 .. Len(r)
        PROVE  /\ r[i] = [what |-> r[i].what, file |-> r[i].file, attempts |-> r[i].attempts]
               /\ r[i].what \in {"command", "takeEnds", "external"}
               /\ r[i].what = "external" => Text(r[i].file)
               /\ i > 1 => r[i].what = "external"
    <3>1. CASE i = n + 1
      BY <1>2, <1>3, <3>1
    <3>2. CASE i \in 1 .. n
      <4>1. r[i] = q[i] /\ i \in 1 .. Len(q)
        BY <1>3, <3>2 DEF n
      <4>2. QED BY <4>1, TodoFacts
    <3>3. QED BY <1>5, <3>1, <3>2
  <2>2. QED BY <1>4, <2>1 DEF Todo
<1>7. r # <<>>
  BY <1>1, <1>3
<1>8. QED BY <1>2, <1>3, <1>6, <1>7 DEF n, r, it

\* What was set back for the merge is one more attempt.
LEMMA RetryIs ==
  ASSUME NEW q, Todo(q), q # <<>>
  PROVE  LET r == [q EXCEPT ![Len(q)].attempts = @ + 1]
         IN  /\ Todo(r) /\ Len(r) = Len(q)
             /\ \A i \in 1 .. Len(q) : r[i].what = q[i].what
<1> DEFINE n == Len(q)
           a == q[n].attempts + 1
           x == [q[n] EXCEPT !.attempts = a]
           r == [q EXCEPT ![n] = x]
<1>1. q \in Seq(Range(q)) /\ n \in Nat /\ n \in 1 .. n /\ DOMAIN q = 1 .. n
  BY TodoFacts
<1>2. [q EXCEPT ![Len(q)].attempts = @ + 1] = r
  OBVIOUS
<1>3. q[n] = [what |-> q[n].what, file |-> q[n].file, attempts |-> q[n].attempts]
  BY <1>1, TodoFacts
<1> HIDE DEF a
<1>4. x = [what |-> q[n].what, file |-> q[n].file, attempts |-> a]
  <2> DEFINE it == q[n]
  <2>1. x = [it EXCEPT !.attempts = a] /\ it = [what |-> it.what, file |-> it.file, attempts |-> it.attempts]
    BY <1>3
  <2> HIDE DEF it, x
  <2>2. x = [what |-> it.what, file |-> it.file, attempts |-> a]
    BY <2>1
  <2>3. QED BY <2>2 DEF it
<1> HIDE DEF x
<1>5. r \in Seq(Range(q) \cup {x}) /\ Len(r) = n /\ r[n] = x /\ \A i \in 1 .. n : i # n => r[i] = q[i]
  <2>1. q \in Seq(Range(q) \cup {x})
    BY <1>1
  <2> HIDE DEF n
  <2>2. n = Len(q)
    BY DEF n
  <2>3. QED BY <1>1, <2>1, <2>2
<1> HIDE DEF r
<1>6. r \in Seq(Range(r))
  BY <1>5, SeqOverRange
<1>7. \A i \in 1 .. n : /\ r[i] = [what |-> r[i].what, file |-> r[i].file, attempts |-> r[i].attempts]
                        /\ r[i].what = q[i].what /\ r[i].file = q[i].file
  <2>1. TAKE i \in 1 .. n
  <2>2. CASE i = n
    BY <1>4, <1>5, <2>2
  <2>3. CASE i # n
    BY <1>5, <2>3, TodoFacts
  <2>4. QED BY <2>2, <2>3
<1>8. Todo(r)
  <2>1. Len(r) = Len(q) /\ n = Len(q)
    BY <1>5
  <2> HIDE DEF n
  <2>2. QED BY <1>6, <1>7, <2>1, TodoFacts DEF Todo
<1>9. QED BY <1>2, <1>5, <1>7, <1>8

\* A commit is a record, not None.
LEMMA SomeRun ==
  ASSUME NothingIsNone, NEW r, NEW m, Commit1(r, m)
  PROVE  r # Nothing
<1>1. Fcn(r)
  BY DEF Commit1, Fcn
<1>2. QED BY <1>1 DEF NothingIsNone

LEMMA GoesIs ==
  ASSUME NothingIsNone, Commit1(run, mem), NEW at, Goes(at), mem' = mem,
         at \in Writing \cup {"head", "failed", "keep"} \cup Undoing,
         at \in Undoing => run.mark # Nothing
  PROVE  /\ Commit1(run', mem') /\ run' # Nothing
         /\ run'.at = at /\ run'.o = run.o /\ run'.origin = run.origin
         /\ run'.forced = run.forced /\ run'.reclaimed = run.reclaimed /\ run'.mark = run.mark
<1>1. run = [at |-> run.at, o |-> run.o, origin |-> run.origin, forced |-> run.forced,
             reclaimed |-> run.reclaimed, mark |-> run.mark]
  BY DEF Commit1
<1>2. run' = [run EXCEPT !.at = at]
  BY DEF Goes
<1>3. run' = [at |-> at, o |-> run.o, origin |-> run.origin, forced |-> run.forced,
              reclaimed |-> run.reclaimed, mark |-> run.mark]
  BY <1>1, <1>2
<1>4. /\ run'.at = at /\ run'.o = run.o /\ run'.origin = run.origin
      /\ run'.forced = run.forced /\ run'.reclaimed = run.reclaimed /\ run'.mark = run.mark
  BY <1>3
<1>5. Commit1(run', mem')
  BY <1>3, <1>4 DEF Commit1
<1>6. QED BY <1>4, <1>5, SomeRun

LEMMA RunIs ==
  ASSUME NothingIsNone, NEW o, NEW origin, NEW forced, NEW reclaimed, NEW mark, NEW r,
         r = Run(o, origin, forced, reclaimed, mark)
  PROVE  /\ r = [at |-> r.at, o |-> r.o, origin |-> r.origin, forced |-> r.forced,
                 reclaimed |-> r.reclaimed, mark |-> r.mark]
         /\ r.at = "base" /\ r.o = o /\ r.origin = origin /\ r.forced = forced
         /\ r.reclaimed = reclaimed /\ r.mark = mark
         /\ r # Nothing
<1>1. Fcn(r)
  BY DEF Run, Fcn
<1>2. QED BY <1>1 DEF Run, NothingIsNone

\* The commit of an open or of the exit: what memory has.
LEMMA RepairIs ==
  ASSUME NothingIsNone, Mem(mem), Initialized, NEW origin \in {"open", "exit"}, mem' = mem,
         run' = Run(Plain, origin, FALSE, FALSE, Nothing)
  PROVE  Commit1(run', mem') /\ run' # Nothing /\ run'.origin = origin /\ run'.mark = Nothing
         /\ run'.at = "base" /\ run'.o = Plain /\ run'.forced = FALSE
<1>1. Outcome(Plain, mem)
  BY PlainReturned DEF Returned
<1> DEFINE r == run'
           no == FALSE
<1>4. r = Run(Plain, origin, no, no, Nothing)
  OBVIOUS
<1> HIDE DEF no, r
<1>2. /\ r = [at |-> r.at, o |-> r.o, origin |-> r.origin, forced |-> r.forced,
              reclaimed |-> r.reclaimed, mark |-> r.mark]
      /\ r.at = "base" /\ r.o = Plain /\ r.origin = origin /\ r.mark = Nothing
      /\ r.forced = no /\ r.reclaimed = no
      /\ r # Nothing
  BY <1>4, RunIs
<1>3. Commit1(r, mem)
  BY <1>1, <1>2 DEF Commit1, Writing, Undoing, no
<1>5. QED BY <1>2, <1>3 DEF r, no

LEMMA FilesOpenEmpty ==
  ASSUME NothingIsNone, FilesInv, OpenEmpty
  PROVE  FilesInv'
<1>1. proc = "off" /\ run' = run /\ disk' = disk /\ todo' = todo /\ hand' = hand
  BY DEF OpenEmpty, Started
<1>2. proc' = "on" /\ mem' = NoState /\ store' = NewStore
  BY DEF OpenEmpty
<1>3. run = Nothing /\ todo = <<>>
  BY <1>1 DEF FilesInv
<1>4. Len(todo) = 0
  BY <1>3
<1>5. QED BY <1>1, <1>2, <1>3, <1>4, NothingYet DEF FilesInv

\* The state of an open.
LEMMA OpenIs ==
  ASSUME NothingIsNone, FilesInv, NEW rec, Open(rec)
  PROVE  LET l == Load(disk, rec, dirs)
         IN  /\ LoadedIs(disk, l)
             /\ mem' = [p |-> l.p, h |-> l.h, bad |-> ~Usable(disk), recorded |-> {}] /\ mem'.p # Nothing
             /\ store'.dirty = (l.repair \/ l.base # Nothing) /\ store'.known = disk.qrec
             /\ todo' = (IF Usable(disk) /\ disk.qrec # l.p
                         THEN <<Item("external", disk.qrec)>> ELSE <<>>)
             /\ run = Nothing /\ run' = Nothing /\ disk' = disk /\ proc' = "opening"
             /\ Usable(disk) => Project(disk.qrec)
<1> DEFINE l == Load(disk, rec, dirs)
<1>1. proc = "off" /\ run' = run /\ disk' = disk /\ proc' = "opening" /\ ~Refused(disk, rec) /\ Loaded(l)
  BY DEF Open, Started
<1>2. run = Nothing /\ Disk(disk)
  BY <1>1 DEF FilesInv
<1>3. LoadedIs(disk, l)
  BY <1>1, <1>2, LoadIs
<1> HIDE DEF l
<1>4. /\ mem' = [p |-> l.p, h |-> l.h, bad |-> ~Usable(disk), recorded |-> {}]
      /\ store' = [dirty |-> l.repair \/ l.base # Nothing, hasBase |-> disk.base # Nothing,
                   pending |-> IF l.base = Nothing THEN Nothing ELSE [seq |-> l.h.base, p |-> l.base],
                   known |-> disk.qrec, replaced |-> FALSE]
      /\ todo' = LET e == External(disk, l) IN IF e = Nothing THEN <<>> ELSE <<Item("external", e)>>
  BY <1>1 DEF Loaded
<1>5. mem'.p # Nothing
  BY <1>3, <1>4, SomeProject DEF LoadedIs
<1>6. Usable(disk) => Project(disk.qrec) /\ disk.qrec # Nothing
  BY <1>2, SomeProject DEF Usable, Disk, Text
<1>7. todo' = IF Usable(disk) /\ disk.qrec # l.p THEN <<Item("external", disk.qrec)>> ELSE <<>>
  BY <1>4, <1>6 DEF External
<1>8. QED BY <1>1, <1>2, <1>3, <1>4, <1>5, <1>6, <1>7 DEF l

LEMMA FilesOpen ==
  ASSUME NothingIsNone, FilesInv, NEW rec, Open(rec)
  PROVE  FilesInv'
<1> DEFINE l == Load(disk, rec, dirs)
<1>1. /\ LoadedIs(disk, l)
      /\ mem' = [p |-> l.p, h |-> l.h, bad |-> ~Usable(disk), recorded |-> {}] /\ mem'.p # Nothing
      /\ todo' = (IF Usable(disk) /\ disk.qrec # l.p
                  THEN <<Item("external", disk.qrec)>> ELSE <<>>)
      /\ run' = Nothing /\ disk' = disk /\ proc' = "opening"
      /\ Usable(disk) => Project(disk.qrec)
  BY OpenIs
<1>2. store' = [dirty |-> l.repair \/ l.base # Nothing, hasBase |-> disk.base # Nothing,
                pending |-> IF l.base = Nothing THEN Nothing ELSE [seq |-> l.h.base, p |-> l.base],
                known |-> disk.qrec, replaced |-> FALSE]
      /\ hand' = IF hand = "own" THEN "own" ELSE IF disk.qrec = Broken THEN "bad" ELSE "seen"
  BY DEF Open, Loaded
<1> HIDE DEF l
<1>3. Mem(mem')
  BY <1>1 DEF LoadedIs, Mem, Usable
<1>4. Base(store'.pending)
  <2>1. Ordered(l.h) /\ (l.base # Nothing => Project(l.base))
    BY <1>1 DEF LoadedIs
  <2>2. l.h.base \in Nat
    BY <2>1, OrderedFacts
  <2>3. QED BY <1>2, <2>1, <2>2 DEF Base
<1>5. Store(store')
  BY <1>1, <1>2, <1>4 DEF Store, LoadedIs
<1>6. Todo(todo') /\ \A i \in 1 .. Len(todo') : i = 1
  <2>1. CASE Usable(disk) /\ disk.qrec # l.p
    <3>1. Append(<<>>, Item("external", disk.qrec)) = todo'
      BY <1>1, <2>1
    <3>2. Text(disk.qrec)
      BY <1>1, <2>1 DEF Text
    <3>3. Todo(todo') /\ Len(todo') = Len(<<>>) + 1
      BY <3>1, <3>2, NothingYet, PushIs
    <3>4. QED BY <3>3
  <2>2. CASE ~(Usable(disk) /\ disk.qrec # l.p)
    BY <1>1, <2>2, NothingYet
  <2>3. QED BY <2>1, <2>2
<1>7. Disk(disk') /\ hand' \in Hands
  BY <1>1, <1>2 DEF FilesInv, Hands
<1>8. QED BY <1>1, <1>3, <1>5, <1>6, <1>7 DEF FilesInv, Initialized

LEMMA FilesOpened ==
  ASSUME NothingIsNone, FilesInv, Opened
  PROVE  FilesInv'
<1>1. /\ proc = "opening" /\ run = Nothing /\ todo = <<>>
      /\ proc' \in {proc, "on"}
      /\ run' = Nothing \/ run' = Run(Plain, "open", FALSE, FALSE, Nothing)
      /\ disk' = disk /\ mem' = mem /\ store' = store /\ todo' = todo /\ hand' = hand
  BY DEF Opened, ghosts
<1>2. Mem(mem) /\ Initialized
  BY <1>1 DEF FilesInv
<1>3. run' # Nothing => Commit1(run', mem') /\ run'.origin = "open" /\ run'.mark = Nothing
  BY <1>1, <1>2, RepairIs
<1>4. QED BY <1>1, <1>2, <1>3 DEF FilesInv, Initialized

LEMMA FilesClose ==
  ASSUME NothingIsNone, FilesInv, Close
  PROVE  FilesInv'
<1>1. /\ proc = "on" /\ run = Nothing /\ todo = <<>>
      /\ \/ run' = Nothing /\ proc' = "off"
         \/ Initialized /\ run' = Run(Plain, "exit", FALSE, FALSE, Nothing) /\ proc' = proc
      /\ disk' = disk /\ mem' = mem /\ store' = store /\ todo' = todo /\ hand' = hand
  BY DEF Close, Idle, ghosts
<1>2. Mem(mem)
  BY DEF FilesInv
<1>3. run' # Nothing => Commit1(run', mem') /\ run'.origin = "exit" /\ run'.mark = Nothing
  BY <1>1, <1>2, RepairIs
<1>4. run' # Nothing => proc' = "on"
  BY <1>1
<1>5. QED BY <1>1, <1>3, <1>4 DEF FilesInv, Initialized

LEMMA FilesCrash ==
  ASSUME NothingIsNone, FilesInv, Crash
  PROVE  FilesInv'
<1>1. /\ proc' = "off" /\ mem' = NoState /\ store' = NewStore /\ run' = Nothing /\ todo' = <<>>
      /\ disk' = disk /\ hand' = hand
  BY DEF Crash
<1>2. Len(todo') = 0
  BY <1>1
<1>3. QED BY <1>1, <1>2, NothingYet DEF FilesInv

\* A hand edit only puts another text into the file.
LEMMA EditIs ==
  ASSUME NothingIsNone, FilesInv, HandEdit
  PROVE  /\ disk' = [qrec |-> disk'.qrec, base |-> disk.base, lines |-> disk.lines,
                     torn |-> disk.torn, head |-> disk.head]
         /\ Text(disk'.qrec) /\ disk'.qrec # disk.qrec /\ disk.head # Nothing
         /\ hand' = IF disk'.qrec = Missing THEN "own"
                    ELSE IF disk'.qrec # store.known THEN "unseen"
                    ELSE IF mem.bad THEN "bad" ELSE "seen"
<1>1. PICK file \in {Missing, Broken} \cup
                    {[p EXCEPT !.doc[SC] = s] :
                       s \in Scene, p \in {IF Usable(disk) THEN disk.qrec ELSE disk.head.p}} :
        /\ file # disk.qrec
        /\ disk' = [disk EXCEPT !.qrec = file]
        /\ hand' = IF file = Missing THEN "own"
                   ELSE IF file # store.known THEN "unseen"
                   ELSE IF mem.bad THEN "bad" ELSE "seen"
  BY DEF HandEdit
<1>2. disk.head # Nothing /\ Disk(disk)
  BY DEF HandEdit, FilesInv
<1>3. Text(file)
  <2>1. CASE file \in {Missing, Broken}
    BY <2>1 DEF Text
  <2>2. CASE file \notin {Missing, Broken}
    <3> DEFINE p == IF Usable(disk) THEN disk.qrec ELSE disk.head.p
    <3>1. PICK s \in Scene : file = [p EXCEPT !.doc[SC] = s]
      BY <1>1, <2>2
    <3>2. Project(p)
      BY <1>2 DEF Usable, Disk, Text, HeadRecord
    <3> HIDE DEF p
    <3> DEFINE d == [p.doc EXCEPT ![SC] = s]
    <3>3. file = [p EXCEPT !.doc = d]
      BY <3>1
    <3>4. Fcn(d) /\ TL \in DOMAIN d
      BY <3>2 DEF Project, Fcn
    <3> HIDE DEF d
    <3>5. QED BY <3>2, <3>3, <3>4, OtherDoc DEF Text
  <2>3. QED BY <2>1, <2>2
<1>4. disk = [qrec |-> disk.qrec, base |-> disk.base, lines |-> disk.lines,
              torn |-> disk.torn, head |-> disk.head]
  BY <1>2 DEF Disk
<1>5. disk' = [qrec |-> file, base |-> disk.base, lines |-> disk.lines,
               torn |-> disk.torn, head |-> disk.head]
  BY <1>1, <1>4
<1>6. disk'.qrec = file
  BY <1>5
<1>7. Text(disk'.qrec) /\ disk.head # Nothing
  BY <1>2, <1>3, <1>6
<1>8. /\ disk' = [qrec |-> disk'.qrec, base |-> disk.base, lines |-> disk.lines,
                  torn |-> disk.torn, head |-> disk.head]
  BY <1>5, <1>6
<1>9. /\ disk'.qrec # disk.qrec
      /\ hand' = IF disk'.qrec = Missing THEN "own"
                 ELSE IF disk'.qrec # store.known THEN "unseen"
                 ELSE IF mem.bad THEN "bad" ELSE "seen"
  <2>1. /\ file # disk.qrec
        /\ hand' = IF file = Missing THEN "own"
                   ELSE IF file # store.known THEN "unseen"
                   ELSE IF mem.bad THEN "bad" ELSE "seen"
    BY <1>1
  <2>2. QED BY <1>6, <2>1
<1>10. QED BY <1>7, <1>8, <1>9

LEMMA FilesHandEdit ==
  ASSUME NothingIsNone, FilesInv, HandEdit
  PROVE  FilesInv'
<1>1. /\ disk' = [qrec |-> disk'.qrec, base |-> disk.base, lines |-> disk.lines,
                  torn |-> disk.torn, head |-> disk.head]
      /\ Text(disk'.qrec)
      /\ hand' = IF disk'.qrec = Missing THEN "own"
                 ELSE IF disk'.qrec # store.known THEN "unseen"
                 ELSE IF mem.bad THEN "bad" ELSE "seen"
  BY EditIs
<1>2. /\ run' = IF run # Nothing /\ run.at \in {"base", "lines", "project"}
                THEN [run EXCEPT !.forced = TRUE] ELSE run
      /\ mem' = mem /\ store' = store /\ proc' = proc /\ todo' = todo
  BY DEF HandEdit, session
<1>3. Disk(disk')
  <2>1. /\ disk'.base = disk.base /\ disk'.lines = disk.lines
        /\ disk'.torn = disk.torn /\ disk'.head = disk.head
    BY <1>1
  <2>2. QED BY <1>1, <2>1 DEF FilesInv, Disk
<1>4. hand' \in Hands
  BY <1>1 DEF Hands
<1>5. /\ run' = Nothing <=> run = Nothing
      /\ run # Nothing => /\ Commit1(run', mem') /\ run'.origin = run.origin /\ run'.mark = run.mark
  <2>1. CASE run # Nothing /\ run.at \in {"base", "lines", "project"}
    <3>1. Commit1(run, mem)
      BY <2>1 DEF FilesInv
    <3>2. run' = [run EXCEPT !.forced = TRUE]
      BY <1>2, <2>1
    <3>3. run = [at |-> run.at, o |-> run.o, origin |-> run.origin, forced |-> run.forced,
                 reclaimed |-> run.reclaimed, mark |-> run.mark]
      BY <3>1 DEF Commit1
    <3>4. run' = [at |-> run.at, o |-> run.o, origin |-> run.origin, forced |-> TRUE,
                  reclaimed |-> run.reclaimed, mark |-> run.mark]
      BY <3>2, <3>3
    <3>5. Commit1(run', mem') /\ run'.origin = run.origin /\ run'.mark = run.mark
      BY <1>2, <3>1, <3>4 DEF Commit1
    <3>6. QED BY <2>1, <3>5, SomeRun
  <2>2. CASE ~(run # Nothing /\ run.at \in {"base", "lines", "project"})
    BY <1>2, <2>2 DEF FilesInv
  <2>3. QED BY <2>1, <2>2
<1>6. QED BY <1>1, <1>2, <1>3, <1>4, <1>5 DEF FilesInv, Initialized, Top

LEMMA FilesRequest ==
  ASSUME NothingIsNone, FilesInv, Request
  PROVE  FilesInv'
<1>1. PICK what \in {"command", "takeEnds"} : todo' = <<Item(what, Nothing)>>
  BY DEF Request
<1>2. /\ proc = "on" /\ run = Nothing
      /\ disk' = disk /\ mem' = mem /\ store' = store /\ proc' = proc /\ run' = run /\ hand' = hand
  BY DEF Request, Idle, session, ghosts
<1>3. Item(what, Nothing) = [what |-> what, file |-> Nothing, attempts |-> 1]
  BY DEF Item
<1>4. Len(todo') = 1 /\ todo'[1] = Item(what, Nothing) /\ todo' \in Seq(Range(todo'))
  BY <1>1 DEF Range
<1>5. Todo(todo') /\ \A i \in 1 .. Len(todo') : todo'[i].what # "external"
  BY <1>3, <1>4 DEF Todo
<1>6. QED BY <1>2, <1>5 DEF FilesInv

\* What an event or a command finds: only an edit to merge is run inside another.
LEMMA TopIs ==
  ASSUME FilesInv, todo # <<>>
  PROVE  /\ Top.what \in {"command", "takeEnds", "external"}
         /\ Top.what = "external" => Initialized /\ Text(Top.file)
         /\ Top.what # "external" => Len(todo) = 1
         /\ Top = todo[Len(todo)] /\ Len(todo) \in 1 .. Len(todo) /\ proc # "off"
<1>1. Todo(todo)
  BY DEF FilesInv
<1>2. Len(todo) \in 1 .. Len(todo) /\ Len(todo) \in Nat
  BY <1>1, TodoFacts
<1>3. /\ Top.what \in {"command", "takeEnds", "external"}
      /\ Top.what = "external" => Text(Top.file)
      /\ Len(todo) > 1 => Top.what = "external"
  BY <1>1, <1>2, TodoFacts DEF Top
<1>4. Top.what = "external" => Initialized
  BY <1>2 DEF FilesInv, Top
<1>5. proc # "off"
  BY DEF FilesInv
<1>6. Top = todo[Len(todo)]
  BY DEF Top
<1>7. QED BY <1>2, <1>3, <1>4, <1>5, <1>6

\* The innermost is over.
LEMMA PopFacts ==
  ASSUME FilesInv, todo # <<>>, Pop
  PROVE  /\ Todo(todo') /\ Len(todo') = Len(todo) - 1
         /\ \A i \in 1 .. Len(todo') : i \in 1 .. Len(todo) /\ todo'[i] = todo[i]
         /\ Len(todo) = 1 => todo' = <<>>
BY PopIs DEF FilesInv, Pop

LEMMA AcceptIs ==
  ASSUME FilesInv, NEW outer, Accept(outer)
  PROVE  /\ store' = [dirty |-> store.dirty, hasBase |-> store.hasBase, pending |-> store.pending,
                      known |-> disk.qrec, replaced |-> store.replaced]
         /\ store'.dirty = store.dirty /\ store'.known = disk.qrec
         /\ todo' = Append(outer, Item("external", disk.qrec))
         /\ hand' = IF hand = "own" THEN hand ELSE "seen"
         /\ disk' = disk /\ mem' = mem /\ proc' = proc /\ run' = run /\ lost' = lost
         /\ recovery' = recovery
<1>1. store = [dirty |-> store.dirty, hasBase |-> store.hasBase, pending |-> store.pending,
               known |-> store.known, replaced |-> store.replaced]
  BY DEF FilesInv, Store
<1>2. store' = [store EXCEPT !.known = disk.qrec]
  BY DEF Accept
<1>3. store' = [dirty |-> store.dirty, hasBase |-> store.hasBase, pending |-> store.pending,
                known |-> disk.qrec, replaced |-> store.replaced]
  BY <1>1, <1>2
<1>4. store'.dirty = store.dirty /\ store'.known = disk.qrec
  BY <1>3
<1>5. QED BY <1>3, <1>4 DEF Accept, session

LEMMA FilesAccept ==
  ASSUME FilesInv, NEW outer, Accept(outer), Todo(outer), Initialized, run = Nothing, proc # "off"
  PROVE  FilesInv'
<1>1. /\ store' = [dirty |-> store.dirty, hasBase |-> store.hasBase, pending |-> store.pending,
                   known |-> disk.qrec, replaced |-> store.replaced]
      /\ todo' = Append(outer, Item("external", disk.qrec))
      /\ hand' = IF hand = "own" THEN hand ELSE "seen"
      /\ disk' = disk /\ mem' = mem /\ proc' = proc /\ run' = run
  BY AcceptIs
<1>2. Disk(disk) /\ Store(store)
  BY DEF FilesInv
<1>3. Todo(todo')
  BY <1>1, <1>2, PushIs DEF Disk
<1>4. Store(store')
  BY <1>1, <1>2 DEF Store
<1>5. hand' \in Hands
  BY <1>1 DEF FilesInv, Hands
<1>6. QED BY <1>1, <1>3, <1>4, <1>5 DEF FilesInv, Initialized

LEMMA FilesNoticed ==
  ASSUME FilesInv, Noticed
  PROVE  FilesInv'
BY FilesAccept, NothingYet DEF Noticed, Idle

\* The state of an outcome.
LEMMA BecomesIs ==
  ASSUME NothingIsNone, NEW o, NEW m, Outcome(o, m), Becomes(o)
  PROVE  /\ Mem(mem') /\ mem'.p # Nothing /\ mem'.p = o.p /\ mem'.h = o.h /\ mem'.bad = o.bad
         /\ mem' = [p |-> o.p, h |-> o.h, bad |-> o.bad, recorded |-> mem'.recorded]
<1>1. Project(o.p) /\ Ordered(o.h) /\ o.bad \in BOOLEAN
  BY DEF Outcome
<1>2. mem' = [p |-> o.p, h |-> o.h, bad |-> o.bad, recorded |-> mem'.recorded]
  BY DEF Becomes
<1>3. mem'.p = o.p /\ mem'.h = o.h /\ mem'.bad = o.bad
  BY <1>2
<1>4. o.p # Nothing
  BY <1>1, SomeProject
<1>5. QED BY <1>1, <1>2, <1>3, <1>4 DEF Mem

LEMMA ReturnedNow ==
  ASSUME NothingIsNone, FilesInv, todo # <<>>, NEW o \in Outcomes
  PROVE  /\ Returned(o) /\ Outcome(o, mem)
         /\ Top.what = "external" => MergeReturned(o, Top.file)
         /\ Top.what # "external" /\ o.bad => mem.bad
<1>1. Mem(mem)
  BY DEF FilesInv
<1>2. /\ Returned(o)
      /\ Top.what = "external" => MergeReturned(o, Top.file)
      /\ Top.what # "external" /\ o.bad => mem.bad
  BY <1>1, TopIs, OutcomesReturned
<1>3. QED BY <1>2 DEF Returned

LEMMA MergedIs ==
  ASSUME hand \in Hands, NEW o, Merged(o)
  PROVE  hand' \in Hands
BY DEF Merged, Hands

\* An outcome that is not written, or not now.
LEMMA FilesUnsaved ==
  ASSUME NothingIsNone, FilesInv, run = Nothing, todo # <<>>, NEW o \in Outcomes,
         RunUnsaved(o) \/ KeepInMemory(o)
  PROVE  FilesInv'
<1>1. /\ Becomes(o) /\ Merged(o) /\ Pop /\ store' \in {store, [store EXCEPT !.dirty = TRUE]}
      /\ disk' = disk /\ proc' = proc /\ run' = run
  BY DEF RunUnsaved, KeepInMemory, session
<1>2. Mem(mem') /\ mem'.p # Nothing
  BY <1>1, ReturnedNow, BecomesIs
<1>3. Store(store')
  BY <1>1 DEF FilesInv, Store
<1>4. Todo(todo')
  BY <1>1, PopFacts
<1>5. hand' \in Hands
  BY <1>1, MergedIs DEF FilesInv
<1>6. QED BY <1>1, <1>2, <1>3, <1>4, <1>5, TopIs DEF FilesInv, Initialized

\* One that is refused.
LEMMA FilesRefused ==
  ASSUME NothingIsNone, FilesInv, run = Nothing, todo # <<>>, Pop,
         UNCHANGED <<disk, mem, store, proc, run, hand>>
  PROVE  FilesInv'
<1>1. /\ Todo(todo') /\ \A i \in 1 .. Len(todo') : i \in 1 .. Len(todo) /\ todo'[i] = todo[i]
  BY PopFacts
<1>2. QED BY <1>1, TopIs DEF FilesInv, Initialized

LEMMA AsideIs ==
  ASSUME FilesInv, NEW o, Aside(o)
  PROVE  /\ disk' = [qrec |-> disk'.qrec, base |-> disk.base, lines |-> disk.lines,
                     torn |-> disk.torn, head |-> disk.head]
         /\ disk'.qrec = disk.qrec \/ (disk'.qrec = Missing /\ mem.bad /\ o.bad)
         /\ hand' \in Hands /\ (hand' = "own" => hand = "own")
         /\ ~mem.bad => disk' = disk /\ hand' = hand
         /\ "aside" \notin Faults /\ mem.bad =>
              hand' = (IF hand = "own" THEN "own" ELSE "seen") /\ (o.bad => disk'.qrec = Missing)
<1>1. disk = [qrec |-> disk.qrec, base |-> disk.base, lines |-> disk.lines,
              torn |-> disk.torn, head |-> disk.head] /\ hand \in Hands
  BY DEF FilesInv, Disk
<1>2. CASE ~mem.bad
  BY <1>1, <1>2 DEF Aside
<1>3. CASE mem.bad
  <2>1. \/ /\ hand' = (IF hand = "own" THEN "own" ELSE "seen")
           /\ disk' = IF o.bad THEN [disk EXCEPT !.qrec = Missing] ELSE disk
        \/ "aside" \in Faults /\ disk' = disk /\ hand' = hand
    BY <1>3 DEF Aside, Fails
  <2>2. [disk EXCEPT !.qrec = Missing] =
          [qrec |-> Missing, base |-> disk.base, lines |-> disk.lines,
           torn |-> disk.torn, head |-> disk.head]
    <3> DEFINE e == [disk EXCEPT !.qrec = Missing]
    <3>1. e = [disk EXCEPT !.qrec = Missing]
      OBVIOUS
    <3> HIDE DEF e
    <3>2. e = [qrec |-> Missing, base |-> disk.base, lines |-> disk.lines,
               torn |-> disk.torn, head |-> disk.head]
      BY <1>1, <3>1
    <3>3. QED BY <3>2 DEF e
  <2>3. CASE o.bad /\ disk' = [disk EXCEPT !.qrec = Missing] /\ hand' = (IF hand = "own" THEN "own" ELSE "seen")
    <3>1. disk' = [qrec |-> Missing, base |-> disk.base, lines |-> disk.lines,
                   torn |-> disk.torn, head |-> disk.head]
      BY <2>2, <2>3
    <3>2. disk'.qrec = Missing
      BY <3>1
    <3>3. QED BY <1>3, <2>3, <3>1, <3>2 DEF Hands
  <2>4. CASE disk' = disk /\ hand' = (IF hand = "own" THEN "own" ELSE "seen") /\ ~o.bad
    BY <1>1, <1>3, <2>4 DEF Hands
  <2>5. CASE "aside" \in Faults /\ disk' = disk /\ hand' = hand
    BY <1>1, <1>3, <2>5
  <2>6. QED BY <2>1, <2>3, <2>4, <2>5
<1>4. QED BY <1>2, <1>3

\* A commit begins: what it is the commit of, and what it is taken back to.
LEMMA BeginIs ==
  ASSUME NothingIsNone, FilesInv, todo # <<>>, NEW o \in Outcomes, Begin(o)
  PROVE  /\ Commit1(run', mem) /\ run' # Nothing /\ run'.at = "base" /\ run'.o = o
         /\ run'.origin = Origin /\ run'.forced = Forced /\ run'.reclaimed = Reclaimed(o)
         /\ run'.mark = (IF Origin = "command" /\ ~Reclaimed(o) THEN Mark ELSE Nothing)
         /\ Mark # Nothing /\ MarkOf(Mark)
         /\ store' = [dirty |-> store.dirty, hasBase |-> store.hasBase, pending |-> store.pending,
                      known |-> IF Reclaimed(o) THEN Missing ELSE store.known, replaced |-> FALSE]
         /\ store'.dirty = store.dirty
         /\ store'.known = IF Reclaimed(o) THEN Missing ELSE store.known
         /\ mem' = mem /\ proc' = proc /\ todo' = todo /\ lost' = lost /\ Aside(o) /\ Writes(o)
         /\ ~MustMerge(o)
<1>1. /\ Aside(o) /\ Writes(o) /\ ~MustMerge(o)
      /\ store' = [store EXCEPT !.replaced = FALSE,
                                !.known = IF Reclaimed(o) THEN Missing ELSE @]
      /\ run' = Run(o, Origin, Forced, Reclaimed(o),
                    IF Origin = "command" /\ ~Reclaimed(o) THEN Mark ELSE Nothing)
      /\ mem' = mem /\ proc' = proc /\ todo' = todo /\ lost' = lost
  BY DEF Begin, session
<1>2. store = [dirty |-> store.dirty, hasBase |-> store.hasBase, pending |-> store.pending,
               known |-> store.known, replaced |-> store.replaced]
      /\ store.dirty \in BOOLEAN /\ Base(store.pending)
  BY DEF FilesInv, Store
<1> DEFINE known == IF Reclaimed(o) THEN Missing ELSE store.known
           no == FALSE
<1>3. store' = [dirty |-> store.dirty, hasBase |-> store.hasBase, pending |-> store.pending,
                known |-> known, replaced |-> no]
  <2>1. store' = [store EXCEPT !.replaced = no, !.known = known]
    BY <1>1
  <2> HIDE DEF known, no
  <2>2. QED BY <1>2, <2>1
<1>4. store'.dirty = store.dirty /\ store'.known = known
  <2> HIDE DEF known, no
  <2>1. QED BY <1>3
<1>5. /\ disk' = [qrec |-> disk'.qrec, base |-> disk.base, lines |-> disk.lines,
                  torn |-> disk.torn, head |-> disk.head]
      /\ disk'.qrec = disk.qrec \/ disk'.qrec = Missing
      /\ hand' \in Hands
  BY <1>1, AsideIs
<1>6. Text(disk'.qrec) /\ Base(disk.base)
  BY <1>5 DEF FilesInv, Disk, Text
<1> DEFINE k == Mark
<1>7. k = [qrec |-> disk'.qrec, base |-> disk.base, dirty |-> store.dirty, hasBase |-> store.hasBase,
           pending |-> store.pending, known |-> store'.known, hand |-> hand']
  BY DEF Mark
<1> HIDE DEF k
<1>8. MarkOf(k)
  BY <1>2, <1>5, <1>6, <1>7 DEF MarkOf
<1>9. k # Nothing
  <2>1. Fcn(k)
    BY <1>7 DEF Fcn
  <2>2. QED BY <2>1 DEF NothingIsNone
<1> DEFINE mark == IF Origin = "command" /\ ~Reclaimed(o) THEN k ELSE Nothing
           origin == Origin
           forced == Forced
           reclaimed == Reclaimed(o)
<1>10. run' = Run(o, origin, forced, reclaimed, mark)
  BY <1>1 DEF k
<1>11. reclaimed \in BOOLEAN
  BY <1>2 DEF Reclaimed
<1>12. origin \in {"command", "event"}
  BY DEF Origin
<1>13. mark # Nothing => MarkOf(mark)
  BY <1>8
<1>14. Outcome(o, mem)
  BY ReturnedNow
<1> HIDE DEF mark, origin, forced, reclaimed
<1>15. /\ run' = [at |-> run'.at, o |-> run'.o, origin |-> run'.origin, forced |-> run'.forced,
                  reclaimed |-> run'.reclaimed, mark |-> run'.mark]
       /\ run'.at = "base" /\ run'.o = o /\ run'.origin = origin /\ run'.forced = forced
       /\ run'.reclaimed = reclaimed /\ run'.mark = mark
       /\ run' # Nothing
  BY <1>10, RunIs
<1>16. Commit1(run', mem)
  BY <1>11, <1>12, <1>13, <1>14, <1>15 DEF Commit1, Writing, Undoing
<1>17. /\ run'.origin = Origin /\ run'.forced = Forced /\ run'.reclaimed = Reclaimed(o)
       /\ run'.mark = (IF Origin = "command" /\ ~Reclaimed(o) THEN Mark ELSE Nothing)
  BY <1>15 DEF mark, origin, forced, reclaimed, k
<1>18. MarkOf(Mark) /\ Mark # Nothing
  BY <1>8, <1>9 DEF k
<1>19. QED BY <1>1, <1>3, <1>4, <1>15, <1>16, <1>17, <1>18

LEMMA FilesBegin ==
  ASSUME NothingIsNone, FilesInv, run = Nothing, todo # <<>>, NEW o \in Outcomes, Begin(o)
  PROVE  FilesInv'
<1>1. /\ Commit1(run', mem) /\ run' # Nothing /\ run'.origin = Origin
      /\ run'.mark = (IF Origin = "command" /\ ~Reclaimed(o) THEN Mark ELSE Nothing)
      /\ store' = [dirty |-> store.dirty, hasBase |-> store.hasBase, pending |-> store.pending,
                   known |-> IF Reclaimed(o) THEN Missing ELSE store.known, replaced |-> FALSE]
      /\ mem' = mem /\ proc' = proc /\ todo' = todo /\ Aside(o)
  BY BeginIs
<1>2. /\ disk' = [qrec |-> disk'.qrec, base |-> disk.base, lines |-> disk.lines,
                  torn |-> disk.torn, head |-> disk.head]
      /\ disk'.qrec = disk.qrec \/ disk'.qrec = Missing
      /\ hand' \in Hands
  BY <1>1, AsideIs
<1>3. Disk(disk')
  <2>1. Text(disk'.qrec)
    BY <1>2 DEF FilesInv, Disk, Text
  <2>2. QED BY <1>2, <2>1 DEF FilesInv, Disk
<1>4. Store(store')
  <2>1. store.dirty \in BOOLEAN /\ Base(store.pending)
    BY DEF FilesInv, Store
  <2> DEFINE known == IF Reclaimed(o) THEN Missing ELSE store.known
             no == FALSE
  <2>2. store' = [dirty |-> store.dirty, hasBase |-> store.hasBase, pending |-> store.pending,
                  known |-> known, replaced |-> no]
    BY <1>1
  <2> HIDE DEF known, no
  <2>3. QED BY <2>1, <2>2 DEF Store
<1>5. /\ Origin \in {"command", "event"}
      /\ run'.mark # Nothing => Len(todo) = 1 /\ Top.what = "command"
  <2>1. Origin = "command" <=> Top.what = "command"
    BY DEF Origin
  <2>2. Origin \in {"command", "event"}
    BY DEF Origin
  <2>3. QED BY <1>1, <2>1, <2>2, TopIs
<1>6. Todo(todo') /\ Mem(mem') /\ proc \in {"off", "opening", "on"} /\ proc # "off"
  BY <1>1, TopIs DEF FilesInv
<1>7. QED BY <1>1, <1>2, <1>3, <1>4, <1>5, <1>6 DEF FilesInv, Initialized, Top

LEMMA FilesDispatch ==
  ASSUME NothingIsNone, FilesInv, Dispatch
  PROVE  FilesInv'
<1>1. run = Nothing /\ todo # <<>>
  BY DEF Dispatch
<1>2. CASE Refuse
  BY <1>1, <1>2, FilesRefused DEF Refuse, session, ghosts
<1>3. ASSUME NEW o \in Outcomes, MergeFirst(o) PROVE FilesInv'
  <2> DEFINE outer == [todo EXCEPT ![Len(todo)].attempts = @ + 1]
  <2>1. Accept(outer) /\ Initialized
    BY <1>3 DEF MergeFirst, MustMerge
  <2>2. Todo(outer)
    BY <1>1, RetryIs DEF FilesInv
  <2> HIDE DEF outer
  <2>3. QED BY <1>1, <2>1, <2>2, TopIs, FilesAccept
<1>4. ASSUME NEW o \in Outcomes, RunUnsaved(o) \/ KeepInMemory(o) PROVE FilesInv'
  BY <1>1, <1>4, FilesUnsaved
<1>5. ASSUME NEW o \in Outcomes, OnlyARestoreSaves(o) PROVE FilesInv'
  BY <1>1, <1>5, FilesRefused DEF OnlyARestoreSaves, session, ghosts
<1>6. ASSUME NEW o \in Outcomes, Begin(o) PROVE FilesInv'
  BY <1>1, <1>6, FilesBegin
<1>7. QED BY <1>2, <1>3, <1>4, <1>5, <1>6 DEF Dispatch

\* A step of a commit, and its end.
LEMMA FilesGoes ==
  ASSUME NothingIsNone, FilesInv, run # Nothing, NEW at, Goes(at),
         at \in Writing \cup {"head", "failed", "keep"} \cup Undoing,
         at \in Undoing => run.mark # Nothing,
         mem' = mem, proc' = proc, todo' = todo, Disk(disk'), Store(store'), hand' \in Hands
  PROVE  FilesInv'
<1>1. Commit1(run, mem)
  BY DEF FilesInv
<1>2. /\ Commit1(run', mem') /\ run' # Nothing /\ run'.origin = run.origin /\ run'.mark = run.mark
  BY <1>1, GoesIs
<1>3. QED BY <1>2 DEF FilesInv, Initialized, Top

LEMMA EndsIs ==
  ASSUME NothingIsNone, FilesInv, run # Nothing, Ends
  PROVE  /\ run' = Nothing /\ Todo(todo') /\ recovery' = recovery
         /\ run.origin \in {"command", "event"} => Pop /\ todo # <<>> /\ proc' = proc
         /\ run.origin \notin {"command", "event"} => todo' = todo /\ todo = <<>>
         /\ run.origin = "open" => proc' = "on"
         /\ run.origin = "exit" => proc' = "off"
         /\ proc' \in {"off", "opening", "on"} /\ (proc' = "opening" => proc = "opening")
         /\ proc # "off"
         /\ proc' = "off" => todo' = <<>>
         /\ \A i \in 1 .. Len(todo') : i \in 1 .. Len(todo) /\ todo'[i] = todo[i]
<1>1. run.origin \in {"command", "event", "open", "exit"}
  BY DEF FilesInv, Commit1
<1>2. run.origin \in {"command", "event"} <=> todo # <<>>
  BY DEF FilesInv
<1>3. /\ run' = Nothing /\ recovery' = recovery
      /\ run.origin \in {"command", "event"} => Pop
      /\ run.origin \notin {"command", "event"} => todo' = todo
      /\ proc' = CASE run.origin = "open" -> "on" [] run.origin = "exit" -> "off" [] OTHER -> proc
  BY DEF Ends
<1>4. proc # "off" /\ proc \in {"off", "opening", "on"} /\ Todo(todo)
  BY DEF FilesInv
<1>5. CASE run.origin \in {"command", "event"}
  <2>1. proc' = proc /\ Pop /\ todo # <<>>
    BY <1>2, <1>3, <1>5
  <2>2. Todo(todo') /\ \A i \in 1 .. Len(todo') : i \in 1 .. Len(todo) /\ todo'[i] = todo[i]
    BY <2>1, PopFacts
  <2>3. QED BY <1>3, <1>4, <1>5, <2>1, <2>2
<1>6. CASE run.origin = "open"
  BY <1>2, <1>3, <1>4, <1>6
<1>7. CASE run.origin = "exit"
  BY <1>2, <1>3, <1>4, <1>7
<1>8. QED BY <1>1, <1>5, <1>6, <1>7

LEMMA FilesEnds ==
  ASSUME NothingIsNone, FilesInv, run # Nothing, Ends, Mem(mem'), mem' = mem \/ mem'.p # Nothing,
         Disk(disk'), Store(store'), hand' \in Hands
  PROVE  FilesInv'
<1>1. /\ run' = Nothing /\ Todo(todo')
      /\ proc' \in {"off", "opening", "on"} /\ (proc' = "opening" => proc = "opening")
      /\ proc' = "off" => todo' = <<>>
      /\ \A i \in 1 .. Len(todo') : i \in 1 .. Len(todo) /\ todo'[i] = todo[i]
  BY EndsIs
<1>2. QED BY <1>1 DEF FilesInv, Initialized

\* What the files and the store are, field by field.
LEMMA NowIs ==
  ASSUME FilesInv
  PROVE  /\ disk = [qrec |-> disk.qrec, base |-> disk.base, lines |-> disk.lines,
                    torn |-> disk.torn, head |-> disk.head]
         /\ Text(disk.qrec) /\ Base(disk.base) /\ Lines(disk.lines) /\ disk.torn \in BOOLEAN
         /\ HeadRecord(disk.head)
         /\ store = [dirty |-> store.dirty, hasBase |-> store.hasBase, pending |-> store.pending,
                     known |-> store.known, replaced |-> store.replaced]
         /\ store.dirty \in BOOLEAN /\ Base(store.pending) /\ hand \in Hands
         /\ run # Nothing => Commit1(run, mem) /\ Outcome(run.o, mem)
BY DEF FilesInv, Disk, Store, Commit1

\* The same files with another project text.
SameBut(d, e) ==
    /\ e = [qrec |-> e.qrec, base |-> d.base, lines |-> d.lines, torn |-> d.torn, head |-> d.head]
    /\ e.base = d.base /\ e.lines = d.lines /\ e.torn = d.torn /\ e.head = d.head

LEMMA OtherQrec ==
  ASSUME FilesInv, NEW q, disk' = [disk EXCEPT !.qrec = q]
  PROVE  SameBut(disk, disk') /\ disk'.qrec = q /\ (Text(q) => Disk(disk'))
<1>1. disk' = [qrec |-> q, base |-> disk.base, lines |-> disk.lines, torn |-> disk.torn, head |-> disk.head]
  BY NowIs
<1>2. disk'.qrec = q /\ disk'.base = disk.base /\ disk'.lines = disk.lines /\ disk'.torn = disk.torn
      /\ disk'.head = disk.head
  BY <1>1
<1>3. Text(q) => Disk(disk')
  BY <1>1, <1>2, NowIs DEF Disk
<1>4. QED BY <1>1, <1>2, <1>3 DEF SameBut

LEMMA OtherBase ==
  ASSUME FilesInv, NEW b, disk' = [disk EXCEPT !.base = b]
  PROVE  /\ disk'.base = b /\ disk'.qrec = disk.qrec /\ disk'.lines = disk.lines
         /\ disk'.torn = disk.torn /\ disk'.head = disk.head
         /\ Base(b) => Disk(disk')
<1>1. disk' = [qrec |-> disk.qrec, base |-> b, lines |-> disk.lines, torn |-> disk.torn, head |-> disk.head]
  BY NowIs
<1>2. disk'.qrec = disk.qrec /\ disk'.base = b /\ disk'.lines = disk.lines /\ disk'.torn = disk.torn
      /\ disk'.head = disk.head
  BY <1>1
<1>3. QED BY <1>1, <1>2, NowIs DEF Disk

LEMMA OtherLines ==
  ASSUME FilesInv, NEW l, disk' = [disk EXCEPT !.lines = l]
  PROVE  /\ disk'.base = disk.base /\ disk'.qrec = disk.qrec /\ disk'.lines = l
         /\ disk'.torn = disk.torn /\ disk'.head = disk.head
         /\ Lines(l) => Disk(disk')
<1>1. disk' = [qrec |-> disk.qrec, base |-> disk.base, lines |-> l, torn |-> disk.torn, head |-> disk.head]
  BY NowIs
<1>2. disk'.qrec = disk.qrec /\ disk'.base = disk.base /\ disk'.lines = l /\ disk'.torn = disk.torn
      /\ disk'.head = disk.head
  BY <1>1
<1>3. QED BY <1>1, <1>2, NowIs DEF Disk

LEMMA OtherTorn ==
  ASSUME FilesInv, NEW l, NEW t \in BOOLEAN,
         disk' = [disk EXCEPT !.lines = l, !.torn = t] \/ (l = disk.lines /\ disk' = [disk EXCEPT !.torn = t])
  PROVE  /\ disk'.base = disk.base /\ disk'.qrec = disk.qrec /\ disk'.lines = l
         /\ disk'.torn = t /\ disk'.head = disk.head
         /\ Lines(l) => Disk(disk')
<1>1. disk' = [qrec |-> disk.qrec, base |-> disk.base, lines |-> l, torn |-> t, head |-> disk.head]
  <2>1. CASE disk' = [disk EXCEPT !.lines = l, !.torn = t]
    BY <2>1, NowIs
  <2>2. CASE l = disk.lines /\ disk' = [disk EXCEPT !.torn = t]
    BY <2>2, NowIs
  <2>3. QED BY <2>1, <2>2
<1>2. disk'.qrec = disk.qrec /\ disk'.base = disk.base /\ disk'.lines = l /\ disk'.torn = t
      /\ disk'.head = disk.head
  BY <1>1
<1>3. QED BY <1>1, <1>2, NowIs DEF Disk

LEMMA OtherHead ==
  ASSUME FilesInv, NEW h, disk' = [disk EXCEPT !.head = h]
  PROVE  /\ disk'.base = disk.base /\ disk'.qrec = disk.qrec /\ disk'.lines = disk.lines
         /\ disk'.torn = disk.torn /\ disk'.head = h
         /\ HeadRecord(h) => Disk(disk')
<1>1. disk' = [qrec |-> disk.qrec, base |-> disk.base, lines |-> disk.lines, torn |-> disk.torn, head |-> h]
  BY NowIs
<1>2. disk'.qrec = disk.qrec /\ disk'.base = disk.base /\ disk'.lines = disk.lines /\ disk'.torn = disk.torn
      /\ disk'.head = h
  BY <1>1
<1>3. QED BY <1>1, <1>2, NowIs DEF Disk

\* The store with other values: what it is worth is its dirty, known and pending.
LEMMA OtherStore ==
  ASSUME FilesInv, NEW dirty, NEW known, NEW pending, NEW hasBase, NEW replaced,
         store' = [store EXCEPT !.dirty = dirty, !.known = known, !.pending = pending,
                                !.hasBase = hasBase, !.replaced = replaced]
  PROVE  /\ store'.dirty = dirty /\ store'.known = known /\ store'.pending = pending
         /\ dirty \in BOOLEAN /\ Base(pending) => Store(store')
<1>1. store' = [dirty |-> dirty, hasBase |-> hasBase, pending |-> pending,
                known |-> known, replaced |-> replaced]
  BY NowIs
<1>2. store'.dirty = dirty /\ store'.known = known /\ store'.pending = pending
      /\ store'.hasBase = hasBase /\ store'.replaced = replaced
  BY <1>1
<1>3. QED BY <1>1, <1>2 DEF Store

LEMMA StoreKnown ==
  ASSUME FilesInv, NEW known, store' = [store EXCEPT !.known = known]
  PROVE  store'.dirty = store.dirty /\ store'.known = known /\ Store(store')
<1>1. store' = [dirty |-> store.dirty, hasBase |-> store.hasBase, pending |-> store.pending,
                known |-> known, replaced |-> store.replaced]
  BY NowIs
<1>2. store'.dirty = store.dirty /\ store'.known = known /\ store'.pending = store.pending
      /\ store'.hasBase = store.hasBase /\ store'.replaced = store.replaced
  BY <1>1
<1>3. QED BY <1>1, <1>2, NowIs DEF Store

LEMMA StoreDirty ==
  ASSUME FilesInv, NEW dirty \in BOOLEAN, store' = [store EXCEPT !.dirty = dirty]
  PROVE  store'.dirty = dirty /\ store'.known = store.known /\ Store(store')
<1>1. store' = [dirty |-> dirty, hasBase |-> store.hasBase, pending |-> store.pending,
                known |-> store.known, replaced |-> store.replaced]
  BY NowIs
<1>2. store'.dirty = dirty /\ store'.known = store.known /\ store'.pending = store.pending
      /\ store'.hasBase = store.hasBase /\ store'.replaced = store.replaced
  BY <1>1
<1>3. QED BY <1>1, <1>2, NowIs DEF Store

LEMMA BaseToWriteIs ==
  ASSUME NothingIsNone, FilesInv, run # Nothing
  PROVE  Base(BaseToWrite(run.o))
<1> DEFINE o == run.o
<1>1. Outcome(o, mem) /\ Base(store.pending) /\ Mem(mem)
  BY NowIs DEF FilesInv
<1> HIDE DEF o
<1>2. o.h.base \in Nat /\ mem.h.base \in Nat /\ Project(o.p) /\ (o.op = "rewrite" => Project(o.base))
  BY <1>1, OrderedFacts DEF Outcome, Mem
<1>3. Initialized => Project(mem.p)
  BY <1>1 DEF Mem, Initialized
<1> DEFINE b == BaseToWrite(o)
<1>4. \/ b = [seq |-> o.h.base, p |-> o.base] /\ o.op = "rewrite"
      \/ b = store.pending
      \/ b = [seq |-> o.h.base, p |-> o.p]
      \/ b = [seq |-> mem.h.base, p |-> mem.p] /\ Initialized
      \/ b = Nothing
  BY DEF BaseToWrite
<1> HIDE DEF b
<1>5. Base(b)
  BY <1>1, <1>2, <1>3, <1>4 DEF Base
<1>6. QED BY <1>5 DEF b, o

\* What the steps of a commit change.
LEMMA CommitBaseIs ==
  ASSUME NothingIsNone, FilesInv, CommitBase
  PROVE  /\ run # Nothing /\ run.at = "base" /\ (Goes("lines") \/ Goes("failed"))
         /\ Disk(disk') /\ disk'.qrec = disk.qrec /\ disk'.lines = disk.lines
         /\ disk'.torn = disk.torn /\ disk'.head = disk.head
         /\ Store(store') /\ store'.dirty = store.dirty /\ store'.known = store.known
         /\ mem' = mem /\ proc' = proc /\ todo' = todo /\ hand' = hand /\ lost' = lost
<1> DEFINE b == BaseToWrite(run.o)
<1>1. /\ run # Nothing /\ run.at = "base" /\ (Goes("lines") \/ Goes("failed"))
      /\ disk' = disk \/ disk' = [disk EXCEPT !.base = b]
      /\ \/ store' = store
         \/ store' = [store EXCEPT !.pending = Nothing, !.replaced = store.hasBase, !.hasBase = TRUE]
         \/ store' = [store EXCEPT !.pending = b]
      /\ mem' = mem /\ proc' = proc /\ todo' = todo /\ hand' = hand /\ lost' = lost
  BY DEF CommitBase, session, ghosts
<1>2. Base(b)
  BY <1>1, BaseToWriteIs
<1> HIDE DEF b
<1>3. Disk(disk') /\ disk'.qrec = disk.qrec /\ disk'.lines = disk.lines
      /\ disk'.torn = disk.torn /\ disk'.head = disk.head
  <2>1. CASE disk' = disk
    BY <2>1 DEF FilesInv
  <2>2. CASE disk' = [disk EXCEPT !.base = b]
    BY <1>2, <2>2, OtherBase
  <2>3. QED BY <1>1, <2>1, <2>2
<1>4. Store(store') /\ store'.dirty = store.dirty /\ store'.known = store.known
  <2>1. CASE store' = store
    BY <2>1 DEF FilesInv
  <2>2. CASE store' = [store EXCEPT !.pending = Nothing, !.replaced = store.hasBase, !.hasBase = TRUE]
    <3> DEFINE yes == TRUE
    <3>1. store' = [store EXCEPT !.pending = Nothing, !.replaced = store.hasBase, !.hasBase = yes]
      BY <2>2
    <3> HIDE DEF yes
    <3>2. store' = [dirty |-> store.dirty, hasBase |-> yes, pending |-> Nothing,
                    known |-> store.known, replaced |-> store.hasBase]
      BY <3>1, NowIs
    <3>3. store'.dirty = store.dirty /\ store'.known = store.known /\ store'.pending = Nothing
          /\ store'.hasBase = yes /\ store'.replaced = store.hasBase
      BY <3>2
    <3>4. QED BY <3>2, <3>3, NowIs DEF Store, Base
  <2>3. CASE store' = [store EXCEPT !.pending = b]
    <3>1. store' = [dirty |-> store.dirty, hasBase |-> store.hasBase, pending |-> b,
                    known |-> store.known, replaced |-> store.replaced]
      BY <2>3, NowIs
    <3>2. store'.dirty = store.dirty /\ store'.known = store.known /\ store'.pending = b
          /\ store'.hasBase = store.hasBase /\ store'.replaced = store.replaced
      BY <3>1
    <3>3. QED BY <1>2, <3>1, <3>2, NowIs DEF Store
  <2>4. QED BY <1>1, <2>1, <2>2, <2>3
<1>5. QED BY <1>1, <1>3, <1>4

\* The lines it appends are those of its history.
LEMMA CommitLinesIs ==
  ASSUME NothingIsNone, FilesInv, CommitLines
  PROVE  /\ run # Nothing /\ run.at = "lines"
         /\ Disk(disk') /\ disk'.qrec = disk.qrec /\ disk'.base = disk.base /\ disk'.head = disk.head
         /\ store' = store
         /\ mem' = mem /\ proc' = proc /\ todo' = todo /\ hand' = hand /\ lost' = lost
         /\ \/ Goes("failed") /\ (run.o.op = "none" => disk' = disk)
            \/ /\ Goes("project")
               /\ (Initialized /\ ~store.dirty => disk.lines = mem.h.entries /\ ~disk.torn)
                  => (store.dirty \/ Initialized => disk'.lines = run.o.h.entries /\ ~disk'.torn)
               /\ ~store.dirty /\ run.o.op = "none" => disk' = disk
<1> DEFINE o    == run.o
           new  == o.h.entries[Len(o.h.entries)]
           grow == Append(disk.lines, new)
           more == [disk EXCEPT !.lines = grow]
           all  == [disk EXCEPT !.lines = o.h.entries, !.torn = FALSE]
           skip == o.op = "none" /\ ~store.dirty
<1>1. /\ run # Nothing /\ run.at = "lines" /\ store' = store
      /\ mem' = mem /\ proc' = proc /\ todo' = todo /\ hand' = hand /\ lost' = lost
      /\ \/ Goes("project") /\ disk' = IF skip THEN disk ELSE IF Appends(o) THEN more ELSE all
         \/ Goes("failed") /\ Appends(o) /\ disk' \in {disk, more, [disk EXCEPT !.torn = TRUE]}
         \/ Goes("failed") /\ disk' = disk
  BY DEF CommitLines, session, ghosts
<1>2. Outcome(o, mem) /\ Lines(disk.lines) /\ disk.torn \in BOOLEAN /\ store.dirty \in BOOLEAN
      /\ Ordered(mem.h)
  BY <1>1, NowIs DEF FilesInv, Mem
<1>3. Lines(o.h.entries) /\ Ordered(o.h)
  BY <1>2 DEF Outcome, Ordered
<1>4. Appends(o) => o.h.entries = Append(mem.h.entries, new) /\ ~store.dirty
  BY <1>2 DEF Appends, Outcome
<1>5. Appends(o) => Lines(grow)
  <2>1. HAVE Appends(o)
  <2> DEFINE l == disk.lines
             n == Len(l)
  <2>2. Entry(new)
    <3> DEFINE e == o.h.entries
    <3>1. e = Append(mem.h.entries, new) /\ mem.h.entries \in Seq(Range(mem.h.entries))
      BY <1>2, <1>4, <2>1, OrderedFacts
    <3>2. Lines(e) /\ new = e[Len(e)]
      BY <1>3
    <3> HIDE DEF e, new
    <3>3. e # <<>>
      BY <3>1
    <3>4. Len(e) \in 1 .. Len(e)
      BY <3>2, <3>3, LinesFacts
    <3>5. QED BY <3>2, <3>4, LinesFacts
  <2>3. l \in Seq(Range(l)) /\ n \in Nat /\ \A i \in 1 .. n : Entry(l[i])
    BY <1>2, LinesFacts
  <2> HIDE DEF l, new
  <2>4. /\ Append(l, new) \in Seq(Range(l) \cup {new}) /\ Len(Append(l, new)) = n + 1
        /\ Append(l, new)[n + 1] = new /\ \A i \in 1 .. n : Append(l, new)[i] = l[i]
    <3>1. l \in Seq(Range(l) \cup {new}) /\ new \in Range(l) \cup {new}
      BY <2>3
    <3>2. QED BY <3>1
  <2>5. Append(l, new) \in Seq(Range(Append(l, new)))
    BY <2>4, SeqOverRange
  <2>6. \A i \in 1 .. n + 1 : i \in 1 .. n \/ i = n + 1
    BY <2>3
  <2>7. Lines(Append(l, new))
    BY <2>2, <2>3, <2>4, <2>5, <2>6 DEF Lines
  <2>8. QED BY <2>7 DEF l
<1> HIDE DEF new, o
<1>6. Appends(o) /\ disk' = more =>
        /\ Disk(disk') /\ disk'.qrec = disk.qrec /\ disk'.base = disk.base /\ disk'.head = disk.head
        /\ disk'.lines = grow /\ disk'.torn = disk.torn
  <2> HIDE DEF grow
  <2>1. QED BY <1>5, OtherLines
<1>7. disk' = all =>
        /\ Disk(disk') /\ disk'.qrec = disk.qrec /\ disk'.base = disk.base /\ disk'.head = disk.head
        /\ disk'.lines = o.h.entries /\ disk'.torn = FALSE
  BY <1>3, OtherTorn
<1>8. disk' = [disk EXCEPT !.torn = TRUE] =>
        Disk(disk') /\ disk'.qrec = disk.qrec /\ disk'.base = disk.base /\ disk'.head = disk.head
  BY <1>2, OtherTorn
<1>9. disk' = disk => Disk(disk')
  BY DEF FilesInv
<1>10. Disk(disk') /\ disk'.qrec = disk.qrec /\ disk'.base = disk.base /\ disk'.head = disk.head
  <2> HIDE DEF more, all, grow
  <2>1. QED BY <1>1, <1>6, <1>7, <1>8, <1>9
<1>11. ASSUME Goes("project"), disk' = IF skip THEN disk ELSE IF Appends(o) THEN more ELSE all,
              Initialized /\ ~store.dirty => disk.lines = mem.h.entries /\ ~disk.torn,
              store.dirty \/ Initialized
       PROVE  disk'.lines = o.h.entries /\ ~disk'.torn
  <2>1. CASE skip
    <3>1. o.h.entries = mem.h.entries /\ disk' = disk /\ Initialized /\ ~store.dirty
      BY <1>2, <1>11, <2>1 DEF Outcome
    <3>2. QED BY <1>11, <3>1
  <2>2. CASE ~skip /\ Appends(o)
    <3>1. disk' = more /\ ~store.dirty /\ o.h.entries = Append(mem.h.entries, new)
      BY <1>4, <1>11, <2>2
    <3>2. disk'.lines = grow /\ disk'.torn = disk.torn /\ disk.lines = mem.h.entries /\ ~disk.torn
      BY <1>6, <1>11, <2>2, <3>1
    <3>3. QED BY <3>1, <3>2
  <2>3. CASE ~skip /\ ~Appends(o)
    BY <1>7, <1>11, <2>3
  <2>4. QED BY <2>1, <2>2, <2>3
<1>12. \/ Goes("failed") /\ (o.op = "none" => disk' = disk)
       \/ Goes("project") /\ disk' = IF skip THEN disk ELSE IF Appends(o) THEN more ELSE all
  <2> HIDE DEF more, all, skip
  <2>1. o.op = "none" => ~Appends(o)
    BY DEF Appends
  <2>2. QED BY <1>1, <2>1
<1>13. ASSUME disk' = IF skip THEN disk ELSE IF Appends(o) THEN more ELSE all,
              ~store.dirty, o.op = "none"
       PROVE  disk' = disk
  BY <1>13
<1> HIDE DEF more, all, skip
<1>14. QED BY <1>1, <1>10, <1>11, <1>12, <1>13 DEF o


LEMMA FilesCommitBase ==
  ASSUME NothingIsNone, FilesInv, CommitBase
  PROVE  FilesInv'
<1>1. /\ run # Nothing /\ (Goes("lines") \/ Goes("failed"))
      /\ Disk(disk') /\ Store(store') /\ mem' = mem /\ proc' = proc /\ todo' = todo /\ hand' = hand
  BY CommitBaseIs
<1>2. hand' \in Hands
  BY <1>1, NowIs
<1>3. CASE Goes("lines")
  <2>1. "lines" \in Writing
    BY DEF Writing
  <2>2. "lines" \notin Undoing
    BY DEF Undoing
  <2>3. QED BY <1>1, <1>2, <1>3, <2>1, <2>2, FilesGoes
<1>4. CASE Goes("failed")
  <2>1. "failed" \notin Undoing
    BY DEF Undoing
  <2>2. QED BY <1>1, <1>2, <1>4, <2>1, FilesGoes
<1>5. QED BY <1>1, <1>3, <1>4

LEMMA FilesCommitLines ==
  ASSUME NothingIsNone, FilesInv, CommitLines
  PROVE  FilesInv'
<1>1. /\ run # Nothing /\ (Goes("project") \/ Goes("failed"))
      /\ Disk(disk') /\ store' = store /\ mem' = mem /\ proc' = proc /\ todo' = todo /\ hand' = hand
  BY CommitLinesIs
<1>2. hand' \in Hands /\ Store(store')
  BY <1>1 DEF FilesInv
<1>3. CASE Goes("project")
  <2>1. "project" \in Writing /\ "project" \notin Undoing
    BY DEF Writing, Undoing
  <2>2. QED BY <1>1, <1>2, <1>3, <2>1, FilesGoes
<1>4. CASE Goes("failed")
  <2>1. "failed" \notin Undoing
    BY DEF Undoing
  <2>2. QED BY <1>1, <1>2, <1>4, <2>1, FilesGoes
<1>5. QED BY <1>1, <1>3, <1>4

LEMMA CommitProjectIs ==
  ASSUME NothingIsNone, FilesInv, CommitProject
  PROVE  /\ run # Nothing /\ run.at = "project"
         /\ mem' = mem /\ proc' = proc /\ todo' = todo /\ recovery' = recovery
         /\ SameBut(disk, disk') /\ Disk(disk') /\ Store(store') /\ store'.dirty = store.dirty
         /\ \/ /\ Goes("head") /\ Overwrite(run.o.p) /\ disk'.qrec = run.o.p
               /\ store'.known = run.o.p
            \/ Goes("failed") /\ disk' = disk /\ hand' = hand /\ lost' = lost /\ store' = store
            \/ /\ Goes("failed") /\ Overwrite(run.o.p) /\ disk'.qrec = run.o.p
               /\ store' = store
<1> DEFINE p == run.o.p
<1>1. /\ run # Nothing /\ run.at = "project"
      /\ mem' = mem /\ proc' = proc /\ todo' = todo /\ recovery' = recovery
      /\ \/ Goes("head") /\ Overwrite(p) /\ store' = [store EXCEPT !.known = p]
         \/ Goes("failed") /\ disk' = disk /\ hand' = hand /\ lost' = lost /\ store' = store
         \/ Goes("failed") /\ Overwrite(p) /\ store' = store
  BY DEF CommitProject, session
<1>2. Project(p)
  BY <1>1, NowIs DEF Outcome
<1>3. Overwrite(p) => disk' = [disk EXCEPT !.qrec = p]
  BY DEF Overwrite
<1> HIDE DEF p
<1>4. Text(p)
  BY <1>2 DEF Text
<1>5. Overwrite(p) => SameBut(disk, disk') /\ Disk(disk') /\ disk'.qrec = p
  BY <1>3, <1>4, OtherQrec
<1>6. disk' = disk => SameBut(disk, disk') /\ Disk(disk')
  BY NowIs DEF SameBut, FilesInv
<1>7. store' = [store EXCEPT !.known = p] => store'.dirty = store.dirty /\ store'.known = p /\ Store(store')
  BY StoreKnown
<1>8. store' = store => Store(store')
  BY DEF FilesInv
<1>9. QED BY <1>1, <1>5, <1>6, <1>7, <1>8 DEF p

LEMMA FilesCommitProject ==
  ASSUME NothingIsNone, FilesInv, CommitProject
  PROVE  FilesInv'
<1>1. /\ run # Nothing /\ (Goes("head") \/ Goes("failed"))
      /\ Disk(disk') /\ Store(store') /\ mem' = mem /\ proc' = proc /\ todo' = todo
      /\ (Overwrite(run.o.p) \/ hand' = hand)
  BY CommitProjectIs
<1>2. hand' \in Hands
  BY <1>1, NowIs DEF Overwrite, Hands
<1>3. CASE Goes("head")
  <2>1. "head" \notin Undoing
    BY DEF Undoing
  <2>2. QED BY <1>1, <1>2, <1>3, <2>1, FilesGoes
<1>4. CASE Goes("failed")
  <2>1. "failed" \notin Undoing
    BY DEF Undoing
  <2>2. QED BY <1>1, <1>2, <1>4, <2>1, FilesGoes
<1>5. QED BY <1>1, <1>3, <1>4

LEMMA HeadOfIs ==
  ASSUME NothingIsNone, NEW o, Project(o.p), Ordered(o.h)
  PROVE  HeadRecord(HeadOf(o)) /\ HeadOf(o) # Nothing
<1> DEFINE h == HeadOf(o)
<1>1. h = [cursor |-> o.h.cursor, base |-> o.h.base, next |-> o.h.next, p |-> o.p]
  BY DEF HeadOf
<1>2. /\ o.h.cursor \in Nat /\ o.h.base \in Nat /\ o.h.next \in Nat
      /\ o.h.cursor < o.h.next /\ o.h.base < o.h.next
  BY OrderedFacts, CursorIs
<1> HIDE DEF h
<1>3. HeadRecord(h)
  BY <1>1, <1>2 DEF HeadRecord
<1>4. h # Nothing
  <2>1. Fcn(h)
    BY <1>1 DEF Fcn
  <2>2. QED BY <2>1 DEF NothingIsNone
<1>5. QED BY <1>3, <1>4 DEF h

\* The commit record is the last thing written.
LEMMA CommitHeadIs ==
  ASSUME NothingIsNone, FilesInv, CommitHead
  PROVE  /\ run # Nothing /\ run.at = "head" /\ lost' = lost
         /\ Disk(disk') /\ Store(store')
         /\ disk'.qrec = disk.qrec /\ disk'.lines = disk.lines /\ disk'.torn = disk.torn
         /\ store'.known = store.known
         /\ \/ /\ Ends /\ disk'.head = HeadOf(run.o) /\ store'.dirty = FALSE
               /\ Mem(mem') /\ mem'.p # Nothing /\ mem'.p = run.o.p /\ mem'.h = run.o.h
               /\ mem'.bad = (run.o.bad /\ ~run.reclaimed)
               /\ IF run.origin \in {"command", "event"} THEN Merged(run.o) ELSE hand' = hand
            \/ /\ Goes("failed") /\ mem' = mem /\ store' = store /\ proc' = proc /\ todo' = todo
               /\ hand' = hand /\ recovery' = recovery
               /\ disk' = disk \/ ("headSync" \in Faults /\ disk'.head = HeadOf(run.o))
<1> DEFINE o == run.o
           h == HeadOf(o)
           bad == o.bad /\ ~run.reclaimed
           b == [o EXCEPT !.bad = bad]
           no == FALSE
<1>1. /\ run # Nothing /\ run.at = "head" /\ lost' = lost
      /\ \/ /\ disk' = [disk EXCEPT !.head = h] /\ store' = [store EXCEPT !.dirty = no]
            /\ Becomes([o EXCEPT !.bad = @ /\ ~run.reclaimed]) /\ Ends
            /\ IF run.origin \in {"command", "event"} THEN Merged(run.o) ELSE hand' = hand
         \/ /\ Goes("failed") /\ mem' = mem /\ store' = store /\ proc' = proc /\ todo' = todo
            /\ hand' = hand /\ recovery' = recovery
            /\ disk' = disk \/ ("headSync" \in Faults /\ disk' = [disk EXCEPT !.head = h])
  BY DEF CommitHead, session, ghosts, Fails
<1>2. Outcome(o, mem) /\ Commit1(run, mem)
  BY <1>1, NowIs
<1>3. HeadRecord(h)
  BY <1>2, HeadOfIs DEF Outcome
<1>4. [o EXCEPT !.bad = @ /\ ~run.reclaimed] = b
  OBVIOUS
<1>5. bad \in BOOLEAN
  BY <1>2 DEF Commit1, Outcome
<1>6. b.p = o.p /\ b.h = o.h /\ b.bad = bad
  <2>1. o = [p |-> o.p, h |-> o.h, bad |-> o.bad, op |-> o.op, base |-> o.base,
             write |-> o.write, made |-> o.made, gone |-> o.gone]
    BY <1>2 DEF Outcome
  <2> DEFINE c == b
  <2>2. c = [o EXCEPT !.bad = bad]
    OBVIOUS
  <2> HIDE DEF c, o, bad
  <2>3. c = [p |-> o.p, h |-> o.h, bad |-> bad, op |-> o.op, base |-> o.base,
             write |-> o.write, made |-> o.made, gone |-> o.gone]
    BY <2>1, <2>2
  <2>4. c.p = o.p /\ c.h = o.h /\ c.bad = bad
    BY <2>3
  <2>5. QED BY <2>4 DEF c
<1> HIDE DEF b, bad, h, no
<1>7. Becomes(b) => Mem(mem') /\ mem'.p # Nothing /\ mem'.p = o.p /\ mem'.h = o.h /\ mem'.bad = bad
  <2>1. HAVE Becomes(b)
  <2>2. mem' = [p |-> b.p, h |-> b.h, bad |-> b.bad, recorded |-> mem'.recorded]
    BY <2>1 DEF Becomes
  <2>3. /\ mem'.p = o.p /\ mem'.h = o.h /\ mem'.bad = bad
        /\ mem' = [p |-> mem'.p, h |-> mem'.h, bad |-> mem'.bad, recorded |-> mem'.recorded]
    BY <1>6, <2>2
  <2>4. Project(o.p) /\ Ordered(o.h) /\ o.p # Nothing
    BY <1>2, SomeProject DEF Outcome
  <2> HIDE DEF o
  <2>5. QED BY <1>5, <2>3, <2>4 DEF Mem
<1> HIDE DEF o
<1>8. disk' = [disk EXCEPT !.head = h] =>
        /\ Disk(disk') /\ disk'.qrec = disk.qrec /\ disk'.lines = disk.lines
        /\ disk'.torn = disk.torn /\ disk'.head = h
  BY <1>3, OtherHead
<1>9. store' = [store EXCEPT !.dirty = no] => store'.dirty = no /\ store'.known = store.known /\ Store(store')
  <2>1. no \in BOOLEAN
    BY DEF no
  <2>2. QED BY <2>1, StoreDirty
<1>10. Disk(disk) /\ Store(store)
  BY DEF FilesInv
<1>11. CASE /\ disk' = [disk EXCEPT !.head = h] /\ store' = [store EXCEPT !.dirty = no]
            /\ Becomes(b) /\ Ends
            /\ IF run.origin \in {"command", "event"} THEN Merged(run.o) ELSE hand' = hand
  <2>1. /\ Disk(disk') /\ disk'.qrec = disk.qrec /\ disk'.lines = disk.lines
        /\ disk'.torn = disk.torn /\ disk'.head = h
        /\ store'.dirty = no /\ store'.known = store.known /\ Store(store')
        /\ Mem(mem') /\ mem'.p # Nothing /\ mem'.p = o.p /\ mem'.h = o.h /\ mem'.bad = bad
    BY <1>7, <1>8, <1>9, <1>11
  <2>2. QED BY <1>1, <1>11, <2>1 DEF o, h, bad, no
<1>12. CASE /\ Goes("failed") /\ mem' = mem /\ store' = store /\ proc' = proc /\ todo' = todo
            /\ hand' = hand /\ recovery' = recovery
            /\ disk' = disk \/ ("headSync" \in Faults /\ disk' = [disk EXCEPT !.head = h])
  <2>1. /\ Disk(disk') /\ disk'.qrec = disk.qrec /\ disk'.lines = disk.lines
        /\ disk'.torn = disk.torn
        /\ disk' = disk \/ ("headSync" \in Faults /\ disk'.head = h)
    BY <1>8, <1>10, <1>12
  <2>2. QED BY <1>1, <1>10, <1>12, <2>1 DEF o, h
<1>13. QED BY <1>1, <1>4, <1>11, <1>12

LEMMA FilesCommitHead ==
  ASSUME NothingIsNone, FilesInv, CommitHead
  PROVE  FilesInv'
<1>1. /\ run # Nothing /\ Disk(disk') /\ Store(store')
      /\ \/ /\ Ends /\ Mem(mem') /\ mem'.p # Nothing
            /\ IF run.origin \in {"command", "event"} THEN Merged(run.o) ELSE hand' = hand
         \/ Goes("failed") /\ mem' = mem /\ proc' = proc /\ todo' = todo /\ hand' = hand
  BY CommitHeadIs
<1>2. hand' \in Hands
  BY <1>1, NowIs, MergedIs
<1>3. CASE Ends /\ Mem(mem') /\ mem'.p # Nothing
  BY <1>1, <1>2, <1>3, FilesEnds
<1>4. CASE Goes("failed") /\ mem' = mem /\ proc' = proc /\ todo' = todo
  <2>1. "failed" \notin Undoing
    BY DEF Undoing
  <2>2. QED BY <1>1, <1>2, <1>4, <2>1, FilesGoes
<1>5. QED BY <1>1, <1>3, <1>4

LEMMA CommitFailedIs ==
  ASSUME NothingIsNone, FilesInv, CommitFailed
  PROVE  /\ run # Nothing /\ run.at = "failed"
         /\ Goes(IF run.mark # Nothing THEN "dropProject" ELSE "keep")
         /\ Store(store') /\ store'.dirty = TRUE /\ store'.known = store.known
         /\ disk' = disk /\ mem' = mem /\ proc' = proc /\ todo' = todo /\ hand' = hand /\ lost' = lost
<1> DEFINE yes == TRUE
<1>1. store' = [store EXCEPT !.dirty = yes]
  BY DEF CommitFailed
<1>2. yes \in BOOLEAN
  OBVIOUS
<1> HIDE DEF yes
<1>3. store'.dirty = yes /\ store'.known = store.known /\ Store(store')
  BY <1>1, <1>2, StoreDirty
<1>4. QED BY <1>3 DEF yes, CommitFailed, session, ghosts

LEMMA FilesCommitFailed ==
  ASSUME NothingIsNone, FilesInv, CommitFailed
  PROVE  FilesInv'
<1>1. /\ run # Nothing /\ Store(store') /\ Disk(disk') /\ hand' \in Hands
      /\ Goes(IF run.mark # Nothing THEN "dropProject" ELSE "keep")
      /\ mem' = mem /\ proc' = proc /\ todo' = todo
  BY CommitFailedIs DEF FilesInv
<1>2. CASE run.mark # Nothing
  <2>1. Goes("dropProject") /\ "dropProject" \in Undoing
    BY <1>1, <1>2 DEF Undoing
  <2>2. QED BY <1>1, <1>2, <2>1, FilesGoes
<1>3. CASE run.mark = Nothing
  <2>1. Goes("keep") /\ "keep" \notin Undoing
    BY <1>1, <1>3 DEF Undoing
  <2>2. QED BY <1>1, <2>1, FilesGoes
<1>4. QED BY <1>2, <1>3

LEMMA KeepUnsavedIs ==
  ASSUME NothingIsNone, FilesInv, KeepUnsaved
  PROVE  /\ run # Nothing /\ run.at = "keep" /\ Ends
         /\ Mem(mem') /\ mem'.p # Nothing /\ mem'.p = run.o.p /\ mem'.h = run.o.h /\ mem'.bad = run.o.bad
         /\ IF run.origin \in {"command", "event"} THEN Merged(run.o) ELSE hand' = hand
         /\ disk' = disk /\ store' = store /\ lost' = lost
<1>1. /\ run # Nothing /\ run.at = "keep" /\ Ends /\ Becomes(run.o)
      /\ IF run.origin \in {"command", "event"} THEN Merged(run.o) ELSE hand' = hand
      /\ disk' = disk /\ store' = store /\ lost' = lost
  BY DEF KeepUnsaved
<1>2. Outcome(run.o, mem)
  BY <1>1, NowIs
<1>3. QED BY <1>1, <1>2, BecomesIs

LEMMA FilesKeepUnsaved ==
  ASSUME NothingIsNone, FilesInv, KeepUnsaved
  PROVE  FilesInv'
<1>1. /\ run # Nothing /\ Ends /\ Mem(mem') /\ mem'.p # Nothing /\ disk' = disk /\ store' = store
      /\ IF run.origin \in {"command", "event"} THEN Merged(run.o) ELSE hand' = hand
  BY KeepUnsavedIs
<1>2. hand' \in Hands
  BY <1>1, NowIs, MergedIs
<1>3. Disk(disk') /\ Store(store')
  BY <1>1 DEF FilesInv
<1>4. QED BY <1>1, <1>2, <1>3, FilesEnds

\* What a failed commit is taken back to.
LEMMA MarkIs ==
  ASSUME FilesInv, run # Nothing, run.at \in Undoing
  PROVE  /\ run.mark # Nothing /\ MarkOf(run.mark) /\ Text(run.mark.qrec) /\ Base(run.mark.base)
         /\ Base(run.mark.pending) /\ run.mark.dirty \in BOOLEAN /\ run.mark.hand \in Hands
<1>1. Commit1(run, mem)
  BY DEF FilesInv
<1>2. run.mark # Nothing /\ MarkOf(run.mark)
  BY <1>1 DEF Commit1
<1>3. QED BY <1>2 DEF MarkOf

LEMMA DropProjectIs ==
  ASSUME NothingIsNone, FilesInv, DropProject
  PROVE  /\ run # Nothing /\ run.at = "dropProject" /\ run.mark # Nothing /\ MarkOf(run.mark)
         /\ SameBut(disk, disk') /\ Disk(disk') /\ Store(store') /\ store'.dirty = store.dirty
         /\ mem' = mem /\ proc' = proc /\ todo' = todo /\ lost' = lost
         /\ \/ /\ Goes("dropBase") /\ disk'.qrec = run.mark.qrec /\ hand' = run.mark.hand
               /\ store'.known = run.mark.known
            \/ /\ Goes("keep") /\ store' = store
               /\ \/ disk' = disk /\ hand' = hand
                  \/ /\ disk'.qrec = run.mark.qrec
                     /\ hand' = IF run.mark.hand = "unseen" /\ run.mark.qrec = store.known
                                THEN "seen" ELSE run.mark.hand
<1> DEFINE q == run.mark.qrec
           known == run.mark.known
<1>1. /\ run # Nothing /\ run.at = "dropProject"
      /\ mem' = mem /\ proc' = proc /\ todo' = todo /\ lost' = lost
      /\ \/ /\ Goes("dropBase") /\ disk' = [disk EXCEPT !.qrec = q] /\ hand' = run.mark.hand
            /\ store' = [store EXCEPT !.known = known]
         \/ /\ Goes("keep") /\ store' = store
            /\ \/ disk' = disk /\ hand' = hand
               \/ /\ disk' = [disk EXCEPT !.qrec = q]
                  /\ hand' = IF run.mark.hand = "unseen" /\ q = store.known
                             THEN "seen" ELSE run.mark.hand
  BY DEF DropProject, session
<1>2. run.at \in Undoing
  BY <1>1 DEF Undoing
<1>3. run.mark # Nothing /\ MarkOf(run.mark) /\ Text(q)
  BY <1>1, <1>2, MarkIs
<1> HIDE DEF q, known
<1>4. disk' = [disk EXCEPT !.qrec = q] => SameBut(disk, disk') /\ Disk(disk') /\ disk'.qrec = q
  BY <1>3, OtherQrec
<1>5. disk' = disk => SameBut(disk, disk') /\ Disk(disk')
  BY NowIs DEF SameBut, FilesInv
<1>6. store' = [store EXCEPT !.known = known] => store'.dirty = store.dirty /\ store'.known = known /\ Store(store')
  BY StoreKnown
<1>7. store' = store => Store(store')
  BY DEF FilesInv
<1>8. QED BY <1>1, <1>3, <1>4, <1>5, <1>6, <1>7 DEF q, known

LEMMA FilesDropProject ==
  ASSUME NothingIsNone, FilesInv, DropProject
  PROVE  FilesInv'
<1>1. /\ run # Nothing /\ run.at = "dropProject" /\ run.mark # Nothing
      /\ Disk(disk') /\ Store(store') /\ mem' = mem /\ proc' = proc /\ todo' = todo
      /\ Goes("dropBase") \/ Goes("keep")
      /\ hand' \in {hand, run.mark.hand, "seen"}
  BY DropProjectIs
<1>2. hand' \in Hands
  <2>1. run.at \in Undoing
    BY <1>1 DEF Undoing
  <2>2. QED BY <1>1, <2>1, NowIs, MarkIs DEF Hands
<1>3. CASE Goes("dropBase")
  <2>1. "dropBase" \in Undoing
    BY DEF Undoing
  <2>2. QED BY <1>1, <1>2, <1>3, <2>1, FilesGoes
<1>4. CASE Goes("keep")
  <2>1. "keep" \notin Undoing
    BY DEF Undoing
  <2>2. QED BY <1>1, <1>2, <1>4, <2>1, FilesGoes
<1>5. QED BY <1>1, <1>3, <1>4

LEMMA DropBaseIs ==
  ASSUME NothingIsNone, FilesInv, DropBase
  PROVE  /\ run # Nothing /\ run.at = "dropBase" /\ run.mark # Nothing
         /\ Goes("dropLines") \/ Goes("keep")
         /\ Disk(disk') /\ disk'.qrec = disk.qrec /\ disk'.lines = disk.lines
         /\ disk'.torn = disk.torn /\ disk'.head = disk.head
         /\ Store(store') /\ store'.dirty = store.dirty /\ store'.known = store.known
         /\ mem' = mem /\ proc' = proc /\ todo' = todo /\ hand' = hand /\ lost' = lost
<1> DEFINE puts    == store.replaced /\ run.o.op = "rewrite"
           removes == ~run.mark.hasBase /\ store.hasBase
           rep == IF puts THEN FALSE ELSE store.replaced
           pend == run.mark.pending
           now == [store EXCEPT !.replaced = rep, !.pending = pend]
           b == IF puts THEN run.mark.base ELSE IF removes THEN Nothing ELSE disk.base
           has == now.hasBase /\ ~removes
<1>1. /\ run # Nothing /\ run.at = "dropBase"
      /\ \/ /\ Goes("dropLines") /\ disk' = [disk EXCEPT !.base = b]
            /\ store' = [now EXCEPT !.hasBase = has]
         \/ Goes("keep") /\ disk' = disk /\ store' = store
         \/ Goes("dropLines") /\ disk' = disk /\ store' = now
      /\ mem' = mem /\ proc' = proc /\ todo' = todo /\ hand' = hand /\ lost' = lost
  BY DEF DropBase, session
<1>2. run.at \in Undoing
  BY <1>1 DEF Undoing
<1>3. run.mark # Nothing /\ Base(run.mark.base) /\ Base(pend) /\ Base(disk.base)
  BY <1>1, <1>2, MarkIs, NowIs
<1>4. Base(b)
  BY <1>3 DEF Base
<1> HIDE DEF b, rep, pend, has
<1>5. now = [dirty |-> store.dirty, hasBase |-> store.hasBase, pending |-> pend,
             known |-> store.known, replaced |-> rep]
  <2> DEFINE n == now
  <2>1. n = [store EXCEPT !.replaced = rep, !.pending = pend]
    OBVIOUS
  <2> HIDE DEF n
  <2>2. n = [dirty |-> store.dirty, hasBase |-> store.hasBase, pending |-> pend,
             known |-> store.known, replaced |-> rep]
    BY <2>1, NowIs
  <2>3. QED BY <2>2 DEF n
<1> HIDE DEF now
<1>6. store' = now \/ store' = [now EXCEPT !.hasBase = has] =>
        Store(store') /\ store'.dirty = store.dirty /\ store'.known = store.known
  <2> DEFINE s == store'
  <2>1. ASSUME NEW hb, s = [dirty |-> store.dirty, hasBase |-> hb, pending |-> pend,
                            known |-> store.known, replaced |-> rep]
        PROVE  Store(s) /\ s.dirty = store.dirty /\ s.known = store.known
    <3> HIDE DEF s
    <3>1. /\ s.dirty = store.dirty /\ s.hasBase = hb /\ s.pending = pend
          /\ s.known = store.known /\ s.replaced = rep
      BY <2>1
    <3>2. QED BY <1>3, <2>1, <3>1, NowIs DEF Store
  <2>2. [now EXCEPT !.hasBase = has] =
          [dirty |-> store.dirty, hasBase |-> has, pending |-> pend, known |-> store.known, replaced |-> rep]
    <3> DEFINE n == [now EXCEPT !.hasBase = has]
    <3>1. n = [now EXCEPT !.hasBase = has]
      OBVIOUS
    <3> HIDE DEF n
    <3>2. n = [dirty |-> store.dirty, hasBase |-> has, pending |-> pend, known |-> store.known, replaced |-> rep]
      BY <1>5, <3>1
    <3>3. QED BY <3>2 DEF n
  <2>3. QED BY <1>5, <2>1, <2>2
<1>7. disk' = [disk EXCEPT !.base = b] =>
        /\ Disk(disk') /\ disk'.qrec = disk.qrec /\ disk'.lines = disk.lines
        /\ disk'.torn = disk.torn /\ disk'.head = disk.head
  BY <1>4, OtherBase
<1>8. Disk(disk) /\ Store(store)
  BY DEF FilesInv
<1>9. QED BY <1>1, <1>3, <1>6, <1>7, <1>8

LEMMA FilesDropBase ==
  ASSUME NothingIsNone, FilesInv, DropBase
  PROVE  FilesInv'
<1>1. /\ run # Nothing /\ run.mark # Nothing /\ (Goes("dropLines") \/ Goes("keep"))
      /\ Disk(disk') /\ Store(store') /\ mem' = mem /\ proc' = proc /\ todo' = todo /\ hand' = hand
  BY DropBaseIs
<1>2. hand' \in Hands
  BY <1>1, NowIs
<1>3. CASE Goes("dropLines")
  <2>1. "dropLines" \in Undoing
    BY DEF Undoing
  <2>2. QED BY <1>1, <1>2, <1>3, <2>1, FilesGoes
<1>4. CASE Goes("keep")
  <2>1. "keep" \notin Undoing
    BY DEF Undoing
  <2>2. QED BY <1>1, <1>2, <1>4, <2>1, FilesGoes
<1>5. QED BY <1>1, <1>3, <1>4

LEMMA DropLinesIs ==
  ASSUME NothingIsNone, FilesInv, DropLines
  PROVE  /\ run # Nothing /\ run.at = "dropLines" /\ run.mark # Nothing /\ Ends
         /\ Disk(disk') /\ disk'.qrec = disk.qrec /\ disk'.head = disk.head
         /\ Store(store') /\ store'.known = store.known
         /\ mem' = mem /\ hand' = hand /\ lost' = lost
         /\ \/ ~run.mark.dirty /\ disk'.lines = mem.h.entries /\ ~disk'.torn /\ store'.dirty = FALSE
            \/ disk' = disk /\ store'.dirty = TRUE
            \/ disk' = disk /\ store' = store
<1> DEFINE d == ~Repaired
           no == FALSE
           l == mem.h.entries
<1>1. /\ run # Nothing /\ run.at = "dropLines" /\ Ends
      /\ mem' = mem /\ hand' = hand /\ lost' = lost
      /\ \/ /\ disk' = IF Repaired THEN [disk EXCEPT !.lines = l, !.torn = no] ELSE disk
            /\ store' = [store EXCEPT !.dirty = d]
         \/ disk' = disk /\ store' = store
  BY DEF DropLines, ghosts
<1>2. run.at \in Undoing
  BY <1>1 DEF Undoing
<1>3. run.mark # Nothing /\ run.mark.dirty \in BOOLEAN
  BY <1>1, <1>2, MarkIs
<1>4. d = run.mark.dirty /\ d \in BOOLEAN /\ no \in BOOLEAN
  BY <1>3 DEF Repaired
<1>5. Lines(l)
  BY DEF FilesInv, Mem, Ordered
<1> HIDE DEF d, no, l
<1>6. disk' = [disk EXCEPT !.lines = l, !.torn = no] =>
        /\ Disk(disk') /\ disk'.qrec = disk.qrec /\ disk'.head = disk.head
        /\ disk'.lines = l /\ disk'.torn = no
  BY <1>4, <1>5, OtherTorn
<1>7. store' = [store EXCEPT !.dirty = d] => store'.dirty = d /\ store'.known = store.known /\ Store(store')
  BY <1>4, StoreDirty
<1>8. Disk(disk) /\ Store(store)
  BY DEF FilesInv
<1>9. CASE disk' = disk /\ store' = store
  BY <1>1, <1>3, <1>8, <1>9
<1>10. CASE /\ disk' = IF Repaired THEN [disk EXCEPT !.lines = l, !.torn = no] ELSE disk
            /\ store' = [store EXCEPT !.dirty = d]
  <2>1. CASE Repaired
    BY <1>1, <1>3, <1>4, <1>6, <1>7, <1>8, <1>10, <2>1 DEF d, no, l
  <2>2. CASE ~Repaired
    BY <1>1, <1>3, <1>4, <1>7, <1>8, <1>10, <2>2 DEF d
  <2>3. QED BY <2>1, <2>2
<1>11. QED BY <1>1, <1>9, <1>10

LEMMA FilesDropLines ==
  ASSUME NothingIsNone, FilesInv, DropLines
  PROVE  FilesInv'
<1>1. /\ run # Nothing /\ Ends /\ Disk(disk') /\ Store(store') /\ mem' = mem /\ hand' = hand
  BY DropLinesIs
<1>2. hand' \in Hands /\ Mem(mem')
  BY <1>1 DEF FilesInv
<1>3. QED BY <1>1, <1>2, FilesEnds

LEMMA BegunIs ==
  ASSUME NEW p, Project(p)
  PROVE  Project(Begun(p))
<1> DEFINE d == [x \in DOMAIN p.doc \cup {p.num} |-> IF x = p.num THEN p.doc[SC] ELSE p.doc[x]]
           q == Begun(p)
<1>1. q = [p EXCEPT !.doc = d, !.num = @ + 1]
  BY DEF Begun
<1>2. Fcn(d) /\ TL \in DOMAIN d
  BY DEF Project, Fcn
<1> HIDE DEF d, q
<1>3. Project(q)
  BY <1>1, <1>2 DEF Project
<1>4. QED BY <1>3 DEF q

LEMMA FilesStill ==
  ASSUME FilesInv, UNCHANGED vars
  PROVE  FilesInv'
BY DEF FilesInv, vars, ghosts, session, counts, Initialized, Top

\* The files, the memory and the commit that runs are well formed in the
\* first states,
LEMMA FilesFirst ==
  ASSUME NothingIsNone, Init
  PROVE  FilesInv
<1>1. /\ disk \in {Empty, Crashed} /\ mem = NoState /\ store = NewStore /\ proc = "off"
      /\ run = Nothing /\ todo = <<>> /\ hand = "own"
  BY DEF Init
<1>2. Text(Missing) /\ Lines(<<>>)
  BY DEF Text, Lines, Range
<1>3. Disk(Empty)
  BY <1>2 DEF Empty, Disk, Base, HeadRecord
<1>4. Disk(Crashed)
  <2> DEFINE p == Begun(NewProject)
             b == [seq |-> 0, p |-> NewProject]
             h == [cursor |-> 0, base |-> 0, next |-> 1, p |-> p]
  <2>1. Project(NewProject)
    BY DEF NewProject, Project, Fcn
  <2>2. Project(p)
    BY <2>1, BegunIs
  <2>3. Base(b)
    BY <2>1 DEF Base
  <2> HIDE DEF p
  <2>4. HeadRecord(h)
    BY <2>2 DEF HeadRecord
  <2> DEFINE no == FALSE
             c == Crashed
  <2>5. c = [qrec |-> p, base |-> b, lines |-> <<>>, torn |-> no, head |-> h]
    BY DEF Crashed, p
  <2>6. Text(p) /\ no \in BOOLEAN
    BY <2>2 DEF Text
  <2> HIDE DEF b, h, no, c
  <2>7. Disk(c)
    BY <1>2, <2>3, <2>4, <2>5, <2>6 DEF Disk
  <2>8. QED BY <2>7 DEF c
<1>5. Len(todo) = 0
  BY <1>1
<1>6. QED BY <1>1, <1>3, <1>4, <1>5, NothingYet DEF FilesInv, Hands

\* and every step keeps them so.
LEMMA FilesStep ==
  ASSUME NothingIsNone, FilesInv, [Next]_vars
  PROVE  FilesInv'
<1>1. CASE UNCHANGED vars
  BY <1>1, FilesStill
<1>2. CASE OpenEmpty \/ (\E rec \in BOOLEAN : Open(rec)) \/ Opened \/ Close \/ Crash \/ HandEdit
  BY <1>2, FilesOpenEmpty, FilesOpen, FilesOpened, FilesClose, FilesCrash, FilesHandEdit
<1>3. CASE Request \/ Noticed \/ Dispatch
  BY <1>3, FilesRequest, FilesNoticed, FilesDispatch
<1>4. CASE CommitBase \/ CommitLines \/ CommitProject \/ CommitHead
  BY <1>4, FilesCommitBase, FilesCommitLines, FilesCommitProject, FilesCommitHead
<1>5. CASE CommitFailed \/ KeepUnsaved \/ DropProject \/ DropBase \/ DropLines
  BY <1>5, FilesCommitFailed, FilesKeepUnsaved, FilesDropProject, FilesDropBase, FilesDropLines
<1>6. QED BY <1>1, <1>2, <1>3, <1>4, <1>5 DEF Next

----------------------------------------------------------------------------
(* What the editor saved.                                                  *)

\* Nothing that runs, or only what is to be run, changed.
LEMMA HandSame ==
  ASSUME HandInv, disk'.head = disk.head, disk'.qrec = disk.qrec, store'.known = store.known,
         hand' = hand, lost' = lost, mem' = mem, run' = run, run = Nothing, proc # "off"
  PROVE  HandInv'
BY DEF HandInv, Initialized, Changed

LEMMA HandFirst ==
  ASSUME Init
  PROVE  HandInv
BY DEF Init, HandInv

LEMMA HandOpenEmpty ==
  ASSUME FilesInv, HandInv, OpenEmpty
  PROVE  HandInv'
<1>1. /\ disk' = disk /\ run' = run /\ hand' = hand /\ lost' = lost /\ proc = "off" /\ IsEmptyFolder(disk)
  BY DEF OpenEmpty, Started
<1>2. disk.head = Nothing
  BY <1>1 DEF IsEmptyFolder, Empty
<1>3. run = Nothing
  BY <1>1 DEF FilesInv
<1>4. QED BY <1>1, <1>2, <1>3 DEF HandInv

LEMMA HandOpen ==
  ASSUME NothingIsNone, FilesInv, HandInv, NEW rec, Open(rec)
  PROVE  HandInv'
<1> DEFINE l == Load(disk, rec, dirs)
<1>1. /\ mem' = [p |-> l.p, h |-> l.h, bad |-> ~Usable(disk), recorded |-> {}] /\ mem'.p # Nothing
      /\ run' = Nothing /\ disk' = disk
  BY OpenIs
<1>2. /\ hand' = IF hand = "own" THEN "own" ELSE IF disk.qrec = Broken THEN "bad" ELSE "seen"
      /\ lost' = lost
  BY DEF Open, Started
<1> HIDE DEF l
<1>3. mem'.bad = ~Usable(disk)
  BY <1>1
<1>4. disk.qrec = Broken => mem'.bad
  BY <1>3 DEF Usable
<1>5. QED BY <1>1, <1>2, <1>4 DEF HandInv, Initialized

\* The commit of an open or of the exit.
LEMMA HandRepairs ==
  ASSUME NothingIsNone, FilesInv, HandInv, Opened \/ Close
  PROVE  HandInv'
<1>1. /\ proc # "off" /\ disk' = disk /\ mem' = mem /\ store' = store /\ hand' = hand /\ lost' = lost
      /\ \/ run' = Nothing
         \/ /\ Initialized /\ ~mem.bad
            /\ \E origin \in {"open", "exit"} : run' = Run(Plain, origin, FALSE, FALSE, Nothing)
  <2>1. CASE Opened
    <3>1. /\ proc = "opening" /\ disk' = disk /\ mem' = mem /\ store' = store /\ hand' = hand /\ lost' = lost
          /\ run' = Nothing \/ (~mem.bad /\ run' = Run(Plain, "open", FALSE, FALSE, Nothing))
      BY <2>1 DEF Opened, ghosts
    <3>2. QED BY <3>1 DEF FilesInv
  <2>2. CASE Close
    BY <2>2 DEF Close, Idle, ghosts
  <2>3. QED BY <2>1, <2>2
<1>2. run' # Nothing => run'.origin \in {"open", "exit"} /\ run'.mark = Nothing /\ ~mem.bad
  <2>1. HAVE run' # Nothing
  <2>2. PICK origin \in {"open", "exit"} : run' = Run(Plain, origin, FALSE, FALSE, Nothing)
    BY <1>1, <2>1
  <2>3. run'.origin = origin /\ run'.mark = Nothing
    BY <1>1, <2>1, <2>2, RepairIs DEF FilesInv
  <2>4. QED BY <1>1, <2>1, <2>3
<1>3. QED BY <1>1, <1>2 DEF HandInv, Initialized, Changed

LEMMA HandCrash ==
  ASSUME HandInv, Crash
  PROVE  HandInv'
BY DEF HandInv, Crash

LEMMA HandHandEdit ==
  ASSUME NothingIsNone, FilesInv, HandInv, HandEdit
  PROVE  HandInv'
<1>1. /\ disk' = [qrec |-> disk'.qrec, base |-> disk.base, lines |-> disk.lines,
                  torn |-> disk.torn, head |-> disk.head]
      /\ disk.head # Nothing
      /\ hand' = IF disk'.qrec = Missing THEN "own"
                 ELSE IF disk'.qrec # store.known THEN "unseen"
                 ELSE IF mem.bad THEN "bad" ELSE "seen"
  BY EditIs
<1>2. disk'.head = disk.head
  BY <1>1
<1>3. /\ run' = IF run # Nothing /\ run.at \in {"base", "lines", "project"}
                THEN [run EXCEPT !.forced = TRUE] ELSE run
      /\ mem' = mem /\ store' = store /\ proc' = proc /\ todo' = todo /\ lost' = lost
  BY DEF HandEdit, session
<1>4. run' # Nothing =>
        /\ run # Nothing /\ run'.origin = run.origin /\ run'.mark = run.mark /\ run'.o = run.o
        /\ run'.at \in Writing => run'.forced
  <2>1. CASE run # Nothing /\ run.at \in {"base", "lines", "project"}
    <3>1. Commit1(run, mem)
      BY <2>1 DEF FilesInv
    <3>2. run = [at |-> run.at, o |-> run.o, origin |-> run.origin, forced |-> run.forced,
                 reclaimed |-> run.reclaimed, mark |-> run.mark]
      BY <3>1 DEF Commit1
    <3>3. run' = [at |-> run.at, o |-> run.o, origin |-> run.origin, forced |-> TRUE,
                  reclaimed |-> run.reclaimed, mark |-> run.mark]
      BY <1>3, <2>1, <3>2
    <3>4. QED BY <2>1, <3>3
  <2>2. CASE ~(run # Nothing /\ run.at \in {"base", "lines", "project"})
    BY <1>3, <2>2 DEF Writing
  <2>3. QED BY <2>1, <2>2
<1>5. run' # Nothing /\ run'.mark # Nothing =>
        /\ run'.mark.hand \in {"own", "unseen", "seen"}
        /\ run'.mark.hand = "unseen" => run'.mark.known # run'.mark.qrec
  BY <1>4 DEF HandInv
<1>6. run' # Nothing =>
        /\ run'.origin \in {"open", "exit"} => ~mem.bad
        /\ run'.origin \in {"command", "event"} /\ Top.what = "external" => ~run'.o.bad
  BY <1>4 DEF HandInv
<1>7. Top' = Top
  BY <1>3 DEF Top
<1>8. (hand' = "unseen" => Changed') /\ (hand' = "bad" => mem.bad)
  BY <1>1, <1>3 DEF Changed
<1>9. (proc # "off" => Initialized) /\ ~lost
  BY <1>1 DEF HandInv
<1>10. Initialized' <=> Initialized
  BY <1>3 DEF Initialized
<1>11. QED BY <1>1, <1>2, <1>3, <1>4, <1>5, <1>6, <1>7, <1>8, <1>9, <1>10 DEF HandInv

LEMMA HandRequest ==
  ASSUME NothingIsNone, FilesInv, HandInv, Request
  PROVE  HandInv'
BY HandSame DEF Request, Idle, session, ghosts

LEMMA HandAccept ==
  ASSUME FilesInv, HandInv, NEW outer, Accept(outer), run = Nothing, proc # "off"
  PROVE  HandInv'
<1>1. /\ hand' = (IF hand = "own" THEN hand ELSE "seen")
      /\ disk' = disk /\ mem' = mem /\ proc' = proc /\ run' = run /\ lost' = lost
  BY AcceptIs
<1>2. QED BY <1>1 DEF HandInv, Initialized

\* An outcome becomes the state.
LEMMA HandMerged ==
  ASSUME HandInv, NEW o, Merged(o), mem'.p # Nothing, proc # "off",
         mem'.bad \/ ~(Top.what = "external" /\ o.bad),
         disk'.qrec = disk.qrec, store'.known = store.known, run' = Nothing, lost' = lost,
         disk'.head = Nothing => disk.head = Nothing
  PROVE  HandInv'
<1>1. hand' = IF Top.what = "external" /\ o.bad /\ hand = "seen" THEN "bad"
              ELSE IF hand = "bad" /\ ~mem'.bad THEN "seen" ELSE hand
  BY DEF Merged
<1>2. disk'.head = Nothing => hand' = "own"
  BY <1>1 DEF HandInv
<1>3. (hand' = "unseen" => Changed') /\ (hand' = "bad" => mem'.bad)
  BY <1>1 DEF HandInv, Changed
<1>4. QED BY <1>2, <1>3 DEF HandInv, Initialized

LEMMA HandUnsaved ==
  ASSUME NothingIsNone, FilesInv, HandInv, run = Nothing, todo # <<>>, NEW o \in Outcomes,
         RunUnsaved(o) \/ KeepInMemory(o)
  PROVE  HandInv'
<1>1. /\ Becomes(o) /\ Merged(o) /\ store' \in {store, [store EXCEPT !.dirty = TRUE]}
      /\ disk' = disk /\ run' = run /\ lost' = lost
  BY DEF RunUnsaved, KeepInMemory
<1>2. mem'.p # Nothing /\ mem'.bad = o.bad
  BY <1>1, ReturnedNow, BecomesIs
<1>3. store'.known = store.known
  BY <1>1, StoreDirty
<1>4. ~(Top.what = "external" /\ o.bad) \/ mem'.bad
  BY <1>2
<1>5. QED BY <1>1, <1>2, <1>3, <1>4, TopIs, HandMerged

LEMMA HandBegin ==
  ASSUME NothingIsNone, "aside" \notin Faults, FilesInv, HandInv, run = Nothing, todo # <<>>,
         NEW o \in Outcomes, Begin(o)
  PROVE  HandInv'
<1>1. /\ run'.at = "base" /\ run'.o = o /\ run'.origin = Origin /\ run'.forced = Forced
      /\ run'.mark = (IF Origin = "command" /\ ~Reclaimed(o) THEN Mark ELSE Nothing)
      /\ store'.known = IF Reclaimed(o) THEN Missing ELSE store.known
      /\ mem' = mem /\ proc' = proc /\ todo' = todo /\ lost' = lost /\ Aside(o) /\ Writes(o)
      /\ ~MustMerge(o)
  BY BeginIs
<1>2. /\ disk' = [qrec |-> disk'.qrec, base |-> disk.base, lines |-> disk.lines,
                  torn |-> disk.torn, head |-> disk.head]
      /\ ~mem.bad => disk' = disk /\ hand' = hand
      /\ mem.bad => hand' = IF hand = "own" THEN "own" ELSE "seen"
  BY <1>1, AsideIs
<1>3. disk'.head = disk.head
  BY <1>2
<1>4. proc # "off" /\ (Top.what = "external" => ~o.bad)
  BY <1>1, TopIs, ReturnedNow DEF MergeReturned
<1>5. disk.head = Nothing => hand' = "own"
  BY <1>2 DEF HandInv
<1>6. hand' \in {"own", "seen"} \/ (hand' = "unseen" /\ hand = "unseen" /\ ~mem.bad /\ disk' = disk)
  BY <1>2, <1>4, NowIs DEF HandInv, Hands
<1>7. hand' = "unseen" => Changed' /\ Changed /\ Initialized
  <2>1. HAVE hand' = "unseen"
  <2>2. disk' = disk /\ hand = "unseen" /\ ~mem.bad
    BY <1>6, <2>1
  <2>3. store'.known = store.known
    BY <1>1, <2>2 DEF Reclaimed
  <2>4. Changed /\ Initialized
    BY <1>4, <2>2 DEF HandInv
  <2>5. QED BY <2>2, <2>3, <2>4 DEF Changed
<1>8. ~Forced => hand' \in {"own", "seen"}
  BY <1>1, <1>6, <1>7 DEF MustMerge
<1>9. Mark.qrec = disk'.qrec /\ Mark.known = store'.known /\ Mark.hand = hand'
  BY DEF Mark
<1>10. run'.mark # Nothing =>
         /\ run'.mark.hand \in {"own", "unseen", "seen"}
         /\ run'.mark.hand = "unseen" => run'.mark.known # run'.mark.qrec
         /\ disk'.head = Nothing => run'.mark.hand = "own"
  <2>1. HAVE run'.mark # Nothing
  <2>2. run'.mark = Mark
    BY <1>1, <2>1
  <2>3. QED BY <1>3, <1>5, <1>6, <1>7, <1>9, <2>2 DEF Changed
<1>11. Origin \in {"command", "event"} /\ Top' = Top
  BY <1>1 DEF Origin, Top
<1>12. disk.head # Nothing => Initialized
  BY <1>4 DEF HandInv
<1>13. Initialized' <=> Initialized
  BY <1>1 DEF Initialized
<1>14. hand' # "bad" /\ ~lost
  BY <1>6 DEF HandInv
<1>15. QED BY <1>1, <1>3, <1>4, <1>5, <1>7, <1>8, <1>10, <1>11, <1>12, <1>13, <1>14 DEF HandInv

LEMMA HandDispatch ==
  ASSUME NothingIsNone, "aside" \notin Faults, FilesInv, HandInv, Dispatch
  PROVE  HandInv'
<1>1. run = Nothing /\ todo # <<>> /\ proc # "off"
  BY TopIs DEF Dispatch
<1>2. CASE Refuse
  BY <1>1, <1>2, HandSame DEF Refuse, session, ghosts
<1>3. ASSUME NEW o \in Outcomes, MergeFirst(o) PROVE HandInv'
  <2> DEFINE outer == [todo EXCEPT ![Len(todo)].attempts = @ + 1]
  <2>1. Accept(outer)
    BY <1>3 DEF MergeFirst
  <2> HIDE DEF outer
  <2>2. QED BY <1>1, <2>1, HandAccept
<1>4. ASSUME NEW o \in Outcomes, RunUnsaved(o) \/ KeepInMemory(o) PROVE HandInv'
  BY <1>1, <1>4, HandUnsaved
<1>5. ASSUME NEW o \in Outcomes, OnlyARestoreSaves(o) PROVE HandInv'
  BY <1>1, <1>5, HandSame DEF OnlyARestoreSaves, session, ghosts
<1>6. ASSUME NEW o \in Outcomes, Begin(o) PROVE HandInv'
  BY <1>1, <1>6, HandBegin
<1>7. QED BY <1>2, <1>3, <1>4, <1>5, <1>6 DEF Dispatch

\* A step of the commit that leaves qrec.json alone, or goes on after the check.
LEMMA HandGoes ==
  ASSUME NothingIsNone, FilesInv, HandInv, run # Nothing, NEW at, Goes(at),
         at \in Writing \cup {"head", "failed", "keep"} \cup Undoing,
         at \in Undoing => run.mark # Nothing,
         mem' = mem, proc' = proc, todo' = todo, disk'.head = disk.head, ~lost',
         disk.head = Nothing => hand' = "own",
         (hand' = "unseen" => Changed') /\ (hand' = "bad" => mem.bad),
         at \in Writing => run.at \in Writing /\ hand' = hand
  PROVE  HandInv'
<1>1. Commit1(run, mem) /\ proc # "off"
  BY DEF FilesInv
<1>2. /\ run'.at = at /\ run'.o = run.o /\ run'.origin = run.origin
      /\ run'.forced = run.forced /\ run'.mark = run.mark
  BY <1>1, GoesIs
<1>3. Top' = Top /\ (Initialized' <=> Initialized)
  BY DEF Top, Initialized
<1>4. run.mark # Nothing =>
        /\ run'.mark.hand \in {"own", "unseen", "seen"}
        /\ run'.mark.hand = "unseen" => run'.mark.known # run'.mark.qrec
        /\ disk'.head = Nothing => run'.mark.hand = "own"
  BY <1>2 DEF HandInv
<1>5. /\ run'.origin \in {"open", "exit"} => ~mem'.bad
      /\ run'.origin \in {"command", "event"} /\ Top'.what = "external" => ~run'.o.bad
  BY <1>2, <1>3 DEF HandInv
<1>6. run'.at \in Writing /\ ~run'.forced /\ run'.origin \in {"command", "event"}
        => hand' \in {"own", "seen"}
  BY <1>2 DEF HandInv
<1>7. (disk'.head # Nothing => Initialized') /\ ~lost' /\ (disk'.head = Nothing => hand' = "own")
  BY <1>1, <1>3 DEF HandInv
<1>8. QED BY <1>2, <1>4, <1>5, <1>6, <1>7 DEF HandInv

LEMMA HandCommit ==
  ASSUME NothingIsNone, FilesInv, HandInv, CommitBase \/ CommitLines \/ CommitFailed \/ DropBase
  PROVE  HandInv'
<1>1. /\ run # Nothing
      /\ \E at \in {"lines", "project", "failed", "dropProject", "keep", "dropLines"} :
           /\ Goes(at) /\ (at \in Undoing => run.mark # Nothing)
           /\ at \in Writing => run.at \in Writing
      /\ disk'.qrec = disk.qrec /\ disk'.head = disk.head /\ store'.known = store.known
      /\ mem' = mem /\ proc' = proc /\ todo' = todo /\ hand' = hand /\ lost' = lost
  <2>1. CASE CommitBase
    BY <2>1, CommitBaseIs DEF Undoing, Writing
  <2>2. CASE CommitLines
    BY <2>2, CommitLinesIs DEF Undoing, Writing
  <2>3. CASE CommitFailed
    BY <2>3, CommitFailedIs DEF Undoing, Writing
  <2>4. CASE DropBase
    BY <2>4, DropBaseIs DEF Undoing, Writing
  <2>5. QED BY <2>1, <2>2, <2>3, <2>4
<1>2. PICK at \in {"lines", "project", "failed", "dropProject", "keep", "dropLines"} :
           /\ Goes(at) /\ (at \in Undoing => run.mark # Nothing)
           /\ at \in Writing => run.at \in Writing
  BY <1>1
<1>3. at \in Writing \cup {"head", "failed", "keep"} \cup Undoing
  BY DEF Writing, Undoing
<1>4. proc # "off"
  BY <1>1 DEF FilesInv
<1>5. /\ disk.head = Nothing => hand' = "own"
      /\ (hand' = "unseen" => Changed') /\ (hand' = "bad" => mem.bad) /\ ~lost'
  BY <1>1, <1>4 DEF HandInv, Changed
<1>6. QED BY <1>1, <1>2, <1>3, <1>5, HandGoes

LEMMA HandCommitProject ==
  ASSUME NothingIsNone, FilesInv, HandInv, CommitProject
  PROVE  HandInv'
<1>1. /\ run # Nothing /\ run.at = "project"
      /\ mem' = mem /\ proc' = proc /\ todo' = todo
      /\ SameBut(disk, disk')
      /\ \/ /\ Goes("head") \/ Goes("failed")
            /\ Overwrite(run.o.p)
         \/ Goes("failed") /\ disk' = disk /\ hand' = hand /\ lost' = lost /\ store' = store
  BY CommitProjectIs
<1>2. disk'.head = disk.head /\ proc # "off"
  BY <1>1 DEF SameBut, FilesInv
<1>3. "head" \notin Undoing /\ "head" \notin Writing /\ "failed" \notin Undoing /\ "failed" \notin Writing
      /\ run.at \in Writing
  BY <1>1 DEF Undoing, Writing
<1>4. Overwrite(run.o.p) => hand' = "own" /\ ~lost'
  BY <1>1, <1>3 DEF Overwrite, HandInv
<1>5. ~lost' /\ (hand' = "own" \/ (hand' = hand /\ disk' = disk /\ store' = store))
  BY <1>1, <1>4 DEF HandInv
<1>6. /\ disk.head = Nothing => hand' = "own"
      /\ (hand' = "unseen" => Changed') /\ (hand' = "bad" => mem.bad)
  BY <1>2, <1>5 DEF HandInv, Changed
<1>7. Goes("head") \/ Goes("failed")
  BY <1>1
<1>8. QED BY <1>1, <1>2, <1>3, <1>5, <1>6, <1>7, HandGoes

\* A commit of an open or of the exit leaves the state as bad as it was not.
LEMMA HandEnds ==
  ASSUME NothingIsNone, FilesInv, HandInv, run # Nothing, mem'.p # Nothing, run' = Nothing,
         IF run.origin \in {"command", "event"} THEN Merged(run.o) ELSE hand' = hand,
         mem'.bad = run.o.bad \/ mem'.bad = (run.o.bad /\ ~run.reclaimed),
         disk'.qrec = disk.qrec, store'.known = store.known, lost' = lost,
         disk'.head = Nothing => disk.head = Nothing
  PROVE  HandInv'
<1>1. Commit1(run, mem) /\ proc # "off"
  BY DEF FilesInv
<1>2. CASE run.origin \in {"command", "event"}
  <2>1. ~(Top.what = "external" /\ run.o.bad)
    BY <1>2 DEF HandInv
  <2>2. QED BY <1>1, <1>2, <2>1, HandMerged
<1>3. CASE run.origin \notin {"command", "event"}
  <2>1. run.origin \in {"open", "exit"}
    BY <1>1, <1>3 DEF Commit1
  <2>2. ~mem.bad /\ hand' = hand
    BY <1>3, <2>1 DEF HandInv
  <2>3. hand' # "bad" /\ (hand' = "unseen" => Changed') /\ ~lost /\ (disk'.head = Nothing => hand' = "own")
    BY <1>1, <2>2 DEF HandInv, Changed
  <2>4. QED BY <2>3 DEF HandInv, Initialized
<1>4. QED BY <1>2, <1>3

LEMMA HandCommitHead ==
  ASSUME NothingIsNone, "headSync" \notin Faults, FilesInv, HandInv, CommitHead
  PROVE  HandInv'
<1>1. /\ run # Nothing /\ run.at = "head" /\ lost' = lost
      /\ disk'.qrec = disk.qrec /\ store'.known = store.known
      /\ \/ /\ Ends /\ disk'.head = HeadOf(run.o)
            /\ mem'.p # Nothing
            /\ mem'.bad = (run.o.bad /\ ~run.reclaimed)
            /\ IF run.origin \in {"command", "event"} THEN Merged(run.o) ELSE hand' = hand
         \/ /\ Goes("failed") /\ mem' = mem /\ store' = store /\ proc' = proc /\ todo' = todo
            /\ hand' = hand /\ disk' = disk
  BY CommitHeadIs
<1>2. HeadOf(run.o) # Nothing
  BY <1>1, NowIs, HeadOfIs DEF Outcome
<1>3. CASE /\ Ends /\ disk'.head = HeadOf(run.o)
           /\ mem'.p # Nothing
           /\ mem'.bad = (run.o.bad /\ ~run.reclaimed)
           /\ IF run.origin \in {"command", "event"} THEN Merged(run.o) ELSE hand' = hand
  <2>1. run' = Nothing
    BY <1>3 DEF Ends
  <2>2. QED BY <1>1, <1>2, <1>3, <2>1, HandEnds
<1>4. CASE /\ Goes("failed") /\ mem' = mem /\ store' = store /\ proc' = proc /\ todo' = todo
           /\ hand' = hand /\ disk' = disk
  <2>1. "failed" \notin Undoing /\ "failed" \notin Writing /\ proc # "off"
    BY <1>1 DEF Undoing, Writing, FilesInv
  <2>2. /\ disk.head = Nothing => hand' = "own"
        /\ (hand' = "unseen" => Changed') /\ (hand' = "bad" => mem.bad) /\ ~lost'
    BY <1>1, <1>4, <2>1 DEF HandInv, Changed
  <2>3. QED BY <1>1, <1>4, <2>1, <2>2, HandGoes
<1>5. QED BY <1>1, <1>3, <1>4

LEMMA HandKeepUnsaved ==
  ASSUME NothingIsNone, FilesInv, HandInv, KeepUnsaved
  PROVE  HandInv'
<1>1. /\ run # Nothing /\ Ends /\ mem'.p # Nothing /\ mem'.bad = run.o.bad
      /\ IF run.origin \in {"command", "event"} THEN Merged(run.o) ELSE hand' = hand
      /\ disk' = disk /\ store' = store /\ lost' = lost
  BY KeepUnsavedIs
<1>2. run' = Nothing
  BY <1>1 DEF Ends
<1>3. QED BY <1>1, <1>2, HandEnds

LEMMA HandDropProject ==
  ASSUME NothingIsNone, FilesInv, HandInv, DropProject
  PROVE  HandInv'
<1>1. /\ run # Nothing /\ run.mark # Nothing /\ SameBut(disk, disk')
      /\ mem' = mem /\ proc' = proc /\ todo' = todo /\ lost' = lost
      /\ \/ /\ Goes("dropBase") /\ disk'.qrec = run.mark.qrec /\ hand' = run.mark.hand
            /\ store'.known = run.mark.known
         \/ /\ Goes("keep") /\ store' = store
            /\ \/ disk' = disk /\ hand' = hand
               \/ /\ disk'.qrec = run.mark.qrec
                  /\ hand' = IF run.mark.hand = "unseen" /\ run.mark.qrec = store.known
                             THEN "seen" ELSE run.mark.hand
  BY DropProjectIs
<1>2. disk'.head = disk.head /\ proc # "off"
  BY <1>1 DEF SameBut, FilesInv
<1>3. /\ run.mark.hand \in {"own", "unseen", "seen"}
      /\ run.mark.hand = "unseen" => run.mark.known # run.mark.qrec
      /\ disk.head = Nothing => run.mark.hand = "own"
  BY <1>1 DEF HandInv
<1>4. /\ disk.head = Nothing => hand' = "own"
      /\ (hand' = "unseen" => Changed') /\ (hand' = "bad" => mem.bad) /\ ~lost'
  BY <1>1, <1>2, <1>3 DEF HandInv, Changed
<1>5. \E at \in {"dropBase", "keep"} : Goes(at)
  BY <1>1
<1>6. PICK at \in {"dropBase", "keep"} : Goes(at)
  BY <1>5
<1>7. at \in Writing \cup {"head", "failed", "keep"} \cup Undoing /\ at \notin Writing
  BY DEF Writing, Undoing
<1>8. QED BY <1>1, <1>2, <1>4, <1>6, <1>7, HandGoes

LEMMA HandDropLines ==
  ASSUME NothingIsNone, FilesInv, HandInv, DropLines
  PROVE  HandInv'
<1>1. /\ run # Nothing /\ Ends
      /\ disk'.qrec = disk.qrec /\ disk'.head = disk.head /\ store'.known = store.known
      /\ mem' = mem /\ hand' = hand /\ lost' = lost
  BY DropLinesIs
<1>2. run' = Nothing /\ proc # "off"
  BY <1>1 DEF Ends, FilesInv
<1>3. QED BY <1>1, <1>2 DEF HandInv, Initialized, Changed

LEMMA HandStill ==
  ASSUME HandInv, UNCHANGED vars
  PROVE  HandInv'
BY DEF HandInv, vars, ghosts, session, counts, Initialized, Top, Changed

LEMMA HandStep ==
  ASSUME NothingIsNone, "aside" \notin Faults, "headSync" \notin Faults,
         FilesInv, HandInv, [Next]_vars
  PROVE  HandInv'
<1>1. CASE UNCHANGED vars
  BY <1>1, HandStill
<1>2. CASE OpenEmpty \/ (\E rec \in BOOLEAN : Open(rec)) \/ Opened \/ Close \/ Crash \/ HandEdit
  BY <1>2, HandOpenEmpty, HandOpen, HandRepairs, HandCrash, HandHandEdit
<1>3. CASE Request \/ Dispatch
  BY <1>3, HandRequest, HandDispatch
<1>4. CASE Noticed
  BY <1>4, HandAccept DEF Noticed, Idle
<1>5. CASE CommitBase \/ CommitLines \/ CommitFailed \/ DropBase
  BY <1>5, HandCommit
<1>6. CASE CommitProject \/ CommitHead \/ KeepUnsaved \/ DropProject \/ DropLines
  BY <1>6, HandCommitProject, HandCommitHead, HandKeepUnsaved, HandDropProject, HandDropLines
<1>7. QED BY <1>1, <1>2, <1>3, <1>4, <1>5, <1>6 DEF Next

\* The files, the memory and the commit that runs stay well formed, whatever
\* fails, crashes or is edited (store/mod.rs, session/effects.rs).
THEOREM FilesHold ==
  ASSUME NothingIsNone
  PROVE  Spec => []FilesInv
<1>1. Init => FilesInv
  BY FilesFirst
<1>2. FilesInv /\ [Next]_vars => FilesInv'
  BY FilesStep
<1>3. QED BY <1>1, <1>2, PTL DEF Spec

\* No command or event replaces a qrec.json edited by hand that the host has
\* not merged or put aside (session/effects.rs), when a bad file can be put
\* aside and the directory of the commit record can be synced.
THEOREM EditsKept ==
  ASSUME NothingIsNone, "aside" \notin Faults, "headSync" \notin Faults
  PROVE  Spec => []EditsAreKept
<1>1. Init => FilesInv /\ HandInv
  BY FilesFirst, HandFirst
<1>2. (FilesInv /\ HandInv) /\ [Next]_vars => (FilesInv /\ HandInv)'
  BY FilesStep, HandStep
<1>3. HandInv => EditsAreKept
  BY DEF HandInv, EditsAreKept
<1>4. QED BY <1>1, <1>2, <1>3, PTL DEF Spec

----------------------------------------------------------------------------
(* What a store that is not dirty has in its files.                        *)

LEMMA MoveWrites ==
  ASSUME Mem(mem), NEW pos
  PROVE  Writes([OfMove(pos) EXCEPT !.bad = FALSE])
<1> DEFINE m == Moved(mem.h, mem.p, pos)
           o == OfMove(pos)
           r == [o EXCEPT !.bad = FALSE]
<1>1. o = [Plain EXCEPT !.p = m.p, !.h = m.h, !.op = "cursor"]
  BY DEF OfMove
<1> HIDE DEF m, o
<1>2. o = [p |-> m.p, h |-> m.h, bad |-> mem.bad, op |-> "cursor", base |-> Nothing,
           write |-> FALSE, made |-> {}, gone |-> {}]
  BY <1>1, Zenon DEF Plain
<1>3. r.op = "cursor"
  BY <1>2
<1> HIDE DEF r
<1>4. Writes(r)
  BY <1>3 DEF Writes
<1>5. QED BY <1>4 DEF r, o

\* The first command has no history; what makes a bad state good is written.
LEMMA OutcomesWrite ==
  ASSUME NothingIsNone, FilesInv, todo # <<>>, NEW o \in Outcomes
  PROVE  /\ ~Initialized => o.op = "none"
         /\ Initialized /\ Top.what # "external" /\ ~Writes(o) => o.bad = mem.bad
<1>0. Mem(mem)
  BY DEF FilesInv
<1>1. CASE Top.what = "external"
  BY <1>1, TopIs
<1>2. CASE Top.what = "takeEnds"
  <2>1. PICK t \in InFlight, placed \in BOOLEAN : o = TakeEnd(t, placed)
    BY <1>2 DEF Outcomes, TakeEnds
  <2>2. Initialized
    BY <2>1 DEF InFlight
  <2>3. o.bad = mem.bad
    BY <2>1 DEF TakeEnd, OfCommit, Plain
  <2>4. QED BY <2>2, <2>3
<1>3. CASE Top.what = "command"
  <2>1. o \in Commands
    BY <1>3 DEF Outcomes
  <2>2. CASE ~Initialized
    <3>1. o = [Plain EXCEPT !.p = NewProject, !.h = NewHistory, !.bad = FALSE]
      BY <2>1, <2>2 DEF Commands, Inits
    <3> HIDE DEF NewProject, NewHistory
    <3>2. o.op = "none"
      BY <3>1 DEF Plain
    <3>3. QED BY <2>2, <3>2
  <2>3. CASE Initialized
    <3>1. o \in Starts \cup Restores \cup Edits \cup Moves \cup Clears \cup Purges
      BY <2>1, <2>3 DEF Commands
    <3>2. CASE o \in Restores
      <4>1. PICK pos \in {i \in 0 .. Len(mem.h.entries) : CanMove(mem.h, mem.p, i)} :
              o = [OfMove(pos) EXCEPT !.bad = FALSE]
        BY <3>2 DEF Restores
      <4>2. Writes(o)
        BY <1>0, <4>1, MoveWrites
      <4>3. QED BY <2>3, <4>2
    <3>3. CASE o \in Moves
      <4>1. PICK pos \in {i \in 0 .. Len(mem.h.entries) : i # CursorPosition(mem.h) /\ CanMove(mem.h, mem.p, i)} :
              o = OfMove(pos)
        BY <3>3 DEF Moves
      <4>2. QED BY <1>0, <2>3, <4>1, MovesReturned
    <3>4. CASE o \in Edits
      BY <2>3, <3>4 DEF Edits, OfCommit, Plain
    <3>5. CASE o \in Clears
      BY <2>3, <3>5 DEF Clears, Plain
    <3>6. CASE o \in Purges
      BY <2>3, <3>6 DEF Purges, Plain
    <3>7. CASE o \in Starts
      BY <2>3, <3>7 DEF Starts, Plain
    <3>8. QED BY <3>1, <3>2, <3>3, <3>4, <3>5, <3>6, <3>7
  <2>4. QED BY <2>2, <2>3
<1>4. QED BY <1>1, <1>2, <1>3, TopIs

\* Between commits: a project, or nothing at all.
Resting ==
    /\ ~Initialized => disk.lines = <<>> /\ ~disk.torn
    /\ Initialized /\ ~store.dirty =>
         /\ disk.lines = mem.h.entries /\ ~disk.torn /\ disk.head = HeadOf(mem)
         /\ hand = "own" /\ disk.qrec # Missing => OwnIs(disk.qrec, store.known, todo)

LEMMA CleanRests ==
  ASSUME CleanInv, run = Nothing, proc # "off"
  PROVE  Resting
BY DEF CleanInv, Resting

LEMMA RestsClean ==
  ASSUME run' = Nothing, proc' # "off" => Resting'
  PROVE  CleanInv'
BY DEF CleanInv, Resting

LEMMA CleanFirst ==
  ASSUME Init
  PROVE  CleanInv
BY DEF Init, CleanInv

LEMMA CleanOpenEmpty ==
  ASSUME NothingIsNone, FilesInv, OpenEmpty
  PROVE  CleanInv'
<1>1. disk' = disk /\ run' = run /\ mem' = NoState /\ proc = "off" /\ IsEmptyFolder(disk)
  BY DEF OpenEmpty, Started
<1>2. run' = Nothing /\ ~Initialized' /\ disk.lines = <<>> /\ ~disk.torn
  BY <1>1 DEF FilesInv, Initialized, NoState, IsEmptyFolder, Empty
<1>3. QED BY <1>1, <1>2, RestsClean DEF Resting

\* An open finds its files repaired, or is to repair them.
LEMMA CleanOpen ==
  ASSUME NothingIsNone, FilesInv, NEW rec, Open(rec)
  PROVE  CleanInv'
<1> DEFINE l == Load(disk, rec, dirs)
<1>1. /\ LoadedIs(disk, l)
      /\ mem' = [p |-> l.p, h |-> l.h, bad |-> ~Usable(disk), recorded |-> {}] /\ mem'.p # Nothing
      /\ store'.dirty = (l.repair \/ l.base # Nothing) /\ store'.known = disk.qrec
      /\ todo' = (IF Usable(disk) /\ disk.qrec # l.p
                  THEN <<Item("external", disk.qrec)>> ELSE <<>>)
      /\ run' = Nothing /\ disk' = disk
  BY OpenIs
<1> HIDE DEF l
<1>2. mem'.p = l.p /\ mem'.h = l.h /\ mem'.bad = ~Usable(disk)
  BY <1>1
<1>3. ~store'.dirty => disk'.lines = mem'.h.entries /\ ~disk'.torn /\ disk'.head = HeadOf(mem')
  BY <1>1, <1>2 DEF LoadedIs, HeadOf
<1>4. OwnIs(disk.qrec, store.known, todo)'
  <2>1. CASE Usable(disk) /\ disk.qrec # l.p
    <3>1. todo' = <<Item("external", disk.qrec)>>
      BY <1>1, <2>1
    <3>2. Len(todo') = 1 /\ todo'[1] = Item("external", disk.qrec)
      BY <3>1
    <3>3. todo'[1].what = "external" /\ todo'[1].file = disk.qrec
      BY <3>2 DEF Item
    <3>4. QED BY <1>1, <3>2, <3>3 DEF OwnIs
  <2>2. CASE Usable(disk) /\ disk.qrec = l.p
    BY <1>1, <1>2, <2>2 DEF OwnIs
  <2>3. CASE ~Usable(disk)
    BY <1>1, <1>2, <2>3 DEF OwnIs
  <2>4. QED BY <2>1, <2>2, <2>3
<1>5. Initialized'
  BY <1>1 DEF Initialized
<1>6. QED BY <1>1, <1>3, <1>4, <1>5, RestsClean DEF Resting

LEMMA CleanRepairs ==
  ASSUME NothingIsNone, FilesInv, CleanInv, Opened \/ Close
  PROVE  CleanInv'
<1>1. /\ proc # "off" /\ run = Nothing /\ disk' = disk /\ mem' = mem /\ store' = store /\ hand' = hand
      /\ todo' = todo
      /\ \/ run' = Nothing
         \/ /\ store.dirty
            /\ \E origin \in {"open", "exit"} : run' = Run(Plain, origin, FALSE, FALSE, Nothing)
  <2>1. CASE Opened
    <3>1. /\ proc = "opening" /\ run = Nothing
          /\ disk' = disk /\ mem' = mem /\ store' = store /\ hand' = hand /\ todo' = todo
          /\ run' = Nothing \/ (store.dirty /\ run' = Run(Plain, "open", FALSE, FALSE, Nothing))
      BY <2>1 DEF Opened, ghosts
    <3>2. QED BY <3>1
  <2>2. CASE Close
    BY <2>2 DEF Close, Idle, ghosts
  <2>3. QED BY <2>1, <2>2
<1>2. Resting /\ (Initialized' <=> Initialized)
  BY <1>1, CleanRests DEF Initialized
<1>3. CASE run' = Nothing
  <2>1. Resting'
    BY <1>1, <1>2 DEF Resting, OwnIs, HeadOf
  <2>2. QED BY <1>3, <2>1, RestsClean
<1>4. CASE run' # Nothing
  <2>1. PICK origin \in {"open", "exit"} : run' = Run(Plain, origin, FALSE, FALSE, Nothing)
    BY <1>1, <1>4
  <2>2. Initialized
    <3>1. CASE Opened
      BY <3>1 DEF Opened, FilesInv
    <3>2. CASE Close
      BY <1>4, <3>2 DEF Close
    <3>3. QED BY <3>1, <3>2
  <2>3. run'.at = "base" /\ run'.mark = Nothing
    BY <1>1, <2>1, <2>2, RepairIs DEF FilesInv
  <2>4. store'.dirty
    BY <1>1, <1>4
  <2>5. QED BY <1>2, <1>4, <2>2, <2>3, <2>4 DEF CleanInv, Writing, Undoing
<1>5. QED BY <1>3, <1>4

LEMMA CleanCrash ==
  ASSUME Crash
  PROVE  CleanInv'
BY DEF CleanInv, Crash

LEMMA CleanHandEdit ==
  ASSUME NothingIsNone, FilesInv, CleanInv, HandEdit
  PROVE  CleanInv'
<1>1. /\ disk' = [qrec |-> disk'.qrec, base |-> disk.base, lines |-> disk.lines,
                  torn |-> disk.torn, head |-> disk.head]
      /\ hand' = IF disk'.qrec = Missing THEN "own"
                 ELSE IF disk'.qrec # store.known THEN "unseen"
                 ELSE IF mem.bad THEN "bad" ELSE "seen"
  BY EditIs
<1>2. disk'.head = disk.head /\ disk'.lines = disk.lines /\ disk'.torn = disk.torn
  BY <1>1
<1>3. hand' = "own" => disk'.qrec = Missing
  BY <1>1
<1>4. /\ run' = IF run # Nothing /\ run.at \in {"base", "lines", "project"}
                THEN [run EXCEPT !.forced = TRUE] ELSE run
      /\ mem' = mem /\ store' = store /\ proc' = proc /\ todo' = todo
  BY DEF HandEdit, session
<1>5. /\ run' # Nothing <=> run # Nothing
      /\ run # Nothing => run'.at = run.at /\ run'.o = run.o /\ run'.mark = run.mark
  <2>1. CASE run # Nothing /\ run.at \in {"base", "lines", "project"}
    <3>1. Commit1(run, mem)
      BY <2>1 DEF FilesInv
    <3>2. run = [at |-> run.at, o |-> run.o, origin |-> run.origin, forced |-> run.forced,
                 reclaimed |-> run.reclaimed, mark |-> run.mark]
      BY <3>1 DEF Commit1
    <3>3. run' = [at |-> run.at, o |-> run.o, origin |-> run.origin, forced |-> TRUE,
                  reclaimed |-> run.reclaimed, mark |-> run.mark]
      BY <1>4, <2>1, <3>2
    <3>4. run' # Nothing
      <4>1. Fcn(run')
        BY <3>3 DEF Fcn
      <4>2. QED BY <4>1 DEF NothingIsNone
    <3>5. QED BY <2>1, <3>3, <3>4
  <2>2. CASE ~(run # Nothing /\ run.at \in {"base", "lines", "project"})
    BY <1>4, <2>2
  <2>3. QED BY <2>1, <2>2
<1>6. (Initialized' <=> Initialized) /\ HeadOf(mem)' = HeadOf(mem)
  BY <1>4 DEF Initialized, HeadOf
<1>7. proc # "off" /\ run = Nothing => Resting'
  <2>1. HAVE proc # "off" /\ run = Nothing
  <2>2. Resting
    BY <2>1, CleanRests
  <2>3. QED BY <1>2, <1>3, <1>4, <1>6, <2>2 DEF Resting
<1>8. CASE run = Nothing
  <2>1. run' = Nothing
    BY <1>5, <1>8
  <2>2. QED BY <1>4, <1>7, <1>8, <2>1, RestsClean
<1>9. CASE run # Nothing
  BY <1>2, <1>3, <1>4, <1>5, <1>6, <1>9 DEF CleanInv
<1>10. QED BY <1>8, <1>9

LEMMA CleanRequest ==
  ASSUME CleanInv, Request
  PROVE  CleanInv'
<1>1. PICK what \in {"command", "takeEnds"} : todo' = <<Item(what, Nothing)>>
  BY DEF Request
<1>2. /\ proc = "on" /\ run = Nothing /\ todo = <<>>
      /\ disk' = disk /\ mem' = mem /\ store' = store /\ proc' = proc /\ run' = run /\ hand' = hand
  BY DEF Request, Idle, session, ghosts
<1>3. Resting
  BY <1>2, CleanRests
<1>4. Len(todo') = 1 /\ todo'[1].what = what
  BY <1>1 DEF Item
<1>5. Len(todo) = 0
  BY <1>2
<1>6. OwnIs(disk.qrec, store.known, todo) => OwnIs(disk.qrec, store.known, todo)'
  BY <1>2, <1>4, <1>5 DEF OwnIs
<1>7. Resting'
  BY <1>2, <1>3, <1>6 DEF Resting, Initialized, HeadOf
<1>8. QED BY <1>2, <1>7, RestsClean

\* Only an edit is merged: Qrec knows what it wrote itself.
LEMMA CleanAccept ==
  ASSUME FilesInv, CleanInv, NEW outer, Accept(outer), Changed, run = Nothing, proc # "off"
  PROVE  CleanInv'
<1>1. /\ hand' = (IF hand = "own" THEN hand ELSE "seen") /\ store'.dirty = store.dirty
      /\ disk' = disk /\ mem' = mem /\ proc' = proc /\ run' = run
  BY AcceptIs
<1>2. Resting
  BY CleanRests
<1>3. Initialized /\ ~store.dirty /\ hand' = "own" /\ disk.qrec # Missing => FALSE
  BY <1>1, <1>2 DEF Resting, OwnIs, Changed
<1>4. Resting'
  BY <1>1, <1>2, <1>3 DEF Resting, Initialized, HeadOf
<1>5. QED BY <1>1, <1>4, RestsClean

\* The innermost goes, and what the files hold stays.
LEMMA CleanPops ==
  ASSUME FilesInv, CleanInv, run = Nothing, todo # <<>>, Top.what # "external", Pop,
         UNCHANGED <<disk, mem, store, proc, run, hand>>
  PROVE  CleanInv'
<1>1. Resting /\ Len(todo) = 1 /\ Top = todo[1]
  BY TopIs, CleanRests DEF Top
<1>2. todo' = <<>>
  BY <1>1, PopFacts
<1>3. OwnIs(disk.qrec, store.known, todo) => OwnIs(disk.qrec, store.known, todo)'
  BY <1>1, <1>2 DEF OwnIs
<1>4. Resting'
  BY <1>1, <1>3 DEF Resting, Initialized, HeadOf
<1>5. QED BY <1>4, RestsClean

LEMMA CleanUnsaved ==
  ASSUME NothingIsNone, FilesInv, CleanInv, run = Nothing, todo # <<>>, NEW o \in Outcomes,
         RunUnsaved(o)
  PROVE  CleanInv'
<1>1. /\ ~Writes(o) /\ Becomes(o) /\ Merged(o) /\ Pop
      /\ disk' = disk /\ store' = store /\ run' = run
  BY DEF RunUnsaved
<1>2. mem'.p = o.p /\ mem'.h = o.h /\ mem'.bad = o.bad /\ mem'.p # Nothing
  BY <1>1, ReturnedNow, BecomesIs
<1>3. o.p = mem.p /\ o.h = mem.h
  BY <1>1, ReturnedNow DEF Writes, Returned
<1>4. Initialized /\ Initialized'
  BY <1>2, <1>3 DEF Initialized
<1>5. Resting
  BY TopIs, CleanRests
<1>6. hand' = "own" => hand = "own"
  BY <1>1 DEF Merged
<1>7. HeadOf(mem') = HeadOf(mem)
  BY <1>2, <1>3 DEF HeadOf
<1>8. ASSUME OwnIs(disk.qrec, store.known, todo) PROVE OwnIs(disk.qrec, store.known, todo)'
  <2>1. CASE disk.qrec = mem.p
    BY <1>1, <1>2, <1>3, <1>8, <2>1 DEF OwnIs
  <2>2. CASE disk.qrec # mem.p
    <3>1. /\ Len(todo) = 1
          /\ \/ todo[1].what = "external" /\ todo[1].file = disk.qrec
             \/ mem.bad /\ todo[1].what # "external"
      BY <1>8, <2>2 DEF OwnIs
    <3>2. todo' = <<>> /\ Top = todo[1]
      BY <1>1, <3>1, PopFacts DEF Top
    <3>3. CASE Top.what = "external" /\ Top.file = disk.qrec
      <4>1. o.bad
        BY <1>1, <2>2, <3>3, ReturnedNow DEF MergeReturned
      <4>2. QED BY <1>1, <1>2, <1>8, <3>2, <4>1 DEF OwnIs
    <3>4. CASE mem.bad /\ Top.what # "external"
      <4>1. o.bad
        BY <1>1, <1>4, <3>4, OutcomesWrite
      <4>2. QED BY <1>1, <1>2, <1>8, <3>2, <4>1 DEF OwnIs
    <3>5. QED BY <3>1, <3>2, <3>3, <3>4
  <2>3. QED BY <2>1, <2>2
<1>9. Resting'
  BY <1>1, <1>2, <1>3, <1>4, <1>5, <1>6, <1>7, <1>8 DEF Resting
<1>10. QED BY <1>1, <1>9, RestsClean

LEMMA CleanKeep ==
  ASSUME NothingIsNone, FilesInv, run = Nothing, todo # <<>>, NEW o \in Outcomes,
         KeepInMemory(o)
  PROVE  CleanInv'
<1> DEFINE yes == TRUE
<1>1. Becomes(o) /\ store' = [store EXCEPT !.dirty = yes] /\ run' = run
  BY DEF KeepInMemory
<1>2. mem'.p # Nothing
  BY <1>1, ReturnedNow, BecomesIs
<1>3. yes \in BOOLEAN
  OBVIOUS
<1> HIDE DEF yes
<1>4. store'.dirty = yes
  BY <1>1, <1>3, StoreDirty
<1>5. store'.dirty
  BY <1>4 DEF yes
<1>6. Resting'
  BY <1>2, <1>5 DEF Resting, Initialized
<1>7. QED BY <1>1, <1>6, RestsClean

LEMMA CleanBegin ==
  ASSUME NothingIsNone, FilesInv, CleanInv, run = Nothing, todo # <<>>,
         NEW o \in Outcomes, Begin(o)
  PROVE  CleanInv'
<1>1. /\ run' # Nothing /\ run'.at = "base" /\ run'.o = o
      /\ run'.mark = (IF Origin = "command" /\ ~Reclaimed(o) THEN Mark ELSE Nothing)
      /\ store'.dirty = store.dirty
      /\ store'.known = (IF Reclaimed(o) THEN Missing ELSE store.known)
      /\ mem' = mem /\ proc' = proc /\ todo' = todo /\ Aside(o)
  BY BeginIs
<1>2. /\ disk' = [qrec |-> disk'.qrec, base |-> disk.base, lines |-> disk.lines,
                  torn |-> disk.torn, head |-> disk.head]
      /\ ~mem.bad => disk' = disk /\ hand' = hand
      /\ disk'.qrec = disk.qrec \/ disk'.qrec = Missing
      /\ hand' = "own" => hand = "own"
  BY <1>1, AsideIs
<1>3. disk'.lines = disk.lines /\ disk'.torn = disk.torn /\ disk'.head = disk.head
  BY <1>2
<1>4. Resting /\ (Initialized' <=> Initialized) /\ HeadOf(mem') = HeadOf(mem)
  BY <1>1, TopIs, CleanRests DEF Initialized, HeadOf
<1>5. ~Initialized => o.op = "none"
  BY OutcomesWrite
<1>6. Mark.qrec = disk'.qrec /\ Mark.known = store'.known /\ Mark.hand = hand' /\ Mark.dirty = store.dirty
  BY DEF Mark
<1>7. run'.mark # Nothing => run'.mark.dirty = store'.dirty
  BY <1>1, <1>6
<1>8. ASSUME run'.mark # Nothing, ~run'.mark.dirty, Initialized,
             run'.mark.hand = "own", run'.mark.qrec # Missing
      PROVE  run'.mark.known = run'.mark.qrec /\ (mem.bad \/ run'.mark.qrec = mem.p)
  <2>1. run'.mark = Mark /\ Origin = "command" /\ ~Reclaimed(o)
    BY <1>1, <1>8
  <2>2. hand' = "own" /\ disk'.qrec # Missing /\ ~store.dirty
    BY <1>6, <1>8, <2>1
  <2>3. hand = "own" /\ disk'.qrec = disk.qrec /\ store'.known = store.known
    BY <1>1, <1>2, <2>1, <2>2
  <2>4. OwnIs(disk.qrec, store.known, todo)
    BY <1>4, <1>8, <2>2, <2>3 DEF Resting
  <2>5. Top.what = "command" /\ Len(todo) = 1 /\ Top = todo[1]
    BY <2>1, TopIs DEF Origin, Top
  <2>6. mem.bad \/ disk.qrec = mem.p
    BY <2>4, <2>5 DEF OwnIs
  <2>7. QED BY <1>6, <2>1, <2>3, <2>4, <2>6 DEF OwnIs
<1>9. QED BY <1>1, <1>3, <1>4, <1>5, <1>7, <1>8 DEF CleanInv, Resting, Writing, Undoing

LEMMA CleanDispatch ==
  ASSUME NothingIsNone, FilesInv, CleanInv, Dispatch
  PROVE  CleanInv'
<1>1. run = Nothing /\ todo # <<>> /\ proc # "off"
  BY TopIs DEF Dispatch
<1>2. CASE Refuse
  <2>1. Top.what # "external" /\ Pop /\ UNCHANGED <<disk, mem, store, proc, run, hand>>
    BY <1>2 DEF Refuse, session, ghosts
  <2>2. QED BY <1>1, <2>1, CleanPops
<1>3. ASSUME NEW o \in Outcomes, MergeFirst(o) PROVE CleanInv'
  <2> DEFINE outer == [todo EXCEPT ![Len(todo)].attempts = @ + 1]
  <2>1. Accept(outer) /\ Changed
    BY <1>3 DEF MergeFirst, MustMerge
  <2> HIDE DEF outer
  <2>2. QED BY <1>1, <2>1, CleanAccept
<1>4. ASSUME NEW o \in Outcomes, RunUnsaved(o) \/ KeepInMemory(o) PROVE CleanInv'
  BY <1>1, <1>4, CleanUnsaved, CleanKeep
<1>5. ASSUME NEW o \in Outcomes, OnlyARestoreSaves(o) PROVE CleanInv'
  <2>1. o.bad /\ Writes(o) /\ Pop /\ UNCHANGED <<disk, mem, store, proc, run, hand>>
    BY <1>5 DEF OnlyARestoreSaves, RefusedWhileBad, session, ghosts
  <2>2. Top.what # "external"
    BY <1>1, <2>1, ReturnedNow DEF MergeReturned
  <2>3. QED BY <1>1, <2>1, <2>2, CleanPops
<1>6. ASSUME NEW o \in Outcomes, Begin(o) PROVE CleanInv'
  BY <1>1, <1>6, CleanBegin
<1>7. QED BY <1>2, <1>3, <1>4, <1>5, <1>6 DEF Dispatch

\* The commit's files hold the commit's history once its lines are written.
LEMMA CleanCommitBase ==
  ASSUME NothingIsNone, FilesInv, CleanInv, CommitBase
  PROVE  CleanInv'
<1>1. /\ run # Nothing /\ run.at = "base" /\ (Goes("lines") \/ Goes("failed"))
      /\ disk'.lines = disk.lines /\ disk'.torn = disk.torn /\ disk'.head = disk.head
      /\ store'.dirty = store.dirty /\ mem' = mem /\ proc' = proc
  BY CommitBaseIs
<1>2. (Initialized' <=> Initialized) /\ HeadOf(mem') = HeadOf(mem) /\ proc # "off" /\ Commit1(run, mem)
  BY <1>1 DEF Initialized, HeadOf, FilesInv
<1>3. CASE Goes("lines")
  <2>1. "lines" \in Writing /\ "lines" \notin Undoing
    BY DEF Writing, Undoing
  <2>2. run' # Nothing /\ run'.at = "lines" /\ run'.o = run.o /\ run'.mark = run.mark
    BY <1>1, <1>2, <1>3, <2>1, GoesIs
  <2>3. QED BY <1>1, <1>2, <2>2 DEF CleanInv, Writing, Undoing
<1>4. CASE Goes("failed")
  <2>1. "failed" \notin Undoing
    BY DEF Undoing
  <2>2. run' # Nothing /\ run'.at = "failed" /\ run'.o = run.o /\ run'.mark = run.mark
    BY <1>1, <1>2, <1>4, <2>1, GoesIs
  <2>3. QED BY <1>1, <1>2, <2>2 DEF CleanInv, Writing, Undoing
<1>5. QED BY <1>1, <1>3, <1>4

LEMMA CleanCommitLines ==
  ASSUME NothingIsNone, FilesInv, CleanInv, CommitLines
  PROVE  CleanInv'
<1>1. /\ run # Nothing /\ run.at = "lines"
      /\ disk'.head = disk.head /\ store' = store /\ mem' = mem /\ proc' = proc
      /\ \/ Goes("failed") /\ (run.o.op = "none" => disk' = disk)
         \/ /\ Goes("project")
            /\ (Initialized /\ ~store.dirty => disk.lines = mem.h.entries /\ ~disk.torn)
               => (store.dirty \/ Initialized => disk'.lines = run.o.h.entries /\ ~disk'.torn)
            /\ ~store.dirty /\ run.o.op = "none" => disk' = disk
  BY CommitLinesIs
<1>2. /\ (Initialized' <=> Initialized) /\ HeadOf(mem') = HeadOf(mem) /\ proc # "off"
      /\ Commit1(run, mem) /\ Mem(mem) /\ Outcome(run.o, mem)
  BY <1>1, NowIs DEF Initialized, HeadOf, FilesInv
<1>3. ~Initialized =>
        /\ run.o.op = "none" /\ disk.lines = <<>> /\ ~disk.torn
        /\ mem.h.entries = <<>> /\ run.o.h.entries = <<>>
  <2>1. HAVE ~Initialized
  <2>2. run.o.op = "none" /\ disk.lines = <<>> /\ ~disk.torn
    BY <1>1, <1>2, <2>1 DEF CleanInv
  <2>3. mem = NoState
    BY <1>2, <2>1 DEF Mem, Initialized
  <2>4. mem.h.entries = <<>>
    BY <2>3 DEF NoState, NewHistory
  <2>5. QED BY <1>2, <2>2, <2>4 DEF Outcome
<1>4. Initialized /\ ~store.dirty => disk.lines = mem.h.entries /\ ~disk.torn
  BY <1>1 DEF CleanInv
<1>5. CASE Goes("project")
  <2>1. "project" \in Writing /\ "project" \notin Undoing
    BY DEF Writing, Undoing
  <2>2. run' # Nothing /\ run'.at = "project" /\ run'.o = run.o /\ run'.mark = run.mark
    BY <1>1, <1>2, <1>5, <2>1, GoesIs
  <2>3. ~Goes("failed")
    <3>1. SUFFICES ASSUME Goes("failed") PROVE FALSE
      OBVIOUS
    <3>2. "failed" \notin Undoing
      BY DEF Undoing
    <3>3. run'.at = "failed"
      BY <1>1, <1>2, <3>1, <3>2, GoesIs
    <3>4. QED BY <2>2, <3>3
  <2>4. disk'.lines = run.o.h.entries /\ ~disk'.torn
    BY <1>1, <1>3, <1>4, <2>3
  <2>5. QED BY <1>1, <1>2, <1>3, <2>2, <2>4 DEF CleanInv, Writing, Undoing
<1>6. CASE Goes("failed") /\ (run.o.op = "none" => disk' = disk)
  <2>1. "failed" \notin Undoing
    BY DEF Undoing
  <2>2. run' # Nothing /\ run'.at = "failed" /\ run'.o = run.o /\ run'.mark = run.mark
    BY <1>1, <1>2, <1>6, <2>1, GoesIs
  <2>3. ~Initialized => disk'.lines = <<>> /\ ~disk'.torn
    BY <1>3, <1>6
  <2>4. QED BY <1>1, <1>2, <1>3, <2>2, <2>3 DEF CleanInv, Writing, Undoing
<1>7. QED BY <1>1, <1>5, <1>6

LEMMA CleanCommitProject ==
  ASSUME NothingIsNone, FilesInv, CleanInv, CommitProject
  PROVE  CleanInv'
<1>1. /\ run # Nothing /\ run.at = "project" /\ mem' = mem /\ proc' = proc
      /\ SameBut(disk, disk') /\ store'.dirty = store.dirty
      /\ \/ Goes("head") /\ disk'.qrec = run.o.p /\ store'.known = run.o.p
         \/ Goes("failed")
  BY CommitProjectIs
<1>2. /\ (Initialized' <=> Initialized) /\ HeadOf(mem') = HeadOf(mem) /\ proc # "off"
      /\ Commit1(run, mem)
      /\ disk'.lines = disk.lines /\ disk'.torn = disk.torn /\ disk'.head = disk.head
  BY <1>1 DEF Initialized, HeadOf, FilesInv, SameBut
<1>3. CASE Goes("head") /\ disk'.qrec = run.o.p /\ store'.known = run.o.p
  <2>1. "head" \notin Undoing
    BY DEF Undoing
  <2>2. run' # Nothing /\ run'.at = "head" /\ run'.o = run.o /\ run'.mark = run.mark
    BY <1>1, <1>2, <1>3, <2>1, GoesIs
  <2>3. QED BY <1>1, <1>2, <1>3, <2>2 DEF CleanInv, Writing, Undoing
<1>4. CASE Goes("failed")
  <2>1. "failed" \notin Undoing
    BY DEF Undoing
  <2>2. run' # Nothing /\ run'.at = "failed" /\ run'.o = run.o /\ run'.mark = run.mark
    BY <1>1, <1>2, <1>4, <2>1, GoesIs
  <2>3. QED BY <1>1, <1>2, <2>2 DEF CleanInv, Writing, Undoing
<1>5. QED BY <1>1, <1>3, <1>4

LEMMA CleanCommitHead ==
  ASSUME NothingIsNone, "headSync" \notin Faults, FilesInv, CleanInv, CommitHead
  PROVE  CleanInv'
<1>1. /\ run # Nothing /\ run.at = "head"
      /\ disk'.qrec = disk.qrec /\ disk'.lines = disk.lines /\ disk'.torn = disk.torn
      /\ store'.known = store.known
      /\ \/ /\ Ends /\ disk'.head = HeadOf(run.o)
            /\ mem'.p # Nothing /\ mem'.p = run.o.p /\ mem'.h = run.o.h
            /\ IF run.origin \in {"command", "event"} THEN Merged(run.o) ELSE hand' = hand
         \/ /\ Goes("failed") /\ mem' = mem /\ store' = store /\ proc' = proc
            /\ hand' = hand /\ disk' = disk
  BY CommitHeadIs
<1>2. proc # "off" /\ Commit1(run, mem)
  BY <1>1 DEF FilesInv
<1>3. /\ disk.lines = run.o.h.entries /\ ~disk.torn /\ store.known = run.o.p
      /\ hand = "own" /\ disk.qrec # Missing => disk.qrec = run.o.p
  BY <1>1 DEF CleanInv
<1>4. CASE /\ Ends /\ disk'.head = HeadOf(run.o)
           /\ mem'.p # Nothing /\ mem'.p = run.o.p /\ mem'.h = run.o.h
           /\ IF run.origin \in {"command", "event"} THEN Merged(run.o) ELSE hand' = hand
  <2>1. run' = Nothing
    BY <1>4 DEF Ends
  <2>2. hand' = "own" => hand = "own"
    BY <1>4 DEF Merged
  <2>3. disk'.head = HeadOf(mem')
    BY <1>4 DEF HeadOf
  <2>4. hand' = "own" /\ disk'.qrec # Missing => OwnIs(disk.qrec, store.known, todo)'
    BY <1>1, <1>3, <1>4, <2>2 DEF OwnIs
  <2>5. Resting'
    BY <1>1, <1>3, <1>4, <2>3, <2>4 DEF Resting, Initialized
  <2>6. QED BY <2>1, <2>5, RestsClean
<1>5. CASE /\ Goes("failed") /\ mem' = mem /\ store' = store /\ proc' = proc
           /\ hand' = hand /\ disk' = disk
  <2>1. "failed" \notin Undoing
    BY DEF Undoing
  <2>2. run' # Nothing /\ run'.at = "failed" /\ run'.o = run.o /\ run'.mark = run.mark
    BY <1>1, <1>2, <1>5, <2>1, GoesIs
  <2>3. (Initialized' <=> Initialized) /\ HeadOf(mem') = HeadOf(mem)
    BY <1>5 DEF Initialized, HeadOf
  <2>4. QED BY <1>1, <1>2, <1>5, <2>2, <2>3 DEF CleanInv, Writing, Undoing
<1>6. QED BY <1>1, <1>4, <1>5

LEMMA CleanCommitFailed ==
  ASSUME NothingIsNone, FilesInv, CleanInv, CommitFailed
  PROVE  CleanInv'
<1>1. /\ run # Nothing /\ run.at = "failed"
      /\ Goes(IF run.mark # Nothing THEN "dropProject" ELSE "keep")
      /\ store'.dirty = TRUE /\ disk' = disk /\ mem' = mem /\ proc' = proc /\ hand' = hand
  BY CommitFailedIs
<1>2. /\ (Initialized' <=> Initialized) /\ HeadOf(mem') = HeadOf(mem) /\ proc # "off"
      /\ Commit1(run, mem)
  BY <1>1 DEF Initialized, HeadOf, FilesInv
<1>3. PICK at \in {"dropProject", "keep"} : Goes(at) /\ (at \in Undoing => run.mark # Nothing)
  <2>1. CASE run.mark # Nothing
    BY <1>1, <2>1
  <2>2. CASE run.mark = Nothing
    BY <1>1, <2>2 DEF Undoing
  <2>3. QED BY <2>1, <2>2
<1>4. at \in Writing \cup {"head", "failed", "keep"} \cup Undoing
  BY DEF Undoing
<1>5. run' # Nothing /\ run'.at = at /\ run'.o = run.o /\ run'.mark = run.mark
  BY <1>1, <1>2, <1>3, <1>4, GoesIs
<1>6. QED BY <1>1, <1>2, <1>5 DEF CleanInv, Writing, Undoing

LEMMA CleanKeepUnsaved ==
  ASSUME NothingIsNone, FilesInv, CleanInv, KeepUnsaved
  PROVE  CleanInv'
<1>1. /\ run # Nothing /\ run.at = "keep" /\ Ends /\ mem'.p # Nothing /\ store' = store
  BY KeepUnsavedIs
<1>2. run' = Nothing /\ store.dirty
  BY <1>1 DEF Ends, CleanInv
<1>3. Resting'
  BY <1>1, <1>2 DEF Resting, Initialized
<1>4. QED BY <1>2, <1>3, RestsClean

LEMMA CleanDropProject ==
  ASSUME NothingIsNone, FilesInv, CleanInv, DropProject
  PROVE  CleanInv'
<1>1. /\ run # Nothing /\ run.at = "dropProject" /\ run.mark # Nothing
      /\ SameBut(disk, disk') /\ store'.dirty = store.dirty
      /\ mem' = mem /\ proc' = proc
      /\ \/ /\ Goes("dropBase") /\ disk'.qrec = run.mark.qrec /\ hand' = run.mark.hand
            /\ store'.known = run.mark.known
         \/ Goes("keep")
  BY DropProjectIs
<1>2. /\ (Initialized' <=> Initialized) /\ HeadOf(mem') = HeadOf(mem) /\ proc # "off"
      /\ Commit1(run, mem)
      /\ disk'.lines = disk.lines /\ disk'.torn = disk.torn /\ disk'.head = disk.head
  BY <1>1 DEF Initialized, HeadOf, FilesInv, SameBut
<1>3. CASE /\ Goes("dropBase") /\ disk'.qrec = run.mark.qrec /\ hand' = run.mark.hand
           /\ store'.known = run.mark.known
  <2>1. "dropBase" \in Undoing
    BY DEF Undoing
  <2>2. run' # Nothing /\ run'.at = "dropBase" /\ run'.o = run.o /\ run'.mark = run.mark
    BY <1>1, <1>2, <1>3, <2>1, GoesIs
  <2>3. QED BY <1>1, <1>2, <1>3, <2>2 DEF CleanInv, Writing, Undoing
<1>4. CASE Goes("keep")
  <2>1. "keep" \notin Undoing
    BY DEF Undoing
  <2>2. run' # Nothing /\ run'.at = "keep" /\ run'.o = run.o /\ run'.mark = run.mark
    BY <1>1, <1>2, <1>4, <2>1, GoesIs
  <2>3. QED BY <1>1, <1>2, <2>2 DEF CleanInv, Writing, Undoing
<1>5. QED BY <1>1, <1>3, <1>4

LEMMA CleanDropBase ==
  ASSUME NothingIsNone, FilesInv, CleanInv, DropBase
  PROVE  CleanInv'
<1>1. /\ run # Nothing /\ run.at = "dropBase" /\ run.mark # Nothing
      /\ (Goes("dropLines") \/ Goes("keep"))
      /\ disk'.qrec = disk.qrec /\ disk'.lines = disk.lines
      /\ disk'.torn = disk.torn /\ disk'.head = disk.head
      /\ store'.dirty = store.dirty /\ store'.known = store.known
      /\ mem' = mem /\ proc' = proc /\ hand' = hand
  BY DropBaseIs
<1>2. /\ (Initialized' <=> Initialized) /\ HeadOf(mem') = HeadOf(mem) /\ proc # "off"
      /\ Commit1(run, mem)
  BY <1>1 DEF Initialized, HeadOf, FilesInv
<1>3. PICK at \in {"dropLines", "keep"} : Goes(at)
  BY <1>1
<1>4. at \in Writing \cup {"head", "failed", "keep"} \cup Undoing
  BY DEF Undoing
<1>5. run' # Nothing /\ run'.at = at /\ run'.o = run.o /\ run'.mark = run.mark
  BY <1>1, <1>2, <1>3, <1>4, GoesIs
<1>6. QED BY <1>1, <1>2, <1>5 DEF CleanInv, Writing, Undoing

LEMMA CleanDropLines ==
  ASSUME NothingIsNone, FilesInv, CleanInv, DropLines
  PROVE  CleanInv'
<1>1. /\ run # Nothing /\ run.at = "dropLines" /\ run.mark # Nothing /\ Ends
      /\ disk'.qrec = disk.qrec /\ disk'.head = disk.head /\ store'.known = store.known
      /\ mem' = mem /\ hand' = hand
      /\ \/ ~run.mark.dirty /\ disk'.lines = mem.h.entries /\ ~disk'.torn /\ store'.dirty = FALSE
         \/ disk' = disk /\ store'.dirty = TRUE
         \/ disk' = disk /\ store' = store
  BY DropLinesIs
<1>2. /\ (Initialized' <=> Initialized) /\ HeadOf(mem') = HeadOf(mem) /\ proc # "off" /\ Mem(mem)
      /\ run' = Nothing
  BY <1>1 DEF Initialized, HeadOf, FilesInv, Ends
<1>3. /\ store.dirty
      /\ ~run.mark.dirty /\ Initialized =>
           /\ disk.head = HeadOf(mem)
           /\ run.mark.hand = "own" /\ run.mark.qrec # Missing =>
                run.mark.known = run.mark.qrec /\ (mem.bad \/ run.mark.qrec = mem.p)
      /\ hand = "own" /\ disk.qrec # Missing =>
           disk.qrec = run.mark.qrec /\ run.mark.hand = "own" /\ store.known = run.mark.known
      /\ ~Initialized => disk.lines = <<>> /\ ~disk.torn
  BY <1>1, <1>2 DEF CleanInv, Undoing
<1>4. ~Initialized => disk'.lines = <<>> /\ ~disk'.torn
  <2>1. HAVE ~Initialized
  <2>2. mem = NoState
    BY <1>2, <2>1 DEF Mem, Initialized
  <2>3. mem.h.entries = <<>>
    BY <2>2 DEF NoState, NewHistory
  <2>4. QED BY <1>1, <1>3, <2>1, <2>3
<1>5. todo' = <<>>
  <2>1. Len(todo) = 1 /\ todo # <<>>
    BY <1>1 DEF FilesInv
  <2>2. Pop
    BY <1>1, <2>1 DEF Ends, FilesInv
  <2>3. QED BY <2>1, <2>2, PopFacts
<1>6. Initialized /\ ~store'.dirty =>
        /\ disk'.lines = mem.h.entries /\ ~disk'.torn /\ disk'.head = HeadOf(mem)
        /\ hand' = "own" /\ disk'.qrec # Missing => OwnIs(disk.qrec, store.known, todo)'
  <2>1. HAVE Initialized /\ ~store'.dirty
  <2>2. ~run.mark.dirty /\ disk'.lines = mem.h.entries /\ ~disk'.torn
    BY <1>1, <1>3, <2>1
  <2>3. QED BY <1>1, <1>3, <1>5, <2>1, <2>2 DEF OwnIs
<1>7. Resting'
  BY <1>1, <1>2, <1>4, <1>6 DEF Resting
<1>8. QED BY <1>2, <1>7, RestsClean

LEMMA CleanStill ==
  ASSUME CleanInv, UNCHANGED vars
  PROVE  CleanInv'
BY DEF CleanInv, vars, ghosts, session, counts, Initialized, OwnIs, HeadOf

LEMMA CleanStep ==
  ASSUME NothingIsNone, "headSync" \notin Faults,
         FilesInv, CleanInv, [Next]_vars
  PROVE  CleanInv'
<1>1. CASE UNCHANGED vars
  BY <1>1, CleanStill
<1>2. CASE OpenEmpty \/ (\E rec \in BOOLEAN : Open(rec)) \/ Opened \/ Close \/ Crash \/ HandEdit
  BY <1>2, CleanOpenEmpty, CleanOpen, CleanRepairs, CleanCrash, CleanHandEdit
<1>3. CASE Request \/ Dispatch
  BY <1>3, CleanRequest, CleanDispatch
<1>4. CASE Noticed
  BY <1>4, CleanAccept DEF Noticed, Idle
<1>5. CASE CommitBase \/ CommitLines \/ CommitProject \/ CommitHead
  BY <1>5, CleanCommitBase, CleanCommitLines, CleanCommitProject, CleanCommitHead
<1>6. CASE CommitFailed \/ KeepUnsaved \/ DropProject \/ DropBase \/ DropLines
  BY <1>6, CleanCommitFailed, CleanKeepUnsaved, CleanDropProject, CleanDropBase, CleanDropLines
<1>7. QED BY <1>1, <1>2, <1>3, <1>4, <1>5, <1>6 DEF Next

\* A store that has nothing to repair has in its files what it has in memory
\* (store/mod.rs): a commit may append one line to them, and a failed one
\* that was taken back left nothing behind.
THEOREM CleanStoreHolds ==
  ASSUME NothingIsNone, "headSync" \notin Faults
  PROVE  Spec => []CleanStoreMatchesDisk
<1>1. Init => FilesInv /\ CleanInv
  BY FilesFirst, CleanFirst
<1>2. (FilesInv /\ CleanInv) /\ [Next]_vars => (FilesInv /\ CleanInv)'
  BY FilesStep, CleanStep
<1>3. FilesInv /\ CleanInv => CleanStoreMatchesDisk
  <2>1. Len(<<>>) = 0
    OBVIOUS
  <2>2. QED BY <2>1 DEF CleanInv, CleanStoreMatchesDisk, OwnIs
<1>4. QED BY <1>1, <1>2, <1>3, PTL DEF Spec

=============================================================================
