--------------------------- MODULE HistoryProofs ---------------------------
(* The undo history, proved for any number of takes, scenes and entries:   *)
(* whatever edits, takes, undos, redos, clears, purges, hand edits and     *)
(* compactions did to it, it undoes to the base and redoes to the newest   *)
(* entry, over valid projects, and its numbers are never given twice.      *)
EXTENDS HistoryMachine, SequenceLemmas

----------------------------------------------------------------------------
(* The invariant.                                                          *)

\* A view with these paths.
View(d, D) == d = [x \in D |-> d[x]]

\* What an entry's patch says of the views before and after it.
Links(a, patch, b, D) ==
    /\ DOMAIN patch \subseteq D
    /\ \A x \in D : IF x \in DOMAIN patch THEN patch[x] = [from |-> a[x], to |-> b[x]]
                                          ELSE a[x] = b[x]

\* A view as it was before later takes joined it.
Under(a, d) == \A x \in DOMAIN a : x \in DOMAIN d /\ d[x] = a[x]

Numbered(h) ==
    /\ h = [entries |-> h.entries, cursor |-> h.cursor, base |-> h.base, next |-> h.next]
    /\ h.entries \in Seq(Range(h.entries))
    /\ h.base \in Nat /\ h.cursor \in Nat /\ h.next \in Nat /\ h.base < h.next
    /\ \A i \in 1 .. Len(h.entries) :
         LET e == h.entries[i]
         IN  /\ e = [seq |-> e.seq, patch |-> e.patch, after |-> e.after]
             /\ e.seq \in Nat /\ h.base < e.seq /\ e.seq < h.next
    /\ \A i, j \in 1 .. Len(h.entries) : i < j => h.entries[i].seq < h.entries[j].seq

Sane(p) ==
    /\ p = [doc |-> p.doc, done |-> p.done, num |-> p.num]
    /\ View(p.doc, DOMAIN p.doc)
    /\ TL \in DOMAIN p.doc /\ SC \in DOMAIN p.doc
    /\ DOMAIN p.doc \subseteq {TL, SC} \cup Take
    /\ p.done \subseteq Take /\ p.num \in Nat
    /\ Valid(p)

\* The views s, from the base on, are what the entries lead through.
Chain(s, h, D, done) ==
    /\ s = [i \in 0 .. Len(h.entries) |-> s[i]]
    /\ \A i \in 0 .. Len(h.entries) : View(s[i], D) /\ Uses(s[i]) \subseteq done
    /\ \A i \in 1 .. Len(h.entries) :
         /\ Links(s[i - 1], h.entries[i].patch, s[i], D)
         /\ Under(h.entries[i].after, s[i])

\* They lead to p at position c, where the cursor is, from the base b.
Walk(s, c, h, p, b) ==
    /\ Numbered(h) /\ Sane(p)
    /\ Chain(s, h, DOMAIN p.doc, p.done)
    /\ c \in 0 .. Len(h.entries) /\ SeqAt(h, c) = h.cursor /\ s[c] = p.doc
    /\ Under(b.doc, s[0])

HistoryInv ==
    /\ Walk(States(history, project.doc), CursorPosition(history), history, project, snap)
    /\ top \in Nat /\ top < history.next

----------------------------------------------------------------------------
(* Numbers.                                                                *)

\* A number names one position.
LEMMA PositionIs ==
  ASSUME NEW h, Numbered(h), NEW c \in 0 .. Len(h.entries), SeqAt(h, c) = h.cursor
  PROVE  CursorPosition(h) = c
<1> DEFINE n == Len(h.entries)
<1>1. n \in Nat /\ DOMAIN h.entries = 1 .. n /\ h.base \in Nat
  BY DEF Numbered
<1>2. \A i \in 1 .. n : h.entries[i].seq \in Nat /\ h.base < h.entries[i].seq
  BY DEF Numbered
<1>3. \A i, j \in 1 .. n : i < j => h.entries[i].seq < h.entries[j].seq
  BY DEF Numbered
<1> HIDE DEF n
<1>4. CASE c = 0
  BY <1>4 DEF SeqAt, CursorPosition, PositionOf
<1>5. CASE c # 0
  <2>1. c \in 1 .. n /\ h.entries[c].seq = h.cursor /\ h.cursor # h.base
    BY <1>1, <1>2, <1>5 DEF SeqAt, n
  <2>2. \A i \in 1 .. n : h.entries[i].seq = h.cursor => i = c
    BY <1>1, <1>2, <1>3, <2>1
  <2>3. (CHOOSE i \in 1 .. n : h.entries[i].seq = h.cursor) = c
    BY <2>1, <2>2
  <2>4. QED BY <1>1, <2>1, <2>3 DEF CursorPosition, PositionOf
<1>6. QED BY <1>4, <1>5

----------------------------------------------------------------------------
(* Walks.                                                                  *)

\* A patch leads over its entry, and its inverse back.
LEMMA LinkSteps ==
  ASSUME NEW D, NEW a, NEW b, NEW patch, TL \in D,
         View(a, D), View(b, D), Links(a, patch, b, D)
  PROVE  Step(a, patch) = b /\ Step(b, Flip(patch)) = a
<1> USE DEF Links
<1>1. DOMAIN a = D /\ DOMAIN b = D
  BY DEF View
<1>2. a # Drifted /\ b # Drifted
  BY <1>1 DEF Drifted
<1>3. \A x \in DOMAIN patch : x \in D /\ patch[x].from = a[x] /\ patch[x].to = b[x]
  OBVIOUS
<1>4. \A x \in D : x \notin DOMAIN patch => a[x] = b[x]
  OBVIOUS
<1>5. Step(a, patch) = [x \in D |-> IF x \in DOMAIN patch THEN patch[x].to ELSE a[x]]
  BY <1>1, <1>2, <1>3 DEF Step, Fits
<1>6. [x \in D |-> IF x \in DOMAIN patch THEN patch[x].to ELSE a[x]] = [x \in D |-> b[x]]
  BY <1>3, <1>4
<1>7. /\ DOMAIN Flip(patch) = DOMAIN patch
      /\ \A x \in DOMAIN patch : Flip(patch)[x].from = patch[x].to /\ Flip(patch)[x].to = patch[x].from
  BY DEF Flip
<1> DEFINE f == Flip(patch)
<1> HIDE DEF f
<1>8. DOMAIN f = DOMAIN patch /\ \A x \in DOMAIN patch : f[x].from = b[x] /\ f[x].to = a[x]
  BY <1>3, <1>7 DEF f
<1>9. Step(b, f) = [x \in D |-> IF x \in DOMAIN f THEN f[x].to ELSE b[x]]
  BY <1>1, <1>2, <1>3, <1>8 DEF Step, Fits
<1>10. [x \in D |-> IF x \in DOMAIN f THEN f[x].to ELSE b[x]] = [x \in D |-> a[x]]
  BY <1>4, <1>8
<1>11. QED
  BY <1>5, <1>6, <1>9, <1>10 DEF View, f

\* States walks to the views of a chain, and to no others.
LEMMA StatesAre ==
  ASSUME NEW s, NEW k, NEW h, NEW p, NEW b, Walk(s, k, h, p, b)
  PROVE  CursorPosition(h) = k /\ States(h, p.doc) = s
<1> DEFINE c == CursorPosition(h)
           n == Len(h.entries)
           doc == p.doc
           patch(i) == h.entries[i].patch
           Undone(f) == f = [i \in 0 .. c |->
                             IF i = c THEN doc ELSE Step(f[i + 1], Flip(patch(i + 1)))]
           Redone(f) == f = [i \in c .. n |->
                              IF i = c THEN doc ELSE Step(f[i - 1], patch(i))]
<1>1. c = k
  BY PositionIs DEF Walk
<1>2. c \in 0 .. n /\ n \in Nat /\ s[c] = doc
  BY <1>1 DEF Walk, Numbered
<1>3. s = [i \in 0 .. n |-> s[i]]
  BY DEF Walk, Chain
<1>4. \A i \in 1 .. n : Step(s[i - 1], patch(i)) = s[i] /\ Step(s[i], Flip(patch(i))) = s[i - 1]
  <2>1. TAKE i \in 1 .. n
  <2>2. i - 1 \in 0 .. n /\ i \in 0 .. n
    BY <1>2
  <2> DEFINE D == DOMAIN p.doc
  <2>3. TL \in D /\ View(s[i - 1], D) /\ View(s[i], D) /\ Links(s[i - 1], patch(i), s[i], D)
    BY <2>2 DEF Walk, Chain, Sane
  <2> HIDE DEF D, patch
  <2>4. QED BY <2>3, LinkSteps
<1> HIDE DEF c, n, doc, patch
<1>5. PICK back : back = CHOOSE f : Undone(f)
  OBVIOUS
<1>6. Undone(back)
  <2> DEFINE f == [i \in 0 .. c |-> s[i]]
  <2>1. \A i \in 0 .. c : f[i] = IF i = c THEN doc ELSE Step(f[i + 1], Flip(patch(i + 1)))
    <3>1. TAKE i \in 0 .. c
    <3>2. CASE i = c
      BY <1>2, <3>2
    <3>3. CASE i # c
      <4>1. i + 1 \in 1 .. n /\ i + 1 \in 0 .. c /\ (i + 1) - 1 = i
        BY <1>2, <3>3
      <4>2. Step(s[i + 1], Flip(patch(i + 1))) = s[(i + 1) - 1]
        BY <1>4, <4>1
      <4>3. QED BY <3>3, <4>1, <4>2
    <3>4. QED BY <3>2, <3>3
  <2>2. Undone(f)
    BY <2>1
  <2> HIDE DEF Undone
  <2>3. QED BY <2>2, <1>5
<1>7. \A i \in 0 .. c : back[i] = s[i]
  <2> DEFINE I == {i \in 0 .. c : back[i] = s[i]}
  <2>1. c \in I
    BY <1>2, <1>6
  <2>2. ASSUME NEW i \in 0 .. c - 1, i + 1 \in I PROVE i \in I
    <3>1. i + 1 \in 1 .. n /\ i \in 0 .. c /\ i # c /\ (i + 1) - 1 = i
      BY <1>2
    <3>2. back[i] = Step(s[i + 1], Flip(patch(i + 1)))
      BY <1>6, <2>2, <3>1
    <3>3. Step(s[i + 1], Flip(patch(i + 1))) = s[(i + 1) - 1]
      BY <1>4, <3>1
    <3>4. QED BY <3>1, <3>2, <3>3
  <2>3. c \in Nat
    BY <1>2
  <2> HIDE DEF I
  <2>4. 0 .. c \subseteq I
    BY <2>1, <2>2, <2>3, Downwards
  <2>5. QED BY <2>4 DEF I
<1>8. PICK forth : forth = CHOOSE f : Redone(f)
  OBVIOUS
<1>9. Redone(forth)
  <2> DEFINE f == [i \in c .. n |-> s[i]]
  <2>1. \A i \in c .. n : f[i] = IF i = c THEN doc ELSE Step(f[i - 1], patch(i))
    <3>1. TAKE i \in c .. n
    <3>2. CASE i = c
      BY <1>2, <3>2
    <3>3. CASE i # c
      <4>1. i \in 1 .. n /\ i - 1 \in c .. n
        BY <1>2, <3>3
      <4>2. Step(s[i - 1], patch(i)) = s[i]
        BY <1>4, <4>1
      <4>3. QED BY <3>3, <4>1, <4>2
    <3>4. QED BY <3>2, <3>3
  <2>2. Redone(f)
    BY <2>1
  <2> HIDE DEF Redone
  <2>3. QED BY <2>2, <1>8
<1>10. \A i \in c .. n : forth[i] = s[i]
  <2> DEFINE I == {i \in 0 .. n : i >= c => forth[i] = s[i]}
  <2>0. c \in c .. n /\ forth[c] = s[c]
    BY <1>2, <1>9
  <2>1. 0 \in I
    BY <1>2, <2>0
  <2>2. ASSUME NEW i \in 1 .. n, i - 1 \in I PROVE i \in I
    <3>1. CASE i > c
      <4>1. i \in c .. n /\ i # c /\ i - 1 >= c
        BY <1>2, <3>1
      <4>2. forth[i] = Step(s[i - 1], patch(i))
        BY <1>9, <2>2, <4>1
      <4>3. Step(s[i - 1], patch(i)) = s[i]
        BY <1>4
      <4>4. QED BY <4>2, <4>3
    <3>2. CASE ~(i > c)
      BY <1>2, <2>0, <3>2
    <3>3. QED BY <3>1, <3>2
  <2> HIDE DEF I
  <2>3. 0 .. n \subseteq I
    BY <1>2, <2>1, <2>2, Upwards
  <2>4. ASSUME NEW i \in c .. n PROVE forth[i] = s[i]
    <3>1. i \in 0 .. n /\ i >= c
      BY <1>2
    <3>2. QED BY <2>3, <3>1 DEF I
  <2>5. QED BY <2>4
<1>11. States(h, p.doc) = [i \in 0 .. n |-> IF i <= c THEN back[i] ELSE forth[i]]
  BY <1>5, <1>8 DEF States, c, n, doc, patch
<1>12. [i \in 0 .. n |-> IF i <= c THEN back[i] ELSE forth[i]] = [i \in 0 .. n |-> s[i]]
  <2>1. ASSUME NEW i \in 0 .. n PROVE (IF i <= c THEN back[i] ELSE forth[i]) = s[i]
    <3>1. CASE i <= c
      BY <1>2, <1>7, <3>1
    <3>2. CASE ~(i <= c)
      BY <1>2, <1>10, <3>2
    <3>3. QED BY <3>1, <3>2
  <2>2. QED BY <2>1
<1>13. States(h, p.doc) = s
  <2> HIDE DEF Undone, Redone
  <2> QED BY <1>3, <1>11, <1>12, Zenon
<1>14. QED BY <1>1, <1>13 DEF c

\* A walk is what the invariant asks for.
LEMMA WalkGoesOn ==
  ASSUME NEW s, NEW c, NEW h, NEW p, NEW b, Walk(s, c, h, p, b)
  PROVE  Walk(States(h, p.doc), CursorPosition(h), h, p, b)
<1>1. CursorPosition(h) = c /\ States(h, p.doc) = s
  BY StatesAre
<1>2. QED BY <1>1

\* What the invariant says of an entry.
LEMMA EntryFacts ==
  ASSUME NEW h, Numbered(h)
  PROVE  /\ h.entries \in Seq(Range(h.entries)) /\ Len(h.entries) \in Nat
         /\ DOMAIN h.entries = 1 .. Len(h.entries)
         /\ \A i \in 1 .. Len(h.entries) :
              /\ h.entries[i] \in Range(h.entries) /\ h.entries[i].seq \in Nat
              /\ h.base < h.entries[i].seq /\ h.entries[i].seq < h.next
         /\ \A i, j \in 1 .. Len(h.entries) : i < j => h.entries[i].seq < h.entries[j].seq
         /\ h.base \in Nat /\ h.cursor \in Nat /\ h.next \in Nat
<1> DEFINE q == h.entries
           n == Len(q)
<1>1. q \in Seq(Range(q)) /\ h.base \in Nat /\ h.cursor \in Nat /\ h.next \in Nat
  BY DEF Numbered
<1>2. n \in Nat /\ DOMAIN q = 1 .. n
  BY <1>1
<1>3. \A i \in 1 .. n : q[i] \in Range(q)
  BY <1>2 DEF Range
<1>4. \A i \in 1 .. n : q[i].seq \in Nat /\ h.base < q[i].seq /\ q[i].seq < h.next
  BY DEF Numbered
<1>5. \A i, j \in 1 .. n : i < j => q[i].seq < q[j].seq
  BY DEF Numbered
<1>6. QED BY <1>1, <1>2, <1>3, <1>4, <1>5

\* A project gets takes, views of which stay as they are: no view loses one.
LEMMA Extends ==
  ASSUME NEW s, NEW c, NEW h, NEW p, NEW b, Walk(s, c, h, p, b), NEW q, Sane(q),
         DOMAIN p.doc \subseteq DOMAIN q.doc, \A x \in DOMAIN p.doc : q.doc[x] = p.doc[x],
         p.done \subseteq q.done
  PROVE  \E t : Walk(t, c, h, q, b)
<1> DEFINE n == Len(h.entries)
           D == DOMAIN p.doc
           E == DOMAIN q.doc
           Plus(d) == [x \in E |-> IF x \in D THEN d[x] ELSE q.doc[x]]
           t == [i \in 0 .. n |-> Plus(s[i])]
<1>1. Numbered(h) /\ n \in Nat
  BY EntryFacts DEF Walk
<1>2. ASSUME NEW i \in 0 .. n PROVE View(t[i], E) /\ Uses(t[i]) \subseteq q.done
  <2>1. Uses(s[i]) \subseteq p.done /\ TL \in D
    BY DEF Walk, Chain, Sane
  <2>2. QED BY <2>1 DEF View, Uses
<1>3. ASSUME NEW i \in 1 .. n
      PROVE  Links(t[i - 1], h.entries[i].patch, t[i], E) /\ Under(h.entries[i].after, t[i])
  <2> DEFINE patch == h.entries[i].patch
             after == h.entries[i].after
  <2>1. i \in 0 .. n /\ i - 1 \in 0 .. n
    BY <1>1
  <2>2. Links(s[i - 1], patch, s[i], D) /\ Under(after, s[i]) /\ View(s[i], D)
    BY <2>1 DEF Walk, Chain
  <2> HIDE DEF patch, after, n
  <2>3. Links(Plus(s[i - 1]), patch, Plus(s[i]), E)
    BY <2>2 DEF Links
  <2>4. Under(after, Plus(s[i]))
    BY <2>2 DEF Under, View
  <2>5. QED BY <2>1, <2>3, <2>4 DEF patch, after
<1>4. Chain(t, h, E, q.done)
  <2> HIDE DEF E
  <2> QED BY <1>2, <1>3 DEF Chain
<1>5. c \in 0 .. n /\ SeqAt(h, c) = h.cursor /\ s[c] = p.doc
  BY DEF Walk
<1>6. t[c] = q.doc
  <2>1. q.doc = [x \in E |-> q.doc[x]]
    BY DEF Sane, View
  <2>2. Plus(s[c]) = [x \in E |-> q.doc[x]]
    BY <1>5
  <2>3. t[c] = Plus(s[c])
    BY <1>5
  <2>4. QED BY <2>1, <2>2, <2>3
<1>7. Under(b.doc, t[0])
  <2>1. Under(b.doc, s[0]) /\ View(s[0], D)
    <3>1. 0 \in 0 .. n
      BY <1>1
    <3>2. QED BY <3>1 DEF Walk, Chain
  <2>2. t[0] = Plus(s[0])
    BY <1>1
  <2>3. QED BY <2>1, <2>2, ZenonT(60) DEF Under, View
<1>8. Walk(t, c, h, q, b)
  <2> HIDE DEF t
  <2> QED BY <1>1, <1>4, <1>5, <1>6, <1>7 DEF Walk
<1> HIDE DEF t
<1>9. QED BY <1>8

\* An append keeps the entries before the cursor.
LEMMA UndoableIs ==
  ASSUME NEW s, NEW c, NEW h, NEW p, NEW b, Walk(s, c, h, p, b)
  PROVE  /\ Undoable(h) \in Seq(Range(h.entries)) /\ Len(Undoable(h)) = c
         /\ \A i \in 1 .. c : Undoable(h)[i] = h.entries[i]
<1> DEFINE n == Len(h.entries)
           S == {e \in Range(h.entries) : e.seq <= h.cursor}
<1>1. /\ h.entries \in Seq(Range(h.entries)) /\ n \in Nat
      /\ \A i \in 1 .. n : h.entries[i] \in Range(h.entries) /\ h.entries[i].seq \in Nat
                            /\ h.base < h.entries[i].seq
      /\ \A i, j \in 1 .. n : i < j => h.entries[i].seq < h.entries[j].seq
      /\ h.base \in Nat /\ h.cursor \in Nat
  BY EntryFacts DEF Walk
<1>2. c \in 0 .. n /\ (c = 0 => h.cursor = h.base) /\ (c # 0 => h.cursor = h.entries[c].seq)
  BY DEF Walk, SeqAt
<1> HIDE DEF n
<1>3. \A i \in 1 .. n : h.entries[i] \in S <=> i <= c
  <2>1. TAKE i \in 1 .. n
  <2>2. CASE c = 0
    BY <1>1, <1>2, <2>2
  <2>3. CASE c # 0
    BY <1>1, <1>2, <2>3
  <2>4. QED BY <2>2, <2>3
<1> HIDE DEF S
<1>4. /\ Only(h.entries, S) \in Seq(Range(h.entries)) /\ Len(Only(h.entries, S)) = c
      /\ \A i \in 1 .. c : Only(h.entries, S)[i] = h.entries[i]
  BY <1>1, <1>2, <1>3, OnlyPrefix, ZenonT(60) DEF n
<1>5. QED BY <1>4 DEF Undoable, S

\* What an entry of its own adds.
Adds(r, h, patch, after) ==
    /\ Len(r.entries) = Len(Undoable(h)) + 1
    /\ r.entries \in Seq(Range(r.entries))
    /\ r.entries[Len(Undoable(h)) + 1] = [seq |-> h.next, patch |-> patch, after |-> after]
    /\ \A i \in 1 .. Len(Undoable(h)) : r.entries[i] = Undoable(h)[i]
    /\ r = [entries |-> r.entries, cursor |-> h.next, base |-> h.base, next |-> h.next + 1]

LEMMA AppendedAdds ==
  ASSUME NEW s, NEW c, NEW h, NEW p, NEW b, Walk(s, c, h, p, b), NEW patch, NEW after
  PROVE  Adds(Appended(h, patch, after), h, patch, after)
<1> DEFINE u == Undoable(h)
           e == [seq |-> h.next, patch |-> patch, after |-> after]
           a == Append(u, e)
           C == Range(h.entries) \cup {e}
<1>1. u \in Seq(C) /\ e \in C
  BY UndoableIs
<1> HIDE DEF u, C
<1>2. /\ a \in Seq(C) /\ Len(a) = Len(u) + 1 /\ a[Len(u) + 1] = e
      /\ \A i \in 1 .. Len(u) : a[i] = u[i]
  <2> HIDE DEF e
  <2> QED BY <1>1
<1>3. a \in Seq(Range(a))
  <2> HIDE DEF a
  <2> QED BY <1>2, SeqOverRange
<1>4. h = [entries |-> h.entries, cursor |-> h.cursor, base |-> h.base, next |-> h.next]
  BY DEF Walk, Numbered
<1> HIDE DEF a
<1>5. Appended(h, patch, after) = [entries |-> a, cursor |-> h.next, base |-> h.base, next |-> h.next + 1]
  <2>1. Appended(h, patch, after) = [h EXCEPT !.entries = a, !.cursor = h.next, !.next = h.next + 1]
    BY DEF Appended, a, u, e
  <2>2. QED BY <1>4, <2>1
<1>6. QED BY <1>2, <1>3, <1>5 DEF Adds, u

\* An append leads one entry on.
LEMMA AppendWalks ==
  ASSUME NEW s, NEW c, NEW h, NEW p, NEW b, Walk(s, c, h, p, b), NEW q, Sane(q),
         DOMAIN q.doc = DOMAIN p.doc, p.done \subseteq q.done,
         NEW patch, Links(p.doc, patch, q.doc, DOMAIN p.doc), NEW k, k = c + 1
  PROVE  /\ \E t : Walk(t, k, Appended(h, patch, q.doc), q, b)
         /\ Appended(h, patch, q.doc).next = h.next + 1
         /\ Len(Appended(h, patch, q.doc).entries) = k
<1> DEFINE r == Appended(h, patch, q.doc)
           D == DOMAIN p.doc
           t == [i \in 0 .. c + 1 |-> IF i <= c THEN s[i] ELSE q.doc]
           n == Len(h.entries)
<1>1. Adds(r, h, patch, q.doc)
  BY AppendedAdds
<1> HIDE DEF r
<1>2. Len(Undoable(h)) = c /\ \A i \in 1 .. c : Undoable(h)[i] = h.entries[i]
  BY UndoableIs
<1>3. c \in 0 .. n /\ n \in Nat /\ c \in Nat /\ s[c] = p.doc
  BY EntryFacts DEF Walk
<1>4. /\ Len(r.entries) = c + 1 /\ r.entries \in Seq(Range(r.entries))
      /\ r.entries[c + 1] = [seq |-> h.next, patch |-> patch, after |-> q.doc]
      /\ \A i \in 1 .. c : r.entries[i] = h.entries[i]
      /\ r = [entries |-> r.entries, cursor |-> h.next, base |-> h.base, next |-> h.next + 1]
  BY <1>1, <1>2 DEF Adds
<1>5. r.cursor = h.next /\ r.base = h.base /\ r.next = h.next + 1
  BY <1>4
<1>6. \A i \in 1 .. c + 1 : i = c + 1 \/ (i \in 1 .. c /\ i \in 1 .. n)
  BY <1>3
<1>7. Numbered(r)
  <2>1. h.base \in Nat /\ h.next \in Nat /\ h.base < h.next
    BY DEF Walk, Numbered
  <2>2. ASSUME NEW i \in 1 .. c + 1
        PROVE  LET e == r.entries[i]
               IN  /\ e = [seq |-> e.seq, patch |-> e.patch, after |-> e.after]
                   /\ e.seq \in Nat /\ h.base < e.seq /\ e.seq < h.next + 1
    <3>1. CASE i = c + 1
      <4>1. r.entries[i] = [seq |-> h.next, patch |-> patch, after |-> q.doc]
        BY <1>4, <3>1
      <4>2. h.next < h.next + 1
        BY <2>1
      <4>3. QED BY <2>1, <4>1, <4>2
    <3>2. CASE i \in 1 .. c /\ i \in 1 .. n
      <4> DEFINE e == h.entries[i]
      <4>1. /\ e = [seq |-> e.seq, patch |-> e.patch, after |-> e.after]
            /\ e.seq \in Nat /\ h.base < e.seq /\ e.seq < h.next
        BY <3>2 DEF Walk, Numbered
      <4>2. r.entries[i] = e
        BY <1>4, <3>2
      <4> HIDE DEF e
      <4>3. e.seq < h.next + 1
        BY <2>1, <4>1
      <4>4. QED BY <4>1, <4>2, <4>3
    <3>3. QED BY <1>6, <3>1, <3>2
  <2>3. ASSUME NEW i \in 1 .. c + 1, NEW j \in 1 .. c + 1, i < j
        PROVE  r.entries[i].seq < r.entries[j].seq
    <3>1. i \in 1 .. c /\ i \in 1 .. n /\ r.entries[i] = h.entries[i]
      BY <1>3, <1>4, <2>3
    <3>2. CASE j = c + 1
      <4>1. r.entries[j].seq = h.next
        BY <1>4, <3>2
      <4>2. h.entries[i].seq < h.next
        BY <3>1 DEF Walk, Numbered
      <4>3. QED BY <3>1, <4>1, <4>2
    <3>3. CASE j \in 1 .. c /\ j \in 1 .. n
      <4>1. h.entries[i].seq < h.entries[j].seq
        BY <2>3, <3>1, <3>3 DEF Walk, Numbered
      <4>2. QED BY <1>4, <3>1, <3>3, <4>1
    <3>4. QED BY <1>6, <3>2, <3>3
  <2>4. h.next + 1 \in Nat /\ h.base < h.next + 1
    BY <2>1
  <2>5. QED BY <1>4, <1>5, <2>1, <2>2, <2>3, <2>4 DEF Numbered
<1>8. Chain(t, r, D, q.done)
  <2>1. ASSUME NEW i \in 0 .. c + 1 PROVE View(t[i], D) /\ Uses(t[i]) \subseteq q.done
    <3>1. CASE i <= c
      <4>1. i \in 0 .. n /\ t[i] = s[i]
        BY <1>3, <3>1
      <4>2. View(s[i], D) /\ Uses(s[i]) \subseteq p.done
        BY <4>1 DEF Walk, Chain
      <4>3. QED BY <4>1, <4>2
    <3>2. CASE ~(i <= c)
      <4>1. t[i] = q.doc
        BY <3>2
      <4>2. View(q.doc, D) /\ Uses(q.doc) \subseteq q.done
        BY DEF Sane, Valid
      <4>3. QED BY <4>1, <4>2
    <3>3. QED BY <3>1, <3>2
  <2>2. ASSUME NEW i \in 1 .. c + 1
        PROVE  Links(t[i - 1], r.entries[i].patch, t[i], D) /\ Under(r.entries[i].after, t[i])
    <3>1. CASE i = c + 1
      <4>1. t[i - 1] = p.doc /\ t[i] = q.doc
        BY <1>3, <3>1
      <4>2. r.entries[i].patch = patch /\ r.entries[i].after = q.doc
        BY <1>4, <3>1
      <4>3. Under(q.doc, q.doc)
        BY DEF Under
      <4>4. QED BY <4>1, <4>2, <4>3
    <3>2. CASE i \in 1 .. c /\ i \in 1 .. n
      <4>1. t[i - 1] = s[i - 1] /\ t[i] = s[i] /\ r.entries[i] = h.entries[i]
        BY <1>3, <1>4, <3>2
      <4>2. Links(s[i - 1], h.entries[i].patch, s[i], D) /\ Under(h.entries[i].after, s[i])
        BY <3>2 DEF Walk, Chain
      <4>3. QED BY <4>1, <4>2
    <3>3. QED BY <1>6, <3>1, <3>2
  <2>3. t = [i \in 0 .. c + 1 |-> t[i]]
    OBVIOUS
  <2> HIDE DEF t
  <2>4. QED BY <1>4, <2>1, <2>2, <2>3 DEF Chain
<1>9. SeqAt(r, c + 1) = r.cursor /\ c + 1 \in 0 .. c + 1 /\ t[c + 1] = q.doc
  BY <1>3, <1>4, <1>5 DEF SeqAt
<1>10. Under(b.doc, t[0])
  BY <1>3 DEF Walk
<1>11. Walk(t, k, r, q, b)
  <2> HIDE DEF t
  <2> QED BY <1>4, <1>7, <1>8, <1>9, <1>10 DEF Walk
<1> HIDE DEF t
<1>12. QED BY <1>4, <1>5, <1>11 DEF r

\* A compaction starts the walk further on.
CompactsTo(r, h, p, s, drop) ==
    /\ r.base = [p EXCEPT !.doc = s[drop]]
    /\ r.h = [entries |-> SubSeq(h.entries, drop + 1, Len(h.entries)), cursor |-> h.cursor,
              base |-> SeqAt(h, drop), next |-> h.next]

LEMMA CompactedIs ==
  ASSUME NEW s, NEW c, NEW h, NEW p, NEW b, Walk(s, c, h, p, b), NEW drop \in 0 .. c
  PROVE  CompactsTo(CompactedTo(h, p, drop), h, p, s, drop)
<1> DEFINE n == Len(h.entries)
           S == {i \in drop .. c : \A j \in i .. c : s[j] # Drifted}
           w == WalkBack(h, p.doc, drop)
<1>1. CursorPosition(h) = c /\ States(h, p.doc) = s
  BY StatesAre
<1>2. c \in 0 .. n /\ n \in Nat /\ drop \in 0 .. n
  BY EntryFacts DEF Walk
<1>3. \A i \in 0 .. n : s[i] # Drifted
  <2>1. TAKE i \in 0 .. n
  <2>2. View(s[i], DOMAIN p.doc) /\ TL \in DOMAIN p.doc
    BY DEF Walk, Chain, Sane
  <2>3. TL \in DOMAIN s[i]
    BY <2>2 DEF View
  <2>4. QED BY <2>3 DEF Drifted
<1>4. drop \in S /\ S \in SUBSET Int /\ \A i \in S : drop <= i
  <2>1. \A j \in drop .. c : j \in 0 .. n
    BY <1>2
  <2>2. drop \in drop .. c /\ \A i \in drop .. c : i \in Int /\ drop <= i
    BY <1>2
  <2>3. QED BY <1>3, <2>1, <2>2
<1>5. Min(S) = drop
  <2> HIDE DEF S
  <2> QED BY <1>4, MinIs
<1>6. WalkBack(h, p.doc, drop) = [pos |-> drop, doc |-> s[drop]]
  <2>1. WalkBack(h, p.doc, drop) = [pos |-> Min(S), doc |-> s[Min(S)]]
    BY <1>1, Zenon DEF WalkBack
  <2>2. QED BY <1>5, <2>1
<1>7. w.pos = drop /\ w.doc = s[drop]
  BY <1>6
<1>8. CompactedTo(h, p, drop)
        = [h |-> Rewritten(h, SubSeq(h.entries, w.pos + 1, Len(h.entries)), SeqAt(h, w.pos), h.cursor),
           base |-> [p EXCEPT !.doc = w.doc]]
  BY Zenon DEF CompactedTo
<1> HIDE DEF w, n, S
<1>9. CompactedTo(h, p, drop)
        = [h |-> Rewritten(h, SubSeq(h.entries, drop + 1, Len(h.entries)), SeqAt(h, drop), h.cursor),
           base |-> [p EXCEPT !.doc = s[drop]]]
  BY <1>7, <1>8
<1>10. h = [entries |-> h.entries, cursor |-> h.cursor, base |-> h.base, next |-> h.next]
  BY DEF Walk, Numbered
<1>11. \A e, x : Rewritten(h, e, x, h.cursor) = [entries |-> e, cursor |-> h.cursor, base |-> x, next |-> h.next]
  <2>1. TAKE e, x
  <2>2. Rewritten(h, e, x, h.cursor) = [h EXCEPT !.entries = e, !.base = x, !.cursor = h.cursor]
    BY DEF Rewritten
  <2>3. QED BY <1>10, <2>2
<1>12. CompactedTo(h, p, drop).h = Rewritten(h, SubSeq(h.entries, drop + 1, Len(h.entries)), SeqAt(h, drop), h.cursor)
  BY <1>9
<1>13. CompactedTo(h, p, drop).base = [p EXCEPT !.doc = s[drop]]
  BY <1>9
<1>14. QED BY <1>11, <1>12, <1>13 DEF CompactsTo

LEMMA CompactWalks ==
  ASSUME NEW s, NEW c, NEW h, NEW p, NEW b, Walk(s, c, h, p, b), NEW drop \in 0 .. c
  PROVE  /\ \E t : Walk(t, c - drop, CompactedTo(h, p, drop).h, p, CompactedTo(h, p, drop).base)
         /\ CompactedTo(h, p, drop).h.next = h.next
<1> DEFINE r == CompactedTo(h, p, drop)
           n == Len(h.entries)
           m == n - drop
           D == DOMAIN p.doc
           q == SubSeq(h.entries, drop + 1, n)
           t == [i \in 0 .. m |-> s[drop + i]]
<1>1. CompactsTo(r, h, p, s, drop)
  BY CompactedIs
<1> HIDE DEF r
<1>2. /\ h.entries \in Seq(Range(h.entries)) /\ n \in Nat
      /\ \A i \in 1 .. n : h.entries[i] \in Range(h.entries) /\ h.entries[i].seq \in Nat
                            /\ h.base < h.entries[i].seq /\ h.entries[i].seq < h.next
      /\ \A i, j \in 1 .. n : i < j => h.entries[i].seq < h.entries[j].seq
      /\ h.base \in Nat /\ h.cursor \in Nat /\ h.next \in Nat
  BY EntryFacts DEF Walk
<1>3. c \in 0 .. n /\ drop \in 0 .. n /\ drop <= c /\ m \in Nat /\ h.base < h.next
  BY <1>2 DEF Walk, Numbered
<1>4. /\ r.h.entries = q /\ r.h.cursor = h.cursor /\ r.h.next = h.next
      /\ r.h.base = SeqAt(h, drop) /\ r.base.doc = s[drop]
      /\ r.h = [entries |-> r.h.entries, cursor |-> r.h.cursor, base |-> r.h.base, next |-> r.h.next]
  <2>1. r.base.doc = s[drop]
    <3>1. p = [doc |-> p.doc, done |-> p.done, num |-> p.num]
      BY DEF Walk, Sane
    <3>2. QED BY <1>1, <3>1 DEF CompactsTo
  <2>2. r.h = [entries |-> q, cursor |-> h.cursor, base |-> SeqAt(h, drop), next |-> h.next]
    BY <1>1 DEF CompactsTo
  <2>3. QED BY <2>1, <2>2
<1> HIDE DEF n
<1>5. /\ q \in Seq(Range(h.entries)) /\ Len(q) = m
      /\ \A i \in 1 .. m : q[i] = h.entries[drop + i]
  BY <1>2, <1>3 DEF n
<1>6. q \in Seq(Range(q))
  <2> HIDE DEF q
  <2> QED BY <1>5, SeqOverRange
<1> HIDE DEF q, m
<1>7. \A i \in 1 .. m : drop + i \in 1 .. n /\ (drop + i) - 1 = drop + (i - 1) /\ i \in 0 .. m /\ i - 1 \in 0 .. m
  BY <1>2, <1>3 DEF m
<1>8. \A i \in 0 .. m : drop + i \in 0 .. n
  BY <1>2, <1>3 DEF m
<1>9. r.h.base \in Nat /\ r.h.base < h.next /\ \A i \in 1 .. m : r.h.base < h.entries[drop + i].seq
  <2>1. CASE drop = 0
    BY <1>2, <1>3, <1>4, <1>7, <2>1 DEF SeqAt
  <2>2. CASE drop # 0
    <3>1. r.h.base = h.entries[drop].seq /\ drop \in 1 .. n
      BY <1>3, <1>4, <2>2 DEF SeqAt
    <3>2. \A i \in 1 .. m : drop < drop + i
      BY <1>3
    <3>3. QED BY <1>2, <1>7, <3>1, <3>2
  <2>3. QED BY <2>1, <2>2
<1>10. Numbered(r.h)
  <2>1. ASSUME NEW i \in 1 .. m
        PROVE  LET e == q[i]
               IN  /\ e = [seq |-> e.seq, patch |-> e.patch, after |-> e.after]
                   /\ e.seq \in Nat /\ r.h.base < e.seq /\ e.seq < h.next
    <3> DEFINE e == h.entries[drop + i]
    <3>1. drop + i \in 1 .. n /\ q[i] = e
      BY <1>5, <1>7
    <3>2. /\ e = [seq |-> e.seq, patch |-> e.patch, after |-> e.after]
          /\ e.seq \in Nat /\ e.seq < h.next
      BY <3>1 DEF Walk, Numbered, n
    <3>3. r.h.base < e.seq
      BY <1>9
    <3> HIDE DEF e
    <3>4. QED BY <3>1, <3>2, <3>3
  <2>2. ASSUME NEW i \in 1 .. m, NEW j \in 1 .. m, i < j PROVE q[i].seq < q[j].seq
    <3>1. drop + i \in 1 .. n /\ drop + j \in 1 .. n /\ drop + i < drop + j
      BY <1>3, <1>7, <2>2
    <3>2. h.entries[drop + i].seq < h.entries[drop + j].seq
      BY <1>2, <3>1
    <3>3. QED BY <1>5, <3>2
  <2>3. QED BY <1>2, <1>4, <1>5, <1>6, <1>9, <2>1, <2>2 DEF Numbered
<1>11. Chain(t, r.h, D, p.done)
  <2>1. ASSUME NEW i \in 0 .. m PROVE View(t[i], D) /\ Uses(t[i]) \subseteq p.done
    <3>1. t[i] = s[drop + i] /\ drop + i \in 0 .. n
      BY <1>8
    <3>2. View(s[drop + i], D) /\ Uses(s[drop + i]) \subseteq p.done
      BY <3>1 DEF Walk, Chain, n
    <3>3. QED BY <3>1, <3>2
  <2>2. ASSUME NEW i \in 1 .. m
        PROVE  Links(t[i - 1], q[i].patch, t[i], D) /\ Under(q[i].after, t[i])
    <3>1. t[i - 1] = s[(drop + i) - 1] /\ t[i] = s[drop + i] /\ q[i] = h.entries[drop + i]
      BY <1>5, <1>7
    <3>2. drop + i \in 1 .. n
      BY <1>7
    <3>3. \A k \in 1 .. n : Links(s[k - 1], h.entries[k].patch, s[k], D) /\ Under(h.entries[k].after, s[k])
      BY DEF Walk, Chain, n
    <3> HIDE DEF D, t
    <3>4. QED BY <3>1, <3>2, <3>3
  <2>3. t = [i \in 0 .. m |-> t[i]]
    OBVIOUS
  <2> HIDE DEF t
  <2>4. QED BY <1>4, <1>5, <2>1, <2>2, <2>3 DEF Chain
<1>12. c - drop \in 0 .. m /\ t[c - drop] = p.doc /\ SeqAt(r.h, c - drop) = r.h.cursor
  <2>1. c - drop \in 0 .. m /\ drop + (c - drop) = c
    BY <1>2, <1>3 DEF m
  <2>2. t[c - drop] = s[c] /\ s[c] = p.doc
    BY <2>1 DEF Walk
  <2>3. SeqAt(r.h, c - drop) = SeqAt(h, c)
    <3>1. CASE c = drop
      BY <1>3, <1>4, <3>1 DEF SeqAt
    <3>2. CASE c # drop
      <4>1. c - drop \in 1 .. m /\ c - drop # 0 /\ c # 0
        BY <1>2, <1>3, <3>2 DEF m
      <4>2. q[c - drop] = h.entries[c]
        BY <1>5, <2>1, <4>1
      <4>3. QED BY <1>4, <4>1, <4>2 DEF SeqAt
    <3>3. QED BY <3>1, <3>2
  <2>4. SeqAt(h, c) = h.cursor
    BY DEF Walk
  <2> HIDE DEF t
  <2>5. QED BY <1>4, <2>1, <2>2, <2>3, <2>4
<1>13. Under(r.base.doc, t[0])
  <2>1. t[0] = s[drop] /\ drop \in 0 .. n
    BY <1>3
  <2>2. QED BY <1>4, <2>1 DEF Under
<1>14. Walk(t, c - drop, r.h, p, r.base)
  <2> HIDE DEF t
  <2>1. Sane(p)
    BY DEF Walk
  <2>2. QED BY <1>4, <1>5, <1>10, <1>11, <1>12, <1>13, <2>1 DEF Walk
<1> HIDE DEF t
<1>15. QED BY <1>4, <1>14 DEF r

\* What a step with a history effect promises.
Goes(r, h, q, b) ==
    /\ r.p = q /\ h.next <= r.h.next
    /\ \E t, k : Walk(t, k, r.h, q, IF r.op = "rewrite" THEN r.base ELSE b)

\* A commit goes on from the project it was computed on.
LEMMA CommitGoes ==
  ASSUME NEW s, NEW c, NEW h, NEW p, NEW b, Walk(s, c, h, p, b), NEW q, Sane(q),
         DOMAIN p.doc \subseteq DOMAIN q.doc, p.done \subseteq q.done
  PROVE  Goes(Commit(h, p, q), h, q, b)
<1> DEFINE E == DOMAIN q.doc
           d == [x \in E |-> IF x \in DOMAIN p.doc THEN p.doc[x] ELSE q.doc[x]]
           o == [doc |-> d, done |-> q.done, num |-> q.num]
           patch == Diff(p.doc, q.doc)
           next == Appended(h, patch, q.doc)
           drop == Dropped(next)
           short == CompactedTo(next, q, drop)
           r == Commit(h, p, q)
<1>1. Sane(p)
  BY DEF Walk
<1>2. DOMAIN d = E /\ \A x \in DOMAIN p.doc : d[x] = p.doc[x]
  OBVIOUS
<1>3. o.doc = d /\ o.done = q.done /\ o.num = q.num
  OBVIOUS
<1>4. Sane(o)
  <2>1. Uses(d) = Uses(p.doc) /\ Uses(p.doc) \subseteq p.done
    BY <1>1, <1>2 DEF Sane, Valid, Uses
  <2>2. View(d, E)
    BY DEF View
  <2>3. o = [doc |-> o.doc, done |-> o.done, num |-> o.num]
    OBVIOUS
  <2>4. Pool(o) = Pool(q)
    BY <1>2, <1>3 DEF Pool
  <2> HIDE DEF d, o
  <2>5. Valid(o)
    BY <1>3, <2>1, <2>4 DEF Valid, Sane
  <2>6. QED BY <1>2, <1>3, <2>2, <2>3, <2>5 DEF Sane
<1>5. PICK t : Walk(t, c, h, o, b)
  <2> HIDE DEF d, o
  <2> QED BY <1>2, <1>3, <1>4, Extends
<1>6. /\ DOMAIN patch = {x \in DOMAIN p.doc \cap E : p.doc[x] # q.doc[x]}
      /\ \A x \in DOMAIN patch : patch[x] = [from |-> p.doc[x], to |-> q.doc[x]]
  BY DEF Diff
<1>7. View(q.doc, E)
  BY DEF Sane
<1>8. r = IF DOMAIN patch = {} THEN [p |-> q, h |-> h, op |-> "none", base |-> q]
          ELSE IF drop = 0 THEN [p |-> q, h |-> next, op |-> "append", base |-> q]
          ELSE [p |-> q, h |-> short.h, op |-> "rewrite", base |-> short.base]
  BY Zenon DEF Commit
<1>9. h.next \in Nat
  BY DEF Walk, Numbered
<1> HIDE DEF patch, next, drop, short, r
<1>10. CASE DOMAIN patch = {}
  <2>1. d = q.doc
    BY <1>6, <1>7, <1>10 DEF View
  <2>2. o = q
    BY <2>1 DEF Sane
  <2>3. r.p = q /\ r.h = h /\ r.op = "none"
    BY <1>8, <1>10
  <2> HIDE DEF o, d
  <2>4. Walk(t, c, r.h, q, IF r.op = "rewrite" THEN r.base ELSE b)
    BY <1>5, <2>2, <2>3
  <2>5. h.next <= r.h.next
    BY <1>9, <2>3
  <2>6. QED BY <2>3, <2>4, <2>5 DEF Goes, r
<1>11. CASE DOMAIN patch # {}
  <2>1. Links(o.doc, patch, q.doc, DOMAIN o.doc)
    BY <1>2, <1>3, <1>6 DEF Links
  <2> HIDE DEF o, d
  <2>2. DOMAIN q.doc = DOMAIN o.doc /\ o.done \subseteq q.done
    BY <1>2, <1>3
  <2>3. PICK k : k = c + 1
    OBVIOUS
  <2>4. (\E u : Walk(u, k, next, q, b)) /\ next.next = h.next + 1 /\ Len(next.entries) = k
    BY <1>5, <2>1, <2>2, <2>3, AppendWalks DEF next
  <2>5. PICK u : Walk(u, k, next, q, b)
    BY <2>4
  <2>6. CASE drop = 0
    <3>1. r.p = q /\ r.h = next /\ r.op = "append"
      BY <1>8, <1>11, <2>6
    <3>2. Walk(u, k, r.h, q, IF r.op = "rewrite" THEN r.base ELSE b)
      BY <2>5, <3>1
    <3>3. h.next <= r.h.next
      BY <1>9, <2>4, <3>1
    <3>4. QED BY <3>1, <3>2, <3>3 DEF Goes, r
  <2>7. CASE drop # 0
    <3>1. CursorPosition(next) = k
      BY <2>5, StatesAre
    <3>2. Len(next.entries) = k /\ k \in Nat
      BY <2>4, <2>5, EntryFacts DEF Walk
    <3>3. drop \in 0 .. k
      <4>1. k > Above /\ drop = Min({k - Keep, k})
        BY <2>7, <3>1, <3>2, CompactAssumption DEF drop, Dropped
      <4>2. Keep \in Nat /\ k - Keep \in Nat
        BY <3>2, <4>1, CompactAssumption
      <4>3. Min({k - Keep, k}) = k - Keep
        <5>1. {k - Keep, k} \subseteq Int /\ \A x \in {k - Keep, k} : k - Keep <= x
          BY <3>2, <4>2
        <5>2. QED BY <5>1, MinIs
      <4>4. QED BY <3>2, <4>1, <4>2, <4>3
    <3>4. (\E v : Walk(v, k - drop, short.h, q, short.base)) /\ short.h.next = next.next
      BY <2>5, <3>3, CompactWalks DEF short
    <3>5. r.p = q /\ r.h = short.h /\ r.op = "rewrite" /\ r.base = short.base
      BY <1>8, <1>11, <2>7
    <3>6. PICK v : Walk(v, k - drop, short.h, q, short.base)
      BY <3>4
    <3>7. Walk(v, k - drop, r.h, q, IF r.op = "rewrite" THEN r.base ELSE b)
      BY <3>5, <3>6
    <3>8. h.next <= r.h.next
      BY <1>9, <2>4, <3>4, <3>5
    <3>9. QED BY <3>5, <3>7, <3>8 DEF Goes, r
  <2>8. QED BY <2>6, <2>7
<1>12. QED BY <1>10, <1>11 DEF r

----------------------------------------------------------------------------
(* Purges.                                                                 *)

\* The entries that go are those around a state that uses a purged take.
LEMMA FrontBack ==
  ASSUME NEW s, NEW c, NEW h, NEW p, NEW b, Walk(s, c, h, p, b),
         NEW takes, Uses(p.doc) \cap takes = {}
  PROVE  /\ Front(h, s, takes) \in 0 .. c
         /\ Back(h, s, takes) \in c .. Len(h.entries)
         /\ \A i \in Front(h, s, takes) .. Back(h, s, takes) : Uses(s[i]) \cap takes = {}
<1> DEFINE n == Len(h.entries)
           before == {i \in 0 .. c - 1 : Unwanted(s[i], takes)}
           behind == {i \in c + 1 .. n : Unwanted(s[i], takes)}
           front == Front(h, s, takes)
           back == Back(h, s, takes)
<1>1. CursorPosition(h) = c
  BY StatesAre
<1>2. n \in Nat /\ c \in 0 .. n /\ s[c] = p.doc
  BY EntryFacts DEF Walk
<1>3. front = IF before = {} THEN 0 ELSE Max(before) + 1
  BY <1>1, Zenon DEF Front
<1>4. back = IF behind = {} THEN n ELSE Min(behind) - 1
  BY <1>1, Zenon DEF Back
<1>5. \A i \in 0 .. c - 1 : i \notin before => Uses(s[i]) \cap takes = {}
  BY DEF Unwanted
<1>6. \A i \in c + 1 .. n : i \notin behind => Uses(s[i]) \cap takes = {}
  BY DEF Unwanted
<1>7. \A i \in before : i \in 0 .. c - 1
  OBVIOUS
<1>8. \A i \in behind : i \in c + 1 .. n
  OBVIOUS
<1> HIDE DEF n, before, behind, front, back
<1>9. front \in 0 .. c /\ \A i \in before : i < front
  <2>1. CASE before = {}
    BY <1>2, <1>3, <2>1
  <2>2. CASE before # {}
    <3>1. before \in SUBSET (0 .. c) /\ c \in Nat
      BY <1>2, <1>7
    <3>2. Max(before) \in before /\ \A i \in before : i <= Max(before)
      BY <2>2, <3>1, HasMax
    <3>3. QED BY <1>2, <1>3, <1>7, <2>2, <3>2
  <2>3. QED BY <2>1, <2>2
<1>10. back \in c .. n /\ \A i \in behind : back < i
  <2>1. CASE behind = {}
    BY <1>2, <1>4, <2>1
  <2>2. CASE behind # {}
    <3>1. behind \in SUBSET (0 .. n)
      BY <1>2, <1>8
    <3>2. Min(behind) \in behind /\ \A i \in behind : Min(behind) <= i
      BY <1>2, <2>2, <3>1, HasMin
    <3>3. QED BY <1>2, <1>4, <1>8, <2>2, <3>2
  <2>3. QED BY <2>1, <2>2
<1>11. ASSUME NEW i \in front .. back PROVE Uses(s[i]) \cap takes = {}
  <2>1. CASE i < c
    <3>1. i \in 0 .. c - 1 /\ i \notin before
      BY <1>2, <1>9, <2>1
    <3>2. QED BY <1>5, <3>1
  <2>2. CASE i = c
    BY <1>2, <2>2
  <2>3. CASE i > c
    <3>1. i \in c + 1 .. n /\ i \notin behind
      BY <1>2, <1>9, <1>10, <2>3
    <3>2. QED BY <1>6, <3>1
  <2>4. QED BY <1>2, <1>9, <1>10, <2>1, <2>2, <2>3
<1>12. QED BY <1>9, <1>10, <1>11 DEF front, back, n

\* The views w the entries o lead through are some of v's first i, and the last
\* view o reaches without passing the cursor is the one v has at k, or its last.
Squeezed(o, w, r, i, C, bare, v, E, k, cursor) ==
    /\ o \in Seq(C)
    /\ w = [x \in 0 .. Len(o) |-> w[x]]
    /\ w[0] = v[0] /\ w[Len(o)] = v[i]
    /\ \A x \in 0 .. Len(o) : \E j \in 0 .. i : w[x] = v[j]
    /\ \A x \in 1 .. Len(o) : Links(w[x - 1], o[x].patch, w[x], E)
    /\ \A x \in 1 .. Len(o) : \E j \in 1 .. i : o[x] = bare[j]
    /\ \A x, y \in 1 .. Len(o) : x < y => o[x].seq < o[y].seq
    /\ r \in 0 .. Len(o) /\ w[r] = v[IF i <= k THEN i ELSE k]
    /\ \A x \in 1 .. Len(o) : x <= r <=> o[x].seq <= cursor

\* Without its empty patches a walk leads through the same views.
LEMMA SqueezeWalks ==
  ASSUME NEW C, NEW bare \in Seq(C), NEW v, NEW E, NEW k \in 0 .. Len(bare), NEW cursor \in Nat,
         \A j \in 0 .. Len(bare) : View(v[j], E),
         \A j \in 1 .. Len(bare) : Links(v[j - 1], bare[j].patch, v[j], E),
         \A j \in 1 .. Len(bare) : bare[j].seq \in Nat,
         \A i, j \in 1 .. Len(bare) : i < j => bare[i].seq < bare[j].seq,
         \A j \in 1 .. Len(bare) : j <= k <=> bare[j].seq <= cursor,
         NEW S, \A j \in 1 .. Len(bare) : bare[j] \in S <=> DOMAIN bare[j].patch # {}
  PROVE  \E w, r : Squeezed(Only(bare, S), w, r, Len(bare), C, bare, v, E, k, cursor)
<1> DEFINE n == Len(bare)
           At(i) == IF i <= k THEN i ELSE k
           Sq(o, w, r, i) == Squeezed(o, w, r, i, C, bare, v, E, k, cursor)
<1>1. PICK g \in [0 .. n -> Seq(C)] :
           /\ Only(bare, S) = g[n]
           /\ g[0] = <<>>
           /\ \A i \in 1 .. n :
                g[i] = IF bare[i] \in S THEN Append(g[i - 1], bare[i]) ELSE g[i - 1]
  BY OnlyIs
<1>2. n \in Nat /\ k \in 0 .. n
  OBVIOUS
<1> DEFINE I == {i \in 0 .. n : \E w, r : Sq(g[i], w, r, i)}
<1>3. 0 \in I
  <2> DEFINE w == [x \in 0 .. 0 |-> v[0]]
  <2>1. Sq(<<>>, w, 0, 0)
    BY <1>2 DEF Squeezed
  <2> HIDE DEF Sq, w
  <2>2. \E u, r : Sq(g[0], u, r, 0)
    BY <1>1, <2>1
  <2>3. QED BY <1>2, <2>2
<1>4. ASSUME NEW i \in 1 .. n, i - 1 \in I PROVE i \in I
  <2>1. PICK w, r : Sq(g[i - 1], w, r, i - 1)
    <3> HIDE DEF Sq
    <3> QED BY <1>4
  <2> DEFINE q == g[i - 1]
             l == Len(q)
             e == bare[i]
  <2>2. q \in Seq(C) /\ l \in Nat /\ e \in C /\ i \in 0 .. n /\ i - 1 \in 0 .. n /\ r \in 0 .. l
    BY <2>1 DEF Squeezed
  <2>3. \A x \in 1 .. l : \E j \in 1 .. i - 1 : q[x] = bare[j]
    BY <2>1 DEF Squeezed
  <2>4. \A x \in 1 .. l : q[x].seq \in Nat /\ q[x].seq < e.seq
    <3>1. TAKE x \in 1 .. l
    <3>2. PICK j \in 1 .. i - 1 : q[x] = bare[j]
      BY <2>3
    <3>3. j \in 1 .. n /\ j < i
      BY <1>2
    <3>4. bare[j].seq \in Nat /\ bare[j].seq < bare[i].seq
      BY <3>3
    <3>5. QED BY <3>2, <3>4
  <2>5. e.seq \in Nat /\ (i <= k <=> e.seq <= cursor) /\ Links(v[i - 1], e.patch, v[i], E)
    OBVIOUS
  <2>6. w[0] = v[0] /\ w[l] = v[i - 1] /\ w[r] = v[At(i - 1)]
    BY <2>1 DEF Squeezed
  <2>7. \A x \in 0 .. l : \E j \in 0 .. i - 1 : w[x] = v[j]
    BY <2>1 DEF Squeezed
  <2>8. /\ \A x \in 1 .. l : Links(w[x - 1], q[x].patch, w[x], E)
        /\ \A x, y \in 1 .. l : x < y => q[x].seq < q[y].seq
        /\ \A x \in 1 .. l : x <= r <=> q[x].seq <= cursor
    BY <2>1 DEF Squeezed
  <2>9. w = [x \in 0 .. l |-> w[x]]
    BY <2>1 DEF Squeezed
  <2>10. CASE e \in S
    <3> DEFINE o == Append(q, e)
               u == [x \in 0 .. l + 1 |-> IF x <= l THEN w[x] ELSE v[i]]
               t == IF i <= k THEN l + 1 ELSE r
    <3>1. g[i] = o
      BY <1>1, <2>10
    <3>2. o \in Seq(C) /\ Len(o) = l + 1 /\ o[l + 1] = e /\ \A x \in 1 .. l : o[x] = q[x]
      <4> HIDE DEF q, e
      <4> QED BY <2>2
    <3>3. u = [x \in 0 .. l + 1 |-> u[x]]
      OBVIOUS
    <3>4. u[l + 1] = v[i] /\ \A x \in 0 .. l : u[x] = w[x]
      BY <2>2
    <3> HIDE DEF q, l, e, o, u
    <3>5. \A x \in 1 .. l + 1 : x = l + 1 \/ x \in 1 .. l
      BY <2>2
    <3>6. ASSUME NEW x \in 0 .. l + 1 PROVE \E j \in 0 .. i : u[x] = v[j]
      <4>1. CASE x = l + 1
        BY <1>2, <3>4, <4>1
      <4>2. CASE x # l + 1
        <5>1. x \in 0 .. l
          BY <2>2, <4>2
        <5>2. PICK j \in 0 .. i - 1 : w[x] = v[j]
          BY <2>7, <5>1
        <5>3. j \in 0 .. i
          BY <1>2
        <5>4. QED BY <3>4, <5>1, <5>2, <5>3
      <4>3. QED BY <4>1, <4>2
    <3>7. ASSUME NEW x \in 1 .. l + 1 PROVE Links(u[x - 1], o[x].patch, u[x], E)
      <4>1. CASE x = l + 1
        <5>1. u[x - 1] = v[i - 1] /\ u[x] = v[i] /\ o[x] = e
          BY <2>2, <2>6, <3>2, <3>4, <4>1
        <5>2. QED BY <2>5, <5>1
      <4>2. CASE x \in 1 .. l
        <5>1. u[x - 1] = w[x - 1] /\ u[x] = w[x] /\ o[x] = q[x]
          BY <2>2, <3>2, <3>4, <4>2
        <5>2. QED BY <2>8, <4>2, <5>1
      <4>3. QED BY <3>5, <4>1, <4>2
    <3>8. ASSUME NEW x \in 1 .. l + 1 PROVE \E j \in 1 .. i : o[x] = bare[j]
      <4>1. CASE x = l + 1
        BY <1>2, <3>2, <4>1 DEF e
      <4>2. CASE x \in 1 .. l
        <5>1. PICK j \in 1 .. i - 1 : q[x] = bare[j]
          BY <2>3, <4>2
        <5>2. j \in 1 .. i
          BY <1>2
        <5>3. QED BY <3>2, <4>2, <5>1, <5>2
      <4>3. QED BY <3>5, <4>1, <4>2
    <3>9. ASSUME NEW x \in 1 .. l + 1, NEW y \in 1 .. l + 1, x < y PROVE o[x].seq < o[y].seq
      <4>1. x \in 1 .. l
        BY <2>2, <3>9
      <4>2. CASE y = l + 1
        BY <2>4, <3>2, <4>1, <4>2
      <4>3. CASE y \in 1 .. l
        BY <2>8, <3>2, <3>9, <4>1, <4>3
      <4>4. QED BY <3>5, <4>2, <4>3
    <3>10. t \in 0 .. l + 1 /\ u[t] = v[At(i)]
      <4>1. CASE i <= k
        BY <2>2, <3>4, <4>1
      <4>2. CASE ~(i <= k)
        <5>1. t = r /\ u[r] = w[r] /\ At(i) = k /\ At(i - 1) = k
          BY <1>2, <2>2, <3>4, <4>2
        <5>2. QED BY <2>2, <2>6, <5>1
      <4>3. QED BY <4>1, <4>2
    <3>11. ASSUME NEW x \in 1 .. l + 1 PROVE x <= t <=> o[x].seq <= cursor
      <4>1. CASE i <= k
        <5>1. x <= t
          BY <2>2, <4>1
        <5>2. CASE x = l + 1
          BY <2>5, <3>2, <4>1, <5>1, <5>2
        <5>3. CASE x \in 1 .. l
          <6>1. q[x].seq \in Nat /\ q[x].seq < e.seq /\ e.seq \in Nat /\ e.seq <= cursor
            BY <2>4, <2>5, <4>1, <5>3
          <6>2. QED BY <3>2, <5>1, <5>3, <6>1
        <5>4. QED BY <3>5, <5>2, <5>3
      <4>2. CASE ~(i <= k)
        <5>1. t = r
          BY <4>2
        <5>2. CASE x = l + 1
          BY <2>2, <2>5, <3>2, <4>2, <5>1, <5>2
        <5>3. CASE x \in 1 .. l
          BY <2>8, <3>2, <5>1, <5>3
        <5>4. QED BY <3>5, <5>2, <5>3
      <4>3. QED BY <4>1, <4>2
    <3>12. u[0] = v[0]
      BY <2>2, <2>6, <3>4
    <3> HIDE DEF t
    <3>13. Sq(o, u, t, i)
      BY <3>2, <3>3, <3>4, <3>6, <3>7, <3>8, <3>9, <3>10, <3>11, <3>12 DEF Squeezed
    <3> HIDE DEF Sq
    <3>14. \E a, z : Sq(g[i], a, z, i)
      BY <3>1, <3>13
    <3>15. QED BY <2>2, <3>14
  <2>11. CASE e \notin S
    <3>1. g[i] = q
      BY <1>1, <2>11
    <3>2. v[i - 1] = v[i]
      <4>1. DOMAIN e.patch = {}
        BY <2>11
      <4>2. \A x \in E : v[i - 1][x] = v[i][x]
        BY <2>5, <4>1 DEF Links
      <4>3. v[i - 1] = [x \in E |-> v[i - 1][x]] /\ v[i] = [x \in E |-> v[i][x]]
        BY <2>2 DEF View
      <4>4. QED BY <4>2, <4>3
    <3>3. w[r] = v[At(i)]
      <4>1. CASE i <= k
        BY <1>2, <2>6, <3>2, <4>1
      <4>2. CASE ~(i <= k)
        BY <1>2, <2>6, <4>2
      <4>3. QED BY <4>1, <4>2
    <3> HIDE DEF q, l, e
    <3>4. \A x \in 1 .. l : \E j \in 1 .. i : q[x] = bare[j]
      <4>1. \A j \in 1 .. i - 1 : j \in 1 .. i
        BY <1>2
      <4>2. QED BY <2>3, <4>1
    <3>5. \A x \in 0 .. l : \E j \in 0 .. i : w[x] = v[j]
      <4>1. \A j \in 0 .. i - 1 : j \in 0 .. i
        BY <1>2
      <4>2. QED BY <2>7, <4>1
    <3>6. Sq(q, w, r, i)
      BY <2>2, <2>6, <2>8, <2>9, <3>2, <3>3, <3>4, <3>5 DEF Squeezed, l
    <3> HIDE DEF Sq
    <3>7. \E a, z : Sq(g[i], a, z, i)
      BY <3>1, <3>6
    <3>8. QED BY <2>2, <3>7
  <2>12. QED BY <2>10, <2>11
<1>5. 0 .. n \subseteq I
  <2> HIDE DEF I, n
  <2> QED BY <1>2, <1>3, <1>4, Upwards
<1>6. \E w, r : Sq(g[n], w, r, n)
  <2> HIDE DEF Sq
  <2>1. n \in I
    BY <1>2, <1>5
  <2>2. QED BY <2>1
<1>7. QED BY <1>1, <1>6

\* The hashes are of the views the entries lead to.
LEMMA RehashedIs ==
  ASSUME NEW C, NEW o \in Seq(C), NEW w, NEW doc, w[0] = doc,
         \A x \in 1 .. Len(o) : Step(w[x - 1], o[x].patch) = w[x]
  PROVE  Rehashed(o, doc) = [x \in 1 .. Len(o) |-> [o[x] EXCEPT !.after = w[x]]]
<1> DEFINE n == Len(o)
           On(f) == f = [i \in 0 .. n |-> IF i = 0 THEN doc ELSE Step(f[i - 1], o[i].patch)]
<1>1. n \in Nat /\ DOMAIN o = 1 .. n
  OBVIOUS
<1>2. PICK f : f = CHOOSE d : On(d)
  OBVIOUS
<1>3. On(f)
  <2> DEFINE d == [i \in 0 .. n |-> w[i]]
  <2>1. \A i \in 0 .. n : d[i] = IF i = 0 THEN doc ELSE Step(d[i - 1], o[i].patch)
    <3>1. TAKE i \in 0 .. n
    <3>2. CASE i = 0
      BY <3>2
    <3>3. CASE i # 0
      <4>1. i \in 1 .. n /\ i - 1 \in 0 .. n
        BY <1>1, <3>3
      <4>2. QED BY <3>3, <4>1
    <3>4. QED BY <3>2, <3>3
  <2>2. On(d)
    BY <2>1
  <2> HIDE DEF On
  <2>3. QED BY <1>2, <2>2
<1>4. Rehashed(o, doc) = [i \in DOMAIN o |-> [o[i] EXCEPT !.after = f[i]]]
  BY <1>2 DEF Rehashed
<1>5. \A i \in 0 .. n : f[i] = w[i]
  <2> DEFINE I == {i \in 0 .. n : f[i] = w[i]}
  <2>1. 0 \in I
    BY <1>1, <1>3
  <2>2. ASSUME NEW i \in 1 .. n, i - 1 \in I PROVE i \in I
    <3>1. i \in 0 .. n /\ i # 0
      BY <1>1
    <3>2. f[i] = Step(w[i - 1], o[i].patch)
      BY <1>3, <2>2, <3>1
    <3>3. QED BY <3>1, <3>2
  <2> HIDE DEF I, n
  <2>3. 0 .. n \subseteq I
    BY <1>1, <2>1, <2>2, Upwards
  <2>4. QED BY <2>3 DEF I
<1>6. \A i \in 1 .. n : f[i] = w[i]
  BY <1>1, <1>5
<1> HIDE DEF n
<1>7. QED BY <1>1, <1>4, <1>6 DEF n

\* The first r of these n entries are not after the cursor.
UpTo(cursor, o, n, r) ==
    /\ cursor \in Nat /\ n \in Nat /\ DOMAIN o = 1 .. n /\ r \in 0 .. n
    /\ \A x \in 1 .. n : o[x].seq \in Nat
    /\ \A x, y \in 1 .. n : x < y => o[x].seq < o[y].seq
    /\ \A x \in 1 .. n : x <= r <=> o[x].seq <= cursor

\* A rewrite that keeps the entries o puts the cursor on their r-th one.
Lands(h, o, r, base) == CursorAfter(h, o, base) = IF r = 0 THEN base ELSE o[r].seq

\* The cursor goes back to the newest entry left that is not after it.
LEMMA CursorIs ==
  ASSUME NEW h, NEW o, NEW n, NEW r, NEW base, UpTo(h.cursor, o, n, r)
  PROVE  Lands(h, o, r, base)
<1> USE DEF UpTo, Lands
<1> DEFINE at == {o[i].seq : i \in DOMAIN o} \cap 0 .. h.cursor
<1>1. \A x \in at : \E i \in 1 .. n : x = o[i].seq /\ i <= r
  BY DEF at
<1>2. at \in SUBSET Int
  OBVIOUS
<1>3. CursorAfter(h, o, base) = IF at = {} THEN base ELSE Max(at)
  BY Zenon DEF CursorAfter
<1>4. \A i \in 1 .. r : i \in 1 .. n /\ o[i].seq \in at
  <2>1. \A i \in 1 .. r : i \in 1 .. n /\ i <= r
    OBVIOUS
  <2>2. \A i \in 1 .. n : i <= r => o[i].seq \in 0 .. h.cursor
    OBVIOUS
  <2>3. QED BY <2>1, <2>2
<1> HIDE DEF at
<1>5. CASE r = 0
  <2>1. at = {}
    BY <1>1, <1>5
  <2>2. QED BY <1>3, <1>5, <2>1
<1>6. CASE r # 0
  <2>1. r \in 1 .. r
    BY <1>6
  <2>2. o[r].seq \in at
    BY <1>4, <2>1
  <2>3. ASSUME NEW x \in at PROVE x <= o[r].seq
    <3>1. PICK i \in 1 .. n : x = o[i].seq /\ i <= r
      BY <1>1
    <3>2. r \in 1 .. n
      BY <1>6
    <3>3. CASE i = r
      BY <3>1, <3>2, <3>3
    <3>4. CASE i # r
      <4>1. i < r
        BY <3>1, <3>4
      <4>2. o[i].seq < o[r].seq
        BY <3>2, <4>1
      <4>3. QED BY <3>1, <3>2, <4>2
    <3>5. QED BY <3>3, <3>4
  <2>4. Max(at) = o[r].seq
    BY <1>2, <2>2, <2>3, MaxIs
  <2>5. QED BY <1>3, <1>6, <2>2, <2>4
<1>7. QED BY <1>5, <1>6

\* What a purge makes of a walk.
PurgedTo(r, h, p, s, takes, bare, S) ==
    LET front == Front(h, s, takes)
        base  == WithoutTakes([p EXCEPT !.doc = s[front]], takes)
        seq   == SeqAt(h, front)
    IN  /\ bare = [j \in 1 .. Back(h, s, takes) - front |-> Stripped(h.entries[front + j], takes)]
        /\ S = {e \in Range(bare) : DOMAIN e.patch # {}}
        /\ r.base = base
        /\ r.h.entries = Rehashed(Only(bare, S), base.doc)
        /\ r.h.base = seq /\ r.h.cursor = CursorAfter(h, Only(bare, S), seq) /\ r.h.next = h.next
        /\ r.h = [entries |-> r.h.entries, cursor |-> r.h.cursor, base |-> r.h.base, next |-> r.h.next]

LEMMA PurgedIs ==
  ASSUME NEW s, NEW c, NEW h, NEW p, NEW b, Walk(s, c, h, p, b),
         NEW takes, Uses(p.doc) \cap takes = {}
  PROVE  \E bare, S : PurgedTo(PurgeRewrite(h, p, takes), h, p, s, takes, bare, S)
<1> DEFINE front == Front(h, s, takes)
           back == Back(h, s, takes)
           base == WithoutTakes([p EXCEPT !.doc = s[front]], takes)
           seq == SeqAt(h, front)
           some == SubSeq(h.entries, front + 1, back)
           bare == [j \in DOMAIN some |-> Stripped(some[j], takes)]
           S == {e \in Range(bare) : DOMAIN e.patch # {}}
           kept == Only(bare, S)
           r == PurgeRewrite(h, p, takes)
<1>1. States(h, p.doc) = s
  BY StatesAre
<1>2. r = [h |-> Rewritten(h, Rehashed(kept, base.doc), seq, CursorAfter(h, kept, seq)),
           base |-> base]
  BY <1>1, Zenon DEF PurgeRewrite
<1>3. front \in 0 .. c /\ back \in c .. Len(h.entries) /\ c \in 0 .. Len(h.entries)
  BY FrontBack DEF Walk
<1>4. h.entries \in Seq(Range(h.entries)) /\ Len(h.entries) \in Nat
  BY EntryFacts DEF Walk
<1>5. h = [entries |-> h.entries, cursor |-> h.cursor, base |-> h.base, next |-> h.next]
  BY DEF Walk, Numbered
<1> HIDE DEF kept, base, seq, r, front, back
<1>6. DOMAIN some = 1 .. back - front /\ \A j \in 1 .. back - front : some[j] = h.entries[front + j]
  BY <1>3, <1>4
<1> HIDE DEF some
<1>7. bare = [j \in 1 .. back - front |-> Stripped(h.entries[front + j], takes)]
  BY <1>6
<1>8. ASSUME NEW e, NEW x, NEW k
      PROVE  Rewritten(h, e, x, k) = [entries |-> e, cursor |-> k, base |-> x, next |-> h.next]
  <2>1. Rewritten(h, e, x, k) = [h EXCEPT !.entries = e, !.base = x, !.cursor = k]
    BY DEF Rewritten
  <2>2. QED BY <1>5, <2>1
<1>9. r.base = base /\ r.h = Rewritten(h, Rehashed(kept, base.doc), seq, CursorAfter(h, kept, seq))
  BY <1>2
<1>10. r.h = [entries |-> Rehashed(kept, base.doc), cursor |-> CursorAfter(h, kept, seq),
              base |-> seq, next |-> h.next]
  BY <1>8, <1>9
<1>11. /\ r.h.entries = Rehashed(kept, base.doc) /\ r.h.cursor = CursorAfter(h, kept, seq)
       /\ r.h.base = seq /\ r.h.next = h.next
       /\ r.h = [entries |-> r.h.entries, cursor |-> r.h.cursor, base |-> r.h.base, next |-> r.h.next]
  BY <1>10
<1> HIDE DEF bare
<1>12. PurgedTo(r, h, p, s, takes, bare, S)
  BY <1>7, <1>9, <1>11, Zenon DEF PurgedTo, front, back, base, seq, kept
<1> HIDE DEF S
<1>13. QED BY <1>12 DEF r

\* A purge leads through the views it keeps, without the takes.
LEMMA PurgeWalks ==
  ASSUME NEW s, NEW c, NEW h, NEW p, NEW b, Walk(s, c, h, p, b),
         NEW takes \in SUBSET (p.done \ Uses(p.doc))
  PROVE  LET r == PurgeRewrite(h, p, takes)
         IN  /\ r.h.next = h.next
             /\ \E w, k : Walk(w, k, r.h, WithoutTakes(p, takes), r.base)
<1> DEFINE r == PurgeRewrite(h, p, takes)
           n == Len(h.entries)
           D == DOMAIN p.doc
           E == D \ takes
           q == WithoutTakes(p, takes)
           front == Front(h, s, takes)
           back == Back(h, s, takes)
           m == back - front
           k == c - front
           Cut(d) == [x \in E |-> d[x]]
           v == [j \in 0 .. m |-> Cut(s[front + j])]
<1>1. Uses(p.doc) \cap takes = {} /\ takes \subseteq p.done
  OBVIOUS
<1>2. PICK bare, S : PurgedTo(r, h, p, s, takes, bare, S)
  BY <1>1, PurgedIs
<1>3. /\ n \in Nat /\ h.cursor \in Nat /\ h.base \in Nat /\ h.next \in Nat
      /\ \A i \in 1 .. n : h.entries[i].seq \in Nat /\ h.base < h.entries[i].seq /\ h.entries[i].seq < h.next
      /\ \A i, j \in 1 .. n : i < j => h.entries[i].seq < h.entries[j].seq
  BY EntryFacts DEF Walk
<1>4. c \in 0 .. n /\ SeqAt(h, c) = h.cursor /\ s[c] = p.doc /\ Sane(p) /\ h.base < h.next
  BY DEF Walk, Numbered
<1>5. front \in 0 .. c /\ back \in c .. n /\ \A i \in front .. back : Uses(s[i]) \cap takes = {}
  BY <1>1, FrontBack
<1>6. \A i \in 0 .. n : View(s[i], D) /\ Uses(s[i]) \subseteq p.done
  BY DEF Walk, Chain
<1>7. \A i \in 1 .. n : Links(s[i - 1], h.entries[i].patch, s[i], D)
  BY DEF Walk, Chain
<1>8. \A i \in 1 .. n : LET e == h.entries[i] IN e = [seq |-> e.seq, patch |-> e.patch, after |-> e.after]
  BY DEF Walk, Numbered
<1>9. TL \notin takes /\ SC \notin takes /\ TL \in E /\ SC \in E
  <2>1. takes \subseteq Take /\ TL \in D /\ SC \in D
    BY <1>1, <1>4 DEF Sane
  <2>2. TL \notin Take /\ SC \notin Take
    BY MaxTakeAssumption DEF TL, SC, NoTake, Take
  <2>3. QED BY <2>1, <2>2
<1>10. q.doc = Cut(p.doc) /\ q.done = p.done \ takes /\ q.num = p.num
       /\ q = [doc |-> q.doc, done |-> q.done, num |-> q.num]
  <2>1. p = [doc |-> p.doc, done |-> p.done, num |-> p.num]
    BY <1>4 DEF Sane
  <2>2. q = [p EXCEPT !.doc = Cut(p.doc), !.done = p.done \ takes]
    BY DEF WithoutTakes
  <2> HIDE DEF q, Cut
  <2>3. QED BY <2>1, <2>2
<1>11. DOMAIN q.doc = E /\ View(q.doc, E) /\ Uses(q.doc) = Uses(p.doc)
  BY <1>9, <1>10 DEF View, Uses
<1>12. Sane(q)
  <2>1. Pool(q) \subseteq Pool(p)
    BY <1>11 DEF Pool
  <2>2. Valid(q)
    BY <1>1, <1>4, <1>10, <1>11, <2>1 DEF Valid, Sane
  <2>3. E \subseteq {TL, SC} \cup Take /\ q.done \subseteq Take /\ q.num \in Nat
    BY <1>4, <1>10 DEF Sane
  <2> HIDE DEF q, E
  <2>4. QED BY <1>9, <1>10, <1>11, <2>2, <2>3 DEF Sane
<1> DEFINE o == Only(bare, S)
           seq == SeqAt(h, front)
           base == WithoutTakes([p EXCEPT !.doc = s[front]], takes)
<1>13. /\ bare = [j \in 1 .. m |-> Stripped(h.entries[front + j], takes)]
       /\ S = {e \in Range(bare) : DOMAIN e.patch # {}}
       /\ r.base = base
       /\ r.h.entries = Rehashed(o, base.doc)
       /\ r.h.base = seq /\ r.h.cursor = CursorAfter(h, o, seq) /\ r.h.next = h.next
       /\ r.h = [entries |-> r.h.entries, cursor |-> r.h.cursor, base |-> r.h.base, next |-> r.h.next]
  BY <1>2, Zenon DEF PurgedTo
<1>14. base.doc = v[0]
  <2>1. front \in 0 .. n /\ m \in Nat
    BY <1>3, <1>4, <1>5
  <2>2. DOMAIN s[front] = D
    BY <1>6, <2>1 DEF View
  <2>3. p = [doc |-> p.doc, done |-> p.done, num |-> p.num]
    BY <1>4 DEF Sane
  <2> DEFINE z == [p EXCEPT !.doc = s[front]]
  <2>4. z.doc = s[front] /\ z = [doc |-> z.doc, done |-> z.done, num |-> z.num]
    BY <2>3
  <2>5. base = [z EXCEPT !.doc = [x \in DOMAIN z.doc \ takes |-> z.doc[x]], !.done = @ \ takes]
    BY DEF WithoutTakes
  <2> HIDE DEF z, base
  <2>6. base.doc = [x \in DOMAIN z.doc \ takes |-> z.doc[x]]
    BY <2>4, <2>5
  <2>7. base.doc = Cut(s[front])
    BY <2>2, <2>4, <2>6
  <2>8. v[0] = Cut(s[front])
    BY <2>1
  <2>9. QED BY <2>7, <2>8
<1> HIDE DEF o, seq, base, r, q, front, back, n
<1>15. m \in Nat /\ k \in 0 .. m
  BY <1>3, <1>4, <1>5
<1> HIDE DEF m
<1>16. \A j \in 1 .. m : front + j \in 1 .. n /\ (front + j) - 1 = front + (j - 1) /\ j \in 0 .. m /\ j - 1 \in 0 .. m
  BY <1>3, <1>4, <1>5, <1>15 DEF m
<1>17. \A j \in 0 .. m : front + j \in 0 .. n /\ front + j \in front .. back
  BY <1>3, <1>4, <1>5, <1>15 DEF m
<1>18. ASSUME NEW j \in 1 .. m
       PROVE  LET e == h.entries[front + j]
              IN  bare[j] = [seq |-> e.seq, patch |-> [x \in DOMAIN e.patch \ takes |-> e.patch[x]],
                             after |-> e.after]
  <2> DEFINE e == h.entries[front + j]
  <2>1. e = [seq |-> e.seq, patch |-> e.patch, after |-> e.after]
    BY <1>8, <1>16
  <2>2. bare[j] = Stripped(e, takes)
    BY <1>13
  <2> HIDE DEF e
  <2>3. Stripped(e, takes) = [e EXCEPT !.patch = [x \in DOMAIN e.patch \ takes |-> e.patch[x]]]
    BY DEF Stripped
  <2>4. bare[j] = [seq |-> e.seq, patch |-> [x \in DOMAIN e.patch \ takes |-> e.patch[x]], after |-> e.after]
    BY <2>1, <2>2, <2>3
  <2>5. QED BY <2>4 DEF e
<1> DEFINE C == Range(bare)
<1>19. bare \in Seq(C) /\ Len(bare) = m /\ \A j \in 1 .. m : bare[j] \in C
  <2>1. DOMAIN bare = 1 .. m
    BY <1>13
  <2>2. \A j \in 1 .. m : bare[j] \in Range(bare)
    BY <2>1 DEF Range
  <2>3. bare = [j \in 1 .. m |-> bare[j]]
    BY <1>13
  <2> HIDE DEF C
  <2>4. bare \in [1 .. m -> C]
    BY <2>2, <2>3 DEF C
  <2>5. QED BY <1>15, <2>2, <2>4 DEF C
<1> HIDE DEF C
<1>20. ASSUME NEW j \in 1 .. m
       PROVE  /\ bare[j].seq = h.entries[front + j].seq
              /\ bare[j].patch = [x \in DOMAIN h.entries[front + j].patch \ takes |-> h.entries[front + j].patch[x]]
  <2> DEFINE e == h.entries[front + j]
             patch == [x \in DOMAIN e.patch \ takes |-> e.patch[x]]
  <2>1. bare[j] = [seq |-> e.seq, patch |-> patch, after |-> e.after]
    BY <1>18
  <2> HIDE DEF e, patch
  <2>2. bare[j].seq = e.seq /\ bare[j].patch = patch
    BY <2>1
  <2>3. QED BY <2>2 DEF e, patch
<1>21. \A j \in 0 .. m : View(v[j], E)
  BY DEF View
<1>22. ASSUME NEW j \in 1 .. m PROVE Links(v[j - 1], bare[j].patch, v[j], E)
  <2> DEFINE patch == h.entries[front + j].patch
             a == s[front + (j - 1)]
             d == s[front + j]
  <2>1. Links(a, patch, d, D)
    BY <1>7, <1>16
  <2>2. v[j - 1] = Cut(a) /\ v[j] = Cut(d)
    BY <1>16
  <2>3. bare[j].patch = [x \in DOMAIN patch \ takes |-> patch[x]]
    BY <1>20
  <2> HIDE DEF patch, a, d, v
  <2>4. Links(Cut(a), [x \in DOMAIN patch \ takes |-> patch[x]], Cut(d), E)
    BY <2>1 DEF Links
  <2>5. QED BY <2>2, <2>3, <2>4
<1>23. \A j \in 1 .. m : bare[j].seq \in Nat /\ bare[j].seq < h.next
  BY <1>3, <1>16, <1>20
<1>24. ASSUME NEW i \in 1 .. m, NEW j \in 1 .. m, i < j PROVE bare[i].seq < bare[j].seq
  <2>1. front + i \in 1 .. n /\ front + j \in 1 .. n /\ front + i < front + j
    BY <1>4, <1>5, <1>16, <1>24
  <2>2. h.entries[front + i].seq < h.entries[front + j].seq
    BY <1>3, <2>1
  <2>3. QED BY <1>20, <2>2
<1>25. ASSUME NEW j \in 1 .. m PROVE j <= k <=> bare[j].seq <= h.cursor
  <2>1. front + j \in 1 .. n /\ (j <= k <=> front + j <= c) /\ bare[j].seq = h.entries[front + j].seq
    <3>1. front \in Int /\ c \in Int /\ j \in Int
      BY <1>3, <1>4, <1>5
    <3>2. j <= k <=> front + j <= c
      BY <3>1
    <3>3. front + j \in 1 .. n
      BY <1>16
    <3>4. QED BY <1>20, <3>2, <3>3
  <2>2. CASE c = 0
    <3>1. h.cursor = h.base
      BY <1>4, <2>2 DEF SeqAt
    <3>2. ~(front + j <= c)
      BY <2>1, <2>2
    <3>3. h.base < h.entries[front + j].seq /\ h.entries[front + j].seq \in Nat
      BY <1>3, <2>1
    <3>4. QED BY <1>3, <2>1, <3>1, <3>2, <3>3
  <2>3. CASE c # 0
    <3>1. h.cursor = h.entries[c].seq /\ c \in 1 .. n
      BY <1>4, <2>3 DEF SeqAt
    <3> DEFINE i == front + j
    <3>2. i \in 1 .. n
      BY <2>1
    <3> HIDE DEF i
    <3>3. i <= c <=> h.entries[i].seq <= h.entries[c].seq
      <4>1. CASE i < c
        BY <1>3, <3>1, <3>2, <4>1
      <4>2. CASE i = c
        BY <1>3, <3>1, <4>2
      <4>3. CASE i > c
        BY <1>3, <3>1, <3>2, <4>3
      <4>4. QED BY <3>1, <3>2, <4>1, <4>2, <4>3
    <3>4. QED BY <2>1, <3>1, <3>3 DEF i
  <2>4. QED BY <2>2, <2>3
<1>26. ASSUME NEW j \in 1 .. m PROVE bare[j] \in S <=> DOMAIN bare[j].patch # {}
  BY <1>13, <1>19 DEF C
<1>27. PICK w, t : Squeezed(o, w, t, m, C, bare, v, E, k, h.cursor)
  <2> HIDE DEF v, E, k
  <2>1. \E w, t : Squeezed(Only(bare, S), w, t, Len(bare), C, bare, v, E, k, h.cursor)
    BY <1>3, <1>15, <1>19, <1>21, <1>22, <1>23, <1>24, <1>25, <1>26, SqueezeWalks
  <2>2. QED BY <1>19, <2>1 DEF o
<1> DEFINE l == Len(o)
<1>28. /\ o \in Seq(C) /\ l \in Nat /\ DOMAIN o = 1 .. l
       /\ w = [x \in 0 .. l |-> w[x]] /\ w[0] = v[0]
       /\ t \in 0 .. l /\ w[t] = v[IF m <= k THEN m ELSE k]
  <2> HIDE DEF v
  <2>1. o \in Seq(C)
    BY <1>27 DEF Squeezed
  <2>2. l \in Nat /\ DOMAIN o = 1 .. l
    BY <2>1
  <2>3. QED BY <1>27, <2>1, <2>2 DEF Squeezed
<1>29. \A x \in 0 .. l : \E j \in 0 .. m : w[x] = v[j]
  BY <1>27 DEF Squeezed
<1>30. \A x \in 1 .. l : Links(w[x - 1], o[x].patch, w[x], E)
  BY <1>27 DEF Squeezed
<1>31. \A x \in 1 .. l : \E j \in 1 .. m : o[x] = bare[j]
  BY <1>27 DEF Squeezed
<1>32. \A x, y \in 1 .. l : x < y => o[x].seq < o[y].seq
  BY <1>27 DEF Squeezed
<1>33. \A x \in 1 .. l : x <= t <=> o[x].seq <= h.cursor
  BY <1>27 DEF Squeezed
<1> HIDE DEF l
<1>34. \A x \in 0 .. l : View(w[x], E) /\ Uses(w[x]) \subseteq q.done
  <2>1. TAKE x \in 0 .. l
  <2>2. PICK j \in 0 .. m : w[x] = v[j]
    BY <1>29
  <2>3. v[j] = Cut(s[front + j])
    OBVIOUS
  <2>4. Uses(s[front + j]) \subseteq p.done /\ Uses(s[front + j]) \cap takes = {}
    BY <1>5, <1>6, <1>17
  <2>5. Uses(Cut(s[front + j])) = Uses(s[front + j])
    BY <1>9 DEF Uses
  <2>6. View(Cut(s[front + j]), E)
    BY DEF View
  <2> HIDE DEF v, Cut
  <2>7. QED BY <1>10, <2>2, <2>3, <2>4, <2>5, <2>6
<1>35. Rehashed(o, base.doc) = [x \in 1 .. l |-> [o[x] EXCEPT !.after = w[x]]]
  <2>1. \A x \in 1 .. l : Step(w[x - 1], o[x].patch) = w[x]
    <3>1. TAKE x \in 1 .. l
    <3>2. x \in 0 .. l /\ x - 1 \in 0 .. l
      BY <1>28
    <3>3. View(w[x - 1], E) /\ View(w[x], E) /\ Links(w[x - 1], o[x].patch, w[x], E) /\ TL \in E
      BY <1>9, <1>30, <1>34, <3>2
    <3> HIDE DEF E
    <3>4. QED BY <3>3, LinkSteps
  <2>2. w[0] = base.doc
    BY <1>14, <1>28
  <2>3. o \in Seq(C) /\ l = Len(o)
    BY <1>28 DEF l
  <2> DEFINE doc == base.doc
  <2>4. w[0] = doc /\ \A x \in 1 .. Len(o) : Step(w[x - 1], o[x].patch) = w[x]
    BY <2>1, <2>2, <2>3
  <2> HIDE DEF doc
  <2>5. Rehashed(o, doc) = [x \in 1 .. Len(o) |-> [o[x] EXCEPT !.after = w[x]]]
    BY <2>3, <2>4, RehashedIs
  <2>6. QED BY <2>3, <2>5 DEF doc
<1> DEFINE f == [x \in 1 .. l |-> [o[x] EXCEPT !.after = w[x]]]
<1>36. ASSUME NEW x \in 1 .. l
       PROVE  f[x] = [seq |-> o[x].seq, patch |-> o[x].patch, after |-> w[x]]
  <2>1. PICK j \in 1 .. m : o[x] = bare[j]
    BY <1>31
  <2> DEFINE e == h.entries[front + j]
             patch == [y \in DOMAIN e.patch \ takes |-> e.patch[y]]
  <2>2. bare[j] = [seq |-> e.seq, patch |-> patch, after |-> e.after]
    BY <1>18
  <2> HIDE DEF e, patch
  <2>3. o[x] = [seq |-> o[x].seq, patch |-> o[x].patch, after |-> o[x].after]
    BY <2>1, <2>2
  <2>4. QED BY <2>3
<1>37. ASSUME NEW x \in 1 .. l PROVE o[x].seq \in Nat /\ o[x].seq < h.next /\ seq < o[x].seq
  <2>1. PICK j \in 1 .. m : o[x] = bare[j]
    BY <1>31
  <2>2. bare[j].seq = h.entries[front + j].seq /\ front + j \in 1 .. n /\ front < front + j
    <3>1. front + j \in 1 .. n
      BY <1>16
    <3>2. front < front + j
      BY <1>3, <1>4, <1>5
    <3>3. QED BY <1>20, <3>1, <3>2
  <2>3. seq < h.entries[front + j].seq
    <3>1. CASE front = 0
      BY <1>3, <2>2, <3>1 DEF seq, SeqAt
    <3>2. CASE front # 0
      <4>1. front \in 1 .. n /\ seq = h.entries[front].seq
        BY <1>3, <1>4, <1>5, <3>2 DEF seq, SeqAt
      <4>2. QED BY <1>3, <2>2, <4>1
    <3>3. QED BY <3>1, <3>2
  <2>4. QED BY <1>23, <2>1, <2>2, <2>3
<1>38. seq \in Nat /\ seq < h.next
  <2>1. CASE front = 0
    BY <1>3, <1>4, <2>1 DEF seq, SeqAt
  <2>2. CASE front # 0
    <3>1. front \in 1 .. n /\ seq = h.entries[front].seq
      BY <1>3, <1>4, <1>5, <2>2 DEF seq, SeqAt
    <3>2. QED BY <1>3, <3>1
  <2>3. QED BY <2>1, <2>2
<1>39. r.h.cursor = IF t = 0 THEN seq ELSE o[t].seq
  <2>1. l \in Nat /\ DOMAIN o = 1 .. l /\ t \in 0 .. l /\ h.cursor \in Nat
    BY <1>3, <1>28
  <2>2. \A x \in 1 .. l : o[x].seq \in Nat
    BY <1>37
  <2>3. UpTo(h.cursor, o, l, t)
    BY <1>32, <1>33, <2>1, <2>2 DEF UpTo
  <2>4. CursorAfter(h, o, seq) = IF t = 0 THEN seq ELSE o[t].seq
    <3>1. Lands(h, o, t, seq)
      BY <2>3, CursorIs, Zenon
    <3>2. QED BY <3>1, Zenon DEF Lands
  <2>5. QED BY <1>13, <2>4
<1>40. r.h.entries = f
  BY <1>13, <1>35
<1>41. f \in Seq(Range(f)) /\ Len(f) = l /\ DOMAIN f = 1 .. l
  <2>1. DOMAIN f = 1 .. l /\ f = [x \in 1 .. l |-> f[x]]
    OBVIOUS
  <2> HIDE DEF f
  <2>2. \A x \in 1 .. l : f[x] \in Range(f)
    BY <2>1 DEF Range
  <2>3. f \in [1 .. l -> Range(f)]
    BY <2>1, <2>2
  <2>4. QED BY <1>28, <2>1, <2>3, SMTT(30)
<1> HIDE DEF f
<1>42. \A x \in 1 .. l : f[x].seq = o[x].seq /\ f[x].patch = o[x].patch /\ f[x].after = w[x]
                       /\ f[x] = [seq |-> f[x].seq, patch |-> f[x].patch, after |-> f[x].after]
  <2>1. TAKE x \in 1 .. l
  <2>2. f[x] = [seq |-> o[x].seq, patch |-> o[x].patch, after |-> w[x]]
    BY <1>36 DEF f
  <2>3. QED BY <2>2
<1>43. r.h.cursor \in Nat
  <2>1. CASE t = 0
    BY <1>38, <1>39, <2>1
  <2>2. CASE t # 0
    <3>1. t \in 1 .. l
      BY <1>28, <2>2
    <3>2. QED BY <1>37, <1>39, <2>2, <3>1
  <2>3. QED BY <2>1, <2>2
<1>44. Numbered(r.h)
  <2>1. ASSUME NEW x \in 1 .. l
        PROVE  LET e == f[x]
               IN  /\ e = [seq |-> e.seq, patch |-> e.patch, after |-> e.after]
                   /\ e.seq \in Nat /\ seq < e.seq /\ e.seq < h.next
    BY <1>37, <1>42
  <2>2. \A x, y \in 1 .. l : x < y => f[x].seq < f[y].seq
    BY <1>32, <1>42
  <2>3. QED BY <1>3, <1>13, <1>38, <1>40, <1>41, <1>43, <2>1, <2>2 DEF Numbered
<1>45. Chain(w, r.h, E, q.done)
  <2>1. \A x \in 1 .. l : Links(w[x - 1], f[x].patch, w[x], E) /\ Under(f[x].after, w[x])
    <3>1. TAKE x \in 1 .. l
    <3>2. x \in 0 .. l
      BY <1>28
    <3>3. Under(w[x], w[x])
      BY DEF Under
    <3> HIDE DEF E
    <3>4. QED BY <1>30, <1>42, <3>3
  <2> HIDE DEF E
  <2>2. QED BY <1>28, <1>34, <1>40, <1>41, <2>1 DEF Chain
<1>46. w[t] = q.doc
  <2>1. (IF m <= k THEN m ELSE k) = k
    BY <1>15
  <2>2. front + k = c
    BY <1>4, <1>5
  <2>3. v[k] = Cut(s[c])
    BY <1>15, <2>2
  <2> HIDE DEF v, k, Cut
  <2>4. w[t] = v[k]
    BY <1>28, <2>1
  <2>5. QED BY <1>4, <1>10, <2>3, <2>4
<1>47. SeqAt(r.h, t) = r.h.cursor
  <2>1. CASE t = 0
    BY <1>13, <1>39, <2>1 DEF SeqAt
  <2>2. CASE t # 0
    <3>1. t \in 1 .. l
      BY <1>28, <2>2
    <3>2. QED BY <1>39, <1>40, <1>42, <2>2, <3>1 DEF SeqAt
  <2>3. QED BY <2>1, <2>2
<1>48. Under(r.base.doc, w[0])
  BY <1>13, <1>14, <1>28 DEF Under
<1>49. Walk(w, t, r.h, q, r.base)
  <2> HIDE DEF E, v
  <2> QED BY <1>11, <1>12, <1>28, <1>40, <1>41, <1>44, <1>45, <1>46, <1>47, <1>48 DEF Walk
<1>50. QED BY <1>13, <1>49 DEF r, q

----------------------------------------------------------------------------
(* Each step keeps the invariant.                                          *)

LEMMA InitHolds == Init => HistoryInv
<1> SUFFICES ASSUME Init PROVE HistoryInv
  OBVIOUS
<1> DEFINE d == [x \in {TL, SC} |-> IF x = TL THEN {} ELSE NewScene]
           p == [doc |-> d, done |-> {}, num |-> 1]
           s == [i \in 0 .. 0 |-> d]
           h == [entries |-> <<>>, cursor |-> 0, base |-> 0, next |-> 1]
<1>1. project = p /\ snap = p /\ history = h /\ top = 0
  BY DEF Init, NewProject, NewHistory
<1>2. DOMAIN d = {TL, SC} /\ d[TL] = {} /\ View(d, {TL, SC})
  BY DEF View
<1>3. TL \notin Take /\ SC \notin Take
  BY MaxTakeAssumption DEF TL, SC, NoTake, Take
<1> HIDE DEF d
<1>4. p.doc = d /\ p.done = {} /\ p.num = 1 /\ p = [doc |-> p.doc, done |-> p.done, num |-> p.num]
  OBVIOUS
<1>5. /\ h.entries = <<>> /\ h.cursor = 0 /\ h.base = 0 /\ h.next = 1
      /\ h = [entries |-> h.entries, cursor |-> h.cursor, base |-> h.base, next |-> h.next]
  OBVIOUS
<1> HIDE DEF p, h
<1>6. Sane(p)
  <2>1. Pool(p) = {}
    BY <1>2, <1>3, <1>4 DEF Pool
  <2>2. Valid(p)
    BY <1>2, <1>4, <2>1 DEF Valid, Uses
  <2>3. QED BY <1>2, <1>4, <2>2 DEF Sane
<1>7. Len(h.entries) = 0 /\ h.entries \in Seq(Range(h.entries))
  BY <1>5
<1>8. Numbered(h)
  BY <1>5, <1>7 DEF Numbered
<1>9. Chain(s, h, {TL, SC}, {})
  <2>1. s = [i \in 0 .. 0 |-> s[i]] /\ \A i \in 0 .. 0 : s[i] = d
    OBVIOUS
  <2> HIDE DEF s
  <2>2. QED BY <1>2, <1>7, <2>1 DEF Chain, Uses
<1>10. Walk(s, 0, h, p, p)
  <2>1. SeqAt(h, 0) = h.cursor /\ s[0] = d
    BY <1>5 DEF SeqAt
  <2>2. Under(d, d)
    BY DEF Under
  <2> HIDE DEF s
  <2>3. QED BY <1>2, <1>4, <1>6, <1>7, <1>8, <1>9, <2>1, <2>2 DEF Walk
<1>11. Walk(States(h, p.doc), CursorPosition(h), h, p, p)
  <2> HIDE DEF s
  <2> QED BY <1>10, WalkGoesOn
<1>12. QED BY <1>1, <1>5, <1>11 DEF HistoryInv

\* A step with a history effect leaves what its outcome promises.
LEMMA LeavesHolds ==
  ASSUME HistoryInv, NEW r, NEW q, Goes(r, history, q, snap), Leaves(r)
  PROVE  HistoryInv'
<1> DEFINE b == IF r.op = "rewrite" THEN r.base ELSE snap
<1>1. project' = q /\ history' = r.h /\ snap' = b /\ top' = Max({top} \cup Seqs(r.h))
  BY DEF Leaves, Goes
<1>2. PICK t, k : Walk(t, k, r.h, q, b)
  BY DEF Goes
<1> HIDE DEF b
<1>3. Walk(States(r.h, q.doc), CursorPosition(r.h), r.h, q, b)
  BY <1>2, WalkGoesOn
<1>4. history.next <= r.h.next /\ history.next \in Nat /\ top \in Nat /\ top < history.next
  BY DEF Goes, HistoryInv, Walk, Numbered
<1>5. /\ r.h.next \in Nat /\ DOMAIN r.h.entries = 1 .. Len(r.h.entries)
      /\ \A i \in 1 .. Len(r.h.entries) : r.h.entries[i].seq \in Nat /\ r.h.entries[i].seq < r.h.next
  BY <1>2, EntryFacts DEF Walk
<1>6. top' \in Nat /\ top' < r.h.next
  <2> DEFINE S == {top} \cup Seqs(r.h)
  <2>1. \A x \in S : x \in Nat /\ x < r.h.next
    BY <1>4, <1>5 DEF Seqs
  <2>2. S \in SUBSET (0 .. r.h.next) /\ S # {}
    BY <1>5, <2>1
  <2> HIDE DEF S
  <2>3. Max(S) \in S
    BY <1>5, <2>2, HasMax
  <2>4. top' = Max(S)
    BY <1>1 DEF S
  <2>5. QED BY <2>1, <2>3, <2>4
<1>7. QED BY <1>1, <1>3, <1>6 DEF HistoryInv

\* The views an edit can choose.
LEMMA DocIs ==
  ASSUME NEW pool, NEW d \in Doc(pool)
  PROVE  View(d, {TL, SC} \cup pool) /\ DOMAIN d = {TL, SC} \cup pool
BY DEF Doc, View

LEMMA EditHolds ==
  ASSUME HistoryInv, Edit
  PROVE  HistoryInv'
<1> DEFINE D == DOMAIN project.doc
           s == States(history, project.doc)
           c == CursorPosition(history)
<1>1. Walk(s, c, history, project, snap)
  BY DEF HistoryInv
<1> HIDE DEF s, c
<1>2. Sane(project)
  BY <1>1 DEF Walk
<1>3. PICK d \in Doc(Pool(project)) :
        LET q == [project EXCEPT !.doc = d]
        IN  d # project.doc /\ Valid(q) /\ Leaves(Commit(history, project, q))
  BY DEF Edit
<1> DEFINE q == [project EXCEPT !.doc = d]
<1>4. D = {TL, SC} \cup Pool(project)
  BY <1>2 DEF Sane, Pool
<1>5. View(d, D) /\ DOMAIN d = D
  BY <1>4, DocIs
<1>6. /\ q.doc = d /\ q.done = project.done /\ q.num = project.num
      /\ q = [doc |-> q.doc, done |-> q.done, num |-> q.num]
  BY <1>2 DEF Sane
<1>7. Valid(q) /\ Leaves(Commit(history, project, q))
  BY <1>3
<1> HIDE DEF q
<1>8. Sane(q)
  BY <1>2, <1>5, <1>6, <1>7 DEF Sane
<1>9. Goes(Commit(history, project, q), history, q, snap)
  BY <1>1, <1>5, <1>6, <1>8, CommitGoes
<1>10. QED BY <1>7, <1>9, LeavesHolds

LEMMA BeginTakeHolds ==
  ASSUME HistoryInv, BeginTake
  PROVE  HistoryInv'
<1> DEFINE D == DOMAIN project.doc
           s == States(history, project.doc)
           c == CursorPosition(history)
           q == Begun(project)
<1>1. Walk(s, c, history, project, snap)
  BY DEF HistoryInv
<1> HIDE DEF s, c
<1>2. Sane(project)
  BY <1>1 DEF Walk
<1>3. project.num \in Take /\ project' = q /\ history' = history /\ snap' = snap /\ top' = top
  BY DEF BeginTake
<1> DEFINE d == [x \in D \cup {project.num} |->
                   IF x = project.num THEN project.doc[SC] ELSE project.doc[x]]
<1>4. /\ q.doc = d /\ q.done = project.done /\ q.num = project.num + 1
      /\ q = [doc |-> q.doc, done |-> q.done, num |-> q.num]
  <2>1. project = [doc |-> project.doc, done |-> project.done, num |-> project.num]
    BY <1>2 DEF Sane
  <2>2. q = [project EXCEPT !.doc = d, !.num = project.num + 1]
    BY DEF Begun
  <2> HIDE DEF q, d
  <2>3. QED BY <2>1, <2>2
<1>5. project.num \notin D
  <2>1. \A x \in Pool(project) : x < project.num
    BY <1>2 DEF Sane, Valid
  <2>2. project.num \in Nat
    BY <1>2 DEF Sane
  <2>3. QED BY <1>3, <2>1, <2>2 DEF Pool
<1>6. /\ DOMAIN d = D \cup {project.num} /\ d = [x \in DOMAIN d |-> d[x]]
      /\ \A x \in D : d[x] = project.doc[x]
  BY <1>5
<1> HIDE DEF q, d
<1>7. Uses(q.doc) = Uses(project.doc) /\ TL \in D /\ SC \in D /\ D \subseteq {TL, SC} \cup Take
  BY <1>2, <1>4, <1>6 DEF Sane, Uses
<1>8. Valid(q)
  <2>1. Pool(q) = Pool(project) \cup {project.num}
    BY <1>3, <1>4, <1>6 DEF Pool
  <2>2. \A x \in Pool(project) : x < project.num
    BY <1>2 DEF Sane, Valid
  <2>3. project.num \in Nat /\ \A x \in Pool(project) : x \in Int
    BY <1>2 DEF Sane, Pool, Take
  <2>4. \A x \in Pool(q) : x < q.num
    BY <1>4, <2>1, <2>2, <2>3
  <2>5. QED BY <1>2, <1>4, <1>7, <2>4 DEF Sane, Valid
<1>9. Sane(q)
  BY <1>2, <1>3, <1>4, <1>6, <1>7, <1>8 DEF Sane, View
<1>10. PICK t : Walk(t, c, history, q, snap)
  <2>1. D \subseteq DOMAIN q.doc /\ \A x \in D : q.doc[x] = project.doc[x]
    BY <1>4, <1>6
  <2>2. project.done \subseteq q.done
    BY <1>4
  <2>3. QED BY <1>1, <1>9, <2>1, <2>2, Extends
<1>11. Walk(States(history, q.doc), CursorPosition(history), history, q, snap)
  BY <1>10, WalkGoesOn
<1>12. QED BY <1>3, <1>11 DEF HistoryInv

LEMMA EndTakeHolds ==
  ASSUME HistoryInv, EndTake
  PROVE  HistoryInv'
<1> DEFINE D == DOMAIN project.doc
           s == States(history, project.doc)
           c == CursorPosition(history)
<1>1. Walk(s, c, history, project, snap)
  BY DEF HistoryInv
<1> HIDE DEF s, c
<1>2. Sane(project)
  BY <1>1 DEF Walk
<1>3. PICK t \in InFlight, placed \in BOOLEAN :
        LET facts == [project EXCEPT !.done = @ \cup {t}]
            q     == IF placed THEN [facts EXCEPT !.doc[TL] = @ \cup {t}] ELSE facts
        IN  Leaves(Commit(history, facts, q))
  BY DEF EndTake
<1> DEFINE facts == [project EXCEPT !.done = @ \cup {t}]
           uses == [facts EXCEPT !.doc[TL] = @ \cup {t}]
           q == IF placed THEN uses ELSE facts
<1>4. t \in Take /\ t \in D
  BY DEF InFlight, Pool
<1>5. /\ facts.doc = project.doc /\ facts.done = project.done \cup {t} /\ facts.num = project.num
      /\ facts = [doc |-> facts.doc, done |-> facts.done, num |-> facts.num]
  BY <1>2 DEF Sane
<1>6. Leaves(Commit(history, facts, q))
  BY <1>3
<1> HIDE DEF facts
<1>7. /\ uses.doc = [project.doc EXCEPT ![TL] = @ \cup {t}]
      /\ uses.done = facts.done /\ uses.num = facts.num
      /\ uses = [doc |-> uses.doc, done |-> uses.done, num |-> uses.num]
  BY <1>5
<1> HIDE DEF uses
<1>8. Valid(project) /\ TL \in D /\ View(project.doc, D)
  BY <1>2 DEF Sane
<1>9. Sane(facts)
  <2>1. Valid(facts)
    BY <1>5, <1>8 DEF Valid, Pool
  <2>2. QED BY <1>2, <1>4, <1>5, <2>1 DEF Sane
<1>10. Sane(uses) /\ DOMAIN uses.doc = D
  <2>1. DOMAIN uses.doc = D /\ View(uses.doc, D) /\ Uses(uses.doc) = Uses(project.doc) \cup {t}
    BY <1>7, <1>8 DEF View, Uses
  <2>2. Pool(uses) = Pool(project)
    BY <2>1 DEF Pool
  <2>3. Valid(uses)
    BY <1>5, <1>7, <1>8, <2>1, <2>2 DEF Valid
  <2>4. QED BY <1>5, <1>7, <1>9, <2>1, <2>3 DEF Sane
<1>11. Sane(q) /\ DOMAIN q.doc = D /\ q.done = facts.done
  BY <1>5, <1>7, <1>9, <1>10
<1> HIDE DEF q
<1>12. PICK w : Walk(w, c, history, facts, snap)
  <2>1. D \subseteq DOMAIN facts.doc /\ (\A x \in D : facts.doc[x] = project.doc[x]) /\ project.done \subseteq facts.done
    BY <1>5
  <2>2. QED BY <1>1, <1>9, <2>1, Extends
<1>13. Goes(Commit(history, facts, q), history, q, snap)
  <2>1. DOMAIN facts.doc \subseteq DOMAIN q.doc /\ facts.done \subseteq q.done
    BY <1>5, <1>11
  <2>2. QED BY <1>11, <1>12, <2>1, CommitGoes
<1>14. QED BY <1>6, <1>13, LeavesHolds

LEMMA MoveToHolds ==
  ASSUME HistoryInv, NEW pos \in 0 .. Len(history.entries), MoveTo(pos)
  PROVE  HistoryInv'
<1> DEFINE s == States(history, project.doc)
           c == CursorPosition(history)
           n == Len(history.entries)
           h == [history EXCEPT !.cursor = SeqAt(history, pos)]
           q == [project EXCEPT !.doc = s[pos]]
<1>1. Walk(s, c, history, project, snap) /\ top \in Nat /\ top < history.next
  BY DEF HistoryInv
<1>2. history' = h /\ project' = q /\ snap' = snap /\ top' = top
  BY DEF MoveTo, Moved
<1>3. Valid(q)
  BY DEF MoveTo, CanMove
<1> HIDE DEF s, c
<1>4. Numbered(history) /\ Sane(project) /\ Chain(s, history, DOMAIN project.doc, project.done)
      /\ Under(snap.doc, s[0])
  BY <1>1 DEF Walk
<1>5. /\ h.entries = history.entries /\ h.cursor = SeqAt(history, pos) /\ h.base = history.base
      /\ h.next = history.next
      /\ h = [entries |-> h.entries, cursor |-> h.cursor, base |-> h.base, next |-> h.next]
  BY <1>4 DEF Numbered
<1>6. /\ q.doc = s[pos] /\ q.done = project.done /\ q.num = project.num
      /\ q = [doc |-> q.doc, done |-> q.done, num |-> q.num]
  BY <1>4 DEF Sane
<1>7. View(s[pos], DOMAIN project.doc)
  BY <1>4 DEF Chain
<1> HIDE DEF h, q
<1>8. DOMAIN q.doc = DOMAIN project.doc /\ View(q.doc, DOMAIN q.doc)
  BY <1>6, <1>7 DEF View
<1>9. Sane(q)
  BY <1>3, <1>4, <1>6, <1>8 DEF Sane
<1>10. SeqAt(history, pos) \in Nat /\ SeqAt(h, pos) = SeqAt(history, pos)
  <2>1. n \in Nat /\ history.base \in Nat /\ \A i \in 1 .. n : history.entries[i].seq \in Nat
    BY <1>4, EntryFacts
  <2>2. CASE pos = 0
    BY <1>5, <2>1, <2>2 DEF SeqAt
  <2>3. CASE pos # 0
    <3>1. pos \in 1 .. n
      BY <2>1, <2>3
    <3>2. QED BY <1>5, <2>1, <2>3, <3>1 DEF SeqAt
  <2>4. QED BY <2>2, <2>3
<1>11. Numbered(h)
  BY <1>4, <1>5, <1>10 DEF Numbered
<1>12. Chain(s, h, DOMAIN q.doc, q.done)
  BY <1>4, <1>5, <1>6, <1>8 DEF Chain
<1>13. Walk(s, pos, h, q, snap)
  BY <1>4, <1>5, <1>6, <1>9, <1>10, <1>11, <1>12 DEF Walk
<1>14. Walk(States(h, q.doc), CursorPosition(h), h, q, snap)
  BY <1>13, WalkGoesOn
<1>15. QED BY <1>1, <1>2, <1>5, <1>14 DEF HistoryInv

LEMMA ClearHolds ==
  ASSUME HistoryInv, Clear
  PROVE  HistoryInv'
<1> DEFINE D == DOMAIN project.doc
           h == Rewritten(history, <<>>, history.cursor, history.cursor)
           r == [h |-> h, p |-> project, op |-> "rewrite", base |-> project]
           s == [i \in 0 .. 0 |-> project.doc]
<1>1. Leaves(r)
  BY DEF Clear
<1>2. Numbered(history) /\ Sane(project)
  BY DEF HistoryInv, Walk
<1>3. history.cursor < history.next
  <2> DEFINE c == CursorPosition(history)
             n == Len(history.entries)
  <2>1. c \in 0 .. n /\ SeqAt(history, c) = history.cursor
    BY DEF HistoryInv, Walk
  <2>2. history.base < history.next /\ n \in Nat /\ \A i \in 1 .. n : history.entries[i].seq < history.next
    BY <1>2, EntryFacts DEF Numbered
  <2> HIDE DEF c, n
  <2>3. CASE c = 0
    BY <2>1, <2>2, <2>3 DEF SeqAt
  <2>4. CASE c # 0
    <3>1. c \in 1 .. n
      BY <2>1, <2>2, <2>4
    <3>2. QED BY <2>1, <2>2, <2>4, <3>1 DEF SeqAt
  <2>5. QED BY <2>3, <2>4
<1>4. /\ h.entries = <<>> /\ h.cursor = history.cursor /\ h.base = history.cursor /\ h.next = history.next
      /\ h = [entries |-> h.entries, cursor |-> h.cursor, base |-> h.base, next |-> h.next]
  <2>1. h = [history EXCEPT !.entries = <<>>, !.base = history.cursor, !.cursor = history.cursor]
    BY DEF Rewritten
  <2>2. history = [entries |-> history.entries, cursor |-> history.cursor, base |-> history.base, next |-> history.next]
    BY <1>2 DEF Numbered
  <2> HIDE DEF h
  <2>3. QED BY <2>1, <2>2
<1>5. r.h = h /\ r.p = project /\ r.op = "rewrite" /\ r.base = project
  BY Zenon
<1> HIDE DEF h, r
<1>6. Len(h.entries) = 0 /\ h.entries \in Seq(Range(h.entries))
  BY <1>4
<1>7. Numbered(h)
  <2>1. history.cursor \in Nat /\ history.next \in Nat
    BY <1>2 DEF Numbered
  <2>2. QED BY <1>3, <1>4, <1>6, <2>1 DEF Numbered
<1>8. Chain(s, h, D, project.done)
  <2>1. s = [i \in 0 .. 0 |-> s[i]] /\ \A i \in 0 .. 0 : s[i] = project.doc
    OBVIOUS
  <2>2. View(project.doc, D) /\ Uses(project.doc) \subseteq project.done
    BY <1>2 DEF Sane, Valid
  <2> HIDE DEF s
  <2>3. QED BY <1>6, <2>1, <2>2 DEF Chain
<1>9. Walk(s, 0, h, project, project)
  <2>1. SeqAt(h, 0) = h.cursor /\ s[0] = project.doc
    BY <1>4 DEF SeqAt
  <2>2. Under(project.doc, project.doc)
    BY DEF Under
  <2> HIDE DEF s
  <2>3. QED BY <1>2, <1>6, <1>7, <1>8, <2>1, <2>2 DEF Walk
<1>10. Goes(r, history, project, snap)
  <2>1. Walk(s, 0, r.h, project, IF r.op = "rewrite" THEN r.base ELSE snap)
    BY <1>5, <1>9
  <2>2. history.next <= r.h.next
    BY <1>2, <1>4, <1>5 DEF Numbered
  <2> HIDE DEF s
  <2>3. QED BY <1>5, <2>1, <2>2 DEF Goes
<1>11. QED BY <1>1, <1>10, LeavesHolds

LEMMA PurgeHolds ==
  ASSUME HistoryInv, Purge
  PROVE  HistoryInv'
<1> DEFINE s == States(history, project.doc)
           c == CursorPosition(history)
<1>1. Walk(s, c, history, project, snap)
  BY DEF HistoryInv
<1> HIDE DEF s, c
<1>2. PICK takes \in SUBSET (project.done \ Uses(project.doc)) \ {{}} :
        LET r == PurgeRewrite(history, project, takes)
        IN  Leaves([h |-> r.h, p |-> WithoutTakes(project, takes), op |-> "rewrite", base |-> r.base])
  BY DEF Purge
<1> DEFINE r == PurgeRewrite(history, project, takes)
           q == WithoutTakes(project, takes)
           o == [h |-> r.h, p |-> q, op |-> "rewrite", base |-> r.base]
<1>3. Leaves(o)
  BY <1>2
<1>4. r.h.next = history.next /\ \E w, k : Walk(w, k, r.h, q, r.base)
  BY <1>1, PurgeWalks
<1> HIDE DEF r, q
<1>5. o.h = r.h /\ o.p = q /\ o.op = "rewrite" /\ o.base = r.base
  BY Zenon
<1> HIDE DEF o
<1>6. PICK w, k : Walk(w, k, r.h, q, r.base)
  BY <1>4
<1>7. Walk(w, k, o.h, q, IF o.op = "rewrite" THEN o.base ELSE snap)
  BY <1>5, <1>6
<1>8. history.next <= o.h.next
  <2>1. history.next \in Nat
    BY <1>1 DEF Walk, Numbered
  <2>2. QED BY <1>4, <1>5, <2>1
<1>9. Goes(o, history, q, snap)
  BY <1>5, <1>7, <1>8 DEF Goes
<1>10. QED BY <1>3, <1>9, LeavesHolds

LEMMA ExternalHolds ==
  ASSUME HistoryInv, ProjectChangedOnDisk
  PROVE  HistoryInv'
<1> DEFINE D == DOMAIN project.doc
           s == States(history, project.doc)
           c == CursorPosition(history)
<1>1. Walk(s, c, history, project, snap)
  BY DEF HistoryInv
<1> HIDE DEF s, c
<1>2. Sane(project)
  BY <1>1 DEF Walk
<1>3. PICK file \in File, recorded \in SUBSET InFlight :
        LET q == MergeExternal(project, file, recorded)
        IN  file # project /\ Valid(q) /\ Leaves(Commit(history, project, q))
  BY DEF ProjectChangedOnDisk
<1> DEFINE q == MergeExternal(project, file, recorded)
           new == Pool(file) \ Pool(project)
           E == D \cup new
<1>4. Valid(q) /\ Leaves(Commit(history, project, q))
  BY <1>3
<1>5. file.done \subseteq Take /\ file.num \in Nat /\ Pool(file) \subseteq Take
  BY MaxTakeAssumption DEF File, Pool, Take
<1>6. /\ q.doc = [x \in E |-> IF x \in DOMAIN file.doc \ recorded THEN file.doc[x] ELSE project.doc[x]]
      /\ q.done = project.done \cup (file.done \cap new)
      /\ q.num = Max({project.num, file.num})
      /\ q = [doc |-> q.doc, done |-> q.done, num |-> q.num]
  BY DEF MergeExternal
<1>7. q.num \in Nat
  <2>1. project.num \in Nat
    BY <1>2 DEF Sane
  <2> DEFINE S == {project.num, file.num}
             m == IF project.num <= file.num THEN file.num ELSE project.num
  <2>2. S \in SUBSET Int /\ m \in S /\ m \in Nat /\ \A x \in S : x <= m
    BY <1>5, <2>1
  <2> HIDE DEF S, m
  <2>3. Max(S) = m
    BY <2>2, MaxIs
  <2>4. QED BY <1>6, <2>2, <2>3 DEF S
<1> HIDE DEF q, new
<1>8. DOMAIN q.doc = E /\ View(q.doc, E) /\ D \subseteq E
  BY <1>6 DEF View
<1>9. new \subseteq Take
  BY <1>5 DEF new
<1>10. Sane(q)
  <2>1. TL \in E /\ SC \in E /\ E \subseteq {TL, SC} \cup Take
    BY <1>2, <1>9 DEF Sane
  <2>2. q.done \subseteq Take
    BY <1>2, <1>5, <1>6 DEF Sane
  <2> HIDE DEF E
  <2>3. QED BY <1>4, <1>6, <1>7, <1>8, <2>1, <2>2 DEF Sane
<1>11. Goes(Commit(history, project, q), history, q, snap)
  <2>1. D \subseteq DOMAIN q.doc /\ project.done \subseteq q.done
    BY <1>6, <1>8
  <2>2. QED BY <1>1, <1>10, <2>1, CommitGoes
<1>12. QED BY <1>4, <1>11, LeavesHolds

LEMMA NextHolds ==
  ASSUME HistoryInv, [Next]_vars
  PROVE  HistoryInv'
<1>1. CASE Edit
  BY <1>1, EditHolds
<1>2. CASE BeginTake
  BY <1>2, BeginTakeHolds
<1>3. CASE EndTake
  BY <1>3, EndTakeHolds
<1> DEFINE c == CursorPosition(history)
           n == Len(history.entries)
<1>4. c \in 0 .. n /\ n \in Nat
  BY EntryFacts DEF HistoryInv, Walk
<1>5. CASE Undo
  <2>1. PICK pos \in 0 .. c - 1 : MoveTo(pos)
    BY <1>5 DEF Undo
  <2> HIDE DEF c
  <2>2. pos \in 0 .. n
    BY <1>4
  <2>3. QED BY <2>1, <2>2, MoveToHolds
<1>6. CASE Redo
  <2>1. PICK pos \in c + 1 .. n : MoveTo(pos)
    BY <1>6 DEF Redo
  <2> HIDE DEF c
  <2>2. pos \in 0 .. n
    BY <1>4
  <2>3. QED BY <2>1, <2>2, MoveToHolds
<1>7. CASE Clear
  BY <1>7, ClearHolds
<1>8. CASE Purge
  BY <1>8, PurgeHolds
<1>9. CASE ProjectChangedOnDisk
  BY <1>9, ExternalHolds
<1>10. CASE UNCHANGED vars
  BY <1>10 DEF vars, HistoryInv
<1>11. QED
  BY <1>1, <1>2, <1>3, <1>5, <1>6, <1>7, <1>8, <1>9, <1>10 DEF Next

----------------------------------------------------------------------------
(* The theorems.                                                           *)

\* Whatever happens to a history, the views its entries lead through, the
\* project at its cursor and its base fit together.
THEOREM HistoryHolds == Spec => []HistoryInv
BY InitHolds, NextHolds, PTL DEF Spec

\* Entries are numbered upwards from the base, and no number is given twice
\* (state.rs "Seqs are never reused").
THEOREM SeqsHold == Spec => []SeqsAreNotReused
<1>1. HistoryInv => SeqsAreNotReused
  <2> SUFFICES ASSUME HistoryInv PROVE SeqsAreNotReused
    OBVIOUS
  <2>1. Numbered(history) /\ top < history.next
    BY DEF HistoryInv, Walk
  <2>2. QED BY <2>1, EntryFacts DEF SeqsAreNotReused
<1>2. QED BY <1>1, HistoryHolds, PTL

\* Every entry can be undone to the base and redone to the newest, and every
\* project on the way is valid (move_to in history/ops.rs).
THEOREM StatesHold == Spec => []EveryStateIsReachable
<1>1. HistoryInv => EveryStateIsReachable
  <2> SUFFICES ASSUME HistoryInv PROVE EveryStateIsReachable
    OBVIOUS
  <2> DEFINE s == States(history, project.doc)
             D == DOMAIN project.doc
             n == Len(history.entries)
  <2>1. Sane(project) /\ Chain(s, history, D, project.done)
    BY DEF HistoryInv, Walk
  <2> HIDE DEF s
  <2>2. DOMAIN s = 0 .. n
    BY <2>1 DEF Chain
  <2>3. ASSUME NEW i \in 0 .. n
        PROVE  s[i] # Drifted /\ Valid([project EXCEPT !.doc = s[i]])
    <3> DEFINE q == [project EXCEPT !.doc = s[i]]
    <3>1. View(s[i], D) /\ Uses(s[i]) \subseteq project.done /\ TL \in D /\ Valid(project)
      BY <2>1 DEF Chain, Sane
    <3>2. DOMAIN s[i] = D
      BY <3>1 DEF View
    <3>3. s[i] # Drifted
      BY <3>1, <3>2 DEF Drifted
    <3>4. q.doc = s[i] /\ q.done = project.done /\ q.num = project.num
      BY <2>1 DEF Sane
    <3> HIDE DEF q
    <3>5. Pool(q) = Pool(project)
      BY <3>2, <3>4 DEF Pool
    <3>6. Valid(q)
      BY <3>1, <3>4, <3>5 DEF Valid
    <3>7. QED BY <3>3, <3>6 DEF q
  <2>4. QED BY <2>2, <2>3 DEF EveryStateIsReachable, s
<1>2. QED BY <1>1, HistoryHolds, PTL

\* An entry's hash is of the view it leads to, but for the takes that came
\* later.
THEOREM HashesHold == Spec => []HashesMatch
<1>1. HistoryInv => HashesMatch
  <2> SUFFICES ASSUME HistoryInv PROVE HashesMatch
    OBVIOUS
  <2> DEFINE s == States(history, project.doc)
  <2>1. Numbered(history) /\ Chain(s, history, DOMAIN project.doc, project.done)
    BY DEF HistoryInv, Walk
  <2> HIDE DEF s
  <2>2. \A i \in DOMAIN history.entries : Under(history.entries[i].after, s[i])
    BY <2>1, EntryFacts DEF Chain
  <2>3. QED BY <2>2 DEF HashesMatch, Under, s
<1>2. QED BY <1>1, HistoryHolds, PTL

\* history.base.json is the state that undoing everything leads to.
THEOREM BasesHold == Spec => []BaseIsTheOldestState
<1>1. HistoryInv => BaseIsTheOldestState
  BY DEF HistoryInv, Walk, Under, BaseIsTheOldestState
<1>2. QED BY <1>1, HistoryHolds, PTL
=============================================================================
