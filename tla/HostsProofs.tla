---------------------------- MODULE HostsProofs ----------------------------
(* Requests, hosts and sessions, proved for any number of clients and      *)
(* whatever they ask for: each request runs at most once, a stop is the    *)
(* last word, and a host that goes unforced leaves nothing behind.         *)
EXTENDS Hosts, SequenceLemmas

----------------------------------------------------------------------------
(* A request parked in front of others.                                    *)

\* One more in the middle: what is behind it moves by one place.
LEMMA InsertAtIs ==
  ASSUME NEW q, NEW k, NEW e
  PROVE  InsertAt(q, k, e) = SubSeq(q, 1, k - 1) \o <<e>> \o SubSeq(q, k, Len(q))
BY Zenon DEF InsertAt

Inserted(p, C, q, k, e) ==
    /\ p \in Seq(C) /\ Len(p) = Len(q) + 1 /\ p[k + 1] = e
    /\ \A i \in 1 .. k : p[i] = q[i]
    /\ \A i \in k + 1 .. Len(q) : p[i + 1] = q[i]

LEMMA InsertIs ==
  ASSUME NEW C, NEW q \in Seq(C), NEW e \in C, NEW k \in 0 .. Len(q)
  PROVE  Inserted(InsertAt(q, k + 1, e), C, q, k, e)
<1> DEFINE a == SubSeq(q, 1, k)
           b == SubSeq(q, k + 1, Len(q))
           c == a \o <<e>>
           p == InsertAt(q, k + 1, e)
           n == Len(q)
<1>0. n \in Nat /\ k \in 0 .. n /\ k \in Nat
  OBVIOUS
<1>1. p = c \o b
  <2>1. k + 1 - 1 = k
    BY <1>0
  <2>2. \A i : i = k + 1 => SubSeq(q, 1, i - 1) = a /\ SubSeq(q, i, Len(q)) = b
    BY <2>1
  <2>3. \A i : i = k + 1 => p = SubSeq(q, 1, i - 1) \o <<e>> \o SubSeq(q, i, Len(q))
    BY InsertAtIs
  <2> HIDE DEF a, b, p
  <2>4. QED BY <2>2, <2>3
<1>2. a \in Seq(C) /\ Len(a) = k /\ (\A i \in 1 .. k : a[i] = q[i])
  OBVIOUS
<1>3. b \in Seq(C) /\ Len(b) = n - k /\ \A i \in 1 .. n - k : b[i] = q[k + i]
  OBVIOUS
<1>4. c \in Seq(C) /\ Len(c) = k + 1 /\ c[k + 1] = e /\ \A i \in 1 .. k : c[i] = a[i]
  <2> HIDE DEF a
  <2>1. QED BY <1>2
<1> HIDE DEF a, b, c, p, n
<1>5. p \in Seq(C) /\ Len(p) = n + 1
  BY <1>0, <1>1, <1>3, <1>4
<1>6. \A i \in 1 .. k + 1 : p[i] = c[i]
  BY <1>0, <1>1, <1>3, <1>4
<1>7. \A i \in 1 .. n - k : p[k + 1 + i] = b[i]
  BY <1>0, <1>1, <1>3, <1>4
<1>8. ASSUME NEW i \in k + 1 .. n PROVE p[i + 1] = q[i]
  <2>1. i - k \in 1 .. n - k /\ k + 1 + (i - k) = i + 1 /\ k + (i - k) = i
    BY <1>0
  <2>2. p[k + 1 + (i - k)] = b[i - k] /\ b[i - k] = q[k + (i - k)]
    BY <2>1, <1>3, <1>7
  <2>3. QED BY <2>1, <2>2
<1>9. p[k + 1] = e /\ \A i \in 1 .. k : p[i] = q[i]
  BY <1>0, <1>2, <1>4, <1>6
<1>10. QED BY <1>5, <1>8, <1>9 DEF p, n, Inserted

----------------------------------------------------------------------------
(* One step of a session.                                                  *)

Session ==
    [recovering : BOOLEAN, waitOver : BOOLEAN, parked : Seq(Clients), interrupted : BOOLEAN,
     rec : {"idle", "recording", "finalizing"}, jobs : SUBSET Clients, stoppers : SUBSET Clients,
     reply : [Clients -> Words], ran : [Clients -> Nat]]

Once(seq) == \A i, j \in 1 .. Len(seq) : seq[i] = seq[j] => i = j

\* The requests a session works on.
Held(s) == s.jobs \cup s.stoppers

\* After an interrupt nothing records and nothing waits.
Winds(s) == s.interrupted => s.rec # "recording" /\ s.parked = <<>>

\* The parts of a session that decide whether requests wait.
SameWait(s, t) ==
    /\ t.parked = s.parked /\ t.interrupted = s.interrupted
    /\ t.recovering = s.recovering /\ t.waitOver = s.waitOver

\* A session that takes these requests in.
Takes(s, new) ==
    /\ s \in Session /\ Once(s.parked) /\ Winds(s)
    /\ new \subseteq Clients
    /\ Held(s) \cap Range(s.parked) = {}
    /\ new \cap (Held(s) \cup Range(s.parked)) = {}

\* What a session's step does with the requests it had and the new ones: each
\* goes on to wait, or it runs or is answered once.
Moves(s, t, new) ==
    /\ t \in Session /\ Once(t.parked) /\ Winds(t)
    /\ Range(t.parked) \subseteq Range(s.parked) \cup new
    /\ \A c \in Held(t) : c \in Held(s) \/ (c \in Range(s.parked) \cup new /\ c \notin Range(t.parked))
    /\ \A c \in Clients : t.ran[c] # s.ran[c] =>
         /\ c \in Range(s.parked) \cup new /\ c \notin Range(t.parked)
         /\ t.ran[c] = s.ran[c] + 1
    /\ \A c \in Clients : t.reply[c] # s.reply[c] =>
         /\ c \in Held(s) \cup Range(s.parked) \cup new /\ c \notin Range(t.parked)
         /\ t.reply[c] # "exiting"

\* Two steps of a session make one step.
LEMMA MovesOn ==
  ASSUME NEW s, NEW t, NEW u, NEW a, NEW b,
         Takes(s, a \cup b), a \cap b = {}, Moves(s, t, a), Moves(t, u, b)
  PROVE  Moves(s, u, a \cup b)
<1>1. u \in Session /\ Once(u.parked) /\ Winds(u)
  BY DEF Moves
<1>2. Range(u.parked) \subseteq Range(s.parked) \cup (a \cup b)
  BY DEF Moves
<1>3. \A c \in Held(u) : c \in Held(s) \/ (c \in Range(s.parked) \cup (a \cup b) /\ c \notin Range(u.parked))
  BY DEF Moves, Takes
<1>4. s.ran \in [Clients -> Nat] /\ t.ran \in [Clients -> Nat] /\ u.ran \in [Clients -> Nat]
  BY DEF Moves, Takes, Session
<1>5. \A c \in Clients : u.ran[c] # s.ran[c] =>
         /\ c \in Range(s.parked) \cup (a \cup b) /\ c \notin Range(u.parked)
         /\ u.ran[c] = s.ran[c] + 1
  BY <1>4 DEF Moves, Takes
<1>6. \A c \in Clients : u.reply[c] # s.reply[c] =>
         /\ c \in Held(s) \cup Range(s.parked) \cup (a \cup b) /\ c \notin Range(u.parked)
         /\ u.reply[c] # "exiting"
  BY DEF Moves, Takes
<1>7. QED
  BY <1>1, <1>2, <1>3, <1>5, <1>6 DEF Moves

\* After a step a session takes what is left of the requests.
LEMMA TakesOn ==
  ASSUME NEW s, NEW t, NEW a, NEW b,
         Takes(s, a \cup b), a \cap b = {}, Moves(s, t, a)
  PROVE  Takes(t, b)
<1>1. t \in Session /\ Once(t.parked) /\ Winds(t) /\ b \subseteq Clients
  BY DEF Moves, Takes
<1>2. Held(t) \cap Range(t.parked) = {}
  BY DEF Moves, Takes
<1>3. b \cap (Held(t) \cup Range(t.parked)) = {}
  BY DEF Moves, Takes
<1>4. QED
  BY <1>1, <1>2, <1>3 DEF Takes

\* What answering changes: the answers.
Tells(s, t, who, word) ==
    /\ t \in Session /\ SameWait(s, t)
    /\ t.ran = s.ran /\ t.rec = s.rec /\ t.jobs = s.jobs /\ t.stoppers = s.stoppers
    /\ \A c \in Clients : t.reply[c] = IF c \in who THEN word ELSE s.reply[c]

\* An answer goes to those it is for, and changes nothing else.
LEMMA AnswerTells ==
  ASSUME NEW s \in Session, NEW who, NEW word \in Words
  PROVE  Tells(s, Answer(s, who, word), who, word)
BY DEF Answer, Session, SameWait, Tells

\* Who runs is counted; the step below is what each command leaves.
LEMMA RunMoves ==
  ASSUME NEW s, NEW c, Takes(s, {c}), NEW t \in Session, SameWait(s, t), Winds(t),
         Held(t) \subseteq Held(s) \cup {c},
         t.ran = [s.ran EXCEPT ![c] = @ + 1],
         \A d \in Clients \ {c} : t.reply[d] = s.reply[d],
         t.reply[c] = s.reply[c] \/ t.reply[c] # "exiting"
  PROVE  Moves(s, t, {c})
<1>1. s \in Session /\ s.ran \in [Clients -> Nat] /\ c \in Clients /\ Once(s.parked)
      /\ c \notin Held(s) /\ c \notin Range(s.parked) /\ t.parked = s.parked
  BY DEF Takes, SameWait, Session
<1>2. \A d \in Clients : t.ran[d] = IF d = c THEN s.ran[d] + 1 ELSE s.ran[d]
  BY <1>1
<1>3. \A d \in Held(t) : d \in Held(s) \/ (d \in Range(s.parked) \cup {c} /\ d \notin Range(t.parked))
  BY <1>1
<1>4. \A d \in Clients : t.ran[d] # s.ran[d] =>
         /\ d \in Range(s.parked) \cup {c} /\ d \notin Range(t.parked)
         /\ t.ran[d] = s.ran[d] + 1
  BY <1>1, <1>2
<1>5. \A d \in Clients : t.reply[d] # s.reply[d] =>
         /\ d \in Held(s) \cup Range(s.parked) \cup {c} /\ d \notin Range(t.parked)
         /\ t.reply[d] # "exiting"
  BY <1>1
<1>6. QED
  BY <1>1, <1>3, <1>4, <1>5 DEF Moves

\* The core runs the request, whatever it asks for, and nothing starts to wait.
LEMMA ApplyMoves ==
  ASSUME NEW s, NEW c \in Clients, NEW what, NEW by, Takes(s, {c}),
         s.interrupted => WindsDown(what, s)
  PROVE  /\ Moves(s, Apply(s, c, what, by), {c})
         /\ SameWait(s, Apply(s, c, what, by))
<1> DEFINE n == [s EXCEPT !.ran[c] = @ + 1]
           starts == what = "start" \/ (what = "toggle" /\ s.rec = "idle")
<1>1. s \in Session /\ n \in Session /\ SameWait(s, n) /\ n.rec = s.rec /\ n.jobs = s.jobs /\ n.stoppers = s.stoppers
      /\ n.reply = s.reply /\ n.ran = [s.ran EXCEPT ![c] = @ + 1] /\ Winds(s)
  <2>1. s \in Session /\ Winds(s) /\ s.ran \in [Clients -> Nat]
    BY DEF Takes, Session
  <2>2. [s.ran EXCEPT ![c] = @ + 1] \in [Clients -> Nat]
    BY <2>1
  <2>3. n = [s EXCEPT !.ran = [s.ran EXCEPT ![c] = @ + 1]]
    BY <2>1 DEF Session
  <2> HIDE DEF n
  <2>4. QED BY <2>1, <2>2, <2>3 DEF Session, SameWait
<1>2. Winds(n) /\ {"ok", "refused"} \subseteq Words
  BY <1>1 DEF Winds, SameWait, Words
<1> HIDE DEF n
<1>3. ASSUME NEW t \in Session, NEW word \in {"ok", "refused"}, t = Answer(n, {c}, word)
      PROVE  Moves(s, t, {c}) /\ SameWait(s, t)
  <2> Tells(n, t, {c}, word)
    BY <1>1, <1>2, <1>3, AnswerTells
  <2>1. SameWait(s, t) /\ Held(t) = Held(s) /\ t.ran = n.ran /\ t.rec = s.rec
    BY <1>1 DEF SameWait, Held, Tells
  <2>2. \A d \in Clients \ {c} : t.reply[d] = s.reply[d]
    BY <1>1 DEF Tells
  <2>3. t.reply[c] # "exiting"
    BY <1>1 DEF Tells
  <2>4. Winds(t)
    BY <1>1, <2>1 DEF Winds, SameWait
  <2>5. QED
    BY <1>1, <2>1, <2>2, <2>3, <2>4, RunMoves
<1>4. ASSUME NEW word \in {"ok", "refused"}
      PROVE  Moves(s, Answer(n, {c}, word), {c}) /\ SameWait(s, Answer(n, {c}, word))
  <2>1. Answer(n, {c}, word) \in Session
    BY <1>1, <1>2, AnswerTells DEF Tells
  <2>2. QED BY <2>1, <1>3
<1>5. ASSUME starts, ~s.interrupted
      PROVE  Moves(s, StartRecording(n, c, by), {c}) /\ SameWait(s, StartRecording(n, c, by))
  <2>1. CASE n.jobs # {} \/ by = "cli" \/ n.rec # "idle"
    BY <2>1, <1>4 DEF StartRecording
  <2>2. CASE ~(n.jobs # {} \/ by = "cli" \/ n.rec # "idle")
    <3> DEFINE m == [n EXCEPT !.rec = "recording"]
               t == Answer(m, {c}, "ok")
    <3>1. m \in Session /\ m.rec = "recording" /\ m.jobs = n.jobs /\ m.stoppers = n.stoppers
          /\ m.reply = n.reply /\ m.ran = n.ran /\ SameWait(n, m)
      BY <1>1 DEF Session, SameWait
    <3> HIDE DEF m
    <3> Tells(m, t, {c}, "ok")
      BY <1>2, <3>1, AnswerTells
    <3>2. t \in Session /\ SameWait(s, t) /\ Held(t) = Held(s) /\ t.ran = n.ran
      BY <1>1, <3>1 DEF SameWait, Held, Tells
    <3>3. t.reply[c] # "exiting" /\ \A d \in Clients \ {c} : t.reply[d] = s.reply[d]
      BY <1>1, <3>1 DEF Tells
    <3>4. Winds(t)
      BY <1>5, <3>2 DEF Winds, SameWait
    <3> HIDE DEF t
    <3>5. Moves(s, t, {c})
      BY <1>1, <3>2, <3>3, <3>4, RunMoves
    <3>6. StartRecording(n, c, by) = t
      BY <2>2 DEF StartRecording, m, t
    <3>7. QED BY <3>2, <3>5, <3>6
  <2>3. QED BY <2>1, <2>2
<1>6. Moves(s, StopRecording(n, {c}), {c}) /\ SameWait(s, StopRecording(n, {c}))
  <2>1. CASE n.rec = "idle"
    BY <2>1, <1>4 DEF StopRecording
  <2>2. CASE n.rec # "idle"
    <3> DEFINE t == [n EXCEPT !.rec = "finalizing", !.stoppers = @ \cup {c}]
    <3>1. t \in Session /\ SameWait(s, t) /\ Held(t) = Held(s) \cup {c} /\ t.ran = n.ran /\ t.reply = s.reply /\ t.rec = "finalizing"
      BY <1>1 DEF Session, SameWait, Held
    <3>2. Winds(t)
      BY <1>1, <3>1 DEF Winds, SameWait
    <3>3. StopRecording(n, {c}) = t
      BY <2>2 DEF StopRecording
    <3> HIDE DEF t
    <3>4. Moves(s, t, {c})
      BY <1>1, <3>1, <3>2, RunMoves
    <3>5. QED BY <3>1, <3>3, <3>4
  <2>3. QED BY <2>1, <2>2
<1>7. Moves(s, Export(n, c), {c}) /\ SameWait(s, Export(n, c))
  <2>1. CASE n.rec # "idle" \/ n.jobs # {}
    BY <2>1, <1>4 DEF Export
  <2>2. CASE n.rec = "idle" /\ n.jobs = {}
    <3> DEFINE t == [n EXCEPT !.jobs = @ \cup {c}]
    <3>1. t \in Session /\ SameWait(s, t) /\ Held(t) = Held(s) \cup {c} /\ t.ran = n.ran /\ t.reply = s.reply /\ t.rec = n.rec
      BY <1>1 DEF Session, SameWait, Held
    <3>2. Winds(t)
      BY <1>1, <3>1 DEF Winds, SameWait
    <3>3. Export(n, c) = t
      BY <2>2 DEF Export
    <3> HIDE DEF t
    <3>4. Moves(s, t, {c})
      BY <1>1, <3>1, <3>2, RunMoves
    <3>5. QED BY <3>1, <3>3, <3>4
  <2>3. QED BY <2>1, <2>2
<1>8. Moves(s, ExportCancel(n, c), {c}) /\ SameWait(s, ExportCancel(n, c))
  BY <1>4 DEF ExportCancel
<1>9. starts => ~WindsDown(what, s)
  BY DEF WindsDown
<1>10. CASE starts
  <2>1. Apply(s, c, what, by) = StartRecording(n, c, by)
    BY <1>10 DEF Apply, n
  <2>2. QED BY <2>1, <1>5, <1>9, <1>10
<1>11. CASE what \in {"stop", "toggle"} /\ ~starts
  <2>1. Apply(s, c, what, by) = StopRecording(n, {c})
    BY <1>11 DEF Apply, n
  <2>2. QED BY <2>1, <1>6
<1>12. CASE what = "export"
  <2>1. Apply(s, c, what, by) = Export(n, c)
    BY <1>12 DEF Apply, n
  <2>2. QED BY <2>1, <1>7
<1>13. CASE what = "exportCancel"
  <2>1. Apply(s, c, what, by) = ExportCancel(n, c)
    BY <1>13 DEF Apply, n
  <2>2. QED BY <2>1, <1>8
<1>14. CASE ~starts /\ what \notin {"stop", "toggle", "export", "exportCancel"}
  <2>1. Apply(s, c, what, by) = Answer(n, {c}, "ok")
    BY <1>14 DEF Apply, n
  <2>2. QED BY <2>1, <1>4
<1>15. QED
  BY <1>10, <1>11, <1>12, <1>13, <1>14

\* Dropping some of what waits keeps the others, each once.
LEMMA OnlyFacts ==
  ASSUME NEW C, NEW seq \in Seq(C), NEW S, Once(seq)
  PROVE  /\ Only(seq, S) \in Seq(C) /\ Once(Only(seq, S))
         /\ \A x : x \in Range(Only(seq, S)) <=> x \in Range(seq) /\ x \in S
         /\ seq = <<>> => Only(seq, S) = <<>>
<1> DEFINE o == Only(seq, S)
<1>1. o \in Seq(C)
  BY OnlyKeepsOrder
<1>2. PICK m \in [1 .. Len(o) -> 1 .. Len(seq)] :
              /\ \A x, y \in 1 .. Len(o) : x < y => m[x] < m[y]
              /\ \A x \in 1 .. Len(o) : o[x] = seq[m[x]] /\ seq[m[x]] \in S
              /\ \A j \in 1 .. Len(seq) : seq[j] \in S => \E x \in 1 .. Len(o) : m[x] = j
  BY OnlyKeepsOrder
<1> HIDE DEF o
<1>3. ASSUME NEW i \in 1 .. Len(o), NEW j \in 1 .. Len(o), o[i] = o[j] PROVE i = j
  <2>1. m[i] \in 1 .. Len(seq) /\ m[j] \in 1 .. Len(seq) /\ m[i] = m[j]
    BY <1>2, <1>3 DEF Once
  <2>2. CASE i < j
    BY <2>1, <2>2, <1>2
  <2>3. CASE j < i
    BY <2>1, <2>3, <1>2
  <2>4. Len(o) \in Nat
    BY <1>1
  <2>5. QED BY <2>2, <2>3, <2>4
<1>4. \A x : x \in Range(o) <=> x \in Range(seq) /\ x \in S
  <2>1. ASSUME NEW x \in Range(o) PROVE x \in Range(seq) /\ x \in S
    <3>1. PICK i \in 1 .. Len(o) : o[i] = x
      BY <1>1, RangeFacts
    <3>2. seq[m[i]] = x /\ m[i] \in 1 .. Len(seq) /\ x \in S
      BY <3>1, <1>2
    <3>3. QED BY <3>2, RangeFacts
  <2>2. ASSUME NEW x \in Range(seq), x \in S PROVE x \in Range(o)
    <3>1. PICK j \in 1 .. Len(seq) : seq[j] = x
      BY RangeFacts
    <3>2. PICK i \in 1 .. Len(o) : m[i] = j
      BY <3>1, <2>2, <1>2
    <3>3. o[i] = x
      BY <3>1, <3>2, <1>2
    <3>4. QED BY <3>3, <1>1, RangeFacts
  <2>3. QED BY <2>1, <2>2
<1>5. ASSUME seq = <<>> PROVE o = <<>>
  <2>1. Len(seq) = 0
    BY <1>5
  <2>2. Len(o) \in Nat /\ \A x \in 1 .. Len(o) : m[x] \in 1 .. 0
    BY <1>1, <1>2, <2>1
  <2>3. Len(o) = 0
    BY <2>2
  <2>4. QED BY <1>1, <2>3
<1>6. QED
  BY <1>1, <1>3, <1>4, <1>5 DEF o, Once

\* Requests that waited are answered and wait no more; nothing else moves.
LEMMA DropMoves ==
  ASSUME NEW s, NEW t \in Session, NEW new, Takes(s, new),
         Once(t.parked), Range(t.parked) \subseteq Range(s.parked), Winds(t),
         Held(t) \subseteq Held(s), t.ran = s.ran,
         \A d \in Clients : t.reply[d] # s.reply[d] =>
            /\ d \in Range(s.parked) \cup new \cup Held(s)
            /\ d \notin Range(t.parked) /\ t.reply[d] # "exiting"
  PROVE  Moves(s, t, new)
BY DEF Takes, Moves

Aborted(s, t, new, what, cm) ==
    /\ Moves(s, t, new)
    /\ \A d \in Range(t.parked) : d \in Range(s.parked) /\ ~Aborts(what, cm[d])
    /\ s.parked = <<>> => t.parked = <<>>
    /\ t.recovering = s.recovering
    /\ t.waitOver = s.waitOver

\* A stop, cancel or toggle answers what it aborts, and the request itself.
LEMMA AbortMoves ==
  ASSUME NEW s, NEW new, Takes(s, new), NEW what, NEW cm
  PROVE  Aborted(s, AbortParked(s, new, what, cm), new, what, cm)
<1> DEFINE gone == Stopped(s, what, cm)
           kept == Only(s.parked, Clients \ gone)
           u == [s EXCEPT !.parked = kept]
           v == Answer(u, gone, "aborted")
           t == Answer(v, new, "ok")
<1>1. s \in Session /\ s.parked \in Seq(Clients) /\ Once(s.parked) /\ Winds(s) /\ {"aborted", "ok"} \subseteq Words
      /\ Held(s) \cap Range(s.parked) = {} /\ new \cap Range(s.parked) = {} /\ new \subseteq Clients
  BY DEF Takes, Session, Words
<1>2. /\ kept \in Seq(Clients) /\ Once(kept)
      /\ \A x : x \in Range(kept) <=> x \in Range(s.parked) /\ x \in Clients \ gone
      /\ s.parked = <<>> => kept = <<>>
  BY <1>1, OnlyFacts
<1>3. gone = {p \in Range(s.parked) : Aborts(what, cm[p])}
  BY DEF Stopped
<1> HIDE DEF kept, gone
<1>4. u \in Session /\ u.parked = kept /\ u.interrupted = s.interrupted /\ u.rec = s.rec /\ u.jobs = s.jobs
      /\ u.stoppers = s.stoppers /\ u.ran = s.ran /\ u.reply = s.reply
      /\ u.recovering = s.recovering /\ u.waitOver = s.waitOver
  BY <1>1, <1>2 DEF Session
<1> HIDE DEF u
<1>5. Tells(u, v, gone, "aborted")
  BY <1>1, <1>4, AnswerTells
<1> HIDE DEF v
<1>6. Tells(v, t, new, "ok")
  BY <1>1, <1>5, AnswerTells DEF Tells
<1>7. t = AbortParked(s, new, what, cm)
  BY DEF AbortParked, t, v, u, kept, gone
<1> HIDE DEF t
<1>8. t \in Session /\ t.parked = kept /\ t.ran = s.ran /\ Held(t) = Held(s) /\ t.interrupted = s.interrupted /\ t.rec = s.rec
      /\ t.recovering = s.recovering /\ t.waitOver = s.waitOver
  BY <1>4, <1>5, <1>6 DEF Tells, SameWait, Held
<1>9. Winds(t)
  BY <1>1, <1>2, <1>8 DEF Winds
<1>10. \A d \in Clients : t.reply[d] = IF d \in new THEN "ok" ELSE IF d \in gone THEN "aborted" ELSE s.reply[d]
  BY <1>4, <1>5, <1>6 DEF Tells
<1>11. \A d \in Clients : t.reply[d] # s.reply[d] =>
            /\ d \in Range(s.parked) \cup new \cup Held(s)
            /\ d \notin Range(t.parked) /\ t.reply[d] # "exiting"
  BY <1>1, <1>2, <1>3, <1>8, <1>10
<1>12. Moves(s, t, new)
  BY <1>1, <1>2, <1>8, <1>9, <1>11, DropMoves
<1>13. QED
  BY <1>2, <1>3, <1>7, <1>8, <1>12, RangeFacts DEF Aborted

\* A request that waits behind the others waits once.
LEMMA AppendFacts ==
  ASSUME NEW C, NEW seq \in Seq(C), NEW c \in C, c \notin Range(seq), Once(seq)
  PROVE  /\ Append(seq, c) \in Seq(C) /\ Once(Append(seq, c))
         /\ Range(Append(seq, c)) = Range(seq) \cup {c}
<1>1. /\ Len(Append(seq, c)) = Len(seq) + 1 /\ Len(seq) \in Nat
      /\ Append(seq, c)[Len(seq) + 1] = c /\ \A i \in 1 .. Len(seq) : Append(seq, c)[i] = seq[i]
  OBVIOUS
<1>2. \A i \in 1 .. Len(seq) : seq[i] # c
  BY RangeFacts
<1> DEFINE a == Append(seq, c)
<1> HIDE DEF a
<1>3. \A i \in 1 .. Len(seq) + 1 : i \in 1 .. Len(seq) \/ i = Len(seq) + 1
  BY <1>1
<1>4. Once(a)
  BY <1>1, <1>2, <1>3 DEF Once, a
<1>5. QED
  BY <1>4, AppendRange DEF a

\* What dispatching one request leaves.
Dispatched(s, t, c, cm) ==
    /\ Moves(s, t, {c})
    /\ t.recovering = s.recovering
    /\ t.waitOver = s.waitOver
    /\ s.parked = <<>> /\ ~Holding(s) => t.parked = <<>>
    /\ cm[c] = "stop" => \A d \in Range(t.parked) : ~MayStartRecording(cm[d])

\* Dispatching a request, and after a stop no start waits.
LEMMA DispatchMoves ==
  ASSUME NEW s, NEW c \in Clients, Takes(s, {c}), NEW cm, NEW by
  PROVE  Dispatched(s, Dispatch(s, c, cm, by), c, cm)
<1> DEFINE t == Dispatch(s, c, cm, by)
<1>1. s \in Session /\ s.parked \in Seq(Clients) /\ Once(s.parked) /\ Winds(s) /\ "stopping" \in Words
      /\ Held(s) \cap Range(s.parked) = {} /\ c \notin Range(s.parked)
  BY DEF Takes, Session, Words
<1>2. CASE s.interrupted /\ ~WindsDown(cm[c], s)
  <2> DEFINE u == Answer(s, {c}, "stopping")
  <2>1. t = u
    BY <1>2 DEF Dispatch
  <2>2. Tells(s, u, {c}, "stopping")
    BY <1>1, AnswerTells
  <2> HIDE DEF u
  <2>3. u \in Session /\ u.parked = s.parked /\ Winds(u) /\ Held(u) = Held(s) /\ u.ran = s.ran
        /\ u.recovering = s.recovering /\ u.waitOver = s.waitOver
    BY <1>1, <2>2 DEF Tells, SameWait, Winds, Held
  <2>4. \A d \in Clients : u.reply[d] # s.reply[d] => d = c /\ u.reply[d] # "exiting"
    BY <2>2 DEF Tells
  <2>5. Moves(s, u, {c})
    BY <1>1, <2>3, <2>4, DropMoves
  <2>6. cm[c] # "stop"
    BY <1>2 DEF WindsDown
  <2>7. QED BY <2>1, <2>3, <2>5, <2>6 DEF Dispatched
<1>3. CASE ~(s.interrupted /\ ~WindsDown(cm[c], s)) /\ Stopped(s, cm[c], cm) # {}
  <2> DEFINE u == AbortParked(s, {c}, cm[c], cm)
  <2>1. t = u
    BY <1>3 DEF Dispatch
  <2>2. Aborted(s, u, {c}, cm[c], cm)
    BY AbortMoves
  <2> HIDE DEF u
  <2>3. cm[c] = "stop" => \A d \in Range(u.parked) : ~MayStartRecording(cm[d])
    BY <2>2 DEF Aborts, Aborted
  <2>4. QED BY <2>1, <2>2, <2>3 DEF Aborted, Dispatched
<1>4. CASE ~(s.interrupted /\ ~WindsDown(cm[c], s)) /\ Stopped(s, cm[c], cm) = {} /\ Waits(s, cm[c])
  <2> DEFINE u == [s EXCEPT !.parked = Append(@, c)]
  <2>1. t = u
    BY <1>4 DEF Dispatch
  <2>2. /\ Append(s.parked, c) \in Seq(Clients) /\ Once(Append(s.parked, c))
        /\ Range(Append(s.parked, c)) = Range(s.parked) \cup {c}
    BY <1>1, AppendFacts
  <2>3. u \in Session /\ u.parked = Append(s.parked, c) /\ Held(u) = Held(s) /\ u.ran = s.ran /\ u.reply = s.reply
        /\ u.recovering = s.recovering /\ u.waitOver = s.waitOver /\ u.interrupted = s.interrupted
    BY <1>1, <2>2 DEF Session, Held
  <2>4. ~s.interrupted /\ cm[c] # "stop" /\ Holding(s)
    BY <1>4 DEF Waits, WindsDown
  <2> HIDE DEF u
  <2>5. Winds(u)
    BY <2>3, <2>4 DEF Winds
  <2>6. Moves(s, u, {c})
    BY <1>1, <2>2, <2>3, <2>5 DEF Moves
  <2>7. QED BY <2>1, <2>3, <2>4, <2>6 DEF Dispatched
<1>5. CASE ~(s.interrupted /\ ~WindsDown(cm[c], s)) /\ Stopped(s, cm[c], cm) = {} /\ ~Waits(s, cm[c])
  <2> DEFINE u == Apply(s, c, cm[c], by)
  <2>1. t = u
    BY <1>5 DEF Dispatch
  <2>2. Moves(s, u, {c}) /\ SameWait(s, u)
    BY <1>5, ApplyMoves
  <2>3. cm[c] = "stop" => \A d \in Range(s.parked) : ~MayStartRecording(cm[d])
    BY <1>5 DEF Stopped, Aborts
  <2> HIDE DEF u
  <2>4. QED BY <2>1, <2>2, <2>3 DEF SameWait, Dispatched
<1>6. QED
  BY <1>2, <1>3, <1>4, <1>5 DEF Dispatched

\* The session's own stop, the interrupt, the requester that is gone.
LEMMA StopMoves ==
  ASSUME NEW s, Takes(s, {})
  PROVE  /\ Moves(s, StopRecording(s, {}), {})
         /\ SameWait(s, StopRecording(s, {}))
         /\ StopRecording(s, {}).rec # "recording"
<1>1. s \in Session /\ Once(s.parked) /\ Winds(s) /\ "refused" \in Words
  BY DEF Takes, Session, Words
<1>2. CASE s.rec = "idle"
  <2> DEFINE u == Answer(s, {}, "refused")
  <2>1. Tells(s, u, {}, "refused") /\ StopRecording(s, {}) = u
    BY <1>1, <1>2, AnswerTells DEF StopRecording
  <2> HIDE DEF u
  <2>2. u \in Session /\ SameWait(s, u) /\ u.rec = "idle" /\ Held(u) = Held(s) /\ u.ran = s.ran /\ Winds(u)
        /\ u.parked = s.parked
    BY <1>1, <1>2, <2>1 DEF Tells, SameWait, Held, Winds
  <2>3. \A d \in Clients : u.reply[d] = s.reply[d]
    BY <2>1 DEF Tells
  <2>4. Moves(s, u, {})
    BY <1>1, <2>2, <2>3, DropMoves
  <2>5. QED BY <2>1, <2>2, <2>4
<1>3. CASE s.rec # "idle"
  <2> DEFINE u == [s EXCEPT !.rec = "finalizing", !.stoppers = @ \cup {}]
  <2>1. StopRecording(s, {}) = u
    BY <1>3 DEF StopRecording
  <2>2. u \in Session /\ SameWait(s, u) /\ u.rec = "finalizing" /\ Held(u) = Held(s) /\ u.ran = s.ran /\ u.reply = s.reply
    BY <1>1 DEF Session, SameWait, Held
  <2> HIDE DEF u
  <2>3. Winds(u) /\ u.parked = s.parked
    BY <1>1, <2>2 DEF Winds, SameWait
  <2>4. Moves(s, u, {})
    BY <1>1, <2>2, <2>3, DropMoves
  <2>5. QED BY <2>1, <2>2, <2>4
<1>4. QED BY <1>2, <1>3

\* The interrupt empties what waits and ends the recording.
LEMMA InterruptMoves ==
  ASSUME NEW s, Takes(s, {})
  PROVE  Moves(s, HandleInterrupt(s), {})
<1> DEFINE u == [s EXCEPT !.parked = <<>>, !.interrupted = TRUE]
           t == Answer(u, Range(s.parked), "stopping")
<1>1. s \in Session /\ Once(s.parked) /\ Winds(s) /\ "stopping" \in Words /\ s.parked \in Seq(Clients) /\ Range(<<>>) = {}
  BY RangeEmpty DEF Takes, Session, Words
<1>2. u \in Session /\ u.parked = <<>> /\ u.interrupted = TRUE /\ u.rec = s.rec /\ u.jobs = s.jobs
      /\ u.stoppers = s.stoppers /\ u.ran = s.ran /\ u.reply = s.reply
  <2>1. <<>> \in Seq(Clients) /\ TRUE \in BOOLEAN
    OBVIOUS
  <2>2. QED BY <1>1, <2>1 DEF Session
<1> HIDE DEF u
<1>3. Tells(u, t, Range(s.parked), "stopping")
  BY <1>1, <1>2, AnswerTells
<1>4. HandleInterrupt(s) = IF t.rec = "idle" THEN t ELSE StopRecording(t, {})
  BY DEF HandleInterrupt, t, u
<1> HIDE DEF t
<1>5. t \in Session /\ t.parked = <<>> /\ t.rec = s.rec /\ Held(t) = Held(s) /\ t.ran = s.ran /\ t.interrupted
  BY <1>2, <1>3 DEF Tells, SameWait, Held
<1>6. \A d \in Clients : t.reply[d] # s.reply[d] => d \in Range(s.parked) /\ t.reply[d] # "exiting"
  BY <1>2, <1>3 DEF Tells
<1>7. Once(t.parked)
  BY <1>5 DEF Once
<1> DEFINE r == HandleInterrupt(s)
           w == [t EXCEPT !.rec = "finalizing", !.stoppers = @ \cup {}]
<1>8. w \in Session /\ w.parked = <<>> /\ w.rec = "finalizing" /\ Held(w) = Held(t) /\ w.ran = t.ran /\ w.interrupted
      /\ w.reply = t.reply
  BY <1>5 DEF Session, Held
<1>9. r = IF t.rec = "idle" THEN t ELSE w
  BY <1>4 DEF StopRecording
<1> HIDE DEF w, r
<1>10. r \in Session /\ r.parked = <<>> /\ r.rec # "recording" /\ Held(r) = Held(s) /\ r.ran = s.ran /\ r.reply = t.reply
  BY <1>5, <1>8, <1>9
<1>11. Winds(r) /\ Once(r.parked)
  BY <1>7, <1>5, <1>10 DEF Winds
<1>12. Moves(s, r, {})
  BY <1>1, <1>6, <1>10, <1>11, DropMoves
<1>13. QED BY <1>12 DEF r

\* A requester that left only drops what it had.
LEMMA GoneMoves ==
  ASSUME NEW s, NEW c, Takes(s, {})
  PROVE  Moves(s, RequesterGone(s, c), {})
<1> DEFINE kept == Only(s.parked, Clients \ {c})
           t == [s EXCEPT !.parked = kept, !.stoppers = @ \ {c}]
<1>1. s \in Session /\ Once(s.parked) /\ Winds(s) /\ s.parked \in Seq(Clients)
  BY DEF Takes, Session
<1>2. /\ kept \in Seq(Clients) /\ Once(kept)
      /\ \A x : x \in Range(kept) => x \in Range(s.parked)
      /\ s.parked = <<>> => kept = <<>>
  BY <1>1, OnlyFacts
<1> HIDE DEF kept
<1>3. t \in Session /\ t.parked = kept /\ t.interrupted = s.interrupted /\ t.rec = s.rec /\ Held(t) \subseteq Held(s)
      /\ t.ran = s.ran /\ t.reply = s.reply
  BY <1>1, <1>2 DEF Session, Held
<1>4. RequesterGone(s, c) = t
  BY DEF RequesterGone, kept
<1> HIDE DEF t
<1>5. Winds(t)
  BY <1>1, <1>2, <1>3 DEF Winds
<1>6. Moves(s, t, {})
  BY <1>1, <1>2, <1>3, <1>5, DropMoves
<1>7. QED BY <1>4, <1>6

\* A dispatch leaves a session, whatever it was given.
LEMMA DispatchTyped ==
  ASSUME NEW s \in Session, NEW c \in Clients, NEW cm, NEW by
  PROVE  Dispatch(s, c, cm, by) \in Session
<1>1. ASSUME NEW t \in Session, NEW who, NEW word \in Words
      PROVE  Answer(t, who, word) \in Session
  BY AnswerTells DEF Tells
<1>2. {"ok", "refused", "stopping", "aborted"} \subseteq Words
  BY DEF Words
<1>3. AbortParked(s, {c}, cm[c], cm) \in Session
  <2> DEFINE kept == Only(s.parked, Clients \ Stopped(s, cm[c], cm))
             u == [s EXCEPT !.parked = kept]
  <2>1. s.parked \in Seq(Clients)
    BY DEF Session
  <2>2. kept \in Seq(Clients)
    BY <2>1, OnlyKeepsOrder
  <2> HIDE DEF kept
  <2>3. u \in Session
    BY <2>2 DEF Session
  <2> HIDE DEF u
  <2>4. Answer(Answer(u, Stopped(s, cm[c], cm), "aborted"), {c}, "ok") \in Session
    BY <2>3, <1>1, <1>2
  <2>5. QED BY <2>4 DEF AbortParked, u, kept
<1>4. [s EXCEPT !.parked = Append(@, c)] \in Session
  <2>1. Append(s.parked, c) \in Seq(Clients)
    BY DEF Session
  <2>2. QED BY <2>1 DEF Session
<1>5. Apply(s, c, cm[c], by) \in Session
  <2> DEFINE n == [s EXCEPT !.ran[c] = @ + 1]
             what == cm[c]
             starts == what = "start" \/ (what = "toggle" /\ s.rec = "idle")
  <2>1. n \in Session
    <3>1. s.ran \in [Clients -> Nat]
      BY DEF Session
    <3>2. [s.ran EXCEPT ![c] = @ + 1] \in [Clients -> Nat]
      BY <3>1
    <3>3. n = [s EXCEPT !.ran = [s.ran EXCEPT ![c] = @ + 1]]
      BY DEF Session
    <3> HIDE DEF n
    <3>4. QED BY <3>2, <3>3 DEF Session
  <2> HIDE DEF n
  <2>2. [n EXCEPT !.rec = "recording"] \in Session
    BY <2>1 DEF Session
  <2>3. StartRecording(n, c, by) \in Session
    BY <1>1, <1>2, <2>1, <2>2 DEF StartRecording
  <2>4. [n EXCEPT !.rec = "finalizing", !.stoppers = @ \cup {c}] \in Session
    BY <2>1 DEF Session
  <2>5. StopRecording(n, {c}) \in Session
    BY <1>1, <1>2, <2>1, <2>4 DEF StopRecording
  <2>6. [n EXCEPT !.jobs = @ \cup {c}] \in Session
    BY <2>1 DEF Session
  <2>7. Export(n, c) \in Session
    BY <1>1, <1>2, <2>1, <2>6 DEF Export
  <2>8. ExportCancel(n, c) \in Session
    BY <1>1, <1>2, <2>1 DEF ExportCancel
  <2>9. Answer(n, {c}, "ok") \in Session
    BY <1>1, <1>2, <2>1
  <2>10. Apply(s, c, what, by) \in
           {StartRecording(n, c, by), StopRecording(n, {c}), Export(n, c), ExportCancel(n, c), Answer(n, {c}, "ok")}
    <3> HIDE DEF what
    <3>1. CASE starts
      BY <3>1 DEF Apply, n
    <3>2. CASE what \in {"stop", "toggle"} /\ ~starts
      BY <3>2 DEF Apply, n
    <3>3. CASE what = "export"
      BY <3>3 DEF Apply, n
    <3>4. CASE what = "exportCancel"
      BY <3>4 DEF Apply, n
    <3>5. CASE ~starts /\ what \notin {"stop", "toggle", "export", "exportCancel"}
      BY <3>5 DEF Apply, n
    <3>6. QED BY <3>1, <3>2, <3>3, <3>4, <3>5
  <2>11. QED BY <2>3, <2>5, <2>7, <2>8, <2>9, <2>10
<1>6. Answer(s, {c}, "stopping") \in Session
  BY <1>1, <1>2
<1>7. QED
  BY <1>3, <1>4, <1>5, <1>6 DEF Dispatch

\* Doing nothing is a step.
LEMMA MovesNothing ==
  ASSUME NEW s, Takes(s, {})
  PROVE  Moves(s, s, {})
BY DEF Takes, Moves

\* What was parked runs in its order, each once.
LEMMA ReleaseMoves ==
  ASSUME NEW s, Takes(s, {}), NEW cm, NEW by
  PROVE  /\ Moves(s, ReleaseParked(s, cm, by), {})
         /\ ReleaseParked(s, cm, by).recovering = s.recovering
         /\ ReleaseParked(s, cm, by).waitOver = s.waitOver
<1>1. CASE Holding(s)
  <2>1. ReleaseParked(s, cm, by) = s
    BY <1>1 DEF ReleaseParked
  <2>2. QED BY <2>1, MovesNothing
<1>2. CASE ~Holding(s)
  <2> DEFINE n == Len(s.parked)
             z == [s EXCEPT !.parked = <<>>]
             D(t, c) == Dispatch(t, c, cm, by)
             F == [i \in 1 .. n |-> [t \in Session |-> D(t, s.parked[i])]]
             Is(g) == g = [i \in 0 .. n |-> IF i = 0 THEN z ELSE D(g[i - 1], s.parked[i])]
             Past(i) == {s.parked[j] : j \in 1 .. i}
  <2>1. s \in Session /\ s.parked \in Seq(Clients) /\ n \in Nat /\ \A i \in 1 .. n : s.parked[i] \in Clients
    BY DEF Takes, Session
  <2> <<>> \in Seq(Clients)
    OBVIOUS
  <2>2. z \in Session /\ z.parked = <<>> /\ z.recovering = s.recovering /\ z.waitOver = s.waitOver
        /\ z.ran = s.ran /\ z.reply = s.reply /\ Held(z) = Held(s) /\ z.interrupted = s.interrupted /\ z.rec = s.rec
    BY <2>1 DEF Session, Held
  <2> HIDE DEF z
  <2>3. \A t \in Session, c \in Clients : D(t, c) \in Session
    BY DispatchTyped
  <2> HIDE DEF D
  <2>4. F \in [1 .. n -> [Session -> Session]]
    <3> HIDE DEF n
    <3> QED BY <2>1, <2>3
  <2>5. PICK f : Recurs(f, Session, z, n, F)
    <3>1. z \in Session /\ n \in Nat
      BY <2>1, <2>2
    <3> HIDE DEF F, n
    <3>2. QED BY <2>4, <3>1, Recursion
  <2>6. Is(f)
    <3>1. ASSUME NEW i \in 1 .. n PROVE f[i] = D(f[i - 1], s.parked[i])
      <4>1. f[i - 1] \in Session
        BY <2>5 DEF Recurs
      <4>2. F[i] = [t \in Session |-> D(t, s.parked[i])]
        OBVIOUS
      <4>3. f[i] = F[i][f[i - 1]]
        BY <2>5 DEF Recurs
      <4> HIDE DEF F
      <4>4. QED BY <4>1, <4>2, <4>3
    <3>2. \A i \in 0 .. n : f[i] = IF i = 0 THEN z ELSE D(f[i - 1], s.parked[i])
      BY <2>5, <3>1 DEF Recurs
    <3>3. f \in [0 .. n -> Session]
      BY <2>5 DEF Recurs
    <3>4. QED BY <3>2, <3>3
  <2>7. PICK g : g = CHOOSE k : Is(k)
    OBVIOUS
  <2>8. Is(g)
    <3> HIDE DEF Is
    <3> QED BY <2>6, <2>7
  <2>9. ReleaseParked(s, cm, by) = g[n]
    BY <1>2, <2>7 DEF ReleaseParked, D, z
  <2>10. g[0] = z /\ \A i \in 1 .. n : g[i] = D(g[i - 1], s.parked[i])
    <3>1. \A i \in 0 .. n : g[i] = IF i = 0 THEN z ELSE D(g[i - 1], s.parked[i])
      BY <2>8
    <3>2. 0 \in 0 .. n /\ \A i \in 1 .. n : i \in 0 .. n /\ i # 0
      BY <2>1
    <3> HIDE DEF Is
    <3>3. QED BY <3>1, <3>2
  <2> HIDE DEF n, Is
  <2>11. \A i \in 0 .. n : Past(i) \subseteq Range(s.parked)
    BY <2>1, RangeFacts DEF n
  <2>12. Past(n) = Range(s.parked) /\ Past(0) = {}
    BY <2>1, RangeFacts DEF n
  <2>13. ASSUME NEW i \in 1 .. n
         PROVE  Past(i) = Past(i - 1) \cup {s.parked[i]} /\ s.parked[i] \notin Past(i - 1)
    <3>1. Once(s.parked) /\ 1 .. i = 1 .. (i - 1) \cup {i}
      BY <2>1 DEF Takes
    <3>2. \A j \in 1 .. (i - 1) : s.parked[j] # s.parked[i]
      BY <3>1, <2>1 DEF Once, n
    <3>3. QED BY <3>1, <3>2
  <2> HIDE DEF Past
  <2>14. \A i \in 0 .. n : Takes(z, Past(i))
    <3>1. Once(z.parked) /\ Winds(z) /\ Range(z.parked) = {} /\ Range(s.parked) \subseteq Clients
      BY <2>1, <2>2, RangeFacts, RangeEmpty DEF Once, Winds, Takes
    <3>2. QED BY <3>1, <2>2, <2>11 DEF Takes
  <2> DEFINE Good(i) == /\ Moves(z, g[i], Past(i)) /\ g[i].parked = <<>>
                        /\ g[i].recovering = s.recovering /\ g[i].waitOver = s.waitOver
             I == {i \in 0 .. n : Good(i)}
  <2>15. 0 \in I
    <3>1. 0 \in 0 .. n
      BY <2>1
    <3>2. Takes(z, {})
      BY <3>1, <2>12, <2>14
    <3>3. Moves(z, z, {})
      BY <3>2, MovesNothing
    <3>4. QED BY <3>1, <3>3, <2>2, <2>10, <2>12
  <2>16. ASSUME NEW i \in 1 .. n, i - 1 \in I PROVE i \in I
    <3> DEFINE c == s.parked[i]
               t == g[i - 1]
    <3>1. Good(i - 1) /\ i \in 0 .. n
      BY <2>16
    <3>2. Takes(z, Past(i - 1) \cup {c}) /\ Past(i - 1) \cap {c} = {} /\ c \in Clients
      BY <2>1, <2>13, <2>14, <3>1
    <3>3. Moves(z, t, Past(i - 1)) /\ t.parked = <<>> /\ ~Holding(t)
      BY <3>1, <1>2 DEF Holding
    <3>4. g[i] = Dispatch(t, c, cm, by)
      BY <2>10 DEF D
    <3> HIDE DEF c, t
    <3>5. Takes(t, {c})
      BY <3>2, <3>3, TakesOn
    <3>6. Moves(t, g[i], {c}) /\ g[i].parked = <<>> /\ g[i].recovering = t.recovering /\ g[i].waitOver = t.waitOver
      <4>1. Dispatched(t, g[i], c, cm)
        BY <3>2, <3>4, <3>5, DispatchMoves
      <4>2. QED BY <4>1, <3>3 DEF Dispatched
    <3>7. Moves(z, g[i], Past(i - 1) \cup {c})
      BY <3>2, <3>3, <3>6, MovesOn
    <3>8. Moves(z, g[i], Past(i))
      BY <3>7, <2>13 DEF c
    <3>9. Good(i)
      BY <3>1, <3>6, <3>8 DEF t
    <3>10. QED BY <3>1, <3>9
  <2>17. 0 .. n \subseteq I
    <3> HIDE DEF I
    <3> QED BY <2>1, <2>15, <2>16, Upwards
  <2>18. Good(n)
    BY <2>1, <2>17
  <2>19. Moves(s, g[n], {})
    <3>1. Moves(z, g[n], Range(s.parked)) /\ Range(g[n].parked) = {} /\ Range(z.parked) = {}
      BY <2>2, <2>12, <2>18, RangeEmpty
    <3>2. QED BY <3>1, <2>2 DEF Moves
  <2>20. QED BY <2>9, <2>18, <2>19
<1>3. QED BY <1>1, <1>2

----------------------------------------------------------------------------
(* The invariant.                                                          *)

Messages ==
    [m : {"request", "gone"}, c : Clients] \cup [m : {"stop", "interrupt"}, c : {NoOne}]

HostsTypeOK ==
    /\ host \in {"none", "starting", "opening", "attached", "serving", "leaving", "finishing", "flushing"}
    /\ kind \in {"none", "cli", "headless", "gui"}
    /\ owner \in Clients \cup {NoOne}
    /\ accepting \in BOOLEAN /\ shutdown \in BOOLEAN /\ noted \in BOOLEAN
    /\ closing \in BOOLEAN /\ forced \in BOOLEAN /\ unfinished \in BOOLEAN
    /\ queue \in Seq(Messages) /\ urgent \in Nat /\ signal \in 0 .. 3
    /\ ses \in Session
    /\ pc \in [Clients -> {"route", "wait", "done", "spawning", "hosting", "lockwait"}]
    /\ conn \in [Clients -> {"none", "backlog", "open", "taken", "sent"}]
    /\ heard \subseteq Clients /\ left \subseteq Clients /\ torn \subseteq Clients
    /\ ahead \in [Clients -> SUBSET Clients]

\* A connection that only waits to be admitted is at a host that accepts; a host
\* that goes unforced has none left, and only a host that goes answers "exiting".
Doors ==
    /\ \A c \in Clients : conn[c] = "backlog" => accepting
    /\ host \in {"none", "starting", "finishing", "flushing"} => ~accepting
    /\ host \in {"none", "starting"} \/ (Failed /\ ~forced) => \A c \in Clients : conn[c] = "none"
    /\ \A c \in Clients : ses.reply[c] = "exiting" => Failed

\* What is on disk is what the session has to finish, and a host that goes
\* unforced has nothing to finish.
Books ==
    /\ host \in {"attached", "serving", "leaving"} => unfinished = Saved(ses)
    /\ host = "leaving" => ~Busy
    /\ Failed /\ ~forced => ~unfinished

\* Until the session is attached it has no requests.
Empty ==
    /\ host \in {"none", "starting"} => queue = <<>> /\ urgent = 0
    /\ host \in {"none", "starting", "opening"} => ses.parked = <<>> /\ Held(ses) = {}
    /\ host = "opening" => urgent <= Len(queue)

\* Who is connected, and who is the host.
Clean(c) ==
    /\ pc[c] \in {"route", "spawning", "hosting", "lockwait"} => conn[c] = "none"
    /\ c \in left => pc[c] = "done"
    /\ c \in heard => conn[c] = "sent"
    /\ pc[c] = "hosting" => c = owner /\ host # "none"

Owns == kind = "cli" =>
    /\ host # "none" /\ owner \in Clients /\ pc[owner] = "hosting"
    /\ cmd[owner] # "takeover" /\ ~MayStartRecording(cmd[owner])

Asked(c) == Message("request", c) \in Range(queue)

\* A client whose request the host, if there is one, has not taken over yet.
Fresh(c) ==
    /\ cmd[c] # "takeover"
    /\ \/ pc[c] \in {"route", "spawning", "lockwait"}
       \/ conn[c] \in {"backlog", "open", "taken"}
       \/ pc[c] = "hosting" /\ host \in {"starting", "opening", "attached"}

Unrun(c) ==
    /\ c \notin Held(ses) /\ ses.reply[c] = "none"
    /\ c \in torn \/ ses.ran[c] = 0

\* A request is in one place at a time, and until it left the last of them it has
\* neither run nor been answered.
Life(c) ==
    /\ Fresh(c) \/ Asked(c) \/ c \in Range(ses.parked) => Unrun(c)
    /\ Fresh(c) => ~Asked(c) /\ c \notin Range(ses.parked)
    /\ Asked(c) => c \notin Range(ses.parked)
    /\ Asked(c) \/ c \in Range(ses.parked) => cmd[c] # "takeover"
    /\ ses.ran[c] > 1 => c \in torn

AskedOnce ==
    \A i, j \in 1 .. Len(queue) : queue[i] = queue[j] /\ queue[i].m = "request" => i = j

\* The starts a stop met at the host are in front of it, or parked, or over.
Stops(c) ==
    cmd[c] = "stop" => \A d \in ahead[c] :
        /\ MayStartRecording(cmd[d]) /\ ~Fresh(d)
        /\ ~Asked(c) => d \notin StartsWaiting
        /\ \A i, j \in 1 .. Len(queue) :
             queue[i] = Message("request", c) /\ queue[j] = Message("request", d) => j < i

\* Where the requests are ...
Places ==
    /\ \A c \in Clients : Life(c) /\ Stops(c)
    /\ AskedOnce /\ Once(ses.parked) /\ Winds(ses)

\* ... and all there is around them.
Around ==
    /\ HostsTypeOK /\ Doors /\ Books /\ Empty /\ Owns
    /\ \A c \in Clients : Clean(c)

HostsInv == Around /\ Places

----------------------------------------------------------------------------
\* The request a message brings.
New(m) == IF m.m = "request" THEN {m.c} ELSE {}

\* One message of the queue, with what it lets go before and after it.
LEMMA AnswerMoves ==
  ASSUME NEW m \in Messages, NEW over \in BOOLEAN, Takes(ses, New(m))
  PROVE  /\ Moves(ses, ReleaseParked(Answered(m, over), cmd, kind), New(m))
         /\ m.m = "request" /\ cmd[m.c] = "stop" =>
              \A d \in Range(ReleaseParked(Answered(m, over), cmd, kind).parked) : ~MayStartRecording(cmd[d])
<1> DEFINE r == IF m.m = "interrupt" THEN ses ELSE ReleaseParked(ses, cmd, kind)
           s == [r EXCEPT !.waitOver = @ \/ over]
           u == Answered(m, over)
           t == ReleaseParked(u, cmd, kind)
           new == New(m)
<1>1. Takes(ses, {}) /\ Takes(ses, {} \cup new) /\ new \subseteq Clients
  BY DEF Takes
<1>2. Moves(ses, r, {})
  BY <1>1, ReleaseMoves, MovesNothing
<1> HIDE DEF r
<1>3. s \in Session /\ s.parked = r.parked /\ s.interrupted = r.interrupted /\ s.rec = r.rec /\ Held(s) = Held(r)
      /\ s.ran = r.ran /\ s.reply = r.reply
  BY <1>2 DEF Moves, Session, Held
<1>4. u = CASE m.m = "request" -> Dispatch(s, m.c, cmd, kind)
          [] m.m = "stop" -> IF Stopped(s, "stop", cmd) # {} THEN AbortParked(s, {}, "stop", cmd)
                             ELSE StopRecording(s, {})
          [] m.m = "gone" -> RequesterGone(s, m.c)
          [] OTHER -> HandleInterrupt(s)
  BY DEF Answered, s, r
<1> HIDE DEF s, u
<1>5. Moves(ses, s, {})
  BY <1>2, <1>3 DEF Moves, Winds
<1> HIDE DEF new
<1>6. Takes(s, new)
  BY <1>1, <1>5, TakesOn
<1>7. CASE m.m = "request"
  <2>1. new = {m.c} /\ m.c \in Clients
    BY <1>1, <1>7 DEF new, New
  <2>2. u = Dispatch(s, m.c, cmd, kind)
    BY <1>4, <1>7
  <2>3. Dispatched(s, u, m.c, cmd)
    BY <1>6, <2>1, <2>2, DispatchMoves
  <2>4. Moves(s, u, new)
    BY <2>1, <2>3 DEF Dispatched
  <2>5. Moves(ses, u, {} \cup new)
    BY <1>1, <1>5, <2>4, MovesOn
  <2>6. Takes(u, {}) /\ Takes(ses, new \cup {})
    <3>1. Takes(s, new \cup {})
      BY <1>6
    <3>2. Takes(ses, new \cup {})
      BY <1>1
    <3>3. QED BY <3>1, <3>2, <2>4, TakesOn
  <2>7. Moves(u, t, {})
    BY <2>6, ReleaseMoves
  <2>8. Moves(ses, u, new)
    BY <2>5
  <2> HIDE DEF t
  <2>9. Moves(ses, t, new \cup {})
    BY <2>6, <2>7, <2>8, MovesOn
  <2>10. cmd[m.c] = "stop" => \A d \in Range(t.parked) : ~MayStartRecording(cmd[d])
    BY <2>3, <2>7 DEF Dispatched, Moves
  <2>11. QED BY <2>9, <2>10 DEF new, t, u
<1>8. CASE m.m # "request"
  <2>1. new = {}
    BY <1>8 DEF new, New
  <2>2. Takes(s, {})
    BY <1>6, <2>1
  <2>3. Moves(s, u, {})
    <3>1. CASE m.m = "stop"
      <4>1. Aborted(s, AbortParked(s, {}, "stop", cmd), {}, "stop", cmd)
        BY <2>2, AbortMoves
      <4>2. Moves(s, StopRecording(s, {}), {})
        BY <2>2, StopMoves
      <4>3. u = AbortParked(s, {}, "stop", cmd) \/ u = StopRecording(s, {})
        BY <1>4, <3>1
      <4>4. QED BY <4>1, <4>2, <4>3 DEF Aborted
    <3>2. CASE m.m = "gone"
      BY <1>4, <3>2, <2>2, GoneMoves
    <3>3. CASE m.m \notin {"request", "stop", "gone"}
      BY <1>4, <3>3, <2>2, InterruptMoves
    <3>4. QED BY <1>8, <3>1, <3>2, <3>3
  <2>4. Takes(u, {}) /\ Moves(ses, u, {})
    <3>1. Takes(s, {} \cup {}) /\ Takes(ses, {} \cup {})
      BY <2>2, <1>1
    <3>2. Takes(u, {})
      BY <3>1, <2>3, TakesOn
    <3>3. Moves(ses, u, {} \cup {})
      BY <3>1, <1>5, <2>3, MovesOn
    <3>4. QED BY <3>2, <3>3
  <2>5. Moves(u, t, {})
    BY <2>4, ReleaseMoves
  <2> HIDE DEF t
  <2>6. Moves(ses, t, {} \cup {})
    <3>1. Takes(ses, {} \cup {})
      BY <1>1
    <3>2. QED BY <3>1, <2>4, <2>5, MovesOn
  <2>7. QED BY <2>1, <2>6, <1>8 DEF new, t, u
<1>9. QED BY <1>7, <1>8

----------------------------------------------------------------------------
\* The requests of one queue, in their order, are among those of another.
Kept(p, q) ==
    \E m \in [1 .. Len(p) -> Nat] :
        /\ \A i \in 1 .. Len(p) : p[i].m = "request" => m[i] \in 1 .. Len(q) /\ q[m[i]] = p[i]
        /\ \A i, j \in 1 .. Len(p) : i < j /\ p[i].m = "request" /\ p[j].m = "request" => m[i] < m[j]

\* A queue that stays, gets another message at its end or one among the urgent keeps
\* its requests in their order.
LEMMA KeptSelf ==
  ASSUME NEW q \in Seq(Messages)
  PROVE  Kept(q, q)
<1> DEFINE m == [i \in 1 .. Len(q) |-> i]
<1>1. m \in [1 .. Len(q) -> Nat]
  OBVIOUS
<1>2. \A i \in 1 .. Len(q) : q[i].m = "request" => m[i] \in 1 .. Len(q) /\ q[m[i]] = q[i]
  OBVIOUS
<1>3. \A i, j \in 1 .. Len(q) : i < j /\ q[i].m = "request" /\ q[j].m = "request" => m[i] < m[j]
  OBVIOUS
<1> HIDE DEF m
<1>4. QED BY <1>1, <1>2, <1>3 DEF Kept

LEMMA KeptAppend ==
  ASSUME NEW q \in Seq(Messages), NEW e \in Messages, e.m # "request"
  PROVE  Kept(Append(q, e), q)
<1> DEFINE p == Append(q, e)
           m == [i \in 1 .. Len(p) |-> i]
<1>1. Len(q) \in Nat /\ Len(p) = Len(q) + 1 /\ p[Len(q) + 1] = e /\ \A i \in 1 .. Len(q) : p[i] = q[i]
  OBVIOUS
<1> HIDE DEF p
<1>2. \A i \in 1 .. Len(p) : p[i].m = "request" => i \in 1 .. Len(q) /\ q[i] = p[i]
  BY <1>1
<1>3. m \in [1 .. Len(p) -> Nat] /\ \A i \in 1 .. Len(p) : m[i] = i
  OBVIOUS
<1> HIDE DEF m
<1>4. QED BY <1>2, <1>3 DEF Kept, p

LEMMA KeptInsert ==
  ASSUME NEW q \in Seq(Messages), NEW e \in Messages, e.m # "request", NEW k \in 0 .. Len(q)
  PROVE  /\ Kept(InsertAt(q, k + 1, e), q)
         /\ \A x \in Range(q) : x \in Range(InsertAt(q, k + 1, e))
<1> DEFINE p == InsertAt(q, k + 1, e)
           n == Len(q)
           m == [i \in 1 .. Len(p) |-> IF i <= k THEN i ELSE i - 1]
<1>0. n \in Nat /\ k \in 0 .. n
  OBVIOUS
<1>1. /\ p \in Seq(Messages) /\ Len(p) = n + 1 /\ p[k + 1] = e
      /\ \A i \in 1 .. k : p[i] = q[i]
      /\ \A i \in k + 1 .. n : p[i + 1] = q[i]
  <2>1. Inserted(p, Messages, q, k, e)
    BY InsertIs
  <2>2. QED BY <2>1 DEF Inserted
<1> HIDE DEF p, n
<1>2. ASSUME NEW i \in 1 .. Len(p), i > k + 1 PROVE i - 1 \in 1 .. n /\ p[i] = q[i - 1]
  <2>1. i - 1 \in k + 1 .. n /\ (i - 1) + 1 = i
    BY <1>0, <1>1, <1>2
  <2>2. QED BY <1>0, <1>1, <2>1
<1>3. ASSUME NEW i \in 1 .. Len(p), p[i].m = "request"
      PROVE  i # k + 1 /\ m[i] \in 1 .. n /\ q[m[i]] = p[i]
  <2>1. i # k + 1
    BY <1>1, <1>3
  <2>2. CASE i <= k
    BY <2>2, <1>0, <1>1
  <2>3. CASE i > k + 1
    BY <2>3, <1>0, <1>1, <1>2
  <2>4. QED BY <2>1, <2>2, <2>3, <1>0
<1>4. m \in [1 .. Len(p) -> Nat]
  BY <1>0, <1>1
<1>5. \A i, j \in 1 .. Len(p) : i < j /\ p[i].m = "request" /\ p[j].m = "request" => m[i] < m[j]
  BY <1>0, <1>1, <1>3
<1> HIDE DEF m
<1>6. Kept(p, q)
  BY <1>3, <1>4, <1>5 DEF Kept, n
<1>7. ASSUME NEW x \in Range(q) PROVE x \in Range(p)
  <2>1. PICK i \in 1 .. n : q[i] = x
    BY RangeFacts DEF n
  <2>2. i \in 1 .. k \/ i \in k + 1 .. n
    BY <1>0
  <2>3. \E j \in 1 .. Len(p) : p[j] = x
    BY <1>0, <1>1, <2>1, <2>2
  <2>4. QED BY <2>3, <1>1, RangeFacts
<1>8. QED BY <1>6, <1>7 DEF p

\* A request in the queue has a place there.
LEMMA AskedFacts ==
  ASSUME queue \in Seq(Messages)
  PROVE  \A c : Asked(c) <=> \E i \in 1 .. Len(queue) : queue[i] = Message("request", c)
BY RangeFacts DEF Asked

\* What keeps the requests' places keeps what is said of them: the session moved
\* on without taking one, and no client became fresh.
LEMMA Onward ==
  ASSUME HostsInv, queue' \in Seq(Messages), UNCHANGED <<cmd, torn, ahead>>,
         \A c \in Clients : Fresh(c)' => Fresh(c),
         NEW new \in SUBSET Clients, Moves(ses, ses', new), Kept(queue', queue),
         \A c \in Clients \ new : Asked(c) => Asked(c)',
         \A c \in new : /\ Len(queue) > 0 /\ queue[1] = Message("request", c) /\ ~Asked(c)'
                        /\ cmd[c] = "stop" => \A d \in Range(ses'.parked) : ~MayStartRecording(cmd[d])
  PROVE  Places'
<1> USE DEF HostsInv, Around, Places
<1>1. Once(ses.parked)' /\ Winds(ses)' /\ ses \in Session /\ ses' \in Session /\ queue \in Seq(Messages)
  BY DEF Moves, HostsTypeOK
<1>2. PICK m \in [1 .. Len(queue') -> Nat] :
        /\ \A i \in 1 .. Len(queue') : queue'[i].m = "request" => m[i] \in 1 .. Len(queue) /\ queue[m[i]] = queue'[i]
        /\ \A i, j \in 1 .. Len(queue') : i < j /\ queue'[i].m = "request" /\ queue'[j].m = "request" => m[i] < m[j]
  BY DEF Kept
<1>3. Len(queue') \in Nat
  OBVIOUS
<1>4. AskedOnce'
  <2> SUFFICES ASSUME NEW i \in 1 .. Len(queue'), NEW j \in 1 .. Len(queue'),
                      queue'[i] = queue'[j], queue'[i].m = "request"
               PROVE  i = j
    BY DEF AskedOnce
  <2>1. m[i] \in 1 .. Len(queue) /\ m[j] \in 1 .. Len(queue) /\ queue[m[i]] = queue[m[j]] /\ queue[m[i]].m = "request"
    BY <1>2
  <2>2. m[i] = m[j]
    BY <2>1 DEF AskedOnce
  <2>3. ~(i < j) /\ ~(j < i)
    BY <2>2, <1>2
  <2>4. QED BY <2>3, <1>3
<1>5. ASSUME NEW c, Asked(c)' PROVE Asked(c)
  <2>1. PICK i \in 1 .. Len(queue') : queue'[i] = Message("request", c)
    BY <1>5, RangeFacts DEF Asked, Message
  <2>2. m[i] \in 1 .. Len(queue) /\ queue[m[i]] = Message("request", c)
    BY <2>1, <1>2 DEF Message
  <2>3. QED BY <2>2, <1>1, AskedFacts
<1>10. \A c \in new : Asked(c) /\ ~Asked(c)' /\ 1 \in 1 .. Len(queue)
  BY <1>1, AskedFacts
<1>6. ASSUME NEW c \in Clients PROVE Life(c)'
  <2>1. Life(c) /\ (Fresh(c)' => Fresh(c)) /\ (Asked(c)' => Asked(c))
        /\ (c \in Range(ses'.parked) => c \in Range(ses.parked) \cup new)
    BY <1>5 DEF Moves
  <2>2. ses'.ran[c] # ses.ran[c] =>
          c \in Range(ses.parked) \cup new /\ c \notin Range(ses'.parked) /\ ses'.ran[c] = ses.ran[c] + 1
    BY DEF Moves
  <2>3. ses'.reply[c] # ses.reply[c] =>
          c \in Held(ses) \cup Range(ses.parked) \cup new /\ c \notin Range(ses'.parked)
    BY DEF Moves
  <2>4. c \in Held(ses)' =>
          c \in Held(ses) \/ (c \in Range(ses.parked) \cup new /\ c \notin Range(ses'.parked))
    BY DEF Moves, Held
  <2>5. /\ Fresh(c) => c \notin Range(ses.parked) \cup new
        /\ Asked(c)' => c \notin Range(ses.parked) \cup new
        /\ c \in new => Asked(c)
    BY <2>1, <1>10 DEF Life
  <2>6. (Fresh(c) \/ Asked(c) \/ c \in Range(ses.parked) => Unrun(c))'
    BY <2>1, <2>2, <2>3, <2>4, <2>5 DEF Life, Unrun, Held
  <2>7. (ses.ran[c] > 1 => c \in torn)'
    BY <2>1, <2>2, <2>5, <1>1 DEF Life, Unrun, Session
  <2>8. QED BY <2>1, <2>5, <2>6, <2>7, <1>10 DEF Life
<1>7. ASSUME NEW d, d \in StartsWaiting' PROVE d \in StartsWaiting
  <2>1. d \in Clients /\ MayStartRecording(cmd[d]) /\ ses'.reply[d] = "none"
    BY <1>7 DEF StartsWaiting
  <2>2. Asked(d)' \/ d \in Range(ses'.parked)
    BY <1>7 DEF StartsWaiting, Asked
  <2>3. Asked(d) \/ d \in Range(ses.parked)
    BY <2>2, <1>5, <1>10 DEF Moves
  <2>4. ses.reply[d] = "none"
    BY <2>1, <2>3 DEF Life, Unrun
  <2>5. QED BY <2>1, <2>3, <2>4 DEF StartsWaiting, Asked
<1>8. ASSUME NEW c \in Clients PROVE Stops(c)'
  <2> SUFFICES ASSUME cmd[c] = "stop", NEW d \in ahead[c]
      PROVE  /\ MayStartRecording(cmd[d]) /\ ~Fresh(d)'
             /\ ~Asked(c)' => d \notin StartsWaiting'
             /\ \A i, j \in 1 .. Len(queue') :
                  queue'[i] = Message("request", c) /\ queue'[j] = Message("request", d) => j < i
    BY DEF Stops
  <2>1. /\ MayStartRecording(cmd[d]) /\ ~Fresh(d)
        /\ ~Asked(c) => d \notin StartsWaiting
        /\ \A i, j \in 1 .. Len(queue) :
                  queue[i] = Message("request", c) /\ queue[j] = Message("request", d) => j < i
    BY DEF Stops
  <2>2. ~Fresh(d)' /\ d \in Clients
    BY <2>1 DEF HostsTypeOK
  <2>3. ASSUME NEW i \in 1 .. Len(queue'), NEW j \in 1 .. Len(queue'),
               queue'[i] = Message("request", c), queue'[j] = Message("request", d)
        PROVE  j < i
    <3>1. m[i] \in 1 .. Len(queue) /\ m[j] \in 1 .. Len(queue) /\ m[j] < m[i]
      BY <2>1, <2>3, <1>2 DEF Message
    <3>2. ~(i < j) /\ i # j
      BY <3>1, <2>3, <1>2 DEF Message
    <3>3. QED BY <3>2
  <2>4. ASSUME ~Asked(c)', d \in StartsWaiting' PROVE FALSE
    <3>1. c \in new
      BY <2>1, <2>4, <1>7
    <3>2. d \notin Range(ses'.parked)
      BY <2>1, <3>1
    <3>3. Asked(d)
      BY <2>4, <3>2, <1>5 DEF StartsWaiting, Asked
    <3>4. PICK j \in 1 .. Len(queue) : queue[j] = Message("request", d)
      BY <3>3, <1>1, AskedFacts
    <3>5. j < 1
      BY <2>1, <3>1, <3>4, <1>10
    <3>6. QED BY <3>5
  <2>5. QED BY <2>1, <2>2, <2>3, <2>4
<1>9. QED BY <1>1, <1>4, <1>6, <1>8

\* The invariant says what the session's steps need.
LEMMA SessionTakes ==
  ASSUME HostsInv
  PROVE  Takes(ses, {}) /\ ses \in Session /\ queue \in Seq(Messages)
<1>1. ses \in Session /\ queue \in Seq(Messages) /\ Once(ses.parked) /\ Winds(ses)
  BY DEF HostsInv, Around, Places, HostsTypeOK
<1>2. Range(ses.parked) \subseteq Clients
  BY <1>1, RangeFacts DEF Session
<1>3. Held(ses) \cap Range(ses.parked) = {}
  BY <1>2 DEF HostsInv, Places, Life, Unrun
<1>4. QED BY <1>1, <1>3 DEF Takes

\* The session and the queue stay as they are.
LEMMA Beside ==
  ASSUME HostsInv, UNCHANGED <<cmd, torn, ahead, ses, queue>>,
         \A c \in Clients : Fresh(c)' => Fresh(c)
  PROVE  Places'
<1>1. Takes(ses, {}) /\ ses \in Session /\ queue \in Seq(Messages)
  BY SessionTakes
<1>2. Moves(ses, ses', {}) /\ Kept(queue', queue) /\ queue' \in Seq(Messages)
  BY <1>1, MovesNothing, KeptSelf
<1>3. \A c \in Clients : Asked(c) => Asked(c)'
  BY DEF Asked
<1>4. {} \subseteq Clients
  OBVIOUS
<1>5. QED BY <1>2, <1>3, <1>4, Onward

\* The session goes on, the queue stays as it is.
LEMMA Works ==
  ASSUME HostsInv, UNCHANGED <<cmd, torn, ahead, queue>>, Moves(ses, ses', {}),
         \A c \in Clients : Fresh(c)' => Fresh(c)
  PROVE  Places'
<1>1. queue \in Seq(Messages)
  BY SessionTakes
<1>2. Kept(queue', queue) /\ queue' \in Seq(Messages)
  BY <1>1, KeptSelf
<1>3. \A c \in Clients : Asked(c) => Asked(c)'
  BY DEF Asked
<1>5. QED BY <1>2, <1>3, Onward

\* A message that isn't a request joins the queue.
LEMMA Joins ==
  ASSUME HostsInv, UNCHANGED <<cmd, torn, ahead, ses>>, NEW e \in Messages, e.m # "request",
         queue' = Append(queue, e) \/ \E k \in 0 .. Len(queue) : queue' = InsertAt(queue, k + 1, e),
         \A c \in Clients : Fresh(c)' => Fresh(c)
  PROVE  Places'
<1>1. Takes(ses, {}) /\ ses \in Session /\ queue \in Seq(Messages)
  BY SessionTakes
<1>2. Moves(ses, ses', {})
  BY <1>1, MovesNothing
<1>3. Kept(queue', queue) /\ queue' \in Seq(Messages) /\ \A x \in Range(queue) : x \in Range(queue')
  <2>1. CASE queue' = Append(queue, e)
    <3>1. Kept(queue', queue)
      BY <2>1, <1>1, KeptAppend
    <3>2. queue' \in Seq(Messages) /\ \A x \in Range(queue) : x \in Range(queue')
      BY <2>1, <1>1, AppendRange
    <3>3. QED BY <3>1, <3>2
  <2>2. CASE \E k \in 0 .. Len(queue) : queue' = InsertAt(queue, k + 1, e)
    <3>1. PICK k \in 0 .. Len(queue) : queue' = InsertAt(queue, k + 1, e)
      BY <2>2
    <3>2. Inserted(queue', Messages, queue, k, e)
      BY <3>1, <1>1, InsertIs
    <3>3. Kept(queue', queue) /\ \A x \in Range(queue) : x \in Range(queue')
      BY <3>1, <1>1, KeptInsert
    <3>4. QED BY <3>2, <3>3 DEF Inserted
  <2>3. QED BY <2>1, <2>2
<1>4. \A c \in Clients : Asked(c) => Asked(c)'
  BY <1>3 DEF Asked
<1>5. QED BY <1>2, <1>3, <1>4, Onward

\* A client's request joins the queue; if it is a stop, it may note who waits.
LEMMA Enqueue ==
  ASSUME HostsInv, UNCHANGED <<cmd, torn, ses>>, NEW c \in Clients,
         Fresh(c), ~Fresh(c)', queue' = Append(queue, Message("request", c)),
         \/ ahead' = ahead
         \/ cmd[c] = "stop" /\ ahead' = [ahead EXCEPT ![c] = StartsWaiting],
         cmd[c] = "stop" \/ ~MayStartRecording(cmd[c]) \/ ahead' = ahead,
         \A d \in Clients : Fresh(d)' => Fresh(d)
  PROVE  Places'
<1> DEFINE n == Len(queue)
<1>1. ses \in Session /\ queue \in Seq(Messages) /\ n \in Nat /\ ahead \in [Clients -> SUBSET Clients]
      /\ ses' = ses
  BY SessionTakes DEF HostsInv, Around, HostsTypeOK
<1>2. Len(queue') = n + 1 /\ queue'[n + 1] = Message("request", c) /\ \A i \in 1 .. n : queue'[i] = queue[i]
  BY <1>1 DEF Message
<1>3. queue' \in Seq(Messages)
  BY <1>1 DEF Messages, Message
<1> HIDE DEF n
<1>4. Life(c) /\ Unrun(c) /\ ~Asked(c) /\ c \notin Range(ses.parked)
  BY DEF HostsInv, Places, Life
<1>5. \A i \in 1 .. n : queue[i] # Message("request", c)
  BY <1>1, <1>4, AskedFacts DEF n
<1>6. \A d : Asked(d)' <=> Asked(d) \/ d = c
  <2>1. Range(queue') = Range(queue) \cup {Message("request", c)}
    BY <1>1, AppendRange DEF Messages, Message
  <2>2. \A d : Message("request", c) = Message("request", d) <=> d = c
    BY DEF Message
  <2>3. \A d : Asked(d)' <=> Message("request", d) \in Range(queue')
    BY DEF Asked, Message
  <2>4. QED BY <2>1, <2>2, <2>3 DEF Asked
<1>7. AskedOnce'
  <2>1. ASSUME NEW i \in 1 .. n + 1, NEW j \in 1 .. n + 1, queue'[i] = queue'[j], queue'[i].m = "request"
        PROVE  i = j
    <3>1. CASE i \in 1 .. n /\ j \in 1 .. n
      BY <2>1, <3>1, <1>2 DEF HostsInv, Places, AskedOnce, n
    <3>2. CASE i = n + 1 /\ j \in 1 .. n
      BY <2>1, <3>2, <1>2, <1>5
    <3>3. CASE j = n + 1 /\ i \in 1 .. n
      BY <2>1, <3>3, <1>2, <1>5
    <3>4. QED BY <3>1, <3>2, <3>3, <1>1
  <2>2. QED BY <2>1, <1>2 DEF AskedOnce
<1>8. ASSUME NEW d \in Clients PROVE Life(d)'
  <2>1. Life(d) /\ (Fresh(d)' => Fresh(d)) /\ (Unrun(d)' <=> Unrun(d)) /\ (Asked(d)' <=> Asked(d) \/ d = c)
    BY <1>6 DEF HostsInv, Places, Unrun, Held
  <2>2. CASE d = c
    BY <2>1, <2>2, <1>1, <1>4 DEF Life, Fresh
  <2>3. CASE d # c
    BY <2>1, <2>3, <1>1 DEF Life
  <2>4. QED BY <2>2, <2>3
<1>9. \A d : d # c /\ d \in StartsWaiting' => d \in StartsWaiting
  BY <1>1, <1>6 DEF StartsWaiting, Asked
<1>10. ASSUME NEW b \in Clients PROVE Stops(b)'
  <2> SUFFICES ASSUME cmd[b] = "stop", NEW d \in ahead'[b]
      PROVE  /\ MayStartRecording(cmd[d]) /\ ~Fresh(d)'
             /\ ~Asked(b)' => d \notin StartsWaiting'
             /\ \A i, j \in 1 .. Len(queue') :
                  queue'[i] = Message("request", b) /\ queue'[j] = Message("request", d) => j < i
    BY DEF Stops
  <2>1. CASE b = c /\ ahead' = [ahead EXCEPT ![c] = StartsWaiting]
    <3>1. d \in StartsWaiting /\ d \in Clients
      BY <2>1, <1>1 DEF StartsWaiting
    <3>2. MayStartRecording(cmd[d]) /\ (Asked(d) \/ d \in Range(ses.parked))
      BY <3>1 DEF StartsWaiting, Asked
    <3>3. ~Fresh(d)' /\ d # c
      BY <3>1, <3>2, <1>4 DEF HostsInv, Places, Life
    <3>4. ASSUME NEW i \in 1 .. Len(queue'), NEW j \in 1 .. Len(queue'),
                 queue'[i] = Message("request", c), queue'[j] = Message("request", d)
          PROVE  j < i
      <4>1. i = n + 1 /\ j # n + 1
        BY <3>3, <3>4, <1>1, <1>2, <1>5 DEF Message
      <4>2. QED BY <4>1, <1>1, <1>2
    <3>5. QED BY <2>1, <3>2, <3>3, <3>4, <1>6
  <2>2. CASE d \in ahead[b]
    <3>1. /\ d \in Clients /\ MayStartRecording(cmd[d]) /\ ~Fresh(d)
          /\ ~Asked(b) => d \notin StartsWaiting
          /\ \A i, j \in 1 .. n :
                  queue[i] = Message("request", b) /\ queue[j] = Message("request", d) => j < i
      BY <2>2, <1>1 DEF HostsInv, Places, Stops, n
    <3>2. d # c /\ ~Fresh(d)'
      BY <3>1
    <3>3. ASSUME NEW i \in 1 .. Len(queue'), NEW j \in 1 .. Len(queue'),
                 queue'[i] = Message("request", b), queue'[j] = Message("request", d)
          PROVE  j < i
      <4>1. j \in 1 .. n /\ queue[j] = Message("request", d)
        BY <3>2, <3>3, <1>1, <1>2 DEF Message
      <4>2. CASE i = n + 1
        BY <4>1, <4>2, <1>1
      <4>3. CASE i \in 1 .. n
        BY <4>1, <4>3, <3>1, <3>3, <1>2
      <4>4. QED BY <4>2, <4>3, <1>1, <1>2
    <3>4. QED BY <3>1, <3>2, <3>3, <1>6, <1>9
  <2>3. QED BY <2>1, <2>2, <1>1
<1>11. QED BY <1>1, <1>7, <1>8, <1>10 DEF HostsInv, Places, Winds, Once

\* A client that isn't waiting is told something.
LEMMA Told ==
  ASSUME HostsInv, UNCHANGED <<cmd, torn, ahead, queue>>, NEW c \in Clients, NEW word \in Words,
         ses' = Answer(ses, {c}, word), ~Asked(c), c \notin Range(ses.parked), ~Fresh(c)',
         \A d \in Clients : Fresh(d)' => Fresh(d)
  PROVE  Places'
<1>1. ses \in Session
  BY SessionTakes
<1>2. Tells(ses, ses', {c}, word)
  BY <1>1, AnswerTells
<1>3. /\ ses'.parked = ses.parked /\ ses'.interrupted = ses.interrupted /\ ses'.rec = ses.rec
      /\ Held(ses') = Held(ses) /\ ses'.ran = ses.ran
      /\ \A d \in Clients : d # c => ses'.reply[d] = ses.reply[d]
  BY <1>2 DEF Tells, SameWait, Held
<1>4. \A d : Asked(d)' <=> Asked(d)
  BY DEF Asked
<1>5. ASSUME NEW d \in Clients PROVE Life(d)'
  <2>1. Life(d) /\ (Fresh(d)' => Fresh(d))
    BY DEF HostsInv, Places
  <2>2. CASE d = c
    BY <2>1, <2>2, <1>3, <1>4 DEF Life
  <2>3. CASE d # c
    BY <2>1, <2>3, <1>3, <1>4 DEF Life, Unrun
  <2>4. QED BY <2>2, <2>3
<1>6. \A d : d \in StartsWaiting' => d \in StartsWaiting
  <2>1. SUFFICES ASSUME NEW d, d \in StartsWaiting' PROVE d \in StartsWaiting
    OBVIOUS
  <2>2. d \in Clients /\ MayStartRecording(cmd[d]) /\ ses'.reply[d] = "none" /\ (Asked(d) \/ d \in Range(ses.parked))
    BY <2>1, <1>3 DEF StartsWaiting, Asked
  <2>3. d # c
    BY <2>2
  <2>4. QED BY <2>2, <2>3, <1>3 DEF StartsWaiting, Asked
<1>7. \A b \in Clients : Stops(b)'
  BY <1>4, <1>6 DEF HostsInv, Around, HostsTypeOK, Places, Stops
<1>8. QED BY <1>3, <1>5, <1>7, ZenonT(60) DEF HostsInv, Places, AskedOnce, Winds, Once

----------------------------------------------------------------------------
(* The steps.                                                              *)

\* A client connects: its request is still its own.
LEMMA ConnectStep ==
  ASSUME HostsInv, NEW c \in Clients, Connect(c)
  PROVE  HostsInv'
<1> USE DEF Connect, hostVars, boxVars, clientVars, histVars
<1>1. Around
  BY DEF HostsInv
<1>2. HostsTypeOK'
  BY <1>1 DEF Around, HostsTypeOK
<1>3. \A d \in Clients : Fresh(d)' => Fresh(d)
  BY <1>1 DEF Around, HostsTypeOK, Fresh, Clean
<1>4. Places'
  BY <1>3, Beside
<1>5. Doors'
  BY <1>1 DEF Around, HostsTypeOK, Doors, Failed, Clean, Books, Busy, Open
<1>6. Books' /\ Empty'
  BY <1>1 DEF Around, HostsTypeOK, Books, Empty, Doors, Failed, Saved, Busy
<1>7. Owns'
  BY <1>1 DEF Around, HostsTypeOK, Owns, Clean
<1>8. \A d \in Clients : Clean(d)'
  BY <1>1 DEF Around, HostsTypeOK, Clean, Doors, Owns
<1>9. QED BY <1>2, <1>4, <1>5, <1>6, <1>7, <1>8 DEF HostsInv, Around

LEMMA HelloSaysBusyStep ==
  ASSUME HostsInv, NEW c \in Clients, HelloSaysBusy(c)
  PROVE  HostsInv'
<1> USE DEF HelloSaysBusy, hostVars, boxVars, clientVars, histVars
<1>1. Around
  BY DEF HostsInv
<1>2. HostsTypeOK'
  BY <1>1 DEF Around, HostsTypeOK
<1>3. \A d \in Clients : Fresh(d)' => Fresh(d)
  BY <1>1 DEF Around, HostsTypeOK, Fresh, Clean
<1>4. Places'
  BY <1>3, Beside
<1>5. Doors'
  BY <1>1 DEF Around, HostsTypeOK, Doors, Failed, Clean, Books, Busy, Open
<1>6. Books' /\ Empty'
  BY <1>1 DEF Around, HostsTypeOK, Books, Empty, Doors, Failed, Saved, Busy
<1>7. Owns'
  BY <1>1 DEF Around, HostsTypeOK, Owns, Clean
<1>8. \A d \in Clients : Clean(d)'
  BY <1>1 DEF Around, HostsTypeOK, Clean, Doors, Owns
<1>9. QED BY <1>2, <1>4, <1>5, <1>6, <1>7, <1>8 DEF HostsInv, Around

LEMMA GiveUpStep ==
  ASSUME HostsInv, NEW c \in Clients, GiveUp(c)
  PROVE  HostsInv'
<1> USE DEF GiveUp, hostVars, boxVars, clientVars, histVars
<1>1. Around
  BY DEF HostsInv
<1>2. HostsTypeOK'
  BY <1>1 DEF Around, HostsTypeOK
<1>3. \A d \in Clients : Fresh(d)' => Fresh(d)
  BY <1>1 DEF Around, HostsTypeOK, Fresh, Clean
<1>4. Places'
  BY <1>3, Beside
<1>5. Doors'
  BY <1>1 DEF Around, HostsTypeOK, Doors, Failed, Clean, Books, Busy, Open
<1>6. Books' /\ Empty'
  BY <1>1 DEF Around, HostsTypeOK, Books, Empty, Doors, Failed, Saved, Busy
<1>7. Owns'
  BY <1>1 DEF Around, HostsTypeOK, Owns, Clean
<1>8. \A d \in Clients : Clean(d)'
  BY <1>1 DEF Around, HostsTypeOK, Clean, Doors, Owns
<1>9. QED BY <1>2, <1>4, <1>5, <1>6, <1>7, <1>8 DEF HostsInv, Around

LEMMA ElectStep ==
  ASSUME HostsInv, NEW c \in Clients, Elect(c)
  PROVE  HostsInv'
<1> USE DEF Elect, hostVars, boxVars, clientVars, histVars
<1>1. Around
  BY DEF HostsInv
<1>2. HostsTypeOK'
  BY <1>1 DEF Around, HostsTypeOK
<1>3. \A d \in Clients : Fresh(d)' => Fresh(d)
  BY <1>1 DEF Around, HostsTypeOK, Fresh, Clean
<1>4. Places'
  BY <1>3, Beside
<1>5. Doors'
  BY <1>1 DEF Around, HostsTypeOK, Doors, Failed, Clean, Books, Busy, Open
<1>6. Books' /\ Empty'
  BY <1>1 DEF Around, HostsTypeOK, Books, Empty, Doors, Failed, Saved, Busy
<1>7. Owns'
  BY <1>1 DEF Around, HostsTypeOK, Owns, Clean
<1>8. \A d \in Clients : Clean(d)'
  BY <1>1 DEF Around, HostsTypeOK, Clean, Doors, Owns
<1>9. QED BY <1>2, <1>4, <1>5, <1>6, <1>7, <1>8 DEF HostsInv, Around

LEMMA SpawnedIsGoneStep ==
  ASSUME HostsInv, NEW c \in Clients, SpawnedIsGone(c)
  PROVE  HostsInv'
<1> USE DEF SpawnedIsGone, hostVars, boxVars, clientVars, histVars
<1>1. Around
  BY DEF HostsInv
<1>2. HostsTypeOK'
  BY <1>1 DEF Around, HostsTypeOK
<1>3. \A d \in Clients : Fresh(d)' => Fresh(d)
  BY <1>1 DEF Around, HostsTypeOK, Fresh, Clean
<1>4. Places'
  BY <1>3, Beside
<1>5. Doors'
  BY <1>1 DEF Around, HostsTypeOK, Doors, Failed, Clean, Books, Busy, Open
<1>6. Books' /\ Empty'
  BY <1>1 DEF Around, HostsTypeOK, Books, Empty, Doors, Failed, Saved, Busy
<1>7. Owns'
  BY <1>1 DEF Around, HostsTypeOK, Owns, Clean
<1>8. \A d \in Clients : Clean(d)'
  BY <1>1 DEF Around, HostsTypeOK, Clean, Doors, Owns
<1>9. QED BY <1>2, <1>4, <1>5, <1>6, <1>7, <1>8 DEF HostsInv, Around

LEMMA LeaveStep ==
  ASSUME HostsInv, NEW c \in Clients, Leave(c)
  PROVE  HostsInv'
<1> USE DEF Leave, hostVars, boxVars, clientVars, histVars
<1>1. Around
  BY DEF HostsInv
<1>2. HostsTypeOK'
  BY <1>1 DEF Around, HostsTypeOK
<1>3. \A d \in Clients : Fresh(d)' => Fresh(d)
  BY <1>1 DEF Around, HostsTypeOK, Fresh, Clean
<1>4. Places'
  BY <1>3, Beside
<1>5. Doors'
  BY <1>1 DEF Around, HostsTypeOK, Doors, Failed, Clean, Books, Busy, Open
<1>6. Books' /\ Empty'
  BY <1>1 DEF Around, HostsTypeOK, Books, Empty, Doors, Failed, Saved, Busy
<1>7. Owns'
  BY <1>1 DEF Around, HostsTypeOK, Owns, Clean
<1>8. \A d \in Clients : Clean(d)'
  BY <1>1 DEF Around, HostsTypeOK, Clean, Doors, Owns
<1>9. QED BY <1>2, <1>4, <1>5, <1>6, <1>7, <1>8 DEF HostsInv, Around

LEMMA AdmitStep ==
  ASSUME HostsInv, NEW c \in Clients, Admit(c)
  PROVE  HostsInv'
<1> USE DEF Admit, hostVars, boxVars, clientVars, histVars
<1>1. Around
  BY DEF HostsInv
<1>2. HostsTypeOK'
  BY <1>1 DEF Around, HostsTypeOK
<1>3. \A d \in Clients : Fresh(d)' => Fresh(d)
  BY <1>1 DEF Around, HostsTypeOK, Fresh, Clean
<1>4. Places'
  BY <1>3, Beside
<1>5. Doors'
  BY <1>1 DEF Around, HostsTypeOK, Doors, Failed, Clean, Books, Busy, Open
<1>6. Books' /\ Empty'
  BY <1>1 DEF Around, HostsTypeOK, Books, Empty, Doors, Failed, Saved, Busy
<1>7. Owns'
  BY <1>1 DEF Around, HostsTypeOK, Owns, Clean
<1>8. \A d \in Clients : Clean(d)'
  BY <1>1 DEF Around, HostsTypeOK, Clean, Doors, Owns
<1>9. QED BY <1>2, <1>4, <1>5, <1>6, <1>7, <1>8 DEF HostsInv, Around

LEMMA WriteAcceptedStep ==
  ASSUME HostsInv, NEW c \in Clients, WriteAccepted(c)
  PROVE  HostsInv'
<1> USE DEF WriteAccepted, hostVars, boxVars, clientVars, histVars
<1>1. Around
  BY DEF HostsInv
<1>2. HostsTypeOK'
  BY <1>1 DEF Around, HostsTypeOK
<1>3. \A d \in Clients : Fresh(d)' => Fresh(d)
  BY <1>1 DEF Around, HostsTypeOK, Fresh, Clean
<1>4. Places'
  BY <1>3, Beside
<1>5. Doors'
  BY <1>1 DEF Around, HostsTypeOK, Doors, Failed, Clean, Books, Busy, Open
<1>6. Books' /\ Empty'
  BY <1>1 DEF Around, HostsTypeOK, Books, Empty, Doors, Failed, Saved, Busy
<1>7. Owns'
  BY <1>1 DEF Around, HostsTypeOK, Owns, Clean
<1>8. \A d \in Clients : Clean(d)'
  BY <1>1 DEF Around, HostsTypeOK, Clean, Doors, Owns
<1>9. QED BY <1>2, <1>4, <1>5, <1>6, <1>7, <1>8 DEF HostsInv, Around

LEMMA WriteReplyStep ==
  ASSUME HostsInv, NEW c \in Clients, WriteReply(c)
  PROVE  HostsInv'
<1> USE DEF WriteReply, hostVars, boxVars, clientVars, histVars
<1>1. Around
  BY DEF HostsInv
<1>2. HostsTypeOK'
  BY <1>1 DEF Around, HostsTypeOK
<1>3. \A d \in Clients : Fresh(d)' => Fresh(d)
  BY <1>1 DEF Around, HostsTypeOK, Fresh, Clean
<1>4. Places'
  BY <1>3, Beside
<1>5. Doors'
  BY <1>1 DEF Around, HostsTypeOK, Doors, Failed, Clean, Books, Busy, Open
<1>6. Books' /\ Empty'
  BY <1>1 DEF Around, HostsTypeOK, Books, Empty, Doors, Failed, Saved, Busy
<1>7. Owns'
  BY <1>1 DEF Around, HostsTypeOK, Owns, Clean
<1>8. \A d \in Clients : Clean(d)'
  BY <1>1 DEF Around, HostsTypeOK, Clean, Doors, Owns
<1>9. QED BY <1>2, <1>4, <1>5, <1>6, <1>7, <1>8 DEF HostsInv, Around

\* The host's own steps: whoever it does not serve yet keeps its request.
LEMMA PublishStep ==
  ASSUME HostsInv, Publish
  PROVE  HostsInv'
<1> USE DEF Publish, hostVars, boxVars, clientVars, histVars, Serving
<1>1. Around
  BY DEF HostsInv
<1>2. HostsTypeOK'
  BY <1>1 DEF Around, HostsTypeOK
<1>3. \A d \in Clients : Fresh(d)' => Fresh(d)
  BY <1>1 DEF Around, HostsTypeOK, Fresh, Clean
<1>4. Places'
  BY <1>3, Beside
<1>5. Doors'
  BY <1>1 DEF Around, HostsTypeOK, Doors, Failed, Clean, Books, Busy, Open
<1>6. Books' /\ Empty'
  BY <1>1 DEF Around, HostsTypeOK, Books, Empty, Doors, Failed, Saved, Busy
<1>7. Owns'
  BY <1>1 DEF Around, HostsTypeOK, Owns, Clean
<1>8. \A d \in Clients : Clean(d)'
  BY <1>1 DEF Around, HostsTypeOK, Clean, Doors, Owns
<1>9. QED BY <1>2, <1>4, <1>5, <1>6, <1>7, <1>8 DEF HostsInv, Around

LEMMA SignalStep ==
  ASSUME HostsInv, Signal
  PROVE  HostsInv'
<1> USE DEF Signal, hostVars, boxVars, clientVars, histVars, Serving
<1>1. Around
  BY DEF HostsInv
<1>2. HostsTypeOK'
  BY <1>1 DEF Around, HostsTypeOK
<1>3. \A d \in Clients : Fresh(d)' => Fresh(d)
  BY <1>1 DEF Around, HostsTypeOK, Fresh, Clean
<1>4. Places'
  BY <1>3, Beside
<1>5. Doors'
  BY <1>1 DEF Around, HostsTypeOK, Doors, Failed, Clean, Books, Busy, Open
<1>6. Books' /\ Empty'
  BY <1>1 DEF Around, HostsTypeOK, Books, Empty, Doors, Failed, Saved, Busy
<1>7. Owns'
  BY <1>1 DEF Around, HostsTypeOK, Owns, Clean
<1>8. \A d \in Clients : Clean(d)'
  BY <1>1 DEF Around, HostsTypeOK, Clean, Doors, Owns
<1>9. QED BY <1>2, <1>4, <1>5, <1>6, <1>7, <1>8 DEF HostsInv, Around

LEMMA CloseWindowStep ==
  ASSUME HostsInv, CloseWindow
  PROVE  HostsInv'
<1> USE DEF CloseWindow, hostVars, boxVars, clientVars, histVars, Serving
<1>1. Around
  BY DEF HostsInv
<1>2. HostsTypeOK'
  BY <1>1 DEF Around, HostsTypeOK
<1>3. \A d \in Clients : Fresh(d)' => Fresh(d)
  BY <1>1 DEF Around, HostsTypeOK, Fresh, Clean
<1>4. Places'
  BY <1>3, Beside
<1>5. Doors'
  BY <1>1 DEF Around, HostsTypeOK, Doors, Failed, Clean, Books, Busy, Open
<1>6. Books' /\ Empty'
  BY <1>1 DEF Around, HostsTypeOK, Books, Empty, Doors, Failed, Saved, Busy
<1>7. Owns'
  BY <1>1 DEF Around, HostsTypeOK, Owns, Clean
<1>8. \A d \in Clients : Clean(d)'
  BY <1>1 DEF Around, HostsTypeOK, Clean, Doors, Owns
<1>9. QED BY <1>2, <1>4, <1>5, <1>6, <1>7, <1>8 DEF HostsInv, Around

LEMMA DecideToLeaveStep ==
  ASSUME HostsInv, DecideToLeave
  PROVE  HostsInv'
<1> USE DEF DecideToLeave, hostVars, boxVars, clientVars, histVars, Quiet
<1>1. Around
  BY DEF HostsInv
<1>2. HostsTypeOK'
  BY <1>1 DEF Around, HostsTypeOK
<1>3. \A d \in Clients : Fresh(d)' => Fresh(d)
  BY <1>1 DEF Around, HostsTypeOK, Fresh, Clean
<1>4. Places'
  BY <1>3, Beside
<1>5. Doors'
  BY <1>1 DEF Around, HostsTypeOK, Doors, Failed, Clean, Books, Busy, Open
<1>6. Books' /\ Empty'
  BY <1>1 DEF Around, HostsTypeOK, Books, Empty, Doors, Failed, Saved, Busy
<1>7. Owns'
  BY <1>1 DEF Around, HostsTypeOK, Owns, Clean
<1>8. \A d \in Clients : Clean(d)'
  BY <1>1 DEF Around, HostsTypeOK, Clean, Doors, Owns
<1>9. QED BY <1>2, <1>4, <1>5, <1>6, <1>7, <1>8 DEF HostsInv, Around

\* What closing connections does to the clients at their other ends.
Shut(f, who) ==
    /\ conn' \in [Clients -> {"none", "backlog", "open", "taken", "sent"}]
    /\ pc' \in [Clients -> {"route", "wait", "done", "spawning", "hosting", "lockwait"}]
    /\ heard' = heard
    /\ \A d \in Clients : d \notin who => conn'[d] = f[d] /\ pc'[d] = pc[d]
    /\ \A d \in who : conn'[d] = "none" /\ pc[d] # "hosting"
    /\ \A d \in who : d \notin left => pc'[d] = IF cmd[d] = "takeover" THEN "lockwait" ELSE "route"
    /\ \A d \in who : d \in left => pc'[d] = "done"

\* Closing connections whose request was not read loses no request.
LEMMA ClosesShut ==
  ASSUME HostsInv, NEW f \in [Clients -> {"none", "backlog", "open", "taken", "sent"}],
         NEW who \in SUBSET Clients, Closes(f, who),
         \A d \in who : conn[d] \in {"backlog", "open"}
  PROVE  Shut(f, who)
<1>1. HostsTypeOK /\ \A d \in Clients : Clean(d)
  BY DEF HostsInv, Around
<1>2. \A d \in who : d \notin heard /\ pc[d] # "hosting" /\ (d \in left => pc[d] = "done")
  BY <1>1 DEF Clean
<1>3. \A d \in who : AfterEof(d) = IF cmd[d] = "takeover" THEN "lockwait" ELSE "route"
  BY <1>2 DEF AfterEof
<1>4. heard' = heard
  BY <1>2 DEF Closes
<1>5. \A d \in Clients : pc'[d] = IF d \in who \ left THEN AfterEof(d) ELSE pc[d]
  BY DEF Closes
<1>6. pc' = [d \in Clients |-> IF d \in who \ left THEN AfterEof(d) ELSE pc[d]]
  BY DEF Closes
<1>7. pc' \in [Clients -> {"route", "wait", "done", "spawning", "hosting", "lockwait"}]
  BY <1>1, <1>3, <1>6 DEF HostsTypeOK
<1>8. conn' \in [Clients -> {"none", "backlog", "open", "taken", "sent"}]
      /\ \A d \in Clients : conn'[d] = IF d \in who THEN "none" ELSE f[d]
  BY DEF Closes
<1>9. QED BY <1>2, <1>3, <1>4, <1>5, <1>7, <1>8 DEF Shut

\* No more connections are taken: those not admitted yet are closed.
LEMMA StopAcceptingShut ==
  ASSUME HostsInv, StopAccepting(conn)
  PROVE  Shut(conn, {d \in Clients : conn[d] = "backlog"}) /\ accepting' = FALSE
BY ClosesShut DEF StopAccepting, HostsInv, Around, HostsTypeOK

\* Reading a request, or bouncing it.
LEMMA ReadStep ==
  ASSUME HostsInv, NEW c \in Clients, Read(c)
  PROVE  HostsInv'
<1> USE DEF hostVars, boxVars, clientVars, histVars
<1>1. Around /\ conn[c] = "open" /\ UNCHANGED <<hostVars, boxVars, ses, unfinished, cmd, spawned, tries, left, trouble, histVars>>
  BY DEF HostsInv, Read
<1>2. \/ Shut(conn, {c})
      \/ conn' = [conn EXCEPT ![c] = "taken"] /\ UNCHANGED <<pc, heard>>
  BY <1>1, ClosesShut DEF Read, HostsInv, Around, HostsTypeOK
<1>3. HostsTypeOK'
  BY <1>1, <1>2 DEF Around, HostsTypeOK, Shut
<1>4. \A d \in Clients : Fresh(d)' => Fresh(d)
  BY <1>1, <1>2 DEF Around, HostsTypeOK, Fresh, Shut
<1>5. Places'
  BY <1>1, <1>4, Beside
<1>6. Doors' /\ Books' /\ Empty'
  BY <1>1, <1>2 DEF Around, HostsTypeOK, Doors, Books, Empty, Failed, Shut, Saved, Busy
<1>7. Owns'
  BY <1>1, <1>2 DEF Around, HostsTypeOK, Owns, Clean, Shut
<1>8. \A d \in Clients : Clean(d)'
  BY <1>1, <1>2 DEF Around, HostsTypeOK, Clean, Shut
<1>9. QED BY <1>3, <1>5, <1>6, <1>7, <1>8 DEF HostsInv, Around

\* The host stops accepting, in the four places where it does.
LEMMA OpenFailsStep ==
  ASSUME HostsInv, OpenFails
  PROVE  HostsInv'
<1> USE DEF OpenFails, hostVars, boxVars, clientVars, histVars
<1>1. Around
  BY DEF HostsInv
<1>2. Shut(conn, {d \in Clients : conn[d] = "backlog"}) /\ accepting' = FALSE
  BY StopAcceptingShut
<1>3. HostsTypeOK'
  <2>1. /\ conn' \in [Clients -> {"none", "backlog", "open", "taken", "sent"}] /\ heard' = heard
        /\ pc' \in [Clients -> {"route", "wait", "done", "spawning", "hosting", "lockwait"}]
    BY <1>1, <1>2 DEF Around, HostsTypeOK, Shut
  <2>2. accepting' \in BOOLEAN /\ forced' \in BOOLEAN
    BY <1>1, <1>2 DEF Around, HostsTypeOK
  <2>3. QED BY <1>1, <2>1, <2>2 DEF Around, HostsTypeOK
<1>4. \A d \in Clients : Fresh(d)' => Fresh(d)
  BY <1>1, <1>2 DEF Around, HostsTypeOK, Fresh, Shut
<1>5. Places'
  BY <1>4, Beside
<1>6. Doors'
  BY <1>1, <1>2 DEF Around, HostsTypeOK, Doors, Failed, Shut, StillIdle, Open
<1>7. Books' /\ Empty'
  BY <1>1, <1>2 DEF Around, HostsTypeOK, Books, Empty, Failed, Saved, Busy
<1>8. Owns'
  BY <1>1, <1>2 DEF Around, HostsTypeOK, Owns, Clean, Shut
<1>9. \A d \in Clients : Clean(d)'
  BY <1>1, <1>2 DEF Around, HostsTypeOK, Clean, Shut
<1>10. QED BY <1>3, <1>5, <1>6, <1>7, <1>8, <1>9 DEF HostsInv, Around

LEMMA NoteCloseStep ==
  ASSUME HostsInv, NoteClose
  PROVE  HostsInv'
<1> USE DEF NoteClose, hostVars, boxVars, clientVars, histVars
<1>1. Around
  BY DEF HostsInv
<1>2. Shut(conn, {d \in Clients : conn[d] = "backlog"}) /\ accepting' = FALSE
  BY StopAcceptingShut
<1>3. HostsTypeOK'
  <2>1. /\ conn' \in [Clients -> {"none", "backlog", "open", "taken", "sent"}] /\ heard' = heard
        /\ pc' \in [Clients -> {"route", "wait", "done", "spawning", "hosting", "lockwait"}]
    BY <1>1, <1>2 DEF Around, HostsTypeOK, Shut
  <2>2. accepting' \in BOOLEAN /\ forced' \in BOOLEAN
    BY <1>1, <1>2 DEF Around, HostsTypeOK
  <2>3. QED BY <1>1, <2>1, <2>2 DEF Around, HostsTypeOK
<1>4. \A d \in Clients : Fresh(d)' => Fresh(d)
  BY <1>1, <1>2 DEF Around, HostsTypeOK, Fresh, Shut
<1>5. Places'
  BY <1>4, Beside
<1>6. Doors'
  BY <1>1, <1>2 DEF Around, HostsTypeOK, Doors, Failed, Shut, StillIdle, Open
<1>7. Books' /\ Empty'
  BY <1>1, <1>2 DEF Around, HostsTypeOK, Books, Empty, Failed, Saved, Busy
<1>8. Owns'
  BY <1>1, <1>2 DEF Around, HostsTypeOK, Owns, Clean, Shut
<1>9. \A d \in Clients : Clean(d)'
  BY <1>1, <1>2 DEF Around, HostsTypeOK, Clean, Shut
<1>10. QED BY <1>3, <1>5, <1>6, <1>7, <1>8, <1>9 DEF HostsInv, Around

LEMMA GraceEndsStep ==
  ASSUME HostsInv, GraceEnds
  PROVE  HostsInv'
<1> USE DEF GraceEnds, hostVars, boxVars, clientVars, histVars
<1>1. Around
  BY DEF HostsInv
<1>2. Shut(conn, {d \in Clients : conn[d] = "backlog"}) /\ accepting' = FALSE
  BY StopAcceptingShut
<1>3. HostsTypeOK'
  <2>1. /\ conn' \in [Clients -> {"none", "backlog", "open", "taken", "sent"}] /\ heard' = heard
        /\ pc' \in [Clients -> {"route", "wait", "done", "spawning", "hosting", "lockwait"}]
    BY <1>1, <1>2 DEF Around, HostsTypeOK, Shut
  <2>2. accepting' \in BOOLEAN /\ forced' \in BOOLEAN
    BY <1>1, <1>2 DEF Around, HostsTypeOK
  <2>3. QED BY <1>1, <2>1, <2>2 DEF Around, HostsTypeOK
<1>4. \A d \in Clients : Fresh(d)' => Fresh(d)
  BY <1>1, <1>2 DEF Around, HostsTypeOK, Fresh, Shut
<1>5. Places'
  BY <1>4, Beside
<1>6. Doors'
  BY <1>1, <1>2 DEF Around, HostsTypeOK, Doors, Failed, Shut, StillIdle, Open
<1>7. Books' /\ Empty'
  BY <1>1, <1>2 DEF Around, HostsTypeOK, Books, Empty, Failed, Saved, Busy
<1>8. Owns'
  BY <1>1, <1>2 DEF Around, HostsTypeOK, Owns, Clean, Shut
<1>9. \A d \in Clients : Clean(d)'
  BY <1>1, <1>2 DEF Around, HostsTypeOK, Clean, Shut
<1>10. QED BY <1>3, <1>5, <1>6, <1>7, <1>8, <1>9 DEF HostsInv, Around

LEMMA StopAcceptingIfIdleStep ==
  ASSUME HostsInv, StopAcceptingIfIdle
  PROVE  HostsInv'
<1> USE DEF StopAcceptingIfIdle, hostVars, boxVars, clientVars, histVars
<1>1. Around
  BY DEF HostsInv
<1>2. IF StillIdle THEN Shut(conn, {d \in Clients : conn[d] = "backlog"}) /\ accepting' = FALSE ELSE UNCHANGED <<accepting, conn, pc, heard>>
  BY StopAcceptingShut
<1>3. HostsTypeOK'
  <2>1. /\ conn' \in [Clients -> {"none", "backlog", "open", "taken", "sent"}] /\ heard' = heard
        /\ pc' \in [Clients -> {"route", "wait", "done", "spawning", "hosting", "lockwait"}]
    BY <1>1, <1>2 DEF Around, HostsTypeOK, Shut
  <2>2. accepting' \in BOOLEAN /\ forced' \in BOOLEAN
    BY <1>1, <1>2 DEF Around, HostsTypeOK
  <2>3. QED BY <1>1, <2>1, <2>2 DEF Around, HostsTypeOK
<1>4. \A d \in Clients : Fresh(d)' => Fresh(d)
  BY <1>1, <1>2 DEF Around, HostsTypeOK, Fresh, Shut
<1>5. Places'
  BY <1>4, Beside
<1>6. Doors'
  BY <1>1, <1>2 DEF Around, HostsTypeOK, Doors, Failed, Shut, StillIdle, Open
<1>7. Books' /\ Empty'
  BY <1>1, <1>2 DEF Around, HostsTypeOK, Books, Empty, Failed, Saved, Busy
<1>8. Owns'
  BY <1>1, <1>2 DEF Around, HostsTypeOK, Owns, Clean, Shut
<1>9. \A d \in Clients : Clean(d)'
  BY <1>1, <1>2 DEF Around, HostsTypeOK, Clean, Shut
<1>10. QED BY <1>3, <1>5, <1>6, <1>7, <1>8, <1>9 DEF HostsInv, Around

\* The request is the host's now: in the queue, or answered.
LEMMA SubmitStep ==
  ASSUME HostsInv, NEW c \in Clients, Submit(c)
  PROVE  HostsInv'
<1> USE DEF hostVars
<1>1. Around /\ ses \in Session /\ queue \in Seq(Messages) /\ conn \in [Clients -> {"none", "backlog", "open", "taken", "sent"}]
  BY SessionTakes DEF HostsInv, Around, HostsTypeOK
<1>2. /\ conn[c] = "taken" /\ cmd[c] # "takeover" /\ conn' = [conn EXCEPT ![c] = "sent"]
      /\ UNCHANGED <<hostVars, urgent, unfinished, pc, cmd, spawned, tries, heard, left, trouble, torn>>
      /\ \/ Failed /\ ses' = Answer(ses, {c}, "exiting") /\ UNCHANGED <<queue, ahead>>
         \/ /\ ~Failed /\ ses' = ses /\ queue' = Append(queue, Message("request", c))
            /\ ahead' = IF cmd[c] = "stop" THEN [ahead EXCEPT ![c] = StartsWaiting] ELSE ahead
  BY DEF Submit
<1>3. Fresh(c) /\ ~Fresh(c)' /\ \A d \in Clients : Fresh(d)' => Fresh(d)
  BY <1>1, <1>2 DEF Around, HostsTypeOK, Fresh, Clean
<1>4. ~Asked(c) /\ c \notin Range(ses.parked)
  BY <1>3 DEF HostsInv, Places, Life
<1>5. Places'
  <2>1. CASE ses' = Answer(ses, {c}, "exiting") /\ UNCHANGED <<queue, ahead>>
    BY <1>2, <1>3, <1>4, <2>1, Told DEF Words
  <2>2. CASE /\ ses' = ses /\ queue' = Append(queue, Message("request", c))
             /\ ahead' = IF cmd[c] = "stop" THEN [ahead EXCEPT ![c] = StartsWaiting] ELSE ahead
    BY <1>2, <1>3, <2>2, Enqueue
  <2>3. QED BY <1>2, <2>1, <2>2
<1>6. /\ ses' \in Session /\ ses'.recovering = ses.recovering /\ ses'.rec = ses.rec /\ ses'.jobs = ses.jobs
      /\ ses'.parked = ses.parked /\ ses'.stoppers = ses.stoppers
      /\ \A d \in Clients : ses'.reply[d] = "exiting" => Failed \/ ses.reply[d] = "exiting"
  <2>1. CASE Failed /\ ses' = Answer(ses, {c}, "exiting")
    <3>1. Tells(ses, ses', {c}, "exiting")
      BY <1>1, <2>1, AnswerTells DEF Words
    <3>2. QED BY <2>1, <3>1 DEF Tells, SameWait
  <2>2. CASE ses' = ses
    BY <1>1, <2>2
  <2>3. QED BY <1>2, <2>1, <2>2
<1>7. queue' \in Seq(Messages) /\ Len(queue') >= Len(queue) /\ ahead' \in [Clients -> SUBSET Clients]
  <2>1. Message("request", c) \in Messages
    BY DEF Message, Messages
  <2>2. queue' \in Seq(Messages) /\ Len(queue') >= Len(queue)
    BY <1>1, <1>2, <2>1
  <2>3. ahead \in [Clients -> SUBSET Clients] /\ StartsWaiting \in SUBSET Clients
    BY <1>1 DEF Around, HostsTypeOK, StartsWaiting
  <2>4. ahead' \in [Clients -> SUBSET Clients]
    BY <1>2, <2>3
  <2>5. QED BY <2>2, <2>4
<1>8. HostsTypeOK'
  <2>1. conn' \in [Clients -> {"none", "backlog", "open", "taken", "sent"}]
    BY <1>1, <1>2
  <2>2. QED BY <1>1, <1>2, <1>6, <1>7, <2>1 DEF Around, HostsTypeOK
<1>9. Doors'
  BY <1>1, <1>2, <1>6 DEF Around, Doors, Failed
<1>10. Books'
  BY <1>1, <1>2, <1>6 DEF Around, Books, Saved, Busy, Failed
<1>11. Empty'
  BY <1>1, <1>2, <1>6, <1>7 DEF Around, HostsTypeOK, Empty, Doors, Held
<1>12. Owns' /\ \A d \in Clients : Clean(d)'
  BY <1>1, <1>2 DEF Around, Owns, Clean
<1>13. QED BY <1>5, <1>8, <1>9, <1>10, <1>11, <1>12 DEF HostsInv, Around

\* The server answers a shutdown itself.
LEMMA SubmitShutdownStep ==
  ASSUME HostsInv, NEW c \in Clients, SubmitShutdown(c)
  PROVE  HostsInv'
<1> DEFINE f == [conn EXCEPT ![c] = "sent"]
           backlog == {d \in Clients : conn[d] = "backlog"}
<1>1. Around /\ HostsTypeOK /\ ses \in Session /\ f \in [Clients -> {"none", "backlog", "open", "taken", "sent"}]
  BY SessionTakes DEF HostsInv, Around, HostsTypeOK
<1>2. /\ conn[c] = "taken" /\ cmd[c] = "takeover"
      /\ UNCHANGED <<host, kind, owner, signal, noted, closing, forced, boxVars, unfinished, cmd, spawned, tries, left, trouble, histVars>>
      /\ \/ ses' = Answer(ses, {c}, "refused") /\ conn' = f /\ UNCHANGED <<accepting, shutdown, pc, heard>>
         \/ ses' = Answer(ses, {c}, "ok") /\ shutdown' = TRUE /\ accepting' = FALSE /\ Closes(f, backlog)
  BY DEF SubmitShutdown, StopAccepting
<1>3. \/ conn' = f /\ UNCHANGED <<accepting, shutdown, pc, heard>>
      \/ shutdown' = TRUE /\ accepting' = FALSE /\ Shut(f, backlog)
  BY <1>1, <1>2, ClosesShut
<1>4. \E word \in {"ok", "refused"} : ses' = Answer(ses, {c}, word) /\ Tells(ses, ses', {c}, word)
  BY <1>1, <1>2, AnswerTells DEF Words
<1>5. /\ conn' \in [Clients -> {"none", "backlog", "open", "taken", "sent"}] /\ heard' = heard
      /\ pc' \in [Clients -> {"route", "wait", "done", "spawning", "hosting", "lockwait"}]
      /\ accepting' \in BOOLEAN /\ shutdown' \in BOOLEAN
      /\ conn'[c] = "sent" /\ pc'[c] = pc[c]
  BY <1>1, <1>2, <1>3 DEF HostsTypeOK, Shut
<1>6. /\ ses' \in Session /\ ses'.recovering = ses.recovering /\ ses'.rec = ses.rec /\ ses'.jobs = ses.jobs
      /\ ses'.parked = ses.parked /\ ses'.stoppers = ses.stoppers
      /\ \A d \in Clients : ses'.reply[d] = "exiting" => ses.reply[d] = "exiting"
  BY <1>4 DEF Tells, SameWait
<1>7. ~Fresh(c)' /\ \A d \in Clients : Fresh(d)' => Fresh(d)
  BY <1>1, <1>2, <1>3 DEF HostsTypeOK, Fresh, Shut
<1>8. ~Asked(c) /\ c \notin Range(ses.parked)
  BY <1>2 DEF HostsInv, Places, Life
<1>9. Places'
  BY <1>2, <1>4, <1>7, <1>8, Told DEF Words, boxVars, histVars
<1>10. HostsTypeOK'
  BY <1>1, <1>2, <1>5, <1>6 DEF HostsTypeOK, boxVars, histVars
<1>11. Doors'
  BY <1>1, <1>2, <1>3, <1>6 DEF Around, HostsTypeOK, Doors, Failed, Shut
<1>12. Books' /\ Empty'
  BY <1>1, <1>2, <1>6 DEF Around, Books, Saved, Busy, Failed, Empty, Held, boxVars
<1>13. Owns'
  BY <1>1, <1>2, <1>3 DEF Around, HostsTypeOK, Owns, Clean, Shut
<1>14. \A d \in Clients : Clean(d)'
  BY <1>1, <1>2, <1>3 DEF Around, HostsTypeOK, Clean, Shut
<1>15. QED BY <1>9, <1>10, <1>11, <1>12, <1>13, <1>14 DEF HostsInv, Around

\* Messages that are no requests.
LEMMA ConnectionGoneStep ==
  ASSUME HostsInv, NEW c \in Clients, ConnectionGone(c)
  PROVE  HostsInv'
<1> USE DEF hostVars, histVars
<1>1. Around /\ HostsTypeOK /\ ses \in Session /\ queue \in Seq(Messages)
  BY SessionTakes DEF HostsInv, Around
<1>2. /\ conn[c] = "sent" /\ c \in left /\ conn' = [conn EXCEPT ![c] = "none"] /\ heard' = heard \ {c}
      /\ queue' = Append(queue, Message("gone", c)) \/ queue' = queue
      /\ UNCHANGED <<hostVars, urgent, ses, unfinished, pc, cmd, spawned, tries, left, trouble, histVars>>
  BY DEF ConnectionGone
<1>3. \A d \in Clients : Fresh(d)' => Fresh(d)
  BY <1>1, <1>2 DEF HostsTypeOK, Fresh
<1>4. Message("gone", c) \in Messages /\ Message("gone", c).m # "request"
  BY DEF Message, Messages
<1>5. Places'
  <2>1. CASE queue' = queue
    BY <1>2, <1>3, <2>1, Beside
  <2>2. CASE queue' = Append(queue, Message("gone", c))
    BY <1>2, <1>3, <1>4, <2>2, Joins
  <2>3. QED BY <1>2, <2>1, <2>2
<1>6. queue' \in Seq(Messages) /\ Len(queue') >= Len(queue)
  BY <1>1, <1>2, <1>4
<1>7. HostsTypeOK'
  BY <1>1, <1>2, <1>6 DEF HostsTypeOK
<1>8. Doors' /\ Books'
  BY <1>1, <1>2 DEF Around, HostsTypeOK, Doors, Books, Saved, Busy, Failed
<1>9. Empty'
  BY <1>1, <1>2, <1>6 DEF Around, HostsTypeOK, Empty, Doors
<1>10. Owns' /\ \A d \in Clients : Clean(d)'
  BY <1>1, <1>2 DEF Around, HostsTypeOK, Owns, Clean
<1>11. QED BY <1>5, <1>7, <1>8, <1>9, <1>10 DEF HostsInv, Around

LEMMA NoteShutdownStep ==
  ASSUME HostsInv, NoteShutdown
  PROVE  HostsInv'
<1> USE DEF NoteShutdown, clientVars, histVars
<1>1. Around /\ HostsTypeOK /\ queue \in Seq(Messages)
  BY SessionTakes DEF HostsInv, Around
<1>2. Message("stop", NoOne) \in Messages /\ Message("stop", NoOne).m # "request"
  BY DEF Message, Messages
<1>3. Places'
  BY <1>1, <1>2, Joins DEF Fresh
<1>4. queue' \in Seq(Messages)
  BY <1>1, <1>2
<1>5. HostsTypeOK'
  BY <1>1, <1>4 DEF HostsTypeOK
<1>6. Doors' /\ Books' /\ Empty'
  BY <1>1 DEF Around, Doors, Books, Empty, Saved, Busy, Failed
<1>7. Owns' /\ \A d \in Clients : Clean(d)'
  BY <1>1 DEF Around, Owns, Clean
<1>8. QED BY <1>3, <1>5, <1>6, <1>7 DEF HostsInv, Around

LEMMA SignalSendsStep ==
  ASSUME HostsInv, SignalSends
  PROVE  HostsInv'
<1> DEFINE m == IF signal = 1 THEN "stop" ELSE "interrupt"
<1> USE DEF clientVars, histVars
<1>1. Around /\ HostsTypeOK /\ queue \in Seq(Messages) /\ urgent \in Nat
  BY SessionTakes DEF HostsInv, Around, HostsTypeOK
<1>2. /\ host \notin {"none", "starting"} /\ signal \in {1, 2} /\ signal' = signal + 1 /\ SendUrgent(m)
      /\ UNCHANGED <<host, kind, owner, accepting, shutdown, noted, closing, forced, ses, unfinished, clientVars, trouble, histVars>>
  BY DEF SignalSends
<1>3. Message(m, NoOne) \in Messages /\ Message(m, NoOne).m # "request"
  BY DEF Message, Messages
<1> HIDE DEF m
<1>4. host = "opening" => urgent <= Len(queue)
  BY <1>1 DEF Around, Empty
<1>5. \/ UNCHANGED boxVars
      \/ queue' = Append(queue, Message(m, NoOne)) /\ urgent' = urgent /\ host # "opening"
      \/ /\ urgent \in 0 .. Len(queue) /\ queue' = InsertAt(queue, urgent + 1, Message(m, NoOne))
         /\ urgent' = urgent + 1
  BY <1>1, <1>2, <1>4 DEF SendUrgent
<1>6. \A d \in Clients : Fresh(d)' => Fresh(d)
  BY <1>2 DEF Fresh
<1>7. Places'
  <2>1. CASE UNCHANGED boxVars
    BY <1>2, <1>6, <2>1, Beside DEF boxVars
  <2>2. CASE \/ queue' = Append(queue, Message(m, NoOne))
             \/ urgent \in 0 .. Len(queue) /\ queue' = InsertAt(queue, urgent + 1, Message(m, NoOne))
    BY <1>2, <1>3, <1>6, <2>2, Joins
  <2>3. QED BY <1>5, <2>1, <2>2
<1>8. queue' \in Seq(Messages) /\ urgent' \in Nat /\ (host = "opening" => urgent' <= Len(queue'))
  <2>1. CASE UNCHANGED boxVars
    BY <1>1, <1>4, <2>1 DEF boxVars
  <2>2. CASE queue' = Append(queue, Message(m, NoOne)) /\ urgent' = urgent /\ host # "opening"
    BY <1>1, <1>3, <2>2
  <2>3. CASE /\ urgent \in 0 .. Len(queue) /\ queue' = InsertAt(queue, urgent + 1, Message(m, NoOne))
             /\ urgent' = urgent + 1
    <3>1. queue' \in Seq(Messages) /\ Len(queue') = Len(queue) + 1
      <4>1. Inserted(queue', Messages, queue, urgent, Message(m, NoOne))
        BY <1>1, <1>3, <2>3, InsertIs
      <4>2. QED BY <4>1 DEF Inserted
    <3>2. QED BY <1>1, <2>3, <3>1
  <2>4. QED BY <1>5, <2>1, <2>2, <2>3
<1>9. HostsTypeOK'
  BY <1>1, <1>2, <1>8 DEF HostsTypeOK
<1>10. Doors' /\ Books' /\ Empty'
  BY <1>1, <1>2, <1>8 DEF Around, Doors, Books, Empty, Saved, Busy, Failed
<1>11. Owns' /\ \A d \in Clients : Clean(d)'
  BY <1>1, <1>2 DEF Around, Owns, Clean
<1>12. QED BY <1>7, <1>9, <1>10, <1>11 DEF HostsInv, Around

\* A session with nothing in it.
Blank(s, on, reply, ran) ==
    /\ s \in Session /\ s.parked = <<>> /\ Held(s) = {} /\ Range(s.parked) = {}
    /\ Winds(s) /\ Once(s.parked)
    /\ s.recovering = on /\ s.rec = "idle" /\ s.jobs = {} /\ s.reply = reply /\ s.ran = ran

\* A session opens with nothing in it.
LEMMA OpenedSession ==
  ASSUME NEW on \in BOOLEAN, NEW reply \in [Clients -> Words], NEW ran \in [Clients -> Nat]
  PROVE  Blank(Opened(on, reply, ran), on, reply, ran)
<1>1. <<>> \in Seq(Clients)
  OBVIOUS
<1>2. Opened(on, reply, ran) \in Session
  BY <1>1 DEF Opened, Session
<1>3. Once(<<>>)
  BY DEF Once
<1>4. QED BY <1>2, <1>3, RangeEmpty DEF Opened, Held, Winds, Blank

\* The session opens for the requests that came before it.
LEMMA AttachStep ==
  ASSUME HostsInv, Attach
  PROVE  HostsInv'
<1> USE DEF clientVars, histVars
<1>1. Around /\ HostsTypeOK /\ ses \in Session /\ queue \in Seq(Messages) /\ unfinished \in BOOLEAN
      /\ ses.parked = <<>> /\ Held(ses) = {}
  BY SessionTakes DEF HostsInv, Around, HostsTypeOK, Empty, Attach
<1>2. /\ host = "opening" /\ host' = "attached" /\ urgent' = 0 /\ ses' = Opened(unfinished, ses.reply, ses.ran)
      /\ UNCHANGED <<kind, owner, accepting, signal, shutdown, noted, closing, forced, queue, unfinished, clientVars, trouble, histVars>>
  BY DEF Attach
<1>3. /\ ses' \in Session /\ ses'.parked = <<>> /\ Held(ses') = {} /\ Range(ses'.parked) = {}
      /\ Winds(ses') /\ Once(ses'.parked) /\ ses'.recovering = unfinished /\ ses'.rec = "idle"
      /\ ses'.reply = ses.reply /\ ses'.ran = ses.ran /\ ses'.jobs = {}
  <2>1. ses.reply \in [Clients -> Words] /\ ses.ran \in [Clients -> Nat]
    BY <1>1 DEF Session
  <2>2. Blank(ses', unfinished, ses.reply, ses.ran)
    BY <1>1, <1>2, <2>1, OpenedSession
  <2>3. QED BY <2>2 DEF Blank
<1>4. Moves(ses, ses', {})
  BY <1>3 DEF Moves
<1>5. Places'
  BY <1>2, <1>4, Works DEF Fresh
<1>6. HostsTypeOK'
  BY <1>1, <1>2, <1>3 DEF HostsTypeOK
<1>7. Doors' /\ Books' /\ Empty'
  BY <1>1, <1>2, <1>3 DEF Around, Doors, Books, Empty, Saved, Busy, Failed
<1>8. Owns' /\ \A d \in Clients : Clean(d)'
  BY <1>1, <1>2 DEF Around, Owns, Clean
<1>9. QED BY <1>5, <1>6, <1>7, <1>8 DEF HostsInv, Around

\* A command's host asks itself.
LEMMA ServeStep ==
  ASSUME HostsInv, Serve
  PROVE  HostsInv'
<1> USE DEF clientVars, histVars
<1>1. Around /\ HostsTypeOK /\ queue \in Seq(Messages)
  BY SessionTakes DEF HostsInv, Around
<1>2. /\ host = "attached" /\ host' = "serving"
      /\ \/ queue' = queue
         \/ kind = "cli" /\ queue' = Append(queue, Message("request", owner))
      /\ UNCHANGED <<kind, owner, accepting, signal, shutdown, noted, closing, forced, urgent, ses, unfinished, clientVars, trouble, histVars>>
  BY DEF Serve
<1>3. \A d \in Clients : Fresh(d)' => Fresh(d)
  BY <1>2 DEF Fresh
<1>4. kind = "cli" => owner \in Clients /\ Fresh(owner) /\ ~Fresh(owner)' /\ ~MayStartRecording(cmd[owner])
  BY <1>1, <1>2 DEF Around, Owns, Clean, Fresh
<1>5. Places'
  <2>1. CASE queue' = queue
    BY <1>2, <1>3, <2>1, Beside
  <2>2. CASE kind = "cli" /\ queue' = Append(queue, Message("request", owner))
    BY <1>2, <1>3, <1>4, <2>2, Enqueue
  <2>3. QED BY <1>2, <2>1, <2>2
<1>6. queue' \in Seq(Messages)
  <2>1. kind = "cli" => Message("request", owner) \in Messages
    BY <1>4 DEF Message, Messages
  <2>2. QED BY <1>1, <1>2, <2>1
<1>7. HostsTypeOK'
  BY <1>1, <1>2, <1>6 DEF HostsTypeOK
<1>8. Doors' /\ Books' /\ Empty'
  BY <1>1, <1>2 DEF Around, Doors, Books, Empty, Saved, Busy, Failed
<1>9. Owns' /\ \A d \in Clients : Clean(d)'
  BY <1>1, <1>2 DEF Around, Owns, Clean
<1>10. QED BY <1>5, <1>7, <1>8, <1>9 DEF HostsInv, Around

\* A session that is dropped holds nothing and no request waits for one.
LEMMA Dropped ==
  ASSUME HostsInv, UNCHANGED cmd, queue' = <<>>, NEW reply \in [Clients -> Words],
         ses' = Opened(FALSE, reply, ses.ran),
         \A c \in Clients : Fresh(c)' => reply[c] = "none" /\ (Fresh(c) \/ c \in torn'),
         torn \subseteq torn',
         \A c \in Clients : cmd[c] = "stop" => \A d \in ahead'[c] : d \in ahead[c] /\ ~Fresh(d)'
  PROVE  Places'
<1>1. HostsTypeOK /\ ses \in Session /\ ses.ran \in [Clients -> Nat] /\ \A c \in Clients : Life(c) /\ Stops(c)
  BY SessionTakes DEF HostsInv, Around, Places, Session
<1>2. /\ Held(ses') = {} /\ Range(ses'.parked) = {} /\ Winds(ses') /\ Once(ses'.parked)
      /\ ses'.reply = reply /\ ses'.ran = ses.ran
  <2>1. Blank(ses', FALSE, reply, ses.ran)
    BY <1>1, OpenedSession
  <2>2. QED BY <2>1 DEF Blank
<1>3. Range(queue') = {} /\ Len(queue') = 0
  BY RangeEmpty
<1>4. \A c : ~Asked(c)'
  BY <1>3 DEF Asked
<1>5. ASSUME NEW c \in Clients PROVE Life(c)'
  <2>1. Fresh(c)' => reply[c] = "none" /\ (c \in torn' \/ (Fresh(c) /\ Life(c)))
    BY <1>1
  <2>2. Fresh(c)' => Unrun(c)'
    BY <2>1, <1>2 DEF Life, Unrun
  <2>3. ses'.ran[c] > 1 => c \in torn'
    BY <1>1, <1>2 DEF Life
  <2>4. QED BY <2>2, <2>3, <1>2, <1>4 DEF Life
<1>6. StartsWaiting' = {}
  BY <1>2, <1>3 DEF StartsWaiting, Message
<1>7. \A c \in Clients : Stops(c)'
  BY <1>1, <1>3, <1>6 DEF Stops
<1>8. AskedOnce'
  BY <1>3 DEF AskedOnce
<1>9. QED BY <1>2, <1>5, <1>7, <1>8 DEF Places

\* The ends: requests are answered, then their host is gone.
LEMMA DropSessionStep ==
  ASSUME HostsInv, DropSession
  PROVE  HostsInv'
<1> USE DEF clientVars, histVars
<1> DEFINE unread == {c \in Clients : Message("request", c) \in Range(queue)}
           who == Owed(ses) \cup unread
           reply == Answer(ses, who, "exiting").reply
<1>1. Around /\ HostsTypeOK /\ ses \in Session /\ unfinished \in BOOLEAN
  BY SessionTakes DEF HostsInv, Around, HostsTypeOK
<1>2. /\ host = "finishing" /\ host' = "flushing" /\ queue' = <<>> /\ urgent' = 0
      /\ ses' = Opened(FALSE, reply, ses.ran)
      /\ UNCHANGED <<kind, owner, accepting, signal, shutdown, noted, closing, forced, unfinished, clientVars, trouble, histVars>>
  BY DEF DropSession
<1>3. Tells(ses, Answer(ses, who, "exiting"), who, "exiting")
  BY <1>1, AnswerTells DEF Words
<1>4. reply \in [Clients -> Words] /\ \A c \in Clients : c \notin who => reply[c] = ses.reply[c]
  BY <1>3 DEF Tells, Session
<1> HIDE DEF reply
<1>5. \A c \in Clients : Fresh(c)' => Fresh(c)
  BY <1>2 DEF Fresh
<1>6. \A c \in Clients : Fresh(c)' => reply[c] = "none"
  <2>1. SUFFICES ASSUME NEW c \in Clients, Fresh(c) PROVE reply[c] = "none"
    BY <1>5
  <2>2. Unrun(c) /\ ~Asked(c) /\ c \notin Range(ses.parked)
    BY <2>1 DEF HostsInv, Places, Life
  <2>3. c \notin who
    BY <2>2 DEF Unrun, Held, Asked, Owed
  <2>4. QED BY <2>2, <2>3, <1>4 DEF Unrun
<1> HIDE DEF who
<1>7. \A c \in Clients : \A d \in ahead'[c] : d \in ahead[c]
  BY <1>2
<1>8. ASSUME NEW c \in Clients, NEW d \in ahead[c], cmd[c] = "stop" PROVE ~Fresh(d)'
  BY <1>1, <1>5, <1>8 DEF HostsInv, Places, Stops, HostsTypeOK
<1>20. Places'
  <2>1. \A c \in Clients : cmd[c] = "stop" => \A d \in ahead'[c] : d \in ahead[c] /\ ~Fresh(d)'
    BY <1>2, <1>7, <1>8
  <2>2. torn \subseteq torn' /\ cmd' = cmd
    BY <1>2
  <2>3. QED BY <1>2, <1>4, <1>5, <1>6, <2>1, <2>2, Dropped
<1>9. /\ ses' \in Session /\ ses'.parked = <<>> /\ Held(ses') = {} /\ ses'.recovering = FALSE
      /\ ses'.rec = "idle" /\ ses'.jobs = {}
  <2>1. ses.ran \in [Clients -> Nat]
    BY <1>1 DEF Session
  <2>2. Blank(ses', FALSE, reply, ses.ran)
    BY <1>2, <1>4, <2>1, OpenedSession
  <2>3. QED BY <2>2 DEF Blank
<1>10. queue' \in Seq(Messages)
  BY <1>2
<1>11. HostsTypeOK'
  BY <1>1, <1>2, <1>9, <1>10 DEF HostsTypeOK
<1>12. Doors' /\ Books' /\ Empty'
  BY <1>1, <1>2, <1>9 DEF Around, Doors, Books, Empty, Saved, Busy, Failed
<1>13. Owns' /\ \A d \in Clients : Clean(d)'
  BY <1>1, <1>2 DEF Around, Owns, Clean
<1>14. QED BY <1>20, <1>11, <1>12, <1>13 DEF HostsInv, Around

\* The last host's session is gone with it.
LEMMA NoHostDrops ==
  ASSUME HostsInv, NoHost, UNCHANGED cmd, torn \subseteq torn',
         \A c \in Clients : Fresh(c)' => Fresh(c) \/ c \in torn'
  PROVE  /\ Places' /\ Blank(ses', FALSE, None, ses.ran)
         /\ ahead' \in [Clients -> SUBSET Clients] /\ queue' \in Seq(Messages)
<1>1. ses.ran \in [Clients -> Nat]
  BY SessionTakes DEF Session
<1>2. /\ None \in [Clients -> Words] /\ queue' = <<>> /\ ses' = Opened(FALSE, None, ses.ran)
      /\ \A c \in Clients : None[c] = "none" /\ ahead'[c] = {}
      /\ ahead' = [c \in Clients |-> {}]
  BY DEF NoHost, None, Words
<1>3. Places'
  BY <1>2, Dropped
<1>4. Blank(ses', FALSE, None, ses.ran)
  BY <1>1, <1>2, OpenedSession
<1>5. <<>> \in Seq(Messages)
  OBVIOUS
<1>6. QED BY <1>2, <1>3, <1>4, <1>5

Unhosted ==
    /\ host \in {"none", "starting", "opening", "attached", "serving", "leaving", "finishing", "flushing"}
    /\ kind \in {"none", "cli", "headless", "gui"} /\ owner \in Clients \cup {NoOne}
    /\ accepting \in BOOLEAN /\ shutdown \in BOOLEAN /\ noted \in BOOLEAN
    /\ closing \in BOOLEAN /\ forced \in BOOLEAN
    /\ urgent \in Nat /\ signal \in 0 .. 3

\* What is left where no host is.
LEMMA NoHostTyped ==
  ASSUME NoHost
  PROVE  Unhosted'
<1>1. /\ host' = "none" /\ kind' = "none" /\ owner' = NoOne /\ signal' = 0 /\ urgent' = 0
      /\ accepting' = FALSE /\ shutdown' = FALSE /\ noted' = FALSE /\ closing' = FALSE /\ forced' = FALSE
  BY DEF NoHost
<1>2. accepting' \in BOOLEAN /\ shutdown' \in BOOLEAN /\ noted' \in BOOLEAN /\ closing' \in BOOLEAN /\ forced' \in BOOLEAN
  BY <1>1
<1>3. urgent' \in Nat /\ signal' \in 0 .. 3
  BY <1>1
<1>4. QED BY <1>1, <1>2, <1>3 DEF Unhosted

LEMMA ReleaseLockStep ==
  ASSUME HostsInv, ReleaseLock
  PROVE  HostsInv'
<1>1. Around /\ HostsTypeOK
  BY DEF HostsInv, Around
<1>2. /\ host = "flushing" /\ Open = {} /\ NoHost
      /\ UNCHANGED <<unfinished, cmd, spawned, tries, conn, heard, left, trouble, torn>>
      /\ pc' = IF pc[owner] = "hosting" THEN [pc EXCEPT ![owner] = "done"] ELSE pc
  BY DEF ReleaseLock
<1>3. \A c \in Clients : Fresh(c)' => Fresh(c)
  BY <1>1, <1>2 DEF HostsTypeOK, Fresh, NoHost
<1>4. /\ Places' /\ Blank(ses', FALSE, None, ses.ran)
      /\ ahead' \in [Clients -> SUBSET Clients] /\ queue' \in Seq(Messages)
  BY <1>2, <1>3, NoHostDrops
<1>5. \A c \in Clients : conn[c] = "none"
  BY <1>1, <1>2 DEF Around, HostsTypeOK, Doors, Failed, Open
<1>6. HostsTypeOK'
  <2>1. pc' \in [Clients -> {"route", "wait", "done", "spawning", "hosting", "lockwait"}]
    BY <1>1, <1>2 DEF HostsTypeOK
  <2>2. Unhosted'
    BY <1>2, NoHostTyped
  <2>3. ses' \in Session
    BY <1>4 DEF Blank
  <2>4. unfinished' \in BOOLEAN /\ conn' \in [Clients -> {"none", "backlog", "open", "taken", "sent"}]
        /\ heard' \subseteq Clients /\ left' \subseteq Clients /\ torn' \subseteq Clients
    BY <1>1, <1>2 DEF HostsTypeOK
  <2>5. QED BY <1>4, <2>1, <2>2, <2>3, <2>4 DEF HostsTypeOK, Unhosted
<1>7. Doors' /\ Books' /\ Empty' /\ Owns'
  BY <1>2, <1>4, <1>5 DEF Doors, Books, Empty, Owns, Failed, NoHost, Blank, None
<1>8. \A d \in Clients : Clean(d)'
  BY <1>1, <1>2 DEF Around, HostsTypeOK, Clean
<1>9. QED BY <1>4, <1>6, <1>7, <1>8 DEF HostsInv, Around

LEMMA DiesStep ==
  ASSUME HostsInv, Dies
  PROVE  HostsInv'
<1> DEFINE there == {c \in Clients : conn[c] # "none"}
           stay == there \ left
           own == {c \in Clients : pc[c] \in {"hosting", "spawning"}}
<1>1. Around /\ HostsTypeOK
  BY DEF HostsInv, Around
<1>2. /\ NoHost /\ conn' = None /\ heard' = {}
      /\ UNCHANGED <<unfinished, cmd, spawned, tries, left>>
      /\ pc' = [c \in Clients |-> IF c \in stay THEN AfterEof(c) ELSE IF c \in own THEN "done" ELSE pc[c]]
      /\ torn' = torn \cup {c \in stay \ heard : conn[c] = "sent"}
  BY DEF Dies
<1>3. \A c \in Clients : Fresh(c)' => Fresh(c) \/ c \in torn'
  <2>1. SUFFICES ASSUME NEW c \in Clients, Fresh(c)' PROVE Fresh(c) \/ c \in torn'
    OBVIOUS
  <2>2. cmd[c] # "takeover" /\ pc'[c] \in {"route", "spawning", "lockwait"}
    BY <2>1, <1>2 DEF Fresh, None, NoHost
  <2>3. CASE c \in stay
    <3>1. c \notin heard /\ conn[c] # "none"
      BY <2>2, <2>3, <1>2 DEF AfterEof
    <3>2. CASE conn[c] = "sent"
      BY <2>3, <3>1, <3>2, <1>2
    <3>3. CASE conn[c] # "sent"
      BY <2>2, <3>1, <3>3, <1>1 DEF Fresh, HostsTypeOK
    <3>4. QED BY <3>2, <3>3
  <2>4. CASE c \notin stay
    BY <2>2, <2>4, <1>2 DEF Fresh
  <2>5. QED BY <2>3, <2>4
<1>4. /\ Places' /\ Blank(ses', FALSE, None, ses.ran)
      /\ ahead' \in [Clients -> SUBSET Clients] /\ queue' \in Seq(Messages)
  BY <1>2, <1>3, NoHostDrops
<1>5. HostsTypeOK'
  <2>1. pc' \in [Clients -> {"route", "wait", "done", "spawning", "hosting", "lockwait"}]
    BY <1>1, <1>2 DEF HostsTypeOK, AfterEof
  <2>2. conn' \in [Clients -> {"none", "backlog", "open", "taken", "sent"}] /\ heard' \subseteq Clients
        /\ torn' \subseteq Clients
    BY <1>1, <1>2 DEF HostsTypeOK, None
  <2>3. Unhosted'
    BY <1>2, NoHostTyped
  <2>4. ses' \in Session
    BY <1>4 DEF Blank
  <2>5. unfinished' \in BOOLEAN /\ left' \subseteq Clients
    BY <1>1, <1>2 DEF HostsTypeOK
  <2>6. QED BY <1>4, <2>1, <2>2, <2>3, <2>4, <2>5 DEF HostsTypeOK, Unhosted
<1>6. Doors' /\ Books' /\ Empty' /\ Owns'
  BY <1>2, <1>4 DEF Doors, Books, Empty, Owns, Failed, NoHost, Blank, None
<1>7. \A d \in Clients : Clean(d)'
  <2>1. \A d \in Clients : pc'[d] # "hosting" /\ conn'[d] = "none" /\ d \notin heard'
    BY <1>2 DEF AfterEof, None
  <2>2. \A d \in Clients : d \in left => pc'[d] = "done"
    BY <1>1, <1>2 DEF Around, Clean
  <2>3. QED BY <2>1, <2>2, <1>2 DEF Clean
<1>8. QED BY <1>4, <1>5, <1>6, <1>7 DEF HostsInv, Around

\* The host serves: what its session did is the step.
LEMMA AtWork ==
  ASSUME HostsInv, Places', host = "serving", UNCHANGED <<hostVars, urgent, clientVars, trouble, histVars>>,
         queue' \in Seq(Messages), ses' \in Session, unfinished' = Saved(ses'),
         \A d \in Clients : ses'.reply[d] = "exiting" => ses.reply[d] = "exiting"
  PROVE  HostsInv'
<1> USE DEF hostVars, clientVars, histVars
<1>1. Around /\ HostsTypeOK
  BY DEF HostsInv, Around
<1>2. unfinished' \in BOOLEAN
  BY DEF Saved, Session
<1>3. HostsTypeOK'
  BY <1>1, <1>2 DEF HostsTypeOK
<1>4. Doors' /\ Books' /\ Empty'
  BY <1>1 DEF Around, Doors, Books, Empty, Saved, Busy, Failed
<1>5. Owns' /\ \A d \in Clients : Clean(d)'
  BY <1>1 DEF Around, Owns, Clean
<1>6. QED BY <1>3, <1>4, <1>5 DEF HostsInv, Around

\* A step of the session beside its queue.
LEMMA QuietStep ==
  ASSUME HostsInv, Quietly, Moves(ses, ses', {}), unfinished' = Saved(ses')
  PROVE  HostsInv'
<1> USE DEF hostVars, boxVars, clientVars, histVars
<1>1. /\ host = "serving" /\ queue' = queue
      /\ UNCHANGED <<hostVars, boxVars, clientVars, trouble, histVars>>
  BY DEF Quietly
<1>2. Places'
  BY <1>1, Works DEF Fresh
<1>3. queue' \in Seq(Messages)
  BY <1>1, SessionTakes
<1>4. ses' \in Session /\ \A d \in Clients : ses'.reply[d] = "exiting" => ses.reply[d] = "exiting"
  BY DEF Moves
<1>5. QED BY <1>1, <1>2, <1>3, <1>4, AtWork

\* The wait is over, or the recovery: what was parked runs.
LEMMA LetGo ==
  ASSUME NEW s, NEW t, Takes(s, {}), t \in Session, t.parked = s.parked, t.interrupted = s.interrupted,
         t.rec = s.rec, Held(t) = Held(s), t.ran = s.ran, t.reply = s.reply, NEW cm, NEW by
  PROVE  Moves(s, ReleaseParked(t, cm, by), {})
<1>1. Moves(s, t, {}) /\ Takes(t, {})
  BY DEF Moves, Takes, Winds
<1>2. Moves(t, ReleaseParked(t, cm, by), {})
  BY <1>1, ReleaseMoves
<1>3. Takes(s, {} \cup {})
  OBVIOUS
<1>4. Moves(s, ReleaseParked(t, cm, by), {} \cup {})
  BY <1>1, <1>2, <1>3, MovesOn
<1>5. QED BY <1>4

\* The session's own steps.
LEMMA WaitEndsStep ==
  ASSUME HostsInv, WaitEnds
  PROVE  HostsInv'
<1> DEFINE t == [ses EXCEPT !.waitOver = TRUE]
<1>1. Takes(ses, {}) /\ ses \in Session
  BY SessionTakes
<1>2. /\ t \in Session /\ t.parked = ses.parked /\ t.interrupted = ses.interrupted /\ t.rec = ses.rec
      /\ Held(t) = Held(ses) /\ t.ran = ses.ran /\ t.reply = ses.reply
  BY <1>1 DEF Session, Held
<1> HIDE DEF t
<1>3. Moves(ses, ReleaseParked(t, cmd, kind), {})
  BY <1>1, <1>2, LetGo
<1>4. Quietly /\ ses' = ReleaseParked(t, cmd, kind) /\ unfinished' = Saved(ses')
  BY DEF WaitEnds, t
<1>5. QED BY <1>3, <1>4, QuietStep

LEMMA TakesProbedStep ==
  ASSUME HostsInv, TakesProbed
  PROVE  HostsInv'
<1> DEFINE t == [ses EXCEPT !.recovering = FALSE]
<1>1. Takes(ses, {}) /\ ses \in Session
  BY SessionTakes
<1>2. /\ t \in Session /\ t.parked = ses.parked /\ t.interrupted = ses.interrupted /\ t.rec = ses.rec
      /\ Held(t) = Held(ses) /\ t.ran = ses.ran /\ t.reply = ses.reply
  BY <1>1 DEF Session, Held
<1> HIDE DEF t
<1>3. Moves(ses, ReleaseParked(t, cmd, kind), {})
  BY <1>1, <1>2, LetGo
<1>4. Quietly /\ ses' = ReleaseParked(t, cmd, kind) /\ unfinished' = Saved(ses')
  BY DEF TakesProbed, t
<1>5. QED BY <1>3, <1>4, QuietStep

\* What the session held is done, and answered.
LEMMA DoneMoves ==
  ASSUME NEW s, NEW t \in Session, Takes(s, {}), SameWait(s, t), t.rec \in {s.rec, "idle"},
         Held(t) \subseteq Held(s), t.ran = s.ran, t.reply = s.reply,
         NEW who \in SUBSET Held(s)
  PROVE  Moves(s, Answer(t, who, "ok"), {})
<1>1. Tells(t, Answer(t, who, "ok"), who, "ok")
  BY AnswerTells DEF Words
<1> DEFINE u == Answer(t, who, "ok")
<1> HIDE DEF u
<1>2. /\ u \in Session /\ u.parked = s.parked /\ u.interrupted = s.interrupted /\ u.ran = s.ran
      /\ Held(u) \subseteq Held(s) /\ u.rec \in {s.rec, "idle"}
      /\ \A c \in Clients : u.reply[c] # s.reply[c] => c \in Held(s) /\ u.reply[c] = "ok"
  BY <1>1 DEF Tells, SameWait, Held, u
<1>3. Moves(s, u, {})
  BY <1>2 DEF Takes, Moves, Winds
<1>4. QED BY <1>3 DEF u

LEMMA FinalizedStep ==
  ASSUME HostsInv, Finalized
  PROVE  HostsInv'
<1> DEFINE t == [ses EXCEPT !.rec = "idle", !.stoppers = {}]
<1>1. Takes(ses, {}) /\ ses \in Session
  BY SessionTakes
<1>2. /\ t \in Session /\ SameWait(ses, t) /\ t.rec \in {ses.rec, "idle"} /\ Held(t) \subseteq Held(ses)
      /\ t.ran = ses.ran /\ t.reply = ses.reply /\ ses.stoppers \in SUBSET Held(ses)
  BY <1>1 DEF Session, Held, SameWait
<1> HIDE DEF t
<1>3. Moves(ses, Answer(t, ses.stoppers, "ok"), {})
  BY <1>1, <1>2, DoneMoves
<1>4. Quietly /\ ses' = Answer(t, ses.stoppers, "ok") /\ unfinished' = Saved(ses')
  BY DEF Finalized, t
<1>5. QED BY <1>3, <1>4, QuietStep

LEMMA JobEndsStep ==
  ASSUME HostsInv, NEW c \in Clients, JobEnds(c)
  PROVE  HostsInv'
<1> DEFINE t == [ses EXCEPT !.jobs = @ \ {c}]
<1>1. Takes(ses, {}) /\ ses \in Session
  BY SessionTakes
<1>2. /\ t \in Session /\ SameWait(ses, t) /\ t.rec = ses.rec /\ Held(t) \subseteq Held(ses)
      /\ t.ran = ses.ran /\ t.reply = ses.reply /\ {c} \in SUBSET Held(ses)
  BY <1>1 DEF Session, Held, SameWait, JobEnds
<1> HIDE DEF t
<1>3. Moves(ses, Answer(t, {c}, "ok"), {})
  BY <1>1, <1>2, DoneMoves
<1>4. Quietly /\ ses' = Answer(t, {c}, "ok") /\ unfinished' = unfinished
  BY DEF JobEnds, t
<1>5. Tells(t, ses', {c}, "ok")
  BY <1>2, <1>4, AnswerTells DEF Words
<1>6. unfinished' = Saved(ses')
  <2>1. Saved(ses') = Saved(ses)
    BY <1>2, <1>5 DEF Tells, SameWait, Saved
  <2>2. unfinished = Saved(ses)
    BY <1>4 DEF HostsInv, Around, Books, Quietly
  <2>3. QED BY <2>1, <2>2, <1>4
<1>7. QED BY <1>3, <1>4, <1>6, QuietStep

\* The first message is taken off; what it leaves behind it isn't a request.
LEMMA TailKept ==
  ASSUME NEW q \in Seq(Messages), q # <<>>, NEW late \in Seq(Messages),
         \A i \in 1 .. Len(late) : late[i].m # "request"
  PROVE  /\ Tail(q) \o late \in Seq(Messages) /\ Kept(Tail(q) \o late, q)
         /\ Len(q) \in Nat \ {0} /\ q[1] = Head(q)
         /\ \A i \in 2 .. Len(q) : q[i] \in Range(Tail(q) \o late)
         /\ \A x \in Range(Tail(q) \o late) : x.m = "request" => \E i \in 2 .. Len(q) : q[i] = x
<1> DEFINE n == Len(q) - 1
           l == Len(late)
           p == Tail(q) \o late
           m == [i \in 1 .. Len(p) |-> i + 1]
<1>1. /\ n \in Nat /\ Len(q) = n + 1 /\ q[1] = Head(q) /\ l \in Nat
      /\ Tail(q) \in Seq(Messages) /\ Len(Tail(q)) = n /\ \A i \in 1 .. n : Tail(q)[i] = q[i + 1]
  OBVIOUS
<1>2. /\ p \in Seq(Messages) /\ Len(p) = n + l
      /\ \A i \in 1 .. n : p[i] = Tail(q)[i]
      /\ \A i \in n + 1 .. n + l : p[i] = late[i - n]
  <2> DEFINE t == Tail(q)
  <2> HIDE DEF t, n
  <2>1. t \in Seq(Messages) /\ Len(t) = n /\ n \in Nat
    BY <1>1 DEF t
  <2>2. t \o late \in Seq(Messages) /\ Len(t \o late) = n + l /\ (\A i \in 1 .. n : (t \o late)[i] = t[i])
    <3>1. /\ t \o late \in Seq(Messages) /\ Len(t \o late) = Len(t) + Len(late)
          /\ \A i \in 1 .. Len(t) : (t \o late)[i] = t[i]
      BY <2>1, SMTT(30)
    <3>2. QED BY <3>1, <2>1
  <2>3. \A i \in n + 1 .. n + l : (t \o late)[i] = late[i - n]
    <3>1. \A i \in Len(t) + 1 .. Len(t) + Len(late) : (t \o late)[i] = late[i - Len(t)]
      BY <2>1
    <3>2. QED BY <3>1, <2>1
  <2>4. QED BY <2>2, <2>3 DEF t
<1> HIDE DEF n, l, p
<1>3. ASSUME NEW i \in 1 .. Len(p), p[i].m = "request"
      PROVE  i \in 1 .. n /\ p[i] = q[i + 1]
  <2>1. CASE i \in n + 1 .. n + l
    <3>1. i - n \in 1 .. l
      BY <1>1, <2>1
    <3>2. QED BY <3>1, <1>2, <1>3, <2>1 DEF l
  <2>2. CASE i \in 1 .. n
    BY <1>1, <1>2, <2>2
  <2>3. QED BY <1>1, <1>2, <2>1, <2>2
<1>4. m \in [1 .. Len(p) -> Nat] /\ \A i \in 1 .. Len(p) : m[i] = i + 1
  BY <1>1, <1>2
<1> HIDE DEF m
<1>5. Kept(p, q)
  <2>1. \A i \in 1 .. Len(p) : p[i].m = "request" => m[i] \in 1 .. Len(q) /\ q[m[i]] = p[i]
    BY <1>1, <1>3, <1>4
  <2>2. \A i, j \in 1 .. Len(p) : i < j => m[i] < m[j]
    BY <1>1, <1>2, <1>4
  <2>3. QED BY <1>4, <2>1, <2>2 DEF Kept
<1>6. \A i \in 2 .. Len(q) : q[i] \in Range(p)
  <2>1. SUFFICES ASSUME NEW i \in 2 .. Len(q) PROVE q[i] \in Range(p)
    OBVIOUS
  <2>2. i - 1 \in 1 .. n /\ i - 1 \in 1 .. Len(p) /\ (i - 1) + 1 = i
    BY <1>1, <1>2
  <2>3. p[i - 1] = q[i]
    BY <1>1, <1>2, <2>2
  <2>4. QED BY <1>2, <2>2, <2>3, RangeFacts
<1>7. ASSUME NEW x \in Range(p), x.m = "request" PROVE \E i \in 2 .. Len(q) : q[i] = x
  <2>1. PICK j \in 1 .. Len(p) : p[j] = x
    BY <1>2, RangeFacts
  <2>2. j \in 1 .. n /\ q[j + 1] = x
    BY <1>3, <1>7, <2>1
  <2>3. QED BY <1>1, <2>2
<1>8. QED BY <1>1, <1>2, <1>5, <1>6, <1>7 DEF p

\* One message of the queue: its request leaves the queue and is parked, run or answered.
LEMMA HandleStep ==
  ASSUME HostsInv, Handle
  PROVE  HostsInv'
<1> DEFINE m == Head(queue)
           new == New(m)
<1>1. HostsTypeOK /\ Takes(ses, {}) /\ ses \in Session /\ queue \in Seq(Messages) /\ queue # <<>> /\ host = "serving"
  BY SessionTakes DEF HostsInv, Around, Handle
<1>2. m \in Messages /\ Len(queue) \in Nat \ {0} /\ queue[1] = m
  BY <1>1
<1> HIDE DEF m
<1>3. PICK over \in BOOLEAN :
        LET s == ReleaseParked(Answered(m, over), cmd, kind)
            late == IF m.m = "request" /\ m.c \in Owed(s) \cap Gone THEN <<Message("gone", m.c)>> ELSE <<>>
        IN  ses' = s /\ unfinished' = Saved(s) /\ queue' = Tail(queue) \o late
  <2>1. \A over : over \in {FALSE, ses.recovering} => over \in BOOLEAN
    BY <1>1 DEF Session
  <2>2. QED BY <2>1 DEF Handle, m
<1> DEFINE s == ReleaseParked(Answered(m, over), cmd, kind)
           late == IF m.m = "request" /\ m.c \in Owed(s) \cap Gone THEN <<Message("gone", m.c)>> ELSE <<>>
<1>4. ses' = s /\ unfinished' = Saved(s) /\ queue' = Tail(queue) \o late
  BY <1>3
<1>5. UNCHANGED <<hostVars, urgent, clientVars, trouble, histVars>>
  BY DEF Handle
<1>6. new \subseteq Clients /\ \A c \in new : m = Message("request", c)
  BY <1>2 DEF New, Messages, Message
<1>7. \A c \in new : Asked(c)
  BY <1>1, <1>2, <1>6, AskedFacts
<1>8. Takes(ses, new)
  <2>1. \A c \in new : c \notin Held(ses) /\ c \notin Range(ses.parked)
    BY <1>6, <1>7 DEF HostsInv, Places, Life, Unrun
  <2>2. QED BY <1>1, <1>6, <2>1 DEF Takes
<1>9. /\ Moves(ses, s, new)
      /\ m.m = "request" /\ cmd[m.c] = "stop" => \A d \in Range(s.parked) : ~MayStartRecording(cmd[d])
  BY <1>2, <1>8, AnswerMoves
<1> HIDE DEF s
<1>10. late \in Seq(Messages) /\ \A i \in 1 .. Len(late) : late[i].m # "request"
  <2>1. CASE late = <<>>
    BY <2>1
  <2>2. CASE late = <<Message("gone", m.c)>> /\ m.m = "request"
    <3>1. Message("gone", m.c) \in Messages /\ Message("gone", m.c).m # "request"
      BY <1>2, <2>2 DEF Messages, Message
    <3>2. QED BY <2>2, <3>1
  <2>3. QED BY <2>1, <2>2
<1> HIDE DEF late
<1>11. /\ queue' \in Seq(Messages) /\ Kept(queue', queue)
       /\ \A i \in 2 .. Len(queue) : queue[i] \in Range(queue')
       /\ \A x \in Range(queue') : x.m = "request" => \E i \in 2 .. Len(queue) : queue[i] = x
  BY <1>1, <1>4, <1>10, TailKept
<1>12. \A c \in Clients \ new : Asked(c) => Asked(c)'
  <2>1. SUFFICES ASSUME NEW c \in Clients \ new, Asked(c) PROVE Asked(c)'
    OBVIOUS
  <2>2. PICK i \in 1 .. Len(queue) : queue[i] = Message("request", c)
    BY <2>1, <1>1, AskedFacts
  <2>3. i # 1
    BY <2>1, <2>2, <1>2 DEF New, Message
  <2>4. i \in 2 .. Len(queue)
    BY <2>2, <2>3, <1>2
  <2>5. QED BY <2>2, <2>4, <1>11 DEF Asked, Message
<1>13. ASSUME NEW c \in new PROVE ~Asked(c)'
  <2>1. SUFFICES ASSUME Message("request", c) \in Range(queue') PROVE FALSE
    BY DEF Asked, Message
  <2>2. PICK i \in 2 .. Len(queue) : queue[i] = Message("request", c)
    BY <2>1, <1>11 DEF Message
  <2>3. i \in 1 .. Len(queue) /\ 1 \in 1 .. Len(queue) /\ queue[i] = queue[1] /\ queue[i].m = "request" /\ i # 1
    BY <2>2, <1>2, <1>6 DEF Message
  <2>4. QED BY <2>3 DEF HostsInv, Places, AskedOnce
<1>14. \A c \in new : /\ Len(queue) > 0 /\ queue[1] = Message("request", c) /\ ~Asked(c)'
                      /\ cmd[c] = "stop" => \A d \in Range(ses'.parked) : ~MayStartRecording(cmd[d])
  BY <1>2, <1>4, <1>6, <1>9, <1>13 DEF Message
<1>15. \A c \in Clients : Fresh(c)' => Fresh(c)
  BY <1>5 DEF Fresh, hostVars, clientVars
<1> HIDE DEF new
<1>16. Places'
  <2>1. Moves(ses, ses', new) /\ new \in SUBSET Clients /\ UNCHANGED <<cmd, torn, ahead>>
    BY <1>4, <1>5, <1>6, <1>9 DEF clientVars, histVars
  <2>2. QED BY <2>1, <1>11, <1>12, <1>14, <1>15, Onward
<1>17. ses' \in Session /\ unfinished' = Saved(ses') /\ \A d \in Clients : ses'.reply[d] = "exiting" => ses.reply[d] = "exiting"
  BY <1>4, <1>9 DEF Moves
<1>18. QED BY <1>1, <1>5, <1>11, <1>16, <1>17, AtWork

----------------------------------------------------------------------------
(* The theorems.                                                           *)

\* The invariant holds where a project has no host.
LEMMA InitHosts ==
  ASSUME Init
  PROVE  HostsInv
<1> USE DEF Init
<1>1. None \in [Clients -> Words] /\ \A c \in Clients : None[c] = "none"
  BY DEF None, Words
<1>2. Blank(ses, FALSE, None, [c \in Clients |-> 0])
  <2>1. [c \in Clients |-> 0] \in [Clients -> Nat]
    OBVIOUS
  <2>2. QED BY <1>1, <2>1, OpenedSession
<1>3. queue \in Seq(Messages) /\ Len(queue) = 0 /\ Range(queue) = {}
  BY RangeEmpty
<1>4. HostsTypeOK
  <2>1. pc \in [Clients -> {"route", "wait", "done", "spawning", "hosting", "lockwait"}]
        /\ \A c \in Clients : pc[c] \in {"route", "done"}
    OBVIOUS
  <2>2. conn \in [Clients -> {"none", "backlog", "open", "taken", "sent"}] /\ ahead \in [Clients -> SUBSET Clients]
    BY DEF None
  <2>3. /\ host \in {"none", "starting", "opening", "attached", "serving", "leaving", "finishing", "flushing"}
        /\ kind \in {"none", "cli", "headless", "gui"} /\ owner \in Clients \cup {NoOne}
    OBVIOUS
  <2>4. /\ accepting \in BOOLEAN /\ shutdown \in BOOLEAN /\ noted \in BOOLEAN
        /\ closing \in BOOLEAN /\ forced \in BOOLEAN /\ unfinished \in BOOLEAN
    OBVIOUS
  <2>8. urgent \in Nat /\ signal \in 0 .. 3
    OBVIOUS
  <2>5. heard \subseteq Clients /\ left \subseteq Clients /\ torn \subseteq Clients
    OBVIOUS
  <2>6. ses \in Session
    BY <1>2 DEF Blank
  <2> HIDE DEF Init
  <2>7. QED BY <1>3, <2>1, <2>2, <2>3, <2>4, <2>5, <2>6, <2>8 DEF HostsTypeOK
<1>5. Doors /\ Books /\ Empty /\ Owns
  BY <1>1, <1>2 DEF Doors, Books, Empty, Owns, Failed, Blank, None
<1>6. \A c \in Clients : Clean(c)
  BY DEF Clean, None
<1>7. \A c \in Clients : Life(c)
  <2>1. ses.reply = None /\ ses.ran = [c \in Clients |-> 0] /\ Held(ses) = {} /\ Range(ses.parked) = {}
    BY <1>2 DEF Blank
  <2>2. \A c \in Clients : ~Asked(c) /\ c \notin Range(ses.parked) /\ Unrun(c) /\ ~(ses.ran[c] > 1)
    <3> HIDE DEF Init
    <3>1. QED BY <1>1, <1>3, <2>1 DEF Unrun, Asked
  <2>3. QED BY <2>2 DEF Life
<1>8. \A c \in Clients : Stops(c)
  BY DEF Stops
<1>9. AskedOnce /\ Once(ses.parked) /\ Winds(ses)
  <2> HIDE DEF Init
  <2>1. QED BY <1>2, <1>3 DEF AskedOnce, Blank
<1>10. QED BY <1>4, <1>5, <1>6, <1>7, <1>8, <1>9 DEF HostsInv, Around, Places

\* Every step of a client, of a connection and of the host keeps it.
LEMMA NextHosts ==
  ASSUME HostsInv, [Next]_vars
  PROVE  HostsInv'
<1>1. CASE UNCHANGED vars
  <2>1. UNCHANGED vars
    BY <1>1
  <2>2. QED BY <2>1, Beside DEF vars, hostVars, boxVars, clientVars, histVars, HostsInv, Around, HostsTypeOK,
          Doors, Books, Empty, Owns, Clean, Failed, Busy, Fresh
<1>2. ASSUME NEW c \in Clients, ClientStep(c) PROVE HostsInv'
  BY <1>2, ConnectStep, HelloSaysBusyStep, GiveUpStep, ElectStep, SpawnedIsGoneStep, LeaveStep DEF ClientStep
<1>3. ASSUME NEW c \in Clients, Connection(c) PROVE HostsInv'
  BY <1>3, AdmitStep, ReadStep, SubmitStep, SubmitShutdownStep, WriteAcceptedStep, WriteReplyStep,
     ConnectionGoneStep DEF Connection
<1>4. ASSUME NEW c \in Clients, Media(c) PROVE HostsInv'
  BY <1>4, FinalizedStep, JobEndsStep DEF Media
<1>5. CASE HostStep
  BY <1>5, PublishStep, AttachStep, ServeStep, NoteCloseStep, NoteShutdownStep, DecideToLeaveStep,
     StopAcceptingIfIdleStep, DropSessionStep, ReleaseLockStep DEF HostStep
<1>6. CASE TroubleStep
  BY <1>6, OpenFailsStep, SignalStep, CloseWindowStep, DiesStep DEF TroubleStep
<1>7. CASE Handle \/ WaitEnds \/ TakesProbed \/ SignalSends \/ GraceEnds
  BY <1>7, HandleStep, WaitEndsStep, TakesProbedStep, SignalSendsStep, GraceEndsStep
<1>8. QED BY <1>1, <1>2, <1>3, <1>4, <1>5, <1>6, <1>7 DEF Next

\* Whatever clients ask, leave and retry, and however hosts stop or die, a request is in
\* one place at a time, and the books of the host say what its session has to finish.
THEOREM HostsHold == Spec => []HostsInv
<1>1. Init => HostsInv
  BY InitHosts
<1>2. HostsInv /\ [Next]_vars => HostsInv'
  BY NextHosts
<1>3. QED BY <1>1, <1>2, PTL DEF Spec

\* InterruptedWindsDown: after the interrupt nothing is parked and nothing records
\* (handle_interrupt in session/mod.rs, and dispatch's refusal of what starts anew).
THEOREM InterruptsHold == Spec => []InterruptedWindsDown
<1>1. HostsInv => InterruptedWindsDown
  BY DEF HostsInv, Places, Winds, InterruptedWindsDown
<1>2. QED BY <1>1, HostsHold, PTL

\* StopsAreFinal: a stop that is answered left no start at the host that came before it
\* (abort_parked in dispatch.rs takes them along, or they ran first).
THEOREM StopsHold == Spec => []StopsAreFinal
<1>1. ASSUME HostsInv PROVE StopsAreFinal
  <2>1. SUFFICES ASSUME NEW c \in Clients, cmd[c] = "stop", ses.reply[c] # "none"
                 PROVE  ahead[c] \cap StartsWaiting = {}
    BY DEF StopsAreFinal
  <2>2. ~Asked(c) /\ Stops(c)
    BY <1>1, <2>1 DEF HostsInv, Places, Life, Unrun
  <2>3. QED BY <2>1, <2>2 DEF Stops
<1>2. HostsInv => StopsAreFinal
  BY <1>1
<1>3. QED BY <1>2, HostsHold, PTL

\* AcceptedAreServed: a host that goes because nothing is left to do turns nobody away it
\* had admitted (stop_accepting_if_idle in host/serve).
THEOREM ServedHold == Spec => []AcceptedAreServed
<1>1. HostsInv => AcceptedAreServed
  BY DEF HostsInv, Around, Doors, AcceptedAreServed
<1>2. QED BY <1>1, HostsHold, PTL

\* RunsOnce: routing again does not run a request again, but for a host that died between
\* queueing it and writing `accepted`.
THEOREM OnceHold == Spec => []RunsOnce
<1>1. HostsInv => RunsOnce
  BY DEF HostsInv, Places, Life, RunsOnce
<1>2. QED BY <1>1, HostsHold, PTL

\* ExitsAreQuiet: a host that isn't forced goes with nothing recording and no recovery
\* behind it (decide and busy of the host's loop).
THEOREM ExitsHold == Spec => []ExitsAreQuiet
<1>1. HostsInv => ExitsAreQuiet
  BY DEF HostsInv, Around, Books, Failed, ExitsAreQuiet
<1>2. QED BY <1>1, HostsHold, PTL
=============================================================================
