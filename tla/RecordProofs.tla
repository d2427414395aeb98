---------------------------- MODULE RecordProofs ----------------------------
(* What RecordSafety states of RecordMachine, proved for every set of      *)
(* requests, streams and takes.                                            *)
EXTENDS RecordSafety, SequenceLemmas, SequenceTheorems, WellFoundedInduction, TLAPS

----------------------------------------------------------------------------
(* Letters.                                                                *)

LEMMA ToldCup ==
  ASSUME NEW A, NEW B
  PROVE  Told(A \cup B) = Told(A) \cup Told(B)
BY DEF Told

LEMMA ToldCup3 ==
  ASSUME NEW A, NEW B, NEW C
  PROVE  Told(A \cup B \cup C) = Told(A) \cup Told(B) \cup Told(C)
BY DEF Told

LEMMA ToldNobody == Told({}) = {}
BY DEF Told

LEMMA ToldOne ==
  ASSUME NEW S, NEW w, NEW t
  PROVE  Told({Letter(S, w, t)}) = S
BY DEF Told, Letter

LEMMA OptFacts ==
  ASSUME NEW r \in Req \cup {NoReq}
  PROVE  /\ Opt(r) \subseteq Req
         /\ r = NoReq => Opt(r) = {}
         /\ r # NoReq => Opt(r) = {r}
BY RecordAssumptions DEF Opt

\* The ready jobs' letters reach exactly those who asked for them.
LEMMA ToldReady == Told(ReadyLetters) = Asking(ReadyJobs)
<1>1. ASSUME NEW r \in Told(ReadyLetters) PROVE r \in Asking(ReadyJobs)
  <2>1. PICK m \in ReadyLetters : r \in m.to
    BY <1>1 DEF Told
  <2>2. PICK j \in ReadyJobs : m = Letter(Opt(j.req), "autocutDone", NoTake)
    BY <2>1 DEF ReadyLetters
  <2> QED
    BY <2>1, <2>2 DEF Letter, Opt, Asking
<1>2. ASSUME NEW r \in Asking(ReadyJobs) PROVE r \in Told(ReadyLetters)
  <2>1. PICK j \in ReadyJobs : r = j.req /\ r # NoReq
    BY <1>2 DEF Asking
  <2>2. Letter(Opt(j.req), "autocutDone", NoTake) \in ReadyLetters
    BY DEF ReadyLetters
  <2>3. r \in Letter(Opt(j.req), "autocutDone", NoTake).to
    BY <2>1 DEF Letter, Opt
  <2> QED
    BY <2>2, <2>3 DEF Told
<1> QED
  BY <1>1, <1>2

\* What the jobs still hold once the ready ones are gone.
LEMMA UnreadyHeld ==
  ASSUME HeldOnce
  PROVE  /\ Asking(jobs \ ReadyJobs) = Asking(jobs) \ Asking(ReadyJobs)
         /\ Asking(ReadyJobs) \subseteq Asking(jobs)
BY DEF HeldOnce, Asking, ReadyJobs

----------------------------------------------------------------------------
(* Steps that touch no request.                                            *)

RequestsUntouched == UNCHANGED <<record, jobs, purges, asked, pending>>

LEMMA UntouchedKeeps == RequestInv /\ RequestsUntouched => RequestInv'
BY DEF RequestInv, RequestsUntouched, RequestsTyped, RecordTyped, PhaseHolds, HeldOnce, PendingIsHeld,
       HeldBy, HeldByJobs, Asking

\* A request that is asked and answered in one step.
LEMMA AnsweredAtOnceKeeps ==
  ASSUME RequestInv, NEW r \in Req \cup {NoReq}, r \notin asked, asked' = asked \cup Opt(r),
         pending' = (pending \cup Opt(r)) \ Opt(r),
         record' = record, jobs' = jobs, purges' = purges
  PROVE  RequestInv'
<1>1. pending' = pending
  BY DEF RequestInv, RequestsTyped, Opt
<1>2. asked' \subseteq Req /\ pending' \subseteq asked'
  BY <1>1, OptFacts DEF RequestInv, RequestsTyped
<1> QED
  BY <1>1, <1>2 DEF RequestInv, RequestsTyped, RecordTyped, PhaseHolds, HeldOnce, PendingIsHeld,
     HeldBy, HeldByJobs, Asking

LEMMA RefuseKeeps ==
  ASSUME RequestInv, NEW r \in Req \cup {NoReq}, NEW w, Refuse(r, w)
  PROVE  RequestInv'
<1>1. /\ r \notin asked /\ asked' = asked \cup Opt(r)
      /\ pending' = (pending \cup Opt(r)) \ Opt(r)
      /\ record' = record /\ jobs' = jobs /\ purges' = purges
  BY ToldOne DEF Refuse, Asks, Deliver, hostVars
<1> QED
  BY <1>1, AnsweredAtOnceKeeps

LEMMA DroppedKeeps ==
  ASSUME RequestInv, NEW r \in Req \cup {NoReq}, NEW p, Asks(r), CommandDropped(r, p),
         purges' = purges
  PROVE  RequestInv'
<1>1. /\ r \notin asked /\ asked' = asked \cup Opt(r)
      /\ pending' = (pending \cup Opt(r)) \ Opt(r)
      /\ record' = record /\ jobs' = jobs
  BY ToldOne DEF Asks, CommandDropped, Deliver
<1> QED
  BY <1>1, AnsweredAtOnceKeeps

\* Steps that end a phase: whoever the phase or a ready job held is told, and
\* so is r, who may have asked for it.  A job nobody asked for may begin.
LEMMA PhaseOverKeeps ==
  ASSUME RequestInv, NEW r \in Req \cup {NoReq},
         r \notin asked, asked' = asked \cup Opt(r),
         pending' = (pending \cup Opt(r))
                      \ (HeldBy(record) \cup Opt(r) \cup Asking(ReadyJobs)),
         jobs \ ReadyJobs \subseteq jobs',
         \A j \in jobs' : j \in jobs \ ReadyJobs \/ j.req = NoReq,
         record' = Idle, purges' = purges
  PROVE  RequestInv'
<1> USE DEF RequestInv
<1>1. Asking(jobs') = Asking(jobs \ ReadyJobs)
  BY DEF Asking
<1>2. Asking(jobs') = Asking(jobs) \ Asking(ReadyJobs) /\ Asking(purges') = Asking(purges)
  BY <1>1, UnreadyHeld
<1>3. HeldBy(record') = {}
  BY DEF HeldBy, Idle
<1>4. Opt(r) \subseteq Req /\ Opt(r) \cap asked = {}
  BY OptFacts DEF Opt
<1>5. Asking(ReadyJobs) \cap Asking(purges) = {} /\ Asking(ReadyJobs) \subseteq Asking(jobs)
  BY UnreadyHeld DEF HeldOnce
<1>6. PendingIsHeld'
  <2>1. pending = HeldBy(record) \cup Asking(jobs) \cup Asking(purges)
    BY DEF PendingIsHeld, HeldByJobs
  <2>2. HeldBy(record) \cap (Asking(jobs) \cup Asking(purges)) = {}
    BY DEF HeldOnce, HeldByJobs
  <2>3. pending' = (Asking(jobs) \ Asking(ReadyJobs)) \cup Asking(purges)
    BY <1>4, <1>5, <2>1, <2>2 DEF RequestsTyped
  <2> QED
    BY <1>2, <1>3, <2>3 DEF PendingIsHeld, HeldByJobs
<1>7. RequestsTyped'
  <2>1. asked' \subseteq Req /\ pending' \subseteq asked'
    BY <1>4 DEF RequestsTyped
  <2>2. \A j \in jobs' \cup purges' : j.req \in Req \cup {NoReq}
    BY DEF RequestsTyped
  <2>3. RecordTyped'
    <3>1. Idle \in [ name : PhaseName, take : {Idle.take}, over : {Idle.over},
                     remaining : {Idle.remaining}, timer : {Idle.timer},
                     startReq : Req \cup {NoReq}, wait : BOOLEAN, waiters : SUBSET Req,
                     stopReqs : SUBSET Req, discard : BOOLEAN,
                     discardReq : Req \cup {NoReq}, cancelled : BOOLEAN ]
      BY DEF Idle, PhaseName
    <3> QED
      BY <3>1 DEF RecordTyped
  <2> QED
    BY <2>1, <2>2, <2>3 DEF RequestsTyped
<1>8. PhaseHolds'
  BY DEF PhaseHolds, Idle
<1>9. HeldOnce'
  <2>1. HeldBy(record)' = {} /\ Asking(jobs') \cap Asking(purges') = {}
    BY <1>2, <1>3, <1>5 DEF HeldOnce
  <2>2. \A j, k \in jobs' : j.req = k.req => j = k \/ j.req = NoReq
    BY DEF HeldOnce
  <2> QED
    BY <2>1, <2>2 DEF HeldOnce
<1> QED
  BY <1>6, <1>7, <1>8, <1>9

\* Steps that go on with the phase: those in X are told and let go of, and r,
\* who may have asked for the step, is held.
LEMMA PhaseGoesOnKeeps ==
  ASSUME RequestInv, NEW r \in Req \cup {NoReq}, NEW X,
         r \notin asked, asked' = asked \cup Opt(r),
         X \subseteq HeldBy(record),
         HeldBy(record)' = (HeldBy(record) \ X) \cup Opt(r),
         pending' = (pending \cup Opt(r)) \ X,
         jobs' = jobs, purges' = purges,
         RecordTyped', PhaseHolds'
  PROVE  RequestInv'
<1> USE DEF RequestInv
<1>1. Opt(r) \subseteq Req /\ Opt(r) \cap asked = {}
  BY OptFacts DEF Opt
<1>2. HeldByJobs' = HeldByJobs /\ Asking(jobs)' = Asking(jobs) /\ Asking(purges)' = Asking(purges)
  BY DEF HeldByJobs, Asking
<1>3. pending = HeldBy(record) \cup HeldByJobs /\ HeldBy(record) \cap HeldByJobs = {}
  BY DEF PendingIsHeld, HeldOnce
<1>4. pending \subseteq asked /\ asked \subseteq Req
  BY DEF RequestsTyped
<1>5. PendingIsHeld'
  BY <1>1, <1>2, <1>3, <1>4 DEF PendingIsHeld
<1>6. HeldOnce'
  BY <1>1, <1>2, <1>3, <1>4 DEF HeldOnce
<1>7. RequestsTyped'
  BY <1>1, <1>4 DEF RequestsTyped
<1> QED
  BY <1>5, <1>6, <1>7

\* What the letters of a take that ends broken and of a countdown that ends
\* reach: everybody the phase holds.
LEMMA EndCountdownKeeps ==
  ASSUME RequestInv, NEW r \in Req \cup {NoReq}, NEW word, NEW cancels, NEW mail, NEW waiting,
         r \notin asked, asked' = asked \cup Opt(r), waiting = pending \cup Opt(r),
         Told(mail) = Opt(r), record.name = "countdown", purges' = purges,
         EndCountdown(waiting, mail, word, cancels)
  PROVE  RequestInv'
<1> DEFINE T == Told(mail \cup ReadyLetters \cup {Letter(Opt(record.startReq), word, NoTake)})
<1>1. T = Opt(r) \cup Asking(ReadyJobs) \cup Opt(record.startReq)
  <2>1. T = Told(mail) \cup Told(ReadyLetters) \cup Told({Letter(Opt(record.startReq), word, NoTake)})
    BY ToldCup3
  <2> QED
    BY <2>1, ToldOne, ToldReady
<1>2. HeldBy(record) = Opt(record.startReq)
  BY DEF RequestInv, PhaseHolds, HeldBy, Opt
<1>3. T = HeldBy(record) \cup Opt(r) \cup Asking(ReadyJobs)
  BY <1>1, <1>2
<1>4. pending' = (pending \cup Opt(r)) \ T /\ record' = Idle /\ jobs' = jobs \ ReadyJobs
  BY DEF EndCountdown, Deliver, KeepUnready
<1> HIDE DEF T
<1> QED
  BY <1>3, <1>4, PhaseOverKeeps

LEMMA HeldParts ==
  ASSUME RequestInv
  PROVE  HeldBy(record) = Opt(record.startReq) \cup record.waiters
                            \cup record.stopReqs \cup Opt(record.discardReq)
<1>1. record.waiters \subseteq Req /\ record.stopReqs \subseteq Req
  BY DEF RequestInv, RequestsTyped, RecordTyped
<1>2. NoReq \notin record.waiters /\ NoReq \notin record.stopReqs
  BY <1>1, RecordAssumptions
<1> QED
  BY <1>2 DEF HeldBy, Opt

\* Who hears that a take ended broken: everybody the phase holds.
LEMMA ToldFour ==
  ASSUME NEW a, NEW b, NEW c, NEW d
  PROVE  Told({a, b, c, d}) = a.to \cup b.to \cup c.to \cup d.to
BY DEF Told

LEMMA ToldTwo ==
  ASSUME NEW a, NEW b
  PROVE  Told({a, b}) = a.to \cup b.to
BY DEF Told

LEMMA EndBrokenKeeps ==
  ASSUME RequestInv, NEW p, NEW word, EndBroken(p, word), asked' = asked, purges' = purges
  PROVE  RequestInv'
<1> DEFINE L1 == Letter(Opt(record.startReq), word, record.take)
           L2 == Letter(record.waiters, IF record.name = "recording" THEN word ELSE "broken",
                        record.take)
           L3 == Letter(record.stopReqs, "broken", record.take)
           L4 == Letter(Opt(record.discardReq), "notPlaced", record.take)
           mail == {L1, L2, L3, L4}
<1>1. /\ pending' = pending \ Told(mail \cup ReadyLetters)
      /\ record' = Idle /\ jobs' = jobs \ ReadyJobs
  BY DEF EndBroken, Deliver, KeepUnready
<1>2. Told(mail) = HeldBy(record)
  <2>1. L1.to = Opt(record.startReq) /\ L2.to = record.waiters
        /\ L3.to = record.stopReqs /\ L4.to = Opt(record.discardReq)
    BY DEF Letter
  <2>2. Told(mail) = L1.to \cup L2.to \cup L3.to \cup L4.to
    <3> HIDE DEF L1, L2, L3, L4
    <3> QED
      BY ToldFour
  <2>3. Told(mail) = Opt(record.startReq) \cup record.waiters
                       \cup record.stopReqs \cup Opt(record.discardReq)
    <3> HIDE DEF mail, L1, L2, L3, L4
    <3> QED
      BY <2>1, <2>2, Zenon
  <2> QED
    BY <2>3, HeldParts
<1>3. Told(mail \cup ReadyLetters) = HeldBy(record) \cup Asking(ReadyJobs)
  <2> HIDE DEF mail
  <2> QED
    BY <1>2, ToldCup, ToldReady
<1>4. pending' = (pending \cup Opt(NoReq))
                   \ (HeldBy(record) \cup Opt(NoReq) \cup Asking(ReadyJobs))
  BY <1>1, <1>3 DEF Opt
<1>5. NoReq \notin asked /\ asked' = asked \cup Opt(NoReq)
  BY RecordAssumptions DEF RequestInv, RequestsTyped, Opt
<1> QED
  BY <1>1, <1>4, <1>5, PhaseOverKeeps

\* The end of a take that was finalized, whatever its letters say.
LEMMA FinalizedKeeps ==
  ASSUME RequestInv, record.name = "finalizing",
         NEW a, NEW b, a.to = record.stopReqs \cup record.waiters, b.to = Opt(record.discardReq),
         pending' = pending \ Told(ReadyLetters \cup {a, b}),
         jobs \ ReadyJobs \subseteq jobs',
         \A j \in jobs' : j \in jobs \ ReadyJobs \/ j.req = NoReq,
         record' = Idle, asked' = asked, purges' = purges
  PROVE  RequestInv'
<1>1. Told({a, b}) = HeldBy(record)
  <2>1. record.waiters \subseteq Req /\ record.stopReqs \subseteq Req /\ record.startReq = NoReq
    BY DEF RequestInv, RequestsTyped, RecordTyped, PhaseHolds
  <2> QED
    BY <2>1, ToldTwo, RecordAssumptions DEF HeldBy, Opt
<1>2. Told(ReadyLetters \cup {a, b}) = HeldBy(record) \cup Asking(ReadyJobs)
  BY <1>1, ToldCup, ToldReady
<1>3. pending' = (pending \cup Opt(NoReq))
                   \ (HeldBy(record) \cup Opt(NoReq) \cup Asking(ReadyJobs))
  BY <1>2 DEF Opt
<1>4. NoReq \notin asked /\ asked' = asked \cup Opt(NoReq)
  BY RecordAssumptions DEF RequestInv, RequestsTyped, Opt
<1> QED
  BY <1>3, <1>4, PhaseOverKeeps

LEMMA FinalizeProbedKeeps ==
  ASSUME RequestInv, FinalizeProbed, asked' = asked, purges' = purges
  PROVE  RequestInv'
<1>1. record.name = "finalizing"
  BY DEF FinalizeProbed
<1>2. CASE EndUnprobed(record.take)
  <2> DEFINE a == Letter(record.stopReqs \cup record.waiters, "unprobed", record.take)
             b == Letter(Opt(record.discardReq), "notPlaced", record.take)
  <2>1. a.to = record.stopReqs \cup record.waiters /\ b.to = Opt(record.discardReq)
    BY DEF Letter
  <2>2. pending' = pending \ Told(ReadyLetters \cup {a, b}) /\ record' = Idle
        /\ jobs' = jobs \ ReadyJobs
    BY <1>2 DEF EndUnprobed, Deliver, KeepUnready
  <2> HIDE DEF a, b
  <2> QED
    BY <1>1, <2>1, <2>2, FinalizedKeeps
<1>3. CASE EndBroken(project, "captureFailed")
  BY <1>3, EndBrokenKeeps
<1>4. ASSUME NEW frames \in Lengths, FinalizeTake(record.take, frames) PROVE RequestInv'
  <2>1. PICK a, b : /\ a.to = record.stopReqs \cup record.waiters /\ b.to = Opt(record.discardReq)
                    /\ pending' = pending \ Told(ReadyLetters \cup {a, b})
    BY <1>4 DEF FinalizeTake, Deliver, Letter
  <2>2. record' = Idle
    BY <1>4 DEF FinalizeTake
  <2>3. /\ jobs \ ReadyJobs \subseteq jobs'
        /\ \A j \in jobs' : j \in jobs \ ReadyJobs \/ j.req = NoReq
    BY <1>4 DEF FinalizeTake, AutoRunAfter, KeepUnready, NewJob
  <2> QED
    BY <1>1, <2>1, <2>2, <2>3, FinalizedKeeps
<1> QED
  BY <1>2, <1>3, <1>4 DEF FinalizeProbed

----------------------------------------------------------------------------
(* Steps inside a phase and from one phase to the next.                    *)

\* Those told that a take started as it is stopped: its start request.
LEMMA ToldOfTheStop ==
  Told(StopLetters) = IF record.name = "starting" /\ ~record.wait
                      THEN Opt(record.startReq) ELSE {}
BY ToldOne, ToldNobody DEF StopLetters

LEMMA StopsCaptureKeeps ==
  ASSUME RequestInv, NEW r \in Req \cup {NoReq}, NEW cancel \in BOOLEAN, NEW rest,
         r \notin asked, asked' = asked \cup Opt(r), Capturing,
         StopsCapture(r, cancel, rest),
         pending' = (pending \cup Opt(r)) \ Told(StopLetters),
         jobs' = jobs, purges' = purges
  PROVE  RequestInv'
<1> DEFINE X == Told(StopLetters)
           W == IF record.name = "recording" THEN record.waiters
                ELSE IF record.wait THEN Opt(record.startReq) ELSE {}
<1>1. record.name \in {"starting", "recording"}
  BY DEF Capturing
<1>2. record' = Finalizing(record.take, record.over, W, Opt(r), cancel)
  BY DEF StopsCapture
<1>3. /\ record.startReq \in Req \cup {NoReq} /\ record.waiters \subseteq Req
      /\ record.stopReqs = {} /\ record.discardReq = NoReq
      /\ record.name = "recording" => record.startReq = NoReq
      /\ record.name = "starting" => record.waiters = {}
  BY <1>1 DEF RequestInv, RequestsTyped, RecordTyped, PhaseHolds
<1>4. W \subseteq Req /\ Opt(r) \subseteq Req
  BY <1>3, OptFacts
<1>5. HeldBy(record) = Opt(record.startReq) \cup record.waiters
  BY <1>3, HeldParts DEF Opt
<1>6. X \subseteq HeldBy(record) /\ W = HeldBy(record) \ X
  <2>1. CASE record.name = "recording"
    BY <1>3, <1>5, <2>1, ToldOfTheStop DEF Opt
  <2>2. CASE record.name = "starting"
    BY <1>3, <1>5, <2>2, ToldOfTheStop
  <2> QED
    BY <1>1, <2>1, <2>2
<1>7. /\ record'.name = "finalizing" /\ record'.startReq = NoReq /\ record'.waiters = W
      /\ record'.stopReqs = Opt(r) /\ record'.discardReq = NoReq /\ ~record'.discard
  BY <1>2 DEF Finalizing, Idle
<1>8. HeldBy(record)' = W \cup Opt(r)
  BY <1>4, <1>7, RecordAssumptions DEF HeldBy
<1>9. RecordTyped'
  <2> HIDE DEF W
  <2> QED
    BY <1>2, <1>4, ZenonT(60) DEF RecordTyped, Finalizing, Idle, PhaseName
<1>10. PhaseHolds'
  BY <1>7 DEF PhaseHolds
<1> HIDE DEF X, W
<1>11. HeldBy(record)' = (HeldBy(record) \ X) \cup Opt(r)
  BY <1>6, <1>8
<1>12. pending' = (pending \cup Opt(r)) \ X
  BY DEF X
<1> QED
  BY <1>6, <1>9, <1>10, <1>11, <1>12, PhaseGoesOnKeeps

LEMMA CaptureStartedKeeps ==
  ASSUME RequestInv, CaptureStarted, asked' = asked, purges' = purges
  PROVE  RequestInv'
<1> DEFINE X == Told(StopLetters)
           W == IF record.wait THEN Opt(record.startReq) ELSE {}
<1>1. record.name = "starting" /\ record' = RecordingTake(record.take, record.over, W)
      /\ pending' = pending \ X /\ jobs' = jobs
  BY DEF CaptureStarted, Deliver
<1>2. /\ record.startReq \in Req \cup {NoReq} /\ record.waiters = {}
      /\ record.stopReqs = {} /\ record.discardReq = NoReq
  BY <1>1 DEF RequestInv, RequestsTyped, RecordTyped, PhaseHolds
<1>3. HeldBy(record) = Opt(record.startReq)
  BY <1>2, HeldParts DEF Opt
<1>4. X \subseteq HeldBy(record) /\ W = HeldBy(record) \ X /\ W \subseteq Req
  BY <1>1, <1>2, <1>3, ToldOfTheStop, OptFacts
<1>5. /\ record'.name = "recording" /\ record'.startReq = NoReq /\ record'.waiters = W
      /\ record'.stopReqs = {} /\ record'.discardReq = NoReq /\ ~record'.discard
  BY <1>1 DEF RecordingTake, Idle
<1>6. HeldBy(record)' = W
  BY <1>4, <1>5, RecordAssumptions DEF HeldBy
<1>7. RecordTyped'
  <2> HIDE DEF W
  <2> QED
    BY <1>1, <1>4, ZenonT(60) DEF RecordTyped, RecordingTake, Idle, PhaseName
<1>8. PhaseHolds'
  BY <1>5 DEF PhaseHolds
<1>9. NoReq \notin asked /\ asked' = asked \cup Opt(NoReq)
  BY RecordAssumptions DEF RequestInv, RequestsTyped, Opt
<1> HIDE DEF X, W
<1>10. HeldBy(record)' = (HeldBy(record) \ X) \cup Opt(NoReq)
  BY <1>4, <1>6 DEF Opt
<1>11. pending' = (pending \cup Opt(NoReq)) \ X
  BY <1>1 DEF Opt
<1> QED
  BY <1>1, <1>4, <1>7, <1>8, <1>9, <1>10, <1>11, PhaseGoesOnKeeps

\* A phase that holds one request more, or just goes on.
LEMMA HoldsMoreKeeps ==
  ASSUME RequestInv, NEW r \in Req \cup {NoReq}, r \notin asked, asked' = asked \cup Opt(r),
         HeldBy(record)' = HeldBy(record) \cup Opt(r), pending' = pending \cup Opt(r),
         jobs' = jobs, purges' = purges, RecordTyped', PhaseHolds'
  PROVE  RequestInv'
<1> DEFINE X == {}
<1>1. /\ HeldBy(record)' = (HeldBy(record) \ X) \cup Opt(r)
      /\ pending' = (pending \cup Opt(r)) \ X
      /\ X \subseteq HeldBy(record)
  OBVIOUS
<1> HIDE DEF X
<1> QED
  BY <1>1, PhaseGoesOnKeeps

\* Steps of nobody: those that are not of a request.
LEMMA Nobody ==
  ASSUME RequestInv
  PROVE  NoReq \notin asked /\ Opt(NoReq) = {} /\ \A S : S \cup Opt(NoReq) = S
BY RecordAssumptions DEF RequestInv, RequestsTyped, Opt

\* A start: the request is held by the countdown or the take.
LEMMA PhaseBeginsKeeps ==
  ASSUME RequestInv, IsIdle, NEW r \in Req, r \notin asked, asked' = asked \cup Opt(r),
         NEW wait \in BOOLEAN, NEW name \in {"countdown", "starting"},
         NEW t, NEW over, NEW remaining, NEW timer,
         record' = [Idle EXCEPT !.name = name, !.take = t, !.remaining = remaining,
                      !.timer = timer, !.over = over, !.startReq = r, !.wait = wait],
         pending' = pending \cup {r}, jobs' = jobs, purges' = purges
  PROVE  RequestInv'
<1>1. Opt(r) = {r} /\ r # NoReq
  BY RecordAssumptions DEF Opt
<1>2. HeldBy(record) = {}
  <2>1. /\ record.startReq = NoReq /\ record.waiters = {}
        /\ record.stopReqs = {} /\ record.discardReq = NoReq
    BY DEF RequestInv, PhaseHolds, IsIdle
  <2> QED
    BY <2>1 DEF HeldBy
<1>3. /\ record'.name = name /\ record'.startReq = r /\ record'.waiters = {}
      /\ record'.stopReqs = {} /\ record'.discardReq = NoReq /\ ~record'.discard
  BY DEF Idle
<1>4. HeldBy(record)' = {r}
  BY <1>1, <1>3 DEF HeldBy
<1>5. RecordTyped'
  BY ZenonT(60) DEF RecordTyped, Idle, PhaseName
<1>6. PhaseHolds'
  BY <1>3 DEF PhaseHolds
<1> QED
  BY <1>1, <1>2, <1>4, <1>5, <1>6, HoldsMoreKeeps

----------------------------------------------------------------------------
(* The requests.                                                           *)

LEMMA RecordStartKeeps ==
  ASSUME RequestInv, NEW r \in Req, NEW ids, NEW secs, NEW wait \in BOOLEAN,
         RecordStart(r, ids, secs, wait)
  PROVE  RequestInv'
<1> DEFINE over == {c \in ToSet(project.clips) : c.id \in ids}
<1>1. /\ IsIdle /\ Asks(r) /\ r \notin asked /\ asked' = asked \cup Opt(r)
      /\ purges' = purges /\ Start(secs, over, r, wait)
  BY DEF RecordStart, Asks, Elsewhere
<1> HIDE DEF over
<1>2. CASE StartCountdown(secs, over, r, wait) /\ pending' = pending \cup {r} /\ jobs' = jobs
  <2>1. record' = [Idle EXCEPT !.name = "countdown", !.take = Idle.take, !.remaining = secs,
                     !.timer = nextTimer, !.over = over, !.startReq = r, !.wait = wait]
    BY <1>2, ZenonT(60) DEF StartCountdown, Countdown, Idle
  <2> QED
    BY <1>1, <1>2, <2>1, PhaseBeginsKeeps
<1>3. ASSUME NEW saved \in BOOLEAN, BeginTake(over, r, wait, saved, inbox),
             pending' = pending \cup {r}, jobs' = jobs
      PROVE  RequestInv'
  <2>1. record' = [Idle EXCEPT !.name = "starting", !.take = NextTakeNumber,
                     !.remaining = Idle.remaining, !.timer = Idle.timer, !.over = over,
                     !.startReq = r, !.wait = wait]
    BY <1>3, ZenonT(60) DEF BeginTake, Starting, Idle
  <2> QED
    BY <1>1, <1>3, <2>1, PhaseBeginsKeeps
<1>4. CASE DropBegin(r)
  BY <1>1, <1>4, DroppedKeeps DEF DropBegin
<1> QED
  BY <1>1, <1>2, <1>3, <1>4 DEF Start

LEMMA RefuseStartKeeps ==
  ASSUME RequestInv, NEW r \in Req, NEW ids, NEW secs, RefuseStart(r, ids, secs)
  PROVE  RequestInv'
BY RefuseKeeps DEF RefuseStart

LEMMA CancelCountdownKeeps ==
  ASSUME RequestInv, NEW r \in Req \cup {NoReq}, CancelCountdown(r)
  PROVE  RequestInv'
<1>1. /\ record.name = "countdown" /\ Asks(r) /\ purges' = purges
      /\ r \notin asked /\ asked' = asked \cup Opt(r)
  BY DEF CancelCountdown, Asks, Elsewhere
<1>2. CASE EndCountdown(pending \cup Opt(r),
                        {Letter(Opt(r), "countdownCancelled", NoTake)}, "countdownEnded", TRUE)
  BY <1>1, <1>2, ToldOne, EndCountdownKeeps
<1>3. CASE CommandDropped(r, ReadyCuts(project))
  BY <1>1, <1>3, DroppedKeeps
<1> QED
  BY <1>2, <1>3 DEF CancelCountdown

LEMMA StopRecordingKeeps ==
  ASSUME RequestInv, NEW r \in Req \cup {NoReq}, NEW cancel \in BOOLEAN,
         StopRecording(r, cancel)
  PROVE  RequestInv'
<1>1. /\ Capturing /\ r \notin asked /\ asked' = asked \cup Opt(r)
      /\ StopsCapture(r, cancel, inbox)
      /\ pending' = (pending \cup Opt(r)) \ Told(StopLetters)
      /\ jobs' = jobs /\ purges' = purges
  BY DEF StopRecording, Asks, Deliver, Elsewhere
<1> QED
  BY <1>1, StopsCaptureKeeps

LEMMA JoinStopKeeps ==
  ASSUME RequestInv, NEW r \in Req \cup {NoReq}, JoinStop(r)
  PROVE  RequestInv'
<1>1. /\ record.name = "finalizing" /\ r \notin asked /\ asked' = asked \cup Opt(r)
      /\ record' = [record EXCEPT !.stopReqs = @ \cup Opt(r)]
      /\ pending' = pending \cup Opt(r) /\ jobs' = jobs /\ purges' = purges
  BY DEF JoinStop, Asks
<1>2. Opt(r) \subseteq Req /\ NoReq \notin Opt(r)
  BY OptFacts, RecordAssumptions
<1>3. RecordTyped' /\ PhaseHolds'
  BY <1>1, <1>2 DEF RequestInv, RequestsTyped, RecordTyped, PhaseHolds
<1>4. HeldBy(record)' = HeldBy(record) \cup Opt(r)
  BY <1>1, <1>2 DEF RequestInv, RequestsTyped, RecordTyped, HeldBy
<1> QED
  BY <1>1, <1>3, <1>4, HoldsMoreKeeps

LEMMA TakeDiscardLastKeeps ==
  ASSUME RequestInv, NEW r \in Req, TakeDiscardLast(r)
  PROVE  RequestInv'
<1>1. Opt(r) = {r}
  BY RecordAssumptions DEF Opt
<1>2. CASE IsIdle /\ CanDiscard(project) /\ Asks(r)
           /\ \E saved \in BOOLEAN :
                /\ Write(Discarded(project), saved)
                /\ Deliver(pending \cup {r}, {Letter({r}, "discarded", NoTake)}, saved)
           /\ UNCHANGED <<cmds, inbox, record, jobs, timerVars>> /\ Elsewhere
  <2>1. /\ r \notin asked /\ asked' = asked \cup Opt(r)
        /\ pending' = (pending \cup Opt(r)) \ Opt(r)
        /\ record' = record /\ jobs' = jobs /\ purges' = purges
    BY <1>1, <1>2, ToldOne DEF Asks, Deliver, Elsewhere
  <2> QED
    BY <2>1, AnsweredAtOnceKeeps
<1>3. CASE Asks(r) /\ CommandDropped(r, Discarded(project)) /\ Elsewhere
  BY <1>3, DroppedKeeps DEF Elsewhere
<1>4. CASE /\ record.name = "finalizing" /\ ~record.discard /\ Asks(r)
           /\ record' = [record EXCEPT !.discard = TRUE, !.discardReq = r]
           /\ pending' = pending \cup {r}
           /\ jobs' = jobs /\ purges' = purges
  <2>1. RecordTyped' /\ PhaseHolds'
    BY <1>4 DEF RequestInv, RequestsTyped, RecordTyped, PhaseHolds
  <2>2. HeldBy(record)' = HeldBy(record) \cup Opt(r)
    <3>1. record.discardReq = NoReq
      BY <1>4 DEF RequestInv, PhaseHolds
    <3>2. /\ record'.discardReq = r /\ record'.startReq = record.startReq
          /\ record'.waiters = record.waiters /\ record'.stopReqs = record.stopReqs
      BY <1>4 DEF RequestInv, RequestsTyped, RecordTyped
    <3> QED
      BY <1>1, <3>1, <3>2, RecordAssumptions DEF HeldBy
  <2>3. r \notin asked /\ asked' = asked \cup Opt(r)
    BY <1>4 DEF Asks
  <2> QED
    BY <1>1, <1>4, <2>1, <2>2, <2>3, HoldsMoreKeeps
<1>5. CASE Refuse(r, "refused")
  BY <1>5, RefuseKeeps
<1> QED
  BY <1>2, <1>3, <1>4, <1>5 DEF TakeDiscardLast

LEMMA AutocutKeeps ==
  ASSUME RequestInv, NEW r \in Req, NEW clip, Autocut(r, clip)
  PROVE  RequestInv'
<1> DEFINE new == NewJob(clip, r)
<1>1. /\ r \notin asked /\ asked' = asked \cup {r} /\ pending' = pending \cup {r}
      /\ jobs' = jobs \cup {new} /\ record' = record /\ purges' = purges
      /\ r # NoReq /\ new.req = r
  BY RecordAssumptions DEF Autocut, Asks, Opt, NewJob
<1> HIDE DEF new
<1>2. Asking(jobs)' = Asking(jobs) \cup {r}
  BY <1>1 DEF Asking
<1>3. HeldBy(record)' = HeldBy(record) /\ Asking(purges)' = Asking(purges)
  BY <1>1
<1>4. r \notin HeldBy(record) /\ r \notin Asking(jobs) /\ r \notin Asking(purges)
  BY <1>1 DEF RequestInv, RequestsTyped, PendingIsHeld, HeldByJobs
<1>5. \A j \in jobs : j.req # r
  BY <1>1, <1>4 DEF Asking
<1>6. HeldOnce'
  BY <1>1, <1>2, <1>3, <1>4, <1>5 DEF RequestInv, HeldOnce, HeldByJobs
<1>7. PendingIsHeld'
  BY <1>1, <1>2, <1>3 DEF RequestInv, PendingIsHeld, HeldByJobs
<1>8. RequestsTyped' /\ PhaseHolds'
  BY <1>1 DEF RequestInv, RequestsTyped, RecordTyped, PhaseHolds
<1> QED
  BY <1>6, <1>7, <1>8 DEF RequestInv

LEMMA TakePurgeKeeps ==
  ASSUME RequestInv, NEW r \in Req, NEW t, TakePurge(r, t)
  PROVE  RequestInv'
<1> DEFINE new == [take |-> t, req |-> r]
<1>1. /\ r \notin asked /\ asked' = asked \cup {r} /\ r # NoReq /\ Opt(r) = {r}
      /\ r \notin asked /\ asked' = asked \cup Opt(r) /\ Asks(r)
  BY RecordAssumptions DEF TakePurge, Asks, Opt
<1>2. CASE /\ purges' = purges \cup {new} /\ pending' = pending \cup {r}
           /\ record' = record /\ jobs' = jobs
  <2>a. new.req = r
    OBVIOUS
  <2> HIDE DEF new
  <2>1. Asking(purges)' = Asking(purges) \cup {r}
    BY <1>1, <1>2, <2>a DEF Asking
  <2>2. HeldBy(record)' = HeldBy(record) /\ Asking(jobs)' = Asking(jobs)
    BY <1>2
  <2>3. r \notin HeldBy(record) /\ r \notin Asking(jobs) /\ r \notin Asking(purges)
    BY <1>1 DEF RequestInv, RequestsTyped, PendingIsHeld, HeldByJobs
  <2>4. \A p \in purges : p.req # r
    BY <1>1, <2>3 DEF Asking
  <2>5. HeldOnce'
    BY <1>1, <1>2, <2>a, <2>1, <2>2, <2>3, <2>4 DEF RequestInv, HeldOnce, HeldByJobs
  <2>6. PendingIsHeld'
    BY <1>2, <2>1, <2>2 DEF RequestInv, PendingIsHeld, HeldByJobs
  <2>7. RequestsTyped' /\ PhaseHolds'
    BY <1>1, <1>2, <2>a DEF RequestInv, RequestsTyped, RecordTyped, PhaseHolds
  <2> QED
    BY <2>5, <2>6, <2>7 DEF RequestInv
<1>3. CASE /\ Deliver(pending \cup {r}, {Letter({r}, "purgeFailed", NoTake)}, TRUE)
           /\ UNCHANGED <<cmds, inbox, record, jobs, timerVars, purges>>
  <2>1. pending' = (pending \cup Opt(r)) \ Opt(r)
    BY <1>1, <1>3, ToldOne DEF Deliver
  <2> QED
    BY <1>1, <1>3, <2>1, AnsweredAtOnceKeeps
<1>4. CASE CommandDropped(r, RemoveTake(project, t)) /\ purges' = purges
  BY <1>1, <1>4, DroppedKeeps
<1> QED
  BY <1>2, <1>3, <1>4 DEF TakePurge

LEMMA RequestKeeps == RequestInv /\ Request => RequestInv'
<1> SUFFICES ASSUME RequestInv, Request PROVE RequestInv'
  OBVIOUS
<1>1. ASSUME NEW r \in Req, NEW ids \in OverChoices, NEW secs \in Countdowns, NEW wait \in BOOLEAN,
             RecordStart(r, ids, secs, wait) \/ RefuseStart(r, ids, secs)
      PROVE  RequestInv'
  BY <1>1, RecordStartKeeps, RefuseStartKeeps
<1>2. ASSUME NEW r \in Req, NEW secs \in Countdowns, NEW wait \in BOOLEAN,
             RecordToggle(r, secs, wait)
      PROVE  RequestInv'
  BY <1>2, RecordStartKeeps, RefuseStartKeeps, CancelCountdownKeeps, StopRecordingKeeps,
     RefuseKeeps DEF RecordToggle
<1>3. ASSUME NEW r \in Req, RecordCancel(r) PROVE RequestInv'
  BY <1>3, RefuseKeeps, CancelCountdownKeeps, StopRecordingKeeps DEF RecordCancel
<1>4. ASSUME NEW r \in Req, TakeDiscardLast(r) PROVE RequestInv'
  BY <1>4, TakeDiscardLastKeeps
<1>5. ASSUME NEW r \in Req \cup {NoReq}, RecordStop(r) PROVE RequestInv'
  BY <1>5, RefuseKeeps, CancelCountdownKeeps, StopRecordingKeeps, JoinStopKeeps DEF RecordStop
<1>6. ASSUME NEW r \in Req, NEW c \in ToSet(project.clips), Autocut(r, c) PROVE RequestInv'
  BY <1>6, AutocutKeeps
<1>7. ASSUME NEW r \in Req, NEW t \in Take, TakePurge(r, t) PROVE RequestInv'
  BY <1>7, TakePurgeKeeps
<1>8. CASE Export
  BY <1>8, UntouchedKeeps DEF Export, RequestsUntouched, reqVars
<1> QED
  BY <1>1, <1>2, <1>3, <1>4, <1>5, <1>6, <1>7, <1>8 DEF Request

----------------------------------------------------------------------------
(* The events.                                                             *)

LEMMA TimerFiredKeeps ==
  ASSUME RequestInv, TimerFired, asked' = asked, purges' = purges
  PROVE  RequestInv'
<1>1. /\ record.name = "countdown" /\ record.waiters = {}
      /\ record.stopReqs = {} /\ record.discardReq = NoReq /\ ~record.discard
      /\ NoReq \notin asked /\ asked' = asked \cup Opt(NoReq) /\ Opt(NoReq) = {}
  BY Nobody DEF TimerFired, RequestInv, PhaseHolds
<1>2. CASE /\ record' = [record EXCEPT !.remaining = @ - 1, !.timer = nextTimer]
           /\ jobs' = jobs /\ pending' = pending
  <2>1. RecordTyped' /\ PhaseHolds'
    BY <1>2 DEF RequestInv, RequestsTyped, RecordTyped, PhaseHolds
  <2>2. HeldBy(record)' = HeldBy(record)
    BY <1>2 DEF RequestInv, RequestsTyped, RecordTyped, HeldBy
  <2>3. HeldBy(record)' = HeldBy(record) \cup Opt(NoReq) /\ pending' = pending \cup Opt(NoReq)
    BY <1>1, <1>2, <2>2
  <2> QED
    BY <1>1, <1>2, <2>1, <2>3, HoldsMoreKeeps
<1>3. ASSUME NEW saved \in BOOLEAN,
             BeginTake(record.over, record.startReq, record.wait, saved, Rest),
             jobs' = jobs, pending' = pending
      PROVE  RequestInv'
  <2>1. record' = Starting(NextTakeNumber, record.over, record.startReq, record.wait)
    BY <1>3 DEF BeginTake
  <2>2. /\ record'.name = "starting" /\ record'.startReq = record.startReq
        /\ record'.waiters = {} /\ record'.stopReqs = {} /\ record'.discardReq = NoReq
        /\ ~record'.discard
    BY <2>1 DEF Starting, Idle
  <2>3. HeldBy(record)' = HeldBy(record) \cup Opt(NoReq) /\ pending' = pending \cup Opt(NoReq)
    BY <1>1, <1>3, <2>2 DEF HeldBy
  <2>4. record.startReq \in Req \cup {NoReq} /\ record.wait \in BOOLEAN
    BY DEF RequestInv, RequestsTyped, RecordTyped
  <2>5. RecordTyped'
    BY <2>1, <2>4, ZenonT(60) DEF RecordTyped, Starting, Idle, PhaseName
  <2>6. PhaseHolds'
    BY <2>2 DEF PhaseHolds
  <2> QED
    BY <1>1, <1>3, <2>3, <2>5, <2>6, HoldsMoreKeeps
<1>4. CASE EndCountdown(pending, {}, WhyNotBegin, FALSE)
  BY <1>1, <1>4, ToldNobody, EndCountdownKeeps
<1> QED
  BY <1>2, <1>3, <1>4 DEF TimerFired

LEMMA StreamLostKeeps ==
  ASSUME RequestInv, StreamLost, asked' = asked, purges' = purges
  PROVE  RequestInv'
<1>1. jobs' = jobs /\ NoReq \notin asked /\ asked' = asked \cup Opt(NoReq) /\ Opt(NoReq) = {}
  BY Nobody DEF StreamLost
<1>2. CASE Capturing /\ StopsCapture(NoReq, FALSE, Rest) /\ pending' = pending \ Told(StopLetters)
  <2>1. pending' = (pending \cup Opt(NoReq)) \ Told(StopLetters)
    BY <1>1, <1>2
  <2> QED
    BY <1>1, <1>2, <2>1, StopsCaptureKeeps
<1>3. CASE record' = record /\ pending' = pending
  BY <1>1, <1>3, UntouchedKeeps DEF RequestsUntouched
<1> QED
  BY <1>2, <1>3 DEF StreamLost, Deliver

LEMMA EngineWedgedKeeps ==
  ASSUME RequestInv, EngineWedged, asked' = asked, purges' = purges
  PROVE  RequestInv'
<1>1. CASE record' = record /\ jobs' = jobs /\ pending' = pending
  BY <1>1, UntouchedKeeps DEF RequestsUntouched
<1>2. CASE record.name = "countdown" /\ EndCountdown(pending, {}, "engineWedged", TRUE)
  BY <1>2, Nobody, ToldNobody, EndCountdownKeeps
<1>3. CASE EndBroken(project, "engineWedged")
  BY <1>3, EndBrokenKeeps
<1> QED
  BY <1>1, <1>2, <1>3 DEF EngineWedged

LEMMA HandleEventKeeps == RequestInv /\ HandleEvent => RequestInv'
<1> SUFFICES ASSUME RequestInv, HandleEvent PROVE RequestInv'
  OBVIOUS
<1>1. asked' = asked /\ purges' = purges
  BY DEF HandleEvent
<1>2. CASE CaptureStopped \/ RecoverProbed \/ Ignore
  BY <1>1, <1>2, UntouchedKeeps DEF CaptureStopped, RecoverProbed, Ignore, RequestsUntouched
<1>3. CASE CaptureFailed \/ CaptureTimedOut
  BY <1>1, <1>3, EndBrokenKeeps DEF CaptureFailed, CaptureTimedOut
<1> QED
  BY <1>1, <1>2, <1>3, TimerFiredKeeps, CaptureStartedKeeps, StreamLostKeeps, EngineWedgedKeeps,
     FinalizeProbedKeeps DEF HandleEvent

----------------------------------------------------------------------------
(* Everything else.                                                        *)

LEMMA SilenceDetectedKeeps ==
  ASSUME RequestInv, NEW job \in jobs, NEW cuts \in BOOLEAN, SilenceDetected(job, cuts)
  PROVE  RequestInv'
<1> USE DEF RequestInv
<1>1. /\ record' = record /\ purges' = purges /\ asked' = asked
      /\ job.req \in Req \cup {NoReq} /\ ~job.ready
  BY DEF SilenceDetected, RequestsTyped
<1>2. RecordTyped' /\ PhaseHolds' /\ HeldBy(record)' = HeldBy(record)
      /\ Asking(purges)' = Asking(purges)
  BY <1>1 DEF RequestsTyped, RecordTyped, PhaseHolds
<1>3. ASSUME jobs' = (jobs \ {job}) \cup {Analyzed(job, cuts)}, pending' = pending
      PROVE  RequestInv'
  <2> DEFINE known == Analyzed(job, cuts)
  <2>a. known.req = job.req
    BY DEF Analyzed
  <2>b. jobs' = (jobs \ {job}) \cup {known}
    BY <1>3
  <2> HIDE DEF known
  <2>1. Asking(jobs)' = Asking(jobs)
    BY <1>3, <2>a, <2>b DEF Asking
  <2>2. RequestsTyped'
    BY <1>1, <1>2, <1>3, <2>a, <2>b DEF RequestsTyped
  <2>3. PendingIsHeld'
    BY <1>2, <1>3, <2>1 DEF PendingIsHeld, HeldByJobs
  <2>4. \A j, k \in jobs' : j.req = k.req => j = k \/ j.req = NoReq
    BY <1>3, <2>a, <2>b DEF HeldOnce
  <2>5. HeldOnce'
    BY <1>1, <1>2, <2>1, <2>4 DEF HeldOnce, HeldByJobs
  <2> QED
    BY <1>2, <2>2, <2>3, <2>5
<1>4. ASSUME pending' = pending \ Told(ReadyLetters \cup {Letter(Opt(job.req), "autocutDone", NoTake)}),
             jobs' = jobs \ (ReadyJobs \cup {job})
      PROVE  RequestInv'
  <2>1. pending' = pending \ (Asking(ReadyJobs) \cup Opt(job.req))
    <3> DEFINE mail == {Letter(Opt(job.req), "autocutDone", NoTake)}
    <3>1. Told(mail) = Opt(job.req)
      BY ToldOne
    <3>2. pending' = pending \ Told(ReadyLetters \cup mail)
      BY <1>4
    <3> HIDE DEF mail
    <3> QED
      BY <3>1, <3>2, ToldCup, ToldReady
  <2>2. Asking(jobs') = Asking(jobs) \ (Asking(ReadyJobs) \cup Opt(job.req))
    BY <1>4 DEF Asking, Opt, ReadyJobs, HeldOnce
  <2>3. Asking(ReadyJobs) \cup Opt(job.req) \subseteq Asking(jobs)
    BY DEF Asking, Opt, ReadyJobs
  <2>4. Asking(jobs) \cap (HeldBy(record) \cup Asking(purges)) = {}
    BY DEF HeldOnce, HeldByJobs
  <2>5. PendingIsHeld'
    BY <1>2, <2>1, <2>2, <2>3, <2>4 DEF PendingIsHeld, HeldByJobs
  <2>6. RequestsTyped'
    BY <1>1, <1>2, <1>4, <2>1 DEF RequestsTyped
  <2>7. HeldOnce'
    BY <1>1, <1>2, <1>4, <2>2 DEF HeldOnce, HeldByJobs
  <2> QED
    BY <1>2, <2>5, <2>6, <2>7
<1> QED
  BY <1>3, <1>4 DEF SilenceDetected, Deliver

LEMMA PurgeReturnsKeeps ==
  ASSUME RequestInv, NEW p \in purges, PurgeReturns(p)
  PROVE  RequestInv'
<1> USE DEF RequestInv
<1>1. /\ record' = record /\ jobs' = jobs /\ asked' = asked /\ purges' = purges \ {p}
      /\ pending' = pending \ Opt(p.req)
  BY ToldOne DEF PurgeReturns, Deliver
<1>2. RecordTyped' /\ PhaseHolds' /\ HeldBy(record)' = HeldBy(record)
      /\ Asking(jobs)' = Asking(jobs)
  BY <1>1 DEF RequestsTyped, RecordTyped, PhaseHolds
<1>3. Asking(purges') = Asking(purges) \ Opt(p.req) /\ Opt(p.req) \subseteq Asking(purges)
  BY <1>1 DEF Asking, Opt, HeldOnce
<1>4. Asking(purges) \cap (HeldBy(record) \cup Asking(jobs)) = {}
  BY DEF HeldOnce, HeldByJobs
<1>5. PendingIsHeld'
  BY <1>1, <1>2, <1>3, <1>4 DEF PendingIsHeld, HeldByJobs
<1>6. RequestsTyped'
  BY <1>1, <1>2 DEF RequestsTyped
<1>7. HeldOnce'
  BY <1>1, <1>2, <1>3 DEF HeldOnce, HeldByJobs
<1> QED
  BY <1>2, <1>5, <1>6, <1>7

\* A host that just started holds nothing.
LEMMA FreshHolds ==
  ASSUME record' = Idle, jobs' = {}, purges' = {}, pending' = {}, asked' \subseteq Req
  PROVE  RequestInv'
<1>1. HeldBy(record)' = {} /\ HeldByJobs' = {} /\ Asking(jobs)' = {}
  BY DEF HeldBy, HeldByJobs, Asking, Idle
<1>2. RecordTyped'
  <2>1. Idle \in [ name : PhaseName, take : {Idle.take}, over : {Idle.over},
                   remaining : {Idle.remaining}, timer : {Idle.timer},
                   startReq : Req \cup {NoReq}, wait : BOOLEAN, waiters : SUBSET Req,
                   stopReqs : SUBSET Req, discard : BOOLEAN,
                   discardReq : Req \cup {NoReq}, cancelled : BOOLEAN ]
    BY DEF Idle, PhaseName
  <2> QED
    BY <2>1 DEF RecordTyped
<1>3. PhaseHolds'
  BY DEF PhaseHolds, Idle
<1> QED
  BY <1>1, <1>2, <1>3 DEF RequestInv, RequestsTyped, HeldOnce, PendingIsHeld

LEMMA NextRequestInv == RequestInv /\ [Next]_vars => RequestInv'
<1> SUFFICES ASSUME RequestInv, [Next]_vars PROVE RequestInv'
  OBVIOUS
<1>1. CASE Request
  BY <1>1, RequestKeeps
<1>2. CASE HandleEvent
  BY <1>2, HandleEventKeeps
<1>3. CASE Engine
  BY <1>3, UntouchedKeeps DEF Engine, RequestsUntouched, hostVars, reqVars
<1>4. CASE ExternalEdit
  BY <1>4, UntouchedKeeps DEF ExternalEdit, RequestsUntouched, hostVars, reqVars
<1>5. CASE HostDies
  BY <1>5, FreshHolds DEF HostDies, Opens, RequestInv, RequestsTyped
<1>6. CASE Outside
  <2>1. CASE (\E timer \in armed : TimerElapses(timer)) \/ (\E probe \in probes : ProbeReturns(probe))
             \/ ExportReturns
    BY <2>1, UntouchedKeeps DEF TimerElapses, ProbeReturns, ExportReturns, RequestsUntouched,
       hostVars, reqVars
  <2> QED
    BY <1>6, <2>1, SilenceDetectedKeeps, PurgeReturnsKeeps DEF Outside
<1>7. CASE UNCHANGED vars
  BY <1>7, UntouchedKeeps DEF RequestsUntouched, vars, hostVars, reqVars
<1> QED
  BY <1>1, <1>2, <1>3, <1>4, <1>5, <1>6, <1>7 DEF Next

LEMMA InitRequestInv == Init => RequestInv
<1> SUFFICES ASSUME Init PROVE RequestInv
  OBVIOUS
<1>1. record = Idle /\ jobs = {} /\ purges = {} /\ pending = {} /\ asked = {}
  BY DEF Init
<1>2. HeldBy(record) = {} /\ HeldByJobs = {} /\ Asking(jobs) = {}
  BY <1>1 DEF HeldBy, HeldByJobs, Asking, Idle
<1>3. RecordTyped
  <2>1. Idle \in [ name : PhaseName, take : {Idle.take}, over : {Idle.over},
                   remaining : {Idle.remaining}, timer : {Idle.timer},
                   startReq : Req \cup {NoReq}, wait : BOOLEAN, waiters : SUBSET Req,
                   stopReqs : SUBSET Req, discard : BOOLEAN,
                   discardReq : Req \cup {NoReq}, cancelled : BOOLEAN ]
    BY DEF Idle, PhaseName
  <2> QED
    BY <1>1, <2>1 DEF RecordTyped
<1>4. PhaseHolds
  BY <1>1 DEF PhaseHolds, Idle
<1> QED
  BY <1>1, <1>2, <1>3, <1>4 DEF RequestInv, RequestsTyped, HeldOnce, PendingIsHeld

\* Somebody waits for an answer exactly while the phase or a job holds their
\* request, in every interleaving of requests, events, hand edits, failing
\* saves and deaths of the host.
THEOREM NobodyIsForgotten == Spec => []PendingIsHeld
<1>1. RequestInv => PendingIsHeld
  BY DEF RequestInv
<1> QED
  BY <1>1, InitRequestInv, NextRequestInv, PTL DEF Spec

----------------------------------------------------------------------------
(* The take in flight: nothing but the end of the take itself ends or      *)
(* settles it.                                                             *)

----------------------------------------------------------------------------
(* Take numbers.                                                           *)

\* A set of takes has a largest one.
LEMMA LargestIn ==
  ASSUME NEW S \in SUBSET Take, S # {}
  PROVE  Largest(S) \in S /\ \A m \in S : m <= Largest(S)
<1> DEFINE T == {k \in Nat : MaxTake - k \in S}
<1>1. MaxTake \in Nat /\ S \subseteq 1 .. MaxTake
  BY MaxTakeAssumption DEF Take
<1>2. PICK n \in S : TRUE
  OBVIOUS
<1>3. MaxTake - n \in T
  BY <1>1
<1>4. \A x, y \in Nat : <<y, x>> \in OpToRel(<, Nat) <=> y < x
  BY DEF OpToRel
<1>5. PICK x \in T : \A y \in T : ~(<<y, x>> \in OpToRel(<, Nat))
  <2> HIDE DEF T
  <2>1. T \subseteq Nat /\ T # {}
    BY <1>3 DEF T
  <2> QED
    BY <2>1, NatLessThanWellFounded, WFMin
<1>6. \A m \in S : m <= MaxTake - x
  <2>1. TAKE m \in S
  <2>2. MaxTake - m \in T /\ MaxTake - m \in Nat
    BY <1>1
  <2>3. x \in Nat /\ ~(MaxTake - m < x)
    BY <1>4, <1>5, <2>2
  <2>4. m \in Nat
    BY <1>1
  <2> HIDE DEF T
  <2> QED
    BY <1>1, <2>2, <2>3, <2>4
<1>7. MaxTake - x \in S
  BY <1>5
<1> QED
  BY <1>6, <1>7 DEF Largest

LEMMA SuccIsTake ==
  ASSUME NEW t \in Take
  PROVE  SaturatingSucc(t) \in Take
BY MaxTakeAssumption DEF SaturatingSucc, Take

LEMMA NextIsTake ==
  ASSUME FlightInv
  PROVE  NextTakeNumber \in Take
<1>1. project.next \in Take /\ dirs \subseteq Take /\ Pool(project) \subseteq Take
  BY DEF FlightInv, Skeleton, Pool
<1>2. {project.next} \cup {SaturatingSucc(t) : t \in dirs \cup Pool(project)} \subseteq Take
  BY <1>1, SuccIsTake
<1> QED
  BY <1>2, LargestIn DEF NextTakeNumber

----------------------------------------------------------------------------
(* What the changes of a project leave alone.                              *)

LEMMA WriteKeeps ==
  ASSUME FlightInv, NEW p, NEW saved, Skeleton(p), Write(p, saved) \/ Persist(p, saved)
  PROVE  project' = p /\ Skeleton(project)' /\ Skeleton(disk)'
<1>1. project' = p /\ (disk' = p \/ disk' = disk)
  BY DEF Write, Persist
<1> QED
  BY <1>1 DEF FlightInv, Skeleton

LEMMA BegunSkeleton ==
  ASSUME NEW p, Skeleton(p), NEW t \in Take
  PROVE  /\ Skeleton(Begun(p, t))
         /\ Begun(p, t).status = [p.status EXCEPT ![t] = "recording"]
         /\ Begun(p, t).placed = [p.placed EXCEPT ![t] = FALSE]
BY SuccIsTake DEF Skeleton, Begun, Status

LEMMA BrokenSkeleton ==
  ASSUME NEW p, Skeleton(p), NEW t
  PROVE  /\ Skeleton(MarkBroken(p, t))
         /\ MarkBroken(p, t).status = [p.status EXCEPT ![t] = "broken"]
BY DEF Skeleton, MarkBroken, Status

LEMMA ReadyCutsSkeleton ==
  ASSUME NEW p, Skeleton(p)
  PROVE  /\ Skeleton(ReadyCuts(p))
         /\ ReadyCuts(p).status = p.status /\ ReadyCuts(p).placed = p.placed
BY DEF Skeleton, ReadyCuts

LEMMA DiscardedSkeleton ==
  ASSUME NEW p, Skeleton(p)
  PROVE  /\ Skeleton(Discarded(p))
         /\ Discarded(p).status = p.status /\ Discarded(p).placed = p.placed
BY DEF Skeleton, Discarded

LEMMA RemovedSkeleton ==
  ASSUME NEW p, Skeleton(p), NEW t \in Take
  PROVE  /\ Skeleton(RemoveTake(p, t))
         /\ RemoveTake(p, t).status = [p.status EXCEPT ![t] = "none"]
BY DEF Skeleton, RemoveTake, Status

LEMMA PlacedSkeleton ==
  ASSUME NEW p, Skeleton(p), NEW t \in Take, NEW frames, NEW over
  PROVE  /\ Skeleton(Place(p, t, frames, over))
         /\ Place(p, t, frames, over).status = [p.status EXCEPT ![t] = "ok"]
BY DEF Skeleton, Place, Status

\* What a hand edit merges: every take the host knows stays as it is.
LEMMA MergedSkeleton ==
  ASSUME NEW p, Skeleton(p), NEW f, Skeleton(f)
  PROVE  /\ Skeleton(Merged(p, f))
         /\ \A t \in Take : p.status[t] # "none" =>
              Merged(p, f).status[t] = p.status[t] /\ Merged(p, f).placed[t] = p.placed[t]
<1>1. Largest({p.next, f.next}) \in Take
  BY LargestIn DEF Skeleton
<1> QED
  BY <1>1 DEF Skeleton, Merged

LEMMA EditedSkeleton ==
  ASSUME NEW d, Skeleton(d), NEW f \in HandEdits(d)
  PROVE  Skeleton(f)
BY DEF Skeleton, HandEdits

----------------------------------------------------------------------------
(* The three ways a step can go.                                           *)

\* The take in flight goes on, or ends: what is recovered stays recording.
LEMMA FlightGoesOn ==
  ASSUME FlightInv,
         Skeleton(project)', Skeleton(disk)', dirs' \subseteq Take,
         record'.take \in {record.take, NoTake},
         record'.name \in {"idle", "countdown"} <=> record'.take = NoTake,
         recovering' \subseteq recovering,
         \A u \in recovering' : project'.status[u] = project.status[u],
         record'.take # NoTake =>
           /\ project'.status[record.take] = project.status[record.take]
           /\ project'.placed[record.take] = project.placed[record.take]
  PROVE  FlightInv'
BY DEF FlightInv, InFlightIsRecording, InCapture, StillRecording, Skeleton

\* A take begins.
LEMMA FlightBegins ==
  ASSUME FlightInv, record.take = NoTake, NEW t \in Take,
         project.status[t] = "none",
         Write(Begun(project, t), TRUE) \/ Write(Begun(project, t), FALSE),
         dirs' \subseteq Take, recovering' = recovering,
         record'.take = t, record'.name = "starting"
  PROVE  FlightInv'
<1>1. /\ Skeleton(Begun(project, t))
      /\ Begun(project, t).status = [project.status EXCEPT ![t] = "recording"]
      /\ Begun(project, t).placed = [project.placed EXCEPT ![t] = FALSE]
  BY BegunSkeleton DEF FlightInv
<1>2. project' = Begun(project, t) /\ Skeleton(project)' /\ Skeleton(disk)'
  BY <1>1, WriteKeeps
<1>3. t \notin recovering /\ recovering \subseteq Take /\ t # NoTake
  BY DEF FlightInv, StillRecording, Take, NoTake
<1>4. /\ project.status \in [Take -> Status] /\ project.placed \in [Take -> BOOLEAN]
      /\ \A u \in recovering : project.status[u] = "recording"
  BY DEF FlightInv, Skeleton, StillRecording
<1>5. project'.status[t] = "recording" /\ ~project'.placed[t]
      /\ \A u \in recovering : project'.status[u] = "recording"
  BY <1>1, <1>2, <1>3, <1>4
<1> QED
  BY <1>2, <1>3, <1>5 DEF FlightInv, InFlightIsRecording, InCapture, StillRecording

FlightUntouched == UNCHANGED <<project, disk, dirs, record, recovering>>

LEMMA FlightUntouchedKeeps == FlightInv /\ FlightUntouched => FlightInv'
BY DEF FlightInv, FlightUntouched, InFlightIsRecording, InCapture, StillRecording, Skeleton

----------------------------------------------------------------------------
(* Requests.                                                               *)

LEMMA IdleHasNoTake == Idle.take = NoTake /\ Idle.name = "idle"
BY DEF Idle

LEMMA CountdownEndFlight ==
  ASSUME FlightInv, NEW waiting, NEW mail, NEW word, NEW cancels,
         EndCountdown(waiting, mail, word, cancels), recovering' = recovering
  PROVE  FlightInv'
<1>1. PICK saved \in BOOLEAN : Persist(ReadyCuts(project), saved)
  BY DEF EndCountdown
<1>2. /\ Skeleton(ReadyCuts(project))
      /\ ReadyCuts(project).status = project.status
  BY ReadyCutsSkeleton DEF FlightInv
<1>3. project' = ReadyCuts(project) /\ Skeleton(project)' /\ Skeleton(disk)'
  BY <1>1, <1>2, WriteKeeps
<1>4. record' = Idle /\ dirs' = dirs
  BY DEF EndCountdown
<1> QED
  BY <1>2, <1>3, <1>4, IdleHasNoTake, FlightGoesOn DEF FlightInv

LEMMA BeginFlight ==
  ASSUME FlightInv, record.take = NoTake, NEW over, NEW r, NEW wait, NEW saved \in BOOLEAN,
         NEW rest, BeginTake(over, r, wait, saved, rest), recovering' = recovering
  PROVE  FlightInv'
<1> DEFINE t == NextTakeNumber
<1>1. t \in Take
  BY NextIsTake
<1>2. PICK folder \in BOOLEAN :
        /\ CanBegin
        /\ MakesFolder(t, folder)
        /\ Write(Begun(project, t), saved)
        /\ record' = Starting(t, over, r, wait)
  BY DEF BeginTake
<1>3. project.status[t] = "none"
  BY <1>2 DEF CanBegin
<1>4. dirs' \subseteq Take
  BY <1>1, <1>2 DEF MakesFolder, FlightInv
<1>5. record'.take = t /\ record'.name = "starting"
  BY <1>2 DEF Starting, Idle
<1> HIDE DEF t
<1> QED
  BY <1>1, <1>2, <1>3, <1>4, <1>5, FlightBegins

LEMMA StartFlight ==
  ASSUME FlightInv, IsIdle, NEW secs, NEW over, NEW r, NEW wait, Start(secs, over, r, wait),
         recovering' = recovering
  PROVE  FlightInv'
<1>1. record.take = NoTake
  BY DEF FlightInv, IsIdle
<1>2. CASE StartCountdown(secs, over, r, wait)
  <2>1. record'.take = NoTake /\ record'.name = "countdown"
        /\ UNCHANGED <<project, disk, dirs>>
    BY <1>2 DEF StartCountdown, Countdown, Idle
  <2> QED
    BY <1>1, <2>1, FlightGoesOn DEF FlightInv, Skeleton
<1>3. ASSUME NEW saved \in BOOLEAN, BeginTake(over, r, wait, saved, inbox) PROVE FlightInv'
  BY <1>1, <1>3, BeginFlight
<1>4. CASE DropBegin(r)
  <2>1. dirs' \subseteq Take
    BY <1>4, NextIsTake DEF DropBegin, FlightInv
  <2>2. UNCHANGED <<project, disk, record>>
    BY <1>4 DEF DropBegin, CommandDropped
  <2> QED
    BY <2>1, <2>2, FlightGoesOn DEF FlightInv, Skeleton
<1> QED
  BY <1>2, <1>3, <1>4 DEF Start

LEMMA CancelFlight ==
  ASSUME FlightInv, NEW r, CancelCountdown(r)
  PROVE  FlightInv'
<1>1. recovering' = recovering
  BY DEF CancelCountdown
<1>2. CASE EndCountdown(pending \cup Opt(r), {Letter(Opt(r), "countdownCancelled", NoTake)},
                        "countdownEnded", TRUE)
  BY <1>1, <1>2, CountdownEndFlight
<1>3. CASE CommandDropped(r, ReadyCuts(project)) /\ UNCHANGED dirs
  BY <1>1, <1>3, FlightUntouchedKeeps DEF CommandDropped, FlightUntouched
<1> QED
  BY <1>2, <1>3 DEF CancelCountdown

LEMMA StopFlight ==
  ASSUME FlightInv, Capturing, NEW r, NEW cancel, NEW rest, StopsCapture(r, cancel, rest),
         Skeleton(project)', Skeleton(disk)', UNCHANGED <<dirs, recovering>>,
         project'.status = project.status, project'.placed = project.placed
  PROVE  FlightInv'
<1>1. record'.name = "finalizing" /\ record'.take = record.take
  BY DEF StopsCapture, Finalizing, Idle
<1>2. record.take # NoTake
  BY DEF FlightInv, Capturing
<1> QED
  BY <1>1, <1>2, FlightGoesOn DEF FlightInv

LEMMA StopRecordingFlight ==
  ASSUME FlightInv, NEW r, NEW cancel, StopRecording(r, cancel)
  PROVE  FlightInv'
BY StopFlight DEF StopRecording, FlightInv, Skeleton

\* Joining a finalization changes who waits for it and nothing else.
LEMMA JoinFlight ==
  ASSUME FlightInv, record'.name = record.name, record'.take = record.take,
         UNCHANGED <<project, disk, dirs, recovering>>
  PROVE  FlightInv'
BY DEF FlightInv, InFlightIsRecording, InCapture, StillRecording, Skeleton

LEMMA DiscardLastFlight ==
  ASSUME FlightInv, RequestInv, NEW r, TakeDiscardLast(r)
  PROVE  FlightInv'
<1>1. recovering' = recovering /\ dirs' = dirs
  BY DEF TakeDiscardLast, Refuse, hostVars
<1>2. ASSUME NEW saved \in BOOLEAN, Write(Discarded(project), saved), record' = record
      PROVE  FlightInv'
  <2>1. /\ Skeleton(Discarded(project))
        /\ Discarded(project).status = project.status /\ Discarded(project).placed = project.placed
    BY DiscardedSkeleton DEF FlightInv
  <2>2. project' = Discarded(project) /\ Skeleton(project)' /\ Skeleton(disk)'
    BY <1>2, <2>1, WriteKeeps
  <2> QED
    BY <1>1, <1>2, <2>1, <2>2, FlightGoesOn DEF FlightInv
<1>3. CASE CommandDropped(r, Discarded(project))
  BY <1>1, <1>3, FlightUntouchedKeeps DEF CommandDropped, FlightUntouched
<1>4. CASE record' = [record EXCEPT !.discard = TRUE, !.discardReq = r] /\ UNCHANGED <<project, disk>>
  <2>1. record'.name = record.name /\ record'.take = record.take
    BY <1>4 DEF RequestInv, RequestsTyped, RecordTyped
  <2> QED
    BY <1>1, <1>4, <2>1, JoinFlight
<1>5. CASE Refuse(r, "refused")
  BY <1>5, FlightUntouchedKeeps DEF Refuse, FlightUntouched, hostVars
<1> QED
  BY <1>2, <1>3, <1>4, <1>5 DEF TakeDiscardLast

\* A take that is purged is neither in flight nor being recovered.
LEMMA TakePurgeFlight ==
  ASSUME FlightInv, NEW r, NEW t \in Take, TakePurge(r, t)
  PROVE  FlightInv'
<1>1. /\ UNCHANGED <<dirs, recovering, record>> /\ record.take = NoTake
      /\ project.status[t] # "recording"
  BY DEF TakePurge, CommandDropped, CanPurge, FlightInv, IsIdle
<1>2. ASSUME NEW saved \in BOOLEAN, Write(RemoveTake(project, t), saved)
      PROVE  FlightInv'
  <2>1. /\ Skeleton(RemoveTake(project, t))
        /\ RemoveTake(project, t).status = [project.status EXCEPT ![t] = "none"]
    BY RemovedSkeleton DEF FlightInv
  <2>2. project' = RemoveTake(project, t) /\ Skeleton(project)' /\ Skeleton(disk)'
    BY <1>2, <2>1, WriteKeeps
  <2>3. \A u \in recovering : u # t /\ u \in Take
    BY <1>1 DEF FlightInv, StillRecording
  <2>4. \A u \in recovering : project'.status[u] = project.status[u]
    BY <2>1, <2>2, <2>3 DEF FlightInv, Skeleton
  <2> QED
    BY <1>1, <2>2, <2>4, FlightGoesOn DEF FlightInv
<1>3. CASE CommandDropped(r, RemoveTake(project, t))
  BY <1>1, <1>3, FlightUntouchedKeeps DEF CommandDropped, FlightUntouched
<1> QED
  BY <1>2, <1>3 DEF TakePurge

LEMMA RequestFlight ==
  ASSUME FlightInv, RequestInv, Request
  PROVE  FlightInv'
<1>1. ASSUME NEW r, NEW word, Refuse(r, word) PROVE FlightInv'
  BY <1>1, FlightUntouchedKeeps DEF Refuse, FlightUntouched, hostVars
<1>2. ASSUME NEW r, NEW ids, NEW secs, NEW wait, RecordStart(r, ids, secs, wait) PROVE FlightInv'
  BY <1>2, StartFlight DEF RecordStart
<1>3. ASSUME NEW r, NEW ids, NEW secs, RefuseStart(r, ids, secs) PROVE FlightInv'
  BY <1>1, <1>3 DEF RefuseStart
<1>4. ASSUME NEW r, NEW secs, NEW wait, RecordToggle(r, secs, wait) PROVE FlightInv'
  BY <1>1, <1>2, <1>3, <1>4, CancelFlight, StopRecordingFlight DEF RecordToggle
<1>5. ASSUME NEW r, RecordCancel(r) PROVE FlightInv'
  BY <1>1, <1>5, CancelFlight, StopRecordingFlight DEF RecordCancel
<1>6. ASSUME NEW r, JoinStop(r) PROVE FlightInv'
  <2>1. record'.name = record.name /\ record'.take = record.take
    BY <1>6 DEF JoinStop, RequestInv, RequestsTyped, RecordTyped
  <2> QED
    BY <1>6, <2>1, JoinFlight DEF JoinStop
<1>7. ASSUME NEW r, RecordStop(r) PROVE FlightInv'
  BY <1>1, <1>6, <1>7, CancelFlight, StopRecordingFlight DEF RecordStop
<1>8. ASSUME NEW r, NEW clip, Autocut(r, clip) PROVE FlightInv'
  BY <1>8, FlightUntouchedKeeps DEF Autocut, FlightUntouched
<1>9. CASE Export
  BY <1>9, FlightUntouchedKeeps DEF Export, FlightUntouched
<1> QED
  BY <1>2, <1>3, <1>4, <1>5, <1>7, <1>8, <1>9, DiscardLastFlight, TakePurgeFlight DEF Request

----------------------------------------------------------------------------
(* Events.                                                                 *)

\* The take in flight ends: it is none of those being recovered.
LEMMA FlightEnds ==
  ASSUME FlightInv, NEW p, Skeleton(p), NEW s,
         p.status = [project.status EXCEPT ![record.take] = s],
         NEW saved \in BOOLEAN, Write(p, saved),
         record' = Idle, UNCHANGED <<dirs, recovering>>
  PROVE  FlightInv'
<1>1. project' = p /\ Skeleton(project)' /\ Skeleton(disk)'
  BY WriteKeeps
<1>2. \A u \in recovering : u # record.take /\ u \in Take
  BY DEF FlightInv, InFlightIsRecording, InCapture, StillRecording, Take, NoTake
<1>3. \A u \in recovering : project'.status[u] = project.status[u]
  BY <1>1, <1>2 DEF FlightInv, Skeleton
<1> QED
  BY <1>1, <1>3, IdleHasNoTake, FlightGoesOn DEF FlightInv

LEMMA EndBrokenFlight ==
  ASSUME FlightInv, NEW word, EndBroken(project, word), recovering' = recovering
  PROVE  FlightInv'
<1> DEFINE p == ReadyCuts(MarkBroken(project, record.take))
<1>1. /\ Skeleton(MarkBroken(project, record.take))
      /\ MarkBroken(project, record.take).status = [project.status EXCEPT ![record.take] = "broken"]
  BY BrokenSkeleton DEF FlightInv
<1>2. Skeleton(p) /\ p.status = [project.status EXCEPT ![record.take] = "broken"]
  BY <1>1, ReadyCutsSkeleton
<1>3. PICK saved \in BOOLEAN : Write(p, saved)
  BY DEF EndBroken
<1>4. record' = Idle /\ dirs' = dirs
  BY DEF EndBroken
<1> HIDE DEF p
<1> QED
  BY <1>2, <1>3, <1>4, FlightEnds

LEMMA FinalizeTakeFlight ==
  ASSUME FlightInv, record.take \in Take, NEW frames, FinalizeTake(record.take, frames),
         recovering' = recovering
  PROVE  FlightInv'
<1> DEFINE t == record.take
           verdict == IF frames < MinTakeFrames THEN "tooShort"
                      ELSE IF record.cancelled THEN "cancelled" ELSE "placed"
           facts == CASE verdict = "tooShort" -> [project EXCEPT !.status[t] = "tooShort", !.dur[t] = frames]
                      [] verdict = "cancelled" -> [project EXCEPT !.status[t] = "ok", !.dur[t] = frames]
                      [] OTHER -> Place(project, t, frames, record.over)
           drops == record.discard /\ verdict = "placed" /\ CanDiscard(facts)
           kept == IF drops THEN Discarded(facts) ELSE facts
           p == ReadyCuts(kept)
           Settles(q) == \E s : q.status = [project.status EXCEPT ![t] = s]
<1>1. Skeleton(facts) /\ Settles(facts)
  <2>1. CASE verdict = "tooShort"
    BY <2>1 DEF FlightInv, Skeleton, Status
  <2>2. CASE verdict = "cancelled"
    BY <2>2 DEF FlightInv, Skeleton, Status
  <2>3. CASE verdict = "placed"
    <3>1. facts = Place(project, t, frames, record.over)
      BY <2>3
    <3>2. /\ Skeleton(Place(project, t, frames, record.over))
          /\ Place(project, t, frames, record.over).status = [project.status EXCEPT ![t] = "ok"]
      <4> HIDE DEF facts
      <4> QED
        BY PlacedSkeleton DEF FlightInv
    <3> HIDE DEF facts, verdict
    <3> QED
      BY <3>1, <3>2
  <2> QED
    BY <2>1, <2>2, <2>3
<1>2. Skeleton(kept) /\ kept.status = facts.status
  <2> HIDE DEF facts
  <2> QED
    BY <1>1, DiscardedSkeleton
<1>3. Skeleton(p) /\ p.status = facts.status
  <2> HIDE DEF kept
  <2> QED
    BY <1>2, ReadyCutsSkeleton
<1>4. PICK saved \in BOOLEAN : Write(p, saved)
  BY DEF FinalizeTake
<1>5. record' = Idle /\ dirs' = dirs
  BY DEF FinalizeTake
<1>6. PICK s : p.status = [project.status EXCEPT ![t] = s]
  BY <1>1, <1>3
<1> HIDE DEF p, t
<1> QED
  BY <1>3, <1>4, <1>5, <1>6, FlightEnds DEF t

LEMMA FinalizeProbedFlight ==
  ASSUME FlightInv, FinalizeProbed
  PROVE  FlightInv'
<1>1. recovering' = recovering /\ record.take \in Take
  BY DEF FinalizeProbed, FlightInv
<1>2. CASE EndUnprobed(record.take)
  <2>1. PICK saved \in BOOLEAN : Persist(ReadyCuts(project), saved)
    BY <1>2 DEF EndUnprobed
  <2>2. /\ Skeleton(ReadyCuts(project))
        /\ ReadyCuts(project).status = project.status
    BY ReadyCutsSkeleton DEF FlightInv
  <2>3. project' = ReadyCuts(project) /\ Skeleton(project)' /\ Skeleton(disk)'
    BY <2>1, <2>2, WriteKeeps
  <2>4. record' = Idle /\ dirs' = dirs
    BY <1>2 DEF EndUnprobed
  <2> QED
    BY <1>1, <2>2, <2>3, <2>4, IdleHasNoTake, FlightGoesOn DEF FlightInv
<1>3. CASE EndBroken(project, "captureFailed")
  BY <1>1, <1>3, EndBrokenFlight
<1>4. ASSUME NEW frames, FinalizeTake(record.take, frames) PROVE FlightInv'
  BY <1>1, <1>4, FinalizeTakeFlight
<1> QED
  BY <1>2, <1>3, <1>4 DEF FinalizeProbed

\* The take in flight is none that a recovery probe may settle.
LEMMA RecoverProbedFlight ==
  ASSUME FlightInv, RecoverProbed
  PROVE  FlightInv'
<1> DEFINE t == Head(inbox).take
<1>1. UNCHANGED <<record, dirs>> /\ recovering' = recovering \ {t}
  BY DEF RecoverProbed
<1>2. CASE UNCHANGED <<project, disk>>
  BY <1>1, <1>2 DEF FlightInv, InFlightIsRecording, InCapture, StillRecording, Skeleton
<1>3. ASSUME NEW p, Skeleton(p), NEW s, p.status = [project.status EXCEPT ![t] = s],
             NEW placed, p.placed = placed,
             InCapture => placed[record.take] = project.placed[record.take],
             NEW saved \in BOOLEAN, Write(p, saved), record.take # t
      PROVE  FlightInv'
  <2>1. project' = p /\ Skeleton(project)' /\ Skeleton(disk)'
    BY <1>3, WriteKeeps
  <2>2. /\ recovering' \subseteq Take
        /\ project.status \in [Take -> Status]
    BY <1>1 DEF FlightInv, StillRecording, Skeleton
  <2>3. \A u \in recovering' : project'.status[u] = project.status[u]
    BY <1>1, <1>3, <2>1, <2>2
  <2>4. record.take # NoTake =>
          /\ project'.status[record.take] = project.status[record.take]
          /\ project'.placed[record.take] = project.placed[record.take]
    BY <1>3, <2>1, <2>2 DEF FlightInv, InCapture
  <2> HIDE DEF t
  <2> QED
    BY <1>1, <2>1, <2>3, <2>4, FlightGoesOn DEF FlightInv
<1>4. ASSUME NEW saved \in BOOLEAN, Write(MarkBroken(project, t), saved), record.take # t
      PROVE  FlightInv'
  <2> DEFINE p == MarkBroken(project, t)
  <2>1. Skeleton(p) /\ p.status = [project.status EXCEPT ![t] = "broken"]
    BY BrokenSkeleton DEF FlightInv
  <2>2. p.placed = [project.placed EXCEPT ![t] = FALSE]
    BY DEF MarkBroken, FlightInv, Skeleton
  <2>3. InCapture => p.placed[record.take] = project.placed[record.take]
    BY <1>4, <2>2 DEF FlightInv, Skeleton, InCapture
  <2> HIDE DEF p, t
  <2> QED
    BY <1>3, <1>4, <2>1, <2>3 DEF p
<1>5. ASSUME NEW saved \in BOOLEAN, NEW frames, NEW s \in {"tooShort", "ok"},
             Write([project EXCEPT !.dur[t] = frames, !.status[t] = s], saved), record.take # t
      PROVE  FlightInv'
  <2> DEFINE p == [project EXCEPT !.dur[t] = frames, !.status[t] = s]
  <2>1. Skeleton(p) /\ p.status = [project.status EXCEPT ![t] = s] /\ p.placed = project.placed
    BY DEF FlightInv, Skeleton, Status
  <2> HIDE DEF p, t
  <2> QED
    BY <1>3, <1>5, <2>1 DEF p
<1> HIDE DEF t
<1> QED
  BY <1>2, <1>4, <1>5 DEF RecoverProbed, t

\* A source lost in the take in flight.
LEMMA StreamLostFlight ==
  ASSUME FlightInv, StreamLost
  PROVE  FlightInv'
<1> DEFINE t == Head(inbox).take
           p == SetMissing(project, t, Head(inbox).stream)
<1>1. PICK saved \in BOOLEAN :
        /\ Write(p, saved)
        /\ \/ Capturing /\ StopsCapture(NoReq, FALSE, Rest)
           \/ record' = record
  BY DEF StreamLost
<1>2. Skeleton(p) /\ p.status = project.status /\ p.placed = project.placed
  BY DEF FlightInv, Skeleton, SetMissing
<1>3. UNCHANGED <<dirs, recovering>>
  BY DEF StreamLost
<1> HIDE DEF p
<1>4. project' = p /\ Skeleton(project)' /\ Skeleton(disk)'
  BY <1>1, <1>2, WriteKeeps
<1>5. CASE Capturing /\ StopsCapture(NoReq, FALSE, Rest)
  BY <1>2, <1>3, <1>4, <1>5, StopFlight
<1>6. CASE record' = record
  BY <1>2, <1>3, <1>4, <1>6, FlightGoesOn DEF FlightInv
<1> QED
  BY <1>1, <1>5, <1>6

LEMMA SavedAgain ==
  ASSUME FlightInv, NEW saved \in BOOLEAN, Write(project, saved)
  PROVE  project' = project /\ Skeleton(project)' /\ Skeleton(disk)'
BY DEF Write, FlightInv, Skeleton

LEMMA TimerFiredFlight ==
  ASSUME FlightInv, RequestInv, TimerFired
  PROVE  FlightInv'
<1>1. recovering' = recovering /\ record.name = "countdown" /\ record.take = NoTake
  BY DEF TimerFired, FlightInv
<1>2. CASE /\ record' = [record EXCEPT !.remaining = @ - 1, !.timer = nextTimer]
           /\ UNCHANGED <<project, disk, dirs>>
  <2>1. record'.name = record.name /\ record'.take = record.take
    BY <1>2 DEF RequestInv, RequestsTyped, RecordTyped
  <2> QED
    BY <1>1, <1>2, <2>1, JoinFlight
<1>3. ASSUME NEW saved \in BOOLEAN,
             BeginTake(record.over, record.startReq, record.wait, saved, Rest)
      PROVE  FlightInv'
  BY <1>1, <1>3, BeginFlight
<1>4. CASE EndCountdown(pending, {}, WhyNotBegin, FALSE)
  BY <1>1, <1>4, CountdownEndFlight
<1> QED
  BY <1>2, <1>3, <1>4 DEF TimerFired

LEMMA EventFlight ==
  ASSUME FlightInv, RequestInv, HandleEvent
  PROVE  FlightInv'
<1>1. CASE CaptureStarted
  <2>1. PICK saved \in BOOLEAN : Write(project, saved)
    BY <1>1 DEF CaptureStarted
  <2>2. record.name = "starting" /\ record'.name = "recording" /\ record'.take = record.take
        /\ UNCHANGED <<dirs, recovering>>
    BY <1>1 DEF CaptureStarted, RecordingTake, Idle
  <2> QED
    BY <2>1, <2>2, SavedAgain, FlightGoesOn DEF FlightInv
<1>2. CASE CaptureFailed
  BY <1>2, EndBrokenFlight DEF CaptureFailed
<1>3. CASE CaptureTimedOut
  BY <1>3, EndBrokenFlight DEF CaptureTimedOut
<1>4. CASE CaptureStopped
  <2>1. PICK saved \in BOOLEAN : Write(project, saved)
    BY <1>4 DEF CaptureStopped
  <2>2. UNCHANGED <<record, dirs, recovering>>
    BY <1>4 DEF CaptureStopped
  <2> QED
    BY <2>1, <2>2, SavedAgain, FlightGoesOn DEF FlightInv
<1>5. CASE EngineWedged
  <2>1. recovering' = recovering
    BY <1>5 DEF EngineWedged
  <2>2. CASE UNCHANGED <<project, disk, dirs, record>>
    BY <2>1, <2>2, FlightUntouchedKeeps DEF FlightUntouched
  <2>3. CASE EndCountdown(pending, {}, "engineWedged", TRUE)
    BY <2>1, <2>3, CountdownEndFlight
  <2>4. CASE EndBroken(project, "engineWedged")
    BY <2>1, <2>4, EndBrokenFlight
  <2> QED
    BY <1>5, <2>2, <2>3, <2>4 DEF EngineWedged
<1>6. CASE Ignore
  BY <1>6, FlightUntouchedKeeps DEF Ignore, FlightUntouched
<1> QED
  BY <1>1, <1>2, <1>3, <1>4, <1>5, <1>6, TimerFiredFlight, StreamLostFlight,
     FinalizeProbedFlight, RecoverProbedFlight DEF HandleEvent

----------------------------------------------------------------------------
(* Everything else.                                                        *)

LEMMA SilenceFlight ==
  ASSUME FlightInv, NEW job, NEW cuts, SilenceDetected(job, cuts)
  PROVE  FlightInv'
<1>1. UNCHANGED <<record, dirs, recovering>>
  BY DEF SilenceDetected
<1>2. CASE UNCHANGED <<project, disk>>
  BY <1>1, <1>2, FlightUntouchedKeeps DEF FlightUntouched
<1>3. ASSUME NEW saved \in BOOLEAN, NEW clips, Persist([project EXCEPT !.clips = clips], saved)
      PROVE  FlightInv'
  <2> DEFINE p == [project EXCEPT !.clips = clips]
  <2>1. Skeleton(p) /\ p.status = project.status /\ p.placed = project.placed
    BY DEF FlightInv, Skeleton
  <2>2. Persist(p, saved)
    BY <1>3
  <2> HIDE DEF p
  <2>3. project' = p /\ Skeleton(project)' /\ Skeleton(disk)'
    BY <2>1, <2>2, WriteKeeps
  <2> QED
    BY <1>1, <2>1, <2>3, FlightGoesOn DEF FlightInv
<1> QED
  BY <1>2, <1>3 DEF SilenceDetected

LEMMA EditFlight ==
  ASSUME FlightInv, ExternalEdit
  PROVE  FlightInv'
<1>1. PICK f \in HandEdits(disk) :
        /\ project' = Merged(project, f)
        /\ disk' = Merged(project, f) \/ disk' = f
  BY DEF ExternalEdit
<1>2. UNCHANGED <<record, dirs, recovering>>
  BY DEF ExternalEdit, hostVars
<1>3. Skeleton(f) /\ Skeleton(Merged(project, f))
      /\ \A t \in Take : project.status[t] # "none" =>
           /\ Merged(project, f).status[t] = project.status[t]
           /\ Merged(project, f).placed[t] = project.placed[t]
  BY EditedSkeleton, MergedSkeleton DEF FlightInv
<1>4. Skeleton(project)' /\ Skeleton(disk)'
  BY <1>1, <1>3 DEF Skeleton
<1>5. /\ \A u \in recovering : u \in Take /\ project.status[u] = "recording"
      /\ record.take # NoTake => record.take \in Take /\ project.status[record.take] = "recording"
  BY DEF FlightInv, StillRecording, InFlightIsRecording, InCapture
<1> QED
  BY <1>1, <1>2, <1>3, <1>4, <1>5, FlightGoesOn DEF FlightInv

LEMMA DeathFlight ==
  ASSUME FlightInv, HostDies
  PROVE  FlightInv'
<1>1. /\ project' = disk /\ disk' = disk /\ dirs' = dirs /\ record' = Idle
      /\ recovering' = StillRecording(disk)
  BY DEF HostDies, Opens
<1>2. Skeleton(project)' /\ Skeleton(disk)'
  BY <1>1 DEF FlightInv, Skeleton
<1>3. recovering' \subseteq StillRecording(project)'
  BY <1>1 DEF StillRecording
<1> QED
  BY <1>1, <1>2, <1>3, IdleHasNoTake DEF FlightInv, InFlightIsRecording, InCapture

LEMMA NextFlightInv == FlightInv /\ RequestInv /\ [Next]_vars => FlightInv'
<1> SUFFICES ASSUME FlightInv, RequestInv, [Next]_vars PROVE FlightInv'
  OBVIOUS
<1>1. CASE Engine
  BY <1>1, FlightUntouchedKeeps DEF Engine, FlightUntouched, hostVars
<1>2. CASE Outside
  <2>1. ASSUME NEW p \in purges, PurgeReturns(p) PROVE FlightInv'
    <3>1. dirs' \subseteq dirs /\ UNCHANGED <<project, disk, record, recovering>>
      BY <2>1 DEF PurgeReturns
    <3> QED
      BY <3>1 DEF FlightInv, InFlightIsRecording, InCapture, StillRecording, Skeleton
  <2>2. CASE (\E timer \in armed : TimerElapses(timer)) \/ (\E probe \in probes : ProbeReturns(probe))
             \/ ExportReturns
    BY <2>2, FlightUntouchedKeeps DEF TimerElapses, ProbeReturns, ExportReturns, FlightUntouched,
       hostVars
  <2> QED
    BY <1>2, <2>1, <2>2, SilenceFlight DEF Outside
<1>3. CASE UNCHANGED vars
  BY <1>3, FlightUntouchedKeeps DEF FlightUntouched, vars, hostVars
<1> QED
  BY <1>1, <1>2, <1>3, RequestFlight, EventFlight, EditFlight, DeathFlight DEF Next

LEMMA InitFlightInv == Init => FlightInv
<1> SUFFICES ASSUME Init PROVE FlightInv
  OBVIOUS
<1>1. /\ project \in Project /\ disk = project /\ dirs = Pool(project) /\ record = Idle
      /\ recovering = StillRecording(project)
  BY ProjectAssumption DEF Init
<1>2. Skeleton(project) /\ Skeleton(disk)
  BY <1>1 DEF Project, Skeleton
<1> QED
  BY <1>1, <1>2, IdleHasNoTake DEF FlightInv, InFlightIsRecording, InCapture, Pool

\* The take being captured stays recording, off the timeline and out of every
\* recovery's reach, whatever events of other takes, hand edits, failing saves
\* and deaths of the host come in between.
THEOREM InFlightStaysRecording == Spec => []InFlightIsRecording
<1>1. FlightInv => InFlightIsRecording
  BY DEF FlightInv
<1> QED
  BY <1>1, InitFlightInv, NextFlightInv, InitRequestInv, NextRequestInv, PTL DEF Spec

----------------------------------------------------------------------------
(* Autocuts that wait.                                                     *)

\* Nothing gets ready while idle, and no phase ends in a step that keeps what is.
LEMMA NoneGetsReady ==
  ASSUME NoReadyJobWhileIdle, jobs' = jobs, record'.name = "idle" => record.name = "idle"
  PROVE  NoReadyJobWhileIdle'
BY DEF NoReadyJobWhileIdle, ReadyJobs, IsIdle

LEMMA ReadyGo ==
  ASSUME KeepUnready
  PROVE  NoReadyJobWhileIdle'
BY DEF NoReadyJobWhileIdle, ReadyJobs, KeepUnready

LEMMA StartReady ==
  ASSUME NoReadyJobWhileIdle, NEW secs, NEW over, NEW r, NEW wait, Start(secs, over, r, wait)
  PROVE  NoReadyJobWhileIdle'
<1>1. jobs' = jobs
  BY DEF Start, DropBegin, CommandDropped
<1>2. record' = record \/ record'.name \in {"countdown", "starting"}
  BY DEF Start, StartCountdown, BeginTake, DropBegin, CommandDropped, Countdown, Starting, Idle
<1> QED
  BY <1>1, <1>2, NoneGetsReady

LEMMA RequestReady ==
  ASSUME NoReadyJobWhileIdle, RequestInv, Request
  PROVE  NoReadyJobWhileIdle'
<1>1. ASSUME NEW r, NEW word, Refuse(r, word) PROVE NoReadyJobWhileIdle'
  BY <1>1, NoneGetsReady DEF Refuse, hostVars
<1>2. ASSUME NEW r, NEW ids, NEW secs, NEW wait, RecordStart(r, ids, secs, wait)
      PROVE  NoReadyJobWhileIdle'
  BY <1>2, StartReady DEF RecordStart
<1>3. ASSUME NEW r, NEW ids, NEW secs, RefuseStart(r, ids, secs) PROVE NoReadyJobWhileIdle'
  BY <1>1, <1>3 DEF RefuseStart
<1>4. ASSUME NEW r, CancelCountdown(r) PROVE NoReadyJobWhileIdle'
  BY <1>4, ReadyGo, NoneGetsReady DEF CancelCountdown, EndCountdown, CommandDropped
<1>5. ASSUME NEW r, NEW cancel, StopRecording(r, cancel) PROVE NoReadyJobWhileIdle'
  BY <1>5, NoneGetsReady DEF StopRecording, StopsCapture, Finalizing, Idle
<1>6. ASSUME NEW r, JoinStop(r) PROVE NoReadyJobWhileIdle'
  BY <1>6, NoneGetsReady DEF JoinStop, RequestInv, RequestsTyped, RecordTyped
<1>7. ASSUME NEW r, TakeDiscardLast(r) PROVE NoReadyJobWhileIdle'
  BY <1>1, <1>7, NoneGetsReady DEF TakeDiscardLast, CommandDropped, RequestInv, RequestsTyped,
     RecordTyped
<1>8. ASSUME NEW r, NEW clip, Autocut(r, clip) PROVE NoReadyJobWhileIdle'
  BY <1>8 DEF Autocut, NewJob, NoReadyJobWhileIdle, ReadyJobs, IsIdle
<1>9. ASSUME NEW r, NEW t, TakePurge(r, t) PROVE NoReadyJobWhileIdle'
  BY <1>9, NoneGetsReady DEF TakePurge, CommandDropped
<1>10. CASE Export
  BY <1>10, NoneGetsReady DEF Export
<1>11. ASSUME NEW r, RecordStop(r) PROVE NoReadyJobWhileIdle'
  BY <1>1, <1>4, <1>5, <1>6, <1>11 DEF RecordStop
<1>12. ASSUME NEW r, RecordCancel(r) PROVE NoReadyJobWhileIdle'
  BY <1>1, <1>4, <1>5, <1>12 DEF RecordCancel
<1>13. ASSUME NEW r, NEW secs, NEW wait, RecordToggle(r, secs, wait) PROVE NoReadyJobWhileIdle'
  BY <1>1, <1>2, <1>3, <1>4, <1>5, <1>13 DEF RecordToggle
<1> QED
  BY <1>2, <1>3, <1>7, <1>8, <1>9, <1>10, <1>11, <1>12, <1>13 DEF Request

\* The automatic autocut of a take that was placed starts like any other.
LEMMA FinalizeTakeReady ==
  ASSUME NEW t, NEW frames, FinalizeTake(t, frames)
  PROVE  NoReadyJobWhileIdle'
<1>1. ASSUME NEW p, AutoRunAfter(p, t) PROVE NoReadyJobWhileIdle'
  <2>1. ASSUME NEW c, jobs' = (jobs \ ReadyJobs) \cup {NewJob(c, NoReq)}
        PROVE  NoReadyJobWhileIdle'
    BY <2>1 DEF NewJob, NoReadyJobWhileIdle, ReadyJobs
  <2> QED
    BY <1>1, <2>1, ReadyGo DEF AutoRunAfter
<1> QED
  BY <1>1, ReadyGo DEF FinalizeTake

LEMMA EventReady ==
  ASSUME NoReadyJobWhileIdle, RequestInv, HandleEvent
  PROVE  NoReadyJobWhileIdle'
<1>1. CASE TimerFired
  <2>1. CASE record' = [record EXCEPT !.remaining = @ - 1, !.timer = nextTimer] /\ jobs' = jobs
    BY <2>1, NoneGetsReady DEF RequestInv, RequestsTyped, RecordTyped
  <2>2. ASSUME NEW saved, jobs' = jobs,
               BeginTake(record.over, record.startReq, record.wait, saved, Rest)
        PROVE  NoReadyJobWhileIdle'
    BY <2>2, NoneGetsReady DEF BeginTake, Starting, Idle
  <2> QED
    BY <1>1, <2>1, <2>2, ReadyGo DEF TimerFired, EndCountdown
<1>2. CASE CaptureStarted
  BY <1>2, NoneGetsReady DEF CaptureStarted, RecordingTake, Idle
<1>3. CASE CaptureFailed \/ CaptureTimedOut
  BY <1>3, ReadyGo DEF CaptureFailed, CaptureTimedOut, EndBroken
<1>4. CASE StreamLost
  BY <1>4, NoneGetsReady DEF StreamLost, StopsCapture, Finalizing, Idle
<1>5. CASE CaptureStopped \/ RecoverProbed \/ Ignore
  BY <1>5, NoneGetsReady DEF CaptureStopped, RecoverProbed, Ignore
<1>6. CASE EngineWedged
  BY <1>6, ReadyGo, NoneGetsReady DEF EngineWedged, EndCountdown, EndBroken
<1>7. CASE FinalizeProbed
  BY <1>7, ReadyGo, FinalizeTakeReady DEF FinalizeProbed, EndUnprobed, EndBroken
<1> QED
  BY <1>1, <1>2, <1>3, <1>4, <1>5, <1>6, <1>7 DEF HandleEvent

LEMMA NextReady == NoReadyJobWhileIdle /\ RequestInv /\ [Next]_vars => NoReadyJobWhileIdle'
<1> SUFFICES ASSUME NoReadyJobWhileIdle, RequestInv, [Next]_vars PROVE NoReadyJobWhileIdle'
  OBVIOUS
<1>1. CASE UNCHANGED hostVars
  BY <1>1, NoneGetsReady DEF hostVars
<1>2. CASE Outside
  <2>1. ASSUME NEW job, NEW cuts, SilenceDetected(job, cuts) PROVE NoReadyJobWhileIdle'
    BY <2>1 DEF SilenceDetected, NoReadyJobWhileIdle, ReadyJobs, IsIdle
  <2>2. ASSUME NEW p, PurgeReturns(p) PROVE NoReadyJobWhileIdle'
    BY <2>2, NoneGetsReady DEF PurgeReturns
  <2>3. CASE ExportReturns
    BY <2>3, NoneGetsReady DEF ExportReturns
  <2> QED
    BY <1>1, <1>2, <2>1, <2>2, <2>3 DEF Outside, TimerElapses, ProbeReturns
<1>3. CASE HostDies
  BY <1>3 DEF HostDies, Opens, NoReadyJobWhileIdle, ReadyJobs
<1> QED
  BY <1>1, <1>2, <1>3, RequestReady, EventReady DEF Next, Engine, ExternalEdit, vars

\* An autocut that finished during a recording is applied by the step that
\* ends the recording, whichever it is: none is left when the host is idle.
THEOREM ReadyJobsAreApplied == Spec => []NoReadyJobWhileIdle
<1>1. Init => NoReadyJobWhileIdle
  BY DEF Init, NoReadyJobWhileIdle, ReadyJobs
<1> QED
  BY <1>1, NextReady, InitRequestInv, NextRequestInv, PTL DEF Spec

----------------------------------------------------------------------------
(* The timeline (ClipsInv).                                                *)

\* Clips that validate accepts on a timeline of these takes.
Fit(cs, status, dur) ==
  /\ cs \in Seq(Clip) /\ Together(cs)
  /\ \A i \in DOMAIN cs : status[cs[i].take] = "ok" /\ cs[i].out <= dur[cs[i].take]

LEMMA FitIs ==
  ASSUME NEW p
  PROVE  ClipsFit(p) <=> /\ p.dur \in [Take -> Nat] /\ p.replaced \in [Take -> Seq(Clip)]
                         /\ Fit(p.clips, p.status, p.dur)
                         /\ \A t \in Take : Together(p.replaced[t])
BY DEF ClipsFit, Fit, Together, TimelineSound, ToSet

\* Two sequences one after the other.
Joined(s, C, a, b) ==
  /\ s \in Seq(C) /\ Len(s) = Len(a) + Len(b) /\ DOMAIN s = 1 .. Len(s)
  /\ \A i \in 1 .. Len(s) : i <= Len(a) => i \in 1 .. Len(a) /\ s[i] = a[i]
  /\ \A i \in 1 .. Len(s) : ~(i <= Len(a)) => i - Len(a) \in 1 .. Len(b) /\ s[i] = b[i - Len(a)]

LEMMA ConcatIs ==
  ASSUME NEW C, NEW a \in Seq(C), NEW b \in Seq(C)
  PROVE  Joined(a \o b, C, a, b)
<1> DEFINE s == a \o b
<1>1. s \in Seq(C) /\ Len(s) = Len(a) + Len(b) /\ Len(a) \in Nat /\ Len(b) \in Nat
      /\ DOMAIN s = 1 .. Len(s)
  OBVIOUS
<1>2. \A i \in 1 .. Len(a) : s[i] = a[i]
  OBVIOUS
<1>3. \A i \in 1 .. Len(b) : s[Len(a) + i] = b[i]
  OBVIOUS
<1> HIDE DEF s
<1>4. ASSUME NEW i \in 1 .. Len(s), ~(i <= Len(a))
      PROVE  i - Len(a) \in 1 .. Len(b) /\ s[i] = b[i - Len(a)]
  <2>1. i - Len(a) \in 1 .. Len(b) /\ Len(a) + (i - Len(a)) = i
    BY <1>1, <1>4
  <2>2. QED BY <1>3, <2>1
<1>5. Joined(s, C, a, b)
  BY <1>1, <1>2, <1>4 DEF Joined
<1>6. QED BY <1>5 DEF s

\* What is between n and m gives way to b.
Spliced(s, C, a, b, n, m) ==
  /\ s \in Seq(C) /\ Len(s) \in Nat /\ DOMAIN s = 1 .. Len(s)
  /\ Len(s) = n - 1 + Len(b) + (IF m <= Len(a) THEN Len(a) - m + 1 ELSE 0)
  /\ \A i \in 1 .. Len(s) : i < n => i \in 1 .. Len(a) /\ s[i] = a[i]
  /\ \A i \in 1 .. Len(s) : n <= i /\ i < n + Len(b) =>
       i - n + 1 \in 1 .. Len(b) /\ s[i] = b[i - n + 1]
  /\ \A i \in 1 .. Len(s) : n + Len(b) <= i =>
       /\ m + i - n - Len(b) \in 1 .. Len(a) /\ m <= m + i - n - Len(b)
       /\ s[i] = a[m + i - n - Len(b)]

LEMMA SpliceIs ==
  ASSUME NEW C, NEW a \in Seq(C), NEW b \in Seq(C), NEW n \in 1 .. Len(a) + 1, NEW m \in Nat, n <= m
  PROVE  Spliced(SubSeq(a, 1, n - 1) \o b \o SubSeq(a, m, Len(a)), C, a, b, n, m)
<1> DEFINE x == SubSeq(a, 1, n - 1)
           z == SubSeq(a, m, Len(a))
           y == x \o b
           s == y \o z
<1>1. x \in Seq(C) /\ Len(x) = n - 1 /\ \A i \in 1 .. n - 1 : x[i] = a[i]
  OBVIOUS
<1>2. /\ z \in Seq(C) /\ Len(z) = (IF m <= Len(a) THEN Len(a) - m + 1 ELSE 0)
      /\ \A i \in 1 .. Len(z) : z[i] = a[m + i - 1]
  OBVIOUS
<1> HIDE DEF x, z
<1>3. /\ y \in Seq(C) /\ Len(y) = n - 1 + Len(b)
      /\ \A i \in 1 .. Len(y) : i <= n - 1 => i \in 1 .. n - 1 /\ y[i] = x[i]
      /\ \A i \in 1 .. Len(y) : ~(i <= n - 1) => i - (n - 1) \in 1 .. Len(b) /\ y[i] = b[i - (n - 1)]
  <2>1. Joined(y, C, x, b)
    BY <1>1, ConcatIs
  <2> HIDE DEF y
  <2>2. QED BY <1>1, <2>1 DEF Joined
<1> HIDE DEF y
<1>4. /\ s \in Seq(C) /\ Len(s) = Len(y) + Len(z) /\ DOMAIN s = 1 .. Len(s)
      /\ \A i \in 1 .. Len(s) : i <= Len(y) => i \in 1 .. Len(y) /\ s[i] = y[i]
      /\ \A i \in 1 .. Len(s) : ~(i <= Len(y)) => i - Len(y) \in 1 .. Len(z) /\ s[i] = z[i - Len(y)]
  <2>1. Joined(s, C, y, z)
    BY <1>2, <1>3, ConcatIs
  <2> HIDE DEF s
  <2>2. QED BY <2>1 DEF Joined
<1>5. Len(a) \in Nat /\ Len(b) \in Nat /\ Len(z) \in Nat /\ Len(y) \in Nat /\ n \in 1 .. Len(a) + 1
  BY <1>2, <1>3
<1>6. s = SubSeq(a, 1, n - 1) \o b \o SubSeq(a, m, Len(a))
  BY DEF s, x, y, z
<1> HIDE DEF s
<1>7. Len(s) \in Nat /\ Len(s) = n - 1 + Len(b) + (IF m <= Len(a) THEN Len(a) - m + 1 ELSE 0)
  <2>1. Len(s) = Len(y) + Len(z) /\ Len(y) = n - 1 + Len(b)
    BY <1>3, <1>4
  <2>2. Len(z) = (IF m <= Len(a) THEN Len(a) - m + 1 ELSE 0)
    BY <1>2
  <2>3. CASE m <= Len(a)
    <3>1. Len(z) = Len(a) - m + 1
      BY <2>2, <2>3
    <3>2. QED BY <1>5, <2>1, <2>3, <3>1
  <2>4. CASE ~(m <= Len(a))
    <3>1. Len(z) = 0
      BY <2>2, <2>4
    <3>2. QED BY <1>5, <2>1, <2>4, <3>1
  <2>5. QED BY <2>3, <2>4
<1>8. ASSUME NEW i \in 1 .. Len(s), i < n PROVE i \in 1 .. Len(a) /\ s[i] = a[i]
  <2>1. i <= Len(y) /\ i <= n - 1 /\ i \in 1 .. Len(a) /\ i \in 1 .. n - 1
    BY <1>3, <1>5, <1>8
  <2>2. s[i] = y[i] /\ y[i] = x[i] /\ x[i] = a[i]
    BY <1>1, <1>3, <1>4, <2>1
  <2>3. QED BY <2>1, <2>2
<1>9. ASSUME NEW i \in 1 .. Len(s), n <= i, i < n + Len(b)
      PROVE  i - n + 1 \in 1 .. Len(b) /\ s[i] = b[i - n + 1]
  <2>1. i <= Len(y) /\ ~(i <= n - 1) /\ i - (n - 1) = i - n + 1
    BY <1>3, <1>5, <1>9
  <2>2. s[i] = y[i] /\ i \in 1 .. Len(y)
    BY <1>4, <2>1
  <2>3. i - (n - 1) \in 1 .. Len(b) /\ y[i] = b[i - (n - 1)]
    BY <1>3, <2>1, <2>2
  <2>4. QED BY <2>1, <2>2, <2>3
<1>10. ASSUME NEW i \in 1 .. Len(s), n + Len(b) <= i
       PROVE  /\ m + i - n - Len(b) \in 1 .. Len(a) /\ m <= m + i - n - Len(b)
              /\ s[i] = a[m + i - n - Len(b)]
  <2>1. ~(i <= Len(y)) /\ i - Len(y) = i - n - Len(b) + 1
    BY <1>3, <1>5, <1>10
  <2>2. i - Len(y) \in 1 .. Len(z) /\ s[i] = z[i - Len(y)]
    BY <1>4, <2>1
  <2>3. z[i - Len(y)] = a[m + (i - Len(y)) - 1]
    BY <1>2, <2>2
  <2>4. m + (i - Len(y)) - 1 = m + i - n - Len(b)
    BY <1>5, <2>1
  <2>5. m <= Len(a)
    BY <1>2, <1>5, <2>2
  <2>6. i - Len(y) <= Len(a) - m + 1 /\ 1 <= i - Len(y)
    BY <1>2, <1>5, <2>2, <2>5
  <2>7. m + (i - Len(y)) - 1 \in 1 .. Len(a) /\ m <= m + (i - Len(y)) - 1
    BY <1>5, <2>5, <2>6
  <2>8. QED BY <2>2, <2>3, <2>4, <2>7
<1>11. Spliced(s, C, a, b, n, m)
  BY <1>4, <1>7, <1>8, <1>9, <1>10 DEF Spliced
<1>12. QED BY <1>6, <1>11

\* A timeline with other clips in it, whose ids it does not have.
LEMMA SpliceFits ==
  ASSUME NEW status, NEW dur, NEW a, NEW b, Fit(a, status, dur), Fit(b, status, dur),
         NEW n \in 1 .. Len(a) + 1, NEW m \in Nat, n <= m,
         \A i \in 1 .. Len(a), j \in 1 .. Len(b) : i < n \/ m <= i => a[i].id # b[j].id
  PROVE  Fit(SubSeq(a, 1, n - 1) \o b \o SubSeq(a, m, Len(a)), status, dur)
<1> DEFINE s == SubSeq(a, 1, n - 1) \o b \o SubSeq(a, m, Len(a))
           FromA(i) == IF i < n THEN i ELSE m + i - n - Len(b)
           InB(i) == n <= i /\ i < n + Len(b)
<1>1. /\ a \in Seq(Clip) /\ b \in Seq(Clip) /\ Len(a) \in Nat /\ Len(b) \in Nat
      /\ DOMAIN a = 1 .. Len(a) /\ DOMAIN b = 1 .. Len(b) /\ n \in Int
  BY DEF Fit
<1>2. Spliced(s, Clip, a, b, n, m)
  BY <1>1, SpliceIs
<1> HIDE DEF s
<1>0. s \in Seq(Clip) /\ Len(s) \in Nat /\ DOMAIN s = 1 .. Len(s)
  BY <1>2 DEF Spliced
<1>3. ASSUME NEW i \in 1 .. Len(s), InB(i) PROVE i - n + 1 \in 1 .. Len(b) /\ s[i] = b[i - n + 1]
  BY <1>2, <1>3 DEF Spliced
<1>4. ASSUME NEW i \in 1 .. Len(s), ~InB(i)
      PROVE  FromA(i) \in 1 .. Len(a) /\ s[i] = a[FromA(i)] /\ (FromA(i) < n \/ m <= FromA(i))
  <2>1. CASE i < n
    BY <1>2, <2>1 DEF Spliced
  <2>2. CASE n + Len(b) <= i
    <3>1. ~(i < n)
      BY <1>0, <1>1, <2>2
    <3>2. FromA(i) = m + i - n - Len(b)
      BY <3>1
    <3>3. QED BY <1>2, <2>2, <3>2 DEF Spliced
  <2>3. QED BY <1>0, <1>1, <1>4, <2>1, <2>2
<1>5. \A i \in 1 .. Len(s) : (\E j \in 1 .. Len(a) : s[i] = a[j]) \/ (\E j \in 1 .. Len(b) : s[i] = b[j])
  BY <1>3, <1>4
<1>6. ASSUME NEW i \in 1 .. Len(s), NEW j \in 1 .. Len(s), s[i].id = s[j].id PROVE i = j
  <2>1. CASE InB(i) /\ InB(j)
    <3> DEFINE k == i - n + 1
               l == j - n + 1
    <3>1. /\ k \in 1 .. Len(b) /\ s[i] = b[k]
          /\ l \in 1 .. Len(b) /\ s[j] = b[l]
      BY <1>3, <2>1
    <3>2. k = l
      <4> HIDE DEF k, l, InB
      <4>1. QED BY <1>1, <1>6, <3>1 DEF Fit, Together
    <3>3. QED BY <1>0, <1>1, <3>2
  <2>2. CASE ~InB(i) /\ ~InB(j)
    <3>1. FromA(i) = FromA(j)
      <4> HIDE DEF InB, FromA
      <4> QED BY <1>1, <1>4, <1>6, <2>2 DEF Fit, Together
    <3>2. QED BY <1>0, <1>1, <2>2, <3>1
  <2>3. CASE InB(i) /\ ~InB(j)
    <3> HIDE DEF InB, FromA
    <3> QED BY <1>3, <1>4, <1>6, <2>3
  <2>4. CASE ~InB(i) /\ InB(j)
    <3> HIDE DEF InB, FromA
    <3> QED BY <1>3, <1>4, <1>6, <2>4
  <2> HIDE DEF InB
  <2>5. QED BY <2>1, <2>2, <2>3, <2>4
<1>8. \A i \in 1 .. Len(a) : /\ 0 < a[i].out /\ (a[i].id \in Take => a[i].id = a[i].take)
                             /\ status[a[i].take] = "ok" /\ a[i].out <= dur[a[i].take]
  BY <1>1 DEF Fit, Together
<1>9. \A i \in 1 .. Len(b) : /\ 0 < b[i].out /\ (b[i].id \in Take => b[i].id = b[i].take)
                             /\ status[b[i].take] = "ok" /\ b[i].out <= dur[b[i].take]
  BY <1>1 DEF Fit, Together
<1>10. \A i \in 1 .. Len(s) : /\ 0 < s[i].out /\ (s[i].id \in Take => s[i].id = s[i].take)
                              /\ status[s[i].take] = "ok" /\ s[i].out <= dur[s[i].take]
  <2>1. TAKE i \in 1 .. Len(s)
  <2>2. CASE \E j \in 1 .. Len(a) : s[i] = a[j]
    BY <1>8, <2>2
  <2>3. CASE \E j \in 1 .. Len(b) : s[i] = b[j]
    BY <1>9, <2>3
  <2>4. QED BY <1>5, <2>2, <2>3
<1>11. Fit(s, status, dur)
  BY <1>0, <1>6, <1>10 DEF Fit, Together
<1>12. QED BY <1>11 DEF s

\* Clips that are left out, and clips that are cut, leave the others fit.
IdsOnce(cs) == \A i, j \in DOMAIN cs : cs[i].id = cs[j].id => i = j

LEMMA OnlyClips ==
  ASSUME NEW cs \in Seq(Clip), IdsOnce(cs), NEW S
  PROVE  /\ Only(cs, S) \in Seq(Clip) /\ IdsOnce(Only(cs, S))
         /\ \A i \in DOMAIN Only(cs, S) : Only(cs, S)[i] \in S /\ \E j \in DOMAIN cs : Only(cs, S)[i] = cs[j]
<1> DEFINE o == Only(cs, S)
<1>1. PICK m \in [1 .. Len(o) -> 1 .. Len(cs)] :
           /\ \A x, y \in 1 .. Len(o) : x < y => m[x] < m[y]
           /\ \A x \in 1 .. Len(o) : o[x] = cs[m[x]] /\ cs[m[x]] \in S
  BY OnlyKeepsOrder
<1>2. o \in Seq(Clip)
  BY OnlyKeepsOrder
<1> HIDE DEF o
<1>3. DOMAIN o = 1 .. Len(o) /\ DOMAIN cs = 1 .. Len(cs) /\ Len(o) \in Nat /\ Len(cs) \in Nat
  BY <1>2
<1>4. \A i \in 1 .. Len(o) : o[i] \in S /\ \E j \in 1 .. Len(cs) : o[i] = cs[j]
  BY <1>1
<1>5. ASSUME NEW x \in 1 .. Len(o), NEW y \in 1 .. Len(o), o[x].id = o[y].id PROVE x = y
  <2>1. m[x] = m[y]
    BY <1>1, <1>3, <1>5 DEF IdsOnce
  <2>2. ~(x < y) /\ ~(y < x)
    BY <1>1, <1>3, <2>1
  <2>3. QED BY <1>3, <2>2
<1>6. QED BY <1>2, <1>3, <1>4, <1>5 DEF o, IdsOnce

LEMMA OnlyTogether ==
  ASSUME NEW cs \in Seq(Clip), Together(cs), NEW S
  PROVE  Only(cs, S) \in Seq(Clip) /\ Together(Only(cs, S))
<1>1. IdsOnce(cs)
  BY DEF Together, IdsOnce
<1>2. QED BY <1>1, OnlyClips DEF Together, IdsOnce

LEMMA OnlyFits ==
  ASSUME NEW status, NEW dur, NEW cs, Fit(cs, status, dur), NEW S
  PROVE  Fit(Only(cs, S), status, dur)
<1>1. cs \in Seq(Clip) /\ Together(cs) /\ IdsOnce(cs)
  BY DEF Fit, Together, IdsOnce
<1>2. QED BY <1>1, OnlyClips, OnlyTogether DEF Fit

LEMMA CutFits ==
  ASSUME NEW status, NEW dur \in [Take -> Nat], NEW cs, Fit(cs, status, dur), NEW js
  PROVE  Fit(CutClips(cs, js), status, dur)
<1> DEFINE k == CutClips(cs, js)
<1>1. cs \in Seq(Clip) /\ DOMAIN cs = 1 .. Len(cs) /\ Len(cs) \in Nat
  BY DEF Fit
<1>2. \A i \in 1 .. Len(cs) : cs[i] \in Clip
  BY <1>1
<1>3. DOMAIN k = 1 .. Len(cs)
  BY <1>1 DEF CutClips
<1>4. ASSUME NEW i \in 1 .. Len(cs)
      PROVE  /\ k[i] \in Clip /\ k[i].id = cs[i].id /\ k[i].take = cs[i].take
             /\ 0 < k[i].out /\ k[i].out <= cs[i].out
  <2>1. cs[i] \in Clip /\ 0 < cs[i].out
    BY <1>1, <1>2 DEF Fit, Together
  <2>2. k[i] = cs[i] \/ (cs[i].out > 1 /\ k[i] = [cs[i] EXCEPT !.out = @ - 1])
    BY <1>1 DEF CutClips
  <2> HIDE DEF k
  <2>3. QED BY <2>1, <2>2 DEF Clip
<1>5. k \in Seq(Clip)
  <2>1. k = [i \in 1 .. Len(cs) |-> k[i]]
    BY <1>1 DEF CutClips
  <2> HIDE DEF k
  <2>2. QED BY <1>1, <1>4, <2>1
<1>6. \A i \in 1 .. Len(cs) : k[i].out <= dur[cs[i].take]
  <2>1. TAKE i \in 1 .. Len(cs)
  <2>2. cs[i].out <= dur[cs[i].take] /\ cs[i].out \in Nat /\ k[i].out \in Nat /\ dur[cs[i].take] \in Nat
    BY <1>1, <1>2, <1>4 DEF Fit, Clip
  <2> HIDE DEF k
  <2>3. QED BY <1>4, <2>2
<1> HIDE DEF k
<1>7. Fit(k, status, dur)
  BY <1>1, <1>3, <1>4, <1>5, <1>6 DEF Fit, Together
<1>8. QED BY <1>7 DEF k

\* A clip more at the end, and the first one gone.
LEMMA AppendFits ==
  ASSUME NEW status, NEW dur, NEW cs, Fit(cs, status, dur), NEW c \in Clip,
         \A i \in DOMAIN cs : cs[i].id # c.id,
         0 < c.out, c.id \in Take => c.id = c.take, status[c.take] = "ok", c.out <= dur[c.take]
  PROVE  Fit(Append(cs, c), status, dur)
<1> DEFINE a == Append(cs, c)
<1>1. cs \in Seq(Clip) /\ Len(cs) \in Nat /\ DOMAIN cs = 1 .. Len(cs)
  BY DEF Fit
<1>2. a \in Seq(Clip) /\ Len(a) = Len(cs) + 1 /\ DOMAIN a = 1 .. Len(a)
  BY <1>1
<1>3. \A i \in 1 .. Len(a) : (i \in 1 .. Len(cs) /\ a[i] = cs[i]) \/ (i = Len(cs) + 1 /\ a[i] = c)
  BY <1>1
<1> HIDE DEF a
<1>4. \A i, j \in 1 .. Len(a) : a[i].id = a[j].id => i = j
  BY <1>1, <1>3 DEF Fit, Together
<1>5. \A i \in 1 .. Len(a) : /\ 0 < a[i].out /\ (a[i].id \in Take => a[i].id = a[i].take)
                             /\ status[a[i].take] = "ok" /\ a[i].out <= dur[a[i].take]
  BY <1>1, <1>3 DEF Fit, Together
<1>6. QED BY <1>2, <1>4, <1>5 DEF Fit, Together, a

LEMMA TailFits ==
  ASSUME NEW status, NEW dur, NEW cs, Fit(cs, status, dur), cs # <<>>
  PROVE  /\ Fit(Tail(cs), status, dur)
         /\ \A i \in DOMAIN Tail(cs) : Tail(cs)[i].id # Head(cs).id
<1> DEFINE a == Tail(cs)
<1>1. cs \in Seq(Clip) /\ Len(cs) \in Nat /\ DOMAIN cs = 1 .. Len(cs) /\ 1 \in 1 .. Len(cs)
  BY DEF Fit
<1>2. a \in Seq(Clip) /\ DOMAIN a = 1 .. Len(cs) - 1 /\ Head(cs) = cs[1]
  BY <1>1
<1>3. \A i \in 1 .. Len(cs) - 1 : i + 1 \in 1 .. Len(cs) /\ a[i] = cs[i + 1]
  BY <1>1
<1> HIDE DEF a
<1>4. \A i, j \in 1 .. Len(cs) - 1 : a[i].id = a[j].id => i = j
  <2>1. TAKE i, j \in 1 .. Len(cs) - 1
  <2>2. a[i].id = a[j].id => i + 1 = j + 1
    BY <1>1, <1>3 DEF Fit, Together
  <2>3. QED BY <2>2
<1>5. \A i \in 1 .. Len(cs) - 1 : a[i].id # Head(cs).id
  <2>1. TAKE i \in 1 .. Len(cs) - 1
  <2>2. a[i].id = cs[1].id => i + 1 = 1
    BY <1>1, <1>3 DEF Fit, Together
  <2>3. QED BY <1>2, <2>2
<1>6. \A i \in 1 .. Len(cs) - 1 : /\ 0 < a[i].out /\ (a[i].id \in Take => a[i].id = a[i].take)
                                  /\ status[a[i].take] = "ok" /\ a[i].out <= dur[a[i].take]
  BY <1>1, <1>3 DEF Fit, Together
<1>7. Fit(a, status, dur)
  BY <1>2, <1>4, <1>6 DEF Fit, Together
<1>8. QED BY <1>2, <1>5, <1>7 DEF a

LEMMA NoneFit ==
  ASSUME NEW status, NEW dur
  PROVE  Fit(<<>>, status, dur) /\ <<>> \in Seq(Clip) /\ Together(<<>>)
BY DEF Fit, Together

LEMMA OneFits ==
  ASSUME NEW status, NEW dur, NEW c \in Clip, 0 < c.out, c.id \in Take => c.id = c.take,
         status[c.take] = "ok", c.out <= dur[c.take]
  PROVE  Fit(<<c>>, status, dur)
<1>1. <<c>> \in Seq(Clip) /\ DOMAIN <<c>> = {1} /\ <<c>>[1] = c
  OBVIOUS
<1>2. QED BY <1>1 DEF Fit, Together

\* A run of clips that were together.
LEMMA RunTogether ==
  ASSUME NEW cs \in Seq(Clip), Together(cs), NEW m \in 1 .. Len(cs), NEW n \in 1 .. Len(cs), m <= n
  PROVE  SubSeq(cs, m, n) \in Seq(Clip) /\ Together(SubSeq(cs, m, n))
<1> DEFINE a == SubSeq(cs, m, n)
<1>1. a \in Seq(Clip) /\ DOMAIN a = 1 .. n - m + 1
  OBVIOUS
<1>2. \A i \in 1 .. n - m + 1 : i + m - 1 \in DOMAIN cs /\ a[i] = cs[i + m - 1]
  OBVIOUS
<1> HIDE DEF a
<1>3. ASSUME NEW i \in 1 .. n - m + 1, NEW j \in 1 .. n - m + 1, a[i].id = a[j].id PROVE i = j
  <2> DEFINE k == i + m - 1
             l == j + m - 1
  <2>1. k \in DOMAIN cs /\ l \in DOMAIN cs /\ cs[k].id = cs[l].id
    BY <1>2, <1>3
  <2>2. k = l
    <3> HIDE DEF k, l
    <3> QED BY <2>1 DEF Together
  <2>3. QED BY <2>2
<1>4. \A i \in 1 .. n - m + 1 : 0 < a[i].out /\ (a[i].id \in Take => a[i].id = a[i].take)
  BY <1>2 DEF Together
<1>5. QED BY <1>1, <1>3, <1>4 DEF Together, a

\* The clips do not see what happens to a take that is not ok.
OffTimeline(p, t) == p.status[t] # "ok" \/ t \notin Take
SameOthers(p, q, t) == \A u \in Take : u # t => q.status[u] = p.status[u] /\ q.dur[u] = p.dur[u]

LEMMA OtherTakesFit ==
  ASSUME NEW p, NEW cs, Fit(cs, p.status, p.dur), NEW t, OffTimeline(p, t),
         NEW q, SameOthers(p, q, t)
  PROVE  Fit(cs, q.status, q.dur)
<1>1. \A i \in DOMAIN cs : cs[i].take \in Take /\ p.status[cs[i].take] = "ok"
  <2>1. TAKE i \in DOMAIN cs
  <2>2. cs \in Seq(Clip) /\ p.status[cs[i].take] = "ok"
    BY DEF Fit
  <2>3. cs[i] \in Clip
    BY <2>2
  <2>4. QED BY <2>2, <2>3 DEF Clip
<1>2. QED BY <1>1 DEF Fit, OffTimeline, SameOthers

\* The run of clips with these ids begins at the first of them ...
LEMMA StartIn ==
  ASSUME NEW cs \in Seq(Clip), NEW ids, PositionsOf(cs, ids) # {}
  PROVE  /\ StartOf(cs, ids) \in PositionsOf(cs, ids)
         /\ \A j \in PositionsOf(cs, ids) : StartOf(cs, ids) <= j
<1> DEFINE at == PositionsOf(cs, ids)
<1>1. at \subseteq Nat
  BY DEF PositionsOf
<1>2. \A x, y \in Nat : <<y, x>> \in OpToRel(<, Nat) <=> y < x
  BY DEF OpToRel
<1>3. PICK i \in at : \A j \in at : ~(<<j, i>> \in OpToRel(<, Nat))
  <2>1. at # {}
    OBVIOUS
  <2> HIDE DEF at
  <2>2. QED BY <1>1, <2>1, NatLessThanWellFounded, WFMin
<1>4. \A j \in at : i <= j
  <2>1. TAKE j \in at
  <2>2. i \in Nat /\ j \in Nat
    BY <1>1
  <2>3. ~(j < i)
    BY <1>2, <1>3, <2>2
  <2>4. QED BY <2>2, <2>3
<1>5. \E k \in at : \A j \in at : k <= j
  BY <1>4
<1>6. QED BY <1>5 DEF StartOf

\* ... and does not reach behind the last clip.
LEMMA RunInside ==
  ASSUME NEW cs \in Seq(Clip), NEW over \in SUBSET ToSet(cs), over # {}
  PROVE  LET start == StartOf(cs, {c.id : c \in over})
             len   == Cardinality(over)
         IN  start \in 1 .. Len(cs) /\ len \in Nat \ {0} /\ start + len - 1 <= Len(cs)
<1> DEFINE ids == {c.id : c \in over}
           at == PositionsOf(cs, ids)
           start == StartOf(cs, ids)
           f == [c \in over |-> CHOOSE i \in DOMAIN cs : cs[i] = c]
<1>1. DOMAIN cs = 1 .. Len(cs) /\ Len(cs) \in Nat
  OBVIOUS
<1>2. \A c \in over : \E i \in DOMAIN cs : cs[i] = c
  BY DEF ToSet
<1>3. \A c \in over : f[c] \in DOMAIN cs /\ cs[f[c]] = c
  BY <1>2
<1>4. \A c \in over : f[c] \in at
  <2> HIDE DEF f
  <2> QED BY <1>3 DEF PositionsOf
<1>5. at # {}
  BY <1>4
<1>6. start \in at /\ \A j \in at : start <= j
  <2> HIDE DEF ids
  <2> QED BY <1>5, StartIn
<1>7. start \in 1 .. Len(cs)
  BY <1>1, <1>6 DEF PositionsOf
<1>8. f \in Injection(over, start .. Len(cs))
  <2> HIDE DEF start, at
  <2>1. \A c \in over : f[c] \in start .. Len(cs)
    <3> HIDE DEF f
    <3> QED BY <1>1, <1>3, <1>4, <1>6, <1>7
  <2>2. f \in [over -> start .. Len(cs)]
    BY <2>1
  <2> HIDE DEF f
  <2>3. \A x, y \in over : f[x] = f[y] => x = y
    BY <1>3
  <2>4. QED BY <2>2, <2>3 DEF Injection, IsInjective
<1>9. IsFiniteSet(start .. Len(cs)) /\ Cardinality(start .. Len(cs)) = Len(cs) - start + 1
  <2> HIDE DEF start
  <2> QED BY <1>1, <1>7, FS_Interval
<1>10. IsFiniteSet(over) /\ Cardinality(over) <= Len(cs) - start + 1
  <2> HIDE DEF start, f
  <2> QED BY <1>8, <1>9, FS_Injection
<1>11. Cardinality(over) \in Nat /\ Cardinality(over) # 0
  BY <1>10, FS_CardinalityType, FS_EmptySet
<1> HIDE DEF start
<1>12. QED BY <1>1, <1>7, <1>10, <1>11 DEF start

----------------------------------------------------------------------------
(* The changes of a project keep its clips fit.                            *)

\* What a project holds of clips: the operators below name it.
Keeps(p, q) == q.clips = p.clips /\ q.status = p.status /\ q.dur = p.dur /\ q.replaced = p.replaced

LEMMA KeptFits ==
  ASSUME NEW p, ClipsFit(p), NEW q, Keeps(p, q)
  PROVE  ClipsFit(q)
BY FitIs DEF Keeps

LEMMA NewClipsFit ==
  ASSUME NEW p, Skeleton(p), ClipsFit(p), NEW cs, Fit(cs, p.status, p.dur)
  PROVE  ClipsFit([p EXCEPT !.clips = cs])
<1> DEFINE q == [p EXCEPT !.clips = cs]
<1>1. q.clips = cs /\ q.status = p.status /\ q.dur = p.dur /\ q.replaced = p.replaced
  BY DEF Skeleton
<1> HIDE DEF q
<1>2. ClipsFit(q)
  BY <1>1, FitIs
<1>3. QED BY <1>2 DEF q

\* A take that is not ok becomes something else.
ChangesTake(p, q, t, s, n) ==
  /\ q.clips = p.clips /\ q.status = [p.status EXCEPT ![t] = s] /\ q.dur = [p.dur EXCEPT ![t] = n]
  /\ q.replaced = p.replaced \/ q.replaced = [p.replaced EXCEPT ![t] = <<>>]

LEMMA TakeChanges ==
  ASSUME NEW p, Skeleton(p), ClipsFit(p), NEW t, OffTimeline(p, t), NEW q, NEW s, NEW n \in Nat,
         ChangesTake(p, q, t, s, n)
  PROVE  ClipsFit(q)
<1>1. /\ p.dur \in [Take -> Nat] /\ p.replaced \in [Take -> Seq(Clip)]
      /\ Fit(p.clips, p.status, p.dur) /\ \A u \in Take : Together(p.replaced[u])
  BY FitIs
<1>2. p.status \in [Take -> Status]
  BY DEF Skeleton
<1>3. SameOthers(p, q, t)
  BY <1>1, <1>2 DEF ChangesTake, SameOthers
<1>4. Fit(p.clips, q.status, q.dur)
  BY <1>1, <1>3, OtherTakesFit
<1>5. q.dur \in [Take -> Nat] /\ q.clips = p.clips
  BY <1>1 DEF ChangesTake
<1>6. q.replaced \in [Take -> Seq(Clip)] /\ \A u \in Take : Together(q.replaced[u])
  <2>1. CASE q.replaced = p.replaced
    BY <1>1, <2>1
  <2>2. CASE q.replaced = [p.replaced EXCEPT ![t] = <<>>]
    BY <1>1, <2>2, NoneFit
  <2>3. QED BY <2>1, <2>2 DEF ChangesTake
<1>7. QED BY <1>4, <1>5, <1>6, FitIs

LEMMA BegunFits ==
  ASSUME NEW p, Skeleton(p), ClipsFit(p), NEW t, OffTimeline(p, t)
  PROVE  ClipsFit(Begun(p, t))
<1> DEFINE q == Begun(p, t)
<1>1. ChangesTake(p, q, t, "recording", 0)
  BY DEF Begun, Skeleton, ChangesTake
<1> HIDE DEF q
<1>2. ClipsFit(q)
  BY <1>1, TakeChanges
<1>3. QED BY <1>2 DEF q

LEMMA BrokenFits ==
  ASSUME NEW p, Skeleton(p), ClipsFit(p), NEW t, OffTimeline(p, t)
  PROVE  ClipsFit(MarkBroken(p, t))
<1> DEFINE q == MarkBroken(p, t)
<1>1. ChangesTake(p, q, t, "broken", 0)
  BY DEF MarkBroken, Skeleton, ChangesTake
<1> HIDE DEF q
<1>2. ClipsFit(q)
  BY <1>1, TakeChanges
<1>3. QED BY <1>2 DEF q

\* A probe's verdict on a take, which stays off the timeline.
LEMMA VerdictFits ==
  ASSUME NEW p, Skeleton(p), ClipsFit(p), NEW t, OffTimeline(p, t),
         NEW s, NEW n \in Nat
  PROVE  /\ ClipsFit([p EXCEPT !.status[t] = s, !.dur[t] = n])
         /\ ClipsFit([p EXCEPT !.dur[t] = n, !.status[t] = s])
<1> DEFINE q == [p EXCEPT !.status[t] = s, !.dur[t] = n]
           r == [p EXCEPT !.dur[t] = n, !.status[t] = s]
<1>1. ChangesTake(p, q, t, s, n)
  BY DEF Skeleton, ChangesTake
<1>2. ChangesTake(p, r, t, s, n)
  BY DEF Skeleton, ChangesTake
<1> HIDE DEF q, r
<1>3. ClipsFit(q) /\ ClipsFit(r)
  BY <1>1, <1>2, TakeChanges
<1>4. QED BY <1>3 DEF q, r

LEMMA ReadyCutsFit ==
  ASSUME NEW p, Skeleton(p), ClipsFit(p)
  PROVE  ClipsFit(ReadyCuts(p))
<1>1. Fit(CutClips(p.clips, ReadyJobs), p.status, p.dur)
  BY FitIs, CutFits
<1>2. ClipsFit([p EXCEPT !.clips = CutClips(p.clips, ReadyJobs)])
  BY <1>1, NewClipsFit
<1>3. QED BY <1>2 DEF ReadyCuts

LEMMA InsertFits ==
  ASSUME NEW status, NEW dur, NEW a, NEW b, Fit(a, status, dur), Fit(b, status, dur),
         NEW at \in Nat \ {0},
         \A i \in DOMAIN a, j \in DOMAIN b : a[i].id # b[j].id
  PROVE  Fit(InsertClips(a, at, b), status, dur)
<1> DEFINE n == IF at > Len(a) + 1 THEN Len(a) + 1 ELSE at
<1>1. Len(a) \in Nat /\ DOMAIN a = 1 .. Len(a) /\ DOMAIN b = 1 .. Len(b)
  BY DEF Fit
<1>2. n \in 1 .. Len(a) + 1 /\ n \in Nat /\ n <= n
  BY <1>1
<1>3. InsertClips(a, at, b) = SubSeq(a, 1, n - 1) \o b \o SubSeq(a, n, Len(a))
  BY DEF InsertClips
<1> HIDE DEF n
<1>4. QED BY <1>1, <1>2, <1>3, SpliceFits

\* A take's new clip, appended or over others, whose run it remembers.
LEMMA PlacedFits ==
  ASSUME NEW p, Skeleton(p), ClipsFit(p), NEW t \in Take, OffTimeline(p, t),
         NEW frames \in Nat, frames > 0, NEW over
  PROVE  ClipsFit(Place(p, t, frames, over))
<1> DEFINE q == Place(p, t, frames, over)
           clip == [id |-> t, take |-> t, out |-> frames]
           start == StartOf(p.clips, {c.id : c \in over})
           len == Cardinality(over)
           seen == SubSeq(p.clips, start, start + len - 1)
<1>1. /\ p.dur \in [Take -> Nat] /\ p.replaced \in [Take -> Seq(Clip)]
      /\ Fit(p.clips, p.status, p.dur) /\ \A u \in Take : Together(p.replaced[u])
      /\ p.status \in [Take -> Status]
  BY FitIs DEF Skeleton
<1>2. q.status = [p.status EXCEPT ![t] = "ok"] /\ q.dur = [p.dur EXCEPT ![t] = frames]
  BY DEF Place, Skeleton
<1>3. q.dur \in [Take -> Nat] /\ q.dur[t] = frames /\ q.status[t] = "ok" /\ SameOthers(p, q, t)
  <2> HIDE DEF q
  <2> QED BY <1>1, <1>2 DEF SameOthers, Status
<1>4. Fit(p.clips, q.status, q.dur)
  <2> HIDE DEF q
  <2> QED BY <1>1, <1>3, OtherTakesFit
<1>5. clip \in Clip /\ clip.take = t /\ clip.id = t /\ clip.out = frames
  BY DEF Clip, Take
<1>6. Fit(<<clip>>, q.status, q.dur)
  <2> HIDE DEF q, clip
  <2>1. clip.out <= q.dur[clip.take] /\ q.status[clip.take] = "ok" /\ 0 < clip.out
    BY <1>3, <1>5
  <2> QED BY <1>5, <2>1, OneFits
<1>7. p.clips \in Seq(Clip) /\ Together(p.clips) /\ DOMAIN p.clips = 1 .. Len(p.clips)
      /\ Len(p.clips) \in Nat
  BY <1>1 DEF Fit
<1>8. ASSUME NEW i \in DOMAIN p.clips PROVE p.clips[i].id # t
  <2>1. p.clips[i].id = t => p.clips[i].take = t
    BY <1>7, <1>8 DEF Together
  <2>2. p.status[p.clips[i].take] = "ok"
    BY <1>1, <1>8 DEF Fit
  <2>3. QED BY <2>1, <2>2 DEF OffTimeline
<1>9. DOMAIN <<clip>> = 1 .. 1 /\ Len(<<clip>>) = 1 /\ <<clip>>[1].id = t
  OBVIOUS
<1>10. \A i \in DOMAIN p.clips, j \in DOMAIN <<clip>> : p.clips[i].id # <<clip>>[j].id
  <2> HIDE DEF clip
  <2> QED BY <1>8, <1>9
<1>11. CASE CanReplace(p.clips, over)
  <2>1. q.clips = ReplaceRun(p.clips, start, len, <<clip>>) /\ q.replaced = [p.replaced EXCEPT ![t] = seen]
    BY <1>11 DEF Place, Skeleton, FreshClipId
  <2>2. start \in 1 .. Len(p.clips) /\ len \in Nat \ {0} /\ start + len - 1 <= Len(p.clips)
    <3>1. over # {} /\ over \in SUBSET ToSet(p.clips)
      BY <1>11 DEF CanReplace
    <3>2. QED BY <1>7, <3>1, RunInside
  <2> HIDE DEF q, start, len, clip
  <2>3. /\ start \in 1 .. Len(p.clips) + 1 /\ start + len \in Nat /\ start <= start + len
        /\ start + len - 1 \in 1 .. Len(p.clips) /\ start <= start + len - 1
    BY <1>7, <2>2
  <2>4. \A i \in 1 .. Len(p.clips), j \in 1 .. Len(<<clip>>) :
          i < start \/ start + len <= i => p.clips[i].id # <<clip>>[j].id
    BY <1>7, <1>9, <1>10
  <2>5. Fit(q.clips, q.status, q.dur)
    <3>1. Fit(SubSeq(p.clips, 1, start - 1) \o <<clip>> \o SubSeq(p.clips, start + len, Len(p.clips)),
              q.status, q.dur)
      BY <1>4, <1>6, <2>3, <2>4, SpliceFits
    <3>2. QED BY <2>1, <3>1 DEF ReplaceRun
  <2>6. seen \in Seq(Clip) /\ Together(seen)
    BY <1>7, <2>2, <2>3, RunTogether
  <2> HIDE DEF seen
  <2>7. q.replaced \in [Take -> Seq(Clip)] /\ \A u \in Take : Together(q.replaced[u])
    BY <1>1, <2>1, <2>6
  <2>8. QED BY <1>3, <2>5, <2>7, FitIs DEF q
<1>12. CASE ~CanReplace(p.clips, over)
  <2>1. q.clips = AppendClip(p.clips, clip) /\ q.replaced = [p.replaced EXCEPT ![t] = <<>>]
    BY <1>12 DEF Place, Skeleton, FreshClipId
  <2> HIDE DEF q, clip
  <2>2. Len(p.clips) + 1 \in Nat \ {0}
    BY <1>7
  <2>3. Fit(q.clips, q.status, q.dur)
    <3>1. Fit(InsertClips(p.clips, Len(p.clips) + 1, <<clip>>), q.status, q.dur)
      BY <1>4, <1>6, <1>10, <2>2, InsertFits
    <3>2. QED BY <2>1, <3>1 DEF AppendClip
  <2>4. q.replaced \in [Take -> Seq(Clip)] /\ \A u \in Take : Together(q.replaced[u])
    BY <1>1, <2>1, NoneFit
  <2>5. QED BY <1>3, <2>3, <2>4, FitIs DEF q
<1>13. QED BY <1>11, <1>12

\* What a take replaced, given back.
LEMMA RestorableFits ==
  ASSUME NEW p, Skeleton(p), ClipsFit(p), NEW t \in Take
  PROVE  /\ Fit(Restorable(p, t), p.status, p.dur)
         /\ \A i \in DOMAIN Restorable(p, t) : Restorable(p, t)[i].id \notin ClipIds(p.clips)
<1> DEFINE r == p.replaced[t]
           gone == \A c \in ToSet(r) : c.id \notin ClipIds(p.clips)
           clamped == [i \in DOMAIN r |-> [r[i] EXCEPT !.out = Smaller(@, p.dur[r[i].take])]]
           S == {c \in ToSet(clamped) : p.status[c.take] = "ok" /\ c.out > 0}
           o == Only(clamped, S)
<1>1. p.dur \in [Take -> Nat] /\ r \in Seq(Clip) /\ Together(r)
  BY FitIs
<1>2. Restorable(p, t) = (IF gone THEN o ELSE <<>>)
  BY DEF Restorable
<1> HIDE DEF r
<1>3. DOMAIN r = 1 .. Len(r) /\ Len(r) \in Nat /\ \A i \in 1 .. Len(r) : r[i] \in Clip
  BY <1>1
<1>4. DOMAIN clamped = 1 .. Len(r)
  BY <1>3
<1>5. ASSUME NEW i \in 1 .. Len(r)
      PROVE  /\ clamped[i] \in Clip /\ clamped[i].id = r[i].id /\ clamped[i].take = r[i].take
             /\ clamped[i].out <= p.dur[r[i].take]
  <2>1. r[i] \in Clip /\ p.dur[r[i].take] \in Nat
    BY <1>1, <1>3 DEF Clip
  <2>2. clamped[i] = [r[i] EXCEPT !.out = Smaller(r[i].out, p.dur[r[i].take])]
    BY <1>3
  <2>3. r[i].out \in Nat /\ Smaller(r[i].out, p.dur[r[i].take]) \in Nat
        /\ Smaller(r[i].out, p.dur[r[i].take]) <= p.dur[r[i].take]
    BY <2>1 DEF Clip, Smaller
  <2> HIDE DEF clamped
  <2>4. QED BY <2>1, <2>2, <2>3 DEF Clip
<1>6. clamped \in Seq(Clip)
  <2>1. clamped = [i \in 1 .. Len(r) |-> clamped[i]]
    BY <1>3
  <2> HIDE DEF clamped
  <2>2. QED BY <1>3, <1>5, <2>1
<1> HIDE DEF clamped
<1>7. IdsOnce(clamped)
  BY <1>1, <1>3, <1>4, <1>5 DEF Together, IdsOnce
<1>8. /\ o \in Seq(Clip) /\ IdsOnce(o)
      /\ \A i \in DOMAIN o : o[i] \in S /\ \E j \in DOMAIN clamped : o[i] = clamped[j]
  <2> HIDE DEF S
  <2> QED BY <1>6, <1>7, OnlyClips
<1> HIDE DEF o
<1>9. \A i \in DOMAIN o : \E j \in 1 .. Len(r) : o[i] = clamped[j]
  BY <1>4, <1>8
<1>10. \A i \in DOMAIN o : /\ 0 < o[i].out /\ (o[i].id \in Take => o[i].id = o[i].take)
                          /\ p.status[o[i].take] = "ok" /\ o[i].out <= p.dur[o[i].take]
  <2>1. TAKE i \in DOMAIN o
  <2>2. p.status[o[i].take] = "ok" /\ o[i].out > 0
    BY <1>8
  <2>3. PICK j \in 1 .. Len(r) : o[i] = clamped[j]
    BY <1>9
  <2>4. /\ o[i].out \in Nat /\ o[i].out <= p.dur[o[i].take]
        /\ o[i].id = r[j].id /\ o[i].take = r[j].take
    BY <1>5, <2>3 DEF Clip
  <2>5. r[j].id \in Take => r[j].id = r[j].take
    BY <1>1, <1>3 DEF Together
  <2>6. QED BY <2>2, <2>4, <2>5
<1>11. Fit(o, p.status, p.dur)
  BY <1>8, <1>10 DEF Fit, Together, IdsOnce
<1>12. ASSUME gone, NEW i \in DOMAIN o PROVE o[i].id \notin ClipIds(p.clips)
  <2>1. PICK j \in 1 .. Len(r) : o[i] = clamped[j]
    BY <1>9, <1>12
  <2>2. o[i].id = r[j].id /\ r[j] \in ToSet(r)
    BY <1>3, <1>5, <2>1 DEF ToSet
  <2>3. QED BY <1>12, <2>2
<1> HIDE DEF gone
<1>13. DOMAIN <<>> = {}
  OBVIOUS
<1>14. QED BY <1>2, <1>11, <1>12, <1>13, NoneFit

LEMMA DiscardedFits ==
  ASSUME NEW p, Skeleton(p), ClipsFit(p), CanDiscard(p)
  PROVE  ClipsFit(Discarded(p))
<1> DEFINE t == Largest(PlacedTakes(p))
           ids == {c.id : c \in ClipsOf(p, t)}
           kept == RemoveClips(p.clips, ids)
           at == StartOf(p.clips, ids)
           back == Restorable(p, t)
           cs == InsertClips(kept, at, back)
<1>1. t \in Take
  <2>1. PlacedTakes(p) \in SUBSET Take /\ PlacedTakes(p) # {}
    BY DEF CanDiscard, PlacedTakes, Pool
  <2>2. QED BY <2>1, LargestIn
<1>2. ClipsOf(p, t) # {}
  BY DEF CanDiscard
<1>3. Fit(p.clips, p.status, p.dur) /\ p.clips \in Seq(Clip)
  BY FitIs DEF Fit
<1>4. Discarded(p) = [p EXCEPT !.clips = cs]
  BY DEF Discarded
<1> HIDE DEF t
<1>5. PositionsOf(p.clips, ids) # {}
  BY <1>2 DEF ClipsOf, PositionsOf, ToSet
<1>6. at \in Nat \ {0}
  <2> HIDE DEF ids
  <2>1. at \in PositionsOf(p.clips, ids)
    BY <1>3, <1>5, StartIn
  <2>2. QED BY <1>3, <2>1 DEF PositionsOf
<1>7. Fit(kept, p.status, p.dur)
  BY <1>3, OnlyFits DEF RemoveClips
<1>8. \A i \in DOMAIN kept : \E j \in DOMAIN p.clips : kept[i] = p.clips[j]
  <2>1. IdsOnce(p.clips)
    BY <1>3 DEF Fit, Together, IdsOnce
  <2> DEFINE S == {c \in ToSet(p.clips) : c.id \notin ids}
  <2>2. kept = Only(p.clips, S)
    BY DEF RemoveClips
  <2> HIDE DEF S, kept
  <2>3. \A i \in DOMAIN Only(p.clips, S) : \E j \in DOMAIN p.clips : Only(p.clips, S)[i] = p.clips[j]
    BY <1>3, <2>1, OnlyClips
  <2>4. QED BY <2>2, <2>3
<1>9. \A i \in DOMAIN kept : kept[i].id \in ClipIds(p.clips)
  <2> HIDE DEF kept
  <2> QED BY <1>8 DEF ClipIds
<1>10. /\ Fit(back, p.status, p.dur)
       /\ \A i \in DOMAIN back : back[i].id \notin ClipIds(p.clips)
  BY <1>1, RestorableFits
<1> HIDE DEF kept, at, back
<1>11. \A i \in DOMAIN kept, j \in DOMAIN back : kept[i].id # back[j].id
  BY <1>9, <1>10
<1>12. Fit(cs, p.status, p.dur)
  BY <1>6, <1>7, <1>10, <1>11, InsertFits
<1> HIDE DEF cs
<1>13. QED BY <1>4, <1>12, NewClipsFit

\* A purged take's clips are on no timeline.
LEMMA RemovedFits ==
  ASSUME NEW p, Skeleton(p), ClipsFit(p), NEW t \in Take, ClipsOf(p, t) = {}
  PROVE  ClipsFit(RemoveTake(p, t))
<1> DEFINE q == RemoveTake(p, t)
<1>1. /\ p.dur \in [Take -> Nat] /\ p.replaced \in [Take -> Seq(Clip)]
      /\ Fit(p.clips, p.status, p.dur) /\ \A u \in Take : Together(p.replaced[u])
      /\ p.status \in [Take -> Status]
  BY FitIs DEF Skeleton
<1>2. /\ q.clips = p.clips /\ q.status = [p.status EXCEPT ![t] = "none"]
      /\ q.dur = [p.dur EXCEPT ![t] = 0]
      /\ q.replaced = [u \in Take |-> IF u = t THEN <<>>
                         ELSE Only(p.replaced[u], {c \in ToSet(p.replaced[u]) : c.take # t})]
  BY DEF RemoveTake, Skeleton
<1> HIDE DEF q
<1>3. q.dur \in [Take -> Nat] /\ SameOthers(p, q, t)
  BY <1>1, <1>2 DEF SameOthers
<1>4. \A i \in DOMAIN p.clips : p.clips[i].take # t
  BY DEF ClipsOf, ToSet
<1>5. Fit(q.clips, q.status, q.dur)
  <2>1. p.clips \in Seq(Clip)
    BY <1>1 DEF Fit
  <2>2. \A i \in DOMAIN p.clips : p.clips[i].take \in Take /\ p.clips[i].take # t
    <3>1. \A i \in DOMAIN p.clips : p.clips[i] \in Clip
      BY <2>1
    <3>2. QED BY <1>4, <3>1 DEF Clip
  <2>3. QED BY <1>1, <1>2, <1>3, <2>2 DEF Fit, SameOthers
<1>6. \A u \in Take : q.replaced[u] \in Seq(Clip) /\ Together(q.replaced[u])
  <2>1. TAKE u \in Take
  <2>2. CASE u = t
    BY <1>2, <2>2, NoneFit
  <2>3. CASE u # t
    <3>1. q.replaced[u] = Only(p.replaced[u], {c \in ToSet(p.replaced[u]) : c.take # t})
      BY <1>2, <2>3
    <3>2. p.replaced[u] \in Seq(Clip) /\ Together(p.replaced[u])
      BY <1>1
    <3>3. QED BY <3>1, <3>2, OnlyTogether
  <2>4. QED BY <2>2, <2>3
<1>7. q.replaced \in [Take -> Seq(Clip)]
  BY <1>2, <1>6
<1>8. QED BY <1>3, <1>5, <1>6, <1>7, FitIs DEF q

----------------------------------------------------------------------------
(* A discard gives back what the take replaced.                            *)

\* b is what a has from n to before m.
Piece(b, C, a, n, m) ==
  b \in Seq(C) /\ Len(b) = m - n /\ \A i \in 1 .. m - n : b[i] = a[i + n - 1]

\* The new clip goes, and what it stood for comes back where it was.
LEMMA Rejoins ==
  ASSUME NEW C, NEW a \in Seq(C), NEW c \in C, NEW n \in 1 .. Len(a) + 1, NEW m \in Nat,
         n <= m, m <= Len(a) + 1,
         NEW s, Spliced(s, C, a, <<c>>, n, m),
         NEW b, Piece(b, C, a, n, m),
         NEW k, ButOne(k, s, C, n)
  PROVE  InsertClips(k, n, b) = a
<1> DEFINE j == SubSeq(k, 1, n - 1) \o b \o SubSeq(k, n, Len(k))
<1>1. <<c>> \in Seq(C) /\ Len(<<c>>) = 1
  OBVIOUS
<1>2. Spliced(s, C, a, <<c>>, n, m)
  OBVIOUS
<1>3. b \in Seq(C) /\ Len(b) = m - n /\ \A i \in 1 .. m - n : b[i] = a[i + n - 1]
  BY DEF Piece
<1>4. Len(a) \in Nat /\ n \in 1 .. Len(a) + 1 /\ m \in Nat /\ n <= m /\ m <= Len(a) + 1
      /\ DOMAIN a = 1 .. Len(a)
  OBVIOUS
<1>5. ButOne(k, s, C, n)
  OBVIOUS
<1>6. Len(s) = n + Len(a) - m + 1 /\ Len(s) \in Nat
  <2>1. Len(s) = n - 1 + Len(<<c>>) + (IF m <= Len(a) THEN Len(a) - m + 1 ELSE 0)
    BY <1>2 DEF Spliced
  <2>2. CASE m <= Len(a)
    <3>1. Len(s) = n - 1 + Len(<<c>>) + (Len(a) - m + 1)
      BY <2>1, <2>2
    <3>2. QED BY <1>1, <1>4, <3>1
  <2>3. CASE ~(m <= Len(a))
    <3>1. Len(s) = n - 1 + Len(<<c>>) + 0 /\ m = Len(a) + 1
      BY <1>4, <2>1, <2>3
    <3>2. QED BY <1>1, <1>4, <3>1
  <2>4. QED BY <2>2, <2>3
<1>7. k \in Seq(C) /\ Len(k) = n + Len(a) - m /\ n \in 1 .. Len(k) + 1 /\ n \in Nat
  <2>1. k \in Seq(C) /\ Len(k) = Len(s) - 1
    BY <1>5 DEF ButOne
  <2>2. QED BY <1>4, <1>6, <2>1
<1>8. Spliced(j, C, k, b, n, n)
  <2>1. b \in Seq(C) /\ n <= n
    BY <1>3, <1>7
  <2>2. QED BY <1>7, <2>1, SpliceIs
<1>9. InsertClips(k, n, b) = j
  <2>1. ~(n > Len(k) + 1)
    BY <1>7
  <2>2. QED BY <2>1 DEF InsertClips
<1> HIDE DEF j
<1>10. Len(j) = Len(a) /\ DOMAIN j = 1 .. Len(a) /\ j \in Seq(C)
  <2>1. /\ Len(j) = n - 1 + Len(b) + (IF n <= Len(k) THEN Len(k) - n + 1 ELSE 0)
        /\ DOMAIN j = 1 .. Len(j) /\ j \in Seq(C)
    BY <1>8 DEF Spliced
  <2>2. Len(b) = m - n
    BY <1>3
  <2>3. Len(j) = Len(a)
    <3>1. CASE n <= Len(k)
      <4>1. Len(j) = n - 1 + Len(b) + (Len(k) - n + 1)
        BY <2>1, <3>1
      <4>2. QED BY <1>4, <1>7, <2>2, <4>1
    <3>2. CASE ~(n <= Len(k))
      <4>1. Len(j) = n - 1 + Len(b) + 0 /\ n = Len(k) + 1
        <5>1. n = Len(k) + 1
          BY ONLY <1>7, <3>2
        <5>2. Len(j) = n - 1 + Len(b) + 0
          BY ONLY <2>1, <3>2
        <5>3. QED BY <5>1, <5>2
      <4>2. Len(k) = n + Len(a) - m /\ n \in Nat /\ m \in Nat /\ Len(a) \in Nat
        BY <1>4, <1>7
      <4>3. QED BY ONLY <2>2, <4>1, <4>2
    <3>3. QED BY <3>1, <3>2
  <2>4. QED BY <2>1, <2>3
<1>11. ASSUME NEW i \in 1 .. Len(a) PROVE j[i] = a[i]
  <2>1. CASE i < n
    <3>1. j[i] = k[i] /\ i \in 1 .. n - 1
      <4>1. j[i] = k[i]
        BY <1>8, <1>10, <2>1 DEF Spliced
      <4>2. QED BY <1>4, <2>1, <4>1
    <3>2. k[i] = s[i] /\ i \in 1 .. Len(s)
      BY <1>4, <1>5, <1>6, <3>1 DEF ButOne
    <3>3. s[i] = a[i]
      BY <1>2, <2>1, <3>2 DEF Spliced
    <3>4. QED BY <3>1, <3>2, <3>3
  <2>2. CASE n <= i /\ i < m
    <3>1. i < n + Len(b) /\ i - n + 1 \in 1 .. m - n /\ (i - n + 1) + n - 1 = i
      BY <1>3, <1>4, <2>2
    <3>2. j[i] = b[i - n + 1]
      BY <1>8, <1>10, <2>2, <3>1 DEF Spliced
    <3>3. QED BY <1>3, <3>1, <3>2
  <2>3. CASE m <= i
    <3> DEFINE l == n + i - m
    <3>1. n + Len(b) <= i /\ n + i - n - Len(b) = l
      BY <1>3, <1>4, <2>3
    <3>2. j[i] = k[l]
      BY <1>8, <1>10, <3>1 DEF Spliced
    <3>3. l \in n .. Len(s) - 1
      BY <1>4, <1>6, <2>3
    <3>4. k[l] = s[l + 1]
      <4> HIDE DEF l
      <4> QED BY <1>5, <3>3 DEF ButOne
    <3>5. l + 1 \in 1 .. Len(s) /\ n + Len(<<c>>) <= l + 1 /\ m + (l + 1) - n - Len(<<c>>) = i
      BY <1>1, <1>4, <1>6, <3>3
    <3>6. s[l + 1] = a[i]
      <4> DEFINE o == l + 1
      <4> HIDE DEF l, o
      <4>1. o \in 1 .. Len(s) /\ n + Len(<<c>>) <= o /\ m + o - n - Len(<<c>>) = i
        BY <3>5 DEF o
      <4>2. s[o] = a[m + o - n - Len(<<c>>)]
        BY <1>2, <4>1 DEF Spliced
      <4>3. QED BY <4>1, <4>2 DEF o
    <3>7. QED BY <3>2, <3>4, <3>6
  <2>4. QED BY <1>4, <2>1, <2>2, <2>3
<1>12. j = a
  BY <1>4, <1>10, <1>11
<1>13. QED BY <1>9, <1>12

\* A take that is the newest placed one, whose clip stands for the clips it
\* replaced: discarded, it leaves the timeline it found.
Stands(q, t, a, clip, n, m) ==
  /\ q.clips = SubSeq(a, 1, n - 1) \o <<clip>> \o SubSeq(a, m, Len(a))
  /\ q.replaced[t] = SubSeq(a, n, m - 1)
  /\ clip \in Clip /\ clip.take = t /\ clip.id = t
  /\ \A i \in 1 .. Len(a) : a[i].take # t /\ a[i].id # t

LEMMA UndoIs ==
  ASSUME NEW q, Skeleton(q), NEW t \in Take, PlacedTakes(q) # {}, Largest(PlacedTakes(q)) = t,
         NEW a, Fit(a, q.status, q.dur), q.dur \in [Take -> Nat],
         NEW n \in 1 .. Len(a) + 1, NEW m \in Nat, n <= m, m <= Len(a) + 1,
         NEW clip, Stands(q, t, a, clip, n, m)
  PROVE  CanDiscard(q) /\ Discarded(q).clips = a
<1> DEFINE s == q.clips
           ids == {c.id : c \in ClipsOf(q, t)}
           S == {c \in ToSet(s) : c.id \notin ids}
           k == Only(s, S)
           r == q.replaced[t]
<1>1. /\ a \in Seq(Clip) /\ Len(a) \in Nat /\ DOMAIN a = 1 .. Len(a) /\ n \in Nat
      /\ \A i \in 1 .. Len(a) : a[i] \in Clip
  BY DEF Fit
<1>2. <<clip>> \in Seq(Clip) /\ Len(<<clip>>) = 1 /\ <<clip>>[1] = clip
  BY DEF Stands
<1>3. Spliced(s, Clip, a, <<clip>>, n, m)
  <2>1. Spliced(SubSeq(a, 1, n - 1) \o <<clip>> \o SubSeq(a, m, Len(a)), Clip, a, <<clip>>, n, m)
    BY <1>1, <1>2, SpliceIs
  <2>2. QED BY <2>1 DEF Stands
<1> HIDE DEF s
<1>4. s \in Seq(Clip) /\ Len(s) \in Nat /\ DOMAIN s = 1 .. Len(s)
  BY <1>3 DEF Spliced
<1>5. n \in 1 .. Len(s)
  <2>1. Len(s) = n - 1 + Len(<<clip>>) + (IF m <= Len(a) THEN Len(a) - m + 1 ELSE 0)
    BY <1>3 DEF Spliced
  <2>2. CASE m <= Len(a)
    <3>1. Len(s) = n - 1 + Len(<<clip>>) + (Len(a) - m + 1)
      BY <2>1, <2>2
    <3>2. QED BY <1>1, <1>2, <1>4, <2>2, <3>1
  <2>3. CASE ~(m <= Len(a))
    <3>1. Len(s) = n - 1 + Len(<<clip>>) + 0
      BY <2>1, <2>3
    <3>2. QED BY <1>1, <1>2, <1>4, <3>1
  <2>4. QED BY <2>2, <2>3
<1>6. s[n] = clip
  <2>1. n <= n /\ n < n + Len(<<clip>>) /\ n - n + 1 = 1
    BY <1>1, <1>2
  <2>2. s[n] = <<clip>>[n - n + 1]
    BY <1>3, <1>5, <2>1 DEF Spliced
  <2>3. QED BY <1>2, <2>1, <2>2
<1>7. ASSUME NEW i \in 1 .. Len(s), i # n
      PROVE  \E j \in 1 .. Len(a) : (j < n \/ m <= j) /\ s[i] = a[j]
  <2>1. CASE i < n
    BY <1>3, <2>1 DEF Spliced
  <2>2. CASE n + Len(<<clip>>) <= i
    BY <1>3, <2>2 DEF Spliced
  <2>3. QED BY <1>1, <1>2, <1>4, <1>7, <2>1, <2>2
<1>8. \A i \in 1 .. Len(s) : (s[i].take = t <=> i = n) /\ (s[i].id = t <=> i = n)
  <2>1. TAKE i \in 1 .. Len(s)
  <2>2. CASE i = n
    BY <1>6, <2>2 DEF Stands
  <2>3. CASE i # n
    BY <1>7, <2>3 DEF Stands
  <2>4. QED BY <2>2, <2>3
<1>9. ClipsOf(q, t) = {clip}
  <2>1. ClipsOf(q, t) = {c \in {s[i] : i \in 1 .. Len(s)} : c.take = t}
    BY <1>4 DEF ClipsOf, ToSet, s
  <2>2. QED BY <1>5, <1>6, <1>8, <2>1
<1>10. ids = {t}
  BY <1>9 DEF Stands
<1>11. CanDiscard(q)
  BY <1>9 DEF CanDiscard
<1> HIDE DEF ids
<1>12. StartOf(s, ids) = n
  <2>1. PositionsOf(s, ids) = {n}
    BY <1>4, <1>5, <1>8, <1>10 DEF PositionsOf
  <2>2. StartOf(s, ids) \in PositionsOf(s, ids)
    BY <1>4, <2>1, StartIn
  <2>3. QED BY <2>1, <2>2
<1>13. \A i \in 1 .. Len(s) : s[i] \in S <=> i # n
  BY <1>4, <1>8, <1>10 DEF ToSet
<1>14. ButOne(k, s, Clip, n)
  <2> HIDE DEF S
  <2> QED BY <1>4, <1>5, <1>13, OnlyButOne
<1>15. /\ r \in Seq(Clip) /\ Len(r) = m - n /\ DOMAIN r = 1 .. m - n
       /\ \A i \in 1 .. m - n : i + n - 1 \in 1 .. Len(a) /\ r[i] = a[i + n - 1]
  <2>1. r = SubSeq(a, n, m - 1)
    BY DEF Stands
  <2>2. QED BY <1>1, <2>1
<1> HIDE DEF r
<1>16. \A c \in ToSet(r) : c.id \notin ClipIds(s)
  <2>1. TAKE c \in ToSet(r)
  <2>2. PICK i \in 1 .. m - n : c = r[i]
    BY <1>15 DEF ToSet
  <2> DEFINE x == i + n - 1
  <2>3. x \in 1 .. Len(a) /\ c = a[x] /\ n <= x /\ x < m
    BY <1>1, <1>15, <2>2
  <2> HIDE DEF x
  <2>4. ASSUME NEW j \in 1 .. Len(s), s[j].id = c.id PROVE FALSE
    <3>1. j # n
      BY <1>8, <2>3, <2>4 DEF Stands
    <3>2. PICK y \in 1 .. Len(a) : (y < n \/ m <= y) /\ s[j] = a[y]
      BY <1>7, <3>1
    <3>3. x = y
      BY <1>1, <2>3, <2>4, <3>2 DEF Fit, Together
    <3>4. QED BY <1>1, <2>3, <3>2, <3>3
  <2>5. QED BY <1>4, <2>4 DEF ClipIds
<1>17. \A i \in 1 .. m - n : /\ r[i] \in Clip /\ q.status[r[i].take] = "ok" /\ 0 < r[i].out
                             /\ r[i].out <= q.dur[r[i].take] /\ q.dur[r[i].take] \in Nat
  <2>1. TAKE i \in 1 .. m - n
  <2> DEFINE x == i + n - 1
  <2>2. x \in 1 .. Len(a) /\ r[i] = a[x]
    BY <1>15
  <2> HIDE DEF x
  <2>3. a[x] \in Clip /\ q.dur[a[x].take] \in Nat
    BY <1>1, <2>2 DEF Clip
  <2>4. q.status[a[x].take] = "ok" /\ 0 < a[x].out /\ a[x].out <= q.dur[a[x].take]
    BY <1>1, <2>2 DEF Fit, Together
  <2>5. QED BY <2>2, <2>3, <2>4
<1>18. Restorable(q, t) = r
  <2> DEFINE clamped == [i \in DOMAIN r |-> [r[i] EXCEPT !.out = Smaller(@, q.dur[r[i].take])]]
             T == {c \in ToSet(clamped) : q.status[c.take] = "ok" /\ c.out > 0}
  <2>1. Restorable(q, t) = Only(clamped, T)
    BY <1>16 DEF Restorable, s, r
  <2>2. \A i \in DOMAIN r : clamped[i] = r[i]
    <3>1. TAKE i \in DOMAIN r
    <3>2. r[i] \in Clip /\ r[i].out \in Nat /\ r[i].out <= q.dur[r[i].take] /\ q.dur[r[i].take] \in Nat
      BY <1>15, <1>17 DEF Clip
    <3>3. Smaller(r[i].out, q.dur[r[i].take]) = r[i].out
      BY <3>2 DEF Smaller
    <3>4. [r[i] EXCEPT !.out = r[i].out] = r[i]
      BY <3>2 DEF Clip
    <3>5. QED BY <3>3, <3>4
  <2>3. clamped = r
    <3>1. clamped = [i \in DOMAIN r |-> clamped[i]]
      OBVIOUS
    <3>2. r = [i \in DOMAIN r |-> r[i]]
      BY <1>15
    <3> HIDE DEF clamped
    <3>3. QED BY <2>2, <3>1, <3>2
  <2> HIDE DEF clamped
  <2>4. \A i \in 1 .. Len(r) : r[i] \in T
    BY <1>15, <1>17, <2>3 DEF ToSet
  <2> HIDE DEF T
  <2>5. Only(r, T) = r
    BY <1>15, <2>4, OnlyAll
  <2>6. QED BY <2>1, <2>3, <2>5
<1>19. Discarded(q).clips = InsertClips(RemoveClips(s, ids), StartOf(s, ids), Restorable(q, t))
  BY DEF Discarded, Skeleton, s, ids
<1>20. RemoveClips(s, ids) = k
  BY DEF RemoveClips
<1>21. InsertClips(k, n, r) = a
  <2> HIDE DEF k
  <2>1. clip \in Clip /\ Piece(r, Clip, a, n, m)
    BY <1>15 DEF Stands, Piece
  <2>2. QED BY <1>1, <1>3, <1>14, <2>1, Rejoins
<1> HIDE DEF k
<1>22. QED BY <1>11, <1>12, <1>18, <1>19, <1>20, <1>21

\* A take that is placed and discarded at once leaves the timeline it found.
LEMMA PlacedUndone ==
  ASSUME NEW p, Skeleton(p), ClipsFit(p), NEW t \in Take, OffTimeline(p, t),
         NEW frames \in Nat, frames > 0, NEW over, \A u \in PlacedTakes(p) : u <= t
  PROVE  /\ CanDiscard(Place(p, t, frames, over))
         /\ Discarded(Place(p, t, frames, over)).clips = p.clips
<1> DEFINE q == Place(p, t, frames, over)
           clip == [id |-> t, take |-> t, out |-> frames]
           start == StartOf(p.clips, {c.id : c \in over})
           len == Cardinality(over)
           a == p.clips
<1>1. Skeleton(q) /\ ClipsFit(q)
  BY PlacedSkeleton, PlacedFits
<1>2. /\ q.status = [p.status EXCEPT ![t] = "ok"] /\ q.dur = [p.dur EXCEPT ![t] = frames]
      /\ q.placed = [p.placed EXCEPT ![t] = TRUE]
  BY DEF Place, Skeleton
<1>3. /\ p.dur \in [Take -> Nat] /\ p.replaced \in [Take -> Seq(Clip)]
      /\ Fit(a, p.status, p.dur) /\ p.status \in [Take -> Status] /\ p.placed \in [Take -> BOOLEAN]
  BY FitIs DEF Skeleton
<1>4. q.dur \in [Take -> Nat] /\ q.status[t] = "ok" /\ q.placed[t] /\ SameOthers(p, q, t)
      /\ \A u \in Take : u # t => q.placed[u] = p.placed[u]
  <2> HIDE DEF q
  <2> QED BY <1>2, <1>3 DEF SameOthers, Status
<1>5. a \in Seq(Clip) /\ Together(a) /\ DOMAIN a = 1 .. Len(a) /\ Len(a) \in Nat
  BY <1>3 DEF Fit
<1>6. clip \in Clip /\ clip.take = t /\ clip.id = t
  BY DEF Clip, Take
<1>7. ASSUME NEW i \in 1 .. Len(a) PROVE a[i].take # t /\ a[i].id # t
  <2>1. a[i].id = t => a[i].take = t
    BY <1>5, <1>7 DEF Together
  <2>2. p.status[a[i].take] = "ok"
    BY <1>3, <1>5, <1>7 DEF Fit
  <2>3. QED BY <2>1, <2>2 DEF OffTimeline
<1>8. \E n \in 1 .. Len(a) + 1, m \in Nat :
        n <= m /\ m <= Len(a) + 1 /\ Stands(q, t, a, clip, n, m)
  <2>1. CASE CanReplace(a, over)
    <3>1. q.clips = ReplaceRun(a, start, len, <<clip>>)
          /\ q.replaced = [p.replaced EXCEPT ![t] = SubSeq(a, start, start + len - 1)]
      BY <2>1 DEF Place, Skeleton, FreshClipId
    <3>2. start \in 1 .. Len(a) /\ len \in Nat \ {0} /\ start + len - 1 <= Len(a)
      <4>1. over # {} /\ over \in SUBSET ToSet(a)
        BY <2>1 DEF CanReplace
      <4>2. QED BY <1>5, <4>1, RunInside
    <3> HIDE DEF q, start, len, clip, a
    <3>3. start \in 1 .. Len(a) + 1 /\ start + len \in Nat /\ start <= start + len
          /\ start + len <= Len(a) + 1
      BY <1>5, <3>2
    <3>4. Stands(q, t, a, clip, start, start + len)
      <4>1. q.replaced[t] = SubSeq(a, start, start + len - 1)
        BY <1>3, <3>1
      <4>2. q.clips = SubSeq(a, 1, start - 1) \o <<clip>> \o SubSeq(a, start + len, Len(a))
        BY <3>1 DEF ReplaceRun
      <4> DEFINE e == start + len
      <4>3. /\ q.clips = SubSeq(a, 1, start - 1) \o <<clip>> \o SubSeq(a, e, Len(a))
            /\ q.replaced[t] = SubSeq(a, start, e - 1)
        <5>1. start + len - 1 = e - 1
          BY <3>2
        <5> HIDE DEF e
        <5>2. q.replaced[t] = SubSeq(a, start, e - 1)
          BY <4>1, <5>1
        <5>3. QED BY <4>2, <5>2 DEF e
      <4> HIDE DEF e
      <4>4. Stands(q, t, a, clip, start, e)
        BY <1>6, <1>7, <4>3 DEF Stands
      <4>5. QED BY <4>4 DEF e
    <3>5. QED BY <3>3, <3>4
  <2>2. CASE ~CanReplace(a, over)
    <3> DEFINE n == Len(a) + 1
    <3>1. q.clips = AppendClip(a, clip) /\ q.replaced = [p.replaced EXCEPT ![t] = <<>>]
      BY <2>2 DEF Place, Skeleton, FreshClipId
    <3> HIDE DEF q, clip, a
    <3>2. n \in 1 .. Len(a) + 1 /\ n \in Nat /\ n <= n /\ n <= Len(a) + 1 /\ ~(n > Len(a) + 1)
      BY <1>5
    <3>3. q.clips = SubSeq(a, 1, n - 1) \o <<clip>> \o SubSeq(a, n, Len(a))
      BY <3>1, <3>2 DEF AppendClip, InsertClips
    <3>4. q.replaced[t] = <<>> /\ SubSeq(a, n, n - 1) = <<>>
      BY <1>3, <1>5, <3>1
    <3> HIDE DEF n
    <3>5. Stands(q, t, a, clip, n, n)
      BY <1>6, <1>7, <3>3, <3>4 DEF Stands
    <3>6. QED BY <3>2, <3>5
  <2>3. QED BY <2>1, <2>2
<1>9. Fit(a, q.status, q.dur)
  <2> HIDE DEF q, a
  <2> QED BY <1>3, <1>4, OtherTakesFit
<1> HIDE DEF q, clip, a
<1>10. PlacedTakes(q) # {} /\ Largest(PlacedTakes(q)) = t
  <2>1. t \in PlacedTakes(q)
    BY <1>4 DEF PlacedTakes, Pool
  <2>2. \A u \in PlacedTakes(q) : u \in Take /\ u <= t
    <3>1. TAKE u \in PlacedTakes(q)
    <3>2. u \in Take /\ (u = t \/ u \in PlacedTakes(p))
      BY <1>4 DEF PlacedTakes, Pool, SameOthers
    <3>3. QED BY <3>2 DEF Take
  <2>3. PlacedTakes(q) \in SUBSET Take
    BY <2>2
  <2>4. Largest(PlacedTakes(q)) \in PlacedTakes(q) /\ t <= Largest(PlacedTakes(q))
    BY <2>1, <2>3, LargestIn
  <2> DEFINE l == Largest(PlacedTakes(q))
  <2>5. l \in Take /\ l <= t /\ t <= l
    BY <2>2, <2>4
  <2> HIDE DEF l
  <2>6. l = t
    BY <2>5 DEF Take
  <2>7. QED BY <2>1, <2>6 DEF l
<1>11. CanDiscard(q) /\ Discarded(q).clips = a
  BY <1>1, <1>4, <1>8, <1>9, <1>10, UndoIs
<1>12. QED BY <1>11 DEF q, a

----------------------------------------------------------------------------
(* Hand edits.                                                             *)

\* A hand edit takes clips away, cuts, moves or pastes them.
LEMMA EditedFits ==
  ASSUME NEW d, Skeleton(d), ClipsFit(d), NEW f \in HandEdits(d)
  PROVE  ClipsFit(f)
<1>1. /\ Fit(d.clips, d.status, d.dur) /\ d.clips \in Seq(Clip) /\ Len(d.clips) \in Nat
      /\ DOMAIN d.clips = 1 .. Len(d.clips)
      /\ d.replaced \in [Take -> Seq(Clip)] /\ \A t \in Take : Together(d.replaced[t])
      /\ d.dur \in [Take -> Nat]
  BY FitIs DEF Fit
<1>2. ASSUME NEW i \in DOMAIN d.clips, f = [d EXCEPT !.clips = RemoveAt(@, i)] PROVE ClipsFit(f)
  <2>1. /\ Fit(<<>>, d.status, d.dur) /\ i \in 1 .. Len(d.clips) + 1 /\ i + 1 \in Nat /\ i <= i + 1
        /\ Len(<<>>) = 0
    BY <1>1, <1>2, NoneFit
  <2>2. Fit(SubSeq(d.clips, 1, i - 1) \o <<>> \o SubSeq(d.clips, i + 1, Len(d.clips)), d.status, d.dur)
    <3>1. \A k \in 1 .. Len(d.clips), j \in 1 .. Len(<<>>) : FALSE
      OBVIOUS
    <3>2. QED BY <1>1, <2>1, <3>1, SpliceFits
  <2>3. SubSeq(d.clips, 1, i - 1) \in Seq(Clip)
    BY <1>1, <1>2
  <2>4. SubSeq(d.clips, 1, i - 1) \o <<>> = SubSeq(d.clips, 1, i - 1)
    BY <2>3
  <2>5. Fit(RemoveAt(d.clips, i), d.status, d.dur)
    BY <2>2, <2>4 DEF RemoveAt
  <2>6. QED BY <1>2, <2>5, NewClipsFit
<1>3. ASSUME NEW i \in {k \in DOMAIN d.clips : d.clips[k].out > 1},
             f = [d EXCEPT !.clips[i].out = @ - 1]
      PROVE ClipsFit(f)
  <2> DEFINE cs == [d.clips EXCEPT ![i] = [d.clips[i] EXCEPT !.out = @ - 1]]
  <2>1. f = [d EXCEPT !.clips = cs]
    BY <1>3 DEF Skeleton
  <2>2. d.clips[i] \in Clip /\ d.clips[i].out > 1 /\ d.clips[i].out \in Nat
    <3>1. i \in DOMAIN d.clips /\ d.clips[i].out > 1
      BY <1>3
    <3>2. d.clips[i] \in Clip
      BY <1>1, <3>1
    <3>3. QED BY <3>1, <3>2 DEF Clip
  <2>3. DOMAIN cs = 1 .. Len(d.clips)
    BY <1>1
  <2>4. \A k \in 1 .. Len(d.clips) : cs[k] \in Clip /\ cs[k].id = d.clips[k].id
          /\ cs[k].take = d.clips[k].take /\ 0 < cs[k].out /\ cs[k].out <= d.clips[k].out
    <3>1. TAKE k \in 1 .. Len(d.clips)
    <3>2. d.clips[k] \in Clip /\ 0 < d.clips[k].out
      BY <1>1 DEF Fit, Together
    <3>3. cs[k] = d.clips[k] \/ (k = i /\ cs[k] = [d.clips[i] EXCEPT !.out = d.clips[i].out - 1])
      BY <1>1
    <3> HIDE DEF cs
    <3>4. QED BY <2>2, <3>2, <3>3 DEF Clip
  <2>5. cs \in Seq(Clip)
    <3>1. cs = [k \in 1 .. Len(d.clips) |-> cs[k]]
      BY <1>1
    <3>2. \A k \in 1 .. Len(d.clips) : cs[k] \in Clip
      BY <2>4
    <3> HIDE DEF cs
    <3>3. cs \in [1 .. Len(d.clips) -> Clip]
      BY <3>1, <3>2
    <3>4. QED BY <1>1, <3>3
  <2> HIDE DEF cs
  <2>6. \A k \in 1 .. Len(d.clips) : cs[k].out <= d.dur[d.clips[k].take]
    <3>1. TAKE k \in 1 .. Len(d.clips)
    <3>2. d.clips[k] \in Clip /\ cs[k] \in Clip /\ d.clips[k].out <= d.dur[d.clips[k].take]
      BY <1>1, <2>4 DEF Fit
    <3>3. d.clips[k].out \in Nat /\ cs[k].out \in Nat /\ d.dur[d.clips[k].take] \in Nat
      BY <1>1, <3>2 DEF Clip
    <3>4. QED BY <2>4, <3>2, <3>3
  <2>7. Fit(cs, d.status, d.dur)
    BY <1>1, <2>3, <2>4, <2>5, <2>6 DEF Fit, Together
  <2>8. QED BY <2>1, <2>7, NewClipsFit
<1>4. ASSUME 1 \in DOMAIN d.clips, f = [d EXCEPT !.clips = Append(Tail(@), Head(@))] PROVE ClipsFit(f)
  <2> DEFINE c == Head(d.clips)
             cs == Tail(d.clips)
  <2>1. d.clips # <<>> /\ c = d.clips[1] /\ c \in Clip
    BY <1>1, <1>4
  <2>2. Fit(cs, d.status, d.dur) /\ \A i \in DOMAIN cs : cs[i].id # c.id
    BY <1>1, <2>1, TailFits
  <2>3. /\ 0 < c.out /\ (c.id \in Take => c.id = c.take) /\ d.status[c.take] = "ok"
        /\ c.out <= d.dur[c.take]
    BY <1>1, <1>4, <2>1 DEF Fit, Together
  <2> HIDE DEF c, cs
  <2>4. Fit(Append(cs, c), d.status, d.dur)
    BY <2>1, <2>2, <2>3, AppendFits
  <2>5. f = [d EXCEPT !.clips = Append(cs, c)]
    BY <1>4 DEF c, cs
  <2>6. QED BY <2>4, <2>5, NewClipsFit
<1>5. ASSUME NEW t \in Take, NEW c \in ToSet(d.replaced[t]), c.id \notin ClipIds(d.clips),
             d.status[c.take] = "ok", c.out <= d.dur[c.take], f = [d EXCEPT !.clips = Append(@, c)]
      PROVE ClipsFit(f)
  <2>1. c \in Clip /\ 0 < c.out /\ (c.id \in Take => c.id = c.take)
    BY <1>1, <1>5 DEF ToSet, Together
  <2>2. \A i \in DOMAIN d.clips : d.clips[i].id # c.id
    BY <1>5 DEF ClipIds
  <2>3. Fit(Append(d.clips, c), d.status, d.dur)
    BY <1>1, <1>5, <2>1, <2>2, AppendFits
  <2>4. QED BY <1>5, <2>3, NewClipsFit
<1>6. ASSUME f = [d EXCEPT !.scene = ~@] PROVE ClipsFit(f)
  <2>1. Keeps(d, f)
    BY <1>6 DEF Skeleton, Keeps
  <2>2. QED BY <2>1, KeptFits
<1>7. QED BY <1>2, <1>3, <1>4, <1>5, <1>6 DEF HandEdits

\* What is merged of the file is sound, or the file is refused.
LEMMA MergedFits ==
  ASSUME NEW p, ClipsFit(p), NEW f, ClipsFit(f), TimelineSound(Merged(p, f))
  PROVE  ClipsFit(Merged(p, f))
<1> DEFINE q == Merged(p, f)
           Mine(x, y) == [t \in Take |-> IF p.status[t] # "none" THEN x[t] ELSE y[t]]
<1>1. q.clips = f.clips /\ q.dur = Mine(p.dur, f.dur) /\ q.replaced = Mine(p.replaced, f.replaced)
  BY DEF Merged
<1> HIDE DEF q
<1>2. TimelineSound(q)
  BY DEF q
<1>3. q.dur \in [Take -> Nat]
  BY <1>1 DEF ClipsFit
<1>4. q.replaced \in [Take -> Seq(Clip)] /\ \A t \in Take : Together(q.replaced[t])
  BY <1>1 DEF ClipsFit
<1>5. ClipsFit(q)
  BY <1>1, <1>2, <1>3, <1>4 DEF ClipsFit
<1>6. QED BY <1>5 DEF q

----------------------------------------------------------------------------
(* Every step keeps memory and disk fit.                                   *)

LEMMA WriteFits ==
  ASSUME ClipsInv, NEW p, ClipsFit(p), NEW saved, Write(p, saved) \/ Persist(p, saved)
  PROVE  ClipsInv'
<1>1. project' = p /\ (disk' = p \/ disk' = disk)
  BY DEF Write, Persist
<1>2. ClipsFit(project') /\ ClipsFit(disk')
  BY <1>1 DEF ClipsInv
<1>3. QED BY <1>2 DEF ClipsInv, ClipsFit, TimelineSound, Together

ClipsUntouched == UNCHANGED <<project, disk>>

LEMMA ClipsUntouchedKeeps == ClipsInv /\ ClipsUntouched => ClipsInv'
BY DEF ClipsInv, ClipsUntouched, ClipsFit, TimelineSound, Together

\* The take in flight is on no timeline.
LEMMA InFlightOff ==
  ASSUME FlightInv
  PROVE  OffTimeline(project, record.take) /\ Skeleton(project)
BY DEF FlightInv, InFlightIsRecording, InCapture, OffTimeline, Take, NoTake

LEMMA CountdownEndClips ==
  ASSUME ClipsInv, FlightInv, NEW waiting, NEW mail, NEW word, NEW cancels,
         EndCountdown(waiting, mail, word, cancels)
  PROVE  ClipsInv'
<1>1. PICK saved \in BOOLEAN : Persist(ReadyCuts(project), saved)
  BY DEF EndCountdown
<1>2. ClipsFit(ReadyCuts(project))
  BY InFlightOff, ReadyCutsFit DEF ClipsInv
<1>3. QED BY <1>1, <1>2, WriteFits

LEMMA BeginClips ==
  ASSUME ClipsInv, FlightInv, NEW over, NEW r, NEW wait, NEW saved \in BOOLEAN, NEW rest,
         BeginTake(over, r, wait, saved, rest)
  PROVE  ClipsInv'
<1> DEFINE t == NextTakeNumber
<1>1. Write(Begun(project, t), saved) /\ project.status[t] = "none"
  BY DEF BeginTake, CanBegin
<1>2. ClipsFit(Begun(project, t))
  <2> HIDE DEF t
  <2>1. OffTimeline(project, t)
    BY <1>1 DEF OffTimeline
  <2>2. QED BY <2>1, InFlightOff, BegunFits DEF ClipsInv
<1>3. QED BY <1>1, <1>2, WriteFits

LEMMA StartClips ==
  ASSUME ClipsInv, FlightInv, NEW secs, NEW over, NEW r, NEW wait, Start(secs, over, r, wait)
  PROVE  ClipsInv'
<1>1. CASE StartCountdown(secs, over, r, wait)
  BY <1>1, ClipsUntouchedKeeps DEF StartCountdown, ClipsUntouched
<1>2. ASSUME NEW saved \in BOOLEAN, BeginTake(over, r, wait, saved, inbox) PROVE ClipsInv'
  BY <1>2, BeginClips
<1>3. CASE DropBegin(r)
  BY <1>3, ClipsUntouchedKeeps DEF DropBegin, CommandDropped, ClipsUntouched
<1>4. QED BY <1>1, <1>2, <1>3 DEF Start

LEMMA CancelClips ==
  ASSUME ClipsInv, FlightInv, NEW r, CancelCountdown(r)
  PROVE  ClipsInv'
<1>1. CASE EndCountdown(pending \cup Opt(r), {Letter(Opt(r), "countdownCancelled", NoTake)},
                        "countdownEnded", TRUE)
  BY <1>1, CountdownEndClips
<1>2. CASE CommandDropped(r, ReadyCuts(project))
  BY <1>2, ClipsUntouchedKeeps DEF CommandDropped, ClipsUntouched
<1>3. QED BY <1>1, <1>2 DEF CancelCountdown

LEMMA DiscardLastClips ==
  ASSUME ClipsInv, FlightInv, NEW r, TakeDiscardLast(r)
  PROVE  ClipsInv'
<1>1. ASSUME NEW saved \in BOOLEAN, CanDiscard(project), Write(Discarded(project), saved)
      PROVE  ClipsInv'
  <2>1. ClipsFit(Discarded(project))
    BY <1>1, InFlightOff, DiscardedFits DEF ClipsInv
  <2>2. QED BY <1>1, <2>1, WriteFits
<1>2. CASE CommandDropped(r, Discarded(project))
  BY <1>2, ClipsUntouchedKeeps DEF CommandDropped, ClipsUntouched
<1>3. CASE UNCHANGED <<project, disk>>
  BY <1>3, ClipsUntouchedKeeps DEF ClipsUntouched
<1>4. CASE Refuse(r, "refused")
  BY <1>4, ClipsUntouchedKeeps DEF Refuse, ClipsUntouched
<1>5. QED BY <1>1, <1>2, <1>3, <1>4 DEF TakeDiscardLast

LEMMA TakePurgeClips ==
  ASSUME ClipsInv, FlightInv, NEW r, NEW t \in Take, TakePurge(r, t)
  PROVE  ClipsInv'
<1>1. ClipsOf(project, t) = {}
  BY DEF TakePurge, CanPurge
<1>2. ClipsFit(RemoveTake(project, t))
  BY <1>1, InFlightOff, RemovedFits DEF ClipsInv
<1>3. ASSUME NEW saved \in BOOLEAN, Write(RemoveTake(project, t), saved) PROVE ClipsInv'
  BY <1>2, <1>3, WriteFits
<1>4. CASE CommandDropped(r, RemoveTake(project, t))
  BY <1>4, ClipsUntouchedKeeps DEF CommandDropped, ClipsUntouched
<1>5. QED BY <1>3, <1>4 DEF TakePurge

LEMMA RequestClips ==
  ASSUME ClipsInv, FlightInv, Request
  PROVE  ClipsInv'
<1>1. ASSUME NEW r, NEW word, Refuse(r, word) PROVE ClipsInv'
  BY <1>1, ClipsUntouchedKeeps DEF Refuse, ClipsUntouched
<1>2. ASSUME NEW r, NEW ids, NEW secs, NEW wait, RecordStart(r, ids, secs, wait) PROVE ClipsInv'
  BY <1>2, StartClips DEF RecordStart
<1>3. ASSUME NEW r, NEW ids, NEW secs, RefuseStart(r, ids, secs) PROVE ClipsInv'
  BY <1>1, <1>3 DEF RefuseStart
<1>4. ASSUME NEW r, NEW cancel, StopRecording(r, cancel) PROVE ClipsInv'
  BY <1>4, ClipsUntouchedKeeps DEF StopRecording, ClipsUntouched
<1>5. ASSUME NEW r, JoinStop(r) PROVE ClipsInv'
  BY <1>5, ClipsUntouchedKeeps DEF JoinStop, ClipsUntouched
<1>6. ASSUME NEW r, NEW secs, NEW wait, RecordToggle(r, secs, wait) PROVE ClipsInv'
  BY <1>1, <1>2, <1>3, <1>4, <1>6, CancelClips DEF RecordToggle
<1>7. ASSUME NEW r, RecordCancel(r) PROVE ClipsInv'
  BY <1>1, <1>4, <1>7, CancelClips DEF RecordCancel
<1>8. ASSUME NEW r, RecordStop(r) PROVE ClipsInv'
  BY <1>1, <1>4, <1>5, <1>8, CancelClips DEF RecordStop
<1>9. ASSUME NEW r, NEW clip, Autocut(r, clip) PROVE ClipsInv'
  BY <1>9, ClipsUntouchedKeeps DEF Autocut, ClipsUntouched
<1>10. CASE Export
  BY <1>10, ClipsUntouchedKeeps DEF Export, ClipsUntouched
<1>11. QED
  BY <1>2, <1>3, <1>6, <1>7, <1>8, <1>9, <1>10, DiscardLastClips, TakePurgeClips DEF Request

LEMMA EndBrokenClips ==
  ASSUME ClipsInv, FlightInv, NEW word, EndBroken(project, word)
  PROVE  ClipsInv'
<1> DEFINE p == MarkBroken(project, record.take)
<1>1. PICK saved \in BOOLEAN : Write(ReadyCuts(p), saved)
  BY DEF EndBroken
<1>2. Skeleton(p) /\ ClipsFit(p)
  BY InFlightOff, BrokenSkeleton, BrokenFits DEF ClipsInv
<1> HIDE DEF p
<1>3. ClipsFit(ReadyCuts(p))
  BY <1>2, ReadyCutsFit
<1>4. QED BY <1>1, <1>3, WriteFits

\* The take's verdict, its clip, the discard asked for and the cuts that waited.
LEMMA FinalizeTakeClips ==
  ASSUME ClipsInv, FlightInv, record.take \in Take, NEW frames \in Lengths,
         FinalizeTake(record.take, frames)
  PROVE  ClipsInv'
<1> DEFINE t == record.take
           verdict == IF frames < MinTakeFrames THEN "tooShort"
                      ELSE IF record.cancelled THEN "cancelled" ELSE "placed"
           facts == CASE verdict = "tooShort" -> [project EXCEPT !.status[t] = "tooShort", !.dur[t] = frames]
                      [] verdict = "cancelled" -> [project EXCEPT !.status[t] = "ok", !.dur[t] = frames]
                      [] OTHER -> Place(project, t, frames, record.over)
           drops == record.discard /\ verdict = "placed" /\ CanDiscard(facts)
           kept == IF drops THEN Discarded(facts) ELSE facts
           p == ReadyCuts(kept)
<1>1. frames \in Nat /\ MinTakeFrames \in Nat \ {0}
  BY RecordAssumptions
<1>2. OffTimeline(project, t) /\ Skeleton(project) /\ ClipsFit(project)
  BY InFlightOff DEF ClipsInv
<1>3. Skeleton(facts) /\ ClipsFit(facts)
  <2>1. CASE verdict = "tooShort"
    <3>1. facts = [project EXCEPT !.status[t] = "tooShort", !.dur[t] = frames]
      BY <2>1
    <3>2. Skeleton([project EXCEPT !.status[t] = "tooShort", !.dur[t] = frames])
      BY <1>2 DEF Skeleton, Status
    <3>3. ClipsFit([project EXCEPT !.status[t] = "tooShort", !.dur[t] = frames])
      BY <1>1, <1>2, VerdictFits
    <3> HIDE DEF facts
    <3>4. QED BY <3>1, <3>2, <3>3
  <2>2. CASE verdict = "cancelled"
    <3>1. facts = [project EXCEPT !.status[t] = "ok", !.dur[t] = frames]
      BY <2>2
    <3>2. Skeleton([project EXCEPT !.status[t] = "ok", !.dur[t] = frames])
      BY <1>2 DEF Skeleton, Status
    <3>3. ClipsFit([project EXCEPT !.status[t] = "ok", !.dur[t] = frames])
      BY <1>1, <1>2, VerdictFits
    <3> HIDE DEF facts
    <3>4. QED BY <3>1, <3>2, <3>3
  <2>3. CASE verdict = "placed"
    <3>1. facts = Place(project, t, frames, record.over)
      BY <2>3
    <3>2. frames > 0
      BY <1>1, <2>3
    <3> HIDE DEF facts, verdict
    <3>3. Skeleton(Place(project, t, frames, record.over))
      BY <1>2, PlacedSkeleton
    <3>4. ClipsFit(Place(project, t, frames, record.over))
      BY <1>1, <1>2, <3>2, PlacedFits
    <3>5. QED BY <3>1, <3>3, <3>4
  <2>4. QED BY <2>1, <2>2, <2>3
<1>4. Skeleton(kept) /\ ClipsFit(kept)
  <2> HIDE DEF facts
  <2> QED BY <1>3, DiscardedSkeleton, DiscardedFits
<1>5. ClipsFit(p)
  <2> HIDE DEF kept
  <2> QED BY <1>4, ReadyCutsFit
<1>6. PICK saved \in BOOLEAN : Write(p, saved)
  BY DEF FinalizeTake
<1> HIDE DEF p
<1>7. QED BY <1>5, <1>6, WriteFits

LEMMA FinalizeProbedClips ==
  ASSUME ClipsInv, FlightInv, FinalizeProbed
  PROVE  ClipsInv'
<1>1. record.take \in Take
  BY DEF FinalizeProbed, FlightInv
<1>2. CASE EndUnprobed(record.take)
  <2>1. PICK saved \in BOOLEAN : Persist(ReadyCuts(project), saved)
    BY <1>2 DEF EndUnprobed
  <2>2. ClipsFit(ReadyCuts(project))
    BY InFlightOff, ReadyCutsFit DEF ClipsInv
  <2>3. QED BY <2>1, <2>2, WriteFits
<1>3. CASE EndBroken(project, "captureFailed")
  BY <1>3, EndBrokenClips
<1>4. ASSUME NEW frames \in Lengths, FinalizeTake(record.take, frames) PROVE ClipsInv'
  BY <1>1, <1>4, FinalizeTakeClips
<1>5. QED BY <1>2, <1>3, <1>4 DEF FinalizeProbed

LEMMA RecoverProbedClips ==
  ASSUME ClipsInv, FlightInv, RecoverProbed
  PROVE  ClipsInv'
<1> DEFINE t == Head(inbox).take
<1>1. CASE UNCHANGED <<project, disk>>
  BY <1>1, ClipsUntouchedKeeps DEF ClipsUntouched
<1>2. ASSUME project.status[t] = "recording"
      PROVE  OffTimeline(project, t) /\ Skeleton(project) /\ ClipsFit(project)
  BY <1>2 DEF OffTimeline, FlightInv, ClipsInv
<1>3. ASSUME project.status[t] = "recording", NEW saved \in BOOLEAN, Write(MarkBroken(project, t), saved)
      PROVE  ClipsInv'
  <2> HIDE DEF t
  <2>1. ClipsFit(MarkBroken(project, t))
    BY <1>2, <1>3, BrokenFits
  <2>2. QED BY <1>3, <2>1, WriteFits
<1>4. ASSUME project.status[t] = "recording", NEW saved \in BOOLEAN, NEW frames \in Lengths, NEW s,
             Write([project EXCEPT !.dur[t] = frames, !.status[t] = s], saved)
      PROVE  ClipsInv'
  <2> HIDE DEF t
  <2>1. frames \in Nat
    BY RecordAssumptions
  <2>2. ClipsFit([project EXCEPT !.dur[t] = frames, !.status[t] = s])
    BY <1>2, <1>4, <2>1, VerdictFits
  <2>3. QED BY <1>4, <2>2, WriteFits
<1> HIDE DEF t
<1>5. QED BY <1>1, <1>3, <1>4 DEF RecoverProbed, t

LEMMA EventClips ==
  ASSUME ClipsInv, FlightInv, HandleEvent
  PROVE  ClipsInv'
<1>1. ASSUME NEW saved \in BOOLEAN, Write(project, saved) PROVE ClipsInv'
  BY <1>1, WriteFits DEF ClipsInv
<1>2. CASE CaptureStarted \/ CaptureStopped
  BY <1>1, <1>2 DEF CaptureStarted, CaptureStopped
<1>3. CASE CaptureFailed \/ CaptureTimedOut
  BY <1>3, EndBrokenClips DEF CaptureFailed, CaptureTimedOut
<1>4. CASE StreamLost
  <2> DEFINE p == SetMissing(project, Head(inbox).take, Head(inbox).stream)
  <2>1. PICK saved \in BOOLEAN : Write(p, saved)
    BY <1>4 DEF StreamLost
  <2>2. Keeps(project, p)
    BY InFlightOff DEF Skeleton, SetMissing, Keeps
  <2> HIDE DEF p
  <2>3. ClipsFit(p)
    BY <2>2, KeptFits DEF ClipsInv
  <2>4. QED BY <2>1, <2>3, WriteFits
<1>5. CASE TimerFired
  <2>1. CASE UNCHANGED <<project, disk>>
    BY <2>1, ClipsUntouchedKeeps DEF ClipsUntouched
  <2>2. ASSUME NEW saved \in BOOLEAN,
               BeginTake(record.over, record.startReq, record.wait, saved, Rest)
        PROVE  ClipsInv'
    BY <2>2, BeginClips
  <2>3. CASE EndCountdown(pending, {}, WhyNotBegin, FALSE)
    BY <2>3, CountdownEndClips
  <2>4. QED BY <1>5, <2>1, <2>2, <2>3 DEF TimerFired
<1>6. CASE EngineWedged
  <2>1. CASE UNCHANGED <<project, disk>>
    BY <2>1, ClipsUntouchedKeeps DEF ClipsUntouched
  <2>2. QED BY <1>6, <2>1, CountdownEndClips, EndBrokenClips DEF EngineWedged
<1>7. CASE Ignore
  BY <1>7, ClipsUntouchedKeeps DEF Ignore, ClipsUntouched
<1>8. QED
  BY <1>2, <1>3, <1>4, <1>5, <1>6, <1>7, FinalizeProbedClips, RecoverProbedClips DEF HandleEvent

LEMMA SilenceClips ==
  ASSUME ClipsInv, FlightInv, NEW job, NEW cuts, SilenceDetected(job, cuts)
  PROVE  ClipsInv'
<1> DEFINE cs == CutClips(ReadyCuts(project).clips, {Analyzed(job, cuts)})
           p == [project EXCEPT !.clips = cs]
<1>1. CASE UNCHANGED <<project, disk>>
  BY <1>1, ClipsUntouchedKeeps DEF ClipsUntouched
<1>2. ASSUME NEW saved \in BOOLEAN, Persist(p, saved) PROVE ClipsInv'
  <2>1. project.dur \in [Take -> Nat] /\ Skeleton(project) /\ ClipsFit(project)
    BY InFlightOff DEF ClipsInv, ClipsFit
  <2>2. ClipsFit(ReadyCuts(project)) /\ ReadyCuts(project).status = project.status
        /\ ReadyCuts(project).dur = project.dur
    BY <2>1, ReadyCutsFit DEF ReadyCuts, Skeleton
  <2>3. Fit(ReadyCuts(project).clips, project.status, project.dur)
    BY <2>2, FitIs
  <2>4. Fit(cs, project.status, project.dur)
    BY <2>1, <2>3, CutFits
  <2> HIDE DEF cs
  <2>5. ClipsFit(p)
    BY <2>1, <2>4, NewClipsFit
  <2> HIDE DEF p
  <2>6. QED BY <1>2, <2>5, WriteFits
<1>3. QED BY <1>1, <1>2 DEF SilenceDetected

LEMMA EditClips ==
  ASSUME ClipsInv, FlightInv, ExternalEdit
  PROVE  ClipsInv'
<1>1. PICK f \in HandEdits(disk) :
        /\ TimelineSound(Merged(project, f))
        /\ project' = Merged(project, f)
        /\ disk' = Merged(project, f) \/ disk' = f
  BY DEF ExternalEdit
<1>2. ClipsFit(f)
  BY EditedFits DEF FlightInv, ClipsInv
<1>3. ClipsFit(Merged(project, f))
  BY <1>1, <1>2, MergedFits DEF ClipsInv
<1>4. ClipsFit(project') /\ ClipsFit(disk')
  BY <1>1, <1>2, <1>3
<1>5. QED BY <1>4 DEF ClipsInv, ClipsFit, TimelineSound, Together

LEMMA DeathClips ==
  ASSUME ClipsInv, HostDies
  PROVE  ClipsInv'
<1>1. project' = disk /\ disk' = disk
  BY DEF HostDies, Opens
<1>2. ClipsFit(project') /\ ClipsFit(disk')
  BY <1>1 DEF ClipsInv
<1>3. QED BY <1>2 DEF ClipsInv, ClipsFit, TimelineSound, Together

LEMMA NextClipsInv == ClipsInv /\ FlightInv /\ [Next]_vars => ClipsInv'
<1> SUFFICES ASSUME ClipsInv, FlightInv, [Next]_vars PROVE ClipsInv'
  OBVIOUS
<1>1. CASE Engine
  BY <1>1, ClipsUntouchedKeeps DEF Engine, ClipsUntouched
<1>2. CASE Outside
  <2>1. CASE \/ \E timer \in armed : TimerElapses(timer)
             \/ \E probe \in probes : ProbeReturns(probe)
             \/ \E p \in purges : PurgeReturns(p)
             \/ ExportReturns
    BY <2>1, ClipsUntouchedKeeps DEF TimerElapses, ProbeReturns, PurgeReturns, ExportReturns,
       ClipsUntouched
  <2>2. QED BY <1>2, <2>1, SilenceClips DEF Outside
<1>3. CASE UNCHANGED vars
  BY <1>3, ClipsUntouchedKeeps DEF ClipsUntouched, vars
<1>4. QED BY <1>1, <1>2, <1>3, RequestClips, EventClips, EditClips, DeathClips DEF Next

LEMMA InitClipsInv == Init => ClipsInv
<1> SUFFICES ASSUME Init PROVE ClipsInv
  OBVIOUS
<1>1. project \in InitProjects /\ disk = project
  BY DEF Init
<1>2. /\ project \in Project /\ TimelineSound(project) /\ Together(project.clips)
      /\ \A t \in Take : Together(project.replaced[t])
  BY <1>1, ProjectAssumption
<1>3. QED BY <1>1, <1>2 DEF ClipsInv, ClipsFit, Project

\* The timeline holds what validate accepts, in memory and on disk, for any
\* number of takes and clips: placing a take over others, giving back what it
\* replaced, cutting, purging, merging a hand edit and dying in between never
\* leave two clips with one id, a clip of a take that is not ok or one that
\* is longer than its take.
THEOREM TimelineStaysSound == Spec => []TimelineIsSound
<1>1. ClipsInv => TimelineIsSound
  BY DEF ClipsInv, ClipsFit, TimelineIsSound
<1>2. QED
  BY <1>1, InitClipsInv, NextClipsInv, InitFlightInv, NextFlightInv, InitRequestInv, NextRequestInv,
     PTL DEF Spec

----------------------------------------------------------------------------
(* A countdown has its own timer and nobody else's, and every command and *)
(* event is of the values its reader expects.                              *)

\* What is on its way, and that the engine captures a take exactly while it is in a phase.
MailTyped ==
  /\ EngineTypeOK /\ inbox \in Seq(Event)
  /\ run.phase = "none" <=> run.take = NoTake
  /\ probes \subseteq [take : Take, purpose : {"finalize", "recover"}]
  /\ nextTimer \in Nat /\ armed \subseteq Nat

\* Timer ids are given once, and no timer runs but a countdown's.
TimerInv ==
  /\ nextTimer > 0
  /\ armed \cup FiredTimers \subseteq 1 .. nextTimer - 1
  /\ record.name # "countdown" => armed = {}
  /\ CountdownHasItsTimer

----------------------------------------------------------------------------
(* Timers in a sequence of events.                                         *)

FiredIn(q) == {q[i].timer : i \in {k \in DOMAIN q : q[k].type = "timer"}}

Quiet(q) == q \in Seq(Event) /\ FiredIn(q) = {}

LEMMA FiredInConcat ==
  ASSUME NEW q \in Seq(Event), NEW s \in Seq(Event)
  PROVE  q \o s \in Seq(Event) /\ FiredIn(q \o s) = FiredIn(q) \cup FiredIn(s)
<1>1. /\ q \o s \in Seq(Event) /\ Len(q \o s) = Len(q) + Len(s)
      /\ \A i \in 1 .. Len(q) + Len(s) : (q \o s)[i] = IF i <= Len(q) THEN q[i] ELSE s[i - Len(q)]
  BY ConcatProperties
<1>2. /\ DOMAIN q = 1 .. Len(q) /\ Len(q) \in Nat /\ DOMAIN s = 1 .. Len(s) /\ Len(s) \in Nat
      /\ DOMAIN (q \o s) = 1 .. Len(q) + Len(s)
  BY <1>1, LenProperties
<1>3. FiredIn(q) \subseteq FiredIn(q \o s)
  BY <1>1, <1>2 DEF FiredIn
<1>4. FiredIn(s) \subseteq FiredIn(q \o s)
  <2> SUFFICES ASSUME NEW k \in 1 .. Len(s), s[k].type = "timer"
               PROVE  s[k].timer \in FiredIn(q \o s)
    BY <1>2 DEF FiredIn
  <2>1. k + Len(q) \in 1 .. Len(q) + Len(s) /\ (q \o s)[k + Len(q)] = s[k]
    BY <1>1, <1>2
  <2> QED
    BY <1>2, <2>1 DEF FiredIn
<1>5. FiredIn(q \o s) \subseteq FiredIn(q) \cup FiredIn(s)
  <2> SUFFICES ASSUME NEW k \in 1 .. Len(q) + Len(s), (q \o s)[k].type = "timer"
               PROVE  (q \o s)[k].timer \in FiredIn(q) \cup FiredIn(s)
    BY <1>2 DEF FiredIn
  <2>1. CASE k <= Len(q)
    BY <1>1, <1>2, <2>1 DEF FiredIn
  <2>2. CASE ~(k <= Len(q))
    <3>1. k - Len(q) \in 1 .. Len(s) /\ (q \o s)[k] = s[k - Len(q)]
      BY <1>1, <1>2, <2>2
    <3> QED
      BY <1>2, <3>1 DEF FiredIn
  <2> QED
    BY <2>1, <2>2
<1> QED
  BY <1>1, <1>3, <1>4, <1>5

LEMMA QuietConcat ==
  ASSUME NEW q \in Seq(Event), NEW s, Quiet(s)
  PROVE  q \o s \in Seq(Event) /\ FiredIn(q \o s) = FiredIn(q)
<1>1. s \in Seq(Event) /\ FiredIn(s) = {}
  BY DEF Quiet
<1>2. q \o s \in Seq(Event) /\ FiredIn(q \o s) = FiredIn(q) \cup FiredIn(s)
  BY <1>1, FiredInConcat
<1>3. FiredIn(q) \cup {} = FiredIn(q)
  OBVIOUS
<1> QED
  BY <1>1, <1>2, <1>3

LEMMA FiredInOne ==
  ASSUME NEW e \in Event
  PROVE  /\ <<e>> \in Seq(Event)
         /\ e.type # "timer" => FiredIn(<<e>>) = {}
         /\ e.type = "timer" => FiredIn(<<e>>) = {e.timer}
BY DEF FiredIn

LEMMA FiredInNone == Quiet(<<>>)
BY DEF Quiet, FiredIn

LEMMA FiredInTail ==
  ASSUME NEW q \in Seq(Event), q # <<>>
  PROVE  /\ Tail(q) \in Seq(Event) /\ Head(q) \in Event
         /\ FiredIn(Tail(q)) \subseteq FiredIn(q)
         /\ Head(q).type = "timer" => Head(q).timer \in FiredIn(q)
         /\ \A n \in FiredIn(q) :
              n \in FiredIn(Tail(q)) \/ (Head(q).type = "timer" /\ Head(q).timer = n)
<1>1. /\ Head(q) \in Event /\ Tail(q) \in Seq(Event) /\ Len(Tail(q)) = Len(q) - 1
      /\ \A i \in 1 .. Len(Tail(q)) : Tail(q)[i] = q[i + 1]
  BY HeadTailProperties
<1>2. /\ Head(q) = q[1] /\ DOMAIN q = 1 .. Len(q) /\ Len(q) \in Nat \ {0}
      /\ DOMAIN Tail(q) = 1 .. Len(q) - 1
  BY <1>1, LenProperties, EmptySeq
<1>3. FiredIn(Tail(q)) \subseteq FiredIn(q)
  BY <1>1, <1>2 DEF FiredIn
<1>4. Head(q).type = "timer" => Head(q).timer \in FiredIn(q)
  BY <1>2 DEF FiredIn
<1>5. ASSUME NEW n \in FiredIn(q)
      PROVE  n \in FiredIn(Tail(q)) \/ (Head(q).type = "timer" /\ Head(q).timer = n)
  <2>1. PICK i \in 1 .. Len(q) : q[i].type = "timer" /\ q[i].timer = n
    BY <1>2, <1>5 DEF FiredIn
  <2>2. CASE i = 1
    BY <1>2, <2>1, <2>2
  <2>3. CASE i # 1
    <3>1. i - 1 \in 1 .. Len(q) - 1 /\ Tail(q)[i - 1] = q[i]
      BY <1>1, <1>2, <2>3
    <3> QED
      BY <1>2, <2>1, <3>1 DEF FiredIn
  <2> QED
    BY <2>2, <2>3
<1> QED
  BY <1>1, <1>3, <1>4, <1>5

LEMMA QuietEvents ==
  /\ \A t \in Take : {Started(t), Failed(t), Stopped(t), TimedOut(t)} \subseteq Event
  /\ \A t \in Take, s \in Stream : Lost(t, s) \in Event
  /\ Wedged \in Event
  /\ \A t \in Take : Quiet(<<Started(t)>>) /\ Quiet(<<Failed(t)>>) /\ Quiet(<<Stopped(t)>>)
                     /\ Quiet(<<TimedOut(t)>>)
  /\ \A t \in Take, s \in Stream : Quiet(<<Lost(t, s)>>)
  /\ Quiet(<<Wedged>>)
  /\ \A t \in Take : Quiet(<<Wedged, Failed(t)>>)
<1>1. /\ \A t \in Take : {Started(t), Failed(t), Stopped(t), TimedOut(t)} \subseteq Event
      /\ \A t \in Take, s \in Stream : Lost(t, s) \in Event
      /\ Wedged \in Event
  BY DEF Event, EngineEvent, Started, Failed, Stopped, TimedOut, Lost, Wedged
<1>2. /\ \A t \in Take : /\ Started(t).type # "timer" /\ Failed(t).type # "timer"
                         /\ Stopped(t).type # "timer" /\ TimedOut(t).type # "timer"
      /\ \A t \in Take, s \in Stream : Lost(t, s).type # "timer"
      /\ Wedged.type # "timer"
  BY DEF Started, Failed, Stopped, TimedOut, Lost, Wedged
<1>3. \A t \in Take : Quiet(<<Wedged, Failed(t)>>)
  <2> SUFFICES ASSUME NEW t \in Take PROVE Quiet(<<Wedged, Failed(t)>>)
    OBVIOUS
  <2>1. Wedged \in Event /\ Failed(t) \in Event /\ Wedged.type # "timer" /\ Failed(t).type # "timer"
    BY <1>1, <1>2
  <2> QED
    BY <2>1 DEF Quiet, FiredIn
<1> QED
  BY <1>1, <1>2, <1>3, FiredInOne DEF Quiet

----------------------------------------------------------------------------
(* What each side sends.                                                   *)

LEMMA EngineMail ==
  ASSUME MailTyped, EngineStep
  PROVE  /\ EngineTypeOK' /\ (run'.phase = "none" <=> run'.take = NoTake)
         /\ \E s : Quiet(s) /\ inbox' = inbox \o s
<1> USE DEF NoTake
<1>1. inbox \in Seq(Event) /\ inbox \o <<>> = inbox /\ Quiet(<<>>)
  BY FiredInNone, ConcatEmptySeq DEF MailTyped
<1>2. NoRun \in [take : Take \cup {NoTake}, phase : RunPhase] /\ NoRun.take = NoTake /\ NoRun.phase = "none"
  BY DEF NoRun, RunPhase
<1>3. run.phase # "none" => run.take \in Take
  BY DEF MailTyped, EngineTypeOK
<1>4. cmds # <<>> => Head(cmds) \in Command /\ Head(cmds).take \in Take /\ Tail(cmds) \in Seq(Command)
  <2>1. cmds \in Seq(Command)
    BY DEF MailTyped, EngineTypeOK
  <2>2. cmds # <<>> => Head(cmds) \in Command /\ Tail(cmds) \in Seq(Command)
    BY <2>1, HeadTailProperties
  <2> QED
    BY <2>2 DEF Command
<1>5. CASE HandleStart
  <2> DEFINE t == Head(cmds).take
  <2>1. t \in Take /\ t # NoTake /\ cmds' \in Seq(Command) /\ UNCHANGED <<lost, thread, wedged>>
    BY <1>4, <1>5 DEF HandleStart, Next1, Take
  <2> HIDE DEF t
  <2>2. run' = run \/ run' = [take |-> t, phase |-> "opening"]
    BY <1>5 DEF HandleStart, t
  <2>3. inbox' = inbox \/ inbox' = inbox \o <<Failed(t)>>
    BY <1>5 DEF HandleStart, Emit, t
  <2>4. EngineTypeOK' /\ (run'.phase = "none" <=> run'.take = NoTake)
    BY <2>1, <2>2 DEF MailTyped, EngineTypeOK, RunPhase
  <2> QED
    BY <1>1, <2>1, <2>3, <2>4, QuietEvents
<1>6. CASE HandleStop
  <2> DEFINE t == Head(cmds).take
  <2>1. t \in Take /\ cmds' \in Seq(Command) /\ UNCHANGED <<thread, wedged>>
    BY <1>4, <1>6 DEF HandleStop, Next1
  <2> HIDE DEF t
  <2>2. \/ run' = run /\ lost' = lost
        \/ run' = NoRun /\ lost' = {}
        \/ /\ run' = [run EXCEPT !.phase = "stopping"] /\ lost' = lost
           /\ run.phase \in {"starting", "recording"}
    BY <1>6 DEF HandleStop, TakeEnds, t
  <2>3. inbox' = inbox \/ inbox' = inbox \o <<Stopped(t)>>
    BY <1>6 DEF HandleStop, Emit, t
  <2>4. EngineTypeOK' /\ (run'.phase = "none" <=> run'.take = NoTake)
    BY <1>2, <2>1, <2>2 DEF MailTyped, EngineTypeOK, RunPhase
  <2> QED
    BY <1>1, <2>1, <2>3, <2>4, QuietEvents
<1>7. CASE Attach
  <2>1. EngineTypeOK' /\ (run'.phase = "none" <=> run'.take = NoTake)
    BY <1>7 DEF Attach, MailTyped, EngineTypeOK, RunPhase
  <2> QED
    BY <1>1, <1>7, <2>1 DEF Attach
<1>8. CASE Healthy
  <2>1. EngineTypeOK' /\ (run'.phase = "none" <=> run'.take = NoTake)
    BY <1>8 DEF Healthy, MailTyped, EngineTypeOK, RunPhase
  <2> QED
    BY <1>3, <1>8, <2>1, QuietEvents DEF Healthy, Emit
<1>9. CASE FailTake \/ FinishTake \/ WedgeOpening
  <2>1. /\ run' = NoRun /\ lost' = {} /\ cmds' = cmds /\ thread' = thread
        /\ wedged' = wedged \/ wedged' = TRUE
    BY <1>9 DEF FailTake, FinishTake, WedgeOpening, TakeEnds
  <2>2. EngineTypeOK' /\ (run'.phase = "none" <=> run'.take = NoTake)
    BY <1>2, <2>1 DEF MailTyped, EngineTypeOK
  <2> QED
    BY <1>3, <1>9, <2>2, QuietEvents DEF FailTake, FinishTake, WedgeOpening, Emit
<1>10. CASE Panic \/ ReportPanic \/ WedgeIdle
  <2>1. /\ run' = run \/ run' = NoRun
        /\ lost' = lost \/ lost' = {}
        /\ cmds' = cmds \/ cmds' = <<>>
        /\ thread' \in {thread, "dropped", "dead"}
        /\ wedged' \in {wedged, TRUE}
    BY <1>10 DEF Panic, ReportPanic, WedgeIdle, TakeEnds
  <2>2. EngineTypeOK' /\ (run'.phase = "none" <=> run'.take = NoTake)
    <3>1. run' \in [take : Take \cup {NoTake}, phase : RunPhase] /\ (run'.phase = "none" <=> run'.take = NoTake)
      BY <1>2, <2>1 DEF MailTyped, EngineTypeOK
    <3>2. cmds' \in Seq(Command) /\ lost' \in SUBSET Stream
      BY <2>1, EmptySeq DEF MailTyped, EngineTypeOK
    <3>3. thread' \in {"up", "dropped", "dead"} /\ wedged' \in BOOLEAN
      BY <2>1 DEF MailTyped, EngineTypeOK
    <3> QED
      BY <3>1, <3>2, <3>3 DEF EngineTypeOK
  <2> QED
    BY <1>1, <1>10, <2>2, QuietEvents DEF Panic, ReportPanic, WedgeIdle, Emit
<1>11. ASSUME NEW s \in Stream, LoseStream(s)
       PROVE  /\ EngineTypeOK' /\ (run'.phase = "none" <=> run'.take = NoTake)
              /\ \E q : Quiet(q) /\ inbox' = inbox \o q
  <2>1. EngineTypeOK' /\ (run'.phase = "none" <=> run'.take = NoTake)
    BY <1>11 DEF LoseStream, MailTyped, EngineTypeOK
  <2>2. inbox' = inbox \/ inbox' = inbox \o <<Lost(run.take, s)>>
    BY <1>11 DEF LoseStream, Emit
  <2>3. run.take \in Take
    BY <1>3, <1>11 DEF LoseStream
  <2>4. Quiet(<<Lost(run.take, s)>>)
    BY <2>3, QuietEvents
  <2> QED
    BY <1>1, <2>1, <2>2, <2>4
<1> QED
  BY <1>5, <1>6, <1>7, <1>8, <1>9, <1>10, <1>11 DEF EngineStep, EngineProgress

\* The session's commands, and what comes back at once for an engine that is gone.
LEMMA SentMail ==
  ASSUME MailTyped, NEW t \in Take, NEW cmd \in {StartCapture(t), StopCapture(t)}, NEW rest \in Seq(Event),
         Sends(cmd), inbox' = rest \o AnsweredForTheDead(cmd)
  PROVE  cmds' \in Seq(Command) /\ inbox' \in Seq(Event) /\ FiredTimers' = FiredIn(rest)
<1>1. cmd \in Command /\ cmd.take = t
  BY DEF StartCapture, StopCapture, Command
<1>2. cmds' \in Seq(Command)
  BY <1>1, AppendProperties DEF Sends, MailTyped, EngineTypeOK
<1>3. Quiet(AnsweredForTheDead(cmd))
  BY <1>1, FiredInNone, QuietEvents DEF AnsweredForTheDead
<1>4. inbox' \in Seq(Event) /\ FiredIn(inbox') = FiredIn(rest)
  <2> DEFINE a == AnsweredForTheDead(cmd)
  <2>1. Quiet(a) /\ inbox' = rest \o a
    BY <1>3
  <2> HIDE DEF a
  <2>2. rest \o a \in Seq(Event) /\ FiredIn(rest \o a) = FiredIn(rest)
    BY <2>1, QuietConcat
  <2> QED
    BY <2>1, <2>2
<1> QED
  BY <1>2, <1>4 DEF FiredTimers, FiredIn

LEMMA CaptureMail ==
  ASSUME MailTyped, NEW t \in Take, NEW folder, NEW saved, NEW rest \in Seq(Event),
         Capture(t, folder, saved, rest)
  PROVE  cmds' \in Seq(Command) /\ inbox' \in Seq(Event) /\ FiredTimers' = FiredIn(rest)
<1>1. CASE Sends(StartCapture(t)) /\ inbox' = rest \o AnsweredForTheDead(StartCapture(t))
  BY <1>1, SentMail
<1>2. CASE UNCHANGED cmds /\ inbox' = rest \o <<Failed(t)>>
  <2>1. Quiet(<<Failed(t)>>)
    BY QuietEvents
  <2>2. rest \o <<Failed(t)>> \in Seq(Event) /\ FiredIn(rest \o <<Failed(t)>>) = FiredIn(rest)
    BY <2>1, QuietConcat
  <2>3. inbox' \in Seq(Event) /\ FiredIn(inbox') = FiredIn(rest)
    BY <1>2, <2>2
  <2> QED
    BY <1>2, <2>3 DEF FiredTimers, FiredIn, MailTyped, EngineTypeOK
<1> QED
  BY <1>1, <1>2 DEF Capture

----------------------------------------------------------------------------
(* The ways a step can go.                                                 *)

\* A step of the session leaves the engine's own state alone.
SessionLeaves == UNCHANGED <<run, lost, thread, wedged>>

LEMMA MailStays ==
  ASSUME MailTyped, SessionLeaves, cmds' \in Seq(Command), inbox' \in Seq(Event),
         probes' \subseteq [take : Take, purpose : {"finalize", "recover"}],
         nextTimer' \in Nat, armed' \subseteq Nat
  PROVE  MailTyped'
BY DEF MailTyped, SessionLeaves, EngineTypeOK

\* Timers stay as they are, and what fired is read unless it is stale.
LEMMA TimersStay ==
  ASSUME TimerInv, UNCHANGED <<nextTimer, armed>>,
         record'.name = record.name, record'.timer = record.timer,
         FiredTimers' \subseteq FiredTimers,
         record.name = "countdown" /\ record.timer \in FiredTimers => record.timer \in FiredTimers'
  PROVE  TimerInv'
<1>1. /\ nextTimer' > 0 /\ armed' \cup FiredTimers' \subseteq 1 .. nextTimer' - 1
      /\ record'.name # "countdown" => armed' = {}
  BY DEF TimerInv
<1>2. CountdownHasItsTimer'
  BY DEF TimerInv, CountdownHasItsTimer
<1> QED
  BY <1>1, <1>2 DEF TimerInv

\* No countdown (any more), and no timer.
LEMMA NoTimers ==
  ASSUME TimerInv, nextTimer' = nextTimer, armed' = {}, record'.name # "countdown",
         FiredTimers' \subseteq FiredTimers
  PROVE  TimerInv'
BY DEF TimerInv, CountdownHasItsTimer

\* A second begins.
LEMMA SecondBegins ==
  ASSUME TimerInv, nextTimer \in Nat, armed = {},
         nextTimer' = nextTimer + 1, armed' = armed \cup {nextTimer},
         record'.name = "countdown", record'.timer = nextTimer,
         FiredTimers' \subseteq FiredTimers
  PROVE  TimerInv'
<1>1. nextTimer > 0 /\ FiredTimers' \subseteq 1 .. nextTimer - 1
  BY DEF TimerInv
<1>2. nextTimer \notin FiredTimers' /\ armed' = {nextTimer}
  BY <1>1
<1>3. nextTimer' > 0 /\ armed' \cup FiredTimers' \subseteq 1 .. nextTimer' - 1
  BY <1>1, <1>2
<1>4. CountdownHasItsTimer'
  BY <1>2 DEF CountdownHasItsTimer
<1> QED
  BY <1>3, <1>4 DEF TimerInv

CountdownInv == MailTyped /\ TimerInv

LEMMA TimersUntouched ==
  ASSUME CountdownInv, UNCHANGED <<engineVars, inbox, nextTimer, armed, record, probes>>
  PROVE  CountdownInv'
<1>1. MailTyped'
  BY DEF CountdownInv, MailTyped, EngineTypeOK, engineVars
<1>2. FiredTimers' = FiredTimers
  BY DEF FiredTimers
<1>3. TimerInv'
  BY <1>2, TimersStay DEF CountdownInv
<1> QED
  BY <1>1, <1>3 DEF CountdownInv

\* The phase goes on under another name than countdown, with nothing but messages sent.
LEMMA MailOnly ==
  ASSUME CountdownInv, SessionLeaves, UNCHANGED <<nextTimer, armed, probes>>,
         cmds' \in Seq(Command), inbox' \in Seq(Event), FiredTimers' \subseteq FiredTimers,
         record.name # "countdown", record'.name # "countdown"
  PROVE  CountdownInv'
<1>1. MailTyped'
  BY MailStays DEF CountdownInv, MailTyped
<1>2. TimerInv'
  BY NoTimers DEF CountdownInv, TimerInv
<1> QED
  BY <1>1, <1>2 DEF CountdownInv

----------------------------------------------------------------------------
(* Requests.                                                               *)

LEMMA BeginTimers ==
  ASSUME CountdownInv, FlightInv, SessionLeaves, NEW over, NEW r, NEW wait, NEW saved,
         NEW rest \in Seq(Event), FiredIn(rest) \subseteq FiredTimers,
         BeginTake(over, r, wait, saved, rest), UNCHANGED <<nextTimer, armed, probes>>, armed = {}
  PROVE  CountdownInv'
<1> DEFINE t == NextTakeNumber
<1>1. t \in Take
  BY NextIsTake
<1>2. PICK folder : Capture(t, folder, saved, rest) /\ record' = Starting(t, over, r, wait)
  BY DEF BeginTake
<1>3. record'.name # "countdown"
  BY <1>2 DEF Starting, Idle
<1> HIDE DEF t
<1>4. cmds' \in Seq(Command) /\ inbox' \in Seq(Event) /\ FiredTimers' = FiredIn(rest)
  BY <1>1, <1>2, CaptureMail DEF CountdownInv
<1>5. MailTyped'
  BY <1>4, MailStays DEF CountdownInv, MailTyped
<1>6. TimerInv'
  BY <1>3, <1>4, NoTimers DEF CountdownInv
<1> QED
  BY <1>5, <1>6 DEF CountdownInv

LEMMA FiredIsFiredIn == FiredTimers = FiredIn(inbox)
BY DEF FiredTimers, FiredIn

LEMMA StartTimers ==
  ASSUME CountdownInv, FlightInv, SessionLeaves, IsIdle, NEW secs, NEW over, NEW r, NEW wait,
         Start(secs, over, r, wait), probes' = probes
  PROVE  CountdownInv'
<1>1. armed = {} /\ record.name # "countdown"
  BY DEF CountdownInv, TimerInv, IsIdle
<1>2. CASE StartCountdown(secs, over, r, wait)
  <2>1. /\ record'.name = "countdown" /\ record'.timer = nextTimer
        /\ nextTimer' = nextTimer + 1 /\ armed' = armed \cup {nextTimer}
        /\ UNCHANGED <<cmds, inbox>>
    BY <1>2 DEF StartCountdown, Countdown, Idle
  <2>2. FiredTimers' = FiredTimers
    BY <2>1 DEF FiredTimers
  <2>3. TimerInv'
    BY <1>1, <2>1, <2>2, SecondBegins DEF CountdownInv, MailTyped
  <2>4. MailTyped'
    BY <2>1, MailStays DEF CountdownInv, MailTyped, EngineTypeOK
  <2> QED
    BY <2>3, <2>4 DEF CountdownInv
<1>3. ASSUME NEW saved, BeginTake(over, r, wait, saved, inbox), UNCHANGED timerVars
      PROVE  CountdownInv'
  <2>1. inbox \in Seq(Event)
    BY DEF CountdownInv, MailTyped
  <2> QED
    BY <1>1, <1>3, <2>1, BeginTimers, FiredIsFiredIn DEF timerVars
<1>4. CASE DropBegin(r)
  BY <1>4, TimersUntouched DEF DropBegin, CommandDropped, timerVars, SessionLeaves, engineVars
<1> QED
  BY <1>2, <1>3, <1>4 DEF Start

\* A take that starts or records is stopped.
LEMMA StopTimers ==
  ASSUME CountdownInv, FlightInv, SessionLeaves, Capturing, NEW r, NEW cancel,
         NEW rest \in Seq(Event), FiredIn(rest) \subseteq FiredTimers,
         StopsCapture(r, cancel, rest), UNCHANGED <<nextTimer, armed, probes>>
  PROVE  CountdownInv'
<1>1. record.take \in Take /\ record.name # "countdown"
  BY DEF Capturing, FlightInv
<1>2. record'.name # "countdown"
  BY DEF StopsCapture, Finalizing, Idle
<1>3. Sends(StopCapture(record.take)) /\ inbox' = rest \o AnsweredForTheDead(StopCapture(record.take))
  BY DEF StopsCapture
<1>4. cmds' \in Seq(Command) /\ inbox' \in Seq(Event) /\ FiredTimers' = FiredIn(rest)
  BY <1>1, <1>3, SentMail DEF CountdownInv
<1> QED
  BY <1>1, <1>2, <1>4, MailOnly

\* A countdown ends, and its timer with it.
LEMMA EndTimers ==
  ASSUME CountdownInv, SessionLeaves, probes' = probes, NEW waiting, NEW mail, NEW word, NEW cancel,
         EndCountdown(waiting, mail, word, cancel), armed = {} \/ cancel = TRUE,
         inbox' \in Seq(Event), FiredTimers' \subseteq FiredTimers
  PROVE  CountdownInv'
<1>1. record'.name # "countdown" /\ nextTimer' = nextTimer /\ cmds' = cmds
      /\ armed' = Disarmed(cancel)
  BY DEF EndCountdown, Idle
<1>2. armed' = {}
  BY <1>1 DEF Disarmed, CountdownInv, TimerInv, CountdownHasItsTimer
<1>3. TimerInv'
  BY <1>1, <1>2, NoTimers DEF CountdownInv
<1>4. MailTyped'
  BY <1>1, <1>2, MailStays DEF CountdownInv, MailTyped, EngineTypeOK
<1> QED
  BY <1>3, <1>4 DEF CountdownInv

LEMMA RequestTimers ==
  ASSUME CountdownInv, FlightInv, RequestInv, Request
  PROVE  CountdownInv'
<1>1. ASSUME NEW r, NEW word, Refuse(r, word) PROVE CountdownInv'
  BY <1>1, TimersUntouched DEF Refuse, hostVars, timerVars
<1>2. ASSUME NEW r, NEW ids, NEW secs, NEW wait, RecordStart(r, ids, secs, wait)
      PROVE  CountdownInv'
  BY <1>2, StartTimers DEF RecordStart, Elsewhere, SessionLeaves
<1>3. ASSUME NEW r, NEW ids, NEW secs, RefuseStart(r, ids, secs) PROVE CountdownInv'
  BY <1>1, <1>3 DEF RefuseStart
<1>4. ASSUME NEW r, CancelCountdown(r) PROVE CountdownInv'
  <2>1. SessionLeaves /\ probes' = probes
    BY <1>4 DEF CancelCountdown, Elsewhere, SessionLeaves
  <2>2. CASE CommandDropped(r, ReadyCuts(project))
    BY <2>1, <2>2, TimersUntouched DEF CommandDropped, SessionLeaves, engineVars, timerVars
  <2>3. ASSUME NEW waiting, NEW mail, EndCountdown(waiting, mail, "countdownEnded", TRUE),
               UNCHANGED inbox
        PROVE  CountdownInv'
    <3>1. FiredTimers' = FiredTimers /\ inbox' \in Seq(Event)
      BY <2>3 DEF FiredTimers, CountdownInv, MailTyped
    <3> QED
      BY <2>1, <2>3, <3>1, EndTimers
  <2> QED
    BY <1>4, <2>2, <2>3 DEF CancelCountdown
<1>5. ASSUME NEW r, NEW cancel, StopRecording(r, cancel) PROVE CountdownInv'
  <2>1. inbox \in Seq(Event)
    BY DEF CountdownInv, MailTyped
  <2> QED
    BY <1>5, <2>1, StopTimers, FiredIsFiredIn DEF StopRecording, Elsewhere, SessionLeaves, timerVars
<1>6. ASSUME UNCHANGED <<engineVars, inbox, timerVars, probes>>,
             record'.name = record.name, record'.timer = record.timer
      PROVE  CountdownInv'
  <2>1. FiredTimers' = FiredTimers
    BY <1>6 DEF FiredTimers
  <2>2. TimerInv'
    BY <1>6, <2>1, TimersStay DEF CountdownInv, timerVars
  <2>3. MailTyped'
    BY <1>6, MailStays DEF CountdownInv, MailTyped, EngineTypeOK, SessionLeaves, engineVars, timerVars
  <2> QED
    BY <2>2, <2>3 DEF CountdownInv
<1>7. ASSUME NEW r, JoinStop(r) PROVE CountdownInv'
  BY <1>6, <1>7 DEF JoinStop, RequestInv, RequestsTyped, RecordTyped
<1>8. ASSUME NEW r, TakeDiscardLast(r) PROVE CountdownInv'
  <2>1. CASE record' = [record EXCEPT !.discard = TRUE, !.discardReq = r]
             /\ UNCHANGED <<engineVars, inbox, timerVars, probes>>
    BY <1>6, <2>1 DEF RequestInv, RequestsTyped, RecordTyped
  <2>2. CASE UNCHANGED <<cmds, inbox, record, timerVars>> /\ Elsewhere /\ UNCHANGED probes
    BY <1>6, <2>2 DEF Elsewhere, engineVars
  <2> QED
    BY <1>1, <1>8, <2>1, <2>2 DEF TakeDiscardLast, CommandDropped
<1>9. ASSUME NEW r, NEW clip, Autocut(r, clip) PROVE CountdownInv'
  BY <1>6, <1>9 DEF Autocut
<1>10. ASSUME NEW r, NEW t, TakePurge(r, t) PROVE CountdownInv'
  BY <1>6, <1>10 DEF TakePurge, CommandDropped, engineVars
<1>11. CASE Export
  BY <1>6, <1>11 DEF Export
<1>12. ASSUME NEW r, RecordStop(r) PROVE CountdownInv'
  BY <1>1, <1>4, <1>5, <1>7, <1>12 DEF RecordStop
<1>13. ASSUME NEW r, RecordCancel(r) PROVE CountdownInv'
  BY <1>1, <1>4, <1>5, <1>13 DEF RecordCancel
<1>14. ASSUME NEW r, NEW secs, NEW wait, RecordToggle(r, secs, wait) PROVE CountdownInv'
  BY <1>1, <1>2, <1>3, <1>4, <1>5, <1>14 DEF RecordToggle
<1> QED
  BY <1>2, <1>3, <1>8, <1>9, <1>10, <1>11, <1>12, <1>13, <1>14 DEF Request

----------------------------------------------------------------------------
(* Events.                                                                 *)

\* What is left to read once the oldest event is read.
LEMMA RestOfMail ==
  ASSUME CountdownInv, inbox # <<>>
  PROVE  /\ Head(inbox) \in Event /\ Rest \in Seq(Event) /\ FiredIn(Rest) \subseteq FiredTimers
         /\ Head(inbox).type = "timer" => Head(inbox).timer \in FiredTimers
         /\ Head(inbox).type # "timer" => FiredIn(Rest) = FiredTimers
         /\ \A n \in FiredTimers : n \in FiredIn(Rest)
                                   \/ (Head(inbox).type = "timer" /\ Head(inbox).timer = n)
<1>1. inbox \in Seq(Event)
  BY DEF CountdownInv, MailTyped
<1>2. /\ Tail(inbox) \in Seq(Event) /\ Head(inbox) \in Event
      /\ FiredIn(Tail(inbox)) \subseteq FiredIn(inbox)
      /\ Head(inbox).type = "timer" => Head(inbox).timer \in FiredIn(inbox)
      /\ \A n \in FiredIn(inbox) :
           n \in FiredIn(Tail(inbox)) \/ (Head(inbox).type = "timer" /\ Head(inbox).timer = n)
  BY <1>1, FiredInTail
<1> HIDE DEF FiredIn
<1> QED
  BY <1>2, FiredIsFiredIn DEF Rest

\* An event of another kind than a timer's is read and the phase goes on.
LEMMA ReadOnly ==
  ASSUME CountdownInv, SessionLeaves, inbox # <<>>, Head(inbox).type # "timer", inbox' = Rest,
         UNCHANGED <<cmds, timerVars>>, record'.name = record.name, record'.timer = record.timer,
         probes' \subseteq [take : Take, purpose : {"finalize", "recover"}]
  PROVE  CountdownInv'
<1>1. FiredTimers' = FiredTimers /\ inbox' \in Seq(Event)
  BY RestOfMail DEF FiredTimers, FiredIn
<1>2. TimerInv'
  BY <1>1, TimersStay DEF CountdownInv, timerVars
<1>3. MailTyped'
  BY <1>1, MailStays DEF CountdownInv, MailTyped, EngineTypeOK, timerVars
<1> QED
  BY <1>2, <1>3 DEF CountdownInv

\* The event read ends a phase that is no countdown.
LEMMA ReadLast ==
  ASSUME CountdownInv, SessionLeaves, inbox # <<>>, inbox' = Rest, UNCHANGED <<cmds, timerVars, probes>>,
         record.name # "countdown", record'.name # "countdown"
  PROVE  CountdownInv'
<1>1. FiredTimers' \subseteq FiredTimers /\ inbox' \in Seq(Event)
  BY RestOfMail DEF FiredTimers, FiredIn
<1> QED
  BY <1>1, MailOnly DEF CountdownInv, MailTyped, EngineTypeOK, timerVars

LEMMA TimerFiredTimers ==
  ASSUME CountdownInv, FlightInv, RequestInv, SessionLeaves, TimerFired
  PROVE  CountdownInv'
<1>1. /\ inbox # <<>> /\ Head(inbox).type = "timer" /\ record.name = "countdown"
      /\ record.timer = Head(inbox).timer /\ probes' = probes
  BY DEF TimerFired, Is
<1>2. record.timer \in FiredTimers /\ Rest \in Seq(Event) /\ FiredIn(Rest) \subseteq FiredTimers
  BY <1>1, RestOfMail
<1>3. armed = {}
  BY <1>1, <1>2 DEF CountdownInv, TimerInv, CountdownHasItsTimer
<1>4. inbox' = Rest => inbox' \in Seq(Event) /\ FiredTimers' \subseteq FiredTimers
  BY <1>2 DEF FiredTimers, FiredIn
<1>5. CASE /\ record' = [record EXCEPT !.remaining = @ - 1, !.timer = nextTimer]
           /\ nextTimer' = nextTimer + 1 /\ armed' = armed \cup {nextTimer} /\ inbox' = Rest
           /\ UNCHANGED cmds
  <2>1. record'.name = "countdown" /\ record'.timer = nextTimer
    BY <1>1, <1>5 DEF RequestInv, RequestsTyped, RecordTyped
  <2>2. TimerInv'
    BY <1>3, <1>4, <1>5, <2>1, SecondBegins DEF CountdownInv, MailTyped
  <2>3. MailTyped'
    BY <1>1, <1>4, <1>5, MailStays DEF CountdownInv, MailTyped, EngineTypeOK
  <2> QED
    BY <2>2, <2>3 DEF CountdownInv
<1>6. ASSUME NEW saved, BeginTake(record.over, record.startReq, record.wait, saved, Rest),
             UNCHANGED timerVars
      PROVE  CountdownInv'
  BY <1>1, <1>2, <1>3, <1>6, BeginTimers DEF timerVars
<1>7. CASE EndCountdown(pending, {}, WhyNotBegin, FALSE) /\ inbox' = Rest
  BY <1>1, <1>3, <1>4, <1>7, EndTimers
<1> QED
  BY <1>5, <1>6, <1>7 DEF TimerFired

LEMMA EventTimers ==
  ASSUME CountdownInv, FlightInv, RequestInv, HandleEvent
  PROVE  CountdownInv'
<1>1. SessionLeaves /\ inbox # <<>>
  BY DEF HandleEvent, SessionLeaves, TimerFired, CaptureStarted, CaptureFailed, StreamLost,
     CaptureStopped, CaptureTimedOut, EngineWedged, FinalizeProbed, RecoverProbed, Ignore, Is
<1>2. Head(inbox) \in Event /\ Rest \in Seq(Event) /\ FiredIn(Rest) \subseteq FiredTimers
  BY <1>1, RestOfMail
<1>3. record.take \in Take => record.name # "countdown"
  BY DEF FlightInv, NoTake, Take
<1>4. Idle.name # "countdown"
  BY DEF Idle
<1>5. CASE TimerFired
  BY <1>1, <1>5, TimerFiredTimers
<1>6. CASE CaptureStarted
  BY <1>1, <1>6, ReadLast DEF CaptureStarted, RecordingTake, Idle
<1>7. ASSUME NEW word, EndBroken(project, word), record.name # "countdown", UNCHANGED probes
      PROVE  CountdownInv'
  BY <1>1, <1>4, <1>7, ReadLast DEF EndBroken
<1>8. CASE CaptureFailed
  <2>1. Head(inbox).take \in Take
    BY <1>2, <1>8 DEF CaptureFailed, Is, Event, EngineEvent
  <2> QED
    BY <1>3, <1>7, <1>8, <2>1 DEF CaptureFailed
<1>9. CASE CaptureTimedOut
  BY <1>7, <1>9 DEF CaptureTimedOut
<1>10. CASE StreamLost
  <2>1. record.take = Head(inbox).take /\ Head(inbox).type = "lost" /\ UNCHANGED <<timerVars, probes>>
    BY <1>10 DEF StreamLost, Is
  <2>2. CASE Capturing /\ StopsCapture(NoReq, FALSE, Rest)
    BY <1>1, <1>2, <2>1, <2>2, StopTimers DEF timerVars
  <2>3. CASE inbox' = Rest /\ UNCHANGED <<record, cmds>>
    <3>1. probes' \subseteq [take : Take, purpose : {"finalize", "recover"}]
      BY <2>1 DEF CountdownInv, MailTyped
    <3> QED
      BY <1>1, <2>1, <2>3, <3>1, ReadOnly
  <2> QED
    BY <1>10, <2>2, <2>3 DEF StreamLost
<1>11. CASE CaptureStopped
  <2>1. Head(inbox).type = "stopped" /\ record.take \in Take
    BY <1>11, <1>2 DEF CaptureStopped, Is, Event, EngineEvent
  <2>2. probes' \subseteq [take : Take, purpose : {"finalize", "recover"}]
    BY <1>11, <2>1 DEF CaptureStopped, CountdownInv, MailTyped
  <2> QED
    BY <1>1, <1>11, <2>1, <2>2, ReadOnly DEF CaptureStopped
<1>12. CASE EngineWedged
  <2>1. UNCHANGED probes /\ Head(inbox).type = "wedged"
    BY <1>12 DEF EngineWedged, Is
  <2>2. CASE IsIdle /\ inbox' = Rest /\ UNCHANGED <<cmds, record, timerVars>>
    BY <1>1, <2>1, <2>2, ReadLast DEF IsIdle
  <2>3. CASE EndCountdown(pending, {}, "engineWedged", TRUE) /\ inbox' = Rest
    <3>1. FiredTimers' \subseteq FiredTimers
      BY <1>2, <2>3 DEF FiredTimers, FiredIn
    <3> QED
      BY <1>1, <1>2, <2>1, <2>3, <3>1, EndTimers
  <2>4. CASE InCapture /\ EndBroken(project, "engineWedged")
    <3>1. record.name # "countdown"
      BY <2>4 DEF InCapture, FlightInv
    <3> QED
      BY <1>7, <2>1, <2>4, <3>1
  <2> QED
    BY <1>12, <2>2, <2>3, <2>4 DEF EngineWedged
<1>13. CASE FinalizeProbed
  <2>1. record.name = "finalizing" /\ UNCHANGED probes
    BY <1>13 DEF FinalizeProbed
  <2>2. ASSUME NEW t, EndUnprobed(t) PROVE CountdownInv'
    BY <1>1, <1>4, <2>1, <2>2, ReadLast DEF EndUnprobed
  <2>3. ASSUME NEW t, NEW frames, FinalizeTake(t, frames) PROVE CountdownInv'
    BY <1>1, <1>4, <2>1, <2>3, ReadLast DEF FinalizeTake
  <2> QED
    BY <1>7, <1>13, <2>1, <2>2, <2>3 DEF FinalizeProbed
<1>14. CASE RecoverProbed
  <2>1. Head(inbox).type = "probed" /\ UNCHANGED <<cmds, record, timerVars, probes>> /\ inbox' = Rest
    BY <1>14 DEF RecoverProbed, Is
  <2>2. probes' \subseteq [take : Take, purpose : {"finalize", "recover"}]
    BY <2>1 DEF CountdownInv, MailTyped
  <2> QED
    BY <1>1, <2>1, <2>2, ReadOnly
<1>15. CASE Ignore
  <2>1. Stale(Head(inbox)) /\ UNCHANGED <<cmds, record, timerVars, probes>> /\ inbox' = Rest
    BY <1>15 DEF Ignore
  <2>2. probes' \subseteq [take : Take, purpose : {"finalize", "recover"}]
    BY <2>1 DEF CountdownInv, MailTyped
  <2>3. CASE Head(inbox).type # "timer"
    BY <1>1, <2>1, <2>2, <2>3, ReadOnly
  <2>4. CASE Head(inbox).type = "timer"
    <3>1. record.name # "countdown" \/ record.timer # Head(inbox).timer
      BY <2>1, <2>4 DEF Stale
    <3>2. /\ FiredTimers' = FiredIn(Rest)
          /\ record.name = "countdown" /\ record.timer \in FiredTimers => record.timer \in FiredIn(Rest)
      BY <1>1, <2>1, <3>1, RestOfMail DEF FiredTimers, FiredIn
    <3>3. TimerInv'
      BY <1>2, <2>1, <3>2, TimersStay DEF CountdownInv, timerVars
    <3>4. MailTyped'
      BY <1>1, <1>2, <2>1, <2>2, MailStays DEF CountdownInv, MailTyped, EngineTypeOK, timerVars
    <3> QED
      BY <3>3, <3>4 DEF CountdownInv
  <2> QED
    BY <2>3, <2>4
<1> QED
  BY <1>5, <1>6, <1>8, <1>9, <1>10, <1>11, <1>12, <1>13, <1>14, <1>15 DEF HandleEvent

----------------------------------------------------------------------------
(* Timers, probes, the engine and the host's death.                        *)

LEMMA TimerElapsesTimers ==
  ASSUME CountdownInv, NEW timer, TimerElapses(timer)
  PROVE  CountdownInv'
<1> DEFINE e == [type |-> "timer", timer |-> timer]
<1>1. /\ timer \in armed /\ timer \in Nat /\ record.name = "countdown" /\ timer = record.timer
      /\ timer \notin FiredTimers
  BY DEF TimerElapses, CountdownInv, TimerInv, MailTyped, CountdownHasItsTimer
<1>2. /\ armed' = armed \ {timer} /\ inbox' = Append(inbox, e)
      /\ UNCHANGED <<engineVars, record, nextTimer, probes>>
  BY DEF TimerElapses, hostVars
<1>3. inbox \in Seq(Event) /\ e \in Event /\ e.type = "timer" /\ e.timer = timer
  BY <1>1 DEF CountdownInv, MailTyped, Event
<1> HIDE DEF e
<1>4. <<e>> \in Seq(Event) /\ FiredIn(<<e>>) = {timer} /\ inbox' = inbox \o <<e>>
  BY <1>2, <1>3, FiredInOne, AppendIsConcat
<1>5. inbox' \in Seq(Event) /\ FiredTimers' = FiredTimers \cup {timer}
  <2>1. inbox \o <<e>> \in Seq(Event) /\ FiredIn(inbox \o <<e>>) = FiredIn(inbox) \cup FiredIn(<<e>>)
    BY <1>3, <1>4, FiredInConcat
  <2> QED
    BY <1>4, <2>1, ZenonT(60) DEF FiredTimers, FiredIn
<1>6. armed' = {}
  BY <1>1, <1>2 DEF CountdownInv, TimerInv, CountdownHasItsTimer
<1>7. TimerInv'
  <2>1. nextTimer' > 0 /\ armed' \cup FiredTimers' \subseteq 1 .. nextTimer' - 1
    BY <1>1, <1>2, <1>5, <1>6 DEF CountdownInv, TimerInv
  <2>2. CountdownHasItsTimer'
    BY <1>1, <1>2, <1>5, <1>6 DEF CountdownHasItsTimer
  <2> QED
    BY <1>6, <2>1, <2>2 DEF TimerInv
<1>8. MailTyped'
  BY <1>2, <1>5, <1>6, MailStays DEF CountdownInv, MailTyped, SessionLeaves, EngineTypeOK, engineVars
<1> QED
  BY <1>7, <1>8 DEF CountdownInv

\* Quiet mail comes, and the session does nothing.
LEMMA MailComes ==
  ASSUME CountdownInv, NEW s, Quiet(s), inbox' = inbox \o s, MailTyped',
         UNCHANGED <<nextTimer, armed, record>>
  PROVE  CountdownInv'
<1>1. inbox \in Seq(Event)
  BY DEF CountdownInv, MailTyped
<1>2. FiredIn(inbox \o s) = FiredIn(inbox)
  BY <1>1, QuietConcat
<1>3. FiredTimers' = FiredTimers
  BY <1>2 DEF FiredTimers, FiredIn
<1>4. TimerInv'
  BY <1>3, TimersStay DEF CountdownInv
<1> QED
  BY <1>4 DEF CountdownInv

LEMMA ProbeReturnsTimers ==
  ASSUME CountdownInv, NEW probe, ProbeReturns(probe)
  PROVE  CountdownInv'
<1> DEFINE e == [type |-> "probed", take |-> probe.take, purpose |-> probe.purpose]
<1>1. /\ probe \in probes /\ probes' = probes \ {probe} /\ inbox' = Append(inbox, e)
      /\ UNCHANGED <<engineVars, record, nextTimer, armed>>
  BY DEF ProbeReturns, hostVars, timerVars
<1>2. inbox \in Seq(Event) /\ e \in Event /\ e.type # "timer"
  BY <1>1 DEF CountdownInv, MailTyped, Event
<1> HIDE DEF e
<1>3. Quiet(<<e>>) /\ inbox' = inbox \o <<e>>
  BY <1>1, <1>2, FiredInOne, AppendIsConcat DEF Quiet
<1>4. inbox' \in Seq(Event)
  BY <1>2, <1>3, QuietConcat
<1>5. MailTyped'
  BY <1>1, <1>4, MailStays DEF CountdownInv, MailTyped, SessionLeaves, EngineTypeOK, engineVars
<1> QED
  BY <1>1, <1>3, <1>5, MailComes

LEMMA EngineTimers ==
  ASSUME CountdownInv, Engine
  PROVE  CountdownInv'
<1>1. EngineStep /\ UNCHANGED <<record, nextTimer, armed, probes>>
  BY DEF Engine, hostVars, timerVars
<1>2. /\ EngineTypeOK' /\ (run'.phase = "none" <=> run'.take = NoTake)
      /\ \E s : Quiet(s) /\ inbox' = inbox \o s
  BY <1>1, EngineMail DEF CountdownInv
<1>3. PICK s : Quiet(s) /\ inbox' = inbox \o s
  BY <1>2
<1>4. inbox' \in Seq(Event)
  BY <1>3, QuietConcat DEF CountdownInv, MailTyped
<1>5. MailTyped'
  BY <1>1, <1>2, <1>4 DEF CountdownInv, MailTyped
<1> QED
  BY <1>1, <1>3, <1>5, MailComes

\* A fresh host, at the start or after one that died.
LEMMA FreshTimers ==
  /\ Init => CountdownInv
  /\ FlightInv /\ HostDies => CountdownInv'
<1>1. /\ NoRun \in [take : Take \cup {NoTake}, phase : RunPhase]
      /\ NoRun.phase = "none" /\ NoRun.take = NoTake
  BY DEF NoRun, RunPhase
<1>2. <<>> \in Seq(Event) /\ <<>> \in Seq(Command) /\ FiredIn(<<>>) = {}
  BY FiredInNone DEF Quiet
<1>3. \A p : {[take |-> t, purpose |-> "recover"] : t \in StillRecording(p)}
               \subseteq [take : Take, purpose : {"finalize", "recover"}]
  BY DEF StillRecording
<1>4. Idle.name # "countdown"
  BY DEF Idle
<1>5. Init => CountdownInv
  <2> SUFFICES ASSUME Init PROVE CountdownInv
    OBVIOUS
  <2>1. MailTyped
    BY <1>1, <1>2, <1>3 DEF Init, EngineInit, MailTyped, EngineTypeOK
  <2>2. TimerInv
    <3>1. FiredTimers = {} /\ armed = {} /\ nextTimer = 1 /\ record.name # "countdown"
      BY <1>2, <1>4, FiredIsFiredIn DEF Init
    <3> QED
      BY <3>1 DEF TimerInv, CountdownHasItsTimer
  <2> QED
    BY <2>1, <2>2 DEF CountdownInv
<1>6. HostDies => CountdownInv'
  <2> SUFFICES ASSUME HostDies PROVE CountdownInv'
    OBVIOUS
  <2>1. MailTyped'
    BY <1>1, <1>2, <1>3 DEF HostDies, Opens, MailTyped, EngineTypeOK
  <2>2. TimerInv'
    <3>1. inbox' = <<>> /\ armed' = {} /\ nextTimer' = 1 /\ record'.name # "countdown"
      BY <1>4 DEF HostDies, Opens
    <3>2. FiredTimers' = {}
      BY <1>2, <3>1 DEF FiredTimers, FiredIn
    <3> QED
      BY <3>1, <3>2 DEF TimerInv, CountdownHasItsTimer
  <2> QED
    BY <2>1, <2>2 DEF CountdownInv
<1> QED
  BY <1>5, <1>6

LEMMA NextCountdownInv ==
  CountdownInv /\ FlightInv /\ RequestInv /\ [Next]_vars => CountdownInv'
<1> SUFFICES ASSUME CountdownInv, FlightInv, RequestInv, [Next]_vars PROVE CountdownInv'
  OBVIOUS
<1>1. CASE Outside
  <2>1. CASE (\E job \in jobs, cuts \in BOOLEAN : SilenceDetected(job, cuts))
             \/ (\E p \in purges : PurgeReturns(p)) \/ ExportReturns
    BY <2>1, TimersUntouched DEF SilenceDetected, PurgeReturns, ExportReturns, timerVars
  <2> QED
    BY <1>1, <2>1, TimerElapsesTimers, ProbeReturnsTimers DEF Outside
<1>2. CASE ExternalEdit \/ UNCHANGED vars
  BY <1>2, TimersUntouched DEF ExternalEdit, vars, hostVars, timerVars
<1> QED
  BY <1>1, <1>2, RequestTimers, EventTimers, EngineTimers, FreshTimers DEF Next

\* A countdown waits for its own timer and no other one ever runs: whatever
\* stops it (a cancel, a stop, a stuck engine), no second of it that still
\* elapses begins a take or shortens the next countdown.
THEOREM CountdownsKeepTheirTimer == Spec => []CountdownHasItsTimer
<1>1. CountdownInv => CountdownHasItsTimer
  BY DEF CountdownInv, TimerInv
<1> QED
  BY <1>1, FreshTimers, NextCountdownInv, InitFlightInv, NextFlightInv, InitRequestInv,
     NextRequestInv, PTL DEF Spec

=============================================================================
