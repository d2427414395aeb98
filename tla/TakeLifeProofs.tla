--------------------------- MODULE TakeLifeProofs ---------------------------
(* RecordMachine implements TakeLife, proved: on disk each take is recorded *)
(* once and ends once, the ends callers are told are the ends on disk and   *)
(* stay so, no take number is used twice, and a discard while finalizing    *)
(* leaves the timeline as it was before the take.                           *)
EXTENDS RecordProofs

USE DEF Lives!Older, Lives!End

----------------------------------------------------------------------------
(* Growing older.                                                          *)

Numbers == Take \ {MaxTake}

LEMMA OlderTransitive ==
  ASSUME NEW x, NEW y, NEW z, Lives!Older(x, y), Lives!Older(y, z)
  PROVE  Lives!Older(x, z)
OBVIOUS

LEMMA ReachesTransitive ==
  ASSUME NEW p, NEW q, NEW s, Reaches(p, q), Reaches(q, s)
  PROVE  Reaches(p, s)
BY OlderTransitive DEF Reaches

\* What a step of the host's own may do to the project in memory.
Grows(p, q) ==
  /\ q.dur \in [Take -> Nat]
  /\ Numbered(q)
  /\ p.next <= q.next
  /\ Reaches(p, q)

SameFacts(p, q) == q.status = p.status /\ q.dur = p.dur /\ q.next = p.next

LEMMA SameFactsTransitive ==
  ASSUME NEW p, NEW q, NEW s, SameFacts(p, q), SameFacts(q, s)
  PROVE  SameFacts(p, s)
BY DEF SameFacts

LEMMA SameFactsGrow ==
  ASSUME NEW p, Skeleton(p), NEW q, p.dur \in [Take -> Nat], Numbered(p), SameFacts(p, q)
  PROVE  Grows(p, q)
<1>1. p.next <= q.next
  BY DEF Skeleton, SameFacts, Take
<1>2. Reaches(p, q)
  BY DEF Reaches, LifeOf, SameFacts
<1> QED
  BY <1>1, <1>2 DEF Grows, SameFacts, Numbered

\* A take that was recording ends, one that had ended is purged.
LEMMA EndGrows ==
  ASSUME NEW p, Skeleton(p), p.dur \in [Take -> Nat], Numbered(p),
         NEW t \in Take, NEW s, NEW n \in Nat, NEW q,
         q.status = [p.status EXCEPT ![t] = s], q.dur = [p.dur EXCEPT ![t] = n], q.next = p.next,
         \/ p.status[t] = "recording" /\ s \in {"ok", "tooShort", "broken"}
         \/ p.status[t] \in {"ok", "tooShort", "broken"} /\ s = "none"
  PROVE  Grows(p, q)
<1>1. p.next <= q.next /\ q.dur \in [Take -> Nat]
  BY DEF Skeleton, Take
<1>2. \A u \in Take : u # t => q.status[u] = p.status[u] /\ q.dur[u] = p.dur[u]
  BY DEF Skeleton
<1>3. q.status[t] = s /\ q.dur[t] = n
  BY DEF Skeleton
<1>4. Numbered(q)
  BY <1>2, <1>3 DEF Numbered
<1>5. ASSUME NEW u \in Numbers PROVE Lives!Older(LifeOf(p, u), LifeOf(q, u))
  <2>1. CASE u # t
    BY <1>2, <1>5, <2>1 DEF LifeOf, Numbers
  <2>2. CASE u = t
    <3>1. t < p.next
      BY <1>5, <2>2 DEF Numbered, Numbers
    <3> QED
      BY <1>3, <2>2, <3>1 DEF LifeOf
  <2> QED
    BY <2>1, <2>2
<1> QED
  BY <1>1, <1>4, <1>5 DEF Grows, Reaches, Numbers

\* A take begins, under a number above all the project ever counted.
LEMMA BegunGrows ==
  ASSUME FlightInv, MemoryInv, NEW t, t = NextTakeNumber, project.status[t] = "none"
  PROVE  Grows(project, Begun(project, t))
<1> DEFINE q == Begun(project, t)
<1>1. t \in Take /\ project.next \in Take
  BY NextIsTake DEF FlightInv, Skeleton
<1>2. project.next <= t
  <2> DEFINE S == {project.next} \cup {SaturatingSucc(u) : u \in dirs \cup Pool(project)}
  <2>1. dirs \subseteq Take /\ Pool(project) \subseteq Take
    BY DEF FlightInv, Pool
  <2>2. S \subseteq Take
    BY <1>1, <2>1, SuccIsTake
  <2>3. project.next \in S /\ t = Largest(S)
    BY DEF NextTakeNumber
  <2> HIDE DEF S
  <2> QED
    BY <2>2, <2>3, LargestIn
<1>3. /\ q.status = [project.status EXCEPT ![t] = "recording"]
      /\ q.dur = [project.dur EXCEPT ![t] = 0]
      /\ q.next = SaturatingSucc(t)
  BY DEF Begun, FlightInv, Skeleton
<1>4. q.dur \in [Take -> Nat]
  <2>1. project.dur \in [Take -> Nat]
    BY DEF MemoryInv
  <2> HIDE DEF q
  <2> QED
    BY <1>1, <1>3, <2>1 DEF Take
<1>5. /\ q.next \in Take /\ t <= q.next
      /\ t \in Numbers => t < q.next
  BY <1>1, <1>3, SuccIsTake, MaxTakeAssumption DEF SaturatingSucc, Take, Numbers
<1>6. project.next <= q.next
  BY <1>1, <1>2, <1>5 DEF Take
<1>7. q.status[t] = "recording"
      /\ \A u \in Take : u # t => q.status[u] = project.status[u] /\ q.dur[u] = project.dur[u]
  BY <1>1, <1>3 DEF FlightInv, Skeleton, MemoryInv
<1> HIDE DEF q
<1>8. Numbered(q)
  BY <1>1, <1>5, <1>6, <1>7, SMTT(30) DEF Numbered, MemoryInv, Take, Numbers
<1>9. ASSUME NEW u \in Numbers PROVE Lives!Older(LifeOf(project, u), LifeOf(q, u))
  <2>1. CASE u = t
    BY <1>1, <1>2, <2>1 DEF LifeOf, Take
  <2>2. CASE u # t
    BY <1>1, <1>5, <1>6, <1>7, <1>9, <2>2 DEF LifeOf, Numbers, Take
  <2> QED
    BY <2>1, <2>2
<1> QED
  BY <1>4, <1>6, <1>8, <1>9 DEF Grows, Reaches, Numbers, q

----------------------------------------------------------------------------
(* What the changes of a project do to it.                                 *)

LEMMA ReadyCutsFacts ==
  ASSUME NEW p, Skeleton(p)
  PROVE  SameFacts(p, ReadyCuts(p))
BY DEF Skeleton, ReadyCuts, SameFacts

LEMMA DiscardedFacts ==
  ASSUME NEW p, Skeleton(p)
  PROVE  SameFacts(p, Discarded(p))
BY DEF Skeleton, Discarded, SameFacts

\* A step of the host: memory grows, and the disk is left or written.
MemoryMoves == Grows(project, project') /\ (disk' = disk \/ disk' = project')

LEMMA Untouched ==
  ASSUME FlightInv, MemoryInv, SameFacts(project, project'), disk' = disk \/ disk' = project'
  PROVE  MemoryMoves
BY SameFactsGrow DEF MemoryMoves, FlightInv, MemoryInv

LEMMA Unchanged ==
  ASSUME FlightInv, MemoryInv, UNCHANGED <<project, disk>>
  PROVE  MemoryMoves
BY Untouched DEF SameFacts

LEMMA Written ==
  ASSUME NEW p, NEW saved, Grows(project, p), Write(p, saved) \/ Persist(p, saved)
  PROVE  MemoryMoves
<1>1. project' = p /\ (disk' = p \/ disk' = disk)
  BY DEF Write, Persist
<1> QED
  BY <1>1 DEF MemoryMoves

LEMMA FactsWritten ==
  ASSUME FlightInv, MemoryInv, NEW p, NEW saved, SameFacts(project, p),
         Write(p, saved) \/ Persist(p, saved)
  PROVE  MemoryMoves
BY Written, SameFactsGrow DEF FlightInv, MemoryInv

LEMMA StepKeepsMemoryInv ==
  ASSUME FlightInv, FlightInv', MemoryInv, MemoryMoves
  PROVE  MemoryInv' /\ Reaches(disk, disk')
<1>1. Reaches(disk, project') /\ Reaches(disk, disk) /\ Reaches(project', project')
  BY ReachesTransitive DEF MemoryInv, MemoryMoves, Grows, Reaches
<1>2. /\ project.next \in Int /\ disk.next \in Int /\ project'.next \in Int
      /\ disk'.next = disk.next \/ disk'.next = project'.next
  BY DEF FlightInv, Skeleton, MemoryMoves, Take
<1>3. disk'.next <= project'.next
  BY <1>2 DEF MemoryInv, MemoryMoves, Grows
<1>4. disk'.dur \in [Take -> Nat] /\ Numbered(disk') /\ Reaches(disk', project')
      /\ Reaches(disk, disk')
  BY <1>1 DEF MemoryInv, MemoryMoves, Grows
<1> QED
  BY <1>3, <1>4 DEF MemoryInv, MemoryMoves, Grows, Numbered, Reaches, LifeOf

----------------------------------------------------------------------------
(* Requests.                                                               *)

LEMMA BeginMoves ==
  ASSUME FlightInv, MemoryInv, NEW over, NEW r, NEW wait, NEW saved, NEW rest,
         BeginTake(over, r, wait, saved, rest)
  PROVE  MemoryMoves
<1>1. CanBegin /\ Write(Begun(project, NextTakeNumber), saved)
  BY DEF BeginTake
<1>2. project.status[NextTakeNumber] = "none"
  BY <1>1 DEF CanBegin
<1> QED
  BY <1>1, <1>2, BegunGrows, Written

LEMMA CountdownEndMoves ==
  ASSUME FlightInv, MemoryInv, NEW waiting, NEW mail, NEW word, NEW cancels,
         EndCountdown(waiting, mail, word, cancels)
  PROVE  MemoryMoves
<1>1. PICK saved \in BOOLEAN : Persist(ReadyCuts(project), saved)
  BY DEF EndCountdown
<1> QED
  BY <1>1, ReadyCutsFacts, FactsWritten DEF FlightInv

LEMMA StartMoves ==
  ASSUME FlightInv, MemoryInv, NEW secs, NEW over, NEW r, NEW wait, Start(secs, over, r, wait)
  PROVE  MemoryMoves
<1>1. CASE StartCountdown(secs, over, r, wait)
  BY <1>1, Unchanged DEF StartCountdown, Write
<1>2. CASE \E saved \in BOOLEAN : BeginTake(over, r, wait, saved, inbox)
  BY <1>2, BeginMoves
<1>3. CASE DropBegin(r)
  <2>1. UNCHANGED <<project, disk>>
    BY <1>3 DEF DropBegin, CommandDropped
  <2> QED
    BY <2>1, Unchanged
<1> QED
  BY <1>1, <1>2, <1>3 DEF Start

LEMMA CancelMoves ==
  ASSUME FlightInv, MemoryInv, NEW r, CancelCountdown(r)
  PROVE  MemoryMoves
<1>1. CASE EndCountdown(pending \cup Opt(r), {Letter(Opt(r), "countdownCancelled", NoTake)},
                        "countdownEnded", TRUE)
  BY <1>1, CountdownEndMoves
<1>2. CASE CommandDropped(r, ReadyCuts(project))
  BY <1>2, Unchanged DEF CommandDropped
<1> QED
  BY <1>1, <1>2 DEF CancelCountdown

LEMMA DiscardLastMoves ==
  ASSUME FlightInv, MemoryInv, NEW r, TakeDiscardLast(r)
  PROVE  MemoryMoves
<1>1. ASSUME NEW saved \in BOOLEAN, Write(Discarded(project), saved) PROVE MemoryMoves
  BY <1>1, DiscardedFacts, FactsWritten DEF FlightInv
<1>2. CASE CommandDropped(r, Discarded(project))
  BY <1>2, Unchanged DEF CommandDropped
<1>3. CASE UNCHANGED <<project, disk>>
  BY <1>3, Unchanged
<1> QED
  BY <1>1, <1>2, <1>3 DEF TakeDiscardLast, Refuse

\* Only a take that ended is purged.
LEMMA TakePurgeMoves ==
  ASSUME FlightInv, MemoryInv, NEW r, NEW t \in Take, TakePurge(r, t)
  PROVE  MemoryMoves
<1>1. ASSUME NEW saved \in BOOLEAN, Write(RemoveTake(project, t), saved) PROVE MemoryMoves
  <2> DEFINE q == RemoveTake(project, t)
  <2>1. project.status[t] \in {"ok", "tooShort", "broken"}
    BY DEF TakePurge, CanPurge, FlightInv, Skeleton, Status
  <2>2. /\ q.status = [project.status EXCEPT ![t] = "none"]
        /\ q.dur = [project.dur EXCEPT ![t] = 0] /\ q.next = project.next
    BY DEF RemoveTake, FlightInv, Skeleton
  <2> HIDE DEF q
  <2>3. Grows(project, q)
    BY <2>1, <2>2, EndGrows, SMTT(30) DEF FlightInv, MemoryInv
  <2> QED
    BY <1>1, <2>3, Written DEF q
<1>2. CASE CommandDropped(r, RemoveTake(project, t))
  BY <1>2, Unchanged DEF CommandDropped
<1> QED
  BY <1>1, <1>2 DEF TakePurge

LEMMA RequestMoves ==
  ASSUME FlightInv, MemoryInv, Request
  PROVE  MemoryMoves
<1>1. ASSUME NEW r, NEW word, Refuse(r, word) PROVE MemoryMoves
  BY <1>1, Unchanged DEF Refuse
<1>2. ASSUME NEW r, NEW ids, NEW secs, NEW wait, RecordStart(r, ids, secs, wait) PROVE MemoryMoves
  BY <1>2, StartMoves DEF RecordStart
<1>3. ASSUME NEW r, NEW ids, NEW secs, RefuseStart(r, ids, secs) PROVE MemoryMoves
  BY <1>1, <1>3 DEF RefuseStart
<1>4. ASSUME NEW r, NEW cancel, StopRecording(r, cancel) PROVE MemoryMoves
  BY <1>4, Unchanged DEF StopRecording
<1>5. ASSUME NEW r, NEW secs, NEW wait, RecordToggle(r, secs, wait) PROVE MemoryMoves
  BY <1>1, <1>2, <1>3, <1>4, <1>5, CancelMoves DEF RecordToggle
<1>6. ASSUME NEW r, RecordCancel(r) PROVE MemoryMoves
  BY <1>1, <1>4, <1>6, CancelMoves DEF RecordCancel
<1>7. ASSUME NEW r, RecordStop(r) PROVE MemoryMoves
  BY <1>1, <1>4, <1>7, CancelMoves, Unchanged DEF RecordStop, JoinStop
<1>8. ASSUME NEW r, NEW clip, Autocut(r, clip) PROVE MemoryMoves
  BY <1>8, Unchanged DEF Autocut
<1>9. CASE Export
  BY <1>9, Unchanged DEF Export
<1> QED
  BY <1>2, <1>3, <1>5, <1>6, <1>7, <1>8, <1>9, DiscardLastMoves, TakePurgeMoves DEF Request

----------------------------------------------------------------------------
(* Events.                                                                 *)

LEMMA EndBrokenMoves ==
  ASSUME FlightInv, MemoryInv, NEW word, EndBroken(project, word)
  PROVE  MemoryMoves
<1> DEFINE t == record.take
           q == MarkBroken(project, t)
<1>1. t \in Take => project.status[t] = "recording"
  BY DEF FlightInv, InFlightIsRecording, InCapture, NoTake, Take
<1>2. /\ q.status = [project.status EXCEPT ![t] = "broken"]
      /\ q.dur = [project.dur EXCEPT ![t] = 0] /\ q.next = project.next /\ Skeleton(q)
  <2>1. q.dur = [project.dur EXCEPT ![t] = 0] /\ q.next = project.next
    BY DEF MarkBroken, FlightInv, Skeleton
  <2> HIDE DEF t
  <2> QED
    BY <2>1, BrokenSkeleton DEF FlightInv
<1>3. PICK saved \in BOOLEAN : Write(ReadyCuts(q), saved)
  BY DEF EndBroken
<1>4. SameFacts(q, ReadyCuts(q))
  BY <1>2, ReadyCutsFacts
<1> DEFINE p == ReadyCuts(q)
<1>5. /\ p.status = [project.status EXCEPT ![t] = "broken"]
      /\ p.dur = [project.dur EXCEPT ![t] = 0] /\ p.next = project.next
  BY <1>2, <1>4 DEF SameFacts
<1> HIDE DEF t, q, p
<1>6. CASE t \in Take
  <2>1. Grows(project, p)
    BY <1>1, <1>5, <1>6, EndGrows DEF FlightInv, MemoryInv
  <2> QED
    BY <1>3, <2>1, Written DEF p
<1>7. CASE t \notin Take
  <2>1. SameFacts(project, p)
    BY <1>5, <1>7 DEF SameFacts, FlightInv, Skeleton, MemoryInv
  <2> QED
    BY <1>3, <2>1, FactsWritten DEF p
<1> QED
  BY <1>6, <1>7

LEMMA FinalizeTakeMoves ==
  ASSUME FlightInv, MemoryInv, InCapture, NEW frames \in Nat, FinalizeTake(record.take, frames)
  PROVE  MemoryMoves
<1> DEFINE t == record.take
           verdict == IF frames < MinTakeFrames THEN "tooShort"
                      ELSE IF record.cancelled THEN "cancelled" ELSE "placed"
           facts == CASE verdict = "tooShort" -> [project EXCEPT !.status[t] = "tooShort", !.dur[t] = frames]
                      [] verdict = "cancelled" -> [project EXCEPT !.status[t] = "ok", !.dur[t] = frames]
                      [] OTHER -> Place(project, t, frames, record.over)
           drops == record.discard /\ verdict = "placed" /\ CanDiscard(facts)
           kept == IF drops THEN Discarded(facts) ELSE facts
           p == ReadyCuts(kept)
           Ended(q) == /\ \E s \in {"ok", "tooShort"} : q.status = [project.status EXCEPT ![t] = s]
                       /\ q.dur = [project.dur EXCEPT ![t] = frames] /\ q.next = project.next
<1>1. t \in Take /\ project.status[t] = "recording"
  BY DEF FlightInv, InFlightIsRecording, InCapture
<1>2. Skeleton(facts) /\ Ended(facts)
  <2>1. CASE verdict = "tooShort"
    BY <2>1 DEF FlightInv, Skeleton, Status
  <2>2. CASE verdict = "cancelled"
    BY <2>2 DEF FlightInv, Skeleton, Status
  <2>3. CASE verdict = "placed"
    <3>1. facts = Place(project, t, frames, record.over)
      BY <2>3
    <3>2. Skeleton(Place(project, t, frames, record.over))
          /\ Ended(Place(project, t, frames, record.over))
      <4> HIDE DEF facts
      <4> QED
        BY ZenonT(60) DEF FlightInv, Skeleton, Place, Status
    <3> HIDE DEF facts, verdict
    <3> QED
      BY <3>1, <3>2
  <2> QED
    BY <2>1, <2>2, <2>3
<1>3. Skeleton(kept) /\ SameFacts(facts, kept)
  <2>1. SameFacts(facts, facts)
    BY DEF SameFacts
  <2> HIDE DEF facts
  <2> QED
    BY <1>2, <2>1, DiscardedSkeleton, DiscardedFacts
<1>4. SameFacts(kept, p)
  <2> HIDE DEF kept
  <2> QED
    BY <1>3, ReadyCutsFacts
<1>5. PICK saved \in BOOLEAN : Write(p, saved)
  BY DEF FinalizeTake
<1> HIDE DEF p, facts, kept, t
<1>6. Ended(p)
  BY <1>2, <1>3, <1>4 DEF SameFacts
<1>7. Grows(project, p)
  BY <1>1, <1>6, EndGrows DEF FlightInv, MemoryInv
<1> QED
  BY <1>5, <1>7, Written

LEMMA FinalizeProbedMoves ==
  ASSUME FlightInv, MemoryInv, FinalizeProbed
  PROVE  MemoryMoves
<1>1. InCapture
  BY DEF FinalizeProbed, FlightInv, InCapture
<1>2. CASE EndUnprobed(record.take)
  BY <1>2, ReadyCutsFacts, FactsWritten DEF EndUnprobed, FlightInv
<1>3. CASE EndBroken(project, "captureFailed")
  BY <1>3, EndBrokenMoves
<1>4. ASSUME NEW frames \in Lengths, FinalizeTake(record.take, frames) PROVE MemoryMoves
  BY <1>1, <1>4, FinalizeTakeMoves, RecordAssumptions
<1> QED
  BY <1>2, <1>3, <1>4 DEF FinalizeProbed

LEMMA RecoverProbedMoves ==
  ASSUME FlightInv, MemoryInv, RecoverProbed
  PROVE  MemoryMoves
<1> DEFINE t == Head(inbox).take
<1>1. CASE UNCHANGED <<project, disk>>
  BY <1>1, Unchanged
<1>2. ASSUME NEW saved \in BOOLEAN, NEW s \in {"ok", "tooShort", "broken"}, NEW frames \in Nat,
             NEW q, Write(q, saved), project.status[t] = "recording",
             q.status = [project.status EXCEPT ![t] = s],
             q.dur = [project.dur EXCEPT ![t] = frames], q.next = project.next
      PROVE  MemoryMoves
  <2> HIDE DEF t
  <2>1. CASE t \in Take
    <3>1. Grows(project, q)
      BY <1>2, <2>1, EndGrows DEF FlightInv, MemoryInv
    <3> QED
      BY <1>2, <3>1, Written
  <2>2. CASE t \notin Take
    <3>1. SameFacts(project, q)
      BY <1>2, <2>2 DEF SameFacts, FlightInv, Skeleton, MemoryInv
    <3> QED
      BY <1>2, <3>1, FactsWritten
  <2> QED
    BY <2>1, <2>2
<1>3. ASSUME NEW saved \in BOOLEAN, Write(MarkBroken(project, t), saved),
             project.status[t] = "recording"
      PROVE  MemoryMoves
  <2> DEFINE q == MarkBroken(project, t)
  <2>1. /\ q.status = [project.status EXCEPT ![t] = "broken"]
        /\ q.dur = [project.dur EXCEPT ![t] = 0] /\ q.next = project.next
    BY DEF MarkBroken, FlightInv, Skeleton
  <2> HIDE DEF q, t
  <2> QED
    BY <1>2, <1>3, <2>1 DEF q
<1>4. ASSUME NEW saved \in BOOLEAN, NEW frames \in Nat, NEW s \in {"tooShort", "ok"},
             Write([project EXCEPT !.dur[t] = frames, !.status[t] = s], saved),
             project.status[t] = "recording"
      PROVE  MemoryMoves
  <2> DEFINE q == [project EXCEPT !.dur[t] = frames, !.status[t] = s]
  <2>1. /\ q.status = [project.status EXCEPT ![t] = s]
        /\ q.dur = [project.dur EXCEPT ![t] = frames] /\ q.next = project.next
    <3> HIDE DEF t
    <3> QED
      BY DEF FlightInv, Skeleton
  <2>2. Write(q, saved) /\ s \in {"ok", "tooShort", "broken"}
    BY <1>4
  <2> HIDE DEF q, t
  <2> QED
    BY <1>2, <1>4, <2>1, <2>2
<1> HIDE DEF t
<1> QED
  BY <1>1, <1>3, <1>4, RecordAssumptions DEF RecoverProbed, t

LEMMA EventMoves ==
  ASSUME FlightInv, MemoryInv, HandleEvent
  PROVE  MemoryMoves
<1>1. CASE TimerFired
  <2>1. CASE UNCHANGED <<project, disk>>
    BY <2>1, Unchanged
  <2> QED
    BY <1>1, <2>1, BeginMoves, CountdownEndMoves DEF TimerFired
<1>2. CASE CaptureStarted \/ CaptureStopped
  <2>1. SameFacts(project, project)
    BY DEF SameFacts
  <2> QED
    BY <1>2, <2>1, FactsWritten DEF CaptureStarted, CaptureStopped
<1>3. CASE CaptureFailed
  BY <1>3, EndBrokenMoves DEF CaptureFailed
<1>4. CASE CaptureTimedOut
  BY <1>4, EndBrokenMoves DEF CaptureTimedOut
<1>5. CASE EngineWedged
  <2>1. CASE UNCHANGED <<project, disk>>
    BY <2>1, Unchanged
  <2> QED
    BY <1>5, <2>1, CountdownEndMoves, EndBrokenMoves DEF EngineWedged
<1>6. CASE StreamLost
  <2>1. \A t, s : SameFacts(project, SetMissing(project, t, s))
    BY DEF SameFacts, SetMissing, FlightInv, Skeleton
  <2> QED
    BY <1>6, <2>1, FactsWritten DEF StreamLost
<1>7. CASE Ignore
  BY <1>7, Unchanged DEF Ignore
<1> QED
  BY <1>1, <1>2, <1>3, <1>4, <1>5, <1>6, <1>7, FinalizeProbedMoves, RecoverProbedMoves
     DEF HandleEvent

----------------------------------------------------------------------------
(* Every step, for memory and disk.                                        *)

LEMMA SilenceMoves ==
  ASSUME FlightInv, MemoryInv, NEW job, NEW cuts, SilenceDetected(job, cuts)
  PROVE  MemoryMoves
<1>1. ASSUME NEW clips PROVE SameFacts(project, [project EXCEPT !.clips = clips])
  BY DEF SameFacts, FlightInv, Skeleton
<1>2. CASE UNCHANGED <<project, disk>>
  BY <1>2, Unchanged
<1> QED
  BY <1>1, <1>2, FactsWritten DEF SilenceDetected

LEMMA OwnStepMoves ==
  ASSUME FlightInv, MemoryInv, Request \/ HandleEvent \/ Engine \/ Outside
  PROVE  MemoryMoves
<1>1. CASE Engine
  BY <1>1, Unchanged DEF Engine
<1>2. CASE Outside
  BY <1>2, SilenceMoves, Unchanged DEF Outside, TimerElapses, ProbeReturns, PurgeReturns, ExportReturns
<1> QED
  BY <1>1, <1>2, RequestMoves, EventMoves

\* A hand edit invents and ends no take; what the host forgot it brings back
\* as the disk has it.
LEMMA EditMoves ==
  ASSUME FlightInv, FlightInv', MemoryInv, ExternalEdit
  PROVE  MemoryInv' /\ Reaches(disk, disk')
<1>1. PICK f \in HandEdits(disk) :
        project' = Merged(project, f) /\ (disk' = Merged(project, f) \/ disk' = f)
  BY DEF ExternalEdit
<1> DEFINE m == Merged(project, f)
<1>2. SameFacts(disk, f)
  BY DEF SameFacts, HandEdits, FlightInv, Skeleton
<1>3. Grows(disk, f) /\ Reaches(disk, f) /\ f.dur \in [Take -> Nat] /\ Numbered(f)
  BY <1>2, SameFactsGrow DEF FlightInv, MemoryInv, Grows
<1>4. project.next \in Take /\ disk.next \in Take /\ f.next = disk.next
  BY <1>2 DEF FlightInv, Skeleton, SameFacts
<1>5. m.next = project.next
  <2>1. m.next = Largest({project.next, disk.next})
    BY <1>4 DEF Merged
  <2>2. /\ Largest({project.next, disk.next}) \in {project.next, disk.next}
        /\ project.next <= Largest({project.next, disk.next})
    BY <1>4, LargestIn
  <2> QED
    BY <1>4, <2>1, <2>2 DEF MemoryInv, Take
<1>6. \A t \in Take :
        /\ project.status[t] # "none" => m.status[t] = project.status[t] /\ m.dur[t] = project.dur[t]
        /\ project.status[t] = "none" => m.status[t] = disk.status[t] /\ m.dur[t] = disk.dur[t]
  BY <1>2 DEF Merged, SameFacts
<1>7. m.dur \in [Take -> Nat]
  BY <1>3 DEF Merged, MemoryInv
<1> HIDE DEF m
<1>8. Numbered(m)
  BY <1>4, <1>5, <1>6 DEF Numbered, MemoryInv, Take
<1>9. Reaches(disk, m)
  <2> SUFFICES ASSUME NEW t \in Numbers PROVE Lives!Older(LifeOf(disk, t), LifeOf(m, t))
    BY DEF Reaches, Numbers
  <2>1. CASE project.status[t] # "none"
    <3>1. LifeOf(m, t) = LifeOf(project, t)
      BY <1>6, <2>1 DEF LifeOf, Numbers
    <3> QED
      BY <3>1 DEF MemoryInv, Reaches, Numbers
  <2>2. CASE project.status[t] = "none" /\ disk.status[t] # "none"
    <3>1. LifeOf(m, t) = LifeOf(disk, t)
      BY <1>6, <2>2 DEF LifeOf, Numbers
    <3> QED
      BY <3>1
  <2>3. CASE project.status[t] = "none" /\ disk.status[t] = "none"
    BY <1>4, <1>5, <1>6, <2>3 DEF LifeOf, Numbers, MemoryInv, Take
  <2> QED
    BY <2>1, <2>2, <2>3
<1>10. Reaches(f, m) /\ Reaches(m, m)
  BY <1>2, <1>9 DEF Reaches, LifeOf, SameFacts
<1>11. m.next <= m.next /\ f.next <= m.next
  BY <1>4, <1>5 DEF MemoryInv, Take
<1>12. project' = m /\ (disk' = m \/ disk' = f)
  BY <1>1 DEF m
<1>13. /\ project'.dur \in [Take -> Nat] /\ disk'.dur \in [Take -> Nat]
       /\ Numbered(project') /\ Numbered(disk') /\ disk'.next <= project'.next
       /\ Reaches(disk', project') /\ Reaches(disk, disk')
  BY <1>3, <1>7, <1>8, <1>9, <1>10, <1>11, <1>12
<1> QED
  BY <1>13 DEF MemoryInv, Numbered, Reaches, LifeOf

LEMMA DeathMoves ==
  ASSUME FlightInv, MemoryInv, HostDies
  PROVE  MemoryInv' /\ Reaches(disk, disk')
<1>1. project' = disk /\ disk' = disk
  BY DEF HostDies, Opens
<1>2. Reaches(disk, disk) /\ disk.next <= disk.next
  BY DEF Reaches, FlightInv, Skeleton, Take
<1> QED
  BY <1>1, <1>2 DEF MemoryInv, Numbered, Reaches, LifeOf

LEMMA NextMemoryInv ==
  ASSUME FlightInv, FlightInv', MemoryInv, [Next]_vars
  PROVE  MemoryInv' /\ Reaches(disk, disk')
<1>1. CASE UNCHANGED vars
  <2>1. UNCHANGED <<project, disk>>
    BY <1>1 DEF vars
  <2> QED
    BY <2>1, Unchanged, StepKeepsMemoryInv
<1> QED
  BY <1>1, OwnStepMoves, StepKeepsMemoryInv, EditMoves, DeathMoves DEF Next

----------------------------------------------------------------------------
(* Answers.                                                                *)

Endings == {"placed", "cancelled", "tooShort", "broken"}

\* An ending told with take t is the one qrec.json has now.
OnDisk(word, t) == word \in Endings /\ t \in Numbers => LifeOf(disk, t).age = EndTold(word)

\* Only those who wait, or ask in this step, are answered, and truly.
AnswersMove ==
  \A r \in Req :
    \/ answers'[r] = answers[r]
    \/ answers[r] = NoAnswer /\ r \in asked' /\ r \notin pending'
         /\ OnDisk(answers[r].word, answers[r].take)'

AnswersGoOn == AnswerInv' /\ AnswersMove

\* Delivering letters whose endings are true.
LEMMA DeliverMoves ==
  ASSUME RequestInv, AnswerInv, NEW r \in Req \cup {NoReq}, NEW mail, NEW saved \in BOOLEAN,
         r \notin asked, asked' = asked \cup Opt(r),
         Deliver(pending \cup Opt(r), mail, saved),
         \A m \in mail : saved => OnDisk(m.word, m.take)'
  PROVE  AnswersGoOn
<1> DEFINE waiting == pending \cup Opt(r)
           letter(q) == CHOOSE m \in mail : q \in m.to
           hears(q) == q \in waiting /\ \E m \in mail : q \in m.to
<1>1. waiting \subseteq asked' /\ pending \subseteq asked
      /\ \A q \in waiting : q \in Req => q \in pending \/ q \notin asked
  BY DEF RequestInv, RequestsTyped, Opt
<1>2. /\ \A q \in Req : answers'[q] = IF hears(q) THEN Said(letter(q), saved) ELSE answers[q]
      /\ pending' = waiting \ Told(mail)
  BY DEF Deliver
<1>3. ASSUME NEW q \in Req, hears(q)
      PROVE  /\ answers[q] = NoAnswer /\ q \in asked' /\ q \notin pending'
             /\ OnDisk(answers[q].word, answers[q].take)'
  <2>1. letter(q) \in mail /\ q \in letter(q).to
    BY <1>3
  <2>2. answers[q] = NoAnswer /\ q \in asked'
    BY <1>1, <1>3 DEF AnswerInv
  <2>3. q \notin pending'
    BY <1>2, <2>1 DEF Told
  <2>4. saved => OnDisk(letter(q).word, letter(q).take)'
    BY <2>1
  <2>5. answers'[q] = Said(letter(q), saved)
    BY <1>2, <1>3
  <2> HIDE DEF letter
  <2>6. OnDisk(answers[q].word, answers[q].take)'
    <3>1. CASE saved
      BY <2>4, <2>5, <3>1 DEF Said
    <3>2. CASE ~saved
      BY <2>5, <3>2 DEF Said, OnDisk, Endings, OkWords
    <3> QED
      BY <3>1, <3>2
  <2> QED
    BY <2>2, <2>3, <2>6
<1>4. ASSUME NEW q \in Req, ~hears(q), q \notin asked' \/ q \in pending'
      PROVE  answers'[q] = NoAnswer
  <2>1. q \notin asked \/ q \in pending
    BY <1>1, <1>2, <1>4
  <2> QED
    BY <1>2, <1>4, <2>1 DEF AnswerInv
<1> HIDE DEF hears, letter
<1>5. AnswerInv'
  BY <1>3, <1>4 DEF AnswerInv
<1>6. AnswersMove
  BY <1>2, <1>3 DEF AnswersMove
<1> QED
  BY <1>5, <1>6 DEF AnswersGoOn

\* Letters without an ending promise nothing.
Harmless(mail) == \A m \in mail : m.word \notin Endings

LEMMA HarmlessMoves ==
  ASSUME RequestInv, AnswerInv, NEW r \in Req \cup {NoReq}, NEW mail, NEW saved \in BOOLEAN,
         Asks(r), Deliver(pending \cup Opt(r), mail, saved), Harmless(mail)
  PROVE  AnswersGoOn
<1>1. \A m \in mail : saved => OnDisk(m.word, m.take)'
  BY DEF Harmless, OnDisk
<1> QED
  BY <1>1, DeliverMoves DEF Asks

\* An event delivers letters to those who wait.
LEMMA EventDelivers ==
  ASSUME RequestInv, AnswerInv, NEW mail, NEW saved \in BOOLEAN,
         asked' = asked, Deliver(pending, mail, saved),
         \A m \in mail : saved => OnDisk(m.word, m.take)'
  PROVE  AnswersGoOn
<1>1. NoReq \notin asked /\ Opt(NoReq) = {}
  BY RecordAssumptions DEF RequestInv, RequestsTyped, Opt
<1>2. asked' = asked \cup Opt(NoReq) /\ pending \cup Opt(NoReq) = pending
  BY <1>1
<1> QED
  BY <1>1, <1>2, DeliverMoves

LEMMA HarmlessEvent ==
  ASSUME RequestInv, AnswerInv, NEW mail, NEW saved \in BOOLEAN,
         asked' = asked, Deliver(pending, mail, saved), Harmless(mail)
  PROVE  AnswersGoOn
<1>1. \A m \in mail : saved => OnDisk(m.word, m.take)'
  BY DEF Harmless, OnDisk
<1> QED
  BY <1>1, EventDelivers

\* Nobody is answered; who asks now may have to wait.
LEMMA SilentMoves ==
  ASSUME AnswerInv, answers' = answers, asked \subseteq asked',
         \A q \in Req : q \notin asked' \/ q \in pending' => q \notin asked \/ q \in pending
  PROVE  AnswersGoOn
BY DEF AnswersGoOn, AnswersMove, AnswerInv

LEMMA WaitMoves ==
  ASSUME AnswerInv, NEW r, Asks(r), answers' = answers,
         pending' = pending \cup Opt(r) \/ pending' = pending \cup {r}
  PROVE  AnswersGoOn
BY SilentMoves DEF Asks, Opt

LEMMA NobodyMoves ==
  ASSUME AnswerInv, UNCHANGED <<answers, asked, pending>>
  PROVE  AnswersGoOn
BY SilentMoves

LEMMA OneLetterHarmless ==
  ASSUME NEW S, NEW word, NEW t, word \notin Endings
  PROVE  Harmless({Letter(S, word, t)})
BY DEF Harmless, Letter

LEMMA HarmlessCup ==
  ASSUME NEW A, NEW B, Harmless(A), Harmless(B)
  PROVE  Harmless(A \cup B)
BY DEF Harmless

LEMMA ReadyHarmless == Harmless(ReadyLetters)
BY DEF Harmless, ReadyLetters, Letter, Endings

LEMMA StopLettersHarmless == Harmless(StopLetters)
BY DEF Harmless, StopLetters, Letter, Endings

LEMMA WhyNotHarmless == WhyNotStart \notin Endings /\ WhyNotBegin \notin Endings
BY DEF WhyNotStart, WhyNotBegin, Endings

----------------------------------------------------------------------------
(* What requests are answered.                                             *)

LEMMA RefuseAnswers ==
  ASSUME RequestInv, AnswerInv, NEW r \in Req \cup {NoReq}, NEW word, word \notin Endings,
         Refuse(r, word)
  PROVE  AnswersGoOn
BY HarmlessMoves, OneLetterHarmless DEF Refuse

LEMMA DroppedAnswers ==
  ASSUME RequestInv, AnswerInv, NEW r \in Req \cup {NoReq}, NEW p, Asks(r), CommandDropped(r, p)
  PROVE  AnswersGoOn
BY HarmlessMoves, OneLetterHarmless DEF CommandDropped, Endings

LEMMA StartAnswers ==
  ASSUME RequestInv, AnswerInv, NEW r \in Req, NEW ids, NEW secs, NEW wait,
         RecordStart(r, ids, secs, wait)
  PROVE  AnswersGoOn
<1>1. Asks(r) /\ \E over : Start(secs, over, r, wait)
  BY DEF RecordStart
<1>2. CASE pending' = pending \cup {r} /\ answers' = answers
  BY <1>1, <1>2, WaitMoves
<1>3. CASE DropBegin(r)
  BY <1>1, <1>3, DroppedAnswers DEF DropBegin
<1> QED
  BY <1>1, <1>2, <1>3 DEF Start

LEMMA CountdownEndAnswers ==
  ASSUME RequestInv, AnswerInv, NEW r \in Req \cup {NoReq}, Asks(r), NEW mail, Harmless(mail),
         NEW word, word \notin Endings, NEW cancels,
         EndCountdown(pending \cup Opt(r), mail, word, cancels)
  PROVE  AnswersGoOn
<1> DEFINE all == mail \cup ReadyLetters \cup {Letter(Opt(record.startReq), word, NoTake)}
<1>1. PICK saved \in BOOLEAN : Deliver(pending \cup Opt(r), all, saved)
  BY DEF EndCountdown
<1>2. Harmless(all)
  BY HarmlessCup, ReadyHarmless, OneLetterHarmless
<1> HIDE DEF all
<1> QED
  BY <1>1, <1>2, HarmlessMoves

LEMMA CancelAnswers ==
  ASSUME RequestInv, AnswerInv, NEW r \in Req \cup {NoReq}, CancelCountdown(r)
  PROVE  AnswersGoOn
<1>1. Asks(r)
  BY DEF CancelCountdown
<1>2. CASE EndCountdown(pending \cup Opt(r), {Letter(Opt(r), "countdownCancelled", NoTake)},
                        "countdownEnded", TRUE)
  <2>1. "countdownCancelled" \notin Endings /\ "countdownEnded" \notin Endings
    BY DEF Endings
  <2> QED
    BY <1>1, <1>2, <2>1, OneLetterHarmless, CountdownEndAnswers
<1>3. CASE CommandDropped(r, ReadyCuts(project))
  BY <1>1, <1>3, DroppedAnswers
<1> QED
  BY <1>2, <1>3 DEF CancelCountdown

LEMMA DiscardLastAnswers ==
  ASSUME RequestInv, AnswerInv, NEW r \in Req, TakeDiscardLast(r)
  PROVE  AnswersGoOn
<1>1. CASE Refuse(r, "refused")
  BY <1>1, RefuseAnswers DEF Endings
<1>2. ASSUME Asks(r), NEW saved \in BOOLEAN,
             Deliver(pending \cup {r}, {Letter({r}, "discarded", NoTake)}, saved)
      PROVE  AnswersGoOn
  <2>1. pending \cup {r} = pending \cup Opt(r)
    BY OptFacts, RecordAssumptions
  <2> QED
    BY <1>2, <2>1, HarmlessMoves, OneLetterHarmless DEF Endings
<1>3. CASE Asks(r) /\ CommandDropped(r, Discarded(project))
  BY <1>3, DroppedAnswers
<1>4. CASE Asks(r) /\ pending' = pending \cup {r} /\ answers' = answers
  BY <1>4, WaitMoves
<1> QED
  BY <1>1, <1>2, <1>3, <1>4 DEF TakeDiscardLast

LEMMA TakePurgeAnswers ==
  ASSUME RequestInv, AnswerInv, NEW r \in Req, NEW t, TakePurge(r, t)
  PROVE  AnswersGoOn
<1>1. Asks(r) /\ pending \cup {r} = pending \cup Opt(r)
  BY OptFacts, RecordAssumptions DEF TakePurge
<1>2. CASE pending' = pending \cup {r} /\ answers' = answers
  BY <1>1, <1>2, WaitMoves
<1>3. CASE Deliver(pending \cup {r}, {Letter({r}, "purgeFailed", NoTake)}, TRUE)
  BY <1>1, <1>3, HarmlessMoves, OneLetterHarmless DEF Endings
<1>4. CASE CommandDropped(r, RemoveTake(project, t))
  BY <1>1, <1>4, DroppedAnswers
<1> QED
  BY <1>2, <1>3, <1>4 DEF TakePurge

LEMMA RequestAnswers ==
  ASSUME RequestInv, AnswerInv, Request
  PROVE  AnswersGoOn
<1>1. ASSUME NEW r \in Req \cup {NoReq}, NEW word, word \notin Endings, Refuse(r, word)
      PROVE  AnswersGoOn
  BY <1>1, RefuseAnswers
<1>2. "refused" \notin Endings
  BY DEF Endings
<1>3. ASSUME NEW r \in Req, NEW ids, NEW secs, RefuseStart(r, ids, secs) PROVE AnswersGoOn
  BY <1>1, <1>2, <1>3, WhyNotHarmless DEF RefuseStart
<1>4. ASSUME NEW r \in Req \cup {NoReq}, NEW cancel, StopRecording(r, cancel) PROVE AnswersGoOn
  BY <1>4, HarmlessMoves, StopLettersHarmless DEF StopRecording
<1>5. ASSUME NEW r \in Req, NEW secs, NEW wait, RecordToggle(r, secs, wait) PROVE AnswersGoOn
  BY <1>1, <1>2, <1>3, <1>4, <1>5, StartAnswers, CancelAnswers DEF RecordToggle
<1>6. ASSUME NEW r \in Req, RecordCancel(r) PROVE AnswersGoOn
  BY <1>1, <1>2, <1>4, <1>6, CancelAnswers DEF RecordCancel
<1>7. ASSUME NEW r \in Req \cup {NoReq}, RecordStop(r) PROVE AnswersGoOn
  <2>1. CASE JoinStop(r)
    BY <2>1, WaitMoves DEF JoinStop
  <2> QED
    BY <1>1, <1>2, <1>4, <1>7, <2>1, CancelAnswers DEF RecordStop
<1>8. ASSUME NEW r \in Req, NEW clip, Autocut(r, clip) PROVE AnswersGoOn
  BY <1>8, WaitMoves DEF Autocut
<1>9. CASE Export
  BY <1>9, NobodyMoves DEF Export, reqVars
<1> QED
  BY <1>3, <1>5, <1>6, <1>7, <1>8, <1>9, StartAnswers, DiscardLastAnswers, TakePurgeAnswers
     DEF Request

----------------------------------------------------------------------------
(* What events answer.                                                     *)

\* A broken take is told to be broken once qrec.json says so.
LEMMA EndBrokenAnswers ==
  ASSUME FlightInv, RequestInv, AnswerInv, asked' = asked, NEW word, word \notin Endings,
         EndBroken(project, word)
  PROVE  AnswersGoOn
<1> DEFINE t == record.take
           q == ReadyCuts(MarkBroken(project, t))
           mail == {Letter(Opt(record.startReq), word, t),
                    Letter(record.waiters, IF record.name = "recording" THEN word ELSE "broken", t),
                    Letter(record.stopReqs, "broken", t),
                    Letter(Opt(record.discardReq), "notPlaced", t)}
<1>1. PICK saved \in BOOLEAN : Write(q, saved) /\ Deliver(pending, mail \cup ReadyLetters, saved)
  BY DEF EndBroken
<1>2. t \in Numbers => q.status[t] = "broken"
  <2>1. Skeleton(MarkBroken(project, t))
        /\ MarkBroken(project, t).status = [project.status EXCEPT ![t] = "broken"]
    BY BrokenSkeleton DEF FlightInv
  <2>2. q.status = [project.status EXCEPT ![t] = "broken"]
    BY <2>1, ReadyCutsFacts DEF SameFacts
  <2> HIDE DEF q, t
  <2> QED
    BY <2>2 DEF FlightInv, Skeleton, Numbers
<1>3. \A m \in mail : m.word \in Endings => m.word = "broken" /\ m.take = t
  BY DEF Letter, Endings
<1> HIDE DEF mail, q, t
<1>4. saved => disk' = q
  BY <1>1 DEF Write
<1>5. ASSUME NEW m \in mail \cup ReadyLetters, saved PROVE OnDisk(m.word, m.take)'
  <2>1. CASE m \in mail
    BY <1>2, <1>3, <1>4, <1>5, <2>1 DEF OnDisk, LifeOf, EndTold
  <2>2. CASE m \in ReadyLetters
    BY <2>2, ReadyHarmless DEF Harmless, OnDisk
  <2> QED
    BY <2>1, <2>2
<1> QED
  BY <1>1, <1>5, EventDelivers

\* So is a take that was finalized: with its own verdict.
LEMMA FinalizeTakeAnswers ==
  ASSUME FlightInv, RequestInv, AnswerInv, asked' = asked, NEW frames,
         FinalizeTake(record.take, frames)
  PROVE  AnswersGoOn
<1> DEFINE t == record.take
           verdict == IF frames < MinTakeFrames THEN "tooShort"
                      ELSE IF record.cancelled THEN "cancelled" ELSE "placed"
           facts == CASE verdict = "tooShort" -> [project EXCEPT !.status[t] = "tooShort", !.dur[t] = frames]
                      [] verdict = "cancelled" -> [project EXCEPT !.status[t] = "ok", !.dur[t] = frames]
                      [] OTHER -> Place(project, t, frames, record.over)
           drops == record.discard /\ verdict = "placed" /\ CanDiscard(facts)
           kept == IF drops THEN Discarded(facts) ELSE facts
           p == ReadyCuts(kept)
           told == IF verdict # "placed" THEN "notPlaced"
                   ELSE IF drops THEN "discarded" ELSE "notDiscarded"
           mail == {Letter(record.stopReqs \cup record.waiters, verdict, t),
                    Letter(Opt(record.discardReq), told, t)}
<1>1. PICK saved \in BOOLEAN : Write(p, saved) /\ Deliver(pending, ReadyLetters \cup mail, saved)
  BY DEF FinalizeTake
<1>2. Skeleton(facts) /\ facts.status = [project.status EXCEPT ![t] = EndTold(verdict)]
  <2>1. CASE verdict = "tooShort"
    BY <2>1 DEF FlightInv, Skeleton, Status, EndTold
  <2>2. CASE verdict = "cancelled"
    BY <2>2 DEF FlightInv, Skeleton, Status, EndTold
  <2>3. CASE verdict = "placed"
    <3>1. facts = Place(project, t, frames, record.over) /\ EndTold(verdict) = "ok"
      BY <2>3 DEF EndTold
    <3>2. Skeleton(Place(project, t, frames, record.over))
          /\ Place(project, t, frames, record.over).status = [project.status EXCEPT ![t] = "ok"]
      <4> HIDE DEF facts
      <4> QED
        BY ZenonT(60) DEF FlightInv, Skeleton, Place, Status
    <3> HIDE DEF facts, verdict
    <3> QED
      BY <3>1, <3>2
  <2> QED
    BY <2>1, <2>2, <2>3
<1>3. Skeleton(kept) /\ SameFacts(facts, kept)
  <2>1. SameFacts(facts, facts)
    BY DEF SameFacts
  <2> HIDE DEF facts
  <2> QED
    BY <1>2, <2>1, DiscardedSkeleton, DiscardedFacts
<1>4. SameFacts(kept, p)
  <2> HIDE DEF kept
  <2> QED
    BY <1>3, ReadyCutsFacts
<1>5. \A m \in mail : m.word \in Endings => m.word = verdict /\ m.take = t
  <2>1. told \notin Endings
    BY DEF Endings
  <2> HIDE DEF told, verdict
  <2> QED
    BY <2>1 DEF Letter
<1> HIDE DEF p, facts, kept, t, mail, verdict
<1>6. t \in Numbers => p.status[t] = EndTold(verdict)
  BY <1>2, <1>3, <1>4 DEF SameFacts, FlightInv, Skeleton, Numbers
<1>7. saved => disk' = p
  BY <1>1 DEF Write
<1>8. EndTold(verdict) # "none"
  BY DEF verdict, EndTold
<1>9. ASSUME NEW m \in ReadyLetters \cup mail, saved PROVE OnDisk(m.word, m.take)'
  <2>1. CASE m \in mail
    BY <1>5, <1>6, <1>7, <1>8, <1>9, <2>1 DEF OnDisk, LifeOf
  <2>2. CASE m \in ReadyLetters
    BY <2>2, ReadyHarmless DEF Harmless, OnDisk
  <2> QED
    BY <2>1, <2>2
<1> QED
  BY <1>1, <1>9, EventDelivers

LEMMA EndUnprobedAnswers ==
  ASSUME RequestInv, AnswerInv, asked' = asked, NEW t, EndUnprobed(t)
  PROVE  AnswersGoOn
<1> DEFINE mail == {Letter(record.stopReqs \cup record.waiters, "unprobed", t),
                    Letter(Opt(record.discardReq), "notPlaced", t)}
<1>1. PICK saved \in BOOLEAN : Deliver(pending, ReadyLetters \cup mail, saved)
  BY DEF EndUnprobed
<1>2. Harmless(ReadyLetters \cup mail)
  <2>1. Harmless(mail)
    BY DEF Harmless, Letter, Endings
  <2> QED
    BY <2>1, ReadyHarmless, HarmlessCup
<1> HIDE DEF mail
<1> QED
  BY <1>1, <1>2, HarmlessEvent

LEMMA EventAnswers ==
  ASSUME FlightInv, RequestInv, AnswerInv, HandleEvent
  PROVE  AnswersGoOn
<1>1. asked' = asked
  BY DEF HandleEvent
<1>2. CASE answers' = answers /\ pending' = pending
  BY <1>1, <1>2, NobodyMoves
<1>3. ASSUME NEW word, word \notin Endings, NEW cancels, EndCountdown(pending, {}, word, cancels)
      PROVE  AnswersGoOn
  <2>1. Asks(NoReq) /\ pending \cup Opt(NoReq) = pending /\ Harmless({})
    BY <1>1, RecordAssumptions DEF Asks, Opt, Harmless, RequestInv, RequestsTyped
  <2> QED
    BY <1>3, <2>1, CountdownEndAnswers
<1>4. "captureFailed" \notin Endings /\ "engineWedged" \notin Endings
  BY DEF Endings
<1>5. CASE TimerFired
  BY <1>2, <1>3, <1>5, WhyNotHarmless DEF TimerFired
<1>6. CASE CaptureStarted
  BY <1>1, <1>6, HarmlessEvent, StopLettersHarmless DEF CaptureStarted
<1>7. CASE CaptureFailed \/ CaptureTimedOut
  BY <1>1, <1>4, <1>7, EndBrokenAnswers DEF CaptureFailed, CaptureTimedOut
<1>8. CASE StreamLost
  BY <1>1, <1>2, <1>8, HarmlessEvent, StopLettersHarmless DEF StreamLost
<1>9. CASE CaptureStopped \/ Ignore \/ RecoverProbed
  BY <1>2, <1>9 DEF CaptureStopped, Ignore, RecoverProbed
<1>10. CASE EngineWedged
  BY <1>1, <1>2, <1>3, <1>4, <1>10, EndBrokenAnswers DEF EngineWedged
<1>11. CASE FinalizeProbed
  BY <1>1, <1>4, <1>11, EndBrokenAnswers, FinalizeTakeAnswers, EndUnprobedAnswers
     DEF FinalizeProbed
<1> QED
  BY <1>5, <1>6, <1>7, <1>8, <1>9, <1>10, <1>11 DEF HandleEvent

----------------------------------------------------------------------------
(* Every step, for the answers.                                            *)

LEMMA OutsideAnswers ==
  ASSUME RequestInv, AnswerInv, Outside
  PROVE  AnswersGoOn
<1>1. ASSUME NEW job, NEW cuts, SilenceDetected(job, cuts) PROVE AnswersGoOn
  <2>1. asked' = asked
    BY <1>1 DEF SilenceDetected
  <2>2. CASE UNCHANGED <<pending, answers>>
    BY <2>1, <2>2, NobodyMoves
  <2>3. ASSUME NEW saved \in BOOLEAN,
               Deliver(pending, ReadyLetters \cup
                 {Letter(Opt(job.req), "autocutDone", NoTake)}, saved)
        PROVE  AnswersGoOn
    <3>1. Harmless(ReadyLetters \cup {Letter(Opt(job.req), "autocutDone", NoTake)})
      BY ReadyHarmless, OneLetterHarmless, HarmlessCup DEF Endings
    <3> QED
      BY <2>1, <2>3, <3>1, HarmlessEvent
  <2> QED
    BY <1>1, <2>2, <2>3 DEF SilenceDetected
<1>2. ASSUME NEW p, PurgeReturns(p) PROVE AnswersGoOn
  <2>1. asked' = asked
    BY <1>2 DEF PurgeReturns
  <2>2. Harmless({Letter(Opt(p.req), "purged", p.take)})
        /\ Harmless({Letter(Opt(p.req), "purgeFailed", NoTake)})
    BY OneLetterHarmless DEF Endings
  <2> QED
    BY <1>2, <2>1, <2>2, HarmlessEvent DEF PurgeReturns
<1> QED
  BY <1>1, <1>2, NobodyMoves DEF Outside, TimerElapses, ProbeReturns, ExportReturns, reqVars

LEMMA NextAnswers ==
  ASSUME FlightInv, RequestInv, AnswerInv, [Next]_vars
  PROVE  AnswersGoOn
<1>1. CASE Engine \/ ExternalEdit \/ UNCHANGED vars
  BY <1>1, NobodyMoves DEF Engine, ExternalEdit, vars, reqVars
<1>2. CASE HostDies
  BY <1>2, SilentMoves DEF HostDies
<1> QED
  BY <1>1, <1>2, RequestAnswers, EventAnswers, OutsideAnswers DEF Next

----------------------------------------------------------------------------
(* The refinement.                                                         *)

LifeInv == FlightInv /\ RequestInv /\ MemoryInv /\ AnswerInv

DiskLife == [t \in Numbers |-> LifeOf(disk, t)]
ToldLife == [t \in Numbers |-> ToldOf(t)]

LEMMA DiskLifeTyped ==
  ASSUME FlightInv, MemoryInv
  PROVE  DiskLife \in [Numbers -> Lives!Life]
BY DEF DiskLife, FlightInv, MemoryInv, Skeleton, Status, Numbers, LifeOf, Lives!Life, Lives!Age

\* An end once told stays told; a new one is on disk.
LEMMA ToldGrows ==
  ASSUME AnswersMove, NEW t \in Numbers
  PROVE  /\ ToldOf(t) \subseteq ToldOf(t)'
         /\ ToldOf(t)' \ ToldOf(t) \subseteq {LifeOf(disk, t).age'}
<1>1. NoAnswer.word \notin Endings
  BY DEF NoAnswer, Endings
<1>2. \A e : e \in ToldOf(t) <=>
        \E r \in Req : answers[r].take = t /\ answers[r].word \in Endings
                        /\ e = EndTold(answers[r].word)
  BY DEF ToldOf, Tells, Endings
<1>3. \A e : e \in ToldOf(t)' <=>
        \E r \in Req : answers'[r].take = t /\ answers'[r].word \in Endings
                        /\ e = EndTold(answers'[r].word)
  BY DEF ToldOf, Tells, Endings, EndTold
<1>4. ASSUME NEW e \in ToldOf(t) PROVE e \in ToldOf(t)'
  BY <1>1, <1>2, <1>3, <1>4 DEF AnswersMove
<1>5. ASSUME NEW e \in ToldOf(t)', e \notin ToldOf(t) PROVE e = LifeOf(disk, t).age'
  <2>1. PICK r \in Req : answers'[r].take = t /\ answers'[r].word \in Endings
                          /\ e = EndTold(answers'[r].word)
    BY <1>3, <1>5
  <2>2. answers'[r] # answers[r]
    BY <1>2, <1>5, <2>1
  <2>3. OnDisk(answers[r].word, answers[r].take)'
    BY <2>2 DEF AnswersMove
  <2> QED
    BY <2>1, <2>3 DEF OnDisk, EndTold
<1> QED
  BY <1>4, <1>5

LEMMA InitLifeInv == Init => MemoryInv /\ AnswerInv
<1> SUFFICES ASSUME Init PROVE MemoryInv /\ AnswerInv
  OBVIOUS
<1>1. project \in Project /\ Numbered(project) /\ disk = project
  BY ProjectAssumption DEF Init
<1>2. project.next \in Int /\ project.dur \in [Take -> Nat]
  BY <1>1 DEF Project, Take
<1>3. Reaches(project, project)
  BY DEF Reaches
<1>4. MemoryInv
  BY <1>1, <1>2, <1>3 DEF MemoryInv
<1>5. AnswerInv
  BY DEF Init, AnswerInv
<1> QED
  BY <1>4, <1>5

LEMMA InitLives == Init => Lives!Init
<1> SUFFICES ASSUME Init PROVE Lives!Init
  OBVIOUS
<1>1. DiskLife \in [Numbers -> Lives!Life]
  BY InitFlightInv, InitLifeInv, DiskLifeTyped
<1>2. ToldLife = [t \in Numbers |-> {}]
  BY DEF Init, ToldLife, ToldOf, Tells, NoAnswer
<1> QED
  BY <1>1, <1>2 DEF Lives!Init, Lives!Number, DiskLife, ToldLife, Numbers, Lives!Take, Take

LEMMA NextLives ==
  ASSUME LifeInv, FlightInv', MemoryInv', Reaches(disk, disk'), AnswersMove
  PROVE  Lives!Grow
<1>1. DiskLife' \in [Numbers -> Lives!Life]
  BY DEF DiskLife, FlightInv, MemoryInv, Skeleton, Status, Numbers, LifeOf, Lives!Life, Lives!Age
<1>2. ToldLife' \in [Numbers -> SUBSET Lives!End]
  BY DEF ToldLife, ToldOf, Tells, EndTold
<1>3. ASSUME NEW t \in Numbers
      PROVE  /\ Lives!Older(LifeOf(disk, t), LifeOf(disk, t)')
             /\ ToldOf(t) \subseteq ToldOf(t)'
             /\ ToldOf(t)' \ ToldOf(t) \subseteq {LifeOf(disk, t).age'}
  BY ToldGrows DEF Reaches, LifeOf, Numbers
<1> QED
  BY <1>1, <1>2, <1>3 DEF Lives!Grow, Lives!Number, Lives!Take, DiskLife, ToldLife, Numbers, Take

\* Recording implements TakeLife: whatever fails, arrives late or dies, on disk
\* a take is recorded once, ends once, keeps its number, and each end that a
\* caller is told is the end on disk.
THEOREM RecordImplementsTakeLife == Spec => TakesLive
<1>1. Init => LifeInv /\ Lives!Init
  BY InitFlightInv, InitRequestInv, InitLifeInv, InitLives DEF LifeInv
<1>2. LifeInv /\ [Next]_vars => LifeInv' /\ Lives!Grow
  <2> SUFFICES ASSUME LifeInv, [Next]_vars PROVE LifeInv' /\ Lives!Grow
    OBVIOUS
  <2>1. FlightInv' /\ RequestInv'
    BY NextFlightInv, NextRequestInv DEF LifeInv
  <2>2. MemoryInv' /\ Reaches(disk, disk') /\ AnswersGoOn
    BY <2>1, NextMemoryInv, NextAnswers DEF LifeInv
  <2> QED
    BY <2>1, <2>2, NextLives DEF LifeInv, AnswersGoOn
<1> QED
  BY <1>1, <1>2, PTL DEF Spec, TakesLive, Lives!Spec

\* What a caller was told of a take's end is what qrec.json on disk says of
\* the take, for as long as it is not purged.
THEOREM ToldStaysTrue == Spec => []Lives!ToldIsTrue
<1>1. Lives!Init => Lives!ToldIsTrue
  BY DEF Lives!Init, Lives!ToldIsTrue, Lives!Number
<1>2. Lives!ToldIsTrue /\ [Lives!Grow]_<<DiskLife, ToldLife>> => Lives!ToldIsTrue'
  <2> SUFFICES ASSUME Lives!ToldIsTrue, [Lives!Grow]_<<DiskLife, ToldLife>>
               PROVE  Lives!ToldIsTrue'
    OBVIOUS
  <2>1. CASE Lives!Grow
    <3> SUFFICES ASSUME NEW t \in Numbers, NEW v \in ToldOf(t)'
                 PROVE  LifeOf(disk, t)'.age \in {v, "purged"}
      BY DEF Lives!ToldIsTrue, Lives!Number, Lives!Take, Take, Numbers
    <3>1. /\ Lives!Older(LifeOf(disk, t), LifeOf(disk, t)')
          /\ v \notin ToldOf(t) => v = LifeOf(disk, t)'.age
      BY <2>1 DEF Lives!Grow, Lives!Number, Lives!Take, Take, Numbers
    <3>2. v \in ToldOf(t) => LifeOf(disk, t).age \in {v, "purged"}
      BY DEF Lives!ToldIsTrue, Lives!Number, Lives!Take, Take, Numbers
    <3>3. v \in {"ok", "tooShort", "broken"}
      BY DEF ToldOf, Tells, EndTold
    <3> QED
      BY <3>1, <3>2, <3>3
  <2>2. CASE UNCHANGED <<DiskLife, ToldLife>>
    BY <2>2 DEF Lives!ToldIsTrue, DiskLife, ToldLife, Lives!Number, Lives!Take, Take, Numbers
  <2> QED
    BY <2>1, <2>2
<1> QED
  BY <1>1, <1>2, RecordImplementsTakeLife, PTL DEF TakesLive, Lives!Spec, DiskLife, ToldLife, Numbers

----------------------------------------------------------------------------
(* The newest take.                                                        *)

\* A step that ends the take in flight or leaves it, and begins none.
NoneBegins == record'.take \in {record.take, NoTake} /\ Pools' \subseteq Pools

LEMMA NoneBeginsKeeps == NewestInv /\ NoneBegins => NewestInv'
BY DEF NewestInv, NoneBegins, InCapture

LEMMA NothingBegins ==
  ASSUME UNCHANGED <<project, disk>>, record'.take \in {record.take, NoTake}
  PROVE  NoneBegins
BY DEF NoneBegins, Pools, Pool

LEMMA IdleBegins == Idle.take = NoTake
BY DEF Idle

\* A change that is saved, or stays in memory, and adds no take.
LEMMA NoneAdded ==
  ASSUME NEW p, NEW saved, Write(p, saved) \/ Persist(p, saved), Pool(p) \subseteq Pools,
         record'.take \in {record.take, NoTake}
  PROVE  NoneBegins
<1>1. project' = p /\ (disk' = p \/ disk' = disk)
  BY DEF Write, Persist
<1>2. Pool(project)' \subseteq Pools /\ Pool(disk)' \subseteq Pools
  BY <1>1 DEF Pool, Pools
<1>3. QED BY <1>2 DEF NoneBegins, Pools

LEMMA SameTakes ==
  ASSUME NEW p, p.status = project.status
  PROVE  Pool(p) \subseteq Pools
BY DEF Pool, Pools

LEMMA TakeSettled ==
  ASSUME FlightInv, NEW p, NEW t, NEW s, p.status = [project.status EXCEPT ![t] = s],
         t \in Take => s = "none" \/ project.status[t] # "none"
  PROVE  Pool(p) \subseteq Pools
BY DEF Pool, Pools, FlightInv, Skeleton

\* A take that begins is numbered above every one there is.
LEMMA BeginsNewest ==
  ASSUME FlightInv, MemoryInv, NEW over, NEW r, NEW wait, NEW saved, NEW rest,
         BeginTake(over, r, wait, saved, rest)
  PROVE  NewestInv'
<1> DEFINE t == NextTakeNumber
           S == {project.next} \cup {SaturatingSucc(u) : u \in dirs \cup Pool(project)}
<1>1. t \in Take
  BY NextIsTake
<1>2. Pool(project) \subseteq Take /\ dirs \subseteq Take /\ project.next \in Take /\ disk.next \in Take
      /\ Pool(disk) \subseteq Take
  BY DEF FlightInv, Skeleton, Pool
<1>3. S \subseteq Take /\ S # {}
  BY <1>2, SuccIsTake
<1>4. \A n \in S : n <= t
  <2>1. t = Largest(S)
    BY DEF NextTakeNumber
  <2> HIDE DEF S, t
  <2>2. QED BY <1>3, <2>1, LargestIn
<1>5. project.next <= t /\ \A u \in Pool(project) : SaturatingSucc(u) <= t
  BY <1>4
<1>6. record'.take = t /\ project' = Begun(project, t) /\ (disk' = project' \/ disk' = disk)
  BY DEF BeginTake, Write, Starting, Idle
<1>7. Begun(project, t).status = [project.status EXCEPT ![t] = "recording"]
  BY <1>1, BegunSkeleton DEF FlightInv
<1> HIDE DEF t, S
<1>8. \A u \in Pools' : u = t \/ u \in Pool(project) \/ u \in Pool(disk)
  BY <1>6, <1>7 DEF Pools, Pool, FlightInv, Skeleton
<1>9. \A u \in Pool(project) : u <= t
  <2>1. TAKE u \in Pool(project)
  <2>2. u \in Take /\ SaturatingSucc(u) <= t
    BY <1>2, <1>5
  <2>3. u <= SaturatingSucc(u) /\ SaturatingSucc(u) \in Take
    BY <2>2, SuccIsTake, MaxTakeAssumption DEF SaturatingSucc, Take
  <2>4. QED BY <1>1, <2>2, <2>3 DEF Take
<1>10. \A u \in Pool(disk) : u <= t
  <2>1. TAKE u \in Pool(disk)
  <2>2. u \in Take /\ (u < disk.next \/ (u = MaxTake /\ disk.next = MaxTake))
    BY <1>2 DEF MemoryInv, Numbered, Pool
  <2>3. u <= disk.next
    BY <1>2, <2>2 DEF Take
  <2>4. disk.next <= project.next
    BY DEF MemoryInv
  <2>5. QED BY <1>1, <1>2, <1>5, <2>2, <2>3, <2>4 DEF Take
<1>11. t <= t
  BY <1>1 DEF Take
<1>12. \A u \in Pools' : u <= record'.take
  BY <1>6, <1>8, <1>9, <1>10, <1>11
<1>13. QED BY <1>12 DEF NewestInv

LEMMA CountdownEndNewest ==
  ASSUME FlightInv, NewestInv, NEW waiting, NEW mail, NEW word, NEW cancels,
         EndCountdown(waiting, mail, word, cancels)
  PROVE  NewestInv'
<1>1. PICK saved \in BOOLEAN : Persist(ReadyCuts(project), saved)
  BY DEF EndCountdown
<1>2. ReadyCuts(project).status = project.status
  BY ReadyCutsSkeleton DEF FlightInv
<1>3. record'.take = NoTake
  BY IdleBegins DEF EndCountdown
<1>4. QED BY <1>1, <1>2, <1>3, SameTakes, NoneAdded, NoneBeginsKeeps

LEMMA StartNewest ==
  ASSUME FlightInv, MemoryInv, NewestInv, NEW secs, NEW over, NEW r, NEW wait,
         Start(secs, over, r, wait)
  PROVE  NewestInv'
<1>1. CASE StartCountdown(secs, over, r, wait)
  BY <1>1, NothingBegins, NoneBeginsKeeps DEF StartCountdown, Countdown, Idle
<1>2. ASSUME NEW saved \in BOOLEAN, BeginTake(over, r, wait, saved, inbox) PROVE NewestInv'
  BY <1>2, BeginsNewest
<1>3. CASE DropBegin(r)
  <2>1. UNCHANGED <<project, disk, record>>
    BY <1>3 DEF DropBegin, CommandDropped
  <2>2. QED BY <2>1, NothingBegins, NoneBeginsKeeps
<1>4. QED BY <1>1, <1>2, <1>3 DEF Start

LEMMA CancelNewest ==
  ASSUME FlightInv, NewestInv, NEW r, CancelCountdown(r)
  PROVE  NewestInv'
<1>1. CASE EndCountdown(pending \cup Opt(r), {Letter(Opt(r), "countdownCancelled", NoTake)},
                        "countdownEnded", TRUE)
  BY <1>1, CountdownEndNewest
<1>2. CASE CommandDropped(r, ReadyCuts(project))
  BY <1>2, NothingBegins, NoneBeginsKeeps DEF CommandDropped
<1>3. QED BY <1>1, <1>2 DEF CancelCountdown

LEMMA StopsNewest ==
  ASSUME NEW r, NEW cancel, NEW rest, StopsCapture(r, cancel, rest)
  PROVE  record'.take = record.take
BY DEF StopsCapture, Finalizing, Idle

LEMMA RequestNewest ==
  ASSUME FlightInv, RequestInv, MemoryInv, NewestInv, Request
  PROVE  NewestInv'
<1>1. ASSUME UNCHANGED <<project, disk, record>> PROVE NewestInv'
  BY <1>1, NothingBegins, NoneBeginsKeeps
<1>2. ASSUME NEW r, NEW word, Refuse(r, word) PROVE NewestInv'
  BY <1>1, <1>2 DEF Refuse, hostVars
<1>3. ASSUME NEW r, NEW ids, NEW secs, NEW wait, RecordStart(r, ids, secs, wait) PROVE NewestInv'
  BY <1>3, StartNewest DEF RecordStart
<1>4. ASSUME NEW r, NEW ids, NEW secs, RefuseStart(r, ids, secs) PROVE NewestInv'
  BY <1>2, <1>4 DEF RefuseStart
<1>5. ASSUME NEW r, NEW cancel, StopRecording(r, cancel) PROVE NewestInv'
  BY <1>5, StopsNewest, NothingBegins, NoneBeginsKeeps DEF StopRecording
<1>6. ASSUME NEW r, JoinStop(r) PROVE NewestInv'
  <2>1. record'.take = record.take
    BY <1>6 DEF JoinStop, RequestInv, RequestsTyped, RecordTyped
  <2>2. QED BY <1>6, <2>1, NothingBegins, NoneBeginsKeeps DEF JoinStop
<1>7. ASSUME NEW r, NEW secs, NEW wait, RecordToggle(r, secs, wait) PROVE NewestInv'
  BY <1>2, <1>3, <1>4, <1>5, <1>7, CancelNewest DEF RecordToggle
<1>8. ASSUME NEW r, RecordCancel(r) PROVE NewestInv'
  BY <1>2, <1>5, <1>8, CancelNewest DEF RecordCancel
<1>9. ASSUME NEW r, RecordStop(r) PROVE NewestInv'
  BY <1>2, <1>5, <1>6, <1>9, CancelNewest DEF RecordStop
<1>10. ASSUME NEW r, NEW clip, Autocut(r, clip) PROVE NewestInv'
  BY <1>1, <1>10 DEF Autocut
<1>11. CASE Export
  BY <1>1, <1>11 DEF Export
<1>12. ASSUME NEW r, TakeDiscardLast(r) PROVE NewestInv'
  <2>1. ASSUME NEW saved \in BOOLEAN, Write(Discarded(project), saved), record' = record
        PROVE  NewestInv'
    <3>1. Discarded(project).status = project.status
      BY DiscardedSkeleton DEF FlightInv
    <3>2. QED BY <2>1, <3>1, SameTakes, NoneAdded, NoneBeginsKeeps
  <2>2. CASE CommandDropped(r, Discarded(project))
    BY <1>1, <2>2 DEF CommandDropped
  <2>3. CASE record' = [record EXCEPT !.discard = TRUE, !.discardReq = r] /\ UNCHANGED <<project, disk>>
    <3>1. record'.take = record.take
      BY <2>3 DEF RequestInv, RequestsTyped, RecordTyped
    <3>2. QED BY <2>3, <3>1, NothingBegins, NoneBeginsKeeps
  <2>4. QED BY <1>2, <1>12, <2>1, <2>2, <2>3 DEF TakeDiscardLast
<1>13. ASSUME NEW r, NEW t \in Take, TakePurge(r, t) PROVE NewestInv'
  <2>1. ASSUME NEW saved \in BOOLEAN, Write(RemoveTake(project, t), saved), record' = record
        PROVE  NewestInv'
    <3>1. RemoveTake(project, t).status = [project.status EXCEPT ![t] = "none"]
      BY RemovedSkeleton DEF FlightInv
    <3>2. Pool(RemoveTake(project, t)) \subseteq Pools
      BY <3>1, TakeSettled
    <3>3. QED BY <2>1, <3>2, NoneAdded, NoneBeginsKeeps
  <2>2. CASE CommandDropped(r, RemoveTake(project, t))
    BY <1>1, <2>2 DEF CommandDropped
  <2>3. QED BY <1>13, <2>1, <2>2 DEF TakePurge
<1>14. QED
  BY <1>3, <1>4, <1>7, <1>8, <1>9, <1>10, <1>11, <1>12, <1>13 DEF Request

LEMMA EndBrokenNewest ==
  ASSUME FlightInv, NewestInv, NEW word, EndBroken(project, word)
  PROVE  NewestInv'
<1> DEFINE q == MarkBroken(project, record.take)
<1>1. Skeleton(q) /\ q.status = [project.status EXCEPT ![record.take] = "broken"]
  BY BrokenSkeleton DEF FlightInv
<1>2. PICK saved \in BOOLEAN : Write(ReadyCuts(q), saved)
  BY DEF EndBroken
<1> HIDE DEF q
<1>3. ReadyCuts(q).status = [project.status EXCEPT ![record.take] = "broken"]
  BY <1>1, ReadyCutsSkeleton
<1>4. record.take \in Take => project.status[record.take] # "none"
  BY DEF FlightInv, InFlightIsRecording, InCapture, NoTake, Take
<1>5. Pool(ReadyCuts(q)) \subseteq Pools
  BY <1>3, <1>4, TakeSettled
<1>6. record'.take = NoTake
  BY IdleBegins DEF EndBroken
<1>7. QED BY <1>2, <1>5, <1>6, NoneAdded, NoneBeginsKeeps

LEMMA FinalizeTakeNewest ==
  ASSUME FlightInv, NewestInv, record.take \in Take, NEW frames, FinalizeTake(record.take, frames)
  PROVE  NewestInv'
<1> DEFINE t == record.take
           verdict == IF frames < MinTakeFrames THEN "tooShort"
                      ELSE IF record.cancelled THEN "cancelled" ELSE "placed"
           facts == CASE verdict = "tooShort" -> [project EXCEPT !.status[t] = "tooShort", !.dur[t] = frames]
                      [] verdict = "cancelled" -> [project EXCEPT !.status[t] = "ok", !.dur[t] = frames]
                      [] OTHER -> Place(project, t, frames, record.over)
           drops == record.discard /\ verdict = "placed" /\ CanDiscard(facts)
           kept == IF drops THEN Discarded(facts) ELSE facts
           p == ReadyCuts(kept)
           Ends(q) == Skeleton(q) /\ \E s : q.status = [project.status EXCEPT ![t] = s]
<1>1. Ends(facts)
  <2>1. CASE verdict = "tooShort"
    BY <2>1 DEF FlightInv, Skeleton, Status
  <2>2. CASE verdict = "cancelled"
    BY <2>2 DEF FlightInv, Skeleton, Status
  <2>3. CASE verdict = "placed"
    <3>1. facts = Place(project, t, frames, record.over)
      BY <2>3
    <3> HIDE DEF facts
    <3>2. Ends(Place(project, t, frames, record.over))
      <4>1. /\ Skeleton(Place(project, t, frames, record.over))
            /\ Place(project, t, frames, record.over).status = [project.status EXCEPT ![t] = "ok"]
        BY PlacedSkeleton DEF FlightInv
      <4>2. QED BY <4>1
    <3>3. QED BY <3>1, <3>2
  <2>4. QED BY <2>1, <2>2, <2>3
<1>2. Ends(kept)
  <2> HIDE DEF facts
  <2>1. QED BY <1>1, DiscardedSkeleton
<1>3. PICK s : p.status = [project.status EXCEPT ![t] = s]
  <2> HIDE DEF kept
  <2>1. QED BY <1>2, ReadyCutsSkeleton
<1>4. PICK saved \in BOOLEAN : Write(p, saved)
  BY DEF FinalizeTake
<1>5. record'.take = NoTake
  BY IdleBegins DEF FinalizeTake
<1>6. project.status[t] # "none"
  BY DEF FlightInv, InFlightIsRecording, InCapture, NoTake, Take
<1> HIDE DEF p, t
<1>7. Pool(p) \subseteq Pools
  BY <1>3, <1>6, TakeSettled
<1>8. QED BY <1>4, <1>5, <1>7, NoneAdded, NoneBeginsKeeps

LEMMA RecoverProbedNewest ==
  ASSUME FlightInv, NewestInv, RecoverProbed
  PROVE  NewestInv'
<1> DEFINE t == Head(inbox).take
<1>1. record' = record
  BY DEF RecoverProbed
<1>2. CASE UNCHANGED <<project, disk>>
  BY <1>1, <1>2, NothingBegins, NoneBeginsKeeps
<1>3. ASSUME NEW saved \in BOOLEAN, NEW q, Write(q, saved), project.status[t] = "recording",
             NEW s, q.status = [project.status EXCEPT ![t] = s]
      PROVE  NewestInv'
  <2> HIDE DEF t
  <2>1. Pool(q) \subseteq Pools
    BY <1>3, TakeSettled
  <2>2. QED BY <1>1, <1>3, <2>1, NoneAdded, NoneBeginsKeeps
<1>4. ASSUME NEW saved \in BOOLEAN, Write(MarkBroken(project, t), saved),
             project.status[t] = "recording"
      PROVE  NewestInv'
  <2> HIDE DEF t
  <2>1. MarkBroken(project, t).status = [project.status EXCEPT ![t] = "broken"]
    BY BrokenSkeleton DEF FlightInv
  <2>2. QED BY <1>3, <1>4, <2>1
<1>5. ASSUME NEW saved \in BOOLEAN, NEW frames, NEW s,
             Write([project EXCEPT !.dur[t] = frames, !.status[t] = s], saved),
             project.status[t] = "recording"
      PROVE  NewestInv'
  <2> HIDE DEF t
  <2> DEFINE q == [project EXCEPT !.dur[t] = frames, !.status[t] = s]
  <2>1. q.status = [project.status EXCEPT ![t] = s]
    BY DEF FlightInv, Skeleton
  <2> HIDE DEF q
  <2>2. Write(q, saved)
    BY <1>5 DEF q
  <2>3. QED BY <1>3, <1>5, <2>1, <2>2
<1> HIDE DEF t
<1>6. QED BY <1>2, <1>4, <1>5 DEF RecoverProbed, t

LEMMA EventNewest ==
  ASSUME FlightInv, RequestInv, MemoryInv, NewestInv, HandleEvent
  PROVE  NewestInv'
<1>1. ASSUME UNCHANGED <<project, disk, record>> PROVE NewestInv'
  BY <1>1, NothingBegins, NoneBeginsKeeps
<1>2. CASE TimerFired
  <2>1. CASE UNCHANGED <<project, disk>>
             /\ record' = [record EXCEPT !.remaining = @ - 1, !.timer = nextTimer]
    <3>1. record'.take = record.take
      BY <2>1 DEF RequestInv, RequestsTyped, RecordTyped
    <3>2. QED BY <2>1, <3>1, NothingBegins, NoneBeginsKeeps
  <2>2. ASSUME NEW saved \in BOOLEAN,
               BeginTake(record.over, record.startReq, record.wait, saved, Rest)
        PROVE  NewestInv'
    BY <2>2, BeginsNewest
  <2>3. CASE EndCountdown(pending, {}, WhyNotBegin, FALSE)
    BY <2>3, CountdownEndNewest
  <2>4. QED BY <1>2, <2>1, <2>2, <2>3 DEF TimerFired
<1>3. ASSUME NEW saved \in BOOLEAN, Write(project, saved), record'.take = record.take
      PROVE  NewestInv'
  BY <1>3, SameTakes, NoneAdded, NoneBeginsKeeps
<1>4. CASE CaptureStarted
  BY <1>3, <1>4 DEF CaptureStarted, RecordingTake, Idle
<1>5. CASE CaptureStopped
  BY <1>3, <1>5 DEF CaptureStopped
<1>6. CASE CaptureFailed \/ CaptureTimedOut
  BY <1>6, EndBrokenNewest DEF CaptureFailed, CaptureTimedOut
<1>7. CASE EngineWedged
  BY <1>1, <1>7, CountdownEndNewest, EndBrokenNewest DEF EngineWedged
<1>8. CASE StreamLost
  <2> DEFINE p == SetMissing(project, Head(inbox).take, Head(inbox).stream)
  <2>1. PICK saved \in BOOLEAN :
          /\ Write(p, saved)
          /\ record' = record \/ StopsCapture(NoReq, FALSE, Rest)
    BY <1>8 DEF StreamLost
  <2>2. p.status = project.status
    BY DEF SetMissing, FlightInv, Skeleton
  <2> HIDE DEF p
  <2>3. record'.take = record.take
    BY <2>1, StopsNewest
  <2>4. QED BY <2>1, <2>2, <2>3, SameTakes, NoneAdded, NoneBeginsKeeps
<1>9. CASE FinalizeProbed
  <2>1. record.take \in Take
    BY <1>9 DEF FinalizeProbed, FlightInv
  <2>2. CASE EndUnprobed(record.take)
    <3>1. PICK saved \in BOOLEAN : Persist(ReadyCuts(project), saved)
      BY <2>2 DEF EndUnprobed
    <3>2. ReadyCuts(project).status = project.status /\ record'.take = NoTake
      BY <2>2, ReadyCutsSkeleton, IdleBegins DEF FlightInv, EndUnprobed
    <3>3. QED BY <3>1, <3>2, SameTakes, NoneAdded, NoneBeginsKeeps
  <2>3. QED BY <1>9, <2>1, <2>2, EndBrokenNewest, FinalizeTakeNewest DEF FinalizeProbed
<1>10. CASE Ignore
  BY <1>1, <1>10 DEF Ignore
<1>11. QED
  BY <1>2, <1>4, <1>5, <1>6, <1>7, <1>8, <1>9, <1>10, RecoverProbedNewest DEF HandleEvent

\* A hand edit brings back takes the disk still has, and no other.
LEMMA EditNewest ==
  ASSUME FlightInv, NewestInv, ExternalEdit
  PROVE  NewestInv'
<1>1. PICK f \in HandEdits(disk) :
        project' = Merged(project, f) /\ (disk' = Merged(project, f) \/ disk' = f)
  BY DEF ExternalEdit
<1>2. f.status = disk.status
  BY DEF HandEdits, FlightInv, Skeleton
<1>3. \A t \in Take : Merged(project, f).status[t] \in {project.status[t], disk.status[t]}
  BY <1>2 DEF Merged
<1>4. Pool(Merged(project, f)) \subseteq Pools /\ Pool(f) \subseteq Pools
  BY <1>2, <1>3 DEF Pool, Pools
<1>5. Pool(project)' \subseteq Pools /\ Pool(disk)' \subseteq Pools
  BY <1>1, <1>4 DEF Pool
<1>6. record' = record
  BY DEF ExternalEdit, hostVars
<1>7. NoneBegins
  BY <1>5, <1>6 DEF NoneBegins, Pools
<1>8. QED BY <1>7, NoneBeginsKeeps

LEMMA SilenceNewest ==
  ASSUME FlightInv, NewestInv, NEW job, NEW cuts, SilenceDetected(job, cuts)
  PROVE  NewestInv'
<1>1. record' = record
  BY DEF SilenceDetected
<1>2. CASE UNCHANGED <<project, disk>>
  BY <1>1, <1>2, NothingBegins, NoneBeginsKeeps
<1>3. ASSUME NEW saved \in BOOLEAN, NEW clips, Persist([project EXCEPT !.clips = clips], saved)
      PROVE  NewestInv'
  <2> DEFINE p == [project EXCEPT !.clips = clips]
  <2>1. p.status = project.status
    BY DEF FlightInv, Skeleton
  <2> HIDE DEF p
  <2>2. Persist(p, saved)
    BY <1>3 DEF p
  <2>3. QED BY <1>1, <2>1, <2>2, SameTakes, NoneAdded, NoneBeginsKeeps
<1>4. QED BY <1>2, <1>3 DEF SilenceDetected

LEMMA NextNewestInv == FlightInv /\ RequestInv /\ MemoryInv /\ NewestInv /\ [Next]_vars => NewestInv'
<1> SUFFICES ASSUME FlightInv, RequestInv, MemoryInv, NewestInv, [Next]_vars PROVE NewestInv'
  OBVIOUS
<1>1. ASSUME UNCHANGED <<project, disk, record>> PROVE NewestInv'
  BY <1>1, NothingBegins, NoneBeginsKeeps
<1>2. CASE Engine
  BY <1>1, <1>2 DEF Engine, hostVars
<1>3. CASE Outside
  <2>1. ASSUME NEW timer, TimerElapses(timer) PROVE NewestInv'
    BY <1>1, <2>1 DEF TimerElapses, hostVars
  <2>2. ASSUME NEW probe, ProbeReturns(probe) PROVE NewestInv'
    BY <1>1, <2>2 DEF ProbeReturns, hostVars
  <2>3. ASSUME NEW p, PurgeReturns(p) PROVE NewestInv'
    BY <1>1, <2>3 DEF PurgeReturns
  <2>4. CASE ExportReturns
    BY <1>1, <2>4 DEF ExportReturns
  <2>5. QED BY <1>3, <2>1, <2>2, <2>3, <2>4, SilenceNewest DEF Outside
<1>4. CASE HostDies
  <2>1. record'.take = NoTake
    BY <1>4, IdleBegins DEF HostDies, Opens
  <2>2. QED BY <2>1 DEF NewestInv, InCapture
<1>5. CASE UNCHANGED vars
  BY <1>1, <1>5 DEF vars, hostVars
<1>6. QED BY <1>2, <1>3, <1>4, <1>5, RequestNewest, EventNewest, EditNewest DEF Next

----------------------------------------------------------------------------
(* A discard while finalizing.                                             *)

\* What the ready cuts make of a timeline is all that a discard leaves changed.
Undone == project'.clips = ReadyCuts(project).clips

LEMMA CutsOfClips ==
  ASSUME NEW p, Skeleton(p)
  PROVE  ReadyCuts(p).clips = CutClips(p.clips, ReadyJobs)
BY DEF Skeleton, ReadyCuts

LEMMA SameClipsCut ==
  ASSUME NEW p, NEW q, Skeleton(p), Skeleton(q), p.clips = q.clips
  PROVE  ReadyCuts(p).clips = ReadyCuts(q).clips
BY CutsOfClips

LEMMA EndBrokenUndone ==
  ASSUME FlightInv, NEW word, EndBroken(project, word)
  PROVE  Undone
<1> DEFINE q == MarkBroken(project, record.take)
<1>1. Skeleton(q) /\ Skeleton(project)
  BY BrokenSkeleton DEF FlightInv
<1>2. q.clips = project.clips
  BY <1>1 DEF MarkBroken, Skeleton
<1>3. project' = ReadyCuts(q)
  BY DEF EndBroken, Write
<1> HIDE DEF q
<1>4. QED BY <1>1, <1>2, <1>3, SameClipsCut DEF Undone

\* The probe's verdict: a take that is placed is discarded in the same step.
LEMMA FinalizeTakeUndone ==
  ASSUME FlightInv, ClipsInv, NewestInv, record.take \in Take, record.discard,
         NEW frames \in Nat, FinalizeTake(record.take, frames)
  PROVE  Undone
<1> DEFINE t == record.take
           verdict == IF frames < MinTakeFrames THEN "tooShort"
                      ELSE IF record.cancelled THEN "cancelled" ELSE "placed"
           facts == CASE verdict = "tooShort" -> [project EXCEPT !.status[t] = "tooShort", !.dur[t] = frames]
                      [] verdict = "cancelled" -> [project EXCEPT !.status[t] = "ok", !.dur[t] = frames]
                      [] OTHER -> Place(project, t, frames, record.over)
           drops == record.discard /\ verdict = "placed" /\ CanDiscard(facts)
           kept == IF drops THEN Discarded(facts) ELSE facts
<1>1. Skeleton(project) /\ ClipsFit(project) /\ OffTimeline(project, t)
  BY InFlightOff DEF ClipsInv
<1>2. \A u \in PlacedTakes(project) : u <= t
  BY DEF NewestInv, InCapture, Pools, PlacedTakes, Take, NoTake
<1>3. MinTakeFrames \in Nat \ {0}
  BY RecordAssumptions
<1>4. Skeleton(kept) /\ kept.clips = project.clips
  <2>1. CASE verdict = "tooShort"
    <3>1. kept = [project EXCEPT !.status[t] = "tooShort", !.dur[t] = frames]
      BY <2>1
    <3>2. Skeleton([project EXCEPT !.status[t] = "tooShort", !.dur[t] = frames])
          /\ [project EXCEPT !.status[t] = "tooShort", !.dur[t] = frames].clips = project.clips
      BY <1>1 DEF Skeleton, Status
    <3> HIDE DEF kept
    <3>3. QED BY <3>1, <3>2
  <2>2. CASE verdict = "cancelled"
    <3>1. kept = [project EXCEPT !.status[t] = "ok", !.dur[t] = frames]
      BY <2>2
    <3>2. Skeleton([project EXCEPT !.status[t] = "ok", !.dur[t] = frames])
          /\ [project EXCEPT !.status[t] = "ok", !.dur[t] = frames].clips = project.clips
      BY <1>1 DEF Skeleton, Status
    <3> HIDE DEF kept
    <3>3. QED BY <3>1, <3>2
  <2>3. CASE verdict = "placed"
    <3>1. frames > 0
      BY <1>3, <2>3
    <3>2. facts = Place(project, t, frames, record.over)
      BY <2>3
    <3> HIDE DEF facts
    <3>3. Skeleton(facts) /\ CanDiscard(facts) /\ Discarded(facts).clips = project.clips
      <4> HIDE DEF t, verdict
      <4>1. t \in Take
        BY DEF t
      <4>2. Skeleton(Place(project, t, frames, record.over))
        BY <1>1, <4>1, PlacedSkeleton
      <4>3. /\ CanDiscard(Place(project, t, frames, record.over))
            /\ Discarded(Place(project, t, frames, record.over)).clips = project.clips
        BY <1>1, <1>2, <3>1, <4>1, PlacedUndone
      <4>4. QED BY <3>2, <4>2, <4>3
    <3>4. kept = Discarded(facts)
      BY <2>3, <3>3
    <3> HIDE DEF kept
    <3>5. QED BY <3>3, <3>4, DiscardedSkeleton
  <2>4. QED BY <2>1, <2>2, <2>3
<1>5. project' = ReadyCuts(kept)
  BY DEF FinalizeTake, Write
<1> HIDE DEF kept
<1>6. QED BY <1>1, <1>4, <1>5, SameClipsCut DEF Undone

\* No request ends a finalization.
LEMMA RequestsLeaveIt ==
  ASSUME RequestInv, record.name = "finalizing", Request
  PROVE  record'.name = "finalizing"
<1>1. ~IsIdle /\ ~Capturing /\ record.name # "countdown"
  BY DEF IsIdle, Capturing
<1>2. ASSUME NEW r, NEW word, Refuse(r, word) PROVE record' = record
  BY <1>2 DEF Refuse, hostVars
<1>3. ASSUME NEW r, JoinStop(r) PROVE record'.name = "finalizing"
  BY <1>3 DEF JoinStop, RequestInv, RequestsTyped, RecordTyped
<1>4. ASSUME NEW r, TakeDiscardLast(r) PROVE record'.name = "finalizing"
  <2>1. CASE record' = [record EXCEPT !.discard = TRUE, !.discardReq = r]
    BY <2>1 DEF RequestInv, RequestsTyped, RecordTyped
  <2>2. QED BY <1>1, <1>2, <1>4, <2>1 DEF TakeDiscardLast
<1>5. ASSUME NEW r, NEW ids, NEW secs, RefuseStart(r, ids, secs) PROVE record' = record
  BY <1>2, <1>5 DEF RefuseStart
<1>6. ASSUME NEW r, NEW secs, NEW wait, RecordToggle(r, secs, wait) PROVE record' = record
  BY <1>1, <1>2, <1>6 DEF RecordToggle, RecordStart, CancelCountdown, StopRecording
<1>7. ASSUME NEW r, RecordCancel(r) PROVE record' = record
  BY <1>1, <1>2, <1>7 DEF RecordCancel, CancelCountdown, StopRecording
<1>8. ASSUME NEW r, RecordStop(r) PROVE record'.name = "finalizing"
  BY <1>1, <1>3, <1>8 DEF RecordStop, CancelCountdown, StopRecording
<1>9. QED
  BY <1>1, <1>4, <1>5, <1>6, <1>7, <1>8 DEF Request, RecordStart, Autocut, TakePurge, Export

LEMMA EventUndone ==
  ASSUME FlightInv, RequestInv, ClipsInv, NewestInv, HandleEvent,
         record.name = "finalizing", record.discard, record'.name = "idle"
  PROVE  Undone
<1>1. ~IsIdle /\ ~Capturing /\ record.name # "countdown" /\ record' # record
  BY DEF IsIdle, Capturing
<1>2. ~TimerFired /\ ~CaptureStarted /\ ~CaptureStopped /\ ~RecoverProbed /\ ~Ignore
  BY <1>1 DEF TimerFired, CaptureStarted, CaptureStopped, RecoverProbed, Ignore
<1>3. ~StreamLost
  BY <1>1 DEF StreamLost
<1>4. CASE CaptureFailed \/ CaptureTimedOut
  BY <1>4, EndBrokenUndone DEF CaptureFailed, CaptureTimedOut
<1>5. CASE EngineWedged
  BY <1>1, <1>5, EndBrokenUndone DEF EngineWedged
<1>6. CASE FinalizeProbed
  <2>1. record.take \in Take
    BY <1>6 DEF FinalizeProbed, FlightInv
  <2>2. CASE EndUnprobed(record.take)
    <3>1. project' = ReadyCuts(project)
      BY <2>2 DEF EndUnprobed, Persist, Write
    <3>2. QED BY <3>1 DEF Undone
  <2>3. CASE EndBroken(project, "captureFailed")
    BY <2>3, EndBrokenUndone
  <2>4. ASSUME NEW frames \in Lengths, FinalizeTake(record.take, frames) PROVE Undone
    <3>1. frames \in Nat
      BY RecordAssumptions
    <3>2. QED BY <2>1, <2>4, <3>1, FinalizeTakeUndone
  <2>5. QED BY <1>6, <2>2, <2>3, <2>4 DEF FinalizeProbed
<1>7. QED BY <1>2, <1>3, <1>4, <1>5, <1>6 DEF HandleEvent

\* Deaths of the host are counted, which is how DiscardUndoesTake tells them.
DeathsCounted == crashes \in Nat

LEMMA NextCrashes == DeathsCounted /\ [Next]_vars => DeathsCounted'
<1> SUFFICES ASSUME crashes \in Nat, [Next]_vars PROVE crashes' \in Nat
  BY DEF DeathsCounted
<1>1. ASSUME NEW r, NEW word, Refuse(r, word) PROVE crashes' = crashes
  BY <1>1 DEF Refuse, bounds
<1>2. CASE Request
  BY <1>1, <1>2 DEF Request, RecordStart, RefuseStart, RecordToggle, RecordCancel, RecordStop,
     TakeDiscardLast, CancelCountdown, StopRecording, JoinStop, Autocut, TakePurge, Export,
     Elsewhere, bounds
<1>3. CASE HandleEvent
  BY <1>3 DEF HandleEvent
<1>4. CASE Engine
  BY <1>4 DEF Engine, bounds
<1>5. CASE Outside
  BY <1>5 DEF Outside, TimerElapses, ProbeReturns, SilenceDetected, PurgeReturns, ExportReturns, bounds
<1>6. CASE ExternalEdit
  BY <1>6 DEF ExternalEdit
<1>7. CASE HostDies
  BY <1>7 DEF HostDies
<1>8. CASE UNCHANGED vars
  BY <1>8 DEF vars, bounds
<1>9. QED BY <1>2, <1>3, <1>4, <1>5, <1>6, <1>7, <1>8 DEF Next

LEMMA NextUndone ==
  ASSUME FlightInv, RequestInv, ClipsInv, NewestInv, crashes \in Nat, [Next]_vars,
         record.name = "finalizing", record.discard, record'.name = "idle", crashes' = crashes
  PROVE  Undone
<1>1. ~Request
  BY RequestsLeaveIt
<1>2. record' # record
  OBVIOUS
<1>3. ~Engine /\ ~Outside /\ ~ExternalEdit
  BY <1>2 DEF Engine, Outside, ExternalEdit, TimerElapses, ProbeReturns, SilenceDetected,
     PurgeReturns, ExportReturns, hostVars
<1>4. ~HostDies
  BY DEF HostDies
<1>5. ~UNCHANGED vars
  BY <1>2 DEF vars, hostVars
<1>6. QED BY <1>1, <1>3, <1>4, <1>5, EventUndone DEF Next

\* A discard pressed while a take is finalized leaves the timeline as it was
\* before the take, but for the autocuts that waited: whatever ends the take,
\* whatever was edited while it ran, and a record-over gives back exactly the
\* run of clips it replaced, where it was.
THEOREM DiscardGivesBack == Spec => DiscardUndoesTake
<1>1. Init => NewestInv /\ DeathsCounted
  BY DEF Init, NewestInv, InCapture, Idle, DeathsCounted
<1>2. /\ FlightInv /\ RequestInv /\ ClipsInv /\ MemoryInv /\ NewestInv /\ DeathsCounted /\ [Next]_vars
      => /\ FlightInv' /\ RequestInv' /\ ClipsInv' /\ MemoryInv' /\ NewestInv' /\ DeathsCounted'
  BY NextFlightInv, NextRequestInv, NextClipsInv, NextMemoryInv, NextNewestInv, NextCrashes
<1>3. /\ FlightInv /\ RequestInv /\ ClipsInv /\ NewestInv /\ DeathsCounted /\ [Next]_vars
      => [record.name = "finalizing" /\ record.discard /\ record'.name = "idle"
            /\ crashes' = crashes => project'.clips = ReadyCuts(project).clips]_vars
  BY NextUndone DEF Undone, DeathsCounted
<1>4. Init => FlightInv /\ RequestInv /\ ClipsInv /\ MemoryInv
  BY InitFlightInv, InitRequestInv, InitClipsInv, InitLifeInv
<1>5. QED
  BY <1>1, <1>2, <1>3, <1>4, PTL DEF Spec, DiscardUndoesTake

----------------------------------------------------------------------------
(* The takes a sequence of clips covers.                                   *)

LEMMA NoneCovers == \A t : ~Covers(<<>>, t)
BY DEF Covers

LEMMA OneCovers ==
  ASSUME NEW c, NEW t, Covers(<<c>>, t)
  PROVE  c.take = t
<1>1. DOMAIN <<c>> = 1 .. 1 /\ <<c>>[1] = c
  OBVIOUS
<1>2. QED BY <1>1 DEF Covers

LEMMA SpliceCovers ==
  ASSUME NEW a \in Seq(Clip), NEW b \in Seq(Clip), NEW n \in 1 .. Len(a) + 1, NEW m \in Nat, n <= m,
         NEW t, Covers(SubSeq(a, 1, n - 1) \o b \o SubSeq(a, m, Len(a)), t)
  PROVE  Covers(a, t) \/ Covers(b, t)
<1> DEFINE s == SubSeq(a, 1, n - 1) \o b \o SubSeq(a, m, Len(a))
<1>1. Spliced(s, Clip, a, b, n, m)
  BY SpliceIs
<1>2. Covers(s, t)
  OBVIOUS
<1>3. Len(a) \in Nat /\ Len(b) \in Nat /\ DOMAIN a = 1 .. Len(a) /\ DOMAIN b = 1 .. Len(b)
  OBVIOUS
<1> HIDE DEF s
<1>4. PICK i \in 1 .. Len(s) : s[i].take = t
  BY <1>1, <1>2 DEF Spliced, Covers
<1>5. CASE i < n
  BY <1>1, <1>3, <1>4, <1>5 DEF Spliced, Covers
<1>6. CASE n <= i /\ i < n + Len(b)
  BY <1>1, <1>3, <1>4, <1>6 DEF Spliced, Covers
<1>7. CASE n + Len(b) <= i
  BY <1>1, <1>3, <1>4, <1>7 DEF Spliced, Covers
<1>8. i \in Nat /\ n \in Nat
  BY <1>1, <1>4 DEF Spliced
<1>9. QED BY <1>3, <1>5, <1>6, <1>7, <1>8

LEMMA InsertCovers ==
  ASSUME NEW a \in Seq(Clip), NEW b \in Seq(Clip), NEW at \in Nat \ {0}, NEW t,
         Covers(InsertClips(a, at, b), t)
  PROVE  Covers(a, t) \/ Covers(b, t)
<1> DEFINE n == IF at > Len(a) + 1 THEN Len(a) + 1 ELSE at
<1>1. Len(a) \in Nat
  OBVIOUS
<1>2. n \in 1 .. Len(a) + 1 /\ n \in Nat /\ n <= n
  BY <1>1
<1>3. InsertClips(a, at, b) = SubSeq(a, 1, n - 1) \o b \o SubSeq(a, n, Len(a))
  BY DEF InsertClips
<1> HIDE DEF n
<1>4. QED BY <1>2, <1>3, SpliceCovers

LEMMA RunCovers ==
  ASSUME NEW a \in Seq(Clip), NEW m \in 1 .. Len(a), NEW n \in 1 .. Len(a), m <= n, NEW t,
         Covers(SubSeq(a, m, n), t)
  PROVE  Covers(a, t)
<1> DEFINE s == SubSeq(a, m, n)
<1>1. DOMAIN s = 1 .. n - m + 1 /\ Covers(s, t)
  OBVIOUS
<1>2. \A i \in 1 .. n - m + 1 : i + m - 1 \in DOMAIN a /\ s[i] = a[i + m - 1]
  OBVIOUS
<1> HIDE DEF s
<1>3. QED BY <1>1, <1>2 DEF Covers

LEMMA OnlyCovers ==
  ASSUME NEW cs \in Seq(Clip), NEW S, NEW t, Covers(Only(cs, S), t)
  PROVE  Covers(cs, t) /\ \E c \in S : c.take = t
<1> DEFINE o == Only(cs, S)
<1>1. PICK m \in [1 .. Len(o) -> 1 .. Len(cs)] :
           \A x \in 1 .. Len(o) : o[x] = cs[m[x]] /\ cs[m[x]] \in S
  BY OnlyKeepsOrder
<1>2. o \in Seq(Clip) /\ Covers(o, t)
  BY OnlyKeepsOrder
<1> HIDE DEF o
<1>3. DOMAIN o = 1 .. Len(o) /\ DOMAIN cs = 1 .. Len(cs)
  BY <1>2
<1>4. PICK x \in 1 .. Len(o) : o[x].take = t
  BY <1>2, <1>3 DEF Covers
<1>5. m[x] \in DOMAIN cs /\ cs[m[x]].take = t /\ cs[m[x]] \in S
  BY <1>1, <1>3, <1>4
<1>6. QED BY <1>5 DEF Covers

LEMMA CutCovers ==
  ASSUME NEW cs \in Seq(Clip), NEW js, NEW t, Covers(CutClips(cs, js), t)
  PROVE  Covers(cs, t)
<1>1. PICK i \in DOMAIN cs : CutClips(cs, js)[i].take = t
  BY DEF Covers, CutClips
<1>2. cs[i] \in Clip
  BY <1>1
<1>3. CutClips(cs, js)[i] = cs[i] \/ CutClips(cs, js)[i] = [cs[i] EXCEPT !.out = cs[i].out - 1]
  BY <1>1 DEF CutClips
<1>4. CutClips(cs, js)[i].take = cs[i].take
  BY <1>2, <1>3 DEF Clip
<1>5. QED BY <1>1, <1>4 DEF Covers

LEMMA AppendCovers ==
  ASSUME NEW cs \in Seq(Clip), NEW c \in Clip, NEW t, Covers(Append(cs, c), t)
  PROVE  Covers(cs, t) \/ c.take = t
<1> DEFINE a == Append(cs, c)
<1>1. Len(a) = Len(cs) + 1 /\ DOMAIN a = 1 .. Len(a) /\ Len(cs) \in Nat /\ DOMAIN cs = 1 .. Len(cs)
      /\ Covers(a, t)
  OBVIOUS
<1>2. \A i \in 1 .. Len(a) : (i \in 1 .. Len(cs) /\ a[i] = cs[i]) \/ (i = Len(cs) + 1 /\ a[i] = c)
  OBVIOUS
<1> HIDE DEF a
<1>3. QED BY <1>1, <1>2 DEF Covers

LEMMA TailCovers ==
  ASSUME NEW cs \in Seq(Clip), cs # <<>>, NEW t
  PROVE  /\ Covers(Tail(cs), t) => Covers(cs, t)
         /\ Head(cs).take = t => Covers(cs, t)
         /\ Tail(cs) \in Seq(Clip) /\ Head(cs) \in Clip
<1> DEFINE a == Tail(cs)
<1>1. /\ a \in Seq(Clip) /\ Len(a) = Len(cs) - 1 /\ Head(cs) \in Clip
      /\ \A i \in 1 .. Len(a) : a[i] = cs[i + 1]
  BY HeadTailProperties
<1>2. Head(cs) = cs[1] /\ DOMAIN cs = 1 .. Len(cs) /\ Len(cs) \in Nat \ {0} /\ DOMAIN a = 1 .. Len(a)
  BY <1>1, LenProperties, EmptySeq
<1> HIDE DEF a
<1>3. Covers(a, t) => Covers(cs, t)
  BY <1>1, <1>2 DEF Covers
<1>4. Head(cs).take = t => Covers(cs, t)
  BY <1>2 DEF Covers
<1>5. QED BY <1>1, <1>3, <1>4 DEF a

----------------------------------------------------------------------------
(* The takes a project shows, and what the changes of a project show.      *)

\* q shows no take that p does not show.
NoMore(p, q) == \A t \in Take : Shows(q, t) => Shows(p, t)

LEMMA NoMoreTransitive ==
  ASSUME NEW p, NEW q, NEW s, NoMore(p, q), NoMore(q, s)
  PROVE  NoMore(p, s)
BY DEF NoMore

LEMMA SameShow ==
  ASSUME NEW p, NEW q, q.placed = p.placed, q.clips = p.clips, q.replaced = p.replaced
  PROVE  NoMore(p, q)
BY DEF NoMore, Shows

LEMMA NewClipsShow ==
  ASSUME NEW p, Skeleton(p), NEW cs, NEW t \in Take, Shows([p EXCEPT !.clips = cs], t)
  PROVE  Shows(p, t) \/ Covers(cs, t)
BY DEF Skeleton, Shows

LEMMA ReadyCutsShow ==
  ASSUME NEW p, Skeleton(p), ClipsFit(p)
  PROVE  NoMore(p, ReadyCuts(p))
<1> SUFFICES ASSUME NEW t \in Take, Shows(ReadyCuts(p), t) PROVE Shows(p, t)
  BY DEF NoMore
<1>1. p.clips \in Seq(Clip)
  BY DEF ClipsFit
<1>2. Shows(p, t) \/ Covers(CutClips(p.clips, ReadyJobs), t)
  BY NewClipsShow DEF ReadyCuts
<1>3. QED BY <1>1, <1>2, CutCovers DEF Shows

\* A take that begins, is broken or was not placed is shown no more than it was.
LEMMA CutOffShows ==
  ASSUME NEW p, Skeleton(p), ClipsFit(p), NEW t, NEW q,
         q.clips = p.clips, q.placed = [p.placed EXCEPT ![t] = FALSE],
         q.replaced = [p.replaced EXCEPT ![t] = <<>>]
  PROVE  NoMore(p, q)
<1> SUFFICES ASSUME NEW u \in Take, Shows(q, u) PROVE Shows(p, u)
  BY DEF NoMore
<1>1. p.replaced \in [Take -> Seq(Clip)] /\ p.placed \in [Take -> BOOLEAN]
  BY DEF ClipsFit, Skeleton
<1>2. CASE q.placed[u]
  BY <1>1, <1>2 DEF Shows
<1>3. CASE Covers(q.clips, u)
  BY <1>3 DEF Shows
<1>4. ASSUME NEW v \in Take, Covers(q.replaced[v], u) PROVE Shows(p, u)
  <2>1. q.replaced[v] = p.replaced[v] \/ q.replaced[v] = <<>>
    BY <1>1
  <2>2. QED BY <1>4, <2>1, NoneCovers DEF Shows
<1>5. QED BY <1>2, <1>3, <1>4 DEF Shows

LEMMA BegunShows ==
  ASSUME NEW p, Skeleton(p), ClipsFit(p), NEW t
  PROVE  NoMore(p, Begun(p, t))
<1> DEFINE q == Begun(p, t)
<1>1. /\ q.clips = p.clips /\ q.placed = [p.placed EXCEPT ![t] = FALSE]
      /\ q.replaced = [p.replaced EXCEPT ![t] = <<>>]
  BY DEF Begun, Skeleton
<1> HIDE DEF q
<1>2. NoMore(p, q)
  BY <1>1, CutOffShows
<1>3. QED BY <1>2 DEF q

LEMMA BrokenShows ==
  ASSUME NEW p, Skeleton(p), ClipsFit(p), NEW t
  PROVE  NoMore(p, MarkBroken(p, t))
<1> DEFINE q == MarkBroken(p, t)
<1>1. /\ q.clips = p.clips /\ q.placed = [p.placed EXCEPT ![t] = FALSE]
      /\ q.replaced = [p.replaced EXCEPT ![t] = <<>>]
  BY DEF MarkBroken, Skeleton
<1> HIDE DEF q
<1>2. NoMore(p, q)
  BY <1>1, CutOffShows
<1>3. QED BY <1>2 DEF q

LEMMA VerdictShows ==
  ASSUME NEW p, Skeleton(p), NEW t, NEW s, NEW n
  PROVE  /\ NoMore(p, [p EXCEPT !.status[t] = s, !.dur[t] = n])
         /\ NoMore(p, [p EXCEPT !.dur[t] = n, !.status[t] = s])
<1> DEFINE q == [p EXCEPT !.status[t] = s, !.dur[t] = n]
           r == [p EXCEPT !.dur[t] = n, !.status[t] = s]
<1>1. q.placed = p.placed /\ q.clips = p.clips /\ q.replaced = p.replaced
  BY DEF Skeleton
<1>2. r.placed = p.placed /\ r.clips = p.clips /\ r.replaced = p.replaced
  BY DEF Skeleton
<1> HIDE DEF q, r
<1>3. NoMore(p, q) /\ NoMore(p, r)
  BY <1>1, <1>2, SameShow
<1>4. QED BY <1>3 DEF q, r

LEMMA MissingShows ==
  ASSUME NEW p, Skeleton(p), NEW t, NEW s
  PROVE  NoMore(p, SetMissing(p, t, s))
BY SameShow DEF Skeleton, SetMissing

\* A purge leaves no trace of the take, and adds none of another.
LEMMA RemovedShows ==
  ASSUME NEW p, Skeleton(p), ClipsFit(p), NEW t \in Take
  PROVE  NoMore(p, RemoveTake(p, t))
<1> DEFINE q == RemoveTake(p, t)
<1> SUFFICES ASSUME NEW u \in Take, Shows(q, u) PROVE Shows(p, u)
  BY DEF NoMore
<1>1. p.replaced \in [Take -> Seq(Clip)] /\ p.placed \in [Take -> BOOLEAN]
  BY DEF ClipsFit, Skeleton
<1>2. /\ q.clips = p.clips /\ q.placed = [p.placed EXCEPT ![t] = FALSE]
      /\ q.replaced = [v \in Take |-> IF v = t THEN <<>>
                         ELSE Only(p.replaced[v], {c \in ToSet(p.replaced[v]) : c.take # t})]
  BY DEF RemoveTake, Skeleton
<1> HIDE DEF q
<1>3. CASE q.placed[u]
  BY <1>1, <1>2, <1>3 DEF Shows
<1>4. CASE Covers(q.clips, u)
  BY <1>2, <1>4 DEF Shows
<1>5. ASSUME NEW v \in Take, Covers(q.replaced[v], u) PROVE Shows(p, u)
  <2> DEFINE S == {c \in ToSet(p.replaced[v]) : c.take # t}
  <2>1. q.replaced[v] = (IF v = t THEN <<>> ELSE Only(p.replaced[v], S))
    BY <1>2
  <2> HIDE DEF S
  <2>2. p.replaced[v] \in Seq(Clip)
    BY <1>1
  <2>3. Covers(p.replaced[v], u)
    BY <1>5, <2>1, <2>2, NoneCovers, OnlyCovers
  <2>4. QED BY <2>3 DEF Shows
<1>6. QED BY <1>3, <1>4, <1>5 DEF Shows

\* A take that is placed is the only one newly shown.
LEMMA PlacedShows ==
  ASSUME NEW p, Skeleton(p), ClipsFit(p), NEW t \in Take, NEW frames \in Nat, NEW over,
         NEW u \in Take, Shows(Place(p, t, frames, over), u)
  PROVE  Shows(p, u) \/ u = t
<1> DEFINE q == Place(p, t, frames, over)
           clip == [id |-> t, take |-> t, out |-> frames]
           start == StartOf(p.clips, {c.id : c \in over})
           len == Cardinality(over)
           seen == SubSeq(p.clips, start, start + len - 1)
<1>1. /\ p.clips \in Seq(Clip) /\ Len(p.clips) \in Nat
      /\ p.replaced \in [Take -> Seq(Clip)] /\ p.placed \in [Take -> BOOLEAN]
  BY DEF ClipsFit, Skeleton
<1>2. clip \in Clip /\ clip.take = t
  BY DEF Clip, Take
<1>3. q.placed = [p.placed EXCEPT ![t] = TRUE]
  BY DEF Place, Skeleton
<1>4. CASE CanReplace(p.clips, over)
  <2>1. q.clips = ReplaceRun(p.clips, start, len, <<clip>>) /\ q.replaced = [p.replaced EXCEPT ![t] = seen]
    BY <1>4 DEF Place, Skeleton, FreshClipId
  <2>2. start \in 1 .. Len(p.clips) /\ len \in Nat \ {0} /\ start + len - 1 <= Len(p.clips)
    <3>1. over # {} /\ over \in SUBSET ToSet(p.clips)
      BY <1>4 DEF CanReplace
    <3>2. QED BY <1>1, <3>1, RunInside
  <2> HIDE DEF q, start, len, clip
  <2>3. /\ start \in 1 .. Len(p.clips) + 1 /\ start + len \in Nat /\ start <= start + len
        /\ start + len - 1 \in 1 .. Len(p.clips) /\ start <= start + len - 1
    BY <1>1, <2>2
  <2>4. <<clip>> \in Seq(Clip)
    BY <1>2
  <2>5. Covers(q.clips, u) => Covers(p.clips, u) \/ u = t
    <3>1. ASSUME Covers(q.clips, u) PROVE Covers(p.clips, u) \/ Covers(<<clip>>, u)
      <4>1. Covers(SubSeq(p.clips, 1, start - 1) \o <<clip>> \o SubSeq(p.clips, start + len, Len(p.clips)), u)
        BY <2>1, <3>1 DEF ReplaceRun
      <4>2. QED BY <1>1, <2>3, <2>4, <4>1, SpliceCovers
    <3>2. QED BY <1>2, <3>1, OneCovers
  <2>6. Covers(seen, u) => Covers(p.clips, u)
    BY <1>1, <2>2, <2>3, RunCovers
  <2> HIDE DEF seen
  <2>7. ASSUME NEW v \in Take, Covers(q.replaced[v], u)
        PROVE  Covers(p.clips, u) \/ Covers(p.replaced[v], u)
    BY <1>1, <2>1, <2>6, <2>7
  <2>8. q.placed[u] => p.placed[u] \/ u = t
    BY <1>1, <1>3
  <2>9. Shows(q, u)
    BY DEF q
  <2>10. QED BY <2>5, <2>7, <2>8, <2>9 DEF Shows
<1>5. CASE ~CanReplace(p.clips, over)
  <2>1. q.clips = AppendClip(p.clips, clip) /\ q.replaced = [p.replaced EXCEPT ![t] = <<>>]
    BY <1>5 DEF Place, Skeleton, FreshClipId
  <2> HIDE DEF q, clip
  <2>2. Len(p.clips) + 1 \in Nat \ {0} /\ <<clip>> \in Seq(Clip)
    BY <1>1, <1>2
  <2>3. Covers(q.clips, u) => Covers(p.clips, u) \/ u = t
    <3>1. ASSUME Covers(q.clips, u) PROVE Covers(p.clips, u) \/ Covers(<<clip>>, u)
      <4>1. Covers(InsertClips(p.clips, Len(p.clips) + 1, <<clip>>), u)
        BY <2>1, <3>1 DEF AppendClip
      <4>2. QED BY <1>1, <2>2, <4>1, InsertCovers
    <3>2. QED BY <1>2, <3>1, OneCovers
  <2>4. ASSUME NEW v \in Take, Covers(q.replaced[v], u) PROVE Covers(p.replaced[v], u)
    BY <1>1, <2>1, <2>4, NoneCovers
  <2>5. q.placed[u] => p.placed[u] \/ u = t
    BY <1>1, <1>3
  <2>6. Shows(q, u)
    BY DEF q
  <2>7. QED BY <2>3, <2>4, <2>5, <2>6 DEF Shows
<1>6. QED BY <1>4, <1>5

\* What a discard gives back was replaced.
LEMMA RestorableCovers ==
  ASSUME NEW p, Skeleton(p), ClipsFit(p), NEW t \in Take
  PROVE  /\ Restorable(p, t) \in Seq(Clip)
         /\ \A u : Covers(Restorable(p, t), u) => Covers(p.replaced[t], u)
<1> DEFINE r == p.replaced[t]
           gone == \A c \in ToSet(r) : c.id \notin ClipIds(p.clips)
           clamped == [i \in DOMAIN r |-> [r[i] EXCEPT !.out = Smaller(@, p.dur[r[i].take])]]
           S == {c \in ToSet(clamped) : p.status[c.take] = "ok" /\ c.out > 0}
<1>1. p.dur \in [Take -> Nat] /\ r \in Seq(Clip)
  BY DEF ClipsFit
<1>2. Restorable(p, t) = (IF gone THEN Only(clamped, S) ELSE <<>>)
  BY DEF Restorable
<1> HIDE DEF r, gone
<1>3. DOMAIN r = 1 .. Len(r) /\ Len(r) \in Nat /\ \A i \in 1 .. Len(r) : r[i] \in Clip
  BY <1>1
<1>4. ASSUME NEW i \in 1 .. Len(r) PROVE clamped[i] \in Clip /\ clamped[i].take = r[i].take
  <2>1. r[i] \in Clip /\ p.dur[r[i].take] \in Nat
    BY <1>1, <1>3 DEF Clip
  <2>2. clamped[i] = [r[i] EXCEPT !.out = Smaller(r[i].out, p.dur[r[i].take])]
    BY <1>3
  <2>3. Smaller(r[i].out, p.dur[r[i].take]) \in Nat
    BY <2>1 DEF Clip, Smaller
  <2> HIDE DEF clamped
  <2>4. QED BY <2>1, <2>2, <2>3 DEF Clip
<1>5. DOMAIN clamped = 1 .. Len(r)
  BY <1>3
<1>6. clamped \in Seq(Clip)
  <2>1. clamped = [i \in 1 .. Len(r) |-> clamped[i]]
    BY <1>3
  <2> HIDE DEF clamped
  <2>2. QED BY <1>3, <1>4, <2>1
<1> HIDE DEF clamped, S
<1>7. ASSUME NEW u, Covers(clamped, u) PROVE Covers(r, u)
  BY <1>3, <1>4, <1>5, <1>7 DEF Covers
<1>8. Only(clamped, S) \in Seq(Clip) /\ \A u : Covers(Only(clamped, S), u) => Covers(r, u)
  BY <1>6, <1>7, OnlyCovers, OnlyKeepsOrder
<1>9. <<>> \in Seq(Clip)
  OBVIOUS
<1>10. QED BY <1>2, <1>8, <1>9, NoneCovers DEF r

LEMMA DiscardedShows ==
  ASSUME NEW p, Skeleton(p), ClipsFit(p), CanDiscard(p)
  PROVE  NoMore(p, Discarded(p))
<1> DEFINE t == Largest(PlacedTakes(p))
           ids == {c.id : c \in ClipsOf(p, t)}
           kept == RemoveClips(p.clips, ids)
           at == StartOf(p.clips, ids)
           back == Restorable(p, t)
           cs == InsertClips(kept, at, back)
<1>1. t \in Take
  <2>1. PlacedTakes(p) \in SUBSET Take /\ PlacedTakes(p) # {}
    BY DEF CanDiscard, PlacedTakes, Pool
  <2>2. QED BY <2>1, LargestIn
<1>2. ClipsOf(p, t) # {}
  BY DEF CanDiscard
<1>3. p.clips \in Seq(Clip)
  BY DEF ClipsFit
<1>4. Discarded(p) = [p EXCEPT !.clips = cs]
  BY DEF Discarded
<1> HIDE DEF t
<1>5. PositionsOf(p.clips, ids) # {}
  BY <1>2 DEF ClipsOf, PositionsOf, ToSet
<1> HIDE DEF ids
<1>6. at \in Nat \ {0}
  <2>1. at \in PositionsOf(p.clips, ids)
    BY <1>3, <1>5, StartIn
  <2>2. QED BY <1>3, <2>1 DEF PositionsOf
<1>7. kept \in Seq(Clip) /\ \A u : Covers(kept, u) => Covers(p.clips, u)
  BY <1>3, OnlyCovers, OnlyKeepsOrder DEF RemoveClips
<1>8. back \in Seq(Clip) /\ \A u : Covers(back, u) => Covers(p.replaced[t], u)
  BY <1>1, RestorableCovers
<1> HIDE DEF kept, at, back
<1>9. \A u : Covers(cs, u) => Covers(p.clips, u) \/ Covers(p.replaced[t], u)
  BY <1>6, <1>7, <1>8, InsertCovers
<1> HIDE DEF cs
<1>10. QED BY <1>1, <1>4, <1>9, NewClipsShow DEF NoMore, Shows

\* A hand edit puts back on the timeline what was replaced there.
LEMMA EditedShows ==
  ASSUME NEW d, Skeleton(d), ClipsFit(d), NEW f \in HandEdits(d)
  PROVE  NoMore(d, f)
<1> SUFFICES ASSUME NEW t \in Take, Shows(f, t) PROVE Shows(d, t)
  BY DEF NoMore
<1>1. d.clips \in Seq(Clip) /\ Len(d.clips) \in Nat /\ DOMAIN d.clips = 1 .. Len(d.clips)
      /\ d.replaced \in [Take -> Seq(Clip)]
  BY DEF ClipsFit
<1>2. ASSUME NEW cs, f = [d EXCEPT !.clips = cs], Covers(cs, t) => Shows(d, t) PROVE Shows(d, t)
  BY <1>2, NewClipsShow
<1>3. ASSUME NEW i \in DOMAIN d.clips, f = [d EXCEPT !.clips = RemoveAt(@, i)] PROVE Shows(d, t)
  <2>1. i \in 1 .. Len(d.clips) + 1 /\ i + 1 \in Nat /\ i <= i + 1 /\ <<>> \in Seq(Clip)
    BY <1>1
  <2>2. SubSeq(d.clips, 1, i - 1) \in Seq(Clip)
    BY <1>1
  <2>3. SubSeq(d.clips, 1, i - 1) \o <<>> = SubSeq(d.clips, 1, i - 1)
    BY <2>2
  <2>4. ASSUME Covers(RemoveAt(d.clips, i), t) PROVE Covers(d.clips, t)
    <3>1. Covers(SubSeq(d.clips, 1, i - 1) \o <<>> \o SubSeq(d.clips, i + 1, Len(d.clips)), t)
      BY <2>3, <2>4 DEF RemoveAt
    <3>2. QED BY <1>1, <2>1, <3>1, SpliceCovers, NoneCovers
  <2>5. QED BY <1>2, <1>3, <2>4 DEF Shows
<1>4. ASSUME NEW i \in {k \in DOMAIN d.clips : d.clips[k].out > 1},
             f = [d EXCEPT !.clips[i].out = @ - 1]
      PROVE Shows(d, t)
  <2> DEFINE cs == [d.clips EXCEPT ![i] = [d.clips[i] EXCEPT !.out = @ - 1]]
  <2>1. f = [d EXCEPT !.clips = cs]
    BY <1>4 DEF Skeleton
  <2>2. DOMAIN cs = 1 .. Len(d.clips)
    BY <1>1
  <2>3. \A k \in 1 .. Len(d.clips) : cs[k].take = d.clips[k].take
    <3>1. TAKE k \in 1 .. Len(d.clips)
    <3>2. d.clips[k] \in Clip
      BY <1>1
    <3>3. cs[k] = d.clips[k] \/ cs[k] = [d.clips[k] EXCEPT !.out = d.clips[k].out - 1]
      BY <1>1
    <3> HIDE DEF cs
    <3>4. QED BY <3>2, <3>3 DEF Clip
  <2> HIDE DEF cs
  <2>4. Covers(cs, t) => Covers(d.clips, t)
    BY <1>1, <2>2, <2>3 DEF Covers
  <2>5. QED BY <1>2, <2>1, <2>4 DEF Shows
<1>5. ASSUME 1 \in DOMAIN d.clips, f = [d EXCEPT !.clips = Append(Tail(@), Head(@))] PROVE Shows(d, t)
  <2>1. d.clips # <<>>
    BY <1>1, <1>5
  <2>2. Covers(Append(Tail(d.clips), Head(d.clips)), t) => Covers(d.clips, t)
    BY <1>1, <2>1, TailCovers, AppendCovers
  <2>3. QED BY <1>2, <1>5, <2>2 DEF Shows
<1>6. ASSUME NEW u \in Take, NEW c \in ToSet(d.replaced[u]), f = [d EXCEPT !.clips = Append(@, c)]
      PROVE Shows(d, t)
  <2>1. d.replaced[u] \in Seq(Clip)
    BY <1>1
  <2>2. c \in Clip /\ Covers(d.replaced[u], c.take)
    BY <2>1 DEF ToSet, Covers
  <2>3. Covers(Append(d.clips, c), t) => Covers(d.clips, t) \/ c.take = t
    BY <1>1, <2>2, AppendCovers
  <2>4. QED BY <1>2, <1>6, <2>2, <2>3 DEF Shows
<1>7. ASSUME f = [d EXCEPT !.scene = ~@] PROVE Shows(d, t)
  <2>1. f.placed = d.placed /\ f.clips = d.clips /\ f.replaced = d.replaced
    BY <1>7 DEF Skeleton
  <2>2. NoMore(d, f)
    BY <2>1, SameShow
  <2>3. QED BY <2>2 DEF NoMore
<1>8. \/ \E i \in DOMAIN d.clips : f = [d EXCEPT !.clips = RemoveAt(@, i)]
      \/ \E i \in {k \in DOMAIN d.clips : d.clips[k].out > 1} : f = [d EXCEPT !.clips[i].out = @ - 1]
      \/ 1 \in DOMAIN d.clips /\ f = [d EXCEPT !.clips = Append(Tail(@), Head(@))]
      \/ \E u \in Take : \E c \in ToSet(d.replaced[u]) : f = [d EXCEPT !.clips = Append(@, c)]
      \/ f = [d EXCEPT !.scene = ~@]
  <2> DEFINE Back == {e \in UNION {ToSet(d.replaced[u]) : u \in Take} :
                       /\ e.id \notin ClipIds(d.clips)
                       /\ d.status[e.take] = "ok" /\ e.out <= d.dur[e.take]}
  <2>1. \A c \in Back : \E u \in Take : c \in ToSet(d.replaced[u])
    OBVIOUS
  <2>2. \/ f \in {[d EXCEPT !.clips = RemoveAt(@, i)] : i \in DOMAIN d.clips}
        \/ f \in {[d EXCEPT !.clips[i].out = @ - 1] : i \in {k \in DOMAIN d.clips : d.clips[k].out > 1}}
        \/ f \in {[d EXCEPT !.clips = Append(Tail(@), Head(@))] : k \in {1} \cap DOMAIN d.clips}
        \/ f \in {[d EXCEPT !.clips = Append(@, c)] : c \in Back}
        \/ f \in {[d EXCEPT !.scene = ~@]}
    BY DEF HandEdits
  <2> HIDE DEF Back
  <2>3. QED BY <2>1, <2>2
<1>9. QED BY <1>3, <1>4, <1>5, <1>6, <1>7, <1>8

\* What is merged shows what memory or the file shows.
LEMMA MergedShows ==
  ASSUME NEW p, NEW f, NEW t \in Take, Shows(Merged(p, f), t)
  PROVE  Shows(p, t) \/ Shows(f, t)
<1> DEFINE q == Merged(p, f)
           Mine(x, y) == [u \in Take |-> IF p.status[u] # "none" THEN x[u] ELSE y[u]]
<1>1. /\ q.clips = f.clips /\ q.placed = Mine(p.placed, f.placed)
      /\ q.replaced = Mine(p.replaced, f.replaced) /\ Shows(q, t)
  BY DEF Merged
<1> HIDE DEF q
<1>2. q.placed[t] => p.placed[t] \/ f.placed[t]
  BY <1>1
<1>3. \A u \in Take : q.replaced[u] = p.replaced[u] \/ q.replaced[u] = f.replaced[u]
  BY <1>1
<1>4. QED BY <1>1, <1>2, <1>3 DEF Shows

----------------------------------------------------------------------------
(* What a step of the host's own shows.                                    *)

LEMMA WriteShows ==
  ASSUME NEW p, NoMore(project, p), NEW saved, Write(p, saved) \/ Persist(p, saved)
  PROVE  NoMore(project, project')
BY DEF Write, Persist

LEMMA UntouchedShows ==
  ASSUME project' = project
  PROVE  NoMore(project, project')
BY DEF NoMore

LEMMA CountdownEndShows ==
  ASSUME ClipsInv, FlightInv, NEW waiting, NEW mail, NEW word, NEW cancels,
         EndCountdown(waiting, mail, word, cancels)
  PROVE  NoMore(project, project')
<1>1. PICK saved \in BOOLEAN : Persist(ReadyCuts(project), saved)
  BY DEF EndCountdown
<1>2. NoMore(project, ReadyCuts(project))
  BY ReadyCutsShow DEF ClipsInv, FlightInv
<1>3. QED BY <1>1, <1>2, WriteShows

LEMMA BeginShows ==
  ASSUME ClipsInv, FlightInv, NEW over, NEW r, NEW wait, NEW saved \in BOOLEAN, NEW rest,
         BeginTake(over, r, wait, saved, rest)
  PROVE  NoMore(project, project')
<1>1. Write(Begun(project, NextTakeNumber), saved)
  BY DEF BeginTake
<1>2. NoMore(project, Begun(project, NextTakeNumber))
  BY BegunShows DEF ClipsInv, FlightInv
<1>3. QED BY <1>1, <1>2, WriteShows

LEMMA StartShows ==
  ASSUME ClipsInv, FlightInv, NEW secs, NEW over, NEW r, NEW wait, Start(secs, over, r, wait)
  PROVE  NoMore(project, project')
<1>1. CASE StartCountdown(secs, over, r, wait)
  BY <1>1, UntouchedShows DEF StartCountdown
<1>2. ASSUME NEW saved \in BOOLEAN, BeginTake(over, r, wait, saved, inbox)
      PROVE  NoMore(project, project')
  BY <1>2, BeginShows
<1>3. CASE DropBegin(r)
  BY <1>3, UntouchedShows DEF DropBegin, CommandDropped
<1>4. QED BY <1>1, <1>2, <1>3 DEF Start

LEMMA CancelShows ==
  ASSUME ClipsInv, FlightInv, NEW r, CancelCountdown(r)
  PROVE  NoMore(project, project')
<1>1. CASE EndCountdown(pending \cup Opt(r), {Letter(Opt(r), "countdownCancelled", NoTake)},
                        "countdownEnded", TRUE)
  BY <1>1, CountdownEndShows
<1>2. CASE CommandDropped(r, ReadyCuts(project))
  BY <1>2, UntouchedShows DEF CommandDropped
<1>3. QED BY <1>1, <1>2 DEF CancelCountdown

LEMMA DiscardLastShows ==
  ASSUME ClipsInv, FlightInv, NEW r, TakeDiscardLast(r)
  PROVE  NoMore(project, project')
<1>1. ASSUME NEW saved \in BOOLEAN, CanDiscard(project), Write(Discarded(project), saved)
      PROVE  NoMore(project, project')
  <2>1. NoMore(project, Discarded(project))
    BY <1>1, DiscardedShows DEF ClipsInv, FlightInv
  <2>2. QED BY <1>1, <2>1, WriteShows
<1>2. CASE CommandDropped(r, Discarded(project))
  BY <1>2, UntouchedShows DEF CommandDropped
<1>3. CASE project' = project
  BY <1>3, UntouchedShows
<1>4. CASE Refuse(r, "refused")
  BY <1>4, UntouchedShows DEF Refuse
<1>5. QED BY <1>1, <1>2, <1>3, <1>4 DEF TakeDiscardLast

LEMMA TakePurgeShows ==
  ASSUME ClipsInv, FlightInv, NEW r, NEW t \in Take, TakePurge(r, t)
  PROVE  NoMore(project, project')
<1>1. NoMore(project, RemoveTake(project, t))
  BY RemovedShows DEF ClipsInv, FlightInv
<1>2. ASSUME NEW saved \in BOOLEAN, Write(RemoveTake(project, t), saved)
      PROVE  NoMore(project, project')
  BY <1>1, <1>2, WriteShows
<1>3. CASE CommandDropped(r, RemoveTake(project, t))
  BY <1>3, UntouchedShows DEF CommandDropped
<1>4. QED BY <1>2, <1>3 DEF TakePurge

LEMMA RequestShows ==
  ASSUME ClipsInv, FlightInv, Request
  PROVE  NoMore(project, project')
<1>1. ASSUME NEW r, NEW word, Refuse(r, word) PROVE NoMore(project, project')
  BY <1>1, UntouchedShows DEF Refuse
<1>2. ASSUME NEW r, NEW ids, NEW secs, NEW wait, RecordStart(r, ids, secs, wait) PROVE NoMore(project, project')
  BY <1>2, StartShows DEF RecordStart
<1>3. ASSUME NEW r, NEW ids, NEW secs, RefuseStart(r, ids, secs) PROVE NoMore(project, project')
  BY <1>1, <1>3 DEF RefuseStart
<1>4. ASSUME NEW r, NEW cancel, StopRecording(r, cancel) PROVE NoMore(project, project')
  BY <1>4, UntouchedShows DEF StopRecording
<1>5. ASSUME NEW r, JoinStop(r) PROVE NoMore(project, project')
  BY <1>5, UntouchedShows DEF JoinStop
<1>6. ASSUME NEW r, NEW clip, Autocut(r, clip) PROVE NoMore(project, project')
  BY <1>6, UntouchedShows DEF Autocut
<1>7. CASE Export
  BY <1>7, UntouchedShows DEF Export
<1>8. ASSUME NEW r, CancelCountdown(r) PROVE NoMore(project, project')
  BY <1>8, CancelShows
<1>9. ASSUME NEW r, TakeDiscardLast(r) PROVE NoMore(project, project')
  BY <1>9, DiscardLastShows
<1>10. ASSUME NEW r, NEW t \in Take, TakePurge(r, t) PROVE NoMore(project, project')
  BY <1>10, TakePurgeShows
<1>11. ASSUME NEW r, NEW secs, NEW wait, RecordToggle(r, secs, wait) PROVE NoMore(project, project')
  BY <1>1, <1>2, <1>3, <1>4, <1>8, <1>11 DEF RecordToggle
<1>12. ASSUME NEW r, RecordCancel(r) PROVE NoMore(project, project')
  BY <1>1, <1>4, <1>8, <1>12 DEF RecordCancel
<1>13. ASSUME NEW r, RecordStop(r) PROVE NoMore(project, project')
  BY <1>1, <1>4, <1>5, <1>8, <1>13 DEF RecordStop
<1>14. QED
  BY <1>2, <1>3, <1>6, <1>7, <1>9, <1>10, <1>11, <1>12, <1>13 DEF Request

LEMMA EndBrokenShows ==
  ASSUME ClipsInv, FlightInv, NEW word, EndBroken(project, word)
  PROVE  NoMore(project, project')
<1> DEFINE p == MarkBroken(project, record.take)
<1>1. PICK saved \in BOOLEAN : Write(ReadyCuts(p), saved)
  BY DEF EndBroken
<1>2. Skeleton(p) /\ ClipsFit(p) /\ NoMore(project, p)
  BY InFlightOff, BrokenSkeleton, BrokenFits, BrokenShows DEF ClipsInv
<1> HIDE DEF p
<1>3. NoMore(p, ReadyCuts(p))
  BY <1>2, ReadyCutsShow
<1>4. NoMore(project, ReadyCuts(p))
  BY <1>2, <1>3, NoMoreTransitive
<1>5. QED BY <1>1, <1>4, WriteShows

\* What finalizing makes of the project: it shows the take only once it is placed.
LEMMA FinalizeTakeShows ==
  ASSUME ClipsInv, FlightInv, record.take \in Take, NEW frames \in Lengths,
         FinalizeTake(record.take, frames)
  PROVE  /\ frames < MinTakeFrames \/ record.cancelled => NoMore(project, project')
         /\ \A u \in Take : Shows(project', u) => Shows(project, u) \/ u = record.take
<1> DEFINE t == record.take
           verdict == IF frames < MinTakeFrames THEN "tooShort"
                      ELSE IF record.cancelled THEN "cancelled" ELSE "placed"
           facts == CASE verdict = "tooShort" -> [project EXCEPT !.status[t] = "tooShort", !.dur[t] = frames]
                      [] verdict = "cancelled" -> [project EXCEPT !.status[t] = "ok", !.dur[t] = frames]
                      [] OTHER -> Place(project, t, frames, record.over)
           drops == record.discard /\ verdict = "placed" /\ CanDiscard(facts)
           kept == IF drops THEN Discarded(facts) ELSE facts
           p == ReadyCuts(kept)
           Bare == frames < MinTakeFrames \/ record.cancelled
           Good(q) == /\ Skeleton(q) /\ ClipsFit(q)
                      /\ Bare => NoMore(project, q)
                      /\ \A u \in Take : Shows(q, u) => Shows(project, u) \/ u = t
<1>1. frames \in Nat /\ MinTakeFrames \in Nat \ {0}
  BY RecordAssumptions
<1>2. OffTimeline(project, t) /\ Skeleton(project) /\ ClipsFit(project)
  BY InFlightOff DEF ClipsInv
<1>3. Good(facts)
  <2>1. ASSUME NEW s \in {"ok", "tooShort"} PROVE Good([project EXCEPT !.status[t] = s, !.dur[t] = frames])
    <3> DEFINE q == [project EXCEPT !.status[t] = s, !.dur[t] = frames]
    <3>1. Skeleton(q)
      BY <1>2 DEF Skeleton, Status
    <3>2. ClipsFit(q)
      BY <1>1, <1>2, <2>1, VerdictFits
    <3>3. NoMore(project, q)
      BY <1>2, VerdictShows
    <3> HIDE DEF q
    <3>4. Good(q)
      BY <3>1, <3>2, <3>3 DEF NoMore
    <3>5. QED BY <3>4 DEF q
  <2>2. CASE verdict = "tooShort"
    <3>1. facts = [project EXCEPT !.status[t] = "tooShort", !.dur[t] = frames]
      BY <2>2
    <3> HIDE DEF facts, Good
    <3>2. QED BY <2>1, <3>1
  <2>3. CASE verdict = "cancelled"
    <3>1. facts = [project EXCEPT !.status[t] = "ok", !.dur[t] = frames]
      BY <2>3
    <3> HIDE DEF facts, Good
    <3>2. QED BY <2>1, <3>1
  <2>4. CASE verdict = "placed"
    <3>1. facts = Place(project, t, frames, record.over) /\ ~Bare
      BY <2>4
    <3>2. frames > 0
      BY <1>1, <2>4
    <3> HIDE DEF facts, verdict, Bare
    <3>3. Skeleton(Place(project, t, frames, record.over))
      BY <1>2, PlacedSkeleton
    <3>4. ClipsFit(Place(project, t, frames, record.over))
      BY <1>1, <1>2, <3>2, PlacedFits
    <3>5. \A u \in Take : Shows(Place(project, t, frames, record.over), u) => Shows(project, u) \/ u = t
      BY <1>1, <1>2, PlacedShows
    <3>6. QED BY <3>1, <3>3, <3>4, <3>5
  <2>5. QED BY <2>2, <2>3, <2>4
<1>4. Good(kept)
  <2> HIDE DEF facts
  <2>1. CASE drops
    <3>1. Skeleton(Discarded(facts)) /\ ClipsFit(Discarded(facts)) /\ NoMore(facts, Discarded(facts))
      BY <1>3, <2>1, DiscardedSkeleton, DiscardedFits, DiscardedShows
    <3>2. Good(Discarded(facts))
      BY <1>3, <3>1 DEF NoMore
    <3>3. QED BY <2>1, <3>2
  <2>2. QED BY <1>3, <2>1
<1>5. NoMore(kept, p)
  <2> HIDE DEF kept
  <2> QED BY <1>4, ReadyCutsShow
<1>6. PICK saved \in BOOLEAN : Write(p, saved)
  BY DEF FinalizeTake
<1>7. project' = p
  BY <1>6 DEF Write
<1> HIDE DEF p, kept
<1>8. QED BY <1>4, <1>5, <1>7 DEF NoMore

----------------------------------------------------------------------------
(* The takes a sequence of events is about.                                *)

LEMMA AboutNone == \A t : ~About(<<>>, t)
BY DEF About

LEMMA AboutOne ==
  ASSUME NEW e, NEW t, About(<<e>>, t)
  PROVE  Concerns(e, t)
<1>1. DOMAIN <<e>> = 1 .. 1 /\ <<e>>[1] = e
  OBVIOUS
<1>2. QED BY <1>1 DEF About

LEMMA AboutConcat ==
  ASSUME NEW q \in Seq(Event), NEW s \in Seq(Event), NEW t, About(q \o s, t)
  PROVE  About(q, t) \/ About(s, t)
<1>1. /\ Len(q \o s) = Len(q) + Len(s) /\ q \o s \in Seq(Event)
      /\ \A i \in 1 .. Len(q) + Len(s) : (q \o s)[i] = IF i <= Len(q) THEN q[i] ELSE s[i - Len(q)]
  BY ConcatProperties
<1>2. /\ DOMAIN q = 1 .. Len(q) /\ Len(q) \in Nat /\ DOMAIN s = 1 .. Len(s) /\ Len(s) \in Nat
      /\ DOMAIN (q \o s) = 1 .. Len(q) + Len(s)
  BY <1>1, LenProperties
<1>3. PICK i \in 1 .. Len(q) + Len(s) : Concerns((q \o s)[i], t)
  BY <1>2 DEF About
<1>4. CASE i <= Len(q)
  BY <1>1, <1>2, <1>3, <1>4 DEF About
<1>5. CASE ~(i <= Len(q))
  <2>1. i - Len(q) \in DOMAIN s /\ (q \o s)[i] = s[i - Len(q)]
    BY <1>1, <1>2, <1>5
  <2>2. QED BY <1>3, <2>1 DEF About
<1>6. QED BY <1>4, <1>5

LEMMA AboutTail ==
  ASSUME NEW q \in Seq(Event), q # <<>>, NEW t
  PROVE  /\ About(Tail(q), t) => About(q, t)
         /\ Concerns(Head(q), t) => About(q, t)
         /\ Tail(q) \in Seq(Event) /\ Head(q) \in Event
<1>1. /\ Tail(q) \in Seq(Event) /\ Len(Tail(q)) = Len(q) - 1 /\ Head(q) \in Event
      /\ \A i \in 1 .. Len(Tail(q)) : Tail(q)[i] = q[i + 1]
  BY HeadTailProperties
<1>2. /\ Head(q) = q[1] /\ DOMAIN q = 1 .. Len(q) /\ Len(q) \in Nat \ {0}
      /\ DOMAIN Tail(q) = 1 .. Len(q) - 1
  BY <1>1, LenProperties, EmptySeq
<1>3. QED BY <1>1, <1>2 DEF About

LEMMA AboutTypes ==
  ASSUME NEW t
  PROVE  /\ Concerns(Failed(t), t) /\ ~Concerns(Wedged, t)
         /\ \A u : /\ Concerns(Started(u), t) => u = t
                   /\ Concerns(Failed(u), t) => u = t
                   /\ Concerns(Stopped(u), t) => u = t
                   /\ Concerns(TimedOut(u), t) => u = t
                   /\ \A s : Concerns(Lost(u, s), t) => u = t
BY DEF Concerns, Started, Failed, Stopped, TimedOut, Lost, Wedged

\* A failure that comes first stays first, whatever comes behind it ...
LEMMA FailsFirstConcat ==
  ASSUME NEW q \in Seq(Event), NEW s \in Seq(Event), NEW t, FailsFirstIn(q, t)
  PROVE  FailsFirstIn(q \o s, t)
<1>1. /\ Len(q \o s) = Len(q) + Len(s) /\ q \o s \in Seq(Event)
      /\ \A i \in 1 .. Len(q) + Len(s) : (q \o s)[i] = IF i <= Len(q) THEN q[i] ELSE s[i - Len(q)]
  BY ConcatProperties
<1>2. /\ DOMAIN q = 1 .. Len(q) /\ Len(q) \in Nat /\ DOMAIN s = 1 .. Len(s) /\ Len(s) \in Nat
      /\ DOMAIN (q \o s) = 1 .. Len(q) + Len(s)
  BY <1>1, LenProperties
<1>3. PICK i \in 1 .. Len(q) : q[i] = Failed(t) /\ \A j \in 1 .. i - 1 : ~Concerns(q[j], t)
  BY <1>2 DEF FailsFirstIn
<1>4. i \in DOMAIN (q \o s) /\ (q \o s)[i] = Failed(t)
  BY <1>1, <1>2, <1>3
<1>5. \A j \in 1 .. i - 1 : (q \o s)[j] = q[j]
  BY <1>1, <1>2, <1>3
<1>6. QED BY <1>3, <1>4, <1>5 DEF FailsFirstIn

\* ... and when another event is read; one is first of a take if nothing else
\* is about it.
LEMMA FailsFirstTail ==
  ASSUME NEW q \in Seq(Event), q # <<>>, NEW t, FailsFirstIn(q, t)
  PROVE  /\ Concerns(Head(q), t) => Head(q) = Failed(t)
         /\ Head(q) # Failed(t) => FailsFirstIn(Tail(q), t)
<1>1. /\ Tail(q) \in Seq(Event) /\ Len(Tail(q)) = Len(q) - 1
      /\ \A i \in 1 .. Len(Tail(q)) : Tail(q)[i] = q[i + 1]
  BY HeadTailProperties
<1>2. /\ Head(q) = q[1] /\ DOMAIN q = 1 .. Len(q) /\ Len(q) \in Nat \ {0}
      /\ DOMAIN Tail(q) = 1 .. Len(q) - 1
  BY <1>1, LenProperties, EmptySeq
<1>3. PICK i \in 1 .. Len(q) : q[i] = Failed(t) /\ \A j \in 1 .. i - 1 : ~Concerns(q[j], t)
  BY <1>2 DEF FailsFirstIn
<1>4. CASE i = 1
  BY <1>2, <1>3, <1>4
<1>5. CASE i # 1
  <2>1. i - 1 \in DOMAIN Tail(q) /\ Tail(q)[i - 1] = Failed(t) /\ 1 \in 1 .. i - 1
    BY <1>1, <1>2, <1>3, <1>5
  <2>2. ASSUME NEW j \in 1 .. (i - 1) - 1 PROVE ~Concerns(Tail(q)[j], t)
    <3>1. j + 1 \in 1 .. i - 1 /\ Tail(q)[j] = q[j + 1]
      BY <1>1, <1>2, <1>3, <2>2
    <3>2. QED BY <1>3, <3>1
  <2>3. ~Concerns(Head(q), t) /\ FailsFirstIn(Tail(q), t)
    BY <1>2, <1>3, <2>1, <2>2 DEF FailsFirstIn
  <2>4. QED BY <2>3
<1>6. QED BY <1>4, <1>5

LEMMA FailsAlone ==
  ASSUME NEW q \in Seq(Event), NEW t \in Take, ~About(q, t)
  PROVE  FailsFirstIn(q \o <<Failed(t)>>, t)
<1> DEFINE s == <<Failed(t)>>
<1>1. s \in Seq(Event) /\ Len(s) = 1 /\ s[1] = Failed(t)
  BY QuietEvents
<1> HIDE DEF s
<1>2. /\ Len(q \o s) = Len(q) + Len(s) /\ q \o s \in Seq(Event)
      /\ \A i \in 1 .. Len(q) + Len(s) : (q \o s)[i] = IF i <= Len(q) THEN q[i] ELSE s[i - Len(q)]
  BY <1>1, ConcatProperties
<1>3. /\ DOMAIN q = 1 .. Len(q) /\ Len(q) \in Nat /\ DOMAIN (q \o s) = 1 .. Len(q) + 1
  BY <1>1, <1>2, LenProperties
<1> DEFINE i == Len(q) + 1
<1>4. i \in DOMAIN (q \o s) /\ (q \o s)[i] = Failed(t)
  BY <1>1, <1>2, <1>3
<1>5. \A j \in 1 .. i - 1 : ~Concerns((q \o s)[j], t)
  BY <1>1, <1>2, <1>3 DEF About
<1>6. FailsFirstIn(q \o s, t)
  BY <1>4, <1>5 DEF FailsFirstIn
<1>7. QED BY <1>6 DEF s

----------------------------------------------------------------------------
(* How the take in flight changes.                                         *)

\* A take begins under a number of its own, on disk or failed already.
TakeBegins ==
  /\ record.take = NoTake /\ record'.take \in Take /\ project.next <= record'.take
  /\ \/ disk'.status[record'.take] # "none"
     \/ inbox' = inbox \o <<Failed(record'.take)>>
     \/ inbox # <<>> /\ inbox' = Rest \o <<Failed(record'.take)>>

TakeMoves == record'.take \in {record.take, NoTake} \/ TakeBegins

LEMMA TakeGoesOn == record' = record => TakeMoves
BY DEF TakeMoves

LEMMA TakeIsOver == record' = Idle => TakeMoves
BY DEF TakeMoves, Idle

LEMMA NextIsNew ==
  ASSUME FlightInv
  PROVE  NextTakeNumber \in Take /\ project.next <= NextTakeNumber
<1> DEFINE S == {project.next} \cup {SaturatingSucc(u) : u \in dirs \cup Pool(project)}
<1>1. project.next \in Take /\ dirs \subseteq Take /\ Pool(project) \subseteq Take
  BY DEF FlightInv, Skeleton, Pool
<1>2. S \subseteq Take /\ project.next \in S
  BY <1>1, SuccIsTake
<1>3. NextTakeNumber = Largest(S)
  BY DEF NextTakeNumber
<1> HIDE DEF S
<1>4. QED BY <1>2, <1>3, LargestIn, NextIsTake

LEMMA BeginTakes ==
  ASSUME FlightInv, record.take = NoTake, NEW over, NEW r, NEW wait, NEW saved \in BOOLEAN, NEW rest,
         rest = inbox \/ (inbox # <<>> /\ rest = Rest),
         BeginTake(over, r, wait, saved, rest)
  PROVE  TakeMoves
<1> DEFINE t == NextTakeNumber
<1>1. PICK folder \in BOOLEAN :
        /\ Write(Begun(project, t), saved) /\ record' = Starting(t, over, r, wait)
        /\ Capture(t, folder, saved, rest)
  BY DEF BeginTake
<1>2. record'.take = t
  BY <1>1 DEF Starting, Idle
<1>3. t \in Take /\ project.next <= t
  BY NextIsNew
<1>4. CASE saved
  <2>1. Begun(project, t).status = [project.status EXCEPT ![t] = "recording"]
    BY <1>3, BegunSkeleton DEF FlightInv
  <2>2. disk'.status[t] = "recording"
    BY <1>1, <1>3, <1>4, <2>1 DEF Write, FlightInv, Skeleton
  <2>3. QED BY <1>2, <1>3, <2>2 DEF TakeMoves, TakeBegins
<1>5. CASE ~saved
  <2>1. inbox' = rest \o <<Failed(t)>>
    BY <1>1, <1>5 DEF Capture
  <2>2. QED BY <1>2, <1>3, <2>1 DEF TakeMoves, TakeBegins
<1>6. QED BY <1>4, <1>5

LEMMA RequestTakes ==
  ASSUME FlightInv, RequestInv, Request
  PROVE  TakeMoves
<1>1. ASSUME NEW r, NEW word, Refuse(r, word) PROVE TakeMoves
  BY <1>1, TakeGoesOn DEF Refuse, hostVars
<1>2. ASSUME NEW r, NEW ids, NEW secs, NEW wait, RecordStart(r, ids, secs, wait) PROVE TakeMoves
  <2>1. record.take = NoTake
    BY <1>2 DEF RecordStart, IsIdle, FlightInv
  <2>2. PICK over : Start(secs, over, r, wait)
    BY <1>2 DEF RecordStart
  <2>3. CASE StartCountdown(secs, over, r, wait)
    BY <2>3 DEF StartCountdown, Countdown, Idle, TakeMoves
  <2>4. CASE DropBegin(r)
    BY <2>4, TakeGoesOn DEF DropBegin, CommandDropped
  <2>5. QED BY <2>1, <2>2, <2>3, <2>4, BeginTakes DEF Start
<1>3. ASSUME NEW r, NEW ids, NEW secs, RefuseStart(r, ids, secs) PROVE TakeMoves
  BY <1>1, <1>3 DEF RefuseStart
<1>4. ASSUME NEW r, NEW cancel, StopRecording(r, cancel) PROVE TakeMoves
  BY <1>4, StopsNewest DEF StopRecording, TakeMoves
<1>5. ASSUME NEW r, JoinStop(r) PROVE TakeMoves
  BY <1>5 DEF JoinStop, RequestInv, RequestsTyped, RecordTyped, TakeMoves
<1>6. ASSUME NEW r, NEW clip, Autocut(r, clip) PROVE TakeMoves
  BY <1>6, TakeGoesOn DEF Autocut
<1>7. CASE Export
  BY <1>7, TakeGoesOn DEF Export
<1>8. ASSUME NEW r, CancelCountdown(r) PROVE TakeMoves
  BY <1>8, TakeGoesOn, TakeIsOver DEF CancelCountdown, EndCountdown, CommandDropped
<1>9. ASSUME NEW r, TakeDiscardLast(r) PROVE TakeMoves
  <2>1. CASE record' = [record EXCEPT !.discard = TRUE, !.discardReq = r]
    BY <2>1 DEF RequestInv, RequestsTyped, RecordTyped, TakeMoves
  <2>2. QED BY <1>1, <1>9, <2>1, TakeGoesOn DEF TakeDiscardLast, CommandDropped
<1>10. ASSUME NEW r, NEW t, TakePurge(r, t) PROVE TakeMoves
  BY <1>10, TakeGoesOn DEF TakePurge, CommandDropped
<1>11. ASSUME NEW r, NEW secs, NEW wait, RecordToggle(r, secs, wait) PROVE TakeMoves
  BY <1>1, <1>2, <1>3, <1>4, <1>8, <1>11 DEF RecordToggle
<1>12. ASSUME NEW r, RecordCancel(r) PROVE TakeMoves
  BY <1>1, <1>4, <1>8, <1>12 DEF RecordCancel
<1>13. ASSUME NEW r, RecordStop(r) PROVE TakeMoves
  BY <1>1, <1>4, <1>5, <1>8, <1>13 DEF RecordStop
<1>14. QED
  BY <1>2, <1>3, <1>6, <1>7, <1>9, <1>10, <1>11, <1>12, <1>13 DEF Request

LEMMA EventTakes ==
  ASSUME FlightInv, RequestInv, HandleEvent
  PROVE  TakeMoves
<1>1. CASE TimerFired
  <2>1. inbox # <<>> /\ record.take = NoTake
    BY <1>1 DEF TimerFired, Is, FlightInv
  <2>2. CASE record' = [record EXCEPT !.remaining = @ - 1, !.timer = nextTimer]
    BY <2>2 DEF RequestInv, RequestsTyped, RecordTyped, TakeMoves
  <2>3. QED BY <1>1, <2>1, <2>2, BeginTakes, TakeIsOver DEF TimerFired, EndCountdown
<1>2. CASE CaptureStarted
  BY <1>2 DEF CaptureStarted, RecordingTake, Idle, TakeMoves
<1>3. CASE StreamLost
  BY <1>3, StopsNewest DEF StreamLost, TakeMoves
<1>4. CASE CaptureFailed \/ CaptureTimedOut
  BY <1>4, TakeIsOver DEF CaptureFailed, CaptureTimedOut, EndBroken
<1>5. CASE EngineWedged
  BY <1>5, TakeIsOver, TakeGoesOn DEF EngineWedged, EndBroken, EndCountdown
<1>6. CASE FinalizeProbed
  BY <1>6, TakeIsOver DEF FinalizeProbed, EndBroken, EndUnprobed, FinalizeTake
<1>7. CASE CaptureStopped \/ RecoverProbed \/ Ignore
  BY <1>7, TakeGoesOn DEF CaptureStopped, RecoverProbed, Ignore
<1>8. QED BY <1>1, <1>2, <1>3, <1>4, <1>5, <1>6, <1>7 DEF HandleEvent

OwnStep == Request \/ HandleEvent \/ Engine \/ Outside

LEMMA OwnStepTakes ==
  ASSUME FlightInv, RequestInv, OwnStep
  PROVE  TakeMoves
<1>1. CASE Engine
  BY <1>1, TakeGoesOn DEF Engine, hostVars
<1>2. CASE Outside
  BY <1>2, TakeGoesOn DEF Outside, TimerElapses, ProbeReturns, SilenceDetected, PurgeReturns,
     ExportReturns, hostVars
<1>3. QED BY <1>1, <1>2, RequestTakes, EventTakes DEF OwnStep

----------------------------------------------------------------------------
(* What is shown after a step of the host's own.                           *)

LEMMA EndUnprobedShows ==
  ASSUME ClipsInv, FlightInv, NEW t, EndUnprobed(t)
  PROVE  NoMore(project, project')
<1>1. PICK saved \in BOOLEAN : Persist(ReadyCuts(project), saved)
  BY DEF EndUnprobed
<1>2. NoMore(project, ReadyCuts(project))
  BY ReadyCutsShow DEF ClipsInv, FlightInv
<1>3. QED BY <1>1, <1>2, WriteShows

LEMMA RecoverShows ==
  ASSUME ClipsInv, FlightInv, RecoverProbed
  PROVE  NoMore(project, project')
<1> DEFINE t == Head(inbox).take
<1>1. CASE project' = project
  BY <1>1, UntouchedShows
<1>2. ASSUME NEW saved \in BOOLEAN, Write(MarkBroken(project, t), saved)
      PROVE  NoMore(project, project')
  <2>1. NoMore(project, MarkBroken(project, t))
    BY BrokenShows DEF ClipsInv, FlightInv
  <2>2. QED BY <1>2, <2>1, WriteShows
<1>3. ASSUME NEW frames, NEW saved \in BOOLEAN,
             Write([project EXCEPT !.dur[t] = frames,
                      !.status[t] = IF frames < MinTakeFrames THEN "tooShort" ELSE "ok"], saved)
      PROVE  NoMore(project, project')
  <2> DEFINE verdict == IF frames < MinTakeFrames THEN "tooShort" ELSE "ok"
             p == [project EXCEPT !.dur[t] = frames, !.status[t] = verdict]
  <2>1. NoMore(project, p)
    <3> HIDE DEF verdict
    <3> QED BY VerdictShows DEF FlightInv
  <2>2. QED BY <1>3, <2>1, WriteShows
<1>4. QED BY <1>1, <1>2, <1>3 DEF RecoverProbed

\* A step shows no new take, but the one in flight as it ends.
ShowMoves ==
  \A u \in Take : Shows(project', u) => Shows(project, u) \/ (u = record.take /\ record'.take = NoTake)

LEMMA NoMoreMoves == NoMore(project, project') => ShowMoves
BY DEF NoMore, ShowMoves

LEMMA FinalizeShows ==
  ASSUME ClipsInv, FlightInv, CountdownInv, FinalizeProbed
  PROVE  ShowMoves
<1>1. CASE EndUnprobed(record.take)
  BY <1>1, EndUnprobedShows, NoMoreMoves
<1>2. CASE EndBroken(project, "captureFailed")
  BY <1>2, EndBrokenShows, NoMoreMoves
<1>3. ASSUME NEW frames \in Lengths, FinalizeTake(record.take, frames) PROVE ShowMoves
  <2>1. record.take \in Take
    BY DEF FinalizeProbed, FlightInv
  <2>2. record'.take = NoTake
    BY <1>3 DEF FinalizeTake, Idle
  <2>3. QED BY <1>3, <2>1, <2>2, FinalizeTakeShows DEF ShowMoves
<1>4. QED BY <1>1, <1>2, <1>3 DEF FinalizeProbed

LEMMA EventShows ==
  ASSUME ClipsInv, FlightInv, CountdownInv, HandleEvent
  PROVE  ShowMoves
<1>1. ASSUME project' = project PROVE ShowMoves
  BY <1>1, UntouchedShows, NoMoreMoves
<1>2. ASSUME NEW word, EndBroken(project, word) PROVE ShowMoves
  BY <1>2, EndBrokenShows, NoMoreMoves
<1>3. ASSUME NEW word, NEW cancels, EndCountdown(pending, {}, word, cancels) PROVE ShowMoves
  BY <1>3, CountdownEndShows, NoMoreMoves
<1>4. CASE TimerFired
  <2>1. ASSUME NEW saved \in BOOLEAN, BeginTake(record.over, record.startReq, record.wait, saved, Rest)
        PROVE  ShowMoves
    BY <2>1, BeginShows, NoMoreMoves
  <2>2. QED BY <1>1, <1>3, <1>4, <2>1 DEF TimerFired
<1>5. CASE CaptureStarted \/ CaptureStopped
  <2>1. project' = project
    BY <1>5 DEF CaptureStarted, CaptureStopped, Write
  <2>2. QED BY <1>1, <2>1
<1>6. CASE StreamLost
  <2> DEFINE p == SetMissing(project, Head(inbox).take, Head(inbox).stream)
  <2>1. project' = p
    BY <1>6 DEF StreamLost, Write
  <2>2. NoMore(project, p)
    BY MissingShows DEF FlightInv
  <2>3. QED BY <2>1, <2>2, NoMoreMoves
<1>7. CASE CaptureFailed \/ CaptureTimedOut
  BY <1>2, <1>7 DEF CaptureFailed, CaptureTimedOut
<1>8. CASE EngineWedged
  BY <1>1, <1>2, <1>3, <1>8 DEF EngineWedged
<1>9. CASE Ignore
  BY <1>1, <1>9 DEF Ignore
<1>10. QED
  BY <1>4, <1>5, <1>6, <1>7, <1>8, <1>9, FinalizeShows, RecoverShows, NoMoreMoves DEF HandleEvent

LEMMA SilenceShows ==
  ASSUME ClipsInv, FlightInv, NEW job, NEW cuts, SilenceDetected(job, cuts)
  PROVE  NoMore(project, project')
<1> DEFINE js == {Analyzed(job, cuts)}
           p == [project EXCEPT !.clips = CutClips(ReadyCuts(project).clips, js)]
<1>1. CASE project' = project
  BY <1>1, UntouchedShows
<1>2. ASSUME NEW saved \in BOOLEAN, Persist(p, saved)
      PROVE  NoMore(project, project')
  <2>1. ReadyCuts(project).clips = CutClips(project.clips, ReadyJobs)
    BY DEF ReadyCuts, FlightInv, Skeleton
  <2>2. ReadyCuts(project).clips \in Seq(Clip) /\ Skeleton(project) /\ project.clips \in Seq(Clip)
    BY ReadyCutsFit DEF ClipsInv, ClipsFit, FlightInv
  <2>3. ASSUME NEW u \in Take, Shows(p, u) PROVE Shows(project, u)
    <3>1. Shows(project, u) \/ Covers(CutClips(ReadyCuts(project).clips, js), u)
      BY <2>2, <2>3, NewClipsShow
    <3>2. Covers(CutClips(ReadyCuts(project).clips, js), u) => Covers(ReadyCuts(project).clips, u)
      BY <2>2, CutCovers
    <3>3. Covers(ReadyCuts(project).clips, u) => Covers(project.clips, u)
      BY <2>1, <2>2, CutCovers
    <3>4. QED BY <3>1, <3>2, <3>3 DEF Shows
  <2>4. NoMore(project, p)
    BY <2>3 DEF NoMore
  <2>5. QED BY <1>2, <2>4, WriteShows
<1>3. QED BY <1>1, <1>2 DEF SilenceDetected

LEMMA OwnStepShows ==
  ASSUME ClipsInv, FlightInv, CountdownInv, OwnStep
  PROVE  ShowMoves
<1>1. CASE Request
  BY <1>1, RequestShows, NoMoreMoves
<1>2. CASE Engine
  BY <1>2, UntouchedShows, NoMoreMoves DEF Engine
<1>3. CASE Outside
  <2>1. ASSUME NEW job, NEW cuts, SilenceDetected(job, cuts) PROVE ShowMoves
    BY <2>1, SilenceShows, NoMoreMoves
  <2>2. CASE project' = project
    BY <2>2, UntouchedShows, NoMoreMoves
  <2>3. QED
    BY <1>3, <2>1, <2>2 DEF Outside, TimerElapses, ProbeReturns, PurgeReturns, ExportReturns
<1>4. QED BY <1>1, <1>2, <1>3, EventShows DEF OwnStep


\* A take in flight is not shown, and what is shown was numbered.
LEMMA OwnStepShown ==
  ASSUME FlightInv, FlightInv', MemoryInv, ShowsInv, MemoryMoves, ShowMoves, TakeMoves
  PROVE  ShowsInv'
<1>1. /\ project.next \in Take /\ disk.next \in Take /\ project'.next \in Take
      /\ disk.next <= project.next /\ project.next <= project'.next
      /\ disk' = disk \/ disk' = project'
  BY DEF FlightInv, Skeleton, MemoryInv, MemoryMoves, Grows
<1>2. ASSUME NEW t \in Take, Shows(project', t)
      PROVE  /\ t < project'.next \/ t = MaxTake
             /\ t = record'.take /\ t < MaxTake => FALSE
  <2>1. CASE Shows(project, t)
    <3>1. t < project.next \/ t = MaxTake
      BY <2>1 DEF ShowsInv, ShownAreNumbered
    <3>2. t = record'.take /\ t < MaxTake => FALSE
      BY <1>1, <2>1, <3>1 DEF ShowsInv, TakeMoves, TakeBegins, NoTake, Take
    <3>3. QED BY <1>1, <3>1, <3>2 DEF Take
  <2>2. CASE t = record.take /\ record'.take = NoTake
    <3>1. project.status[t] = "recording"
      BY <2>2 DEF FlightInv, InFlightIsRecording, InCapture, NoTake, Take
    <3>2. t < project.next \/ t = MaxTake
      BY <3>1 DEF MemoryInv, Numbered
    <3>3. QED BY <1>1, <2>2, <3>2 DEF Take, NoTake
  <2>3. QED BY <1>2, <2>1, <2>2 DEF ShowMoves
<1>3. ASSUME NEW t \in Take, Shows(disk, t)
      PROVE  /\ t < disk.next \/ t = MaxTake
             /\ t = record'.take /\ t < MaxTake => FALSE
  BY <1>1, <1>3 DEF ShowsInv, ShownAreNumbered, TakeMoves, TakeBegins, NoTake, Take
<1>4. ShownAreNumbered(project') /\ ShownAreNumbered(disk')
  BY <1>1, <1>2, <1>3 DEF ShownAreNumbered
<1>5. \A t \in Take : t = record'.take /\ t < MaxTake => ~Shows(project', t) /\ ~Shows(disk', t)
  BY <1>1, <1>2, <1>3
<1>6. QED BY <1>4, <1>5 DEF ShowsInv, ShownAreNumbered, Shows

----------------------------------------------------------------------------
(* What a step puts on its way: news of takes that had some, or of the     *)
(* take in flight.                                                         *)

Known(t) == InMail(t) \/ t \in {record.take, record'.take}
Brings(x) == x \in Seq(Event) /\ \A t \in Take : About(x, t) => Known(t)
OnlyKnown == \A t \in Take : OnItsWay(t)' => Known(t)
NewMail(rest) == OnlyKnown /\ \E x : Brings(x) /\ inbox' = rest \o x
MailMoves ==
  \/ NewMail(inbox)
  \/ /\ inbox # <<>> /\ NewMail(Rest)
     /\ Head(inbox) = Failed(record.take) /\ InCapture => record'.take = NoTake

LEMMA BringsNone == Brings(<<>>) /\ \A q \in Seq(Event) : q \o <<>> = q
BY AboutNone, ConcatEmptySeq DEF Brings

LEMMA BringsOne ==
  ASSUME NEW e \in Event, \A t \in Take : Concerns(e, t) => Known(t)
  PROVE  Brings(<<e>>)
<1>1. <<e>> \in Seq(Event)
  BY FiredInOne
<1>2. QED BY <1>1, AboutOne DEF Brings

LEMMA BringsConcat ==
  ASSUME NEW x, NEW y, Brings(x), Brings(y)
  PROVE  Brings(x \o y)
<1>1. x \o y \in Seq(Event)
  BY ConcatProperties DEF Brings
<1>2. QED BY <1>1, AboutConcat DEF Brings

LEMMA SameMail ==
  ASSUME NEW rest \in Seq(Event), inbox' = rest, OnlyKnown
  PROVE  NewMail(rest)
<1>1. inbox' = rest \o <<>> /\ Brings(<<>>)
  BY BringsNone
<1>2. QED BY <1>1 DEF NewMail

LEMMA NothingSent ==
  ASSUME UNCHANGED <<run, cmds>>,
         probes' \subseteq probes \cup {[take |-> record.take, purpose |-> "finalize"]}
  PROVE  OnlyKnown
<1> SUFFICES ASSUME NEW t \in Take, OnItsWay(t)' PROVE Known(t)
  BY DEF OnlyKnown
<1>1. CASE \E probe \in probes' : probe.take = t
  BY <1>1 DEF Known, InMail, OnItsWay
<1>2. QED BY <1>1 DEF Known, InMail, OnItsWay

LEMMA MailUntouched ==
  ASSUME MailTyped, UNCHANGED <<run, cmds, probes, inbox>>
  PROVE  MailMoves
BY NothingSent, SameMail DEF MailTyped, MailMoves

\* A start or a stop is sent for the take in flight, or answered at once.
LEMMA SentBrings ==
  ASSUME MailTyped, NEW rest \in Seq(Event), NEW t \in Take, t \in {record.take, record'.take},
         NEW cmd \in {StartCapture(t), StopCapture(t)}, Sends(cmd),
         inbox' = rest \o AnsweredForTheDead(cmd), UNCHANGED <<run, probes>>
  PROVE  NewMail(rest)
<1>1. cmd.take = t /\ cmd \in Command
  BY DEF StartCapture, StopCapture, Command
<1>2. ASSUME NEW u \in Take, \E i \in DOMAIN cmds' : cmds'[i].take = u PROVE Known(u)
  <2>1. CASE cmds' = cmds
    BY <1>2, <2>1 DEF Known, InMail, OnItsWay
  <2>2. CASE cmds' = Append(cmds, cmd)
    <3> DEFINE a == Append(cmds, cmd)
    <3>1. cmds \in Seq(Command)
      BY DEF MailTyped, EngineTypeOK
    <3>2. /\ Len(a) = Len(cmds) + 1 /\ a \in Seq(Command)
          /\ \A i \in 1 .. Len(cmds) : a[i] = cmds[i]
          /\ a[Len(cmds) + 1] = cmd
      BY <1>1, <3>1, AppendProperties
    <3>3. Len(cmds) \in Nat /\ DOMAIN cmds = 1 .. Len(cmds) /\ DOMAIN a = 1 .. Len(cmds) + 1
      BY <3>1, <3>2, LenProperties
    <3>4. PICK i \in 1 .. Len(cmds) + 1 : a[i].take = u
      BY <1>2, <2>2, <3>3
    <3>5. CASE i \in 1 .. Len(cmds)
      <4>1. i \in DOMAIN cmds /\ cmds[i].take = u
        BY <3>2, <3>3, <3>4, <3>5
      <4>2. QED BY <4>1 DEF Known, InMail, OnItsWay
    <3>6. CASE i = Len(cmds) + 1
      BY <1>1, <3>2, <3>4, <3>6 DEF Known
    <3>7. QED BY <3>3, <3>4, <3>5, <3>6
  <2>3. QED BY <2>1, <2>2 DEF Sends
<1>3. OnlyKnown
  BY <1>2 DEF OnlyKnown, Known, InMail, OnItsWay
<1>4. Brings(AnsweredForTheDead(cmd))
  <2>1. CASE AnsweredForTheDead(cmd) = <<>>
    BY <2>1, BringsNone
  <2>2. ASSUME NEW e \in {Failed(t), TimedOut(t)} PROVE Brings(<<e>>)
    BY <2>2, BringsOne, QuietEvents, AboutTypes DEF Known
  <2>3. AnsweredForTheDead(cmd) \in {<<>>, <<Failed(t)>>, <<TimedOut(t)>>}
    BY <1>1 DEF AnsweredForTheDead
  <2>4. QED BY <2>1, <2>2, <2>3
<1>5. QED BY <1>3, <1>4 DEF NewMail

LEMMA BeginBrings ==
  ASSUME MailTyped, FlightInv, NEW rest \in Seq(Event), NEW over, NEW r, NEW wait, NEW saved,
         BeginTake(over, r, wait, saved, rest), UNCHANGED <<run, probes>>
  PROVE  NewMail(rest)
<1> DEFINE t == NextTakeNumber
<1>1. t \in Take
  BY NextIsTake
<1>2. PICK folder : Capture(t, folder, saved, rest) /\ record' = Starting(t, over, r, wait)
  BY DEF BeginTake
<1>3. record'.take = t
  BY <1>2 DEF Starting, Idle
<1> HIDE DEF t
<1>4. CASE Sends(StartCapture(t)) /\ inbox' = rest \o AnsweredForTheDead(StartCapture(t))
  BY <1>1, <1>3, <1>4, SentBrings
<1>5. CASE UNCHANGED cmds /\ inbox' = rest \o <<Failed(t)>>
  <2>1. Brings(<<Failed(t)>>)
    BY <1>1, <1>3, BringsOne, QuietEvents, AboutTypes DEF Known
  <2>2. OnlyKnown
    BY <1>5, NothingSent
  <2>3. QED BY <1>5, <2>1, <2>2 DEF NewMail
<1>6. QED BY <1>2, <1>4, <1>5 DEF Capture

LEMMA StopBrings ==
  ASSUME MailTyped, FlightInv, Capturing, NEW rest \in Seq(Event), NEW r, NEW cancel,
         StopsCapture(r, cancel, rest), UNCHANGED <<run, probes>>
  PROVE  NewMail(rest)
<1>1. record.take \in Take
  BY DEF Capturing, FlightInv
<1>2. Sends(StopCapture(record.take)) /\ inbox' = rest \o AnsweredForTheDead(StopCapture(record.take))
  BY DEF StopsCapture
<1>3. QED BY <1>1, <1>2, SentBrings

LEMMA RequestBrings ==
  ASSUME CountdownInv, FlightInv, RequestInv, Request
  PROVE  MailMoves
<1>1. MailTyped /\ inbox \in Seq(Event)
  BY DEF CountdownInv, MailTyped
<1>2. ASSUME UNCHANGED <<run, cmds, probes, inbox>> PROVE MailMoves
  BY <1>1, <1>2, MailUntouched
<1>3. ASSUME NEW r, NEW word, Refuse(r, word) PROVE MailMoves
  BY <1>2, <1>3 DEF Refuse, engineVars
<1>4. ASSUME NEW r, NEW ids, NEW secs, NEW wait, RecordStart(r, ids, secs, wait) PROVE MailMoves
  <2>1. UNCHANGED <<run, probes>>
    BY <1>4 DEF RecordStart, Elsewhere
  <2>2. PICK over : Start(secs, over, r, wait)
    BY <1>4 DEF RecordStart
  <2>3. CASE StartCountdown(secs, over, r, wait)
    BY <1>2, <2>1, <2>3 DEF StartCountdown
  <2>4. ASSUME NEW saved, BeginTake(over, r, wait, saved, inbox) PROVE MailMoves
    BY <1>1, <2>1, <2>4, BeginBrings DEF MailMoves
  <2>5. CASE DropBegin(r)
    BY <1>2, <2>1, <2>5 DEF DropBegin, CommandDropped
  <2>6. QED BY <2>2, <2>3, <2>4, <2>5 DEF Start
<1>5. ASSUME NEW r, NEW ids, NEW secs, RefuseStart(r, ids, secs) PROVE MailMoves
  BY <1>3, <1>5 DEF RefuseStart
<1>6. ASSUME NEW r, CancelCountdown(r) PROVE MailMoves
  BY <1>2, <1>6 DEF CancelCountdown, EndCountdown, CommandDropped, Elsewhere
<1>7. ASSUME NEW r, NEW cancel, StopRecording(r, cancel) PROVE MailMoves
  BY <1>1, <1>7, StopBrings DEF StopRecording, Elsewhere, MailMoves
<1>8. ASSUME NEW r, JoinStop(r) PROVE MailMoves
  BY <1>2, <1>8 DEF JoinStop, engineVars
<1>9. ASSUME NEW r, TakeDiscardLast(r) PROVE MailMoves
  BY <1>2, <1>3, <1>9 DEF TakeDiscardLast, CommandDropped, Elsewhere, engineVars
<1>10. ASSUME NEW r, NEW clip, Autocut(r, clip) PROVE MailMoves
  BY <1>2, <1>10 DEF Autocut, engineVars
<1>11. ASSUME NEW r, NEW t, TakePurge(r, t) PROVE MailMoves
  BY <1>2, <1>11 DEF TakePurge, CommandDropped
<1>12. CASE Export
  BY <1>2, <1>12 DEF Export, engineVars
<1>13. ASSUME NEW r, RecordStop(r) PROVE MailMoves
  BY <1>3, <1>6, <1>7, <1>8, <1>13 DEF RecordStop
<1>14. ASSUME NEW r, RecordCancel(r) PROVE MailMoves
  BY <1>3, <1>6, <1>7, <1>14 DEF RecordCancel
<1>15. ASSUME NEW r, NEW secs, NEW wait, RecordToggle(r, secs, wait) PROVE MailMoves
  BY <1>3, <1>4, <1>5, <1>6, <1>7, <1>15 DEF RecordToggle
<1>16. QED
  BY <1>4, <1>5, <1>9, <1>10, <1>11, <1>12, <1>13, <1>14, <1>15 DEF Request

\* A take whose failure is read is over, or was over before.
LEMMA FailureEnds ==
  ASSUME HandleEvent, Head(inbox) = Failed(record.take)
  PROVE  record'.take = NoTake
<1>1. Head(inbox).type = "failed" /\ Head(inbox).take = record.take
  BY DEF Failed
<1>2. CaptureFailed \/ Ignore
  BY <1>1 DEF HandleEvent, TimerFired, CaptureStarted, StreamLost, CaptureStopped, CaptureTimedOut,
     EngineWedged, FinalizeProbed, RecoverProbed, Is
<1>3. ~Ignore
  BY <1>1 DEF Ignore, Stale
<1>4. record' = Idle
  BY <1>2, <1>3 DEF CaptureFailed, EndBroken
<1>5. QED BY <1>4, IdleHasNoTake

LEMMA EventBrings ==
  ASSUME CountdownInv, FlightInv, RequestInv, HandleEvent
  PROVE  MailMoves
<1>1. MailTyped /\ inbox # <<>> /\ run' = run
  BY DEF CountdownInv, HandleEvent, TimerFired, CaptureStarted, CaptureFailed, StreamLost,
     CaptureStopped, CaptureTimedOut, EngineWedged, FinalizeProbed, RecoverProbed, Ignore, Is
<1>2. Rest \in Seq(Event)
  BY <1>1, RestOfMail
<1>3. NewMail(Rest)
  <2>1. ASSUME inbox' = Rest, cmds' = cmds,
               probes' \subseteq probes \cup {[take |-> record.take, purpose |-> "finalize"]}
        PROVE  NewMail(Rest)
    BY <1>1, <1>2, <2>1, NothingSent, SameMail
  <2>2. CASE TimerFired
    <3>1. ASSUME NEW saved, BeginTake(record.over, record.startReq, record.wait, saved, Rest)
          PROVE  NewMail(Rest)
      BY <1>1, <1>2, <2>2, <3>1, BeginBrings DEF TimerFired
    <3>2. QED BY <2>1, <2>2, <3>1 DEF TimerFired, EndCountdown
  <2>3. CASE StreamLost
    <3>1. probes' = probes
      BY <2>3 DEF StreamLost
    <3>2. CASE Capturing /\ StopsCapture(NoReq, FALSE, Rest)
      BY <1>1, <1>2, <3>1, <3>2, StopBrings
    <3>3. CASE inbox' = Rest /\ cmds' = cmds
      BY <2>1, <3>1, <3>3
    <3>4. QED BY <2>3, <3>2, <3>3 DEF StreamLost
  <2>4. CASE CaptureStopped \/ CaptureStarted
    BY <2>1, <2>4 DEF CaptureStopped, CaptureStarted
  <2>5. CASE CaptureFailed \/ CaptureTimedOut
    BY <2>1, <2>5 DEF CaptureFailed, CaptureTimedOut, EndBroken
  <2>6. CASE EngineWedged
    BY <2>1, <2>6 DEF EngineWedged, EndBroken, EndCountdown
  <2>7. CASE FinalizeProbed
    BY <2>1, <2>7 DEF FinalizeProbed, EndBroken, EndUnprobed, FinalizeTake
  <2>8. CASE RecoverProbed \/ Ignore
    BY <2>1, <2>8 DEF RecoverProbed, Ignore
  <2>9. QED BY <2>2, <2>3, <2>4, <2>5, <2>6, <2>7, <2>8 DEF HandleEvent
<1>4. QED BY <1>1, <1>3, FailureEnds DEF MailMoves

LEMMA TimerBrings ==
  ASSUME CountdownInv, NEW timer, TimerElapses(timer)
  PROVE  MailMoves
<1> DEFINE e == [type |-> "timer", timer |-> timer]
<1>1. inbox' = Append(inbox, e) /\ UNCHANGED <<run, cmds, probes>> /\ timer \in armed
  BY DEF TimerElapses, engineVars
<1>2. inbox \in Seq(Event) /\ e \in Event /\ \A t : ~Concerns(e, t)
  BY <1>1 DEF CountdownInv, MailTyped, Event, Concerns
<1> HIDE DEF e
<1>3. Brings(<<e>>)
  BY <1>2, BringsOne
<1>4. inbox' = inbox \o <<e>>
  BY <1>1, <1>2, AppendIsConcat
<1>5. OnlyKnown
  BY <1>1, NothingSent
<1>6. QED BY <1>3, <1>4, <1>5 DEF NewMail, MailMoves

LEMMA ProbeBrings ==
  ASSUME CountdownInv, NEW probe, ProbeReturns(probe)
  PROVE  MailMoves
<1> DEFINE e == [type |-> "probed", take |-> probe.take, purpose |-> probe.purpose]
<1>1. probe \in probes /\ probes' = probes \ {probe} /\ inbox' = Append(inbox, e)
      /\ UNCHANGED <<run, cmds>>
  BY DEF ProbeReturns, engineVars
<1>2. inbox \in Seq(Event) /\ e \in Event
  BY <1>1 DEF CountdownInv, MailTyped, Event
<1>3. \A t \in Take : Concerns(e, t) => Known(t)
  BY <1>1 DEF Concerns, Known, InMail, OnItsWay
<1> HIDE DEF e
<1>4. Brings(<<e>>)
  BY <1>2, <1>3, BringsOne
<1>5. inbox' = inbox \o <<e>>
  BY <1>1, <1>2, AppendIsConcat
<1>6. OnlyKnown
  BY <1>1, NothingSent
<1>7. QED BY <1>4, <1>5, <1>6 DEF NewMail, MailMoves

\* The engine reports of the take it captures or of the command it reads.
LEMMA EngineBrings ==
  ASSUME CountdownInv, Engine
  PROVE  MailMoves
<1>1. EngineStep /\ probes' = probes /\ MailTyped /\ inbox \in Seq(Event)
  BY DEF Engine, CountdownInv, MailTyped
<1>2. run.phase # "none" => run.take \in Take
  BY DEF CountdownInv, MailTyped, EngineTypeOK, NoTake
<1>3. run.take \in Take => Known(run.take)
  BY DEF Known, InMail, OnItsWay
<1>4. cmds # <<>> => /\ Head(cmds).take \in Take /\ Known(Head(cmds).take)
                     /\ \A i \in DOMAIN Tail(cmds) : \E j \in DOMAIN cmds : Tail(cmds)[i] = cmds[j]
  <2> SUFFICES ASSUME cmds # <<>>
               PROVE  /\ Head(cmds).take \in Take /\ Known(Head(cmds).take)
                      /\ \A i \in DOMAIN Tail(cmds) : \E j \in DOMAIN cmds : Tail(cmds)[i] = cmds[j]
    OBVIOUS
  <2>1. cmds \in Seq(Command)
    BY <1>1 DEF MailTyped, EngineTypeOK
  <2>2. /\ Head(cmds) \in Command /\ Tail(cmds) \in Seq(Command) /\ Len(Tail(cmds)) = Len(cmds) - 1
        /\ \A i \in 1 .. Len(Tail(cmds)) : Tail(cmds)[i] = cmds[i + 1]
    BY <2>1, HeadTailProperties
  <2>3. /\ Head(cmds) = cmds[1] /\ DOMAIN cmds = 1 .. Len(cmds) /\ Len(cmds) \in Nat \ {0}
        /\ DOMAIN Tail(cmds) = 1 .. Len(cmds) - 1
    BY <2>1, <2>2, LenProperties, EmptySeq
  <2>4. Head(cmds).take \in Take /\ 1 \in DOMAIN cmds
    BY <2>2, <2>3 DEF Command
  <2>5. Known(Head(cmds).take)
    BY <2>3, <2>4 DEF Known, InMail, OnItsWay
  <2>6. ASSUME NEW i \in DOMAIN Tail(cmds) PROVE \E j \in DOMAIN cmds : Tail(cmds)[i] = cmds[j]
    <3>1. i + 1 \in DOMAIN cmds /\ Tail(cmds)[i] = cmds[i + 1]
      BY <2>2, <2>3
    <3>2. QED BY <3>1
  <2>7. QED BY <2>4, <2>5, <2>6
<1>5. OnlyKnown
  <2>1. /\ \/ run'.take \in {run.take, NoTake}
           \/ cmds # <<>> /\ run'.take = Head(cmds).take
        /\ cmds' \in {cmds, <<>>} \/ (cmds # <<>> /\ cmds' = Tail(cmds))
    <3>1. run \in [take : Take \cup {NoTake}, phase : RunPhase] /\ NoRun.take = NoTake
      BY <1>1 DEF MailTyped, EngineTypeOK, NoRun
    <3>2. CASE HandleStart
      <4>1. run' = run \/ run'.take = Head(cmds).take
        BY <3>2 DEF HandleStart
      <4>2. QED BY <3>2, <4>1 DEF HandleStart, Next1
    <3>3. CASE HandleStop
      <4>1. run' = run \/ run' = NoRun \/ run' = [run EXCEPT !.phase = "stopping"]
        BY <3>3 DEF HandleStop, TakeEnds
      <4>2. run'.take \in {run.take, NoTake}
        BY <3>1, <4>1
      <4>3. QED BY <3>3, <4>2 DEF HandleStop, Next1
    <3>4. CASE Attach \/ Healthy
      BY <3>1, <3>4 DEF Attach, Healthy
    <3>5. CASE FailTake \/ FinishTake \/ WedgeOpening \/ Panic
      BY <3>1, <3>5 DEF FailTake, FinishTake, WedgeOpening, Panic, TakeEnds
    <3>6. CASE ReportPanic \/ WedgeIdle \/ (\E s \in Stream : LoseStream(s))
      BY <3>6 DEF ReportPanic, WedgeIdle, LoseStream
    <3>7. QED
      BY <1>1, <3>2, <3>3, <3>4, <3>5, <3>6 DEF EngineStep, EngineProgress
  <2>2. ASSUME NEW t \in Take, run'.take = t PROVE Known(t)
    BY <1>3, <1>4, <2>1, <2>2 DEF NoTake, Take
  <2>3. ASSUME NEW t \in Take, NEW i \in DOMAIN cmds', cmds'[i].take = t PROVE Known(t)
    <3>1. \E j \in DOMAIN cmds : cmds'[i] = cmds[j]
      BY <1>4, <2>1, <2>3
    <3>2. QED BY <2>3, <3>1 DEF Known, InMail, OnItsWay
  <2>4. QED BY <1>1, <2>2, <2>3 DEF OnlyKnown, OnItsWay, Known, InMail
<1>6. \E x : Brings(x) /\ inbox' = inbox \o x
  <2>1. ASSUME inbox' = inbox PROVE \E x : Brings(x) /\ inbox' = inbox \o x
    BY <1>1, <2>1, BringsNone
  <2>2. ASSUME NEW t \in Take, Known(t)
        PROVE  /\ Brings(<<Failed(t)>>) /\ Brings(<<Started(t)>>) /\ Brings(<<Stopped(t)>>)
               /\ Brings(<<TimedOut(t)>>) /\ \A s \in Stream : Brings(<<Lost(t, s)>>)
    BY <2>2, BringsOne, QuietEvents, AboutTypes
  <2>3. Brings(<<Wedged>>)
    BY BringsOne, QuietEvents, AboutTypes
  <2>4. ASSUME NEW t \in Take, Known(t) PROVE Brings(<<Wedged, Failed(t)>>)
    <3>1. Wedged \in Event /\ Failed(t) \in Event
      BY QuietEvents
    <3>2. <<Wedged, Failed(t)>> = <<Wedged>> \o <<Failed(t)>>
      BY <3>1
    <3>3. QED BY <2>2, <2>3, <2>4, <3>2, BringsConcat
  <2>5. CASE HandleStart
    <3>1. cmds # <<>> /\ (inbox' = inbox \/ inbox' = inbox \o <<Failed(Head(cmds).take)>>)
      BY <2>5 DEF HandleStart, Next1, Emit
    <3>2. QED BY <1>4, <2>1, <2>2, <3>1
  <2>6. CASE HandleStop
    <3>1. cmds # <<>> /\ (inbox' = inbox \/ inbox' = inbox \o <<Stopped(Head(cmds).take)>>)
      BY <2>6 DEF HandleStop, Next1, Emit
    <3>2. QED BY <1>4, <2>1, <2>2, <3>1
  <2>7. CASE FailTake \/ Healthy \/ FinishTake
    <3>1. /\ run.phase # "none"
          /\ inbox' \in {inbox \o <<Failed(run.take)>>, inbox \o <<Started(run.take)>>,
                         inbox \o <<Stopped(run.take)>>, inbox \o <<TimedOut(run.take)>>}
      BY <2>7 DEF FailTake, Healthy, FinishTake, Emit
    <3>2. QED BY <1>2, <1>3, <2>2, <3>1
  <2>8. CASE WedgeOpening
    <3>1. run.phase # "none" /\ inbox' = inbox \o <<Wedged, Failed(run.take)>>
      BY <2>8 DEF WedgeOpening, Emit
    <3>2. QED BY <1>2, <1>3, <2>4, <3>1
  <2>9. ASSUME NEW s \in Stream, LoseStream(s) PROVE \E x : Brings(x) /\ inbox' = inbox \o x
    <3>1. run.phase # "none" /\ (inbox' = inbox \/ inbox' = inbox \o <<Lost(run.take, s)>>)
      BY <2>9 DEF LoseStream, Emit
    <3>2. QED BY <1>2, <1>3, <2>1, <2>2, <3>1
  <2>10. CASE Attach \/ Panic \/ ReportPanic \/ WedgeIdle
    BY <2>1, <2>3, <2>10 DEF Attach, Panic, ReportPanic, WedgeIdle, Emit
  <2>11. QED
    BY <1>1, <2>5, <2>6, <2>7, <2>8, <2>9, <2>10 DEF EngineStep, EngineProgress
<1>7. QED BY <1>5, <1>6 DEF NewMail, MailMoves

LEMMA OwnStepBrings ==
  ASSUME CountdownInv, FlightInv, RequestInv, OwnStep
  PROVE  MailMoves
<1>1. CASE Outside
  <2>1. CASE UNCHANGED <<run, cmds, probes, inbox>>
    BY <2>1, MailUntouched DEF CountdownInv
  <2>2. QED
    BY <1>1, <2>1, TimerBrings, ProbeBrings DEF Outside, SilenceDetected, PurgeReturns, ExportReturns,
       engineVars
<1>2. QED BY <1>1, RequestBrings, EventBrings, EngineBrings DEF OwnStep

\* What the inbox holds next is what it holds and what the step brings.
LEMMA InboxKnown ==
  ASSUME MailTyped, MailMoves, NEW t \in Take, About(inbox', t)
  PROVE  Known(t)
<1>1. inbox \in Seq(Event)
  BY DEF MailTyped
<1>2. ASSUME NEW rest \in Seq(Event), About(rest, t) => About(inbox, t), NewMail(rest) PROVE Known(t)
  <2>1. PICK x : Brings(x) /\ inbox' = rest \o x
    BY <1>2 DEF NewMail
  <2>2. x \in Seq(Event) /\ About(rest \o x, t)
    BY <2>1 DEF Brings
  <2>3. About(rest, t) \/ About(x, t)
    BY <2>2, AboutConcat
  <2>4. QED BY <1>2, <2>1, <2>3 DEF Brings, Known, InMail
<1>3. CASE NewMail(inbox)
  BY <1>1, <1>2, <1>3
<1>4. CASE inbox # <<>> /\ NewMail(Rest)
  BY <1>1, <1>2, <1>4, AboutTail DEF Rest
<1>5. QED BY <1>3, <1>4 DEF MailMoves

LEMMA OwnStepMail ==
  ASSUME FlightInv, FlightInv', MemoryInv, MemoryInv', CountdownInv, MailIsOld, MailMoves, MemoryMoves
  PROVE  MailIsOld'
<1>1. project.next \in Take /\ project'.next \in Take /\ project.next <= project'.next
  BY DEF FlightInv, Skeleton, MemoryMoves, Grows
<1>2. ASSUME NEW t \in Take, InMail(t)', t < MaxTake PROVE t < project'.next
  <2>1. Known(t)
    BY <1>2, InboxKnown DEF InMail, MailMoves, NewMail, OnlyKnown, CountdownInv, About
  <2>2. CASE InMail(t)
    BY <1>1, <1>2, <2>2 DEF MailIsOld, Take
  <2>3. CASE t = record.take
    <3>1. project.status[t] = "recording"
      BY <2>3 DEF FlightInv, InFlightIsRecording, InCapture, NoTake, Take
    <3>2. t < project.next
      BY <1>2, <3>1 DEF MemoryInv, Numbered
    <3>3. QED BY <1>1, <3>2 DEF Take
  <2>4. CASE t = record'.take
    <3>1. project'.status[t] = "recording"
      BY <2>4 DEF FlightInv, InFlightIsRecording, InCapture, NoTake, Take
    <3>2. QED BY <1>2, <3>1 DEF MemoryInv, Numbered
  <2>5. QED BY <2>1, <2>2, <2>3, <2>4 DEF Known
<1>3. QED BY <1>2 DEF MailIsOld

LEMMA OwnStepFails ==
  ASSUME FlightInv, FlightInv', MemoryInv, CountdownInv, MailIsOld, FailsFirst, MailMoves, MemoryMoves,
         TakeMoves
  PROVE  FailsFirst'
<1>1. inbox \in Seq(Event) /\ (inbox # <<>> => Rest \in Seq(Event))
  BY AboutTail DEF CountdownInv, MailTyped, Rest
<1>2. ASSUME NEW t \in Take, t = record'.take, t < MaxTake, disk'.status[t] = "none"
      PROVE  FailsFirstIn(inbox', t)
  <2>1. CASE record'.take = record.take
    <3>1. project'.status[t] = "recording"
      BY <1>2 DEF FlightInv, InFlightIsRecording, InCapture, NoTake, Take
    <3>2. disk.status[t] = "none"
      BY <1>2, <3>1 DEF MemoryMoves
    <3>3. FailsFirstIn(inbox, t)
      BY <1>2, <2>1, <3>2 DEF FailsFirst
    <3>4. ASSUME NEW rest \in Seq(Event), FailsFirstIn(rest, t), NewMail(rest) PROVE FailsFirstIn(inbox', t)
      <4>1. PICK x : Brings(x) /\ inbox' = rest \o x
        BY <3>4 DEF NewMail
      <4>2. x \in Seq(Event)
        BY <4>1 DEF Brings
      <4>3. QED BY <3>4, <4>1, <4>2, FailsFirstConcat
    <3>5. CASE NewMail(inbox)
      BY <1>1, <3>3, <3>4, <3>5
    <3>6. CASE /\ inbox # <<>> /\ NewMail(Rest)
               /\ Head(inbox) = Failed(record.take) /\ InCapture => record'.take = NoTake
      <4>1. Head(inbox) # Failed(t)
        BY <1>2, <2>1, <3>6 DEF InCapture, NoTake, Take
      <4>2. FailsFirstIn(Rest, t)
        BY <1>1, <3>3, <3>6, <4>1, FailsFirstTail DEF Rest
      <4>3. QED BY <1>1, <3>4, <3>6, <4>2
    <3>7. QED BY <3>5, <3>6 DEF MailMoves
  <2>2. CASE TakeBegins
    <3>1. project.next \in Take /\ project.next <= t
      BY <1>2, <2>2 DEF TakeBegins, FlightInv, Skeleton
    <3>2. ~About(inbox, t)
      BY <1>2, <3>1 DEF MailIsOld, InMail, Take
    <3>3. CASE inbox' = inbox \o <<Failed(t)>>
      BY <1>1, <3>2, <3>3, FailsAlone
    <3>4. CASE inbox # <<>> /\ inbox' = Rest \o <<Failed(t)>>
      <4>1. ~About(Rest, t)
        BY <1>1, <3>2, <3>4, AboutTail DEF Rest
      <4>2. QED BY <1>1, <3>4, <4>1, FailsAlone
    <3>5. QED BY <1>2, <2>2, <3>3, <3>4 DEF TakeBegins
  <2>3. QED BY <1>2, <2>1, <2>2 DEF TakeMoves, NoTake, Take
<1>3. QED BY <1>2 DEF FailsFirst, FailsFirstIn

----------------------------------------------------------------------------
(* What is told.                                                           *)

\* What was fine to tell stays so.
LEMMA SettledStays ==
  ASSUME FlightInv, FlightInv', MemoryInv, MemoryMoves, TakeMoves, NEW t \in Take, t < MaxTake, Settled(t)
  PROVE  Settled(t)'
<1>1. /\ project.next \in Take /\ disk.next \in Take /\ disk'.next \in Take
      /\ disk.next <= project.next /\ disk.next <= disk'.next
  <2>1. /\ project.next \in Take /\ disk.next \in Take /\ disk'.next \in Take
        /\ disk.next <= project.next /\ project.next <= project'.next
        /\ disk' = disk \/ disk' = project'
    BY DEF FlightInv, Skeleton, MemoryInv, MemoryMoves, Grows
  <2>2. QED BY <2>1 DEF Take
<1>2. t < disk'.next
  BY <1>1 DEF Settled, Take
<1>3. t # record'.take
  BY <1>1 DEF Settled, TakeMoves, TakeBegins, NoTake, Take
<1>4. QED BY <1>2, <1>3 DEF Settled

LEMMA FineStays ==
  ASSUME FlightInv, FlightInv', MemoryInv, MemoryMoves, TakeMoves, ShowMoves,
         NEW word, NEW t, Fine(word, t)
  PROVE  Fine(word, t)'
<1>1. word \in {"placed"} \cup UnplacedWords => t \in Take
  BY DEF Fine
<1>2. ASSUME t \in Take, t < MaxTake
      PROVE  /\ word \in EndWords \cup {"unprobed"} => Settled(t)'
             /\ word \in UnplacedWords => ~Shows(project', t) /\ ~Shows(disk', t)
  <2>1. word \in EndWords \cup {"unprobed"} => Settled(t) /\ Settled(t)'
    BY <1>2, SettledStays DEF Fine
  <2>2. ASSUME word \in UnplacedWords PROVE ~Shows(project', t) /\ ~Shows(disk', t)
    <3>1. word \in EndWords \cup {"unprobed"}
      BY <2>2 DEF UnplacedWords, EndWords, OkWords
    <3>2. t # record.take /\ ~Shows(project, t) /\ ~Shows(disk, t)
      BY <1>2, <2>1, <2>2, <3>1 DEF Fine, Settled
    <3>3. ~Shows(project', t)
      BY <1>2, <3>2 DEF ShowMoves
    <3>4. QED BY <3>2, <3>3 DEF MemoryMoves
  <2>3. QED BY <2>1, <2>2
<1>3. QED BY <1>1, <1>2 DEF Fine, Shows, Covers

\* Whoever is answered in a step is told what is fine after it.
TellsFine == \A r \in Req : answers'[r] = answers[r] \/ Fine(answers[r].word, answers[r].take)'

LEMMA DeliverTells ==
  ASSUME NEW waiting, NEW mail, NEW saved \in BOOLEAN, Deliver(waiting, mail, saved),
         \A m \in mail : saved \/ m.word \notin OkWords => Fine(m.word, m.take)'
  PROVE  TellsFine
<1> DEFINE letter(q) == CHOOSE m \in mail : q \in m.to
           hears(q) == q \in waiting /\ \E m \in mail : q \in m.to
<1>1. \A q \in Req : answers'[q] = IF hears(q) THEN Said(letter(q), saved) ELSE answers[q]
  BY DEF Deliver
<1>2. ASSUME NEW q \in Req, hears(q) PROVE Fine(answers[q].word, answers[q].take)'
  <2>1. letter(q) \in mail
    BY <1>2
  <2>2. answers'[q] = Said(letter(q), saved)
    BY <1>1, <1>2
  <2> HIDE DEF letter
  <2>3. CASE saved \/ letter(q).word \notin OkWords
    <3>1. answers'[q].word = letter(q).word /\ answers'[q].take = letter(q).take
      BY <2>2, <2>3 DEF Said
    <3>2. Fine(letter(q).word, letter(q).take)'
      BY <2>1, <2>3
    <3>3. letter(q)' = letter(q)
      BY DEF letter
    <3>4. QED BY <3>1, <3>2, <3>3 DEF Fine
  <2>4. CASE ~saved /\ letter(q).word \in OkWords
    <3>1. answers'[q].word = "unsaved"
      BY <2>2, <2>4 DEF Said
    <3>2. QED BY <3>1 DEF Fine, UnplacedWords, EndWords, OkWords
  <2>5. QED BY <2>3, <2>4
<1>3. QED BY <1>1, <1>2 DEF TellsFine

\* Letters that tell of no take's end.
Telling == {"placed"} \cup UnplacedWords
Plain(mail) == \A m \in mail : m.word \notin Telling /\ (m.take \notin Take \/ m.word \notin EndWords)

LEMMA PlainTells ==
  ASSUME NEW waiting, NEW mail, NEW saved \in BOOLEAN, Deliver(waiting, mail, saved), Plain(mail)
  PROVE  TellsFine
<1>1. \A m \in mail : Fine(m.word, m.take)'
  <2> SUFFICES ASSUME NEW m \in mail PROVE Fine(m.word, m.take)'
    OBVIOUS
  <2>1. m.word \notin Telling /\ (m.take \notin Take \/ m.word \notin EndWords)
    BY DEF Plain
  <2>2. QED BY <2>1 DEF Fine, Telling, UnplacedWords
<1>2. QED BY <1>1, DeliverTells

LEMMA SilentTells ==
  ASSUME answers' = answers
  PROVE  TellsFine
BY DEF TellsFine

LEMMA OnePlain ==
  ASSUME NEW S, NEW word, word \notin Telling, NEW t, t = NoTake \/ word \notin EndWords
  PROVE  Plain({Letter(S, word, t)})
BY DEF Plain, Letter, NoTake, Take

LEMMA PlainCup ==
  ASSUME NEW A, NEW B, Plain(A), Plain(B)
  PROVE  Plain(A \cup B)
BY DEF Plain

LEMMA ReadyPlain == Plain(ReadyLetters)
BY DEF Plain, ReadyLetters, Letter, Telling, UnplacedWords, NoTake, Take

LEMMA StopLettersPlain == Plain(StopLetters)
BY DEF Plain, StopLetters, Letter, Telling, UnplacedWords, EndWords

LEMMA WhyNotPlain == WhyNotStart \notin Telling /\ WhyNotBegin \notin Telling
BY DEF WhyNotStart, WhyNotBegin, Telling, UnplacedWords

----------------------------------------------------------------------------
(* What requests are told.                                                 *)

LEMMA RefuseTells ==
  ASSUME NEW r, NEW word, word \notin Telling, Refuse(r, word)
  PROVE  TellsFine
BY PlainTells, OnePlain DEF Refuse

LEMMA DroppedTells ==
  ASSUME NEW r, NEW p, CommandDropped(r, p)
  PROVE  TellsFine
BY PlainTells, OnePlain DEF CommandDropped, Telling, UnplacedWords

LEMMA CountdownEndTells ==
  ASSUME NEW waiting, NEW mail, Plain(mail), NEW word, word \notin Telling, NEW cancels,
         EndCountdown(waiting, mail, word, cancels)
  PROVE  TellsFine
<1> DEFINE all == mail \cup ReadyLetters \cup {Letter(Opt(record.startReq), word, NoTake)}
<1>1. PICK saved \in BOOLEAN : Deliver(waiting, all, saved)
  BY DEF EndCountdown
<1>2. Plain(all)
  BY PlainCup, ReadyPlain, OnePlain
<1> HIDE DEF all
<1>3. QED BY <1>1, <1>2, PlainTells

LEMMA CancelTells ==
  ASSUME NEW r, CancelCountdown(r)
  PROVE  TellsFine
<1>1. "countdownCancelled" \notin Telling /\ "countdownEnded" \notin Telling
  BY DEF Telling, UnplacedWords
<1>2. CASE EndCountdown(pending \cup Opt(r), {Letter(Opt(r), "countdownCancelled", NoTake)},
                        "countdownEnded", TRUE)
  BY <1>1, <1>2, OnePlain, CountdownEndTells
<1>3. QED BY <1>2, DroppedTells DEF CancelCountdown

LEMMA RequestTells ==
  ASSUME Request
  PROVE  TellsFine
<1>1. ASSUME NEW r, Refuse(r, "refused") PROVE TellsFine
  BY <1>1, RefuseTells DEF Telling, UnplacedWords
<1>2. ASSUME NEW r, NEW ids, NEW secs, NEW wait, RecordStart(r, ids, secs, wait) PROVE TellsFine
  BY <1>2, SilentTells, DroppedTells DEF RecordStart, Start, DropBegin
<1>3. ASSUME NEW r, NEW ids, NEW secs, RefuseStart(r, ids, secs) PROVE TellsFine
  BY <1>1, <1>3, RefuseTells, WhyNotPlain DEF RefuseStart
<1>4. ASSUME NEW r, NEW cancel, StopRecording(r, cancel) PROVE TellsFine
  BY <1>4, PlainTells, StopLettersPlain DEF StopRecording
<1>5. ASSUME NEW r, TakeDiscardLast(r) PROVE TellsFine
  <2>1. ASSUME NEW saved \in BOOLEAN,
               Deliver(pending \cup {r}, {Letter({r}, "discarded", NoTake)}, saved)
        PROVE  TellsFine
    BY <2>1, PlainTells, OnePlain DEF Telling, UnplacedWords
  <2>2. QED BY <1>1, <1>5, <2>1, SilentTells, DroppedTells DEF TakeDiscardLast
<1>6. ASSUME NEW r, NEW t, TakePurge(r, t) PROVE TellsFine
  <2>1. CASE Deliver(pending \cup {r}, {Letter({r}, "purgeFailed", NoTake)}, TRUE)
    BY <2>1, PlainTells, OnePlain DEF Telling, UnplacedWords
  <2>2. QED BY <1>6, <2>1, SilentTells, DroppedTells DEF TakePurge
<1>7. ASSUME NEW r, NEW clip, Autocut(r, clip) PROVE TellsFine
  BY <1>7, SilentTells DEF Autocut
<1>8. CASE Export
  BY <1>8, SilentTells DEF Export, reqVars
<1>9. ASSUME NEW r, RecordStop(r) PROVE TellsFine
  BY <1>1, <1>4, <1>9, CancelTells, SilentTells DEF RecordStop, JoinStop
<1>10. ASSUME NEW r, RecordCancel(r) PROVE TellsFine
  BY <1>1, <1>4, <1>10, CancelTells DEF RecordCancel
<1>11. ASSUME NEW r, NEW secs, NEW wait, RecordToggle(r, secs, wait) PROVE TellsFine
  BY <1>1, <1>2, <1>3, <1>4, <1>11, CancelTells DEF RecordToggle
<1>12. QED
  BY <1>2, <1>3, <1>5, <1>6, <1>7, <1>8, <1>9, <1>10, <1>11 DEF Request

----------------------------------------------------------------------------
(* What events tell.                                                       *)

\* A take that ends is settled once its end, or all that came before, is on disk.
LEMMA EndSettles ==
  ASSUME FlightInv, FlightInv', MemoryInv, MemoryMoves, NEW t \in Take, t = record.take, t < MaxTake,
         record'.take = NoTake, disk' = project' \/ disk.status[t] # "none"
  PROVE  Settled(t)'
<1>1. /\ project.next \in Take /\ disk.next \in Take /\ disk'.next \in Take
      /\ disk.next <= project.next /\ project.next <= project'.next
      /\ disk' = disk \/ disk' = project'
  BY DEF FlightInv, Skeleton, MemoryInv, MemoryMoves, Grows
<1>2. t < project.next
  BY DEF FlightInv, InFlightIsRecording, InCapture, NoTake, Take, MemoryInv, Numbered
<1>3. disk.status[t] # "none" => t < disk.next
  BY DEF MemoryInv, Numbered
<1>4. t < disk'.next
  BY <1>1, <1>2, <1>3 DEF Take
<1>5. QED BY <1>4 DEF Settled, NoTake, Take

\* Then any end of it may be told, if it is not placed.
LEMMA EndFine ==
  ASSUME FlightInv, FlightInv', MemoryInv, ShowsInv, MemoryMoves, NoMore(project, project'),
         NEW t \in Take, t = record.take, record'.take = NoTake,
         disk' = project' \/ disk.status[t] # "none",
         NEW word
  PROVE  Fine(word, t)'
<1>1. ASSUME t < MaxTake PROVE ~Shows(project', t) /\ ~Shows(disk', t)
  BY <1>1 DEF ShowsInv, NoMore, MemoryMoves
<1>2. ASSUME t < MaxTake PROVE Settled(t)'
  BY <1>2, EndSettles
<1>3. QED BY <1>1, <1>2 DEF Fine, Shows, Covers

LEMMA EndBrokenTells ==
  ASSUME ClipsInv, FlightInv, FlightInv', MemoryInv, ShowsInv, MemoryMoves, record.take \in Take,
         NEW word, word \notin Telling, word \notin EndWords, EndBroken(project, word)
  PROVE  TellsFine
<1> DEFINE t == record.take
           mail == {Letter(Opt(record.startReq), word, t),
                    Letter(record.waiters, IF record.name = "recording" THEN word ELSE "broken", t),
                    Letter(record.stopReqs, "broken", t),
                    Letter(Opt(record.discardReq), "notPlaced", t)}
           p == ReadyCuts(MarkBroken(project, t))
<1>1. PICK saved \in BOOLEAN : Write(p, saved) /\ Deliver(pending, mail \cup ReadyLetters, saved)
  BY DEF EndBroken
<1>2. /\ NoMore(project, project') /\ record'.take = NoTake
      /\ saved => disk' = project'
  BY <1>1, EndBrokenShows DEF EndBroken, Idle, Write
<1>3. \A m \in mail : m.take = t /\ (m.word \in OkWords \/ m.word = word)
  BY DEF Letter, OkWords
<1>4. t \in Take /\ t = record.take
  OBVIOUS
<1> HIDE DEF mail, t, p
<1>5. ASSUME NEW m \in mail, saved \/ m.word \notin OkWords PROVE Fine(m.word, m.take)'
  <2>1. m.take = t
    BY <1>3
  <2>2. CASE saved
    <3>1. \A u : u = record.take /\ u \in Take => Fine(m.word, u)'
      BY <1>2, <2>2, EndFine
    <3>2. QED BY <1>4, <2>1, <3>1
  <2>3. CASE m.word = word
    BY <1>4, <2>1, <2>3 DEF Fine, Telling, UnplacedWords
  <2>4. QED BY <1>3, <1>5, <2>2, <2>3
<1>6. ASSUME NEW m \in ReadyLetters PROVE Fine(m.word, m.take)'
  BY <1>6, ReadyPlain DEF Plain, Fine, Telling, UnplacedWords
<1>7. QED BY <1>1, <1>5, <1>6, DeliverTells

LEMMA FinalizeTakeTells ==
  ASSUME ClipsInv, FlightInv, FlightInv', MemoryInv, ShowsInv, MemoryMoves, record.take \in Take,
         NEW frames \in Lengths, FinalizeTake(record.take, frames)
  PROVE  TellsFine
<1> DEFINE t == record.take
           verdict == IF frames < MinTakeFrames THEN "tooShort"
                      ELSE IF record.cancelled THEN "cancelled" ELSE "placed"
           facts == CASE verdict = "tooShort" -> [project EXCEPT !.status[t] = "tooShort", !.dur[t] = frames]
                      [] verdict = "cancelled" -> [project EXCEPT !.status[t] = "ok", !.dur[t] = frames]
                      [] OTHER -> Place(project, t, frames, record.over)
           drops == record.discard /\ verdict = "placed" /\ CanDiscard(facts)
           p == ReadyCuts(IF drops THEN Discarded(facts) ELSE facts)
           told == IF verdict # "placed" THEN "notPlaced"
                   ELSE IF drops THEN "discarded" ELSE "notDiscarded"
           mail == {Letter(record.stopReqs \cup record.waiters, verdict, t),
                    Letter(Opt(record.discardReq), told, t)}
<1>1. PICK saved \in BOOLEAN : Write(p, saved) /\ Deliver(pending, ReadyLetters \cup mail, saved)
  BY DEF FinalizeTake
<1>2. record'.take = NoTake /\ (saved => disk' = project')
  BY <1>1 DEF FinalizeTake, Idle, Write
<1>3. verdict # "placed" => NoMore(project, project')
  BY FinalizeTakeShows
<1>4. /\ \A m \in mail : m.take = t /\ (m.word \in OkWords \/ m.word = "notDiscarded")
      /\ verdict = "placed" => \A m \in mail : m.word \in {"placed", "discarded", "notDiscarded"}
  <2>1. verdict \in OkWords /\ told \in OkWords \cup {"notDiscarded"}
        /\ (verdict = "placed" => told \in {"discarded", "notDiscarded"})
    <3> HIDE DEF drops
    <3> QED BY DEF OkWords
  <2> HIDE DEF told, verdict
  <2>2. QED BY <2>1 DEF Letter
<1>5. t \in Take /\ t = record.take
  OBVIOUS
<1> HIDE DEF mail, t, p, verdict
<1>6. ASSUME NEW m \in mail, saved \/ m.word \notin OkWords PROVE Fine(m.word, m.take)'
  <2>1. m.take = t
    BY <1>4
  <2>2. ASSUME NEW u \in Take, u = record.take, saved PROVE Fine(m.word, u)'
    <3>1. CASE verdict = "placed"
      <4>1. m.word \notin UnplacedWords
        BY <1>4, <3>1 DEF UnplacedWords
      <4>2. u < MaxTake => Settled(u)'
        BY <1>2, <2>2, EndSettles
      <4>3. QED BY <4>1, <4>2 DEF Fine
    <3>2. CASE verdict # "placed"
      BY <1>2, <1>3, <2>2, <3>2, EndFine
    <3>3. QED BY <3>1, <3>2
  <2>3. CASE m.word = "notDiscarded"
    BY <2>3 DEF Fine, UnplacedWords, EndWords, OkWords
  <2>4. CASE saved
    BY <1>5, <2>1, <2>2, <2>4
  <2>5. QED BY <1>4, <1>6, <2>3, <2>4
<1>7. ASSUME NEW m \in ReadyLetters PROVE Fine(m.word, m.take)'
  BY <1>7, ReadyPlain DEF Plain, Fine, Telling, UnplacedWords
<1>8. QED BY <1>1, <1>6, <1>7, DeliverTells

\* A probe that answers without a length comes of a take that is on disk.
LEMMA EndUnprobedTells ==
  ASSUME ClipsInv, FlightInv, FlightInv', MemoryInv, ShowsInv, CountdownInv, FailsFirst, MemoryMoves,
         record.take \in Take, Is("probed"), Head(inbox).take = record.take, EndUnprobed(record.take)
  PROVE  TellsFine
<1> DEFINE t == record.take
           mail == {Letter(record.stopReqs \cup record.waiters, "unprobed", t),
                    Letter(Opt(record.discardReq), "notPlaced", t)}
<1>1. PICK saved \in BOOLEAN : Deliver(pending, ReadyLetters \cup mail, saved)
  BY DEF EndUnprobed
<1>2. NoMore(project, project') /\ record'.take = NoTake
  BY EndUnprobedShows DEF EndUnprobed, Idle
<1>3. t < MaxTake => disk.status[t] # "none"
  <2>1. inbox # <<>> /\ inbox \in Seq(Event) /\ Concerns(Head(inbox), t) /\ Head(inbox) # Failed(t)
    BY DEF Is, Concerns, Failed, CountdownInv, MailTyped
  <2>2. FailsFirstIn(inbox, t) => FALSE
    BY <2>1, FailsFirstTail
  <2>3. QED BY <2>2 DEF FailsFirst
<1>4. \A m \in mail : m.take = t
  BY DEF Letter
<1>5. t \in Take /\ t = record.take
  OBVIOUS
<1> HIDE DEF mail, t
<1>6. ASSUME NEW m \in mail PROVE Fine(m.word, m.take)'
  <2>1. m.take = t
    BY <1>4
  <2>2. ASSUME NEW u \in Take, u = record.take, disk.status[u] # "none" PROVE Fine(m.word, u)'
    BY <1>2, <2>2, EndFine
  <2>3. ASSUME NEW u \in Take, ~(u < MaxTake) PROVE Fine(m.word, u)'
    BY <2>3 DEF Fine
  <2>4. QED BY <1>3, <1>5, <2>1, <2>2, <2>3
<1>7. ASSUME NEW m \in ReadyLetters PROVE Fine(m.word, m.take)'
  BY <1>7, ReadyPlain DEF Plain, Fine, Telling, UnplacedWords
<1>8. QED BY <1>1, <1>6, <1>7, DeliverTells

LEMMA EventTells ==
  ASSUME ClipsInv, FlightInv, FlightInv', MemoryInv, ShowsInv, CountdownInv, FailsFirst, MemoryMoves,
         HandleEvent
  PROVE  TellsFine
<1>1. ASSUME NEW word, word \notin Telling, NEW cancels, EndCountdown(pending, {}, word, cancels)
      PROVE  TellsFine
  BY <1>1, CountdownEndTells DEF Plain
<1>2. /\ {"captureFailed", "engineWedged"} \cap (Telling \cup EndWords) = {}
  BY DEF Telling, UnplacedWords, EndWords, OkWords
<1>3. inbox # <<>> => Head(inbox) \in Event
  BY AboutTail DEF CountdownInv, MailTyped
<1>4. CASE TimerFired
  BY <1>1, <1>4, WhyNotPlain, SilentTells DEF TimerFired
<1>5. CASE CaptureStarted
  BY <1>5, PlainTells, StopLettersPlain DEF CaptureStarted
<1>6. CASE StreamLost
  BY <1>6, PlainTells, StopLettersPlain, SilentTells DEF StreamLost
<1>7. CASE CaptureFailed
  <2>1. record.take \in Take
    BY <1>3, <1>7 DEF CaptureFailed, Is, Event, EngineEvent
  <2>2. QED BY <1>2, <1>7, <2>1, EndBrokenTells DEF CaptureFailed
<1>8. CASE CaptureTimedOut
  <2>1. record.take \in Take
    BY <1>8 DEF CaptureTimedOut, FlightInv
  <2>2. QED BY <1>2, <1>8, <2>1, EndBrokenTells DEF CaptureTimedOut
<1>9. CASE EngineWedged
  <2>1. CASE InCapture /\ EndBroken(project, "engineWedged")
    BY <1>2, <2>1, EndBrokenTells DEF InCapture, FlightInv
  <2>2. QED BY <1>1, <1>2, <1>9, <2>1, SilentTells DEF EngineWedged
<1>10. CASE FinalizeProbed
  <2>1. record.take \in Take
    BY <1>10 DEF FinalizeProbed, FlightInv
  <2>2. QED
    BY <1>2, <1>10, <2>1, EndBrokenTells, FinalizeTakeTells, EndUnprobedTells DEF FinalizeProbed
<1>11. CASE CaptureStopped \/ RecoverProbed \/ Ignore
  BY <1>11, SilentTells DEF CaptureStopped, RecoverProbed, Ignore
<1>12. QED
  BY <1>4, <1>5, <1>6, <1>7, <1>8, <1>9, <1>10, <1>11 DEF HandleEvent

LEMMA OutsideTells ==
  ASSUME FlightInv, FlightInv', MemoryInv, MemoryMoves, TakeMoves, ToldInv, Outside
  PROVE  TellsFine
<1>1. ASSUME NEW job, NEW cuts, SilenceDetected(job, cuts) PROVE TellsFine
  <2>1. Plain(ReadyLetters \cup {Letter(Opt(job.req), "autocutDone", NoTake)})
    BY ReadyPlain, OnePlain, PlainCup DEF Telling, UnplacedWords
  <2>2. QED BY <1>1, <2>1, SilentTells, PlainTells DEF SilenceDetected
<1>2. ASSUME NEW p \in purges, PurgeReturns(p) PROVE TellsFine
  <2>1. Fine("purged", p.take)'
    <3>1. p.take \in Take /\ (p.take < MaxTake => Settled(p.take))
      BY DEF ToldInv
    <3>2. ASSUME NEW t \in Take, t < MaxTake => Settled(t) PROVE Fine("purged", t)'
      BY <3>2, SettledStays DEF Fine, UnplacedWords
    <3>3. \A t : t = p.take => Fine("purged", t)'
      BY <3>1, <3>2
    <3>4. QED BY <3>3
  <2>2. CASE Deliver(pending, {Letter(Opt(p.req), "purged", p.take)}, TRUE)
    <3>1. \A m \in {Letter(Opt(p.req), "purged", p.take)} : m.word = "purged" /\ m.take = p.take
      BY DEF Letter
    <3>2. \A m \in {Letter(Opt(p.req), "purged", p.take)} : Fine(m.word, m.take)'
      BY <2>1, <3>1 DEF Fine
    <3> DEFINE mail == {Letter(Opt(p.req), "purged", p.take)}
    <3>3. Deliver(pending, mail, TRUE) /\ \A m \in mail : Fine(m.word, m.take)'
      BY <2>2, <3>2
    <3> HIDE DEF mail
    <3>4. QED BY <3>3, DeliverTells
  <2>3. CASE Deliver(pending, {Letter(Opt(p.req), "purgeFailed", NoTake)}, TRUE)
    BY <2>3, PlainTells, OnePlain DEF Telling, UnplacedWords
  <2>4. QED BY <1>2, <2>2, <2>3 DEF PurgeReturns
<1>3. QED
  BY <1>1, <1>2, SilentTells DEF Outside, TimerElapses, ProbeReturns, ExportReturns, reqVars

----------------------------------------------------------------------------
(* What is told stays true, in every step.                                 *)

\* A take is purged from the project on disk, and its number is counted there.
PurgesFine == \A p \in purges' : p \in purges \/ (p.take \in Take /\ (p.take < MaxTake => Settled(p.take)'))

LEMMA PurgesStay == purges' \subseteq purges => PurgesFine
BY DEF PurgesFine

LEMMA TakePurgeFine ==
  ASSUME FlightInv, MemoryInv, NEW r, NEW t \in Take, TakePurge(r, t)
  PROVE  PurgesFine
<1>1. CASE /\ Write(RemoveTake(project, t), TRUE) /\ purges' = purges \cup {[take |-> t, req |-> r]}
           /\ record' = record
  <2>1. disk' = RemoveTake(project, t)
    BY <1>1 DEF Write
  <2>2. disk'.next = project.next
    BY <2>1 DEF RemoveTake, FlightInv, Skeleton
  <2>3. project.status[t] # "none" /\ record.take = NoTake
    BY DEF TakePurge, CanPurge, IsIdle, FlightInv
  <2>4. t < MaxTake => Settled(t)'
    BY <1>1, <2>2, <2>3 DEF MemoryInv, Numbered, Settled, NoTake, Take
  <2>5. \A p \in purges' : p \in purges \/ p.take = t
    BY <1>1
  <2>6. QED BY <2>4, <2>5 DEF PurgesFine, Settled
<1>2. CASE purges' = purges
  BY <1>2, PurgesStay
<1>3. QED BY <1>1, <1>2 DEF TakePurge

LEMMA OwnStepPurges ==
  ASSUME FlightInv, MemoryInv, OwnStep
  PROVE  PurgesFine
<1>1. ASSUME purges' = purges PROVE PurgesFine
  BY <1>1, PurgesStay
<1>2. CASE Request
  <2>1. ASSUME NEW r, NEW word, Refuse(r, word) PROVE PurgesFine
    BY <1>1, <2>1 DEF Refuse, hostVars
  <2>2. ASSUME NEW r, NEW t \in Take, TakePurge(r, t) PROVE PurgesFine
    BY <2>2, TakePurgeFine
  <2>3. QED
    BY <1>1, <1>2, <2>1, <2>2 DEF Request, RecordStart, RefuseStart, RecordToggle, RecordCancel,
       RecordStop, TakeDiscardLast, CancelCountdown, StopRecording, JoinStop, Autocut, Export, Elsewhere
<1>3. CASE HandleEvent \/ Engine
  BY <1>1, <1>3 DEF HandleEvent, Engine, hostVars
<1>4. CASE Outside
  <2>1. ASSUME NEW p, PurgeReturns(p) PROVE PurgesFine
    BY <2>1, PurgesStay DEF PurgeReturns
  <2>2. QED
    BY <1>1, <1>4, <2>1 DEF Outside, TimerElapses, ProbeReturns, SilenceDetected, ExportReturns, hostVars
<1>5. QED BY <1>2, <1>3, <1>4 DEF OwnStep

LEMMA OwnStepTold ==
  ASSUME FlightInv, FlightInv', MemoryInv, MemoryMoves, TakeMoves, ShowMoves, ToldInv, TellsFine, PurgesFine
  PROVE  ToldInv'
<1>1. ASSUME NEW p \in purges' PROVE p.take \in Take /\ (p.take < MaxTake => Settled(p.take)')
  <2>1. CASE p \in purges
    <3>1. p.take \in Take /\ (p.take < MaxTake => Settled(p.take))
      BY <2>1 DEF ToldInv
    <3>2. \A t \in Take : t < MaxTake /\ Settled(t) => Settled(t)'
      BY SettledStays
    <3>3. QED BY <3>1, <3>2 DEF Settled
  <2>2. QED BY <2>1 DEF PurgesFine
<1>2. ASSUME NEW r \in Req PROVE Fine(answers[r].word, answers[r].take)'
  <2>1. CASE answers'[r] = answers[r]
    <3>1. Fine(answers[r].word, answers[r].take)
      BY DEF ToldInv
    <3>2. \A w, t : Fine(w, t) => Fine(w, t)'
      BY FineStays
    <3>3. \A w, t : w = answers[r].word /\ t = answers[r].take => Fine(w, t)'
      BY <3>1, <3>2
    <3>4. QED BY <2>1, <3>3 DEF Fine
  <2>2. QED BY <2>1 DEF TellsFine
<1>3. QED BY <1>1, <1>2 DEF ToldInv

LEMMA OwnStepDurable ==
  ASSUME FlightInv, FlightInv', RequestInv, MemoryInv, MemoryInv', ClipsInv, CountdownInv, DurableInv,
         OwnStep
  PROVE  DurableInv'
<1>1. MemoryMoves /\ TakeMoves /\ ShowMoves /\ MailMoves /\ PurgesFine
  BY OwnStepMoves, OwnStepTakes, OwnStepShows, OwnStepBrings, OwnStepPurges DEF OwnStep
<1>2. MailIsOld /\ FailsFirst /\ ShowsInv /\ ToldInv
  BY DEF DurableInv
<1>3. TellsFine
  BY <1>1, <1>2, RequestTells, EventTells, OutsideTells, SilentTells DEF OwnStep, Engine, reqVars
<1>4. MailIsOld' /\ FailsFirst' /\ ShowsInv' /\ ToldInv'
  BY <1>1, <1>2, <1>3, OwnStepMail, OwnStepFails, OwnStepShown, OwnStepTold
<1>5. QED BY <1>4 DEF DurableInv

\* A hand edit brings no take and no number back.
LEMMA EditDurable ==
  ASSUME FlightInv, FlightInv', MemoryInv, ClipsInv, DurableInv, ExternalEdit
  PROVE  DurableInv'
<1>1. PICK f \in HandEdits(disk) :
        project' = Merged(project, f) /\ (disk' = Merged(project, f) \/ disk' = f)
  BY DEF ExternalEdit
<1>2. f.next = disk.next /\ f.status = disk.status
  BY DEF HandEdits, FlightInv, Skeleton
<1>3. NoMore(disk, f)
  BY EditedShows DEF FlightInv, ClipsInv
<1>4. project.next \in Take /\ disk.next \in Take /\ disk.next <= project.next
  BY DEF FlightInv, Skeleton, MemoryInv
<1>5. project'.next = project.next
  <2>1. project'.next = Largest({project.next, disk.next})
    BY <1>1, <1>2 DEF Merged
  <2>2. /\ Largest({project.next, disk.next}) \in {project.next, disk.next}
        /\ project.next <= Largest({project.next, disk.next})
    BY <1>4, LargestIn
  <2>3. QED BY <1>4, <2>1, <2>2 DEF Take
<1>6. disk'.next \in {project.next, disk.next} /\ disk.next <= disk'.next /\ disk'.next <= project.next
  BY <1>1, <1>2, <1>4, <1>5 DEF Take
<1>7. ASSUME NEW t \in Take
      PROVE  /\ Shows(project', t) => Shows(project, t) \/ Shows(disk, t)
             /\ Shows(disk', t) => Shows(disk, t) \/ (Shows(project, t) /\ disk'.next = project.next)
  <2>1. Shows(f, t) => Shows(disk, t)
    BY <1>3 DEF NoMore
  <2>2. Shows(Merged(project, f), t) => Shows(project, t) \/ Shows(f, t)
    BY MergedShows
  <2>3. QED BY <1>1, <1>5, <2>1, <2>2
<1>8. UNCHANGED <<run, cmds, probes, inbox, record, purges, answers>>
  BY DEF ExternalEdit, engineVars, hostVars, reqVars
<1>9. MailIsOld'
  BY <1>5, <1>8 DEF DurableInv, MailIsOld, InMail, OnItsWay, About, Concerns
<1>10. FailsFirst'
  <2>1. ASSUME NEW t \in Take, t = record.take, t < MaxTake, disk'.status[t] = "none"
        PROVE  FailsFirstIn(inbox, t)
    <3>1. project.status[t] = "recording"
      BY <2>1 DEF FlightInv, InFlightIsRecording, InCapture, NoTake, Take
    <3>2. Merged(project, f).status[t] = "recording"
      BY <3>1 DEF Merged
    <3>3. disk.status[t] = "none"
      BY <1>1, <1>2, <2>1, <3>2
    <3>4. QED BY <2>1, <3>3 DEF DurableInv, FailsFirst
  <2>2. QED BY <1>8, <2>1 DEF FailsFirst, FailsFirstIn
<1>11. ShowsInv'
  <2>1. ASSUME NEW t \in Take
        PROVE  /\ Shows(project', t) => t < project'.next \/ t = MaxTake
               /\ Shows(disk', t) => t < disk'.next \/ t = MaxTake
    <3>1. /\ Shows(project, t) => t < project.next \/ t = MaxTake
          /\ Shows(disk, t) => t < disk.next \/ t = MaxTake
      BY DEF DurableInv, ShowsInv, ShownAreNumbered
    <3>2. QED BY <1>4, <1>5, <1>6, <1>7, <3>1 DEF Take
  <2>2. ASSUME NEW t \in Take, t = record'.take, t < MaxTake PROVE ~Shows(project', t) /\ ~Shows(disk', t)
    BY <1>7, <1>8, <2>2 DEF DurableInv, ShowsInv
  <2>3. QED BY <2>1, <2>2 DEF ShowsInv, ShownAreNumbered, Shows, Covers
<1>12. ASSUME NEW t \in Take, Settled(t) PROVE Settled(t)'
  BY <1>4, <1>6, <1>8, <1>12 DEF Settled, Take
<1>13. ASSUME NEW w, NEW t, Fine(w, t) PROVE Fine(w, t)'
  <2>1. w \in {"placed"} \cup UnplacedWords => t \in Take
    BY <1>13 DEF Fine
  <2>2. ASSUME t \in Take, t < MaxTake
        PROVE  /\ w \in EndWords \cup {"unprobed"} => Settled(t)'
               /\ w \in UnplacedWords => ~Shows(project', t) /\ ~Shows(disk', t)
    BY <1>7, <1>12, <1>13, <2>2 DEF Fine
  <2>3. QED BY <2>1, <2>2 DEF Fine, Shows, Covers
<1>14. ToldInv'
  <2>1. ASSUME NEW p \in purges PROVE p.take \in Take /\ (p.take < MaxTake => Settled(p.take)')
    <3>1. p.take \in Take /\ (p.take < MaxTake => Settled(p.take))
      BY <2>1 DEF DurableInv, ToldInv
    <3>2. QED BY <1>12, <3>1 DEF Settled
  <2>2. ASSUME NEW r \in Req PROVE Fine(answers[r].word, answers[r].take)'
    <3>1. Fine(answers[r].word, answers[r].take)
      BY DEF DurableInv, ToldInv
    <3>2. \A w, t : w = answers[r].word /\ t = answers[r].take => Fine(w, t)'
      BY <1>13, <3>1
    <3>3. QED BY <1>8, <3>2 DEF Fine
  <2>3. QED BY <1>8, <2>1, <2>2 DEF ToldInv
<1>15. QED BY <1>9, <1>10, <1>11, <1>14 DEF DurableInv

\* A fresh host: nothing is on its way but the recovery of takes qrec.json has.
LEMMA FreshMail ==
  ASSUME NEW p, Numbered(p), NEW t \in Take, t < MaxTake,
         \E probe \in {[take |-> u, purpose |-> "recover"] : u \in StillRecording(p)} : probe.take = t
  PROVE  t < p.next
BY DEF Numbered, StillRecording

LEMMA DeathDurable ==
  ASSUME FlightInv, MemoryInv, DurableInv, HostDies
  PROVE  DurableInv'
<1>1. /\ project' = disk /\ disk' = disk /\ purges' = {} /\ answers' = answers /\ record'.take = NoTake
      /\ run'.take = NoTake /\ cmds' = <<>> /\ inbox' = <<>>
      /\ probes' = {[take |-> t, purpose |-> "recover"] : t \in StillRecording(disk)}
  BY DEF HostDies, Opens, Idle, NoRun
<1>2. MailIsOld'
  <2>1. ASSUME NEW t \in Take, InMail(t)', t < MaxTake PROVE t < disk.next
    <3>1. \E probe \in probes' : probe.take = t
      BY <1>1, <2>1 DEF InMail, OnItsWay, About, NoTake, Take
    <3>2. QED BY <1>1, <2>1, <3>1, FreshMail DEF MemoryInv
  <2>2. QED BY <1>1, <2>1 DEF MailIsOld
<1>3. FailsFirst'
  BY <1>1 DEF FailsFirst, NoTake, Take
<1>4. ShowsInv'
  BY <1>1 DEF DurableInv, ShowsInv, ShownAreNumbered, NoTake, Take, Shows, Covers
<1>5. ToldInv'
  <2>1. ASSUME NEW r \in Req PROVE Fine(answers[r].word, answers[r].take)'
    <3>1. Fine(answers[r].word, answers[r].take)
      BY DEF DurableInv, ToldInv
    <3>2. \A t \in Take : Settled(t) => Settled(t)'
      BY <1>1 DEF Settled, NoTake, Take
    <3>3. \A w, t : Fine(w, t) => Fine(w, t)'
      BY <1>1, <3>2 DEF Fine, Shows, Covers
    <3>4. \A w, t : w = answers[r].word /\ t = answers[r].take => Fine(w, t)'
      BY <3>1, <3>3
    <3>5. QED BY <1>1, <3>4 DEF Fine
  <2>2. QED BY <1>1, <2>1 DEF ToldInv
<1>6. QED BY <1>2, <1>3, <1>4, <1>5 DEF DurableInv

LEMMA InitDurable == Init => DurableInv
<1> SUFFICES ASSUME Init PROVE DurableInv
  OBVIOUS
<1>1. /\ disk = project /\ purges = {} /\ record.take = NoTake /\ run.take = NoTake
      /\ cmds = <<>> /\ inbox = <<>> /\ \A r \in Req : answers[r] = NoAnswer
      /\ probes = {[take |-> t, purpose |-> "recover"] : t \in StillRecording(project)}
  BY DEF Init, EngineInit, Idle, NoRun
<1>2. Numbered(project) /\ ShownAreNumbered(project)
  BY ProjectAssumption DEF Init
<1>3. MailIsOld
  <2>1. ASSUME NEW t \in Take, InMail(t), t < MaxTake PROVE t < project.next
    <3>1. \E probe \in probes : probe.take = t
      BY <1>1, <2>1 DEF InMail, OnItsWay, About, NoTake, Take
    <3>2. QED BY <1>1, <1>2, <2>1, <3>1, FreshMail
  <2>2. QED BY <2>1 DEF MailIsOld
<1>4. FailsFirst
  BY <1>1 DEF FailsFirst, NoTake, Take
<1>5. ShowsInv
  BY <1>1, <1>2 DEF ShowsInv, NoTake, Take
<1>6. ToldInv
  BY <1>1 DEF ToldInv, Fine, NoAnswer, UnplacedWords, NoTake, Take
<1>7. QED BY <1>3, <1>4, <1>5, <1>6 DEF DurableInv

LEMMA NextDurable ==
  ASSUME FlightInv, FlightInv', RequestInv, MemoryInv, MemoryInv', ClipsInv, CountdownInv, DurableInv,
         [Next]_vars
  PROVE  DurableInv'
<1>1. CASE UNCHANGED vars
  BY <1>1 DEF vars, engineVars, hostVars, reqVars, DurableInv, MailIsOld, InMail, OnItsWay, About,
     Concerns, FailsFirst, FailsFirstIn, ShowsInv, ShownAreNumbered, Shows, Covers, ToldInv, Fine, Settled
<1>2. QED
  BY <1>1, OwnStepDurable, EditDurable, DeathDurable DEF Next, OwnStep

TellingInv == FlightInv /\ RequestInv /\ MemoryInv /\ ClipsInv /\ CountdownInv /\ DurableInv

LEMMA TellingHolds ==
  /\ Init => TellingInv
  /\ TellingInv /\ [Next]_vars => TellingInv'
<1>1. Init => TellingInv
  BY InitFlightInv, InitRequestInv, InitLifeInv, InitClipsInv, FreshTimers, InitDurable DEF TellingInv
<1>2. ASSUME TellingInv, [Next]_vars PROVE TellingInv'
  <2>1. FlightInv' /\ RequestInv' /\ ClipsInv' /\ CountdownInv'
    BY <1>2, NextFlightInv, NextRequestInv, NextClipsInv, NextCountdownInv DEF TellingInv
  <2>2. MemoryInv'
    BY <1>2, <2>1, NextMemoryInv DEF TellingInv
  <2>3. DurableInv'
    BY <1>2, <2>1, <2>2, NextDurable DEF TellingInv
  <2>4. QED BY <2>1, <2>2, <2>3 DEF TellingInv
<1>3. QED BY <1>1, <1>2

\* What a caller was told of a take is on disk and stays true until the take
\* is purged, whatever is edited by hand or dies meanwhile: an end is the end
\* qrec.json has, and a take told not to be placed is not placed there and on no
\* timeline (no discard, cut, purge or merge brings it back).
THEOREM AnswersHold == Spec => []AnswersAreDurable
<1>1. ASSUME TellingInv, Lives!ToldIsTrue PROVE AnswersAreDurable
  <2> SUFFICES ASSUME NEW r \in Req, NEW t, t = answers[r].take, t < MaxTake
               PROVE  /\ Tells(r, {"placed", "cancelled"}) => disk.status[t] \in {"ok", "none"}
                      /\ Tells(r, {"tooShort", "broken"})  => disk.status[t] \in {answers[r].word, "none"}
                      /\ Tells(r, {"cancelled", "tooShort", "broken", "notPlaced", "unprobed"}) =>
                           ~disk.placed[t] /\ ClipsOf(disk, t) = {}
    BY DEF AnswersAreDurable
  <2>1. Fine(answers[r].word, t)
    BY <1>1 DEF TellingInv, DurableInv, ToldInv
  <2>2. ASSUME Tells(r, {"placed", "cancelled", "tooShort", "broken"})
        PROVE  disk.status[t] \in {EndTold(answers[r].word), "none"}
    <3>1. t \in Take
      BY <2>1, <2>2 DEF Fine, Tells, UnplacedWords
    <3>2. t \in Numbers /\ EndTold(answers[r].word) \in ToldOf(t)
      BY <2>2, <3>1 DEF Numbers, ToldOf, Take
    <3>3. LifeOf(disk, t).age \in {EndTold(answers[r].word), "purged"}
      BY <1>1, <3>2 DEF Lives!ToldIsTrue, Lives!Number, Lives!Take, Take, Numbers
    <3>4. disk.status[t] \in Status
      BY <1>1, <3>1 DEF TellingInv, FlightInv, Skeleton
    <3>5. QED BY <3>3, <3>4 DEF LifeOf, Status
  <2>3. ASSUME answers[r].word \in UnplacedWords PROVE ~disk.placed[t] /\ ClipsOf(disk, t) = {}
    <3>1. t \in Take /\ ~Shows(disk, t)
      BY <2>1, <2>3 DEF Fine
    <3>2. QED BY <3>1 DEF Shows, Covers, ClipsOf, ToSet
  <2>4. QED BY <2>2, <2>3 DEF Tells, EndTold, UnplacedWords
<1>2. QED BY <1>1, TellingHolds, ToldStaysTrue, PTL DEF Spec

\* The number of a take somebody was told the end of is never given to another
\* take: not when the take was purged with its folder, and not when a crash
\* lost what the host had counted.
THEOREM NumbersAreKept == Spec => TakeNumbersAreNotReused
<1>1. ASSUME TellingInv, [Next]_vars
      PROVE  [\A t \in Take : Begins(t) /\ t < MaxTake =>
                \A r \in Req : ~(answers[r].take = t /\ Tells(r, EndWords))]_vars
  <2>1. ASSUME NEW t \in Take, Begins(t), t < MaxTake, NEW r \in Req, answers[r].take = t,
               Tells(r, EndWords)
        PROVE  FALSE
    <3>1. OwnStep
      <4>1. record'.take # record.take /\ record'.take # NoTake
        BY <2>1 DEF Begins, NoTake, Take
      <4>2. ~ExternalEdit /\ ~HostDies /\ ~UNCHANGED vars
        BY <4>1 DEF ExternalEdit, HostDies, Opens, Idle, vars, hostVars
      <4>3. QED BY <1>1, <4>2 DEF Next, OwnStep
    <3>2. TakeMoves
      BY <1>1, <3>1, OwnStepTakes DEF TellingInv
    <3>3. project.next <= t
      BY <2>1, <3>2 DEF TakeMoves, TakeBegins, Begins, NoTake, Take
    <3>4. t < disk.next
      BY <1>1, <2>1 DEF TellingInv, DurableInv, ToldInv, Fine, Settled, Tells
    <3>5. project.next \in Take /\ disk.next \in Take /\ disk.next <= project.next
      BY <1>1 DEF TellingInv, FlightInv, Skeleton, MemoryInv
    <3>6. QED BY <3>3, <3>4, <3>5 DEF Take
  <2>2. QED BY <2>1
<1>2. QED BY <1>1, TellingHolds, PTL DEF Spec, TakeNumbersAreNotReused
=============================================================================
