---------------------------- MODULE RecordSafety ----------------------------
(***************************************************************************)
(* What recording promises, whatever the engine, the disk, a hand editor   *)
(* and a dying host do in between.                                         *)
(***************************************************************************)
EXTENDS RecordMachine

RecordType ==
  [ name : PhaseName, take : Take \cup {NoTake}, over : SUBSET Clip, remaining : Nat,
    timer : Nat, startReq : Req \cup {NoReq}, wait : BOOLEAN, waiters : SUBSET Req,
    stopReqs : SUBSET Req, discard : BOOLEAN, discardReq : Req \cup {NoReq},
    cancelled : BOOLEAN ]

\* Types of the host's, the engine's and the disk's state.
TypeOK ==
  /\ EngineTypeOK
  /\ inbox \in Seq(Event)
  /\ project \in Project /\ disk \in Project
  /\ dirs \in SUBSET Take
  /\ record \in RecordType
  /\ jobs \in SUBSET Job
  /\ purges \in SUBSET [take : Take, req : Req \cup {NoReq}]
  /\ exporting \in BOOLEAN /\ stuck \in BOOLEAN
  /\ recovering \in SUBSET Take
  /\ nextTimer \in Nat /\ armed \in SUBSET Nat
  /\ probes \in SUBSET [take : Take, purpose : {"finalize", "recover"}]
  /\ asked \in SUBSET Req /\ pending \in SUBSET asked
  /\ answers \in [Req -> Answer \cup {NoAnswer}]
  /\ edits \in 0 .. MaxEdits /\ fails \in 0 .. MaxFails /\ crashes \in 0 .. MaxCrashes

\* Somebody waits for an answer exactly while the phase or a job still holds
\* their request: nobody is forgotten when a countdown, a take or a host's
\* plans end early, and nobody is answered and kept (who would be answered
\* twice, the second time into nothing).  (record.rs's start_req, waiters,
\* stop_reqs and discard against Session.pending)
PendingIsHeld == pending = HeldBy(record) \cup HeldByJobs

\* The take in flight is recording in qrec.json, not placed and not being
\* recovered as an earlier host's: no late event of another take, hand edit
\* or recovery probe settles it while it is captured.
InFlightIsRecording ==
  InCapture =>
    /\ project.status[record.take] = "recording"
    /\ ~project.placed[record.take]
    /\ record.take \notin recovering

\* The engine captures nothing but the host's take in flight: once a take
\* ended (broken, timed out, stuck) no capture goes on behind it, and no
\* second start overtakes a first.
EngineFollowsHost == run.take \in {NoTake, record.take}

\* The timeline always holds what validate accepts: clip ids once each, on
\* takes that are ok, inside their length; in memory and on disk.
TimelineIsSound == TimelineSound(project) /\ TimelineSound(disk)

\* A countdown has its own timer running or just fired, and no timer of an
\* earlier countdown runs: a cancelled countdown never begins a take.
FiredTimers == {inbox[i].timer : i \in {k \in DOMAIN inbox : inbox[k].type = "timer"}}
CountdownHasItsTimer ==
  /\ armed \subseteq {record.timer}
  /\ record.name = "countdown" =>
       record.timer \in (armed \cup FiredTimers) \ (armed \cap FiredTimers)

\* An autocut that finished while a recording ran is never left behind once
\* the recording is over, however it ended.
NoReadyJobWhileIdle == IsIdle => ReadyJobs = {}

\* What a caller was told of a take is on disk and stays true until the take
\* is purged: an answer survives a crash, and a cancelled take is never on
\* the timeline.  (The highest number, u32::MAX, is given again once its take
\* is purged: nothing told of it lasts.)
Tells(r, words) == answers[r].word \in words
AnswersAreDurable ==
  \A r \in Req :
    LET t == answers[r].take IN
    t < MaxTake =>
    /\ Tells(r, {"placed", "cancelled"}) => disk.status[t] \in {"ok", "none"}
    /\ Tells(r, {"tooShort", "broken"})  => disk.status[t] \in {answers[r].word, "none"}
    /\ Tells(r, {"cancelled", "tooShort", "broken", "notPlaced", "unprobed"}) =>
         ~disk.placed[t] /\ ClipsOf(disk, t) = {}

\* Once its reports are handled, the host knows every source the engine lost
\* during the take and no other: the last loss is recognised as the last.
LostReports(t) == {i \in DOMAIN inbox : inbox[i].type = "lost" /\ inbox[i].take = t}
MissingFollowsEngine ==
  run.phase = "recording" /\ record.name = "recording" /\ LostReports(run.take) = {} =>
    project.missing[run.take] = lost

\* Every step of recording is a step of TakeLife: on disk a take is recorded
\* once, ends once, keeps its number, and each end a caller is told is there.
\* Late CaptureFailed, CaptureStopped, EngineWedged or probe results never
\* change a settled take, and neither does a host that dies and comes back.
LifeOf(p, t) ==
  [ age    |-> IF p.status[t] # "none" THEN p.status[t]
               ELSE IF t < p.next THEN "purged" ELSE "unborn",
    frames |-> p.dur[t] ]
EndTold(word) == IF word \in {"placed", "cancelled"} THEN "ok" ELSE word
ToldOf(t) ==
  {EndTold(answers[r].word) :
     r \in {q \in Req : answers[q].take = t
                       /\ Tells(q, {"placed", "cancelled", "tooShort", "broken"})}}
Lives == INSTANCE TakeLife
           WITH life <- [t \in Take \ {MaxTake} |-> LifeOf(disk, t)],
                told <- [t \in Take \ {MaxTake} |-> ToldOf(t)]
TakesLive == Lives!Spec

\* The number of a take somebody was told the end of is never given to
\* another take, not after a purge and not after a crash that lost
\* nextTakeNumber.  (A stop that overtakes the CaptureFailed of a start with
\* neither folder nor save is told "started" and no more; at the highest
\* number, u32::MAX, the number saturates and this ends.)
EndWords == OkWords \ {"started"}
Begins(t) == project.status[t] # "recording" /\ record'.take = t /\ record.take # t
TakeNumbersAreNotReused ==
  [][\A t \in Take : Begins(t) /\ t < MaxTake =>
       \A r \in Req : ~(answers[r].take = t /\ Tells(r, EndWords))]_vars

\* A discard pressed while finalizing leaves the timeline as it was before
\* the take (but for the autocuts that waited): a record-over gives back
\* what it replaced.
DiscardUndoesTake ==
  [][record.name = "finalizing" /\ record.discard /\ record'.name = "idle"
       /\ crashes' = crashes => project'.clips = ReadyCuts(project).clips]_vars

----------------------------------------------------------------------------
(* Why PendingIsHeld holds: what each phase holds, and that each request   *)
(* is held once.                                                           *)

RecordTyped ==
  record \in [ name : PhaseName, take : {record.take}, over : {record.over},
               remaining : {record.remaining}, timer : {record.timer},
               startReq : Req \cup {NoReq}, wait : BOOLEAN, waiters : SUBSET Req,
               stopReqs : SUBSET Req, discard : BOOLEAN,
               discardReq : Req \cup {NoReq}, cancelled : BOOLEAN ]

RequestsTyped ==
  /\ RecordTyped
  /\ \A j \in jobs \cup purges : j.req \in Req \cup {NoReq}
  /\ asked \subseteq Req /\ pending \subseteq asked

\* The roles a phase can fill.
PhaseHolds ==
  /\ record.name \in {"idle", "countdown", "starting"} => record.waiters = {}
  /\ record.name # "finalizing" => record.stopReqs = {} /\ ~record.discard
  /\ ~record.discard => record.discardReq = NoReq
  /\ record.name \notin {"countdown", "starting"} => record.startReq = NoReq

HeldOnce ==
  /\ HeldBy(record) \cap HeldByJobs = {}
  /\ Asking(jobs) \cap Asking(purges) = {}
  /\ \A j, k \in jobs : j.req = k.req => j = k \/ j.req = NoReq
  /\ \A p, q \in purges : p.req = q.req => p = q \/ p.req = NoReq

RequestInv == RequestsTyped /\ PhaseHolds /\ HeldOnce /\ PendingIsHeld

\* Why InFlightIsRecording holds: what every project in memory and on disk
\* looks like, and what else is recording.
Skeleton(p) ==
  p \in [ status : [Take -> Status], dur : {p.dur}, placed : [Take -> BOOLEAN],
          replaced : {p.replaced}, missing : {p.missing}, next : Take,
          clips : {p.clips}, scene : {p.scene} ]

FlightInv ==
  /\ Skeleton(project) /\ Skeleton(disk) /\ dirs \subseteq Take
  /\ record.take \in Take \cup {NoTake}
  /\ record.name \in {"idle", "countdown"} <=> record.take = NoTake
  /\ recovering \subseteq StillRecording(project)
  /\ InFlightIsRecording

\* Why TimelineIsSound holds: a take's own clip has its number, which is how
\* a take that is not ok has none, and what a take replaced was a timeline's.
ClipsFit(p) ==
  /\ p.dur \in [Take -> Nat] /\ p.clips \in Seq(Clip) /\ p.replaced \in [Take -> Seq(Clip)]
  /\ TimelineSound(p) /\ Together(p.clips)
  /\ \A t \in Take : Together(p.replaced[t])

ClipsInv == ClipsFit(project) /\ ClipsFit(disk)

\* Why DiscardUndoesTake holds: the take in flight has the highest number of
\* all, in memory and on disk, so it is the one discard_last reaches.
Pools == Pool(project) \cup Pool(disk)
NewestInv == InCapture => \A u \in Pools : u <= record.take

\* Why TakesLive holds: memory is never behind the disk, numbers are above
\* every take, and nobody who is still to be answered has an answer.
Reaches(p, q) == \A t \in Take \ {MaxTake} : Lives!Older(LifeOf(p, t), LifeOf(q, t))

MemoryInv ==
  /\ project.dur \in [Take -> Nat] /\ disk.dur \in [Take -> Nat]
  /\ Numbered(project) /\ Numbered(disk)
  /\ disk.next <= project.next
  /\ Reaches(disk, project)

AnswerInv == \A r \in Req : r \notin asked \/ r \in pending => answers[r] = NoAnswer

\* Why AnswersAreDurable and TakeNumbersAreNotReused hold.  Whatever is on its
\* way is about a take that was numbered, so nothing is about the next one ...
Concerns(e, t) == e.type \notin {"timer", "wedged"} /\ e.take = t
About(q, t) == \E i \in DOMAIN q : Concerns(q[i], t)
OnItsWay(t) ==
  \/ run.take = t
  \/ \E i \in DOMAIN cmds : cmds[i].take = t
  \/ \E probe \in probes : probe.take = t
InMail(t) == OnItsWay(t) \/ About(inbox, t)
MailIsOld == \A t \in Take : InMail(t) /\ t < MaxTake => t < project.next

\* ... and a take in flight that is not on disk fails before anything else is
\* heard of it: its end is not told.
FailsFirstIn(q, t) ==
  \E i \in DOMAIN q : q[i] = Failed(t) /\ \A j \in 1 .. i - 1 : ~Concerns(q[j], t)
FailsFirst ==
  \A t \in Take : t = record.take /\ t < MaxTake /\ disk.status[t] = "none" =>
    FailsFirstIn(inbox, t)

\* A take in flight is shown nowhere yet.
ShowsInv ==
  /\ ShownAreNumbered(project) /\ ShownAreNumbered(disk)
  /\ \A t \in Take : t = record.take /\ t < MaxTake => ~Shows(project, t) /\ ~Shows(disk, t)

\* The disk counted the takes whose end was told, and the takes that are not
\* placed are shown nowhere, not even by what a discard would give back.
UnplacedWords == {"cancelled", "tooShort", "broken", "notPlaced", "unprobed"}
Settled(t) == t < disk.next /\ t # record.take
Fine(word, t) ==
  /\ word \in {"placed"} \cup UnplacedWords => t \in Take
  /\ t \in Take /\ t < MaxTake =>
       /\ word \in EndWords \cup {"unprobed"} => Settled(t)
       /\ word \in UnplacedWords => ~Shows(project, t) /\ ~Shows(disk, t)
ToldInv ==
  /\ \A p \in purges : p.take \in Take /\ (p.take < MaxTake => Settled(p.take))
  /\ \A r \in Req : Fine(answers[r].word, answers[r].take)

DurableInv == MailIsOld /\ FailsFirst /\ ShowsInv /\ ToldInv

----------------------------------------------------------------------------
(* Liveness, under FairSpec.                                               *)

\* A countdown, a start and a finalization always end, whatever the engine
\* does (it may hang in a teardown, lose every source or panic), and so does
\* every recovery: a host never stays busy with one.
CountdownEnds  == record.name = "countdown"  ~> record.name # "countdown"
StartingEnds   == record.name = "starting"   ~> record.name # "starting"
FinalizingEnds == record.name = "finalizing" ~> record.name # "finalizing"
RecoveriesEnd  == \A t \in Take : t \in recovering ~> t \notin recovering
PhasesEnd == CountdownEnds /\ StartingEnds /\ FinalizingEnds /\ RecoveriesEnd

\* Whoever asked to stop (or to discard meanwhile) is answered.
StopsAreAnswered ==
  \A r \in Req : (r \in record.stopReqs \/ r = record.discardReq) ~> r \notin pending
=============================================================================
