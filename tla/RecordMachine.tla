--------------------------- MODULE RecordMachine ---------------------------
(***************************************************************************)
(* Recording in one host process: the record phase of qrec-core            *)
(* (apply/record.rs, on_event/record.rs), the session that runs its        *)
(* effects (qrec-shell/src/session/effects.rs), the capture engine, the    *)
(* countdown timers, the prober, hand edits of qrec.json and a host that   *)
(* dies and is started again.                                              *)
(*                                                                         *)
(* Every message of the session (engine and timer events, probe results,   *)
(* the CaptureFailed the session sends itself) goes through one FIFO       *)
(* inbox; a request may be handled between any two of them.                *)
(***************************************************************************)
EXTENDS CaptureEngine, Timeline

CONSTANTS
  Req,            \* requests somebody waits for
  NoReq,          \* a command nobody waits for (Option<ReqId>::None)
  Countdowns,     \* countdown lengths in seconds a start may ask for
  Lengths,        \* lengths a probe may find, in frames
  MinTakeFrames,  \* a shorter take is tooShort
  InitProjects,   \* projects a host may open
  AutoRun,        \* autocut.autoRunAfterTake
  MaxJobs,        \* bound: autocut jobs at a time
  MaxEdits,       \* bound: hand edits of qrec.json
  MaxFails,       \* bound: saves and folders that fail
  MaxCrashes      \* bound: deaths of the host

ASSUME RecordAssumptions ==
  /\ NoReq \notin Req
  /\ Countdowns \subseteq Nat
  /\ Lengths \subseteq Nat
  /\ MinTakeFrames \in Nat \ {0}
  /\ AutoRun \in BOOLEAN
  /\ {MaxJobs, MaxEdits, MaxFails, MaxCrashes} \subseteq Nat

VARIABLES
  project,    \* qrec.json as the host holds it
  disk,       \* qrec.json as it was last saved (or hand-edited)
  dirs,       \* takes/take-N folders on disk
  record,     \* runtime.record
  jobs,       \* autocut jobs
  purges,     \* purge jobs whose folder is not deleted yet
  exporting,  \* an export job runs
  stuck,      \* runtime.engine_stuck
  recovering, \* takes whose recovery probe is out
  nextTimer,  \* the next timer id
  armed,      \* timers that run
  probes,     \* probes that run
  asked,      \* requests made so far
  pending,    \* requests the session still owes an answer
  answers,    \* what each request was answered
  edits, fails, crashes

hostVars  == <<record, jobs, purges, exporting, stuck, recovering>>
timerVars == <<nextTimer, armed>>
reqVars   == <<asked, pending, answers>>
bounds    == <<edits, fails, crashes>>
vars == <<engineVars, inbox, project, disk, dirs, hostVars, timerVars, probes, reqVars, bounds>>

----------------------------------------------------------------------------
(* The project: what qrec.json holds of takes and timeline.                *)

Status == {"none", "recording", "ok", "tooShort", "broken"}

Project ==
  [ status   : [Take -> Status],         \* "none": no such take
    dur      : [Take -> Nat],            \* durationFrames
    placed   : [Take -> BOOLEAN],
    replaced : [Take -> Seq(Clip)],
    missing  : [Take -> SUBSET Stream],  \* sources lost during the take
    next     : Take,                     \* nextTakeNumber
    clips    : Seq(Clip),
    scene    : BOOLEAN ]                 \* the scene has something to record

\* validate: nextTakeNumber is above every take (the highest number can't be).
Numbered(p) ==
  \A t \in Take : p.status[t] # "none" => t < p.next \/ (t = MaxTake /\ p.next = MaxTake)

\* What validate asks of a timeline.
TimelineSound(p) ==
  /\ \A i, j \in DOMAIN p.clips : p.clips[i].id = p.clips[j].id => i = j
  /\ \A c \in ToSet(p.clips) : p.status[c.take] = "ok" /\ 0 < c.out /\ c.out <= p.dur[c.take]

\* Clips that were on a timeline together: ids once each, none empty, and an
\* id that IdGen gave with a take is that of the take's clip.
Together(clips) ==
  /\ \A i, j \in DOMAIN clips : clips[i].id = clips[j].id => i = j
  /\ \A i \in DOMAIN clips : 0 < clips[i].out /\ (clips[i].id \in Take => clips[i].id = clips[i].take)

\* The project shows the take: it is placed, on the timeline, or was replaced
\* there by another one.
Covers(clips, t) == \E i \in DOMAIN clips : clips[i].take = t
Shows(p, t) ==
  p.placed[t] \/ Covers(p.clips, t) \/ \E u \in Take : Covers(p.replaced[u], t)

\* No take is shown that was never numbered.
ShownAreNumbered(p) == \A t \in Take : Shows(p, t) => t < p.next \/ t = MaxTake

ASSUME ProjectAssumption ==
  \A p \in InitProjects :
    /\ p \in Project /\ Numbered(p)
    /\ TimelineSound(p) /\ Together(p.clips)
    /\ \A t \in Take : Together(p.replaced[t])
    /\ ShownAreNumbered(p)

Pool(p) == {t \in Take : p.status[t] # "none"}

Largest(S) == CHOOSE n \in S : \A m \in S : m <= n
Smaller(a, b) == IF a < b THEN a ELSE b

\* Mutant of NextTakeNumber: qrec.json's nextTakeNumber is not read.
NextByFolders == Largest({1} \cup {SaturatingSucc(t) : t \in dirs \cup Pool(project)})

\* max(nextTakeNumber, 1 + the highest folder, 1 + the highest take).
NextTakeNumber == Largest({project.next} \cup {SaturatingSucc(t) : t \in dirs \cup Pool(project)})

\* IdGen never repeats a clip id: a take is placed once, its number is one.
\* A hand-made clip has an id above MaxTake.
FreshClipId(t) == t

\* A take begins: recording, nothing known yet.
Begun(p, t) ==
  [p EXCEPT !.status[t] = "recording", !.dur[t] = 0, !.placed[t] = FALSE,
            !.replaced[t] = <<>>, !.missing[t] = {}, !.next = SaturatingSucc(t)]

MarkBroken(p, t) ==
  [p EXCEPT !.status[t] = "broken", !.dur[t] = 0, !.placed[t] = FALSE, !.replaced[t] = <<>>]

\* Mutant of SetMissing: the last loss is the only one.
SetOnlyMissing(p, t, s) == [p EXCEPT !.missing[t] = {s}]

SetMissing(p, t, s) == [p EXCEPT !.missing[t] = @ \cup {s}]

NothingLeft(p, t) == p.missing[t] = Stream

\* A purged take leaves the pool and every other take's replaced list.
RemoveTake(p, t) ==
  [p EXCEPT !.status[t] = "none", !.dur[t] = 0, !.placed[t] = FALSE, !.missing[t] = {},
            !.replaced = [u \in Take |->
              IF u = t THEN <<>> ELSE Only(p.replaced[u], {c \in ToSet(p.replaced[u]) : c.take # t})]]

----------------------------------------------------------------------------
(* The record phase.                                                       *)

PhaseName == {"idle", "countdown", "starting", "recording", "finalizing"}

Idle ==
  [ name |-> "idle", take |-> NoTake, over |-> {}, remaining |-> 0, timer |-> 0,
    startReq |-> NoReq, wait |-> FALSE, waiters |-> {}, stopReqs |-> {},
    discard |-> FALSE, discardReq |-> NoReq, cancelled |-> FALSE ]

IsIdle     == record.name = "idle"
Capturing  == record.name \in {"starting", "recording"}
InCapture  == record.take # NoTake

Countdown(secs, timer, over, r, wait) ==
  [Idle EXCEPT !.name = "countdown", !.remaining = secs, !.timer = timer,
               !.over = over, !.startReq = r, !.wait = wait]

Starting(t, over, r, wait) ==
  [Idle EXCEPT !.name = "starting", !.take = t, !.over = over, !.startReq = r, !.wait = wait]

RecordingTake(t, over, waiting) ==
  [Idle EXCEPT !.name = "recording", !.take = t, !.over = over, !.waiters = waiting]

Finalizing(t, over, waiting, stoppers, cancel) ==
  [Idle EXCEPT !.name = "finalizing", !.take = t, !.over = over, !.waiters = waiting,
               !.stopReqs = stoppers, !.cancelled = cancel]

\* Some(req) as a set, None as none.
Opt(r) == {r} \ {NoReq}

\* Requests the record phase and the jobs still hold.
HeldBy(rec) == (rec.waiters \cup rec.stopReqs \cup {rec.startReq, rec.discardReq}) \ {NoReq}
Asking(js) == {j.req : j \in js} \ {NoReq}
HeldByJobs == Asking(jobs) \cup Asking(purges)

----------------------------------------------------------------------------
(* Saving.  A change of the project is written by the step that makes it;  *)
(* when that fails an event's change stays in memory, a command's is       *)
(* dropped if qrec.json can be put back and kept in memory if not.         *)

Write(p, saved) ==
  /\ saved \/ fails < MaxFails
  /\ project' = p
  /\ disk' = IF saved THEN p ELSE disk
  /\ fails' = IF saved THEN fails ELSE fails + 1

Persist(p, saved) ==
  IF p = project THEN saved /\ UNCHANGED <<project, disk, fails>> ELSE Write(p, saved)

----------------------------------------------------------------------------
(* Replies.  An Ok reply of a step whose save failed says so instead; a    *)
(* reply nobody waits for goes nowhere.                                    *)

OkWords == {"started", "placed", "cancelled", "tooShort", "broken", "notPlaced",
            "discarded", "countdownCancelled", "autocutDone", "purged"}
ErrWords == {"refused", "engineStuck", "engineWedged", "countdownEnded", "captureFailed", "unprobed",
             "notDiscarded", "purgeFailed", "unsaved", "dropped"}
NoAnswer == [word |-> "none", take |-> NoTake]
Answer == [word : OkWords \cup ErrWords, take : Take \cup {NoTake}]

Letter(reqs, word, t) == [to |-> reqs, word |-> word, take |-> t]

\* Mutant of Said: Ok whether it is on disk or not.
SaidAnyway(m, saved) == [word |-> m.word, take |-> m.take]

Said(m, saved) ==
  [word |-> IF ~saved /\ m.word \in OkWords THEN "unsaved" ELSE m.word, take |-> m.take]

\* Everybody a letter is for.
Told(mail) == UNION {m.to : m \in mail}

Deliver(waiting, mail, saved) ==
  /\ answers' = [r \in Req |->
       IF r \in waiting /\ \E m \in mail : r \in m.to
       THEN Said(CHOOSE m \in mail : r \in m.to, saved)
       ELSE answers[r]]
  /\ pending' = waiting \ Told(mail)

\* r asks now (NoReq: nobody does, as the interrupt that stops a recording).
Asks(r) == r \notin asked /\ asked' = asked \cup Opt(r)

Refuse(r, word) ==
  /\ Asks(r)
  /\ Deliver(pending \cup Opt(r), {Letter(Opt(r), word, NoTake)}, TRUE)
  /\ UNCHANGED <<engineVars, inbox, project, disk, dirs, hostVars, timerVars, probes, bounds>>

----------------------------------------------------------------------------
(* Autocut jobs.  A job remembers the clip it was asked for; applied, it   *)
(* replaces that clip (if it is still the same) by what is left of it.  Of *)
(* two jobs on one clip the second finds it changed, so their order does   *)
(* not matter here.                                                        *)

Job == [clip : Clip, req : Req \cup {NoReq}, ready : BOOLEAN, cuts : BOOLEAN]

NewJob(clip, r) == [clip |-> clip, req |-> r, ready |-> FALSE, cuts |-> FALSE]
Analyzed(job, cuts) == [clip |-> job.clip, req |-> job.req, ready |-> TRUE, cuts |-> cuts]

CutClips(clips, js) ==
  [i \in DOMAIN clips |->
     IF clips[i].out > 1 /\ \E j \in js : j.cuts /\ j.clip = clips[i]
     THEN [clips[i] EXCEPT !.out = @ - 1]
     ELSE clips[i]]

ReadyJobs == {j \in jobs : j.ready}

\* apply_ready_autocuts: run whenever the phase goes back to idle.
ReadyCuts(p) == [p EXCEPT !.clips = CutClips(@, ReadyJobs)]

\* Mutant of ReadyLetters: who asked for an autocut that waited is forgotten.
NoLetters == {}

ReadyLetters == {Letter(Opt(j.req), "autocutDone", NoTake) : j \in ReadyJobs}

\* Mutant of KeepUnready: the jobs that are done stay.
KeepJobs == jobs' = jobs

KeepUnready == jobs' = jobs \ ReadyJobs

----------------------------------------------------------------------------
(* Placing and discarding a take.                                          *)

\* A record-over replaces its clips if each is still the clip the command
\* saw and they still sit together; otherwise the take is appended.
CanReplace(clips, over) ==
  over # {} /\ over \subseteq ToSet(clips) /\ IsContiguous(clips, {c.id : c \in over})

Place(p, t, frames, over) ==
  LET clip  == [id |-> FreshClipId(t), take |-> t, out |-> frames]
      start == StartOf(p.clips, {c.id : c \in over})
      len   == Cardinality(over)
      done  == [p EXCEPT !.status[t] = "ok", !.dur[t] = frames, !.placed[t] = TRUE]
  IN  IF CanReplace(p.clips, over)
      THEN [done EXCEPT !.replaced[t] = SubSeq(p.clips, start, start + len - 1),
                        !.clips = ReplaceRun(@, start, len, <<clip>>)]
      ELSE [done EXCEPT !.replaced[t] = <<>>, !.clips = AppendClip(@, clip)]

PlacedTakes(p) == {t \in Pool(p) : p.placed[t]}
ClipsOf(p, t)  == {c \in ToSet(p.clips) : c.take = t}

\* discard_last reaches the newest placed take and no older one.
CanDiscard(p) == PlacedTakes(p) # {} /\ ClipsOf(p, Largest(PlacedTakes(p))) # {}

\* Mutant of Restorable: no look at what is on the timeline by now.
RestorableBlindly(p, t) ==
  Only(p.replaced[t], {c \in ToSet(p.replaced[t]) :
                         p.status[c.take] = "ok" /\ c.out <= p.dur[c.take]})

\* The clips a record-over replaced go back where the take's first clip was,
\* if every one of them is off the timeline, clamped to their takes.
Restorable(p, t) ==
  LET gone    == \A c \in ToSet(p.replaced[t]) : c.id \notin ClipIds(p.clips)
      clamped == [i \in DOMAIN p.replaced[t] |->
                   [p.replaced[t][i] EXCEPT !.out = Smaller(@, p.dur[p.replaced[t][i].take])]]
  IN  IF gone
      THEN Only(clamped, {c \in ToSet(clamped) : p.status[c.take] = "ok" /\ c.out > 0})
      ELSE <<>>

\* Mutant of Discarded: the replaced clips go to the end.
DiscardedToTheEnd(p) ==
  LET t == Largest(PlacedTakes(p))
  IN  [p EXCEPT !.clips = RemoveClips(@, {c.id : c \in ClipsOf(p, t)}) \o Restorable(p, t)]

Discarded(p) ==
  LET t   == Largest(PlacedTakes(p))
      ids == {c.id : c \in ClipsOf(p, t)}
  IN  [p EXCEPT !.clips = InsertClips(RemoveClips(@, ids), StartOf(@, ids), Restorable(p, t))]

----------------------------------------------------------------------------
(* Starting.                                                               *)

\* check_can_start's refusal, or "" when a take may begin.
WhyNotStart ==
  CASE exporting -> "refused"
    [] ~exporting /\ stuck -> "engineStuck"
    [] ~exporting /\ ~stuck /\ ~project.scene -> "refused"
    [] OTHER -> ""

CanBegin == WhyNotStart = "" /\ project.status[NextTakeNumber] = "none"

WhyNotBegin == IF WhyNotStart # "" THEN WhyNotStart ELSE "refused"

\* StartCapture reaches the engine unless the folder or the save failed: then
\* the session queues a CaptureFailed for the take itself.
Capture(t, folder, saved, rest) ==
  IF folder /\ saved
  THEN /\ Sends(StartCapture(t))
       /\ inbox' = rest \o AnsweredForTheDead(StartCapture(t))
  ELSE /\ UNCHANGED cmds
       /\ inbox' = rest \o <<Failed(t)>>

\* The take's folder is made before the save; one that is there already is
\* an error, as any other failure of mkdir.
MakesFolder(t, made) == IF made THEN t \notin dirs /\ dirs' = dirs \cup {t} ELSE UNCHANGED dirs

\* Begin take: number, folder, save, capture.
BeginTake(over, r, wait, saved, rest) ==
  LET t == NextTakeNumber IN
  \E folder \in BOOLEAN :
    /\ CanBegin
    /\ MakesFolder(t, folder)
    /\ Write(Begun(project, t), saved)
    /\ record' = Starting(t, over, r, wait)
    /\ Capture(t, folder, saved, rest)

\* A command whose change p can't be saved and could be put back: nothing
\* changed (but for the folder a start made).
CommandDropped(r, p) ==
  /\ p # project /\ fails < MaxFails
  /\ fails' = fails + 1
  /\ Deliver(pending \cup Opt(r), {Letter(Opt(r), "dropped", NoTake)}, TRUE)
  /\ UNCHANGED <<cmds, inbox, project, disk, record, jobs, timerVars>>

DropBegin(r) ==
  /\ CanBegin
  /\ dirs' = dirs \cup {NextTakeNumber}
  /\ CommandDropped(r, Begun(project, NextTakeNumber))

StartCountdown(secs, over, r, wait) ==
  /\ record' = Countdown(secs, nextTimer, over, r, wait)
  /\ nextTimer' = nextTimer + 1
  /\ armed' = armed \cup {nextTimer}
  /\ UNCHANGED <<cmds, inbox, project, disk, dirs, fails>>

\* A start that nothing refuses: a countdown, or the take begins at once.
Start(secs, over, r, wait) ==
  \/ /\ secs > 0
     /\ StartCountdown(secs, over, r, wait)
     /\ pending' = pending \cup {r}
     /\ UNCHANGED <<answers, jobs>>
  \/ /\ secs = 0
     /\ \/ /\ \E saved \in BOOLEAN : BeginTake(over, r, wait, saved, inbox)
           /\ pending' = pending \cup {r}
           /\ UNCHANGED <<answers, jobs, timerVars>>
        \/ DropBegin(r)

\* What no request and no event of the record machine touches.
Elsewhere == UNCHANGED <<run, lost, thread, wedged, purges, exporting, edits, crashes>>

\* qrec record start, appending or over the clips with these ids.
RecordStart(r, ids, secs, wait) ==
  /\ IsIdle /\ WhyNotStart = ""
  /\ ids # {} => IsContiguous(project.clips, ids)
  /\ Asks(r)
  /\ Start(secs, {c \in ToSet(project.clips) : c.id \in ids}, r, wait)
  /\ Elsewhere /\ UNCHANGED <<stuck, recovering, probes>>

RefuseStart(r, ids, secs) ==
  \/ /\ ~IsIdle \/ (WhyNotStart = "" /\ ids # {} /\ ~IsContiguous(project.clips, ids))
     /\ Refuse(r, "refused")
  \/ /\ IsIdle /\ WhyNotStart # ""
     /\ Refuse(r, WhyNotStart)
  \/ /\ IsIdle /\ WhyNotStart = "" /\ ids = {} /\ secs = 0 /\ ~CanBegin
     /\ Refuse(r, WhyNotBegin)

----------------------------------------------------------------------------
(* Stopping.                                                               *)

\* Mutant of Disarmed: the timer of a cancelled countdown goes on.
NotDisarmed(cancelTimer) == armed

Disarmed(cancelTimer) == IF cancelTimer THEN armed \ {record.timer} ELSE armed

\* A countdown ends: its start request hears word.
EndCountdown(waiting, mail, word, cancelTimer) ==
  /\ \E saved \in BOOLEAN :
       /\ Persist(ReadyCuts(project), saved)
       /\ Deliver(waiting, mail \cup ReadyLetters
                    \cup {Letter(Opt(record.startReq), word, NoTake)}, saved)
  /\ record' = Idle
  /\ KeepUnready
  /\ armed' = Disarmed(cancelTimer)
  /\ UNCHANGED <<nextTimer, cmds, dirs>>

\* stop_capture: the phase and what the engine and the start request hear.
StopsCapture(r, cancel, rest) ==
  /\ record' = Finalizing(record.take, record.over,
                 IF record.name = "recording" THEN record.waiters
                 ELSE IF record.wait THEN Opt(record.startReq) ELSE {},
                 Opt(r), cancel)
  /\ Sends(StopCapture(record.take))
  /\ inbox' = rest \o AnsweredForTheDead(StopCapture(record.take))

StopLetters ==
  IF record.name = "starting" /\ ~record.wait
  THEN {Letter(Opt(record.startReq), "started", record.take)} ELSE {}

\* Stop, cancel and toggle end a countdown; the caller hears Ok.
CancelCountdown(r) ==
  /\ record.name = "countdown"
  /\ Asks(r)
  /\ \/ /\ EndCountdown(pending \cup Opt(r),
                        {Letter(Opt(r), "countdownCancelled", NoTake)}, "countdownEnded", TRUE)
        /\ UNCHANGED inbox
     \/ /\ CommandDropped(r, ReadyCuts(project))
        /\ UNCHANGED dirs
  /\ Elsewhere /\ UNCHANGED <<stuck, recovering, probes>>

\* Stop or cancel a take that starts or records.
StopRecording(r, cancel) ==
  /\ Capturing
  /\ Asks(r)
  /\ StopsCapture(r, cancel, inbox)
  /\ Deliver(pending \cup Opt(r), StopLetters, TRUE)
  /\ Elsewhere
  /\ UNCHANGED <<project, disk, dirs, jobs, stuck, recovering, timerVars, probes, fails>>

\* Mutant of JoinStop: the last to stop is the only one who waits.
JoinStopAlone(r) ==
  /\ record.name = "finalizing"
  /\ Asks(r)
  /\ record' = [record EXCEPT !.stopReqs = Opt(r)]
  /\ pending' = pending \cup Opt(r)
  /\ UNCHANGED <<engineVars, inbox, project, disk, dirs, jobs, purges, exporting, stuck,
                 recovering, timerVars, probes, answers, bounds>>

\* A stop while finalizing waits with the others.
JoinStop(r) ==
  /\ record.name = "finalizing"
  /\ Asks(r)
  /\ record' = [record EXCEPT !.stopReqs = @ \cup Opt(r)]
  /\ pending' = pending \cup Opt(r)
  /\ UNCHANGED <<engineVars, inbox, project, disk, dirs, jobs, purges, exporting, stuck,
                 recovering, timerVars, probes, answers, bounds>>

RecordStop(r) ==
  \/ IsIdle /\ r # NoReq /\ Refuse(r, "refused")
  \/ CancelCountdown(r)
  \/ StopRecording(r, FALSE)
  \/ JoinStop(r)

RecordCancel(r) ==
  \/ (IsIdle \/ record.name = "finalizing") /\ Refuse(r, "refused")
  \/ CancelCountdown(r)
  \/ StopRecording(r, TRUE)

RecordToggle(r, secs, wait) ==
  \/ RecordStart(r, {}, secs, wait)
  \/ IsIdle /\ RefuseStart(r, {}, secs)
  \/ CancelCountdown(r)
  \/ StopRecording(r, FALSE)
  \/ record.name = "finalizing" /\ Refuse(r, "refused")

\* d: at once while idle, remembered while finalizing.
TakeDiscardLast(r) ==
  \/ /\ IsIdle /\ CanDiscard(project)
     /\ Asks(r)
     /\ \/ /\ \E saved \in BOOLEAN :
                /\ Write(Discarded(project), saved)
                /\ Deliver(pending \cup {r}, {Letter({r}, "discarded", NoTake)}, saved)
           /\ UNCHANGED <<cmds, inbox, record, jobs, timerVars>>
        \/ CommandDropped(r, Discarded(project))
     /\ Elsewhere /\ UNCHANGED <<dirs, stuck, recovering, probes>>
  \/ /\ record.name = "finalizing" /\ ~record.discard
     /\ Asks(r)
     /\ record' = [record EXCEPT !.discard = TRUE, !.discardReq = r]
     /\ pending' = pending \cup {r}
     /\ UNCHANGED <<engineVars, inbox, project, disk, dirs, jobs, purges, exporting, stuck,
                    recovering, timerVars, probes, answers, bounds>>
  \/ /\ \/ IsIdle /\ ~CanDiscard(project)
        \/ record.name \in {"countdown", "starting", "recording"}
        \/ record.name = "finalizing" /\ record.discard
     /\ Refuse(r, "refused")

----------------------------------------------------------------------------
(* Events.  The session takes the oldest one; one that doesn't fit the     *)
(* phase any more is ignored.                                              *)

Event ==
  EngineEvent
    \cup [type : {"timer"}, timer : Nat]
    \cup [type : {"probed"}, take : Take, purpose : {"finalize", "recover"}]

Is(type) == inbox # <<>> /\ Head(inbox).type = type
Rest     == Tail(inbox)

\* The take in flight ends broken: whoever asked to record hears word, whoever
\* asked to stop hears of a broken take.
EndBroken(p, word) ==
  LET t == record.take
      mail == {Letter(Opt(record.startReq), word, t),
               Letter(record.waiters, IF record.name = "recording" THEN word ELSE "broken", t),
               Letter(record.stopReqs, "broken", t),
               Letter(Opt(record.discardReq), "notPlaced", t)}
  IN  /\ \E saved \in BOOLEAN :
           /\ Write(ReadyCuts(MarkBroken(p, t)), saved)
           /\ Deliver(pending, mail \cup ReadyLetters, saved)
      /\ record' = Idle
      /\ KeepUnready
      /\ inbox' = Rest
      /\ UNCHANGED <<cmds, dirs, timerVars>>

\* A countdown second is over; the last one begins the take.
TimerFired ==
  /\ Is("timer")
  /\ record.name = "countdown" /\ record.timer = Head(inbox).timer
  /\ \/ /\ record.remaining > 1
        /\ record' = [record EXCEPT !.remaining = @ - 1, !.timer = nextTimer]
        /\ nextTimer' = nextTimer + 1
        /\ armed' = armed \cup {nextTimer}
        /\ inbox' = Rest
        /\ UNCHANGED <<cmds, project, disk, dirs, jobs, pending, answers, fails>>
     \/ /\ record.remaining <= 1
        /\ \E saved \in BOOLEAN :
             BeginTake(record.over, record.startReq, record.wait, saved, Rest)
        /\ UNCHANGED <<jobs, timerVars, pending, answers>>
     \/ /\ record.remaining <= 1 /\ ~CanBegin
        /\ EndCountdown(pending, {}, WhyNotBegin, FALSE)
        /\ inbox' = Rest
  /\ UNCHANGED <<stuck, recovering, probes>>

CaptureStarted ==
  /\ Is("started")
  /\ record.name = "starting" /\ record.take = Head(inbox).take
  /\ \E saved \in BOOLEAN :
       /\ Write(project, saved)     \* the streams' start offsets
       /\ Deliver(pending, StopLetters, saved)
  /\ record' = RecordingTake(record.take, record.over,
                             IF record.wait THEN Opt(record.startReq) ELSE {})
  /\ inbox' = Rest
  /\ UNCHANGED <<cmds, dirs, jobs, stuck, recovering, timerVars, probes>>

CaptureFailed ==
  /\ Is("failed")
  /\ record.take = Head(inbox).take
  /\ EndBroken(project, "captureFailed")
  /\ UNCHANGED <<stuck, recovering, probes>>

\* A source is lost; losing the last one while capturing acts as a stop.
StreamLost ==
  /\ Is("lost")
  /\ LET t == Head(inbox).take
         s == Head(inbox).stream
         p == SetMissing(project, t, s)
     IN  /\ record.take = t /\ s \notin project.missing[t]
         /\ \E saved \in BOOLEAN :
              /\ Write(p, saved)
              /\ IF NothingLeft(p, t) /\ Capturing
                 THEN StopsCapture(NoReq, FALSE, Rest) /\ Deliver(pending, StopLetters, saved)
                 ELSE inbox' = Rest /\ UNCHANGED <<record, cmds, pending, answers>>
  /\ UNCHANGED <<dirs, jobs, stuck, recovering, timerVars, probes>>

\* Mutant of CaptureStopped: the files are never looked at.
CaptureStoppedUnprobed ==
  /\ Is("stopped")
  /\ record.name = "finalizing" /\ record.take = Head(inbox).take
  /\ \E saved \in BOOLEAN : Write(project, saved)
  /\ inbox' = Rest
  /\ UNCHANGED <<cmds, record, dirs, jobs, stuck, recovering, timerVars, probes, pending, answers>>

CaptureStopped ==
  /\ Is("stopped")
  /\ record.name = "finalizing" /\ record.take = Head(inbox).take
  /\ \E saved \in BOOLEAN : Write(project, saved)
  /\ probes' = probes \cup {[take |-> record.take, purpose |-> "finalize"]}
  /\ inbox' = Rest
  /\ UNCHANGED <<cmds, record, dirs, jobs, stuck, recovering, timerVars, pending, answers>>

CaptureTimedOut ==
  /\ Is("timedOut")
  /\ record.name = "finalizing" /\ record.take = Head(inbox).take
  /\ EndBroken(project, "captureFailed")
  /\ UNCHANGED <<stuck, recovering, probes>>

\* The engine is stuck for good: what is in flight ends, later starts are
\* refused.  The engine is sent nothing.
EngineWedged ==
  /\ Is("wedged")
  /\ stuck' = TRUE
  /\ \/ /\ IsIdle
        /\ inbox' = Rest
        /\ UNCHANGED <<cmds, project, disk, dirs, record, jobs, timerVars, pending, answers, fails>>
     \/ /\ record.name = "countdown"
        /\ EndCountdown(pending, {}, "engineWedged", TRUE)
        /\ inbox' = Rest
     \/ /\ InCapture
        /\ EndBroken(project, "engineWedged")
  /\ UNCHANGED <<recovering, probes>>

\* A probe finds no usable stream, or a length if a stream that was not lost
\* is readable (or the prober itself fails).
MayBeUsable(t) == ~NothingLeft(project, t)

\* The placed take's clip gets its own autocut job.
AutoRunAfter(p, t) ==
  IF AutoRun /\ Cardinality(jobs) < MaxJobs /\ ClipsOf(p, t) # {}
  THEN \E c \in ClipsOf(p, t) : jobs' = (jobs \ ReadyJobs) \cup {NewJob(c, NoReq)}
  ELSE KeepUnready

\* The take's facts, its clip unless it is too short or cancelled, then the
\* discard asked for meanwhile, then the ready autocuts: one step.
FinalizeTake(t, frames) ==
  LET verdict == IF frames < MinTakeFrames THEN "tooShort"
                 ELSE IF record.cancelled THEN "cancelled" ELSE "placed"
      facts == CASE verdict = "tooShort" -> [project EXCEPT !.status[t] = "tooShort", !.dur[t] = frames]
                 [] verdict = "cancelled" -> [project EXCEPT !.status[t] = "ok", !.dur[t] = frames]
                 [] OTHER -> Place(project, t, frames, record.over)
      drops == record.discard /\ verdict = "placed" /\ CanDiscard(facts)
      p == ReadyCuts(IF drops THEN Discarded(facts) ELSE facts)
      told == IF verdict # "placed" THEN "notPlaced"
              ELSE IF drops THEN "discarded" ELSE "notDiscarded"
  IN  /\ \E saved \in BOOLEAN :
           /\ Write(p, saved)
           /\ Deliver(pending, ReadyLetters \cup
                {Letter(record.stopReqs \cup record.waiters, verdict, t),
                 Letter(Opt(record.discardReq), told, t)}, saved)
      /\ IF verdict = "placed" THEN AutoRunAfter(p, t) ELSE KeepUnready
      /\ record' = Idle
      /\ inbox' = Rest
      /\ UNCHANGED <<cmds, dirs, timerVars>>

\* The prober failed: the take stays recording for the next host's recovery.
EndUnprobed(t) ==
  /\ \E saved \in BOOLEAN :
       /\ Persist(ReadyCuts(project), saved)
       /\ Deliver(pending, ReadyLetters \cup
            {Letter(record.stopReqs \cup record.waiters, "unprobed", t),
             Letter(Opt(record.discardReq), "notPlaced", t)}, saved)
  /\ record' = Idle
  /\ KeepUnready
  /\ inbox' = Rest
  /\ UNCHANGED <<cmds, dirs, timerVars>>

\* Mutant of FinalizeProbed: a result is taken for whatever take it is of.
FinalizeProbedLate ==
  /\ Is("probed") /\ Head(inbox).purpose = "finalize"
  /\ LET t == Head(inbox).take IN
     \/ EndUnprobed(t)
     \/ \E frames \in Lengths : MayBeUsable(t) /\ FinalizeTake(t, frames)
  /\ UNCHANGED <<stuck, recovering, probes>>

FinalizeProbed ==
  /\ Is("probed") /\ Head(inbox).purpose = "finalize"
  /\ record.name = "finalizing" /\ record.take = Head(inbox).take
  /\ \/ EndUnprobed(record.take)
     \/ EndBroken(project, "captureFailed")
     \/ \E frames \in Lengths : MayBeUsable(record.take) /\ FinalizeTake(record.take, frames)
  /\ UNCHANGED <<stuck, recovering, probes>>

\* Recovery of a take an earlier host left recording: into the bin, never
\* onto the timeline.
RecoverProbed ==
  /\ Is("probed") /\ Head(inbox).purpose = "recover"
  /\ LET t == Head(inbox).take IN
     /\ recovering' = recovering \ {t}
     /\ \/ UNCHANGED <<project, disk, fails>>   \* stale, or the prober failed
        \/ /\ project.status[t] = "recording" /\ record.take # t
           /\ \/ \E saved \in BOOLEAN : Write(MarkBroken(project, t), saved)
              \/ \E frames \in Lengths, saved \in BOOLEAN :
                   /\ MayBeUsable(t)
                   /\ Write([project EXCEPT !.dur[t] = frames,
                               !.status[t] = IF frames < MinTakeFrames THEN "tooShort" ELSE "ok"],
                            saved)
  /\ inbox' = Rest
  /\ UNCHANGED <<cmds, dirs, record, jobs, stuck, timerVars, probes, pending, answers>>

\* An event of a phase or a take that is over.
Stale(e) ==
  CASE e.type = "timer"    -> record.name # "countdown" \/ record.timer # e.timer
    [] e.type = "started"  -> record.name # "starting" \/ record.take # e.take
    [] e.type = "failed"   -> record.take # e.take
    [] e.type = "lost"     -> record.take # e.take \/ e.stream \in project.missing[e.take]
    [] e.type \in {"stopped", "timedOut"} -> record.name # "finalizing" \/ record.take # e.take
    [] e.type = "probed"   -> e.purpose = "finalize"
                                /\ (record.name # "finalizing" \/ record.take # e.take)
    [] OTHER -> FALSE

Ignore ==
  /\ inbox # <<>> /\ Stale(Head(inbox))
  /\ inbox' = Rest
  /\ UNCHANGED <<cmds, project, disk, dirs, record, jobs, stuck, recovering, timerVars,
                 probes, pending, answers, fails>>

HandleEvent ==
  /\ \/ TimerFired \/ CaptureStarted \/ CaptureFailed \/ StreamLost \/ CaptureStopped
     \/ CaptureTimedOut \/ EngineWedged \/ FinalizeProbed \/ RecoverProbed \/ Ignore
  /\ UNCHANGED <<run, lost, thread, wedged, purges, exporting, asked, edits, crashes>>

----------------------------------------------------------------------------
(* Timers and the prober.                                                  *)

TimerElapses(timer) ==
  /\ timer \in armed
  /\ armed' = armed \ {timer}
  /\ inbox' = Append(inbox, [type |-> "timer", timer |-> timer])
  /\ UNCHANGED <<engineVars, project, disk, dirs, hostVars, nextTimer, probes, reqVars, bounds>>

ProbeReturns(probe) ==
  /\ probe \in probes
  /\ probes' = probes \ {probe}
  /\ inbox' = Append(inbox, [type |-> "probed", take |-> probe.take, purpose |-> probe.purpose])
  /\ UNCHANGED <<engineVars, project, disk, dirs, hostVars, timerVars, reqVars, bounds>>

----------------------------------------------------------------------------
(* The commands recording has to live with.                                *)

\* qrec autocut on one clip: a job that analyses its audio.
Autocut(r, clip) ==
  /\ IsIdle /\ Cardinality(jobs) < MaxJobs
  /\ Asks(r)
  /\ jobs' = jobs \cup {NewJob(clip, r)}
  /\ pending' = pending \cup Opt(r)
  /\ UNCHANGED <<engineVars, inbox, project, disk, dirs, record, purges, exporting, stuck,
                 recovering, timerVars, probes, answers, bounds>>

\* A job's silences are known: applied now (after the jobs still ready), or
\* kept until the recording is over.
SilenceDetected(job, cuts) ==
  /\ job \in jobs /\ ~job.ready
  /\ \/ /\ ~IsIdle
        /\ jobs' = (jobs \ {job}) \cup {Analyzed(job, cuts)}
        /\ UNCHANGED <<project, disk, pending, answers, fails>>
     \/ /\ IsIdle
        /\ \E saved \in BOOLEAN :
             /\ Persist([project EXCEPT
                  !.clips = CutClips(ReadyCuts(project).clips, {Analyzed(job, cuts)})], saved)
             /\ Deliver(pending, ReadyLetters \cup
                  {Letter(Opt(job.req), "autocutDone", NoTake)}, saved)
        /\ jobs' = jobs \ (ReadyJobs \cup {job})
  /\ UNCHANGED <<engineVars, inbox, dirs, record, purges, exporting, stuck, recovering,
                 timerVars, probes, asked, edits, crashes>>

\* qrec take purge: the take leaves the project, then its folder is deleted.
CanPurge(t) ==
  /\ project.status[t] \notin {"none", "recording"}
  /\ ClipsOf(project, t) = {}
  /\ \A j \in jobs : j.clip.take # t

TakePurge(r, t) ==
  /\ IsIdle /\ CanPurge(t)
  /\ Asks(r)
  /\ \/ /\ Write(RemoveTake(project, t), TRUE)
        /\ purges' = purges \cup {[take |-> t, req |-> r]}
        /\ pending' = pending \cup {r}
        /\ UNCHANGED <<cmds, inbox, record, jobs, timerVars, answers>>
     \/ /\ Write(RemoveTake(project, t), FALSE)
        /\ Deliver(pending \cup {r}, {Letter({r}, "purgeFailed", NoTake)}, TRUE)
        /\ UNCHANGED <<cmds, inbox, record, jobs, timerVars, purges>>
     \/ /\ CommandDropped(r, RemoveTake(project, t))
        /\ UNCHANGED purges
  /\ UNCHANGED <<run, lost, thread, wedged, dirs, exporting, stuck, recovering, probes,
                 edits, crashes>>

PurgeReturns(p) ==
  /\ p \in purges
  /\ purges' = purges \ {p}
  /\ \/ /\ dirs' = dirs \ {p.take}
        /\ Deliver(pending, {Letter(Opt(p.req), "purged", p.take)}, TRUE)
     \/ /\ Deliver(pending, {Letter(Opt(p.req), "purgeFailed", NoTake)}, TRUE)
        /\ UNCHANGED dirs
  /\ UNCHANGED <<engineVars, inbox, project, disk, record, jobs, exporting, stuck, recovering,
                 timerVars, probes, asked, bounds>>

\* qrec export: no recording starts while one runs.
Export ==
  /\ IsIdle /\ project.clips # <<>>
  /\ exporting' = TRUE
  /\ UNCHANGED <<engineVars, inbox, project, disk, dirs, record, jobs, purges, stuck,
                 recovering, timerVars, probes, reqVars, bounds>>

ExportReturns ==
  /\ exporting
  /\ exporting' = FALSE
  /\ UNCHANGED <<engineVars, inbox, project, disk, dirs, record, jobs, purges, stuck,
                 recovering, timerVars, probes, reqVars, bounds>>

----------------------------------------------------------------------------
(* Somebody edits qrec.json by hand, at any time: the file's timeline and  *)
(* scene are merged, the facts of known takes stay as in memory.           *)

HandEdits(f) ==
  {[f EXCEPT !.clips = RemoveAt(@, i)] : i \in DOMAIN f.clips}
    \cup {[f EXCEPT !.clips[i].out = @ - 1] : i \in {k \in DOMAIN f.clips : f.clips[k].out > 1}}
    \cup {[f EXCEPT !.clips = Append(Tail(@), Head(@))] : k \in {1} \cap DOMAIN f.clips}
    \cup {[f EXCEPT !.clips = Append(@, c)] :
            c \in {d \in UNION {ToSet(f.replaced[t]) : t \in Take} :
                     /\ d.id \notin ClipIds(f.clips)
                     /\ f.status[d.take] = "ok" /\ d.out <= f.dur[d.take]}}
    \cup {[f EXCEPT !.scene = ~@]}

\* Mutant of Merged: the file's takes replace the host's.
MergedFromFile(p, f) == f

\* merge_external.
Merged(p, f) ==
  LET Known(t) == p.status[t] # "none"
      Mine(x, y) == [t \in Take |-> IF Known(t) THEN x[t] ELSE y[t]]
  IN  [ status |-> Mine(p.status, f.status), dur |-> Mine(p.dur, f.dur),
        placed |-> Mine(p.placed, f.placed), replaced |-> Mine(p.replaced, f.replaced),
        missing |-> Mine(p.missing, f.missing),
        next |-> Largest({p.next, f.next}), clips |-> f.clips, scene |-> f.scene ]

ExternalEdit ==
  /\ edits < MaxEdits
  /\ edits' = edits + 1
  /\ \E f \in HandEdits(disk) :
       /\ TimelineSound(Merged(project, f))
       /\ project' = Merged(project, f)
       /\ \/ disk' = Merged(project, f) /\ UNCHANGED fails
          \/ disk' = f /\ fails < MaxFails /\ fails' = fails + 1
  /\ UNCHANGED <<engineVars, inbox, dirs, hostVars, timerVars, probes, reqVars, crashes>>

----------------------------------------------------------------------------
(* The host dies (kill -9, power) and the project is opened again.         *)

StillRecording(p) == {t \in Take : p.status[t] = "recording"}

\* A fresh process: nothing in flight, one recovery probe per take that an
\* earlier host left recording.
Opens(p) ==
  /\ project' = p
  /\ recovering' = StillRecording(p)
  /\ probes' = {[take |-> t, purpose |-> "recover"] : t \in StillRecording(p)}
  /\ record' = Idle /\ jobs' = {} /\ purges' = {} /\ exporting' = FALSE /\ stuck' = FALSE
  /\ nextTimer' = 1 /\ armed' = {}
  /\ inbox' = <<>> /\ cmds' = <<>> /\ run' = NoRun /\ lost' = {}
  /\ thread' = "up" /\ wedged' = FALSE

HostDies ==
  /\ crashes < MaxCrashes
  /\ crashes' = crashes + 1
  /\ Opens(disk)
  /\ pending' = {}
  /\ UNCHANGED <<disk, dirs, asked, answers, edits, fails>>

----------------------------------------------------------------------------
Init ==
  /\ project \in InitProjects
  /\ disk = project
  /\ dirs = Pool(project)
  /\ recovering = StillRecording(project)
  /\ probes = {[take |-> t, purpose |-> "recover"] : t \in StillRecording(project)}
  /\ record = Idle /\ jobs = {} /\ purges = {} /\ exporting = FALSE /\ stuck = FALSE
  /\ nextTimer = 1 /\ armed = {}
  /\ inbox = <<>> /\ EngineInit
  /\ asked = {} /\ pending = {} /\ answers = [r \in Req |-> NoAnswer]
  /\ edits = 0 /\ fails = 0 /\ crashes = 0

OverChoices == SUBSET ClipIds(project.clips)

Request ==
  \/ \E r \in Req, ids \in OverChoices, secs \in Countdowns, wait \in BOOLEAN :
       RecordStart(r, ids, secs, wait) \/ RefuseStart(r, ids, secs)
  \/ \E r \in Req, secs \in Countdowns, wait \in BOOLEAN : RecordToggle(r, secs, wait)
  \/ \E r \in Req : RecordCancel(r) \/ TakeDiscardLast(r)
  \/ \E r \in Req \cup {NoReq} : RecordStop(r)
  \/ \E r \in Req, c \in ToSet(project.clips) : Autocut(r, c)
  \/ \E r \in Req, t \in Take : TakePurge(r, t)
  \/ Export

Engine ==
  /\ EngineStep
  /\ UNCHANGED <<project, disk, dirs, hostVars, timerVars, probes, reqVars, bounds>>

Outside ==
  \/ \E timer \in armed : TimerElapses(timer)
  \/ \E probe \in probes : ProbeReturns(probe)
  \/ \E job \in jobs, cuts \in BOOLEAN : SilenceDetected(job, cuts)
  \/ \E p \in purges : PurgeReturns(p)
  \/ ExportReturns

Next == Request \/ HandleEvent \/ Engine \/ Outside \/ ExternalEdit \/ HostDies

Spec == Init /\ [][Next]_vars

\* The session drains its inbox, the engine keeps its deadlines, timers fire
\* and ffprobe ends (or is killed at its timeout).
Fairness ==
  /\ WF_vars(HandleEvent)
  /\ WF_vars(EngineProgress
             /\ UNCHANGED <<project, disk, dirs, hostVars, timerVars, probes, reqVars, bounds>>)
  /\ WF_vars(\E timer \in armed : TimerElapses(timer))
  /\ WF_vars(\E probe \in probes : ProbeReturns(probe))

FairSpec == Spec /\ Fairness
=============================================================================
