--------------------------- MODULE CaptureEngine ---------------------------
(***************************************************************************)
(* The capture engine thread (qrec-shell/src/capture/engine.rs) as the     *)
(* session sees it: commands go in through cmds, events come back through  *)
(* the session's one inbox, both FIFO.  The pipelines are abstracted to    *)
(* the phase of the take being captured and the set of streams lost.       *)
(***************************************************************************)
EXTENDS Takes, Sequences

CONSTANT Stream   \* the layers and tracks a take records

VARIABLES
  cmds,        \* commands the engine thread has not handled yet
  run,         \* the take the engine captures, and how far it is
  lost,        \* streams of that take whose branch is gone
  thread,      \* "up", "dropped" (panicked, receiver gone) or "dead" (reported)
  wedged,      \* a teardown missed its deadline: every start fails
  inbox        \* events for the session, oldest first

engineVars == <<cmds, run, lost, thread, wedged>>

NoRun  == [take |-> NoTake, phase |-> "none"]
RunPhase == {"none", "opening", "starting", "recording", "stopping"}

Command == [op : {"start", "stop"}, take : Take]

EngineEvent ==
  [type : {"started", "failed", "stopped", "timedOut"}, take : Take]
    \cup [type : {"lost"}, take : Take, stream : Stream]
    \cup [type : {"wedged"}]

Started(t)  == [type |-> "started",  take |-> t]
Failed(t)   == [type |-> "failed",   take |-> t]
Stopped(t)  == [type |-> "stopped",  take |-> t]
TimedOut(t) == [type |-> "timedOut", take |-> t]
Lost(t, s)  == [type |-> "lost", take |-> t, stream |-> s]
Wedged      == [type |-> "wedged"]

EngineTypeOK ==
  /\ cmds \in Seq(Command)
  /\ run \in [take : Take \cup {NoTake}, phase : RunPhase]
  /\ lost \in SUBSET Stream
  /\ thread \in {"up", "dropped", "dead"}
  /\ wedged \in BOOLEAN

\* A fresh engine, as every host start spawns it.
EngineInit ==
  /\ cmds = <<>>
  /\ run = NoRun
  /\ lost = {}
  /\ thread = "up"
  /\ wedged = FALSE

----------------------------------------------------------------------------
(* The session's side: what a start or a stop sends, and what is answered  *)
(* at once because the engine thread is gone.                              *)

Sends(cmd) == cmds' = IF thread = "up" THEN Append(cmds, cmd) ELSE cmds

StartCapture(t) == [op |-> "start", take |-> t]
StopCapture(t)  == [op |-> "stop",  take |-> t]

AnsweredForTheDead(cmd) ==
  IF thread = "up" THEN <<>>
  ELSE IF cmd.op = "start" THEN <<Failed(cmd.take)>> ELSE <<TimedOut(cmd.take)>>

----------------------------------------------------------------------------
(* The engine thread.  Emit appends to the inbox.                          *)

Emit(events) == inbox' = inbox \o events

TakeEnds == run' = NoRun /\ lost' = {}

Next1(op) == thread = "up" /\ cmds # <<>> /\ Head(cmds).op = op /\ cmds' = Tail(cmds)

\* A start while stuck or while another take is captured fails that take; a
\* second start of the same take is ignored; a missing folder, a file that
\* is already there or GStreamer itself may refuse it too.
HandleStart ==
  /\ Next1("start")
  /\ LET t == Head(cmds).take IN
     \/ /\ wedged \/ run.take \notin {NoTake, t}
        /\ Emit(<<Failed(t)>>)
        /\ UNCHANGED run
     \/ /\ ~wedged /\ run.take = t
        /\ UNCHANGED <<run, inbox>>
     \/ /\ ~wedged /\ run = NoRun
        /\ \/ run' = [take |-> t, phase |-> "opening"] /\ UNCHANGED inbox
           \/ Emit(<<Failed(t)>>) /\ UNCHANGED run
  /\ UNCHANGED <<lost, thread, wedged>>

\* The sources are there (the portal answered, the live pipeline has them):
\* the record bins are attached.
Attach ==
  /\ thread = "up" /\ run.phase = "opening"
  /\ run' = [run EXCEPT !.phase = "starting"]
  /\ UNCHANGED <<cmds, lost, thread, wedged, inbox>>

\* The portal said no, a source is missing, a branch failed or sent nothing
\* within the health window.
FailTake ==
  /\ thread = "up" /\ run.phase \in {"opening", "starting"}
  /\ Emit(<<Failed(run.take)>>)
  /\ TakeEnds
  /\ UNCHANGED <<cmds, thread, wedged>>

\* Mutant of WedgeOpening: the take that waits for the pipeline stays.
WedgeOpeningKeepsTake ==
  /\ thread = "up" /\ run.phase = "opening" /\ ~wedged
  /\ Emit(<<Wedged, Failed(run.take)>>)
  /\ wedged' = TRUE
  /\ UNCHANGED <<cmds, run, lost, thread>>

\* Rebuilding the live pipeline for the take got stuck: EngineWedged first.
WedgeOpening ==
  /\ thread = "up" /\ run.phase = "opening" /\ ~wedged
  /\ Emit(<<Wedged, Failed(run.take)>>)
  /\ TakeEnds
  /\ wedged' = TRUE
  /\ UNCHANGED <<cmds, thread>>

\* Every stream wrote its first buffer and the health window is over.
Healthy ==
  /\ thread = "up" /\ run.phase = "starting"
  /\ run' = [run EXCEPT !.phase = "recording"]
  /\ Emit(<<Started(run.take)>>)
  /\ UNCHANGED <<cmds, lost, thread, wedged>>

\* A branch stops working: reported while recording, silent while stopping.
LoseStream(s) ==
  /\ thread = "up" /\ run.phase \in {"recording", "stopping"} /\ s \notin lost
  /\ lost' = lost \cup {s}
  /\ IF run.phase = "recording" THEN Emit(<<Lost(run.take, s)>>) ELSE UNCHANGED inbox
  /\ UNCHANGED <<cmds, run, thread, wedged>>

\* A stop is always answered: at once for a take that is not captured (any
\* more) or has not opened yet, after the files closed otherwise.
HandleStop ==
  /\ Next1("stop")
  /\ LET t == Head(cmds).take IN
     \/ /\ run.take # t
        /\ Emit(<<Stopped(t)>>)
        /\ UNCHANGED <<run, lost>>
     \/ /\ run = [take |-> t, phase |-> "opening"]
        /\ Emit(<<Stopped(t)>>)
        /\ TakeEnds
     \/ /\ run = [take |-> t, phase |-> "stopping"]
        /\ UNCHANGED <<run, lost, inbox>>
     \/ /\ run.take = t /\ run.phase \in {"starting", "recording"}
        /\ run' = [run EXCEPT !.phase = "stopping"]
        /\ UNCHANGED <<lost, inbox>>
  /\ UNCHANGED <<thread, wedged>>

\* Every bin wrote EOS or was lost, or the EOS timeout is over.
FinishTake ==
  /\ thread = "up" /\ run.phase = "stopping"
  /\ \/ Emit(<<Stopped(run.take)>>)
     \/ lost # Stream /\ Emit(<<TimedOut(run.take)>>)
  /\ TakeEnds
  /\ UNCHANGED <<cmds, thread, wedged>>

\* A teardown with no take running (after a take, or of the live preview)
\* misses its deadline.  Reported once.
WedgeIdle ==
  /\ thread = "up" /\ run = NoRun /\ ~wedged
  /\ wedged' = TRUE
  /\ Emit(<<Wedged>>)
  /\ UNCHANGED <<cmds, run, lost, thread>>

\* A panic drops the engine (and the commands it had not read) and then
\* reports it.
Panic ==
  /\ thread = "up"
  /\ thread' = "dropped"
  /\ cmds' = <<>>
  /\ TakeEnds
  /\ UNCHANGED <<wedged, inbox>>

ReportPanic ==
  /\ thread = "dropped"
  /\ thread' = "dead"
  /\ Emit(<<Wedged>>)
  /\ UNCHANGED <<cmds, run, lost, wedged>>

\* What the engine does by itself, within its deadlines.
EngineProgress ==
  HandleStart \/ HandleStop \/ Attach \/ FailTake \/ Healthy \/ FinishTake \/ ReportPanic

EngineStep ==
  \/ EngineProgress
  \/ WedgeOpening
  \/ WedgeIdle
  \/ Panic
  \/ \E s \in Stream : LoseStream(s)
=============================================================================
