------------------------------ MODULE Requests ------------------------------
(***************************************************************************)
(* What the session's dispatch does with one request: refuse it, let it    *)
(* stop what waits, park it behind the recovery or let the core run it.    *)
(* A session is a record, a request is the client that sent it.            *)
(***************************************************************************)
EXTENDS Subsequence, SequencesExt

CONSTANT Clients

Words == {"none", "ok", "refused", "aborted", "stopping", "exiting"}

\* A session as it opens: `recovering` while a take of an earlier host is probed.
\* `ran` counts how often the core ran a client's request, in this host and before.
Opened(recovering, reply, ran) ==
    [recovering |-> recovering, waitOver |-> FALSE, parked |-> <<>>,
     interrupted |-> FALSE, rec |-> "idle", jobs |-> {}, stoppers |-> {},
     reply |-> reply, ran |-> ran]

MayStartRecording(what) == what \in {"start", "toggle"}
MayStartJob(what) == what = "export"
UiOnly(what) == what = "select"

WindsDown(what, s) ==
    \/ what \in {"stop", "exportCancel"}
    \/ what = "toggle" /\ s.rec # "idle"

Aborts(what, waiting) ==
    \/ what \in {"stop", "toggle"} /\ MayStartRecording(waiting)
    \/ what = "exportCancel" /\ waiting = "export"

\* Mutant of Holding: requests wait for the probes however long.
HoldingOn(s) == s.recovering
Holding(s) == s.recovering /\ ~s.waitOver

Answer(s, who, word) ==
    [s EXCEPT !.reply = [c \in Clients |-> IF c \in who THEN word ELSE @[c]]]

\* The requests whose answer the session still owes once it has seen them.
Owed(s) == Range(s.parked) \cup s.jobs \cup s.stoppers

\* What the core does with a request, as far as hosts and other clients can tell.
StartRecording(s, c, kind) ==
    IF s.jobs # {} \/ kind = "cli" \/ s.rec # "idle" THEN Answer(s, {c}, "refused")
    ELSE Answer([s EXCEPT !.rec = "recording"], {c}, "ok")

StopRecording(s, who) ==
    IF s.rec = "idle" THEN Answer(s, who, "refused")
    ELSE [s EXCEPT !.rec = "finalizing", !.stoppers = @ \cup who]

Export(s, c) ==
    IF s.rec # "idle" \/ s.jobs # {} THEN Answer(s, {c}, "refused")
    ELSE [s EXCEPT !.jobs = @ \cup {c}]

ExportCancel(s, c) ==
    Answer(s, {c}, IF s.jobs = {} THEN "refused" ELSE "ok")

Apply(s, c, what, kind) ==
    LET t == [s EXCEPT !.ran[c] = @ + 1]
        starts == what = "start" \/ (what = "toggle" /\ s.rec = "idle")
    IN  CASE starts -> StartRecording(t, c, kind)
          [] what \in {"stop", "toggle"} /\ ~starts -> StopRecording(t, {c})
          [] what = "export" -> Export(t, c)
          [] what = "exportCancel" -> ExportCancel(t, c)
          [] OTHER -> Answer(t, {c}, "ok")

\* Those parked that a stop, cancel or toggle aborts.
Stopped(s, what, cmd) == {p \in Range(s.parked) : Aborts(what, cmd[p])}

AbortParked(s, who, what, cmd) ==
    LET gone == Stopped(s, what, cmd)
        kept == Only(s.parked, Clients \ gone)
    IN  Answer(Answer([s EXCEPT !.parked = kept], gone, "aborted"), who, "ok")

Waits(s, what) == Holding(s) /\ ~WindsDown(what, s) /\ ~UiOnly(what)

\* Mutants of Dispatch: the interrupt isn't looked at; a stop leaves what is parked.
DispatchInterrupted(s, c, cmd, kind) ==
    IF Stopped(s, cmd[c], cmd) # {} THEN AbortParked(s, {c}, cmd[c], cmd)
    ELSE IF Waits(s, cmd[c]) THEN [s EXCEPT !.parked = Append(@, c)]
    ELSE Apply(s, c, cmd[c], kind)
DispatchBeside(s, c, cmd, kind) ==
    IF s.interrupted /\ ~WindsDown(cmd[c], s) THEN Answer(s, {c}, "stopping")
    ELSE IF Waits(s, cmd[c]) THEN [s EXCEPT !.parked = Append(@, c)]
    ELSE Apply(s, c, cmd[c], kind)

Dispatch(s, c, cmd, kind) ==
    IF s.interrupted /\ ~WindsDown(cmd[c], s) THEN Answer(s, {c}, "stopping")
    ELSE IF Stopped(s, cmd[c], cmd) # {} THEN AbortParked(s, {c}, cmd[c], cmd)
    ELSE IF Waits(s, cmd[c]) THEN [s EXCEPT !.parked = Append(@, c)]
    ELSE Apply(s, c, cmd[c], kind)

\* What was parked runs in its order once the wait is over.
ReleaseParked(s, cmd, kind) ==
    LET after[i \in 0 .. Len(s.parked)] ==
          IF i = 0 THEN [s EXCEPT !.parked = <<>>]
          ELSE Dispatch(after[i - 1], s.parked[i], cmd, kind)
    IN  IF Holding(s) THEN s ELSE after[Len(s.parked)]

\* The first interrupt: what waits never runs, a recording is stopped.
HandleInterrupt(s) ==
    LET t == Answer([s EXCEPT !.parked = <<>>, !.interrupted = TRUE], Range(s.parked), "stopping")
    IN  IF t.rec = "idle" THEN t ELSE StopRecording(t, {})

\* The requester's connection ended: nobody waits, and what it parked doesn't run.
RequesterGone(s, c) ==
    [s EXCEPT !.parked = Only(@, Clients \ {c}), !.stoppers = @ \ {c}]
=============================================================================
