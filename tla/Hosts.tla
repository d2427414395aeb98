------------------------------- MODULE Hosts -------------------------------
(***************************************************************************)
(* The processes around a project: clients that route a request to its     *)
(* host or become it, the host's socket with its connections, the session  *)
(* behind it, signals, a window that takes the project over, and hosts     *)
(* that die.  There is one project and, by its lock, one host at a time.   *)
(***************************************************************************)
EXTENDS Requests, FiniteSets

CONSTANTS
    Wants,       \* what the clients may ask for, each for one thing or "nothing"
    NoOne,
    MaxTrouble,  \* bound: signals, deaths and opens that fail
    MaxTries,    \* bound: how often a client connects before its routing deadline
    MaxLeavers   \* bound: clients that leave before their answer

ASSUME HostsAssumption ==
    /\ NoOne \notin Clients
    /\ MaxTrouble \in Nat /\ MaxTries \in Nat /\ MaxLeavers \in Nat

VARIABLES
    host,        \* how far the host is; it holds the lock unless "none"
    kind,        \* HostKind
    owner,       \* the client that started it
    accepting,   \* its socket is there and its acceptor runs
    queue,       \* what is parked before the session is attached, then its inbox
    urgent,      \* how many of them are urgent
    signal,      \* what the signal thread did: 1 noted, 2 sent the stop, 3 the interrupt
    shutdown,    \* a shutdown request arrived
    noted,       \* the host's loop saw it
    closing,     \* the window asked to close
    ses,         \* the session
    unfinished,  \* on disk: a take still `recording`
    pc, cmd, spawned, tries,   \* clients
    conn,        \* each client's connection at the host
    heard,       \* clients that read `accepted` on it
    left,        \* clients that closed their connection
    trouble,
    forced,      \* history: this host gave up waiting
    torn,        \* history: clients whose host died before `accepted` was written
    ahead        \* history: the starts that waited at the host when a stop came

hostVars == <<host, kind, owner, accepting, signal, shutdown, noted, closing, forced>>
clientVars == <<pc, cmd, spawned, tries, conn, heard, left>>
boxVars == <<queue, urgent>>
histVars == <<torn, ahead>>
vars == <<hostVars, boxVars, ses, unfinished, clientVars, trouble, histVars>>

Message(m, c) == [m |-> m, c |-> c]

None == [c \in Clients |-> "none"]

Init ==
    /\ host = "none" /\ kind = "none" /\ owner = NoOne /\ accepting = FALSE
    /\ queue = <<>> /\ urgent = 0 /\ signal = 0
    /\ shutdown = FALSE /\ noted = FALSE /\ closing = FALSE /\ forced = FALSE
    /\ unfinished \in BOOLEAN
    /\ ses = Opened(FALSE, None, [c \in Clients |-> 0])
    /\ cmd \in Wants
    /\ pc = [c \in Clients |-> IF cmd[c] = "nothing" THEN "done" ELSE "route"]
    /\ spawned = {} /\ tries = [c \in Clients |-> 0] /\ conn = None /\ heard = {} /\ left = {}
    /\ trouble = 0 /\ torn = {} /\ ahead = [c \in Clients |-> {}]

----------------------------------------------------------------------------
(* What the host looks at. *)

Open == {c \in Clients : conn[c] \in {"open", "taken", "sent"}}
\* Mutant of Busy: a recovery is not waited for.
BusyButRecovery == ses.rec # "idle" \/ ses.jobs # {}
Busy == ses.rec # "idle" \/ ses.jobs # {} \/ ses.recovering
OwnDone == kind = "cli" /\ ses.reply[owner] # "none"
Failed == host \in {"finishing", "flushing"}
\* Clients whose connection the host saw end.
Gone == {c \in left : conn[c] = "none"}
\* What waits at the host and would start a recording.
StartsWaiting ==
    {c \in Clients : MayStartRecording(cmd[c]) /\ ses.reply[c] = "none"
        /\ (Message("request", c) \in Range(queue) \/ c \in Range(ses.parked))}

\* Mutant of AfterEof: a request that was accepted is sent again.
AfterEofAgain(c) == IF cmd[c] = "takeover" THEN "lockwait" ELSE "route"

\* A connection closed with nothing more on it: before `accepted` the client
\* routes again; a window that asked for a shutdown waits for the lock.
AfterEof(c) ==
    IF cmd[c] = "takeover" THEN "lockwait" ELSE IF c \in heard THEN "done" ELSE "route"

Closes(f, who) ==
    /\ conn' = [c \in Clients |-> IF c \in who THEN "none" ELSE f[c]]
    /\ pc' = [c \in Clients |-> IF c \in who \ left THEN AfterEof(c) ELSE pc[c]]
    /\ heard' = heard \ who

\* The socket is unlinked, the acceptor's backlog is closed.
StopAccepting(f) ==
    /\ accepting' = FALSE
    /\ Closes(f, {c \in Clients : conn[c] = "backlog"})

----------------------------------------------------------------------------
(* Clients. *)

\* A socket answers: connect, and write the request. The host `hello` found
\* may be gone by then, so a start may reach a CLI command's host.
Connect(c) ==
    /\ pc[c] = "route" /\ accepting /\ tries[c] < MaxTries
    /\ pc' = [pc EXCEPT ![c] = "wait"] /\ conn' = [conn EXCEPT ![c] = "backlog"]
    /\ tries' = [tries EXCEPT ![c] = @ + 1]
    /\ UNCHANGED <<hostVars, boxVars, ses, unfinished, cmd, spawned, heard, left, trouble, histVars>>

\* `hello` names a CLI command's host that runs an export.
HelloSaysBusy(c) ==
    /\ pc[c] = "route" /\ accepting /\ kind = "cli" /\ ses.jobs # {} /\ MayStartRecording(cmd[c])
    /\ pc' = [pc EXCEPT ![c] = "done"]
    /\ UNCHANGED <<hostVars, boxVars, ses, unfinished, cmd, spawned, tries, conn, heard, left, trouble, histVars>>

\* The routing deadline passes while the lock is held.
GiveUp(c) ==
    /\ host # "none"
    /\ \/ pc[c] = "route" /\ (accepting => kind = "cli" /\ MayStartRecording(cmd[c]))
       \/ pc[c] = "route" /\ tries[c] = MaxTries
       \/ pc[c] = "lockwait"
    /\ pc' = [pc EXCEPT ![c] = "done"]
    /\ UNCHANGED <<hostVars, boxVars, ses, unfinished, cmd, spawned, tries, conn, heard, left, trouble, histVars>>

\* No host: take the lock, and become the host or spawn one that records.
Elect(c) ==
    /\ pc[c] \in {"route", "lockwait"} /\ host = "none"
    /\ ~(MayStartRecording(cmd[c]) /\ c \in spawned)
    /\ host' = "starting" /\ owner' = c
    /\ IF MayStartRecording(cmd[c])
       THEN kind' = "headless" /\ spawned' = spawned \cup {c} /\ pc' = [pc EXCEPT ![c] = "spawning"]
       ELSE /\ kind' = IF cmd[c] = "takeover" THEN "gui" ELSE "cli"
            /\ pc' = [pc EXCEPT ![c] = "hosting"] /\ UNCHANGED spawned
    /\ UNCHANGED <<accepting, signal, shutdown, noted, closing, forced, boxVars, ses, unfinished, cmd, tries, conn, heard, left, trouble, histVars>>

\* The host it spawned is gone again.
SpawnedIsGone(c) ==
    /\ pc[c] = "route" /\ host = "none" /\ c \in spawned
    /\ pc' = [pc EXCEPT ![c] = "done"]
    /\ UNCHANGED <<hostVars, boxVars, ses, unfinished, cmd, spawned, tries, conn, heard, left, trouble, histVars>>

\* Ctrl+C, or no answer in time: the client closes its end.
Leave(c) ==
    /\ pc[c] = "wait" /\ Cardinality(left) < MaxLeavers
    /\ left' = left \cup {c}
    /\ pc' = [pc EXCEPT ![c] = "done"]
    /\ UNCHANGED <<hostVars, boxVars, ses, unfinished, cmd, spawned, tries, conn, heard, trouble, histVars>>

----------------------------------------------------------------------------
(* The server. *)

Admit(c) ==
    /\ conn[c] = "backlog" /\ accepting
    /\ conn' = [conn EXCEPT ![c] = "open"]
    /\ UNCHANGED <<hostVars, boxVars, ses, unfinished, pc, cmd, spawned, tries, heard, left, trouble, histVars>>

Bounces(c) ==
    /\ kind = "cli"
    /\ \/ MayStartRecording(cmd[c]) /\ ses.jobs = {}
       \/ MayStartJob(cmd[c]) /\ OwnDone

\* The request line is read; a bounced one is closed before `accepted`.
Read(c) ==
    /\ conn[c] = "open"
    /\ IF Bounces(c) THEN Closes(conn, {c})
       ELSE conn' = [conn EXCEPT ![c] = "taken"] /\ UNCHANGED <<pc, heard>>
    /\ UNCHANGED <<hostVars, boxVars, ses, unfinished, cmd, spawned, tries, left, trouble, histVars>>

\* Under the link's lock: into the queue, or refused by a host on its way out.
Submit(c) ==
    /\ conn[c] = "taken" /\ cmd[c] # "takeover"
    /\ conn' = [conn EXCEPT ![c] = "sent"]
    /\ IF Failed THEN ses' = Answer(ses, {c}, "exiting") /\ UNCHANGED <<queue, ahead>>
       ELSE /\ queue' = Append(queue, Message("request", c))
            /\ ahead' = IF cmd[c] = "stop" THEN [ahead EXCEPT ![c] = StartsWaiting] ELSE ahead
            /\ UNCHANGED ses
    /\ UNCHANGED <<hostVars, urgent, unfinished, pc, cmd, spawned, tries, heard, left, trouble, torn>>

\* begin_shutdown, which a window refuses; the server itself replies.
SubmitShutdown(c) ==
    /\ conn[c] = "taken" /\ cmd[c] = "takeover"
    /\ LET f == [conn EXCEPT ![c] = "sent"]
       IN  IF kind = "gui"
           THEN /\ ses' = Answer(ses, {c}, "refused") /\ conn' = f
                /\ UNCHANGED <<accepting, shutdown, pc, heard>>
           ELSE /\ ses' = Answer(ses, {c}, "ok")
                /\ shutdown' = TRUE /\ StopAccepting(f)
    /\ UNCHANGED <<host, kind, owner, signal, noted, closing, forced, boxVars, unfinished, cmd, spawned, tries, left, trouble, histVars>>

\* The connection's thread writes `accepted`, then the reply.
WriteAccepted(c) ==
    /\ conn[c] = "sent" /\ c \notin left /\ c \notin heard
    /\ heard' = heard \cup {c}
    /\ UNCHANGED <<hostVars, boxVars, ses, unfinished, pc, cmd, spawned, tries, conn, left, trouble, histVars>>

WriteReply(c) ==
    /\ conn[c] = "sent" /\ c \in heard \ left /\ ses.reply[c] # "none"
    /\ conn' = [conn EXCEPT ![c] = "none"] /\ heard' = heard \ {c}
    /\ IF cmd[c] = "takeover" /\ ses.reply[c] = "ok"
       THEN pc' = [pc EXCEPT ![c] = "lockwait"]
       ELSE pc' = [pc EXCEPT ![c] = "done"]
    /\ UNCHANGED <<hostVars, boxVars, ses, unfinished, cmd, spawned, tries, left, trouble, histVars>>

\* ... or finds that the client left, and tells the session if it has the request.
ConnectionGone(c) ==
    /\ conn[c] = "sent" /\ c \in left
    /\ conn' = [conn EXCEPT ![c] = "none"] /\ heard' = heard \ {c}
    /\ queue' = IF c \in Owed(ses) THEN Append(queue, Message("gone", c)) ELSE queue
    /\ UNCHANGED <<hostVars, urgent, ses, unfinished, pc, cmd, spawned, tries, left, trouble, histVars>>

----------------------------------------------------------------------------
(* The host starts. *)

\* The lock record, the socket, the server; the spawner reads `ready`.
Publish ==
    /\ host = "starting"
    /\ host' = "opening" /\ accepting' = TRUE
    /\ pc' = IF pc[owner] = "spawning" THEN [pc EXCEPT ![owner] = "route"] ELSE pc
    /\ UNCHANGED <<kind, owner, signal, shutdown, noted, closing, forced, boxVars, ses, unfinished, cmd, spawned, tries, conn, heard, left, trouble, histVars>>

\* The session opens and is attached; what is parked becomes its inbox.
Attach ==
    /\ host = "opening"
    /\ host' = "attached" /\ urgent' = 0
    /\ ses' = Opened(unfinished, ses.reply, ses.ran)
    /\ UNCHANGED <<kind, owner, accepting, signal, shutdown, noted, closing, forced, queue, unfinished, clientVars, trouble, histVars>>

\* It can't open, or a window's host is told to stop before it did.
OpenFails ==
    /\ host = "opening"
    /\ \/ trouble < MaxTrouble /\ trouble' = trouble + 1
       \/ kind = "gui" /\ (closing \/ signal > 0) /\ UNCHANGED trouble
    /\ host' = "finishing" /\ forced' = TRUE /\ StopAccepting(conn)
    /\ UNCHANGED <<kind, owner, signal, shutdown, noted, closing, boxVars, ses, unfinished, cmd, spawned, tries, left, histVars>>

\* A CLI command's host queues its own request, unless a signal came first.
Serve ==
    /\ host = "attached"
    /\ host' = "serving"
    /\ queue' = IF kind = "cli" /\ signal = 0 THEN Append(queue, Message("request", owner)) ELSE queue
    /\ UNCHANGED <<kind, owner, accepting, signal, shutdown, noted, closing, forced, urgent, ses, unfinished, clientVars, trouble, histVars>>

----------------------------------------------------------------------------
(* The session runs; after every message its host looks whether to stop. *)

\* A take is recorded on disk from its start to its end, also of an earlier host.
Saved(s) == s.recovering \/ s.rec # "idle"

\* The recovery's deadline may pass between release_parked and dispatch.
Answered(m, over) ==
    LET r == IF m.m = "interrupt" THEN ses ELSE ReleaseParked(ses, cmd, kind)
        s == [r EXCEPT !.waitOver = @ \/ over]
    IN  CASE m.m = "request" -> Dispatch(s, m.c, cmd, kind)
          [] m.m = "stop" -> IF Stopped(s, "stop", cmd) # {} THEN AbortParked(s, {}, "stop", cmd)
                             ELSE StopRecording(s, {})
          [] m.m = "gone" -> RequesterGone(s, m.c)
          [] OTHER -> HandleInterrupt(s)

Handle ==
    /\ host = "serving" /\ queue # <<>>
    /\ \E over \in {FALSE, ses.recovering} :
         LET m == Head(queue)
             s == ReleaseParked(Answered(m, over), cmd, kind)
             late == IF m.m = "request" /\ m.c \in Owed(s) \cap Gone THEN <<Message("gone", m.c)>> ELSE <<>>
         IN  ses' = s /\ unfinished' = Saved(s) /\ queue' = Tail(queue) \o late
    /\ UNCHANGED <<hostVars, urgent, clientVars, trouble, histVars>>

Quietly ==
    /\ host = "serving"
    /\ UNCHANGED <<hostVars, boxVars, clientVars, trouble, histVars>>

\* The wait for the recovery is over, or the recovery itself.
WaitEnds ==
    /\ Quietly /\ Holding(ses)
    /\ ses' = ReleaseParked([ses EXCEPT !.waitOver = TRUE], cmd, kind)
    /\ unfinished' = Saved(ses')

TakesProbed ==
    /\ Quietly /\ ses.recovering
    /\ ses' = ReleaseParked([ses EXCEPT !.recovering = FALSE], cmd, kind)
    /\ unfinished' = Saved(ses')

Finalized ==
    /\ Quietly /\ ses.rec = "finalizing"
    /\ ses' = Answer([ses EXCEPT !.rec = "idle", !.stoppers = {}], ses.stoppers, "ok")
    /\ unfinished' = Saved(ses')

JobEnds(c) ==
    /\ Quietly /\ c \in ses.jobs
    /\ ses' = Answer([ses EXCEPT !.jobs = @ \ {c}], {c}, "ok")
    /\ UNCHANGED unfinished

----------------------------------------------------------------------------
(* Signals, shutdown, and the end. *)

SendUrgent(m) ==
    IF host = "opening"
    THEN queue' = InsertAt(queue, urgent + 1, Message(m, NoOne)) /\ urgent' = urgent + 1
    ELSE IF Failed THEN UNCHANGED boxVars
    ELSE queue' = Append(queue, Message(m, NoOne)) /\ UNCHANGED urgent

Serving == host \in {"opening", "attached", "serving", "leaving"}

Signal ==
    /\ Serving /\ signal = 0 /\ trouble < MaxTrouble
    /\ signal' = 1 /\ trouble' = trouble + 1
    /\ UNCHANGED <<host, kind, owner, accepting, shutdown, noted, closing, forced, boxVars, ses, unfinished, clientVars, histVars>>

\* The signal's thread, one message after the other.
SignalSends ==
    /\ host \notin {"none", "starting"} /\ signal \in {1, 2}
    /\ signal' = signal + 1
    /\ SendUrgent(IF signal = 1 THEN "stop" ELSE "interrupt")
    /\ UNCHANGED <<host, kind, owner, accepting, shutdown, noted, closing, forced, ses, unfinished, clientVars, trouble, histVars>>

\* The window is closed; its loop stops accepting first.
CloseWindow ==
    /\ kind = "gui" /\ host \in {"opening", "serving"} /\ ~closing
    /\ closing' = TRUE
    /\ UNCHANGED <<host, kind, owner, accepting, signal, shutdown, noted, forced, boxVars, ses, unfinished, clientVars, trouble, histVars>>

NoteClose ==
    /\ host = "serving" /\ closing /\ accepting
    /\ StopAccepting(conn)
    /\ UNCHANGED <<host, kind, owner, signal, shutdown, noted, closing, forced, boxVars, ses, unfinished, cmd, spawned, tries, left, trouble, histVars>>

NoteShutdown ==
    /\ host = "serving" /\ shutdown /\ ~noted
    /\ noted' = TRUE /\ queue' = Append(queue, Message("stop", NoOne))
    /\ UNCHANGED <<host, kind, owner, accepting, signal, shutdown, closing, forced, urgent, ses, unfinished, clientVars, trouble, histVars>>

Quiet == ~Busy /\ Open = {}

\* decide(), but for the grace periods, which may be over at any time.
Decides ==
    \/ signal > 0
    \/ kind = "gui" /\ closing
    \/ kind # "gui" /\ (shutdown \/ kind = "headless" \/ OwnDone)

DecideToLeave ==
    /\ host = "serving" /\ Quiet /\ Decides
    /\ (shutdown => noted) /\ (closing => ~accepting)
    /\ host' = IF closing /\ signal = 0 THEN "finishing" ELSE "leaving"
    /\ UNCHANGED <<kind, owner, accepting, signal, shutdown, noted, closing, forced, boxVars, ses, unfinished, clientVars, trouble, histVars>>

\* Mutant of StillIdle: whoever was admitted since is not looked at.
AssumedIdle == TRUE
StillIdle == Open = {}

\* stop_accepting_if_idle: atomic with admission.
StopAcceptingIfIdle ==
    /\ host = "leaving"
    /\ IF StillIdle THEN host' = "finishing" /\ StopAccepting(conn)
       ELSE host' = "serving" /\ UNCHANGED <<accepting, conn, pc, heard>>
    /\ UNCHANGED <<kind, owner, signal, shutdown, noted, closing, forced, boxVars, ses, unfinished, cmd, spawned, tries, left, trouble, histVars>>

\* Mutant of GraceEnds: the run goes on while a recovery is out.
GraceEndsRecovered ==
    /\ host = "serving" /\ ~ses.recovering
    /\ \/ signal > 0
       \/ closing /\ ~accepting /\ signal = 0
    /\ host' = "finishing" /\ forced' = TRUE /\ StopAccepting(conn)
    /\ UNCHANGED <<kind, owner, signal, shutdown, noted, closing, boxVars, ses, unfinished, cmd, spawned, tries, left, trouble, histVars>>

\* The grace after a signal or a close is over: go, whoever is connected.
GraceEnds ==
    /\ host = "serving"
    /\ \/ signal > 0 /\ (ses.recovering => ses.interrupted)
       \/ closing /\ ~accepting /\ signal = 0
    /\ host' = "finishing" /\ forced' = TRUE /\ StopAccepting(conn)
    /\ UNCHANGED <<kind, owner, signal, shutdown, noted, closing, boxVars, ses, unfinished, cmd, spawned, tries, left, trouble, histVars>>

\* Requests the session held or had not read are answered as they are dropped.
DropSession ==
    /\ host = "finishing"
    /\ LET unread == {c \in Clients : Message("request", c) \in Range(queue)}
       IN  ses' = Opened(FALSE, Answer(ses, Owed(ses) \cup unread, "exiting").reply, ses.ran)
    /\ host' = "flushing" /\ queue' = <<>> /\ urgent' = 0
    /\ UNCHANGED <<kind, owner, accepting, signal, shutdown, noted, closing, forced, unfinished, clientVars, trouble, histVars>>

NoHost ==
    /\ host' = "none" /\ kind' = "none" /\ owner' = NoOne /\ accepting' = FALSE
    /\ queue' = <<>> /\ urgent' = 0 /\ signal' = 0
    /\ shutdown' = FALSE /\ noted' = FALSE /\ closing' = FALSE /\ forced' = FALSE
    /\ ses' = Opened(FALSE, None, ses.ran) /\ ahead' = [c \in Clients |-> {}]

\* Replies are flushed; the lock is released last.
ReleaseLock ==
    /\ host = "flushing" /\ Open = {}
    /\ NoHost
    /\ pc' = IF pc[owner] = "hosting" THEN [pc EXCEPT ![owner] = "done"] ELSE pc
    /\ UNCHANGED <<unfinished, cmd, spawned, tries, conn, heard, left, trouble, torn>>

\* The process dies (also by a second signal): the lock is free, connections end.
Dies ==
    /\ host # "none" /\ trouble < MaxTrouble
    /\ trouble' = trouble + 1
    /\ NoHost
    /\ LET there == {c \in Clients : conn[c] # "none"}
           stay == there \ left
           own == {c \in Clients : pc[c] \in {"hosting", "spawning"}}
       IN  /\ conn' = None /\ heard' = {}
           /\ pc' = [c \in Clients |-> IF c \in stay THEN AfterEof(c) ELSE IF c \in own THEN "done" ELSE pc[c]]
           /\ torn' = torn \cup {c \in stay \ heard : conn[c] = "sent"}
    /\ UNCHANGED <<unfinished, cmd, spawned, tries, left>>

----------------------------------------------------------------------------
ClientStep(c) ==
    Connect(c) \/ HelloSaysBusy(c) \/ GiveUp(c) \/ Elect(c) \/ SpawnedIsGone(c) \/ Leave(c)
Connection(c) ==
    Admit(c) \/ Read(c) \/ Submit(c) \/ SubmitShutdown(c)
        \/ WriteAccepted(c) \/ WriteReply(c) \/ ConnectionGone(c)
Media(c) == Finalized \/ JobEnds(c)
HostStep ==
    Publish \/ Attach \/ Serve \/ NoteClose \/ NoteShutdown
        \/ DecideToLeave \/ StopAcceptingIfIdle \/ DropSession \/ ReleaseLock
TroubleStep == OpenFails \/ Signal \/ CloseWindow \/ Dies

Next ==
    \/ \E c \in Clients : ClientStep(c) \/ Connection(c) \/ Media(c)
    \/ Handle \/ WaitEnds \/ TakesProbed \/ HostStep \/ SignalSends \/ GraceEnds \/ TroubleStep

\* Threads run, deadlines pass, recordings and jobs end: as long as one of these
\* can, one does. A probe may never answer, nobody has to connect or to ask for
\* anything, and there is no fairness among the steps: with the clients' deadlines
\* no step recurs for ever.
Goes ==
    \/ \E c \in Clients : Connection(c) \/ Media(c)
    \/ Handle \/ WaitEnds \/ HostStep \/ SignalSends \/ GraceEnds

Fairness == WF_vars(Goes)

Spec == Init /\ [][Next]_vars /\ Fairness

----------------------------------------------------------------------------
(* Properties. *)

\* Once the session has seen the interrupt nothing new starts: neither what
\* waited behind a recovery nor what came before the session opened records.
InterruptedWindsDown == ses.interrupted => ses.rec # "recording" /\ ses.parked = <<>>

\* A stop that is answered was the last word: no start that waited at the host
\* when the stop came is left to run after it.
StopsAreFinal ==
    \A c \in Clients : cmd[c] = "stop" /\ ses.reply[c] # "none" => ahead[c] \cap StartsWaiting = {}

\* Nothing a client was told `accepted` is dropped by a host that goes because
\* it has nothing to do: only one that gave up waiting answers "exiting".
AcceptedAreServed ==
    \A c \in Clients : conn[c] # "none" /\ ses.reply[c] = "exiting" => forced

\* A request that is routed again never ran, but for a host that died between
\* queueing it and writing `accepted`.
RunsOnce == \A c \in Clients : ses.ran[c] > 1 => c \in torn

\* A host that isn't forced leaves no take recording and no take it was recovering.
ExitsAreQuiet == host = "flushing" /\ ~forced => ~unfinished

\* What was told `accepted` gets its answer, also behind a recovery whose probe
\* never answers.
AcceptedAreAnswered == heard # {} ~> heard = {}

\* A host that got a signal ends, whatever it records, runs or recovers.
SignalledHostsEnd == signal > 0 ~> host = "none"
=============================================================================
