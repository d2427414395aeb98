----------------------------- MODULE OutputJobs -----------------------------
(***************************************************************************)
(* Exports, frame saves and purges: the core's job table, the session that *)
(* starts and cancels jobs, their threads with the flags they share, and   *)
(* the path their output goes to, which other programs write too.          *)
(***************************************************************************)
EXTENDS Integers, Sequences

CONSTANTS
    Reqs,       \* requesters, one command each; a job has its requester's id
    NoReq,
    KeepsOrphans, \* HostKind::keeps_orphaned_jobs: a host with a window does
    MaxFile,    \* bound: files other programs put at the path
    NoFile,     \* nothing at the path
    AnyName     \* in place of a file to replace: the job takes the first free name

ASSUME JobsAssumption ==
    /\ NoReq \notin Reqs /\ NoFile \notin Reqs /\ Reqs \cap Nat = {}
    /\ KeepsOrphans \in BOOLEAN
    /\ MaxFile \in Nat /\ NoFile \notin Nat
    /\ AnyName \notin Nat \cup Reqs \cup {NoFile}

VARIABLES
    interrupted,
    table,      \* runtime.jobs
    kind,       \* what each of them is
    waits,      \* jobs with a requester (job.req)
    answers,    \* what each requester was told
    gone,       \* requesters whose connection ended
    toCancel,   \* jobs the session still has to cancel in this step of its own
    half,       \* the job of which it has set `cancelled` and not yet `stop`
    inbox,      \* events on their way to the session
    running,    \* Registry: jobs that can be cancelled
    cancelled, stop,  \* JobCtl: the jobs with this flag set
    pc,         \* where each job's thread is
    va,         \* jobs whose plan encodes with VA-API and can be made again without
    report,     \* the event each thread ends with
    result,     \* where its output is: none, out, kept, temp
    tmp,        \* jobs with a temp file in the output's folder
    path,       \* the file at the path
    replace,    \* the file there the person confirmed replacing, or AnyName
    late,       \* of each thread: files that got there between its last look and its rename
    files,      \* files other programs made so far
    clip, take, dir   \* the take: on the timeline, in qrec.json, its folder exists

sessionVars == <<table, kind, waits, answers>>
cancelVars  == <<toCancel, half>>
flagVars    == <<running, cancelled, stop>>
threadVars  == <<pc, va, report>>
outVars     == <<result, tmp, path, late>>
takeVars    == <<clip, take, dir>>
vars == <<interrupted, sessionVars, gone, cancelVars, inbox, flagVars,
          threadVars, outVars, replace, files, takeVars>>

Media == {"export", "frame"}
\* The file a job makes; those of other programs are numbers.
Output(j) == j

Places == {"none", "open", "render", "join", "retry", "clear", "resume", "write",
           "place", "new", "over", "leave", "done"}
Words  == {"none", "refused", "saved", "appeared", "cancelled", "failed", "purged"}

\* Who waits has a job in the table, jobs are on their way somewhere.
TypeOK ==
    /\ interrupted \in BOOLEAN
    /\ kind \in [Reqs -> Media \cup {"purge", "none"}]
    /\ table \subseteq Reqs /\ waits \subseteq table /\ gone \subseteq Reqs
    /\ toCancel \subseteq Reqs /\ half \in Reqs \cup {NoReq}
    /\ inbox \in Seq([ev : Words \cup {"gone"}, job : Reqs])
    /\ running \subseteq Reqs /\ cancelled \subseteq Reqs /\ stop \subseteq Reqs
    /\ pc \in [Reqs -> Places] /\ report \in [Reqs -> Words] /\ answers \in [Reqs -> Words]
    /\ tmp \subseteq Reqs /\ files \in 0..MaxFile /\ late \in [Reqs -> SUBSET (1..MaxFile \cup Reqs)]
    /\ clip \in BOOLEAN /\ take \in BOOLEAN /\ dir \in BOOLEAN

Init ==
    /\ interrupted = FALSE
    /\ table = {} /\ kind = [j \in Reqs |-> "none"] /\ waits = {}
    /\ answers = [r \in Reqs |-> "none"] /\ gone = {}
    /\ toCancel = {} /\ half = NoReq /\ inbox = <<>>
    /\ running = {} /\ cancelled = {} /\ stop = {}
    /\ pc = [j \in Reqs |-> "none"] /\ va = [j \in Reqs |-> FALSE]
    /\ report = [j \in Reqs |-> "none"]
    /\ result = [j \in Reqs |-> "none"] /\ tmp = {}
    /\ path = NoFile /\ replace = [j \in Reqs |-> NoFile] /\ late = [j \in Reqs |-> {}] /\ files = 0
    /\ clip = TRUE /\ take = TRUE /\ dir = TRUE

(***************************************************************************)
(* The session.  It cancels jobs inside the step that asks for it, so      *)
(* nothing else of the session runs meanwhile; the threads do.             *)
(***************************************************************************)
Free == toCancel = {} /\ half = NoReq
Fresh(r) == Free /\ kind[r] = "none" /\ answers[r] = "none" /\ r \notin gone

Tell(r, word) == answers' = [answers EXCEPT ![r] = word]
Refuse(r) ==
    /\ Tell(r, "refused")
    /\ UNCHANGED <<interrupted, table, kind, waits, gone, cancelVars, inbox, flagVars,
                   threadVars, outVars, replace, files, takeVars>>

Insert(r, what) ==
    /\ table' = table \cup {r} /\ waits' = waits \cup {r}
    /\ kind' = [kind EXCEPT ![r] = what]
    /\ pc' = [pc EXCEPT ![r] = "open"]

RunningExport == {j \in table : kind[j] = "export"}

\* How a command says where to: no --out, --out, --out with --yes.
Dests == {"auto", "ask", "yes"}

\* Export and FrameSave: with --yes the file to replace is the one there now.
Render(r, what, dest, vaapi) ==
    /\ Fresh(r) /\ ~interrupted
    /\ ~(what = "export" /\ RunningExport # {})
    /\ clip
    /\ dest = "ask" => path = NoFile
    /\ Insert(r, what)
    /\ va' = [va EXCEPT ![r] = vaapi /\ what = "export"]
    /\ replace' = [replace EXCEPT ![r] = IF dest = "auto" THEN AnyName ELSE path]
    /\ running' = running \cup {r}
    /\ UNCHANGED <<interrupted, answers, gone, cancelVars, inbox, cancelled, stop, report,
                   outVars, files, takeVars>>

RenderRefused(r, what, dest) ==
    /\ Fresh(r)
    /\ \/ interrupted /\ Refuse(r)
       \/ ~interrupted /\ what = "export" /\ RunningExport # {} /\ Refuse(r)
       \/ ~interrupted /\ ~clip /\ Refuse(r)
       \/ ~interrupted /\ dest = "ask" /\ path # NoFile /\ Refuse(r)

\* A job in the table whose kind reads the take.
JobReading == \E j \in table : kind[j] \in Media

TakePurge(r) ==
    /\ Fresh(r) /\ ~interrupted
    /\ take /\ ~clip /\ ~JobReading
    /\ Insert(r, "purge")
    /\ take' = FALSE
    /\ UNCHANGED <<interrupted, answers, gone, cancelVars, inbox, flagVars, va, report,
                   outVars, replace, files, clip, dir>>

TakePurgeRefused(r) ==
    /\ Fresh(r)
    /\ \/ interrupted /\ Refuse(r)
       \/ ~interrupted /\ (~take \/ clip) /\ Refuse(r)
       \/ ~interrupted /\ take /\ ~clip /\ JobReading /\ Refuse(r)

\* The take's clips are removed: it is in the bin.
EditTimeline ==
    /\ Free /\ clip
    /\ clip' = FALSE
    /\ UNCHANGED <<interrupted, sessionVars, gone, cancelVars, inbox, flagVars,
                   threadVars, outVars, replace, files, take, dir>>

StartCancel(js) == toCancel' = js /\ UNCHANGED half

\* `qrec export cancel`: any number of times, by anybody; answered at once.
ExportCancel ==
    /\ Free
    /\ \E j \in RunningExport : StartCancel({j})
    /\ UNCHANGED <<interrupted, sessionVars, gone, inbox, flagVars, threadVars,
                   outVars, replace, files, takeVars>>

\* The first Ctrl+C cancels every job but purges.
\* Mutant of HandleInterrupt: exports only.
HandleInterrupt_exports ==
    /\ Free /\ ~interrupted
    /\ interrupted' = TRUE
    /\ StartCancel(RunningExport)
    /\ UNCHANGED <<sessionVars, gone, inbox, flagVars, threadVars, outVars, replace,
                   files, takeVars>>
HandleInterrupt ==
    /\ Free /\ ~interrupted
    /\ interrupted' = TRUE
    /\ StartCancel({j \in table : kind[j] # "purge"})
    /\ UNCHANGED <<sessionVars, gone, inbox, flagVars, threadVars, outVars, replace,
                   files, takeVars>>

\* Registry::cancel and JobCtl::cancel, the first store; a job that left the registry
\* is not running here.
CancelJob(j) ==
    /\ half = NoReq /\ j \in toCancel
    /\ toCancel' = toCancel \ {j}
    /\ IF j \in running
       THEN cancelled' = cancelled \cup {j} /\ half' = j
       ELSE UNCHANGED <<cancelled, half>>
    /\ UNCHANGED <<interrupted, sessionVars, gone, inbox, running, stop, threadVars,
                   outVars, replace, files, takeVars>>

\* Its second store; the registry's lock is held from the first to here.
CancelStop ==
    /\ half # NoReq
    /\ stop' = stop \cup {half} /\ half' = NoReq
    /\ UNCHANGED <<interrupted, sessionVars, gone, toCancel, inbox, running, cancelled,
                   threadVars, outVars, replace, files, takeVars>>

\* A connection ends with an answer owed to it: its thread tells the session once.
Disconnect(r) ==
    /\ kind[r] # "none" /\ answers[r] = "none" /\ r \notin gone
    /\ gone' = gone \cup {r}
    /\ inbox' = Append(inbox, [ev |-> "gone", job |-> r])
    /\ UNCHANGED <<interrupted, sessionVars, cancelVars, flagVars, threadVars,
                   outVars, replace, files, takeVars>>

\* Events of a job's end: the job leaves the table, who waits is told.
JobEnds(m) ==
    /\ table' = table \ {m.job} /\ waits' = waits \ {m.job}
    /\ IF m.job \in waits THEN Tell(m.job, m.ev) ELSE UNCHANGED answers
    /\ UNCHANGED <<kind, cancelVars>>

\* RequesterGone: nobody is told any more; a host without a window cancels the job, which
\* stays in the table until it ended.
\* Mutant of RequesterGone: it leaves the table at once.
RequesterGone_drops(m) ==
    /\ waits' = waits \ {m.job}
    /\ IF ~KeepsOrphans /\ m.job \in table /\ kind[m.job] \in Media
       THEN StartCancel({m.job}) /\ table' = table \ {m.job}
       ELSE UNCHANGED <<cancelVars, table>>
    /\ UNCHANGED <<kind, answers>>
RequesterGone(m) ==
    /\ waits' = waits \ {m.job}
    /\ IF ~KeepsOrphans /\ m.job \in table /\ kind[m.job] \in Media
       THEN StartCancel({m.job})
       ELSE UNCHANGED cancelVars
    /\ UNCHANGED <<table, kind, answers>>

HandleEvent ==
    /\ Free /\ inbox # <<>>
    /\ inbox' = Tail(inbox)
    /\ LET m == Head(inbox) IN IF m.ev = "gone" THEN RequesterGone(m) ELSE JobEnds(m)
    /\ UNCHANGED <<interrupted, gone, flagVars, threadVars, outVars, replace, files,
                   takeVars>>

(***************************************************************************)
(* The jobs' threads.                                                      *)
(***************************************************************************)
ThreadKeeps == UNCHANGED <<interrupted, sessionVars, gone, cancelVars, files, clip, take>>

At(j, where) == pc[j] = where
Goto(j, where) == pc' = [pc EXCEPT ![j] = where]

\* The thread has its event, and no temp file any more.
\* Mutant of Ends: its temp file stays.
Ends_keeps(j, word) ==
    /\ Goto(j, "leave") /\ report' = [report EXCEPT ![j] = word]
    /\ UNCHANGED <<tmp, va>>
Ends(j, word) ==
    /\ Goto(j, "leave") /\ report' = [report EXCEPT ![j] = word]
    /\ tmp' = tmp \ {j}
    /\ UNCHANGED va
Goes(j, where) == Goto(j, where) /\ UNCHANGED <<va, report, tmp>>

\* A frame save that was cancelled failed.
CancelledWord(j) == IF kind[j] = "frame" THEN "failed" ELSE "cancelled"

Quiet == UNCHANGED <<inbox, flagVars, result, path, replace, late, dir>>

\* temp_out: a new file beside the output, for ffmpeg to write.
WithTemp(j) ==
    /\ Goto(j, "write") /\ tmp' = tmp \cup {j}
    /\ UNCHANGED <<va, report>>

\* The destination's folder is opened (landing); a frame renders right into its temp file.
Open(j) ==
    /\ At(j, "open") /\ kind[j] \in Media
    /\ \/ kind[j] = "export" /\ Goes(j, "render")
       \/ kind[j] = "frame" /\ WithTemp(j)
       \/ Ends(j, "failed")
    /\ Quiet /\ ThreadKeeps

\* render_all: the segments are rendered, a child each, until one fails or stop is set.
Rendered(j) ==
    /\ At(j, "render")
    /\ IF j \in cancelled THEN Ends(j, "cancelled") ELSE WithTemp(j) \/ Ends(j, "failed")
    /\ Quiet /\ ThreadKeeps

\* A segment failed (record): the others are told to stop.
RenderFails(j) ==
    /\ At(j, "render") /\ Goes(j, "join")
    /\ stop' = stop \cup {j}
    /\ UNCHANGED <<inbox, running, cancelled, result, path, replace, late, dir>> /\ ThreadKeeps

\* The others have stopped.  A cancel that came meanwhile is what ended the job; otherwise a
\* VA-API export can be made again with another encoder.
Joined(j) ==
    /\ At(j, "join")
    /\ IF j \in cancelled THEN Ends(j, "cancelled")
       ELSE IF va[j] THEN Goes(j, "retry") ELSE Ends(j, "failed")
    /\ Quiet /\ ThreadKeeps

\* retry_without_vaapi: a cancel that came since ends the job too.
Retry(j) ==
    /\ At(j, "retry")
    /\ IF j \in cancelled THEN Ends(j, "cancelled") ELSE Goes(j, "clear")
    /\ Quiet /\ ThreadKeeps

\* A child that is told to stop stops.
Stopped(j) ==
    /\ pc[j] \in {"render", "write"} /\ j \in stop
    /\ Ends(j, CancelledWord(j))
    /\ Quiet /\ ThreadKeeps

\* It deletes the temp files, and JobCtl::resume takes the failure's stop back.
Clear(j) ==
    /\ At(j, "clear") /\ Goto(j, "resume")
    /\ va' = [va EXCEPT ![j] = FALSE] /\ tmp' = tmp \ {j} /\ stop' = stop \ {j}
    /\ UNCHANGED <<inbox, running, cancelled, report, result, path, replace, late, dir>> /\ ThreadKeeps

\* JobCtl::resume: a cancel that came meanwhile keeps its stop.
\* Mutant of Resume: stop is only cleared.
Resume_clears(j) ==
    /\ At(j, "resume") /\ Goto(j, "open")
    /\ UNCHANGED <<inbox, running, cancelled, stop, va, report, outVars, replace, dir>> /\ ThreadKeeps
Resume(j) ==
    /\ At(j, "resume") /\ Goto(j, "open")
    /\ stop' = IF j \in cancelled THEN stop \cup {j} ELSE stop
    /\ UNCHANGED <<inbox, running, cancelled, va, report, outVars, replace, dir>> /\ ThreadKeeps

\* stitch, or the frame's ffmpeg: the temp file is written whole.
Written(j) ==
    /\ At(j, "write")
    /\ \/ j \notin cancelled /\ Goes(j, "place")
       \/ j \in cancelled /\ Ends(j, CancelledWord(j))
       \/ Ends(j, "failed")
    /\ Quiet /\ ThreadKeeps

\* A file comes to the path.
Comes(file) ==
    /\ path' = file
    /\ late' = [j \in Reqs |-> IF pc[j] = "over" THEN late[j] \cup {file} ELSE late[j]]
Placed(j) ==
    /\ Comes(Output(j)) /\ result' = [result EXCEPT ![j] = "out"]
    /\ Ends(j, "saved")
NotPlaced(j) == Ends(j, "failed") /\ UNCHANGED <<path, late, result>>

\* An output that may not replace what is there is kept beside it, or stays the temp file.
Appeared(j) ==
    /\ path # NoFile
    /\ Goto(j, "leave") /\ report' = [report EXCEPT ![j] = "appeared"]
    /\ \E kept \in {"kept", "temp"} :
          /\ result' = [result EXCEPT ![j] = kept]
          /\ tmp' = IF kept = "temp" THEN tmp ELSE tmp \ {j}
    /\ UNCHANGED <<path, late, va>>

\* A name of the job's own that is taken already: the next free one.
Numbered(j) ==
    /\ path # NoFile
    /\ result' = [result EXCEPT ![j] = "out"]
    /\ Ends(j, "saved") /\ UNCHANGED <<path, late>>

\* place looks at the path when a file there was confirmed: that file is replaced by a
\* rename, any other is not.
\* Mutant of Look: any file there is replaced once one was confirmed.
Look_any(j) ==
    /\ At(j, "place") /\ replace[j] \notin {NoFile, AnyName}
    /\ \/ path # NoFile /\ Goes(j, "over")
       \/ path = NoFile /\ Goes(j, "new")
       \/ Ends(j, "failed")
    /\ Quiet /\ ThreadKeeps
Look(j) ==
    /\ At(j, "place") /\ replace[j] \notin {NoFile, AnyName}
    /\ \/ path = replace[j] /\ Goes(j, "over")
       \/ path # replace[j] /\ Goes(j, "new")
       \/ Ends(j, "failed")
    /\ Quiet /\ ThreadKeeps

\* The rename that replaces nothing.
RenameNew(j) ==
    /\ At(j, "new") \/ (At(j, "place") /\ replace[j] \in {NoFile, AnyName})
    /\ \/ path = NoFile /\ Placed(j)
       \/ IF replace[j] = AnyName THEN Numbered(j) ELSE Appeared(j)
       \/ NotPlaced(j)
    /\ UNCHANGED <<inbox, flagVars, replace, dir>> /\ ThreadKeeps

Place(j) == Look(j) \/ RenameNew(j)

\* The rename that replaces whatever is there by then.
RenameOver(j) ==
    /\ At(j, "over")
    /\ Placed(j) \/ NotPlaced(j)
    /\ UNCHANGED <<inbox, flagVars, replace, dir>> /\ ThreadKeeps

\* A thread that panics reports a failure.
\* Mutant of Panic: nobody catches it.
Panic_escapes(j) ==
    /\ pc[j] \in {"open", "render", "write"} /\ kind[j] \in Media
    /\ Goto(j, "done") /\ running' = running \ {j}
    /\ UNCHANGED <<inbox, cancelled, stop, va, report, outVars, replace, dir>> /\ ThreadKeeps
Panic(j) ==
    /\ pc[j] \in {"open", "render", "write"} /\ kind[j] \in Media
    /\ Ends(j, "failed")
    /\ Quiet /\ ThreadKeeps

\* delete_take_dirs: the folder goes, or something of it is left and named.
DeleteDirs(j) ==
    /\ At(j, "open") /\ kind[j] = "purge"
    /\ \E deleted \in BOOLEAN :
          /\ dir' = (dir /\ ~deleted)
          /\ inbox' = Append(inbox, [ev |-> IF deleted THEN "purged" ELSE "failed", job |-> j])
    /\ Goto(j, "done")
    /\ UNCHANGED <<flagVars, va, report, outVars, replace>> /\ ThreadKeeps

\* The run leaves the registry, and its flags are no more; then its event is sent (one
\* step: a cancel finds nothing to cancel on either side of the event).
Leave(j) ==
    /\ At(j, "leave") /\ half # j /\ Goto(j, "done")
    /\ running' = running \ {j} /\ cancelled' = cancelled \ {j} /\ stop' = stop \ {j}
    /\ inbox' = Append(inbox, [ev |-> report[j], job |-> j])
    /\ report' = [report EXCEPT ![j] = "none"] /\ va' = [va EXCEPT ![j] = FALSE]
    /\ late' = [late EXCEPT ![j] = {}] /\ replace' = [replace EXCEPT ![j] = NoFile]
    /\ UNCHANGED <<result, tmp, path, dir>> /\ ThreadKeeps

(***************************************************************************)
(* Other programs at the path.                                             *)
(***************************************************************************)
OtherWrites ==
    /\ files < MaxFile /\ files' = files + 1 /\ Comes(files + 1)
    /\ UNCHANGED <<interrupted, sessionVars, gone, cancelVars, inbox, flagVars, threadVars,
                   result, tmp, replace, takeVars>>
OtherDeletes ==
    /\ path # NoFile /\ path' = NoFile
    /\ UNCHANGED <<interrupted, sessionVars, gone, cancelVars, inbox, flagVars, threadVars,
                   result, tmp, late, replace, files, takeVars>>

(***************************************************************************)
(* Specification.                                                          *)
(***************************************************************************)
\* What the session does by itself, and a thread that nothing keeps: a child may run for
\* any time, but stops when told to.
SessionStep == HandleEvent \/ CancelStop \/ \E j \in Reqs : CancelJob(j)
ThreadStep(j) ==
    \/ Open(j) \/ Stopped(j) \/ Joined(j) \/ Retry(j) \/ Clear(j) \/ Resume(j)
    \/ Place(j) \/ RenameOver(j) \/ DeleteDirs(j) \/ Leave(j)
ChildEnds(j) == Rendered(j) \/ RenderFails(j) \/ Written(j) \/ Panic(j)
Command(r) ==
    \/ \E what \in Media, dest \in Dests, vaapi \in BOOLEAN : Render(r, what, dest, vaapi)
    \/ \E what \in Media, dest \in Dests : RenderRefused(r, what, dest)
    \/ TakePurge(r) \/ TakePurgeRefused(r) \/ Disconnect(r)

Next ==
    \/ SessionStep \/ ExportCancel \/ HandleInterrupt \/ EditTimeline
    \/ \E j \in Reqs : Command(j) \/ ThreadStep(j) \/ ChildEnds(j)
    \/ OtherWrites \/ OtherDeletes

Spec == Init /\ [][Next]_vars

(***************************************************************************)
(* Properties.                                                             *)
(***************************************************************************)
\* A cancel is never lost to a retry: once both flags were set, the job's children see a
\* stop, but for the moment in which JobCtl::resume looks again (media/jobs.rs).
CancelHolds == \A j \in cancelled : j = half \/ j \in stop \/ pc[j] = "resume"

\* A job in the table will report: its thread is alive or its event is on its way.
JobsReport == \A j \in table :
    pc[j] # "done" \/ \E i \in 1..Len(inbox) : inbox[i].job = j /\ inbox[i].ev # "gone"

\* While an export or a frame save reads the take's files, no purge deletes them, also when
\* whoever started it is gone or it is being cancelled.
Reading(j) ==
    \/ kind[j] = "export" /\ pc[j] \in {"open", "render", "join", "retry", "clear", "resume"}
    \/ kind[j] = "frame" /\ pc[j] \in {"open", "write"}
ReadersKeepTheirTake == (\E j \in Reqs : Reading(j)) => take /\ dir

\* What a caller hears of a job is what is on disk: saved, kept aside, or nothing at all.
\* It hears of a cancel only when somebody cancelled: the stop a failed segment gave the
\* others does not pass for one.
Told(j) == IF pc[j] = "leave" THEN report[j] ELSE answers[j]
ToldIsTrue == \A j \in Reqs : kind[j] \in Media =>
    CASE Told(j) = "saved"    -> result[j] = "out" /\ j \notin tmp
      [] Told(j) = "appeared" -> result[j] = IF j \in tmp THEN "temp" ELSE "kept"
      [] Told(j) = "cancelled" -> result[j] = "none" /\ j \notin tmp
                                  /\ (pc[j] = "leave" => j \in cancelled)
      [] Told(j) = "failed"   -> result[j] = "none" /\ j \notin tmp
      [] OTHER                -> TRUE

\* Once the session has cancelled what it had to, nothing runs on after an interrupt, and a
\* host without a window runs nothing on for a requester that went away.
WoundDown == Free => \A j \in table :
    /\ kind[j] \in Media
    /\ interrupted \/ (~KeepsOrphans /\ j \in gone
                       /\ \A i \in 1..Len(inbox) : inbox[i] # [ev |-> "gone", job |-> j])
    => j \in cancelled \/ j \notin running

\* However long a job ran, whoever wrote, deleted or moved files at its path meanwhile, it
\* replaces nothing but the file that was confirmed, as far as the last look at the path can
\* tell (media/place.rs): what comes between that look and the rename is `late`.
ReplacesOnlyWhatItSaw == [][\A j \in Reqs :
    path # j /\ path' = j => path \in {NoFile, replace[j]} \cup late[j]]_vars

\* "without replacing anything but the file a person confirmed replacing" (media/place.rs).
OnlyTheConfirmedIsReplaced == [][\A j \in Reqs :
    path # j /\ path' = j => path \in {NoFile, replace[j]}]_vars
=============================================================================
