---------------------------- MODULE ProjectStore ----------------------------
(***************************************************************************)
(* A host's project in memory and in its files: running an outcome         *)
(* (session/effects.rs), the commit's steps and how a failed one is taken  *)
(* back (store/mod.rs), opening and closing (session/open.rs, mod.rs), with*)
(* crashes between any two steps, writes that fail, and a text editor that *)
(* saves qrec.json whenever it likes.                                      *)
(*                                                                         *)
(* A host is one thread: proc says what it is doing, run is the commit it  *)
(* is in, todo the events and commands it has still to run, the innermost  *)
(* last.  Renames reach the disk in the order they were made: losing power *)
(* is a crash at an earlier step.                                          *)
(***************************************************************************)
EXTENDS StoreFiles

CONSTANTS
  MaxRedispatch, \* MAX_REDISPATCH
  Faults,        \* the writes that may fail
  Troubles, \* bound: how many <<faults, crashes, edits>> there may be
  MaxSeq  \* bound: entries ever numbered

VARIABLES
  disk,   \* the files
  dirs,   \* the takes with a folder
  unmade, \* the takes whose folder could not be made: they end failed
  mem,    \* the state: project, history, disk_invalid, the take this host records
  store,  \* what the store knows of the files
  proc,   \* off, opening or on
  recovery, \* opened for qrec history restore
  requestSaved, \* request_saved
  run,    \* the commit that runs, or Nothing
  todo,   \* run_event and dispatch, the innermost last
  promise,\* ghost: the project last saved, and those kept only in memory
  hand,   \* ghost: what qrec.json holds
  lost,   \* ghost: a command or event replaced an edit nobody had read
  faults, crashes, edits

vars == <<disk, dirs, unmade, mem, store, proc, recovery, requestSaved, run, todo,
          promise, hand, lost, faults, crashes, edits>>

folders == <<dirs, unmade>>
ghosts == <<promise, hand, lost>>
counts == <<faults, crashes, edits>>
session == <<proc, recovery, requestSaved>>

Fault == {"dir", "base", "append", "lines", "project", "projectSync", "head",
          "headSync", "aside", "putBack", "removeBase", "putBase", "putLines"}

ASSUME FaultsAssumption == Faults \subseteq Fault

NewStore == [dirty |-> FALSE, hasBase |-> FALSE, pending |-> Nothing, known |-> Missing,
             replaced |-> FALSE]
NoState  == [p |-> Nothing, h |-> NewHistory, bad |-> FALSE, recorded |-> {}]

Initialized == mem.p # Nothing
InFlight    == IF Initialized THEN Pool(mem.p) \ mem.p.done ELSE {}

\* A host may find nothing, or a project whose first take was cut short.
Crashed == LET p == Begun(NewProject)
           IN  [qrec |-> p, base |-> [seq |-> 0, p |-> NewProject], lines |-> <<>>,
                torn |-> FALSE, head |-> [cursor |-> 0, base |-> 0, next |-> 1, p |-> p]]

Init ==
  /\ \/ disk = Empty /\ dirs = {} /\ promise = [saved |-> Nothing, tried |-> {}]
     \/ disk = Crashed /\ dirs = {1} /\ promise = [saved |-> Crashed.head.p, tried |-> {}]
  /\ unmade = {}
  /\ mem = NoState /\ store = NewStore
  /\ proc = "off" /\ recovery = FALSE /\ requestSaved = FALSE
  /\ run = Nothing /\ todo = <<>>
  /\ hand = "own" /\ lost = FALSE
  /\ faults = 0 /\ crashes = 0 /\ edits = 0

---------------------------------------------------------------------------
\* Outcomes

\* What apply and on_event return: the next state, the history effect with
\* the project of a rewritten base, whether the project is written even if it
\* is as before, and the takes whose folders are made first or deleted last.
Plain == [p |-> mem.p, h |-> mem.h, bad |-> mem.bad, op |-> "none", base |-> Nothing,
          write |-> FALSE, made |-> {}, gone |-> {}]

Writes(o) == o.write \/ o.op # "none" \/ o.p # mem.p

OfCommit(p, q) == LET c == Commit(mem.h, p, q)
                  IN  [Plain EXCEPT !.p = c.p, !.h = c.h, !.op = c.op, !.base = c.base]

OfMove(pos) == LET m == Moved(mem.h, mem.p, pos)
               IN  [Plain EXCEPT !.p = m.p, !.h = m.h, !.op = "cursor"]

Inits == {[Plain EXCEPT !.p = NewProject, !.h = NewHistory, !.bad = FALSE]}

Edits == {OfCommit(mem.p, q) :
            q \in {r \in {[mem.p EXCEPT !.doc = d] : d \in Doc(Pool(mem.p))} :
                     Valid(r) /\ Uses(r.doc) \cap unmade = {} /\ r # mem.p}}

Moves == {OfMove(pos) : pos \in {i \in 0 .. Len(mem.h.entries) :
                                   i # CursorPosition(mem.h) /\ CanMove(mem.h, mem.p, i)}}

\* restore writes even when it moves nothing, and replaces a bad qrec.json.
Restores == {[OfMove(pos) EXCEPT !.bad = FALSE] :
               pos \in {i \in 0 .. Len(mem.h.entries) : CanMove(mem.h, mem.p, i)}}

Clears == IF mem.h.entries = <<>> THEN {}
          ELSE {[Plain EXCEPT !.h = Rewritten(mem.h, <<>>, mem.h.cursor, mem.h.cursor),
                              !.op = "rewrite", !.base = mem.p]}

Purges ==
  {LET r == PurgeRewrite(mem.h, mem.p, takes)
   IN  [Plain EXCEPT !.p = WithoutTakes(mem.p, takes), !.h = r.h, !.op = "rewrite",
                     !.base = r.base, !.gone = takes] :
     takes \in SUBSET (mem.p.done \ Uses(mem.p.doc)) \ {{}}}

\* A number no take of the project and no folder ever had.
FreshNumber == Max({mem.p.num} \cup {t + 1 : t \in dirs})

Starts == IF FreshNumber \notin Take THEN {}
          ELSE LET p == Begun([mem.p EXCEPT !.num = FreshNumber])
               IN  {[Plain EXCEPT !.p = p, !.made = {FreshNumber}]}

\* Commands: a bad qrec.json refuses those that edit the project, and most
\* wait for takes that are recorded or recovered.
Commands ==
  IF ~Initialized THEN Inits
  ELSE IF InFlight # {} THEN {}
  ELSE Starts \cup Restores
       \cup (IF mem.bad THEN {} ELSE Edits \cup Moves \cup Clears \cup Purges)

\* A take ends, and it is placed on the timeline or not.  What a crash left of
\* one is recovered into the bin; one without a folder captured nothing.
TakeEnd(t, placed) ==
  LET facts == [mem.p EXCEPT !.done = @ \cup {t}]
  IN  OfCommit(facts, IF placed THEN [facts EXCEPT !.doc[TL] = @ \cup {t}] ELSE facts)

TakeEnds == {TakeEnd(t, FALSE) : t \in InFlight}
            \cup {TakeEnd(t, TRUE) : t \in (InFlight \cap mem.recorded) \ unmade}

\* project_changed_on_disk
OfExternal(file) ==
  LET q == MergeExternal(mem.p, file, mem.recorded)
  IN  IF file \in {Missing, Broken} THEN [Plain EXCEPT !.bad = TRUE]
      ELSE IF file = mem.p THEN [Plain EXCEPT !.bad = FALSE]
      ELSE IF ~Valid(q) THEN [Plain EXCEPT !.bad = TRUE]
      ELSE [OfCommit(mem.p, q) EXCEPT !.bad = FALSE, !.write = q # file]

---------------------------------------------------------------------------
\* Faults, and what the ghosts remember

Works    == UNCHANGED faults
Fails(f) == f \in Faults /\ <<faults + 1, crashes, edits>> \in Troubles /\ faults' = faults + 1

\* A step of the commit replaces qrec.json by p: an edit nobody has read is
\* lost, unless it came after the check, or the check was given up.
Overwrite(p) ==
  /\ disk' = [disk EXCEPT !.qrec = p]
  /\ hand' = "own"
  /\ lost' = (lost \/ (/\ hand \in {"unseen", "bad"} /\ ~run.forced
                       /\ run.origin \in {"command", "event"}))

Keeps(o) == promise' = [promise EXCEPT !.tried = @ \cup {o.p}]

---------------------------------------------------------------------------
\* Events and commands

Item(what, file) == [what |-> what, file |-> file, attempts |-> 1]

Top == todo[Len(todo)]
Pop == todo' = SubSeq(todo, 1, Len(todo) - 1)
Idle == proc = "on" /\ run = Nothing /\ todo = <<>>

Changed == store.known # disk.qrec

\* The state of an outcome; a take is recorded until it ends.
Becomes(o) ==
  mem' = [p |-> o.p, h |-> o.h, bad |-> o.bad,
          recorded |-> (mem.recorded \cup o.made) \ o.p.done]

Request ==
  /\ Idle
  /\ \E what \in {"command"} \cup (IF InFlight # {} THEN {"takeEnds"} ELSE {}) :
       todo' = <<Item(what, Nothing)>>
  /\ UNCHANGED <<disk, folders, mem, store, session, run, ghosts, counts>>

\* accept_disk, and the edit is merged before anything else.
Accept(outer) ==
  /\ store' = [store EXCEPT !.known = disk.qrec]
  /\ todo' = Append(outer, Item("external", disk.qrec))
  /\ hand' = IF hand = "own" THEN hand ELSE "seen"
  /\ UNCHANGED <<disk, folders, mem, session, run, promise, lost, counts>>

\* handle_disk_changed: the watcher, not in recovery mode.
Noticed == Idle /\ ~recovery /\ Initialized /\ Changed /\ Accept(<<>>)

Outcomes == CASE Top.what = "command"  -> Commands
              [] Top.what = "takeEnds" -> TakeEnds
              [] Top.what = "external" -> {OfExternal(Top.file)}

Origin == IF Top.what = "command" THEN "command" ELSE "event"

Forced == Top.attempts > MaxRedispatch

\* Mutant of MustMerge: only the watcher merges edits.
LeftToTheWatcher(o) == FALSE

\* qrec.json is compared with what this host last wrote or read.
MustMerge(o) == Writes(o) /\ ~Forced /\ Initialized /\ Changed

\* A command that is refused, or an event that found its take gone.
Refuse ==
  /\ Top.what = "command" \/ (Top.what = "takeEnds" /\ InFlight = {})
  /\ Pop
  /\ UNCHANGED <<disk, folders, mem, store, session, run, ghosts, counts>>

\* ExternalFirst: the edit is merged, then the command or event runs again.
MergeFirst(o) ==
  /\ MustMerge(o)
  /\ Accept([todo EXCEPT ![Len(todo)].attempts = @ + 1])

\* Once its outcome is the state, an edit is merged or known to be bad; what
\* was bad is merged or aside when the state no longer is.
Merged(o) ==
  hand' = IF Top.what = "external" /\ o.bad /\ hand = "seen" THEN "bad"
          ELSE IF hand = "bad" /\ ~mem'.bad THEN "seen" ELSE hand

\* Nothing to save.
RunUnsaved(o) ==
  /\ ~Writes(o) /\ Becomes(o) /\ Merged(o)
  /\ Pop
  /\ UNCHANGED <<disk, folders, store, session, run, promise, lost, counts>>

\* Recovery mode holds what an event changed until a request saves.
HeldBack == recovery /\ Origin = "event" /\ ~requestSaved

KeepInMemory(o) ==
  /\ HeldBack
  /\ Writes(o) /\ ~MustMerge(o) /\ Becomes(o) /\ Keeps(o) /\ Merged(o)
  /\ store' = [store EXCEPT !.dirty = TRUE]
  /\ Pop
  /\ UNCHANGED <<disk, folders, session, run, lost, counts>>

\* ... and while qrec.json is unusable only what replaces it may save.
RefusedWhileBad(o) == recovery /\ mem.bad /\ o.bad

OnlyARestoreSaves(o) ==
  /\ ~HeldBack
  /\ Writes(o) /\ ~MustMerge(o) /\ RefusedWhileBad(o)
  /\ Pop
  /\ UNCHANGED <<disk, folders, mem, store, session, run, ghosts, counts>>

---------------------------------------------------------------------------
\* The commit

\* Before it: a bad qrec.json is copied aside for what replaces it, and
\* moved aside for facts.  A failure is only reported.
Aside(o) ==
  IF ~mem.bad THEN Works /\ UNCHANGED <<disk, hand>>
  ELSE \/ /\ Works
          /\ hand' = IF hand = "own" THEN "own" ELSE "seen"
          /\ disk' = IF o.bad THEN [disk EXCEPT !.qrec = Missing] ELSE disk
       \/ /\ Fails("aside") /\ UNCHANGED <<disk, hand>>

Reclaimed(o) == mem.bad /\ o.bad /\ disk'.qrec = Missing

\* Store::mark.
Mark == [qrec |-> disk'.qrec, base |-> disk.base, dirty |-> store.dirty, hasBase |-> store.hasBase,
         pending |-> store.pending, known |-> store'.known, hand |-> hand']

\* mark is Nothing for a commit that is kept when it fails.
Run(o, origin, forced, reclaimed, mark) ==
  [at |-> "base", o |-> o, origin |-> origin, forced |-> forced,
   reclaimed |-> reclaimed, mark |-> mark]

\* Mutant of DirsBefore: a purge deletes its folders before it is saved.
DeletesFirst(o) == (dirs \cup o.made) \ o.gone

\* The folder of a take is there before the project knows of it.
DirsBefore(o) == dirs \cup o.made

\* create_take_dir: a take whose folder can't be made is saved all the same.
MakeDirs(o) ==
  \/ dirs' = DirsBefore(o) /\ unmade' = unmade \ o.made
  \/ "dir" \in Faults /\ o.made # {} /\ unmade' = unmade \cup o.made /\ UNCHANGED dirs

Begin(o) ==
  /\ ~HeldBack
  /\ Writes(o) /\ ~MustMerge(o) /\ ~RefusedWhileBad(o)
  /\ o.h.next <= MaxSeq + 1
  /\ MakeDirs(o)
  /\ Aside(o)
  /\ store' = [store EXCEPT !.replaced = FALSE,
                            !.known = IF Reclaimed(o) THEN Missing ELSE @]
  /\ run' = Run(o, Origin, Forced, Reclaimed(o),
                IF Origin = "command" /\ ~Reclaimed(o) THEN Mark ELSE Nothing)
  /\ UNCHANGED <<mem, session, todo, promise, lost, crashes, edits>>

\* run_event and dispatch: the innermost of todo runs.
Dispatch ==
  /\ run = Nothing /\ todo # <<>>
  /\ \/ Refuse
     \/ \E o \in Outcomes :
          MergeFirst(o) \/ RunUnsaved(o) \/ KeepInMemory(o) \/ OnlyARestoreSaves(o) \/ Begin(o)


\* The base a commit writes first: a rewrite's, one still to be written, or
\* that of a project's first history.
BaseToWrite(o) ==
  IF o.op = "rewrite" THEN [seq |-> o.h.base, p |-> o.base]
  ELSE IF store.pending # Nothing \/ store.hasBase THEN store.pending
  ELSE IF o.h.entries = <<>> THEN [seq |-> o.h.base, p |-> o.p]
  ELSE IF mem.h.entries = <<>> /\ Initialized THEN [seq |-> mem.h.base, p |-> mem.p]
  ELSE Nothing

Goes(at) == run' = [run EXCEPT !.at = at]

CommitBase ==
  LET base == BaseToWrite(run.o)
  IN  /\ run # Nothing /\ run.at = "base"
      /\ \/ base = Nothing /\ Works /\ Goes("lines") /\ UNCHANGED <<disk, store>>
         \/ /\ base # Nothing /\ Works /\ Goes("lines")
            /\ disk' = [disk EXCEPT !.base = base]
            /\ store' = [store EXCEPT !.pending = Nothing, !.replaced = store.hasBase,
                                      !.hasBase = TRUE]
         \/ /\ base # Nothing /\ Fails("base") /\ Goes("failed")
            /\ store' = [store EXCEPT !.pending = base] /\ UNCHANGED disk
      /\ UNCHANGED <<folders, mem, session, todo, ghosts, crashes, edits>>

HasRedoTail(h) == h.entries # <<>> /\ LastSeq(h.entries, 0) > h.cursor

\* Mutant of Appends: also when the file needs repair.
AppendsToAny(o) == o.op = "append" /\ ~HasRedoTail(mem.h)

\* One line is appended only to a file that holds the history so far.
Appends(o) == o.op = "append" /\ ~store.dirty /\ ~HasRedoTail(mem.h)

CommitLines ==
  LET o    == run.o
      more == [disk EXCEPT !.lines = Append(@, o.h.entries[Len(o.h.entries)])]
      all  == [disk EXCEPT !.lines = o.h.entries, !.torn = FALSE]
      skip == o.op = "none" /\ ~store.dirty
  IN  /\ run # Nothing /\ run.at = "lines"
      /\ \/ Works /\ Goes("project")
            /\ disk' = IF skip THEN disk ELSE IF Appends(o) THEN more ELSE all
         \/ /\ Appends(o) /\ Fails("append") /\ Goes("failed")
            /\ disk' \in {disk, more, [disk EXCEPT !.torn = TRUE]}
         \/ ~skip /\ ~Appends(o) /\ Fails("lines") /\ Goes("failed") /\ UNCHANGED disk
      /\ UNCHANGED <<folders, mem, store, session, todo, ghosts, crashes, edits>>

CommitProject ==
  /\ run # Nothing /\ run.at = "project"
  /\ \/ /\ Works /\ Goes("head") /\ Overwrite(run.o.p)
        /\ store' = [store EXCEPT !.known = run.o.p]
     \/ /\ Fails("project") /\ Goes("failed")
        /\ UNCHANGED <<disk, store, hand, lost>>
     \/ /\ Fails("projectSync") /\ Goes("failed") /\ Overwrite(run.o.p) /\ UNCHANGED store
  /\ UNCHANGED <<folders, mem, session, todo, promise, crashes, edits>>

\* Mutant of HeadOf: the project before the change.
HeadOfPrevious(o) == [cursor |-> o.h.cursor, base |-> o.h.base, next |-> o.h.next,
                      p |-> IF Initialized THEN mem.p ELSE o.p]

HeadOf(o) == [cursor |-> o.h.cursor, base |-> o.h.base, next |-> o.h.next, p |-> o.p]

\* What follows a commit that is over: the next of todo, the first request
\* of an open, or the end of the process.
Ends == /\ run' = Nothing
        /\ IF run.origin \in {"command", "event"} THEN Pop ELSE UNCHANGED todo
        /\ proc' = CASE run.origin = "open" -> "on" [] run.origin = "exit" -> "off" [] OTHER -> proc
        /\ UNCHANGED recovery

CommitHead ==
  /\ run # Nothing /\ run.at = "head"
  /\ \/ /\ Works
        /\ disk' = [disk EXCEPT !.head = HeadOf(run.o)]
        /\ store' = [store EXCEPT !.dirty = FALSE]
        /\ Becomes([run.o EXCEPT !.bad = @ /\ ~run.reclaimed])
        /\ promise' = [saved |-> run.o.p, tried |-> {}]
        /\ requestSaved' = (requestSaved \/ run.origin = "command")
        /\ \E left \in SUBSET run.o.gone : dirs' = dirs \ (run.o.gone \ left)
        /\ UNCHANGED unmade
        /\ IF run.origin \in {"command", "event"} THEN Merged(run.o) ELSE UNCHANGED hand
        /\ Ends /\ UNCHANGED lost
     \/ /\ \/ Fails("head") /\ UNCHANGED disk
           \/ Fails("headSync") /\ disk' = [disk EXCEPT !.head = HeadOf(run.o)]
        /\ Goes("failed")
        /\ UNCHANGED <<folders, mem, store, session, todo, ghosts>>
  /\ UNCHANGED <<crashes, edits>>

\* A failed commit of a command is taken back, any other change is kept.
CommitFailed ==
  /\ run # Nothing /\ run.at = "failed"
  /\ Goes(IF run.mark # Nothing THEN "dropProject" ELSE "keep")
  /\ store' = [store EXCEPT !.dirty = TRUE]
  /\ UNCHANGED <<disk, folders, mem, session, todo, ghosts, counts>>

KeepUnsaved ==
  /\ run # Nothing /\ run.at = "keep"
  /\ Becomes(run.o) /\ Keeps(run.o)
  /\ IF run.origin \in {"command", "event"} THEN Merged(run.o) ELSE UNCHANGED hand
  /\ Ends
  /\ UNCHANGED <<disk, folders, store, requestSaved, lost, counts>>

---------------------------------------------------------------------------
\* drop_commit

DropProject ==
  /\ run # Nothing /\ run.at = "dropProject"
  /\ \/ /\ Works /\ Goes("dropBase")
        /\ disk' = [disk EXCEPT !.qrec = run.mark.qrec]
        /\ hand' = run.mark.hand
        /\ store' = [store EXCEPT !.known = run.mark.known]
     \/ /\ disk.qrec # run.mark.qrec /\ Fails("putBack") /\ Goes("keep")
        /\ \/ UNCHANGED <<disk, hand>>
           \/ /\ disk' = [disk EXCEPT !.qrec = run.mark.qrec]
              /\ hand' = IF run.mark.hand = "unseen" /\ run.mark.qrec = store.known
                         THEN "seen" ELSE run.mark.hand
        /\ UNCHANGED store
  /\ UNCHANGED <<folders, mem, session, todo, promise, lost, crashes, edits>>

DropBase ==
  LET puts    == store.replaced /\ run.o.op = "rewrite"
      removes == ~run.mark.hasBase /\ store.hasBase
      now     == [store EXCEPT !.replaced = IF puts THEN FALSE ELSE @,
                               !.pending = run.mark.pending]
  IN  /\ run # Nothing /\ run.at = "dropBase"
      /\ \/ /\ Works /\ Goes("dropLines")
            /\ disk' = [disk EXCEPT !.base = IF puts THEN run.mark.base
                                             ELSE IF removes THEN Nothing ELSE @]
            /\ store' = [now EXCEPT !.hasBase = @ /\ ~removes]
         \/ puts /\ Fails("putBase") /\ Goes("keep") /\ UNCHANGED <<disk, store>>
         \/ /\ removes /\ Fails("removeBase") /\ Goes("dropLines")
            /\ store' = now /\ UNCHANGED disk
      /\ promise' = IF removes /\ store'.hasBase
                    THEN [promise EXCEPT !.tried = @ \cup {run.o.p}] ELSE promise
      /\ UNCHANGED <<folders, mem, session, todo, hand, lost, crashes, edits>>

\* Mutant of Repaired: the store is clean whatever it was before.
AlwaysRepaired == TRUE

\* The files matched the state before: once the history does, they do again.
Repaired == ~run.mark.dirty

DropLines ==
  /\ run # Nothing /\ run.at = "dropLines"
  /\ \/ /\ Works
        /\ disk' = IF Repaired THEN [disk EXCEPT !.lines = mem.h.entries, !.torn = FALSE] ELSE disk
        /\ store' = [store EXCEPT !.dirty = ~Repaired]
     \/ Repaired /\ Fails("putLines") /\ UNCHANGED <<disk, store>>
  /\ Ends
  /\ UNCHANGED <<folders, mem, requestSaved, ghosts, crashes, edits>>

---------------------------------------------------------------------------
\* Opening, closing, crashing, editing

Started(rec) == /\ proc = "off"
                /\ recovery' = rec
                /\ requestSaved' = FALSE
                /\ UNCHANGED <<run, folders, disk, lost, counts>>

OpenEmpty ==
  /\ Started(FALSE)
  /\ IsEmptyFolder(disk)
  /\ proc' = "on"
  /\ mem' = NoState /\ store' = NewStore
  /\ UNCHANGED <<todo, promise, hand>>

\* l is what was loaded.
Loaded(l) ==
  /\ mem' = [p |-> l.p, h |-> l.h, bad |-> ~Usable(disk), recorded |-> {}]
  /\ store' = [dirty |-> l.repair \/ l.base # Nothing, hasBase |-> disk.base # Nothing,
               pending |-> IF l.base = Nothing THEN Nothing ELSE [seq |-> l.h.base, p |-> l.base],
               known |-> disk.qrec, replaced |-> FALSE]
  /\ todo' = LET e == External(disk, l) IN IF e = Nothing THEN <<>> ELSE <<Item("external", e)>>
  /\ promise' = [promise EXCEPT !.tried = @ \cup {l.p}]

Open(rec) ==
  /\ Started(rec)
  /\ ~IsEmptyFolder(disk) /\ ~Refused(disk, rec)
  /\ proc' = "opening"
  /\ Loaded(Load(disk, rec, dirs))
  /\ hand' = IF hand = "own" THEN "own" ELSE IF disk.qrec = Broken THEN "bad" ELSE "seen"

\* A host's open writes the repairs; recovery mode and a bad file hold them.
Opened ==
  /\ proc = "opening" /\ run = Nothing /\ todo = <<>>
  /\ LET o == Plain
         repairs == store.dirty /\ ~recovery /\ ~mem.bad
     IN  /\ proc' = IF repairs THEN proc ELSE "on"
         /\ run' = IF repairs THEN Run(o, "open", FALSE, FALSE, Nothing) ELSE Nothing
  /\ UNCHANGED <<disk, folders, mem, store, recovery, requestSaved, todo, ghosts, counts>>

\* Drop for Session: one last try to save what is only in memory.
Close ==
  /\ Idle
  /\ LET o    == Plain
         last == /\ store.dirty /\ ~mem.bad /\ Initialized
                 /\ recovery => requestSaved
     IN  /\ proc' = IF last THEN proc ELSE "off"
         /\ run' = IF last THEN Run(o, "exit", FALSE, FALSE, Nothing) ELSE Nothing
  /\ UNCHANGED <<disk, folders, mem, store, recovery, requestSaved, todo, ghosts, counts>>

Crash ==
  /\ proc # "off" /\ <<faults, crashes + 1, edits>> \in Troubles
  /\ crashes' = crashes + 1
  /\ proc' = "off" /\ recovery' = FALSE /\ requestSaved' = FALSE
  /\ mem' = NoState /\ store' = NewStore /\ run' = Nothing /\ todo' = <<>>
  /\ promise' = IF run = Nothing THEN promise
                ELSE [promise EXCEPT !.tried = @ \cup {run.o.p}]
  /\ UNCHANGED <<disk, folders, hand, lost, faults, edits>>

\* The last good text with another scene, or one no program can read, or
\* none.  An edit after a commit's check is overwritten by it.
HandEdit ==
  /\ <<faults, crashes, edits + 1>> \in Troubles /\ disk.head # Nothing
  /\ edits' = edits + 1
  /\ \E file \in {Missing, Broken} \cup
                 {[p EXCEPT !.doc[SC] = s] :
                    s \in Scene, p \in {IF Usable(disk) THEN disk.qrec ELSE disk.head.p}} :
       /\ file # disk.qrec
       /\ disk' = [disk EXCEPT !.qrec = file]
       /\ hand' = IF file = Missing THEN "own"
                  ELSE IF file # store.known THEN "unseen"
                  ELSE IF mem.bad THEN "bad" ELSE "seen"
  /\ run' = IF run # Nothing /\ run.at \in {"base", "lines", "project"}
            THEN [run EXCEPT !.forced = TRUE] ELSE run
  /\ UNCHANGED <<folders, mem, store, session, todo, promise, lost, faults, crashes>>

Next ==
  \/ OpenEmpty \/ \E rec \in BOOLEAN : Open(rec)
  \/ Opened \/ Close \/ Crash \/ HandEdit
  \/ Request \/ Noticed \/ Dispatch
  \/ CommitBase \/ CommitLines \/ CommitProject \/ CommitHead \/ CommitFailed \/ KeepUnsaved
  \/ DropProject \/ DropBase \/ DropLines

Spec == Init /\ [][Next]_vars

---------------------------------------------------------------------------
Promised == {promise.saved} \cup promise.tried \cup (IF run = Nothing THEN {} ELSE {run.o.p})

\* A crash at any step of a commit, of taking one back or of an open leaves
\* files a new open makes a project of that was saved or was being saved,
\* even when qrec.json itself is lost (A§7.6, A§7.7); or an edit by hand that
\* reads as what the commit was saving.
ReopenFindsAPromise ==
  disk # Empty =>
    /\ ~Refused(disk, TRUE)
    /\ LET p == Load(disk, TRUE, dirs).p
       IN  p \in Promised \/ (hand # "own" /\ p = disk.qrec)

\* ... and a history whose every entry undoes and redoes.
ReopenedHistoryHolds ==
  disk # Empty /\ ~Refused(disk, TRUE) =>
    LET l == Load(disk, TRUE, dirs)
        s == States(l.h, l.p.doc)
    IN  Known(l.h, l.h.cursor) /\ \A i \in DOMAIN s : s[i] # Drifted

\* A store that has nothing to repair matches the files: a commit may append
\* one line, and what a failed one did is undone.
CleanStoreMatchesDisk ==
  proc # "off" /\ run = Nothing /\ Initialized /\ ~store.dirty =>
    /\ disk.lines = mem.h.entries /\ ~disk.torn
    /\ disk.head = HeadOf(mem)
    /\ todo = <<>> /\ ~mem.bad /\ hand = "own" /\ disk.qrec # Missing => disk.qrec = mem.p

\* The base is where the history begins, in a store with nothing to repair.
BaseIsWhereHistoryBegins ==
  proc # "off" /\ run = Nothing /\ Initialized /\ ~store.dirty /\ disk.base # Nothing =>
    disk.base.seq = mem.h.base


\* The commit of a restore rewrites everything that was held back until then
\* (docs/ARCHITECTURE.md:1365).
RestoreRewritesTheBase == recovery => BaseIsWhereHistoryBegins

\* A crash in a commit of a store that had nothing to repair leaves a
\* qrec.json that is finished or merges: what Qrec wrote itself is never
\* found invalid, for want of the facts a merge ignores.
OwnFilesMerge ==
  run # Nothing /\ ~store.dirty /\ hand = "own" /\ ~Refused(disk, FALSE) =>
    LET l == Load(disk, FALSE, dirs)
        e == External(disk, l)
    IN  e # Nothing => Valid(MergeExternal(l.p, e, {}))

\* Every take a reopened project knows has its folder, with its media, but
\* for those whose folder could not be made (effects.rs, create_take_dir):
\* no purge that fails or is taken back has deleted one.
TakesHaveFolders ==
  disk # Empty /\ ~Refused(disk, TRUE) =>
    Pool(Load(disk, TRUE, dirs).p) \subseteq dirs \cup unmade

\* No command or event replaces a qrec.json that was edited by hand before
\* the host has merged it or put it aside.
EditsAreKept == ~lost
=============================================================================
