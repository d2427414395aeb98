-------------------------- MODULE OutputJobsProofs --------------------------
(* What OutputJobs states of cancels, of the table and of the take that is *)
(* read, proved for any number of requesters, whether or not the host      *)
(* keeps the jobs of who left, and for any number of files that other      *)
(* programs put in the way.                                                *)
EXTENDS OutputJobs, SequenceTheorems, TLAPS

\* An event of a job's end is sent by a thread that did everything else.
EventsAreLast == \A i \in 1..Len(inbox) : inbox[i].ev # "gone" => pc[inbox[i].job] = "done"

\* A thread has a kind, stays on the path of its kind and keeps its job in the table.
ThreadsAreJobs == \A j \in Reqs :
    /\ kind[j] = "none" <=> pc[j] = "none"
    /\ kind[j] = "purge" => pc[j] \in {"open", "done"}
    /\ kind[j] = "frame" => pc[j] \notin {"render", "join", "retry", "clear", "resume"}
    /\ pc[j] \notin {"none", "done"} => j \in table

\* A take is purged from the bin, and its folder deleted after that.
TakeIsHeld ==
    /\ clip => take
    /\ take => dir
    /\ \A j \in Reqs : Reading(j) => take
    /\ \A j \in Reqs : kind[j] = "purge" /\ pc[j] = "open" => ~take

IInv == TypeOK /\ CancelHolds /\ EventsAreLast /\ ThreadsAreJobs /\ JobsReport /\ TakeIsHeld

LEMMA InitIInv == Init => IInv
<1> SUFFICES ASSUME Init PROVE IInv
  OBVIOUS
<1> USE JobsAssumption DEF Init, Media, Places, Words
<1>1. TypeOK
  <2>1. <<>> \in Seq([ev : Words \cup {"gone"}, job : Reqs])
    OBVIOUS
  <2>2. 0 \in 0..MaxFile
    OBVIOUS
  <2> QED
    BY <2>1, <2>2 DEF TypeOK
<1>2. CancelHolds /\ EventsAreLast /\ JobsReport
  BY DEF CancelHolds, EventsAreLast, JobsReport
<1>3. ThreadsAreJobs /\ TakeIsHeld
  BY DEF ThreadsAreJobs, TakeIsHeld, Reading
<1> QED
  BY <1>1, <1>2, <1>3 DEF IInv

----------------------------------------------------------------------------
\* Types.
LEMMA TypeStep ==
  ASSUME TypeOK, [Next]_vars
  PROVE  TypeOK'
<1> USE DEF TypeOK, Places, Words, Media, At, Goto, ThreadKeeps, outVars, threadVars,
           flagVars, sessionVars, cancelVars, takeVars
<1>1. ASSUME HandleEvent PROVE TypeOK'
  <2> DEFINE m == Head(inbox)
  <2> DEFINE E == [ev : Words \cup {"gone"}, job : Reqs]
  <2>1. m \in E /\ inbox' \in Seq(E)
    <3>1. inbox \in Seq(E) /\ inbox # <<>> /\ inbox' = Tail(inbox)
      BY <1>1 DEF HandleEvent
    <3> QED
      BY <3>1, HeadTailProperties
  <2>2. CASE m.ev = "gone"
    BY <1>1, <2>1, <2>2 DEF HandleEvent, RequesterGone, StartCancel
  <2>3. CASE m.ev # "gone"
    <3>1. m.ev \in Words /\ m.job \in Reqs
      BY <2>1, <2>3
    <3>2. JobEnds(m)
      BY <1>1, <2>3 DEF HandleEvent
    <3>3. answers' \in [Reqs -> Words]
      BY <3>1, <3>2 DEF JobEnds, Tell
    <3> QED
      BY <1>1, <2>1, <3>2, <3>3 DEF HandleEvent, JobEnds
  <2> QED
    BY <2>2, <2>3
<1>2. ASSUME CancelStop PROVE TypeOK'
  BY <1>2, JobsAssumption DEF CancelStop
<1>3. ASSUME NEW j \in Reqs, CancelJob(j) PROVE TypeOK'
  BY <1>3, JobsAssumption DEF CancelJob
<1>4. ASSUME ExportCancel PROVE TypeOK'
  BY <1>4, JobsAssumption DEF ExportCancel, StartCancel, RunningExport
<1>5. ASSUME HandleInterrupt PROVE TypeOK'
  BY <1>5, JobsAssumption DEF HandleInterrupt, StartCancel
<1>6. ASSUME EditTimeline PROVE TypeOK'
  BY <1>6, JobsAssumption DEF EditTimeline
<1>7. ASSUME NEW r \in Reqs, NEW what \in Media, NEW dest \in Dests, NEW vaapi \in BOOLEAN,
             Render(r, what, dest, vaapi)
        PROVE  TypeOK'
  BY <1>7, JobsAssumption DEF Render, Insert, Fresh
<1>8. ASSUME NEW r \in Reqs, NEW what \in Media, NEW dest \in Dests, RenderRefused(r, what, dest)
        PROVE  TypeOK'
  BY <1>8, JobsAssumption DEF RenderRefused, Refuse, Tell
<1>9. ASSUME NEW r \in Reqs, TakePurge(r) PROVE TypeOK'
  BY <1>9, JobsAssumption DEF TakePurge, Insert, Fresh, JobReading
<1>10. ASSUME NEW r \in Reqs, TakePurgeRefused(r) PROVE TypeOK'
  BY <1>10, JobsAssumption, ZenonT(60) DEF TakePurgeRefused, Refuse, Tell
<1>11. ASSUME NEW r \in Reqs, Disconnect(r) PROVE TypeOK'
  BY <1>11, JobsAssumption DEF Disconnect
<1>12. ASSUME NEW j \in Reqs, Open(j) PROVE TypeOK'
  BY <1>12, JobsAssumption, SMTT(30) DEF Open, WithTemp, Ends, Goes, Quiet
<1>13. ASSUME NEW j \in Reqs, Stopped(j) PROVE TypeOK'
  BY <1>13, JobsAssumption DEF Stopped, Ends, CancelledWord, Quiet
<1>14. ASSUME NEW j \in Reqs, Clear(j) PROVE TypeOK'
  BY <1>14, JobsAssumption DEF Clear
<1>15. ASSUME NEW j \in Reqs, Resume(j) PROVE TypeOK'
  BY <1>15, JobsAssumption DEF Resume
<1>16. ASSUME NEW j \in Reqs, Place(j) PROVE TypeOK'
  <2>1. CASE Look(j)
    BY <2>1, JobsAssumption DEF Look, Ends, Goes, Quiet
  <2>2. CASE RenameNew(j)
    <3>1. CASE Placed(j)
      BY <2>2, <3>1 DEF RenameNew, Placed, Comes, Output, Ends
    <3>2. CASE Appeared(j)
      BY <2>2, <3>2 DEF RenameNew, Appeared
    <3>3. CASE Numbered(j)
      BY <2>2, <3>3 DEF RenameNew, Numbered, Ends
    <3>4. CASE NotPlaced(j)
      BY <2>2, <3>4 DEF RenameNew, NotPlaced, Ends
    <3> QED
      BY <2>2, <3>1, <3>2, <3>3, <3>4 DEF RenameNew
  <2> QED
    BY <1>16, <2>1, <2>2 DEF Place
<1>17. ASSUME NEW j \in Reqs, RenameOver(j) PROVE TypeOK'
  BY <1>17, JobsAssumption DEF RenameOver, Placed, NotPlaced, Appeared, Comes, Output, Ends, Goes
<1>18. ASSUME NEW j \in Reqs, DeleteDirs(j) PROVE TypeOK'
  BY <1>18, JobsAssumption DEF DeleteDirs
<1>19. ASSUME NEW j \in Reqs, Leave(j) PROVE TypeOK'
  BY <1>19, JobsAssumption DEF Leave
<1>20. ASSUME NEW j \in Reqs, Rendered(j) PROVE TypeOK'
  BY <1>20, JobsAssumption DEF Rendered, WithTemp, Ends, Quiet
<1>21. ASSUME NEW j \in Reqs, RenderFails(j) PROVE TypeOK'
  BY <1>21, JobsAssumption DEF RenderFails, Ends, Goes
<1>22. ASSUME NEW j \in Reqs, Written(j) PROVE TypeOK'
  BY <1>22, JobsAssumption DEF Written, Ends, Goes, CancelledWord, Quiet
<1>23. ASSUME NEW j \in Reqs, Panic(j) PROVE TypeOK'
  BY <1>23, JobsAssumption DEF Panic, Ends, Quiet
<1>24. ASSUME OtherWrites PROVE TypeOK'
  BY <1>24, JobsAssumption DEF OtherWrites, Comes
<1>25. ASSUME OtherDeletes PROVE TypeOK'
  BY <1>25, JobsAssumption DEF OtherDeletes
<1>26. ASSUME UNCHANGED vars PROVE TypeOK'
  BY <1>26, JobsAssumption DEF vars
<1>27. ASSUME NEW j \in Reqs, Joined(j) PROVE TypeOK'
  BY <1>27, JobsAssumption DEF Joined, Ends, Goes, Quiet
<1>28. ASSUME NEW j \in Reqs, Retry(j) PROVE TypeOK'
  BY <1>28, JobsAssumption DEF Retry, Ends, Goes, Quiet
<1> QED
  BY <1>1, <1>2, <1>3, <1>4, <1>5, <1>6, <1>7, <1>8, <1>9, <1>10, <1>11, <1>12, <1>13, <1>14,
     <1>15, <1>16, <1>17, <1>18, <1>19, <1>20, <1>21, <1>22, <1>23, <1>24, <1>25, <1>26,
     <1>27, <1>28
  DEF Next, SessionStep, ThreadStep, ChildEnds, Command

\* A cancel under way keeps its job at half, and a retry looks again.
LEMMA CancelStep ==
  ASSUME TypeOK, ThreadsAreJobs, CancelHolds, [Next]_vars
  PROVE  CancelHolds'
<1> USE DEF CancelHolds, ThreadsAreJobs, TypeOK, Places, Media, At, Goto, ThreadKeeps,
           outVars, threadVars, flagVars, sessionVars, cancelVars, takeVars
<1>1. ASSUME HandleEvent PROVE CancelHolds'
  BY <1>1, JobsAssumption DEF HandleEvent, JobEnds, RequesterGone, StartCancel, Tell
<1>2. ASSUME CancelStop PROVE CancelHolds'
  BY <1>2, JobsAssumption DEF CancelStop
<1>3. ASSUME NEW j \in Reqs, CancelJob(j) PROVE CancelHolds'
  BY <1>3, JobsAssumption DEF CancelJob
<1>4. ASSUME ExportCancel PROVE CancelHolds'
  BY <1>4, JobsAssumption DEF ExportCancel, StartCancel, RunningExport
<1>5. ASSUME HandleInterrupt PROVE CancelHolds'
  BY <1>5, JobsAssumption DEF HandleInterrupt, StartCancel
<1>6. ASSUME EditTimeline PROVE CancelHolds'
  BY <1>6, JobsAssumption DEF EditTimeline
<1>7. ASSUME NEW r \in Reqs, NEW what \in Media, NEW dest \in Dests, NEW vaapi \in BOOLEAN,
             Render(r, what, dest, vaapi)
        PROVE  CancelHolds'
  BY <1>7, JobsAssumption DEF Render, Insert, Fresh
<1>8. ASSUME NEW r \in Reqs, NEW what \in Media, NEW dest \in Dests, RenderRefused(r, what, dest)
        PROVE  CancelHolds'
  BY <1>8, JobsAssumption DEF RenderRefused, Refuse, Tell
<1>9. ASSUME NEW r \in Reqs, TakePurge(r) PROVE CancelHolds'
  BY <1>9, JobsAssumption DEF TakePurge, Insert, Fresh, JobReading
<1>10. ASSUME NEW r \in Reqs, TakePurgeRefused(r) PROVE CancelHolds'
  BY <1>10, JobsAssumption DEF TakePurgeRefused, Refuse, Tell
<1>11. ASSUME NEW r \in Reqs, Disconnect(r) PROVE CancelHolds'
  BY <1>11, JobsAssumption DEF Disconnect
<1>12. ASSUME NEW j \in Reqs, Open(j) PROVE CancelHolds'
  BY <1>12, JobsAssumption DEF Open, WithTemp, Ends, Goes, Quiet
<1>13. ASSUME NEW j \in Reqs, Stopped(j) PROVE CancelHolds'
  BY <1>13, JobsAssumption DEF Stopped, Ends, CancelledWord, Quiet
<1>14. ASSUME NEW j \in Reqs, Clear(j) PROVE CancelHolds'
  BY <1>14, JobsAssumption DEF Clear
<1>15. ASSUME NEW j \in Reqs, Resume(j) PROVE CancelHolds'
  BY <1>15, JobsAssumption DEF Resume
<1>16. ASSUME NEW j \in Reqs, Place(j) PROVE CancelHolds'
  BY <1>16, JobsAssumption DEF Place, Look, RenameNew, Placed, Numbered, NotPlaced, Appeared, Comes, Output, Ends, Goes, Quiet
<1>17. ASSUME NEW j \in Reqs, RenameOver(j) PROVE CancelHolds'
  BY <1>17, JobsAssumption DEF RenameOver, Placed, NotPlaced, Appeared, Comes, Output, Ends, Goes
<1>18. ASSUME NEW j \in Reqs, DeleteDirs(j) PROVE CancelHolds'
  BY <1>18, JobsAssumption DEF DeleteDirs
<1>19. ASSUME NEW j \in Reqs, Leave(j) PROVE CancelHolds'
  BY <1>19, JobsAssumption DEF Leave
<1>20. ASSUME NEW j \in Reqs, Rendered(j) PROVE CancelHolds'
  BY <1>20, JobsAssumption DEF Rendered, WithTemp, Ends, Quiet
<1>21. ASSUME NEW j \in Reqs, RenderFails(j) PROVE CancelHolds'
  BY <1>21, JobsAssumption DEF RenderFails, Ends, Goes
<1>22. ASSUME NEW j \in Reqs, Written(j) PROVE CancelHolds'
  BY <1>22, JobsAssumption DEF Written, Ends, Goes, CancelledWord, Quiet
<1>23. ASSUME NEW j \in Reqs, Panic(j) PROVE CancelHolds'
  BY <1>23, JobsAssumption DEF Panic, Ends, Quiet
<1>24. ASSUME OtherWrites PROVE CancelHolds'
  BY <1>24, JobsAssumption DEF OtherWrites, Comes
<1>25. ASSUME OtherDeletes PROVE CancelHolds'
  BY <1>25, JobsAssumption DEF OtherDeletes
<1>26. ASSUME UNCHANGED vars PROVE CancelHolds'
  BY <1>26, JobsAssumption DEF vars
<1>27. ASSUME NEW j \in Reqs, Joined(j) PROVE CancelHolds'
  BY <1>27, JobsAssumption DEF Joined, Ends, Goes, Quiet
<1>28. ASSUME NEW j \in Reqs, Retry(j) PROVE CancelHolds'
  BY <1>28, JobsAssumption DEF Retry, Ends, Goes, Quiet
<1> QED
  BY <1>1, <1>2, <1>3, <1>4, <1>5, <1>6, <1>7, <1>8, <1>9, <1>10, <1>11, <1>12, <1>13, <1>14,
     <1>15, <1>16, <1>17, <1>18, <1>19, <1>20, <1>21, <1>22, <1>23, <1>24, <1>25, <1>26,
     <1>27, <1>28
  DEF Next, SessionStep, ThreadStep, ChildEnds, Command

\* Threads.
LEMMA ThreadsStep ==
  ASSUME TypeOK, EventsAreLast, ThreadsAreJobs, [Next]_vars
  PROVE  ThreadsAreJobs'
<1> USE DEF ThreadsAreJobs, EventsAreLast, TypeOK, Places, Media, At, Goto, ThreadKeeps,
           outVars, threadVars, flagVars, sessionVars, cancelVars, takeVars
<1>1. ASSUME HandleEvent PROVE ThreadsAreJobs'
  BY <1>1 DEF HandleEvent, JobEnds, RequesterGone, StartCancel, Tell
<1>2. ASSUME CancelStop PROVE ThreadsAreJobs'
  BY <1>2 DEF CancelStop
<1>3. ASSUME NEW j \in Reqs, CancelJob(j) PROVE ThreadsAreJobs'
  BY <1>3 DEF CancelJob
<1>4. ASSUME ExportCancel PROVE ThreadsAreJobs'
  BY <1>4 DEF ExportCancel, StartCancel, RunningExport
<1>5. ASSUME HandleInterrupt PROVE ThreadsAreJobs'
  BY <1>5 DEF HandleInterrupt, StartCancel
<1>6. ASSUME EditTimeline PROVE ThreadsAreJobs'
  BY <1>6 DEF EditTimeline
<1>7. ASSUME NEW r \in Reqs, NEW what \in Media, NEW dest \in Dests, NEW vaapi \in BOOLEAN,
             Render(r, what, dest, vaapi)
        PROVE  ThreadsAreJobs'
  BY <1>7 DEF Render, Insert, Fresh
<1>8. ASSUME NEW r \in Reqs, NEW what \in Media, NEW dest \in Dests, RenderRefused(r, what, dest)
        PROVE  ThreadsAreJobs'
  BY <1>8 DEF RenderRefused, Refuse, Tell
<1>9. ASSUME NEW r \in Reqs, TakePurge(r) PROVE ThreadsAreJobs'
  BY <1>9 DEF TakePurge, Insert, Fresh, JobReading
<1>10. ASSUME NEW r \in Reqs, TakePurgeRefused(r) PROVE ThreadsAreJobs'
  BY <1>10 DEF TakePurgeRefused, Refuse, Tell
<1>11. ASSUME NEW r \in Reqs, Disconnect(r) PROVE ThreadsAreJobs'
  BY <1>11 DEF Disconnect
<1>12. ASSUME NEW j \in Reqs, Open(j) PROVE ThreadsAreJobs'
  BY <1>12 DEF Open, WithTemp, Ends, Goes, Quiet
<1>13. ASSUME NEW j \in Reqs, Stopped(j) PROVE ThreadsAreJobs'
  BY <1>13 DEF Stopped, Ends, CancelledWord, Quiet
<1>14. ASSUME NEW j \in Reqs, Clear(j) PROVE ThreadsAreJobs'
  BY <1>14 DEF Clear
<1>15. ASSUME NEW j \in Reqs, Resume(j) PROVE ThreadsAreJobs'
  BY <1>15 DEF Resume
<1>16. ASSUME NEW j \in Reqs, Place(j) PROVE ThreadsAreJobs'
  BY <1>16 DEF Place, Look, RenameNew, Placed, Numbered, NotPlaced, Appeared, Comes, Output, Ends, Goes, Quiet
<1>17. ASSUME NEW j \in Reqs, RenameOver(j) PROVE ThreadsAreJobs'
  BY <1>17 DEF RenameOver, Placed, NotPlaced, Appeared, Comes, Output, Ends, Goes
<1>18. ASSUME NEW j \in Reqs, DeleteDirs(j) PROVE ThreadsAreJobs'
  BY <1>18 DEF DeleteDirs
<1>19. ASSUME NEW j \in Reqs, Leave(j) PROVE ThreadsAreJobs'
  BY <1>19 DEF Leave
<1>20. ASSUME NEW j \in Reqs, Rendered(j) PROVE ThreadsAreJobs'
  BY <1>20 DEF Rendered, WithTemp, Ends, Quiet
<1>21. ASSUME NEW j \in Reqs, RenderFails(j) PROVE ThreadsAreJobs'
  BY <1>21 DEF RenderFails, Ends, Goes
<1>22. ASSUME NEW j \in Reqs, Written(j) PROVE ThreadsAreJobs'
  BY <1>22 DEF Written, Ends, Goes, CancelledWord, Quiet
<1>23. ASSUME NEW j \in Reqs, Panic(j) PROVE ThreadsAreJobs'
  BY <1>23 DEF Panic, Ends, Quiet
<1>24. ASSUME OtherWrites PROVE ThreadsAreJobs'
  BY <1>24 DEF OtherWrites, Comes
<1>25. ASSUME OtherDeletes PROVE ThreadsAreJobs'
  BY <1>25 DEF OtherDeletes
<1>26. ASSUME UNCHANGED vars PROVE ThreadsAreJobs'
  BY <1>26 DEF vars
<1>27. ASSUME NEW j \in Reqs, Joined(j) PROVE ThreadsAreJobs'
  BY <1>27 DEF Joined, Ends, Goes, Quiet
<1>28. ASSUME NEW j \in Reqs, Retry(j) PROVE ThreadsAreJobs'
  BY <1>28 DEF Retry, Ends, Goes, Quiet
<1> QED
  BY <1>1, <1>2, <1>3, <1>4, <1>5, <1>6, <1>7, <1>8, <1>9, <1>10, <1>11, <1>12, <1>13, <1>14,
     <1>15, <1>16, <1>17, <1>18, <1>19, <1>20, <1>21, <1>22, <1>23, <1>24, <1>25, <1>26,
     <1>27, <1>28
  DEF Next, SessionStep, ThreadStep, ChildEnds, Command

\* Events.
LEMMA EventsStep ==
  ASSUME TypeOK, EventsAreLast, ThreadsAreJobs, [Next]_vars
  PROVE  EventsAreLast'
<1> USE DEF ThreadsAreJobs, EventsAreLast, TypeOK, Places, Words, Media, At, Goto,
           ThreadKeeps, outVars, threadVars, flagVars, sessionVars, cancelVars, takeVars
<1>0. \A i \in 1..Len(inbox) : inbox[i].job \in Reqs
  <2>1. inbox \in Seq([ev : Words \cup {"gone"}, job : Reqs])
    OBVIOUS
  <2>2. \A i \in 1..Len(inbox) : inbox[i] \in [ev : Words \cup {"gone"}, job : Reqs]
    BY <2>1, ElementOfSeq
  <2> QED
    BY <2>2
<1>1. ASSUME HandleEvent PROVE EventsAreLast'
  BY <1>1 DEF HandleEvent, JobEnds, RequesterGone, StartCancel, Tell
<1>2. ASSUME CancelStop PROVE EventsAreLast'
  BY <1>2 DEF CancelStop
<1>3. ASSUME NEW j \in Reqs, CancelJob(j) PROVE EventsAreLast'
  BY <1>3 DEF CancelJob
<1>4. ASSUME ExportCancel PROVE EventsAreLast'
  BY <1>4 DEF ExportCancel, StartCancel, RunningExport
<1>5. ASSUME HandleInterrupt PROVE EventsAreLast'
  BY <1>5 DEF HandleInterrupt, StartCancel
<1>6. ASSUME EditTimeline PROVE EventsAreLast'
  BY <1>6 DEF EditTimeline
<1>7. ASSUME NEW r \in Reqs, NEW what \in Media, NEW dest \in Dests, NEW vaapi \in BOOLEAN,
             Render(r, what, dest, vaapi)
        PROVE  EventsAreLast'
  BY <1>7 DEF Render, Insert, Fresh
<1>8. ASSUME NEW r \in Reqs, NEW what \in Media, NEW dest \in Dests, RenderRefused(r, what, dest)
        PROVE  EventsAreLast'
  BY <1>8 DEF RenderRefused, Refuse, Tell
<1>9. ASSUME NEW r \in Reqs, TakePurge(r) PROVE EventsAreLast'
  BY <1>9 DEF TakePurge, Insert, Fresh, JobReading
<1>10. ASSUME NEW r \in Reqs, TakePurgeRefused(r) PROVE EventsAreLast'
  BY <1>10 DEF TakePurgeRefused, Refuse, Tell
<1>11. ASSUME NEW r \in Reqs, Disconnect(r) PROVE EventsAreLast'
  <2>1. inbox' = Append(inbox, [ev |-> "gone", job |-> r]) /\ pc' = pc
    BY <1>11 DEF Disconnect
  <2>2. \A i \in 1..Len(inbox') : (i \in 1..Len(inbox) /\ inbox'[i] = inbox[i]) \/ inbox'[i].ev = "gone"
    BY <2>1
  <2> QED
    BY <2>1, <2>2
<1>12. ASSUME NEW j \in Reqs, Open(j) PROVE EventsAreLast'
  <2>1. inbox' = inbox
    BY <1>12 DEF Open, WithTemp, Ends, Goes, Quiet
  <2>2. \A k \in Reqs : pc[k] = "done" => pc'[k] = "done"
    BY <1>12 DEF Open, WithTemp, Ends, Goes, Quiet
  <2> QED
    BY <1>0, <2>1, <2>2
<1>13. ASSUME NEW j \in Reqs, Stopped(j) PROVE EventsAreLast'
  BY <1>13 DEF Stopped, Ends, CancelledWord, Quiet
<1>14. ASSUME NEW j \in Reqs, Clear(j) PROVE EventsAreLast'
  BY <1>14 DEF Clear
<1>15. ASSUME NEW j \in Reqs, Resume(j) PROVE EventsAreLast'
  BY <1>15 DEF Resume
<1>16. ASSUME NEW j \in Reqs, Place(j) PROVE EventsAreLast'
  <2>1. inbox' = inbox
    BY <1>16 DEF Place, Look, RenameNew, Placed, Numbered, NotPlaced, Appeared, Comes, Output, Ends, Goes, Quiet
  <2>2. \A k \in Reqs : pc[k] = "done" => pc'[k] = "done"
    BY <1>16 DEF Place, Look, RenameNew, Placed, Numbered, NotPlaced, Appeared, Comes, Output, Ends, Goes, Quiet
  <2> QED
    BY <1>0, <2>1, <2>2
<1>17. ASSUME NEW j \in Reqs, RenameOver(j) PROVE EventsAreLast'
  <2>1. inbox' = inbox
    BY <1>17 DEF RenameOver, Placed, NotPlaced, Comes, Output, Ends, Goes
  <2>2. \A k \in Reqs : pc[k] = "done" => pc'[k] = "done"
    BY <1>17 DEF RenameOver, Placed, NotPlaced, Comes, Output, Ends, Goes
  <2> QED
    BY <1>0, <2>1, <2>2
<1>18. ASSUME NEW j \in Reqs, DeleteDirs(j) PROVE EventsAreLast'
  BY <1>18 DEF DeleteDirs
<1>19. ASSUME NEW j \in Reqs, Leave(j) PROVE EventsAreLast'
  BY <1>19 DEF Leave
<1>20. ASSUME NEW j \in Reqs, Rendered(j) PROVE EventsAreLast'
  <2>1. inbox' = inbox
    BY <1>20 DEF Rendered, WithTemp, Ends, Goes, Quiet
  <2>2. \A k \in Reqs : pc[k] = "done" => pc'[k] = "done"
    BY <1>20 DEF Rendered, WithTemp, Ends, Goes, Quiet
  <2> QED
    BY <1>0, <2>1, <2>2
<1>21. ASSUME NEW j \in Reqs, RenderFails(j) PROVE EventsAreLast'
  <2>1. inbox' = inbox
    BY <1>21 DEF RenderFails, Ends, Goes
  <2>2. \A k \in Reqs : pc[k] = "done" => pc'[k] = "done"
    BY <1>21 DEF RenderFails, Ends, Goes
  <2> QED
    BY <1>0, <2>1, <2>2
<1>22. ASSUME NEW j \in Reqs, Written(j) PROVE EventsAreLast'
  <2>1. inbox' = inbox
    BY <1>22 DEF Written, Ends, Goes, CancelledWord, Quiet
  <2>2. \A k \in Reqs : pc[k] = "done" => pc'[k] = "done"
    BY <1>22 DEF Written, Ends, Goes, CancelledWord, Quiet
  <2> QED
    BY <1>0, <2>1, <2>2
<1>23. ASSUME NEW j \in Reqs, Panic(j) PROVE EventsAreLast'
  BY <1>23 DEF Panic, Ends, Quiet
<1>24. ASSUME OtherWrites PROVE EventsAreLast'
  BY <1>24 DEF OtherWrites, Comes
<1>25. ASSUME OtherDeletes PROVE EventsAreLast'
  BY <1>25 DEF OtherDeletes
<1>26. ASSUME UNCHANGED vars PROVE EventsAreLast'
  BY <1>26 DEF vars
<1>27. ASSUME NEW j \in Reqs, Joined(j) PROVE EventsAreLast'
  <2>1. inbox' = inbox
    BY <1>27 DEF Joined, Ends, Goes, Quiet
  <2>2. \A k \in Reqs : pc[k] = "done" => pc'[k] = "done"
    BY <1>27 DEF Joined, Ends, Goes, Quiet
  <2> QED
    BY <1>0, <2>1, <2>2
<1>28. ASSUME NEW j \in Reqs, Retry(j) PROVE EventsAreLast'
  <2>1. inbox' = inbox
    BY <1>28 DEF Retry, Ends, Goes, Quiet
  <2>2. \A k \in Reqs : pc[k] = "done" => pc'[k] = "done"
    BY <1>28 DEF Retry, Ends, Goes, Quiet
  <2> QED
    BY <1>0, <2>1, <2>2
<1> QED
  BY <1>1, <1>2, <1>3, <1>4, <1>5, <1>6, <1>7, <1>8, <1>9, <1>10, <1>11, <1>12, <1>13, <1>14,
     <1>15, <1>16, <1>17, <1>18, <1>19, <1>20, <1>21, <1>22, <1>23, <1>24, <1>25, <1>26,
     <1>27, <1>28
  DEF Next, SessionStep, ThreadStep, ChildEnds, Command

\* The table.
LEMMA ReportStep ==
  ASSUME TypeOK, EventsAreLast, ThreadsAreJobs, JobsReport, [Next]_vars
  PROVE  JobsReport'
<1> USE DEF JobsReport, ThreadsAreJobs, TypeOK, Places, Words, Media, At, Goto, ThreadKeeps,
           outVars, threadVars, flagVars, sessionVars, cancelVars, takeVars
<1>1. ASSUME HandleEvent PROVE JobsReport'
  <2> DEFINE m == Head(inbox)
  <2> DEFINE E == [ev : Words \cup {"gone"}, job : Reqs]
  <2>1. inbox \in Seq(E) /\ inbox # <<>> /\ inbox' = Tail(inbox) /\ pc' = pc
    BY <1>1 DEF HandleEvent, threadVars
  <2>2. Len(inbox) \in Nat /\ Len(inbox') = Len(inbox) - 1 /\ \A i \in 1..Len(inbox') : inbox'[i] = inbox[i + 1]
    BY <2>1, HeadTailProperties
  <2>3. ASSUME NEW i \in 1..Len(inbox), i # 1
        PROVE  i - 1 \in 1..Len(inbox') /\ inbox'[i - 1] = inbox[i]
    <3>1. i - 1 \in 1..Len(inbox') /\ (i - 1) + 1 = i
      BY <2>3, <2>2
    <3> QED
      BY <3>1, <2>2
  <2>4. inbox[1] = m
    BY <2>1
  <2>5. ASSUME NEW k \in table, pc[k] = "done", k # m.job \/ m.ev = "gone"
        PROVE  \E i \in 1..Len(inbox') : inbox'[i].job = k /\ inbox'[i].ev # "gone"
    <3>1. PICK i \in 1..Len(inbox) : inbox[i].job = k /\ inbox[i].ev # "gone"
      BY <2>5
    <3>2. i # 1
      BY <3>1, <2>5, <2>4
    <3> QED
      BY <3>1, <3>2, <2>3
  <2>6. (table' = table /\ m.ev = "gone") \/ table' = table \ {m.job}
    BY <1>1 DEF HandleEvent, RequesterGone, JobEnds
  <2> HIDE DEF m
  <2>7. \A k \in table' : k \in table /\ (k # m.job \/ m.ev = "gone")
    BY <2>6
  <2>8. ASSUME NEW k \in table'
        PROVE  pc'[k] # "done" \/ \E i \in 1..Len(inbox') : inbox'[i].job = k /\ inbox'[i].ev # "gone"
    <3>1. k \in table /\ (k # m.job \/ m.ev = "gone") /\ pc' = pc
      BY <2>1, <2>7
    <3> QED
      BY <3>1, <2>5
  <2> QED
    BY <2>8
<1>2. ASSUME CancelStop PROVE JobsReport'
  BY <1>2 DEF CancelStop
<1>3. ASSUME NEW j \in Reqs, CancelJob(j) PROVE JobsReport'
  BY <1>3 DEF CancelJob
<1>4. ASSUME ExportCancel PROVE JobsReport'
  BY <1>4 DEF ExportCancel, StartCancel, RunningExport
<1>5. ASSUME HandleInterrupt PROVE JobsReport'
  BY <1>5 DEF HandleInterrupt, StartCancel
<1>6. ASSUME EditTimeline PROVE JobsReport'
  BY <1>6 DEF EditTimeline
<1>7. ASSUME NEW r \in Reqs, NEW what \in Media, NEW dest \in Dests, NEW vaapi \in BOOLEAN,
             Render(r, what, dest, vaapi)
        PROVE  JobsReport'
  BY <1>7 DEF Render, Insert, Fresh
<1>8. ASSUME NEW r \in Reqs, NEW what \in Media, NEW dest \in Dests, RenderRefused(r, what, dest)
        PROVE  JobsReport'
  BY <1>8 DEF RenderRefused, Refuse, Tell
<1>9. ASSUME NEW r \in Reqs, TakePurge(r) PROVE JobsReport'
  BY <1>9 DEF TakePurge, Insert, Fresh, JobReading
<1>10. ASSUME NEW r \in Reqs, TakePurgeRefused(r) PROVE JobsReport'
  BY <1>10 DEF TakePurgeRefused, Refuse, Tell
<1>11. ASSUME NEW r \in Reqs, Disconnect(r) PROVE JobsReport'
  BY <1>11 DEF Disconnect
<1>12. ASSUME NEW j \in Reqs, Open(j) PROVE JobsReport'
  BY <1>12 DEF Open, WithTemp, Ends, Goes, Quiet
<1>13. ASSUME NEW j \in Reqs, Stopped(j) PROVE JobsReport'
  BY <1>13 DEF Stopped, Ends, CancelledWord, Quiet
<1>14. ASSUME NEW j \in Reqs, Clear(j) PROVE JobsReport'
  BY <1>14 DEF Clear
<1>15. ASSUME NEW j \in Reqs, Resume(j) PROVE JobsReport'
  BY <1>15 DEF Resume
<1>16. ASSUME NEW j \in Reqs, Place(j) PROVE JobsReport'
  BY <1>16 DEF Place, Look, RenameNew, Placed, Numbered, NotPlaced, Appeared, Comes, Output, Ends, Goes, Quiet
<1>17. ASSUME NEW j \in Reqs, RenameOver(j) PROVE JobsReport'
  BY <1>17 DEF RenameOver, Placed, NotPlaced, Appeared, Comes, Output, Ends, Goes
<1>18. ASSUME NEW j \in Reqs, DeleteDirs(j) PROVE JobsReport'
  BY <1>18 DEF DeleteDirs
<1>19. ASSUME NEW j \in Reqs, Leave(j) PROVE JobsReport'
  <2> DEFINE E == [ev : Words \cup {"gone"}, job : Reqs]
  <2>1. /\ inbox \in Seq(E) /\ report[j] \in Words /\ table' = table
        /\ inbox' = Append(inbox, [ev |-> report[j], job |-> j])
        /\ \A k \in Reqs \ {j} : pc'[k] = pc[k]
    BY <1>19 DEF Leave
  <2>2. /\ Len(inbox') = Len(inbox) + 1 /\ Len(inbox) \in Nat
        /\ \A i \in 1..Len(inbox) : inbox'[i] = inbox[i]
        /\ inbox'[Len(inbox')] = [ev |-> report[j], job |-> j]
    BY <2>1
  <2>3. \E i \in 1..Len(inbox') : inbox'[i].job = j /\ inbox'[i].ev # "gone"
    <3>1. Len(inbox') \in 1..Len(inbox')
      BY <2>2
    <3> QED
      BY <2>1, <2>2, <3>1
  <2>4. ASSUME NEW k \in table, k # j, pc[k] = "done"
        PROVE  \E i \in 1..Len(inbox') : inbox'[i].job = k /\ inbox'[i].ev # "gone"
    <3>1. PICK i \in 1..Len(inbox) : inbox[i].job = k /\ inbox[i].ev # "gone"
      BY <2>4
    <3>2. i \in 1..Len(inbox')
      BY <2>2
    <3> QED
      BY <2>2, <3>1, <3>2
  <2> QED
    BY <2>1, <2>3, <2>4
<1>20. ASSUME NEW j \in Reqs, Rendered(j) PROVE JobsReport'
  BY <1>20 DEF Rendered, WithTemp, Ends, Quiet
<1>21. ASSUME NEW j \in Reqs, RenderFails(j) PROVE JobsReport'
  BY <1>21 DEF RenderFails, Ends, Goes
<1>22. ASSUME NEW j \in Reqs, Written(j) PROVE JobsReport'
  BY <1>22 DEF Written, Ends, Goes, CancelledWord, Quiet
<1>23. ASSUME NEW j \in Reqs, Panic(j) PROVE JobsReport'
  BY <1>23 DEF Panic, Ends, Quiet
<1>24. ASSUME OtherWrites PROVE JobsReport'
  BY <1>24 DEF OtherWrites, Comes
<1>25. ASSUME OtherDeletes PROVE JobsReport'
  BY <1>25 DEF OtherDeletes
<1>26. ASSUME UNCHANGED vars PROVE JobsReport'
  BY <1>26 DEF vars
<1>27. ASSUME NEW j \in Reqs, Joined(j) PROVE JobsReport'
  BY <1>27 DEF Joined, Ends, Goes, Quiet
<1>28. ASSUME NEW j \in Reqs, Retry(j) PROVE JobsReport'
  BY <1>28 DEF Retry, Ends, Goes, Quiet
<1> QED
  BY <1>1, <1>2, <1>3, <1>4, <1>5, <1>6, <1>7, <1>8, <1>9, <1>10, <1>11, <1>12, <1>13, <1>14,
     <1>15, <1>16, <1>17, <1>18, <1>19, <1>20, <1>21, <1>22, <1>23, <1>24, <1>25, <1>26,
     <1>27, <1>28
  DEF Next, SessionStep, ThreadStep, ChildEnds, Command

\* The take.
LEMMA TakeStep ==
  ASSUME TypeOK, ThreadsAreJobs, TakeIsHeld, [Next]_vars
  PROVE  TakeIsHeld'
<1> USE DEF TakeIsHeld, Reading, ThreadsAreJobs, TypeOK, Places, Media, At, Goto, ThreadKeeps,
           outVars, threadVars, flagVars, sessionVars, cancelVars, takeVars
<1>1. ASSUME HandleEvent PROVE TakeIsHeld'
  BY <1>1 DEF HandleEvent, JobEnds, RequesterGone, StartCancel, Tell
<1>2. ASSUME CancelStop PROVE TakeIsHeld'
  BY <1>2 DEF CancelStop
<1>3. ASSUME NEW j \in Reqs, CancelJob(j) PROVE TakeIsHeld'
  BY <1>3 DEF CancelJob
<1>4. ASSUME ExportCancel PROVE TakeIsHeld'
  BY <1>4 DEF ExportCancel, StartCancel, RunningExport
<1>5. ASSUME HandleInterrupt PROVE TakeIsHeld'
  BY <1>5 DEF HandleInterrupt, StartCancel
<1>6. ASSUME EditTimeline PROVE TakeIsHeld'
  BY <1>6 DEF EditTimeline
<1>7. ASSUME NEW r \in Reqs, NEW what \in Media, NEW dest \in Dests, NEW vaapi \in BOOLEAN,
             Render(r, what, dest, vaapi)
        PROVE  TakeIsHeld'
  BY <1>7 DEF Render, Insert, Fresh
<1>8. ASSUME NEW r \in Reqs, NEW what \in Media, NEW dest \in Dests, RenderRefused(r, what, dest)
        PROVE  TakeIsHeld'
  BY <1>8 DEF RenderRefused, Refuse, Tell
<1>9. ASSUME NEW r \in Reqs, TakePurge(r) PROVE TakeIsHeld'
  BY <1>9 DEF TakePurge, Insert, Fresh, JobReading
<1>10. ASSUME NEW r \in Reqs, TakePurgeRefused(r) PROVE TakeIsHeld'
  BY <1>10 DEF TakePurgeRefused, Refuse, Tell
<1>11. ASSUME NEW r \in Reqs, Disconnect(r) PROVE TakeIsHeld'
  BY <1>11 DEF Disconnect
<1>12. ASSUME NEW j \in Reqs, Open(j) PROVE TakeIsHeld'
  BY <1>12 DEF Open, WithTemp, Ends, Goes, Quiet
<1>13. ASSUME NEW j \in Reqs, Stopped(j) PROVE TakeIsHeld'
  BY <1>13 DEF Stopped, Ends, CancelledWord, Quiet
<1>14. ASSUME NEW j \in Reqs, Clear(j) PROVE TakeIsHeld'
  BY <1>14 DEF Clear
<1>15. ASSUME NEW j \in Reqs, Resume(j) PROVE TakeIsHeld'
  BY <1>15 DEF Resume
<1>16. ASSUME NEW j \in Reqs, Place(j) PROVE TakeIsHeld'
  BY <1>16 DEF Place, Look, RenameNew, Placed, Numbered, NotPlaced, Appeared, Comes, Output, Ends, Goes, Quiet
<1>17. ASSUME NEW j \in Reqs, RenameOver(j) PROVE TakeIsHeld'
  BY <1>17 DEF RenameOver, Placed, NotPlaced, Appeared, Comes, Output, Ends, Goes
<1>18. ASSUME NEW j \in Reqs, DeleteDirs(j) PROVE TakeIsHeld'
  BY <1>18 DEF DeleteDirs
<1>19. ASSUME NEW j \in Reqs, Leave(j) PROVE TakeIsHeld'
  BY <1>19 DEF Leave
<1>20. ASSUME NEW j \in Reqs, Rendered(j) PROVE TakeIsHeld'
  BY <1>20 DEF Rendered, WithTemp, Ends, Quiet
<1>21. ASSUME NEW j \in Reqs, RenderFails(j) PROVE TakeIsHeld'
  BY <1>21 DEF RenderFails, Ends, Goes
<1>22. ASSUME NEW j \in Reqs, Written(j) PROVE TakeIsHeld'
  BY <1>22 DEF Written, Ends, Goes, CancelledWord, Quiet
<1>23. ASSUME NEW j \in Reqs, Panic(j) PROVE TakeIsHeld'
  BY <1>23 DEF Panic, Ends, Quiet
<1>24. ASSUME OtherWrites PROVE TakeIsHeld'
  BY <1>24 DEF OtherWrites, Comes
<1>25. ASSUME OtherDeletes PROVE TakeIsHeld'
  BY <1>25 DEF OtherDeletes
<1>26. ASSUME UNCHANGED vars PROVE TakeIsHeld'
  BY <1>26 DEF vars
<1>27. ASSUME NEW j \in Reqs, Joined(j) PROVE TakeIsHeld'
  BY <1>27 DEF Joined, Ends, Goes, Quiet
<1>28. ASSUME NEW j \in Reqs, Retry(j) PROVE TakeIsHeld'
  BY <1>28 DEF Retry, Ends, Goes, Quiet
<1> QED
  BY <1>1, <1>2, <1>3, <1>4, <1>5, <1>6, <1>7, <1>8, <1>9, <1>10, <1>11, <1>12, <1>13, <1>14,
     <1>15, <1>16, <1>17, <1>18, <1>19, <1>20, <1>21, <1>22, <1>23, <1>24, <1>25, <1>26,
     <1>27, <1>28
  DEF Next, SessionStep, ThreadStep, ChildEnds, Command

----------------------------------------------------------------------------
LEMMA SpecIInv == Spec => []IInv
<1>1. IInv /\ [Next]_vars => IInv'
  BY TypeStep, CancelStep, ThreadsStep, EventsStep, ReportStep, TakeStep DEF IInv
<1> QED
  BY InitIInv, <1>1, PTL DEF Spec

\* The flags, the table and the events are of the values the code gives them.
THEOREM JobsTypes == Spec => []TypeOK
BY SpecIInv, PTL DEF IInv

\* A cancel is never lost: not to a retry that takes back the stop of a failed segment, not
\* to a cancel that is half done (media/jobs.rs).
THEOREM CancelIsNotLost == Spec => []CancelHolds
BY SpecIInv, PTL DEF IInv

\* No job stays in the table without a thread or an event that takes it out.
THEOREM EveryJobReports == Spec => []JobsReport
BY SpecIInv, PTL DEF IInv

\* No purge deletes the files of a take that a job reads.
THEOREM NoPurgeUnderAReader == Spec => []ReadersKeepTheirTake
<1>1. IInv => ReadersKeepTheirTake
  BY DEF IInv, TakeIsHeld, ReadersKeepTheirTake
<1> QED
  BY SpecIInv, <1>1, PTL

----------------------------------------------------------------------------
(* What callers hear of their jobs, what an interrupt leaves running and   *)
(* which files an output replaces.                                         *)

\* What is at the path, and what each job may put there or replace.
OutputTyped ==
    /\ result \in [Reqs -> {"none", "out", "kept", "temp"}]
    /\ replace \in [Reqs -> Nat \cup Reqs \cup {NoFile, AnyName}]
    /\ path \in Nat \cup Reqs \cup {NoFile}

\* A file was looked at right before it is replaced.
LooksFirst == \A j \in Reqs : pc[j] = "over" => path \in {NoFile, replace[j]} \cup late[j]

\* A stop is a cancel's, but for the moment a failed segment stops the others.
StopsAreCancels ==
    /\ half # NoReq => half \in cancelled
    /\ \A j \in stop : j \in cancelled \/ pc[j] \in {"join", "retry", "clear", "leave"}

\* What is told of an output is what is there.
Fits(word, j) ==
    /\ word = "saved" => result[j] = "out" /\ j \notin tmp
    /\ word = "appeared" => result[j] = IF j \in tmp THEN "temp" ELSE "kept"
    /\ word \in {"cancelled", "failed"} => result[j] = "none" /\ j \notin tmp

\* A thread that writes or places has its temp file.  Nothing is made before its last step,
\* and that, its event and its requester tell the same.
EndFits(j) ==
    /\ pc[j] \in {"write", "place", "new", "over"} => j \in tmp
    /\ kind[j] = "none" => result[j] = "none"
    /\ kind[j] \in Media =>
         /\ pc[j] # "done" => answers[j] = "none"
         /\ pc[j] \notin {"leave", "done"} => result[j] = "none"
         /\ pc[j] = "leave" => /\ Fits(report[j], j)
                               /\ report[j] = "cancelled" => j \in cancelled
         /\ Fits(answers[j], j)
EndsFit == \A j \in Reqs : EndFits(j)

EventsFit == \A i \in 1..Len(inbox) :
    kind[inbox[i].job] \in Media => Fits(inbox[i].ev, inbox[i].job)

\* A job that has to end is still to be cancelled, is, or can't be any more.
Noticed(j) == \A i \in 1..Len(inbox) : inbox[i] # [ev |-> "gone", job |-> j]
Unwanted(j) == /\ j \in table /\ kind[j] \in Media
               /\ interrupted \/ (~KeepsOrphans /\ j \in gone /\ Noticed(j))
UnwantedEnd == \A j \in Reqs : Unwanted(j) => j \in toCancel \cup cancelled \/ j \notin running

EndsInv == OutputTyped /\ LooksFirst /\ StopsAreCancels /\ EndsFit /\ EventsFit /\ UnwantedEnd

\* The job that reaches the path; the others stay as they are.
LEMMA OthersStay ==
  ASSUME TypeOK, OutputTyped, NEW j \in Reqs, Place(j) \/ RenameOver(j)
  PROVE  /\ \A k \in Reqs \ {j} : /\ pc'[k] = pc[k] /\ report'[k] = report[k]
                                  /\ result'[k] = result[k] /\ (k \in tmp' <=> k \in tmp)
         /\ pc[j] \in {"place", "new", "over"}
         /\ UNCHANGED <<answers, kind, cancelled, inbox>>
BY DEF TypeOK, OutputTyped, Place, Look, RenameNew, RenameOver, Placed, Numbered, NotPlaced, Appeared,
   Comes, Output, Ends, Goes, Quiet,
   At, Goto, ThreadKeeps, sessionVars, cancelVars, flagVars

\* The oldest event, and those that stay.
LEMMA OldestEvent ==
  ASSUME TypeOK, inbox # <<>>, inbox' = Tail(inbox)
  PROVE  /\ Len(inbox) \in Nat /\ 1 \in 1..Len(inbox) /\ Head(inbox) = inbox[1]
         /\ Head(inbox) \in [ev : Words \cup {"gone"}, job : Reqs]
         /\ Len(inbox') = Len(inbox) - 1
         /\ \A i \in 1..Len(inbox') : i + 1 \in 1..Len(inbox) /\ inbox'[i] = inbox[i + 1]
         /\ \A i \in 1..Len(inbox) : i = 1 \/ (i - 1 \in 1..Len(inbox') /\ inbox'[i - 1] = inbox[i])
<1>1. inbox \in Seq([ev : Words \cup {"gone"}, job : Reqs])
  BY DEF TypeOK
<1>2. /\ Head(inbox) \in [ev : Words \cup {"gone"}, job : Reqs]
      /\ Len(Tail(inbox)) = Len(inbox) - 1
      /\ \A i \in 1..Len(Tail(inbox)) : Tail(inbox)[i] = inbox[i + 1]
  BY <1>1, HeadTailProperties
<1>3. Len(inbox) \in Nat \ {0} /\ Head(inbox) = inbox[1]
  BY <1>1, LenProperties, EmptySeq
<1> QED
  BY <1>2, <1>3

LEMMA TypedStep ==
  ASSUME TypeOK, OutputTyped, [Next]_vars
  PROVE  OutputTyped'
<1> USE JobsAssumption DEF OutputTyped, TypeOK, Media, At, Goto, ThreadKeeps,
       outVars, threadVars, flagVars, sessionVars, cancelVars, takeVars
<1>1. ASSUME HandleEvent PROVE OutputTyped'
  BY <1>1 DEF HandleEvent, JobEnds, RequesterGone, StartCancel, Tell
<1>2. ASSUME CancelStop PROVE OutputTyped'
  BY <1>2 DEF CancelStop
<1>3. ASSUME NEW j \in Reqs, CancelJob(j) PROVE OutputTyped'
  BY <1>3 DEF CancelJob
<1>4. ASSUME ExportCancel PROVE OutputTyped'
  BY <1>4 DEF ExportCancel, StartCancel, RunningExport
<1>5. ASSUME HandleInterrupt PROVE OutputTyped'
  BY <1>5 DEF HandleInterrupt, StartCancel
<1>6. ASSUME EditTimeline PROVE OutputTyped'
  BY <1>6 DEF EditTimeline
<1>7. ASSUME NEW r \in Reqs, NEW what \in Media, NEW dest \in Dests, NEW vaapi \in BOOLEAN,
             Render(r, what, dest, vaapi)
      PROVE  OutputTyped'
  BY <1>7 DEF Render, Insert, Fresh
<1>8. ASSUME NEW r \in Reqs, NEW what \in Media, NEW dest \in Dests, RenderRefused(r, what, dest)
      PROVE  OutputTyped'
  BY <1>8 DEF RenderRefused, Refuse, Tell, Fresh
<1>9. ASSUME NEW r \in Reqs, TakePurge(r) PROVE OutputTyped'
  BY <1>9 DEF TakePurge, Insert, Fresh, JobReading
<1>10. ASSUME NEW r \in Reqs, TakePurgeRefused(r) PROVE OutputTyped'
  BY <1>10 DEF TakePurgeRefused, Refuse, Tell, Fresh
<1>11. ASSUME NEW r \in Reqs, Disconnect(r) PROVE OutputTyped'
  BY <1>11 DEF Disconnect
<1>12. ASSUME NEW j \in Reqs, Open(j) PROVE OutputTyped'
  BY <1>12 DEF Open, WithTemp, Ends, Goes, Quiet
<1>13. ASSUME NEW j \in Reqs, Stopped(j) PROVE OutputTyped'
  BY <1>13 DEF Stopped, Ends, CancelledWord, Quiet
<1>14. ASSUME NEW j \in Reqs, Clear(j) PROVE OutputTyped'
  BY <1>14 DEF Clear
<1>15. ASSUME NEW j \in Reqs, Resume(j) PROVE OutputTyped'
  BY <1>15 DEF Resume
<1>16. ASSUME NEW j \in Reqs, Place(j) PROVE OutputTyped'
  BY <1>16 DEF Place, Look, RenameNew, Placed, Numbered, NotPlaced, Appeared, Comes, Output, Ends, Goes, Quiet
<1>17. ASSUME NEW j \in Reqs, RenameOver(j) PROVE OutputTyped'
  BY <1>17 DEF RenameOver, Placed, NotPlaced, Appeared, Comes, Output, Ends, Goes
<1>18. ASSUME NEW j \in Reqs, DeleteDirs(j) PROVE OutputTyped'
  BY <1>18 DEF DeleteDirs
<1>19. ASSUME NEW j \in Reqs, Leave(j) PROVE OutputTyped'
  BY <1>19 DEF Leave
<1>20. ASSUME NEW j \in Reqs, Rendered(j) PROVE OutputTyped'
  BY <1>20 DEF Rendered, WithTemp, Ends, Goes, Quiet
<1>21. ASSUME NEW j \in Reqs, RenderFails(j) PROVE OutputTyped'
  BY <1>21 DEF RenderFails, Ends, Goes
<1>22. ASSUME NEW j \in Reqs, Written(j) PROVE OutputTyped'
  BY <1>22 DEF Written, Ends, Goes, CancelledWord, Quiet
<1>23. ASSUME NEW j \in Reqs, Panic(j) PROVE OutputTyped'
  BY <1>23 DEF Panic, Ends, Quiet
<1>24. ASSUME OtherWrites PROVE OutputTyped'
  BY <1>24 DEF OtherWrites, Comes
<1>25. ASSUME OtherDeletes PROVE OutputTyped'
  BY <1>25 DEF OtherDeletes
<1>26. ASSUME UNCHANGED vars PROVE OutputTyped'
  BY <1>26 DEF vars
<1>27. ASSUME NEW j \in Reqs, Joined(j) PROVE OutputTyped'
  BY <1>27 DEF Joined, Ends, Goes, Quiet
<1>28. ASSUME NEW j \in Reqs, Retry(j) PROVE OutputTyped'
  BY <1>28 DEF Retry, Ends, Goes, Quiet
<1> HIDE DEF OutputTyped
<1> QED
  BY <1>1, <1>2, <1>3, <1>4, <1>5, <1>6, <1>7, <1>8, <1>9, <1>10, <1>11, <1>12, <1>13, <1>14,
     <1>15, <1>16, <1>17, <1>18, <1>19, <1>20, <1>21, <1>22, <1>23, <1>24, <1>25, <1>26,
     <1>27, <1>28
  DEF Next, SessionStep, ThreadStep, ChildEnds, Command

LEMMA LooksStep ==
  ASSUME TypeOK, OutputTyped, ThreadsAreJobs, LooksFirst, [Next]_vars
  PROVE  LooksFirst'
<1> USE JobsAssumption DEF LooksFirst, OutputTyped, TypeOK, ThreadsAreJobs,
       Media, At, Goto, ThreadKeeps, outVars, threadVars, flagVars, sessionVars,
       cancelVars, takeVars
<1>1. ASSUME HandleEvent PROVE LooksFirst'
  BY <1>1 DEF HandleEvent, JobEnds, RequesterGone, StartCancel, Tell
<1>2. ASSUME CancelStop PROVE LooksFirst'
  BY <1>2 DEF CancelStop
<1>3. ASSUME NEW j \in Reqs, CancelJob(j) PROVE LooksFirst'
  BY <1>3 DEF CancelJob
<1>4. ASSUME ExportCancel PROVE LooksFirst'
  BY <1>4 DEF ExportCancel, StartCancel, RunningExport
<1>5. ASSUME HandleInterrupt PROVE LooksFirst'
  BY <1>5 DEF HandleInterrupt, StartCancel
<1>6. ASSUME EditTimeline PROVE LooksFirst'
  BY <1>6 DEF EditTimeline
<1>7. ASSUME NEW r \in Reqs, NEW what \in Media, NEW dest \in Dests, NEW vaapi \in BOOLEAN,
             Render(r, what, dest, vaapi)
      PROVE  LooksFirst'
  BY <1>7 DEF Render, Insert, Fresh
<1>8. ASSUME NEW r \in Reqs, NEW what \in Media, NEW dest \in Dests, RenderRefused(r, what, dest)
      PROVE  LooksFirst'
  BY <1>8 DEF RenderRefused, Refuse, Tell, Fresh
<1>9. ASSUME NEW r \in Reqs, TakePurge(r) PROVE LooksFirst'
  BY <1>9 DEF TakePurge, Insert, Fresh, JobReading
<1>10. ASSUME NEW r \in Reqs, TakePurgeRefused(r) PROVE LooksFirst'
  BY <1>10 DEF TakePurgeRefused, Refuse, Tell, Fresh
<1>11. ASSUME NEW r \in Reqs, Disconnect(r) PROVE LooksFirst'
  BY <1>11 DEF Disconnect
<1>12. ASSUME NEW j \in Reqs, Open(j) PROVE LooksFirst'
  BY <1>12 DEF Open, WithTemp, Ends, Goes, Quiet
<1>13. ASSUME NEW j \in Reqs, Stopped(j) PROVE LooksFirst'
  BY <1>13 DEF Stopped, Ends, CancelledWord, Quiet
<1>14. ASSUME NEW j \in Reqs, Clear(j) PROVE LooksFirst'
  BY <1>14 DEF Clear
<1>15. ASSUME NEW j \in Reqs, Resume(j) PROVE LooksFirst'
  BY <1>15 DEF Resume
<1>16. ASSUME NEW j \in Reqs, Place(j) PROVE LooksFirst'
  BY <1>16 DEF Place, Look, RenameNew, Placed, Numbered, NotPlaced, Appeared, Comes, Output, Ends, Goes, Quiet
<1>17. ASSUME NEW j \in Reqs, RenameOver(j) PROVE LooksFirst'
  BY <1>17 DEF RenameOver, Placed, NotPlaced, Appeared, Comes, Output, Ends, Goes
<1>18. ASSUME NEW j \in Reqs, DeleteDirs(j) PROVE LooksFirst'
  BY <1>18 DEF DeleteDirs
<1>19. ASSUME NEW j \in Reqs, Leave(j) PROVE LooksFirst'
  BY <1>19 DEF Leave
<1>20. ASSUME NEW j \in Reqs, Rendered(j) PROVE LooksFirst'
  BY <1>20 DEF Rendered, WithTemp, Ends, Goes, Quiet
<1>21. ASSUME NEW j \in Reqs, RenderFails(j) PROVE LooksFirst'
  BY <1>21 DEF RenderFails, Ends, Goes
<1>22. ASSUME NEW j \in Reqs, Written(j) PROVE LooksFirst'
  BY <1>22 DEF Written, Ends, Goes, CancelledWord, Quiet
<1>23. ASSUME NEW j \in Reqs, Panic(j) PROVE LooksFirst'
  BY <1>23 DEF Panic, Ends, Quiet
<1>24. ASSUME OtherWrites PROVE LooksFirst'
  BY <1>24 DEF OtherWrites, Comes
<1>25. ASSUME OtherDeletes PROVE LooksFirst'
  BY <1>25 DEF OtherDeletes
<1>26. ASSUME UNCHANGED vars PROVE LooksFirst'
  BY <1>26 DEF vars
<1>27. ASSUME NEW j \in Reqs, Joined(j) PROVE LooksFirst'
  BY <1>27 DEF Joined, Ends, Goes, Quiet
<1>28. ASSUME NEW j \in Reqs, Retry(j) PROVE LooksFirst'
  BY <1>28 DEF Retry, Ends, Goes, Quiet
<1> HIDE DEF LooksFirst
<1> QED
  BY <1>1, <1>2, <1>3, <1>4, <1>5, <1>6, <1>7, <1>8, <1>9, <1>10, <1>11, <1>12, <1>13, <1>14,
     <1>15, <1>16, <1>17, <1>18, <1>19, <1>20, <1>21, <1>22, <1>23, <1>24, <1>25, <1>26,
     <1>27, <1>28
  DEF Next, SessionStep, ThreadStep, ChildEnds, Command

LEMMA StopsStep ==
  ASSUME TypeOK, ThreadsAreJobs, StopsAreCancels, [Next]_vars
  PROVE  StopsAreCancels'
<1> USE JobsAssumption DEF StopsAreCancels, TypeOK, ThreadsAreJobs, Media, At,
       Goto, ThreadKeeps, outVars, threadVars, flagVars, sessionVars,
       cancelVars, takeVars
<1>1. ASSUME HandleEvent PROVE StopsAreCancels'
  BY <1>1 DEF HandleEvent, JobEnds, RequesterGone, StartCancel, Tell
<1>2. ASSUME CancelStop PROVE StopsAreCancels'
  BY <1>2 DEF CancelStop
<1>3. ASSUME NEW j \in Reqs, CancelJob(j) PROVE StopsAreCancels'
  BY <1>3 DEF CancelJob
<1>4. ASSUME ExportCancel PROVE StopsAreCancels'
  BY <1>4 DEF ExportCancel, StartCancel, RunningExport
<1>5. ASSUME HandleInterrupt PROVE StopsAreCancels'
  BY <1>5 DEF HandleInterrupt, StartCancel
<1>6. ASSUME EditTimeline PROVE StopsAreCancels'
  BY <1>6 DEF EditTimeline
<1>7. ASSUME NEW r \in Reqs, NEW what \in Media, NEW dest \in Dests, NEW vaapi \in BOOLEAN,
             Render(r, what, dest, vaapi)
      PROVE  StopsAreCancels'
  BY <1>7 DEF Render, Insert, Fresh
<1>8. ASSUME NEW r \in Reqs, NEW what \in Media, NEW dest \in Dests, RenderRefused(r, what, dest)
      PROVE  StopsAreCancels'
  BY <1>8 DEF RenderRefused, Refuse, Tell, Fresh
<1>9. ASSUME NEW r \in Reqs, TakePurge(r) PROVE StopsAreCancels'
  BY <1>9 DEF TakePurge, Insert, Fresh, JobReading
<1>10. ASSUME NEW r \in Reqs, TakePurgeRefused(r) PROVE StopsAreCancels'
  BY <1>10 DEF TakePurgeRefused, Refuse, Tell, Fresh
<1>11. ASSUME NEW r \in Reqs, Disconnect(r) PROVE StopsAreCancels'
  BY <1>11 DEF Disconnect
<1>12. ASSUME NEW j \in Reqs, Open(j) PROVE StopsAreCancels'
  BY <1>12 DEF Open, WithTemp, Ends, Goes, Quiet
<1>13. ASSUME NEW j \in Reqs, Stopped(j) PROVE StopsAreCancels'
  BY <1>13 DEF Stopped, Ends, CancelledWord, Quiet
<1>14. ASSUME NEW j \in Reqs, Clear(j) PROVE StopsAreCancels'
  BY <1>14 DEF Clear
<1>15. ASSUME NEW j \in Reqs, Resume(j) PROVE StopsAreCancels'
  BY <1>15 DEF Resume
<1>16. ASSUME NEW j \in Reqs, Place(j) PROVE StopsAreCancels'
  BY <1>16 DEF Place, Look, RenameNew, Placed, Numbered, NotPlaced, Appeared, Comes, Output, Ends, Goes, Quiet
<1>17. ASSUME NEW j \in Reqs, RenameOver(j) PROVE StopsAreCancels'
  BY <1>17 DEF RenameOver, Placed, NotPlaced, Appeared, Comes, Output, Ends, Goes
<1>18. ASSUME NEW j \in Reqs, DeleteDirs(j) PROVE StopsAreCancels'
  BY <1>18 DEF DeleteDirs
<1>19. ASSUME NEW j \in Reqs, Leave(j) PROVE StopsAreCancels'
  BY <1>19 DEF Leave
<1>20. ASSUME NEW j \in Reqs, Rendered(j) PROVE StopsAreCancels'
  BY <1>20 DEF Rendered, WithTemp, Ends, Goes, Quiet
<1>21. ASSUME NEW j \in Reqs, RenderFails(j) PROVE StopsAreCancels'
  BY <1>21 DEF RenderFails, Ends, Goes
<1>22. ASSUME NEW j \in Reqs, Written(j) PROVE StopsAreCancels'
  BY <1>22 DEF Written, Ends, Goes, CancelledWord, Quiet
<1>23. ASSUME NEW j \in Reqs, Panic(j) PROVE StopsAreCancels'
  BY <1>23 DEF Panic, Ends, Quiet
<1>24. ASSUME OtherWrites PROVE StopsAreCancels'
  BY <1>24 DEF OtherWrites, Comes
<1>25. ASSUME OtherDeletes PROVE StopsAreCancels'
  BY <1>25 DEF OtherDeletes
<1>26. ASSUME UNCHANGED vars PROVE StopsAreCancels'
  BY <1>26 DEF vars
<1>27. ASSUME NEW j \in Reqs, Joined(j) PROVE StopsAreCancels'
  BY <1>27 DEF Joined, Ends, Goes, Quiet
<1>28. ASSUME NEW j \in Reqs, Retry(j) PROVE StopsAreCancels'
  BY <1>28 DEF Retry, Ends, Goes, Quiet
<1> HIDE DEF StopsAreCancels
<1> QED
  BY <1>1, <1>2, <1>3, <1>4, <1>5, <1>6, <1>7, <1>8, <1>9, <1>10, <1>11, <1>12, <1>13, <1>14,
     <1>15, <1>16, <1>17, <1>18, <1>19, <1>20, <1>21, <1>22, <1>23, <1>24, <1>25, <1>26,
     <1>27, <1>28
  DEF Next, SessionStep, ThreadStep, ChildEnds, Command

LEMMA EndsStep ==
  ASSUME IInv, OutputTyped, StopsAreCancels, EventsFit, EndsFit, [Next]_vars
  PROVE  EndsFit'
<1> USE JobsAssumption DEF EndsFit, EndFits, Fits, IInv, OutputTyped,
       StopsAreCancels, TypeOK, ThreadsAreJobs, Words, Media, At, Goto,
       ThreadKeeps, outVars, threadVars, flagVars, sessionVars, cancelVars,
       takeVars
<1>1. ASSUME HandleEvent PROVE EndsFit'
  <2> DEFINE m == Head(inbox)
  <2>1. m \in [ev : Words \cup {"gone"}, job : Reqs]
    BY <1>1, OldestEvent DEF HandleEvent
  <2>2. CASE m.ev = "gone"
    <3>1. RequesterGone(m)
      BY <1>1, <2>2 DEF HandleEvent
    <3> QED
      BY <1>1, <3>1 DEF HandleEvent, RequesterGone
  <2>3. CASE m.ev # "gone"
    <3>1. pc[m.job] = "done" /\ (kind[m.job] \in Media => Fits(m.ev, m.job))
      <4>1. 1 \in 1..Len(inbox) /\ m = inbox[1]
        BY <1>1, OldestEvent DEF HandleEvent
      <4> QED
        BY <2>3, <4>1 DEF EventsFit, EventsAreLast
    <3>2. JobEnds(m)
      BY <1>1, <2>3 DEF HandleEvent
    <3> HIDE DEF m
    <3> QED
      BY <1>1, <2>1, <3>1, <3>2 DEF HandleEvent, JobEnds, Tell
  <2> QED
    BY <2>2, <2>3
<1>2. ASSUME CancelStop PROVE EndsFit'
  BY <1>2 DEF CancelStop
<1>3. ASSUME NEW j \in Reqs, CancelJob(j) PROVE EndsFit'
  BY <1>3 DEF CancelJob
<1>4. ASSUME ExportCancel PROVE EndsFit'
  BY <1>4 DEF ExportCancel, StartCancel, RunningExport
<1>5. ASSUME HandleInterrupt PROVE EndsFit'
  BY <1>5 DEF HandleInterrupt, StartCancel
<1>6. ASSUME EditTimeline PROVE EndsFit'
  BY <1>6 DEF EditTimeline
<1>7. ASSUME NEW r \in Reqs, NEW what \in Media, NEW dest \in Dests, NEW vaapi \in BOOLEAN,
             Render(r, what, dest, vaapi)
      PROVE  EndsFit'
  BY <1>7 DEF Render, Insert, Fresh
<1>8. ASSUME NEW r \in Reqs, NEW what \in Media, NEW dest \in Dests, RenderRefused(r, what, dest)
      PROVE  EndsFit'
  BY <1>8 DEF RenderRefused, Refuse, Tell, Fresh
<1>9. ASSUME NEW r \in Reqs, TakePurge(r) PROVE EndsFit'
  BY <1>9 DEF TakePurge, Insert, Fresh, JobReading
<1>10. ASSUME NEW r \in Reqs, TakePurgeRefused(r) PROVE EndsFit'
  BY <1>10 DEF TakePurgeRefused, Refuse, Tell, Fresh
<1>11. ASSUME NEW r \in Reqs, Disconnect(r) PROVE EndsFit'
  BY <1>11 DEF Disconnect
<1>12. ASSUME NEW j \in Reqs, Open(j) PROVE EndsFit'
  BY <1>12 DEF Open, WithTemp, Ends, Goes, Quiet
<1>13. ASSUME NEW j \in Reqs, Stopped(j) PROVE EndsFit'
  BY <1>13 DEF Stopped, Ends, CancelledWord, Quiet
<1>14. ASSUME NEW j \in Reqs, Clear(j) PROVE EndsFit'
  BY <1>14 DEF Clear
<1>15. ASSUME NEW j \in Reqs, Resume(j) PROVE EndsFit'
  BY <1>15 DEF Resume
<1>16. ASSUME NEW j \in Reqs, Place(j) PROVE EndsFit'
  <2>1. /\ \A k \in Reqs \ {j} : /\ pc'[k] = pc[k] /\ report'[k] = report[k]
                                 /\ result'[k] = result[k] /\ (k \in tmp' <=> k \in tmp)
        /\ pc[j] \in {"place", "new", "over"}
        /\ UNCHANGED <<answers, kind, cancelled, inbox>>
    BY <1>16, OthersStay
  <2>2. kind[j] \in Media => /\ pc'[j] \in {"over", "new", "leave"} /\ answers[j] = "none"
                             /\ pc'[j] # "leave" => result'[j] = "none" /\ j \in tmp'
                             /\ pc'[j] = "leave" => Fits(report[j], j)' /\ report'[j] # "cancelled"
    BY <1>16, <2>1 DEF Place, Look, RenameNew, Placed, Numbered, NotPlaced, Appeared, Comes, Output, Ends, Goes, Quiet
  <2>3. kind[j] # "none"
    BY <2>1
  <2>4. EndFits(j)'
    BY <2>1, <2>2, <2>3
  <2>5. ASSUME NEW k \in Reqs \ {j} PROVE EndFits(k)'
    BY <2>1, <2>5
  <2> QED
    BY <2>4, <2>5
<1>17. ASSUME NEW j \in Reqs, RenameOver(j) PROVE EndsFit'
  BY <1>17 DEF RenameOver, Placed, NotPlaced, Appeared, Comes, Output, Ends, Goes
<1>18. ASSUME NEW j \in Reqs, DeleteDirs(j) PROVE EndsFit'
  BY <1>18 DEF DeleteDirs
<1>19. ASSUME NEW j \in Reqs, Leave(j) PROVE EndsFit'
  BY <1>19 DEF Leave
<1>20. ASSUME NEW j \in Reqs, Rendered(j) PROVE EndsFit'
  BY <1>20 DEF Rendered, WithTemp, Ends, Goes, Quiet
<1>21. ASSUME NEW j \in Reqs, RenderFails(j) PROVE EndsFit'
  BY <1>21 DEF RenderFails, Ends, Goes
<1>22. ASSUME NEW j \in Reqs, Written(j) PROVE EndsFit'
  BY <1>22 DEF Written, Ends, Goes, CancelledWord, Quiet
<1>23. ASSUME NEW j \in Reqs, Panic(j) PROVE EndsFit'
  BY <1>23 DEF Panic, Ends, Quiet
<1>24. ASSUME OtherWrites PROVE EndsFit'
  BY <1>24 DEF OtherWrites, Comes
<1>25. ASSUME OtherDeletes PROVE EndsFit'
  BY <1>25 DEF OtherDeletes
<1>26. ASSUME UNCHANGED vars PROVE EndsFit'
  BY <1>26 DEF vars
<1>27. ASSUME NEW j \in Reqs, Joined(j) PROVE EndsFit'
  BY <1>27 DEF Joined, Ends, Goes, Quiet
<1>28. ASSUME NEW j \in Reqs, Retry(j) PROVE EndsFit'
  BY <1>28 DEF Retry, Ends, Goes, Quiet
<1> HIDE DEF EndsFit
<1> QED
  BY <1>1, <1>2, <1>3, <1>4, <1>5, <1>6, <1>7, <1>8, <1>9, <1>10, <1>11, <1>12, <1>13, <1>14,
     <1>15, <1>16, <1>17, <1>18, <1>19, <1>20, <1>21, <1>22, <1>23, <1>24, <1>25, <1>26,
     <1>27, <1>28
  DEF Next, SessionStep, ThreadStep, ChildEnds, Command

\* An event other than a requester's leave is of a job whose thread is done.
LEMMA EventIsLast ==
  ASSUME TypeOK, EventsAreLast, NEW i \in 1..Len(inbox), inbox[i].ev # "gone"
  PROVE  inbox[i].job \in Reqs /\ pc[inbox[i].job] = "done"
<1>1. inbox \in Seq([ev : Words \cup {"gone"}, job : Reqs])
  BY DEF TypeOK
<1>2. inbox[i] \in [ev : Words \cup {"gone"}, job : Reqs]
  BY <1>1, ElementOfSeq
<1> QED
  BY <1>2 DEF EventsAreLast

LEMMA EventsFitStep ==
  ASSUME IInv, OutputTyped, EndsFit, EventsFit, [Next]_vars
  PROVE  EventsFit'
<1> USE JobsAssumption DEF EventsFit, EndsFit, EndFits, Fits, IInv, OutputTyped,
       EventsAreLast, TypeOK, ThreadsAreJobs, Words, Media, At, Goto,
       ThreadKeeps, outVars, threadVars, flagVars, sessionVars, cancelVars,
       takeVars
<1>1. ASSUME HandleEvent PROVE EventsFit'
  <2>1. /\ Len(inbox) \in Nat /\ kind' = kind /\ result' = result /\ tmp' = tmp
        /\ \A i \in 1..Len(inbox') : i + 1 \in 1..Len(inbox) /\ inbox'[i] = inbox[i + 1]
    BY <1>1, OldestEvent DEF HandleEvent, JobEnds, RequesterGone
  <2> QED
    BY <2>1
<1>2. ASSUME CancelStop PROVE EventsFit'
  BY <1>2 DEF CancelStop
<1>3. ASSUME NEW j \in Reqs, CancelJob(j) PROVE EventsFit'
  BY <1>3 DEF CancelJob
<1>4. ASSUME ExportCancel PROVE EventsFit'
  BY <1>4 DEF ExportCancel, StartCancel, RunningExport
<1>5. ASSUME HandleInterrupt PROVE EventsFit'
  BY <1>5 DEF HandleInterrupt, StartCancel
<1>6. ASSUME EditTimeline PROVE EventsFit'
  BY <1>6 DEF EditTimeline
<1>7. ASSUME NEW r \in Reqs, NEW what \in Media, NEW dest \in Dests, NEW vaapi \in BOOLEAN,
             Render(r, what, dest, vaapi)
      PROVE  EventsFit'
  BY <1>7 DEF Render, Insert, Fresh
<1>8. ASSUME NEW r \in Reqs, NEW what \in Media, NEW dest \in Dests, RenderRefused(r, what, dest)
      PROVE  EventsFit'
  BY <1>8 DEF RenderRefused, Refuse, Tell, Fresh
<1>9. ASSUME NEW r \in Reqs, TakePurge(r) PROVE EventsFit'
  BY <1>9 DEF TakePurge, Insert, Fresh, JobReading
<1>10. ASSUME NEW r \in Reqs, TakePurgeRefused(r) PROVE EventsFit'
  BY <1>10 DEF TakePurgeRefused, Refuse, Tell, Fresh
<1>11. ASSUME NEW r \in Reqs, Disconnect(r) PROVE EventsFit'
  BY <1>11 DEF Disconnect
<1>12. ASSUME NEW j \in Reqs, Open(j) PROVE EventsFit'
  BY <1>12 DEF Open, WithTemp, Ends, Goes, Quiet
<1>13. ASSUME NEW j \in Reqs, Stopped(j) PROVE EventsFit'
  BY <1>13 DEF Stopped, Ends, CancelledWord, Quiet
<1>14. ASSUME NEW j \in Reqs, Clear(j) PROVE EventsFit'
  BY <1>14 DEF Clear
<1>15. ASSUME NEW j \in Reqs, Resume(j) PROVE EventsFit'
  BY <1>15 DEF Resume
<1>16. ASSUME NEW j \in Reqs, Place(j) PROVE EventsFit'
  <2>1. /\ \A k \in Reqs \ {j} : result'[k] = result[k] /\ (k \in tmp' <=> k \in tmp)
        /\ pc[j] \in {"place", "new", "over"}
        /\ UNCHANGED <<kind, inbox>>
    BY <1>16, OthersStay
  <2>2. SUFFICES ASSUME NEW i \in 1..Len(inbox), kind[inbox[i].job] \in Media
                 PROVE  Fits(inbox[i].ev, inbox[i].job)'
    BY <2>1
  <2>3. CASE inbox[i].ev = "gone"
    BY <2>1, <2>3
  <2>4. CASE inbox[i].ev # "gone"
    <3>1. inbox[i].job \in Reqs /\ pc[inbox[i].job] = "done"
      BY <2>4, EventIsLast
    <3> QED
      BY <2>1, <2>2, <3>1
  <2> QED
    BY <2>3, <2>4
<1>17. ASSUME NEW j \in Reqs, RenameOver(j) PROVE EventsFit'
  <2>1. /\ \A k \in Reqs \ {j} : result'[k] = result[k] /\ (k \in tmp' <=> k \in tmp)
        /\ pc[j] \in {"place", "new", "over"}
        /\ UNCHANGED <<kind, inbox>>
    BY <1>17, OthersStay
  <2>2. SUFFICES ASSUME NEW i \in 1..Len(inbox), kind[inbox[i].job] \in Media
                 PROVE  Fits(inbox[i].ev, inbox[i].job)'
    BY <2>1
  <2>3. CASE inbox[i].ev = "gone"
    BY <2>1, <2>3
  <2>4. CASE inbox[i].ev # "gone"
    <3>1. inbox[i].job \in Reqs /\ pc[inbox[i].job] = "done"
      BY <2>4, EventIsLast
    <3> QED
      BY <2>1, <2>2, <3>1
  <2> QED
    BY <2>3, <2>4
<1>18. ASSUME NEW j \in Reqs, DeleteDirs(j) PROVE EventsFit'
  BY <1>18 DEF DeleteDirs
<1>19. ASSUME NEW j \in Reqs, Leave(j) PROVE EventsFit'
  BY <1>19 DEF Leave
<1>20. ASSUME NEW j \in Reqs, Rendered(j) PROVE EventsFit'
  BY <1>20 DEF Rendered, WithTemp, Ends, Goes, Quiet
<1>21. ASSUME NEW j \in Reqs, RenderFails(j) PROVE EventsFit'
  BY <1>21 DEF RenderFails, Ends, Goes
<1>22. ASSUME NEW j \in Reqs, Written(j) PROVE EventsFit'
  BY <1>22 DEF Written, Ends, Goes, CancelledWord, Quiet
<1>23. ASSUME NEW j \in Reqs, Panic(j) PROVE EventsFit'
  BY <1>23 DEF Panic, Ends, Quiet
<1>24. ASSUME OtherWrites PROVE EventsFit'
  BY <1>24 DEF OtherWrites, Comes
<1>25. ASSUME OtherDeletes PROVE EventsFit'
  BY <1>25 DEF OtherDeletes
<1>26. ASSUME UNCHANGED vars PROVE EventsFit'
  BY <1>26 DEF vars
<1>27. ASSUME NEW j \in Reqs, Joined(j) PROVE EventsFit'
  BY <1>27 DEF Joined, Ends, Goes, Quiet
<1>28. ASSUME NEW j \in Reqs, Retry(j) PROVE EventsFit'
  BY <1>28 DEF Retry, Ends, Goes, Quiet
<1> HIDE DEF EventsFit
<1> QED
  BY <1>1, <1>2, <1>3, <1>4, <1>5, <1>6, <1>7, <1>8, <1>9, <1>10, <1>11, <1>12, <1>13, <1>14,
     <1>15, <1>16, <1>17, <1>18, <1>19, <1>20, <1>21, <1>22, <1>23, <1>24, <1>25, <1>26,
     <1>27, <1>28
  DEF Next, SessionStep, ThreadStep, ChildEnds, Command

LEMMA UnwantedStep ==
  ASSUME IInv, UnwantedEnd, [Next]_vars
  PROVE  UnwantedEnd'
<1> USE JobsAssumption DEF UnwantedEnd, Unwanted, Noticed, IInv, TypeOK,
       ThreadsAreJobs, Media, At, Goto, ThreadKeeps, outVars, threadVars,
       flagVars, sessionVars, cancelVars, takeVars
<1>1. ASSUME HandleEvent PROVE UnwantedEnd'
  <2>1. /\ inbox # <<>> /\ inbox' = Tail(inbox) /\ toCancel = {}
        /\ UNCHANGED <<interrupted, gone, cancelled, running, kind>>
    BY <1>1 DEF HandleEvent, Free, JobEnds, RequesterGone
  <2>2. table' \subseteq table
    BY <1>1 DEF HandleEvent, JobEnds, RequesterGone
  <2>3. SUFFICES ASSUME NEW j \in Reqs, Unwanted(j)', ~Unwanted(j)
                 PROVE  j \in toCancel' \cup cancelled \/ j \notin running
    BY <2>1
  <2>4. j \in table /\ kind[j] \in Media /\ ~KeepsOrphans /\ Noticed(j)' /\ ~Noticed(j)
    BY <2>1, <2>2, <2>3
  <2>5. Head(inbox) = [ev |-> "gone", job |-> j]
    <3>1. PICK i \in 1..Len(inbox) : inbox[i] = [ev |-> "gone", job |-> j]
      BY <2>4
    <3>2. i = 1 \/ (i - 1 \in 1..Len(inbox') /\ inbox'[i - 1] = inbox[i])
      BY <2>1, <3>1, OldestEvent
    <3>3. i = 1
      BY <2>4, <3>1, <3>2
    <3> QED
      BY <2>1, <3>1, <3>3, OldestEvent
  <2>6. RequesterGone(Head(inbox))
    BY <1>1, <2>5 DEF HandleEvent
  <2> QED
    BY <2>4, <2>5, <2>6 DEF RequesterGone, StartCancel
<1>2. ASSUME CancelStop PROVE UnwantedEnd'
  BY <1>2 DEF CancelStop
<1>3. ASSUME NEW j \in Reqs, CancelJob(j) PROVE UnwantedEnd'
  BY <1>3 DEF CancelJob
<1>4. ASSUME ExportCancel PROVE UnwantedEnd'
  BY <1>4 DEF ExportCancel, StartCancel, RunningExport, Free
<1>5. ASSUME HandleInterrupt PROVE UnwantedEnd'
  BY <1>5 DEF HandleInterrupt, StartCancel
<1>6. ASSUME EditTimeline PROVE UnwantedEnd'
  BY <1>6 DEF EditTimeline
<1>7. ASSUME NEW r \in Reqs, NEW what \in Media, NEW dest \in Dests, NEW vaapi \in BOOLEAN,
             Render(r, what, dest, vaapi)
      PROVE  UnwantedEnd'
  BY <1>7 DEF Render, Insert, Fresh
<1>8. ASSUME NEW r \in Reqs, NEW what \in Media, NEW dest \in Dests, RenderRefused(r, what, dest)
      PROVE  UnwantedEnd'
  BY <1>8 DEF RenderRefused, Refuse, Tell, Fresh
<1>9. ASSUME NEW r \in Reqs, TakePurge(r) PROVE UnwantedEnd'
  BY <1>9 DEF TakePurge, Insert, Fresh, JobReading
<1>10. ASSUME NEW r \in Reqs, TakePurgeRefused(r) PROVE UnwantedEnd'
  BY <1>10 DEF TakePurgeRefused, Refuse, Tell, Fresh
<1>11. ASSUME NEW r \in Reqs, Disconnect(r) PROVE UnwantedEnd'
  BY <1>11 DEF Disconnect
<1>12. ASSUME NEW j \in Reqs, Open(j) PROVE UnwantedEnd'
  BY <1>12 DEF Open, WithTemp, Ends, Goes, Quiet
<1>13. ASSUME NEW j \in Reqs, Stopped(j) PROVE UnwantedEnd'
  BY <1>13 DEF Stopped, Ends, CancelledWord, Quiet
<1>14. ASSUME NEW j \in Reqs, Clear(j) PROVE UnwantedEnd'
  BY <1>14 DEF Clear
<1>15. ASSUME NEW j \in Reqs, Resume(j) PROVE UnwantedEnd'
  BY <1>15 DEF Resume
<1>16. ASSUME NEW j \in Reqs, Place(j) PROVE UnwantedEnd'
  BY <1>16 DEF Place, Look, RenameNew, Placed, Numbered, NotPlaced, Appeared, Comes, Output, Ends, Goes, Quiet
<1>17. ASSUME NEW j \in Reqs, RenameOver(j) PROVE UnwantedEnd'
  BY <1>17 DEF RenameOver, Placed, NotPlaced, Appeared, Comes, Output, Ends, Goes
<1>18. ASSUME NEW j \in Reqs, DeleteDirs(j) PROVE UnwantedEnd'
  BY <1>18 DEF DeleteDirs
<1>19. ASSUME NEW j \in Reqs, Leave(j) PROVE UnwantedEnd'
  BY <1>19 DEF Leave
<1>20. ASSUME NEW j \in Reqs, Rendered(j) PROVE UnwantedEnd'
  BY <1>20 DEF Rendered, WithTemp, Ends, Goes, Quiet
<1>21. ASSUME NEW j \in Reqs, RenderFails(j) PROVE UnwantedEnd'
  BY <1>21 DEF RenderFails, Ends, Goes
<1>22. ASSUME NEW j \in Reqs, Written(j) PROVE UnwantedEnd'
  BY <1>22 DEF Written, Ends, Goes, CancelledWord, Quiet
<1>23. ASSUME NEW j \in Reqs, Panic(j) PROVE UnwantedEnd'
  BY <1>23 DEF Panic, Ends, Quiet
<1>24. ASSUME OtherWrites PROVE UnwantedEnd'
  BY <1>24 DEF OtherWrites, Comes
<1>25. ASSUME OtherDeletes PROVE UnwantedEnd'
  BY <1>25 DEF OtherDeletes
<1>26. ASSUME UNCHANGED vars PROVE UnwantedEnd'
  BY <1>26 DEF vars
<1>27. ASSUME NEW j \in Reqs, Joined(j) PROVE UnwantedEnd'
  BY <1>27 DEF Joined, Ends, Goes, Quiet
<1>28. ASSUME NEW j \in Reqs, Retry(j) PROVE UnwantedEnd'
  BY <1>28 DEF Retry, Ends, Goes, Quiet
<1> HIDE DEF UnwantedEnd
<1> QED
  BY <1>1, <1>2, <1>3, <1>4, <1>5, <1>6, <1>7, <1>8, <1>9, <1>10, <1>11, <1>12, <1>13, <1>14,
     <1>15, <1>16, <1>17, <1>18, <1>19, <1>20, <1>21, <1>22, <1>23, <1>24, <1>25, <1>26,
     <1>27, <1>28
  DEF Next, SessionStep, ThreadStep, ChildEnds, Command

----------------------------------------------------------------------------
LEMMA InitEndsInv == Init => EndsInv
<1> SUFFICES ASSUME Init PROVE EndsInv
  OBVIOUS
<1>1. OutputTyped /\ LooksFirst /\ StopsAreCancels /\ EndsFit
  BY DEF Init, OutputTyped, LooksFirst, StopsAreCancels, EndsFit, EndFits, Media
<1>2. EventsFit /\ UnwantedEnd
  BY DEF Init, EventsFit, UnwantedEnd, Unwanted
<1> QED
  BY <1>1, <1>2 DEF EndsInv

LEMMA SpecEndsInv == Spec => []EndsInv
<1>1. IInv /\ EndsInv /\ [Next]_vars => EndsInv'
  BY TypedStep, LooksStep, StopsStep, EndsStep, EventsFitStep, UnwantedStep DEF EndsInv, IInv
<1> QED
  BY InitEndsInv, SpecIInv, <1>1, PTL DEF Spec

\* What a caller hears of an export or a frame save is what is on disk, and
\* nobody hears of a cancel that nobody asked for.
THEOREM CallersAreToldTheTruth == Spec => []ToldIsTrue
<1>1. EndsInv => ToldIsTrue
  BY DEF EndsInv, EndsFit, EndFits, ToldIsTrue, Told, Fits
<1> QED
  BY SpecEndsInv, <1>1, PTL

\* After an interrupt, and in a host that keeps no orphans after a requester
\* went away, no export and no frame save runs on that nobody cancelled.
THEOREM NothingRunsOn == Spec => []WoundDown
<1>1. EndsInv /\ IInv => WoundDown
  BY DEF EndsInv, IInv, TypeOK, UnwantedEnd, Unwanted, Noticed, WoundDown, Free
<1> QED
  BY SpecEndsInv, SpecIInv, <1>1, PTL

\* No output replaces a file that nobody confirmed and that was there when
\* the path was last looked at.
THEOREM NoOtherFileIsReplaced == Spec => ReplacesOnlyWhatItSaw
<1>1. IInv /\ EndsInv /\ [Next]_vars =>
        [\A j \in Reqs : path # j /\ path' = j => path \in {NoFile, replace[j]} \cup late[j]]_vars
  <2> SUFFICES ASSUME IInv, EndsInv, Next, NEW j \in Reqs, path # j, path' = j
               PROVE  path \in {NoFile, replace[j]} \cup late[j]
    BY DEF vars
  <2>1. PICK k \in Reqs : Place(k) \/ RenameOver(k)
    <3>1. CASE OtherWrites \/ OtherDeletes
      BY <3>1, JobsAssumption DEF OtherWrites, OtherDeletes, Comes, IInv, TypeOK
    <3> QED
      BY <3>1, ZenonT(60) DEF Next, SessionStep, ThreadStep, ChildEnds, Command, HandleEvent, CancelStop, CancelJob,
         ExportCancel, HandleInterrupt, EditTimeline, Render, RenderRefused, Refuse, TakePurge,
         TakePurgeRefused, Disconnect, Open, Stopped, Joined, Retry, Clear, Resume, DeleteDirs, Leave,
         Rendered, RenderFails, Written, Panic, Quiet, outVars
  <2>2. CASE Place(k)
    BY <2>1, <2>2 DEF Place, Look, RenameNew, Placed, Numbered, NotPlaced, Appeared, Comes, Output, Quiet
  <2>3. CASE RenameOver(k)
    BY <2>1, <2>3 DEF RenameOver, Placed, NotPlaced, Comes, Output, At, EndsInv, LooksFirst
  <2> QED
    BY <2>1, <2>2, <2>3
<1> QED
  BY SpecIInv, SpecEndsInv, <1>1, PTL DEF Spec, ReplacesOnlyWhatItSaw
=============================================================================
