---------------------------- MODULE RecordClock ----------------------------
(***************************************************************************)
(* The recording's clock (record_clock in on_event/record.rs): the engine  *)
(* reports how long a take has run, and whoever waits for the take hears   *)
(* of each new second.  A report may come late, out of order, twice, after *)
(* seconds of nothing, or be one of a take that is over.                   *)
(***************************************************************************)
EXTENDS Takes

CONSTANTS
  Slot,     \* RECORD_PROGRESS_NS: half a second
  Reports   \* the elapsed times a report may carry

ASSUME ClockAssumptions == Slot \in Nat \ {0} /\ Reports \subseteq Nat

VARIABLES
  take,     \* the take being recorded
  elapsed,  \* RecordPhase::Recording.elapsed_ns
  said      \* the elapsed time last sent to those who wait, or Never

vars == <<take, elapsed, said>>

Never == -1

\* Mutant of AnnouncesSecond: the report must be of the very next half second.
AnnouncesNextSecond(previous, now) ==
  /\ now \div Slot = previous \div Slot + 1
  /\ (now \div Slot) % 2 = 0

\* The clock enters a new half second, the first one of its second.
AnnouncesSecond(previous, now) ==
  /\ now \div Slot > previous \div Slot
  /\ (now \div Slot) % 2 = 0

\* Mutant of Later: the report is taken as it comes.
AsReported(a, b) == a

Later(a, b) == IF a > b THEN a ELSE b

Init == take = NoTake /\ elapsed = 0 /\ said = Never

CaptureStarted(t) ==
  /\ take = NoTake
  /\ take' = t /\ elapsed' = 0 /\ said' = Never

Clock(t, reported) ==
  LET now == Later(reported, elapsed) IN
  /\ take # NoTake /\ take = t
  /\ elapsed' = now
  /\ said' = IF AnnouncesSecond(elapsed, now) THEN now ELSE said
  /\ UNCHANGED take

Ignored(t) == take # t /\ UNCHANGED vars

TakeEnds == take # NoTake /\ take' = NoTake /\ UNCHANGED <<elapsed, said>>

Next ==
  \/ \E t \in Take : CaptureStarted(t) \/ Ignored(t)
  \/ \E t \in Take, reported \in Reports : Clock(t, reported)
  \/ TakeEnds

Spec == Init /\ [][Next]_vars

----------------------------------------------------------------------------
SlotOf(e)   == e \div Slot
FirstHalf(e) == SlotOf(e) % 2 = 0

ClockTypeOK ==
  /\ take \in Take \cup {NoTake}
  /\ elapsed \in Nat
  /\ said \in Nat \cup {Never}

\* While the clock is in the first half of a second (but the first one),
\* those who wait have been told a time of that very half second: no second
\* whose first half was seen goes untold.
NoSecondIsMissed ==
  FirstHalf(elapsed) /\ elapsed >= Slot => said # Never /\ SlotOf(said) = SlotOf(elapsed)

\* Two announcements of a take are more than Slot apart whatever the reports,
\* and the later one is of a later second (it shows a new mm:ss).
AnnouncementsAreApart ==
  [][said' # said /\ said # Never /\ said' # Never =>
       /\ said' - said > Slot
       /\ said' \div (2 * Slot) > said \div (2 * Slot)]_vars
=============================================================================
