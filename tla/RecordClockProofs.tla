-------------------------- MODULE RecordClockProofs --------------------------
(* Proofs about RecordClock, for every Slot and every stream of reports. *)
EXTENDS RecordClock, TLAPS

\* What division by the length of a half second does to a time.
LEMMA SlotFacts ==
  ASSUME NEW e \in Nat
  PROVE  /\ SlotOf(e) \in Nat
         /\ SlotOf(e) * Slot <= e
         /\ e < SlotOf(e) * Slot + Slot
BY ClockAssumptions, SMTT(30) DEF SlotOf

\* A later half second starts a whole Slot later.
LEMMA SlotsApart ==
  ASSUME NEW m \in Nat, NEW n \in Nat, m < n
  PROVE  m * Slot + Slot <= n * Slot
BY ClockAssumptions, SMTT(30)

LEMMA SlotsGrow ==
  ASSUME NEW m \in Nat, NEW n \in Nat, m <= n
  PROVE  m * Slot <= n * Slot
BY ClockAssumptions, SMTT(30)

\* A later time is in no earlier half second.
LEMMA SlotsAreOrdered ==
  ASSUME NEW d \in Nat, NEW e \in Nat, d <= e
  PROVE  SlotOf(d) <= SlotOf(e)
<1>1. SUFFICES ASSUME SlotOf(e) < SlotOf(d) PROVE FALSE
  BY SlotFacts
<1>2. SlotOf(e) * Slot + Slot <= SlotOf(d) * Slot
  BY <1>1, SlotsApart, SlotFacts
<1>3. SlotOf(d) * Slot \in Int /\ SlotOf(e) * Slot \in Int /\ Slot \in Nat
  BY SlotFacts, ClockAssumptions
<1> QED
  BY <1>2, <1>3, SlotFacts

\* The same for whole seconds: two first halves with another in between lie
\* in different seconds, the later time in the later second.
LEMMA SecondsApart ==
  ASSUME NEW d \in Nat, NEW e \in Nat, NEW k \in Nat,
         d < 2 * k * Slot + Slot, 2 * k * Slot + 2 * Slot <= e
  PROVE  e \div (2 * Slot) > d \div (2 * Slot)
<1> DEFINE S == 2 * Slot
           a == d \div S
           b == e \div S
<1>1. S \in Nat \ {0} /\ Slot \in Nat \ {0}
  BY ClockAssumptions
<1>2. a \in Nat /\ a * S <= d /\ b \in Nat /\ e < b * S + S
  BY <1>1, SMTT(30)
<1>3. a <= k
  <2>1. SUFFICES ASSUME k < a PROVE FALSE
    BY <1>2
  <2>2. k * S + S <= a * S
    BY <1>1, <1>2, <2>1, SMTT(30)
  <2>3. k * S = 2 * k * Slot
    BY <1>1, SMTT(30)
  <2>4. a * S \in Int /\ k * S \in Int
    BY <1>1, <1>2
  <2> HIDE DEF a, b
  <2> QED
    BY <1>1, <1>2, <2>2, <2>3, <2>4
<1>4. k < b
  <2>1. SUFFICES ASSUME b <= k PROVE FALSE
    BY <1>2
  <2>2. b * S <= k * S
    BY <1>1, <1>2, <2>1, SMTT(30)
  <2>3. k * S = 2 * k * Slot
    BY <1>1, SMTT(30)
  <2>4. b * S \in Int /\ k * S \in Int
    BY <1>1, <1>2
  <2> HIDE DEF a, b
  <2> QED
    BY <1>1, <1>2, <2>2, <2>3, <2>4
<1> QED
  BY <1>2, <1>3, <1>4

----------------------------------------------------------------------------
\* What was said was said in the first half of a second that has begun.
SaidInTime == said # Never => said <= elapsed /\ FirstHalf(said)

ClockInv == ClockTypeOK /\ SaidInTime /\ NoSecondIsMissed

LEMMA InitClockInv == Init => ClockInv
<1> SUFFICES ASSUME Init PROVE ClockInv
  OBVIOUS
<1>1. elapsed = 0 /\ said = Never /\ take = NoTake
  BY DEF Init
<1>2. ~(elapsed >= Slot)
  BY <1>1, ClockAssumptions
<1> QED
  BY <1>1, <1>2 DEF ClockInv, ClockTypeOK, SaidInTime, NoSecondIsMissed

LEMMA NextClockInv == ClockInv /\ [Next]_vars => ClockInv'
<1> SUFFICES ASSUME ClockInv, [Next]_vars PROVE ClockInv'
  OBVIOUS
<1> USE DEF ClockInv
<1>1. ASSUME NEW t \in Take, CaptureStarted(t) PROVE ClockInv'
  <2>1. take' = t /\ elapsed' = 0 /\ said' = Never
    BY <1>1 DEF CaptureStarted
  <2>2. ~(elapsed' >= Slot)
    BY <2>1, ClockAssumptions
  <2> QED
    BY <2>1, <2>2 DEF ClockTypeOK, SaidInTime, NoSecondIsMissed
<1>2. ASSUME NEW t \in Take, NEW r \in Reports, Clock(t, r) PROVE ClockInv'
  <2> DEFINE now == Later(r, elapsed)
  <2>1. elapsed \in Nat /\ now \in Nat /\ elapsed <= now /\ elapsed' = now /\ take' = take
    BY <1>2, ClockAssumptions DEF Clock, Later, ClockTypeOK
  <2> HIDE DEF now
  <2>2. CASE AnnouncesSecond(elapsed, now)
    <3>1. said' = now
      BY <1>2, <2>2 DEF Clock, now
    <3>2. FirstHalf(now)
      BY <2>2 DEF AnnouncesSecond, FirstHalf, SlotOf
    <3> QED
      BY <2>1, <3>1, <3>2 DEF ClockTypeOK, SaidInTime, NoSecondIsMissed, Never
  <2>3. CASE ~AnnouncesSecond(elapsed, now)
    <3>1. said' = said
      BY <1>2, <2>3 DEF Clock, now
    <3>2. SaidInTime'
      BY <2>1, <3>1 DEF ClockTypeOK, SaidInTime, FirstHalf, SlotOf, Never
    <3>3. ASSUME FirstHalf(now), now >= Slot
          PROVE  said # Never /\ SlotOf(said) = SlotOf(now)
      <4>1. SlotOf(now) = SlotOf(elapsed)
        BY <2>1, <2>3, <3>3, SlotFacts, SlotsAreOrdered DEF AnnouncesSecond, FirstHalf, SlotOf
      <4>2. SlotOf(now) # 0
        <5>1. SUFFICES ASSUME SlotOf(now) = 0 PROVE FALSE
          OBVIOUS
        <5>2. now < SlotOf(now) * Slot + Slot /\ SlotOf(now) * Slot = 0
          BY <2>1, <5>1, SlotFacts, ClockAssumptions
        <5> QED
          BY <2>1, <3>3, <5>2, ClockAssumptions
      <4>3. elapsed >= Slot
        <5>1. SUFFICES ASSUME elapsed < Slot PROVE FALSE
          BY <2>1, ClockAssumptions
        <5>2. SlotOf(elapsed) = 0
          <6>1. SUFFICES ASSUME 0 < SlotOf(elapsed) PROVE FALSE
            BY <2>1, SlotFacts
          <6>2. 0 * Slot + Slot <= SlotOf(elapsed) * Slot
            BY <2>1, <6>1, SlotsApart, SlotFacts
          <6>3. SlotOf(elapsed) * Slot <= elapsed /\ SlotOf(elapsed) * Slot \in Int
            BY <2>1, SlotFacts, ClockAssumptions
          <6> QED
            BY <2>1, <5>1, <6>2, <6>3, ClockAssumptions
        <5> QED
          BY <4>1, <4>2, <5>2
      <4> QED
        BY <3>3, <4>1, <4>3 DEF NoSecondIsMissed, FirstHalf
    <3> QED
      BY <2>1, <3>1, <3>2, <3>3 DEF ClockTypeOK, NoSecondIsMissed, FirstHalf, SlotOf
  <2> QED
    BY <2>2, <2>3
<1>3. CASE TakeEnds
  BY <1>3 DEF TakeEnds, ClockTypeOK, SaidInTime, NoSecondIsMissed, FirstHalf, SlotOf
<1>4. CASE UNCHANGED vars
  BY <1>4 DEF vars, ClockTypeOK, SaidInTime, NoSecondIsMissed, FirstHalf, SlotOf
<1> QED
  BY <1>1, <1>2, <1>3, <1>4 DEF Next, Ignored

\* No second whose first half the clock reached is left untold, whatever the
\* reports are and whenever they come.
THEOREM NothingIsMissed == Spec => []NoSecondIsMissed
<1>1. ClockInv => NoSecondIsMissed
  BY DEF ClockInv
<1> QED
  BY <1>1, InitClockInv, NextClockInv, PTL DEF Spec

----------------------------------------------------------------------------
\* One step: what is said next is more than Slot later, in a later second.
LEMMA OneAnnouncement ==
  ASSUME ClockInv, Next, said' # said, said # Never, said' # Never
  PROVE  said' - said > Slot /\ said' \div (2 * Slot) > said \div (2 * Slot)
<1>1. PICK t \in Take, r \in Reports : Clock(t, r)
  BY DEF Next, CaptureStarted, Ignored, TakeEnds, vars
<1> DEFINE now == Later(r, elapsed)
<1>2. said' = now /\ AnnouncesSecond(elapsed, now)
  BY <1>1 DEF Clock
<1>3. said \in Nat /\ elapsed \in Nat /\ now \in Nat /\ said <= elapsed /\ FirstHalf(said)
  BY ClockAssumptions DEF ClockInv, ClockTypeOK, SaidInTime, Later
<1> HIDE DEF now
<1>4. PICK k \in Nat : SlotOf(said) = 2 * k
  BY <1>3, SlotFacts DEF FirstHalf
<1>5. SlotOf(now) > SlotOf(said) /\ SlotOf(now) % 2 = 0
  BY <1>2, <1>3, SlotsAreOrdered, SlotFacts DEF AnnouncesSecond, SlotOf
<1>6. SlotOf(now) >= 2 * k + 2
  BY <1>3, <1>4, <1>5, SlotFacts
<1>7. said < 2 * k * Slot + Slot /\ 2 * k * Slot + 2 * Slot <= now
  <2>1. said < 2 * k * Slot + Slot
    BY <1>3, <1>4, SlotFacts
  <2>2. (2 * k + 2) * Slot <= SlotOf(now) * Slot
    <3>1. 2 * k + 2 \in Nat /\ SlotOf(now) \in Nat
      BY <1>3, SlotFacts
    <3> QED
      BY <1>6, <3>1, SlotsGrow
  <2>3. (2 * k + 2) * Slot = 2 * k * Slot + 2 * Slot
    BY ClockAssumptions, SMTT(30)
  <2>4. SlotOf(now) * Slot <= now /\ SlotOf(now) * Slot \in Int /\ 2 * k * Slot \in Int
    BY <1>3, SlotFacts, ClockAssumptions
  <2> QED
    BY <1>3, <2>1, <2>2, <2>3, <2>4, ClockAssumptions
<1>8. now - said > Slot
  <2>1. 2 * k * Slot \in Int /\ Slot \in Nat
    BY ClockAssumptions
  <2> QED
    BY <1>3, <1>7, <2>1
<1> QED
  BY <1>2, <1>3, <1>7, <1>8, SecondsApart

\* Announcements of a take are more than half a second apart and each shows a
\* new second, for every sequence of reports.
THEOREM AnnouncementsKeepApart == Spec => AnnouncementsAreApart
<1>1. ClockInv /\ [Next]_vars =>
        [said' # said /\ said # Never /\ said' # Never =>
           /\ said' - said > Slot
           /\ said' \div (2 * Slot) > said \div (2 * Slot)]_vars
  BY OneAnnouncement
<1> QED
  BY <1>1, InitClockInv, NextClockInv, PTL DEF Spec, AnnouncementsAreApart
=============================================================================
