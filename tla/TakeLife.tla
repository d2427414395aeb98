------------------------------ MODULE TakeLife ------------------------------
(***************************************************************************)
(* What recording promises of the takes in qrec.json, and of the ends its  *)
(* callers are told: a take only grows older, and what was told of it      *)
(* stays true.  Nothing is said of phases, messages, engines or saves.     *)
(***************************************************************************)
EXTENDS Takes

VARIABLES
  life,   \* what qrec.json on disk says of each take
  told    \* the ends of a take that somebody was told

\* The highest number may be given again and again.
Number == Take \ {MaxTake}

End == {"ok", "tooShort", "broken"}
Age == {"unborn", "recording"} \cup End \cup {"purged"}
Life == [age : Age, frames : Nat]

\* A take is recorded once, ends in one way with one length, and its number
\* stays with it when it is purged.
Older(x, y) ==
  \/ x = y
  \/ x.age = "unborn"
  \/ x.age = "recording" /\ y.age \in End \cup {"purged"}
  \/ x.age \in End /\ y.age = "purged"

Init ==
  /\ life \in [Number -> Life]
  /\ told = [t \in Number |-> {}]

\* Takes grow older, several at once if an earlier save had failed; an end
\* is told in the step that puts it on disk.
Grow ==
  /\ life' \in [Number -> Life]
  /\ \A t \in Number : Older(life[t], life'[t])
  /\ told' \in [Number -> SUBSET End]
  /\ \A t \in Number :
       /\ told[t] \subseteq told'[t]
       /\ told'[t] \ told[t] \subseteq {life'[t].age}

Spec == Init /\ [][Grow]_<<life, told>>

\* What was told of a take is how it ended, or it is purged by now.
ToldIsTrue == \A t \in Number : \A v \in told[t] : life[t].age \in {v, "purged"}
=============================================================================
