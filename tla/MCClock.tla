------------------------------ MODULE MCClock ------------------------------
(* RecordClock with half seconds of 3 ticks and reports over 5 seconds. *)
EXTENDS RecordClock

FiveSeconds == 0 .. 29
=============================================================================
