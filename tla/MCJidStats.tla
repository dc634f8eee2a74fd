----------------------------- MODULE MCJidStats -----------------------------
(* A week of four seconds, with two "days" of two; one report counts the   *)
(* seconds of the day, the other the days of the week.                     *)
EXTENDS JidStats

SmallReports == <<[div |-> 2, period |-> 1], [div |-> 4, period |-> 2]>>
BothSettings == BOOLEAN
=============================================================================
