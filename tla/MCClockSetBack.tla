---------------------------- MODULE MCClockSetBack ----------------------------
(* An instance of ClockSetBack for TLC. *)
EXTENDS ClockSetBack

CONSTANTS c1, q1, q2

OneContext == {c1}
TwoQueries == {q1, q2}

OneSecond == (c1 :> 1)
=============================================================================
