---------------------------- MODULE MCJniBridge ----------------------------
(* Instances of JniBridge for TLC. *)
EXTENDS JniBridge, TLC

CONSTANTS c1, c2, q1, q2

TwoContexts == {c1, c2}
TwoQueries == {q1, q2}

ShortTimeouts == (c1 :> 1) @@ (c2 :> 0)

\* The JVM may fail for one of the two.
OneFails == {c2}
=============================================================================
