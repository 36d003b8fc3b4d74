---------------------------- MODULE MCUnbound4j ----------------------------
(* Instances of Unbound4j for TLC. *)
EXTENDS Unbound4jProperties

CONSTANTS c1, c2, q1, q2, q3

TwoContexts == {c1, c2}
OneContext == {c1}

TwoQueries == {q1, q2}
ThreeQueries == {q1, q2, q3}

\* c2 has a time-out below one second, which the configuration rounds to 0.
ShortTimeouts == (c1 :> 1) @@ (c2 :> 0)
OneSecond == (c1 :> 1)

\* Sound for safety: nothing tells one lookup from another.
QuerySymmetry == Permutations(Queries)
=============================================================================
