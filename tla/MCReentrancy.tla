----------------------------- MODULE MCReentrancy -----------------------------
(* Instances of Reentrancy for TLC. *)
EXTENDS Reentrancy

CONSTANTS c1, c2, q1, q2

TwoContexts == {c1, c2}
OneContext == {c1}
TwoQueries == {q1, q2}

AtOnce == [c \in Ctxs |-> 0]
OneSecond == (c1 :> 1)

Everything == {"lookup", "close", "wait"}
Closes == {"close"}

\* Sound for safety: nothing tells one lookup from another.
QuerySymmetry == Permutations(Queries)
=============================================================================
