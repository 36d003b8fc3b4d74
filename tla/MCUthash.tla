------------------------------ MODULE MCUthash ------------------------------
(* Instances of Uthash for TLC. *)
EXTENDS Uthash

CONSTANTS i1, i2, i3, i4, i5, k1, k2, k3

FourItems == {i1, i2, i3, i4}
FiveItems == {i1, i2, i3, i4, i5}
ThreeKeys == {k1, k2, k3}

\* k1 and k2 share a bucket until there are four, k3 has one of its own when
\* there are two.
HashValues == (k1 :> 0) @@ (k2 :> 2) @@ (k3 :> 1)

\* Sound for safety: nothing tells one item from another.
ItemSymmetry == Permutations(Items)
=============================================================================
