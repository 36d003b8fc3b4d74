--------------------------- MODULE MCReverseDomain ---------------------------
(* An instance of ReverseDomain for TLC. *)
EXTENDS ReverseDomain

CONSTANT Octets   \* the bytes that vary

FourOctets == {<<w, x, y, z>> : w, x, y, z \in Octets}

\* What varies of an IPv6 address is at both ends of it.
SixteenOctets ==
  {<<w, x, 0, 0, 0, 0, 0, 0, 0, 0, 0, 0, 0, 0, y, z>> : w, x, y, z \in Octets}

Documented ==
  {<<192, 0, 2, 5>>,
   <<32, 1, 13, 184, 0, 0, 0, 0, 0, 0, 0, 0, 5, 103, 137, 171>>}

\* And one that is no address
SampleAddresses == FourOctets \cup SixteenOctets \cup Documented \cup {<<1, 1>>}
=============================================================================
