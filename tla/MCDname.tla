------------------------------ MODULE MCDname ------------------------------
(* Instances of Dname for TLC *)
EXTENDS Dname

CONSTANTS
  Alphabet,    \* the bytes that occur in record data
  MaxLength,   \* bound: their number
  Repeated     \* the byte LongName is made of

ShortWires == UNION {[1..n -> Alphabet] : n \in 0..MaxLength}

\* The longest name that may be sent: four labels, 255 bytes
LongName ==
  LET label(n) == <<n>> \o [i \in 1..n |-> Repeated]
  IN  {label(63) \o label(63) \o label(63) \o label(61) \o <<0>>}

\* What the size of the buffer rests on: "maximum length of a domain name is 253"
\* (unbound4j.c:229); a last dot comes to that.
NameFits == Len(out.printed) <= 254
=============================================================================
