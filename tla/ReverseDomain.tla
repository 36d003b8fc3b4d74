---------------------------- MODULE ReverseDomain ----------------------------
(***************************************************************************)
(* src/jni/src/dnsutils.c: the name under which the name of an address is  *)
(* looked up, as ub4j_reverse_lookup builds it.  A name is the sequence of *)
(* its labels, each a sequence of digits, and the zone that ends it.       *)
(***************************************************************************)
EXTENDS Integers, Sequences

CONSTANT Addresses   \* addresses that are looked up, as bytes

Byte == 0..255

ASSUME AddressesAssumption == Addresses \subseteq Seq(Byte)

\* %u
Decimal(b) ==
  IF b < 10 THEN <<b>>
  ELSE IF b < 100 THEN <<b \div 10, b % 10>>
  ELSE <<b \div 100, (b \div 10) % 10, b % 10>>

Low(b) == b % 16
High(b) == b \div 16

V4(a) == [labels |-> [i \in 1..4 |-> Decimal(a[5 - i])], zone |-> "in-addr.arpa"]

V6_OneNibble(a) ==
  [labels |-> [i \in 1..32 |-> <<Low(a[16 - ((i - 1) \div 2)])>>], zone |-> "ip6.arpa"]

V6_HighFirst(a) ==
  [labels |-> [i \in 1..32 |-> LET b == a[16 - ((i - 1) \div 2)]
                               IN  IF i % 2 = 1 THEN <<High(b)>> ELSE <<Low(b)>>],
   zone   |-> "ip6.arpa"]

\* Two nibbles of each byte, the low one first, from the last byte to the first
V6(a) ==
  [labels |-> [i \in 1..32 |-> LET b == a[16 - ((i - 1) \div 2)]
                               IN  IF i % 2 = 1 THEN <<Low(b)>> ELSE <<High(b)>>],
   zone   |-> "ip6.arpa"]

\* No name: the length of the address is neither of the two.
Invalid == [labels |-> <<>>, zone |-> "none"]

DomainOf(a) ==
  IF Len(a) = 4 THEN V4(a)
  ELSE IF Len(a) = 16 THEN V6(a)
  ELSE Invalid

-----------------------------------------------------------------------------

VARIABLES
  addr,   \* the address of the last lookup
  name    \* what libunbound was asked

vars == <<addr, name>>

Init == addr \in Addresses /\ name = DomainOf(addr)

Build(a) == addr' = a /\ name' = DomainOf(a)

Next == \E a \in Addresses : Build(a)

Spec == Init /\ [][Next]_vars

Known(a) == Len(a) \in {4, 16}

\* Two lookups ask the same question only when they are for the same address: no
\* digit, nibble or byte of it is lost (dnsutils.c:30-32, 48-54).
QuestionsDiffer ==
  [][addr' # addr /\ (Known(addr) \/ Known(addr')) => name' # name]_vars

\* The names the code gives as examples (unbound4j.c:286-287)
NamedAsDocumented ==
  /\ addr = <<192, 0, 2, 5>> =>
       name.labels = <<<<5>>, <<2>>, <<0>>, <<1, 9, 2>>>>
  /\ addr = <<32, 1, 13, 184, 0, 0, 0, 0, 0, 0, 0, 0, 5, 103, 137, 171>> =>
       /\ SubSeq(name.labels, 1, 8) =
            <<<<11>>, <<10>>, <<9>>, <<8>>, <<7>>, <<6>>, <<5>>, <<0>>>>
       /\ SubSeq(name.labels, 25, 32) =
            <<<<8>>, <<11>>, <<13>>, <<0>>, <<1>>, <<0>>, <<0>>, <<2>>>>
=============================================================================
