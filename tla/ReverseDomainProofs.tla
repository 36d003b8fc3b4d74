------------------------- MODULE ReverseDomainProofs -------------------------
(* The name of an address determines the address, for every address. *)
EXTENDS ReverseDomain, TLAPS

LEMMA DecimalInjective ==
  ASSUME NEW x \in Byte, NEW y \in Byte, Decimal(x) = Decimal(y)
  PROVE  x = y
BY DEF Byte, Decimal

LEMMA NibblesInjective ==
  ASSUME NEW x \in Byte, NEW y \in Byte, Low(x) = Low(y), High(x) = High(y)
  PROVE  x = y
BY DEF Byte, Low, High

LEMMA ElementType ==
  ASSUME NEW s \in Seq(Byte), NEW i \in 1..Len(s)
  PROVE  s[i] \in Byte
OBVIOUS

LEMMA V4Injective ==
  ASSUME NEW a \in Seq(Byte), NEW b \in Seq(Byte), Len(a) = 4, Len(b) = 4,
         V4(a) = V4(b)
  PROVE  a = b
<1>1. ASSUME NEW i \in 1..4 PROVE a[i] = b[i]
  <2>. i \in 1..Len(a) /\ i \in 1..Len(b)
    OBVIOUS
  <2>1. a[i] \in Byte /\ b[i] \in Byte
    BY ElementType
  <2>2. V4(a).labels[5 - i] = Decimal(a[i]) /\ V4(b).labels[5 - i] = Decimal(b[i])
    BY DEF V4
  <2>. QED  BY <2>1, <2>2, DecimalInjective
<1>. QED  BY <1>1

\* Byte i is in labels 33 - 2i and 34 - 2i.
LEMMA V6Labels ==
  ASSUME NEW a \in Seq(Byte), Len(a) = 16, NEW i \in 1..16
  PROVE  /\ V6(a).labels[33 - 2 * i] = <<Low(a[i])>>
         /\ V6(a).labels[34 - 2 * i] = <<High(a[i])>>
<1>1. /\ 33 - 2 * i \in 1..32 /\ (33 - 2 * i) % 2 = 1
      /\ 16 - (((33 - 2 * i) - 1) \div 2) = i
  OBVIOUS
<1>2. /\ 34 - 2 * i \in 1..32 /\ (34 - 2 * i) % 2 # 1
      /\ 16 - (((34 - 2 * i) - 1) \div 2) = i
  OBVIOUS
<1>. QED  BY <1>1, <1>2 DEF V6

LEMMA V6Injective ==
  ASSUME NEW a \in Seq(Byte), NEW b \in Seq(Byte), Len(a) = 16, Len(b) = 16,
         V6(a) = V6(b)
  PROVE  a = b
<1>1. ASSUME NEW i \in 1..16 PROVE a[i] = b[i]
  <2>. i \in 1..Len(a) /\ i \in 1..Len(b)
    OBVIOUS
  <2>1. a[i] \in Byte /\ b[i] \in Byte
    BY ElementType
  <2>2. <<Low(a[i])>> = <<Low(b[i])>> /\ <<High(a[i])>> = <<High(b[i])>>
    BY V6Labels
  <2>3. Low(a[i]) = Low(b[i]) /\ High(a[i]) = High(b[i])
    BY <2>2
  <2>. QED  BY <2>1, <2>3, NibblesInjective
<1>. QED  BY <1>1

\* Different addresses have different names, whatever their versions.
THEOREM NameTellsAddress ==
  ASSUME NEW a \in Seq(Byte), NEW b \in Seq(Byte), Known(a), DomainOf(a) = DomainOf(b)
  PROVE  a = b
<1>1. V4(a).zone = "in-addr.arpa" /\ V6(a).zone = "ip6.arpa" /\ Invalid.zone = "none"
  BY DEF V4, V6, Invalid
<1>2. V4(b).zone = "in-addr.arpa" /\ V6(b).zone = "ip6.arpa"
  BY DEF V4, V6
<1>3. CASE Len(a) = 4
  <2>1. Len(b) = 4
    BY <1>1, <1>2, <1>3 DEF DomainOf
  <2>. QED  BY <1>3, <2>1, V4Injective DEF DomainOf
<1>4. CASE Len(a) = 16
  <2>1. Len(b) = 16
    BY <1>1, <1>2, <1>4 DEF DomainOf
  <2>. QED  BY <1>4, <2>1, V6Injective DEF DomainOf
<1>. QED  BY <1>3, <1>4 DEF Known

\* No two lookups for different addresses ask the same question
\* (dnsutils.c:30-32, 48-54).
THEOREM QuestionsTellAddresses == Spec => QuestionsDiffer
<1>. DEFINE Asked == addr \in Seq(Byte) /\ name = DomainOf(addr)
<1>1. Init => Asked
  BY AddressesAssumption DEF Init
<1>2. Asked /\ [Next]_vars => Asked'
  BY AddressesAssumption DEF Next, Build, vars
<1>3. Asked /\ Asked' => (addr' # addr /\ (Known(addr) \/ Known(addr')) => name' # name)
  BY NameTellsAddress
<1>. QED  BY <1>1, <1>2, <1>3, PTL DEF Spec, QuestionsDiffer

\* The examples of unbound4j.c:286-287, an address of each version
Example4 == <<192, 0, 2, 5>>
Example6 == <<32, 1, 13, 184, 0, 0, 0, 0, 0, 0, 0, 0, 5, 103, 137, 171>>

\* The labels of the first, each byte in decimal, the last byte first
LEMMA Example4Labels ==
  DomainOf(Example4).labels = <<<<5>>, <<2>>, <<0>>, <<1, 9, 2>>>>
<1>1. Len(Example4) = 4 /\ Example4[1] = 192 /\ Example4[2] = 0
      /\ Example4[3] = 2 /\ Example4[4] = 5
  BY DEF Example4
<1>2. /\ Decimal(192) = <<1, 9, 2>> /\ Decimal(0) = <<0>> /\ Decimal(2) = <<2>>
      /\ Decimal(5) = <<5>>
  BY DEF Decimal
<1>3. DomainOf(Example4).labels = [i \in 1..4 |-> Decimal(Example4[5 - i])]
  BY <1>1 DEF DomainOf, V4
<1>. HIDE DEF Example4, Decimal
<1>4. \A i \in 1..4 : Decimal(Example4[5 - i])
                        = <<<<5>>, <<2>>, <<0>>, <<1, 9, 2>>>>[i]
  <2>1. \A i \in 1..4 : i = 1 \/ i = 2 \/ i = 3 \/ i = 4
    OBVIOUS
  <2>2. 5 - 1 = 4 /\ 5 - 2 = 3 /\ 5 - 3 = 2 /\ 5 - 4 = 1
    OBVIOUS
  <2>. QED  BY <1>1, <1>2, <2>1, <2>2
<1>5. <<<<5>>, <<2>>, <<0>>, <<1, 9, 2>>>>
        = [i \in 1..4 |-> <<<<5>>, <<2>>, <<0>>, <<1, 9, 2>>>>[i]]
  OBVIOUS
<1>. QED  BY <1>3, <1>4, <1>5

\* The first eight labels, and the last
LEMMA FirstEight ==
  ASSUME NEW s
  PROVE  SubSeq(s, 1, 8) = <<s[1], s[2], s[3], s[4], s[5], s[6], s[7], s[8]>>
<1> DEFINE t == <<s[1], s[2], s[3], s[4], s[5], s[6], s[7], s[8]>>
<1>1. SubSeq(s, 1, 8) = [i \in 1..8 |-> s[i]]
  OBVIOUS
<1>2. t = [i \in 1..8 |-> t[i]]
  OBVIOUS
<1>3. \A i \in 1..8 : t[i] = s[i]
  OBVIOUS
<1>. QED  BY <1>1, <1>2, <1>3

\* The last eight of 32
LEMMA LastEight ==
  ASSUME NEW s
  PROVE  SubSeq(s, 25, 32) = <<s[25], s[26], s[27], s[28], s[29], s[30], s[31], s[32]>>
<1> DEFINE t == <<s[25], s[26], s[27], s[28], s[29], s[30], s[31], s[32]>>
<1>1. SubSeq(s, 25, 32) = [i \in 1..8 |-> s[24 + i]]
  OBVIOUS
<1>2. t = [i \in 1..8 |-> t[i]]
  OBVIOUS
<1>3. \A i \in 1..8 : t[i] = s[24 + i]
  OBVIOUS
<1>. QED  BY <1>1, <1>2, <1>3

\* The labels of the second at both its ends, two nibbles of each byte, low one first
LEMMA Example6Labels ==
  LET labels == DomainOf(Example6).labels
  IN  /\ SubSeq(labels, 1, 8) = <<<<11>>, <<10>>, <<9>>, <<8>>, <<7>>, <<6>>, <<5>>, <<0>>>>
      /\ SubSeq(labels, 25, 32) = <<<<8>>, <<11>>, <<13>>, <<0>>, <<1>>, <<0>>, <<0>>, <<2>>>>
<1>1. Example6 \in Seq(Byte) /\ Len(Example6) = 16
  BY DEF Example6, Byte
<1>2. /\ Example6[16] = 171 /\ Example6[15] = 137 /\ Example6[14] = 103 /\ Example6[13] = 5
      /\ Example6[4] = 184 /\ Example6[3] = 13 /\ Example6[2] = 1 /\ Example6[1] = 32
  BY DEF Example6
<1>3. PICK labels : labels = DomainOf(Example6).labels
  OBVIOUS
<1>4. labels = V6(Example6).labels
  BY <1>1, <1>3 DEF DomainOf
<1>. HIDE DEF Example6
<1>5. \A i \in 1..16 : /\ labels[33 - 2 * i] = <<Low(Example6[i])>>
                       /\ labels[34 - 2 * i] = <<High(Example6[i])>>
  BY <1>1, <1>4, V6Labels
<1>6. /\ labels[1] = <<11>> /\ labels[2] = <<10>> /\ labels[3] = <<9>> /\ labels[4] = <<8>>
      /\ labels[5] = <<7>> /\ labels[6] = <<6>> /\ labels[7] = <<5>> /\ labels[8] = <<0>>
  <2>1. /\ Low(171) = 11 /\ High(171) = 10 /\ Low(137) = 9 /\ High(137) = 8
        /\ Low(103) = 7 /\ High(103) = 6 /\ Low(5) = 5 /\ High(5) = 0
    BY DEF Low, High
  <2>2. labels[1] = <<11>> /\ labels[2] = <<10>>
    <3>1. 16 \in 1..16 /\ 33 - 2 * 16 = 1 /\ 34 - 2 * 16 = 2
      OBVIOUS
    <3>. QED  BY <1>2, <1>5, <2>1, <3>1
  <2>3. labels[3] = <<9>> /\ labels[4] = <<8>>
    <3>1. 15 \in 1..16 /\ 33 - 2 * 15 = 3 /\ 34 - 2 * 15 = 4
      OBVIOUS
    <3>. QED  BY <1>2, <1>5, <2>1, <3>1
  <2>4. labels[5] = <<7>> /\ labels[6] = <<6>>
    <3>1. 14 \in 1..16 /\ 33 - 2 * 14 = 5 /\ 34 - 2 * 14 = 6
      OBVIOUS
    <3>. QED  BY <1>2, <1>5, <2>1, <3>1
  <2>5. labels[7] = <<5>> /\ labels[8] = <<0>>
    <3>1. 13 \in 1..16 /\ 33 - 2 * 13 = 7 /\ 34 - 2 * 13 = 8
      OBVIOUS
    <3>. QED  BY <1>2, <1>5, <2>1, <3>1
  <2>. QED  BY <2>2, <2>3, <2>4, <2>5
<1>7. /\ labels[25] = <<8>> /\ labels[26] = <<11>> /\ labels[27] = <<13>> /\ labels[28] = <<0>>
      /\ labels[29] = <<1>> /\ labels[30] = <<0>> /\ labels[31] = <<0>> /\ labels[32] = <<2>>
  <2>1. /\ Low(184) = 8 /\ High(184) = 11 /\ Low(13) = 13 /\ High(13) = 0
        /\ Low(1) = 1 /\ High(1) = 0 /\ Low(32) = 0 /\ High(32) = 2
    BY DEF Low, High
  <2>2. labels[25] = <<8>> /\ labels[26] = <<11>>
    <3>1. 4 \in 1..16 /\ 33 - 2 * 4 = 25 /\ 34 - 2 * 4 = 26
      OBVIOUS
    <3>. QED  BY <1>2, <1>5, <2>1, <3>1
  <2>3. labels[27] = <<13>> /\ labels[28] = <<0>>
    <3>1. 3 \in 1..16 /\ 33 - 2 * 3 = 27 /\ 34 - 2 * 3 = 28
      OBVIOUS
    <3>. QED  BY <1>2, <1>5, <2>1, <3>1
  <2>4. labels[29] = <<1>> /\ labels[30] = <<0>>
    <3>1. 2 \in 1..16 /\ 33 - 2 * 2 = 29 /\ 34 - 2 * 2 = 30
      OBVIOUS
    <3>. QED  BY <1>2, <1>5, <2>1, <3>1
  <2>5. labels[31] = <<0>> /\ labels[32] = <<2>>
    <3>1. 1 \in 1..16 /\ 33 - 2 * 1 = 31 /\ 34 - 2 * 1 = 32
      OBVIOUS
    <3>. QED  BY <1>2, <1>5, <2>1, <3>1
  <2>. QED  BY <2>2, <2>3, <2>4, <2>5
<1>. HIDE DEF DomainOf
<1>8. SubSeq(labels, 1, 8) = <<<<11>>, <<10>>, <<9>>, <<8>>, <<7>>, <<6>>, <<5>>, <<0>>>>
  <2>1. SubSeq(labels, 1, 8)
          = <<labels[1], labels[2], labels[3], labels[4],
              labels[5], labels[6], labels[7], labels[8]>>
    BY FirstEight
  <2>. QED  BY <1>6, <2>1
<1>9. SubSeq(labels, 25, 32) = <<<<8>>, <<11>>, <<13>>, <<0>>, <<1>>, <<0>>, <<0>>, <<2>>>>
  <2>1. SubSeq(labels, 25, 32)
          = <<labels[25], labels[26], labels[27], labels[28],
              labels[29], labels[30], labels[31], labels[32]>>
    BY LastEight
  <2>. QED  BY <1>7, <2>1
<1>. QED  BY <1>3, <1>8, <1>9

\* Lookups of those two addresses ask for the names the code documents
\* (unbound4j.c:286-287).
THEOREM DocumentedNames == Spec => []NamedAsDocumented
<1>. DEFINE Asked == name = DomainOf(addr)
<1>1. Init => Asked
  BY DEF Init
<1>2. Asked /\ [Next]_vars => Asked'
  BY DEF Next, Build, vars
<1>3. Asked => NamedAsDocumented
  BY Example4Labels, Example6Labels DEF NamedAsDocumented, Example4, Example6
<1>. QED  BY <1>1, <1>2, <1>3, PTL DEF Spec
=============================================================================
