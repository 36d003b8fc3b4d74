---------------------------- MODULE DnameProofs ----------------------------
(***************************************************************************)
(* The scan of a name stays inside the record data and its printing inside *)
(* the buffer, for record data and buffers of any length; and from the     *)
(* text a reader gets the name back, whatever its labels and bytes.        *)
(***************************************************************************)
EXTENDS Dname, TableLemmas

\* What StrPrint and Store keep of the output, for a buffer of n bytes
Sound(o, n) ==
  /\ o \in Output
  /\ Len(o.text) + (IF o.ended THEN 1 ELSE 0) <= n
  /\ \E k \in 0..Len(o.printed) : o.text = SubSeq(o.printed, 1, k)
  /\ Len(o.printed) < n => o.text = o.printed
  /\ o.room > 0 => o.text = o.printed /\ o.room = n - Len(o.text)
  /\ o.room = 0 => Len(o.printed) >= n

\* A beginning stays a beginning when something is added.
LEMMA BeginningKept ==
  ASSUME NEW s \in Seq(Byte), NEW t \in Seq(Byte), NEW k \in 0..Len(s)
  PROVE  SubSeq(s \o t, 1, k) = SubSeq(s, 1, k)
<1>1. s \o t \in Seq(Byte) /\ Len(s \o t) = Len(s) + Len(t)
  BY ConcatProperties
<1>2. \A i \in 1..k : (s \o t)[i] = s[i]
  BY ConcatProperties
<1>3. SubSeq(s \o t, 1, k) = [i \in 1..k |-> (s \o t)[i]]
  BY <1>1
<1>4. SubSeq(s, 1, k) = [i \in 1..k |-> s[i]]
  OBVIOUS
<1>. QED  BY <1>2, <1>3, <1>4

\* All of s and the first m of t are the beginning of both.
LEMMA BeginningGrows ==
  ASSUME NEW s \in Seq(Byte), NEW t \in Seq(Byte), NEW m \in 0..Len(t)
  PROVE  /\ s \o SubSeq(t, 1, m) \in Seq(Byte)
         /\ Len(s \o SubSeq(t, 1, m)) = Len(s) + m
         /\ SubSeq(s \o t, 1, Len(s) + m) = s \o SubSeq(t, 1, m)
<1>1. SubSeq(t, 1, m) \in Seq(Byte) /\ Len(SubSeq(t, 1, m)) = m
      /\ \A i \in 1..m : SubSeq(t, 1, m)[i] = t[i]
  OBVIOUS
<1>2. s \o t \in Seq(Byte) /\ Len(s \o t) = Len(s) + Len(t)
  OBVIOUS
<1>3. s \o SubSeq(t, 1, m) \in Seq(Byte) /\ Len(s \o SubSeq(t, 1, m)) = Len(s) + m
  BY <1>1
<1>4. SubSeq(s \o t, 1, Len(s) + m) \in Seq(Byte)
      /\ Len(SubSeq(s \o t, 1, Len(s) + m)) = Len(s) + m
      /\ \A i \in 1..Len(s) + m : SubSeq(s \o t, 1, Len(s) + m)[i] = (s \o t)[i]
  BY <1>2
<1>5. \A i \in 1..Len(s) + m : (s \o t)[i] = (s \o SubSeq(t, 1, m))[i]
  BY <1>1
<1>. QED  BY <1>3, <1>4, <1>5, SeqEqual

\* A record of the right fields is an output.
LEMMA OutputFields ==
  ASSUME NEW t \in Seq(Byte), NEW r \in Nat, NEW e \in BOOLEAN, NEW p \in Seq(Byte)
  PROVE  [text |-> t, room |-> r, ended |-> e, printed |-> p] \in Output
BY DEF Output

\* Printing keeps the output sound.
LEMMA PrintSound ==
  ASSUME NEW o, NEW n \in Nat \ {0}, Sound(o, n), NEW s \in Seq(Byte)
  PROVE  Sound(StrPrint(o, s), n)
<1>1. o.text \in Seq(Byte) /\ o.room \in Nat /\ o.ended \in BOOLEAN /\ o.printed \in Seq(Byte)
  BY DEF Sound, Output
<1>2. o.printed \o s \in Seq(Byte) /\ Len(o.printed \o s) = Len(o.printed) + Len(s)
  BY <1>1
<1>. DEFINE q == StrPrint(o, s)
<1>3. q.printed = o.printed \o s
  BY DEF StrPrint, Written
<1>4. CASE Len(s) < o.room
  <2>1. o.text = o.printed /\ o.room = n - Len(o.text) /\ o.room > 0
    BY <1>1, <1>4 DEF Sound
  <2>2. Fits(o, s)
    BY <1>4 DEF Fits
  <2>3. q.text = o.printed \o s /\ q.room = o.room - Len(s) /\ q.ended = TRUE
    BY <2>1, <2>2 DEF StrPrint, Written
  <2>4. o.room - Len(s) \in Nat /\ o.room - Len(s) > 0
        /\ o.room - Len(s) = n - Len(o.printed \o s)
    BY <1>1, <1>2, <1>4, <2>1
  <2>5. q \in Output
    BY <1>2, <2>1, <2>2, <2>4, OutputFields DEF StrPrint, Written
  <2>6. SubSeq(o.printed \o s, 1, Len(o.printed \o s)) = o.printed \o s
    BY <1>2
  <2>7. Len(q.text) + (IF q.ended THEN 1 ELSE 0) <= n
    <3>1. Len(o.printed \o s) + 1 <= n
      BY <1>1, <1>2, <2>4
    <3>. QED  BY <2>3, <3>1
  <2>8. \E k \in 0..Len(q.printed) : q.text = SubSeq(q.printed, 1, k)
    BY <1>2, <1>3, <2>3, <2>6
  <2>. QED  BY <1>3, <2>3, <2>4, <2>5, <2>7, <2>8 DEF Sound
<1>5. CASE Len(s) >= o.room /\ o.room > 0
  <2>1. o.text = o.printed /\ o.room = n - Len(o.text)
    BY <1>1, <1>5 DEF Sound
  <2>2. ~Fits(o, s)
    BY <1>1, <1>5 DEF Fits
  <2>3. PICK m \in 0..Len(s) : m = o.room - 1
    BY <1>1, <1>5
  <2>4. q.text = o.printed \o SubSeq(s, 1, m) /\ q.room = 0 /\ q.ended = TRUE
    BY <1>5, <2>1, <2>2, <2>3 DEF StrPrint, Written
  <2>5. /\ o.printed \o SubSeq(s, 1, m) \in Seq(Byte)
        /\ Len(o.printed \o SubSeq(s, 1, m)) = Len(o.printed) + m
        /\ SubSeq(o.printed \o s, 1, Len(o.printed) + m) = o.printed \o SubSeq(s, 1, m)
    BY <1>1, BeginningGrows
  <2>6. q \in Output
    BY <1>2, <1>5, <2>1, <2>2, <2>3, <2>5, OutputFields DEF StrPrint, Written
  <2>7. Len(o.printed) + m + 1 <= n /\ Len(o.printed \o s) >= n
        /\ Len(o.printed) + m \in 0..Len(o.printed \o s)
    BY <1>1, <1>2, <1>5, <2>1, <2>3
  <2>8. Len(q.text) + (IF q.ended THEN 1 ELSE 0) <= n
    BY <2>4, <2>5, <2>7
  <2>9. \E k \in 0..Len(q.printed) : q.text = SubSeq(q.printed, 1, k)
    BY <1>3, <2>4, <2>5, <2>7
  <2>10. Len(q.printed) >= n /\ ~(Len(q.printed) < n)
    BY <1>2, <1>3, <2>7
  <2>11. q.room = 0 /\ ~(q.room > 0)
    BY <2>4
  <2>. QED  BY <2>6, <2>8, <2>9, <2>10, <2>11 DEF Sound
<1>6. CASE o.room = 0
  <2>1. ~Fits(o, s) /\ SubSeq(s, 1, o.room - 1) = <<>>
    BY <1>6 DEF Fits
  <2>2. o.text \o <<>> = o.text
    BY <1>1
  <2>3. q.text = o.text /\ q.room = 0 /\ q.ended = o.ended
    <3>1. q.text = o.text
      BY <2>1, <2>2 DEF StrPrint, Written
    <3>2. q.room = 0
      BY <2>1 DEF StrPrint, Written
    <3>3. ~(o.room > 0)
      BY <1>6
    <3>4. q.ended = o.ended
      BY <3>3, Zenon DEF StrPrint, Written
    <3>. QED  BY <3>1, <3>2, <3>4
  <2>4. q \in Output
    BY <1>1, <1>2, <1>6, <2>1, <2>2, OutputFields DEF StrPrint, Written
  <2>5. PICK k \in 0..Len(o.printed) : o.text = SubSeq(o.printed, 1, k)
    BY DEF Sound
  <2>6. k \in 0..Len(o.printed \o s) /\ o.text = SubSeq(o.printed \o s, 1, k)
    BY <1>1, <1>2, <2>5, BeginningKept
  <2>7. Len(o.printed \o s) >= n /\ Len(o.text) + (IF o.ended THEN 1 ELSE 0) <= n
    BY <1>1, <1>2, <1>6 DEF Sound
  <2>8. Len(q.printed) >= n /\ ~(Len(q.printed) < n)
    BY <1>2, <1>3, <2>7
  <2>9. \E j \in 0..Len(q.printed) : q.text = SubSeq(q.printed, 1, j)
    BY <1>3, <2>3, <2>6
  <2>. QED  BY <1>3, <2>3, <2>4, <2>7, <2>8, <2>9 DEF Sound
<1>. QED  BY <1>1, <1>4, <1>5, <1>6

\* So does storing a character.
LEMMA StoreSound ==
  ASSUME NEW o, NEW n \in Nat \ {0}, Sound(o, n), NEW ch \in Byte
  PROVE  Sound(Store(o, ch), n)
<1>1. o.text \in Seq(Byte) /\ o.room \in Nat /\ o.ended \in BOOLEAN /\ o.printed \in Seq(Byte)
  BY DEF Sound, Output
<1>2. Append(o.printed, ch) \in Seq(Byte) /\ Len(Append(o.printed, ch)) = Len(o.printed) + 1
  BY <1>1
<1>. DEFINE q == Store(o, ch)
<1>3. q.printed = Append(o.printed, ch)
  BY DEF Store
<1>4. CASE o.room > 0
  <2>1. o.text = o.printed /\ o.room = n - Len(o.text)
    BY <1>1, <1>4 DEF Sound
  <2>2. q.text = Append(o.printed, ch) /\ q.room = o.room - 1 /\ q.ended = FALSE
    BY <1>4, <2>1 DEF Store
  <2>3. o.room - 1 \in Nat /\ o.room - 1 = n - Len(Append(o.printed, ch))
    BY <1>1, <1>2, <1>4, <2>1
  <2>4. q \in Output
    BY <1>2, <1>4, <2>1, <2>3, OutputFields DEF Store
  <2>5. SubSeq(Append(o.printed, ch), 1, Len(Append(o.printed, ch))) = Append(o.printed, ch)
    BY <1>2
  <2>6. \E k \in 0..Len(q.printed) : q.text = SubSeq(q.printed, 1, k)
    BY <1>2, <1>3, <2>2, <2>5
  <2>7. Len(q.text) + (IF q.ended THEN 1 ELSE 0) <= n
    <3>1. Len(Append(o.printed, ch)) + 0 <= n
      BY <1>1, <1>2, <2>3
    <3>2. (IF q.ended THEN 1 ELSE 0) = 0
      BY <2>2
    <3>3. Len(q.text) = Len(Append(o.printed, ch))
      BY <2>2
    <3>. HIDE DEF q
    <3>. QED  BY <3>1, <3>2, <3>3
  <2>8. q.text = q.printed /\ q.room = n - Len(q.text)
    BY <1>3, <2>2, <2>3
  <2>9. q.room = 0 => Len(q.printed) >= n
    BY <1>2, <2>2, <2>3, <2>8
  <2>. QED  BY <2>4, <2>6, <2>7, <2>8, <2>9 DEF Sound
<1>5. CASE o.room = 0
  <2>1. ~(o.room > 0)
    BY <1>5
  <2>2. q.text = o.text /\ q.room = 0
    BY <2>1 DEF Store
  <2>3. q.ended = o.ended
    BY <2>1, Zenon DEF Store
  <2>4. q \in Output
    BY <1>1, <1>2, <2>1, OutputFields DEF Store
  <2>5. PICK k \in 0..Len(o.printed) : o.text = SubSeq(o.printed, 1, k)
    BY DEF Sound
  <2>6. \E j \in 0..Len(q.printed) : q.text = SubSeq(q.printed, 1, j)
    <3>1. <<ch>> \in Seq(Byte) /\ Append(o.printed, ch) = o.printed \o <<ch>>
      BY <1>1
    <3>2. k \in 0..Len(Append(o.printed, ch)) /\ o.text = SubSeq(Append(o.printed, ch), 1, k)
      BY <1>1, <1>2, <2>5, <3>1, BeginningKept
    <3>. QED  BY <1>3, <2>2, <3>2
  <2>7. Len(q.printed) >= n /\ ~(Len(q.printed) < n)
    BY <1>1, <1>2, <1>3, <1>5 DEF Sound
  <2>8. Len(q.text) + (IF q.ended THEN 1 ELSE 0) <= n
    BY <2>2, <2>3 DEF Sound
  <2>9. q.room = 0 /\ ~(q.room > 0)
    BY <2>2
  <2>. QED  BY <2>4, <2>6, <2>7, <2>8, <2>9 DEF Sound
<1>. QED  BY <1>1, <1>4, <1>5

\* A character of a name is printed as one, two or four.
LEMMA CharPrintSound ==
  ASSUME NEW o, NEW n \in Nat \ {0}, Sound(o, n), NEW ch \in Byte
  PROVE  Sound(CharPrint(o, ch), n)
<1>1. <<Backslash, ch>> \in Seq(Byte)
  BY DEF Backslash, Byte
<1>2. <<Backslash>> \o Decimal(ch) \in Seq(Byte)
  <2>1. 48 + (ch \div 100) \in Byte /\ 48 + ((ch \div 10) % 10) \in Byte
        /\ 48 + (ch % 10) \in Byte
    BY DEF Byte
  <2>2. Decimal(ch) \in Seq(Byte)
    BY <2>1 DEF Decimal
  <2>3. <<Backslash>> \in Seq(Byte)
    BY DEF Backslash, Byte
  <2>. QED  BY <2>2, <2>3
<1>. QED  BY <1>1, <1>2, PrintSound, StoreSound DEF CharPrint

-----------------------------------------------------------------------------

\* Where the scan is, of what type
ScanInv ==
  /\ wire \in Seq(Byte)
  /\ size \in Nat \ {0}
  /\ pos \in Nat /\ left \in Nat
  /\ phase \in Phases
  /\ phase = "start" => pos = 0
  /\ ReadsInside
  /\ Sound(out, size)

LEMMA InitScan == Init => ScanInv
<1>. SUFFICES ASSUME Init PROVE ScanInv
  OBVIOUS
<1>1. wire \in Seq(Byte) /\ size \in Nat \ {0}
  BY DnameAssumption DEF Init
<1>2. out = [text |-> <<>>, room |-> size, ended |-> FALSE, printed |-> <<>>]
  BY DEF Init, Empty
<1>3. <<>> \in Seq(Byte) /\ Len(<<>>) = 0
  OBVIOUS
<1>4. out \in Output
  BY <1>1, <1>2, <1>3, OutputFields
<1>5. out.text = SubSeq(out.printed, 1, 0)
  BY <1>2
<1>6. Sound(out, size)
  <2>1. 0 \in 0..Len(out.printed)
    BY <1>2
  <2>. QED  BY <1>1, <1>2, <1>3, <1>4, <1>5, <2>1 DEF Sound
<1>. QED  BY <1>1, <1>6 DEF Init, ScanInv, ReadsInside, Phases

\* One step per action; what is printed stays sound by the lemmas above.
LEMMA ScanStep == ScanInv /\ [Next]_vars => ScanInv'
<1>. SUFFICES ASSUME ScanInv, [Next]_vars PROVE ScanInv'
  OBVIOUS
<1>1. /\ wire \in Seq(Byte) /\ size \in Nat \ {0}
      /\ pos \in Nat /\ left \in Nat /\ phase \in Phases
      /\ Len(wire) \in Nat /\ Sound(out, size)
      /\ ReadsInside /\ (phase = "start" => pos = 0)
  BY DEF ScanInv
<1>2. wire' = wire /\ size' = size
  BY DEF Next, vars, Missing, Root, Start, Compressed, UnknownLabel, Label, Character,
         EndLabel, RootLabel, Finish, Fail
<1>3. ASSUME NEW n \in Nat, NEW taken \in Nat, pos + taken <= Len(wire), Fail(taken, n)
      PROVE  ScanInv'
  <2>1. [i \in 1..n |-> 69] \in Seq(Byte)
    BY DEF Byte
  <2>2. Sound(StrPrint(out, [i \in 1..n |-> 69]), size)
    BY <1>1, <2>1, PrintSound
  <2>3. pos' = pos + taken /\ left' = left /\ phase' = "error"
        /\ out' = StrPrint(out, [i \in 1..n |-> 69])
    BY <1>3 DEF Fail
  <2>. QED  BY <1>1, <1>2, <1>3, <2>2, <2>3 DEF ScanInv, ReadsInside, Phases
<1>4. Sound(StrPrint(out, <<Dot>>), size)
  <2>1. <<Dot>> \in Seq(Byte)
    BY DEF Dot, Byte
  <2>. QED  BY <1>1, <2>1, PrintSound
<1>5. CASE Missing
  BY <1>1, <1>3, <1>5 DEF Missing, ReadsInside
<1>6. CASE Root \/ Start
  <2>1. wire # <<>> /\ Len(wire) >= 1
    BY <1>1, <1>6 DEF Root, Start
  <2>2. CASE Root
    BY <1>1, <1>2, <1>4, <2>1, <2>2 DEF Root, ScanInv, ReadsInside, Phases
  <2>3. CASE Start
    <3>1. pos' < Len(wire')
      BY <1>1, <1>2, <2>1, <2>3 DEF Start, ScanInv, ReadsInside
    <3>. QED  BY <1>1, <1>2, <2>3, <3>1 DEF Start, ScanInv, ReadsInside, Phases
  <2>. QED  BY <1>6, <2>2, <2>3
<1>7. CASE Compressed
  <2>1. pos < Len(wire)
    BY <1>1, <1>7 DEF Compressed, LengthByte, ReadsInside
  <2>. QED  BY <1>1, <1>3, <1>7, <2>1 DEF Compressed
<1>8. CASE UnknownLabel
  <2>1. pos < Len(wire)
    BY <1>1, <1>8 DEF UnknownLabel, LengthByte, ReadsInside
  <2>. QED  BY <1>1, <1>3, <1>8, <2>1 DEF UnknownLabel
<1>9. CASE Label
  <2>1. PICK n \in 1..63 : LengthByte(n) /\ left' = Fitting(n, Len(wire) - (pos + 1))
    BY <1>9 DEF Label
  <2>2. pos < Len(wire)
    BY <1>1, <2>1 DEF LengthByte, ReadsInside
  <2>3. left' \in Nat /\ pos + 1 + left' <= Len(wire)
    <3>. Len(wire) - (pos + 1) \in Nat
      BY <1>1, <2>2
    <3>1. PICK rest \in Nat : rest = Len(wire) - (pos + 1)
      OBVIOUS
    <3>2. Fitting(n, rest) \in Nat /\ Fitting(n, rest) <= rest
      BY DEF Fitting
    <3>. QED  BY <1>1, <2>1, <3>1, <3>2
  <2>. QED  BY <1>1, <1>2, <1>9, <2>2, <2>3 DEF Label, ScanInv, ReadsInside, Phases
<1>10. CASE Character
  <2>1. pos + left <= Len(wire) /\ left > 0 /\ phase = "chars"
    BY <1>1, <1>10 DEF Character, ReadsInside
  <2>2. wire[pos + 1] \in Byte
    BY <1>1, <2>1
  <2>3. Sound(CharPrint(out, wire[pos + 1]), size)
    BY <1>1, <2>2, CharPrintSound
  <2>. QED  BY <1>1, <1>2, <1>10, <2>1, <2>3 DEF Character, ScanInv, ReadsInside, Phases
<1>11. CASE EndLabel \/ RootLabel \/ Finish
  BY <1>1, <1>2, <1>4, <1>11
  DEF EndLabel, RootLabel, LengthByte, Finish, ScanInv, ReadsInside, Phases
<1>12. CASE UNCHANGED vars
  BY <1>1, <1>12 DEF vars, ScanInv, ReadsInside
<1>. QED  BY <1>5, <1>6, <1>7, <1>8, <1>9, <1>10, <1>11, <1>12 DEF Next

LEMMA Scan == Spec => []ScanInv
BY InitScan, ScanStep, PTL DEF Spec

\* Every variable keeps its type; what is left of the buffer is never negative
\* (sldns.c:49, 108).
THEOREM DnameTypes == Spec => []DnameTypeOK
<1>1. ScanInv => DnameTypeOK
  BY DEF ScanInv, Sound, DnameTypeOK
<1>. QED  BY <1>1, Scan, PTL

\* The scan never reads past the record data (sldns.c:163-176).
THEOREM NeverReadsPast == Spec => []ReadsInside
BY Scan, PTL DEF ScanInv

\* The buffer, of whatever size, is never written past its end, and holds a
\* beginning of what was printed, all of it if that is shorter (sldns.c:41-50, 106).
THEOREM NeverWritesPast == Spec => []BufferHoldsBeginning
<1>1. ScanInv => BufferHoldsBeginning
  BY DEF ScanInv, Sound, BufferHoldsBeginning
<1>. QED  BY <1>1, Scan, PTL

-----------------------------------------------------------------------------
(* The reader *)

\* One element becomes two.
LEMMA AppendToOne ==
  ASSUME NEW S, NEW a \in S, NEW b \in S
  PROVE  Append(<<a>>, b) = <<a, b>>
<1>1a. <<a, b>> \in Seq(S) /\ Len(<<a, b>>) = 2 /\ <<a, b>>[1] = a /\ <<a, b>>[2] = b
  OBVIOUS
<1>1. PICK t : t = <<a, b>> /\ t \in Seq(S) /\ Len(t) = 2 /\ t[1] = a /\ t[2] = b
  BY <1>1a
<1>2a. <<a>> \in Seq(S) /\ Len(<<a>>) = 1 /\ <<a>>[1] = a
  OBVIOUS
<1>2. PICK s : s = <<a>> /\ s \in Seq(S) /\ Len(s) = 1 /\ s[1] = a
  BY <1>2a
<1>3. Append(s, b) \in Seq(S) /\ Len(Append(s, b)) = 2
      /\ \A i \in 1..2 : Append(s, b)[i] = t[i]
  BY <1>1, <1>2
<1>. QED  BY <1>1, <1>2, <1>3, SeqEqual

\* Two become three.
LEMMA AppendToTwo ==
  ASSUME NEW S, NEW a \in S, NEW b \in S, NEW c \in S
  PROVE  Append(<<a,b>>, c) = <<a, b, c>>
<1>1a. <<a, b, c>> \in Seq(S) /\ Len(<<a, b, c>>) = 3 /\ <<a, b, c>>[1] = a /\ <<a, b, c>>[2] = b /\ <<a, b, c>>[3] = c
  OBVIOUS
<1>1. PICK t : t = <<a, b, c>> /\ t \in Seq(S) /\ Len(t) = 3 /\ t[1] = a /\ t[2] = b /\ t[3] = c
  BY <1>1a
<1>2a. <<a, b>> \in Seq(S) /\ Len(<<a, b>>) = 2 /\ <<a, b>>[1] = a /\ <<a, b>>[2] = b
  OBVIOUS
<1>2. PICK s : s = <<a, b>> /\ s \in Seq(S) /\ Len(s) = 2 /\ s[1] = a /\ s[2] = b
  BY <1>2a
<1>3. Append(s, c) \in Seq(S) /\ Len(Append(s, c)) = 3
      /\ \A i \in 1..3 : Append(s, c)[i] = t[i]
  BY <1>1, <1>2
<1>. QED  BY <1>1, <1>2, <1>3, SeqEqual

\* Three become four.
LEMMA AppendToThree ==
  ASSUME NEW S, NEW a \in S, NEW b \in S, NEW c \in S, NEW d \in S
  PROVE  Append(<<a,b,c>>, d) = <<a, b, c, d>>
<1>1a. <<a, b, c, d>> \in Seq(S) /\ Len(<<a, b, c, d>>) = 4 /\ <<a, b, c, d>>[1] = a /\ <<a, b, c, d>>[2] = b /\ <<a, b, c, d>>[3] = c /\ <<a, b, c, d>>[4] = d
  OBVIOUS
<1>1. PICK t : t = <<a, b, c, d>> /\ t \in Seq(S) /\ Len(t) = 4 /\ t[1] = a /\ t[2] = b /\ t[3] = c /\ t[4] = d
  BY <1>1a
<1>2a. <<a, b, c>> \in Seq(S) /\ Len(<<a, b, c>>) = 3 /\ <<a, b, c>>[1] = a /\ <<a, b, c>>[2] = b /\ <<a, b, c>>[3] = c
  OBVIOUS
<1>2. PICK s : s = <<a, b, c>> /\ s \in Seq(S) /\ Len(s) = 3 /\ s[1] = a /\ s[2] = b /\ s[3] = c
  BY <1>2a
<1>3. Append(s, d) \in Seq(S) /\ Len(Append(s, d)) = 4
      /\ \A i \in 1..4 : Append(s, d)[i] = t[i]
  BY <1>1, <1>2
<1>. QED  BY <1>1, <1>2, <1>3, SeqEqual

\* What is added to the end of the second of two is added to the end of both.
LEMMA ConcatAppend ==
  \A s \in Seq(Byte), t \in Seq(Byte), e \in Byte :
    Append(t, e) \in Seq(Byte) /\ s \o Append(t, e) = Append(s \o t, e)
<1>. SUFFICES ASSUME NEW S
              PROVE  \A s \in Seq(S), t \in Seq(S), e \in S :
                       Append(t, e) \in Seq(S) /\ s \o Append(t, e) = Append(s \o t, e)
  OBVIOUS
<1>. QED  OBVIOUS

\* Three elements are added one after the other.
LEMMA ConcatThree ==
  ASSUME NEW S, NEW s \in Seq(S), NEW a \in S, NEW b \in S, NEW c \in S
  PROVE  s \o <<a,b,c>> = Append(Append(Append(s, a), b), c)
<1>1. /\ <<a>> \in Seq(S) /\ <<a, b>> \in Seq(S)
      /\ <<a, b>> = Append(<<a>>, b) /\ <<a, b, c>> = Append(<<a, b>>, c)
  BY AppendToOne, AppendToTwo
<1>2. PICK t, u : t = <<a>> /\ u = <<a, b>>
  OBVIOUS
<1>3. s \o <<a>> = Append(s, a)
  OBVIOUS
<1>4. ASSUME NEW w \in Seq(S), NEW x \in S PROVE s \o Append(w, x) = Append(s \o w, x)
  OBVIOUS
<1>5. s \o Append(t, b) = Append(s \o t, b)
  BY <1>1, <1>2, <1>4
<1>6. s \o Append(u, c) = Append(s \o u, c)
  BY <1>1, <1>2, <1>4
<1>7. <<a, b, c>> = Append(u, c) /\ u = Append(t, b) /\ s \o t = Append(s, a)
  BY <1>1, <1>2, <1>3
<1>. QED  BY <1>5, <1>6, <1>7

Readers == [name : Seq(Int), label : Seq(Int), escape : Seq(Byte)]

Nothing == Read(<<>>, <<>>, <<>>)

\* A reader of the right fields
LEMMA ReaderFields ==
  ASSUME NEW n \in Seq(Int), NEW l \in Seq(Int), NEW e \in Seq(Byte)
  PROVE  Read(n, l, e) \in Readers
BY DEF Read, Readers

\* What a reader has
LEMMA ReadFields ==
  \A n, l, e : /\ Read(n, l, e).name = n
               /\ Read(n, l, e).label = l
               /\ Read(n, l, e).escape = e
BY DEF Read

\* Reading on, a reader stays one.
LEMMA ReadOnTyped ==
  ASSUME NEW r \in Readers, NEW ch \in Byte
  PROVE  ReadOn(r, ch) \in Readers
<1>1. r.name \in Seq(Int) /\ r.label \in Seq(Int) /\ r.escape \in Seq(Byte)
  BY DEF Readers
<1>2. <<>> \in Seq(Int) /\ <<>> \in Seq(Byte) /\ ch \in Int
  BY DEF Byte
<1>3. r.name \o (<<Len(r.label)>> \o r.label) \in Seq(Int)
  <2>1. Len(r.label) \in Int
    BY <1>1
  <2>2. <<Len(r.label)>> \in Seq(Int)
    BY <2>1
  <2>. QED  BY <1>1, <2>2
<1>4. Append(r.escape, ch) \in Seq(Byte) /\ Len(Append(r.escape, ch)) = Len(r.escape) + 1
  BY <1>1
<1>5. ASSUME NEW e \in Seq(Byte), Len(e) = 4  PROVE Value(e) \in Int
  <2>1. e[2] \in Byte /\ e[3] \in Byte /\ e[4] \in Byte
    BY <1>5
  <2>2. \A b \in Byte : b \in Int
    BY DEF Byte
  <2>3. PICK a \in Int, b \in Int, c \in Int : a = e[2] /\ b = e[3] /\ c = e[4]
    BY <2>1, <2>2
  <2>4. 100 * (a - 48) + 10 * (b - 48) + (c - 48) \in Int
    OBVIOUS
  <2>. QED  BY <2>3, <2>4 DEF Value
<1>6. Append(r.label, IF Len(Append(r.escape, ch)) = 4 THEN Value(Append(r.escape, ch)) ELSE ch)
        \in Seq(Int)
  <2> DEFINE e == Append(r.escape, ch)
  <2>1. Len(e) = 4 => Value(e) \in Int
    BY <1>4, <1>5
  <2>. HIDE DEF e
  <2>2. PICK v \in Int : v = IF Len(e) = 4 THEN Value(e) ELSE ch
    BY <1>2, <2>1
  <2>3. Append(r.label, v) \in Seq(Int)
    BY <1>1
  <2>4. Append(r.label, IF Len(e) = 4 THEN Value(e) ELSE ch) \in Seq(Int)
    BY <2>2, <2>3
  <2>. QED  BY <2>4 DEF e
<1>7. /\ Read(r.name \o (<<Len(r.label)>> \o r.label), <<>>, <<>>) \in Readers
      /\ Read(r.name, r.label, Append(r.escape, ch)) \in Readers
      /\ Read(r.name,
              Append(r.label, IF Len(Append(r.escape, ch)) = 4
                              THEN Value(Append(r.escape, ch)) ELSE ch),
              <<>>) \in Readers
  BY <1>1, <1>2, <1>3, <1>4, <1>6, ReaderFields
<1>. QED  BY <1>7, Zenon DEF ReadOn

\* f says what was read up to each place of a text.
ReadsAlong(text, f) ==
  f = [n \in 0..Len(text) |-> IF n = 0 THEN Nothing ELSE ReadOn(f[n - 1], text[n])]

\* Texts read the same as far as they are the same.
LEMMA ReadTheSame ==
  ASSUME NEW s \in Seq(Byte), NEW t \in Seq(Byte), Len(s) <= Len(t),
         \A i \in 1..Len(s) : s[i] = t[i],
         NEW f, ReadsAlong(s, f), NEW g, ReadsAlong(t, g)
  PROVE  f[Len(s)] = g[Len(s)]
<1> DEFINE Same == {n \in 0..Len(s) : f[n] = g[n]}
<1>1. Len(s) \in Nat /\ 0..Len(s) \subseteq 0..Len(t)
  OBVIOUS
<1>2. f[0] = Nothing /\ g[0] = Nothing
  BY <1>1 DEF ReadsAlong
<1>3. 0 \in Same
  BY <1>1, <1>2
<1>4. ASSUME NEW n \in 1..Len(s), n - 1 \in Same  PROVE n \in Same
  <2>1. n \in 0..Len(s) /\ n \in 0..Len(t) /\ n # 0
    BY <1>1
  <2>2. f[n] = ReadOn(f[n - 1], s[n])
    BY <2>1 DEF ReadsAlong
  <2>3. g[n] = ReadOn(g[n - 1], t[n])
    BY <2>1 DEF ReadsAlong
  <2>. QED  BY <1>4, <2>1, <2>2, <2>3
<1>5. 0..Len(s) \subseteq Same
  <2>. HIDE DEF Same
  <2>. QED  BY <1>1, <1>3, <1>4, UpTo
<1>. QED  BY <1>1, <1>5

\* Every text can be read, and what was read of it is the last value.
LEMMA CanBeRead ==
  ASSUME NEW s \in Seq(Byte)
  PROVE  \E f : /\ ReadsAlong(s, f)
                /\ Reading(s) = f[Len(s)]
                /\ f[Len(s)] \in Readers
<1>1. Len(s) \in Nat /\ \A n \in 1..Len(s) : s[n] \in Byte
  OBVIOUS
<1>2. Nothing \in Readers
  <2>1. <<>> \in Seq(Int) /\ <<>> \in Seq(Byte)
    OBVIOUS
  <2>. QED  BY <2>1, ReaderFields DEF Nothing
<1>3. PICK step : step = [p \in Readers \X (1..Len(s)) |-> ReadOn(p[1], s[p[2]])]
  OBVIOUS
<1>4. step \in [Readers \X (1..Len(s)) -> Readers]
  <2>1. \A p \in Readers \X (1..Len(s)) : ReadOn(p[1], s[p[2]]) \in Readers
    BY <1>1, ReadOnTyped
  <2>. QED  BY <1>3, <2>1
<1>5. PICK f \in [0..Len(s) -> Readers] : Recurs(f, Len(s), Nothing, step)
  BY <1>1, <1>2, <1>4, RecursionOverPlaces
<1>6. ReadsAlong(s, f)
  <2>1. \A n \in 0..Len(s) :
          f[n] = IF n = 0 THEN Nothing ELSE ReadOn(f[n - 1], s[n])
    <3>1. ASSUME NEW n \in 0..Len(s), n # 0  PROVE f[n] = ReadOn(f[n - 1], s[n])
      <4>1. n \in 1..Len(s) /\ n - 1 \in 0..Len(s)
        BY <1>1, <3>1
      <4>2. f[n] = step[<<f[n - 1], n>>]
        BY <1>5, <3>1 DEF Recurs
      <4>3. <<f[n - 1], n>> \in Readers \X (1..Len(s))
        BY <4>1
      <4>. QED  BY <1>3, <4>2, <4>3
    <3>2. f[0] = Nothing
      BY <1>1, <1>5 DEF Recurs
    <3>. QED  BY <3>1, <3>2
  <2>. QED  BY <1>5, <2>1 DEF ReadsAlong
<1>7. PICK g : ReadsAlong(s, g) /\ Reading(s) = g[Len(s)]
  <2> DEFINE g == CHOOSE h : ReadsAlong(s, h)
  <2>1. ReadsAlong(s, g)
    BY <1>6
  <2>2. Reading(s) = g[Len(s)]
    BY DEF Reading, ReadsAlong, Nothing
  <2>. QED  BY <2>1, <2>2
<1>8. g[Len(s)] = f[Len(s)]
  BY <1>6, <1>7, ReadTheSame
<1>9. f[Len(s)] \in Readers
  BY <1>1, <1>5
<1>. QED  BY <1>7, <1>8, <1>9

\* A text is read character by character.
LEMMA ReadsOn ==
  ASSUME NEW s \in Seq(Byte), NEW ch \in Byte
  PROVE  /\ Reading(<<>>) = Nothing
         /\ Reading(s) \in Readers
         /\ Reading(Append(s, ch)) = ReadOn(Reading(s), ch)
<1>1. <<>> \in Seq(Byte) /\ Len(<<>>) = 0
  OBVIOUS
<1>2. PICK e : ReadsAlong(<<>>, e) /\ Reading(<<>>) = e[0]
  BY <1>1, CanBeRead
<1>3. e[0] = Nothing
  BY <1>1, <1>2 DEF ReadsAlong
<1>4. PICK f : ReadsAlong(s, f) /\ Reading(s) = f[Len(s)] /\ f[Len(s)] \in Readers
  BY CanBeRead
<1> DEFINE t == Append(s, ch)
<1>5. /\ t \in Seq(Byte) /\ Len(t) = Len(s) + 1 /\ Len(s) \in Nat
      /\ \A i \in 1..Len(s) : s[i] = t[i]
      /\ t[Len(s) + 1] = ch
  OBVIOUS
<1>. HIDE DEF t
<1>6. PICK g : ReadsAlong(t, g) /\ Reading(t) = g[Len(t)]
  BY <1>5, CanBeRead
<1>7. f[Len(s)] = g[Len(s)]
  BY <1>4, <1>5, <1>6, ReadTheSame
<1>8. g[Len(s) + 1] = ReadOn(g[Len(s)], ch)
  <2>1. Len(s) + 1 \in 0..Len(t) /\ Len(s) + 1 # 0 /\ Len(s) + 1 - 1 = Len(s)
    BY <1>5
  <2>2. g[Len(s) + 1] = ReadOn(g[Len(s) + 1 - 1], t[Len(s) + 1])
    BY <1>6, <2>1 DEF ReadsAlong
  <2>. QED  BY <1>5, <2>1, <2>2
<1>9. Reading(t) = ReadOn(Reading(s), ch)
  BY <1>4, <1>5, <1>6, <1>7, <1>8
<1>. QED  BY <1>2, <1>3, <1>4, <1>9 DEF t

\* A backslash begins an escape; what follows it is a character, or the first of
\* three digits.
LEMMA EscapeRead ==
  ASSUME NEW r \in Readers, NEW ch \in Byte
  PROVE  /\ r.escape = <<>> /\ ch = Backslash => ReadOn(r, ch) = Read(r.name, r.label, <<ch>>)
         /\ r.escape = <<>> /\ ch # Backslash /\ ch # Dot
              => ReadOn(r, ch) = Read(r.name, Append(r.label, ch), <<>>)
         /\ Len(r.escape) = 1 /\ ch \notin Digit
              => ReadOn(r, ch) = Read(r.name, Append(r.label, ch), <<>>)
         /\ Len(r.escape) \in 1..2 /\ ch \in Digit
              => ReadOn(r, ch) = Read(r.name, r.label, Append(r.escape, ch))
         /\ Len(r.escape) = 3
              => ReadOn(r, ch) = Read(r.name, Append(r.label, Value(Append(r.escape, ch))), <<>>)
<1> DEFINE e == Append(r.escape, ch)
<1>1. r.escape \in Seq(Byte) /\ Len(e) = Len(r.escape) + 1 /\ Len(r.escape) \in Nat
  BY DEF Readers
<1>2. ReadOn(r, ch) =
        IF r.escape = <<>> /\ ch = Dot
          THEN Read(r.name \o (<<Len(r.label)>> \o r.label), <<>>, <<>>)
        ELSE IF \/ r.escape = <<>> /\ ch = Backslash
                \/ Len(r.escape) \in 1..2 /\ ch \in Digit
          THEN Read(r.name, r.label, e)
        ELSE Read(r.name, Append(r.label, IF Len(e) = 4 THEN Value(e) ELSE ch), <<>>)
  BY DEF ReadOn
<1>3. r.escape = <<>> => Len(r.escape) = 0 /\ e = <<ch>>
  OBVIOUS
<1>4. Dot # Backslash
  BY DEF Dot, Backslash
<1>. HIDE DEF e
<1>5. CASE r.escape = <<>>
  <2>1. Len(r.escape) = 0 /\ Len(e) = 1 /\ e = <<ch>>
    BY <1>1, <1>3, <1>5
  <2>2. ~(Len(r.escape) \in 1..2) /\ Len(r.escape) # 1 /\ Len(r.escape) # 3 /\ Len(e) # 4
    BY <2>1
  <2>. QED  BY <1>2, <1>4, <1>5, <2>1, <2>2, Zenon
<1>6. CASE Len(r.escape) \in 1..2
  <2>0. Len(r.escape) # 0
    BY <1>6
  <2>1. r.escape # <<>> /\ Len(r.escape) # 3 /\ Len(e) # 4
    <3>1. r.escape # <<>>
      BY <1>3, <2>0, Zenon
    <3>2. Len(r.escape) = 1 \/ Len(r.escape) = 2
      BY <1>6
    <3>3. Len(r.escape) # 3 /\ Len(e) # 4
      <4>1. \A k \in Nat, m \in Nat : (k = 1 \/ k = 2) /\ m = k + 1 => k # 3 /\ m # 4
        OBVIOUS
      <4>2. Len(e) \in Nat
        BY <1>1
      <4>. QED  BY <1>1, <3>2, <4>1, <4>2
    <3>. QED  BY <3>1, <3>3
  <2>2. Len(r.escape) = 1 /\ ch \notin Digit
          => ReadOn(r, ch) = Read(r.name, Append(r.label, ch), <<>>)
    BY <1>2, <2>1, Zenon
  <2>3. ch \in Digit => ReadOn(r, ch) = Read(r.name, r.label, e)
    BY <1>2, <1>6, <2>1, Zenon
  <2>. QED  BY <2>1, <2>2, <2>3, Zenon DEF e
<1>7. CASE Len(r.escape) = 3
  <2>1. r.escape # <<>> /\ ~(Len(r.escape) \in 1..2) /\ Len(r.escape) # 1 /\ Len(e) = 4
    BY <1>1, <1>3, <1>7
  <2>2. ReadOn(r, ch) = Read(r.name, Append(r.label, Value(e)), <<>>)
    BY <1>2, <2>1, Zenon
  <2>. QED  BY <2>1, <2>2, Zenon DEF e
<1>8. CASE r.escape # <<>> /\ ~(Len(r.escape) \in 1..2) /\ Len(r.escape) # 3
  <2>1. Len(r.escape) # 1
    BY <1>8
  <2>. QED  BY <1>8, <2>1, Zenon
<1>. QED  BY <1>5, <1>6, <1>7, <1>8

\* The three digits of a decimal escape say its byte.
LEMMA DecimalValue ==
  ASSUME NEW ch \in Byte
  PROVE  \E a \in Digit, b \in Digit, c \in Digit :
           /\ Decimal(ch) = <<a, b, c>>
           /\ Value(<<Backslash, a, b, c>>) = ch
<1>1. ch \in 0..255
  BY DEF Byte
<1>2. PICK h \in 0..2, t \in 0..9, u \in 0..9 : ch = 100 * h + 10 * t + u
  <2>1. PICK h \in 0..2 : h = ch \div 100
    BY <1>1
  <2>2. PICK rest \in 0..99 : ch = 100 * h + rest
    BY <1>1, <2>1
  <2>3. PICK t \in 0..9 : t = rest \div 10
    BY <2>2
  <2>4. PICK u \in 0..9 : rest = 10 * t + u
    BY <2>2, <2>3
  <2>. QED  BY <2>2, <2>4
<1>3. ch \div 100 = h
  BY <1>1, <1>2
<1>4. (ch \div 10) % 10 = t
  <2>1. ch \div 10 = 10 * h + t
    BY <1>1, <1>2
  <2>. QED  BY <2>1
<1>5. ch % 10 = u
  BY <1>1, <1>2
<1>6. 48 + h \in Digit /\ 48 + t \in Digit /\ 48 + u \in Digit
  BY DEF Digit
<1>7. Decimal(ch) = <<48 + h, 48 + t, 48 + u>>
  BY <1>3, <1>4, <1>5 DEF Decimal
<1>8. Value(<<Backslash, 48 + h, 48 + t, 48 + u>>) = ch
  <2>1. 100 * (48 + h - 48) + 10 * (48 + t - 48) + (48 + u - 48) = ch
    BY <1>2
  <2>. QED  BY <2>1 DEF Value
<1>. QED  BY <1>6, <1>7, <1>8

\* A printed character is read as that character, whatever it is.
LEMMA CharRead ==
  ASSUME NEW o, o.printed \in Seq(Byte), NEW ch \in Byte,
         Reading(o.printed).escape = <<>>
  PROVE  LET r == Reading(o.printed)
         IN  Reading(CharPrint(o, ch).printed) = Read(r.name, Append(r.label, ch), <<>>)
<1> DEFINE s == o.printed
           r == Reading(s)
<1>1. s \in Seq(Byte) /\ r \in Readers /\ r.escape = <<>>
  BY ReadsOn
<1>2. r.name \in Seq(Int) /\ r.label \in Seq(Int)
  BY <1>1 DEF Readers
<1>3. Backslash \in Byte /\ Dot \in Byte /\ Dot \notin Digit /\ Backslash \notin Digit
  BY DEF Backslash, Dot, Byte, Digit
<1>4. Append(s, Backslash) \in Seq(Byte)
  BY <1>1, <1>3
<1> DEFINE begun == Read(r.name, r.label, <<Backslash>>)
<1>. HIDE DEF r
<1>5. begun \in Readers /\ Len(begun.escape) = 1
      /\ begun.name = r.name /\ begun.label = r.label /\ begun.escape = <<Backslash>>
  <2>1. <<Backslash>> \in Seq(Byte)
    BY <1>3
  <2>. QED  BY <1>2, <2>1, ReaderFields DEF Read
<1>6. Reading(Append(s, Backslash)) = begun
  <2>1. Reading(Append(s, Backslash)) = ReadOn(r, Backslash)
    BY <1>1, <1>3, ReadsOn DEF r
  <2>. QED  BY <1>1, <1>3, <2>1, EscapeRead
<1>. HIDE DEF begun
<1>7. CASE ch \in Special
  <2>1. CharPrint(o, ch).printed = s \o <<Backslash, ch>>
    BY <1>7 DEF CharPrint, StrPrint, Written
  <2>2. s \o <<Backslash, ch>> = Append(Append(s, Backslash), ch)
    BY <1>1, <1>3
  <2>3. ch \notin Digit
    BY <1>7 DEF Special, Digit, Dot, Backslash
  <2>4. Reading(Append(Append(s, Backslash), ch)) = ReadOn(begun, ch)
    BY <1>4, <1>6, ReadsOn
  <2>5. ReadOn(begun, ch) = Read(r.name, Append(r.label, ch), <<>>)
    BY <1>5, <2>3, EscapeRead
  <2>. QED  BY <2>1, <2>2, <2>4, <2>5 DEF r
<1>8. CASE ch \notin Special /\ ch \notin Graphic
  <2>1. PICK a \in Digit, b \in Digit, c \in Digit :
          Decimal(ch) = <<a, b, c>> /\ Value(<<Backslash, a, b, c>>) = ch
    BY DecimalValue
  <2>2. a \in Byte /\ b \in Byte /\ c \in Byte
    BY DEF Digit, Byte
  <2>3. CharPrint(o, ch).printed = s \o (<<Backslash>> \o Decimal(ch))
    BY <1>8 DEF CharPrint, StrPrint, Written
  <2>4. PICK s1, s2, s3, s4 : /\ s1 = Append(s, Backslash) /\ s2 = Append(s1, a)
                              /\ s3 = Append(s2, b) /\ s4 = Append(s3, c)
    OBVIOUS
  <2>5. s1 \in Seq(Byte) /\ s2 \in Seq(Byte) /\ s3 \in Seq(Byte)
    BY <1>4, <2>2, <2>4
  <2>6. s \o (<<Backslash>> \o <<a, b, c>>) = s4
    <3>1. ASSUME NEW w \in Seq(Byte), NEW x \in Byte
          PROVE  Append(w, x) \in Seq(Byte) /\ s \o Append(w, x) = Append(s \o w, x)
      <4>1. s \in Seq(Byte)
        BY <1>1
      <4>. QED  BY <4>1, ConcatAppend
    <3>2. PICK t, u, v, z : /\ t = <<Backslash>> /\ u = Append(t, a) /\ v = Append(u, b)
                            /\ z = Append(v, c)
      OBVIOUS
    <3>3. t \in Seq(Byte) /\ s \o t = s1
      BY <1>1, <1>3, <2>4, <3>2
    <3>4. u \in Seq(Byte) /\ s \o u = s2
      BY <2>2, <2>4, <3>1, <3>2, <3>3
    <3>5. v \in Seq(Byte) /\ s \o v = s3
      BY <2>2, <2>4, <3>1, <3>2, <3>4
    <3>6. s \o z = s4
      BY <2>2, <2>4, <3>1, <3>2, <3>5
    <3>7. t \o <<a, b, c>> = z
      BY <2>2, <3>2, <3>3, ConcatThree
    <3>. QED  BY <3>2, <3>6, <3>7
  <2>7. PICK r2 : r2 = Read(r.name, r.label, <<Backslash, a>>)
    OBVIOUS
  <2>8. PICK r3 : r3 = Read(r.name, r.label, <<Backslash, a, b>>)
    OBVIOUS
  <2>9. /\ r2 \in Readers /\ r2.escape = <<Backslash, a>> /\ Len(r2.escape) = 2
        /\ r2.name = r.name /\ r2.label = r.label
    <3>1. <<Backslash, a>> \in Seq(Byte)
      BY <1>3, <2>2
    <3>. QED  BY <1>2, <2>7, <3>1, ReaderFields DEF Read
  <2>10. /\ r3 \in Readers /\ r3.escape = <<Backslash, a, b>> /\ Len(r3.escape) = 3
         /\ r3.name = r.name /\ r3.label = r.label
    <3>1. <<Backslash, a, b>> \in Seq(Byte)
      BY <1>3, <2>2
    <3>. QED  BY <1>2, <2>8, <3>1, ReaderFields DEF Read
  <2>11. Reading(s2) = r2
    <3>1. Reading(s2) = ReadOn(begun, a)
      BY <1>6, <2>2, <2>4, <2>5, ReadsOn
    <3>2. ReadOn(begun, a) = Read(begun.name, begun.label, Append(begun.escape, a))
      <4>1. Len(begun.escape) \in 1..2
        BY <1>5
      <4>. QED  BY <1>5, <2>2, <4>1, EscapeRead
    <3>3. Append(<<Backslash>>, a) = <<Backslash, a>>
      BY <1>3, <2>2, AppendToOne
    <3>. QED  BY <1>5, <2>7, <3>1, <3>2, <3>3
  <2>12. Reading(s3) = r3
    <3>1. Reading(s3) = ReadOn(r2, b)
      BY <2>11, <2>2, <2>4, <2>5, ReadsOn
    <3>2. ReadOn(r2, b) = Read(r2.name, r2.label, Append(r2.escape, b))
      <4>1. Len(r2.escape) \in 1..2
        BY <2>9
      <4>. QED  BY <2>2, <2>9, <4>1, EscapeRead
    <3>3. Append(<<Backslash, a>>, b) = <<Backslash, a, b>>
      BY <1>3, <2>2, AppendToTwo
    <3>. QED  BY <2>8, <2>9, <3>1, <3>2, <3>3
  <2>13. Reading(s4) = Read(r.name, Append(r.label, ch), <<>>)
    <3>1. Reading(s4) = ReadOn(r3, c)
      BY <2>12, <2>2, <2>4, <2>5, ReadsOn
    <3>2. ReadOn(r3, c) = Read(r3.name, Append(r3.label, Value(Append(r3.escape, c))), <<>>)
      BY <2>2, <2>10, EscapeRead
    <3>3. Append(<<Backslash, a, b>>, c) = <<Backslash, a, b, c>>
      BY <1>3, <2>2, AppendToThree
    <3>. QED  BY <2>1, <2>10, <3>1, <3>2, <3>3
  <2>. QED  BY <2>1, <2>3, <2>6, <2>13 DEF r
<1>9. CASE ch \notin Special /\ ch \in Graphic
  <2>1. CharPrint(o, ch).printed = Append(s, ch)
    BY <1>9 DEF CharPrint, Store
  <2>2. ch # Dot /\ ch # Backslash
    BY <1>9 DEF Special
  <2>3. Reading(Append(s, ch)) = ReadOn(r, ch)
    BY <1>1, ReadsOn DEF r
  <2>4. ReadOn(r, ch) = Read(r.name, Append(r.label, ch), <<>>)
    BY <1>1, <2>2, EscapeRead
  <2>. QED  BY <2>1, <2>3, <2>4 DEF r
<1>. QED  BY <1>7, <1>8, <1>9

\* A dot ends the label that was read.
LEMMA DotRead ==
  ASSUME NEW s \in Seq(Byte), NEW n, NEW l, Reading(s) = Read(n, l, <<>>)
  PROVE  Reading(s \o <<Dot>>) = Read(n \o (<<Len(l)>> \o l), <<>>, <<>>)
<1>1. Dot \in Byte
  BY DEF Dot, Byte
<1>2. s \o <<Dot>> = Append(s, Dot)
  BY <1>1
<1>3. Reading(Append(s, Dot)) = ReadOn(Read(n, l, <<>>), Dot)
  BY <1>1, ReadsOn
<1>4. PICK r : r = Read(n, l, <<>>)
  OBVIOUS
<1>5. r.name = n /\ r.label = l /\ r.escape = <<>>
  BY <1>4 DEF Read
<1>6. ReadOn(r, Dot) = Read(r.name \o (<<Len(r.label)>> \o r.label), <<>>, <<>>)
  BY <1>5, Zenon DEF ReadOn
<1>. QED  BY <1>2, <1>3, <1>4, <1>5, <1>6

\* The texts of no character and of a dot
LEMMA ShortTexts ==
  /\ Reading(<<>>) = Read(<<>>, <<>>, <<>>)
  /\ Reading(<<Dot>>).name = <<0>>
<1>1. <<>> \in Seq(Byte) /\ Dot \in Byte
  BY DEF Dot, Byte
<1>2. Reading(<<>>) = Read(<<>>, <<>>, <<>>)
  BY <1>1, ReadsOn DEF Nothing
<1>3. Reading(<<>> \o <<Dot>>) = Read(<<>> \o (<<Len(<<>>)>> \o <<>>), <<>>, <<>>)
  BY <1>1, <1>2, DotRead
<1>4. <<>> \o <<Dot>> = <<Dot>>
  BY <1>1
<1>5. <<>> \o (<<Len(<<>>)>> \o <<>>) = <<0>>
  <2>1. Len(<<>>) = 0 /\ <<0>> \in Seq(Int)
    OBVIOUS
  <2>2. \A s \in Seq(Int) : <<>> \o (s \o <<>>) = s
    OBVIOUS
  <2>. QED  BY <2>1, <2>2
<1>. QED  BY <1>2, <1>3, <1>4, <1>5 DEF Read

\* An element at the end, for bytes
LEMMA ByteAppended ==
  \A s \in Seq(Byte), e \in Byte :
    /\ Append(s, e) \in Seq(Byte) /\ Len(Append(s, e)) = Len(s) + 1
    /\ \A i \in 1..Len(s) : Append(s, e)[i] = s[i]
    /\ Append(s, e)[Len(s) + 1] = e
BY AppendProperties

\* One sequence after the other, for bytes
LEMMA BytesJoined ==
  \A s \in Seq(Byte), t \in Seq(Byte) :
    /\ s \o t \in Seq(Byte) /\ Len(s \o t) = Len(s) + Len(t)
    /\ \A i \in 1..(Len(s) + Len(t)) :
         (s \o t)[i] = IF i <= Len(s) THEN s[i] ELSE t[i - Len(s)]
BY ConcatProperties

\* A part of a sequence grows by the element after it.
LEMMA PartGrows ==
  ASSUME NEW s \in Seq(Byte), NEW a \in 1..(Len(s) + 1), NEW b \in (a - 1)..(Len(s) - 1)
  PROVE  /\ SubSeq(s, a, b) \in Seq(Byte) /\ Len(SubSeq(s, a, b)) = b - (a - 1)
         /\ Append(SubSeq(s, a, b), s[b + 1]) = SubSeq(s, a, b + 1)
<1>1. PICK t, u : t = SubSeq(s, a, b) /\ u = SubSeq(s, a, b + 1)
  OBVIOUS
<1>2. PICK k \in Nat : k = b - (a - 1)
  OBVIOUS
<1>3. t \in Seq(Byte) /\ Len(t) = k /\ \A i \in 1..k : t[i] = s[a + i - 1]
  BY <1>1, <1>2
<1>4. u \in Seq(Byte) /\ Len(u) = k + 1 /\ \A i \in 1..(k + 1) : u[i] = s[a + i - 1]
  BY <1>1, <1>2
<1>5. PICK e \in Byte : e = s[b + 1]
  OBVIOUS
<1>6. u[k + 1] = e
  <2>1. k + 1 \in 1..(k + 1) /\ a + (k + 1) - 1 = b + 1
    BY <1>2
  <2>. QED  BY <1>4, <1>5, <2>1
<1>7. /\ Append(t, e) \in Seq(Byte) /\ Len(Append(t, e)) = k + 1
      /\ \A i \in 1..k : Append(t, e)[i] = t[i]
      /\ Append(t, e)[k + 1] = e
  BY <1>3, ByteAppended
<1>8. \A i \in 1..(k + 1) : Append(t, e)[i] = u[i]
  <2>1. \A i \in 1..(k + 1) : i \in 1..k \/ i = k + 1
    OBVIOUS
  <2>. QED  BY <1>3, <1>4, <1>6, <1>7, <2>1
<1>9. Append(t, e) = u
  BY <1>4, <1>7, <1>8, SeqEqual
<1>. QED  BY <1>1, <1>2, <1>3, <1>5, <1>9

\* What was read of a label goes back behind its length.
LEMMA LabelBack ==
  ASSUME NEW s \in Seq(Byte), NEW b \in 1..Len(s), NEW m \in 0..(b - 1),
         s[m + 1] = b - (m + 1)
  PROVE  LET label == SubSeq(s, m + 2, b)
         IN  SubSeq(s, 1, m) \o (<<Len(label)>> \o label) = SubSeq(s, 1, b)
<1>1. PICK t, u, v : t = SubSeq(s, 1, m) /\ u = SubSeq(s, m + 2, b) /\ v = SubSeq(s, 1, b)
  OBVIOUS
<1>2. t \in Seq(Byte) /\ Len(t) = m /\ \A i \in 1..m : t[i] = s[i]
  BY <1>1
<1>3. /\ u \in Seq(Byte) /\ Len(u) = b - (m + 1)
      /\ \A i \in 1..(b - (m + 1)) : u[i] = s[m + 1 + i]
  BY <1>1
<1>4. v \in Seq(Byte) /\ Len(v) = b /\ \A i \in 1..b : v[i] = s[i]
  BY <1>1
<1>5. PICK w : w = <<Len(u)>>
  OBVIOUS
<1>6. w \in Seq(Byte) /\ Len(w) = 1 /\ w[1] = s[m + 1]
  <2>1. Len(u) \in Byte /\ Len(u) = s[m + 1]
    BY <1>3
  <2>. QED  BY <1>5, <2>1
<1>7. PICK k \in Nat : k = b - (m + 1)
  OBVIOUS
<1>8. PICK x : x = w \o u
  OBVIOUS
<1>9. x \in Seq(Byte) /\ Len(x) = k + 1 /\ \A i \in 1..(k + 1) : x[i] = s[m + i]
  <2>1. /\ x \in Seq(Byte) /\ Len(x) = 1 + k
        /\ \A i \in 1..1 : x[i] = w[i]
        /\ \A i \in (1 + 1)..(1 + k) : x[i] = u[i - 1]
    <3>1. /\ x \in Seq(Byte) /\ Len(x) = Len(w) + Len(u)
          /\ \A i \in 1..(Len(w) + Len(u)) : x[i] = IF i <= Len(w) THEN w[i] ELSE u[i - Len(w)]
      BY <1>3, <1>6, <1>8, BytesJoined
    <3>. QED  BY <1>3, <1>6, <1>7, <3>1
  <2>2. x[1] = s[m + 1]
    BY <1>6, <2>1
  <2>3. ASSUME NEW i \in 2..(k + 1)  PROVE x[i] = s[m + i]
    <3>1. i - 1 \in 1..k /\ m + 1 + (i - 1) = m + i
      OBVIOUS
    <3>2. x[i] = u[i - 1]
      BY <1>3, <1>6, <1>7, <2>1
    <3>3. u[i - 1] = s[m + 1 + (i - 1)]
      BY <1>3, <1>7, <3>1
    <3>. QED  BY <3>1, <3>2, <3>3
  <2>4. \A i \in 1..(k + 1) : i = 1 \/ i \in 2..(k + 1)
    OBVIOUS
  <2>. QED  BY <1>3, <1>6, <1>7, <2>1, <2>2, <2>3, <2>4
<1>10. PICK y : y = t \o x
  OBVIOUS
<1>11. /\ y \in Seq(Byte) /\ Len(y) = b
       /\ \A i \in 1..m : y[i] = t[i]
       /\ \A i \in (m + 1)..b : y[i] = x[i - m]
  <2>1. /\ y \in Seq(Byte) /\ Len(y) = Len(t) + Len(x)
        /\ \A i \in 1..(Len(t) + Len(x)) : y[i] = IF i <= Len(t) THEN t[i] ELSE x[i - Len(t)]
    BY <1>2, <1>9, <1>10, BytesJoined
  <2>2. Len(t) + Len(x) = b
    BY <1>2, <1>7, <1>9
  <2>. QED  BY <1>2, <2>1, <2>2
<1>12. \A i \in 1..b : y[i] = v[i]
  <2>1. ASSUME NEW i \in 1..m  PROVE y[i] = v[i]
    BY <1>2, <1>4, <1>11
  <2>2. ASSUME NEW i \in (m + 1)..b  PROVE y[i] = v[i]
    <3>1. i - m \in 1..(k + 1) /\ m + (i - m) = i /\ i \in 1..b
      BY <1>7
    <3>2. x[i - m] = s[m + (i - m)]
      BY <1>9, <3>1
    <3>. QED  BY <1>4, <1>11, <3>1, <3>2
  <2>3. \A i \in 1..b : i \in 1..m \/ i \in (m + 1)..b
    OBVIOUS
  <2>. QED  BY <2>1, <2>2, <2>3
<1>13. y = v
  BY <1>4, <1>11, <1>12, SeqEqual
<1>. QED  BY <1>1, <1>5, <1>8, <1>10, <1>13

-----------------------------------------------------------------------------
(* The scan of data that begins with a name *)

\* What is in the buffer is a text, or was cut.
Ended == out.ended \/ Len(out.printed) >= size

\* The reader has these labels, and this much of the one after them.
ReadSoFar(name, label) == Reading(out.printed) = Read(name, label, <<>>)

\* Where the scan is in the name that is the first n bytes, whose labels begin at
\* places, and what a reader of the text knows of it
InName(n, places) ==
  /\ phase # "error"
  /\ phase \notin {"start", "done"} => wire[1] # 0
  /\ phase = "start" => out = Empty(size)
  /\ phase = "labels" =>
       pos + 1 \in places /\ ReadSoFar(SubSeq(wire, 1, pos), <<>>) /\ (pos > 0 => Ended)
  /\ phase = "chars" =>
       /\ pos + left + 1 \in places
       /\ \E m \in 0..(pos - 1) :
            /\ wire[m + 1] = pos - (m + 1) + left
            /\ ReadSoFar(SubSeq(wire, 1, m), SubSeq(wire, m + 2, pos))
  /\ phase = "finish" =>
       /\ pos + 1 = n /\ n \in places /\ pos > 0
       /\ ReadSoFar(SubSeq(wire, 1, pos), <<>>) /\ Ended
  /\ phase = "done" =>
       /\ pos = n
       /\ Len(out.printed) < size => out.ended /\ Name(out.printed) = SubSeq(wire, 1, n)

NameInv ==
  \A n \in 1..Len(wire) : \A places \in SUBSET (1..n) :
    LabelsBegin(SubSeq(wire, 1, n), places) => InName(n, places)

\* The places of a name, said of the data it begins
LEMMA PlacesInWire ==
  ASSUME NEW s \in Seq(Byte), NEW n \in 1..Len(s), NEW places \in SUBSET (1..n),
         LabelsBegin(SubSeq(s, 1, n), places)
  PROVE  /\ 1 \in places
         /\ \A i \in places : i = n => s[i] = 0
         /\ \A i \in places : i # n =>
              s[i] \in 1..63 /\ i + s[i] + 1 \in places /\ i + s[i] + 1 \in 1..n
<1>1. PICK t : t = SubSeq(s, 1, n)
  OBVIOUS
<1>2. Len(t) = n /\ \A i \in 1..n : t[i] = s[i]
  BY <1>1
<1>3. /\ 1 \in places
      /\ \A i \in places :
           IF i = n THEN t[i] = 0 ELSE t[i] \in 1..63 /\ i + t[i] + 1 \in places
  BY <1>1, <1>2 DEF LabelsBegin
<1>. QED  BY <1>2, <1>3

\* Printing a dot ends the text in the buffer, or it is cut.
LEMMA DotEnds ==
  ASSUME NEW o, NEW n \in Nat \ {0}, Sound(o, n)
  PROVE  LET q == StrPrint(o, <<Dot>>)
         IN  /\ q.printed = o.printed \o <<Dot>>
             /\ q.ended \/ Len(q.printed) >= n
<1>1. o.printed \in Seq(Byte) /\ o.room \in Nat /\ <<Dot>> \in Seq(Byte)
  BY DEF Sound, Output, Dot, Byte
<1>2. Len(o.printed \o <<Dot>>) = Len(o.printed) + 1
  BY <1>1
<1>3. CASE o.room > 0
  BY <1>3 DEF StrPrint, Written
<1>4. CASE o.room = 0
  <2>1. Len(o.printed) >= n
    BY <1>4 DEF Sound
  <2>. QED  BY <1>1, <1>2, <2>1 DEF StrPrint, Written
<1>. QED  BY <1>1, <1>3, <1>4

\* A step of the scan inside a name stays inside it. One step per action: those that
\* give up, and the end of the data, cannot be reached; the others read the byte the
\* name has there and print what is read as that byte.
LEMMA InNameStep ==
  ASSUME ScanInv, [Next]_vars,
         NEW n \in 1..Len(wire), NEW places \in SUBSET (1..n),
         LabelsBegin(SubSeq(wire, 1, n), places), InName(n, places)
  PROVE  InName(n, places)'
<1>1. /\ wire \in Seq(Byte) /\ size \in Nat \ {0} /\ Len(wire) \in Nat
      /\ pos \in Nat /\ left \in Nat /\ phase \in Phases /\ Sound(out, size)
      /\ out.printed \in Seq(Byte)
      /\ ReadsInside /\ (phase = "start" => pos = 0)
  BY DEF ScanInv, Sound, Output
<1>2. /\ 1 \in places
      /\ \A i \in places : i = n => wire[i] = 0
      /\ \A i \in places : i # n =>
           wire[i] \in 1..63 /\ i + wire[i] + 1 \in places /\ i + wire[i] + 1 \in 1..n
  BY <1>1, PlacesInWire
<1>3. wire' = wire /\ size' = size
  BY DEF Next, vars, Missing, Root, Start, Compressed, UnknownLabel, Label, Character,
         EndLabel, RootLabel, Finish, Fail
<1>4. phase = "labels" =>
        /\ pos + 1 \in places /\ ReadSoFar(SubSeq(wire, 1, pos), <<>>) /\ (pos > 0 => Ended)
        /\ \/ pos + 1 = n /\ wire[pos + 1] = 0
           \/ /\ wire[pos + 1] \in 1..63
              /\ pos + 1 + wire[pos + 1] + 1 \in places
              /\ pos + 1 + wire[pos + 1] + 1 \in 1..n
  BY <1>2 DEF InName
<1>5. phase \notin {"start", "done"} => wire[1] # 0
  BY DEF InName
<1>6. ~Missing
  BY <1>1 DEF Missing
<1>7. CASE Root
  <2>1. n = 1
    <3>1. wire[1] = 0
      BY <1>7 DEF Root
    <3>2. wire[1] \notin 1..63
      BY <3>1
    <3>. QED  BY <1>2, <3>2
  <2>2. out = Empty(size) /\ out.printed = <<>> /\ out.room = size /\ out.room > 0
    BY <1>1, <1>7 DEF InName, Root, Empty
  <2>3. /\ out' = StrPrint(out, <<Dot>>)
        /\ out'.printed = <<>> \o <<Dot>>
        /\ out'.ended
    BY <1>7, <2>2 DEF Root, StrPrint, Written
  <2>4. out'.printed = <<Dot>>
    BY <2>3
  <2>5. SubSeq(wire, 1, 1) = <<0>>
    <3>1. wire[1] = 0 /\ 1 \in 1..Len(wire)
      BY <1>7, <2>1 DEF Root
    <3>2. PICK t : t = SubSeq(wire, 1, 1)
      OBVIOUS
    <3>3. t \in Seq(Byte) /\ Len(t) = 1 /\ t[1] = 0
      BY <1>1, <3>1, <3>2
    <3>4. <<0>> \in Seq(Byte) /\ Len(<<0>>) = 1 /\ <<0>>[1] = 0
      BY DEF Byte
    <3>5. PICK z : z = <<0>>
      OBVIOUS
    <3>6. t = z
      BY <3>3, <3>4, <3>5, SeqEqual
    <3>. QED  BY <3>2, <3>5, <3>6
  <2>6. Name(out'.printed) = <<0>>
    BY <2>4 DEF Name
  <2>7. pos' = 1 /\ phase' = "done"
    BY <1>7 DEF Root
  <2>. QED  BY <1>3, <2>1, <2>3, <2>5, <2>6, <2>7 DEF InName
<1>8. CASE Start
  <2>1. /\ pos = 0 /\ pos' = 0 /\ phase' = "labels" /\ out' = out /\ wire[1] # 0
        /\ out.printed = <<>>
    BY <1>1, <1>8 DEF Start, InName, Empty
  <2>2. SubSeq(wire, 1, 0) = <<>>
    OBVIOUS
  <2>3. Reading(out'.printed) = Read(SubSeq(wire', 1, pos'), <<>>, <<>>)
    BY <1>3, <2>1, <2>2, ShortTexts
  <2>4. pos' + 1 \in places /\ ~(pos' > 0)
    BY <1>2, <2>1
  <2>. QED  BY <1>3, <2>1, <2>3, <2>4 DEF InName, ReadSoFar
<1>9. ~Compressed /\ ~UnknownLabel
  <2>1. phase = "labels" => wire[pos + 1] \in 0..63
    BY <1>4
  <2>2. \A k \in 64..255 : ~LengthByte(k)
    <3>1. SUFFICES ASSUME NEW k \in 64..255, LengthByte(k)  PROVE FALSE
      OBVIOUS
    <3>2. wire[pos + 1] = k /\ wire[pos + 1] \in 0..63
      BY <2>1, <3>1 DEF LengthByte
    <3>. QED  BY <3>2
  <2>. QED  BY <2>2 DEF Compressed, UnknownLabel
<1>10. CASE Label
  <2>1. PICK k \in 1..63 : /\ wire[pos + 1] = k
                           /\ left' = Fitting(k, Len(wire) - (pos + 1))
    BY <1>10 DEF Label, LengthByte
  <2>2. phase = "labels" /\ pos' = pos + 1 /\ phase' = "chars" /\ out' = out
    BY <1>10 DEF Label, LengthByte
  <2>3. pos + 1 + k + 1 \in places /\ pos + 1 + k + 1 \in 1..n
    BY <1>4, <2>1, <2>2
  <2>4. left' = k
    <3>1. ~(Len(wire) - (pos + 1) < k)
      BY <1>1, <2>3
    <3>. QED  BY <2>1, <3>1 DEF Fitting
  <2>5. pos' + left' + 1 \in places
    BY <2>2, <2>3, <2>4
  <2>6. \E m \in 0..(pos' - 1) :
          /\ wire'[m + 1] = pos' - (m + 1) + left'
          /\ Reading(out'.printed) = Read(SubSeq(wire', 1, m), SubSeq(wire', m + 2, pos'), <<>>)
    <3>1. SubSeq(wire, pos + 2, pos + 1) = <<>>
      BY <1>1
    <3>2. Reading(out.printed) = Read(SubSeq(wire, 1, pos), <<>>, <<>>)
      BY <1>4, <2>2 DEF ReadSoFar
    <3>3. pos \in 0..(pos' - 1) /\ wire[pos + 1] = pos' - (pos + 1) + left'
      BY <1>1, <2>1, <2>2, <2>4
    <3>. QED  BY <1>3, <2>2, <3>1, <3>2, <3>3
  <2>7. wire'[1] # 0
    BY <1>3, <1>5, <2>2
  <2>. QED  BY <2>2, <2>5, <2>6, <2>7 DEF InName, ReadSoFar
<1>11. CASE Character
  <2>1. /\ phase = "chars" /\ phase' = "chars" /\ left > 0
        /\ pos' = pos + 1 /\ left' = left - 1
        /\ out' = CharPrint(out, wire[pos + 1])
    BY <1>11 DEF Character
  <2>2. pos + left <= Len(wire) /\ pos + 1 \in 1..Len(wire) /\ wire[pos + 1] \in Byte
    BY <1>1, <2>1 DEF ReadsInside
  <2>3. PICK m \in 0..(pos - 1) :
          /\ wire[m + 1] = pos - (m + 1) + left
          /\ Reading(out.printed) = Read(SubSeq(wire, 1, m), SubSeq(wire, m + 2, pos), <<>>)
    BY <2>1 DEF InName, ReadSoFar
  <2>4. Reading(out'.printed)
          = Read(SubSeq(wire, 1, m), Append(SubSeq(wire, m + 2, pos), wire[pos + 1]), <<>>)
    <3>1. PICK r : r = Reading(out.printed)
      OBVIOUS
    <3>2. /\ r.name = SubSeq(wire, 1, m) /\ r.label = SubSeq(wire, m + 2, pos)
          /\ r.escape = <<>>
      <4>1. PICK t, u : t = SubSeq(wire, 1, m) /\ u = SubSeq(wire, m + 2, pos)
        OBVIOUS
      <4>2. r = Read(t, u, <<>>)
        BY <2>3, <3>1, <4>1
      <4>3. r.name = t /\ r.label = u /\ r.escape = <<>>
        BY <4>2, ReadFields
      <4>. QED  BY <4>1, <4>3
    <3>3. Reading(CharPrint(out, wire[pos + 1]).printed)
            = Read(r.name, Append(r.label, wire[pos + 1]), <<>>)
      BY <1>1, <2>2, <3>1, <3>2, CharRead
    <3>. QED  BY <2>1, <3>2, <3>3
  <2>5. Append(SubSeq(wire, m + 2, pos), wire[pos + 1]) = SubSeq(wire, m + 2, pos + 1)
    <3>1. m + 2 \in 1..(Len(wire) + 1) /\ pos \in ((m + 2) - 1)..(Len(wire) - 1)
      BY <1>1, <2>2
    <3>. QED  BY <1>1, <3>1, PartGrows
  <2>6. \E k \in 0..(pos' - 1) :
          /\ wire'[k + 1] = pos' - (k + 1) + left'
          /\ Reading(out'.printed) = Read(SubSeq(wire', 1, k), SubSeq(wire', k + 2, pos'), <<>>)
    <3>1. m \in 0..(pos' - 1) /\ wire[m + 1] = pos' - (m + 1) + left'
      BY <1>1, <2>1, <2>3
    <3>. QED  BY <1>3, <2>1, <2>4, <2>5, <3>1
  <2>7. pos' + left' + 1 \in places
    <3>1. pos' + left' + 1 = pos + left + 1
      BY <1>1, <2>1
    <3>. QED  BY <2>1, <3>1 DEF InName
  <2>8. wire'[1] # 0
    BY <1>3, <1>5, <2>1
  <2>. QED  BY <2>1, <2>6, <2>7, <2>8 DEF InName, ReadSoFar
<1>12. CASE EndLabel
  <2>1. phase = "chars" /\ left = 0 /\ pos' = pos
    BY <1>12 DEF EndLabel
  <2>2. pos + 1 \in places /\ pos + 1 \in 1..n
    BY <1>1, <2>1 DEF InName
  <2>3. pos # Len(wire)
    BY <1>1, <2>2
  <2>4. out' = StrPrint(out, <<Dot>>) /\ phase' = "labels"
    BY <1>12, <2>3 DEF EndLabel
  <2>5. PICK m \in 0..(pos - 1) :
          /\ wire[m + 1] = pos - (m + 1)
          /\ Reading(out.printed) = Read(SubSeq(wire, 1, m), SubSeq(wire, m + 2, pos), <<>>)
    <3>1. PICK m \in 0..(pos - 1) :
            /\ wire[m + 1] = pos - (m + 1) + left
            /\ Reading(out.printed) = Read(SubSeq(wire, 1, m), SubSeq(wire, m + 2, pos), <<>>)
      BY <2>1 DEF InName, ReadSoFar
    <3>. QED  BY <1>1, <2>1, <3>1
  <2>6. out'.printed = out.printed \o <<Dot>> /\ (out'.ended \/ Len(out'.printed) >= size)
    BY <1>1, <2>4, DotEnds
  <2>7. Reading(out'.printed) = Read(SubSeq(wire, 1, pos), <<>>, <<>>)
    <3>1. PICK l : l = SubSeq(wire, m + 2, pos)
      OBVIOUS
    <3>2. Reading(out.printed \o <<Dot>>)
            = Read(SubSeq(wire, 1, m) \o (<<Len(l)>> \o l), <<>>, <<>>)
      BY <1>1, <2>5, <3>1, DotRead
    <3>3. SubSeq(wire, 1, m) \o (<<Len(l)>> \o l) = SubSeq(wire, 1, pos)
      <4>1. pos \in 1..Len(wire) /\ m \in 0..(pos - 1)
        BY <1>1, <2>2, <2>5
      <4>. QED  BY <1>1, <2>5, <3>1, <4>1, LabelBack
    <3>. QED  BY <2>6, <3>2, <3>3
  <2>8. wire'[1] # 0
    BY <1>3, <1>5, <2>1
  <2>. QED  BY <1>3, <2>1, <2>2, <2>4, <2>6, <2>7, <2>8 DEF InName, ReadSoFar, Ended
<1>13. CASE RootLabel
  <2>1. phase = "labels" /\ wire[pos + 1] = 0 /\ phase' = "finish" /\ pos' = pos /\ out' = out
    BY <1>13 DEF RootLabel, LengthByte
  <2>2. pos + 1 = n /\ n \in places
    BY <1>4, <2>1
  <2>3. wire[1] # 0 /\ pos > 0
    BY <1>1, <1>5, <2>1
  <2>. QED  BY <1>3, <1>4, <2>1, <2>2, <2>3 DEF InName, ReadSoFar, Ended
<1>14. CASE Finish
  <2>1. phase = "finish" /\ phase' = "done"
    BY <1>14 DEF Finish
  <2>2. /\ pos + 1 = n /\ n \in places /\ pos > 0 /\ Ended
        /\ Reading(out.printed) = Read(SubSeq(wire, 1, pos), <<>>, <<>>)
    BY <2>1 DEF InName, ReadSoFar
  <2>3. pos' = n
    BY <1>1, <1>14, <2>2 DEF Finish
  <2>4. n \in places /\ wire[n] = 0
    BY <1>2, <2>2
  <2>5. SubSeq(wire, 1, pos) \in Seq(Byte) /\ Len(SubSeq(wire, 1, pos)) = pos
        /\ SubSeq(wire, 1, pos)[1] = wire[1]
        /\ Append(SubSeq(wire, 1, pos), 0) = SubSeq(wire, 1, n)
    <3>1. 1 \in 1..(Len(wire) + 1) /\ pos \in (1 - 1)..(Len(wire) - 1)
      BY <1>1, <2>2
    <3>2. /\ SubSeq(wire, 1, pos) \in Seq(Byte) /\ Len(SubSeq(wire, 1, pos)) = pos - (1 - 1)
          /\ Append(SubSeq(wire, 1, pos), wire[pos + 1]) = SubSeq(wire, 1, pos + 1)
      BY <1>1, <3>1, PartGrows
    <3>3. SubSeq(wire, 1, pos)[1] = wire[1]
      BY <1>1, <2>2
    <3>. QED  BY <1>1, <2>2, <2>4, <3>2, <3>3
  <2>6. Reading(out.printed).name = SubSeq(wire, 1, pos)
    <3>1. PICK t : t = SubSeq(wire, 1, pos)
      OBVIOUS
    <3>2. PICK r : r = Reading(out.printed)
      OBVIOUS
    <3>3. r = Read(t, <<>>, <<>>)
      BY <2>2, <3>1, <3>2
    <3>4. r.name = t
      BY <3>3, ReadFields
    <3>. QED  BY <3>1, <3>2, <3>4
  <2>7. out.printed # <<>>
    <3>1. Reading(<<>>).name = <<>>
      BY ShortTexts, ReadFields
    <3>2. SubSeq(wire, 1, pos) # <<>>
      BY <2>2, <2>5
    <3>. QED  BY <2>6, <3>1, <3>2
  <2>8. out.printed # <<Dot>>
    <3>1. SubSeq(wire, 1, pos)[1] # 0
      BY <1>5, <2>1, <2>5
    <3>2. SubSeq(wire, 1, pos) # <<0>>
      <4>1. PICK t : t = SubSeq(wire, 1, pos)
        OBVIOUS
      <4>2. t[1] # 0
        BY <3>1, <4>1
      <4>3. t # <<0>>
        BY <4>2
      <4>. QED  BY <4>1, <4>3
    <3>. QED  BY <2>6, <3>2, ShortTexts
  <2>9. out' = out
    BY <1>14, <2>7 DEF Finish
  <2>10. Name(out.printed) = SubSeq(wire, 1, n)
    BY <2>5, <2>6, <2>8 DEF Name
  <2>11. Len(out.printed) < size => out.ended
    <3>1. Len(out.printed) \in Nat
      BY <1>1
    <3>. QED  BY <1>1, <2>2, <3>1 DEF Ended
  <2>. QED  BY <1>3, <2>1, <2>3, <2>9, <2>10, <2>11 DEF InName
<1>15. CASE UNCHANGED vars
  BY <1>15 DEF vars, InName, ReadSoFar, Ended
<1>. QED  BY <1>6, <1>7, <1>8, <1>9, <1>10, <1>11, <1>12, <1>13, <1>14, <1>15 DEF Next

\* The scan begins before every name.
LEMMA InitName == Init => NameInv
BY DEF Init, NameInv, InName

\* No name the data begins with is left.
LEMMA NameStep == ScanInv /\ NameInv /\ [Next]_vars => NameInv'
<1>. SUFFICES ASSUME ScanInv, NameInv, [Next]_vars PROVE NameInv'
  OBVIOUS
<1>1. wire' = wire
  BY DEF Next, vars, Missing, Root, Start, Compressed, UnknownLabel, Label, Character,
         EndLabel, RootLabel, Finish, Fail
<1>2. ASSUME NEW n \in 1..Len(wire), NEW places \in SUBSET (1..n),
             LabelsBegin(SubSeq(wire, 1, n), places)
      PROVE  InName(n, places)'
  <2>1. InName(n, places)
    BY <1>2 DEF NameInv
  <2>. QED  BY <1>2, <2>1, InNameStep
<1>. QED  BY <1>1, <1>2 DEF NameInv

\* Both invariants hold along every scan.
LEMMA Names == Spec => [](ScanInv /\ NameInv)
<1>1. Init => ScanInv /\ NameInv
  BY InitScan, InitName
<1>2. (ScanInv /\ NameInv) /\ [Next]_vars => (ScanInv /\ NameInv)'
  BY ScanStep, NameStep
<1>. QED  BY <1>1, <1>2, PTL DEF Spec

\* A name at the beginning of the data, of whatever labels and bytes, is printed
\* without an error and nothing after it is taken; its text, when the buffer is larger,
\* is terminated, and the name can be read back from it (sldns.c:99-184).
THEOREM NameComesBack == Spec => []TextTellsName
<1>1. ScanInv /\ NameInv => TextTellsName
  <2>1. SUFFICES ASSUME ScanInv, NameInv, phase \in {"done", "error"},
                        NEW n \in 1..Len(wire), IsName(SubSeq(wire, 1, n))
                 PROVE  /\ phase = "done"
                        /\ pos = n
                        /\ Len(out.printed) < size =>
                             out.ended /\ Name(out.text) = SubSeq(wire, 1, n)
    BY DEF TextTellsName
  <2>2. Len(SubSeq(wire, 1, n)) = n
    BY <2>1 DEF ScanInv
  <2>3. PICK places \in SUBSET (1..n) : LabelsBegin(SubSeq(wire, 1, n), places)
    BY <2>1, <2>2 DEF IsName
  <2>4. InName(n, places)
    BY <2>1, <2>3 DEF NameInv
  <2>5. phase = "done"
    BY <2>1, <2>4 DEF InName
  <2>6. Len(out.printed) < size => out.text = out.printed
    BY <2>1 DEF ScanInv, Sound
  <2>. QED  BY <2>4, <2>5, <2>6 DEF InName
<1>. QED  BY <1>1, Names, PTL
=============================================================================
