------------------------------- MODULE Dname -------------------------------
(***************************************************************************)
(* src/jni/src/sldns.c: sldns_wire2str_rdata_buf, which prints the domain  *)
(* name in the data of a PTR record into a buffer of fixed size.  Bytes    *)
(* and characters are numbers; the texts of errors are words of the right  *)
(* length.                                                                 *)
(*                                                                         *)
(* There is no packet here (pkt is NULL), hence no compression to follow.  *)
(***************************************************************************)
EXTENDS Integers, Sequences

CONSTANTS
  Wires,   \* record data to print
  Sizes    \* sizes of the buffer

Byte == 0..255

ASSUME DnameAssumption ==
  /\ Wires \subseteq Seq(Byte)
  /\ Sizes \subseteq Nat \ {0}

VARIABLES
  wire,   \* the record data
  size,   \* str_len
  pos,    \* bytes taken from the data: *d; what is left of it is *dlen
  left,   \* characters of the current label still to be printed
  phase,
  out     \* what was printed

vars == <<wire, size, pos, left, phase, out>>

\* text: the characters in the buffer; room: *slen; ended: the buffer has a
\* terminator after them; printed: everything printed, whether it fitted or not,
\* whose length is w
Output == [text : Seq(Byte), room : Nat, ended : BOOLEAN, printed : Seq(Byte)]

Phases == {"start", "labels", "chars", "finish", "done", "error"}

DnameTypeOK ==
  /\ wire \in Seq(Byte)
  /\ size \in Nat \ {0}
  /\ pos \in Nat /\ left \in Nat
  /\ phase \in Phases
  /\ out \in Output

Empty(n) == [text |-> <<>>, room |-> n, ended |-> FALSE, printed |-> <<>>]

Init ==
  /\ wire \in Wires
  /\ size \in Sizes
  /\ pos = 0
  /\ left = 0
  /\ phase = "start"
  /\ out = Empty(size)

-----------------------------------------------------------------------------
(* Printing *)

Fits(o, s) == Len(s) < o.room

\* vsnprintf writes what fits beside a terminator.
Written(o, s, room) ==
  [text    |-> o.text \o (IF Fits(o, s) THEN s ELSE SubSeq(s, 1, o.room - 1)),
   room    |-> room,
   ended   |-> IF o.room > 0 THEN TRUE ELSE o.ended,
   printed |-> o.printed \o s]

StrPrint_Unchecked(o, s) == Written(o, s, o.room - Len(s))

StrPrint_KeepsRoom(o, s) == Written(o, s, IF Fits(o, s) THEN o.room - Len(s) ELSE o.room)

\* sldns_str_print: nothing is written after what was cut.
StrPrint(o, s) == Written(o, s, IF Fits(o, s) THEN o.room - Len(s) ELSE 0)

\* A plain character is stored without a terminator, in the last byte too.
Store(o, ch) ==
  [text    |-> IF o.room > 0 THEN Append(o.text, ch) ELSE o.text,
   room    |-> IF o.room > 0 THEN o.room - 1 ELSE 0,
   ended   |-> IF o.room > 0 THEN FALSE ELSE o.ended,
   printed |-> Append(o.printed, ch)]

Dot == 46
Backslash == 92
Special_NoDot == {59, 40, 41, Backslash}
Special == {Dot, 59, 40, 41, Backslash}   \* . ; ( ) \
Graphic == 33..126                        \* isascii and isgraph

Decimal(ch) == <<48 + (ch \div 100), 48 + ((ch \div 10) % 10), 48 + (ch % 10)>>

\* dname_char_print
CharPrint(o, ch) ==
  IF ch \in Special THEN StrPrint(o, <<Backslash, ch>>)
  ELSE IF ch \notin Graphic THEN StrPrint(o, <<Backslash>> \o Decimal(ch))
  ELSE Store(o, ch)

-----------------------------------------------------------------------------
(* sldns_wire2str_dname_scan *)

\* Gives up after taken more bytes, with an error text of n characters.
Fail(taken, n) ==
  /\ pos' = pos + taken
  /\ out' = StrPrint(out, [i \in 1..n |-> 69])
  /\ phase' = "error"
  /\ UNCHANGED <<wire, size, left>>

\* ErrorMissingDname
Missing == phase = "start" /\ wire = <<>> /\ Fail(0, 17)

Root ==
  /\ phase = "start"
  /\ wire # <<>> /\ wire[1] = 0
  /\ pos' = 1
  /\ out' = StrPrint(out, <<Dot>>)
  /\ phase' = "done"
  /\ UNCHANGED <<wire, size, left>>

Start ==
  /\ phase = "start"
  /\ wire # <<>> /\ wire[1] # 0
  /\ phase' = "labels"
  /\ UNCHANGED <<wire, size, pos, left, out>>

\* The byte at pos is a length, or says what else there is.
LengthByte(n) == phase = "labels" /\ wire[pos + 1] = n

\* ErrorPartialDname, or ErrorComprPtrOutOfBounds once the pointer was read
Compressed ==
  /\ \E n \in 192..255 : LengthByte(n)
  /\ IF pos + 1 = Len(wire) THEN Fail(1, 17) ELSE Fail(2, 24)

\* ErrorLABELTYPE40IsUnknown, or 80
UnknownLabel == (\E n \in 64..191 : LengthByte(n)) /\ Fail(1, 25)

\* A label is no longer than the data.
Fitting(n, rest) == IF rest < n THEN rest ELSE n

Label ==
  \E n \in 1..63 :
    /\ LengthByte(n)
    /\ pos' = pos + 1
    /\ left' = Fitting(n, Len(wire) - (pos + 1))
    /\ phase' = "chars"
    /\ UNCHANGED <<wire, size, out>>

Character ==
  /\ phase = "chars"
  /\ left > 0
  /\ out' = CharPrint(out, wire[pos + 1])
  /\ pos' = pos + 1
  /\ left' = left - 1
  /\ UNCHANGED <<wire, size, phase>>

EndLabel_NoBreak ==
  /\ phase = "chars"
  /\ left = 0
  /\ out' = StrPrint(out, <<Dot>>) /\ phase' = "labels"
  /\ UNCHANGED <<wire, size, pos, left>>

\* Data that ends without a root label gets no last dot.
EndLabel ==
  /\ phase = "chars"
  /\ left = 0
  /\ IF pos = Len(wire)
     THEN phase' = "finish" /\ UNCHANGED out
     ELSE out' = StrPrint(out, <<Dot>>) /\ phase' = "labels"
  /\ UNCHANGED <<wire, size, pos, left>>

RootLabel ==
  /\ LengthByte(0)
  /\ phase' = "finish"
  /\ UNCHANGED <<wire, size, pos, left, out>>

\* Skips the root label; a name of no label is a dot.
Finish ==
  /\ phase = "finish"
  /\ pos' = IF pos < Len(wire) THEN pos + 1 ELSE pos
  /\ out' = IF out.printed = <<>> THEN StrPrint(out, <<Dot>>) ELSE out
  /\ phase' = "done"
  /\ UNCHANGED <<wire, size, left>>

Next ==
  \/ Missing
  \/ Root
  \/ Start
  \/ Compressed
  \/ UnknownLabel
  \/ Label
  \/ Character
  \/ EndLabel
  \/ RootLabel
  \/ Finish
  \/ phase \in {"done", "error"} /\ UNCHANGED vars

Spec == Init /\ [][Next]_vars

-----------------------------------------------------------------------------
(* Properties *)

\* The scan never reads past the record data: there is a byte where it is about to
\* read a length, and as many as the label it is printing still has
\* (sldns.c:163-176).
ReadsInside ==
  /\ pos <= Len(wire)
  /\ phase = "labels" => pos < Len(wire)
  /\ phase = "chars" => pos + left <= Len(wire)

\* Nothing is written past the buffer, and what is in it is a beginning of what was
\* printed: all of it when that is shorter than the buffer (sldns.c:41-50, 106).
BufferHoldsBeginning ==
  /\ Len(out.text) + (IF out.ended THEN 1 ELSE 0) <= size
  /\ \E n \in 0..Len(out.printed) : out.text = SubSeq(out.printed, 1, n)
  /\ Len(out.printed) < size => out.text = out.printed

\* places are the places in s where labels begin: as many bytes follow the length of
\* one as it says, then comes the next, and the last is the root label.
LabelsBegin(s, places) ==
  /\ 1 \in places
  /\ \A i \in places :
       IF i = Len(s) THEN s[i] = 0 ELSE s[i] \in 1..63 /\ i + s[i] + 1 \in places

\* s is a name in wire format: labels and the root label.
IsName(s) == \E places \in SUBSET (1..Len(s)) : LabelsBegin(s, places)

\* What a reader of a text has so far: the labels that ended, each after its length;
\* the current one; and the characters of an escape that is not complete
Read(name, label, escape) == [name |-> name, label |-> label, escape |-> escape]

Digit == 48..57

\* The byte of a complete decimal escape
Value(escape) == 100 * (escape[2] - 48) + 10 * (escape[3] - 48) + (escape[4] - 48)

ReadOn(r, ch) ==
  LET escape == Append(r.escape, ch)
  IN  IF r.escape = <<>> /\ ch = Dot
        THEN Read(r.name \o (<<Len(r.label)>> \o r.label), <<>>, <<>>)
      ELSE IF \/ r.escape = <<>> /\ ch = Backslash
              \/ Len(r.escape) \in 1..2 /\ ch \in Digit
        THEN Read(r.name, r.label, escape)
      ELSE Read(r.name,
                Append(r.label, IF Len(escape) = 4 THEN Value(escape) ELSE ch),
                <<>>)

Reading(text) ==
  LET upTo[n \in 0..Len(text)] ==
        IF n = 0 THEN Read(<<>>, <<>>, <<>>) ELSE ReadOn(upTo[n - 1], text[n])
  IN  upTo[Len(text)]

\* The name a text stands for
Name(text) == IF text = <<Dot>> THEN <<0>> ELSE Append(Reading(text).name, 0)

\* Data that begins with a name is never an error; just the name is consumed; and
\* when the buffer is larger than the text, the text is terminated and is that of no
\* other name (sldns.c:99-184).
TextTellsName ==
  phase \in {"done", "error"} =>
    \A n \in 1..Len(wire) :
      LET name == SubSeq(wire, 1, n)
      IN  IsName(name) =>
            /\ phase = "done"
            /\ pos = n
            /\ Len(out.printed) < size => out.ended /\ Name(out.text) = name
=============================================================================
