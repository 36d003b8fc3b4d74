----------------------------- MODULE TableLemmas -----------------------------
(***************************************************************************)
(* What adding to and deleting from the query table does, for sequences    *)
(* without repetition of any length; induction and recursion over places.  *)
(***************************************************************************)
EXTENDS SequencesExt, SequenceTheorems, WellFoundedInduction, TLAPS

\* The elements of a sequence after one was deleted: those before it keep their
\* place, those after it move up by one (HASH_DELETE_HH relinks around it).
LEMMA RemoveAtElements ==
  ASSUME NEW S, NEW s \in Seq(S), NEW i \in 1..Len(s)
  PROVE  /\ RemoveAt(s, i) \in Seq(S)
         /\ Len(RemoveAt(s, i)) = Len(s) - 1
         /\ \A j \in 1..(Len(s) - 1) :
              RemoveAt(s, i)[j] = IF j < i THEN s[j] ELSE s[j + 1]
<1> DEFINE front == SubSeq(s, 1, i - 1)
           back == SubSeq(s, i + 1, Len(s))
<1>1. Len(s) \in Nat /\ i \in Int /\ 1 <= i /\ i <= Len(s)
  BY LenProperties
<1>2. \A k \in 1..Len(s) : s[k] \in S
  BY ElementOfSeq
<1>3. /\ front \in Seq(S)
      /\ Len(front) = i - 1
      /\ \A j \in 1..(i - 1) : front[j] = s[j]
  <2>1. \A k \in 1..(i - 1) : s[k] \in S
    BY <1>1, <1>2
  <2>2. /\ front \in Seq(S)
        /\ Len(front) = IF 1 <= i - 1 THEN (i - 1) - 1 + 1 ELSE 0
        /\ \A j \in 1..((i - 1) - 1 + 1) : front[j] = s[1 + j - 1]
    BY <1>1, <2>1, SubSeqProperties
  <2>. QED  BY <1>1, <2>2
<1>4. /\ back \in Seq(S)
      /\ Len(back) = Len(s) - i
      /\ \A j \in 1..(Len(s) - i) : back[j] = s[i + j]
  <2>1. \A k \in (i + 1)..Len(s) : s[k] \in S
    BY <1>1, <1>2
  <2>2. /\ back \in Seq(S)
        /\ Len(back) = IF i + 1 <= Len(s) THEN Len(s) - (i + 1) + 1 ELSE 0
        /\ \A j \in 1..(Len(s) - (i + 1) + 1) : back[j] = s[(i + 1) + j - 1]
    BY <1>1, <2>1, SubSeqProperties
  <2>. QED  BY <1>1, <2>2
<1>. HIDE DEF front, back
<1>5. /\ front \o back \in Seq(S)
      /\ Len(front \o back) = Len(front) + Len(back)
      /\ \A j \in 1..(Len(front) + Len(back)) :
           (front \o back)[j] = IF j <= Len(front) THEN front[j]
                                ELSE back[j - Len(front)]
  BY <1>3, <1>4, ConcatProperties
<1>6. RemoveAt(s, i) = front \o back
  BY DEF RemoveAt, front, back
<1>7. ASSUME NEW j \in 1..(Len(s) - 1)
      PROVE  (front \o back)[j] = IF j < i THEN s[j] ELSE s[j + 1]
  <2>1. CASE j < i
    BY <2>1, <1>1, <1>3, <1>4, <1>5
  <2>2. CASE ~(j < i)
    <3>1. j - (i - 1) \in 1..(Len(s) - i) /\ i + (j - (i - 1)) = j + 1
      BY <2>2, <1>1
    <3>2. j \in 1..(Len(front) + Len(back)) /\ ~(j <= Len(front))
      BY <2>2, <1>1, <1>3, <1>4
    <3>3. (front \o back)[j] = back[j - (i - 1)]
      BY <3>2, <1>3, <1>5
    <3>4. back[j - (i - 1)] = s[i + (j - (i - 1))]
      BY <3>1, <1>4
    <3>. QED  BY <3>1, <3>3, <3>4, <2>2
  <2>. QED  BY <2>1, <2>2
<1>. QED  BY <1>1, <1>3, <1>4, <1>5, <1>6, <1>7

\* Deleting from a sequence without repetition leaves one without repetition,
\* of the other elements.
LEMMA RemoveAtKeepsInjective ==
  ASSUME NEW S, NEW s \in Seq(S), IsInjective(s), NEW i \in 1..Len(s)
  PROVE  /\ IsInjective(RemoveAt(s, i))
         /\ Range(RemoveAt(s, i)) = Range(s) \ {s[i]}
<1> DEFINE t == RemoveAt(s, i)
<1>1. /\ t \in Seq(S)
      /\ Len(t) = Len(s) - 1
      /\ \A j \in 1..(Len(s) - 1) : t[j] = IF j < i THEN s[j] ELSE s[j + 1]
  BY RemoveAtElements
<1>2. DOMAIN s = 1..Len(s) /\ DOMAIN t = 1..(Len(s) - 1) /\ Len(s) \in Nat
  BY <1>1
<1>. HIDE DEF t
<1>3. IsInjective(t)
  <2>1. SUFFICES ASSUME NEW a \in 1..(Len(s) - 1), NEW b \in 1..(Len(s) - 1), t[a] = t[b]
                 PROVE  a = b
    BY <1>2 DEF IsInjective
  <2> DEFINE place(j) == IF j < i THEN j ELSE j + 1
  <2>2. \A j \in 1..(Len(s) - 1) : place(j) \in 1..Len(s) /\ t[j] = s[place(j)]
    <3>1. SUFFICES ASSUME NEW j \in 1..(Len(s) - 1)
                   PROVE  place(j) \in 1..Len(s) /\ t[j] = s[place(j)]
      OBVIOUS
    <3>2. t[j] = IF j < i THEN s[j] ELSE s[j + 1]
      BY <1>1
    <3>3. CASE j < i
      BY <1>2, <3>2, <3>3
    <3>4. CASE ~(j < i)
      BY <1>2, <3>2, <3>4
    <3>. QED  BY <3>3, <3>4
  <2>3. place(a) = place(b)
    BY <2>1, <2>2, <1>2 DEF IsInjective
  <2>. QED  BY <2>1, <2>3, <1>2
<1>4. Range(t) \subseteq Range(s) \ {s[i]}
  BY <1>1, <1>2 DEF IsInjective, Range
<1>5. Range(s) \ {s[i]} \subseteq Range(t)
  <2>1. SUFFICES ASSUME NEW k \in 1..Len(s), k # i  PROVE s[k] \in Range(t)
    BY <1>2 DEF Range
  <2>2. CASE k < i
    BY <2>2, <1>1, <1>2 DEF Range
  <2>3. CASE k > i
    <3>1. k - 1 \in 1..(Len(s) - 1) /\ ~(k - 1 < i) /\ (k - 1) + 1 = k
      BY <2>3, <1>2
    <3>2. t[k - 1] = s[k]
      BY <3>1, <1>1
    <3>. QED  BY <3>1, <3>2, <1>2 DEF Range
  <2>. QED  BY <2>1, <2>2, <2>3, <1>2
<1>. QED  BY <1>3, <1>4, <1>5 DEF t

\* Appending an element that is not there keeps a sequence without repetition.
LEMMA AppendNewInjective ==
  ASSUME NEW S, NEW s \in Seq(S), IsInjective(s), NEW e \in S, e \notin Range(s)
  PROVE  /\ Append(s, e) \in Seq(S)
         /\ IsInjective(Append(s, e))
         /\ Range(Append(s, e)) = Range(s) \cup {e}
<1> DEFINE t == Append(s, e)
<1>1. /\ t \in Seq(S)
      /\ DOMAIN s = 1..Len(s) /\ Len(s) \in Nat
      /\ DOMAIN t = 1..(Len(s) + 1)
      /\ t[Len(s) + 1] = e
      /\ \A j \in 1..Len(s) : t[j] = s[j]
  BY AppendProperties, LenProperties
<1>. HIDE DEF t
<1>2. IsInjective(t)
  BY <1>1 DEF IsInjective, Range
<1>3. Range(t) = Range(s) \cup {e}
  <2>1. Range(t) \subseteq Range(s) \cup {e}
    BY <1>1 DEF Range
  <2>2. Range(s) \subseteq Range(t) /\ e \in Range(t)
    BY <1>1 DEF Range
  <2>. QED  BY <2>1, <2>2
<1>. QED  BY <1>1, <1>2, <1>3 DEF t

\* t is s with e before its first element.
Prepended(t, e, s) ==
  /\ Len(t) = Len(s) + 1
  /\ t[1] = e
  /\ \A i \in 1..Len(s) : t[i + 1] = s[i]

\* Putting an element that is not there before the first keeps a sequence without
\* repetition.
LEMMA PrependElements ==
  ASSUME NEW S, NEW s \in Seq(S), IsInjective(s), NEW e \in S, e \notin Range(s)
  PROVE  \E t \in Seq(S) :
           Prepended(t, e, s) /\ IsInjective(t) /\ Range(t) = Range(s) \cup {e}
<1>0. PICK t : t = <<e>> \o s
  OBVIOUS
<1>1. <<e>> \in Seq(S) /\ Len(<<e>>) = 1 /\ <<e>>[1] = e
  OBVIOUS
<1>2. /\ t \in Seq(S)
      /\ Len(t) = 1 + Len(s)
      /\ \A i \in 1..(1 + Len(s)) : t[i] = IF i <= 1 THEN <<e>>[i] ELSE s[i - 1]
  BY <1>0, <1>1, ConcatProperties
<1>3. Len(s) \in Nat /\ DOMAIN s = 1..Len(s) /\ DOMAIN t = 1..(Len(s) + 1)
  BY <1>2, LenProperties
<1>4. t[1] = e /\ \A i \in 2..(Len(s) + 1) : t[i] = s[i - 1] /\ i - 1 \in 1..Len(s)
  BY <1>1, <1>2, <1>3
<1>5. \A i \in 1..Len(s) : t[i + 1] = s[i]
  <2>1. \A i \in 1..Len(s) : i + 1 \in 2..(Len(s) + 1) /\ (i + 1) - 1 = i
    BY <1>3
  <2>. QED  BY <1>4, <2>1
<1>6. IsInjective(t)
  <2>1. \A i \in 1..(Len(s) + 1) : i = 1 \/ i \in 2..(Len(s) + 1)
    BY <1>3
  <2>2. \A i \in 2..(Len(s) + 1) : t[i] # e
    BY <1>3, <1>4 DEF Range
  <2>3. \A i, j \in 2..(Len(s) + 1) : t[i] = t[j] => i = j
    <3>1. SUFFICES ASSUME NEW i \in 2..(Len(s) + 1), NEW j \in 2..(Len(s) + 1), t[i] = t[j]
                   PROVE  i = j
      OBVIOUS
    <3>2. /\ i - 1 \in DOMAIN s /\ j - 1 \in DOMAIN s
          /\ s[i - 1] = s[j - 1]
      BY <1>3, <1>4, <3>1
    <3>3. i - 1 = j - 1
      BY <3>2 DEF IsInjective
    <3>. QED  BY <3>3
  <2>. QED  BY <1>3, <1>4, <2>1, <2>2, <2>3 DEF IsInjective
<1>7. Range(t) = Range(s) \cup {e}
  <2>1. Range(t) \subseteq Range(s) \cup {e}
    <3>1. \A i \in 1..(Len(s) + 1) : i = 1 \/ i \in 2..(Len(s) + 1)
      BY <1>3
    <3>. QED  BY <1>3, <1>4, <3>1 DEF Range
  <2>2. Range(s) \subseteq Range(t) /\ e \in Range(t)
    <3>1. 1 \in DOMAIN t /\ \A i \in 1..Len(s) : i + 1 \in DOMAIN t
      BY <1>3
    <3>2. \A i \in DOMAIN s : t[i + 1] = s[i] /\ i + 1 \in DOMAIN t
      BY <1>3, <1>5, <3>1
    <3>3. \A i \in DOMAIN s : s[i] \in Range(t)
      BY <3>2 DEF Range
    <3>4. t[1] \in Range(t)
      BY <3>1 DEF Range
    <3>. QED  BY <1>4, <3>3, <3>4 DEF Range
  <2>. QED  BY <2>1, <2>2
<1>. QED  BY <1>2, <1>3, <1>4, <1>5, <1>6, <1>7 DEF Prepended

-----------------------------------------------------------------------------
(* Induction and recursion over places *)

\* A set of numbers that is not empty has a least one.
LEMMA SmallestNat ==
  ASSUME NEW S \in SUBSET Nat, S # {}
  PROVE  \E n \in S : \A m \in S : n <= m
<1> DEFINE R == {p \in Nat \X Nat : p[1] < p[2]}
<1>1. IsWellFoundedOn(R, Nat)
  BY NatLessThanWellFounded DEF OpToRel
<1>. HIDE DEF R
<1>2. PICK n \in S : \A m \in S : <<m, n>> \notin R
  BY <1>1, WFMin
<1>3. \A m \in S : ~(m < n)
  BY <1>2 DEF R
<1>. QED  BY <1>2, <1>3

\* Induction up to a bound, over a set: S is the set of the numbers of which
\* something holds.
LEMMA UpTo ==
  ASSUME NEW N \in Nat, NEW S, 0 \in S, \A n \in 1..N : n - 1 \in S => n \in S
  PROVE  0..N \subseteq S
<1>. SUFFICES ASSUME (0..N) \ S # {}  PROVE FALSE
  OBVIOUS
<1> DEFINE rest == (0..N) \ S
<1>1. PICK n \in rest : \A m \in rest : n <= m
  <2>1. rest \in SUBSET Nat /\ rest # {}
    OBVIOUS
  <2>. HIDE DEF rest
  <2>. QED  BY <2>1, SmallestNat
<1>2. n \in 1..N /\ n - 1 \in 0..N /\ ~(n <= n - 1)
  BY <1>1
<1>3. n - 1 \in S
  BY <1>1, <1>2
<1>. QED  BY <1>1, <1>2, <1>3

\* f is defined by recursion over 0..N, a step being a function of the value before
\* it and of the place.
Recurs(f, N, first, step) ==
  f = [n \in 0..N |-> IF n = 0 THEN first ELSE step[<<f[n - 1], n>>]]

\* There is such a function, whatever the step is.
LEMMA RecursionOverPlaces ==
  ASSUME NEW N \in Nat, NEW V, NEW first \in V, NEW step \in [V \X (1..N) -> V]
  PROVE  \E f \in [0..N -> V] : Recurs(f, N, first, step)
<1> DEFINE Rec(k, f) == f = [n \in 0..k |-> IF n = 0 THEN first ELSE step[<<f[n - 1], n>>]]
           S == {k \in 0..N : \E f \in [0..k -> V] : Rec(k, f)}
<1>1. 0 \in S
  <2>1. [n \in 0..0 |-> first] \in [0..0 -> V]
    OBVIOUS
  <2>2. Rec(0, [n \in 0..0 |-> first])
    OBVIOUS
  <2>. HIDE DEF Rec
  <2>. QED  BY <2>1, <2>2
<1>2. ASSUME NEW k \in 1..N, k - 1 \in S  PROVE k \in S
  <2>1. PICK f \in [0..(k - 1) -> V] : Rec(k - 1, f)
    BY <1>2
  <2> DEFINE g == [n \in 0..k |-> IF n = k THEN step[<<f[k - 1], k>>] ELSE f[n]]
  <2>2. /\ f[0] = first
        /\ \A n \in 1..(k - 1) : f[n] = step[<<f[n - 1], n>>]
    <3>1. 0 \in 0..(k - 1) /\ \A n \in 1..(k - 1) : n \in 0..(k - 1) /\ n # 0
      OBVIOUS
    <3>. QED  BY <2>1, <3>1
  <2>3. g \in [0..k -> V]
    <3>1. f[k - 1] \in V /\ <<f[k - 1], k>> \in V \X (1..N)
      BY <1>2
    <3>2. \A n \in 0..k : n # k => f[n] \in V
      BY <1>2
    <3>. QED  BY <3>1, <3>2
  <2>4. g[0] = first /\ \A n \in 1..k : g[n] = step[<<g[n - 1], n>>]
    <3>1. g[0] = first
      BY <2>2
    <3>2. ASSUME NEW n \in 1..k  PROVE g[n] = step[<<g[n - 1], n>>]
      <4>1. n \in 0..k /\ n - 1 \in 0..k /\ n - 1 # k
        OBVIOUS
      <4>2. g[n - 1] = f[n - 1]
        BY <4>1
      <4>3. n # k => n \in 1..(k - 1)
        OBVIOUS
      <4>. QED  BY <2>2, <4>1, <4>2, <4>3
    <3>. QED  BY <3>1, <3>2
  <2>5. Rec(k, g)
    <3>. HIDE DEF g
    <3>1. \A n \in 0..k : n # 0 => n \in 1..k
      OBVIOUS
    <3>. QED  BY <2>3, <2>4, <3>1
  <2>. HIDE DEF Rec, g
  <2>. QED  BY <2>3, <2>5
<1>3. 0..N \subseteq S
  <2>. HIDE DEF S
  <2>. QED  BY <1>1, <1>2, UpTo
<1>. QED  BY <1>3 DEF Recurs
=============================================================================
