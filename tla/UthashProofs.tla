---------------------------- MODULE UthashProofs ----------------------------
(***************************************************************************)
(* That a uthash table, for any number of items, any keys and any hash     *)
(* function, is an ordered table with the items of its list in its chains. *)
(* First the list, which is all a loop sees; then the chains, through each *)
(* macro that relinks them, an expansion being the moves of all items; and *)
(* last the invariant that joins the two.                                  *)
(***************************************************************************)
EXTENDS Uthash, TableLemmas, FiniteSetTheorems

\* The types of the list, and that a loop is at the first item, with the one
\* behind it in hand
ListInv ==
  /\ head \in Pointer /\ tail \in Pointer
  /\ next \in [Items -> Pointer] /\ prev \in [Items -> Pointer]
  /\ order \in Seq(Items)
  /\ ListInOrder
  /\ el # NULL => order # <<>> /\ el = order[1] /\ tmp = next[el]

\* The positions of a list of several items
LEMMA SeveralItems ==
  ASSUME NEW n \in Nat, 1 \in 1..n, n # 1
  PROVE  n >= 2 /\ 1 \in 1..(n - 1) /\ 1 + 1 \in 1..n
OBVIOUS

\* Facts every step uses: the positions of an item, and what the ends are.
LEMMA ListFacts ==
  ASSUME ListInv
  PROVE  /\ Len(order) \in Nat /\ DOMAIN order = 1..Len(order)
         /\ order = <<>> <=> Len(order) = 0
         /\ \A i \in 1..Len(order) : order[i] \in Items /\ order[i] # NULL
         /\ \A i, j \in 1..Len(order) : order[i] = order[j] => i = j
         /\ head = NULL <=> order = <<>>
         /\ \A e \in Range(order) :
              Place(e) \in 1..Len(order) /\ order[Place(e)] = e
<1>1. order \in Seq(Items) /\ IsInjective(order)
      /\ head = IF order = <<>> THEN NULL ELSE order[1]
  BY DEF ListInv, ListInOrder
<1>2. Len(order) \in Nat /\ DOMAIN order = 1..Len(order)
  BY <1>1
<1>3. order = <<>> <=> Len(order) = 0
  BY <1>1, EmptySeq
<1>4. \A i \in 1..Len(order) : order[i] \in Items /\ order[i] # NULL
  BY <1>1, ElementOfSeq, HashAssumption
<1>5. \A i, j \in 1..Len(order) : order[i] = order[j] => i = j
  BY <1>1, <1>2 DEF IsInjective
<1>6. head = NULL <=> order = <<>>
  BY <1>1, <1>2, <1>3, <1>4
<1>7. ASSUME NEW e \in Range(order)
      PROVE  Place(e) \in 1..Len(order) /\ order[Place(e)] = e
  <2>1. \E i \in DOMAIN order : order[i] = e
    BY <1>7 DEF Range
  <2>. QED  BY <2>1, <1>2 DEF Place
<1>. QED  BY <1>2, <1>3, <1>4, <1>5, <1>6, <1>7

\* Appending relinks the last item and the new one, and nothing else.
LEMMA AddKeepsList ==
  ASSUME ListInv, NEW e \in Items, NEW k \in Keys, HASH_ADD(e, k)
  PROVE  ListInv'
<1> DEFINE n == Len(order)
           new == Append(order, e)
<1>1. ListInOrder /\ order \in Seq(Items)
      /\ next \in [Items -> Pointer] /\ prev \in [Items -> Pointer]
  BY DEF ListInv
<1>2. /\ n \in Nat /\ DOMAIN order = 1..n
      /\ order = <<>> <=> n = 0
      /\ \A i \in 1..n : order[i] \in Items /\ order[i] # NULL
      /\ \A i, j \in 1..n : order[i] = order[j] => i = j
      /\ head = NULL <=> order = <<>>
  BY ListFacts
<1>3. el = NULL /\ el' = NULL /\ order' = new /\ e \notin Range(order)
  BY DEF HASH_ADD, loopVars
<1>4. \A i \in 1..n : order[i] # e
  BY <1>2, <1>3 DEF Range
<1>5. /\ new \in Seq(Items)
      /\ Len(new) = n + 1
      /\ \A i \in 1..n : new[i] = order[i]
      /\ new[n + 1] = e
      /\ IsInjective(new)
  BY <1>1, <1>3, AppendProperties, AppendNewInjective DEF ListInOrder
<1>6. new # <<>>
  BY <1>2, <1>5, EmptySeq
<1>7. e # NULL /\ e \in Pointer /\ NULL \in Pointer
  BY HashAssumption DEF Pointer
<1>. HIDE DEF new
<1>8. CASE order = <<>>
  <2>1. /\ head' = e /\ tail' = e
        /\ next' = [next EXCEPT ![e] = NULL] /\ prev' = [prev EXCEPT ![e] = NULL]
    BY <1>2, <1>8 DEF HASH_ADD
  <2>2. n = 0 /\ new[1] = e
    BY <1>2, <1>5, <1>8
  <2>3. next' \in [Items -> Pointer] /\ prev' \in [Items -> Pointer]
        /\ next'[e] = NULL /\ prev'[e] = NULL
    BY <1>1, <1>7, <2>1
  <2>4. ASSUME NEW i \in 1..Len(new)
        PROVE  /\ next'[new[i]] = IF i = Len(new) THEN NULL ELSE new[i + 1]
               /\ prev'[new[i]] = IF i = 1 THEN NULL ELSE new[i - 1]
    <3>1. i = 1 /\ i = Len(new)
      BY <1>5, <2>2
    <3>. QED  BY <2>2, <2>3, <3>1
  <2>5. ListInOrder'
    BY <1>3, <1>5, <1>6, <2>1, <2>2, <2>4 DEF ListInOrder
  <2>. QED  BY <1>3, <1>5, <1>7, <2>1, <2>3, <2>5 DEF ListInv
<1>9. CASE order # <<>>
  <2>1. /\ HASH_APPEND_LIST(e) /\ head' = head
    BY <1>2, <1>9 DEF HASH_ADD
  <2>2. /\ n >= 1 /\ n \in 1..n /\ 1 \in 1..n
        /\ tail = order[n] /\ head = order[1]
    <3>1. n >= 1
      BY <1>2, <1>9
    <3>2. tail = order[n] /\ head = order[1]
      BY <1>1, <1>9 DEF ListInOrder
    <3>. QED  BY <1>2, <3>1, <3>2
  <2>3. tail \in Items /\ tail # e /\ tail # NULL
    BY <1>2, <1>4, <2>2
  <2>4. /\ next' \in [Items -> Pointer] /\ prev' \in [Items -> Pointer]
        /\ next'[e] = NULL /\ next'[tail] = e /\ prev'[e] = tail
        /\ \A x \in Items \ {e, tail} : next'[x] = next[x]
        /\ \A x \in Items \ {e} : prev'[x] = prev[x]
        /\ tail' = e
    BY <1>1, <1>7, <2>1, <2>3 DEF HASH_APPEND_LIST, Pointer
  <2>5. ASSUME NEW i \in 1..n
        PROVE  /\ next'[order[i]] = IF i = n THEN e ELSE order[i + 1]
               /\ prev'[order[i]] = IF i = 1 THEN NULL ELSE order[i - 1]
    <3>1. /\ next[order[i]] = IF i = n THEN NULL ELSE order[i + 1]
          /\ prev[order[i]] = IF i = 1 THEN NULL ELSE order[i - 1]
      BY <1>1 DEF ListInOrder
    <3>2. order[i] \in Items /\ order[i] # e
      BY <1>2, <1>4
    <3>3. i = n <=> order[i] = tail
      BY <1>2, <2>2
    <3>. QED  BY <2>4, <3>1, <3>2, <3>3
  <2>6. ASSUME NEW i \in 1..Len(new)
        PROVE  /\ next'[new[i]] = IF i = Len(new) THEN NULL ELSE new[i + 1]
               /\ prev'[new[i]] = IF i = 1 THEN NULL ELSE new[i - 1]
    <3>1. CASE i = n + 1
      <4>1. new[i] = e /\ i # 1 /\ i - 1 = n /\ new[i - 1] = tail
        BY <1>2, <1>5, <2>2, <3>1
      <4>. QED  BY <1>5, <2>4, <3>1, <4>1
    <3>2. CASE i # n + 1
      <4>1. i \in 1..n /\ new[i] = order[i] /\ i # Len(new)
        BY <1>2, <1>5, <3>2
      <4>2. new[i + 1] = IF i = n THEN e ELSE order[i + 1]
        <5>1. i = n => new[i + 1] = e
          BY <1>5
        <5>2. i # n => i + 1 \in 1..n
          <6>1. n \in Nat /\ i \in 1..n
            BY <1>2, <4>1
          <6>. QED  BY <6>1
        <5>. QED  BY <1>5, <5>1, <5>2
      <4>3. i # 1 => new[i - 1] = order[i - 1]
        BY <1>2, <1>5, <4>1
      <4>. QED  BY <2>5, <4>1, <4>2, <4>3
    <3>. QED  BY <3>1, <3>2
  <2>7. head' = new[1] /\ tail' = new[Len(new)]
    BY <1>5, <2>1, <2>2, <2>4
  <2>8. ListInOrder'
    BY <1>3, <1>5, <1>6, <2>6, <2>7 DEF ListInOrder
  <2>9. head' \in Pointer /\ tail' \in Pointer
    BY <1>2, <1>7, <2>1, <2>2, <2>4 DEF Pointer
  <2>. QED  BY <1>3, <1>5, <2>4, <2>8, <2>9 DEF ListInv
<1>. QED  BY <1>8, <1>9

\* The items of a sequence are linked to their neighbours both ways.
Linked(s, nx, pv) ==
  \A i \in 1..Len(s) :
    /\ nx[s[i]] = IF i = Len(s) THEN NULL ELSE s[i + 1]
    /\ pv[s[i]] = IF i = 1 THEN NULL ELSE s[i - 1]

\* Linking the neighbours of an item to each other, as HASH_DELETE_HH and
\* HASH_DEL_IN_BKT do, leaves the rest linked.
LEMMA UnlinkKeepsLinks ==
  ASSUME NEW s \in Seq(Items), IsInjective(s), NEW p \in 1..Len(s), NEW e, e = s[p],
         NEW nx, NEW pv, Linked(s, nx, pv), NEW nx1, NEW pv1,
         \A x \in Items \ {e} : /\ nx1[x] = IF x = pv[e] THEN nx[e] ELSE nx[x]
                                /\ pv1[x] = IF x = nx[e] THEN pv[e] ELSE pv[x]
  PROVE  Linked(RemoveAt(s, p), nx1, pv1)
<1> DEFINE n == Len(s)
           new == RemoveAt(s, p)
<1>1. /\ n \in Nat /\ DOMAIN s = 1..n
      /\ \A i \in 1..n : s[i] \in Items /\ s[i] # NULL
      /\ \A i, j \in 1..n : s[i] = s[j] => i = j
  BY ElementOfSeq, HashAssumption DEF IsInjective
<1>2. p \in 1..n /\ s[p] = e
  OBVIOUS
<1>3. /\ Len(new) = n - 1
      /\ \A j \in 1..(n - 1) : new[j] = IF j < p THEN s[j] ELSE s[j + 1]
  BY RemoveAtElements
<1>4. \A x \in Items \ {e} : /\ nx1[x] = IF x = pv[e] THEN nx[e] ELSE nx[x]
                             /\ pv1[x] = IF x = nx[e] THEN pv[e] ELSE pv[x]
  OBVIOUS
<1>5. \A i \in 1..n :
        /\ nx[s[i]] = IF i = n THEN NULL ELSE s[i + 1]
        /\ pv[s[i]] = IF i = 1 THEN NULL ELSE s[i - 1]
  BY DEF Linked
<1>6. /\ nx[e] = IF p = n THEN NULL ELSE s[p + 1]
      /\ pv[e] = IF p = 1 THEN NULL ELSE s[p - 1]
  BY <1>2, <1>5
<1>7. /\ p # n => p + 1 \in 1..n
      /\ p # 1 => p - 1 \in 1..n
      /\ \A k \in 1..n : k = p + 1 => p # n
      /\ \A k \in 1..n : k = p - 1 => p # 1
  <2>. n \in Nat /\ p \in 1..n
    BY <1>1, <1>2
  <2>. HIDE DEF n
  <2>. QED  OBVIOUS
<1>. HIDE DEF new, n
<1>8. ASSUME NEW k \in 1..n, k # p
      PROVE  /\ nx1[s[k]] = IF k = n \/ (k = p - 1 /\ p = n) THEN NULL
                                  ELSE IF k = p - 1 THEN s[p + 1] ELSE s[k + 1]
             /\ pv1[s[k]] = IF k = 1 \/ (k = p + 1 /\ p = 1) THEN NULL
                                  ELSE IF k = p + 1 THEN s[p - 1] ELSE s[k - 1]
  <2>1. s[k] \in Items \ {e}
    BY <1>1, <1>2, <1>8
  <2>2. s[k] # NULL
    BY <1>1
  <2>3. s[k] = pv[e] <=> k = p - 1
    <3>1. CASE p = 1
      BY <1>6, <1>7, <2>2, <3>1
    <3>2. CASE p # 1
      BY <1>1, <1>6, <1>7, <3>2
    <3>. QED  BY <3>1, <3>2
  <2>4. s[k] = nx[e] <=> k = p + 1
    <3>1. CASE p = n
      BY <1>6, <1>7, <2>2, <3>1
    <3>2. CASE p # n
      BY <1>1, <1>6, <1>7, <3>2
    <3>. QED  BY <3>1, <3>2
  <2>5. /\ nx1[s[k]] = IF k = p - 1 THEN nx[e] ELSE nx[s[k]]
        /\ pv1[s[k]] = IF k = p + 1 THEN pv[e] ELSE pv[s[k]]
    BY <1>4, <2>1, <2>3, <2>4
  <2>6. nx1[s[k]] = IF k = n \/ (k = p - 1 /\ p = n) THEN NULL
                          ELSE IF k = p - 1 THEN s[p + 1] ELSE s[k + 1]
    <3>1. CASE k = p - 1
      <4>1. k # n
        BY <1>1, <1>2, <3>1
      <4>. QED  BY <1>6, <2>5, <3>1, <4>1
    <3>2. CASE k # p - 1
      BY <1>5, <2>5, <3>2
    <3>. QED  BY <3>1, <3>2
  <2>7. pv1[s[k]] = IF k = 1 \/ (k = p + 1 /\ p = 1) THEN NULL
                          ELSE IF k = p + 1 THEN s[p - 1] ELSE s[k - 1]
    <3>1. CASE k = p + 1
      <4>1. k # 1
        BY <1>1, <1>2, <3>1
      <4>. QED  BY <1>6, <2>5, <3>1, <4>1
    <3>2. CASE k # p + 1
      BY <1>5, <2>5, <3>2
    <3>. QED  BY <3>1, <3>2
  <2>. QED  BY <2>6, <2>7
<1>9. ASSUME NEW j \in 1..Len(new)
      PROVE  /\ nx1[new[j]] = IF j = Len(new) THEN NULL ELSE new[j + 1]
             /\ pv1[new[j]] = IF j = 1 THEN NULL ELSE new[j - 1]
  <2>. n \in Nat /\ p \in 1..n /\ j \in 1..(n - 1) /\ Len(new) = n - 1
    BY <1>1, <1>2, <1>3
  <2>1. j \in 1..(n - 1) /\ (j # n - 1 => j + 1 \in 1..(n - 1))
        /\ (j # 1 => j - 1 \in 1..(n - 1))
    OBVIOUS
  <2>2. CASE j < p
    <3>1. j \in 1..n /\ j # p /\ new[j] = s[j] /\ j # n
      <4>1. j \in 1..n /\ j # p /\ j # n
        BY <2>2
      <4>. QED  BY <1>3, <2>2, <4>1
    <3>2. nx1[s[j]] = IF j = p - 1 /\ p = n THEN NULL
                            ELSE IF j = p - 1 THEN s[p + 1] ELSE s[j + 1]
      BY <1>8, <3>1
    <3>3. pv1[s[j]] = IF j = 1 THEN NULL ELSE s[j - 1]
      <4>1. j # p + 1
        BY <1>2, <2>1, <2>2
      <4>. QED  BY <1>8, <3>1, <4>1
    <3>4. j = n - 1 <=> j = p - 1 /\ p = n
      BY <2>2
    <3>5. j # n - 1 => new[j + 1] = IF j = p - 1 THEN s[p + 1] ELSE s[j + 1]
      <4>1. SUFFICES ASSUME j # n - 1
                     PROVE  new[j + 1] = IF j = p - 1 THEN s[p + 1] ELSE s[j + 1]
        OBVIOUS
      <4>2. new[j + 1] = IF j + 1 < p THEN s[j + 1] ELSE s[j + 2]
        BY <1>3, <2>1, <4>1
      <4>3. j + 1 < p <=> j # p - 1
        BY <1>2, <2>1, <2>2
      <4>4. j = p - 1 => j + 2 = p + 1
        BY <1>2, <2>1
      <4>. QED  BY <4>2, <4>3, <4>4
    <3>6. j # 1 => new[j - 1] = s[j - 1]
      <4>1. j - 1 < p
        BY <1>2, <2>1, <2>2
      <4>. QED  BY <1>3, <2>1, <4>1
    <3>7. Len(new) = n - 1
      BY <1>3
    <3>. QED  BY <3>1, <3>2, <3>3, <3>4, <3>5, <3>6, <3>7
  <2>3. CASE ~(j < p)
    <3>1. j + 1 \in 1..n /\ j + 1 # p /\ new[j] = s[j + 1] /\ j + 1 # 1 /\ j + 1 # p - 1
      <4>1. j + 1 \in 1..n /\ j + 1 # p /\ j + 1 # 1 /\ j + 1 # p - 1
        BY <2>3
      <4>. QED  BY <1>3, <2>3, <4>1
    <3>2. nx1[s[j + 1]] = IF j + 1 = n THEN NULL ELSE s[(j + 1) + 1]
      BY <1>8, <3>1
    <3>3. pv1[s[j + 1]] = IF j + 1 = p + 1 /\ p = 1 THEN NULL
                                ELSE IF j + 1 = p + 1 THEN s[p - 1] ELSE s[(j + 1) - 1]
      BY <1>8, <3>1
    <3>4. j + 1 = n <=> j = Len(new)
      OBVIOUS
    <3>5. j # Len(new) => new[j + 1] = s[(j + 1) + 1]
      <4>1. ~(j + 1 < p)
        BY <1>2, <2>1, <2>3
      <4>2. j # Len(new) => j + 1 \in 1..(n - 1)
        BY <1>3, <2>1
      <4>. QED  BY <1>3, <4>1, <4>2
    <3>6. j = 1 <=> j + 1 = p + 1 /\ p = 1
      BY <1>2, <2>1, <2>3
    <3>7. j # 1 => new[j - 1] = IF j + 1 = p + 1 THEN s[p - 1] ELSE s[(j + 1) - 1]
      <4>1. SUFFICES ASSUME j # 1
                     PROVE  new[j - 1] = IF j + 1 = p + 1 THEN s[p - 1] ELSE s[(j + 1) - 1]
        OBVIOUS
      <4>2. new[j - 1] = IF j - 1 < p THEN s[j - 1] ELSE s[(j - 1) + 1]
        BY <1>3, <2>1, <4>1
      <4>3. /\ j - 1 < p <=> j = p
            /\ j + 1 = p + 1 <=> j = p
            /\ (j - 1) + 1 = (j + 1) - 1
        BY <1>2, <2>1, <2>3
      <4>. QED  BY <4>2, <4>3
    <3>. QED  BY <3>1, <3>2, <3>3, <3>4, <3>5, <3>6, <3>7
  <2>. QED  BY <2>2, <2>3
<1>. QED  BY <1>3, <1>9 DEF Linked, new, n

\* Deleting relinks the neighbours of the item, or moves head or tail.
LEMMA DeleteKeepsList ==
  ASSUME ListInv, NEW e \in Range(order), HASH_DELETE_HH(e)
  PROVE  /\ head' \in Pointer /\ tail' \in Pointer
         /\ next' \in [Items -> Pointer] /\ prev' \in [Items -> Pointer]
         /\ order' \in Seq(Items)
         /\ ListInOrder'
<1> DEFINE n == Len(order)
           new == RemoveAt(order, Place(e))
<1>1. ListInOrder /\ order \in Seq(Items) /\ IsInjective(order)
      /\ head \in Pointer /\ tail \in Pointer
      /\ next \in [Items -> Pointer] /\ prev \in [Items -> Pointer]
  BY DEF ListInv, ListInOrder
<1>2. /\ n \in Nat /\ DOMAIN order = 1..n
      /\ order = <<>> <=> n = 0
      /\ \A i \in 1..n : order[i] \in Items /\ order[i] # NULL
      /\ \A i, j \in 1..n : order[i] = order[j] => i = j
  BY ListFacts
<1>3. PICK p \in 1..n : p = Place(e) /\ order[p] = e
  BY ListFacts
<1>4. order' = new
  BY DEF HASH_DELETE_HH
<1>5. /\ new \in Seq(Items)
      /\ Len(new) = n - 1
      /\ IsInjective(new)
      /\ \A j \in 1..(n - 1) : new[j] = IF j < p THEN order[j] ELSE order[j + 1]
  BY <1>1, <1>3, RemoveAtElements, RemoveAtKeepsInjective
<1>6. new = <<>> <=> n = 1
  BY <1>2, <1>5, EmptySeq
<1>7. e \in Items /\ NULL \in Pointer /\ Items \subseteq Pointer /\ NULL \notin Items
  BY <1>2, <1>3, HashAssumption DEF Pointer
<1>8. \A i \in 1..n :
        /\ next[order[i]] = IF i = n THEN NULL ELSE order[i + 1]
        /\ prev[order[i]] = IF i = 1 THEN NULL ELSE order[i - 1]
  BY <1>1 DEF ListInOrder
<1>9. /\ next[e] = IF p = n THEN NULL ELSE order[p + 1]
      /\ prev[e] = IF p = 1 THEN NULL ELSE order[p - 1]
  BY <1>3, <1>8
<1>10. /\ p # n => p + 1 \in 1..n
       /\ p # 1 => p - 1 \in 1..n
  BY <1>2, <1>3
<1>11. (next[e] = NULL <=> p = n) /\ (prev[e] = NULL <=> p = 1)
  BY <1>2, <1>9, <1>10
<1>12. head = order[1] /\ tail = order[n]
  <2>1. n # 0
    BY <1>2, <1>3
  <2>2. order # <<>>
    BY <1>2, <2>1
  <2>. QED  BY <1>1, <2>2 DEF ListInOrder
<1>. HIDE DEF new
<1>13. CASE DeleteLast(e)
  <2>1. n = 1
    BY <1>2, <1>3, <1>11, <1>13 DEF DeleteLast
  <2>2. new = <<>> /\ Len(new) = 0
    BY <1>5, <1>6, <2>1
  <2>3. head' = NULL /\ tail' = NULL /\ next' = next /\ prev' = prev
    BY <1>13 DEF DeleteLast
  <2>4. ListInOrder'
    <3>1. 1..Len(new) = {}
      BY <2>2
    <3>. QED  BY <1>4, <1>5, <2>2, <2>3, <3>1 DEF ListInOrder
  <2>. QED  BY <1>1, <1>4, <1>5, <1>7, <2>3, <2>4
<1>14. CASE Unlink(e)
  <2>1. n # 1 /\ n >= 2 /\ new # <<>>
    <3>1. n = 1 => p = 1 /\ p = n
      BY <1>3
    <3>2. n # 1
      BY <1>11, <1>14, <3>1 DEF Unlink
    <3>3. n \in Nat /\ 1 \in 1..n
      BY <1>2, <1>3
    <3>4. n >= 2
      BY <3>2, <3>3, SeveralItems
    <3>. QED  BY <1>6, <3>2, <3>4
  <2>2. /\ tail' = IF tail = e THEN prev[e] ELSE tail
        /\ head' = IF prev[e] = NULL THEN next[e] ELSE head
        /\ next' \in [Items -> Pointer] /\ prev' \in [Items -> Pointer]
        /\ \A x \in Items \ {e} :
             /\ next'[x] = IF x = prev[e] THEN next[e] ELSE next[x]
             /\ prev'[x] = IF x = next[e] THEN prev[e] ELSE prev[x]
    BY <1>1, <1>7, <1>14 DEF Unlink
  <2>4. Linked(new, next', prev')
    <3>1. Linked(order, next, prev) /\ p \in 1..Len(order) /\ e = order[p]
      BY <1>3, <1>8 DEF Linked
    <3>2. \A x \in Items \ {e} : /\ next'[x] = IF x = prev[e] THEN next[e] ELSE next[x]
                                 /\ prev'[x] = IF x = next[e] THEN prev[e] ELSE prev[x]
      BY <2>2
    <3>3. Linked(RemoveAt(order, p), next', prev')
      BY <1>1, <3>1, <3>2, UnlinkKeepsLinks
    <3>. QED  BY <1>3, <3>3 DEF new
  <2>5. head' = new[1]
    <3>1. 1 \in 1..(n - 1) /\ new[1] = IF 1 < p THEN order[1] ELSE order[1 + 1]
      BY <1>2, <1>5, <2>1
    <3>2. CASE p = 1
      <4>1. p # n /\ next[e] = order[1 + 1]
        BY <1>9, <2>1, <3>2
      <4>. QED  BY <1>11, <2>2, <3>1, <3>2, <4>1
    <3>3. CASE p # 1
      <4>1. 1 < p
        BY <1>3, <3>3
      <4>. QED  BY <1>11, <1>12, <2>2, <3>1, <3>3, <4>1
    <3>. QED  BY <3>2, <3>3
  <2>6. tail' = new[n - 1]
    <3>1. n - 1 \in 1..(n - 1)
          /\ new[n - 1] = IF n - 1 < p THEN order[n - 1] ELSE order[(n - 1) + 1]
      BY <1>2, <1>5, <2>1
    <3>2. n - 1 < p <=> p = n
      BY <1>2, <1>3
    <3>3. tail = e <=> p = n
      BY <1>2, <1>3, <1>12
    <3>4. (n - 1) + 1 = n
      BY <1>2
    <3>5. CASE p = n
      <4>1. prev[e] = order[n - 1]
        BY <1>9, <2>1, <3>5
      <4>. QED  BY <2>2, <3>1, <3>2, <3>3, <3>5, <4>1
    <3>6. CASE p # n
      BY <1>12, <2>2, <3>1, <3>2, <3>3, <3>4, <3>6
    <3>. QED  BY <3>5, <3>6
  <2>7. ListInOrder'
    BY <1>4, <1>5, <2>1, <2>4, <2>5, <2>6 DEF ListInOrder, Linked
  <2>8. head' \in Pointer /\ tail' \in Pointer
    <3>1. next[e] \in Pointer /\ prev[e] \in Pointer
      BY <1>1, <1>7
    <3>. QED  BY <1>1, <2>2, <3>1
  <2>. QED  BY <1>4, <1>5, <2>2, <2>7, <2>8
<1>. QED  BY <1>13, <1>14 DEF HASH_DELETE_HH

\* The table is empty.
LEMMA InitList == Init => ListInv
<1>1. <<>> \in Seq(Items) /\ Len(<<>>) = 0 /\ DOMAIN <<>> = {} /\ 1..0 = {}
  OBVIOUS
<1>. QED  BY <1>1 DEF Init, NoLinks, ListInv, ListInOrder, Pointer, IsInjective

\* The list invariant survives every macro and every step of a loop.
LEMMA ListStep == ListInv /\ [Next]_vars => ListInv'
<1>. SUFFICES ASSUME ListInv, [Next]_vars  PROVE ListInv'
  OBVIOUS
<1>. /\ head \in Pointer /\ tail \in Pointer
     /\ next \in [Items -> Pointer] /\ prev \in [Items -> Pointer]
     /\ order \in Seq(Items)
     /\ ListInOrder
     /\ (el # NULL => order # <<>> /\ el = order[1] /\ tmp = next[el])
  BY DEF ListInv
<1>1. ASSUME NEW e \in Items, NEW k \in Keys, HASH_ADD(e, k)  PROVE ListInv'
  BY <1>1, AddKeepsList
<1>2. ASSUME NEW e \in Items, HASH_DEL(e)  PROVE ListInv'
  <2>1. e \in Range(order) /\ HASH_DELETE_HH(e) /\ el' = NULL
    BY <1>2 DEF HASH_DEL, loopVars
  <2>. QED  BY <2>1, DeleteKeepsList DEF ListInv
<1>3. CASE IterBegin
  <2>1. UNCHANGED listVars /\ el' = head
        /\ (head # NULL => tmp' = next[head])
    BY <1>3 DEF IterBegin
  <2>2. head # NULL => order # <<>> /\ head = order[1]
    BY ListFacts DEF ListInOrder
  <2>. QED  BY <2>1, <2>2 DEF ListInv, ListInOrder, listVars
<1>4. CASE IterDelete
  <2>1. el # NULL /\ HASH_DELETE_HH(el) /\ el' = tmp
        /\ (tmp # NULL => tmp' = next'[tmp])
    BY <1>4 DEF IterDelete
  <2>2. /\ Len(order) \in Nat /\ 1 \in 1..Len(order) /\ el = order[1]
        /\ el \in Range(order) /\ Place(el) = 1
        /\ order' = RemoveAt(order, 1)
    BY <2>1, ListFacts DEF Range, HASH_DELETE_HH
  <2>3. /\ head' \in Pointer /\ tail' \in Pointer
        /\ next' \in [Items -> Pointer] /\ prev' \in [Items -> Pointer]
        /\ order' \in Seq(Items)
        /\ ListInOrder'
    BY <2>1, <2>2, DeleteKeepsList
  <2>4. tmp # NULL => order' # <<>> /\ tmp = order'[1]
    <3>1. SUFFICES ASSUME tmp # NULL  PROVE order' # <<>> /\ tmp = order'[1]
      OBVIOUS
    <3>2. tmp = IF 1 = Len(order) THEN NULL ELSE order[1 + 1]
      BY <2>1, <2>2 DEF ListInOrder
    <3>3. 1 \in 1..(Len(order) - 1)
      <4>1. Len(order) # 1
        BY <3>1, <3>2
      <4>2. Len(order) \in Nat /\ 1 \in 1..Len(order)
        BY <2>2
      <4>. QED  BY <4>1, <4>2, SeveralItems
    <3>4. /\ Len(order') = Len(order) - 1
          /\ order'[1] = IF 1 < 1 THEN order[1] ELSE order[1 + 1]
      BY <2>2, <3>3, RemoveAtElements
    <3>5. order' # <<>>
      BY <3>3, <3>4
    <3>. QED  BY <3>1, <3>2, <3>4, <3>5
  <2>. QED  BY <2>1, <2>3, <2>4 DEF ListInv
<1>5. CASE IterBreak
  BY <1>5 DEF IterBreak, ListInv, ListInOrder, listVars
<1>6. CASE UNCHANGED vars
  BY <1>6 DEF vars, listVars, loopVars, ListInv, ListInOrder
<1>. QED  BY <1>1, <1>2, <1>3, <1>4, <1>5, <1>6 DEF Next

\* The list is linked as ListInv says in every reachable state (uthash.h:289-295,
\* 461-488).
THEOREM ListAlwaysLinked == Spec => []ListInv
BY InitList, ListStep, PTL DEF Spec

\* The links of the list agree with the order of addition, in both directions
\* (uthash.h:289-295, 472-482).
THEOREM InOrder == Spec => []ListInOrder
BY ListAlwaysLinked, PTL DEF ListInv

\* Every macro, and every step of a deleting loop, is one of the ordered table:
\* the item a loop had in hand is the first that is left (uthash.h:1153-1155).
THEOREM TableImplemented == Spec => ImplementsTable
<1>1. Init => Table!TInit
  BY DEF Init, Table!TInit
<1>2. ASSUME ListInv, ListInv', [Next]_vars
      PROVE  [Table!TNext]_(Table!tvars)
  <2>. ListInOrder /\ (el # NULL => order # <<>> /\ el = order[1] /\ tmp = next[el])
       /\ ListInOrder' /\ (el' # NULL => order' # <<>> /\ el' = order'[1])
    BY <1>2 DEF ListInv
  <2>1. ASSUME NEW e \in Items, NEW k \in Keys, HASH_ADD(e, k)
        PROVE  Table!Add(e)
    <3>1. e \notin Range(order) /\ order' = Append(order, e) /\ el = NULL /\ el' = el
      BY <2>1 DEF HASH_ADD, loopVars
    <3>. QED  BY <3>1 DEF Table!Add, Table!Range, Range
  <2>2. ASSUME NEW e \in Items, HASH_DEL(e)
        PROVE  \E i \in DOMAIN order : Table!Delete(i)
    <3>1. e \in Range(order) /\ order' = RemoveAt(order, Place(e)) /\ el = NULL /\ el' = el
      BY <2>2 DEF HASH_DEL, HASH_DELETE_HH, loopVars
    <3>2. Place(e) \in DOMAIN order
      BY <1>2, <3>1, ListFacts
    <3>. QED  BY <3>1, <3>2 DEF Table!Delete, Table!RemoveAt, RemoveAt
  <2>3. CASE IterBegin
    <3>1. el = NULL /\ el' = head /\ order' = order
      BY <2>3 DEF IterBegin, listVars
    <3>2. head = IF order = <<>> THEN NULL ELSE order[1]
      BY DEF ListInOrder
    <3>3. Table!BeginLoop
      BY <3>1, <3>2 DEF Table!BeginLoop, Table!First
    <3>. QED  BY <3>3 DEF Table!TNext
  <2>4. CASE IterDelete
    <3>1. el # NULL /\ el = order[1] /\ order # <<>>
          /\ order' = RemoveAt(order, Place(el)) /\ el' = tmp
      BY <2>4 DEF IterDelete, HASH_DELETE_HH
    <3>2. /\ Len(order) \in Nat /\ 1 \in 1..Len(order) /\ Place(el) = 1
      BY <1>2, <3>1, ListFacts DEF Range
    <3>3. el' = NULL => order' = <<>>
      <4>1. SUFFICES ASSUME tmp = NULL  PROVE order' = <<>>
        BY <3>1
      <4>2. tmp = IF 1 = Len(order) THEN NULL ELSE order[1 + 1]
        BY <3>1, <3>2 DEF ListInOrder
      <4>3. 1 # Len(order) => 1 + 1 \in 1..Len(order)
        <5>1. Len(order) \in Nat /\ 1 \in 1..Len(order)
          BY <3>2
        <5>. QED  BY <5>1, SeveralItems
      <4>4. \A i \in 1..Len(order) : order[i] # NULL
        BY <1>2, ListFacts
      <4>5. Len(order) = 1
        BY <4>1, <4>2, <4>3, <4>4
      <4>6. order \in Seq(Items)
        BY <1>2 DEF ListInv
      <4>7. order' \in Seq(Items) /\ Len(order') = 0
        BY <3>1, <3>2, <4>5, <4>6, RemoveAtElements
      <4>. QED  BY <4>7, EmptySeq
    <3>4. el' = IF order' = <<>> THEN NULL ELSE order'[1]
      <4>1. head' = IF order' = <<>> THEN NULL ELSE order'[1]
        BY DEF ListInOrder
      <4>2. head' = NULL <=> order' = <<>>
        <5>1. order' \in Seq(Items)
          BY <1>2 DEF ListInv
        <5>2. order' # <<>> => order'[1] \in Items
          BY <5>1, EmptySeq, ElementOfSeq
        <5>. QED  BY <4>1, <5>2, HashAssumption
      <4>. QED  BY <3>3, <4>1, <4>2
    <3>5. order' = RemoveAt(order, 1)
      BY <3>1, <3>2
    <3>6. Table!DeleteAndNext
      BY <3>1, <3>4, <3>5 DEF Table!DeleteAndNext, Table!First, Table!RemoveAt, RemoveAt
    <3>. QED  BY <3>6 DEF Table!TNext
  <2>5. CASE IterBreak
    <3>1. Table!Break
      BY <2>5 DEF IterBreak, Table!Break, listVars
    <3>. QED  BY <3>1 DEF Table!TNext
  <2>6. CASE UNCHANGED vars
    BY <2>6 DEF vars, listVars, loopVars, Table!tvars
  <2>. QED  BY <1>2, <2>1, <2>2, <2>3, <2>4, <2>5, <2>6 DEF Next, Table!TNext
<1>. QED  BY <1>1, <1>2, ListAlwaysLinked, PTL DEF Spec, ImplementsTable, Table!TSpec

-----------------------------------------------------------------------------
(* The chains *)

-----------------------------------------------------------------------------
(* The chains *)

\* c is the chain of bucket b, linked both ways and counted.
IsChain(t, b, c) ==
  /\ c \in Seq(Items)
  /\ IsInjective(c)
  /\ t.buckets[b].hh_head = IF Len(c) = 0 THEN NULL ELSE c[1]
  /\ t.buckets[b].count = Len(c)
  /\ Linked(c, t.hh_next, t.hh_prev)

\* The positions of a chain
LEMMA IntervalSize ==
  ASSUME NEW n \in Nat  PROVE Cardinality(1..n) = n
BY FS_Interval

\* A chain has no more items than there are.
LEMMA InjectiveIsShort ==
  ASSUME NEW c \in Seq(Items), IsInjective(c)
  PROVE  Len(c) <= Cardinality(Items)
<1>1. Len(c) \in Nat /\ DOMAIN c = 1..Len(c) /\ c \in [1..Len(c) -> Items]
  BY LenProperties
<1>2. c \in Injection(1..Len(c), Items)
  BY <1>1 DEF IsInjective, Injection
<1>4. IsFiniteSet(Items)
  BY HashAssumption
<1>5. Cardinality(1..Len(c)) <= Cardinality(Items)
  BY <1>2, <1>4, FS_Injection
<1>6. Cardinality(1..Len(c)) = Len(c)
  BY <1>1, FS_Interval
<1>. QED  BY <1>5, <1>6

\* Following hh_next from the head of a bucket finds its chain.
LEMMA ChainIs ==
  ASSUME NEW t, NEW b, NEW c, IsChain(t, b, c)
  PROVE  Chain(t, b) = c
<1> DEFINE N == Cardinality(Items)
           behind(e) == IF e = NULL THEN NULL ELSE t.hh_next[e]
           Rec(f) == f = [n \in 1..N |-> IF n = 1 THEN t.buckets[b].hh_head ELSE behind(f[n - 1])]
           at == CHOOSE f : Rec(f)
           w == [n \in 1..N |-> IF n <= Len(c) THEN c[n] ELSE NULL]
<1>1. /\ c \in Seq(Items) /\ Len(c) \in Nat /\ Len(c) <= N /\ N \in Nat
      /\ \A i \in 1..Len(c) : c[i] \in Items /\ c[i] # NULL
  BY InjectiveIsShort, HashAssumption, FS_CardinalityType, ElementOfSeq DEF IsChain
<1>2. /\ t.buckets[b].hh_head = IF Len(c) = 0 THEN NULL ELSE c[1]
      /\ \A i \in 1..Len(c) : t.hh_next[c[i]] = IF i = Len(c) THEN NULL ELSE c[i + 1]
  BY DEF IsChain, Linked
<1>. HIDE DEF N
<1>3. Rec(w)
  <2>1. ASSUME NEW n \in 1..N
        PROVE  w[n] = IF n = 1 THEN t.buckets[b].hh_head ELSE behind(w[n - 1])
    <3>1. CASE n = 1
      BY <1>1, <1>2, <3>1
    <3>2. CASE n # 1
      <4>1. n - 1 \in 1..N
        BY <1>1, <3>2
      <4>2. CASE n <= Len(c)
        <5>1. n - 1 \in 1..Len(c) /\ n - 1 <= Len(c) /\ n - 1 # Len(c) /\ (n - 1) + 1 = n
          BY <1>1, <3>2, <4>2
        <5>. QED  BY <1>1, <1>2, <3>2, <4>1, <4>2, <5>1
      <4>3. CASE n - 1 = Len(c)
        <5>1. n - 1 \in 1..Len(c) /\ ~(n <= Len(c)) /\ n - 1 <= Len(c)
          BY <1>1, <3>2, <4>3
        <5>. QED  BY <1>1, <1>2, <3>2, <4>1, <4>3, <5>1
      <4>4. CASE n - 1 > Len(c)
        <5>1. ~(n <= Len(c)) /\ ~(n - 1 <= Len(c))
          BY <1>1, <4>4
        <5>. QED  BY <3>2, <4>1, <5>1
      <4>. QED  BY <1>1, <4>2, <4>3, <4>4
    <3>. QED  BY <3>1, <3>2
  <2>. QED  BY <2>1
<1>4. Rec(at)
  <2>. HIDE DEF Rec, w
  <2>. QED  BY <1>3
<1>5. ASSUME NEW n \in 1..N  PROVE at[n] = w[n]
  <2> DEFINE S == {k \in 0..N : k = 0 \/ at[k] = w[k]}
  <2>1. \A k \in 1..N : /\ at[k] = IF k = 1 THEN t.buckets[b].hh_head ELSE behind(at[k - 1])
                        /\ w[k] = IF k = 1 THEN t.buckets[b].hh_head ELSE behind(w[k - 1])
    <3>. HIDE DEF at, w
    <3>. QED  BY <1>3, <1>4
  <2>. HIDE DEF at, w, Rec, behind
  <2>2. \A k \in 1..N : k - 1 \in S => k \in S
    BY <1>1, <2>1
  <2>3. 0 \in S
    BY <1>1
  <2>4. 0..N \subseteq S
    <3>. HIDE DEF S
    <3>. QED  BY <1>1, <2>2, <2>3, UpTo
  <2>. QED  BY <1>1, <2>4
<1>6. DOMAIN at = 1..N
  <2>. HIDE DEF at
  <2>. QED  BY <1>4
<1>7. {m \in DOMAIN at : at[m] # NULL} = 1..Len(c)
  <2>. HIDE DEF at
  <2>1. \A m \in 1..N : at[m] # NULL <=> m <= Len(c)
    BY <1>1, <1>5
  <2>. QED  BY <1>1, <1>6, <2>1
<1>8. Cardinality({m \in DOMAIN at : at[m] # NULL}) = Len(c)
  <2>. HIDE DEF at
  <2>2. Cardinality(1..Len(c)) = Len(c)
    BY <1>1, IntervalSize
  <2>. QED  BY <1>7, <2>2
<1>9. [n \in 1..Len(c) |-> at[n]] = c
  <2>. HIDE DEF at
  <2>1. \A n \in 1..Len(c) : at[n] = c[n]
    BY <1>1, <1>5
  <2>. QED  BY <1>1, <2>1
<1>. QED  BY <1>8, <1>9 DEF Chain, N

\* Those of the items M whose key belongs in bucket b of n
Belong(t, n, M, b) == {e \in M : Hash[t.key[e]] % n = b}

\* A table of n buckets that holds the items M, each in the bucket of its key
Holds(t, n, M) ==
  /\ t \in Tables(n)
  /\ \A e \in M : t.key[e] \in Keys
  /\ \A b \in 0..(n - 1) : \E c : IsChain(t, b, c) /\ Range(c) = Belong(t, n, M, b)

\* The number of buckets of a table
LEMMA NumBucketsIs ==
  ASSUME NEW n \in Nat, NEW t, DOMAIN t.buckets = 0..(n - 1)
  PROVE  NumBuckets(t) = n
<1>1. Cardinality(0..(n - 1)) = n
  BY FS_Interval
<1>. QED  BY <1>1 DEF NumBuckets

\* What PutFirst changes: one bucket, the links of the item, and the link back of
\* the one that was the first.
FirstPut(r, t, n, b, e) ==
  /\ r \in Tables(n)
  /\ r.buckets[b].hh_head = e
  /\ r.buckets[b].count = t.buckets[b].count + 1
  /\ r.buckets[b].expand_mult = t.buckets[b].expand_mult
  /\ \A x \in 0..(n - 1) : x # b => r.buckets[x] = t.buckets[x]
  /\ r.hh_next[e] = t.buckets[b].hh_head /\ r.hh_prev[e] = NULL
  /\ \A x \in Items \ {e} :
       /\ r.hh_next[x] = t.hh_next[x]
       /\ r.hh_prev[x] = IF x = t.buckets[b].hh_head THEN e ELSE t.hh_prev[x]
  /\ r.key = t.key
  /\ r.num_items = t.num_items
  /\ r.ideal_chain_maxlen = t.ideal_chain_maxlen
  /\ r.nonideal_items = t.nonideal_items
  /\ r.ineff_expands = t.ineff_expands
  /\ r.noexpand = t.noexpand

\* PutFirst changes that and nothing else.
LEMMA PutFirstFields ==
  ASSUME NEW n \in Nat, NEW t \in Tables(n), NEW b \in 0..(n - 1), NEW e \in Items
  PROVE  FirstPut(PutFirst(t, b, e), t, n, b, e)
<1> DEFINE old == t.buckets[b].hh_head
           bucket == [hh_head |-> e, count |-> t.buckets[b].count + 1,
                      expand_mult |-> t.buckets[b].expand_mult]
           buckets == [t.buckets EXCEPT ![b] = bucket]
           hh_next == [t.hh_next EXCEPT ![e] = old]
           hh_prev == [x \in Items |-> IF x = e THEN NULL
                                       ELSE IF x = old THEN e ELSE t.hh_prev[x]]
           q == [buckets |-> buckets, hh_next |-> hh_next, hh_prev |-> hh_prev,
                 key |-> t.key, num_items |-> t.num_items,
                 ideal_chain_maxlen |-> t.ideal_chain_maxlen,
                 nonideal_items |-> t.nonideal_items,
                 ineff_expands |-> t.ineff_expands, noexpand |-> t.noexpand]
<1>1. /\ t.buckets \in [0..(n - 1) -> Bucket]
      /\ t.hh_next \in [Items -> Pointer] /\ t.hh_prev \in [Items -> Pointer]
      /\ t.key \in [Items -> Keys \cup {NULL}] /\ t.num_items \in Nat
      /\ t.ideal_chain_maxlen \in Nat /\ t.nonideal_items \in Nat
      /\ t.ineff_expands \in 0..2 /\ t.noexpand \in BOOLEAN
  BY DEF Tables
<1>2. /\ t.buckets[b] \in Bucket /\ old \in Pointer
      /\ t.buckets[b].count \in Nat /\ t.buckets[b].expand_mult \in Nat
  BY <1>1 DEF Bucket
<1>3. bucket \in Bucket /\ NULL \in Pointer /\ e \in Pointer
  BY <1>2 DEF Bucket, Pointer
<1>4. /\ buckets \in [0..(n - 1) -> Bucket]
      /\ hh_next \in [Items -> Pointer] /\ hh_prev \in [Items -> Pointer]
  <2>. HIDE DEF bucket, old
  <2>. QED  BY <1>1, <1>2, <1>3
<1>5. PutFirst(t, b, e) = q
  <2>2. PutFirst(t, b, e) = [t EXCEPT !.buckets = buckets, !.hh_next = hh_next, !.hh_prev = hh_prev]
    BY DEF PutFirst
  <2>3. t = [buckets |-> t.buckets, hh_next |-> t.hh_next, hh_prev |-> t.hh_prev,
                 key |-> t.key, num_items |-> t.num_items,
                 ideal_chain_maxlen |-> t.ideal_chain_maxlen,
                 nonideal_items |-> t.nonideal_items,
                 ineff_expands |-> t.ineff_expands, noexpand |-> t.noexpand]
    BY DEF Tables
  <2>. HIDE DEF buckets, hh_next, hh_prev
  <2>. QED  BY <2>2, <2>3
<1>6. q \in Tables(n)
  <2>. HIDE DEF buckets, hh_next, hh_prev
  <2>. QED  BY <1>1, <1>4 DEF Tables
<1>7. buckets[b] = bucket /\ \A x \in 0..(n - 1) : x # b => buckets[x] = t.buckets[x]
  BY <1>1
<1>8. /\ hh_next[e] = old /\ hh_prev[e] = NULL
      /\ \A x \in Items \ {e} : /\ hh_next[x] = t.hh_next[x]
                                /\ hh_prev[x] = IF x = old THEN e ELSE t.hh_prev[x]
  <2>. HIDE DEF old
  <2>1. hh_next[e] = old /\ \A x \in Items \ {e} : hh_next[x] = t.hh_next[x]
    BY <1>1
  <2>2. hh_prev[e] = NULL
    OBVIOUS
  <2>3. \A x \in Items \ {e} : hh_prev[x] = IF x = old THEN e ELSE t.hh_prev[x]
    OBVIOUS
  <2>. QED  BY <2>1, <2>2, <2>3
<1>. HIDE DEF buckets, hh_next, hh_prev
<1>. QED  BY <1>5, <1>6, <1>7, <1>8 DEF FirstPut

\* A chain that begins with first, if it has an item
BeginsWith(s, first) == (Len(s) = 0 => first = NULL) /\ (Len(s) # 0 => first = s[1])

\* e was linked to first, and that back to it.
LinkedFirst(e, first, nx, pv, nx1, pv1) ==
  /\ nx1[e] = first /\ pv1[e] = NULL
  /\ \A x \in Items \ {e} : /\ nx1[x] = nx[x]
                            /\ pv1[x] = IF x = first THEN e ELSE pv[x]

\* HASH_ADD_TO_BKT links an item to the first of a chain, and that back to it.
LEMMA PrependKeepsLinks ==
  ASSUME NEW s \in Seq(Items), IsInjective(s), NEW e \in Items, e \notin Range(s),
         NEW first, BeginsWith(s, first),
         NEW nx, NEW pv, Linked(s, nx, pv),
         NEW nx1, NEW pv1, LinkedFirst(e, first, nx, pv, nx1, pv1),
         NEW c, Prepended(c, e, s)
  PROVE  Linked(c, nx1, pv1)
<1>0. /\ Len(c) = Len(s) + 1 /\ c[1] = e /\ \A i \in 1..Len(s) : c[i + 1] = s[i]
      /\ (Len(s) = 0 => first = NULL) /\ (Len(s) # 0 => first = s[1])
      /\ nx1[e] = first /\ pv1[e] = NULL
      /\ \A x \in Items \ {e} : /\ nx1[x] = nx[x]
                                /\ pv1[x] = IF x = first THEN e ELSE pv[x]
  BY DEF Prepended, BeginsWith, LinkedFirst
<1>. USE <1>0
<1>1. Len(s) \in Nat /\ DOMAIN s = 1..Len(s)
  BY LenProperties
<1>2. \A i \in 1..Len(s) : s[i] \in Items \ {e}
  <2>1. \A i \in 1..Len(s) : s[i] \in Range(s)
    BY <1>1 DEF Range
  <2>. QED  BY <2>1, ElementOfSeq
<1>3. \A i, j \in 1..Len(s) : s[i] = s[j] => i = j
  BY <1>1 DEF IsInjective
<1>4. \A i \in 1..Len(s) :
        /\ nx[s[i]] = IF i = Len(s) THEN NULL ELSE s[i + 1]
        /\ pv[s[i]] = IF i = 1 THEN NULL ELSE s[i - 1]
  BY DEF Linked
<1>5. ASSUME NEW i \in 1..Len(c)
      PROVE  /\ nx1[c[i]] = IF i = Len(c) THEN NULL ELSE c[i + 1]
             /\ pv1[c[i]] = IF i = 1 THEN NULL ELSE c[i - 1]
  <2>1. CASE i = 1
    <3>1. Len(s) # 0 => 1 \in 1..Len(s) /\ 1 # Len(c)
      BY <1>1
    <3>2. Len(s) # 0 => c[1 + 1] = s[1]
      BY <3>1
    <3>3. CASE Len(s) = 0
      BY <2>1, <3>3
    <3>4. CASE Len(s) # 0
      BY <2>1, <3>1, <3>2, <3>4
    <3>. QED  BY <3>3, <3>4
  <2>2. CASE i # 1
    <3>1. PICK j \in 1..Len(s) : i = j + 1
      <4>1. i - 1 \in 1..Len(s) /\ i = (i - 1) + 1
        BY <1>1, <2>2
      <4>. QED  BY <4>1
    <3>2. /\ i = Len(c) <=> j = Len(s)
          /\ j # Len(s) => j + 1 \in 1..Len(s)
      <4>1. i = Len(c) <=> j = Len(s)
        BY <1>1, <3>1
      <4>2. j # Len(s) => j + 1 \in 1..Len(s)
        <5>1. \A m \in Nat : \A k \in 1..m : k # m => k + 1 \in 1..m
          OBVIOUS
        <5>. QED  BY <1>1, <5>1
      <4>. QED  BY <4>1, <4>2
    <3>3. /\ j # 1 => j - 1 \in 1..Len(s) /\ (j - 1) + 1 = j
          /\ i - 1 = j
          /\ Len(s) # 0 /\ 1 \in 1..Len(s)
      BY <1>1, <3>1
    <3>4. c[i] = s[j] /\ s[j] \in Items \ {e}
      BY <1>2, <3>1
    <3>5. nx1[s[j]] = IF j = Len(s) THEN NULL ELSE s[j + 1]
      BY <1>4, <3>4
    <3>6. s[j] = first <=> j = 1
      BY <1>3, <3>3
    <3>7. pv1[s[j]] = IF j = 1 THEN e ELSE s[j - 1]
      BY <1>4, <3>4, <3>6
    <3>8. j # Len(s) => c[i + 1] = s[j + 1]
      BY <3>1, <3>2
    <3>9. c[j] = IF j = 1 THEN e ELSE s[j - 1]
      BY <3>3
    <3>. QED  BY <2>2, <3>2, <3>3, <3>4, <3>5, <3>7, <3>8, <3>9
  <2>. QED  BY <2>1, <2>2
<1>. QED  BY <1>5 DEF Linked

\* Where the links of its items did not change, a sequence is still linked.
LEMMA LinksElsewhere ==
  ASSUME NEW s \in Seq(Items), NEW nx, NEW pv, Linked(s, nx, pv), NEW nx1, NEW pv1,
         \A x \in Range(s) : nx1[x] = nx[x] /\ pv1[x] = pv[x]
  PROVE  Linked(s, nx1, pv1)
<1>1. \A i \in 1..Len(s) : s[i] \in Range(s)
  BY LenProperties DEF Range
<1>. QED  BY <1>1 DEF Linked

\* What a chain links: its first item is the head, and its items are items.
LEMMA ChainFacts ==
  ASSUME NEW t, NEW b, NEW c, IsChain(t, b, c)
  PROVE  /\ c \in Seq(Items) /\ IsInjective(c) /\ Len(c) \in Nat /\ DOMAIN c = 1..Len(c)
         /\ Len(c) = 0 => t.buckets[b].hh_head = NULL
         /\ Len(c) # 0 => t.buckets[b].hh_head = c[1] /\ c[1] \in Range(c)
         /\ t.buckets[b].count = Len(c)
         /\ Linked(c, t.hh_next, t.hh_prev)
         /\ Range(c) \subseteq Items
<1>1. c \in Seq(Items) /\ Len(c) \in Nat /\ DOMAIN c = 1..Len(c)
  BY LenProperties DEF IsChain
<1>2. Len(c) # 0 => c[1] \in Range(c)
  <2>1. Len(c) # 0 => 1 \in DOMAIN c
    BY <1>1
  <2>. QED  BY <2>1 DEF Range
<1>3. Range(c) \subseteq Items
  BY <1>1, ElementOfSeq DEF Range
<1>. QED  BY <1>1, <1>2, <1>3 DEF IsChain

\* The chain of a bucket after PutFirst is the item followed by the chain before.
LEMMA FirstPutChain ==
  ASSUME NEW n, NEW t, NEW r, NEW b, NEW e \in Items, FirstPut(r, t, n, b, e),
         NEW d, IsChain(t, b, d), e \notin Range(d)
  PROVE  \E c : IsChain(r, b, c) /\ Range(c) = Range(d) \cup {e}
<1> DEFINE old == t.buckets[b].hh_head
<1>1. LinkedFirst(e, old, t.hh_next, t.hh_prev, r.hh_next, r.hh_prev)
  BY DEF FirstPut, LinkedFirst
<1>2. /\ d \in Seq(Items) /\ IsInjective(d) /\ Len(d) \in Nat
      /\ BeginsWith(d, old)
      /\ Linked(d, t.hh_next, t.hh_prev)
  BY ChainFacts DEF BeginsWith
<1>3. r.buckets[b].hh_head = e /\ r.buckets[b].count = Len(d) + 1
  BY ChainFacts DEF FirstPut
<1>. HIDE DEF old
<1>4. PICK c \in Seq(Items) :
        Prepended(c, e, d) /\ IsInjective(c) /\ Range(c) = Range(d) \cup {e}
  BY <1>2, PrependElements
<1>5. Linked(c, r.hh_next, r.hh_prev)
  BY <1>1, <1>2, <1>4, PrependKeepsLinks
<1>6. Len(c) # 0 /\ Len(c) = Len(d) + 1 /\ c[1] = e
  BY <1>2, <1>4 DEF Prepended
<1>. QED  BY <1>3, <1>4, <1>5, <1>6 DEF IsChain

\* An item in a bucket of its own is the first of its chain and, where there is
\* one, the other end of the link back of the second.
LEMMA PutFirstHolds ==
  ASSUME NEW n \in Nat, n > 0, NEW t, NEW M \in SUBSET Items, Holds(t, n, M),
         NEW e \in Items \ M, t.key[e] \in Keys, NEW b, b = Hash[t.key[e]] % n,
         NEW r, r = PutFirst(t, b, e)
  PROVE  Holds(r, n, M \cup {e})
<1> DEFINE old == t.buckets[b].hh_head
<1>1. b \in 0..(n - 1)
  <2>1. Hash[t.key[e]] \in Nat
    BY HashAssumption
  <2>. QED  BY <2>1
<1>2. t \in Tables(n) /\ \A y \in M : t.key[y] \in Keys
  BY DEF Holds
<1>13. FirstPut(r, t, n, b, e)
  BY <1>1, <1>2, PutFirstFields
<1>3. /\ r \in Tables(n) /\ r.key = t.key
      /\ \A x \in 0..(n - 1) : x # b => r.buckets[x] = t.buckets[x]
  BY <1>13 DEF FirstPut
<1>4. r.buckets[b].hh_head = e /\ r.buckets[b].count = t.buckets[b].count + 1
  BY <1>13 DEF FirstPut
<1>5. /\ r.hh_next[e] = old /\ r.hh_prev[e] = NULL
      /\ \A x \in Items \ {e} : /\ r.hh_next[x] = t.hh_next[x]
                                /\ r.hh_prev[x] = IF x = old THEN e ELSE t.hh_prev[x]
  BY <1>13 DEF FirstPut
<1>6. PICK d : IsChain(t, b, d) /\ Range(d) = Belong(t, n, M, b)
  BY <1>1 DEF Holds
<1>7. /\ d \in Seq(Items) /\ IsInjective(d) /\ Len(d) \in Nat
      /\ Len(d) = 0 => old = NULL
      /\ Len(d) # 0 => old = d[1] /\ d[1] \in Range(d)
      /\ t.buckets[b].count = Len(d)
      /\ Linked(d, t.hh_next, t.hh_prev)
  BY <1>6, ChainFacts
<1>8. e \notin Range(d)
  BY <1>6 DEF Belong
<1>. HIDE DEF old
<1>9. \E c : IsChain(r, b, c) /\ Range(c) = Belong(t, n, M, b) \cup {e}
  BY <1>13, <1>6, <1>8, FirstPutChain
<1>10. ASSUME NEW x \in 0..(n - 1), x # b
       PROVE  \E c : IsChain(r, x, c) /\ Range(c) = Belong(t, n, M, x)
  <2>1. PICK c : IsChain(t, x, c) /\ Range(c) = Belong(t, n, M, x)
    BY DEF Holds
  <2>2. c \in Seq(Items) /\ Linked(c, t.hh_next, t.hh_prev)
    BY <2>1 DEF IsChain
  <2>3. old \notin Belong(t, n, M, x)
    <3>1. old = NULL \/ old \in Belong(t, n, M, b)
      BY <1>6, <1>7
    <3>2. NULL \notin M
      BY HashAssumption
    <3>. QED  BY <1>10, <3>1, <3>2 DEF Belong
  <2>4. \A y \in Range(c) : r.hh_next[y] = t.hh_next[y] /\ r.hh_prev[y] = t.hh_prev[y]
    <3>1. \A y \in Range(c) : y \in Items \ {e} /\ y # old
      BY <2>1, <2>3 DEF Belong
    <3>. QED  BY <1>5, <3>1
  <2>5. Linked(c, r.hh_next, r.hh_prev)
    BY <2>2, <2>4, LinksElsewhere
  <2>6. r.buckets[x] = t.buckets[x]
    BY <1>3, <1>10
  <2>7. IsChain(r, x, c)
    BY <2>1, <2>5, <2>6 DEF IsChain
  <2>. QED  BY <2>1, <2>7
<1>11. ASSUME NEW x \in 0..(n - 1)
       PROVE  \E c : IsChain(r, x, c) /\ Range(c) = Belong(r, n, M \cup {e}, x)
  <2>1. x = b => Belong(r, n, M \cup {e}, x) = Belong(t, n, M, b) \cup {e}
    BY <1>3 DEF Belong
  <2>2. x # b => Belong(r, n, M \cup {e}, x) = Belong(t, n, M, x)
    BY <1>3 DEF Belong
  <2>. QED  BY <1>9, <1>10, <2>1, <2>2
<1>12. \A y \in M \cup {e} : r.key[y] \in Keys
  BY <1>2, <1>3
<1>. QED  BY <1>3, <1>11, <1>12 DEF Holds

\* Two tables have the same chains, whatever else is in them.
SameChains(s, t, n) ==
  /\ s.hh_next = t.hh_next /\ s.hh_prev = t.hh_prev
  /\ \A b \in 0..(n - 1) : /\ s.buckets[b].hh_head = t.buckets[b].hh_head
                           /\ s.buckets[b].count = t.buckets[b].count

\* Such tables hold the same items, if those have the same keys.
LEMMA SameChainsHold ==
  ASSUME NEW n, NEW s, NEW t, NEW M, Holds(t, n, M), s \in Tables(n), SameChains(s, t, n),
         \A e \in M : s.key[e] = t.key[e]
  PROVE  Holds(s, n, M)
<1>1. ASSUME NEW b \in 0..(n - 1)
      PROVE  \E c : IsChain(s, b, c) /\ Range(c) = Belong(s, n, M, b)
  <2>1. PICK c : IsChain(t, b, c) /\ Range(c) = Belong(t, n, M, b)
    BY DEF Holds
  <2>2. IsChain(s, b, c)
    BY <2>1 DEF IsChain, SameChains
  <2>3. Belong(s, n, M, b) = Belong(t, n, M, b)
    BY DEF Belong
  <2>. QED  BY <2>1, <2>2, <2>3
<1>2. \A e \in M : s.key[e] \in Keys
  BY DEF Holds
<1>. QED  BY <1>1, <1>2 DEF Holds

\* What moving an item leaves as it is
SameItems(s, t) ==
  /\ s.key = t.key
  /\ s.num_items = t.num_items
  /\ s.ideal_chain_maxlen = t.ideal_chain_maxlen
  /\ s.ineff_expands = t.ineff_expands
  /\ s.noexpand = t.noexpand

\* No chain is longer than its bucket came to expect while items were moved.
Even(t, n) ==
  \A b \in 0..(n - 1) :
    t.buckets[b].count <= (t.buckets[b].expand_mult + 1) * t.ideal_chain_maxlen

\* Move is PutFirst, but for the count of items in long chains and the multiplier
\* of the bucket.
MovedLike(m, r, n, b) ==
  /\ m \in Tables(n)
  /\ SameChains(m, r, n)
  /\ SameItems(m, r)
  /\ \A x \in 0..(n - 1) : x # b => m.buckets[x] = r.buckets[x]
  /\ m.buckets[b].expand_mult
       = IF /\ r.buckets[b].count > r.ideal_chain_maxlen
            /\ r.buckets[b].count > r.buckets[b].expand_mult * r.ideal_chain_maxlen
         THEN r.buckets[b].expand_mult + 1 ELSE r.buckets[b].expand_mult

\* A longer chain raises the multiplier of its bucket, and nothing else of it.
RaisedTo(q, r, n, b, v) ==
  /\ q \in Tables(n) /\ SameChains(q, r, n) /\ SameItems(q, r)
  /\ \A x \in 0..(n - 1) : x # b => q.buckets[x] = r.buckets[x]
  /\ q.buckets[b].expand_mult = v

\* The update of Move where a chain gets longer than ideal
LEMMA RaisedFields ==
  ASSUME NEW n \in Nat, NEW r \in Tables(n), NEW b \in 0..(n - 1), NEW v \in Nat
  PROVE  RaisedTo([r EXCEPT !.nonideal_items = r.nonideal_items + 1,
                            !.buckets[b].expand_mult = v], r, n, b, v)
<1> DEFINE bucket == [r.buckets[b] EXCEPT !.expand_mult = v]
           buckets == [r.buckets EXCEPT ![b] = bucket]
           p == [buckets |-> buckets, hh_next |-> r.hh_next, hh_prev |-> r.hh_prev,
                 key |-> r.key, num_items |-> r.num_items,
                 ideal_chain_maxlen |-> r.ideal_chain_maxlen,
                 nonideal_items |-> r.nonideal_items + 1,
                 ineff_expands |-> r.ineff_expands, noexpand |-> r.noexpand]
<1>1. /\ r.buckets \in [0..(n - 1) -> Bucket]
      /\ r.hh_next \in [Items -> Pointer] /\ r.hh_prev \in [Items -> Pointer]
      /\ r.key \in [Items -> Keys \cup {NULL}] /\ r.num_items \in Nat
      /\ r.ideal_chain_maxlen \in Nat /\ r.nonideal_items \in Nat
      /\ r.ineff_expands \in 0..2 /\ r.noexpand \in BOOLEAN
  BY DEF Tables
<1>2. r.buckets[b] \in Bucket
  BY <1>1
<1>3. /\ bucket \in Bucket /\ bucket.expand_mult = v
      /\ bucket.hh_head = r.buckets[b].hh_head
      /\ bucket.count = r.buckets[b].count
  BY <1>2 DEF Bucket
<1>4. /\ buckets \in [0..(n - 1) -> Bucket] /\ buckets[b] = bucket
      /\ \A x \in 0..(n - 1) : x # b => buckets[x] = r.buckets[x]
  <2>. HIDE DEF bucket
  <2>. QED  BY <1>1, <1>3
<1> DEFINE q == [r EXCEPT !.nonideal_items = r.nonideal_items + 1,
                         !.buckets[b].expand_mult = v]
<1>5. q = p
  <2>1. q = [r EXCEPT !.nonideal_items = r.nonideal_items + 1, !.buckets = buckets]
    OBVIOUS
  <2>2. r = [buckets |-> r.buckets, hh_next |-> r.hh_next, hh_prev |-> r.hh_prev,
             key |-> r.key, num_items |-> r.num_items,
             ideal_chain_maxlen |-> r.ideal_chain_maxlen,
             nonideal_items |-> r.nonideal_items,
             ineff_expands |-> r.ineff_expands, noexpand |-> r.noexpand]
    BY DEF Tables
  <2>. HIDE DEF buckets, q
  <2>. QED  BY <2>1, <2>2
<1>. HIDE DEF buckets, bucket, q
<1>6. p \in Tables(n)
  BY <1>1, <1>4 DEF Tables
<1>7. SameChains(p, r, n) /\ SameItems(p, r)
  BY <1>3, <1>4 DEF SameChains, SameItems
<1>8. /\ \A x \in 0..(n - 1) : x # b => p.buckets[x] = r.buckets[x]
      /\ p.buckets[b].expand_mult = v
  BY <1>3, <1>4
<1>9. RaisedTo(q, r, n, b, v)
  BY <1>5, <1>6, <1>7, <1>8 DEF RaisedTo
<1>. QED  BY <1>9 DEF q

\* What Move does, in terms of PutFirst
LEMMA MoveFields ==
  ASSUME NEW n \in Nat, n > 0, NEW t \in Tables(n), NEW e \in Items, t.key[e] \in Keys,
         NEW b, b = Hash[t.key[e]] % n
  PROVE  /\ b \in 0..(n - 1)
         /\ FirstPut(PutFirst(t, b, e), t, n, b, e)
         /\ MovedLike(Move(t, e), PutFirst(t, b, e), n, b)
<1> DEFINE r == PutFirst(t, b, e)
           m == Move(t, e)
           count == r.buckets[b].count
           ideal == r.ideal_chain_maxlen
           mult == r.buckets[b].expand_mult
           raised(v) == [r EXCEPT !.nonideal_items = r.nonideal_items + 1,
                                  !.buckets[b].expand_mult = v]
<1>1. NumBuckets(t) = n
  BY NumBucketsIs DEF Tables
<1>2. b \in 0..(n - 1)
  <2>1. Hash[t.key[e]] \in Nat
    BY HashAssumption
  <2>. QED  BY <2>1
<1>3. FirstPut(r, t, n, b, e)
  BY <1>2, PutFirstFields
<1>4. r \in Tables(n)
  BY <1>3 DEF FirstPut
<1>5. mult \in Nat /\ count \in Nat /\ ideal \in Nat
  <2>1. r.buckets[b] \in Bucket
    BY <1>2, <1>4 DEF Tables
  <2>. QED  BY <1>4, <2>1 DEF Tables, Bucket
<1>6. m = IF count <= ideal THEN r
          ELSE raised(IF count > mult * ideal THEN mult + 1 ELSE mult)
  BY <1>1 DEF Move
<1>7. MovedLike(m, r, n, b)
  <2>. HIDE DEF m, r
  <2>1. CASE count <= ideal
    <3>1. m = r /\ ~(count > ideal)
      BY <1>5, <1>6, <2>1
    <3>. QED  BY <1>4, <3>1 DEF MovedLike, SameChains, SameItems
  <2>2. CASE ~(count <= ideal)
    <3>1. PICK v \in Nat : v = IF count > mult * ideal THEN mult + 1 ELSE mult
      BY <1>5
    <3>2. m = raised(v)
      BY <1>6, <2>2, <3>1
    <3>3. count > ideal
      BY <1>5, <2>2
    <3>4. RaisedTo(m, r, n, b, v)
      BY <1>2, <1>4, <3>2, RaisedFields
    <3>. QED  BY <3>1, <3>3, <3>4 DEF MovedLike, RaisedTo
  <2>. QED  BY <2>1, <2>2
<1>. QED  BY <1>2, <1>3, <1>7 DEF r, m

\* Moving an item adds it to the items of the table and keeps the chains even.
LEMMA MoveHolds ==
  ASSUME NEW n \in Nat, n > 0, NEW t, NEW M \in SUBSET Items, Holds(t, n, M),
         NEW e \in Items \ M, t.key[e] \in Keys
  PROVE  /\ Holds(Move(t, e), n, M \cup {e})
         /\ Even(t, n) /\ t.ideal_chain_maxlen > 0 => Even(Move(t, e), n)
<1>1. PICK b : b = Hash[t.key[e]] % n
  OBVIOUS
<1>2. t \in Tables(n)
  BY DEF Holds
<1>3. PICK r : r = PutFirst(t, b, e)
  OBVIOUS
<1>4. PICK m : m = Move(t, e)
  OBVIOUS
<1>5. b \in 0..(n - 1) /\ FirstPut(r, t, n, b, e) /\ MovedLike(m, r, n, b)
  BY <1>1, <1>2, <1>3, <1>4, MoveFields
<1>6. Holds(m, n, M \cup {e})
  <2>1. Holds(r, n, M \cup {e})
    BY <1>1, <1>3, PutFirstHolds
  <2>. QED  BY <1>5, <2>1, SameChainsHold DEF MovedLike, SameItems
<1>7. ASSUME Even(t, n), t.ideal_chain_maxlen > 0
      PROVE  Even(m, n)
  <2> DEFINE ideal == t.ideal_chain_maxlen
  <2>1. m.ideal_chain_maxlen = ideal /\ r.ideal_chain_maxlen = ideal
    BY <1>5 DEF MovedLike, SameItems, FirstPut
  <2>2. ideal \in Nat /\ ideal > 0
    BY <1>2, <1>7 DEF Tables
  <2>3. ASSUME NEW x \in 0..(n - 1), x # b
        PROVE  m.buckets[x].count <= (m.buckets[x].expand_mult + 1) * ideal
    <3>1. m.buckets[x] = t.buckets[x]
      BY <1>5, <2>3 DEF MovedLike, FirstPut
    <3>. QED  BY <1>7, <3>1 DEF Even
  <2>4. m.buckets[b].count <= (m.buckets[b].expand_mult + 1) * ideal
    <3> DEFINE count == t.buckets[b].count
               mult == t.buckets[b].expand_mult
    <3>1. count \in Nat /\ mult \in Nat
      <4>1. t.buckets[b] \in Bucket
        BY <1>2, <1>5 DEF Tables
      <4>. QED  BY <4>1 DEF Bucket
    <3>2. m.buckets[b].count = count + 1
      BY <1>5 DEF MovedLike, FirstPut, SameChains
    <3>3. m.buckets[b].expand_mult = IF count + 1 > ideal /\ count + 1 > mult * ideal
                                     THEN mult + 1 ELSE mult
      BY <1>5, <2>1 DEF MovedLike, FirstPut
    <3>4. count <= (mult + 1) * ideal
      BY <1>5, <1>7 DEF Even
    <3>. HIDE DEF count, mult, ideal
    <3>5. /\ mult * ideal \in Nat
          /\ (mult + 1) * ideal = mult * ideal + ideal
          /\ ((mult + 1) + 1) * ideal = mult * ideal + ideal + ideal
      BY <2>2, <3>1
    <3>. QED  BY <2>2, <3>1, <3>2, <3>3, <3>4, <3>5
  <2>. QED  BY <2>1, <2>3, <2>4 DEF Even
<1>. QED  BY <1>4, <1>6, <1>7

\* The tables of n buckets that have the items and the counters of t
Alike(t, n) == {u \in Tables(n) : SameItems(u, t)}

\* The items of c have keys in t.
HaveKeys(c, t) == \A i \in 1..Len(c) : c[i] \in Items /\ t.key[c[i]] \in Keys

\* MoveChain moves the items of a chain one after the other.
LEMMA MoveChainSteps ==
  ASSUME NEW n \in Nat, n > 0, NEW t \in Tables(n), NEW c, Len(c) \in Nat, HaveKeys(c, t)
  PROVE  \E f \in [0..Len(c) -> Alike(t, n)] :
           /\ f[0] = t
           /\ \A i \in 1..Len(c) : f[i] = Move(f[i - 1], c[i])
           /\ MoveChain(t, c) = f[Len(c)]
<1> DEFINE N == Len(c)
           V == Alike(t, n)
           step == [p \in V \X (1..N) |-> Move(p[1], c[p[2]])]
           Rec(f) == f = [i \in 0..N |-> IF i = 0 THEN t ELSE Move(f[i - 1], c[i])]
           moved == CHOOSE f : Rec(f)
<1>1. t \in V
  BY DEF Alike, SameItems
<1>2. ASSUME NEW u \in V, NEW i \in 1..N  PROVE Move(u, c[i]) \in V
  <2>1. u \in Tables(n) /\ SameItems(u, t)
    BY DEF Alike
  <2>2. c[i] \in Items /\ u.key[c[i]] \in Keys
    BY <2>1 DEF HaveKeys, SameItems
  <2>3. PICK b : b = Hash[u.key[c[i]]] % n
    OBVIOUS
  <2>4. /\ FirstPut(PutFirst(u, b, c[i]), u, n, b, c[i])
        /\ MovedLike(Move(u, c[i]), PutFirst(u, b, c[i]), n, b)
    BY <2>1, <2>2, <2>3, MoveFields
  <2>. QED  BY <2>1, <2>4 DEF Alike, SameItems, FirstPut, MovedLike
<1>3. step \in [V \X (1..N) -> V]
  <2>. HIDE DEF V
  <2>. QED  BY <1>2
<1>4. PICK f \in [0..N -> V] : Recurs(f, N, t, step)
  <2>. HIDE DEF V, step, N
  <2>1. N \in Nat
    BY DEF N
  <2>. QED  BY <1>1, <1>3, <2>1, RecursionOverPlaces
<1>5. Rec(f)
  <2>. HIDE DEF V, N
  <2>1. ASSUME NEW i \in 0..N, i # 0
        PROVE  step[<<f[i - 1], i>>] = Move(f[i - 1], c[i])
    <3>1. i \in 1..N /\ i - 1 \in 0..N
      BY <2>1 DEF N
    <3>2. f[i - 1] \in V
      BY <3>1
    <3>. QED  BY <3>1, <3>2
  <2>. HIDE DEF step
  <2>2. \A i \in 0..N : f[i] = IF i = 0 THEN t ELSE Move(f[i - 1], c[i])
    BY <1>4, <2>1 DEF Recurs
  <2>3. f = [i \in 0..N |-> f[i]]
    OBVIOUS
  <2>. QED  BY <2>2, <2>3
<1>6. Rec(moved)
  <2>. HIDE DEF Rec, V, step
  <2>. QED  BY <1>5
<1>7. MoveChain(t, c) = moved[N]
  BY DEF MoveChain
<1>. HIDE DEF moved
<1>8. moved[0] = t /\ \A i \in 1..N : moved[i] = Move(moved[i - 1], c[i])
  <2>. HIDE DEF V, step
  <2>1. 0 \in 0..N /\ \A i \in 1..N : i \in 0..N /\ i # 0
    OBVIOUS
  <2>. HIDE DEF N
  <2>. QED  BY <1>6, <2>1
<1>9. moved \in [0..N -> V]
  <2> DEFINE S == {i \in 0..N : moved[i] \in V}
  <2>. HIDE DEF V, step
  <2>1. 0 \in S
    BY <1>1, <1>8
  <2>2. \A i \in 1..N : i - 1 \in S => i \in S
    <3>1. \A i \in 1..N : i \in 0..N
      OBVIOUS
    <3>. QED  BY <1>2, <1>8, <3>1
  <2>3. 0..N \subseteq S
    <3>. HIDE DEF S
    <3>. QED  BY <2>1, <2>2, UpTo
  <2>4. DOMAIN moved = 0..N /\ moved = [i \in 0..N |-> moved[i]]
    <3>. HIDE DEF N, S
    <3>. QED  BY <1>6
  <2>. QED  BY <2>3, <2>4
<1>. QED  BY <1>7, <1>8, <1>9

\* Moving a chain adds its items to those of the table.
LEMMA MoveChainHolds ==
  ASSUME NEW n \in Nat, n > 0, NEW t, NEW M \in SUBSET Items, Holds(t, n, M),
         NEW c \in Seq(Items), IsInjective(c), Range(c) \cap M = {}, HaveKeys(c, t)
  PROVE  /\ Holds(MoveChain(t, c), n, M \cup Range(c))
         /\ Even(t, n) /\ t.ideal_chain_maxlen > 0 => Even(MoveChain(t, c), n)
<1> DEFINE N == Len(c)
           upTo(i) == {c[j] : j \in 1..i}
<1>1. N \in Nat /\ DOMAIN c = 1..N
  BY LenProperties
<1>2. t \in Tables(n)
  BY DEF Holds
<1>3. PICK f \in [0..N -> Alike(t, n)] :
        /\ f[0] = t
        /\ \A i \in 1..N : f[i] = Move(f[i - 1], c[i])
        /\ MoveChain(t, c) = f[N]
  BY <1>1, <1>2, MoveChainSteps
<1> DEFINE S == {i \in 0..N : /\ Holds(f[i], n, M \cup upTo(i))
                              /\ Even(t, n) /\ t.ideal_chain_maxlen > 0 => Even(f[i], n)}
<1>4. 0 \in S
  <2>1. upTo(0) = {}
    OBVIOUS
  <2>2. M \cup upTo(0) = M
    BY <2>1
  <2>3. 0 \in 0..N
    BY <1>1
  <2>. HIDE DEF upTo
  <2>. QED  BY <1>3, <2>2, <2>3
<1>5. ASSUME NEW i \in 1..N, i - 1 \in S  PROVE i \in S
  <2>1. i - 1 \in 0..N /\ i \in 0..N
    BY <1>1
  <2>2. PICK u \in Alike(t, n) : u = f[i - 1]
    BY <1>3, <2>1
  <2>3. PICK K \in SUBSET Items : K = M \cup upTo(i - 1)
    <3>1. \A j \in 1..(i - 1) : j \in 1..N
      BY <1>1
    <3>2. \A j \in 1..N : c[j] \in Items
      BY <1>1, ElementOfSeq
    <3>. QED  BY <3>1, <3>2
  <2>4. Holds(u, n, K) /\ (Even(t, n) /\ t.ideal_chain_maxlen > 0 => Even(u, n))
    BY <1>5, <2>2, <2>3
  <2>5. c[i] \in Items \ K
    <3>1. c[i] \in Items /\ c[i] \in Range(c)
      BY <1>1, ElementOfSeq DEF Range
    <3>2. c[i] \notin upTo(i - 1)
      <4>1. \A j \in 1..(i - 1) : j \in DOMAIN c /\ i \in DOMAIN c /\ j # i
        BY <1>1
      <4>. QED  BY <4>1 DEF IsInjective
    <3>. QED  BY <2>3, <3>1, <3>2
  <2>6. u.key[c[i]] \in Keys
    BY DEF Alike, SameItems, HaveKeys
  <2>7. u.ideal_chain_maxlen = t.ideal_chain_maxlen
    BY DEF Alike, SameItems
  <2>8. f[i] = Move(u, c[i])
    BY <1>3, <2>2
  <2>9. /\ Holds(f[i], n, K \cup {c[i]})
        /\ Even(u, n) /\ u.ideal_chain_maxlen > 0 => Even(f[i], n)
    BY <2>4, <2>5, <2>6, <2>8, MoveHolds
  <2>10. K \cup {c[i]} = M \cup upTo(i)
    <3>1. 1..i = (1..(i - 1)) \cup {i}
      OBVIOUS
    <3>. QED  BY <2>3, <3>1
  <2>. HIDE DEF upTo
  <2>. QED  BY <2>1, <2>4, <2>7, <2>9, <2>10
<1>6. N \in S
  <2>1. 0..N \subseteq S
    <3>. HIDE DEF S, N
    <3>. QED  BY <1>1, <1>4, <1>5, UpTo
  <2>. HIDE DEF S
  <2>. QED  BY <1>1, <2>1
<1>7. upTo(N) = Range(c)
  BY <1>1 DEF Range
<1>. HIDE DEF upTo, N
<1>. QED  BY <1>3, <1>6, <1>7

\* The buckets after an expansion: a chain of at most the ideal length in each would
\* hold all items, and there is room for at least one where there is an item.
LEMMA IdealLength ==
  ASSUME NEW items \in Nat, NEW n \in Nat, n > 0
  PROVE  /\ (items + n - 1) \div n \in Nat
         /\ items > 0 => (items + n - 1) \div n > 0
<1>1. PICK a \in Nat : a = items + n - 1
  OBVIOUS
<1>2. a \div n \in Nat
  OBVIOUS
<1>3. items > 0 => a >= n
  BY <1>1
<1>4. a >= n => a \div n > 0
  OBVIOUS
<1>. QED  BY <1>1, <1>2, <1>3, <1>4

\* A table with empty buckets holds no items.
LEMMA EmptyHolds ==
  ASSUME NEW n, NEW s \in Tables(n),
         \A b \in 0..(n - 1) : s.buckets[b].hh_head = NULL /\ s.buckets[b].count = 0
  PROVE  Holds(s, n, {})
<1>1. ASSUME NEW b \in 0..(n - 1)
      PROVE  \E c : IsChain(s, b, c) /\ Range(c) = Belong(s, n, {}, b)
  <2>1. IsChain(s, b, <<>>)
    <3>1. <<>> \in Seq(Items) /\ Len(<<>>) = 0 /\ DOMAIN <<>> = {} /\ 1..0 = {}
      OBVIOUS
    <3>2. IsInjective(<<>>) /\ Linked(<<>>, s.hh_next, s.hh_prev)
      BY <3>1 DEF IsInjective, Linked
    <3>. QED  BY <3>1, <3>2 DEF IsChain
  <2>2. Range(<<>>) = {}
    BY DEF Range
  <2>3. Belong(s, n, {}, b) = {}
    BY DEF Belong
  <2>. QED  BY <2>1, <2>2, <2>3
<1>. QED  BY <1>1 DEF Holds

\* The emptied table has the keys and counters of the table, no items, and an
\* ideal length of at least one where there are items to move.
LEMMA EmptiedFields ==
  ASSUME NEW N \in Nat, N > 0, NEW t \in Tables(N), NEW s, s = Emptied(t)
  PROVE  /\ s \in Tables(2 * N)
         /\ s.key = t.key /\ s.num_items = t.num_items
         /\ s.ineff_expands = t.ineff_expands /\ s.noexpand = t.noexpand
         /\ t.num_items > 0 => s.ideal_chain_maxlen > 0
         /\ Holds(s, 2 * N, {})
         /\ Even(s, 2 * N)
<1> DEFINE n == 2 * N
           buckets == [b \in 0..(n - 1) |-> EmptyBucket]
           ideal == (t.num_items + n - 1) \div n
           p == [buckets |-> buckets, hh_next |-> t.hh_next, hh_prev |-> t.hh_prev,
                 key |-> t.key, num_items |-> t.num_items,
                 ideal_chain_maxlen |-> ideal, nonideal_items |-> 0,
                 ineff_expands |-> t.ineff_expands, noexpand |-> t.noexpand]
<1>1. NumBuckets(t) = N
  BY NumBucketsIs DEF Tables
<1>2. n \in Nat /\ n > 0
  OBVIOUS
<1>3. /\ t.hh_next \in [Items -> Pointer] /\ t.hh_prev \in [Items -> Pointer]
      /\ t.key \in [Items -> Keys \cup {NULL}] /\ t.num_items \in Nat
      /\ t.ineff_expands \in 0..2 /\ t.noexpand \in BOOLEAN
  BY DEF Tables
<1>4. ideal \in Nat /\ (t.num_items > 0 => ideal > 0)
  BY <1>2, <1>3, IdealLength
<1>5. buckets \in [0..(n - 1) -> Bucket]
  <2>1. EmptyBucket \in Bucket
    BY DEF EmptyBucket, Bucket, Pointer
  <2>. QED  BY <2>1
<1>6. s = p
  <2>1. s = [t EXCEPT !.buckets = buckets, !.ideal_chain_maxlen = ideal, !.nonideal_items = 0]
    BY <1>1 DEF Emptied
  <2>2. t = [buckets |-> t.buckets, hh_next |-> t.hh_next, hh_prev |-> t.hh_prev,
             key |-> t.key, num_items |-> t.num_items,
             ideal_chain_maxlen |-> t.ideal_chain_maxlen,
             nonideal_items |-> t.nonideal_items,
             ineff_expands |-> t.ineff_expands, noexpand |-> t.noexpand]
    BY DEF Tables
  <2>. HIDE DEF buckets, ideal
  <2>. QED  BY <2>1, <2>2
<1>7. \A b \in 0..(n - 1) : /\ buckets[b].hh_head = NULL /\ buckets[b].count = 0
                            /\ buckets[b].expand_mult = 0
  BY DEF EmptyBucket
<1>. HIDE DEF buckets, ideal, n
<1>8. s \in Tables(n)
  BY <1>3, <1>4, <1>5, <1>6 DEF Tables
<1>9. Holds(s, n, {})
  BY <1>6, <1>7, <1>8, EmptyHolds
<1>10. Even(s, n)
  <2>1. \A b \in 0..(n - 1) : s.buckets[b].count = 0 /\ s.buckets[b].expand_mult = 0
    BY <1>6, <1>7
  <2>2. s.ideal_chain_maxlen \in Nat
    BY <1>4, <1>6
  <2>. QED  BY <2>1, <2>2 DEF Even
<1>. QED  BY <1>4, <1>6, <1>8, <1>9, <1>10 DEF n

\* The items of M whose bucket of n is one of the first b
Before(t, n, M, b) == {e \in M : Hash[t.key[e]] % n < b}

\* MoveAll moves the chains one after the other, and with the last one all items
\* have been moved.
LEMMA MoveAllHolds ==
  ASSUME NEW N \in Nat, N > 0, NEW t, NEW M \in SUBSET Items, Holds(t, N, M),
         t.num_items > 0
  PROVE  /\ Holds(MoveAll(t), 2 * N, M)
         /\ Even(MoveAll(t), 2 * N)
         /\ MoveAll(t).num_items = t.num_items
         /\ MoveAll(t).ineff_expands = t.ineff_expands
         /\ MoveAll(t).noexpand = t.noexpand
<1> DEFINE n == 2 * N
           V == Alike(Emptied(t), n)
           step == [p \in V \X (1..N) |-> MoveChain(p[1], Chain(t, p[2] - 1))]
           Rec(f) == f = [b \in 0..N |-> IF b = 0 THEN Emptied(t)
                                         ELSE MoveChain(f[b - 1], Chain(t, b - 1))]
           moved == CHOOSE f : Rec(f)
<1>1. t \in Tables(N) /\ \A e \in M : t.key[e] \in Keys
  BY DEF Holds
<1>2. n \in Nat /\ n > 0
  OBVIOUS
<1>3. PICK s : s = Emptied(t)
  OBVIOUS
<1>4. /\ s \in Tables(n) /\ s.key = t.key /\ s.num_items = t.num_items
      /\ s.ineff_expands = t.ineff_expands /\ s.noexpand = t.noexpand
      /\ s.ideal_chain_maxlen > 0
      /\ Holds(s, n, {}) /\ Even(s, n)
  BY <1>1, <1>3, EmptiedFields
<1>5. NumBuckets(t) = N
  BY <1>1, NumBucketsIs DEF Tables
<1>6. MoveAll(t) = moved[N]
  BY <1>5 DEF MoveAll
<1>. HIDE DEF n
<1>7. ASSUME NEW b \in 1..N
      PROVE  /\ Chain(t, b - 1) \in Seq(Items) /\ IsInjective(Chain(t, b - 1))
             /\ Range(Chain(t, b - 1)) = Belong(t, N, M, b - 1)
             /\ HaveKeys(Chain(t, b - 1), s)
  <2>1. b - 1 \in 0..(N - 1)
    OBVIOUS
  <2>2. PICK c : IsChain(t, b - 1, c) /\ Range(c) = Belong(t, N, M, b - 1)
    BY <2>1 DEF Holds
  <2>3. Chain(t, b - 1) = c
    BY <2>2, ChainIs
  <2>4. c \in Seq(Items) /\ IsInjective(c) /\ DOMAIN c = 1..Len(c)
    BY <2>2, ChainFacts
  <2>5. HaveKeys(c, s)
    <3>1. \A i \in 1..Len(c) : c[i] \in Belong(t, N, M, b - 1)
      BY <2>2, <2>4 DEF Range
    <3>. QED  BY <1>1, <1>4, <3>1 DEF HaveKeys, Belong
  <2>. QED  BY <2>2, <2>3, <2>4, <2>5
<1>8. s \in V
  BY <1>3, <1>4 DEF Alike, SameItems
<1>9. ASSUME NEW u \in V, NEW b \in 1..N  PROVE MoveChain(u, Chain(t, b - 1)) \in V
  <2>1. u \in Tables(n) /\ SameItems(u, s)
    BY <1>3 DEF Alike
  <2>2. PICK c : c = Chain(t, b - 1)
    OBVIOUS
  <2>3. Len(c) \in Nat /\ HaveKeys(c, u)
    <3>1. Len(c) \in Nat
      BY <1>7, <2>2, LenProperties
    <3>2. HaveKeys(c, s)
      BY <1>7, <2>2
    <3>. QED  BY <2>1, <3>1, <3>2 DEF HaveKeys, SameItems
  <2>4. PICK f \in [0..Len(c) -> Alike(u, n)] : MoveChain(u, c) = f[Len(c)]
    BY <1>2, <2>1, <2>3, MoveChainSteps
  <2>5. MoveChain(u, c) \in Alike(u, n)
    <3>1. Len(c) \in 0..Len(c)
      BY <2>3
    <3>. QED  BY <2>4, <3>1
  <2>. QED  BY <1>3, <2>1, <2>2, <2>5 DEF Alike, SameItems
<1>10. step \in [V \X (1..N) -> V]
  <2>. HIDE DEF V
  <2>. QED  BY <1>9
<1>11. PICK f \in [0..N -> V] : Recurs(f, N, s, step)
  <2>. HIDE DEF V, step
  <2>. QED  BY <1>8, <1>10, RecursionOverPlaces
<1>12. Rec(f)
  <2>. HIDE DEF V
  <2>1. ASSUME NEW b \in 0..N, b # 0
        PROVE  step[<<f[b - 1], b>>] = MoveChain(f[b - 1], Chain(t, b - 1))
    <3>1. b \in 1..N /\ b - 1 \in 0..N
      BY <2>1
    <3>2. f[b - 1] \in V
      BY <3>1
    <3>. QED  BY <3>1, <3>2
  <2>. HIDE DEF step
  <2>2. \A b \in 0..N : f[b] = IF b = 0 THEN s ELSE MoveChain(f[b - 1], Chain(t, b - 1))
    BY <1>11, <2>1 DEF Recurs
  <2>3. f = [b \in 0..N |-> f[b]]
    OBVIOUS
  <2>. QED  BY <1>3, <2>2, <2>3
<1>13. Rec(moved)
  <2>. HIDE DEF Rec, V, step
  <2>. QED  BY <1>12
<1>. HIDE DEF moved, V, step
<1>14. moved[0] = s /\ \A b \in 1..N : moved[b] = MoveChain(moved[b - 1], Chain(t, b - 1))
  <2>1. 0 \in 0..N /\ \A b \in 1..N : b \in 0..N /\ b # 0
    OBVIOUS
  <2>. QED  BY <1>3, <1>13, <2>1
<1> DEFINE S == {b \in 0..N : /\ moved[b] \in V
                              /\ Holds(moved[b], n, Before(t, N, M, b))
                              /\ Even(moved[b], n)}
<1>15. 0 \in S
  <2>1. Before(t, N, M, 0) = {}
    <3>1. \A e \in M : Hash[t.key[e]] \in Nat
      BY <1>1, HashAssumption
    <3>2. \A e \in M : ~(Hash[t.key[e]] % N < 0)
      BY <3>1
    <3>. QED  BY <3>2 DEF Before
  <2>2. 0 \in 0..N
    OBVIOUS
  <2>3. moved[0] = s
    BY <1>14
  <2>4. Holds(moved[0], n, Before(t, N, M, 0)) /\ Even(moved[0], n) /\ moved[0] \in V
    BY <1>4, <1>8, <2>1, <2>3
  <2>. HIDE DEF Rec
  <2>. QED  BY <2>2, <2>4
<1>16. ASSUME NEW b \in 1..N, b - 1 \in S  PROVE b \in S
  <2>1. PICK u \in V : u = moved[b - 1]
    BY <1>16
  <2>2. PICK c : c = Chain(t, b - 1)
    OBVIOUS
  <2>3. c \in Seq(Items) /\ IsInjective(c) /\ Range(c) = Belong(t, N, M, b - 1)
    BY <1>7, <2>2
  <2>4. u \in Tables(n) /\ SameItems(u, s)
    BY <1>3 DEF Alike, V
  <2>5. HaveKeys(c, u)
    <3>1. HaveKeys(c, s)
      BY <1>7, <2>2
    <3>. QED  BY <2>4, <3>1 DEF HaveKeys, SameItems
  <2>6. PICK K \in SUBSET Items : K = Before(t, N, M, b - 1)
    BY DEF Before
  <2>7. Range(c) \cap K = {} /\ K \cup Range(c) = Before(t, N, M, b)
    <3>1. \A e \in M : Hash[t.key[e]] \in Nat
      BY <1>1, HashAssumption
    <3>2. \A e \in M : Hash[t.key[e]] % N \in Int
      BY <3>1
    <3>3. \A i \in Int : /\ ~(i = b - 1 /\ i < b - 1)
                         /\ i < b <=> (i = b - 1 \/ i < b - 1)
      OBVIOUS
    <3>. QED  BY <2>3, <2>6, <3>2, <3>3 DEF Before, Belong
  <2>8. Holds(u, n, K) /\ Even(u, n)
    BY <1>16, <2>1, <2>6
  <2>9. u.ideal_chain_maxlen > 0
    BY <1>4, <2>4 DEF SameItems
  <2>10. Holds(MoveChain(u, c), n, K \cup Range(c)) /\ Even(MoveChain(u, c), n)
    BY <1>2, <2>3, <2>5, <2>7, <2>8, <2>9, MoveChainHolds
  <2>11. MoveChain(u, c) \in V
    BY <1>9, <2>2
  <2>12. b \in 0..N /\ moved[b] = MoveChain(u, c)
    BY <1>14, <2>1, <2>2
  <2>. QED  BY <2>7, <2>10, <2>11, <2>12
<1>17. N \in S
  <2>1. 0..N \subseteq S
    <3>. HIDE DEF S
    <3>. QED  BY <1>15, <1>16, UpTo
  <2>. HIDE DEF S
  <2>. QED  BY <2>1
<1>18. Before(t, N, M, N) = M
  <2>1. \A e \in M : Hash[t.key[e]] \in Nat
    BY <1>1, HashAssumption
  <2>2. \A e \in M : Hash[t.key[e]] % N < N
    BY <2>1
  <2>. QED  BY <2>2 DEF Before
<1>19. SameItems(moved[N], s)
  BY <1>3, <1>17 DEF V, Alike
<1>. QED  BY <1>4, <1>6, <1>17, <1>18, <1>19 DEF SameItems, n

\* A table with these keys and counters
With(t, keys, items, ineff, no) ==
  [t EXCEPT !.key = keys, !.num_items = items, !.ineff_expands = ineff, !.noexpand = no]

\* Two tables have the same chains, the one with these keys and counters.
Replaced(s, t, n, keys, items, ineff, no) ==
  /\ s \in Tables(n)
  /\ s.key = keys /\ s.num_items = items
  /\ s.ineff_expands = ineff /\ s.noexpand = no
  /\ s.buckets = t.buckets /\ s.ideal_chain_maxlen = t.ideal_chain_maxlen
  /\ SameChains(s, t, n)

\* A table with other keys of its items, or another counter, is one again.
LEMMA PartReplaced ==
  ASSUME NEW n, NEW t \in Tables(n),
         NEW keys \in [Items -> Keys \cup {NULL}], NEW items \in Nat,
         NEW ineff \in 0..2, NEW no \in BOOLEAN
  PROVE  /\ [t EXCEPT !.key = keys] \in Tables(n)
         /\ [t EXCEPT !.num_items = items] \in Tables(n)
         /\ [t EXCEPT !.ineff_expands = ineff] \in Tables(n)
         /\ [t EXCEPT !.noexpand = no] \in Tables(n)
<1>1. [t EXCEPT !.key = keys] \in Tables(n)
  BY DEF Tables
<1>2. [t EXCEPT !.num_items = items] \in Tables(n)
  BY DEF Tables
<1>3. [t EXCEPT !.ineff_expands = ineff] \in Tables(n)
  BY DEF Tables
<1>4. [t EXCEPT !.noexpand = no] \in Tables(n)
  BY DEF Tables
<1>. QED  BY <1>1, <1>2, <1>3, <1>4

\* With all of them replaced, it has the same chains.
LEMMA PartsReplaced ==
  ASSUME NEW n, NEW t \in Tables(n),
         NEW keys \in [Items -> Keys \cup {NULL}], NEW items \in Nat,
         NEW ineff \in 0..2, NEW no \in BOOLEAN,
         NEW s, s = With(t, keys, items, ineff, no)
  PROVE  Replaced(s, t, n, keys, items, ineff, no)
<1>1. PICK u : u = [t EXCEPT !.key = keys]
  OBVIOUS
<1>2. PICK v : v = [u EXCEPT !.num_items = items]
  OBVIOUS
<1>3. PICK w : w = [v EXCEPT !.ineff_expands = ineff]
  OBVIOUS
<1>4. PICK q : q = [w EXCEPT !.noexpand = no]
  OBVIOUS
<1>5. q = With(t, keys, items, ineff, no)
  BY <1>1, <1>2, <1>3, <1>4 DEF With
<1>6. q \in Tables(n)
  <2>1. u \in Tables(n)
    BY <1>1, PartReplaced
  <2>2. v \in Tables(n)
    BY <1>2, <2>1, PartReplaced
  <2>3. w \in Tables(n)
    BY <1>3, <2>2, PartReplaced
  <2>. QED  BY <1>4, <2>3, PartReplaced
<1>7. /\ q.key = keys /\ q.num_items = items
      /\ q.ineff_expands = ineff /\ q.noexpand = no
      /\ q.buckets = t.buckets /\ q.ideal_chain_maxlen = t.ideal_chain_maxlen
      /\ q.hh_next = t.hh_next /\ q.hh_prev = t.hh_prev
  BY <1>5 DEF With, Tables
<1>8. Replaced(q, t, n, keys, items, ineff, no)
  BY <1>6, <1>7 DEF Replaced, SameChains
<1>. QED  BY <1>5, <1>8

\* After two expansions in a row that did little, the table gives up: until it has,
\* at most one was so.
Growing(t) == t.noexpand \/ t.ineff_expands <= 1

\* The chains of ChainsBounded, in a table of n buckets
Bounded(t, n) ==
  t.noexpand \/ \A b \in 0..(n - 1) :
    \/ t.buckets[b].count < Limit(t.buckets[b])
    \/ t.buckets[b].count <= (t.buckets[b].expand_mult + 1) * t.ideal_chain_maxlen

\* An expansion keeps the items and leaves no chain longer than it expected.
LEMMA ExpandHolds ==
  ASSUME NEW N \in Nat, N > 0, NEW t, NEW M \in SUBSET Items, Holds(t, N, M),
         t.num_items > 0, t.ineff_expands <= 1
  PROVE  /\ Holds(Expand(t), 2 * N, M)
         /\ Even(Expand(t), 2 * N)
         /\ Expand(t).num_items = t.num_items
         /\ Growing(Expand(t))
<1>1. PICK moved : moved = MoveAll(t)
  OBVIOUS
<1>2. PICK n : n = 2 * N
  OBVIOUS
<1>3. /\ Holds(moved, n, M) /\ Even(moved, n)
      /\ moved.num_items = t.num_items
  BY <1>1, <1>2, MoveAllHolds
<1>4. t.ineff_expands \in 0..1
  BY DEF Holds, Tables
<1>5. PICK ineff : ineff = IF moved.nonideal_items > t.num_items \div 2
                           THEN t.ineff_expands + 1 ELSE 0
  OBVIOUS
<1>6. ineff \in 0..2 /\ (ineff > 1) \in BOOLEAN
  BY <1>4, <1>5
<1>7. PICK s : s = [moved EXCEPT !.ineff_expands = ineff, !.noexpand = ineff > 1]
  OBVIOUS
<1>8. Expand(t) = s
  BY <1>1, <1>5, <1>7 DEF Expand
<1>9. moved \in Tables(n)
  BY <1>3 DEF Holds
<1>10. s = With(moved, moved.key, moved.num_items, ineff, ineff > 1)
  BY <1>7, <1>9 DEF With, Tables
<1>11. /\ s \in Tables(n) /\ SameChains(s, moved, n)
       /\ s.key = moved.key /\ s.num_items = moved.num_items
       /\ s.buckets = moved.buckets /\ s.ideal_chain_maxlen = moved.ideal_chain_maxlen
       /\ s.ineff_expands = ineff /\ s.noexpand = (ineff > 1)
  <2>1. moved.key \in [Items -> Keys \cup {NULL}] /\ moved.num_items \in Nat
    BY <1>9 DEF Tables
  <2>2. PICK no \in BOOLEAN : no = (ineff > 1)
    BY <1>6
  <2>3. s = With(moved, moved.key, moved.num_items, ineff, no)
    BY <1>10, <2>2
  <2>4. Replaced(s, moved, n, moved.key, moved.num_items, ineff, no)
    BY <1>6, <1>9, <2>1, <2>3, PartsReplaced
  <2>. QED  BY <2>2, <2>4 DEF Replaced
<1>12. Holds(s, n, M)
  BY <1>3, <1>11, SameChainsHold
<1>13. Even(s, n)
  BY <1>3, <1>11 DEF Even
<1>14. Growing(s)
  <2>1. CASE ineff > 1
    <3>1. s.noexpand = TRUE
      BY <1>11, <2>1
    <3>. QED  BY <3>1 DEF Growing
  <2>2. CASE ~(ineff > 1)
    <3>1. s.ineff_expands <= 1
      BY <1>6, <1>11, <2>2
    <3>. QED  BY <3>1 DEF Growing
  <2>. QED  BY <2>1, <2>2
<1>. QED  BY <1>2, <1>3, <1>8, <1>11, <1>12, <1>13, <1>14

\* What HASH_ADD_TO_TABLE sets before it puts the item into its bucket
Keyed(t, e, k) == [t EXCEPT !.key[e] = k, !.num_items = t.num_items + 1]

\* The table an item is put into has its key, and counts it.
LEMMA KeyedHolds ==
  ASSUME NEW n \in Nat, NEW t, NEW M \in SUBSET Items, Holds(t, n, M),
         NEW e \in Items \ M, NEW k \in Keys,
         NEW s, s = Keyed(t, e, k)
  PROVE  /\ Holds(s, n, M)
         /\ s.key[e] = k
         /\ s.num_items = t.num_items + 1
         /\ s.buckets = t.buckets
         /\ s.ideal_chain_maxlen = t.ideal_chain_maxlen
         /\ s.ineff_expands = t.ineff_expands /\ s.noexpand = t.noexpand
<1>1. /\ t \in Tables(n) /\ t.key \in [Items -> Keys \cup {NULL}] /\ t.num_items \in Nat
      /\ t.ineff_expands \in 0..2 /\ t.noexpand \in BOOLEAN
  BY DEF Holds, Tables
<1>2. PICK keys : keys = [t.key EXCEPT ![e] = k]
  OBVIOUS
<1>3. /\ keys \in [Items -> Keys \cup {NULL}] /\ keys[e] = k
      /\ \A x \in Items \ {e} : keys[x] = t.key[x]
  BY <1>1, <1>2
<1>4. PICK items \in Nat : items = t.num_items + 1
  BY <1>1
<1>5. s = With(t, keys, items, t.ineff_expands, t.noexpand)
  BY <1>1, <1>2, <1>4 DEF Keyed, With, Tables
<1>6. /\ s \in Tables(n) /\ SameChains(s, t, n)
      /\ s.key = keys /\ s.num_items = t.num_items + 1
      /\ s.buckets = t.buckets /\ s.ideal_chain_maxlen = t.ideal_chain_maxlen
      /\ s.ineff_expands = t.ineff_expands /\ s.noexpand = t.noexpand
  <2>1. Replaced(s, t, n, keys, items, t.ineff_expands, t.noexpand)
    BY <1>1, <1>3, <1>5, PartsReplaced
  <2>. QED  BY <1>4, <2>1 DEF Replaced
<1>7. Holds(s, n, M)
  <2>1. \A x \in M : s.key[x] = t.key[x]
    BY <1>3, <1>6
  <2>. QED  BY <1>6, <2>1, SameChainsHold
<1>. QED  BY <1>3, <1>6, <1>7

\* HASH_ADD_TO_TABLE adds the item, and expands where the chain reached its limit.
LEMMA AddToTableHolds ==
  ASSUME NEW N \in Nat, N > 0, NEW t, NEW M \in SUBSET Items, Holds(t, N, M),
         Growing(t), Bounded(t, N), NEW e \in Items \ M, NEW k \in Keys,
         NEW r, r = AddToTable(t, e, k)
  PROVE  /\ r.num_items = t.num_items + 1
         /\ Growing(r)
         /\ \E n \in Nat : n > 0 /\ Holds(r, n, M \cup {e}) /\ Bounded(r, n)
<1>1. PICK s : s = Keyed(t, e, k)
  OBVIOUS
<1>2. /\ Holds(s, N, M) /\ s.key[e] = k
      /\ s.num_items = t.num_items + 1 /\ s.buckets = t.buckets
      /\ s.ideal_chain_maxlen = t.ideal_chain_maxlen
      /\ s.ineff_expands = t.ineff_expands /\ s.noexpand = t.noexpand
  BY <1>1, KeyedHolds
<1>3. t \in Tables(N) /\ s \in Tables(N)
  BY <1>2 DEF Holds
<1>4. NumBuckets(t) = N
  BY <1>3, NumBucketsIs DEF Tables
<1>5. PICK b : b = Hash[k] % N
  OBVIOUS
<1>6. b \in 0..(N - 1)
  BY <1>5, HashAssumption
<1>7. PICK u : u = PutFirst(s, b, e)
  OBVIOUS
<1>8. r = IF Full(u.buckets[b]) /\ ~u.noexpand THEN Expand(u) ELSE u
  BY <1>1, <1>4, <1>5, <1>7 DEF Keyed, AddToTable, HASH_TO_BKT
<1>9. FirstPut(u, s, N, b, e)
  BY <1>3, <1>6, <1>7, PutFirstFields
<1>10. Holds(u, N, M \cup {e})
  BY <1>2, <1>5, <1>7, PutFirstHolds
<1>11. /\ u \in Tables(N)
       /\ u.num_items = t.num_items + 1 /\ u.ideal_chain_maxlen = t.ideal_chain_maxlen
       /\ u.ineff_expands = t.ineff_expands /\ u.noexpand = t.noexpand
       /\ \A x \in 0..(N - 1) : x # b => u.buckets[x] = t.buckets[x]
  BY <1>2, <1>9 DEF FirstPut
<1>12. t.num_items \in Nat /\ u.num_items > 0
  BY <1>3, <1>11 DEF Tables
<1>13. CASE Full(u.buckets[b]) /\ ~u.noexpand
  <2>1. r = Expand(u)
    BY <1>8, <1>13
  <2>2. u.ineff_expands <= 1
    BY <1>11, <1>13 DEF Growing
  <2>3. M \cup {e} \in SUBSET Items
    OBVIOUS
  <2>4. /\ Holds(Expand(u), 2 * N, M \cup {e}) /\ Even(Expand(u), 2 * N)
        /\ Expand(u).num_items = u.num_items /\ Growing(Expand(u))
    BY <1>10, <1>12, <2>2, <2>3, ExpandHolds
  <2>5. Bounded(r, 2 * N)
    BY <2>1, <2>4 DEF Bounded, Even
  <2>6. 2 * N \in Nat /\ 2 * N > 0
    OBVIOUS
  <2>. QED  BY <1>11, <2>1, <2>4, <2>5, <2>6
<1>14. CASE ~(Full(u.buckets[b]) /\ ~u.noexpand)
  <2>1. r = u
    BY <1>8, <1>14
  <2>2. Growing(u)
    BY <1>11 DEF Growing
  <2>3. u.buckets[b].count \in Nat /\ u.buckets[b].expand_mult \in Nat
    BY <1>6, <1>11 DEF Tables, Bucket
  <2>4. ~u.noexpand => u.buckets[b].count < Limit(u.buckets[b])
    <3>1. Limit(u.buckets[b]) \in Nat
      BY <2>3, HashAssumption DEF Limit
    <3>. QED  BY <1>14, <2>3, <3>1 DEF Full
  <2>5. Bounded(u, N)
    BY <1>11, <2>4 DEF Bounded
  <2>. QED  BY <1>10, <1>11, <2>1, <2>2, <2>5
<1>. QED  BY <1>13, <1>14

\* A table with other buckets, or other links, is one again.
LEMMA ChainsReplaced ==
  ASSUME NEW n, NEW t \in Tables(n), NEW bkts \in [0..(n - 1) -> Bucket],
         NEW nx \in [Items -> Pointer], NEW pv \in [Items -> Pointer]
  PROVE  /\ [t EXCEPT !.buckets = bkts] \in Tables(n)
         /\ [t EXCEPT !.hh_next = nx] \in Tables(n)
         /\ [t EXCEPT !.hh_prev = pv] \in Tables(n)
<1>1. [t EXCEPT !.buckets = bkts] \in Tables(n)
  BY DEF Tables
<1>2. [t EXCEPT !.hh_next = nx] \in Tables(n)
  BY DEF Tables
<1>3. [t EXCEPT !.hh_prev = pv] \in Tables(n)
  BY DEF Tables
<1>. QED  BY <1>1, <1>2, <1>3

\* What DeleteInBucket changes: one bucket, and the links of the neighbours.
Deleted(r, t, n, b, e) ==
  /\ r \in Tables(n)
  /\ r.buckets[b].hh_head = IF t.buckets[b].hh_head = e THEN t.hh_next[e]
                            ELSE t.buckets[b].hh_head
  /\ r.buckets[b].count = t.buckets[b].count - 1
  /\ r.buckets[b].expand_mult = t.buckets[b].expand_mult
  /\ \A x \in 0..(n - 1) : x # b => r.buckets[x] = t.buckets[x]
  /\ \A x \in Items \ {e} :
       /\ r.hh_next[x] = IF x = t.hh_prev[e] THEN t.hh_next[e] ELSE t.hh_next[x]
       /\ r.hh_prev[x] = IF x = t.hh_next[e] THEN t.hh_prev[e] ELSE t.hh_prev[x]
       /\ r.key[x] = t.key[x]
  /\ r.num_items = t.num_items - 1
  /\ r.ideal_chain_maxlen = t.ideal_chain_maxlen
  /\ r.ineff_expands = t.ineff_expands
  /\ r.noexpand = t.noexpand

\* DeleteInBucket changes that and nothing else.
LEMMA DeleteFields ==
  ASSUME NEW n \in Nat, n > 0, NEW t \in Tables(n), NEW e \in Items, t.key[e] \in Keys,
         NEW b, b = Hash[t.key[e]] % n, t.buckets[b].count > 0, t.num_items > 0
  PROVE  Deleted(DeleteInBucket(t, e), t, n, b, e)
<1>1. /\ t.buckets \in [0..(n - 1) -> Bucket]
      /\ t.hh_next \in [Items -> Pointer] /\ t.hh_prev \in [Items -> Pointer]
      /\ t.key \in [Items -> Keys \cup {NULL}] /\ t.num_items \in Nat
  BY DEF Tables
<1>2. b \in 0..(n - 1)
  <2>1. Hash[t.key[e]] \in Nat
    BY HashAssumption
  <2>. QED  BY <2>1
<1>3. /\ t.buckets[b] \in Bucket /\ t.buckets[b].hh_head \in Pointer
      /\ t.buckets[b].count \in Nat /\ t.buckets[b].expand_mult \in Nat
  BY <1>1, <1>2 DEF Bucket
<1>4. PICK bucket : bucket = [hh_head |-> IF t.buckets[b].hh_head = e THEN t.hh_next[e]
                                          ELSE t.buckets[b].hh_head,
                              count |-> t.buckets[b].count - 1,
                              expand_mult |-> t.buckets[b].expand_mult]
  OBVIOUS
<1>5. bucket \in Bucket
  <2>1. t.buckets[b].count - 1 \in Nat
    BY <1>3
  <2>2. t.hh_next[e] \in Pointer
    BY <1>1
  <2>. QED  BY <1>3, <1>4, <2>1, <2>2 DEF Bucket
<1>6. PICK bkts : bkts = [t.buckets EXCEPT ![b] = bucket]
  OBVIOUS
<1>7. PICK nx : nx = [x \in Items |-> IF x = e THEN NULL
                                      ELSE IF x = t.hh_prev[e] THEN t.hh_next[e]
                                      ELSE t.hh_next[x]]
  OBVIOUS
<1>8. PICK pv : pv = [x \in Items |-> IF x = e THEN NULL
                                      ELSE IF x = t.hh_next[e] THEN t.hh_prev[e]
                                      ELSE t.hh_prev[x]]
  OBVIOUS
<1>9. PICK keys : keys = [t.key EXCEPT ![e] = NULL]
  OBVIOUS
<1>10. PICK items : items = t.num_items - 1
  OBVIOUS
<1>11. DeleteInBucket(t, e) = [t EXCEPT !.buckets = bkts, !.hh_next = nx, !.hh_prev = pv,
                                        !.key = keys, !.num_items = items]
  <2>1. NumBuckets(t) = n
    BY NumBucketsIs DEF Tables
  <2>. QED  BY <1>4, <1>6, <1>7, <1>8, <1>9, <1>10, <2>1 DEF DeleteInBucket, HASH_TO_BKT
<1>12. /\ bkts \in [0..(n - 1) -> Bucket] /\ bkts[b] = bucket
       /\ \A x \in 0..(n - 1) : x # b => bkts[x] = t.buckets[x]
  BY <1>1, <1>2, <1>5, <1>6
<1>13. /\ nx \in [Items -> Pointer] /\ pv \in [Items -> Pointer]
       /\ \A x \in Items \ {e} :
            /\ nx[x] = IF x = t.hh_prev[e] THEN t.hh_next[e] ELSE t.hh_next[x]
            /\ pv[x] = IF x = t.hh_next[e] THEN t.hh_prev[e] ELSE t.hh_prev[x]
  <2>1. t.hh_next[e] \in Pointer /\ t.hh_prev[e] \in Pointer /\ NULL \in Pointer
    BY <1>1 DEF Pointer
  <2>. QED  BY <1>1, <1>7, <1>8, <2>1
<1>14. /\ keys \in [Items -> Keys \cup {NULL}]
       /\ \A x \in Items \ {e} : keys[x] = t.key[x]
  BY <1>1, <1>9
<1>15. items \in Nat
  BY <1>1, <1>10
<1>16. PICK u : u = [t EXCEPT !.buckets = bkts]
  OBVIOUS
<1>17. PICK v : v = [u EXCEPT !.hh_next = nx]
  OBVIOUS
<1>18. PICK w : w = [v EXCEPT !.hh_prev = pv]
  OBVIOUS
<1>19. PICK q : q = [w EXCEPT !.key = keys]
  OBVIOUS
<1>20. PICK r : r = [q EXCEPT !.num_items = items]
  OBVIOUS
<1>21. DeleteInBucket(t, e) = r
  BY <1>11, <1>16, <1>17, <1>18, <1>19, <1>20
<1>22. r \in Tables(n)
  <2>1. u \in Tables(n)
    BY <1>12, <1>13, <1>16, ChainsReplaced
  <2>2. v \in Tables(n)
    BY <1>12, <1>13, <1>17, <2>1, ChainsReplaced
  <2>3. w \in Tables(n)
    BY <1>12, <1>13, <1>18, <2>2, ChainsReplaced
  <2>4. 0 \in 0..2 /\ TRUE \in BOOLEAN
    OBVIOUS
  <2>5. q \in Tables(n)
    BY <1>14, <1>15, <1>19, <2>3, <2>4, PartReplaced
  <2>. QED  BY <1>14, <1>15, <1>20, <2>4, <2>5, PartReplaced
<1>23. /\ r.buckets = bkts /\ r.hh_next = nx /\ r.hh_prev = pv
       /\ r.key = keys /\ r.num_items = items
       /\ r.ideal_chain_maxlen = t.ideal_chain_maxlen
       /\ r.ineff_expands = t.ineff_expands /\ r.noexpand = t.noexpand
  BY <1>11, <1>21 DEF Tables
<1>24. Deleted(r, t, n, b, e)
  <2>1. /\ r.buckets[b].hh_head = IF t.buckets[b].hh_head = e THEN t.hh_next[e]
                                  ELSE t.buckets[b].hh_head
        /\ r.buckets[b].count = t.buckets[b].count - 1
        /\ r.buckets[b].expand_mult = t.buckets[b].expand_mult
    <3>1. r.buckets[b] = bucket
      BY <1>12, <1>23
    <3>2. /\ bucket.hh_head = IF t.buckets[b].hh_head = e THEN t.hh_next[e]
                              ELSE t.buckets[b].hh_head
          /\ bucket.count = t.buckets[b].count - 1
          /\ bucket.expand_mult = t.buckets[b].expand_mult
      BY <1>4
    <3>. QED  BY <3>1, <3>2
  <2>2. \A x \in 0..(n - 1) : x # b => r.buckets[x] = t.buckets[x]
    BY <1>12, <1>23
  <2>3. \A x \in Items \ {e} :
          /\ r.hh_next[x] = IF x = t.hh_prev[e] THEN t.hh_next[e] ELSE t.hh_next[x]
          /\ r.hh_prev[x] = IF x = t.hh_next[e] THEN t.hh_prev[e] ELSE t.hh_prev[x]
          /\ r.key[x] = t.key[x]
    BY <1>13, <1>14, <1>23
  <2>. QED  BY <1>10, <1>22, <1>23, <2>1, <2>2, <2>3 DEF Deleted
<1>. QED  BY <1>21, <1>24

\* The chain of the bucket after DeleteInBucket is the chain before, without the
\* item.
LEMMA DeletedChain ==
  ASSUME NEW n, NEW t, NEW r, NEW b, NEW e \in Items, Deleted(r, t, n, b, e),
         NEW d, IsChain(t, b, d), e \in Range(d)
  PROVE  \E c : IsChain(r, b, c) /\ Range(c) = Range(d) \ {e}
<1>1. /\ d \in Seq(Items) /\ IsInjective(d) /\ Len(d) \in Nat /\ DOMAIN d = 1..Len(d)
      /\ t.buckets[b].count = Len(d)
      /\ Linked(d, t.hh_next, t.hh_prev)
      /\ Len(d) # 0 => t.buckets[b].hh_head = d[1]
  BY ChainFacts
<1>2. PICK p \in 1..Len(d) : e = d[p]
  BY <1>1 DEF Range
<1>3. PICK c : c = RemoveAt(d, p)
  OBVIOUS
<1>4. /\ c \in Seq(Items) /\ Len(c) = Len(d) - 1
      /\ \A j \in 1..(Len(d) - 1) : c[j] = IF j < p THEN d[j] ELSE d[j + 1]
  BY <1>1, <1>3, RemoveAtElements
<1>5. IsInjective(c) /\ Range(c) = Range(d) \ {e}
  BY <1>1, <1>2, <1>3, RemoveAtKeepsInjective
<1>6. PICK nx, pv : nx = t.hh_next /\ pv = t.hh_prev
  OBVIOUS
<1>7. PICK nx1, pv1 : nx1 = r.hh_next /\ pv1 = r.hh_prev
  OBVIOUS
<1>8. \A x \in Items \ {e} : /\ nx1[x] = IF x = pv[e] THEN nx[e] ELSE nx[x]
                             /\ pv1[x] = IF x = nx[e] THEN pv[e] ELSE pv[x]
  BY <1>6, <1>7 DEF Deleted
<1>9. Linked(c, nx1, pv1)
  <2>1. Linked(d, nx, pv)
    BY <1>1, <1>6
  <2>. QED  BY <1>1, <1>2, <1>3, <1>8, <2>1, UnlinkKeepsLinks
<1>10. r.buckets[b].count = Len(c)
  BY <1>1, <1>4 DEF Deleted
<1>11. r.buckets[b].hh_head = IF Len(c) = 0 THEN NULL ELSE c[1]
  <2>1. Len(d) >= 1 /\ 1 \in 1..Len(d) /\ p \in Nat
    BY <1>1, <1>2
  <2>2. r.buckets[b].hh_head = IF d[1] = e THEN t.hh_next[e] ELSE d[1]
    BY <1>1, <2>1 DEF Deleted
  <2>3. d[1] = e <=> p = 1
    BY <1>1, <1>2, <2>1 DEF IsInjective
  <2>4. t.hh_next[e] = IF p = Len(d) THEN NULL ELSE d[p + 1]
    BY <1>1, <1>2 DEF Linked
  <2>5. CASE p = 1
    <3>1. Len(c) = 0 <=> Len(d) = 1
      BY <1>1, <1>4, <2>1
    <3>2. Len(c) # 0 => c[1] = d[2]
      <4>1. SUFFICES ASSUME Len(c) # 0  PROVE c[1] = d[2]
        OBVIOUS
      <4>2. 1 \in 1..(Len(d) - 1) /\ ~(1 < p) /\ 1 + 1 = 2
        BY <1>1, <1>4, <2>1, <2>5, <4>1
      <4>. QED  BY <1>4, <4>2
    <3>3. r.buckets[b].hh_head = IF Len(d) = 1 THEN NULL ELSE d[2]
      BY <2>2, <2>3, <2>4, <2>5
    <3>. QED  BY <3>1, <3>2, <3>3
  <2>6. CASE p # 1
    <3>1. 1 < p /\ 1 \in 1..(Len(d) - 1) /\ Len(c) # 0
      BY <1>1, <1>2, <1>4, <2>1, <2>6
    <3>2. c[1] = d[1]
      BY <1>4, <3>1
    <3>. QED  BY <2>2, <2>3, <2>6, <3>1, <3>2
  <2>. QED  BY <2>5, <2>6
<1>12. Linked(c, r.hh_next, r.hh_prev)
  BY <1>7, <1>9
<1>. QED  BY <1>4, <1>5, <1>10, <1>11, <1>12 DEF IsChain

\* DeleteInBucket takes the item out of its chain and leaves the others as they
\* were.
LEMMA DeleteHolds ==
  ASSUME NEW n \in Nat, n > 0, NEW t, NEW M \in SUBSET Items, Holds(t, n, M),
         NEW e \in M, t.num_items > 0, Growing(t), Bounded(t, n),
         NEW r, r = DeleteInBucket(t, e)
  PROVE  /\ Holds(r, n, M \ {e})
         /\ r.num_items = t.num_items - 1
         /\ Growing(r) /\ Bounded(r, n)
<1>1. /\ t \in Tables(n) /\ \A y \in M : t.key[y] \in Keys
      /\ e \in Items /\ t.key[e] \in Keys
  BY DEF Holds
<1>2. PICK b : b = Hash[t.key[e]] % n
  OBVIOUS
<1>3. b \in 0..(n - 1)
  <2>1. Hash[t.key[e]] \in Nat
    BY <1>1, HashAssumption
  <2>. QED  BY <1>2, <2>1
<1>4. PICK d : IsChain(t, b, d) /\ Range(d) = Belong(t, n, M, b)
  BY <1>3 DEF Holds
<1>5. e \in Range(d)
  BY <1>2, <1>4 DEF Belong
<1>6. /\ d \in Seq(Items) /\ IsInjective(d) /\ Len(d) \in Nat /\ DOMAIN d = 1..Len(d)
      /\ t.buckets[b].count = Len(d)
      /\ Linked(d, t.hh_next, t.hh_prev)
  BY <1>4, ChainFacts
<1>7. t.buckets[b].count > 0
  BY <1>5, <1>6 DEF Range
<1>8. Deleted(r, t, n, b, e)
  BY <1>1, <1>2, <1>7, DeleteFields
<1>9. \E c : IsChain(r, b, c) /\ Range(c) = Belong(t, n, M, b) \ {e}
  BY <1>1, <1>4, <1>5, <1>8, DeletedChain
<1>10. t.hh_next[e] \in Belong(t, n, M, b) \cup {NULL}
       /\ t.hh_prev[e] \in Belong(t, n, M, b) \cup {NULL}
  <2>1. PICK p \in 1..Len(d) : e = d[p]
    BY <1>5, <1>6 DEF Range
  <2>2. /\ t.hh_next[e] = IF p = Len(d) THEN NULL ELSE d[p + 1]
        /\ t.hh_prev[e] = IF p = 1 THEN NULL ELSE d[p - 1]
    BY <1>6, <2>1 DEF Linked
  <2>3. (p # Len(d) => p + 1 \in DOMAIN d) /\ (p # 1 => p - 1 \in DOMAIN d)
    <3>1. PICK m \in Nat : m = Len(d)
      BY <1>6
    <3>2. p \in 1..m
      BY <3>1
    <3>3. (p # m => p + 1 \in 1..m) /\ (p # 1 => p - 1 \in 1..m)
      BY <3>2
    <3>. QED  BY <1>6, <3>1, <3>3
  <2>. QED  BY <1>4, <2>2, <2>3 DEF Range
<1>11. ASSUME NEW x \in 0..(n - 1), x # b
       PROVE  \E c : IsChain(r, x, c) /\ Range(c) = Belong(t, n, M, x)
  <2>1. PICK c : IsChain(t, x, c) /\ Range(c) = Belong(t, n, M, x)
    BY DEF Holds
  <2>2. c \in Seq(Items) /\ Linked(c, t.hh_next, t.hh_prev)
    BY <2>1 DEF IsChain
  <2>3. \A y \in Range(c) : y \in Items \ {e} /\ y # t.hh_next[e] /\ y # t.hh_prev[e]
    <3>1. NULL \notin M
      BY HashAssumption
    <3>2. \A y \in Range(c) : y \in Items /\ y \notin Belong(t, n, M, b) /\ y # NULL
      BY <1>11, <2>1, <3>1 DEF Belong
    <3>3. e \in Belong(t, n, M, b)
      BY <1>4, <1>5
    <3>. QED  BY <1>10, <3>2, <3>3
  <2>4. \A y \in Range(c) : r.hh_next[y] = t.hh_next[y] /\ r.hh_prev[y] = t.hh_prev[y]
    BY <1>8, <2>3 DEF Deleted
  <2>5. Linked(c, r.hh_next, r.hh_prev)
    BY <2>2, <2>4, LinksElsewhere
  <2>6. r.buckets[x] = t.buckets[x]
    BY <1>8, <1>11 DEF Deleted
  <2>7. IsChain(r, x, c)
    BY <2>1, <2>5, <2>6 DEF IsChain
  <2>. QED  BY <2>1, <2>7
<1>12. \A y \in M \ {e} : r.key[y] = t.key[y]
  BY <1>8 DEF Deleted
<1>13. ASSUME NEW x \in 0..(n - 1)
       PROVE  \E c : IsChain(r, x, c) /\ Range(c) = Belong(r, n, M \ {e}, x)
  <2>1. x = b => Belong(r, n, M \ {e}, x) = Belong(t, n, M, b) \ {e}
    BY <1>12 DEF Belong
  <2>2. x # b => Belong(r, n, M \ {e}, x) = Belong(t, n, M, x)
    BY <1>2, <1>12 DEF Belong
  <2>. QED  BY <1>9, <1>11, <2>1, <2>2
<1>14. Holds(r, n, M \ {e})
  <2>1. r \in Tables(n)
    BY <1>8 DEF Deleted
  <2>2. \A y \in M \ {e} : r.key[y] \in Keys
    BY <1>1, <1>12
  <2>. QED  BY <1>13, <2>1, <2>2 DEF Holds
<1>15. /\ r.num_items = t.num_items - 1 /\ r.noexpand = t.noexpand
       /\ r.ineff_expands = t.ineff_expands /\ r.ideal_chain_maxlen = t.ideal_chain_maxlen
  BY <1>8 DEF Deleted
<1>16. Growing(r)
  BY <1>15 DEF Growing
<1>17. Bounded(r, n)
  <2>1. SUFFICES ASSUME ~t.noexpand, NEW x \in 0..(n - 1)
                 PROVE  \/ r.buckets[x].count < Limit(r.buckets[x])
                        \/ r.buckets[x].count
                             <= (r.buckets[x].expand_mult + 1) * r.ideal_chain_maxlen
    BY <1>15 DEF Bounded
  <2>2. \/ t.buckets[x].count < Limit(t.buckets[x])
        \/ t.buckets[x].count <= (t.buckets[x].expand_mult + 1) * t.ideal_chain_maxlen
    BY <2>1 DEF Bounded
  <2>3. CASE x # b
    <3>1. r.buckets[x] = t.buckets[x]
      BY <1>8, <2>3 DEF Deleted
    <3>. QED  BY <1>15, <2>2, <3>1
  <2>4. CASE x = b
    <3>1. r.buckets[x].count = t.buckets[x].count - 1
          /\ r.buckets[x].expand_mult = t.buckets[x].expand_mult
      BY <1>8, <2>4 DEF Deleted
    <3>2. PICK v : v = (t.buckets[x].expand_mult + 1) * t.ideal_chain_maxlen
      OBVIOUS
    <3>3. t.buckets[x] \in Bucket /\ t.ideal_chain_maxlen \in Nat
      BY <1>1 DEF Tables
    <3>4. t.buckets[x].count \in Nat /\ t.buckets[x].expand_mult \in Nat
      BY <3>3 DEF Bucket
    <3>5. v \in Nat /\ Limit(t.buckets[x]) \in Nat
      BY <3>2, <3>3, <3>4, HashAssumption DEF Limit
    <3>6. Limit(r.buckets[x]) = Limit(t.buckets[x])
      BY <3>1 DEF Limit
    <3>7. (r.buckets[x].expand_mult + 1) * r.ideal_chain_maxlen = v
      BY <1>15, <3>1, <3>2
    <3>. QED  BY <2>2, <3>1, <3>2, <3>4, <3>5, <3>6, <3>7
  <2>. QED  BY <2>3, <2>4
<1>. QED  BY <1>14, <1>15, <1>16, <1>17

-----------------------------------------------------------------------------
(* The invariant of the table *)

\* A table that holds the items M, may yet grow and has chains within bounds
Sound(t, M) ==
  /\ Growing(t)
  /\ \E n \in Nat : n > 0 /\ Holds(t, n, M) /\ Bounded(t, n)

\* The table holds the items of the list, counts them, and has given up expanding
\* or has chains within bounds; the loop variables are pointers.
TableInv ==
  /\ ListInv
  /\ el \in Pointer /\ tmp \in Pointer
  /\ tbl.num_items = Len(order)
  /\ Sound(tbl, Range(order))

\* HASH_MAKE_TABLE makes one that holds nothing.
LEMMA NewTableSound == Sound(NewTable, {}) /\ NewTable.num_items = 0
<1>1. InitialBuckets \in Nat /\ InitialBuckets > 0
  BY HashAssumption
<1>2. PICK bkts : bkts = [b \in 0..(InitialBuckets - 1) |-> EmptyBucket]
  OBVIOUS
<1>3. PICK links : links = NoLinks
  OBVIOUS
<1>4. NewTable = [buckets |-> bkts, hh_next |-> links, hh_prev |-> links, key |-> links,
                  num_items |-> 0, ideal_chain_maxlen |-> 0, nonideal_items |-> 0,
                  ineff_expands |-> 0, noexpand |-> FALSE]
  BY <1>2, <1>3 DEF NewTable
<1>5. /\ links \in [Items -> Pointer] /\ links \in [Items -> Keys \cup {NULL}]
      /\ bkts \in [0..(InitialBuckets - 1) -> Bucket]
  <2>1. EmptyBucket \in Bucket
    BY DEF EmptyBucket, Bucket, Pointer
  <2>. QED  BY <1>2, <1>3, <2>1 DEF NoLinks, Pointer
<1>6. PICK s : s = NewTable
  OBVIOUS
<1>7. s \in Tables(InitialBuckets)
  BY <1>4, <1>5, <1>6 DEF Tables
<1>8. /\ s.buckets = bkts /\ s.num_items = 0 /\ s.ineff_expands = 0
  BY <1>4, <1>6
<1>9. \A b \in 0..(InitialBuckets - 1) : /\ s.buckets[b].hh_head = NULL
                                         /\ s.buckets[b].count = 0
                                         /\ s.buckets[b].expand_mult = 0
  BY <1>2, <1>8 DEF EmptyBucket
<1>10. Holds(s, InitialBuckets, {})
  BY <1>7, <1>9, EmptyHolds
<1>11. Bounded(s, InitialBuckets)
  <2>1. \A b \in 0..(InitialBuckets - 1) : s.buckets[b].count < Limit(s.buckets[b])
    BY <1>9, HashAssumption DEF Limit
  <2>. QED  BY <2>1 DEF Bounded
<1>12. Growing(s)
  BY <1>8 DEF Growing
<1>. QED  BY <1>1, <1>6, <1>8, <1>10, <1>11, <1>12 DEF Sound

\* Adding an item to a sound table gives one that holds it too.
LEMMA AddSound ==
  ASSUME NEW t, NEW M \in SUBSET Items, Sound(t, M), NEW e \in Items \ M, NEW k \in Keys
  PROVE  /\ Sound(AddToTable(t, e, k), M \cup {e})
         /\ AddToTable(t, e, k).num_items = t.num_items + 1
<1>1. PICK N \in Nat : N > 0 /\ Holds(t, N, M) /\ Bounded(t, N)
  BY DEF Sound
<1>2. PICK r : r = AddToTable(t, e, k)
  OBVIOUS
<1>3. Growing(t)
  BY DEF Sound
<1>4. /\ r.num_items = t.num_items + 1 /\ Growing(r)
      /\ \E n \in Nat : n > 0 /\ Holds(r, n, M \cup {e}) /\ Bounded(r, n)
  BY <1>1, <1>2, <1>3, AddToTableHolds
<1>. QED  BY <1>2, <1>4 DEF Sound

\* Deleting one gives a table that holds the others.
LEMMA DeleteSound ==
  ASSUME NEW t, NEW M \in SUBSET Items, Sound(t, M), NEW e \in M, t.num_items > 0
  PROVE  /\ Sound(DeleteInBucket(t, e), M \ {e})
         /\ DeleteInBucket(t, e).num_items = t.num_items - 1
<1>1. PICK n \in Nat : n > 0 /\ Holds(t, n, M) /\ Bounded(t, n)
  BY DEF Sound
<1>2. PICK r : r = DeleteInBucket(t, e)
  OBVIOUS
<1>3. Growing(t)
  BY DEF Sound
<1>4. /\ Holds(r, n, M \ {e}) /\ r.num_items = t.num_items - 1
      /\ Growing(r) /\ Bounded(r, n)
  BY <1>1, <1>2, <1>3, DeleteHolds
<1>. QED  BY <1>1, <1>2, <1>4 DEF Sound

\* The list as a set of items
LEMMA ListItems ==
  ASSUME ListInv
  PROVE  /\ Range(order) \in SUBSET Items
         /\ Len(order) \in Nat
         /\ head = NULL => Range(order) = {} /\ Len(order) = 0
BY ListFacts DEF Range

\* HASH_ADD keeps the invariant: a first item goes into a new table.
LEMMA AddKeepsTable ==
  ASSUME TableInv, NEW e \in Items, NEW k \in Keys, HASH_ADD(e, k)
  PROVE  tbl'.num_items = Len(order') /\ Sound(tbl', Range(order'))
<1>1. ListInv /\ tbl.num_items = Len(order) /\ Sound(tbl, Range(order))
  BY DEF TableInv
<1>2. order \in Seq(Items) /\ IsInjective(order)
  BY <1>1 DEF ListInv, ListInOrder
<1>3. /\ Range(order) \in SUBSET Items /\ Len(order) \in Nat
      /\ head = NULL => Range(order) = {} /\ Len(order) = 0
  BY <1>1, ListItems
<1>4. e \notin Range(order) /\ order' = Append(order, e)
  BY DEF HASH_ADD
<1>5. Range(order') = Range(order) \cup {e} /\ Len(order') = Len(order) + 1
  BY <1>2, <1>4, AppendNewInjective, AppendProperties
<1>6. CASE head = NULL
  <2>1. tbl' = AddToTable(NewTable, e, k)
    BY <1>6 DEF HASH_ADD
  <2>2. PICK M : M = {}
    OBVIOUS
  <2>3. M \in SUBSET Items /\ e \in Items \ M /\ Sound(NewTable, M)
    BY <2>2, NewTableSound
  <2>4. /\ Sound(AddToTable(NewTable, e, k), M \cup {e})
        /\ AddToTable(NewTable, e, k).num_items = NewTable.num_items + 1
    BY <2>3, AddSound
  <2>. QED  BY <1>3, <1>5, <1>6, <2>1, <2>2, <2>4, NewTableSound
<1>7. CASE head # NULL
  <2>1. tbl' = AddToTable(tbl, e, k)
    BY <1>7 DEF HASH_ADD
  <2>2. /\ Sound(AddToTable(tbl, e, k), Range(order) \cup {e})
        /\ AddToTable(tbl, e, k).num_items = tbl.num_items + 1
    BY <1>1, <1>3, <1>4, AddSound
  <2>. QED  BY <1>1, <1>5, <2>1, <2>2
<1>. QED  BY <1>6, <1>7

\* HASH_DELETE_HH keeps it: with its last item the table is freed.
LEMMA DeleteKeepsTable ==
  ASSUME TableInv, NEW e \in Range(order), HASH_DELETE_HH(e)
  PROVE  tbl'.num_items = Len(order') /\ Sound(tbl', Range(order'))
<1>1. ListInv /\ tbl.num_items = Len(order) /\ Sound(tbl, Range(order))
  BY DEF TableInv
<1>2. order \in Seq(Items) /\ IsInjective(order) /\ ListInOrder
  BY <1>1 DEF ListInv, ListInOrder
<1>3. /\ Len(order) \in Nat /\ DOMAIN order = 1..Len(order)
      /\ \A i \in 1..Len(order) : order[i] \in Items /\ order[i] # NULL
  BY <1>1, ListFacts
<1>4. PICK p \in 1..Len(order) : p = Place(e) /\ order[p] = e
  BY <1>1, ListFacts
<1>5. order' = RemoveAt(order, p)
  BY <1>4 DEF HASH_DELETE_HH
<1>6. Range(order') = Range(order) \ {e} /\ Len(order') = Len(order) - 1
      /\ order' \in Seq(Items)
  BY <1>2, <1>4, <1>5, RemoveAtElements, RemoveAtKeepsInjective
<1>7. Range(order) \in SUBSET Items
  BY <1>1, ListItems
<1>8. CASE DeleteLast(e)
  <2>1. next[e] = NULL /\ prev[e] = NULL /\ tbl' = NewTable
    BY <1>8 DEF DeleteLast
  <2>2. p = Len(order) /\ p = 1
    <3>1. /\ next[e] = IF p = Len(order) THEN NULL ELSE order[p + 1]
          /\ prev[e] = IF p = 1 THEN NULL ELSE order[p - 1]
      BY <1>2, <1>4 DEF ListInOrder
    <3>2. /\ p # Len(order) => p + 1 \in 1..Len(order)
          /\ p # 1 => p - 1 \in 1..Len(order)
      BY <1>3, <1>4
    <3>. QED  BY <1>3, <2>1, <3>1, <3>2
  <2>3. Len(order') = 0 /\ Range(order') = {}
    <3>1. Len(order') = 0
      BY <1>6, <2>2
    <3>2. order' = <<>>
      BY <1>6, <3>1, EmptySeq
    <3>. QED  BY <3>1, <3>2 DEF Range
  <2>. QED  BY <2>1, <2>3, NewTableSound
<1>9. CASE Unlink(e)
  <2>1. tbl' = DeleteInBucket(tbl, e)
    BY <1>9 DEF Unlink
  <2>2. tbl.num_items > 0
    BY <1>1, <1>3, <1>4
  <2>3. /\ Sound(DeleteInBucket(tbl, e), Range(order) \ {e})
        /\ DeleteInBucket(tbl, e).num_items = tbl.num_items - 1
    BY <1>1, <1>7, <2>2, DeleteSound
  <2>. QED  BY <1>1, <1>6, <2>1, <2>3
<1>. QED  BY <1>8, <1>9 DEF HASH_DELETE_HH

\* At first nothing is held.
LEMMA InitTable == Init => TableInv
<1>. SUFFICES ASSUME Init  PROVE TableInv
  OBVIOUS
<1>1. ListInv
  BY InitList
<1>2. el = NULL /\ tmp = NULL /\ order = <<>> /\ tbl = NewTable
  BY DEF Init
<1>3. Range(<<>>) = {} /\ Len(<<>>) = 0
  BY DEF Range
<1>. QED  BY <1>1, <1>2, <1>3, NewTableSound DEF TableInv, Pointer

\* The table invariant survives every macro and every step of a loop.
LEMMA TableStep == TableInv /\ [Next]_vars => TableInv'
<1>. SUFFICES ASSUME TableInv, [Next]_vars  PROVE TableInv'
  OBVIOUS
<1>1. /\ ListInv /\ el \in Pointer /\ tmp \in Pointer
      /\ tbl.num_items = Len(order) /\ Sound(tbl, Range(order))
  BY DEF TableInv
<1>2. /\ ListInv'
      /\ next \in [Items -> Pointer] /\ next' \in [Items -> Pointer]
      /\ head \in Pointer
  <2>1. ListInv'
    BY <1>1, ListStep
  <2>. QED  BY <1>1, <2>1 DEF ListInv
<1>3. Pointer = Items \cup {NULL}
  BY DEF Pointer
<1>4. ASSUME NEW e \in Items, NEW k \in Keys, HASH_ADD(e, k)  PROVE TableInv'
  <2>1. tbl'.num_items = Len(order') /\ Sound(tbl', Range(order'))
    BY <1>4, AddKeepsTable
  <2>2. el' = el /\ tmp' = tmp
    BY <1>4 DEF HASH_ADD, loopVars
  <2>. QED  BY <1>1, <1>2, <2>1, <2>2 DEF TableInv
<1>5. ASSUME NEW e \in Items, HASH_DEL(e)  PROVE TableInv'
  <2>1. e \in Range(order) /\ HASH_DELETE_HH(e) /\ el' = el /\ tmp' = tmp
    BY <1>5 DEF HASH_DEL, loopVars
  <2>2. tbl'.num_items = Len(order') /\ Sound(tbl', Range(order'))
    BY <2>1, DeleteKeepsTable
  <2>. QED  BY <1>1, <1>2, <2>1, <2>2 DEF TableInv
<1>6. CASE IterBegin
  <2>1. /\ el' = head /\ (head = NULL => tmp' = NULL)
        /\ (head # NULL => tmp' = next[head]) /\ order' = order /\ tbl' = tbl
    BY <1>6 DEF IterBegin, listVars
  <2>2. el' \in Pointer /\ tmp' \in Pointer
    BY <1>2, <1>3, <2>1
  <2>. QED  BY <1>1, <1>2, <2>1, <2>2 DEF TableInv
<1>7. CASE IterDelete
  <2>1. /\ HASH_DELETE_HH(el) /\ el' = tmp /\ (tmp = NULL => tmp' = NULL)
        /\ (tmp # NULL => tmp' = next'[tmp])
    BY <1>7 DEF IterDelete
  <2>2. el \in Range(order)
    <3>1. order # <<>> /\ el = order[1]
      BY <1>1, <1>7 DEF ListInv, IterDelete
    <3>2. 1 \in DOMAIN order
      BY <1>1, <3>1, ListFacts
    <3>. QED  BY <3>1, <3>2 DEF Range
  <2>3. tbl'.num_items = Len(order') /\ Sound(tbl', Range(order'))
    BY <2>1, <2>2, DeleteKeepsTable
  <2>4. el' \in Pointer /\ tmp' \in Pointer
    BY <1>1, <1>2, <1>3, <2>1
  <2>. QED  BY <1>2, <2>3, <2>4 DEF TableInv
<1>8. CASE IterBreak
  <2>1. el' = NULL /\ tmp' = NULL /\ order' = order /\ tbl' = tbl
    BY <1>8 DEF IterBreak, listVars
  <2>. QED  BY <1>1, <1>2, <1>3, <2>1 DEF TableInv
<1>9. CASE UNCHANGED vars
  <2>1. el' = el /\ tmp' = tmp /\ order' = order /\ tbl' = tbl
    BY <1>9 DEF vars, listVars, loopVars
  <2>. QED  BY <1>1, <1>2, <2>1 DEF TableInv
<1>. QED  BY <1>4, <1>5, <1>6, <1>7, <1>8, <1>9 DEF Next

\* In every reachable state the buckets hold the items of the list, in chains that
\* are within bounds until the table gives up expanding (uthash.h:526-573, 926-976).
THEOREM TableAlwaysSound == Spec => []TableInv
BY InitTable, TableStep, PTL DEF Spec

-----------------------------------------------------------------------------
(* What it says of the runs' properties *)

\* The types of the table, in which all chains are those of as many buckets as
\* there are
THEOREM HashTypes == Spec => []HashTypeOK
<1>1. TableInv => HashTypeOK
  <2>. SUFFICES ASSUME TableInv  PROVE HashTypeOK
    OBVIOUS
  <2>1. ListInv /\ el \in Pointer /\ tmp \in Pointer /\ Sound(tbl, Range(order))
    BY DEF TableInv
  <2>2. PICK n \in Nat : Holds(tbl, n, Range(order))
    BY <2>1 DEF Sound
  <2>3. tbl \in Tables(n)
    BY <2>2 DEF Holds
  <2>4. NumBuckets(tbl) = n
    BY <2>3, NumBucketsIs DEF Tables
  <2>. QED  BY <2>1, <2>3, <2>4 DEF ListInv, HashTypeOK
<1>. QED  BY <1>1, TableAlwaysSound, PTL

\* "So by expanding buckets the hash keeps a bound on the chain length", until it
\* gives up (uthash.h:905, 926-976), for tables of any size and any hash function.
THEOREM ChainsStayBounded == Spec => []ChainsBounded
<1>1. TableInv => ChainsBounded
  <2>. SUFFICES ASSUME TableInv  PROVE ChainsBounded
    OBVIOUS
  <2>1. PICK n \in Nat : Holds(tbl, n, Range(order)) /\ Bounded(tbl, n)
    BY DEF TableInv, Sound
  <2>2. DOMAIN tbl.buckets = 0..(n - 1)
    BY <2>1 DEF Holds, Tables
  <2>. QED  BY <2>1, <2>2 DEF Bounded, ChainsBounded
<1>. QED  BY <1>1, TableAlwaysSound, PTL

\* HASH_FIND comes to an item of that key, if the table has one.
LEMMA FindFinds ==
  ASSUME ListInv, NEW n \in Nat, n > 0, Holds(tbl, n, Range(order)), NEW k \in Keys,
         NEW e, e = HASH_FIND(k)
  PROVE  IF e = NULL THEN \A i \in DOMAIN order : tbl.key[order[i]] # k
         ELSE e \in Range(order) /\ tbl.key[e] = k
<1>1. tbl \in Tables(n)
  BY DEF Holds
<1>2. NumBuckets(tbl) = n
  BY <1>1, NumBucketsIs DEF Tables
<1>3. PICK b : b = Hash[k] % n
  OBVIOUS
<1>4. b \in 0..(n - 1)
  <2>1. Hash[k] \in Nat
    BY HashAssumption
  <2>. QED  BY <1>3, <2>1
<1>5. PICK c : IsChain(tbl, b, c) /\ Range(c) = Belong(tbl, n, Range(order), b)
  BY <1>4 DEF Holds
<1>6. Chain(tbl, b) = c
  BY <1>5, ChainIs
<1>7. PICK hits : hits = {i \in DOMAIN c : tbl.key[c[i]] = k}
  OBVIOUS
<1>8. e = IF head = NULL \/ hits = {} THEN NULL ELSE c[Min(hits)]
  BY <1>2, <1>3, <1>6, <1>7 DEF HASH_FIND, HASH_TO_BKT
<1>9. NULL \notin Range(order)
  BY ListItems, HashAssumption
<1>10. CASE head = NULL
  <2>1. e = NULL
    BY <1>8, <1>10
  <2>2. DOMAIN order = {}
    BY <1>10, ListFacts
  <2>. QED  BY <2>1, <2>2
<1>11. CASE hits = {}
  <2>1. e = NULL
    BY <1>8, <1>11
  <2>2. ASSUME NEW i \in DOMAIN order, tbl.key[order[i]] = k  PROVE FALSE
    <3>1. order[i] \in Range(order)
      BY DEF Range
    <3>2. order[i] \in Range(c)
      BY <1>3, <1>5, <2>2, <3>1 DEF Belong
    <3>3. PICK j \in DOMAIN c : c[j] = order[i]
      BY <3>2 DEF Range
    <3>. QED  BY <1>7, <1>11, <2>2, <3>3
  <2>. QED  BY <2>1, <2>2
<1>12. CASE head # NULL /\ hits # {}
  <2>1. hits \in SUBSET Nat
    <3>1. DOMAIN c = 1..Len(c) /\ Len(c) \in Nat
      BY <1>5, ChainFacts
    <3>. QED  BY <1>7, <3>1
  <2>2. \E m \in hits : \A x \in hits : m <= x
    BY <1>12, <2>1, SmallestNat
  <2>3. Min(hits) \in hits
    BY <2>2 DEF Min
  <2>4. e = c[Min(hits)]
    BY <1>8, <1>12
  <2>5. e \in Range(c) /\ tbl.key[e] = k
    BY <1>7, <2>3, <2>4 DEF Range
  <2>6. e \in Range(order)
    BY <1>5, <2>5 DEF Belong
  <2>. QED  BY <1>9, <2>5, <2>6
<1>. QED  BY <1>10, <1>11, <1>12

\* The chains hold the items of the list, each in the bucket of its key, and HASH_FIND
\* finds one of a key exactly when there is one (uthash.h:176-184, 526-573, 926-976).
THEOREM ChainsHold == Spec => []ChainsHoldItems
<1>1. TableInv => ChainsHoldItems
  <2>. SUFFICES ASSUME TableInv  PROVE ChainsHoldItems
    OBVIOUS
  <2>1. ListInv /\ tbl.num_items = Len(order) /\ Sound(tbl, Range(order))
    BY DEF TableInv
  <2>2. PICK n \in Nat : n > 0 /\ Holds(tbl, n, Range(order))
    BY <2>1 DEF Sound
  <2>3. tbl \in Tables(n) /\ DOMAIN tbl.buckets = 0..(n - 1)
    BY <2>2 DEF Holds, Tables
  <2>4. NumBuckets(tbl) = n
    BY <2>2, <2>3, NumBucketsIs
  <2>5. ASSUME NEW b \in DOMAIN tbl.buckets, NEW d, d = Chain(tbl, b)
        PROVE  /\ tbl.buckets[b].count = Len(d)
               /\ \A i \in DOMAIN d : tbl.hh_prev[d[i]] = IF i = 1 THEN NULL ELSE d[i - 1]
               /\ Range(d) = {e \in Range(order) : HASH_TO_BKT(tbl, tbl.key[e]) = b}
    <3>1. PICK c : IsChain(tbl, b, c) /\ Range(c) = Belong(tbl, n, Range(order), b)
      BY <2>2, <2>3 DEF Holds
    <3>2. d = c
      BY <2>5, <3>1, ChainIs
    <3>3. Belong(tbl, n, Range(order), b)
            = {e \in Range(order) : HASH_TO_BKT(tbl, tbl.key[e]) = b}
      BY <2>4 DEF Belong, HASH_TO_BKT
    <3>4. /\ tbl.buckets[b].count = Len(c) /\ DOMAIN c = 1..Len(c)
          /\ Linked(c, tbl.hh_next, tbl.hh_prev)
      BY <3>1, ChainFacts
    <3>. QED  BY <3>1, <3>2, <3>3, <3>4 DEF Linked
  <2>6. ASSUME NEW k \in Keys, NEW e, e = HASH_FIND(k)
        PROVE  IF e = NULL THEN \A i \in DOMAIN order : tbl.key[order[i]] # k
               ELSE e \in Range(order) /\ tbl.key[e] = k
    BY <2>1, <2>2, <2>6, FindFinds
  <2>. QED  BY <2>1, <2>5, <2>6 DEF ChainsHoldItems
<1>. QED  BY <1>1, TableAlwaysSound, PTL
=====
