------------------------------- MODULE Uthash -------------------------------
(***************************************************************************)
(* The macros of src/jni/src/uthash.h that unbound4j.c expands, on one     *)
(* table: HASH_ADD, HASH_DEL, HASH_FIND, and the HASH_ITER loops that      *)
(* delete each item they visit.  A table is a list in the order of         *)
(* addition, linked both ways, and chains of the same items in buckets.    *)
(*                                                                         *)
(* The caller's lock makes each macro a step.  A deleted item is freed, so *)
(* its handle goes back to NULL and it may come again as a new one.        *)
(***************************************************************************)
EXTENDS Integers, FiniteSets, SequencesExt

CONSTANTS
  Items,     \* the structures that may be in the table
  Keys,      \* the values of their id
  Hash,      \* Hash[k]: HASH_FCN of the key
  NULL,
  InitialBuckets,  \* HASH_INITIAL_NUM_BUCKETS
  Capacity,        \* HASH_BKT_CAPACITY_THRESH
  MaxBuckets       \* bound: the buckets of a table that may still grow but is not added to

ASSUME HashAssumption ==
  /\ IsFiniteSet(Items)
  /\ NULL \notin Items \cup Keys
  /\ Hash \in [Keys -> Nat]
  /\ InitialBuckets \in Nat \ {0}
  /\ Capacity \in Nat \ {0}
  /\ MaxBuckets \in Nat

VARIABLES
  head,   \* the program's pointer to the table, its first item
  tail,   \* tbl->tail
  next,   \* next[e], prev[e]: the neighbours of e in order of addition
  prev,
  tbl,    \* the rest of the table, with the keys and chain links of the items
  order,  \* history: the items added and not deleted, in order of addition
  el,     \* the two variables of HASH_ITER; el is NULL outside of a loop
  tmp

listVars == <<head, tail, next, prev, order>>
loopVars == <<el, tmp>>
vars == <<listVars, tbl, loopVars>>

Pointer == Items \cup {NULL}

Bucket == [hh_head : Pointer, count : Nat, expand_mult : Nat]

EmptyBucket == [hh_head |-> NULL, count |-> 0, expand_mult |-> 0]

NoLinks == [e \in Items |-> NULL]

\* HASH_MAKE_TABLE
NewTable ==
  [buckets |-> [b \in 0..(InitialBuckets - 1) |-> EmptyBucket],
   hh_next |-> NoLinks, hh_prev |-> NoLinks, key |-> NoLinks,
   num_items |-> 0, ideal_chain_maxlen |-> 0, nonideal_items |-> 0,
   ineff_expands |-> 0, noexpand |-> FALSE]

NumBuckets(t) == Cardinality(DOMAIN t.buckets)

Tables(n) ==
  [buckets : [0..(n - 1) -> Bucket],
   hh_next : [Items -> Pointer], hh_prev : [Items -> Pointer], key : [Items -> Keys \cup {NULL}],
   num_items : Nat, ideal_chain_maxlen : Nat, nonideal_items : Nat,
   ineff_expands : 0..2, noexpand : BOOLEAN]

HashTypeOK ==
  /\ head \in Pointer /\ tail \in Pointer /\ el \in Pointer /\ tmp \in Pointer
  /\ next \in [Items -> Pointer] /\ prev \in [Items -> Pointer]
  /\ order \in Seq(Items)
  /\ tbl \in Tables(NumBuckets(tbl))

Init ==
  /\ head = NULL /\ tail = NULL
  /\ next = NoLinks /\ prev = NoLinks
  /\ tbl = NewTable
  /\ order = <<>>
  /\ el = NULL /\ tmp = NULL

-----------------------------------------------------------------------------
(* Chains *)

HASH_TO_BKT_Unexpanded(t, k) == Hash[k] % InitialBuckets

HASH_TO_BKT(t, k) == Hash[k] % NumBuckets(t)

\* The items of bucket b, as hh_next leads through them
Chain(t, b) ==
  LET behind(e) == IF e = NULL THEN NULL ELSE t.hh_next[e]
      at[n \in 1..Cardinality(Items)] ==
        IF n = 1 THEN t.buckets[b].hh_head ELSE behind(at[n - 1])
  IN  [n \in 1..Cardinality({m \in DOMAIN at : at[m] # NULL}) |-> at[n]]

PutFirst(t, b, e) ==
  LET bucket == t.buckets[b]
      old == bucket.hh_head
  IN  [t EXCEPT !.buckets[b] = [hh_head |-> e, count |-> bucket.count + 1,
                                expand_mult |-> bucket.expand_mult],
                !.hh_next[e] = old,
                !.hh_prev = [x \in Items |-> IF x = e THEN NULL
                                             ELSE IF x = old THEN e ELSE @[x]]]

Expand_ForgetsChains(t) ==
  [t EXCEPT !.buckets = [b \in 0..(2 * NumBuckets(t) - 1) |->
     IF b < NumBuckets(t) THEN t.buckets[b] ELSE EmptyBucket]]

\* An item goes to its bucket of the new ones; where it makes the chain longer
\* than ideal, the bucket becomes slower to ask for the next expansion.
Move(t, e) ==
  LET b == Hash[t.key[e]] % NumBuckets(t)
      r == PutFirst(t, b, e)
      count == r.buckets[b].count
      ideal == r.ideal_chain_maxlen
  IN  IF count <= ideal THEN r
      ELSE [r EXCEPT !.nonideal_items = @ + 1,
                     !.buckets[b].expand_mult = IF count > @ * ideal THEN @ + 1 ELSE @]

\* The items of a chain, from its first on
MoveChain(t, c) ==
  LET moved[i \in 0..Len(c)] == IF i = 0 THEN t ELSE Move(moved[i - 1], c[i])
  IN  moved[Len(c)]

\* Twice the buckets, to which no item was moved yet
Emptied(t) ==
  LET n == 2 * NumBuckets(t)
  IN  [t EXCEPT !.buckets = [b \in 0..(n - 1) |-> EmptyBucket],
                !.ideal_chain_maxlen = (t.num_items + n - 1) \div n,
                !.nonideal_items = 0]

\* The chains of t, one after the other
MoveAll(t) ==
  LET moved[b \in 0..NumBuckets(t)] ==
        IF b = 0 THEN Emptied(t) ELSE MoveChain(moved[b - 1], Chain(t, b - 1))
  IN  moved[NumBuckets(t)]

\* HASH_EXPAND_BUCKETS: after two expansions in a row that left over half of the
\* items in chains longer than ideal, none follows.
Expand(t) ==
  LET moved == MoveAll(t)
      ineff == IF moved.nonideal_items > t.num_items \div 2 THEN t.ineff_expands + 1 ELSE 0
  IN  [moved EXCEPT !.ineff_expands = ineff, !.noexpand = ineff > 1]

Limit(bucket) == (bucket.expand_mult + 1) * Capacity

Full_Over(bucket) == bucket.count > Limit(bucket)

Full(bucket) == bucket.count >= Limit(bucket)

\* HASH_ADD_TO_TABLE and HASH_ADD_TO_BKT
AddToTable(t, e, k) ==
  LET b == HASH_TO_BKT(t, k)
      r == PutFirst([t EXCEPT !.key[e] = k, !.num_items = @ + 1], b, e)
  IN  IF Full(r.buckets[b]) /\ ~r.noexpand THEN Expand(r) ELSE r

\* HASH_DEL_IN_BKT; the links of e are gone with it.
DeleteInBucket(t, e) ==
  LET b == HASH_TO_BKT(t, t.key[e])
      bucket == t.buckets[b]
      before == t.hh_prev[e]
      behind == t.hh_next[e]
  IN  [t EXCEPT !.buckets[b] = [hh_head |-> IF bucket.hh_head = e THEN behind
                                            ELSE bucket.hh_head,
                                count |-> bucket.count - 1,
                                expand_mult |-> bucket.expand_mult],
                !.hh_next = [x \in Items |-> IF x = e THEN NULL
                                             ELSE IF x = before THEN behind ELSE @[x]],
                !.hh_prev = [x \in Items |-> IF x = e THEN NULL
                                             ELSE IF x = behind THEN before ELSE @[x]],
                !.key[e] = NULL,
                !.num_items = @ - 1]

\* The first item of the chain with that key
HASH_FIND(k) ==
  LET c == Chain(tbl, HASH_TO_BKT(tbl, k))
      hits == {i \in DOMAIN c : tbl.key[c[i]] = k}
  IN  IF head = NULL \/ hits = {} THEN NULL ELSE c[Min(hits)]

-----------------------------------------------------------------------------
(* The list *)

HASH_APPEND_LIST_TailKept(e) ==
  /\ next' = [next EXCEPT ![e] = NULL, ![tail] = e]
  /\ prev' = [prev EXCEPT ![e] = tail]
  /\ UNCHANGED tail

HASH_APPEND_LIST(e) ==
  /\ next' = [next EXCEPT ![e] = NULL, ![tail] = e]
  /\ prev' = [prev EXCEPT ![e] = tail]
  /\ tail' = e

HASH_ADD(e, k) ==
  /\ el = NULL
  /\ e \notin Range(order)
  /\ NumBuckets(tbl) < MaxBuckets \/ tbl.noexpand
  /\ IF head = NULL
     THEN /\ next' = [next EXCEPT ![e] = NULL]
          /\ prev' = [prev EXCEPT ![e] = NULL]
          /\ head' = e
          /\ tail' = e
          /\ tbl' = AddToTable(NewTable, e, k)
     ELSE /\ HASH_APPEND_LIST(e)
          /\ tbl' = AddToTable(tbl, e, k)
          /\ UNCHANGED head
  /\ order' = Append(order, e)
  /\ UNCHANGED loopVars

\* HASH_DELETE_HH, of the only item and of one among several
DeleteLast(e) ==
  /\ prev[e] = NULL /\ next[e] = NULL
  /\ head' = NULL
  /\ tail' = NULL
  /\ tbl' = NewTable
  /\ UNCHANGED <<next, prev>>

Unlink(e) ==
  /\ ~(prev[e] = NULL /\ next[e] = NULL)
  /\ tail' = IF tail = e THEN prev[e] ELSE tail
  /\ head' = IF prev[e] = NULL THEN next[e] ELSE head
  /\ next' = [x \in Items |-> IF x = e THEN NULL ELSE IF x = prev[e] THEN next[e] ELSE next[x]]
  /\ prev' = [x \in Items |-> IF x = e THEN NULL ELSE IF x = next[e] THEN prev[e] ELSE prev[x]]
  /\ tbl' = DeleteInBucket(tbl, e)

Place(e) == CHOOSE i \in DOMAIN order : order[i] = e

HASH_DELETE_HH(e) ==
  /\ DeleteLast(e) \/ Unlink(e)
  /\ order' = RemoveAt(order, Place(e))

HASH_DEL(e) ==
  /\ el = NULL
  /\ e \in Range(order)
  /\ HASH_DELETE_HH(e)
  /\ UNCHANGED loopVars

-----------------------------------------------------------------------------
(* HASH_ITER with HASH_DEL(el) in its body (unbound4j.c:75, 399, 427) *)

IterBegin ==
  /\ el = NULL
  /\ el' = head
  /\ tmp' = IF head = NULL THEN NULL ELSE next[head]
  /\ UNCHANGED <<listVars, tbl>>

IterDelete_NextFromDeleted ==
  /\ el # NULL
  /\ HASH_DELETE_HH(el)
  /\ el' = next'[el]
  /\ tmp' = IF el' = NULL THEN NULL ELSE next'[el']

IterDelete ==
  /\ el # NULL
  /\ HASH_DELETE_HH(el)
  /\ el' = tmp
  /\ tmp' = IF tmp = NULL THEN NULL ELSE next'[tmp]

\* The first query that has not expired ends the loop.
IterBreak ==
  /\ el # NULL
  /\ el' = NULL /\ tmp' = NULL
  /\ UNCHANGED <<listVars, tbl>>

Next ==
  \/ \E e \in Items, k \in Keys : HASH_ADD(e, k)
  \/ \E e \in Items : HASH_DEL(e)
  \/ IterBegin
  \/ IterDelete
  \/ IterBreak

Spec == Init /\ [][Next]_vars

-----------------------------------------------------------------------------
(* Properties *)

\* The list leads through the items in the order they were added, forwards and
\* backwards, and tail is its end, where the next one is appended
\* (uthash.h:289-295, 472-482, 556-571).
ListInOrder ==
  /\ IsInjective(order)
  /\ head = IF order = <<>> THEN NULL ELSE order[1]
  /\ tail = IF order = <<>> THEN NULL ELSE order[Len(order)]
  /\ \A i \in 1..Len(order) :
       /\ next[order[i]] = IF i = Len(order) THEN NULL ELSE order[i + 1]
       /\ prev[order[i]] = IF i = 1 THEN NULL ELSE order[i - 1]

\* What the library checks of its chains when built with HASH_DEBUG, that the
\* items in them are those of the list, each in the bucket of its key, and that
\* HASH_FIND finds one of that key exactly when there is one, however often the
\* buckets were expanded (uthash.h:176-184, 526-573, 926-976).
ChainsHoldItems ==
  /\ tbl.num_items = Len(order)
  /\ \A b \in DOMAIN tbl.buckets :
       LET c == Chain(tbl, b)
       IN  /\ tbl.buckets[b].count = Len(c)
           /\ \A i \in DOMAIN c : tbl.hh_prev[c[i]] = IF i = 1 THEN NULL ELSE c[i - 1]
           /\ Range(c) = {e \in Range(order) : HASH_TO_BKT(tbl, tbl.key[e]) = b}
  /\ \A k \in Keys :
       LET e == HASH_FIND(k)
       IN  IF e = NULL THEN \A i \in DOMAIN order : tbl.key[order[i]] # k
           ELSE e \in Range(order) /\ tbl.key[e] = k

\* "So by expanding buckets the hash keeps a bound on the chain length"
\* (uthash.h:905): until expanding is given up, a chain is within the limit of its
\* bucket, or no longer than the last expansion expected.
ChainsBounded ==
  tbl.noexpand \/ \A b \in DOMAIN tbl.buckets :
    LET bucket == tbl.buckets[b]
    IN  \/ bucket.count < Limit(bucket)
        \/ bucket.count <= (bucket.expand_mult + 1) * tbl.ideal_chain_maxlen

Table == INSTANCE OrderedTable WITH at <- el

\* The macros implement OrderedTable: a loop that deletes what it visits comes
\* to the next item although the list was relinked or the table freed
\* (uthash.h:1153-1155).
ImplementsTable == Table!TSpec
=============================================================================
