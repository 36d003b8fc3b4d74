---------------------------- MODULE OrderedTable ----------------------------
(***************************************************************************)
(* What unbound4j.c takes a uthash table for: items in the order they were *)
(* added, to which a new one is added at the end, from which any may be    *)
(* deleted, and which a loop deletes one after the other from the front,   *)
(* up to some item; nothing else happens to the table while a loop runs.   *)
(***************************************************************************)
EXTENDS Integers, SequencesExt

CONSTANTS Items, NULL

VARIABLES
  order,  \* the items of the table
  at      \* the item a loop over the table has come to

tvars == <<order, at>>

TInit ==
  /\ order = <<>>
  /\ at = NULL

Add(e) ==
  /\ at = NULL
  /\ e \notin Range(order)
  /\ order' = Append(order, e)
  /\ UNCHANGED at

Delete(i) ==
  /\ at = NULL
  /\ order' = RemoveAt(order, i)
  /\ UNCHANGED at

First == IF order = <<>> THEN NULL ELSE order[1]

BeginLoop ==
  /\ at = NULL
  /\ at' = First
  /\ UNCHANGED order

\* The loop deletes the item it has come to and goes on to the one behind it.
DeleteAndNext ==
  /\ at # NULL
  /\ at = First
  /\ order' = RemoveAt(order, 1)
  /\ at' = First'

Break ==
  /\ at' = NULL
  /\ UNCHANGED order

TNext ==
  \/ \E e \in Items : Add(e)
  \/ \E i \in DOMAIN order : Delete(i)
  \/ BeginLoop
  \/ DeleteAndNext
  \/ Break

TSpec == TInit /\ [][TNext]_tvars
=============================================================================
