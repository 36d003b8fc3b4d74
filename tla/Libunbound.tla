----------------------------- MODULE Libunbound -----------------------------
(***************************************************************************)
(* The part of libunbound that unbound4j.c relies on (external code, seen  *)
(* through the calls src/jni/src/unbound4j.c makes).  Every Unbound        *)
(* context numbers its own asynchronous queries, so the number alone does  *)
(* not identify a query; an answer waits until ub_process() of its context *)
(* hands it to the callback.                                               *)
(***************************************************************************)
EXTENDS Integers

CONSTANTS
  Ctxs,      \* the contexts callers may create, one per ub4j_create_context
  Queries,   \* the lookups callers may make, one per ub4j_reverse_lookup
  NoCtx      \* "no context"

VARIABLES
  ub,        \* ub[q]: what libunbound has done with query q
  ubCtx,     \* ubCtx[q]: the Unbound context q was submitted to
  ubId,      \* ubId[q]: the number that context gave it (query->id)
  nextId     \* nextId[c]: the number context c gives next

ubVars == <<ub, ubCtx, ubId, nextId>>

UbState == {"none", "pending", "answered", "delivered", "cancelled", "dropped"}

UbTypeOK ==
  /\ ub \in [Queries -> UbState]
  /\ ubCtx \in [Queries -> Ctxs \cup {NoCtx}]
  /\ ubId \in [Queries -> Nat]
  /\ nextId \in [Ctxs -> Nat]

UbInit ==
  /\ ub = [q \in Queries |-> "none"]
  /\ ubCtx = [q \in Queries |-> NoCtx]
  /\ ubId = [q \in Queries |-> 0]
  /\ nextId = [c \in Ctxs |-> 0]

\* libunbound may still hand q to the callback
UbHolds(q) == ub[q] \in {"pending", "answered"}

ub_resolve_async(c, q) ==
  /\ ub' = [ub EXCEPT ![q] = "pending"]
  /\ ubCtx' = [ubCtx EXCEPT ![q] = c]
  /\ ubId' = [ubId EXCEPT ![q] = nextId[c]]
  /\ nextId' = [nextId EXCEPT ![c] = @ + 1]

\* The resolver thread of libunbound has a result; it may never have one.
Resolved(q) ==
  /\ ub[q] = "pending"
  /\ ub' = [ub EXCEPT ![q] = "answered"]
  /\ UNCHANGED <<ubCtx, ubId, nextId>>

\* ub_process(c) takes the result of q and calls back.
HandOver(c, q) ==
  /\ ub[q] = "answered"
  /\ ubCtx[q] = c
  /\ ub' = [ub EXCEPT ![q] = "delivered"]
  /\ UNCHANGED <<ubCtx, ubId, nextId>>

\* Cancels by number: whichever query of c bears it, if any.
ub_cancel(c, id) ==
  /\ ub' = [q \in Queries |->
              IF UbHolds(q) /\ ubCtx[q] = c /\ ubId[q] = id
              THEN "cancelled" ELSE ub[q]]
  /\ UNCHANGED <<ubCtx, ubId, nextId>>

\* The context and everything it still held are gone, without a callback.
ub_ctx_delete(c) ==
  /\ ub' = [q \in Queries |->
              IF UbHolds(q) /\ ubCtx[q] = c THEN "dropped" ELSE ub[q]]
  /\ UNCHANGED <<ubCtx, ubId, nextId>>
=============================================================================
