------------------------ MODULE Unbound4jProperties ------------------------
(***************************************************************************)
(* What is claimed of Unbound4j.  Three groups: what holds however the     *)
(* library is used; what holds when contexts do not overlap and none is    *)
(* closed while a lookup on it is executing (the use main.c and            *)
(* InterfaceTest.java make of it); and what the comments of the source     *)
(* say and the code does not do.                                           *)
(***************************************************************************)
EXTENDS Unbound4j

-----------------------------------------------------------------------------
(* However the library is used *)

\* A processing thread never outlives the structures it works on, and every
\* context a lookup can still find has its memory and a thread that has not
\* left its loop for good (ub4j_free_context joins before it frees, and the
\* table gives a context up before it is stopped).
ThreadsAndTableHaveContexts ==
  \A c \in Ctxs :
    /\ tpc[c] \notin {"off", "exit"} => heap[c] = {"ctx", "ub_ctx"}
    /\ c \in g_contexts => heap[c] = {"ctx", "ub_ctx"} /\ tpc[c] \notin {"off", "exit"}

\* "Stop the thread and join" (unbound4j.c:208): no context is freed under its
\* thread.  Threads that only make calls keep to it, callbacks that close the
\* context they run on do not (Reentrancy).
JoinedBeforeFreed == \A c \in Ctxs : phase[c] = "freed" => tpc[c] = "exit"

\* "Loading the configuration this way is not thread safe, so let's make sure
\* we're only loading one at a time" (unbound4j.c:124).
OneConfigLoadAtATime ==
  \A c, d \in Ctxs : phase[c] = "loading" /\ phase[d] = "loading" => c = d

\* A query object in the table was not freed and is there once: no pass over
\* g_queries meets a released or repeated node.
TableHoldsLiveQueries ==
  /\ IsInjective(g_queries)
  /\ \A q \in Tracked : memory[q] = "live"

\* When the callback of an answered query comes to HASH_DEL, the lookup that
\* submitted it has added it, although the answer may arrive before
\* ub_resolve_async returns: that is what the write lock taken before the call
\* is for (unbound4j.c:314).
AnsweredIsInTable ==
  \A c \in Ctxs :
    tpc[c] = "untrack" /\ memory[current[c]] = "live" /\ QueryLockFree
      => current[c] \in Tracked

\* The write lock of g_queries has one owner, which is exactly the lookup or
\* thread that is between acquiring and releasing it.
OneTableWriter ==
  /\ \A q \in Queries : lpc[q] \in {"locked", "submitted"} <=> queryLock = q
  /\ \A c \in Ctxs : tpc[c] \in {"expire", "clean"} <=> queryLock = c

\* The item a loop over g_queries has come to: the loops of the expiry and of the
\* clean-up are at the head of the table whenever another thread can look.
LoopAt ==
  IF g_queries # <<>> /\ \E c \in Ctxs : tpc[c] \in {"expire", "clean"}
  THEN g_queries[1] ELSE Nobody

Table == INSTANCE OrderedTable WITH
  Items <- Queries, NULL <- Nobody, order <- g_queries, at <- LoopAt

\* The library uses the table of uthash.h as it must be used: it adds no query
\* twice, deletes only what is there, and between the steps of a loop nobody adds
\* or deletes but the loop (unbound4j.c:253-261, 314-346, 391-439).  Uthash shows
\* that used so, the macros do what is said of g_queries here.
UsesTableAsSpecified == Table!TSpec

\* libunbound has accepted the lookup.
Accepted(q) == lpc[q] \in {"submitted", "ok"}

-----------------------------------------------------------------------------
(* Contexts that do not overlap, closed when their lookups have returned *)

\* The callback of a lookup is called at most once, never when the call
\* reported an error (the JNI layer throws then), and a lookup that was
\* accepted and not called back is in the table, where its time-out finds it.
CalledBackOnce ==
  \A q \in Queries :
    /\ calls[q] <= 1
    /\ lpc[q] = "err" => calls[q] = 0
    /\ lpc[q] = "ok" /\ calls[q] = 0 => q \in Tracked

\* No thread uses a context or a query object after its release.
NoUseAfterFree == fault = "none"

\* The table is ordered by expiry, so the head tells whether anything in it
\* has expired: "Peek at the head of the list and determine whether or not we
\* need to cancel any queries" (unbound4j.c:381).
HeadExpiresFirst ==
  \A q \in Tracked : expires[Head(g_queries)] <= expires[q]

\* A query the library timed out is out of libunbound's hands: "Cancel the
\* query, no callback will be made by libunbound" (unbound4j.c:403, 430).
CancelSilencesLibunbound ==
  \A q \in Queries : outcome[q] = "timeout" => ~UbHolds(q)

\* When close() has returned, no query of that context is outstanding: "Any
\* outstanding async queries are killed" (Unbound4jContext.java:20).
CloseKillsOutstanding ==
  \A c \in Ctxs : phase[c] = "freed" =>
    \A q \in Queries : ctxOf[q] = c => q \notin Tracked /\ ~UbHolds(q)

\* Closing a context tells only the callers of that context's own queries
\* that they timed out; others are timed out only when their time is over.
Service == INSTANCE LookupService WITH
  status <- [q \in Queries |-> IF Accepted(q) THEN "accepted"
                               ELSE IF lpc[q] = "err" THEN "refused" ELSE "idle"],
  owner <- [q \in Queries |-> IF Accepted(q) THEN ctxOf[q] ELSE NoCtx],
  deadline <- [q \in Queries |-> IF Accepted(q) THEN expires[q] ELSE 0],
  told <- calls,
  closing <- stopping

\* The library implements LookupService: every lookup is refused or answered
\* once, and a time-out always has its cause.  This is Service!SSpec with the
\* stutter named first, which most steps are and TLC then decides quickly; that
\* it is Service!SSpec is the theorem Implements.
Unseen == UNCHANGED Service!svars

ImplementsService ==
  Service!SInit /\ [][Unseen \/ Service!SNext]_(Service!svars)

\* Under FairSpec: an accepted lookup is eventually called back, whatever
\* libunbound does.
AcceptedIsCalledBack == \A q \in Queries : lpc[q] = "ok" ~> calls[q] = 1

\* Under FairSpec: close() returns, although it joins a thread that may be
\* waiting for a lock or calling back.
CloseReturns == \A c \in Ctxs : phase[c] = "removed" ~> phase[c] = "freed"

\* Under FairSpec: ub4j_destroy returns, although it holds g_ctx_lock while it
\* joins every thread.
DestroyReturns == destroy = "sweeping" ~> destroy = "done"

\* Under FairSpec: a lookup call returns.
LookupReturns == \A q \in Queries : lpc[q] = "found" ~> lpc[q] \in {"ok", "err"}

-----------------------------------------------------------------------------
(* Inductive invariants.  AnyUseInv implies the first group of properties, *)
(* and InOrderButFor, which needs only it, the order of the table;         *)
(* SequentialInv, with both, implies the second.                           *)

\* What the phase of a context says of its memory, its thread, its entry in
\* g_contexts and g_cfg_lock.
ContextLife ==
  \A c \in Ctxs :
    /\ phase[c] \in {"allocated", "loading", "configured", "spawned", "open",
                    "removed", "joining"} => heap[c] = {"ctx", "ub_ctx"}
    /\ tpc[c] = "off" <=> phase[c] \in {"new", "allocated", "loading",
                                       "configured", "failed"}
    /\ stopping[c] => phase[c] \in {"joining", "freed"}
    /\ tpc[c] \in {"clean", "exit"} => stopping[c]
    /\ c \in g_contexts <=> phase[c] = "open"
    /\ phase[c] = "loading" <=> cfgLock = c

\* Calls under way and accepted lookups have a context, and a thread that is
\* about to take a query out of the table has that query.
PointersSet ==
  /\ \A q \in Queries : InCall(q) \/ lpc[q] = "ok" => ctxOf[q] \in Ctxs
  /\ \A c \in Ctxs : tpc[c] = "untrack" => current[c] \in Queries

\* Its lookup is filling it in, or the table holds it.
Held(q) == lpc[q] \in {"locked", "submitted"} \/ q \in Tracked

\* A query object is live while it is held; one that is live and not held was
\* left behind by a lookup the lock refused.
LiveIsHeld ==
  /\ \A q \in Queries : Held(q) => memory[q] = "live"
  /\ \A q \in Queries : memory[q] = "live" => Held(q) \/ lpc[q] = "err"
  /\ \A q \in Tracked : lpc[q] = "ok"

\* What libunbound was given, and what its callback works on, was allocated and
\* accepted.
SubmittedIsAllocated ==
  /\ \A q \in Queries : ub[q] # "none" => Accepted(q) /\ memory[q] # "none"
  /\ \A c \in Ctxs : tpc[c] = "untrack" =>
       Accepted(current[c]) /\ memory[current[c]] # "none"

\* The inductive invariant for any use of the library
AnyUseInv ==
  /\ TypeOK
  /\ ContextLife
  /\ PointersSet
  /\ OneTableWriter
  /\ IsInjective(g_queries)
  /\ LiveIsHeld
  /\ SubmittedIsAllocated

\* The second in which the lookup q set its expiry
MadeAt(q) == expires[q] - Timeout[ctxOf[q]]

\* The table is in order of submission, a lookup that holds the lock goes last, and
\* no thread's tv_now is ahead of the clock, but for the b seconds the clock was set
\* back (b = 0 in Unbound4j, where it never is).
InOrderButFor(b) ==
  /\ \A i, j \in DOMAIN g_queries :
       i <= j => MadeAt(g_queries[i]) <= MadeAt(g_queries[j]) + b
  /\ \A q \in Queries : lpc[q] \in {"locked", "submitted"} =>
       \A r \in Tracked : MadeAt(r) <= MadeAt(q) + b
  /\ \A q \in Queries : Held(q) => MadeAt(q) <= now + b
  /\ \A q \in Queries : lpc[q] = "locked" => MadeAt(q) >= 0
  /\ \A c \in Ctxs : tvNow[c] <= now + b

\* One context at a time, and it is open while a lookup on it executes.
OneOpenContext ==
  /\ \A c, d \in Ctxs : Alive(c) /\ Alive(d) => c = d
  /\ \A q \in Queries : InCall(q) => phase[ctxOf[q]] = "open" /\ destroy # "sweeping"

\* libunbound has it, or will have it until the call returns
Outstanding(q) == lpc[q] = "submitted" \/ q \in Tracked

\* c's thread is between the callback of q and its HASH_DEL
Untracking(c, q) == tpc[c] = "untrack" /\ current[c] = q

\* The thread of the context of an outstanding query is there, and libunbound
\* holds the query until that thread is about to untrack it.
OutstandingQueries ==
  \A q \in Queries : Outstanding(q) =>
    /\ tpc[ctxOf[q]] \notin {"off", "exit"}
    /\ \/ UbHolds(q)
       \/ Untracking(ctxOf[q], q)

\* A thread untracks an outstanding query of its own context, told just now.
Untrackings ==
  \A c \in Ctxs, q \in Queries : Untracking(c, q) =>
    ctxOf[q] = c /\ Outstanding(q) /\ ub[q] = "delivered" /\ calls[q] = 1

\* libunbound holds only outstanding queries, each in the context of its
\* lookup, of which nobody was told yet.
HeldQueries ==
  \A q \in Queries : UbHolds(q) =>
    /\ Outstanding(q)
    /\ ubCtx[q] = ctxOf[q]
    /\ ubId[q] < nextId[ubCtx[q]]
    /\ calls[q] = 0
    /\ outcome[q] = "none"

\* The numbers of a context tell its queries apart.
DistinctIds ==
  \A q, r \in Queries :
    UbHolds(q) /\ UbHolds(r) /\ ubCtx[q] = ubCtx[r] /\ ubId[q] = ubId[r] => q = r

\* The lookups nobody was told of, and those that ended
QuietQueries ==
  \A q \in Queries :
    /\ lpc[q] \in {"idle", "found", "locked", "err"} =>
         calls[q] = 0 /\ outcome[q] = "none" /\ ~UbHolds(q)
    /\ lpc[q] = "ok" /\ q \notin Tracked => calls[q] = 1

\* The inductive invariant, with AnyUseInv, when contexts do not overlap
SequentialInv ==
  /\ JoinedBeforeFreed
  /\ OneOpenContext
  /\ OutstandingQueries
  /\ Untrackings
  /\ HeldQueries
  /\ DistinctIds
  /\ QuietQueries
  /\ NoUseAfterFree

-----------------------------------------------------------------------------
(* Said by the documentation and not done by the code *)

\* "... and callbacks are not called for them when the context is closed"
\* (Unbound4jContext.java:20): no callback of a query once its context stops.
NoCallbackOnceClosed ==
  [][\A q \in Queries : calls'[q] # calls[q] => ~stopping[ctxOf[q]]]_vars
=============================================================================
