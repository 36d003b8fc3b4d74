----------------------------- MODULE Reentrancy -----------------------------
(***************************************************************************)
(* Callbacks that call the library again.  The completion of a future runs *)
(* what depends on it on the thread that completes it: the processing      *)
(* thread, inside ub_process (unbound4j.c:366) or, for a query that timed  *)
(* out or is cleaned up, with g_query_lock held (:408, :435).  From there  *)
(* it may look up, close a context or wait for another lookup.             *)
(*                                                                         *)
(* A lock call of a thread that holds the lock, and a join that would make *)
(* a thread wait for itself, return an error (glibc: EDEADLK).             *)
(***************************************************************************)
EXTENDS Unbound4jProperties

CONSTANTS
  Calls,            \* what callbacks do: "lookup", "close", "wait"
  CloseUnderCallers \* may a context be closed while another thread looks up on it?
                    \* (with CloseDuringLookup = TRUE: this says it more precisely)

ASSUME CallsAssumption ==
  /\ Calls \subseteq {"lookup", "close", "wait"}
  /\ CloseUnderCallers \in BOOLEAN

VARIABLE doing  \* doing[c]: what the callback on the thread of c is doing

rvars == <<vars, doing>>

None == [op |-> "none", on |-> NoCtx]

\* The delegate callback has been called and has not returned.
Running == [op |-> "run", on |-> NoCtx]

Doing(c, op, on) == doing[c] = [op |-> op, on |-> on]

Goes(c, op, on) == doing' = [doing EXCEPT ![c] = [op |-> op, on |-> on]]

RInit == Init /\ doing = [c \in Ctxs |-> None]

LookupThread(q) == {c \in Ctxs : Doing(c, "lookup", q)}

Closer(d) == {c \in Ctxs : Doing(c, "free", d)}

-----------------------------------------------------------------------------
(* The processing thread *)

\* The next step of the thread reads its context.
UsesCtx(c) ==
  \/ tpc[c] \in {"loop", "process"}
  \/ tpc[c] = "expire" /\ HeadExpired(tvNow[c])
  \/ tpc[c] = "clean" /\ g_queries # <<>>

\* The callback returns, or there is none, and the thread goes on.
GoOn(c) ==
  /\ doing[c] \in {None, Running}
  /\ IF phase[c] = "freed" /\ UsesCtx(c)
     THEN /\ fault' = "ctx"
          /\ UNCHANGED <<ubVars, ctxVars, tpc, now, qryVars, lookupVars, threadVars, doing>>
     ELSE /\ ThreadStep(c)
          /\ doing' = [doing EXCEPT ![c] = IF calls' # calls THEN Running ELSE None]

CallLookup(c) ==
  /\ "lookup" \in Calls
  /\ now <= Horizon
  /\ \E q \in Queries : lpc[q] = "idle" /\ LookupThread(q) = {} /\ Goes(c, "lookup", q)

CallClose(c) ==
  /\ "close" \in Calls
  /\ \E d \in Ctxs : IdKnown(d) /\ Goes(c, "close", d)

CallWait(c) ==
  /\ "wait" \in Calls
  /\ \E q \in Queries : lpc[q] = "ok" /\ Goes(c, "wait", q)

Call(c) ==
  /\ doing[c] = Running
  /\ CallLookup(c) \/ CallClose(c) \/ CallWait(c)
  /\ UNCHANGED vars

Refused_Again(c, q) ==
  /\ queryLock = c
  /\ lpc[q] = "found"
  /\ lpc' = [lpc EXCEPT ![q] = "locked"]
  /\ memory' = [memory EXCEPT ![q] = "live"]
  /\ expires' = [expires EXCEPT ![q] = now + Timeout[ctxOf[q]]]
  /\ queryLock' = q
  /\ UNCHANGED <<ubVars, ctxVars, tpc, now, g_queries, calls, outcome, ctxOf, threadVars, fault>>

\* The thread holds g_query_lock: the lookup fails, and leaves the new query
\* and its name allocated.
Refused(c, q) ==
  /\ queryLock = c
  /\ lpc[q] = "found"
  /\ lpc' = [lpc EXCEPT ![q] = "err"]
  /\ memory' = [memory EXCEPT ![q] = "live"]
  /\ UNCHANGED <<ubVars, ctxVars, tpc, now, g_queries, queryLock, expires, calls, outcome,
                 ctxOf, threadVars, fault>>

Underway(q) == LookupLock(q) \/ LookupSubmit(q) \/ LookupTrack(q)

LookUp(c) ==
  \E q \in Queries :
    /\ Doing(c, "lookup", q)
    /\ \/ \E d \in Ctxs : LookupFind(q, d)
       \/ Underway(q)
       \/ Refused(c, q)
    /\ IF lpc'[q] \in {"ok", "err"} THEN Goes(c, "run", NoCtx) ELSE UNCHANGED doing

Reject(c) ==
  \E q \in Queries : Doing(c, "lookup", q) /\ LookupReject(q) /\ Goes(c, "run", NoCtx)

\* d is the thread itself, or d's thread is waiting to join this one.
JoinFails(c, d) == d = c \/ (Doing(d, "free", c) /\ phase[c] = "joining")

\* ub4j_delete_context; a failing join does not keep it from freeing.
Close(c) ==
  /\ \E d \in Ctxs :
       \/ /\ Doing(c, "close", d)
          /\ \/ DeleteContext(d) /\ Goes(c, "free", d)
             \/ /\ CtxLockFree /\ d \notin g_contexts
                /\ Goes(c, "run", NoCtx) /\ UNCHANGED <<ubVars, ctxVars, tpc>>
       \/ /\ Doing(c, "free", d)
          /\ \/ StopThread(d) /\ UNCHANGED doing
             \/ /\ FreeContext(d) \/ (JoinFails(c, d) /\ Release(d))
                /\ Goes(c, "run", NoCtx)
  /\ UNCHANGED <<now, qryVars, lookupVars, threadVars, fault>>

\* The future the callback waits for is completed.
Wait(c) ==
  /\ \E q \in Queries : Doing(c, "wait", q) /\ calls[q] > 0
  /\ Goes(c, "run", NoCtx)
  /\ UNCHANGED vars

Proceed(c) == GoOn(c) \/ LookUp(c) \/ Close(c) \/ Wait(c)

-----------------------------------------------------------------------------
(* Other threads, the clock, libunbound *)

MayCloseNow(d) ==
  CloseUnderCallers \/ \A q \in Queries : InCall(q) /\ ctxOf[q] = d => LookupThread(q) # {}

Registry(d) ==
  /\ RegistryStep(d)
  /\ phase'[d] = "removed" => MayCloseNow(d)
  /\ phase[d] \in {"removed", "joining"} => Closer(d) = {}
  /\ UNCHANGED doing

Destroy ==
  /\ DestroyStep
  /\ destroy = "idle" => \A d \in Ctxs : MayCloseNow(d)
  /\ UNCHANGED doing

Caller(q) ==
  /\ LookupThread(q) = {}
  /\ LookupStep(q)
  /\ UNCHANGED doing

Clock ==
  /\ Tick
  /\ now < Horizon \/ \A c \in Ctxs : doing[c].op # "lookup"
  /\ UNCHANGED doing

Resolver(q) == ResolverStep(q) /\ UNCHANGED doing

RStep ==
  \/ \E c \in Ctxs : Proceed(c) \/ Reject(c) \/ Call(c) \/ Registry(c)
  \/ \E q \in Queries : Caller(q) \/ Resolver(q)
  \/ Destroy
  \/ Clock

ROver == Over /\ (fault # "none" \/ \A c \in Ctxs : doing[c] \in {None, Running})

RNext ==
  \/ fault = "none" /\ RStep
  \/ ROver /\ UNCHANGED rvars

RSpec == RInit /\ [][RNext]_rvars

-----------------------------------------------------------------------------
(* What is under way, and which of it can go on without anything else being   *)
(* begun: no new call, no answer, no time-out, no return from select().       *)

\* The thread is not asleep in select().
Awake(c) == tpc[c] \notin {"off", "exit"} /\ (tpc[c] = "loop" => stopping[c])

UnderWay ==
  \/ \E c \in Ctxs : Awake(c) \/ (Alive(c) /\ phase[c] # "open")
  \/ \E q \in Queries : InCall(q)
  \/ destroy = "sweeping"

ThreadReady(c) == Awake(c) /\ (QueryLockFree \/ tpc[c] \in {"process", "expire", "clean"})

LookupReady(q) ==
  \/ lpc[q] \in {"locked", "submitted"}
  \/ lpc[q] = "found" /\ QueryLockFree

CallbackReady(c) ==
  \/ doing[c] \in {None, Running} /\ ThreadReady(c)
  \/ \E q \in Queries :
       /\ Doing(c, "lookup", q)
       /\ LookupReady(q) \/ (lpc[q] = "idle" /\ CtxLockFree) \/ (lpc[q] = "found" /\ queryLock = c)
  \/ \E q \in Queries : Doing(c, "wait", q) /\ calls[q] > 0
  \/ \E d \in Ctxs :
       \/ Doing(c, "close", d) /\ CtxLockFree
       \/ /\ Doing(c, "free", d)
          /\ phase[d] = "removed" \/ (phase[d] = "joining" /\ (Joined(d) \/ JoinFails(c, d)))

RegistryReady(c) ==
  \/ phase[c] \in {"allocated", "loading", "configured"}
  \/ phase[c] = "spawned" /\ CtxLockFree
  \/ Closer(c) = {} /\ (phase[c] = "removed" \/ (phase[c] = "joining" /\ Joined(c)))

SomethingReady ==
  \/ \E c \in Ctxs : CallbackReady(c) \/ RegistryReady(c)
  \/ \E q \in Queries : LookupThread(q) = {} /\ LookupReady(q)
  \/ destroy = "sweeping" /\ victim = NoCtx

\* For the end of another thread, for an answer, or for g_ctx_lock, which
\* ub4j_destroy holds while it joins (unbound4j.c:68-83, 181, 211, 268)
CallbackWaits(c) ==
  \/ \E d \in Ctxs :
       Doing(c, "free", d) /\ phase[d] = "joining" /\ ~Joined(d) /\ ~JoinFails(c, d)
  \/ \E q \in Queries :
       \/ Doing(c, "wait", q) /\ calls[q] = 0
       \/ Doing(c, "lookup", q) /\ lpc[q] = "idle" /\ ~CtxLockFree
  \/ doing[c].op = "close" /\ ~CtxLockFree

-----------------------------------------------------------------------------
(* Properties *)

\* Whatever is under way in the library, something of it can go on, unless a
\* callback waits: locks, joins and the sweep of ub4j_destroy never wait for each
\* other in a circle (unbound4j.c:68-83, 181-213, 253-261, 314-346, 391-439).
UnderWayGoesOn ==
  fault = "none" /\ UnderWay => SomethingReady \/ \E c \in Ctxs : CallbackWaits(c)

\* The whole library stands still only where a callback waits, and what is ready
\* is what can step.
StandstillNeedsWaitingCallback ==
  ~ENABLED RNext => ~SomethingReady /\ \E c \in Ctxs : CallbackWaits(c)

-----------------------------------------------------------------------------
(* Inductive with AnyUseInv, and implies UnderWayGoesOn *)

\* What a callback can be doing, and where its thread is meanwhile
CallbacksOfThreads ==
  /\ doing \in [Ctxs -> {None, Running} \cup [op : {"lookup", "wait"}, on : Queries]
                                        \cup [op : {"close", "free"}, on : Ctxs]]
  /\ \A c \in Ctxs : doing[c] # None => tpc[c] \in {"untrack", "expire", "clean"}

\* A lookup that a callback makes is made by that callback alone.
CallbackLookups ==
  \A c \in Ctxs, q \in Queries : Doing(c, "lookup", q) =>
    /\ lpc[q] = "idle" \/ InCall(q)
    /\ \A d \in Ctxs : Doing(d, "lookup", q) => d = c

\* A context is unmade by one callback, by ub4j_destroy or by one other thread.
UnmadeByOne ==
  /\ \A c, d \in Ctxs : Doing(c, "free", d) =>
       /\ phase[d] \in {"removed", "joining"}
       /\ victim # d
       /\ \A e \in Ctxs : Doing(e, "free", d) => e = c
  /\ victim # NoCtx => destroy = "sweeping" /\ phase[victim] \in {"removed", "joining"}

StoppedToBeJoined == \A c \in Ctxs : phase[c] = "joining" => stopping[c]

CallbacksInv ==
  /\ CallbacksOfThreads
  /\ CallbackLookups
  /\ UnmadeByOne
  /\ StoppedToBeJoined
=============================================================================
