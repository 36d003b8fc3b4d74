------------------------------ MODULE Unbound4j ------------------------------
(***************************************************************************)
(* src/jni/src/unbound4j.c: reverse lookups, the table g_queries that all  *)
(* contexts share, and the processing thread of each context, composed     *)
(* with the context registry and libunbound.                               *)
(*                                                                         *)
(* A lookup q is named after the query object it allocates.  Each action   *)
(* is what its thread does between two points where another thread can     *)
(* observe it.  A pointer used after free ends the behaviour: fault names  *)
(* the object and nothing is claimed of what follows.                      *)
(*                                                                         *)
(* A call of pthread_rwlock_wrlock waits; it fails only for a thread that  *)
(* holds the lock already, which no caller here does (callbacks that call  *)
(* the library again are outside this module).                             *)
(***************************************************************************)
EXTENDS ContextRegistry, SequencesExt

CONSTANTS
  Timeout,      \* Timeout[c]: request_timeout_secs of c; 0 when it was below a second
  Horizon,      \* bound: the last second in which a lookup is started
  MaxClock,     \* bound: the last second of the clock
  Nobody,       \* g_query_lock is not held for writing
  \* How callers use the library:
  OverlappingContexts, \* may a context be created while another one is alive?
  CloseDuringLookup    \* may a context be deleted while a lookup on it has not returned?

ASSUME NamesAssumption ==
  /\ NoCtx \notin Ctxs
  /\ Nobody \notin Ctxs \cup Queries
  /\ Ctxs \cap Queries = {}

ASSUME UsageAssumption ==
  /\ OverlappingContexts \in BOOLEAN
  /\ CloseDuringLookup \in BOOLEAN

ASSUME ClockAssumption ==
  /\ Horizon \in Nat
  /\ MaxClock \in Nat
  /\ Timeout \in [Ctxs -> Int]
  /\ \A c \in Ctxs : Horizon + Timeout[c] <= MaxClock

VARIABLES
  now,        \* gettimeofday(), in seconds
  g_queries,  \* the query table, in the order HASH_ITER visits it
  queryLock,  \* who holds g_query_lock for writing across steps
  lpc,        \* lpc[q]: where the call ub4j_reverse_lookup(q) is
  ctxOf,      \* ctxOf[q]: the context that call found
  memory,     \* memory[q]: allocation state of the query object
  expires,    \* expires[q]: query->expires_at_epoch_sec
  calls,      \* calls[q]: how often the callback of q was called
  outcome,    \* outcome[q]: what it was last told
  current,    \* current[c]: the query c's thread handles in its callback
  tvNow,      \* tvNow[c]: tv_now of c's thread in this pass of its loop
  fault       \* the kind of object a thread used after its release

qryVars == <<g_queries, queryLock, memory, expires, calls, outcome>>
lookupVars == <<lpc, ctxOf>>
threadVars == <<current, tvNow>>
vars == <<ubVars, ctxVars, tpc, now, qryVars, lookupVars, threadVars, fault>>

LookupPc == {"idle", "found", "locked", "submitted", "ok", "err"}

TypeOK ==
  /\ UbTypeOK
  /\ CtxTypeOK
  /\ now \in 0..MaxClock
  /\ g_queries \in Seq(Queries)
  /\ queryLock \in Ctxs \cup Queries \cup {Nobody}
  /\ lpc \in [Queries -> LookupPc]
  /\ ctxOf \in [Queries -> Ctxs \cup {NoCtx}]
  /\ memory \in [Queries -> {"none", "live", "freed"}]
  /\ expires \in [Queries -> Int]
  /\ calls \in [Queries -> Nat]
  /\ outcome \in [Queries -> {"none", "answer", "timeout"}]
  /\ current \in [Ctxs -> Queries \cup {Nobody}]
  /\ tvNow \in [Ctxs -> 0..MaxClock]
  /\ fault \in {"none", "ctx", "query"}

Init ==
  /\ UbInit
  /\ CtxInit
  /\ now = 0
  /\ g_queries = <<>>
  /\ queryLock = Nobody
  /\ lpc = [q \in Queries |-> "idle"]
  /\ ctxOf = [q \in Queries |-> NoCtx]
  /\ memory = [q \in Queries |-> "none"]
  /\ expires = [q \in Queries |-> 0]
  /\ calls = [q \in Queries |-> 0]
  /\ outcome = [q \in Queries |-> "none"]
  /\ current = [c \in Ctxs |-> Nobody]
  /\ tvNow = [c \in Ctxs |-> 0]
  /\ fault = "none"

-----------------------------------------------------------------------------
(* The query table *)

Tracked == Range(g_queries)

PositionOf(q) == CHOOSE i \in DOMAIN g_queries : g_queries[i] = q

HASH_ADD_AtHead(q) == g_queries' = <<q>> \o g_queries

HASH_ADD(q) == g_queries' = Append(g_queries, q)

HASH_DEL_Forgotten(q) == UNCHANGED g_queries

HASH_DEL(q) == g_queries' = RemoveAt(g_queries, PositionOf(q))

Expired_Early(q, t) == expires[q] <= t + 1

Expired(q, t) == expires[q] <= t

HeadExpired(t) == g_queries # <<>> /\ Expired(Head(g_queries), t)

Free(q) == memory' = [memory EXCEPT ![q] = "freed"]

CallBack_AnswersOnly(q, result) ==
  IF result = "answer"
  THEN /\ calls' = [calls EXCEPT ![q] = @ + 1]
       /\ outcome' = [outcome EXCEPT ![q] = result]
  ELSE UNCHANGED <<calls, outcome>>

\* The delegate callback, with what the query came to
CallBack(q, result) ==
  /\ calls' = [calls EXCEPT ![q] = @ + 1]
  /\ outcome' = [outcome EXCEPT ![q] = result]

QueryLockFree == queryLock = Nobody

-----------------------------------------------------------------------------
(* ub4j_reverse_lookup *)

\* The callers of the library know the id once create_context has returned.
IdKnown(c) == phase[c] \in {"open", "removed", "joining", "freed"}

\* The pointer is kept, the lock that protects it is not.
LookupFind(q, c) ==
  /\ lpc[q] = "idle"
  /\ now <= Horizon
  /\ IdKnown(c)
  /\ CtxLockFree
  /\ IF c \in g_contexts
     THEN /\ lpc' = [lpc EXCEPT ![q] = "found"]
          /\ ctxOf' = [ctxOf EXCEPT ![q] = c]
     ELSE /\ lpc' = [lpc EXCEPT ![q] = "err"]
          /\ UNCHANGED ctxOf
  /\ UNCHANGED <<ubVars, ctxVars, tpc, now, qryVars, threadVars, fault>>

\* An address that is neither 4 nor 16 bytes long, or no memory
LookupReject(q) ==
  /\ lpc[q] = "found"
  /\ lpc' = [lpc EXCEPT ![q] = "err"]
  /\ UNCHANGED <<ubVars, ctxVars, tpc, now, qryVars, ctxOf, threadVars, fault>>

\* What reading ctx, or the Unbound context in it, comes to
CtxFault(c) == IF heap[c] = {"ctx", "ub_ctx"} THEN "none" ELSE "ctx"

LookupLock(q) ==
  /\ lpc[q] = "found"
  /\ QueryLockFree
  /\ queryLock' = q
  /\ lpc' = [lpc EXCEPT ![q] = "locked"]
  /\ memory' = [memory EXCEPT ![q] = "live"]
  /\ expires' = [expires EXCEPT ![q] = now + Timeout[ctxOf[q]]]
  /\ fault' = CtxFault(ctxOf[q])
  /\ UNCHANGED <<ubVars, ctxVars, tpc, now, g_queries, calls, outcome, ctxOf,
                 threadVars>>

LookupSubmit_KeepsLockOnError(q) ==
  /\ lpc[q] = "locked"
  /\ \/ /\ ub_resolve_async(ctxOf[q], q)
        /\ lpc' = [lpc EXCEPT ![q] = "submitted"]
        /\ UNCHANGED memory
     \/ /\ UNCHANGED ubVars
        /\ lpc' = [lpc EXCEPT ![q] = "err"]
        /\ Free(q)
  /\ fault' = CtxFault(ctxOf[q])
  /\ UNCHANGED <<ctxVars, tpc, now, g_queries, queryLock, expires, calls,
                 outcome, ctxOf, threadVars>>

LookupSubmit_UnlocksEarly(q) ==
  /\ lpc[q] = "locked"
  /\ ub_resolve_async(ctxOf[q], q)
  /\ lpc' = [lpc EXCEPT ![q] = "submitted"]
  /\ queryLock' = Nobody
  /\ fault' = CtxFault(ctxOf[q])
  /\ UNCHANGED <<ctxVars, tpc, now, g_queries, memory, expires, calls, outcome,
                 ctxOf, threadVars>>

LookupSubmit(q) ==
  /\ lpc[q] = "locked"
  /\ \/ /\ ub_resolve_async(ctxOf[q], q)
        /\ lpc' = [lpc EXCEPT ![q] = "submitted"]
        /\ UNCHANGED <<memory, queryLock>>
     \/ /\ UNCHANGED ubVars
        /\ lpc' = [lpc EXCEPT ![q] = "err"]
        /\ Free(q)
        /\ queryLock' = Nobody
  /\ fault' = CtxFault(ctxOf[q])
  /\ UNCHANGED <<ctxVars, tpc, now, g_queries, expires, calls, outcome, ctxOf,
                 threadVars>>

LookupTrack(q) ==
  /\ lpc[q] = "submitted"
  /\ HASH_ADD(q)
  /\ queryLock' = Nobody
  /\ lpc' = [lpc EXCEPT ![q] = "ok"]
  /\ UNCHANGED <<ubVars, ctxVars, tpc, now, memory, expires, calls, outcome,
                 ctxOf, threadVars, fault>>

-----------------------------------------------------------------------------
(* context_processing_thread *)

Goto(c, from, to) ==
  /\ tpc[c] = from
  /\ tpc' = [tpc EXCEPT ![c] = to]

\* select() returns: something to read, the second is over, or an error.
ThreadWake(c) ==
  /\ ~stopping[c]
  /\ Goto(c, "loop", "process")
  /\ UNCHANGED <<ubVars, ctxVars, now, qryVars, lookupVars, threadVars, fault>>

\* ub_process calls ub_reverse_lookup_callback, up to the delegate callback.
Deliver(c, q) ==
  /\ Goto(c, "process", "untrack")
  /\ HandOver(c, q)
  /\ CallBack(q, "answer")
  /\ current' = [current EXCEPT ![c] = q]
  /\ fault' = IF memory[q] = "freed" THEN "query" ELSE "none"
  /\ UNCHANGED <<ctxVars, now, g_queries, queryLock, memory, expires,
                 lookupVars, tvNow>>

Stale(q) == memory[q] = "freed"

\* ... and from there to its end: HASH_DEL under the write lock, and free.
Untrack(c) ==
  /\ Goto(c, "untrack", "process")
  /\ QueryLockFree
  /\ IF Stale(current[c])
     THEN fault' = "query" /\ UNCHANGED <<g_queries, memory>>
     ELSE HASH_DEL(current[c]) /\ Free(current[c]) /\ UNCHANGED fault
  /\ current' = [current EXCEPT ![c] = Nobody]
  /\ UNCHANGED <<ubVars, ctxVars, now, queryLock, expires, calls, outcome,
                 lookupVars, tvNow>>

ProcessEnd_RoundedUp(c) ==
  /\ Goto(c, "process", "peek")
  /\ tvNow' = [tvNow EXCEPT ![c] = now + 1]
  /\ UNCHANGED <<ubVars, ctxVars, now, qryVars, lookupVars, current, fault>>

\* ub_process returns, all answers handed over or with an error that is only
\* logged (or select() failed and it was not called), and the clock is read.
ProcessEnd(c) ==
  /\ Goto(c, "process", "peek")
  /\ tvNow' = [tvNow EXCEPT ![c] = now]
  /\ UNCHANGED <<ubVars, ctxVars, now, qryVars, lookupVars, current, fault>>

\* Under the read lock; what it saw may change before the write lock is held.
Peek(c) ==
  /\ tpc[c] = "peek"
  /\ QueryLockFree
  /\ IF HeadExpired(tvNow[c])
     THEN tpc' = [tpc EXCEPT ![c] = "wantlock"] /\ UNCHANGED tvNow
     ELSE /\ tpc' = [tpc EXCEPT ![c] = "loop"]
          /\ tvNow' = [tvNow EXCEPT ![c] = 0]
  /\ UNCHANGED <<ubVars, ctxVars, now, qryVars, lookupVars, current, fault>>

ExpireBegin(c) ==
  /\ Goto(c, "wantlock", "expire")
  /\ QueryLockFree
  /\ queryLock' = c
  /\ UNCHANGED <<ubVars, ctxVars, now, g_queries, memory, expires, calls,
                 outcome, lookupVars, threadVars, fault>>

CancelHead_NotCancelled(c) ==
  LET q == Head(g_queries)
  IN  /\ HASH_DEL(q)
      /\ CallBack(q, "timeout")
      /\ Free(q)
      /\ UNCHANGED <<ubVars, ctxVars, tpc, now, queryLock, expires, lookupVars,
                     threadVars, fault>>

\* Takes the head out of the table, cancels it in the Unbound context of this
\* thread, whichever context it belongs to, and calls back; query->expired
\* keeps the callback from taking it out again.
CancelHead(c) ==
  LET q == Head(g_queries)
  IN  /\ HASH_DEL(q)
      /\ ub_cancel(c, ubId[q])
      /\ CallBack(q, "timeout")
      /\ Free(q)
      /\ UNCHANGED <<ctxVars, tpc, now, queryLock, expires, lookupVars,
                     threadVars, fault>>

ExpireOne(c) ==
  /\ tpc[c] = "expire"
  /\ HeadExpired(tvNow[c])
  /\ CancelHead(c)

ExpireEnd_KeepsLock(c) ==
  /\ Goto(c, "expire", "loop")
  /\ ~HeadExpired(tvNow[c])
  /\ tvNow' = [tvNow EXCEPT ![c] = 0]
  /\ UNCHANGED <<ubVars, ctxVars, now, qryVars, lookupVars, current, fault>>

\* tv_now is not read again before it is set again.
ExpireEnd(c) ==
  /\ Goto(c, "expire", "loop")
  /\ ~HeadExpired(tvNow[c])
  /\ queryLock' = Nobody
  /\ tvNow' = [tvNow EXCEPT ![c] = 0]
  /\ UNCHANGED <<ubVars, ctxVars, now, g_queries, memory, expires, calls,
                 outcome, lookupVars, current, fault>>

ThreadStop_Unlocked(c) ==
  /\ stopping[c]
  /\ Goto(c, "loop", "clean")
  /\ queryLock' = c
  /\ UNCHANGED <<ubVars, ctxVars, now, g_queries, memory, expires, calls,
                 outcome, lookupVars, threadVars, fault>>

\* The loop ends; the write lock is taken for the clean-up.
ThreadStop(c) ==
  /\ stopping[c]
  /\ Goto(c, "loop", "clean")
  /\ QueryLockFree
  /\ queryLock' = c
  /\ UNCHANGED <<ubVars, ctxVars, now, g_queries, memory, expires, calls,
                 outcome, lookupVars, threadVars, fault>>

CleanOne_NotCancelled(c) ==
  /\ tpc[c] = "clean"
  /\ g_queries # <<>>
  /\ CancelHead_NotCancelled(c)

\* Every query of the table, not only those of this context
CleanOne(c) ==
  /\ tpc[c] = "clean"
  /\ g_queries # <<>>
  /\ CancelHead(c)

CleanEnd_FreshLeft(c) ==
  /\ Goto(c, "clean", "exit")
  /\ ~HeadExpired(now)
  /\ queryLock' = Nobody
  /\ UNCHANGED <<ubVars, ctxVars, now, g_queries, memory, expires, calls,
                 outcome, lookupVars, threadVars, fault>>

CleanEnd(c) ==
  /\ Goto(c, "clean", "exit")
  /\ g_queries = <<>>
  /\ queryLock' = Nobody
  /\ UNCHANGED <<ubVars, ctxVars, now, g_queries, memory, expires, calls,
                 outcome, lookupVars, threadVars, fault>>

-----------------------------------------------------------------------------
(* Callers, the clock and libunbound *)

MayCreate == OverlappingContexts \/ \A c \in Ctxs : ~Alive(c)

InCall(q) == lpc[q] \in {"found", "locked", "submitted"}

MayClose(c) == CloseDuringLookup \/ \A q \in Queries : ~(InCall(q) /\ ctxOf[q] = c)

RegistryStep(c) ==
  /\ \/ MayCreate /\ CreateAllocate(c)
     \/ CreateFromSystem(c)
     \/ CreateFromDefaults(c)
     \/ CreateLoadBegin(c)
     \/ CreateLoadEnd(c)
     \/ CreateSpawn(c)
     \/ CreateRegister(c)
     \/ MayClose(c) /\ DeleteContext(c)
     \/ DestroyNext(c)
     \/ StopThread(c)
     \/ FreeContext(c)
  /\ UNCHANGED <<now, qryVars, lookupVars, threadVars, fault>>

DestroyStep ==
  /\ \/ (\A c \in Ctxs : MayClose(c)) /\ DestroyBegin
     \/ DestroyEnd
  /\ UNCHANGED <<now, qryVars, lookupVars, threadVars, fault>>

LookupStep(q) ==
  \/ \E c \in Ctxs : LookupFind(q, c)
  \/ LookupReject(q)
  \/ LookupLock(q)
  \/ LookupSubmit(q)
  \/ LookupTrack(q)

ThreadStep(c) ==
  \/ ThreadWake(c)
  \/ \E q \in Queries : Deliver(c, q)
  \/ Untrack(c)
  \/ ProcessEnd(c)
  \/ Peek(c)
  \/ ExpireBegin(c)
  \/ ExpireOne(c)
  \/ ExpireEnd(c)
  \/ ThreadStop(c)
  \/ CleanOne(c)
  \/ CleanEnd(c)

ResolverStep(q) ==
  /\ Resolved(q)
  /\ UNCHANGED <<ctxVars, tpc, now, qryVars, lookupVars, threadVars, fault>>

\* Past the horizon the clock waits for a call that has still to set its expiry.
Tick ==
  /\ now < MaxClock
  /\ now < Horizon \/ \A q \in Queries : lpc[q] # "found"
  /\ now' = now + 1
  /\ UNCHANGED <<ubVars, ctxVars, tpc, qryVars, lookupVars, threadVars, fault>>

\* All is closed and unloaded, or a fault ended the behaviour.
Over ==
  \/ fault # "none"
  \/ /\ destroy = "done"
     /\ now = MaxClock
     /\ \A c \in Ctxs : phase[c] \in {"failed", "freed"}
     /\ \A q \in Queries : lpc[q] \in {"idle", "ok", "err"}

Step ==
  \/ \E c \in Ctxs : RegistryStep(c) \/ ThreadStep(c)
  \/ \E q \in Queries : LookupStep(q) \/ ResolverStep(q)
  \/ DestroyStep
  \/ Tick

Next ==
  \/ fault = "none" /\ Step
  \/ Over /\ UNCHANGED vars

Spec == Init /\ [][Next]_vars

\* Threads run, time passes, a call once begun is executed; nobody has to
\* make a call, and libunbound never has to answer.
Fairness ==
  /\ \A c \in Ctxs : WF_vars(fault = "none" /\ ThreadStep(c))
  /\ \A q \in Queries : WF_vars(fault = "none" /\ (LookupLock(q) \/ LookupSubmit(q) \/ LookupTrack(q)))
  /\ \A c \in Ctxs : WF_vars(fault = "none" /\ RegistryStep(c) /\ phase[c] \in {"removed", "joining"})
  /\ WF_vars(fault = "none" /\ destroy = "sweeping" /\ (DestroyStep \/ \E c \in Ctxs : RegistryStep(c) /\ victim' # victim))
  /\ WF_vars(fault = "none" /\ Tick)

FairSpec == Spec /\ Fairness

=============================================================================
