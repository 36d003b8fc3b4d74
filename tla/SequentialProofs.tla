-------------------------- MODULE SequentialProofs --------------------------
(***************************************************************************)
(* SequentialInv is, together with AnyUseInv, an inductive invariant of    *)
(* Unbound4j when contexts do not overlap and none is closed while a       *)
(* lookup on it executes, wherever the clock is set back to; the           *)
(* properties of the sequential_safety run follow from it.  With the order *)
(* of the table, while the clock is not set back, it follows that the      *)
(* library implements LookupService.                                       *)
(***************************************************************************)
EXTENDS Unbound4jProofs

\* One context at a time, closed when its lookups have returned
SequentialUse == ~OverlappingContexts /\ ~CloseDuringLookup

-----------------------------------------------------------------------------
(* Facts about states *)

\* Outstanding queries have a context, and it is alive.
LEMMA OutstandingHasContext ==
  ASSUME AnyUseInv, JoinedBeforeFreed, OutstandingQueries,
         NEW q \in Queries, Outstanding(q)
  PROVE  ctxOf[q] \in Ctxs /\ Alive(ctxOf[q])
<1>1. ctxOf[q] \in Ctxs
  BY DEF AnyUseInv, PointersSet, LiveIsHeld, Outstanding, InCall
<1>. QED
  BY <1>1 DEF AnyUseInv, ContextLife, JoinedBeforeFreed, OutstandingQueries, Alive

\* A thread at work has a context that is alive.
LEMMA WorkingThreadHasContext ==
  ASSUME AnyUseInv, JoinedBeforeFreed, NEW c \in Ctxs, tpc[c] \notin {"off", "exit"}
  PROVE  Alive(c)
BY DEF AnyUseInv, ContextLife, JoinedBeforeFreed, Alive

\* The context of an executing call is open: its memory is there, its thread
\* runs and nobody has stopped it.
LEMMA CallHasOpenContext ==
  ASSUME AnyUseInv, OneOpenContext, NEW q \in Queries, InCall(q)
  PROVE  /\ ctxOf[q] \in Ctxs
         /\ phase[ctxOf[q]] = "open"
         /\ Alive(ctxOf[q])
         /\ heap[ctxOf[q]] = {"ctx", "ub_ctx"}
         /\ tpc[ctxOf[q]] \notin {"off", "clean", "exit"}
         /\ ~stopping[ctxOf[q]]
<1>1. ctxOf[q] \in Ctxs
  BY DEF AnyUseInv, PointersSet
<1>2. phase[ctxOf[q]] = "open"
  BY DEF OneOpenContext
<1>. QED
  BY <1>1, <1>2 DEF AnyUseInv, ContextLife, Alive

\* An outstanding query that nobody untracks is held by libunbound in the context
\* of whichever thread is at work, for there is only one.
LEMMA HeldHere ==
  ASSUME AnyUseInv, SequentialInv, NEW c \in Ctxs, NEW q \in Queries,
         tpc[c] \notin {"off", "untrack", "exit"}, Outstanding(q)
  PROVE  ctxOf[q] = c /\ UbHolds(q) /\ ubCtx[q] = c
<1>1. ctxOf[q] = c
  BY OutstandingHasContext, WorkingThreadHasContext
  DEF SequentialInv, OneOpenContext
<1>2. UbHolds(q)
  BY <1>1 DEF SequentialInv, OutstandingQueries, Untracking
<1>. QED
  BY <1>1, <1>2 DEF SequentialInv, HeldQueries

-----------------------------------------------------------------------------
(* Steps *)

\* Nothing has begun.
LEMMA InitSequential == Init => SequentialInv
<1>. SUFFICES ASSUME Init PROVE SequentialInv
  OBVIOUS
<1>. USE DEF Init, UbInit, CtxInit
<1>1. Tracked = {} /\ DOMAIN g_queries = {}
  BY DEF Tracked, Range
<1>2. OneOpenContext
  BY DEF OneOpenContext, Alive, InCall
<1>3. OutstandingQueries /\ Untrackings
  BY <1>1 DEF OutstandingQueries, Untrackings, Outstanding, Untracking
<1>4. HeldQueries /\ DistinctIds /\ QuietQueries
  BY <1>1 DEF HeldQueries, DistinctIds, QuietQueries, UbHolds
<1>. QED
  BY <1>2, <1>3, <1>4, InitJoined DEF SequentialInv, NoUseAfterFree

\* A context is made only when none is alive, given up only when no lookup on it
\* executes, and freed only when its thread has called back all it tracked, so
\* that ub_ctx_delete drops nothing.
LEMMA RegistrySequential ==
  ASSUME SequentialUse, AnyUseInv, SequentialInv, NEW c \in Ctxs, RegistryStep(c)
  PROVE  SequentialInv'
<1>1. /\ phase \in [Ctxs -> Phase] /\ tpc \in [Ctxs -> ThreadPc]
      /\ ub \in [Queries -> UbState]
      /\ ContextLife
  BY DEF AnyUseInv, TypeOK, CtxTypeOK, UbTypeOK
<1>2. /\ OneOpenContext /\ OutstandingQueries /\ Untrackings
      /\ HeldQueries /\ DistinctIds /\ QuietQueries
      /\ JoinedBeforeFreed /\ NoUseAfterFree
  BY DEF SequentialInv
<1>3. /\ UNCHANGED <<now, g_queries, queryLock, memory, expires, calls, outcome>>
      /\ UNCHANGED <<lpc, ctxOf, current, tvNow, fault, destroy>>
  BY DEF RegistryStep, qryVars, lookupVars, threadVars, CreateAllocate,
         CreateFromSystem, CreateFromDefaults, CreateLoadBegin, CreateLoadEnd,
         CreateSpawn, CreateRegister, DeleteContext, DestroyNext, StopThread,
         FreeContext, Release
<1>4. UNCHANGED <<ub, ubCtx, ubId, nextId>>
  <2>1. CASE FreeContext(c)
    <3>1. tpc[c] = "exit"
      BY <2>1 DEF FreeContext, Release, Joined
    <3>2. \A q \in Queries : ~(UbHolds(q) /\ ubCtx[q] = c)
      BY <1>2, <3>1 DEF HeldQueries, OutstandingQueries
    <3>. QED  BY <1>1, <2>1, <3>2 DEF FreeContext, Release, ub_ctx_delete
  <2>. QED
    BY <2>1 DEF RegistryStep, CreateAllocate, CreateFromSystem, CreateFromDefaults,
                CreateLoadBegin, CreateLoadEnd, CreateSpawn, CreateRegister,
                DeleteContext, DestroyNext, StopThread, ubVars
<1>5. \A d \in Ctxs : /\ tpc'[d] \in {"off", "exit"} => tpc[d] \in {"off", "exit"}
                      /\ tpc'[d] = "untrack" <=> tpc[d] = "untrack"
  <2>1. UNCHANGED tpc \/ CreateSpawn(c)
    BY DEF RegistryStep, CreateAllocate, CreateFromSystem, CreateFromDefaults,
           CreateLoadBegin, CreateLoadEnd, CreateRegister, DeleteContext,
           DestroyNext, StopThread, FreeContext, Release
  <2>. QED  BY <1>1, <2>1 DEF CreateSpawn, ContextLife, Enter
<1>6. OneOpenContext'
  <2>1. \A d \in Ctxs : d # c => phase'[d] = phase[d]
    BY <1>1 DEF RegistryStep, CreateAllocate, CreateFromSystem, CreateFromDefaults,
           CreateLoadBegin, CreateLoadEnd, CreateSpawn, CreateRegister,
           DeleteContext, DestroyNext, StopThread, FreeContext, Release, Enter, FailCreate
  <2>2. \/ MayCreate
        \/ Alive(c)
    BY DEF RegistryStep, CreateAllocate, CreateFromSystem, CreateFromDefaults,
           CreateLoadBegin, CreateLoadEnd, CreateSpawn, CreateRegister,
           DeleteContext, DestroyNext, StopThread, FreeContext, Release, Enter, FailCreate,
           Alive
  <2>3. \A d, e \in Ctxs : Alive(d)' /\ Alive(e)' => d = e
    BY <1>2, <2>1, <2>2 DEF OneOpenContext, MayCreate, SequentialUse, Alive
  <2>4. ASSUME NEW q \in Queries, InCall(q)', ctxOf[q] = c
        PROVE  phase'[c] = "open"
    <3>1. InCall(q) /\ phase[c] = "open" /\ destroy # "sweeping"
      BY <1>2, <1>3, <2>4 DEF OneOpenContext, InCall
    <3>2. ~MayClose(c)
      BY <2>4, <3>1 DEF MayClose, SequentialUse
    <3>. QED
      BY <3>1, <3>2
      DEF RegistryStep, CreateAllocate, CreateFromSystem, CreateFromDefaults,
          CreateLoadBegin, CreateLoadEnd, CreateSpawn, CreateRegister,
          DestroyNext, StopThread, FreeContext, Release, Enter, FailCreate
  <2>5. \A q \in Queries : InCall(q)' => ctxOf[q] \in Ctxs
    BY <1>3 DEF InCall, AnyUseInv, PointersSet
  <2>. QED  BY <1>2, <1>3, <2>1, <2>3, <2>4, <2>5 DEF OneOpenContext, InCall
<1>7. \A q \in Queries : Outstanding(q)' => Outstanding(q) /\ ctxOf[q] \in Ctxs
  BY <1>2, <1>3, OutstandingHasContext DEF Outstanding, Tracked
<1>8. OutstandingQueries'
  BY <1>2, <1>3, <1>4, <1>5, <1>7 DEF OutstandingQueries, Untracking, UbHolds
<1>9. Untrackings'
  BY <1>2, <1>3, <1>4, <1>5 DEF Untrackings, Untracking, Outstanding, Tracked
<1>10. HeldQueries' /\ DistinctIds' /\ QuietQueries'
  BY <1>2, <1>3, <1>4
  DEF HeldQueries, DistinctIds, QuietQueries, UbHolds, Outstanding, Tracked
<1>11. NoUseAfterFree' /\ JoinedBeforeFreed'
  BY <1>2, <1>3, NextJoined DEF NoUseAfterFree, Next, Step
<1>. QED  BY <1>6, <1>8, <1>9, <1>10, <1>11 DEF SequentialInv

\* A call works on an open context under the lock; its query enters the table
\* last and expires last.
LEMMA LookupSequential ==
  ASSUME AnyUseInv, SequentialInv, NEW q \in Queries, LookupStep(q)
  PROVE  SequentialInv'
<1>1. /\ ContextLife /\ PointersSet /\ OneTableWriter /\ LiveIsHeld
      /\ IsInjective(g_queries)
  BY DEF AnyUseInv
<1>2. /\ OneOpenContext /\ OutstandingQueries /\ Untrackings
      /\ HeldQueries /\ DistinctIds /\ QuietQueries
      /\ JoinedBeforeFreed /\ NoUseAfterFree
  BY DEF SequentialInv
<1>3. /\ lpc \in [Queries -> LookupPc]
      /\ ctxOf \in [Queries -> Ctxs \cup {NoCtx}]
      /\ g_queries \in Seq(Queries) /\ Tracked \subseteq Queries
      /\ expires \in [Queries -> Int]
      /\ ub \in [Queries -> UbState]
      /\ ubCtx \in [Queries -> Ctxs \cup {NoCtx}]
      /\ ubId \in [Queries -> Nat]
      /\ nextId \in [Ctxs -> Nat]
  BY TrackedAreQueries DEF AnyUseInv, TypeOK, UbTypeOK
<1>4. now \in Int /\ 0 <= now /\ \A c \in Ctxs : Timeout[c] \in Int
  BY ClockAssumption DEF AnyUseInv, TypeOK
<1>5. /\ UNCHANGED <<phase, stopping, destroy, tpc, current, tvNow, now>>
      /\ UNCHANGED <<calls, outcome>>
  BY DEF LookupStep, LookupFind, LookupReject, LookupLock, LookupSubmit,
         LookupTrack, ctxVars, qryVars, threadVars
<1>15. JoinedBeforeFreed'
  BY <1>2, <1>5 DEF JoinedBeforeFreed
\* A step that neither submits nor tracks q
<1>6. ASSUME ~Outstanding(q), lpc'[q] \in {"found", "locked", "err"},
             \A p \in Queries \ {q} : lpc'[p] = lpc[p] /\ ctxOf'[p] = ctxOf[p]
                                     /\ expires'[p] = expires[p],
             ~UbHolds(q), calls[q] = 0, outcome[q] = "none",
             UNCHANGED <<ub, ubCtx, ubId, nextId, g_queries>>,
             InCall(q)' => ctxOf'[q] \in Ctxs /\ phase[ctxOf'[q]] = "open"
                           /\ destroy # "sweeping",
             lpc'[q] = "locked" => expires'[q] = now + Timeout[ctxOf'[q]],
             fault' = "none"
      PROVE  SequentialInv'
  <2>1. q \notin Tracked /\ Tracked' = Tracked /\ ~Outstanding(q)'
    BY <1>6 DEF Outstanding, Tracked
  <2>2. \A p \in Queries \ {q} : Outstanding(p)' <=> Outstanding(p)
    BY <1>6, <2>1 DEF Outstanding
  <2>3. OneOpenContext'
    BY <1>2, <1>5, <1>6 DEF OneOpenContext, Alive, InCall
  <2>4. OutstandingQueries'
    BY <1>2, <1>5, <1>6, <2>1, <2>2 DEF OutstandingQueries, Untracking, UbHolds
  <2>5. Untrackings'
    BY <1>2, <1>5, <1>6, <2>1, <2>2 DEF Untrackings, Untracking
  <2>6. HeldQueries' /\ DistinctIds'
    BY <1>2, <1>5, <1>6, <2>1, <2>2 DEF HeldQueries, DistinctIds, UbHolds
  <2>7. QuietQueries'
    BY <1>2, <1>5, <1>6, <2>1 DEF QuietQueries, UbHolds
  <2>. QED
    BY <1>6, <1>15, <2>3, <2>4, <2>5, <2>6, <2>7 DEF SequentialInv, NoUseAfterFree
<1>7. lpc[q] \in {"idle", "found", "locked"} =>
        ~Outstanding(q) /\ ~UbHolds(q) /\ calls[q] = 0 /\ outcome[q] = "none"
  BY <1>1, <1>2 DEF QuietQueries, LiveIsHeld, Outstanding
<1>8. lpc[q] \in {"found", "locked"} =>
        /\ ctxOf[q] \in Ctxs /\ phase[ctxOf[q]] = "open" /\ destroy # "sweeping"
        /\ CtxFault(ctxOf[q]) = "none"
  BY <1>2, CallHasOpenContext DEF InCall, CtxFault, OneOpenContext
<1>9. ASSUME NEW c \in Ctxs, LookupFind(q, c)
      PROVE  SequentialInv'
  <2>1. c \in g_contexts => phase[c] = "open"
    BY <1>1 DEF ContextLife
  <2>. QED
    BY <1>2, <1>3, <1>6, <1>7, <1>9, <2>1
    DEF LookupFind, CtxLockFree, ubVars, qryVars, NoUseAfterFree, InCall
<1>10. CASE LookupReject(q)
  BY <1>2, <1>3, <1>6, <1>7, <1>10
  DEF LookupReject, ubVars, qryVars, NoUseAfterFree, InCall
<1>11. CASE LookupLock(q)
  BY <1>2, <1>3, <1>6, <1>7, <1>8, <1>11 DEF LookupLock, ubVars, InCall
<1>12. CASE LookupSubmit(q) /\ UNCHANGED ubVars /\ lpc' = [lpc EXCEPT ![q] = "err"]
  BY <1>2, <1>3, <1>6, <1>7, <1>8, <1>12 DEF LookupSubmit, ubVars, InCall
<1>13. CASE LookupSubmit(q) /\ ub_resolve_async(ctxOf[q], q)
            /\ lpc' = [lpc EXCEPT ![q] = "submitted"]
  <2>. DEFINE c == ctxOf[q]
  <2>1. /\ UNCHANGED <<g_queries, expires, ctxOf>> /\ fault' = "none"
        /\ lpc[q] = "locked" /\ lpc'[q] = "submitted"
        /\ \A p \in Queries \ {q} : lpc'[p] = lpc[p]
    BY <1>3, <1>8, <1>13 DEF LookupSubmit
  <2>2. /\ ub'[q] = "pending" /\ ubCtx'[q] = c /\ ubId'[q] = nextId[c]
        /\ \A p \in Queries \ {q} :
             ub'[p] = ub[p] /\ ubCtx'[p] = ubCtx[p] /\ ubId'[p] = ubId[p]
        /\ nextId'[c] = nextId[c] + 1
        /\ \A d \in Ctxs \ {c} : nextId'[d] = nextId[d]
    BY <1>3, <1>8, <1>13, <2>1 DEF ub_resolve_async
  <2>3. c \in Ctxs /\ phase[c] = "open" /\ destroy # "sweeping"
    BY <1>8, <2>1
  <2>. HIDE DEF c
  <2>4. ctxOf[q] = c
    BY DEF c
  <2>5. q \notin Tracked /\ Tracked' = Tracked
    BY <1>7, <2>1 DEF Outstanding, Tracked
  <2>6. Outstanding(q)' /\ \A p \in Queries \ {q} : Outstanding(p)' <=> Outstanding(p)
    BY <2>1, <2>5 DEF Outstanding
  <2>7. OneOpenContext'
    BY <1>2, <1>5, <2>1, <2>3, <2>4 DEF OneOpenContext, Alive, InCall
  <2>8. OutstandingQueries'
    <3>1. tpc[c] \notin {"off", "exit"}
      BY <1>1, <2>3 DEF ContextLife
    <3>. QED
      BY <1>2, <1>5, <2>1, <2>2, <2>4, <2>6, <3>1
      DEF OutstandingQueries, Untracking, UbHolds
  <2>9. Untrackings'
    <3>1. \A d \in Ctxs : ~Untracking(d, q)
      BY <1>2, <1>7, <2>1 DEF Untrackings
    <3>. QED  BY <1>2, <1>5, <2>1, <2>2, <2>6, <3>1 DEF Untrackings, Untracking
  <2>10. HeldQueries'
    <3>1. ASSUME NEW p \in Queries \ {q}, UbHolds(p)'
          PROVE  ubId'[p] < nextId'[ubCtx'[p]] /\ Outstanding(p)' /\ UbHolds(p)
      <4>1. UbHolds(p) /\ Outstanding(p)
        BY <1>2, <2>2, <3>1 DEF UbHolds, HeldQueries
      <4>2. ubCtx[p] \in Ctxs /\ ubId[p] < nextId[ubCtx[p]]
        BY <1>2, <4>1, OutstandingHasContext DEF HeldQueries
      <4>3. nextId[ubCtx[p]] <= nextId'[ubCtx[p]] /\ nextId'[ubCtx[p]] \in Nat
        <5>1. nextId[ubCtx[p]] \in Nat
          BY <1>3, <4>2
        <5>2. CASE ubCtx[p] = c
          BY <2>2, <5>1, <5>2
        <5>3. CASE ubCtx[p] # c
          BY <2>2, <4>2, <5>1, <5>3
        <5>. QED  BY <5>2, <5>3
      <4>. QED  BY <1>3, <2>2, <2>6, <4>1, <4>2, <4>3
    <3>2. ubId'[q] < nextId'[ubCtx'[q]]
      BY <1>3, <2>2, <2>3
    <3>. QED
      BY <1>2, <1>5, <1>7, <2>1, <2>2, <2>4, <2>6, <3>1, <3>2 DEF HeldQueries
  <2>11. DistinctIds'
    <3>1. \A p \in Queries \ {q} : UbHolds(p)' /\ ubCtx'[p] = c => ubId'[p] # ubId'[q]
      BY <1>2, <1>3, <2>2, <2>3 DEF HeldQueries, UbHolds
    <3>. QED  BY <1>2, <2>2, <3>1 DEF DistinctIds, UbHolds
  <2>12. QuietQueries'
    BY <1>2, <1>5, <2>1, <2>2, <2>5 DEF QuietQueries, UbHolds
  <2>. QED
    BY <1>15, <2>1, <2>7, <2>8, <2>9, <2>10, <2>11, <2>12
    DEF SequentialInv, NoUseAfterFree
<1>14. CASE LookupTrack(q)
  <2>1. /\ UNCHANGED <<ub, ubCtx, ubId, nextId>>
        /\ UNCHANGED <<expires, ctxOf, fault>>
        /\ lpc[q] = "submitted" /\ lpc'[q] = "ok"
        /\ \A p \in Queries \ {q} : lpc'[p] = lpc[p]
        /\ HASH_ADD(q)
    BY <1>3, <1>14 DEF LookupTrack, ubVars
  <2>2. q \notin Tracked
    BY <1>1, <2>1 DEF LiveIsHeld
  <2>3. Tracked' = Tracked \cup {q}
    BY <1>1, <1>3, <2>1, <2>2, AddQuery DEF Tracked
  <2>4. \A p \in Queries : Outstanding(p)' <=> Outstanding(p)
    BY <2>1, <2>3 DEF Outstanding
  <2>5. OneOpenContext'
    BY <1>2, <1>5, <2>1 DEF OneOpenContext, Alive, InCall
  <2>6. OutstandingQueries' /\ Untrackings'
    BY <1>2, <1>5, <2>1, <2>4 DEF OutstandingQueries, Untrackings, Untracking, UbHolds
  <2>7. HeldQueries' /\ DistinctIds'
    BY <1>2, <1>5, <2>1, <2>4 DEF HeldQueries, DistinctIds, UbHolds
  <2>8. QuietQueries'
    BY <1>2, <1>5, <2>1, <2>3 DEF QuietQueries, UbHolds
  <2>. QED
    BY <1>2, <1>15, <2>1, <2>5, <2>6, <2>7, <2>8 DEF SequentialInv, NoUseAfterFree
<1>. QED
  BY <1>9, <1>10, <1>11, <1>12, <1>13, <1>14 DEF LookupStep, LookupSubmit

\* A thread hands over, takes out and cancels only queries of its own context,
\* and what it takes out of the table was told of its result.
LEMMA ThreadSequential ==
  ASSUME AnyUseInv, SequentialInv, NEW c \in Ctxs, ThreadStep(c)
  PROVE  SequentialInv'
<1>1. /\ ContextLife /\ PointersSet /\ OneTableWriter /\ LiveIsHeld
      /\ IsInjective(g_queries)
  BY DEF AnyUseInv
<1>2. /\ OneOpenContext /\ OutstandingQueries /\ Untrackings
      /\ HeldQueries /\ DistinctIds /\ QuietQueries
      /\ JoinedBeforeFreed /\ NoUseAfterFree
  BY DEF SequentialInv
<1>3. /\ g_queries \in Seq(Queries) /\ Tracked \subseteq Queries
      /\ expires \in [Queries -> Int]
      /\ ub \in [Queries -> UbState]
      /\ calls \in [Queries -> Nat]
      /\ outcome \in [Queries -> {"none", "answer", "timeout"}]
      /\ tpc \in [Ctxs -> ThreadPc]
      /\ current \in [Ctxs -> Queries \cup {Nobody}]
      /\ tvNow \in [Ctxs -> 0..MaxClock]
      /\ now \in 0..MaxClock /\ now \in Int /\ 0 <= now
      /\ memory \in [Queries -> {"none", "live", "freed"}]
  <2>1. TypeOK
    BY DEF AnyUseInv
  <2>2. now \in Int /\ 0 <= now
    BY <2>1, ClockAssumption DEF TypeOK
  <2>. QED  BY <2>1, <2>2, TrackedAreQueries DEF TypeOK, UbTypeOK, CtxTypeOK
<1>4. /\ UNCHANGED <<phase, stopping, destroy, lpc, ctxOf, expires, now>>
      /\ UNCHANGED <<ubCtx, ubId, nextId>>
      /\ tpc[c] \notin {"off", "exit"}
  BY DEF ThreadStep, ThreadWake, Deliver, Untrack, ProcessEnd, Peek, ExpireBegin,
         ExpireOne, ExpireEnd, ThreadStop, CleanOne, CleanEnd, CancelHead, ctxVars,
         lookupVars, qryVars, ubVars, Goto, HandOver, ub_cancel
<1>5. OneOpenContext'
  BY <1>2, <1>4 DEF OneOpenContext, Alive, InCall
<1>20. JoinedBeforeFreed'
  BY <1>2, NextJoined DEF NoUseAfterFree, Next, Step
\* Steps that move the thread without touching a query
<1>6. ASSUME UNCHANGED <<g_queries, ub, calls, outcome, current, fault>>,
             NEW to \in ThreadPc \ {"off", "untrack"},
             tpc[c] # "untrack", tpc' = [tpc EXCEPT ![c] = to],
             to = "exit" => g_queries = <<>> /\ tpc[c] = "clean"
      PROVE  SequentialInv'
  <2>1. Tracked' = Tracked /\ \A p \in Queries : Outstanding(p)' <=> Outstanding(p)
    BY <1>4, <1>6 DEF Tracked, Outstanding
  <2>2. ASSUME NEW p \in Queries, Outstanding(p), ctxOf[p] = c
        PROVE  to # "exit"
    <3>1. SUFFICES ASSUME to = "exit" PROVE FALSE
      OBVIOUS
    <3>2. Tracked = {} /\ tpc[c] = "clean"
      BY <1>6, <3>1 DEF Tracked, Range
    <3>3. InCall(p)
      BY <2>2, <3>2 DEF Outstanding, InCall
    <3>. QED  BY <1>2, <2>2, <3>2, <3>3, CallHasOpenContext
  <2>3. OutstandingQueries'
    <3>1. \A p \in Queries : Outstanding(p) => ctxOf[p] \in Ctxs
      BY <1>2, OutstandingHasContext
    <3>. QED
      BY <1>2, <1>3, <1>4, <1>6, <2>1, <2>2, <3>1 DEF OutstandingQueries, Untracking, UbHolds
  <2>4. Untrackings'
    BY <1>2, <1>3, <1>4, <1>6, <2>1 DEF Untrackings, Untracking
  <2>5. HeldQueries' /\ DistinctIds' /\ QuietQueries'
    BY <1>2, <1>4, <1>6, <2>1 DEF HeldQueries, DistinctIds, QuietQueries, UbHolds
  <2>. QED
    BY <1>2, <1>5, <1>6, <1>20, <2>3, <2>4, <2>5 DEF SequentialInv, NoUseAfterFree
<1>7. CASE ThreadWake(c)
  BY <1>6, <1>7 DEF ThreadWake, Goto, ThreadPc, ubVars, qryVars, threadVars
<1>8. CASE ProcessEnd(c)
  BY <1>6, <1>8 DEF ProcessEnd, Goto, ThreadPc, ubVars, qryVars
<1>9. CASE Peek(c)
  <2>1. PICK to \in {"wantlock", "loop"} : tpc' = [tpc EXCEPT ![c] = to]
    BY <1>9 DEF Peek
  <2>. QED  BY <1>6, <1>9, <2>1 DEF Peek, ThreadPc, ubVars, qryVars
<1>10. CASE ExpireBegin(c)
  BY <1>6, <1>10 DEF ExpireBegin, Goto, ThreadPc, ubVars, threadVars
<1>11. CASE ExpireEnd(c)
  BY <1>6, <1>11 DEF ExpireEnd, Goto, ThreadPc, ubVars
<1>12. CASE ThreadStop(c)
  BY <1>6, <1>12 DEF ThreadStop, Goto, ThreadPc, ubVars, threadVars
<1>13. CASE CleanEnd(c)
  BY <1>6, <1>13 DEF CleanEnd, Goto, ThreadPc, ubVars, threadVars
<1>14. ASSUME NEW q \in Queries, Deliver(c, q)
       PROVE  SequentialInv'
  <2>1. /\ tpc[c] = "process" /\ tpc'[c] = "untrack" /\ current'[c] = q
        /\ \A d \in Ctxs \ {c} : tpc'[d] = tpc[d] /\ current'[d] = current[d]
        /\ ub[q] = "answered" /\ ub'[q] = "delivered" /\ ubCtx[q] = c
        /\ calls'[q] = calls[q] + 1
        /\ \A p \in Queries \ {q} : /\ ub'[p] = ub[p]
                                     /\ calls'[p] = calls[p]
                                     /\ outcome'[p] = outcome[p]
        /\ UNCHANGED <<g_queries, tvNow>>
        /\ fault' = IF memory[q] = "freed" THEN "query" ELSE "none"
    BY <1>3, <1>14 DEF Deliver, Goto, HandOver, CallBack
  <2>2. Outstanding(q) /\ ctxOf[q] = c /\ calls[q] = 0
    BY <1>2, <2>1 DEF HeldQueries, UbHolds
  <2>3. Tracked' = Tracked /\ \A p \in Queries : Outstanding(p)' <=> Outstanding(p)
    BY <1>4, <2>1 DEF Tracked, Outstanding
  <2>4. fault' = "none"
    BY <1>1, <2>1, <2>2 DEF LiveIsHeld, Held, Outstanding
  <2>5. OutstandingQueries'
    <3>1. \A p \in Queries : Outstanding(p) => ctxOf[p] \in Ctxs
      BY <1>2, OutstandingHasContext
    <3>. QED
      BY <1>2, <1>4, <2>1, <2>2, <2>3, <3>1 DEF OutstandingQueries, Untracking, UbHolds
  <2>6. Untrackings'
    <3>1. \A d \in Ctxs : ~Untracking(d, q)
      BY <1>2, <2>1 DEF Untrackings
    <3>2. ASSUME NEW d \in Ctxs, NEW p \in Queries, Untracking(d, p)'
          PROVE  (d = c /\ p = q) \/ (d # c /\ p # q /\ Untracking(d, p))
      BY <2>1, <3>1, <3>2 DEF Untracking
    <3>. QED  BY <1>2, <1>4, <2>1, <2>2, <2>3, <3>2 DEF Untrackings
  <2>7. HeldQueries' /\ DistinctIds'
    BY <1>2, <1>4, <2>1, <2>3 DEF HeldQueries, DistinctIds, UbHolds
  <2>8. QuietQueries'
    BY <1>1, <1>2, <1>4, <2>1, <2>2, <2>3
    DEF QuietQueries, UbHolds, Outstanding, LiveIsHeld
  <2>. QED
    BY <1>5, <1>20, <2>4, <2>5, <2>6, <2>7, <2>8 DEF SequentialInv, NoUseAfterFree
\* Steps that take a query of this context, told of its result, out of the table
<1>15. ASSUME NEW q \in Tracked, HASH_DEL(q), ctxOf[q] = c,
              calls'[q] = 1, ub'[q] \notin {"pending", "answered"},
              \A p \in Queries \ {q} : /\ ub'[p] = ub[p]
                                      /\ calls'[p] = calls[p]
                                      /\ outcome'[p] = outcome[p],
              \A d \in Ctxs \ {c} : tpc'[d] = tpc[d] /\ current'[d] = current[d],
              tpc'[c] \notin {"off", "untrack", "exit"},
              tpc[c] = "untrack" => current[c] = q,
              \A d \in Ctxs : Untracking(d, q) => d = c,
              UNCHANGED fault
       PROVE  SequentialInv'
  <2>1. Tracked' = Tracked \ {q} /\ q \in Queries
    BY <1>1, <1>3, <1>15, DeleteQuery DEF Tracked
  <2>2. lpc[q] = "ok"
    BY <1>1, <1>15 DEF LiveIsHeld
  <2>3. ~Outstanding(q)' /\ \A p \in Queries \ {q} : Outstanding(p)' <=> Outstanding(p)
    BY <1>4, <2>1, <2>2 DEF Outstanding
  <2>4. OutstandingQueries'
    <3>1. \A p \in Queries : Outstanding(p) => ctxOf[p] \in Ctxs
      BY <1>2, OutstandingHasContext
    <3>. QED
      BY <1>2, <1>4, <1>15, <2>3, <3>1 DEF OutstandingQueries, Untracking, UbHolds
  <2>5. Untrackings'
    <3>1. ASSUME NEW d \in Ctxs, NEW p \in Queries, Untracking(d, p)'
          PROVE  d # c /\ p # q /\ Untracking(d, p)
      BY <1>15, <3>1 DEF Untracking
    <3>. QED  BY <1>2, <1>4, <1>15, <2>3, <3>1 DEF Untrackings
  <2>6. HeldQueries' /\ DistinctIds'
    BY <1>2, <1>4, <1>15, <2>3 DEF HeldQueries, DistinctIds, UbHolds
  <2>7. QuietQueries'
    BY <1>2, <1>4, <1>15, <2>1, <2>2 DEF QuietQueries, UbHolds
  <2>. QED
    BY <1>2, <1>5, <1>15, <1>20, <2>4, <2>5, <2>6, <2>7
    DEF SequentialInv, NoUseAfterFree
<1>16. CASE Untrack(c)
  <2>1. PICK q \in Queries : q = current[c]
    BY <1>1, <1>16 DEF PointersSet, Untrack, Goto
  <2>2. Untracking(c, q) /\ queryLock = Nobody
    BY <1>16, <2>1 DEF Untrack, Goto, Untracking, QueryLockFree
  <2>3. ctxOf[q] = c /\ Outstanding(q) /\ ub[q] = "delivered" /\ calls[q] = 1
    BY <1>2, <2>2 DEF Untrackings
  <2>4. q \in Tracked
    BY <1>1, <2>3, <2>2, NamesAssumption DEF Outstanding, OneTableWriter
  <2>5. ~Stale(q)
    BY <1>1, <2>1, <2>4 DEF LiveIsHeld, Held, Stale
  <2>6. /\ HASH_DEL(q) /\ UNCHANGED <<ub, calls, outcome, tvNow, fault>>
        /\ tpc' = [tpc EXCEPT ![c] = "process"]
        /\ current' = [current EXCEPT ![c] = Nobody]
    BY <1>16, <2>1, <2>5 DEF Untrack, Goto, ubVars
  <2>7. \A d \in Ctxs : Untracking(d, q) => d = c
    BY <1>2, <2>3 DEF Untrackings
  <2>8. tpc'[c] = "process" /\ \A d \in Ctxs \ {c} : tpc'[d] = tpc[d] /\ current'[d] = current[d]
    BY <1>3, <2>6
  <2>9. calls'[q] = 1 /\ ub'[q] = "delivered"
    BY <2>3, <2>6
  <2>. QED
    BY <1>15, <2>1, <2>3, <2>4, <2>6, <2>7, <2>8, <2>9
<1>17. ASSUME g_queries # <<>>, tpc[c] \in {"expire", "clean"}, CancelHead(c)
       PROVE  SequentialInv'
  <2>1. PICK q \in Queries : q = Head(g_queries) /\ q \in Tracked /\ Outstanding(q)
    BY <1>3, <1>17, TrackedAreQueries DEF Outstanding
  <2>2. ctxOf[q] = c /\ UbHolds(q) /\ ubCtx[q] = c
    BY <1>17, <2>1, HeldHere
  <2>3. /\ HASH_DEL(q) /\ ub_cancel(c, ubId[q]) /\ CallBack(q, "timeout")
        /\ UNCHANGED <<tpc, current, tvNow, fault>>
    BY <1>17, <2>1 DEF CancelHead, threadVars
  <2>4. \A p \in Queries : UbHolds(p) /\ ubCtx[p] = c /\ ubId[p] = ubId[q] => p = q
    BY <1>2, <2>1, <2>2 DEF DistinctIds
  <2>5. ub'[q] = "cancelled" /\ \A p \in Queries \ {q} : ub'[p] = ub[p]
    BY <2>1, <2>2, <2>3, <2>4 DEF ub_cancel
  <2>6. /\ calls'[q] = 1
        /\ \A p \in Queries \ {q} : calls'[p] = calls[p] /\ outcome'[p] = outcome[p]
    <3>1. calls[q] = 0
      BY <1>2, <2>1, <2>2 DEF HeldQueries
    <3>. QED  BY <1>3, <2>1, <2>3, <3>1 DEF CallBack
  <2>7. \A d \in Ctxs : ~Untracking(d, q)
    BY <1>2, <2>1, <2>2 DEF Untrackings, UbHolds
  <2>. QED
    BY <1>15, <1>17, <2>1, <2>2, <2>3, <2>5, <2>6, <2>7
<1>18. CASE ExpireOne(c)
  BY <1>17, <1>18 DEF ExpireOne, HeadExpired
<1>19. CASE CleanOne(c)
  BY <1>17, <1>19 DEF CleanOne
<1>. QED
  BY <1>7, <1>8, <1>9, <1>10, <1>11, <1>12, <1>13, <1>14, <1>16, <1>18, <1>19
  DEF ThreadStep

\* A step of neither the registry, nor a lookup, nor a thread
OtherStep ==
  DestroyStep \/ Tick \/ UNCHANGED vars \/ \E q \in Queries : ResolverStep(q)

\* Unloading begins when no lookup executes; the clock means nothing to the rest.
LEMMA OtherSequential ==
  ASSUME SequentialUse, AnyUseInv, SequentialInv, OtherStep \/ SetBack
  PROVE  SequentialInv'
<1>1. /\ OneOpenContext /\ OutstandingQueries /\ Untrackings
      /\ HeldQueries /\ DistinctIds /\ QuietQueries
      /\ JoinedBeforeFreed /\ NoUseAfterFree
  BY DEF SequentialInv
<1>2. /\ UNCHANGED <<phase, tpc, g_queries, expires, calls, outcome>>
      /\ UNCHANGED <<lpc, ctxOf, current, tvNow, fault>>
      /\ UNCHANGED <<ubCtx, ubId, nextId>>
  BY DEF OtherStep, DestroyStep, DestroyBegin, DestroyEnd, Tick, SetBack, ResolverStep, Resolved, vars,
         ubVars, ctxVars, qryVars, lookupVars, threadVars
<1>3. Tracked' = Tracked /\ \A q \in Queries : Outstanding(q)' <=> Outstanding(q)
  BY <1>2 DEF Tracked, Outstanding
<1>4. \A q \in Queries : ub'[q] = ub[q] \/ (ub[q] = "pending" /\ ub'[q] = "answered")
  <2>1. UNCHANGED ub \/ \E q \in Queries : Resolved(q)
    BY DEF OtherStep, DestroyStep, DestroyBegin, DestroyEnd, Tick, SetBack, ResolverStep, vars,
           ubVars
  <2>2. ub \in [Queries -> UbState]
    BY DEF AnyUseInv, TypeOK, UbTypeOK
  <2>3. ASSUME NEW r \in Queries, Resolved(r), NEW q \in Queries
        PROVE  ub'[q] = ub[q] \/ (ub[q] = "pending" /\ ub'[q] = "answered")
    BY <2>2, <2>3 DEF Resolved
  <2>. QED  BY <2>1, <2>3
<1>5. OneOpenContext'
  <2>1. destroy' = "sweeping" /\ destroy # "sweeping" => \A c \in Ctxs : MayClose(c)
    BY DEF OtherStep, DestroyStep, DestroyEnd, Tick, SetBack, ResolverStep, vars, ctxVars
  <2>2. \A q \in Queries : InCall(q) => ctxOf[q] \in Ctxs
    BY DEF AnyUseInv, PointersSet
  <2>. QED
    BY <1>1, <1>2, <2>1, <2>2 DEF OneOpenContext, Alive, InCall, MayClose, SequentialUse
<1>6. OutstandingQueries'
  BY <1>1, <1>2, <1>3, <1>4 DEF OutstandingQueries, Untracking, UbHolds
<1>7. Untrackings'
  BY <1>1, <1>2, <1>3, <1>4 DEF Untrackings, Untracking
<1>8. HeldQueries'
  BY <1>1, <1>2, <1>3, <1>4 DEF HeldQueries, UbHolds
<1>9. DistinctIds'
  BY <1>1, <1>2, <1>4 DEF DistinctIds, UbHolds
<1>10. QuietQueries'
  BY <1>1, <1>2, <1>3, <1>4 DEF QuietQueries, UbHolds
<1>11. JoinedBeforeFreed'
  BY <1>1, <1>2 DEF JoinedBeforeFreed
<1>. QED
  BY <1>1, <1>2, <1>5, <1>6, <1>7, <1>8, <1>9, <1>10, <1>11
  DEF SequentialInv, NoUseAfterFree

\* Every step of a sequential use keeps the invariant.
LEMMA NextSequential ==
  SequentialUse /\ AnyUseInv /\ SequentialInv /\ [Next]_vars => SequentialInv'
BY RegistrySequential, LookupSequential, ThreadSequential, OtherSequential
DEF Next, Step, OtherStep

\* SequentialInv holds of every reachable state of a sequential use.
THEOREM Sequential == ASSUME SequentialUse PROVE Spec \/ CSpec => []SequentialInv
<1>1. AnyUseInv /\ SequentialInv /\ [Next]_vars => SequentialInv'
  BY NextSequential
<1>2. AnyUseInv /\ SequentialInv /\ [CNext]_cvars => SequentialInv'
  BY <1>1, OtherSequential DEF CNext, cvars, OtherStep
<1>3. CInit => SequentialInv
  BY InitSequential DEF CInit
<1>4. Spec => []SequentialInv
  BY <1>1, InitSequential, AnyUse, PTL DEF Spec, AnySpec
<1>5. CSpec => []SequentialInv
  BY <1>2, <1>3, AnyUse, PTL DEF CSpec, AnySpec
<1>. QED  BY <1>4, <1>5

-----------------------------------------------------------------------------
(* What follows from it *)

\* A lookup is called back at most once, never after an error return, and until
\* then the table has it (unbound4j.c:237-262, 329-348, 400-412, 427-436).
THEOREM OneCallback ==
  ASSUME SequentialUse PROVE Spec \/ CSpec => []CalledBackOnce
<1>1. AnyUseInv /\ SequentialInv => CalledBackOnce
  <2>. SUFFICES ASSUME AnyUseInv, SequentialInv, NEW q \in Queries
                PROVE  /\ calls[q] <= 1
                       /\ lpc[q] = "err" => calls[q] = 0
                       /\ lpc[q] = "ok" /\ calls[q] = 0 => q \in Tracked
    BY DEF CalledBackOnce
  <2>1. lpc[q] \in LookupPc
    BY DEF AnyUseInv, TypeOK
  <2>2. Outstanding(q) => calls[q] \in {0, 1}
    BY OutstandingHasContext
    DEF SequentialInv, OutstandingQueries, HeldQueries, Untrackings
  <2>. QED
    BY <2>1, <2>2 DEF SequentialInv, QuietQueries, LookupPc, Outstanding
<1>. QED  BY <1>1, AnyUse, Sequential, PTL DEF AnySpec

\* As long as an accepted lookup has not been called back the table has it, where the
\* time-out and the clean-up find it, libunbound holds it in the context of the lookup,
\* and the thread of that context, which is to call back, has not ended.
Remembered(q) ==
  lpc[q] = "ok" /\ calls[q] = 0 =>
    /\ q \in Tracked
    /\ UbHolds(q) /\ ubCtx[q] = ctxOf[q]
    /\ Alive(ctxOf[q]) /\ tpc[ctxOf[q]] \notin {"off", "exit"}

AllRemembered == \A q \in Queries : Remembered(q)

\* Nobody who waits for a callback is forgotten, by the table, by libunbound or by the
\* thread (unbound4j.c:329-346, 364-439).
THEOREM NobodyIsForgotten ==
  ASSUME SequentialUse PROVE Spec \/ CSpec => []AllRemembered
<1>1. ASSUME AnyUseInv, SequentialInv, NEW q \in Queries, lpc[q] = "ok", calls[q] = 0
      PROVE  /\ q \in Tracked
             /\ UbHolds(q) /\ ubCtx[q] = ctxOf[q]
             /\ Alive(ctxOf[q]) /\ tpc[ctxOf[q]] \notin {"off", "exit"}
  <2>1. q \in Tracked
    BY <1>1 DEF SequentialInv, QuietQueries
  <2>2. ctxOf[q] \in Ctxs
    BY <1>1 DEF AnyUseInv, PointersSet
  <2>3. tpc[ctxOf[q]] \notin {"off", "exit"} /\ UbHolds(q)
    BY <1>1, <2>1, <2>2 DEF SequentialInv, OutstandingQueries, Outstanding, Untrackings
  <2>4. ubCtx[q] = ctxOf[q]
    BY <1>1, <2>3 DEF SequentialInv, HeldQueries
  <2>5. Alive(ctxOf[q])
    BY <1>1, <2>2, <2>3
    DEF AnyUseInv, ContextLife, SequentialInv, JoinedBeforeFreed, Alive
  <2>. QED  BY <2>1, <2>3, <2>4, <2>5
<1>2. AnyUseInv /\ SequentialInv => AllRemembered
  BY <1>1 DEF AllRemembered, Remembered
<1>. QED  BY <1>2, AnyUse, Sequential, PTL DEF AnySpec

\* Nothing is used after its release: ctx between unbound4j.c:273 and 330, the
\* query between 239 and 261.
THEOREM NothingUsedAfterFree ==
  ASSUME SequentialUse PROVE Spec \/ CSpec => []NoUseAfterFree
<1>1. SequentialInv => NoUseAfterFree
  BY DEF SequentialInv
<1>. QED  BY <1>1, Sequential, PTL

\* The head of the table expires first (unbound4j.c:381-392).
THEOREM HeadFirst == ASSUME SequentialUse PROVE Spec => []HeadExpiresFirst
<1>1. AnyUseInv /\ SequentialInv /\ InOrderButFor(0) => HeadExpiresFirst
  <2>. SUFFICES ASSUME AnyUseInv, SequentialInv, InOrderButFor(0), NEW q \in Tracked
                PROVE  expires[Head(g_queries)] <= expires[q]
    BY DEF HeadExpiresFirst
  <2>1. g_queries \in Seq(Queries) /\ DOMAIN g_queries = 1..Len(g_queries)
        /\ Len(g_queries) \in Nat
    BY LenProperties DEF AnyUseInv, TypeOK
  <2>2. PICK i \in DOMAIN g_queries : g_queries[i] = q
    BY DEF Tracked, Range
  <2>3. 1 \in DOMAIN g_queries /\ 1 <= i /\ Head(g_queries) = g_queries[1]
    BY <2>1, <2>2
  <2>4. PICK h \in Queries : h = Head(g_queries) /\ h \in Tracked
    BY <2>1, <2>2, TrackedAreQueries
  <2>5. MadeAt(h) <= MadeAt(q) + 0
    BY <2>2, <2>3, <2>4 DEF InOrderButFor
  <2>6. q \in Queries /\ Outstanding(h) /\ Outstanding(q)
    BY <2>1, <2>4, TrackedAreQueries DEF Outstanding
  <2>7. ctxOf[h] = ctxOf[q] /\ ctxOf[q] \in Ctxs
    BY <2>6, OutstandingHasContext DEF SequentialInv, OneOpenContext
  <2>8. expires[h] \in Int /\ expires[q] \in Int /\ Timeout[ctxOf[q]] \in Int
    BY <2>6, <2>7, ClockAssumption DEF AnyUseInv, TypeOK
  <2>. QED  BY <2>4, <2>5, <2>7, <2>8 DEF MadeAt
<1>. QED  BY <1>1, AnyUse, Sequential, InOrderOfSubmission, PTL DEF AnySpec

\* A query that was timed out will not be answered (unbound4j.c:403, 430).
THEOREM TimedOutIsSilent ==
  ASSUME SequentialUse PROVE Spec \/ CSpec => []CancelSilencesLibunbound
<1>1. SequentialInv => CancelSilencesLibunbound
  BY DEF SequentialInv, HeldQueries, CancelSilencesLibunbound
<1>. QED  BY <1>1, Sequential, PTL

\* When a context is freed none of its queries is outstanding
\* (unbound4j.c:209-219, 422-439; Unbound4jContext.java:20).
THEOREM CloseKills ==
  ASSUME SequentialUse PROVE Spec \/ CSpec => []CloseKillsOutstanding
<1>1. AnyUseInv /\ SequentialInv => CloseKillsOutstanding
  BY OutstandingHasContext
  DEF SequentialInv, HeldQueries, Outstanding, CloseKillsOutstanding, Alive
<1>. QED  BY <1>1, AnyUse, Sequential, PTL DEF AnySpec

-----------------------------------------------------------------------------
(* Every step of the library is one of LookupService, or changes nothing a *)
(* caller sees.                                                            *)

\* What a caller has been told of its call, as the refinement mapping has it
StatusOf(q) == IF Accepted(q) THEN "accepted" ELSE IF lpc[q] = "err" THEN "refused" ELSE "idle"

OwnerOf(q) == IF Accepted(q) THEN ctxOf[q] ELSE NoCtx

DeadlineOf(q) == IF Accepted(q) THEN expires[q] ELSE 0

StatusMap == [q \in Queries |-> StatusOf(q)]
OwnerMap == [q \in Queries |-> OwnerOf(q)]
DeadlineMap == [q \in Queries |-> DeadlineOf(q)]

-----------------------------------------------------------------------------

\* Nothing has been asked for.
LEMMA InitImplements == Init => Service!SInit
BY DEF Init, UbInit, CtxInit, Service!SInit, Accepted

\* A step in which no call is answered, no caller called back, no context stopped
\* and no second over changes nothing of the service.
LEMMA StutterImplements ==
  ASSUME \A q \in Queries : StatusOf(q)' = StatusOf(q) /\ OwnerOf(q)' = OwnerOf(q)
                            /\ DeadlineOf(q)' = DeadlineOf(q),
         UNCHANGED <<now, calls, outcome, stopping>>
  PROVE  UNCHANGED Service!svars
<1>1. StatusMap' = StatusMap /\ OwnerMap' = OwnerMap /\ DeadlineMap' = DeadlineMap
  BY DEF StatusMap, OwnerMap, DeadlineMap
<1>. QED
  BY <1>1 DEF StatusMap, OwnerMap, DeadlineMap, StatusOf, OwnerOf, DeadlineOf, Service!svars

\* An error return is a refusal.
LEMMA ErrorImplements ==
  ASSUME NEW q \in Queries, lpc[q] \in {"idle", "found", "locked"}, lpc'[q] = "err",
         \A p \in Queries \ {q} : StatusOf(p)' = StatusOf(p) /\ OwnerOf(p)' = OwnerOf(p)
                                  /\ DeadlineOf(p)' = DeadlineOf(p),
         UNCHANGED <<now, calls, outcome, stopping>>
  PROVE  Service!SNext
<1>1. StatusOf(q) = "idle" /\ StatusOf(q)' = "refused"
      /\ OwnerOf(q)' = OwnerOf(q) /\ DeadlineOf(q)' = DeadlineOf(q)
  BY DEF StatusOf, OwnerOf, DeadlineOf, Accepted
<1>2. /\ StatusMap[q] = "idle"
      /\ StatusMap' = [StatusMap EXCEPT ![q] = "refused"]
      /\ OwnerMap' = OwnerMap
      /\ DeadlineMap' = DeadlineMap
  BY <1>1 DEF StatusMap, OwnerMap, DeadlineMap
<1>3. Service!Refuse(q)
  BY <1>2 DEF StatusMap, OwnerMap, DeadlineMap, StatusOf, OwnerOf, DeadlineOf, Service!Refuse
<1>. QED  BY <1>3 DEF Service!SNext

\* Steps that leave alone what the service is made of, or stop a context.
LEMMA RegistryImplements ==
  ASSUME AnyUseInv, NEW c \in Ctxs, RegistryStep(c)
  PROVE  [Service!SNext]_(Service!svars)
<1>1. UNCHANGED <<now, calls, outcome, lpc, ctxOf, expires>>
  BY DEF RegistryStep, qryVars, lookupVars
<1>2. \A q \in Queries : StatusOf(q)' = StatusOf(q) /\ OwnerOf(q)' = OwnerOf(q)
                         /\ DeadlineOf(q)' = DeadlineOf(q)
  BY <1>1 DEF StatusOf, OwnerOf, DeadlineOf, Accepted
<1>3. CASE StopThread(c)
  <2>1. ~stopping[c] /\ stopping' = [stopping EXCEPT ![c] = TRUE]
    BY <1>3 DEF StopThread, Enter, AnyUseInv, ContextLife
  <2>2. StatusMap' = StatusMap /\ OwnerMap' = OwnerMap /\ DeadlineMap' = DeadlineMap
    BY <1>2 DEF StatusMap, OwnerMap, DeadlineMap
  <2>3. Service!BeginClose(c)
    BY <1>1, <2>1, <2>2
    DEF StatusMap, OwnerMap, DeadlineMap, StatusOf, OwnerOf, DeadlineOf,
        Service!BeginClose
  <2>. QED  BY <2>3 DEF Service!SNext
<1>4. CASE UNCHANGED stopping
  BY <1>1, <1>2, <1>4, StutterImplements
<1>. QED
  BY <1>3, <1>4
  DEF RegistryStep, CreateAllocate, CreateFromSystem, CreateFromDefaults,
      CreateLoadBegin, CreateLoadEnd, CreateSpawn, CreateRegister, DeleteContext,
      DestroyNext, FreeContext, Release

\* The submission to libunbound is the moment a call is accepted, with the second
\* in which it took the lock as the start of its time.
LEMMA LookupImplements ==
  ASSUME AnyUseInv, InOrderButFor(0), NEW q \in Queries, LookupStep(q)
  PROVE  [Service!SNext]_(Service!svars)
<1>1. /\ lpc \in [Queries -> LookupPc] /\ ctxOf \in [Queries -> Ctxs \cup {NoCtx}]
      /\ expires \in [Queries -> Int]
  BY DEF AnyUseInv, TypeOK
<1>2. UNCHANGED <<now, calls, outcome, stopping>>
  BY DEF LookupStep, LookupFind, LookupReject, LookupLock, LookupSubmit,
         LookupTrack, ctxVars, qryVars
<1>3. \A p \in Queries \ {q} :
        lpc'[p] = lpc[p] /\ ctxOf'[p] = ctxOf[p] /\ expires'[p] = expires[p]
  BY <1>1 DEF LookupStep, LookupFind, LookupReject, LookupLock, LookupSubmit,
              LookupTrack, qryVars
<1>4. \A p \in Queries \ {q} : StatusOf(p)' = StatusOf(p) /\ OwnerOf(p)' = OwnerOf(p)
                               /\ DeadlineOf(p)' = DeadlineOf(p)
  BY <1>3 DEF StatusOf, OwnerOf, DeadlineOf, Accepted
<1>5. CASE lpc[q] \in {"idle", "found", "locked"} /\ lpc'[q] = "err"
  BY <1>2, <1>4, <1>5, ErrorImplements
<1>6. CASE lpc[q] \in {"idle", "found"} /\ lpc'[q] \in {"found", "locked"}
  <2>1. StatusOf(q)' = StatusOf(q) /\ OwnerOf(q)' = OwnerOf(q)
        /\ DeadlineOf(q)' = DeadlineOf(q)
    BY <1>6 DEF StatusOf, OwnerOf, DeadlineOf, Accepted
  <2>. QED  BY <1>2, <1>4, <2>1, StutterImplements
<1>7. CASE LookupSubmit(q) /\ lpc' = [lpc EXCEPT ![q] = "submitted"]
  <2>1. lpc[q] = "locked" /\ lpc'[q] = "submitted" /\ UNCHANGED <<ctxOf, expires>>
    BY <1>1, <1>7 DEF LookupSubmit
  <2>2. PICK c \in Ctxs : ctxOf[q] = c
    BY <2>1 DEF AnyUseInv, PointersSet, InCall
  <2>3. expires[q] - Timeout[c] \in 0..now
    <3>1. Held(q) /\ MadeAt(q) \in Int /\ now \in Int
      BY <2>1, MadeAtIsInt, ClockAssumption DEF Held, AnyUseInv, TypeOK
    <3>. QED  BY <2>1, <2>2, <3>1 DEF InOrderButFor, MadeAt
  <2>4. PICK t \in 0..MaxClock : t <= now /\ expires[q] = t + Timeout[c]
    <3>1. now \in 0..MaxClock /\ MaxClock \in Nat /\ Timeout[c] \in Int /\ expires[q] \in Int
      BY <1>1, ClockAssumption DEF AnyUseInv, TypeOK
    <3>2. expires[q] - Timeout[c] \in 0..MaxClock /\ expires[q] - Timeout[c] <= now
      BY <2>3, <3>1
    <3>3. expires[q] = (expires[q] - Timeout[c]) + Timeout[c]
      BY <3>1
    <3>. QED  BY <3>2, <3>3
  <2>5. /\ StatusOf(q) = "idle" /\ StatusOf(q)' = "accepted"
        /\ OwnerOf(q)' = c /\ DeadlineOf(q)' = t + Timeout[c]
    BY <2>1, <2>2, <2>4 DEF StatusOf, OwnerOf, DeadlineOf, Accepted
  <2>6. /\ StatusMap[q] = "idle"
        /\ StatusMap' = [StatusMap EXCEPT ![q] = "accepted"]
        /\ OwnerMap' = [OwnerMap EXCEPT ![q] = c]
        /\ DeadlineMap' = [DeadlineMap EXCEPT ![q] = t + Timeout[c]]
    BY <1>4, <2>5 DEF StatusMap, OwnerMap, DeadlineMap
  <2>7. Service!Accept(q, c, t)
    BY <1>2, <2>4, <2>6
    DEF StatusMap, OwnerMap, DeadlineMap, StatusOf, OwnerOf, DeadlineOf, Service!Accept
  <2>. QED  BY <2>4, <2>7 DEF Service!SNext
<1>8. CASE LookupTrack(q)
  <2>1. lpc[q] = "submitted" /\ lpc'[q] = "ok" /\ UNCHANGED <<ctxOf, expires>>
    BY <1>1, <1>8 DEF LookupTrack
  <2>2. StatusOf(q)' = StatusOf(q) /\ OwnerOf(q)' = OwnerOf(q)
        /\ DeadlineOf(q)' = DeadlineOf(q)
    BY <2>1 DEF StatusOf, OwnerOf, DeadlineOf, Accepted
  <2>. QED  BY <1>2, <1>4, <2>2, StutterImplements
<1>9. CASE \E c \in Ctxs : LookupFind(q, c)
  <2>1. lpc[q] = "idle" /\ lpc'[q] \in {"found", "err"}
    BY <1>1, <1>9 DEF LookupFind
  <2>. QED  BY <1>5, <1>6, <2>1
<1>10. CASE LookupReject(q)
  BY <1>1, <1>5, <1>10 DEF LookupReject
<1>11. CASE LookupLock(q)
  BY <1>1, <1>6, <1>11 DEF LookupLock
<1>12. CASE LookupSubmit(q)
  BY <1>1, <1>5, <1>7, <1>12 DEF LookupSubmit
<1>. QED  BY <1>8, <1>9, <1>10, <1>11, <1>12 DEF LookupStep

\* A delivery is an answer; a query taken from the head of the table is timed out
\* because its time is over, or because its context is being closed.
LEMMA ThreadImplements ==
  ASSUME AnyUseInv, SequentialInv, InOrderButFor(0), NEW c \in Ctxs, ThreadStep(c)
  PROVE  [Service!SNext]_(Service!svars)
<1>1. UNCHANGED <<now, stopping, lpc, ctxOf, expires>>
  BY DEF ThreadStep, ThreadWake, Deliver, Untrack, ProcessEnd, Peek, ExpireBegin,
         ExpireOne, ExpireEnd, ThreadStop, CleanOne, CleanEnd, CancelHead, ctxVars,
         lookupVars, qryVars
<1>2. \A q \in Queries : StatusOf(q)' = StatusOf(q) /\ OwnerOf(q)' = OwnerOf(q)
                         /\ DeadlineOf(q)' = DeadlineOf(q)
  BY <1>1 DEF StatusOf, OwnerOf, DeadlineOf, Accepted
<1>3. StatusMap' = StatusMap /\ OwnerMap' = OwnerMap /\ DeadlineMap' = DeadlineMap
  BY <1>2 DEF StatusMap, OwnerMap, DeadlineMap
\* A callback is one telling.
<1>4. ASSUME NEW q \in Queries, NEW result, CallBack(q, result),
             Outstanding(q), calls[q] = 0
      PROVE  Service!Tell(q, result)
  <2>1. StatusMap[q] = "accepted"
    BY <1>4 DEF AnyUseInv, LiveIsHeld, Outstanding, StatusMap, StatusOf, Accepted
  <2>2. calls' = [calls EXCEPT ![q] = 1]
    BY <1>4 DEF CallBack
  <2>. QED
    BY <1>1, <1>3, <1>4, <2>1, <2>2
    DEF StatusMap, OwnerMap, DeadlineMap, StatusOf, OwnerOf, DeadlineOf, CallBack,
        Service!Tell
<1>5. ASSUME NEW q \in Queries, Deliver(c, q)
      PROVE  Service!SNext
  <2>1. CallBack(q, "answer") /\ UbHolds(q)
    BY <1>5 DEF Deliver, HandOver, UbHolds
  <2>2. Outstanding(q) /\ calls[q] = 0
    BY <2>1 DEF SequentialInv, HeldQueries
  <2>. QED  BY <1>4, <2>1, <2>2 DEF Service!Answer, Service!SNext
<1>6. ASSUME g_queries # <<>>, tpc[c] \in {"expire", "clean"}, CancelHead(c),
             expires[Head(g_queries)] <= now \/ stopping[c]
      PROVE  Service!SNext
  <2>1. PICK q \in Queries : q = Head(g_queries) /\ q \in Tracked
    BY <1>6, TrackedAreQueries DEF AnyUseInv, TypeOK
  <2>2. CallBack(q, "timeout")
    BY <1>6, <2>1 DEF CancelHead
  <2>3. Outstanding(q) /\ ctxOf[q] = c /\ UbHolds(q)
    BY <1>6, <2>1, HeldHere DEF Outstanding
  <2>4. calls[q] = 0
    BY <2>3 DEF SequentialInv, HeldQueries
  <2>5. Service!Tell(q, "timeout")
    BY <1>4, <2>2, <2>3, <2>4
  <2>6. DeadlineMap[q] = expires[q] /\ OwnerMap[q] = c
    BY <2>1, <2>3
    DEF AnyUseInv, LiveIsHeld, DeadlineMap, OwnerMap, DeadlineOf, OwnerOf, Accepted
  <2>7. Service!TimeOut(q)
    BY <1>6, <2>1, <2>5, <2>6
    DEF DeadlineMap, OwnerMap, DeadlineOf, OwnerOf, Service!TimeOut
  <2>. QED  BY <2>7 DEF Service!SNext
<1>7. CASE ExpireOne(c)
  <2>1. tvNow[c] <= now + 0 /\ expires[Head(g_queries)] <= tvNow[c] /\ g_queries # <<>>
    BY <1>7 DEF ExpireOne, HeadExpired, Expired, InOrderButFor
  <2>2. expires[Head(g_queries)] <= now
    <3>1. Head(g_queries) \in Queries
      BY <2>1, TrackedAreQueries DEF AnyUseInv, TypeOK
    <3>2. expires[Head(g_queries)] \in Int /\ tvNow[c] \in Int /\ now \in Int
      BY <3>1, ClockAssumption DEF AnyUseInv, TypeOK
    <3>. QED  BY <2>1, <3>2
  <2>. QED  BY <1>6, <1>7, <2>1, <2>2 DEF ExpireOne
<1>8. CASE CleanOne(c)
  BY <1>6, <1>8 DEF CleanOne, AnyUseInv, ContextLife
<1>9. CASE UNCHANGED <<calls, outcome>>
  BY <1>1, <1>2, <1>9, StutterImplements
<1>. QED
  BY <1>5, <1>7, <1>8, <1>9
  DEF ThreadStep, ThreadWake, Untrack, ProcessEnd, Peek, ExpireBegin, ExpireEnd,
      ThreadStop, CleanEnd, qryVars

\* The rest is a tick of the clock, or nothing a caller sees.
LEMMA OtherImplements ==
  ASSUME OtherStep
  PROVE  [Service!SNext]_(Service!svars)
<1>1. UNCHANGED <<calls, outcome, stopping, lpc, ctxOf, expires>>
  BY DEF OtherStep, DestroyStep, DestroyBegin, DestroyEnd, Tick, ResolverStep, vars,
         ctxVars, qryVars, lookupVars
<1>2. \A q \in Queries : StatusOf(q)' = StatusOf(q) /\ OwnerOf(q)' = OwnerOf(q)
                         /\ DeadlineOf(q)' = DeadlineOf(q)
  BY <1>1 DEF StatusOf, OwnerOf, DeadlineOf, Accepted
<1>3. CASE Tick
  <2>1. StatusMap' = StatusMap /\ OwnerMap' = OwnerMap /\ DeadlineMap' = DeadlineMap
    BY <1>2 DEF StatusMap, OwnerMap, DeadlineMap
  <2>2. Service!ClockTick
    BY <1>1, <1>3, <2>1
    DEF Tick, StatusMap, OwnerMap, DeadlineMap, StatusOf, OwnerOf, DeadlineOf,
        Service!ClockTick
  <2>. QED  BY <2>2 DEF Service!SNext
<1>4. CASE UNCHANGED now
  BY <1>1, <1>2, <1>4, StutterImplements
<1>. QED
  BY <1>3, <1>4 DEF OtherStep, DestroyStep, ResolverStep, vars

\* A sequential use of the library is a behaviour of the service: every lookup is
\* refused or answered once, and a time-out has its cause (unbound4j.c:223-442).
THEOREM Implements ==
  ASSUME SequentialUse PROVE Spec => ImplementsService /\ Service!SSpec
<1>1. AnyUseInv /\ SequentialInv /\ InOrderButFor(0) /\ [Next]_vars
        => [Service!SNext]_(Service!svars)
  BY RegistryImplements, LookupImplements, ThreadImplements, OtherImplements
  DEF Next, Step, OtherStep
<1>2. [Service!SNext]_(Service!svars) => [Unseen \/ Service!SNext]_(Service!svars)
  OBVIOUS
<1>. QED
  BY <1>1, <1>2, InitImplements, AnyUse, Sequential, InOrderOfSubmission, PTL
  DEF Spec, AnySpec, ImplementsService, Service!SSpec
=============================================================================
