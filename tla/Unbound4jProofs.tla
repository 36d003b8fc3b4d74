--------------------------- MODULE Unbound4jProofs ---------------------------
(***************************************************************************)
(* AnyUseInv is an inductive invariant of Unbound4j and of Reentrancy, for *)
(* any number of contexts and lookups, any time-outs and any use of the    *)
(* library, callbacks that call it again and a clock that is set back      *)
(* included.  The properties of the any_use run follow from it, with       *)
(* CallbacksInv the absence of deadlock, and what is left of the order of  *)
(* the table when the clock is set back.                                   *)
(***************************************************************************)
EXTENDS Reentrancy, ClockSetBack, TableLemmas

\* Used by any number of threads at once, by callbacks as well, or under a wall
\* clock that is set back
AnySpec == Spec \/ RSpec \/ CSpec

-----------------------------------------------------------------------------
(* The query table *)

\* HASH_DEL of a tracked query takes out that query and nothing else.
LEMMA DeleteQuery ==
  ASSUME g_queries \in Seq(Queries), IsInjective(g_queries),
         NEW q \in Tracked, HASH_DEL(q)
  PROVE  /\ g_queries' \in Seq(Queries)
         /\ IsInjective(g_queries')
         /\ Range(g_queries') = Tracked \ {q}
<1>1. DOMAIN g_queries = 1..Len(g_queries)
  BY LenProperties
<1>2. PositionOf(q) \in 1..Len(g_queries) /\ g_queries[PositionOf(q)] = q
  BY <1>1 DEF Tracked, Range, PositionOf
<1>3. g_queries' = RemoveAt(g_queries, PositionOf(q))
  BY DEF HASH_DEL
<1>. QED
  BY <1>2, <1>3, RemoveAtElements, RemoveAtKeepsInjective DEF Tracked

\* HASH_ADD of an untracked query adds that query and nothing else.
LEMMA AddQuery ==
  ASSUME g_queries \in Seq(Queries), IsInjective(g_queries),
         NEW q \in Queries, q \notin Tracked, HASH_ADD(q)
  PROVE  /\ g_queries' \in Seq(Queries)
         /\ IsInjective(g_queries')
         /\ Range(g_queries') = Tracked \cup {q}
BY AppendNewInjective DEF HASH_ADD, Tracked

\* The table holds queries, its head among them.
LEMMA TrackedAreQueries ==
  ASSUME g_queries \in Seq(Queries)
  PROVE  /\ Tracked \subseteq Queries
         /\ g_queries # <<>> => Head(g_queries) \in Tracked
BY LenProperties, ElementOfSeq, EmptySeq DEF Tracked, Range

-----------------------------------------------------------------------------
(* Type correctness and the other parts of AnyUseInv *)

\* No context, no query, no lock held.
LEMMA InitAnyUse == Init => AnyUseInv
<1>. SUFFICES ASSUME Init PROVE AnyUseInv
  OBVIOUS
<1>. USE NamesAssumption, ClockAssumption DEF Init
<1>1. TypeOK
  BY DEF TypeOK, UbInit, UbTypeOK, UbState, CtxInit, CtxTypeOK, Phase, ThreadPc,
         LookupPc
<1>2. ContextLife
  BY DEF CtxInit, ContextLife
<1>3. PointersSet /\ OneTableWriter
  BY DEF CtxInit, PointersSet, OneTableWriter, InCall
<1>4. IsInjective(g_queries) /\ Tracked = {}
  BY DEF IsInjective, Tracked, Range
<1>5. LiveIsHeld
  BY <1>4 DEF LiveIsHeld, Held
<1>6. SubmittedIsAllocated
  BY DEF UbInit, CtxInit, SubmittedIsAllocated
<1>. QED  BY <1>1, <1>2, <1>3, <1>4, <1>5, <1>6 DEF AnyUseInv

\* The two steps of closing a context, whoever is using it
CloseStep(c) ==
  /\ DeleteContext(c) \/ Release(c)
  /\ UNCHANGED <<now, qryVars, lookupVars, threadVars, fault>>

\* No action of the registry touches the lookups.
LEMMA RegistryAnyUse ==
  ASSUME AnyUseInv, NEW c \in Ctxs, RegistryStep(c) \/ CloseStep(c)
  PROVE  AnyUseInv'
<1>0. TypeOK /\ ContextLife /\ PointersSet /\ OneTableWriter
      /\ IsInjective(g_queries) /\ LiveIsHeld /\ SubmittedIsAllocated
  BY DEF AnyUseInv
<1>1. UNCHANGED <<now, qryVars, lookupVars, threadVars, fault>>
  BY DEF RegistryStep, CloseStep
<1>7. \/ CreateAllocate(c) \/ CreateFromSystem(c) \/ CreateFromDefaults(c)
      \/ CreateLoadBegin(c) \/ CreateLoadEnd(c) \/ CreateSpawn(c) \/ CreateRegister(c)
      \/ DeleteContext(c) \/ DestroyNext(c) \/ StopThread(c) \/ Release(c)
  BY DEF RegistryStep, CloseStep, FreeContext
<1>2. TypeOK' /\ ContextLife'
  <2>. USE DEF TypeOK, CtxTypeOK, Phase, ThreadPc, ContextLife, ctxVars, ubVars,
               UbTypeOK, qryVars, lookupVars, threadVars
  <2>1. CASE CreateAllocate(c)
    <3>1. CASE Enter(c, "new", "allocated") /\ heap' = [heap EXCEPT ![c] = {"ctx", "ub_ctx"}]
      BY <1>0, <1>1, <2>1, <3>1 DEF CreateAllocate, Enter
    <3>2. CASE FailCreate(c, "new", {})
      BY <1>0, <1>1, <2>1, <3>2 DEF CreateAllocate, Enter, FailCreate
    <3>. QED  BY <2>1, <3>1, <3>2 DEF CreateAllocate
  <2>2. CASE CreateFromSystem(c)
    <3>1. CASE Enter(c, "allocated", "configured") /\ UNCHANGED heap
      BY <1>0, <1>1, <2>2, <3>1 DEF CreateFromSystem, Enter
    <3>2. CASE FailCreate(c, "allocated", {"ctx"})
      BY <1>0, <1>1, <2>2, <3>2 DEF CreateFromSystem, Enter, FailCreate
    <3>3. CASE FailCreate(c, "allocated", {"ctx", "ub_ctx"})
      BY <1>0, <1>1, <2>2, <3>3 DEF CreateFromSystem, Enter, FailCreate
    <3>. QED  BY <2>2, <3>1, <3>2, <3>3 DEF CreateFromSystem
  <2>3. CASE CreateFromDefaults(c)
    BY <1>0, <1>1, <2>3 DEF CreateFromDefaults, Enter
  <2>4. CASE CreateLoadBegin(c)
    BY <1>0, <1>1, <2>4, NamesAssumption DEF CreateLoadBegin, Enter, LockConfig
  <2>5. CASE CreateLoadEnd(c)
    <3>1. CASE Enter(c, "loading", "configured") /\ UNCHANGED heap
      BY <1>0, <1>1, <2>5, <3>1, NamesAssumption DEF CreateLoadEnd, Enter
    <3>2. CASE FailCreate(c, "loading", {"ctx"})
      BY <1>0, <1>1, <2>5, <3>2, NamesAssumption DEF CreateLoadEnd, Enter, FailCreate
    <3>. QED  BY <2>5, <3>1, <3>2 DEF CreateLoadEnd
  <2>6. CASE CreateSpawn(c)
    <3>1. CASE /\ Enter(c, "configured", "spawned")
               /\ tpc' = [tpc EXCEPT ![c] = "loop"]
               /\ UNCHANGED heap
      <4>1. TypeOK'
        BY <1>0, <1>1, <2>6, <3>1 DEF CreateSpawn, Enter
      <4>2. ContextLife'
        BY <1>0, <2>6, <3>1 DEF CreateSpawn, Enter
      <4>. QED  BY <4>1, <4>2
    <3>2. CASE FailCreate(c, "configured", {"ctx"}) /\ UNCHANGED tpc
      BY <1>0, <1>1, <2>6, <3>2 DEF CreateSpawn, Enter, FailCreate
    <3>. QED  BY <2>6, <3>1, <3>2 DEF CreateSpawn
  <2>7. CASE CreateRegister(c)
    BY <1>0, <1>1, <2>7 DEF CreateRegister, Enter
  <2>8. CASE DeleteContext(c)
    BY <1>0, <1>1, <2>8 DEF DeleteContext, Enter
  <2>9. CASE DestroyNext(c)
    BY <1>0, <1>1, <2>9 DEF DestroyNext, Enter
  <2>10. CASE StopThread(c)
    BY <1>0, <1>1, <2>10 DEF StopThread, Enter
  <2>11. CASE Release(c)
    <3>1. UbTypeOK'
      BY <1>0, <2>11 DEF Release, ub_ctx_delete, UbState
    <3>2. CtxTypeOK' /\ TypeOK'
      BY <1>0, <1>1, <2>11, <3>1 DEF Release, Enter
    <3>3. ContextLife'
      BY <1>0, <2>11 DEF Release, Enter
    <3>. QED  BY <3>2, <3>3
  <2>. QED
    BY <1>7, <2>1, <2>2, <2>3, <2>4, <2>5, <2>6, <2>7, <2>8, <2>9, <2>10, <2>11
<1>3. \A d \in Ctxs : /\ tpc'[d] = "untrack" <=> tpc[d] = "untrack"
                      /\ tpc'[d] \in {"expire", "clean"} <=> tpc[d] \in {"expire", "clean"}
  <2>1. UNCHANGED tpc \/ CreateSpawn(c)
    BY <1>7 DEF CreateAllocate, CreateFromSystem, CreateFromDefaults,
           CreateLoadBegin, CreateLoadEnd, CreateRegister, DeleteContext,
           DestroyNext, StopThread, Release, ctxVars
  <2>2. CASE CreateSpawn(c)
    BY <1>0, <2>2 DEF CreateSpawn, ContextLife, Enter, TypeOK, CtxTypeOK
  <2>. QED  BY <2>1, <2>2
<1>4. PointersSet' /\ OneTableWriter'
  BY <1>0, <1>1, <1>3 DEF PointersSet, OneTableWriter, InCall, qryVars, lookupVars,
                    threadVars
<1>5. IsInjective(g_queries)' /\ LiveIsHeld'
  BY <1>0, <1>1 DEF LiveIsHeld, Held, Tracked, qryVars, lookupVars
<1>6. SubmittedIsAllocated'
  <2>1. \A q \in Queries : ub'[q] # "none" => ub[q] # "none"
    <3>1. UNCHANGED ub \/ Release(c)
      BY <1>7
      DEF CreateAllocate, CreateFromSystem, CreateFromDefaults, CreateLoadBegin,
          CreateLoadEnd, CreateSpawn, CreateRegister, DeleteContext, DestroyNext,
          StopThread, ubVars
    <3>. QED  BY <1>0, <3>1 DEF TypeOK, UbTypeOK, Release, ub_ctx_delete, UbHolds
  <2>. QED
    BY <1>0, <1>1, <1>3, <2>1
    DEF SubmittedIsAllocated, Accepted, qryVars, lookupVars, threadVars
<1>. QED  BY <1>2, <1>4, <1>5, <1>6 DEF AnyUseInv

\* Lookups touch only their own entries; each holds the lock while its query
\* is live and not in the table.
LEMMA LookupAnyUse ==
  ASSUME AnyUseInv, NEW q \in Queries, LookupStep(q)
  PROVE  AnyUseInv'
<1>1. TypeOK /\ ContextLife /\ PointersSet /\ OneTableWriter
      /\ IsInjective(g_queries) /\ LiveIsHeld /\ SubmittedIsAllocated
  BY DEF AnyUseInv
<1>2. /\ lpc \in [Queries -> LookupPc]
      /\ ctxOf \in [Queries -> Ctxs \cup {NoCtx}]
      /\ memory \in [Queries -> {"none", "live", "freed"}]
      /\ queryLock \in Ctxs \cup Queries \cup {Nobody}
      /\ Tracked \subseteq Queries
  BY <1>1, TrackedAreQueries DEF TypeOK
<1>3. UNCHANGED <<phase, heap, g_contexts, stopping, cfgLock, destroy, victim>>
      /\ UNCHANGED tpc /\ UNCHANGED current /\ UNCHANGED tvNow /\ UNCHANGED now
  BY DEF LookupStep, LookupFind, LookupReject, LookupLock, LookupSubmit,
         LookupTrack, threadVars, ctxVars
<1>4. ContextLife' /\ CtxTypeOK'
  BY <1>1, <1>3 DEF ContextLife, TypeOK, CtxTypeOK
<1>10. SubmittedIsAllocated'
  <2>1. \A p \in Queries : /\ memory[p] # "none" => memory'[p] # "none"
                           /\ Accepted(p) => Accepted(p)'
    <3>1. \A p \in Queries : memory[p] # "none" => memory'[p] # "none"
      BY <1>2 DEF LookupStep, LookupFind, LookupReject, LookupLock, LookupSubmit,
                  LookupTrack, qryVars, Free
    <3>2. \/ ~Accepted(q) /\ \E to \in LookupPc : lpc' = [lpc EXCEPT ![q] = to]
          \/ lpc' = [lpc EXCEPT ![q] = "ok"]
      <4>1. CASE \/ (\E c \in Ctxs : LookupFind(q, c)) \/ LookupReject(q)
                 \/ LookupLock(q) \/ LookupSubmit(q)
        BY <4>1 DEF LookupFind, LookupReject, LookupLock, LookupSubmit, Accepted, LookupPc
      <4>. QED  BY <4>1 DEF LookupStep, LookupTrack
    <3>3. \A p \in Queries : Accepted(p) => Accepted(p)'
      BY <1>2, <3>2 DEF Accepted
    <3>. QED  BY <3>1, <3>3
  <2>2. \A p \in Queries : ub'[p] # "none" =>
           ub[p] # "none" \/ (memory[p] = "live" /\ Accepted(p)')
    <3> DEFINE given == /\ lpc[q] = "locked" /\ lpc'[q] = "submitted"
                        /\ ub' = [ub EXCEPT ![q] = "pending"]
    <3>1. UNCHANGED ub \/ given
      BY <1>2 DEF LookupStep, LookupFind, LookupReject, LookupLock, LookupSubmit,
                  LookupTrack, ub_resolve_async, ubVars
    <3>2. given => memory[q] = "live" /\ Accepted(q)'
      BY <1>1 DEF LiveIsHeld, Held, Accepted
    <3>3. given => \A p \in Queries \ {q} : ub'[p] = ub[p]
      BY <1>1 DEF TypeOK, UbTypeOK
    <3>. QED  BY <3>1, <3>2, <3>3
  <2>3. \A d \in Ctxs : tpc[d] = "untrack" => current[d] \in Queries
    BY <1>1 DEF PointersSet
  <2>. QED  BY <1>1, <1>3, <2>1, <2>2, <2>3 DEF SubmittedIsAllocated
<1>. USE DEF InCall, Held
<1>5. ASSUME NEW c \in Ctxs, LookupFind(q, c)
      PROVE  AnyUseInv'
  <2>1. /\ UNCHANGED <<ub, ubCtx, ubId, nextId>>
        /\ UNCHANGED <<g_queries, queryLock, memory, expires, calls, outcome>>
        /\ UNCHANGED fault
        /\ lpc[q] = "idle"
        /\ \/ lpc' = [lpc EXCEPT ![q] = "found"] /\ ctxOf' = [ctxOf EXCEPT ![q] = c]
           \/ lpc' = [lpc EXCEPT ![q] = "err"] /\ UNCHANGED ctxOf
    BY <1>5 DEF LookupFind, qryVars, ubVars
  <2>2. /\ lpc' \in [Queries -> LookupPc]
        /\ ctxOf' \in [Queries -> Ctxs \cup {NoCtx}]
    BY <2>1, <1>2 DEF LookupPc
  <2>3. TypeOK'
    BY <1>1, <1>3, <1>4, <2>1, <2>2 DEF TypeOK, UbTypeOK
  <2>4. PointersSet' /\ OneTableWriter'
    BY <1>1, <1>2, <1>3, <2>1 DEF PointersSet, OneTableWriter
  <2>5. IsInjective(g_queries)' /\ LiveIsHeld'
    BY <1>1, <1>2, <2>1 DEF LiveIsHeld, Tracked
  <2>. QED  BY <1>4, <1>10, <2>3, <2>4, <2>5 DEF AnyUseInv
<1>6. CASE LookupReject(q)
  <2>1. TypeOK'
    BY <1>1, <1>2, <1>3, <1>4, <1>6
    DEF LookupReject, TypeOK, UbTypeOK, LookupPc, qryVars, ubVars
  <2>2. PointersSet' /\ OneTableWriter'
    BY <1>1, <1>2, <1>3, <1>6 DEF LookupReject, PointersSet, OneTableWriter, qryVars
  <2>3. IsInjective(g_queries)' /\ LiveIsHeld'
    BY <1>1, <1>2, <1>6 DEF LookupReject, LiveIsHeld, Tracked, qryVars
  <2>. QED  BY <1>4, <1>10, <2>1, <2>2, <2>3 DEF AnyUseInv
<1>7. CASE LookupLock(q)
  <2>1. expires' \in [Queries -> Int] /\ fault' \in {"none", "ctx", "query"}
    <3>1. now \in Int /\ expires \in [Queries -> Int]
      BY <1>1, ClockAssumption DEF TypeOK
    <3>2. now + Timeout[ctxOf[q]] \in Int
      BY <1>1, <1>7, <3>1, ClockAssumption DEF LookupLock, PointersSet
    <3>. QED  BY <1>7, <3>1, <3>2 DEF LookupLock, CtxFault
  <2>2. TypeOK'
    BY <1>1, <1>2, <1>3, <1>4, <1>7, <2>1
    DEF LookupLock, TypeOK, UbTypeOK, LookupPc, ubVars
  <2>3. PointersSet' /\ OneTableWriter'
    BY <1>1, <1>2, <1>3, <1>7, NamesAssumption
    DEF LookupLock, PointersSet, OneTableWriter, QueryLockFree
  <2>4. IsInjective(g_queries)' /\ LiveIsHeld'
    BY <1>1, <1>2, <1>7 DEF LookupLock, LiveIsHeld, Tracked
  <2>. QED  BY <1>4, <1>10, <2>2, <2>3, <2>4 DEF AnyUseInv
<1>8. CASE LookupSubmit(q)
  <2>1. q \notin Tracked /\ ctxOf[q] \in Ctxs /\ lpc[q] = "locked"
    BY <1>1, <1>8 DEF LookupSubmit, LiveIsHeld, PointersSet
  <2>2. fault' \in {"none", "ctx", "query"}
    BY <1>8 DEF LookupSubmit, CtxFault
  <2>3. CASE /\ ub_resolve_async(ctxOf[q], q)
             /\ lpc' = [lpc EXCEPT ![q] = "submitted"]
             /\ UNCHANGED <<memory, queryLock>>
    <3>1. UbTypeOK'
      BY <1>1, <2>1, <2>3 DEF ub_resolve_async, TypeOK, UbTypeOK, UbState
    <3>2. TypeOK'
      BY <1>1, <1>2, <1>3, <1>4, <1>8, <2>2, <2>3, <3>1
      DEF LookupSubmit, TypeOK, LookupPc
    <3>3. PointersSet' /\ OneTableWriter'
      BY <1>1, <1>2, <1>3, <1>8, <2>1, <2>3
      DEF LookupSubmit, PointersSet, OneTableWriter
    <3>4. IsInjective(g_queries)' /\ LiveIsHeld'
      BY <1>1, <1>2, <1>8, <2>1, <2>3 DEF LookupSubmit, LiveIsHeld, Tracked
    <3>. QED  BY <1>4, <1>10, <3>2, <3>3, <3>4 DEF AnyUseInv
  <2>4. CASE /\ UNCHANGED ubVars
             /\ lpc' = [lpc EXCEPT ![q] = "err"]
             /\ Free(q)
             /\ queryLock' = Nobody
    <3>1. TypeOK'
      BY <1>1, <1>2, <1>3, <1>4, <1>8, <2>2, <2>4
      DEF LookupSubmit, TypeOK, UbTypeOK, LookupPc, Free, ubVars
    <3>2. PointersSet' /\ OneTableWriter'
      BY <1>1, <1>2, <1>3, <1>8, <2>1, <2>4, NamesAssumption
      DEF LookupSubmit, PointersSet, OneTableWriter
    <3>3. IsInjective(g_queries)' /\ LiveIsHeld'
      BY <1>1, <1>2, <1>8, <2>1, <2>4 DEF LookupSubmit, LiveIsHeld, Tracked, Free
    <3>. QED  BY <1>4, <1>10, <3>1, <3>2, <3>3 DEF AnyUseInv
  <2>. QED  BY <1>8, <2>3, <2>4 DEF LookupSubmit
<1>9. CASE LookupTrack(q)
  <2>1. q \notin Tracked
    BY <1>1, <1>9 DEF LookupTrack, LiveIsHeld
  <2>2. /\ g_queries' \in Seq(Queries)
        /\ IsInjective(g_queries)'
        /\ Tracked' = Tracked \cup {q}
    BY <1>1, <1>9, <2>1, AddQuery DEF LookupTrack, TypeOK, Tracked
  <2>3. TypeOK'
    BY <1>1, <1>2, <1>3, <1>4, <1>9, <2>2
    DEF LookupTrack, TypeOK, UbTypeOK, LookupPc, ubVars
  <2>4. PointersSet' /\ OneTableWriter'
    BY <1>1, <1>2, <1>3, <1>9, NamesAssumption
    DEF LookupTrack, PointersSet, OneTableWriter
  <2>5. LiveIsHeld'
    BY <1>1, <1>2, <1>9, <2>2 DEF LookupTrack, LiveIsHeld
  <2>. QED  BY <1>4, <1>10, <2>2, <2>3, <2>4, <2>5 DEF AnyUseInv
<1>. QED  BY <1>5, <1>6, <1>7, <1>8, <1>9 DEF LookupStep

\* The thread of a context that exists moves between its program points, takes
\* and gives back the lock of the table, and takes queries out of it as it frees
\* them.
LEMMA ThreadAnyUse ==
  ASSUME AnyUseInv, NEW c \in Ctxs, ThreadStep(c)
  PROVE  AnyUseInv'
<1>1. TypeOK /\ ContextLife /\ PointersSet /\ OneTableWriter
      /\ IsInjective(g_queries) /\ LiveIsHeld /\ SubmittedIsAllocated
  BY DEF AnyUseInv
<1>2. /\ tpc \in [Ctxs -> ThreadPc]
      /\ queryLock \in Ctxs \cup Queries \cup {Nobody}
      /\ memory \in [Queries -> {"none", "live", "freed"}]
      /\ current \in [Ctxs -> Queries \cup {Nobody}]
      /\ tvNow \in [Ctxs -> 0..MaxClock]
      /\ now \in 0..MaxClock
      /\ Tracked \subseteq Queries
  BY <1>1, TrackedAreQueries DEF TypeOK, CtxTypeOK
<1>3. /\ UNCHANGED <<phase, heap, g_contexts, stopping, cfgLock, destroy, victim>>
      /\ UNCHANGED <<now, lpc, ctxOf, expires>>
  BY DEF ThreadStep, ThreadWake, Deliver, Untrack, ProcessEnd, Peek, ExpireBegin,
         ExpireOne, ExpireEnd, ThreadStop, CleanOne, CleanEnd, CancelHead, ctxVars,
         lookupVars, qryVars
<1>4. \/ UNCHANGED tpc
      \/ \E to \in ThreadPc \ {"off"} :
           /\ tpc' = [tpc EXCEPT ![c] = to]
           /\ tpc[c] \notin {"off", "exit"}
           /\ to \in {"clean", "exit"} => stopping[c]
  BY <1>1 DEF ContextLife, ThreadStep, ThreadWake, Deliver, Untrack, ProcessEnd, Peek, ExpireBegin,
         ExpireOne, ExpireEnd, ThreadStop, CleanOne, CleanEnd, CancelHead, Goto,
         ThreadPc
<1>5. ContextLife' /\ CtxTypeOK'
  <2>1. CASE UNCHANGED tpc
    BY <1>1, <1>3, <2>1 DEF ContextLife, TypeOK, CtxTypeOK
  <2>2. ASSUME NEW to \in ThreadPc \ {"off"},
               tpc' = [tpc EXCEPT ![c] = to],
               tpc[c] \notin {"off", "exit"},
               to \in {"clean", "exit"} => stopping[c]
        PROVE  ContextLife' /\ CtxTypeOK'
    BY <1>1, <1>2, <1>3, <2>2 DEF ContextLife, TypeOK, CtxTypeOK
  <2>. QED  BY <1>4, <2>1, <2>2
<1>20. SubmittedIsAllocated'
  <2>1. \A p \in Queries : memory[p] # "none" => memory'[p] # "none"
    BY <1>2 DEF ThreadStep, ThreadWake, Deliver, Untrack, ProcessEnd, Peek,
                ExpireBegin, ExpireOne, ExpireEnd, ThreadStop, CleanOne, CleanEnd,
                CancelHead, qryVars, Free
  <2>2. \A p \in Queries : ub'[p] # "none" => ub[p] # "none"
    <3>1. \/ UNCHANGED ub
          \/ \E q \in Queries : HandOver(c, q)
          \/ ub_cancel(c, ubId[Head(g_queries)])
      BY DEF ThreadStep, ThreadWake, Deliver, Untrack, ProcessEnd, Peek,
             ExpireBegin, ExpireOne, ExpireEnd, ThreadStop, CleanOne, CleanEnd,
             CancelHead, ubVars
    <3>. QED  BY <1>1, <3>1 DEF HandOver, ub_cancel, UbHolds, TypeOK, UbTypeOK
  <2>3. \A d \in Ctxs : tpc'[d] = "untrack" =>
           \/ tpc[d] = "untrack" /\ current'[d] = current[d]
           \/ \E q \in Queries : ub[q] = "answered" /\ current'[d] = q
    <3>1. ASSUME NEW q \in Queries, Deliver(c, q)
          PROVE  /\ ub[q] = "answered"
                 /\ tpc' = [tpc EXCEPT ![c] = "untrack"]
                 /\ current' = [current EXCEPT ![c] = q]
      BY <3>1 DEF Deliver, HandOver, Goto
    <3>2. \/ \E q \in Queries : Deliver(c, q)
          \/ /\ UNCHANGED current
             /\ \/ UNCHANGED tpc
                \/ \E to \in ThreadPc \ {"untrack"} : tpc' = [tpc EXCEPT ![c] = to]
          \/ /\ current' = [current EXCEPT ![c] = Nobody]
             /\ tpc' = [tpc EXCEPT ![c] = "process"]
      BY DEF ThreadStep, ThreadWake, Untrack, ProcessEnd, Peek,
             ExpireBegin, ExpireOne, ExpireEnd, ThreadStop, CleanOne, CleanEnd,
             CancelHead, Goto, threadVars, ThreadPc
    <3>. QED  BY <1>2, <3>1, <3>2
  <2>4. \A d \in Ctxs : tpc[d] = "untrack" => current[d] \in Queries
    BY <1>1 DEF PointersSet
  <2>. QED
    BY <1>1, <1>3, <2>1, <2>2, <2>3, <2>4 DEF SubmittedIsAllocated, Accepted
\* Steps that leave the table and its queries alone
<1>6. ASSUME UNCHANGED <<g_queries, memory>>,
             UNCHANGED <<ub, ubCtx, ubId, nextId>>,
             UNCHANGED <<calls, outcome, current, fault>>,
             tvNow' \in [Ctxs -> 0..MaxClock],
             NEW from \in ThreadPc, NEW to \in ThreadPc \ {"untrack"},
             tpc[c] = from, tpc' = [tpc EXCEPT ![c] = to],
             \/ /\ from \in {"expire", "clean"} <=> to \in {"expire", "clean"}
                /\ queryLock' = queryLock
             \/ /\ from \notin {"expire", "clean"} /\ to \in {"expire", "clean"}
                /\ queryLock = Nobody /\ queryLock' = c
             \/ /\ from \in {"expire", "clean"} /\ to \notin {"expire", "clean"}
                /\ queryLock' = Nobody
      PROVE  AnyUseInv'
  <2>1. queryLock' \in Ctxs \cup Queries \cup {Nobody}
    BY <1>2, <1>6
  <2>2. TypeOK'
    BY <1>1, <1>3, <1>5, <1>6, <2>1 DEF TypeOK, UbTypeOK
  <2>3. PointersSet'
    BY <1>1, <1>2, <1>3, <1>6 DEF PointersSet, InCall
  <2>4. OneTableWriter'
    BY <1>1, <1>2, <1>3, <1>6, NamesAssumption DEF OneTableWriter
  <2>5. IsInjective(g_queries)' /\ LiveIsHeld'
    BY <1>1, <1>3, <1>6 DEF LiveIsHeld, Held, Tracked
  <2>. QED  BY <1>5, <1>20, <2>2, <2>3, <2>4, <2>5 DEF AnyUseInv
<1>7. CASE ThreadWake(c)
  BY <1>1, <1>2, <1>6, <1>7
  DEF ThreadWake, Goto, ThreadPc, ubVars, qryVars, threadVars
<1>8. CASE ProcessEnd(c)
  BY <1>1, <1>2, <1>6, <1>8 DEF ProcessEnd, Goto, ThreadPc, ubVars, qryVars
<1>9. CASE Peek(c)
  <2>1. PICK to \in {"wantlock", "loop"} : tpc' = [tpc EXCEPT ![c] = to]
    BY <1>9 DEF Peek
  <2>2. tvNow' \in [Ctxs -> 0..MaxClock]
    BY <1>2, <1>9, ClockAssumption DEF Peek
  <2>3. /\ UNCHANGED <<g_queries, memory>>
        /\ UNCHANGED <<ub, ubCtx, ubId, nextId>>
        /\ UNCHANGED <<calls, outcome, current, fault>>
        /\ queryLock' = queryLock
        /\ tpc[c] = "peek"
    BY <1>9 DEF Peek, ubVars, qryVars
  <2>4. "peek" \in ThreadPc /\ to \in ThreadPc \ {"untrack"}
    BY <2>1 DEF ThreadPc
  <2>. QED  BY <1>6, <2>1, <2>2, <2>3, <2>4
<1>10. CASE ExpireBegin(c)
  BY <1>1, <1>2, <1>6, <1>10
  DEF ExpireBegin, QueryLockFree, Goto, ThreadPc, ubVars, threadVars
<1>11. CASE ExpireEnd(c)
  <2>1. tvNow' \in [Ctxs -> 0..MaxClock]
    BY <1>2, <1>11, ClockAssumption DEF ExpireEnd
  <2>. QED  BY <1>6, <1>11, <2>1 DEF ExpireEnd, Goto, ThreadPc, ubVars
<1>12. CASE ThreadStop(c)
  BY <1>1, <1>2, <1>6, <1>12
  DEF ThreadStop, QueryLockFree, Goto, ThreadPc, ubVars, threadVars
<1>13. CASE CleanEnd(c)
  BY <1>1, <1>2, <1>6, <1>13
  DEF CleanEnd, Goto, ThreadPc, ubVars, threadVars
<1>14. ASSUME NEW q \in Queries, Deliver(c, q)
       PROVE  AnyUseInv'
  <2>1. UbTypeOK' /\ calls' \in [Queries -> Nat]
        /\ outcome' \in [Queries -> {"none", "answer", "timeout"}]
    BY <1>1, <1>14
    DEF Deliver, HandOver, CallBack, TypeOK, UbTypeOK, UbState
  <2>2. TypeOK'
    BY <1>1, <1>2, <1>3, <1>5, <1>14, <2>1 DEF Deliver, TypeOK
  <2>3. PointersSet'
    BY <1>1, <1>2, <1>3, <1>14 DEF Deliver, Goto, PointersSet, InCall
  <2>4. OneTableWriter'
    BY <1>1, <1>2, <1>3, <1>14, NamesAssumption DEF Deliver, Goto, OneTableWriter
  <2>5. IsInjective(g_queries)' /\ LiveIsHeld'
    BY <1>1, <1>3, <1>14 DEF Deliver, LiveIsHeld, Held, Tracked
  <2>. QED  BY <1>5, <1>20, <2>2, <2>3, <2>4, <2>5 DEF AnyUseInv
\* Steps that take q out of the table and free it
<1>15. ASSUME NEW q \in Tracked, HASH_DEL(q), Free(q), UNCHANGED queryLock,
              UbTypeOK', calls' \in [Queries -> Nat],
              outcome' \in [Queries -> {"none", "answer", "timeout"}],
              current' \in [Ctxs -> Queries \cup {Nobody}],
              UNCHANGED <<tvNow, fault>>, PointersSet', OneTableWriter'
       PROVE  AnyUseInv'
  <2>1. /\ g_queries' \in Seq(Queries)
        /\ IsInjective(g_queries)'
        /\ Tracked' = Tracked \ {q}
    BY <1>1, <1>15, DeleteQuery DEF TypeOK, Tracked
  <2>2. TypeOK'
    BY <1>1, <1>2, <1>3, <1>5, <1>15, <2>1 DEF TypeOK, Free
  <2>3. LiveIsHeld'
    BY <1>1, <1>2, <1>3, <1>15, <2>1 DEF LiveIsHeld, Held, Free
  <2>. QED  BY <1>5, <1>20, <1>15, <2>1, <2>2, <2>3 DEF AnyUseInv
<1>16. CASE Untrack(c)
  <2>1. current[c] \in Queries /\ queryLock = Nobody /\ tpc[c] = "untrack"
    BY <1>1, <1>16 DEF Untrack, Goto, QueryLockFree, PointersSet
  <2>2. /\ UbTypeOK' /\ calls' \in [Queries -> Nat]
        /\ outcome' \in [Queries -> {"none", "answer", "timeout"}]
        /\ current' \in [Ctxs -> Queries \cup {Nobody}]
        /\ UNCHANGED <<queryLock, tvNow>>
    BY <1>1, <1>16 DEF Untrack, TypeOK, UbTypeOK, ubVars
  <2>3. PointersSet'
    BY <1>1, <1>2, <1>3, <1>16 DEF Untrack, Goto, PointersSet, InCall
  <2>4. OneTableWriter'
    BY <1>1, <1>2, <1>3, <1>16 DEF Untrack, Goto, OneTableWriter
  <2>5. CASE Stale(current[c])
    <3>1. UNCHANGED <<g_queries, memory>> /\ fault' = "query"
      BY <1>16, <2>5 DEF Untrack
    <3>2. TypeOK'
      BY <1>1, <1>3, <1>5, <2>2, <3>1, <1>2 DEF TypeOK
    <3>3. IsInjective(g_queries)' /\ LiveIsHeld'
      BY <1>1, <1>3, <3>1 DEF LiveIsHeld, Held, Tracked
    <3>. QED  BY <1>5, <1>20, <2>3, <2>4, <3>2, <3>3 DEF AnyUseInv
  <2>6. CASE ~Stale(current[c])
    <3>1. HASH_DEL(current[c]) /\ Free(current[c]) /\ UNCHANGED fault
      BY <1>16, <2>6 DEF Untrack
    <3>2. CASE current[c] \in Tracked
      BY <1>15, <2>2, <2>3, <2>4, <3>1, <3>2
    <3>3. CASE current[c] \notin Tracked
      \* its lookup would hold the lock
      <4>1. memory[current[c]] = "live" /\ Accepted(current[c])
        BY <1>1, <1>2, <2>1, <2>6 DEF Stale, SubmittedIsAllocated
      <4>. QED  BY <1>1, <2>1, <3>3, <4>1, NamesAssumption
                DEF LiveIsHeld, Held, Accepted, OneTableWriter
    <3>. QED  BY <3>2, <3>3
  <2>. QED  BY <2>5, <2>6
<1>17. ASSUME g_queries # <<>>, CancelHead(c)
       PROVE  AnyUseInv'
  <2>1. Head(g_queries) \in Tracked
    BY <1>1, <1>17, TrackedAreQueries DEF TypeOK
  <2>2. UbTypeOK' /\ calls' \in [Queries -> Nat]
        /\ outcome' \in [Queries -> {"none", "answer", "timeout"}]
    <3>1. UbTypeOK'
      BY <1>1, <1>17 DEF CancelHead, ub_cancel, TypeOK, UbTypeOK, UbState
    <3>2. CallBack(Head(g_queries), "timeout")
      BY <1>17 DEF CancelHead
    <3>. QED  BY <1>1, <1>2, <2>1, <3>1, <3>2 DEF CallBack, TypeOK
  <2>3. /\ HASH_DEL(Head(g_queries)) /\ Free(Head(g_queries))
        /\ UNCHANGED <<tpc, queryLock, fault>> /\ UNCHANGED <<current, tvNow>>
    BY <1>17 DEF CancelHead, threadVars
  <2>4. PointersSet' /\ OneTableWriter'
    BY <1>1, <1>3, <2>3 DEF PointersSet, OneTableWriter, InCall
  <2>. QED  BY <1>2, <1>15, <2>1, <2>2, <2>3, <2>4
<1>18. CASE ExpireOne(c)
  BY <1>17, <1>18 DEF ExpireOne, HeadExpired
<1>19. CASE CleanOne(c)
  BY <1>17, <1>19 DEF CleanOne
<1>. QED
  BY <1>7, <1>8, <1>9, <1>10, <1>11, <1>12, <1>13, <1>14, <1>16, <1>18, <1>19
  DEF ThreadStep

\* The rest changes no more than ub, now, destroy, or nothing.
LEMMA OtherAnyUse ==
  ASSUME AnyUseInv,
         \/ DestroyStep \/ Tick \/ SetBack \/ UNCHANGED vars
         \/ \E q \in Queries : ResolverStep(q)
  PROVE  AnyUseInv'
<1>1. TypeOK /\ ContextLife /\ PointersSet /\ OneTableWriter
      /\ IsInjective(g_queries) /\ LiveIsHeld /\ SubmittedIsAllocated
  BY DEF AnyUseInv
<1>2. /\ UNCHANGED <<phase, heap, g_contexts, stopping, cfgLock, victim, tpc>>
      /\ UNCHANGED <<g_queries, queryLock, memory, expires, calls, outcome>>
      /\ UNCHANGED <<lpc, ctxOf, current, tvNow, fault>>
      /\ UNCHANGED <<ubCtx, ubId, nextId>>
  BY DEF DestroyStep, DestroyBegin, DestroyEnd, Tick, SetBack, ResolverStep, Resolved, vars,
         ubVars, ctxVars, qryVars, lookupVars, threadVars
<1>3. destroy' \in {"idle", "sweeping", "done"}
  BY <1>1 DEF DestroyStep, DestroyBegin, DestroyEnd, Tick, SetBack, ResolverStep, vars,
              ctxVars, TypeOK, CtxTypeOK
<1>4. now' \in 0..MaxClock
  BY <1>1, ClockAssumption DEF DestroyStep, Tick, SetBack, ResolverStep, vars, TypeOK
<1>5. /\ ub' \in [Queries -> UbState]
      /\ \A q \in Queries : ub'[q] # "none" => ub[q] # "none"
  <2>1. UNCHANGED ub \/ \E q \in Queries : Resolved(q)
    BY DEF DestroyStep, DestroyBegin, DestroyEnd, Tick, SetBack, ResolverStep, vars, ubVars
  <2>. QED  BY <1>1, <2>1 DEF Resolved, TypeOK, UbTypeOK, UbState
<1>6. TypeOK' /\ ContextLife'
  BY <1>1, <1>2, <1>3, <1>4, <1>5 DEF TypeOK, CtxTypeOK, UbTypeOK, ContextLife
<1>7. PointersSet' /\ OneTableWriter' /\ IsInjective(g_queries)'
  BY <1>1, <1>2 DEF PointersSet, OneTableWriter, InCall
<1>8. LiveIsHeld' /\ SubmittedIsAllocated'
  BY <1>1, <1>2, <1>5 DEF LiveIsHeld, Held, SubmittedIsAllocated, Accepted, Tracked
<1>. QED  BY <1>6, <1>7, <1>8 DEF AnyUseInv

\* A lookup refused for the lock its own thread holds leaves its query live.
LEMMA RefusedAnyUse ==
  ASSUME AnyUseInv, NEW c \in Ctxs, NEW q \in Queries, Refused(c, q)
  PROVE  AnyUseInv'
<1>1. TypeOK /\ ContextLife /\ PointersSet /\ OneTableWriter
      /\ IsInjective(g_queries) /\ LiveIsHeld /\ SubmittedIsAllocated
  BY DEF AnyUseInv
<1>2. /\ lpc \in [Queries -> LookupPc] /\ memory \in [Queries -> {"none", "live", "freed"}]
      /\ lpc[q] = "found"
      /\ lpc' = [lpc EXCEPT ![q] = "err"] /\ memory' = [memory EXCEPT ![q] = "live"]
      /\ UNCHANGED <<ubVars, ctxVars, tpc, now, g_queries, queryLock, expires, calls,
                     outcome, ctxOf, threadVars, fault>>
  BY <1>1 DEF Refused, TypeOK
<1>3. TypeOK' /\ ContextLife'
  BY <1>1, <1>2 DEF TypeOK, CtxTypeOK, UbTypeOK, LookupPc, ContextLife, ubVars, ctxVars,
                    threadVars
<1>4. PointersSet' /\ OneTableWriter' /\ IsInjective(g_queries)'
  BY <1>1, <1>2 DEF PointersSet, OneTableWriter, InCall, threadVars
<1>5. LiveIsHeld' /\ SubmittedIsAllocated'
  BY <1>1, <1>2 DEF LiveIsHeld, Held, SubmittedIsAllocated, Accepted, PointersSet, Tracked,
                    ubVars, threadVars
<1>. QED  BY <1>3, <1>4, <1>5 DEF AnyUseInv

\* A use of a context after its release ends the behaviour.
LEMMA FaultAnyUse ==
  ASSUME AnyUseInv, fault' = "ctx",
         UNCHANGED <<ubVars, ctxVars, tpc, now, qryVars, lookupVars, threadVars>>
  PROVE  AnyUseInv'
<1>. USE DEF ubVars, ctxVars, qryVars, lookupVars, threadVars
<1>1. TypeOK' /\ ContextLife' /\ PointersSet'
  BY DEF AnyUseInv, TypeOK, CtxTypeOK, UbTypeOK, ContextLife, PointersSet, InCall
<1>2. OneTableWriter' /\ IsInjective(g_queries)'
  BY DEF AnyUseInv, OneTableWriter
<1>3. LiveIsHeld' /\ SubmittedIsAllocated'
  BY DEF AnyUseInv, LiveIsHeld, Held, SubmittedIsAllocated, Accepted, Tracked
<1>. QED  BY <1>1, <1>2, <1>3 DEF AnyUseInv

\* What callbacks that call the library add to its steps: a lookup refused for
\* the lock, a context closed whoever is using it, and a thread that finds its
\* context released.
LEMMA ReentrantStep ==
  ASSUME [RNext]_rvars
  PROVE  \/ [Next]_vars
         \/ \E c \in Ctxs, q \in Queries : Refused(c, q)
         \/ \E c \in Ctxs : CloseStep(c)
         \/ /\ fault' = "ctx"
            /\ UNCHANGED <<ubVars, ctxVars, tpc, now, qryVars, lookupVars, threadVars>>
<1>1. CASE UNCHANGED rvars \/ (ROver /\ UNCHANGED rvars)
  BY <1>1 DEF rvars
<1>2. ASSUME fault = "none", NEW c \in Ctxs, GoOn(c)
      PROVE  \/ Next
             \/ /\ fault' = "ctx"
                /\ UNCHANGED <<ubVars, ctxVars, tpc, now, qryVars, lookupVars, threadVars>>
  BY <1>2 DEF GoOn, Next, Step
<1>3. ASSUME fault = "none", NEW c \in Ctxs, LookUp(c) \/ Reject(c)
      PROVE  Next \/ \E q \in Queries : Refused(c, q)
  BY <1>3 DEF LookUp, Reject, Underway, LookupStep, Next, Step
<1>4. ASSUME fault = "none", NEW c \in Ctxs, Close(c)
      PROVE  [Next]_vars \/ \E d \in Ctxs : CloseStep(d)
  <2>1. UNCHANGED <<now, qryVars, lookupVars, threadVars, fault>>
    BY <1>4 DEF Close
  <2>2. PICK d \in Ctxs :
           DeleteContext(d) \/ StopThread(d) \/ Release(d) \/ UNCHANGED <<ubVars, ctxVars, tpc>>
    BY <1>4 DEF Close, FreeContext
  <2>3. CASE StopThread(d)
    BY <1>4, <2>1, <2>3 DEF RegistryStep, Next, Step
  <2>4. CASE DeleteContext(d) \/ Release(d)
    BY <2>1, <2>4 DEF CloseStep
  <2>5. CASE UNCHANGED <<ubVars, ctxVars, tpc>>
    BY <2>1, <2>5 DEF vars
  <2>. QED  BY <2>2, <2>3, <2>4, <2>5
<1>5. ASSUME fault = "none", NEW c \in Ctxs, Wait(c) \/ Call(c) \/ Registry(c)
      PROVE  [Next]_vars
  BY <1>5 DEF Wait, Call, Registry, Next, Step
<1>6. ASSUME fault = "none",
             (\E q \in Queries : Caller(q) \/ Resolver(q)) \/ Destroy \/ Clock
      PROVE  Next
  BY <1>6 DEF Caller, Resolver, Destroy, Clock, Next, Step
<1>. QED
  BY <1>1, <1>2, <1>3, <1>4, <1>5, <1>6 DEF RNext, RStep, Proceed

\* Every step of the system keeps AnyUseInv.
LEMMA NextAnyUse == AnyUseInv /\ [Next]_vars => AnyUseInv'
BY RegistryAnyUse, LookupAnyUse, ThreadAnyUse, OtherAnyUse DEF Next, Step

LEMMA RNextAnyUse == AnyUseInv /\ [RNext]_rvars => AnyUseInv'
BY NextAnyUse, ReentrantStep, RefusedAnyUse, RegistryAnyUse, FaultAnyUse

LEMMA CNextAnyUse == AnyUseInv /\ [CNext]_cvars => AnyUseInv'
BY NextAnyUse, OtherAnyUse DEF CNext, cvars

\* AnyUseInv holds of every reachable state, whatever callbacks call and wherever
\* the clock is set back to.
THEOREM AnyUse == AnySpec => []AnyUseInv
<1>1. Init \/ RInit \/ CInit => AnyUseInv
  BY InitAnyUse DEF RInit, CInit
<1>2. Spec => []AnyUseInv
  BY <1>1, NextAnyUse, PTL DEF Spec
<1>3. RSpec => []AnyUseInv
  BY <1>1, RNextAnyUse, PTL DEF RSpec
<1>4. CSpec => []AnyUseInv
  BY <1>1, CNextAnyUse, PTL DEF CSpec
<1>. QED  BY <1>2, <1>3, <1>4 DEF AnySpec

-----------------------------------------------------------------------------
(* What follows from it *)

LEMMA AnyUseImplies ==
  AnyUseInv => /\ TypeOK
               /\ OneTableWriter
               /\ OneConfigLoadAtATime
               /\ TableHoldsLiveQueries
               /\ AnsweredIsInTable
<1>. SUFFICES ASSUME AnyUseInv
     PROVE  OneConfigLoadAtATime /\ TableHoldsLiveQueries /\ AnsweredIsInTable
  BY DEF AnyUseInv
<1>1. OneConfigLoadAtATime
  BY DEF AnyUseInv, ContextLife, OneConfigLoadAtATime
<1>2. TableHoldsLiveQueries
  BY TrackedAreQueries DEF AnyUseInv, TypeOK, LiveIsHeld, Held, TableHoldsLiveQueries
<1>3. AnsweredIsInTable
  BY NamesAssumption
  DEF AnyUseInv, PointersSet, LiveIsHeld, Held, SubmittedIsAllocated, Accepted,
      OneTableWriter, QueryLockFree, AnsweredIsInTable
<1>. QED  BY <1>1, <1>2, <1>3

\* Every variable stays in the set its declaration names, however many contexts
\* and lookups there are (structs at unbound4j.c:29-36 and unbound4j.h:28-36).
THEOREM TypeCorrect == AnySpec => []TypeOK
BY AnyUse, AnyUseImplies, PTL

\* The write lock of g_queries has one owner, the lookup or thread between its
\* wrlock and its unlock (unbound4j.c:315-346, 393-415, 422-439), also when that
\* thread's callback asks for the lock again.
THEOREM OneWriter == AnySpec => []OneTableWriter
BY AnyUse, AnyUseImplies, PTL

\* One ub_ctx_config at a time (unbound4j.c:124-132).
THEOREM OneConfigLoad == AnySpec => []OneConfigLoadAtATime
BY AnyUse, AnyUseImplies, PTL

\* The table holds live queries, each once (unbound4j.c:256, 342, 402, 429),
\* whatever callbacks look up or close.
THEOREM TableLive == AnySpec => []TableHoldsLiveQueries
BY AnyUse, AnyUseImplies, PTL

\* A query whose answer has been delivered is in the table once the table can be
\* locked (unbound4j.c:314).
THEOREM AnsweredTracked == AnySpec => []AnsweredIsInTable
BY AnyUse, AnyUseImplies, PTL

-----------------------------------------------------------------------------
(* Contexts closed by threads of their own, not by callbacks *)

\* Only the join lets a context be freed, and nothing follows the end of a thread.
LEMMA NextJoined == AnyUseInv /\ JoinedBeforeFreed /\ [Next]_vars => JoinedBeforeFreed'
<1>. SUFFICES ASSUME AnyUseInv, JoinedBeforeFreed, [Next]_vars
              PROVE  JoinedBeforeFreed'
  OBVIOUS
<1>1. /\ tpc \in [Ctxs -> ThreadPc] /\ phase \in [Ctxs -> Phase]
      /\ ContextLife
  BY DEF AnyUseInv, TypeOK, CtxTypeOK
<1>2. ASSUME NEW c \in Ctxs, RegistryStep(c)
      PROVE  JoinedBeforeFreed'
  <2>1. CASE CreateSpawn(c)
    BY <1>1, <2>1 DEF CreateSpawn, FailCreate, Enter, JoinedBeforeFreed, ContextLife
  <2>2. CASE FreeContext(c)
    BY <1>1, <2>2 DEF FreeContext, Joined, Release, Enter, JoinedBeforeFreed
  <2>3. CASE \/ CreateAllocate(c) \/ CreateFromSystem(c) \/ CreateFromDefaults(c)
             \/ CreateLoadBegin(c) \/ CreateLoadEnd(c) \/ CreateRegister(c)
             \/ DeleteContext(c) \/ DestroyNext(c) \/ StopThread(c)
    BY <1>1, <2>3
    DEF CreateAllocate, CreateFromSystem, CreateFromDefaults, CreateLoadBegin,
        CreateLoadEnd, CreateRegister, DeleteContext, DestroyNext, StopThread,
        FailCreate, Enter, JoinedBeforeFreed
  <2>. QED  BY <1>2, <2>1, <2>2, <2>3 DEF RegistryStep
<1>3. ASSUME NEW c \in Ctxs, ThreadStep(c)
      PROVE  JoinedBeforeFreed'
  <2>1. UNCHANGED phase
    BY <1>3 DEF ThreadStep, ThreadWake, Deliver, Untrack, ProcessEnd, Peek, ExpireBegin,
           ExpireOne, ExpireEnd, ThreadStop, CleanOne, CleanEnd, CancelHead, ctxVars
  <2>2. UNCHANGED tpc \/ (tpc[c] # "exit" /\ \E to \in ThreadPc : tpc' = [tpc EXCEPT ![c] = to])
    BY <1>3 DEF ThreadStep, ThreadWake, Deliver, Untrack, ProcessEnd, Peek, ExpireBegin,
           ExpireOne, ExpireEnd, ThreadStop, CleanOne, CleanEnd, CancelHead, Goto, ThreadPc
  <2>. QED  BY <1>1, <2>1, <2>2 DEF JoinedBeforeFreed
<1>4. ASSUME NEW q \in Queries, LookupStep(q)
      PROVE  JoinedBeforeFreed'
  BY <1>4 DEF LookupStep, LookupFind, LookupReject, LookupLock, LookupSubmit,
              LookupTrack, ctxVars, JoinedBeforeFreed
<1>5. CASE DestroyStep \/ Tick \/ UNCHANGED vars \/ \E q \in Queries : ResolverStep(q)
  BY <1>5 DEF DestroyStep, DestroyBegin, DestroyEnd, Tick, ResolverStep, vars, ctxVars,
              JoinedBeforeFreed
<1>. QED  BY <1>2, <1>3, <1>4, <1>5 DEF Next, Step

LEMMA InitJoined == Init => JoinedBeforeFreed
BY DEF Init, CtxInit, JoinedBeforeFreed

\* "Stop the thread and join": called by threads of their own, ub4j_delete_context
\* and ub4j_destroy free no context under its thread (unbound4j.c:205-221).
THEOREM JoinedFirst == Spec \/ CSpec => []JoinedBeforeFreed
<1>1. Spec => []JoinedBeforeFreed
  BY AnyUse, InitJoined, NextJoined, PTL DEF Spec, AnySpec
<1>2. CInit => JoinedBeforeFreed
  BY InitJoined DEF CInit
<1>3. AnyUseInv /\ JoinedBeforeFreed /\ [CNext]_cvars => JoinedBeforeFreed'
  BY NextJoined DEF CNext, SetBack, ctxVars, cvars, JoinedBeforeFreed
<1>4. CSpec => []JoinedBeforeFreed
  BY AnyUse, <1>2, <1>3, PTL DEF CSpec, AnySpec
<1>. QED  BY <1>1, <1>4

\* Threads and table entries have a context that is not released
\* (unbound4j.c:205-221 joins before it frees).
THEOREM ContextsOutliveThreads == Spec \/ CSpec => []ThreadsAndTableHaveContexts
<1>1. AnyUseInv /\ JoinedBeforeFreed => ThreadsAndTableHaveContexts
  BY DEF AnyUseInv, TypeOK, CtxTypeOK, Phase, ThreadPc, ContextLife, JoinedBeforeFreed,
         ThreadsAndTableHaveContexts
<1>. QED  BY <1>1, AnyUse, JoinedFirst, PTL DEF AnySpec

-----------------------------------------------------------------------------
(* The table is used as uthash.h wants it *)

\* A loop over the table is running exactly when a thread holds the write lock.
LEMMA LoopHoldsLock ==
  AnyUseInv =>
    LoopAt = IF g_queries # <<>> /\ queryLock \in Ctxs THEN g_queries[1] ELSE Nobody
<1>. SUFFICES ASSUME AnyUseInv
     PROVE  (\E c \in Ctxs : tpc[c] \in {"expire", "clean"}) <=> queryLock \in Ctxs
  BY DEF LoopAt
<1>. QED  BY DEF AnyUseInv, OneTableWriter

\* What happens to the table outside of a loop: nothing, one query more at the
\* end, or one less; in a loop: the query it is at is taken out.
TableChange ==
  \/ UNCHANGED <<g_queries, queryLock>>
  \/ /\ UNCHANGED g_queries
     /\ queryLock \notin Ctxs \/ queryLock' \notin Ctxs
  \/ /\ queryLock \notin Ctxs /\ queryLock' \notin Ctxs
     /\ \/ \E q \in Queries : q \notin Tracked /\ HASH_ADD(q)
        \/ \E q \in Tracked : HASH_DEL(q)
  \/ /\ queryLock \in Ctxs /\ UNCHANGED queryLock
     /\ g_queries # <<>> /\ HASH_DEL(g_queries[1])

LEMMA TableStep ==
  ASSUME AnyUseInv, [Next]_vars
  PROVE  TableChange
<1>1. TypeOK /\ PointersSet /\ OneTableWriter /\ LiveIsHeld /\ SubmittedIsAllocated
  BY DEF AnyUseInv
<1>. USE NamesAssumption DEF TableChange
<1>2. CASE DestroyStep \/ Tick \/ UNCHANGED vars \/ \E q \in Queries : ResolverStep(q)
  BY <1>2 DEF DestroyStep, Tick, ResolverStep, vars, qryVars
<1>3. ASSUME NEW c \in Ctxs, RegistryStep(c)
      PROVE  UNCHANGED <<g_queries, queryLock>>
  BY <1>3 DEF RegistryStep, qryVars
<1>4. ASSUME NEW q \in Queries, LookupStep(q)
      PROVE  \/ UNCHANGED g_queries /\ queryLock \notin Ctxs
             \/ /\ queryLock \notin Ctxs /\ queryLock' \notin Ctxs
                /\ q \notin Tracked /\ HASH_ADD(q)
             \/ UNCHANGED <<g_queries, queryLock>>
  <2>1. CASE (\E c \in Ctxs : LookupFind(q, c)) \/ LookupReject(q)
    BY <2>1 DEF LookupFind, LookupReject, qryVars
  <2>2. CASE LookupLock(q)
    BY <2>2 DEF LookupLock, QueryLockFree
  <2>3. CASE LookupSubmit(q)
    BY <1>1, <2>3 DEF LookupSubmit, OneTableWriter
  <2>4. CASE LookupTrack(q)
    <3>1. queryLock = q /\ queryLock' = Nobody /\ HASH_ADD(q) /\ lpc[q] = "submitted"
      BY <1>1, <2>4 DEF LookupTrack, OneTableWriter
    <3>. QED  BY <1>1, <3>1 DEF LiveIsHeld
  <2>. QED  BY <1>4, <2>1, <2>2, <2>3, <2>4 DEF LookupStep
<1>5. ASSUME NEW c \in Ctxs, ThreadStep(c)
      PROVE  \/ UNCHANGED <<g_queries, queryLock>>
             \/ /\ UNCHANGED g_queries
                /\ queryLock \notin Ctxs \/ queryLock' \notin Ctxs
             \/ /\ queryLock \notin Ctxs /\ queryLock' \notin Ctxs
                /\ \E q \in Tracked : HASH_DEL(q)
             \/ /\ queryLock \in Ctxs /\ UNCHANGED queryLock
                /\ g_queries # <<>> /\ HASH_DEL(g_queries[1])
  <2>1. CASE \/ ThreadWake(c) \/ (\E q \in Queries : Deliver(c, q))
             \/ ProcessEnd(c) \/ Peek(c)
    BY <2>1 DEF ThreadWake, Deliver, ProcessEnd, Peek, qryVars
  <2>2. CASE ExpireBegin(c) \/ ThreadStop(c)
    BY <2>2 DEF ExpireBegin, ThreadStop, QueryLockFree
  <2>3. CASE ExpireEnd(c) \/ CleanEnd(c)
    BY <2>3 DEF ExpireEnd, CleanEnd
  <2>4. CASE Untrack(c)
    <3>1. /\ queryLock = Nobody /\ UNCHANGED queryLock
          /\ current[c] \in Queries /\ tpc[c] = "untrack"
      BY <1>1, <2>4 DEF Untrack, Goto, QueryLockFree, PointersSet
    <3>2. CASE Stale(current[c])
      BY <2>4, <3>1, <3>2 DEF Untrack
    <3>3. CASE ~Stale(current[c])
      <4>1. /\ memory[current[c]] = "live" /\ Accepted(current[c])
            /\ HASH_DEL(current[c])
        BY <1>1, <2>4, <3>1, <3>3 DEF Untrack, Stale, SubmittedIsAllocated, TypeOK
      <4>2. current[c] \in Tracked
        BY <1>1, <3>1, <4>1 DEF LiveIsHeld, Held, Accepted, OneTableWriter
      <4>. QED  BY <3>1, <4>1, <4>2
    <3>. QED  BY <3>2, <3>3
  <2>5. CASE ExpireOne(c) \/ CleanOne(c)
    <3>1. g_queries # <<>> /\ CancelHead(c) /\ tpc[c] \in {"expire", "clean"}
      BY <2>5 DEF ExpireOne, CleanOne, HeadExpired
    <3>2. Head(g_queries) = g_queries[1]
      BY <1>1, <3>1 DEF TypeOK
    <3>. QED  BY <1>1, <3>1, <3>2 DEF CancelHead, OneTableWriter
  <2>. QED  BY <1>5, <2>1, <2>2, <2>3, <2>4, <2>5 DEF ThreadStep
<1>. QED  BY <1>2, <1>3, <1>4, <1>5 DEF Next, Step

\* What callbacks call adds no other.
LEMMA ReentrantTableStep ==
  ASSUME AnyUseInv, [RNext]_rvars
  PROVE  TableChange
<1>1. CASE [Next]_vars
  BY <1>1, TableStep
<1>2. ASSUME \/ \E c \in Ctxs, q \in Queries : Refused(c, q)
             \/ \E c \in Ctxs : CloseStep(c)
             \/ UNCHANGED qryVars
      PROVE  UNCHANGED <<g_queries, queryLock>>
  BY <1>2 DEF Refused, CloseStep, qryVars
<1>. QED  BY <1>1, <1>2, ReentrantStep DEF TableChange

\* OrderedTable allows each of these changes.
LEMMA TableChangeAllowed ==
  ASSUME AnyUseInv, AnyUseInv', TableChange
  PROVE  [Table!TNext]_(Table!tvars)
<1>0. (AnyUseInv => LoopAt = IF g_queries # <<>> /\ queryLock \in Ctxs
                             THEN g_queries[1] ELSE Nobody)'
  BY LoopHoldsLock, PTL
<1> DEFINE first == IF g_queries = <<>> THEN Nobody ELSE g_queries[1]
<1>1. /\ LoopAt = IF queryLock \in Ctxs THEN first ELSE Nobody
      /\ LoopAt' = IF queryLock' \in Ctxs THEN first' ELSE Nobody
  BY <1>0, LoopHoldsLock
<1>2. /\ g_queries \in Seq(Queries) /\ IsInjective(g_queries)
      /\ Nobody \notin Queries
  BY NamesAssumption DEF AnyUseInv, TypeOK
<1>3. CASE UNCHANGED <<g_queries, queryLock>>
  BY <1>1, <1>3 DEF Table!tvars
<1>4. CASE UNCHANGED g_queries /\ queryLock' \notin Ctxs
  BY <1>1, <1>4 DEF Table!TNext, Table!Break
<1>5. CASE UNCHANGED g_queries /\ queryLock \notin Ctxs /\ queryLock' \in Ctxs
  <2>1. Table!BeginLoop
    BY <1>1, <1>5 DEF Table!BeginLoop, Table!First
  <2>. QED  BY <2>1 DEF Table!TNext
<1>6. ASSUME queryLock \notin Ctxs, queryLock' \notin Ctxs,
             NEW q \in Queries, q \notin Tracked, HASH_ADD(q)
      PROVE  Table!TNext
  <2>1. Table!Add(q)
    BY <1>1, <1>6 DEF Table!Add, Table!Range, Range, Tracked, HASH_ADD
  <2>. QED  BY <2>1 DEF Table!TNext
<1>7. ASSUME queryLock \notin Ctxs, queryLock' \notin Ctxs,
             NEW q \in Tracked, HASH_DEL(q)
      PROVE  Table!TNext
  <2>1. PositionOf(q) \in DOMAIN g_queries
    BY DEF PositionOf, Tracked, Range
  <2>2. Table!Delete(PositionOf(q))
    BY <1>1, <1>7 DEF Table!Delete, Table!RemoveAt, RemoveAt, HASH_DEL
  <2>. QED  BY <2>1, <2>2 DEF Table!TNext
<1>8. ASSUME queryLock \in Ctxs, UNCHANGED queryLock,
             g_queries # <<>>, HASH_DEL(g_queries[1])
      PROVE  Table!TNext
  <2>1. 1 \in DOMAIN g_queries /\ g_queries[1] \in Queries
    BY <1>2, <1>8, LenProperties, EmptySeq, ElementOfSeq
  <2>2. PositionOf(g_queries[1]) = 1
    BY <1>2, <2>1 DEF PositionOf, IsInjective
  <2>3. g_queries' = RemoveAt(g_queries, 1)
    BY <1>8, <2>2 DEF HASH_DEL
  <2>4. Table!DeleteAndNext
    BY <1>1, <1>2, <1>8, <2>1, <2>3
    DEF Table!DeleteAndNext, Table!First, Table!RemoveAt, RemoveAt
  <2>. QED  BY <2>4 DEF Table!TNext
<1>. QED  BY <1>3, <1>4, <1>5, <1>6, <1>7, <1>8 DEF TableChange

\* Any use of the library takes the table of uthash.h for what OrderedTable
\* says it is, and respects its loops (unbound4j.c:253-261, 314-346, 391-439),
\* whatever callbacks look up or close from inside of them.
THEOREM TableUse == AnySpec => UsesTableAsSpecified
<1>1. Init \/ RInit \/ CInit => Table!TInit
  BY DEF Init, RInit, CInit, LoopAt, Table!TInit
<1>2. AnyUseInv /\ AnyUseInv' /\ [Next]_vars => [Table!TNext]_(Table!tvars)
  BY TableStep, TableChangeAllowed
<1>3. AnyUseInv /\ AnyUseInv' /\ [RNext]_rvars => [Table!TNext]_(Table!tvars)
  BY ReentrantTableStep, TableChangeAllowed
<1>4. AnyUseInv /\ AnyUseInv' /\ [CNext]_cvars => [Table!TNext]_(Table!tvars)
  <2>1. SetBack => TableChange
    BY DEF SetBack, qryVars, TableChange
  <2>. QED  BY <1>2, <2>1, TableChangeAllowed DEF CNext, cvars
<1>5. Spec => UsesTableAsSpecified
  BY <1>1, <1>2, AnyUse, PTL DEF Spec, AnySpec, UsesTableAsSpecified, Table!TSpec
<1>6. RSpec => UsesTableAsSpecified
  BY <1>1, <1>3, AnyUse, PTL DEF RSpec, AnySpec, UsesTableAsSpecified, Table!TSpec
<1>7. CSpec => UsesTableAsSpecified
  BY <1>1, <1>4, AnyUse, PTL DEF CSpec, AnySpec, UsesTableAsSpecified, Table!TSpec
<1>. QED  BY <1>5, <1>6, <1>7 DEF AnySpec

-----------------------------------------------------------------------------
(* The order of the table, but for what the clock was set back *)

\* A lookup that has set its expiry, or will, has a context, so that the second it
\* was executing in can be told from it.
LEMMA MadeAtIsInt ==
  ASSUME AnyUseInv, NEW q \in Queries, InCall(q) \/ Held(q)
  PROVE  MadeAt(q) \in Int
<1>1. ctxOf[q] \in Ctxs
  BY DEF AnyUseInv, PointersSet, LiveIsHeld, Held, InCall
<1>. QED  BY <1>1, ClockAssumption DEF AnyUseInv, TypeOK, MadeAt

\* Taking one query out of a table in order leaves it in order.
LEMMA DeleteKeepsOrder ==
  ASSUME g_queries \in Seq(Queries), NEW b, NEW q \in Tracked, HASH_DEL(q),
         \A i, j \in DOMAIN g_queries :
           i <= j => MadeAt(g_queries[i]) <= MadeAt(g_queries[j]) + b
  PROVE  \A i, j \in DOMAIN g_queries' :
           i <= j => MadeAt(g_queries'[i]) <= MadeAt(g_queries'[j]) + b
<1>1. DOMAIN g_queries = 1..Len(g_queries) /\ Len(g_queries) \in Nat
  BY LenProperties
<1>2. PositionOf(q) \in 1..Len(g_queries)
  BY <1>1 DEF Tracked, Range, PositionOf
<1>3. g_queries' = RemoveAt(g_queries, PositionOf(q))
  BY DEF HASH_DEL
<1>4. /\ g_queries' \in Seq(Queries)
      /\ Len(g_queries') = Len(g_queries) - 1
      /\ \A j \in 1..(Len(g_queries) - 1) :
           g_queries'[j] = IF j < PositionOf(q) THEN g_queries[j] ELSE g_queries[j + 1]
  BY <1>2, <1>3, RemoveAtElements
<1>5. DOMAIN g_queries' = 1..(Len(g_queries) - 1)
  BY <1>4, LenProperties
<1> DEFINE old(j) == IF j < PositionOf(q) THEN j ELSE j + 1
<1>6. \A j \in DOMAIN g_queries' : old(j) \in DOMAIN g_queries /\ g_queries'[j] = g_queries[old(j)]
  <2>. TAKE j \in DOMAIN g_queries'
  <2>1. j \in 1..(Len(g_queries) - 1)
    BY <1>5
  <2>2. old(j) \in DOMAIN g_queries
    BY <1>1, <1>2, <2>1
  <2>3. g_queries'[j] = IF j < PositionOf(q) THEN g_queries[j] ELSE g_queries[j + 1]
    BY <1>4, <2>1
  <2>. QED  BY <2>2, <2>3
<1>7. \A i, j \in DOMAIN g_queries' : i <= j => old(i) <= old(j)
  BY <1>1, <1>2, <1>5
<1>. HIDE DEF old
<1>. QED  BY <1>6, <1>7

LEMMA InitInOrder == Init => InOrderButFor(0)
<1>. SUFFICES ASSUME Init PROVE InOrderButFor(0)
  OBVIOUS
<1>1. Tracked = {} /\ DOMAIN g_queries = {}
  BY DEF Init, Tracked, Range
<1>2. \A q \in Queries : ~Held(q)
  BY <1>1 DEF Init, Held
<1>. QED  BY <1>1, <1>2 DEF Init, InOrderButFor

\* Steps that leave the table, the clock and every expiry alone, and let no lookup
\* take the lock
LEMMA QuietInOrder ==
  ASSUME AnyUseInv, NEW b \in Nat, InOrderButFor(b),
         UNCHANGED <<g_queries, expires, now>>,
         \A q \in Queries : lpc'[q] \in {"locked", "submitted"} =>
           lpc[q] = "locked" \/ (lpc[q] = "submitted" /\ lpc'[q] = "submitted"),
         \A q \in Queries : lpc[q] # "idle" => ctxOf'[q] = ctxOf[q],
         \A c \in Ctxs : tvNow'[c] \in {0, now, tvNow[c]}
  PROVE  InOrderButFor(b)'
<1>1. Tracked' = Tracked /\ \A q \in Queries : Held(q)' => Held(q)
  BY DEF Held, Tracked
<1>2. \A q \in Queries : Held(q) => MadeAt(q)' = MadeAt(q)
  BY DEF MadeAt, Held, AnyUseInv, LiveIsHeld
<1>3. \A i \in DOMAIN g_queries : g_queries[i] \in Tracked /\ g_queries[i] \in Queries
  BY TrackedAreQueries DEF AnyUseInv, TypeOK, Tracked, Range
<1>4. now \in Int /\ 0 <= now
  BY ClockAssumption DEF AnyUseInv, TypeOK
<1>5. \A c \in Ctxs : tvNow'[c] <= now + b
  BY <1>4 DEF InOrderButFor
<1>6. \A r \in Tracked : r \in Queries /\ Held(r)
  BY TrackedAreQueries DEF AnyUseInv, TypeOK, Held
<1>. HIDE DEF MadeAt, Held
<1>7. /\ \A i, j \in DOMAIN g_queries :
           i <= j => MadeAt(g_queries[i])' <= MadeAt(g_queries[j])' + b
      /\ \A q \in Queries : Held(q)' => MadeAt(q)' <= now + b
  BY <1>1, <1>2, <1>3, <1>6 DEF InOrderButFor
<1>8. /\ \A q \in Queries : lpc'[q] \in {"locked", "submitted"} =>
           \A r \in Tracked : MadeAt(r)' <= MadeAt(q)' + b
      /\ \A q \in Queries : lpc'[q] = "locked" => MadeAt(q)' >= 0
  <2>1. \A q \in Queries : lpc'[q] \in {"locked", "submitted"} =>
          Held(q) /\ lpc[q] \in {"locked", "submitted"}
                  /\ (lpc'[q] = "locked" => lpc[q] = "locked")
    BY DEF Held
  <2>. QED  BY <1>2, <1>6, <2>1 DEF InOrderButFor
<1>. QED  BY <1>1, <1>5, <1>7, <1>8 DEF InOrderButFor, MadeAt

\* The expiry of a lookup that takes the lock counts from now.
LEMMA LockInOrder ==
  ASSUME AnyUseInv, NEW b \in Nat, InOrderButFor(b), NEW q \in Queries, LookupLock(q)
  PROVE  InOrderButFor(b)'
<1>1. /\ UNCHANGED <<g_queries, now, tvNow, ctxOf>> /\ Tracked' = Tracked
      /\ lpc[q] = "found" /\ lpc'[q] = "locked"
      /\ \A p \in Queries \ {q} : lpc'[p] = lpc[p] /\ expires'[p] = expires[p]
      /\ expires'[q] = now + Timeout[ctxOf[q]]
  BY DEF LookupLock, AnyUseInv, TypeOK, threadVars, Tracked
<1>2. now \in Int /\ 0 <= now /\ Timeout[ctxOf[q]] \in Int
  BY <1>1, ClockAssumption DEF AnyUseInv, TypeOK, PointersSet, InCall
<1>3. MadeAt(q)' = now
  BY <1>1, <1>2 DEF MadeAt
<1>4. \A p \in Queries \ {q} : MadeAt(p)' = MadeAt(p) /\ (Held(p)' <=> Held(p))
  BY <1>1 DEF MadeAt, Held
<1>5. \A r \in Tracked : r \in Queries \ {q} /\ Held(r)
  BY <1>1, TrackedAreQueries DEF AnyUseInv, TypeOK, LiveIsHeld, Held
<1>6. \A p \in Queries \ {q} : lpc[p] \notin {"locked", "submitted"}
  BY NamesAssumption DEF LookupLock, QueryLockFree, AnyUseInv, OneTableWriter
<1>7. \A i \in DOMAIN g_queries : g_queries[i] \in Tracked
  BY DEF Tracked, Range
<1>8. \A i, j \in DOMAIN g_queries :
        i <= j => MadeAt(g_queries[i])' <= MadeAt(g_queries[j])' + b
  BY <1>1, <1>4, <1>5, <1>7 DEF InOrderButFor
<1>9. \A p \in Queries : Held(p)' => MadeAt(p)' <= now + b
  BY <1>2, <1>3, <1>4 DEF InOrderButFor
<1>10. \A r \in Tracked : MadeAt(r)' <= MadeAt(q)' + b
  BY <1>3, <1>4, <1>5 DEF InOrderButFor
<1>11. \A p \in Queries : lpc'[p] \in {"locked", "submitted"} => p = q
  BY <1>1, <1>6
<1>. QED
  BY <1>1, <1>2, <1>3, <1>8, <1>9, <1>10, <1>11 DEF InOrderButFor, MadeAt

\* The query that enters the table goes last, and was made last.
LEMMA TrackInOrder ==
  ASSUME AnyUseInv, NEW b \in Nat, InOrderButFor(b), NEW q \in Queries, LookupTrack(q)
  PROVE  InOrderButFor(b)'
<1>1. /\ UNCHANGED <<expires, now, tvNow, ctxOf>>
      /\ lpc[q] = "submitted" /\ lpc'[q] = "ok"
      /\ \A p \in Queries \ {q} : lpc'[p] = lpc[p]
      /\ HASH_ADD(q)
  BY DEF LookupTrack, AnyUseInv, TypeOK, threadVars
<1>2. \A p \in Queries : MadeAt(p)' = MadeAt(p)
  BY <1>1 DEF MadeAt
<1>3. q \notin Tracked /\ Tracked' = Tracked \cup {q} /\ g_queries \in Seq(Queries)
  <2>1. q \notin Tracked
    BY <1>1 DEF AnyUseInv, LiveIsHeld
  <2>. QED  BY <1>1, <2>1, AddQuery DEF AnyUseInv, TypeOK, Tracked
<1>4. \A p \in Queries : lpc'[p] \notin {"locked", "submitted"}
  BY <1>1, NamesAssumption DEF AnyUseInv, OneTableWriter
<1>5. \A p \in Queries : Held(p)' => Held(p)
  BY <1>1, <1>3, <1>4 DEF Held
<1>6. /\ DOMAIN g_queries = 1..Len(g_queries) /\ Len(g_queries) \in Nat
      /\ DOMAIN g_queries' = 1..(Len(g_queries) + 1)
      /\ g_queries'[Len(g_queries) + 1] = q
      /\ \A i \in 1..Len(g_queries) : g_queries'[i] = g_queries[i]
  BY <1>1, <1>3, AppendProperties, LenProperties DEF HASH_ADD
<1>7. \A i \in 1..Len(g_queries) : g_queries[i] \in Tracked
  BY <1>6 DEF Tracked, Range
<1>8. MadeAt(q) \in Int /\ \A r \in Tracked : MadeAt(r) <= MadeAt(q) + b
  BY <1>1, MadeAtIsInt DEF InCall, InOrderButFor
<1>9. ASSUME NEW i \in DOMAIN g_queries', NEW j \in DOMAIN g_queries', i <= j
      PROVE  MadeAt(g_queries'[i]) <= MadeAt(g_queries'[j]) + b
  <2>1. CASE j = Len(g_queries) + 1 /\ i = j
    BY <1>6, <1>8, <2>1
  <2>2. CASE j = Len(g_queries) + 1 /\ i # j
    BY <1>6, <1>7, <1>8, <1>9, <2>2
  <2>3. CASE j # Len(g_queries) + 1
    <3>1. i \in DOMAIN g_queries /\ j \in DOMAIN g_queries
      BY <1>6, <1>9, <2>3
    <3>. QED  BY <1>6, <1>9, <3>1 DEF InOrderButFor
  <2>. QED  BY <2>1, <2>2, <2>3
<1>. QED
  BY <1>1, <1>2, <1>4, <1>5, <1>9 DEF InOrderButFor, MadeAt

\* A query taken out leaves the rest as it was.
LEMMA DeleteInOrder ==
  ASSUME AnyUseInv, NEW b \in Nat, InOrderButFor(b), NEW q \in Tracked, HASH_DEL(q),
         UNCHANGED <<expires, now, tvNow, lpc, ctxOf>>
  PROVE  InOrderButFor(b)'
<1>1. g_queries \in Seq(Queries) /\ Tracked' = Tracked \ {q}
  BY DeleteQuery DEF AnyUseInv, TypeOK, Tracked
<1>2. \A i, j \in DOMAIN g_queries' :
        i <= j => MadeAt(g_queries'[i]) <= MadeAt(g_queries'[j]) + b
  BY <1>1, DeleteKeepsOrder DEF InOrderButFor
<1>3. \A p \in Queries : MadeAt(p)' = MadeAt(p) /\ (Held(p)' => Held(p))
  BY <1>1 DEF MadeAt, Held
<1>. QED  BY <1>1, <1>2, <1>3 DEF InOrderButFor, MadeAt

\* The clock goes on; what it is set back is added to the difference.
LEMMA ClockInOrder ==
  ASSUME AnyUseInv, NEW b \in Nat, NEW d \in Nat, InOrderButFor(b),
         now' \in Nat, now <= now' + d,
         UNCHANGED <<g_queries, expires, tvNow, lpc, ctxOf>>
  PROVE  /\ \A i, j \in DOMAIN g_queries' :
              i <= j => MadeAt(g_queries[i])' <= MadeAt(g_queries[j])' + (b + d)
         /\ \A q \in Queries : lpc'[q] \in {"locked", "submitted"} =>
              \A r \in Tracked' : MadeAt(r)' <= MadeAt(q)' + (b + d)
         /\ \A q \in Queries : Held(q)' => MadeAt(q)' <= now' + (b + d)
         /\ \A q \in Queries : lpc'[q] = "locked" => MadeAt(q)' >= 0
         /\ \A c \in Ctxs : tvNow'[c] <= now' + (b + d)
<1>1. now \in Int /\ tvNow \in [Ctxs -> Int]
  BY ClockAssumption DEF AnyUseInv, TypeOK
<1>2. /\ \A q \in Queries : MadeAt(q)' = MadeAt(q) /\ Held(q)' = Held(q)
      /\ Tracked' = Tracked
  BY DEF MadeAt, Held, Tracked
<1>3. \A q \in Queries : Held(q) => MadeAt(q) \in Int
  BY MadeAtIsInt
<1>4. \A r \in Tracked : r \in Queries /\ Held(r)
  BY TrackedAreQueries DEF AnyUseInv, TypeOK, Held
<1>5. \A i \in DOMAIN g_queries : g_queries[i] \in Tracked
  BY DEF Tracked, Range
<1>6. \A m, n \in Int : m <= n + b => m <= n + (b + d)
  OBVIOUS
<1>7. \A i, j \in DOMAIN g_queries :
        i <= j => MadeAt(g_queries[i]) <= MadeAt(g_queries[j]) + (b + d)
  BY <1>3, <1>4, <1>5, <1>6 DEF InOrderButFor
<1>8. \A q \in Queries : lpc[q] \in {"locked", "submitted"} =>
        Held(q) /\ \A r \in Tracked : MadeAt(r) <= MadeAt(q) + (b + d)
  <2>1. \A q \in Queries : lpc[q] \in {"locked", "submitted"} => Held(q)
    BY DEF Held
  <2>. QED  BY <1>3, <1>4, <1>6, <2>1 DEF InOrderButFor
<1>9. \A m \in Int : m <= now + b => m <= now' + (b + d)
  <2>1. \A t, u, m \in Int : t <= u + d /\ m <= t + b => m <= u + (b + d)
    OBVIOUS
  <2>2. now' \in Int
    OBVIOUS
  <2>. QED  BY <1>1, <2>1, <2>2
<1>10. /\ \A q \in Queries : Held(q) => MadeAt(q) <= now' + (b + d)
       /\ \A c \in Ctxs : tvNow[c] <= now' + (b + d)
  BY <1>1, <1>3, <1>9 DEF InOrderButFor
<1>11. \A i \in DOMAIN g_queries : g_queries[i] \in Queries
  BY <1>4, <1>5
<1>. QED
  BY <1>2, <1>4, <1>7, <1>8, <1>10, <1>11 DEF InOrderButFor

\* Every step keeps the table in order but for b, for as long as the clock is not
\* set back.
LEMMA NextInOrder ==
  ASSUME AnyUseInv, NEW b \in Nat, InOrderButFor(b), [Next]_vars
  PROVE  InOrderButFor(b)'
<1>1. TypeOK /\ PointersSet /\ OneTableWriter /\ LiveIsHeld /\ SubmittedIsAllocated
  BY DEF AnyUseInv
<1>2. lpc \in [Queries -> LookupPc] /\ tvNow \in [Ctxs -> 0..MaxClock]
  BY <1>1 DEF TypeOK
<1>3. ASSUME UNCHANGED <<g_queries, expires, now, lpc, ctxOf>>,
             \A c \in Ctxs : tvNow'[c] \in {0, now, tvNow[c]}
      PROVE  InOrderButFor(b)'
  BY <1>3, QuietInOrder
<1>4. CASE \/ DestroyStep \/ UNCHANGED vars
           \/ \E q \in Queries : ResolverStep(q)
           \/ \E c \in Ctxs : RegistryStep(c)
  BY <1>3, <1>4 DEF DestroyStep, ResolverStep, RegistryStep, vars, qryVars, lookupVars,
                    threadVars
<1>5. CASE Tick
  <2>1. now \in Nat /\ now' = now + 1
    BY <1>1, <1>5, ClockAssumption DEF Tick, TypeOK
  <2>2. now' \in Nat /\ now <= now' + 0 /\ b + 0 = b
    BY <2>1
  <2>3. UNCHANGED <<g_queries, expires, tvNow, lpc, ctxOf>>
    BY <1>5 DEF Tick, qryVars, lookupVars, threadVars
  <2>. QED  BY <2>2, <2>3, ClockInOrder DEF InOrderButFor
<1>6. ASSUME NEW q \in Queries, LookupStep(q)
      PROVE  InOrderButFor(b)'
  <2>1. CASE \/ (\E c \in Ctxs : LookupFind(q, c)) \/ LookupReject(q) \/ LookupSubmit(q)
    <3>1. /\ UNCHANGED <<g_queries, expires, now, tvNow>>
          /\ \A p \in Queries \ {q} : lpc'[p] = lpc[p] /\ ctxOf'[p] = ctxOf[p]
          /\ lpc'[q] \in {"locked", "submitted"} => lpc[q] = "locked"
          /\ lpc[q] # "idle" => ctxOf'[q] = ctxOf[q]
      BY <1>1, <1>2, <2>1 DEF LookupFind, LookupReject, LookupSubmit, TypeOK, qryVars, threadVars
    <3>. QED  BY <3>1, QuietInOrder
  <2>. QED  BY <1>6, <2>1, LockInOrder, TrackInOrder DEF LookupStep
<1>7. ASSUME NEW c \in Ctxs, ThreadStep(c)
      PROVE  InOrderButFor(b)'
  <2>1. UNCHANGED <<expires, now, lpc, ctxOf>>
    BY <1>7 DEF ThreadStep, ThreadWake, Deliver, Untrack, ProcessEnd, Peek, ExpireBegin,
           ExpireOne, ExpireEnd, ThreadStop, CleanOne, CleanEnd, CancelHead, lookupVars,
           qryVars
  <2>2. CASE UNCHANGED g_queries
    <3>1. \A d \in Ctxs : tvNow'[d] \in {0, now, tvNow[d]}
      BY <1>2, <1>7 DEF ThreadStep, ThreadWake, Deliver, Untrack, ProcessEnd, Peek, ExpireBegin,
           ExpireOne, ExpireEnd, ThreadStop, CleanOne, CleanEnd, CancelHead, threadVars
    <3>. QED  BY <1>3, <2>1, <2>2, <3>1
  <2>3. CASE UNCHANGED tvNow /\ \E q \in Tracked : HASH_DEL(q)
    BY <2>1, <2>3, DeleteInOrder
  <2>4. CASE Untrack(c) /\ ~UNCHANGED g_queries
    <3>1. current[c] \in Queries /\ HASH_DEL(current[c]) /\ UNCHANGED tvNow
          /\ tpc[c] = "untrack" /\ queryLock = Nobody /\ ~Stale(current[c])
      BY <1>1, <2>4 DEF Untrack, Goto, QueryLockFree, PointersSet
    <3>2. current[c] \in Tracked
      BY <1>1, <3>1, NamesAssumption
      DEF Stale, TypeOK, SubmittedIsAllocated, Accepted, LiveIsHeld, Held, OneTableWriter
    <3>. QED  BY <2>3, <3>1, <3>2
  <2>5. CASE ExpireOne(c) \/ CleanOne(c)
    <3>1. g_queries # <<>> /\ HASH_DEL(Head(g_queries)) /\ UNCHANGED tvNow
      BY <2>5 DEF ExpireOne, CleanOne, HeadExpired, CancelHead, threadVars
    <3>. QED  BY <1>1, <2>3, <3>1, TrackedAreQueries DEF TypeOK
  <2>6. UNCHANGED g_queries \/ Untrack(c) \/ ExpireOne(c) \/ CleanOne(c)
    BY <1>7 DEF ThreadStep, ThreadWake, Deliver, ProcessEnd, Peek, ExpireBegin, ExpireEnd,
           ThreadStop, CleanEnd, qryVars
  <2>. QED  BY <2>2, <2>4, <2>5, <2>6
<1>. QED  BY <1>4, <1>5, <1>6, <1>7 DEF Next, Step

\* What callbacks call changes nothing in the order.
LEMMA RNextInOrder ==
  ASSUME AnyUseInv, NEW b \in Nat, InOrderButFor(b), [RNext]_rvars
  PROVE  InOrderButFor(b)'
<1>1. ASSUME NEW c \in Ctxs, NEW q \in Queries, Refused(c, q)
      PROVE  InOrderButFor(b)'
  <2>1. /\ UNCHANGED <<g_queries, expires, now, tvNow, ctxOf>>
        /\ lpc'[q] = "err" /\ \A p \in Queries \ {q} : lpc'[p] = lpc[p]
    BY <1>1 DEF Refused, threadVars, AnyUseInv, TypeOK
  <2>. QED  BY <2>1, QuietInOrder
<1>2. ASSUME \/ \E c \in Ctxs : CloseStep(c)
             \/ UNCHANGED <<ubVars, ctxVars, tpc, now, qryVars, lookupVars, threadVars>>
      PROVE  InOrderButFor(b)'
  <2>1. UNCHANGED <<g_queries, expires, now, tvNow, lpc, ctxOf>>
    BY <1>2 DEF CloseStep, qryVars, lookupVars, threadVars
  <2>. QED  BY <2>1, QuietInOrder
<1>. QED  BY <1>1, <1>2, NextInOrder, ReentrantStep

\* The seconds the clock is set back in all are what the order may be off.
LEMMA CNextInOrder ==
  ASSUME AnyUseInv, back \in Nat, InOrderButFor(back), [CNext]_cvars
  PROVE  back' \in Nat /\ InOrderButFor(back)'
<1>1. CASE [Next]_vars /\ UNCHANGED back
  <2>1. PICK b \in Nat : b = back
    OBVIOUS
  <2>2. InOrderButFor(b)'
    BY <1>1, <2>1, NextInOrder
  <2>. QED  BY <1>1, <2>1, <2>2 DEF InOrderButFor
<1>2. CASE SetBack
  <2>1. PICK t \in 0..(now - 1) : now' = t /\ back' = back + (now - t)
    BY <1>2 DEF SetBack
  <2>2. now \in Nat
    BY ClockAssumption DEF AnyUseInv, TypeOK
  <2>3. PICK b \in Nat, d \in Nat : b = back /\ d = now - t
    BY <2>1, <2>2
  <2>4. now' \in Nat /\ now <= now' + d /\ back' = b + d /\ b + d \in Nat
    BY <2>1, <2>2, <2>3
  <2>5. UNCHANGED <<g_queries, expires, tvNow, lpc, ctxOf>>
    BY <1>2 DEF SetBack, qryVars, lookupVars, threadVars
  <2>. QED  BY <2>3, <2>4, <2>5, ClockInOrder DEF InOrderButFor
<1>. QED  BY <1>1, <1>2 DEF CNext, cvars

\* As long as the clock only goes on, the table is in order of submission, whatever
\* callers and callbacks do (unbound4j.c:314-346).
THEOREM InOrderOfSubmission == Spec \/ RSpec => []InOrderButFor(0)
<1>1. AnyUseInv /\ InOrderButFor(0) /\ [Next]_vars => InOrderButFor(0)'
  BY NextInOrder
<1>2. AnyUseInv /\ InOrderButFor(0) /\ [RNext]_rvars => InOrderButFor(0)'
  BY RNextInOrder
<1>3. RInit => InOrderButFor(0)
  BY InitInOrder DEF RInit
<1>4. Spec => []InOrderButFor(0)
  BY <1>1, InitInOrder, AnyUse, PTL DEF Spec, AnySpec
<1>5. RSpec => []InOrderButFor(0)
  BY <1>2, <1>3, AnyUse, PTL DEF RSpec, AnySpec
<1>. QED  BY <1>4, <1>5

\* A clock that is set back keeps a query that has expired behind the head of the
\* table, where the peek does not see it, for no longer than it was set back in all
\* (unbound4j.c:320-323, 371-392).
THEOREM LateOnlyByTheSetBack == CSpec => []LateByTheSetBack
<1> DEFINE Inv == back \in Nat /\ InOrderButFor(back)
<1>1. CInit => Inv
  BY InitInOrder DEF CInit, InOrderButFor
<1>2. AnyUseInv /\ Inv /\ [CNext]_cvars => Inv'
  BY CNextInOrder
<1>3. AnyUseInv /\ Inv => LateByTheSetBack
  <2>. SUFFICES ASSUME AnyUseInv, Inv, NEW q \in Tracked
                PROVE  MadeAt(Head(g_queries)) <= MadeAt(q) + back
    BY DEF LateByTheSetBack
  <2>1. g_queries \in Seq(Queries) /\ DOMAIN g_queries = 1..Len(g_queries)
        /\ Len(g_queries) \in Nat
    BY LenProperties DEF AnyUseInv, TypeOK
  <2>2. PICK i \in DOMAIN g_queries : g_queries[i] = q
    BY DEF Tracked, Range
  <2>3. 1 \in DOMAIN g_queries /\ 1 <= i /\ Head(g_queries) = g_queries[1]
    BY <2>1, <2>2
  <2>. QED  BY <2>2, <2>3 DEF InOrderButFor
<1>. HIDE DEF Inv
<1>. QED  BY <1>1, <1>2, <1>3, AnyUse, PTL DEF CSpec, AnySpec

-----------------------------------------------------------------------------
(* Nothing waits in a circle *)

\* What a step of a processing thread is to the callback on it
LEMMA ThreadMoves ==
  ASSUME NEW c \in Ctxs, ThreadStep(c)
  PROVE  /\ UNCHANGED <<phase, stopping, destroy, victim, lpc>>
         /\ \E to \in ThreadPc : tpc' = [tpc EXCEPT ![c] = to]
                                 \/ UNCHANGED tpc
         /\ calls' # calls => \/ tpc' = [tpc EXCEPT ![c] = "untrack"]
                              \/ tpc[c] \in {"expire", "clean"} /\ UNCHANGED tpc
<1>. USE DEF ctxVars, qryVars, lookupVars, ThreadPc
<1>1. CASE \/ ThreadWake(c) \/ Untrack(c) \/ ProcessEnd(c) \/ Peek(c) \/ ExpireBegin(c)
           \/ ExpireEnd(c) \/ ThreadStop(c) \/ CleanEnd(c)
  BY <1>1 DEF ThreadWake, Untrack, ProcessEnd, Peek, ExpireBegin, ExpireEnd, ThreadStop,
              CleanEnd, Goto
<1>2. CASE (\E q \in Queries : Deliver(c, q)) \/ ExpireOne(c) \/ CleanOne(c)
  BY <1>2 DEF Deliver, ExpireOne, CleanOne, CancelHead, Goto
<1>. QED  BY <1>1, <1>2 DEF ThreadStep

\* What a step of a lookup changes that callbacks depend on
LEMMA LookupMoves ==
  ASSUME NEW q \in Queries,
         LookupStep(q) \/ Underway(q) \/ (\E c \in Ctxs : Refused(c, q))
  PROVE  /\ UNCHANGED <<phase, stopping, destroy, victim, tpc>>
         /\ \E to \in {"found", "locked", "submitted", "ok", "err"} :
              lpc' = [lpc EXCEPT ![q] = to]
<1>. USE DEF ctxVars
<1>1. CASE LookupStep(q) \/ Underway(q)
  BY <1>1 DEF LookupStep, Underway, LookupFind, LookupReject, LookupLock, LookupSubmit,
              LookupTrack
<1>2. CASE \E c \in Ctxs : Refused(c, q)
  BY <1>2 DEF Refused
<1>. QED  BY <1>1, <1>2

\* CallbacksInv speaks of nothing else.
LEMMA CallbacksSee ==
  ASSUME CallbacksInv, UNCHANGED <<doing, phase, stopping, destroy, victim, lpc, tpc>>
  PROVE  CallbacksInv'
BY DEF CallbacksInv, CallbacksOfThreads, CallbackLookups, UnmadeByOne, StoppedToBeJoined,
       Doing, InCall

LEMMA InitCallbacks == RInit => CallbacksInv
BY DEF RInit, Init, CtxInit, CallbacksInv, CallbacksOfThreads, CallbackLookups, UnmadeByOne,
       StoppedToBeJoined, Doing, None

\* The thread goes on when its callback has returned.
LEMMA GoOnCallbacks ==
  ASSUME AnyUseInv, CallbacksInv, NEW c \in Ctxs, GoOn(c)
  PROVE  CallbacksInv'
<1>1. CASE UNCHANGED <<ubVars, ctxVars, tpc, now, qryVars, lookupVars, threadVars, doing>>
  BY <1>1, CallbacksSee DEF ctxVars, lookupVars
<1>2. CASE ThreadStep(c) /\ doing' = [doing EXCEPT ![c] = IF calls' # calls THEN Running ELSE None]
  <2>1. doing[c] \in {None, Running} /\ tpc \in [Ctxs -> ThreadPc]
    BY DEF GoOn, AnyUseInv, TypeOK, CtxTypeOK
  <2>2. CallbacksOfThreads'
    BY <1>2, <2>1, ThreadMoves DEF CallbacksInv, CallbacksOfThreads
  <2>3. \A d \in Ctxs : doing'[d] = doing[d] \/ doing'[d] \in {None, Running}
    BY <1>2 DEF CallbacksInv, CallbacksOfThreads
  <2>4. \A d \in Ctxs, op \in {"lookup", "free"}, x \in Ctxs \cup Queries :
           Doing(d, op, x)' => Doing(d, op, x)
    BY <2>3 DEF Doing, None, Running
  <2>. QED
    BY <1>2, <2>2, <2>4, ThreadMoves
    DEF CallbacksInv, CallbackLookups, UnmadeByOne, StoppedToBeJoined, InCall
<1>. QED  BY <1>1, <1>2 DEF GoOn

\* The callback turns to the library.
LEMMA CallCallbacks ==
  ASSUME CallbacksInv, NEW c \in Ctxs, Call(c)
  PROVE  CallbacksInv'
<1>1. UNCHANGED <<phase, stopping, destroy, victim, lpc, tpc>> /\ doing[c] = Running
  BY DEF Call, vars, ctxVars, lookupVars
<1>2. PICK op \in {"lookup", "close", "wait"}, x \in Ctxs \cup Queries :
        /\ Goes(c, op, x)
        /\ op = "lookup" => x \in Queries /\ lpc[x] = "idle" /\ LookupThread(x) = {}
        /\ op = "close" => x \in Ctxs
        /\ op = "wait" => x \in Queries
  BY DEF Call, CallLookup, CallClose, CallWait
<1>3. CallbacksOfThreads'
  BY <1>1, <1>2 DEF CallbacksInv, CallbacksOfThreads, Goes, Running, None
<1>4. \A d \in Ctxs \ {c} : doing'[d] = doing[d]
  BY <1>2 DEF CallbacksInv, CallbacksOfThreads, Goes
<1>5. doing'[c] = [op |-> op, on |-> x]
  BY <1>2 DEF CallbacksInv, CallbacksOfThreads, Goes
<1>6. CallbackLookups'
  <2>1. \A d \in Ctxs, q \in Queries : Doing(d, "lookup", q)' =>
           IF d = c THEN lpc[q] = "idle" /\ LookupThread(q) = {} ELSE Doing(d, "lookup", q)
    BY <1>2, <1>4, <1>5 DEF Doing
  <2>. QED  BY <1>1, <2>1 DEF CallbacksInv, CallbackLookups, InCall, LookupThread
<1>7. UnmadeByOne' /\ StoppedToBeJoined'
  BY <1>1, <1>2, <1>4, <1>5 DEF CallbacksInv, UnmadeByOne, StoppedToBeJoined, Doing
<1>. QED  BY <1>3, <1>6, <1>7 DEF CallbacksInv

\* The callback returns to its own code: nothing is left of the call it made.
LEMMA ReturnsAlone ==
  ASSUME CallbacksInv, NEW c \in Ctxs, Goes(c, "run", NoCtx), doing[c] # None,
         UNCHANGED tpc
  PROVE  /\ CallbacksOfThreads'
         /\ \A d \in Ctxs, op \in {"lookup", "free"}, x \in Ctxs \cup Queries :
              Doing(d, op, x)' => Doing(d, op, x) /\ d # c
BY DEF CallbacksInv, CallbacksOfThreads, Goes, Doing, None, Running

\* A lookup made by a callback
LEMMA LookUpCallbacks ==
  ASSUME AnyUseInv, CallbacksInv, NEW c \in Ctxs, LookUp(c) \/ Reject(c)
  PROVE  CallbacksInv'
<1>1. PICK q \in Queries :
        /\ Doing(c, "lookup", q)
        /\ LookupStep(q) \/ Underway(q) \/ Refused(c, q)
        /\ IF lpc'[q] \in {"ok", "err"} THEN Goes(c, "run", NoCtx) ELSE UNCHANGED doing
  <2>1. CASE LookUp(c)
    BY <2>1 DEF LookUp, LookupStep
  <2>2. CASE Reject(c)
    BY <2>2 DEF Reject, LookupStep, LookupReject, AnyUseInv, TypeOK
  <2>. QED  BY <2>1, <2>2
<1>2. UNCHANGED <<phase, stopping, destroy, victim, tpc>>
  BY <1>1, LookupMoves
<1>3. PICK to \in {"found", "locked", "submitted", "ok", "err"} : lpc' = [lpc EXCEPT ![q] = to]
  BY <1>1, LookupMoves
<1>4. lpc'[q] = to /\ \A p \in Queries \ {q} : lpc'[p] = lpc[p]
  BY <1>3 DEF AnyUseInv, TypeOK
<1>5. \A d \in Ctxs : Doing(d, "lookup", q) => d = c
  BY <1>1 DEF CallbacksInv, CallbackLookups
<1>6. CASE to \in {"ok", "err"}
  <2>1. doing[c] # None
    BY <1>1 DEF Doing, None
  <2>2. /\ CallbacksOfThreads'
        /\ \A d \in Ctxs, op \in {"lookup", "free"}, x \in Ctxs \cup Queries :
              Doing(d, op, x)' => Doing(d, op, x) /\ d # c
    BY <1>1, <1>2, <1>4, <1>6, <2>1, ReturnsAlone
  <2>3. CallbackLookups'
    BY <1>4, <1>5, <2>2 DEF CallbacksInv, CallbackLookups, InCall
  <2>4. UnmadeByOne' /\ StoppedToBeJoined'
    BY <1>2, <2>2 DEF CallbacksInv, UnmadeByOne, StoppedToBeJoined
  <2>. QED  BY <2>2, <2>3, <2>4 DEF CallbacksInv
<1>7. CASE to \in {"found", "locked", "submitted"}
  <2>1. UNCHANGED doing
    BY <1>1, <1>4, <1>7
  <2>2. CallbacksOfThreads' /\ UnmadeByOne' /\ StoppedToBeJoined'
    BY <1>2, <2>1
    DEF CallbacksInv, CallbacksOfThreads, UnmadeByOne, StoppedToBeJoined, Doing
  <2>3. CallbackLookups'
    BY <1>4, <1>7, <2>1 DEF CallbacksInv, CallbackLookups, Doing, InCall
  <2>. QED  BY <2>2, <2>3 DEF CallbacksInv
<1>. QED  BY <1>6, <1>7

\* A close made by a callback
LEMMA CloseCallbacks ==
  ASSUME AnyUseInv, CallbacksInv, NEW c \in Ctxs, Close(c)
  PROVE  CallbacksInv'
<1>1. PICK d \in Ctxs :
        \/ Doing(c, "close", d) /\ DeleteContext(d) /\ Goes(c, "free", d)
        \/ Doing(c, "close", d) /\ Goes(c, "run", NoCtx) /\ UNCHANGED <<ubVars, ctxVars, tpc>>
        \/ Doing(c, "free", d) /\ StopThread(d) /\ UNCHANGED doing
        \/ Doing(c, "free", d) /\ Release(d) /\ Goes(c, "run", NoCtx)
  BY DEF Close, FreeContext
<1>2. UNCHANGED lpc
  BY DEF Close, lookupVars
<1>3. doing[c] # None
  BY <1>1 DEF Doing, None
<1>4. /\ phase \in [Ctxs -> Phase] /\ stopping \in [Ctxs -> BOOLEAN]
      /\ victim \in Ctxs \cup {NoCtx} /\ NoCtx \notin Ctxs
  BY NamesAssumption DEF AnyUseInv, TypeOK, CtxTypeOK
<1>. USE DEF ctxVars
<1>5. CASE Doing(c, "close", d) /\ DeleteContext(d) /\ Goes(c, "free", d)
  <2>1. /\ \A e \in Ctxs \ {c} : doing'[e] = doing[e]
        /\ doing'[c] = [op |-> "free", on |-> d]
        /\ CallbacksOfThreads'
    BY <1>3, <1>5 DEF CallbacksInv, CallbacksOfThreads, Goes, DeleteContext, None, Running
  <2>2. /\ phase[d] = "open" /\ phase' = [phase EXCEPT ![d] = "removed"]
        /\ UNCHANGED <<stopping, destroy, victim>>
    BY <1>5 DEF DeleteContext, Enter
  <2>3. CallbackLookups' /\ StoppedToBeJoined'
    BY <1>2, <1>4, <2>1, <2>2
    DEF CallbacksInv, CallbackLookups, StoppedToBeJoined, Doing, InCall
  <2>4. \A e, x \in Ctxs : Doing(e, "free", x)' => IF x = d THEN e = c ELSE Doing(e, "free", x)
    <3>1. \A x \in Ctxs : Doing(c, "free", x)' => x = d
      BY <2>1 DEF Doing
    <3>2. \A e \in Ctxs \ {c}, x \in Ctxs : Doing(e, "free", x)' => Doing(e, "free", x)
      BY <2>1 DEF Doing
    <3>. QED  BY <2>2, <3>1, <3>2 DEF CallbacksInv, UnmadeByOne
  <2>5. UnmadeByOne'
    <3>1. victim # d /\ (victim # NoCtx => victim \in Ctxs)
      BY <1>4, <2>2 DEF CallbacksInv, UnmadeByOne
    <3>. QED  BY <1>4, <2>2, <2>4, <3>1 DEF CallbacksInv, UnmadeByOne
  <2>. QED  BY <2>1, <2>3, <2>5 DEF CallbacksInv
<1>6. CASE Doing(c, "close", d) /\ Goes(c, "run", NoCtx) /\ UNCHANGED <<ubVars, ctxVars, tpc>>
  BY <1>2, <1>3, <1>6, ReturnsAlone
  DEF CallbacksInv, CallbackLookups, UnmadeByOne, StoppedToBeJoined, InCall
<1>7. CASE Doing(c, "free", d) /\ StopThread(d) /\ UNCHANGED doing
  <2>1. /\ phase' = [phase EXCEPT ![d] = "joining"] /\ stopping' = [stopping EXCEPT ![d] = TRUE]
        /\ UNCHANGED <<destroy, victim, tpc>>
    BY <1>7 DEF StopThread, Enter
  <2>2. CallbacksOfThreads' /\ CallbackLookups'
    BY <1>2, <1>7, <2>1 DEF CallbacksInv, CallbacksOfThreads, CallbackLookups, Doing, InCall
  <2>3. UnmadeByOne' /\ StoppedToBeJoined'
    BY <1>4, <1>7, <2>1 DEF CallbacksInv, UnmadeByOne, StoppedToBeJoined, Doing
  <2>. QED  BY <2>2, <2>3 DEF CallbacksInv
<1>8. CASE Doing(c, "free", d) /\ Release(d) /\ Goes(c, "run", NoCtx)
  <2>1. /\ phase' = [phase EXCEPT ![d] = "freed"]
        /\ UNCHANGED <<stopping, destroy, tpc>>
        /\ victim' = victim /\ victim # d
        /\ \A e \in Ctxs : Doing(e, "free", d) => e = c
    BY <1>8 DEF Release, Enter, CallbacksInv, UnmadeByOne
  <2>2. /\ CallbacksOfThreads'
        /\ \A e \in Ctxs, op \in {"lookup", "free"}, x \in Ctxs \cup Queries :
              Doing(e, op, x)' => Doing(e, op, x) /\ e # c
    BY <1>3, <1>8, <2>1, ReturnsAlone
  <2>3. CallbackLookups' /\ StoppedToBeJoined'
    BY <1>2, <1>4, <2>1, <2>2
    DEF CallbacksInv, CallbackLookups, StoppedToBeJoined, InCall
  <2>4. UnmadeByOne'
    BY <1>4, <2>1, <2>2 DEF CallbacksInv, UnmadeByOne
  <2>. QED  BY <2>2, <2>3, <2>4 DEF CallbacksInv
<1>. QED  BY <1>1, <1>5, <1>6, <1>7, <1>8

\* The registry, called by threads of their own
LEMMA RegistryCallbacks ==
  ASSUME AnyUseInv, CallbacksInv, NEW d \in Ctxs, Registry(d)
  PROVE  CallbacksInv'
<1>1. UNCHANGED <<doing, lpc>> /\ RegistryStep(d)
  BY DEF Registry, RegistryStep, lookupVars
<1>2. /\ phase \in [Ctxs -> Phase] /\ stopping \in [Ctxs -> BOOLEAN]
      /\ tpc \in [Ctxs -> ThreadPc] /\ ContextLife
      /\ victim \in Ctxs \cup {NoCtx} /\ NoCtx \notin Ctxs
  BY NamesAssumption DEF AnyUseInv, TypeOK, CtxTypeOK
<1>3. CallbackLookups'
  BY <1>1 DEF CallbacksInv, CallbackLookups, Doing, InCall
<1>4. CASE CreateSpawn(d)
  <2>1. /\ phase[d] = "configured" /\ UNCHANGED <<stopping, destroy, victim>>
        /\ phase' \in {[phase EXCEPT ![d] = "spawned"], [phase EXCEPT ![d] = "failed"]}
        /\ tpc' \in {[tpc EXCEPT ![d] = "loop"], tpc}
    BY <1>4 DEF CreateSpawn, FailCreate, Enter
  <2>2. tpc[d] = "off" /\ doing[d] = None
    BY <1>2, <2>1 DEF ContextLife, CallbacksInv, CallbacksOfThreads
  <2>3. CallbacksOfThreads'
    BY <1>1, <1>2, <2>1, <2>2 DEF CallbacksInv, CallbacksOfThreads
  <2>4. UnmadeByOne' /\ StoppedToBeJoined'
    BY <1>1, <1>2, <2>1 DEF CallbacksInv, UnmadeByOne, StoppedToBeJoined, Doing
  <2>. QED  BY <1>3, <2>3, <2>4 DEF CallbacksInv
<1>5. CASE ~CreateSpawn(d)
  <2>1. UNCHANGED tpc
    BY <1>1, <1>5
    DEF RegistryStep, CreateAllocate, CreateFromSystem, CreateFromDefaults, CreateLoadBegin,
        CreateLoadEnd, CreateRegister, DeleteContext, DestroyNext, StopThread, FreeContext,
        Release
  <2>2. CallbacksOfThreads'
    BY <1>1, <2>1 DEF CallbacksInv, CallbacksOfThreads
  <2>3. UnmadeByOne' /\ StoppedToBeJoined'
    <3>. USE DEF CallbacksInv, UnmadeByOne, StoppedToBeJoined, Doing
    <3>1. CASE \/ CreateAllocate(d) \/ CreateFromSystem(d) \/ CreateFromDefaults(d)
               \/ CreateLoadBegin(d) \/ CreateLoadEnd(d) \/ CreateRegister(d)
               \/ DeleteContext(d)
      <4>1. /\ phase[d] \notin {"removed", "joining"}
            /\ \E to \in Phase \ {"joining"} : phase' = [phase EXCEPT ![d] = to]
            /\ UNCHANGED <<stopping, destroy, victim>>
        BY <3>1
        DEF CreateAllocate, CreateFromSystem, CreateFromDefaults, CreateLoadBegin,
            CreateLoadEnd, CreateRegister, DeleteContext, Enter, FailCreate, Phase
      <4>. QED  BY <1>1, <1>2, <4>1
    <3>2. CASE DestroyNext(d)
      BY <1>1, <1>2, <3>2 DEF DestroyNext, Enter
    <3>3. CASE StopThread(d)
      BY <1>1, <1>2, <3>3 DEF StopThread, Enter
    <3>4. CASE FreeContext(d)
      <4>1. \A c \in Ctxs : ~Doing(c, "free", d)
        BY <3>4 DEF Registry, FreeContext, Release, Enter, Closer
      <4>. QED  BY <1>1, <1>2, <3>4, <4>1 DEF FreeContext, Release, Enter
    <3>. QED  BY <1>1, <1>5, <3>1, <3>2, <3>3, <3>4 DEF RegistryStep
  <2>. QED  BY <1>3, <2>2, <2>3 DEF CallbacksInv
<1>. QED  BY <1>4, <1>5

\* Other callers, ub4j_destroy, the clock and libunbound
LEMMA OtherCallbacks ==
  ASSUME AnyUseInv, CallbacksInv,
         (\E q \in Queries : Caller(q) \/ Resolver(q)) \/ Destroy \/ Clock
  PROVE  CallbacksInv'
<1>. USE DEF ctxVars, lookupVars
<1>1. ASSUME NEW q \in Queries, Caller(q)
      PROVE  CallbacksInv'
  <2>1. UNCHANGED <<phase, stopping, destroy, victim, tpc, doing>>
    BY <1>1, LookupMoves DEF Caller
  <2>2. \A p \in Queries : LookupThread(p) # {} => lpc'[p] = lpc[p]
    BY <1>1, LookupMoves DEF Caller, AnyUseInv, TypeOK
  <2>3. CallbackLookups'
    BY <2>1, <2>2 DEF CallbacksInv, CallbackLookups, LookupThread, Doing, InCall
  <2>. QED
    BY <2>1, <2>3
    DEF CallbacksInv, CallbacksOfThreads, UnmadeByOne, StoppedToBeJoined, Doing
<1>2. CASE (\E q \in Queries : Resolver(q)) \/ Clock
  BY <1>2, CallbacksSee DEF Resolver, ResolverStep, Clock, Tick
<1>3. CASE Destroy
  <2>1. victim = NoCtx /\ UNCHANGED <<phase, stopping, victim, lpc, tpc, doing>>
    BY <1>3
    DEF Destroy, DestroyStep, DestroyBegin, DestroyEnd, CallbacksInv, UnmadeByOne
  <2>. QED
    BY <2>1
    DEF CallbacksInv, CallbacksOfThreads, CallbackLookups, UnmadeByOne, StoppedToBeJoined,
        Doing, InCall
<1>. QED  BY <1>1, <1>2, <1>3

LEMMA NextCallbacks == AnyUseInv /\ CallbacksInv /\ [RNext]_rvars => CallbacksInv'
<1>. SUFFICES ASSUME AnyUseInv, CallbacksInv, [RNext]_rvars
              PROVE  CallbacksInv'
  OBVIOUS
<1>1. CASE UNCHANGED rvars
  BY <1>1, CallbacksSee DEF rvars, vars, ctxVars, lookupVars
<1>2. ASSUME NEW c \in Ctxs, Wait(c)
      PROVE  CallbacksInv'
  <2>1. Goes(c, "run", NoCtx) /\ doing[c] # None
        /\ UNCHANGED <<phase, stopping, destroy, victim, lpc, tpc>>
    BY <1>2 DEF Wait, Doing, None, vars, ctxVars, lookupVars
  <2>. QED
    BY <2>1, ReturnsAlone
    DEF CallbacksInv, CallbackLookups, UnmadeByOne, StoppedToBeJoined, InCall
<1>3. CASE RStep
  BY <1>2, <1>3, GoOnCallbacks, CallCallbacks, LookUpCallbacks, CloseCallbacks,
     RegistryCallbacks, OtherCallbacks
  DEF RStep, Proceed
<1>. QED  BY <1>1, <1>3 DEF RNext

\* A thread that is awake and needs no lock another one holds can go on, or its
\* callback waits.
LEMMA AwakeGoesOn ==
  ASSUME AnyUseInv, CallbacksInv, NEW c \in Ctxs, Awake(c),
         QueryLockFree \/ (queryLock = c /\ tpc[c] \in {"expire", "clean"})
  PROVE  CallbackReady(c) \/ CallbackWaits(c)
<1>1. CASE doing[c] \in {None, Running}
  BY <1>1 DEF CallbackReady, ThreadReady
<1>2. ASSUME NEW q \in Queries, Doing(c, "lookup", q)
      PROVE  CallbackReady(c) \/ CallbackWaits(c)
  BY <1>2 DEF CallbacksInv, CallbackLookups, CallbackReady, CallbackWaits, LookupReady, InCall
<1>3. ASSUME NEW q \in Queries, Doing(c, "wait", q)
      PROVE  CallbackReady(c) \/ CallbackWaits(c)
  <2>1. calls[q] \in Nat
    BY DEF AnyUseInv, TypeOK
  <2>. QED  BY <1>3, <2>1 DEF CallbackReady, CallbackWaits
<1>4. ASSUME NEW d \in Ctxs, Doing(c, "close", d)
      PROVE  CallbackReady(c) \/ CallbackWaits(c)
  BY <1>4 DEF CallbackReady, CallbackWaits, Doing
<1>5. ASSUME NEW d \in Ctxs, Doing(c, "free", d)
      PROVE  CallbackReady(c) \/ CallbackWaits(c)
  BY <1>5 DEF CallbacksInv, UnmadeByOne, CallbackReady, CallbackWaits
<1>6. \/ doing[c] \in {None, Running}
      \/ \E q \in Queries : Doing(c, "lookup", q) \/ Doing(c, "wait", q)
      \/ \E d \in Ctxs : Doing(c, "close", d) \/ Doing(c, "free", d)
  BY DEF CallbacksInv, CallbacksOfThreads, Doing
<1>. QED  BY <1>1, <1>2, <1>3, <1>4, <1>5, <1>6

\* Whoever holds the write lock of the table can go on, or its callback waits.
LEMMA HolderGoesOn ==
  ASSUME AnyUseInv, CallbacksInv, ~QueryLockFree
  PROVE  SomethingReady \/ \E c \in Ctxs : CallbackWaits(c)
<1>1. queryLock \in Ctxs \cup Queries /\ OneTableWriter
  BY DEF AnyUseInv, TypeOK, QueryLockFree
<1>2. ASSUME NEW c \in Ctxs, queryLock = c
      PROVE  SomethingReady \/ CallbackWaits(c)
  BY <1>1, <1>2, AwakeGoesOn DEF OneTableWriter, Awake, SomethingReady
<1>3. ASSUME NEW q \in Queries, queryLock = q
      PROVE  SomethingReady
  BY <1>1, <1>3
  DEF OneTableWriter, LookupReady, LookupThread, CallbackReady, SomethingReady
<1>. QED  BY <1>1, <1>2, <1>3

\* A context that is being made or unmade can go on, waits for the sweep of
\* ub4j_destroy, or for a thread that can go on, unless a callback waits.
LEMMA RegistryGoesOn ==
  ASSUME AnyUseInv, CallbacksInv, QueryLockFree, NEW c \in Ctxs,
         Alive(c), phase[c] # "open", phase[c] = "spawned" => CtxLockFree
  PROVE  SomethingReady \/ \E d \in Ctxs : CallbackWaits(d)
<1>1. phase[c] \in Phase /\ tpc[c] \in ThreadPc /\ ContextLife
  BY DEF AnyUseInv, TypeOK, CtxTypeOK
<1>2. CASE phase[c] \in {"allocated", "loading", "configured", "spawned"}
  BY <1>2 DEF RegistryReady, SomethingReady
<1>3. CASE phase[c] \in {"removed", "joining"} /\ Closer(c) # {}
  <2>1. PICK d \in Ctxs : Doing(d, "free", c)
    BY <1>3 DEF Closer
  <2>2. Awake(d)
    BY <2>1 DEF CallbacksInv, CallbacksOfThreads, Doing, None, Awake
  <2>. QED  BY <2>2, AwakeGoesOn DEF SomethingReady
<1>4. CASE phase[c] \in {"removed", "joining"} /\ Closer(c) = {}
  <2>1. CASE phase[c] = "removed" \/ Joined(c)
    BY <1>4, <2>1 DEF RegistryReady, SomethingReady
  <2>2. CASE phase[c] = "joining" /\ ~Joined(c)
    <3>1. Awake(c)
      BY <1>1, <2>2 DEF ContextLife, Joined, CallbacksInv, StoppedToBeJoined, Awake
    <3>. QED  BY <3>1, AwakeGoesOn DEF SomethingReady
  <2>. QED  BY <1>4, <2>1, <2>2
<1>. QED  BY <1>1, <1>2, <1>3, <1>4 DEF Alive, Phase

LEMMA CallbacksImplies == AnyUseInv /\ CallbacksInv => UnderWayGoesOn
<1>. SUFFICES ASSUME AnyUseInv, CallbacksInv, UnderWay
              PROVE  SomethingReady \/ \E c \in Ctxs : CallbackWaits(c)
  BY DEF UnderWayGoesOn
<1>1. CASE ~QueryLockFree
  BY <1>1, HolderGoesOn
<1>2. ASSUME QueryLockFree, NEW c \in Ctxs, Awake(c)
      PROVE  SomethingReady \/ CallbackWaits(c)
  BY <1>2, AwakeGoesOn DEF SomethingReady
<1>3. ASSUME QueryLockFree, NEW q \in Queries, InCall(q)
      PROVE  SomethingReady
  <2>1. LookupReady(q)
    BY <1>3 DEF InCall, LookupReady
  <2>. QED  BY <2>1 DEF LookupThread, CallbackReady, SomethingReady
<1>4. CASE QueryLockFree /\ destroy = "sweeping"
  <2>1. CASE victim = NoCtx
    BY <1>4, <2>1 DEF SomethingReady
  <2>2. CASE victim # NoCtx
    <3>1. victim \in Ctxs /\ phase[victim] \in {"removed", "joining"}
      BY <2>2 DEF AnyUseInv, TypeOK, CtxTypeOK, CallbacksInv, UnmadeByOne
    <3>. QED  BY <1>4, <3>1, RegistryGoesOn DEF Alive
  <2>. QED  BY <2>1, <2>2
<1>5. ASSUME QueryLockFree, destroy # "sweeping", NEW c \in Ctxs, Alive(c), phase[c] # "open"
      PROVE  SomethingReady \/ \E d \in Ctxs : CallbackWaits(d)
  BY <1>5, RegistryGoesOn DEF CtxLockFree
<1>. QED  BY <1>1, <1>2, <1>3, <1>4, <1>5 DEF UnderWay

\* Locks, joins and the sweep of ub4j_destroy never wait for each other in a
\* circle that no callback is part of (unbound4j.c:68-83, 181-213, 253-261,
\* 314-346, 391-439).
THEOREM NothingWaitsInACircle == RSpec => []UnderWayGoesOn
<1>1. RSpec => []CallbacksInv
  BY AnyUse, InitCallbacks, NextCallbacks, PTL DEF RSpec, AnySpec
<1>. QED  BY <1>1, AnyUse, CallbacksImplies, PTL DEF AnySpec

\* As far as callbacks make no calls, none of them waits.
CallbacksReturn == \A c \in Ctxs : doing[c] \in {None, Running}

\* Where callbacks do not call the library again, nothing ever waits in a circle:
\* a lookup, a creation, a close or ub4j_destroy that is under way can go on.
THEOREM NothingStopsWithoutNestedCalls ==
  Calls = {} => (RSpec => [](fault = "none" /\ UnderWay => SomethingReady))
<1>. SUFFICES ASSUME Calls = {}
              PROVE  RSpec => [](fault = "none" /\ UnderWay => SomethingReady)
  OBVIOUS
<1>1. RInit => CallbacksReturn
  BY DEF RInit, CallbacksReturn
<1>2. ASSUME CallbacksReturn, NEW c \in Ctxs
      PROVE  /\ doing[c].op \in {"none", "run"}
             /\ \A op \in {"lookup", "wait", "close", "free"}, x \in Ctxs \cup Queries :
                  ~Doing(c, op, x)
  <2>1. doing[c].op \in {"none", "run"}
    BY <1>2 DEF CallbacksReturn, None, Running
  <2>. QED  BY <2>1 DEF Doing
<1>3. CallbacksInv /\ CallbacksReturn /\ [RNext]_rvars => CallbacksReturn'
  <2>. SUFFICES ASSUME CallbacksInv, CallbacksReturn, [RNext]_rvars
                PROVE  CallbacksReturn'
    OBVIOUS
  <2>1. \A c \in Ctxs : ~Call(c)
    BY DEF Call, CallLookup, CallClose, CallWait
  <2>2. \A c \in Ctxs : ~LookUp(c) /\ ~Reject(c) /\ ~Close(c) /\ ~Wait(c)
    BY <1>2 DEF LookUp, Reject, Close, Wait
  <2>3. UNCHANGED doing \/ \E c \in Ctxs : GoOn(c)
    BY <2>1, <2>2
    DEF RNext, RStep, rvars, Proceed, Registry, Caller, Resolver, Destroy, Clock
  <2>4. ASSUME NEW c \in Ctxs, GoOn(c)
        PROVE  CallbacksReturn'
    BY <2>4 DEF GoOn, CallbacksInv, CallbacksOfThreads, CallbacksReturn
  <2>. QED  BY <2>3, <2>4 DEF CallbacksReturn
<1>4. RSpec => []CallbacksInv
  BY AnyUse, InitCallbacks, NextCallbacks, PTL DEF RSpec, AnySpec
<1>5. RSpec => []CallbacksReturn
  BY <1>1, <1>3, <1>4, PTL DEF RSpec
<1>6. UnderWayGoesOn /\ CallbacksReturn => (fault = "none" /\ UnderWay => SomethingReady)
  BY <1>2 DEF UnderWayGoesOn, CallbackWaits
<1>. QED  BY <1>5, <1>6, NothingWaitsInACircle, PTL
=============================================================================
