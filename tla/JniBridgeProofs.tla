-------------------------- MODULE JniBridgeProofs --------------------------
(***************************************************************************)
(* BridgeInv is an inductive invariant of JniBridge, for any number of     *)
(* contexts used one after the other, any number of lookups and a JVM that *)
(* may fail; the properties of the bridge run follow from it.              *)
(***************************************************************************)
EXTENDS JniBridge, TLAPS

\* Nothing is loaded.
LEMMA InitBridge == Init => BridgeInv
<1>. SUFFICES ASSUME Init PROVE BridgeInv
  OBVIOUS
<1>. USE BridgeAssumption DEF Init, SInit
<1>1. BridgeTypeOK
  BY DEF BridgeTypeOK, STypeOK, Final
<1>2. CallProgress /\ CallbackProgress /\ OneContext
  BY DEF CallProgress, CallbackProgress, OneContext, Alive, Running
<1>3. CallbackContextLife /\ FutureTellsOutcome /\ StringsReleased
  BY DEF CallbackContextLife, FutureTellsOutcome, StringsReleased, Final
<1>. QED  BY <1>1, <1>2, <1>3 DEF BridgeInv

\* Loading, unloading, creating, closing and the clock touch neither calls nor
\* callbacks.
LEMMA LibraryStep ==
  ASSUME BridgeInv,
         \/ OnLoad \/ OnUnload \/ UnloadEnd \/ Clock \/ UNCHANGED vars
         \/ \E c \in Ctxs : \/ CreateBegin(c) \/ CreateEnd(c) \/ DeleteContext(c)
                            \/ DestroyOne(c) \/ CloseEnd(c)
  PROVE  BridgeInv'
<1>1. BridgeTypeOK /\ OneContext /\ CallProgress /\ CallbackProgress
      /\ CallbackContextLife /\ FutureTellsOutcome /\ StringsReleased
  BY DEF BridgeInv
<1>2. /\ UNCHANGED <<status, owner, deadline, told, outcome>>
      /\ UNCHANGED <<native, arg, addr, globals, future, cbctx>>
      /\ UNCHANGED <<cpc, mydata, attached>>
  BY DEF OnLoad, OnUnload, UnloadEnd, Clock, ClockTick, CreateBegin, CreateEnd,
         DeleteContext, DestroyOne, CloseEnd, BeginClose, vars, svars, createVars, lookupVars,
         callbackVars
<1>3. CallProgress' /\ CallbackProgress'
  BY <1>1, <1>2 DEF CallProgress, CallbackProgress
<1>4. CallbackContextLife' /\ FutureTellsOutcome'
  BY <1>1, <1>2 DEF CallbackContextLife, FutureTellsOutcome
<1>5. /\ now' \in 0..MaxClock
      /\ closing' \in [Ctxs -> BOOLEAN]
      /\ library' \in {"absent", "loaded", "failed", "unloading", "unloaded"}
  <2>1. now \in 0..MaxClock /\ closing \in [Ctxs -> BOOLEAN] /\ MaxClock \in Nat
        /\ library \in {"absent", "loaded", "failed", "unloading", "unloaded"}
    BY <1>1, BridgeAssumption DEF BridgeTypeOK, STypeOK
  <2>2. CASE OnLoad \/ OnUnload \/ UnloadEnd \/ UNCHANGED vars
    <3>1. UNCHANGED now /\ UNCHANGED closing
      BY <2>2 DEF OnLoad, OnUnload, UnloadEnd, vars, svars
    <3>2. library' \in {"absent", "loaded", "failed", "unloading", "unloaded"}
      BY <2>1, <2>2 DEF OnLoad, OnUnload, UnloadEnd, vars, createVars
    <3>. QED  BY <2>1, <3>1, <3>2
  <2>3. CASE Clock
    <3>1. UNCHANGED closing /\ UNCHANGED library /\ now < MaxClock /\ now' = now + 1
      BY <2>3 DEF Clock, ClockTick, createVars
    <3>. QED  BY <2>1, <3>1
  <2>4. ASSUME NEW c \in Ctxs,
               \/ CreateBegin(c) \/ CreateEnd(c) \/ DeleteContext(c)
               \/ DestroyOne(c) \/ CloseEnd(c)
        PROVE  /\ UNCHANGED now /\ UNCHANGED library
               /\ closing' = closing \/ closing' = [closing EXCEPT ![c] = TRUE]
    BY <2>4 DEF CreateBegin, CreateEnd, DeleteContext, DestroyOne, CloseEnd, BeginClose,
                svars
  <2>. QED  BY <2>1, <2>2, <2>3, <2>4
<1>6. /\ java' \in [Ctxs -> {"none", "creating", "open", "threw", "closing", "closed"}]
      /\ pinned' \in SUBSET Ctxs
      /\ StringsReleased'
      /\ OneContext'
  <2>1. CASE UNCHANGED <<java, pinned>>
    BY <1>1, <1>2, <2>1 DEF BridgeTypeOK, StringsReleased, OneContext, Alive, Running
  <2>2. ASSUME NEW c \in Ctxs,
               \/ CreateBegin(c) \/ CreateEnd(c) \/ DeleteContext(c)
               \/ DestroyOne(c) \/ CloseEnd(c)
        PROVE  /\ java' \in [Ctxs -> {"none", "creating", "open", "threw", "closing", "closed"}]
               /\ pinned' \in SUBSET Ctxs
               /\ StringsReleased'
    BY <1>1, <2>2
    DEF BridgeTypeOK, StringsReleased, CreateBegin, CreateEnd, DeleteContext, DestroyOne,
        CloseEnd
  <2>3. ASSUME NEW c \in Ctxs,
               \/ CreateBegin(c) \/ CreateEnd(c) \/ DeleteContext(c)
               \/ DestroyOne(c) \/ CloseEnd(c)
        PROVE  OneContext'
    \* The only context that comes alive does so when no other one is.
    <3>1. \A d \in Ctxs \ {c} : java'[d] = java[d]
      BY <1>1, <2>3
      DEF BridgeTypeOK, CreateBegin, CreateEnd, DeleteContext, DestroyOne, CloseEnd
    <3>2. Alive(c)' /\ ~Alive(c) => \A d \in Ctxs : ~Alive(d)
      BY <1>1, <2>3
      DEF BridgeTypeOK, CreateBegin, CreateEnd, DeleteContext, DestroyOne, CloseEnd,
          MayCreate, Alive, Running
    <3>3. \A d, e \in Ctxs : Alive(d)' /\ Alive(e)' => d = e
      BY <1>1, <3>1, <3>2 DEF OneContext, Alive, Running
    \* The only thread that ends has called everything of its context back.
    <3>4. Running(c) /\ ~Running(c)' => Quiet(c)
      BY <1>1, <2>3
      DEF BridgeTypeOK, CreateBegin, CreateEnd, DeleteContext, DestroyOne, CloseEnd, Running
    <3>5. \A q \in Queries : status[q] = "accepted" /\ told[q] = 0 => Running(owner[q])'
      BY <1>1, <1>2, <3>1, <3>4 DEF OneContext, CallProgress, Quiet, Running
    <3>. QED  BY <1>2, <3>3, <3>5 DEF OneContext
  <2>. QED
    BY <2>1, <2>2, <2>3 DEF OnLoad, OnUnload, UnloadEnd, Clock, vars, createVars
<1>7. BridgeTypeOK'
  BY <1>1, <1>2, <1>5, <1>6 DEF BridgeTypeOK, STypeOK
<1>. QED  BY <1>3, <1>4, <1>6, <1>7 DEF BridgeInv

\* A native call changes only its own lookup, of which nobody is told before it is
\* accepted.
LEMMA NativeStep ==
  ASSUME BridgeInv, NEW q \in Queries,
         (\E c \in Ctxs : LookupBegin(q, c)) \/ Lookup(q) \/ LookupEnd(q)
  PROVE  BridgeInv'
<1>1. BridgeTypeOK /\ OneContext /\ CallProgress /\ CallbackProgress
      /\ CallbackContextLife /\ FutureTellsOutcome /\ StringsReleased
  BY DEF BridgeInv
<1>2. /\ UNCHANGED <<now, told, outcome, closing>>
      /\ UNCHANGED <<library, java, pinned, cpc, mydata, attached>>
  BY DEF LookupBegin, Lookup, LookupEnd, Refuse, Accept, svars, createVars,
         callbackVars
<1>3. StringsReleased'
  BY <1>1, <1>2 DEF StringsReleased
<1>4. \A c \in Ctxs : cpc[c] # "idle" => mydata[c] \in Queries /\ status[mydata[c]] = "accepted"
  BY <1>1 DEF BridgeTypeOK, CallbackProgress, CallProgress
<1>5. ASSUME NEW c \in Ctxs, LookupBegin(q, c)
      PROVE  BridgeInv'
  <2>1. /\ UNCHANGED <<status, owner, deadline>>
        /\ native[q] = "idle" /\ status[q] = "idle" /\ told[q] = 0
        /\ native' = [native EXCEPT ![q] = "calling"]
        /\ arg' = [arg EXCEPT ![q] = c]
        /\ addr' = addr \cup {q} /\ globals' = globals \cup {q}
        /\ future' = [future EXCEPT ![q] = "pending"]
        /\ cbctx' = [cbctx EXCEPT ![q] = "live"]
    BY <1>1, <1>5 DEF LookupBegin, svars, CallProgress, BridgeTypeOK, STypeOK
  <2>2. BridgeTypeOK'
    BY <1>1, <1>2, <2>1 DEF BridgeTypeOK, STypeOK
  <2>3. CallProgress' /\ OneContext'
    BY <1>1, <1>2, <2>1 DEF BridgeTypeOK, CallProgress, OneContext, Alive, Running
  <2>4. CallbackProgress'
    BY <1>1, <1>2, <1>4, <2>1 DEF BridgeTypeOK, CallbackProgress
  <2>5. CallbackContextLife' /\ FutureTellsOutcome'
    BY <1>1, <1>2, <2>1 DEF BridgeTypeOK, CallbackContextLife, FutureTellsOutcome, Final
  <2>. QED  BY <1>3, <2>2, <2>3, <2>4, <2>5 DEF BridgeInv
<1>6. CASE Lookup(q)
  <2>1. /\ UNCHANGED <<native, arg, addr, globals, future, cbctx>>
        /\ native[q] = "calling" /\ status[q] = "idle" /\ arg[q] \in Ctxs
        /\ \/ status' = [status EXCEPT ![q] = "refused"] /\ UNCHANGED <<owner, deadline>>
           \/ /\ java[arg[q]] = "open"
              /\ status' = [status EXCEPT ![q] = "accepted"]
              /\ owner' = [owner EXCEPT ![q] = arg[q]]
              /\ deadline' = [deadline EXCEPT ![q] = now + Timeout[arg[q]]]
    BY <1>1, <1>6 DEF Lookup, Refuse, Accept, lookupVars, CallProgress
  <2>2. now + Timeout[arg[q]] \in Int
    <3>1. now \in Int /\ Timeout[arg[q]] \in Int
      BY <1>1, <2>1, BridgeAssumption DEF BridgeTypeOK, STypeOK
    <3>. QED  BY <3>1
  <2>3. BridgeTypeOK'
    BY <1>1, <1>2, <2>1, <2>2 DEF BridgeTypeOK, STypeOK
  <2>4. CallProgress' /\ OneContext'
    BY <1>1, <1>2, <2>1 DEF BridgeTypeOK, STypeOK, CallProgress, OneContext, Alive, Running
  <2>5. CallbackProgress'
    BY <1>1, <1>2, <1>4, <2>1 DEF BridgeTypeOK, STypeOK, CallbackProgress
  <2>6. CallbackContextLife' /\ FutureTellsOutcome'
    BY <1>1, <1>2, <2>1 DEF CallbackContextLife, FutureTellsOutcome
  <2>. QED  BY <1>3, <2>3, <2>4, <2>5, <2>6 DEF BridgeInv
<1>7. CASE LookupEnd(q)
  <2>1. /\ UNCHANGED <<status, owner, deadline, arg, globals, future, cbctx>>
        /\ native[q] = "calling" /\ status[q] # "idle"
        /\ native' = [native EXCEPT ![q] = IF status[q] = "refused" THEN "threw" ELSE "returned"]
        /\ addr' = addr \ {q}
    BY <1>7 DEF LookupEnd, svars
  <2>2. BridgeTypeOK'
    BY <1>1, <1>2, <2>1 DEF BridgeTypeOK, STypeOK
  <2>3. CallProgress' /\ OneContext'
    BY <1>1, <1>2, <2>1 DEF BridgeTypeOK, CallProgress, OneContext, Alive, Running
  <2>4. CallbackProgress'
    BY <1>1, <1>2, <2>1 DEF CallbackProgress
  <2>5. CallbackContextLife' /\ FutureTellsOutcome'
    BY <1>1, <1>2, <2>1 DEF BridgeTypeOK, CallbackContextLife, FutureTellsOutcome
  <2>. QED  BY <1>3, <2>2, <2>3, <2>4, <2>5 DEF BridgeInv
<1>. QED  BY <1>5, <1>6, <1>7

\* The thread that times out a lookup, whichever the shared table holds, is that of
\* the context the lookup was made on: no other context has one.
LEMMA OwnThread ==
  ASSUME BridgeInv, NEW c \in Ctxs, NEW q \in Queries, CallbackBegin(c, q)
  PROVE  owner[q] = c
<1>1. Running(c) /\ status[q] = "accepted" /\ told[q] = 0
  BY DEF CallbackBegin, Answer, TimeOut, Tell
<1>2. owner[q] \in Ctxs /\ Running(owner[q])
  BY <1>1 DEF BridgeInv, CallProgress, OneContext
<1>. QED  BY <1>1, <1>2 DEF BridgeInv, OneContext, Alive

\* A callback changes only the lookup it was called for, which no other thread
\* works on, because it belongs to this context and is told of once.
LEMMA CallbackStepInv ==
  ASSUME BridgeInv, NEW c \in Ctxs, CallbackStep(c)
  PROVE  BridgeInv'
<1>1. BridgeTypeOK /\ OneContext /\ CallProgress /\ CallbackProgress
      /\ CallbackContextLife /\ FutureTellsOutcome /\ StringsReleased
  BY DEF BridgeInv
<1>2. /\ UNCHANGED <<now, status, owner, deadline, closing>>
      /\ UNCHANGED <<library, java, pinned, native, arg, addr, globals>>
  BY DEF CallbackStep, CallbackBegin, Attach, Complete, Detach, Cleanup, Answer, TimeOut,
         Tell, svars, createVars, lookupVars
<1>3. StringsReleased' /\ OneContext'
  <2>1. \A q \in Queries : told[q] = 1 => told'[q] = 1
    BY <1>1 DEF CallbackStep, CallbackBegin, Attach, Complete, Detach, Cleanup, Answer,
                TimeOut, Tell, svars, BridgeTypeOK, STypeOK
  <2>2. told \in [Queries -> {0, 1}]
    BY <1>1 DEF BridgeTypeOK, STypeOK
  <2>. QED  BY <1>1, <1>2, <2>1, <2>2 DEF StringsReleased, OneContext, Alive, Running
<1>4. \A d \in Ctxs : cpc[d] # "idle" =>
        mydata[d] \in Queries /\ told[mydata[d]] = 1 /\ owner[mydata[d]] = d
        /\ status[mydata[d]] = "accepted"
  BY <1>1 DEF BridgeTypeOK, CallbackProgress, CallProgress
<1>5. ASSUME NEW q \in Queries, CallbackBegin(c, q)
      PROVE  BridgeInv'
  <2>1. /\ UNCHANGED <<attached, future, cbctx>>
        /\ cpc[c] = "idle" /\ cpc' = [cpc EXCEPT ![c] = "attach"]
        /\ mydata' = [mydata EXCEPT ![c] = q]
        /\ owner[q] = c /\ status[q] = "accepted" /\ told[q] = 0
        /\ told' = [told EXCEPT ![q] = 1]
        /\ \E r \in {"answer", "timeout"} : outcome' = [outcome EXCEPT ![q] = r]
    BY <1>5, OwnThread DEF CallbackBegin, Step, Answer, TimeOut, Tell
  <2>2. future[q] = "pending"
    BY <1>1, <2>1 DEF BridgeTypeOK, CallProgress, FutureTellsOutcome
  <2>3. BridgeTypeOK'
    BY <1>1, <1>2, <2>1 DEF BridgeTypeOK, STypeOK
  <2>4. CallProgress'
    BY <1>1, <1>2, <2>1 DEF BridgeTypeOK, STypeOK, CallProgress
  <2>5. CallbackProgress'
    BY <1>1, <1>2, <1>4, <2>1, <2>2, BridgeAssumption
    DEF BridgeTypeOK, STypeOK, CallbackProgress
  <2>6. CallbackContextLife'
    BY <1>1, <1>2, <1>4, <2>1, BridgeAssumption
    DEF BridgeTypeOK, STypeOK, CallProgress, CallbackProgress, CallbackContextLife
  <2>7. FutureTellsOutcome'
    BY <1>1, <2>1, <2>2 DEF BridgeTypeOK, STypeOK, FutureTellsOutcome, Final
  <2>. QED  BY <1>3, <2>3, <2>4, <2>5, <2>6, <2>7 DEF BridgeInv
\* Steps within the callback, up to the release of its context
<1>6. ASSUME UNCHANGED <<told, outcome, mydata, cbctx>>,
             cpc[c] # "idle",
             NEW to \in {"complete", "detach", "cleanup"}, cpc' = [cpc EXCEPT ![c] = to],
             cpc[c] = "complete" \/ UNCHANGED future,
             to = "complete" => cpc[c] = "attach",
             \/ UNCHANGED future
             \/ \E r \in Results(mydata[c]) : Settle(mydata[c], r),
             attached' \in SUBSET Ctxs,
             \A d \in Ctxs \ {c} : d \in attached' <=> d \in attached,
             c \in attached' => to \in {"complete", "detach"}
      PROVE  BridgeInv'
  <2>1. PICK q \in Queries : q = mydata[c]
    BY <1>4, <1>6
  <2>2. told[q] = 1 /\ owner[q] = c /\ status[q] = "accepted"
    BY <1>4, <1>6, <2>1
  <2>3. \A d \in Ctxs \ {c} : cpc[d] # "idle" => mydata[d] # q
    BY <1>4, <2>2
  <2>4. /\ \A p \in Queries \ {q} : future'[p] = future[p]
        /\ future' \in [Queries -> {"none", "pending"} \cup Final]
        /\ future'[q] = "none" <=> future[q] = "none"
        /\ future'[q] \in Final => future[q] \in Final
             \/ (future'[q] \in Final /\ (outcome[q] = "timeout" => future'[q] = "exception"))
    BY <1>1, <1>6, <2>1 DEF BridgeTypeOK, Settle, Results, Final
  <2>5. BridgeTypeOK'
    BY <1>1, <1>2, <1>6, <2>4 DEF BridgeTypeOK, STypeOK
  <2>6. CallProgress'
    BY <1>1, <1>2, <1>6, <2>4 DEF CallProgress
  <2>7. CallbackProgress'
    <3>1. cpc[c] = "attach" => future[q] = "pending"
      BY <1>1, <2>1 DEF CallbackProgress
    <3>2. cpc \in [Ctxs -> {"idle", "attach", "complete", "detach", "cleanup"}]
          /\ mydata[c] \in Queries /\ mydata[c] # Nobody
      BY <1>1, <1>4, <1>6, BridgeAssumption DEF BridgeTypeOK
    <3>3. cpc'[c] = to /\ \A d \in Ctxs \ {c} : cpc'[d] = cpc[d]
      BY <1>6, <3>2
    <3>4. \A d \in Ctxs \ {c} : d \in attached' => d \in attached
      BY <1>6
    <3>5. to = "complete" => future'[q] = "pending"
      BY <1>6, <3>1
    <3>6. SUFFICES ASSUME NEW d \in Ctxs
                   PROVE  /\ cpc'[d] = "idle" <=> mydata[d] = Nobody
                          /\ d \in attached' => cpc'[d] \in {"complete", "detach"}
                          /\ cpc'[d] # "idle" => told[mydata[d]] = 1 /\ owner[mydata[d]] = d
                          /\ cpc'[d] \in {"attach", "complete"} => future'[mydata[d]] = "pending"
      BY <1>2, <1>6 DEF CallbackProgress
    <3>7. CASE d = c
      BY <1>6, <2>1, <2>2, <3>2, <3>3, <3>5, <3>7
    <3>8. CASE d # c
      <4>1. /\ cpc[d] = "idle" <=> mydata[d] = Nobody
            /\ d \in attached => cpc[d] \in {"complete", "detach"}
            /\ cpc[d] # "idle" => told[mydata[d]] = 1 /\ owner[mydata[d]] = d
            /\ cpc[d] \in {"attach", "complete"} => future[mydata[d]] = "pending"
        BY <1>1 DEF CallbackProgress
      <4>2. cpc[d] # "idle" => future'[mydata[d]] = future[mydata[d]]
        BY <1>4, <2>3, <2>4, <3>8
      <4>. QED  BY <3>3, <3>4, <3>8, <4>1, <4>2
    <3>. QED  BY <3>7, <3>8
  <2>8. CallbackContextLife'
    BY <1>1, <1>2, <1>6 DEF CallbackContextLife
  <2>9. FutureTellsOutcome'
    BY <1>1, <1>6, <2>1, <2>2, <2>4 DEF BridgeTypeOK, FutureTellsOutcome, Settle, Results, Final
  <2>. QED  BY <1>3, <2>5, <2>6, <2>7, <2>8, <2>9 DEF BridgeInv
<1>. attached \in SUBSET Ctxs /\ (c \in attached => cpc[c] \in {"complete", "detach"})
  BY <1>1 DEF BridgeTypeOK, CallbackProgress
<1>7. CASE Attach(c)
  BY <1>6, <1>7 DEF Attach, Step, svars
<1>8. CASE Complete(c)
  BY <1>6, <1>8 DEF Complete, Step, svars
<1>9. CASE Detach(c)
  BY <1>6, <1>9 DEF Detach, Step, svars
<1>10. CASE Cleanup(c)
  <2>1. PICK q \in Queries : q = mydata[c]
    BY <1>4, <1>10 DEF Cleanup, Step
  <2>2. told[q] = 1 /\ owner[q] = c
    BY <1>4, <1>10, <2>1 DEF Cleanup, Step
  <2>3. /\ UNCHANGED <<told, outcome, future, attached>>
        /\ cpc[c] = "cleanup" /\ cpc' = [cpc EXCEPT ![c] = "idle"]
        /\ cbctx' = [cbctx EXCEPT ![q] = "freed"]
        /\ mydata' = [mydata EXCEPT ![c] = Nobody]
    BY <1>10, <2>1 DEF Cleanup, Step, svars
  <2>4. BridgeTypeOK'
    BY <1>1, <1>2, <2>3 DEF BridgeTypeOK, STypeOK
  <2>5. CallProgress' /\ FutureTellsOutcome'
    BY <1>1, <1>2, <2>3 DEF CallProgress, FutureTellsOutcome
  <2>6. CallbackProgress'
    BY <1>1, <1>2, <2>3 DEF BridgeTypeOK, CallbackProgress
  <2>7. CallbackContextLife'
    BY <1>1, <1>2, <1>4, <2>1, <2>2, <2>3, BridgeAssumption
    DEF BridgeTypeOK, CallbackProgress, CallbackContextLife
  <2>. QED  BY <1>3, <2>4, <2>5, <2>6, <2>7 DEF BridgeInv
<1>. QED  BY <1>5, <1>7, <1>8, <1>9, <1>10 DEF CallbackStep

\* BridgeInv holds of every reachable state.
THEOREM Bridge == Spec => []BridgeInv
<1>1. BridgeInv /\ [Next]_vars => BridgeInv'
  BY LibraryStep, NativeStep, CallbackStepInv DEF Next
<1>. QED  BY <1>1, InitBridge, PTL DEF Spec

\* Used sequentially, a lookup is answered, timed out or cleaned up by the thread of
\* the context it was made on, though every thread times out what the shared table
\* holds (unbound4j.c:399-408, 427-435).
THEOREM OwnThreadCallsBack ==
  Spec => [][\A c \in Ctxs, q \in Queries : CallbackBegin(c, q) => owner[q] = c]_vars
<1>1. BridgeInv /\ [Next]_vars =>
        [\A c \in Ctxs, q \in Queries : CallbackBegin(c, q) => owner[q] = c]_vars
  BY OwnThread
<1>. QED  BY <1>1, Bridge, PTL DEF Spec

\* Every variable of the bridge keeps its type: a future holds one of the results
\* callback() makes (unbound4j_jinterface.c:60-72, 217-232).
THEOREM BridgeTypes == Spec => []BridgeTypeOK
BY Bridge, PTL DEF BridgeInv

\* A configuration string is pinned only inside its create_context, on the error
\* path too (unbound4j_jinterface.c:183-185).
THEOREM NoStringStaysPinned == Spec => []StringsReleased
BY Bridge, PTL DEF BridgeInv

\* Used sequentially: a callback context is allocated from the call to the end of
\* its one callback, on whichever thread the callback comes
\* (unbound4j_jinterface.c:236, 247).
THEOREM ContextLivesUntilCallback == Spec => []CallbackContextLife
BY Bridge, PTL DEF BridgeInv

\* Used sequentially: no future is completed twice, nor after its call threw
\* (unbound4j_jinterface.c:217-232, 256-260).
THEOREM CompletedOnce == Spec => []CompletionFindsPending
<1>1. BridgeInv => CompletionFindsPending
  BY DEF BridgeInv, BridgeTypeOK, STypeOK, CallbackProgress, CallProgress,
         CompletionFindsPending
<1>. QED  BY <1>1, Bridge, PTL

\* Used sequentially: a future that was timed out holds an exception, never a result
\* (unbound4j_jinterface.c:217-226).
THEOREM FutureIsTruthful == Spec => []FutureTellsOutcome
BY Bridge, PTL DEF BridgeInv

\* No processing thread is attached to the JVM between callbacks, whichever way
\* out a callback takes (unbound4j_jinterface.c:206-234).
THEOREM DetachesOnEveryPath == Spec => []DetachedBetweenCallbacks
<1>1. BridgeInv => DetachedBetweenCallbacks
  BY DEF BridgeInv, BridgeTypeOK, CallbackProgress, DetachedBetweenCallbacks
<1>. QED  BY <1>1, Bridge, PTL
=============================================================================
