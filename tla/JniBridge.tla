------------------------------ MODULE JniBridge ------------------------------
(***************************************************************************)
(* src/jni/src/unbound4j_jinterface.c and jniutils.c: the native methods   *)
(* of Interface.java, and the callback that completes a future, on top of  *)
(* what LookupService promises.                                            *)
(*                                                                         *)
(* A lookup q is named after its future; the JVM, external here, may fail  *)
(* the calls named at JvmFails.                                            *)
(*                                                                         *)
(* The library is used sequentially here: a context is created only when   *)
(* no other is alive (CreateBegin), and closed only when no lookup on it   *)
(* executes (DeleteContext).  That is SequentialUse of SequentialProofs,   *)
(* under which Unbound4j implements LookupService; contexts that overlap   *)
(* break its promises (overlapping_cancel).                                *)
(***************************************************************************)
EXTENDS LookupService

CONSTANTS
  Horizon,  \* bound: the last second in which a lookup is begun
  Nobody,   \* no lookup
  JvmFails  \* the contexts for which the JVM may fail to find a class, attach a
            \* thread or make a string or an exception

ASSUME BridgeAssumption ==
  /\ JvmFails \subseteq Ctxs
  /\ Nobody \notin Queries
  /\ NoCtx \notin Ctxs
  /\ Horizon \in Nat /\ MaxClock \in Nat
  /\ Timeout \in [Ctxs -> Int]
  /\ \A c \in Ctxs : Horizon + Timeout[c] <= MaxClock

VARIABLES
  library,    \* the native library in the JVM
  java,       \* java[c]: what Java knows of context c
  pinned,     \* contexts whose configuration string is pinned (GetStringUTFChars)
  native,     \* native[q]: where the native reverse_lookup of q is
  arg,        \* arg[q]: the context it was called with
  addr,       \* lookups whose copy of the address is allocated
  future,     \* future[q]: the CompletableFuture; only the library completes it,
              \* for callers get one derived from it (Unbound4jImpl)
  globals,    \* the futures held by a global reference
  cbctx,      \* cbctx[q]: allocation of the ub4j_java_callback_context
  cpc,        \* cpc[c]: where c's processing thread is in callback()
  mydata,     \* mydata[c]: the lookup it was called with
  attached    \* contexts whose processing thread is attached to the JVM

createVars == <<library, java, pinned>>
lookupVars == <<native, arg, addr, globals>>
callbackVars == <<cpc, mydata, attached>>
vars == <<svars, createVars, lookupVars, callbackVars, future, cbctx>>

Final == {"value", "null", "exception"}

BridgeTypeOK ==
  /\ STypeOK
  /\ library \in {"absent", "loaded", "failed", "unloading", "unloaded"}
  /\ java \in [Ctxs -> {"none", "creating", "open", "threw", "closing", "closed"}]
  /\ pinned \in SUBSET Ctxs
  /\ native \in [Queries -> {"idle", "calling", "returned", "threw"}]
  /\ arg \in [Queries -> Ctxs \cup {NoCtx}]
  /\ addr \in SUBSET Queries
  /\ future \in [Queries -> {"none", "pending"} \cup Final]
  /\ globals \in SUBSET Queries
  /\ cbctx \in [Queries -> {"none", "live", "freed"}]
  /\ cpc \in [Ctxs -> {"idle", "attach", "complete", "detach", "cleanup"}]
  /\ mydata \in [Ctxs -> Queries \cup {Nobody}]
  /\ attached \in SUBSET Ctxs

Init ==
  /\ SInit
  /\ library = "absent"
  /\ java = [c \in Ctxs |-> "none"]
  /\ pinned = {}
  /\ native = [q \in Queries |-> "idle"]
  /\ arg = [q \in Queries |-> NoCtx]
  /\ addr = {}
  /\ future = [q \in Queries |-> "none"]
  /\ globals = {}
  /\ cbctx = [q \in Queries |-> "none"]
  /\ cpc = [c \in Ctxs |-> "idle"]
  /\ mydata = [c \in Ctxs |-> Nobody]
  /\ attached = {}

-----------------------------------------------------------------------------
(* Load and unload *)

\* JNI_OnLoad: a class, a global reference to it and two methods, or JNI_ERR
OnLoad ==
  /\ library = "absent"
  /\ library' \in {"loaded"} \cup {"failed" : c \in JvmFails}
  /\ UNCHANGED <<svars, java, pinned, lookupVars, callbackVars, future, cbctx>>

\* The JVM unloads a library nobody is executing; ub4j_destroy closes what is open.
OnUnload ==
  /\ library = "loaded"
  /\ \A q \in Queries : native[q] # "calling"
  /\ \A c \in Ctxs : java[c] \notin {"creating", "closing"}
  /\ library' = "unloading"
  /\ UNCHANGED <<svars, java, pinned, lookupVars, callbackVars, future, cbctx>>

DestroyOne(c) ==
  /\ library = "unloading"
  /\ java[c] = "open"
  /\ BeginClose(c)
  /\ java' = [java EXCEPT ![c] = "closing"]
  /\ UNCHANGED <<library, pinned, lookupVars, callbackVars, future, cbctx>>

UnloadEnd ==
  /\ library = "unloading"
  /\ \A c \in Ctxs : java[c] \notin {"open", "closing"}
  /\ library' = "unloaded"
  /\ UNCHANGED <<svars, java, pinned, lookupVars, callbackVars, future, cbctx>>

-----------------------------------------------------------------------------
(* create_context and delete_context *)

\* The processing thread of c runs: only while it does are there queries of c.
Running(c) == java[c] \in {"open", "closing"}

Alive(c) == java[c] = "creating" \/ Running(c)

\* Sequential use: one context after the other (~OverlappingContexts)
MayCreate == \A c \in Ctxs : ~Alive(c)

\* Reads the configuration object; a class or method that is not there throws
\* before the string is pinned.  A configuration need not have a string.
CreateBegin(c) ==
  /\ library = "loaded"
  /\ MayCreate
  /\ java[c] = "none"
  /\ \/ /\ java' = [java EXCEPT ![c] = "creating"]
        /\ pinned' \in {pinned, pinned \cup {c}}
     \/ /\ c \in JvmFails
        /\ java' = [java EXCEPT ![c] = "threw"]
        /\ UNCHANGED pinned
  /\ UNCHANGED <<svars, library, lookupVars, callbackVars, future, cbctx>>

CreateEnd_KeepsStringOnError(c) ==
  /\ java[c] = "creating"
  /\ \/ java' = [java EXCEPT ![c] = "open"] /\ pinned' = pinned \ {c}
     \/ java' = [java EXCEPT ![c] = "threw"] /\ UNCHANGED pinned
  /\ UNCHANGED <<svars, library, lookupVars, callbackVars, future, cbctx>>

\* ub4j_create_context made the context, or its error is thrown.
CreateEnd(c) ==
  /\ java[c] = "creating"
  /\ \E result \in {"open", "threw"} : java' = [java EXCEPT ![c] = result]
  /\ pinned' = pinned \ {c}
  /\ UNCHANGED <<svars, library, lookupVars, callbackVars, future, cbctx>>

\* Sequential use: no lookup on c executes (~CloseDuringLookup)
MayClose(c) == \A q \in Queries : ~(native[q] = "calling" /\ arg[q] = c)

\* The first close() of a context; another one only throws.
DeleteContext(c) ==
  /\ library = "loaded"
  /\ java[c] = "open"
  /\ MayClose(c)
  /\ BeginClose(c)
  /\ java' = [java EXCEPT ![c] = "closing"]
  /\ UNCHANGED <<library, pinned, lookupVars, callbackVars, future, cbctx>>

\* What the library promises of a context whose thread was joined
\* (CloseKillsOutstanding and AcceptedIsCalledBack of Unbound4j)
Quiet(c) ==
  /\ cpc[c] = "idle"
  /\ \A q \in Queries : status[q] = "accepted" /\ owner[q] = c => told[q] = 1

\* The join is over: ub4j_delete_context returns, or ub4j_destroy goes on.
CloseEnd(c) ==
  /\ java[c] = "closing"
  /\ Quiet(c)
  /\ java' = [java EXCEPT ![c] = "closed"]
  /\ UNCHANGED <<svars, library, pinned, lookupVars, callbackVars, future, cbctx>>

-----------------------------------------------------------------------------
(* reverse_lookup *)

\* The future, its global reference, the callback context, the copied address
LookupBegin(q, c) ==
  /\ library = "loaded"
  /\ now <= Horizon
  /\ native[q] = "idle"
  /\ java[c] \in {"open", "closing", "closed"}
  /\ native' = [native EXCEPT ![q] = "calling"]
  /\ arg' = [arg EXCEPT ![q] = c]
  /\ addr' = addr \cup {q}
  /\ future' = [future EXCEPT ![q] = "pending"]
  /\ globals' = globals \cup {q}
  /\ cbctx' = [cbctx EXCEPT ![q] = "live"]
  /\ UNCHANGED <<svars, createVars, callbackVars>>

\* ub4j_reverse_lookup; an id that is gone is refused.
Lookup(q) ==
  /\ native[q] = "calling"
  /\ \/ Refuse(q)
     \/ java[arg[q]] = "open" /\ Accept(q, arg[q], now)
  /\ UNCHANGED <<createVars, lookupVars, callbackVars, future, cbctx>>

LookupEnd_FreesContext(q) ==
  /\ native[q] = "calling"
  /\ status[q] # "idle"
  /\ native' = [native EXCEPT ![q] = IF status[q] = "refused" THEN "threw" ELSE "returned"]
  /\ addr' = addr \ {q}
  /\ cbctx' = [cbctx EXCEPT ![q] = "freed"]
  /\ UNCHANGED <<svars, createVars, arg, globals, callbackVars, future>>

\* Throws or returns; neither the callback context of a refused lookup nor any
\* global reference is released.
LookupEnd(q) ==
  /\ native[q] = "calling"
  /\ status[q] # "idle"
  /\ native' = [native EXCEPT ![q] = IF status[q] = "refused" THEN "threw" ELSE "returned"]
  /\ addr' = addr \ {q}
  /\ UNCHANGED <<svars, createVars, arg, globals, callbackVars, future, cbctx>>

-----------------------------------------------------------------------------
(* callback, on the processing thread of a context *)

Step(c, from, to) ==
  /\ cpc[c] = from
  /\ cpc' = [cpc EXCEPT ![c] = to]

\* A running thread is called back by libunbound for a query of its own context,
\* but times out whatever the shared table holds, whosever query it is.  That it is
\* not called for one query twice is what LookupService promises.
CallbackBegin(c, q) ==
  /\ Running(c)
  /\ Step(c, "idle", "attach")
  /\ status[q] = "accepted"
  /\ (owner[q] = c /\ Answer(q)) \/ TimeOut(q)
  /\ mydata' = [mydata EXCEPT ![c] = q]
  /\ UNCHANGED <<createVars, lookupVars, attached, future, cbctx>>

Attach(c) ==
  /\ \/ Step(c, "attach", "complete") /\ attached' = attached \cup {c}
     \/ c \in JvmFails /\ Step(c, "attach", "cleanup") /\ UNCHANGED attached
  /\ UNCHANGED <<svars, createVars, lookupVars, mydata, future, cbctx>>

\* complete() and completeExceptionally() of CompletableFuture
Settle(q, result) ==
  future' = [future EXCEPT ![q] = IF @ = "pending" THEN result ELSE @]

Results_NoError(q) == IF outcome[q] = "timeout" THEN {"null"} ELSE Final

\* What callback() makes of err_str and result: an answer may be a name, no data,
\* or an error of libunbound.
Results(q) == IF outcome[q] = "timeout" THEN {"exception"} ELSE Final

Complete_FallsThrough(c) ==
  LET q == mydata[c]
  IN  /\ cpc[c] = "complete"
      /\ \E result \in Results(q) :
           /\ Settle(q, result)
           /\ cpc' = [cpc EXCEPT ![c] = IF result = "value" THEN "complete" ELSE "detach"]
      /\ UNCHANGED <<svars, createVars, lookupVars, mydata, attached, cbctx>>

Complete_AnswersOnly(c) ==
  LET q == mydata[c]
  IN  /\ Step(c, "complete", "detach")
      /\ IF outcome[q] = "answer"
         THEN \E result \in Results(q) : Settle(q, result)
         ELSE UNCHANGED future
      /\ UNCHANGED <<svars, createVars, lookupVars, mydata, attached, cbctx>>

\* complete() with the name or null, or completeExceptionally(); the future may be
\* left as it is when the name or the exception cannot be made.
Complete(c) ==
  LET q == mydata[c]
  IN  /\ Step(c, "complete", "detach")
      /\ \E result \in Results(q) :
           \/ Settle(q, result)
           \/ c \in JvmFails /\ result # "null" /\ UNCHANGED future
      /\ UNCHANGED <<svars, createVars, lookupVars, mydata, attached, cbctx>>

Detach_Forgotten(c) ==
  /\ Step(c, "detach", "cleanup")
  /\ UNCHANGED <<svars, createVars, lookupVars, mydata, attached, future, cbctx>>

Detach(c) ==
  /\ Step(c, "detach", "cleanup")
  /\ attached' = attached \ {c}
  /\ UNCHANGED <<svars, createVars, lookupVars, mydata, future, cbctx>>

Cleanup(c) ==
  /\ Step(c, "cleanup", "idle")
  /\ cbctx' = [cbctx EXCEPT ![mydata[c]] = "freed"]
  /\ mydata' = [mydata EXCEPT ![c] = Nobody]
  /\ UNCHANGED <<svars, createVars, lookupVars, attached, future>>

-----------------------------------------------------------------------------

\* Past the horizon the clock waits for a call that is still to be accepted.
Clock ==
  /\ now < Horizon \/ \A q \in Queries : native[q] = "calling" => status[q] # "idle"
  /\ ClockTick
  /\ UNCHANGED <<createVars, lookupVars, callbackVars, future, cbctx>>

CallbackStep(c) ==
  \/ \E q \in Queries : CallbackBegin(c, q)
  \/ Attach(c)
  \/ Complete(c)
  \/ Detach(c)
  \/ Cleanup(c)

Next ==
  \/ OnLoad
  \/ OnUnload
  \/ UnloadEnd
  \/ \E c \in Ctxs : \/ CreateBegin(c)
                     \/ CreateEnd(c)
                     \/ DeleteContext(c)
                     \/ DestroyOne(c)
                     \/ CloseEnd(c)
                     \/ CallbackStep(c)
  \/ \E q \in Queries : \/ \E c \in Ctxs : LookupBegin(q, c)
                        \/ Lookup(q)
                        \/ LookupEnd(q)
  \/ Clock
  \/ library \in {"failed", "unloaded"} /\ now = MaxClock /\ UNCHANGED vars

Spec == Init /\ [][Next]_vars

\* The service keeps its promise to call back, calls of the JVM return and time
\* passes.  Nobody has to create, close or unload anything.
Fairness ==
  /\ \A c \in Ctxs : WF_vars(CallbackStep(c))
  /\ \A q \in Queries : WF_vars(Lookup(q) \/ LookupEnd(q))
  /\ WF_vars(Clock)

FairSpec == Spec /\ Fairness

-----------------------------------------------------------------------------
(* Properties *)

\* The callback context of a lookup is allocated from the call until the one
\* callback of the lookup ends, and freed then (unbound4j_jinterface.c:247, 236):
\* no callback works on a freed one, though it may run before the call returns.
\* That of a refused lookup stays allocated.
CallbackContextLife ==
  \A q \in Queries :
    cbctx[q] = "live" <=>
      native[q] # "idle" /\ (told[q] = 0 \/ \E c \in Ctxs : mydata[c] = q)

\* A result never comes to a future that already has one, nor to the future of a
\* call that throws (unbound4j_jinterface.c:217-232, 256-260).
CompletionFindsPending ==
  \A c \in Ctxs : cpc[c] = "complete" =>
    future[mydata[c]] = "pending" /\ native[mydata[c]] # "threw"

\* A completed future says what became of the lookup: time-outs are exceptions,
\* never the null that stands for an address without a name
\* (unbound4j_jinterface.c:217, 226).
FutureTellsOutcome ==
  \A q \in Queries : future[q] \in Final =>
    told[q] = 1 /\ (outcome[q] = "timeout" => future[q] = "exception")

\* A processing thread is attached to the JVM only within a callback, so that none
\* ends, or is unloaded, attached (unbound4j_jinterface.c:206, 234).
DetachedBetweenCallbacks ==
  \A c \in Ctxs : c \in attached => mydata[c] \in Queries

\* No configuration string stays pinned after create_context, whether it returned
\* or threw (unbound4j_jinterface.c:183-185).
StringsReleased == \A c \in pinned : java[c] = "creating"

\* Inductive invariant: what the progress of a native call says of the lookup ...
CallProgress ==
  \A q \in Queries :
    /\ native[q] = "idle" => status[q] = "idle"
    /\ native[q] = "calling" => arg[q] \in Ctxs
    /\ native[q] = "threw" => status[q] = "refused"
    /\ status[q] = "accepted" => owner[q] \in Ctxs
    /\ told[q] = 1 => status[q] = "accepted"
    /\ future[q] = "none" <=> native[q] = "idle"

\* ... and what the progress of a callback says of it.
CallbackProgress ==
  \A c \in Ctxs :
    /\ cpc[c] = "idle" <=> mydata[c] = Nobody
    /\ c \in attached => cpc[c] \in {"complete", "detach"}
    /\ cpc[c] # "idle" => told[mydata[c]] = 1 /\ owner[mydata[c]] = c
    /\ cpc[c] \in {"attach", "complete"} => future[mydata[c]] = "pending"

\* One context at a time is being created or has a running thread, and a lookup
\* nobody was told of has a running thread: its own.
OneContext ==
  /\ \A c, d \in Ctxs : Alive(c) /\ Alive(d) => c = d
  /\ \A q \in Queries : status[q] = "accepted" /\ told[q] = 0 => Running(owner[q])

BridgeInv ==
  /\ BridgeTypeOK
  /\ OneContext
  /\ CallProgress
  /\ CallbackProgress
  /\ CallbackContextLife
  /\ FutureTellsOutcome
  /\ StringsReleased

\* Under FairSpec: every future a caller was given completes, unless the JVM may
\* fail for its context (unbound4j_jinterface.c:203-232).
FutureCompletes ==
  \A q \in Queries :
    native[q] = "returned" /\ arg[q] \notin JvmFails ~> future[q] \in Final
=============================================================================
