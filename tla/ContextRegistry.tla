--------------------------- MODULE ContextRegistry ---------------------------
(***************************************************************************)
(* Contexts of src/jni/src/unbound4j.c: their construction step by step    *)
(* with every failure path but that of a lock that cannot be acquired, the *)
(* table g_contexts, ub4j_delete_context, ub4j_free_context, ub4j_destroy. *)
(*                                                                         *)
(* g_ctx_lock is held across steps only by ub4j_destroy; the other         *)
(* critical sections under it are single steps that wait for it.           *)
(*                                                                         *)
(* X_Slip names a version of X with a plausible mistake in it, for the     *)
(* properties to catch; nothing else uses it.                              *)
(***************************************************************************)
EXTENDS Libunbound

VARIABLES
  phase,       \* phase[c]: how far the life of context c has come
  heap,        \* heap[c]: which allocations of c are live
  g_contexts,  \* the contexts a lookup can find by id
  stopping,    \* stopping[c]: ctx->stopping
  cfgLock,     \* the context whose creation holds g_cfg_lock
  destroy,     \* progress of ub4j_destroy; it holds g_ctx_lock when "sweeping"
  victim,      \* the context ub4j_destroy is freeing
  tpc          \* tpc[c]: where context_processing_thread(c) is

ctxVars == <<phase, heap, g_contexts, stopping, cfgLock, destroy, victim>>

Phase == {"new", "allocated", "loading", "configured", "spawned", "open",
          "removed", "joining", "freed", "failed"}

ThreadPc == {"off", "loop", "process", "untrack", "peek", "wantlock",
             "expire", "clean", "exit"}

CtxTypeOK ==
  /\ phase \in [Ctxs -> Phase]
  /\ heap \in [Ctxs -> SUBSET {"ctx", "ub_ctx"}]
  /\ g_contexts \in SUBSET Ctxs
  /\ stopping \in [Ctxs -> BOOLEAN]
  /\ cfgLock \in Ctxs \cup {NoCtx}
  /\ destroy \in {"idle", "sweeping", "done"}
  /\ victim \in Ctxs \cup {NoCtx}
  /\ tpc \in [Ctxs -> ThreadPc]

CtxInit ==
  /\ phase = [c \in Ctxs |-> "new"]
  /\ heap = [c \in Ctxs |-> {}]
  /\ g_contexts = {}
  /\ stopping = [c \in Ctxs |-> FALSE]
  /\ cfgLock = NoCtx
  /\ destroy = "idle"
  /\ victim = NoCtx
  /\ tpc = [c \in Ctxs |-> "off"]

CtxLockFree == destroy # "sweeping"

\* The context exists, or is being made or unmade.
Alive(c) == phase[c] \notin {"new", "failed", "freed"}

-----------------------------------------------------------------------------
(* ub4j_create_context *)

Enter(c, from, to) ==
  /\ phase[c] = from
  /\ phase' = [phase EXCEPT ![c] = to]

\* An error return: what is left on the heap is never freed.
FailCreate(c, from, left) ==
  /\ Enter(c, from, "failed")
  /\ heap' = [heap EXCEPT ![c] = left]

\* malloc and ub_ctx_create
CreateAllocate(c) ==
  /\ \/ Enter(c, "new", "allocated") /\ heap' = [heap EXCEPT ![c] = {"ctx", "ub_ctx"}]
     \/ FailCreate(c, "new", {})
  /\ UNCHANGED <<g_contexts, stopping, cfgLock, destroy, victim, tpc, ubVars>>

\* use_system_resolver: /etc/resolv.conf, then /etc/hosts
CreateFromSystem(c) ==
  /\ \/ Enter(c, "allocated", "configured") /\ UNCHANGED heap
     \/ FailCreate(c, "allocated", {"ctx"})            \* resolv.conf
     \/ FailCreate(c, "allocated", {"ctx", "ub_ctx"})  \* hosts
  /\ UNCHANGED <<g_contexts, stopping, cfgLock, destroy, victim, tpc, ubVars>>

\* neither the system resolver nor a configuration file
CreateFromDefaults(c) ==
  /\ Enter(c, "allocated", "configured")
  /\ UNCHANGED <<heap, g_contexts, stopping, cfgLock, destroy, victim, tpc, ubVars>>

LockConfig_Unchecked(c) == cfgLock' = c

LockConfig(c) == cfgLock = NoCtx /\ cfgLock' = c

CreateLoadBegin(c) ==
  /\ Enter(c, "allocated", "loading")
  /\ LockConfig(c)
  /\ UNCHANGED <<heap, g_contexts, stopping, destroy, victim, tpc, ubVars>>

CreateLoadEnd(c) ==
  /\ \/ Enter(c, "loading", "configured") /\ UNCHANGED heap
     \/ FailCreate(c, "loading", {"ctx"})
  /\ cfgLock' = NoCtx
  /\ UNCHANGED <<g_contexts, stopping, destroy, victim, tpc, ubVars>>

\* ub_ctx_async, ub_fd and pthread_create: the thread runs before the context
\* is registered.
CreateSpawn(c) ==
  /\ \/ /\ Enter(c, "configured", "spawned")
        /\ tpc' = [tpc EXCEPT ![c] = "loop"]
        /\ UNCHANGED heap
     \/ FailCreate(c, "configured", {"ctx"}) /\ UNCHANGED tpc
  /\ UNCHANGED <<g_contexts, stopping, cfgLock, destroy, victim, ubVars>>

\* The id is fresh, so a context is known here by its own name.  Taking the
\* lock fails only for a thread that already holds it, and no caller does.
CreateRegister(c) ==
  /\ CtxLockFree
  /\ Enter(c, "spawned", "open")
  /\ g_contexts' = g_contexts \cup {c}
  /\ UNCHANGED <<heap, stopping, cfgLock, destroy, victim, tpc, ubVars>>

-----------------------------------------------------------------------------
(* ub4j_delete_context, ub4j_destroy, ub4j_free_context *)

\* A call whose id is not in the table changes nothing.
DeleteContext(c) ==
  /\ CtxLockFree
  /\ c \in g_contexts
  /\ g_contexts' = g_contexts \ {c}
  /\ Enter(c, "open", "removed")
  /\ UNCHANGED <<heap, stopping, cfgLock, destroy, victim, tpc, ubVars>>

DestroyBegin ==
  /\ destroy = "idle"
  /\ destroy' = "sweeping"
  /\ UNCHANGED <<phase, heap, g_contexts, stopping, cfgLock, victim, tpc, ubVars>>

DestroyNext(c) ==
  /\ destroy = "sweeping"
  /\ victim = NoCtx
  /\ c \in g_contexts
  /\ g_contexts' = g_contexts \ {c}
  /\ Enter(c, "open", "removed")
  /\ victim' = c
  /\ UNCHANGED <<heap, stopping, cfgLock, destroy, tpc, ubVars>>

DestroyEnd ==
  /\ destroy = "sweeping"
  /\ victim = NoCtx
  /\ g_contexts = {}
  /\ destroy' = "done"
  /\ UNCHANGED <<phase, heap, g_contexts, stopping, cfgLock, victim, tpc, ubVars>>

StopThread_FlagForgotten(c) ==
  /\ Enter(c, "removed", "joining")
  /\ UNCHANGED <<heap, g_contexts, stopping, cfgLock, destroy, victim, tpc, ubVars>>

StopThread(c) ==
  /\ Enter(c, "removed", "joining")
  /\ stopping' = [stopping EXCEPT ![c] = TRUE]
  /\ UNCHANGED <<heap, g_contexts, cfgLock, destroy, victim, tpc, ubVars>>

Joined_NoWait(c) == tpc[c] # "off"

Joined(c) == tpc[c] = "exit"

Release(c) ==
  /\ Enter(c, "joining", "freed")
  /\ heap' = [heap EXCEPT ![c] = {}]
  /\ victim' = IF victim = c THEN NoCtx ELSE victim
  /\ ub_ctx_delete(c)
  /\ UNCHANGED <<g_contexts, stopping, cfgLock, destroy, tpc>>

\* pthread_join has returned: ub_ctx_delete and free
FreeContext(c) == Joined(c) /\ Release(c)
=============================================================================
