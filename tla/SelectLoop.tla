----------------------------- MODULE SelectLoop -----------------------------
(***************************************************************************)
(* How context_processing_thread (src/jni/src/unbound4j.c:351-369) waits.  *)
(* Its fd_set is filled once, before the loop.  select() empties it when   *)
(* the second is over and nothing can be read, and nobody fills it again:  *)
(* from then on no answer wakes the thread, and that answers are read all  *)
(* the same rests on calling ub_process after a time-out too.              *)
(*                                                                         *)
(* Time passes only while the thread is in select(); the rest of a pass    *)
(* and the delay of the scheduler are left out.                            *)
(***************************************************************************)
EXTENDS Integers

CONSTANTS
  Second,     \* the ticks of the clock in a second
  MaxAnswers, \* bound: answers that wait in the pipe
  MaxErrors   \* bound: calls of select() or ub_process that fail

ASSUME LoopAssumption ==
  /\ Second \in Nat \ {0}
  /\ MaxAnswers \in Nat
  /\ MaxErrors \in Nat

VARIABLES
  pc,        \* "top" of the loop, in "select", "back" from it, "left" the loop
  rfds,      \* is the descriptor of the Unbound context in the set?
  tv,        \* the time left to wait, which select() updates
  ret,       \* what select() returned
  answers,   \* answers of libunbound in the pipe
  stopping,  \* ctx->stopping
  errors,    \* history: the calls that have failed
  waited,    \* history: ticks the oldest answer has been in the pipe
  stopWait,  \* history: ticks since the thread was told to stop
  slept      \* history: ticks in this call of select()

vars == <<pc, rfds, tv, ret, answers, stopping, errors, waited, stopWait, slept>>

\* bound: where waited and stopWait stop counting
Cap == (MaxErrors + 2) * Second

LoopTypeOK ==
  /\ pc \in {"top", "select", "back", "left"}
  /\ rfds \in BOOLEAN /\ stopping \in BOOLEAN
  /\ ret \in -1..1
  /\ tv \in 0..Second /\ slept \in 0..Second
  /\ answers \in 0..MaxAnswers /\ errors \in 0..MaxErrors
  /\ waited \in 0..Cap /\ stopWait \in 0..Cap

Init ==
  /\ pc = "top"
  /\ rfds = TRUE
  /\ tv = 0 /\ ret = 0
  /\ answers = 0 /\ stopping = FALSE
  /\ errors = 0 /\ waited = 0 /\ stopWait = 0 /\ slept = 0

-----------------------------------------------------------------------------
(* The thread *)

Enter_TimeKept ==
  /\ pc = "top" /\ ~stopping
  /\ pc' = "select"
  /\ slept' = 0
  /\ UNCHANGED <<rfds, tv, ret, answers, stopping, errors, waited, stopWait>>

Enter ==
  /\ pc = "top" /\ ~stopping
  /\ pc' = "select"
  /\ tv' = Second
  /\ slept' = 0
  /\ UNCHANGED <<rfds, ret, answers, stopping, errors, waited, stopWait>>

Readable == rfds /\ answers > 0

TimeUp_Unwatched == tv = 0 /\ ~rfds

TimeUp == tv = 0

Return(r) ==
  /\ pc = "select"
  /\ pc' = "back"
  /\ ret' = r
  /\ UNCHANGED <<tv, answers, stopping, waited, stopWait, slept>>

SelectRead == Readable /\ Return(1) /\ UNCHANGED <<rfds, errors>>

SelectTimeOut ==
  /\ TimeUp /\ ~Readable
  /\ Return(0)
  /\ rfds' = FALSE
  /\ UNCHANGED errors

Fails == errors < MaxErrors /\ errors' = errors + 1

\* Interrupted: the set keeps what it has.
SelectError == Fails /\ Return(-1) /\ UNCHANGED rfds

MayRead_Only == ret > 0

MayRead == ret >= 0

Process ==
  /\ pc = "back" /\ MayRead
  /\ pc' = "top"
  /\ \/ answers' = 0 /\ waited' = 0 /\ UNCHANGED errors
     \/ Fails /\ UNCHANGED <<answers, waited>>
  /\ UNCHANGED <<rfds, tv, ret, stopping, stopWait, slept>>

Skip ==
  /\ pc = "back" /\ ~MayRead
  /\ pc' = "top"
  /\ UNCHANGED <<rfds, tv, ret, answers, stopping, errors, waited, stopWait, slept>>

Leave ==
  /\ pc = "top" /\ stopping
  /\ pc' = "left"
  /\ UNCHANGED <<rfds, tv, ret, answers, stopping, errors, waited, stopWait, slept>>

Thread == Enter \/ SelectRead \/ SelectTimeOut \/ Process \/ Skip \/ Leave

-----------------------------------------------------------------------------
(* Around it *)

Answer ==
  /\ answers < MaxAnswers
  /\ answers' = answers + 1
  /\ UNCHANGED <<pc, rfds, tv, ret, stopping, errors, waited, stopWait, slept>>

\* ub4j_free_context
Stop ==
  /\ ~stopping
  /\ stopping' = TRUE
  /\ UNCHANGED <<pc, rfds, tv, ret, answers, errors, waited, stopWait, slept>>

OneMore(n) == IF n < Cap THEN n + 1 ELSE n

Tick ==
  /\ pc = "select" /\ ~TimeUp /\ ~Readable
  /\ tv' = tv - 1
  /\ slept' = slept + 1
  /\ waited' = IF answers > 0 THEN OneMore(waited) ELSE 0
  /\ stopWait' = IF stopping THEN OneMore(stopWait) ELSE 0
  /\ UNCHANGED <<pc, rfds, ret, answers, stopping, errors>>

Next ==
  \/ Thread \/ SelectError \/ Answer \/ Stop \/ Tick
  \/ pc = "left" /\ UNCHANGED vars

Spec == Init /\ [][Next]_vars

-----------------------------------------------------------------------------
(* Properties *)

\* An answer waits at most a second, and a second more for every call that
\* fails, although nothing wakes the thread (unbound4j.c:361-369).
AnswerWithinASecond == waited <= (errors + 1) * Second

\* ub4j_free_context, which joins the thread, waits for the loop at most a second
\* (unbound4j.c:209-211, 360).
StopWithinASecond == stopWait <= Second

\* The thread does not spin: select() shortens tv while it waits, and a pass
\* that read nothing has slept for a second (unbound4j.c:361-362).
TimeOutSleeps == pc = "back" /\ ret = 0 => slept = Second
=============================================================================
