-------------------------- MODULE SelectLoopProofs --------------------------
(***************************************************************************)
(* However long a second, however many answers and failing calls: how long *)
(* an answer and a stop may wait for the processing thread, and that the   *)
(* thread does not spin.                                                   *)
(***************************************************************************)
EXTENDS SelectLoop, TLAPS

\* What a pass has waited is what its tv lacks, and what an answer or a stop has
\* waited is at most that more than when select() was entered.
Waiting ==
  /\ pc = "select" => slept = Second - tv /\ waited <= errors * Second + slept /\ stopWait <= slept
  /\ pc = "back" /\ ret = 0 => slept = Second
  /\ pc = "back" /\ ret = -1 => waited <= errors * Second
  /\ pc = "back" => waited <= errors * Second + Second
  /\ pc \in {"top", "left"} => waited <= errors * Second
  /\ stopWait <= Second
  /\ ~stopping => stopWait = 0

LoopInv == LoopTypeOK /\ Waiting

\* Products with errors, for the arithmetic of the steps below
LEMMA OneMoreError ==
  ASSUME NEW e \in Nat, NEW s \in Nat
  PROVE  /\ e * s \in Nat
         /\ (e + 1) * s = e * s + s
OBVIOUS

LEMMA CapIsNat == Cap \in Nat /\ Second \in Nat /\ Second > 0
<1>1. /\ MaxErrors \in Nat /\ Second \in Nat /\ Second > 0
      /\ MaxErrors + 1 \in Nat
  BY LoopAssumption
<1>2. (MaxErrors + 1) * Second \in Nat
      /\ ((MaxErrors + 1) + 1) * Second = (MaxErrors + 1) * Second + Second
  BY <1>1, OneMoreError
<1>. QED  BY <1>1, <1>2 DEF Cap

\* The loop has not begun.
LEMMA InitLoop == Init => LoopInv
<1>1. Cap \in Nat /\ Second \in Nat /\ MaxErrors \in Nat /\ MaxAnswers \in Nat
  BY CapIsNat, LoopAssumption
<1>2. 0 * Second = 0
  BY <1>1
<1>. SUFFICES ASSUME Init PROVE LoopInv
  OBVIOUS
<1>3. /\ pc = "top" /\ rfds = TRUE /\ stopping = FALSE
      /\ tv = 0 /\ ret = 0 /\ answers = 0 /\ errors = 0
      /\ waited = 0 /\ stopWait = 0 /\ slept = 0
  BY DEF Init
<1>4. LoopTypeOK
  <2>1. rfds \in BOOLEAN /\ stopping \in BOOLEAN /\ pc \in {"top", "select", "back", "left"}
    BY <1>3, Zenon
  <2>2. ret \in -1..1
    BY <1>3
  <2>3. /\ tv \in 0..Second /\ slept \in 0..Second
        /\ answers \in 0..MaxAnswers /\ errors \in 0..MaxErrors
        /\ waited \in 0..Cap /\ stopWait \in 0..Cap
    BY <1>1, <1>3
  <2>. QED  BY <2>1, <2>2, <2>3 DEF LoopTypeOK
<1>5. errors * Second = 0
  BY <1>2, <1>3
<1>6. Waiting
  BY <1>1, <1>3, <1>5 DEF Waiting
<1>. QED  BY <1>4, <1>6 DEF LoopInv

\* Every step of the thread and around it keeps LoopInv.
LEMMA NextLoop == LoopInv /\ [Next]_vars => LoopInv'
<1>. SUFFICES ASSUME LoopInv, [Next]_vars PROVE LoopInv'
  OBVIOUS
<1>1. /\ LoopTypeOK /\ Waiting
      /\ Second \in Nat /\ Second > 0 /\ Cap \in Nat
      /\ errors \in Nat /\ waited \in Nat /\ stopWait \in Nat /\ tv \in Nat
      /\ MaxErrors \in Nat /\ MaxAnswers \in Nat
      /\ errors * Second \in Nat
      /\ (errors + 1) * Second = errors * Second + Second
  <2>1. LoopTypeOK /\ Waiting
    BY DEF LoopInv
  <2>2. errors \in Nat
    BY <2>1, LoopAssumption DEF LoopTypeOK
  <2>. QED  BY <2>1, <2>2, CapIsNat, LoopAssumption, OneMoreError DEF LoopTypeOK
<1>2. CASE Enter
  BY <1>1, <1>2 DEF Enter, LoopInv, LoopTypeOK, Waiting
<1>3. CASE SelectRead
  BY <1>1, <1>3 DEF SelectRead, Return, Readable, LoopInv, LoopTypeOK, Waiting
<1>4. CASE SelectTimeOut
  <2>1. /\ pc = "select" /\ tv = 0
        /\ pc' = "back" /\ ret' = 0 /\ rfds' = FALSE
        /\ UNCHANGED <<tv, answers, stopping, errors, waited, stopWait, slept>>
    BY <1>4 DEF SelectTimeOut, Return, TimeUp
  <2>2. slept = Second /\ waited <= errors * Second + Second /\ stopWait <= Second
    BY <1>1, <2>1 DEF Waiting
  <2>3. LoopTypeOK'
    <3>1. (rfds \in BOOLEAN)' /\ (stopping \in BOOLEAN)'
      BY <1>1, <2>1, Zenon DEF LoopTypeOK
    <3>2. (pc \in {"top", "select", "back", "left"})' /\ (ret \in -1..1)'
      BY <2>1
    <3>. QED  BY <1>1, <2>1, <3>1, <3>2 DEF LoopTypeOK
  <2>4. Waiting'
    BY <1>1, <2>1, <2>2 DEF Waiting
  <2>. QED  BY <2>3, <2>4 DEF LoopInv
<1>5. CASE SelectError
  BY <1>1, <1>5 DEF SelectError, Fails, Return, LoopInv, LoopTypeOK, Waiting
<1>6. CASE Process
  BY <1>1, <1>6 DEF Process, MayRead, Fails, LoopInv, LoopTypeOK, Waiting
<1>7. CASE Skip
  BY <1>1, <1>7 DEF Skip, MayRead, LoopInv, LoopTypeOK, Waiting
<1>8. CASE Leave
  BY <1>1, <1>8 DEF Leave, LoopInv, LoopTypeOK, Waiting
<1>9. CASE Answer
  BY <1>1, <1>9 DEF Answer, LoopInv, LoopTypeOK, Waiting
<1>10. CASE Stop
  BY <1>1, <1>10 DEF Stop, LoopInv, LoopTypeOK, Waiting
<1>11. CASE Tick
  <2>1. /\ pc = "select" /\ tv # 0 /\ tv' = tv - 1 /\ slept' = slept + 1
        /\ waited' <= waited + 1 /\ waited' \in 0..Cap
        /\ stopWait' \in 0..Cap /\ stopWait' <= stopWait + 1
        /\ ~stopping => stopWait' = 0
        /\ UNCHANGED <<pc, rfds, ret, answers, stopping, errors>>
    BY <1>1, <1>11 DEF Tick, TimeUp, OneMore, LoopTypeOK
  <2>2. tv \in 1..Second /\ slept = Second - tv
    BY <1>1, <2>1 DEF LoopTypeOK, Waiting
  <2>3. LoopTypeOK'
    BY <1>1, <2>1, <2>2 DEF LoopTypeOK
  <2>4. Waiting'
    BY <1>1, <2>1, <2>2 DEF LoopTypeOK, Waiting
  <2>. QED  BY <2>3, <2>4 DEF LoopInv
<1>12. CASE UNCHANGED vars
  BY <1>1, <1>12 DEF vars, LoopInv, LoopTypeOK, Waiting
<1>. QED
  BY <1>2, <1>3, <1>4, <1>5, <1>6, <1>7, <1>8, <1>9, <1>10, <1>11, <1>12 DEF Next, Thread

\* LoopInv holds of every reachable state.
THEOREM Loop == Spec => []LoopInv
BY InitLoop, NextLoop, PTL DEF Spec

\* Every variable of the loop keeps its type; tv is never negative
\* (unbound4j.c:355-362).
THEOREM LoopTypes == Spec => []LoopTypeOK
BY Loop, PTL DEF LoopInv

\* An answer is read within a second of its arrival, and a second more for every
\* failing call, although the set of descriptors stays empty (unbound4j.c:355-369).
THEOREM AnswersRead == Spec => []AnswerWithinASecond
<1>1. LoopInv => AnswerWithinASecond
  <2>. SUFFICES ASSUME LoopInv PROVE waited <= errors * Second + Second
    BY OneMoreError, CapIsNat, LoopAssumption DEF LoopInv, LoopTypeOK, AnswerWithinASecond
  <2>1. /\ LoopTypeOK /\ Waiting /\ Second \in Nat /\ errors \in Nat
        /\ errors * Second \in Nat /\ waited \in Int /\ slept \in 0..Second
        /\ pc \in {"top", "select", "back", "left"}
    BY OneMoreError, CapIsNat, LoopAssumption DEF LoopInv, LoopTypeOK
  <2>. QED  BY <2>1 DEF Waiting
<1>. QED  BY <1>1, Loop, PTL

\* A stop is noticed within a second (unbound4j.c:209-211, 360).
THEOREM StopNoticed == Spec => []StopWithinASecond
<1>1. LoopInv => StopWithinASecond
  BY DEF LoopInv, Waiting, StopWithinASecond
<1>. QED  BY <1>1, Loop, PTL

\* A pass that timed out has slept for a whole second (unbound4j.c:361-364).
THEOREM NoSpinning == Spec => []TimeOutSleeps
<1>1. LoopInv => TimeOutSleeps
  BY DEF LoopInv, Waiting, TimeOutSleeps
<1>. QED  BY <1>1, Loop, PTL
=============================================================================
