---------------------------- MODULE ClockSetBack ----------------------------
(***************************************************************************)
(* Unbound4j under a wall clock that is set back: expiry is reckoned with  *)
(* gettimeofday() (src/jni/src/unbound4j.c:320-323, 371-373), which is not *)
(* monotonic.                                                              *)
(***************************************************************************)
EXTENDS Unbound4jProperties

CONSTANT MaxBack  \* bound: the seconds the clock is set back in all

ASSUME BackAssumption == MaxBack \in Nat

VARIABLE back  \* history: the seconds it was set back so far

cvars == <<vars, back>>

CInit == Init /\ back = 0

SetBack ==
  /\ fault = "none"
  /\ \E t \in 0..(now - 1) :
       /\ back + (now - t) <= MaxBack
       /\ now' = t
       /\ back' = back + (now - t)
  /\ UNCHANGED <<ubVars, ctxVars, tpc, qryVars, lookupVars, threadVars, fault>>

CNext == (Next /\ UNCHANGED back) \/ SetBack

CSpec == CInit /\ [][CNext]_cvars

CFairSpec == CSpec /\ Fairness

-----------------------------------------------------------------------------
(* Properties *)

\* The table is in order of submission but for what the clock was set back.  That
\* bounds how long the head, the only query the peek looks at, hides one that has
\* expired: by the set-back, and by what its context waits longer (unbound4j.c:384).
LateByTheSetBack ==
  \A q \in Tracked : MadeAt(Head(g_queries)) <= MadeAt(q) + back
=============================================================================
