---------------------------- MODULE LookupService ----------------------------
(***************************************************************************)
(* What unbound4j promises its callers, without tables, locks or threads:  *)
(* a lookup is refused at once, or accepted and then told of its result    *)
(* exactly once - with an answer, or with a time-out, which needs a cause: *)
(* its time is over or the context it was made on is being closed.         *)
(***************************************************************************)
EXTENDS Integers

CONSTANTS Ctxs, Queries, NoCtx, Timeout, MaxClock

VARIABLES
  now,       \* the clock, in seconds
  status,    \* status[q]: the answer of the call that asked for q
  owner,     \* owner[q]: the context q was accepted on
  deadline,  \* deadline[q]: from when q may be timed out
  told,      \* told[q]: how often the caller was told of a result
  outcome,   \* outcome[q]: the result
  closing    \* closing[c]: context c is being closed

svars == <<now, status, owner, deadline, told, outcome, closing>>

STypeOK ==
  /\ now \in 0..MaxClock
  /\ status \in [Queries -> {"idle", "accepted", "refused"}]
  /\ owner \in [Queries -> Ctxs \cup {NoCtx}]
  /\ deadline \in [Queries -> Int]
  /\ told \in [Queries -> {0, 1}]
  /\ outcome \in [Queries -> {"none", "answer", "timeout"}]
  /\ closing \in [Ctxs -> BOOLEAN]

SInit ==
  /\ now = 0
  /\ status = [q \in Queries |-> "idle"]
  /\ owner = [q \in Queries |-> NoCtx]
  /\ deadline = [q \in Queries |-> 0]
  /\ told = [q \in Queries |-> 0]
  /\ outcome = [q \in Queries |-> "none"]
  /\ closing = [c \in Ctxs |-> FALSE]

Refuse(q) ==
  /\ status[q] = "idle"
  /\ status' = [status EXCEPT ![q] = "refused"]
  /\ UNCHANGED <<now, owner, deadline, told, outcome, closing>>

\* The deadline counts from some moment of the call.
Accept(q, c, t) ==
  /\ status[q] = "idle"
  /\ t <= now
  /\ status' = [status EXCEPT ![q] = "accepted"]
  /\ owner' = [owner EXCEPT ![q] = c]
  /\ deadline' = [deadline EXCEPT ![q] = t + Timeout[c]]
  /\ UNCHANGED <<now, told, outcome, closing>>

Tell(q, result) ==
  /\ status[q] = "accepted"
  /\ told[q] = 0
  /\ told' = [told EXCEPT ![q] = 1]
  /\ outcome' = [outcome EXCEPT ![q] = result]
  /\ UNCHANGED <<now, status, owner, deadline, closing>>

Answer(q) == Tell(q, "answer")

TimeOut(q) ==
  /\ deadline[q] <= now \/ closing[owner[q]]
  /\ Tell(q, "timeout")

BeginClose(c) ==
  /\ ~closing[c]
  /\ closing' = [closing EXCEPT ![c] = TRUE]
  /\ UNCHANGED <<now, status, owner, deadline, told, outcome>>

ClockTick ==
  /\ now < MaxClock
  /\ now' = now + 1
  /\ UNCHANGED <<status, owner, deadline, told, outcome, closing>>

SNext ==
  \/ \E q \in Queries :
       \/ Refuse(q)
       \/ Answer(q)
       \/ TimeOut(q)
       \/ \E c \in Ctxs, t \in 0..MaxClock : Accept(q, c, t)
  \/ \E c \in Ctxs : BeginClose(c)
  \/ ClockTick

SSpec == SInit /\ [][SNext]_svars
=============================================================================
