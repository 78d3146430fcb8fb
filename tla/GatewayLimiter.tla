---------------------------- MODULE GatewayLimiter -----------------------------
(***************************************************************************)
(* lib/llm/gateway-rate-limiter.ts: the gate in front of every call of the *)
(* inference gateway.                                                      *)
(*                                                                         *)
(* Callers queue in two lanes behind one timer; a grant of either lane, or *)
(* of tryTakeImmediate, moves the one anchor both lanes are spaced from,   *)
(* and a 429 pauses them.  Every handler runs to completion, so a handler  *)
(* is one action; what can go wrong is that a handler leaves the timer     *)
(* unarmed, or armed for an instant that has become the wrong one.         *)
(*                                                                         *)
(* The clock is Date.now(), taken to be monotonic; a timer fires at its    *)
(* time or late.  The queue is kept as arrival numbers.                    *)
(***************************************************************************)
EXTENDS Integers, FiniteSets

CONSTANTS
  Callers,             \* calls of acquire()
  GatewayInterval,     \* MIN_GATEWAY_INTERVAL_MS
  InteractiveInterval, \* MIN_INTERACTIVE_INTERVAL_MS
  InteractiveMaxPause, \* INTERACTIVE_MAX_PAUSE_MS
  Pauses,              \* the waits a 429 may ask for
  MaxPauses,           \* bound: calls of pauseFor
  MaxTime              \* bound: instant of the last call from outside

\* The ceiling of the device is claimed for a background lane that is no
\* faster than the interactive one.
ASSUME IntervalAssumption ==
  /\ GatewayInterval \in Nat /\ InteractiveInterval \in Nat \ {0}
  /\ GatewayInterval >= InteractiveInterval
  /\ InteractiveMaxPause \in Nat /\ Pauses \subseteq Nat
ASSUME BoundsAssumption == MaxPauses \in Nat /\ MaxTime \in Nat \ {0}

VARIABLES
  now,         \* Date.now()
  lastGrantAt, \* the most recent grant on either lane
  nextGrantAt, \* when the background lane may next be granted
  pausedUntil, \* when the pause lifts for the background lane
  pauseSetAt,  \* when it was armed
  arrival,     \* waiters: arrival number of each caller, Absent if it does not wait
  lane,        \* lane of each caller that has called
  arrivals,    \* calls of acquire so far
  dispatchTimer, \* instant the timer is armed for, NoTimer if it is not
  grants,      \* history: grants so far
  spentAt,     \* history: instant of the last of them
  pauses       \* calls of pauseFor so far

vars == <<now, lastGrantAt, nextGrantAt, pausedUntil, pauseSetAt, arrival, lane,
          arrivals, dispatchTimer, grants, spentAt, pauses>>

Lanes   == {"interactive", "background"}
Absent  == 0
NoTimer == -1

Later(a, b)  == IF a > b THEN a ELSE b
Sooner(a, b) == IF a < b THEN a ELSE b

\* The clock starts at an instant later than any spacing from 0, as Date.now()
\* is: the anchors start at 0.
Start == GatewayInterval

Init ==
  /\ now = Start
  /\ lastGrantAt = 0 /\ nextGrantAt = 0 /\ pausedUntil = 0 /\ pauseSetAt = 0
  /\ arrival = [c \in Callers |-> Absent]
  /\ lane = [c \in Callers |-> "background"]
  /\ arrivals = 0 /\ dispatchTimer = NoTimer
  /\ grants = 0 /\ spentAt = 0 /\ pauses = 0
--------------------------------------------------------------------------------
\* Mutant: the interactive lane honours a pause in full.
PauseFloorFull == pausedUntil

PauseFloor == IF pausedUntil = 0 THEN 0
              ELSE Sooner(pausedUntil, pauseSetAt + InteractiveMaxPause)

InteractiveEligibleAt == Later(lastGrantAt + InteractiveInterval, PauseFloor)
BackgroundEligibleAt  == Later(nextGrantAt, pausedUntil)

EligibleAt(l) == IF l = "interactive" THEN InteractiveEligibleAt
                 ELSE BackgroundEligibleAt

Waiting == {c \in Callers : arrival[c] # Absent}

\* nextWaiter: interactive first, in order of arrival within a lane.
Preferred(c) == \A d \in Waiting :
  \/ lane[c] = lane[d] /\ arrival[c] <= arrival[d]
  \/ lane[c] = "interactive" /\ lane[d] = "background"
IsNextWaiter(c) == c \in Waiting /\ Preferred(c)

\* Mutant: an armed timer is left as it is.
ScheduleOnce ==
  \/ dispatchTimer # NoTimer /\ UNCHANGED dispatchTimer
  \/ /\ dispatchTimer = NoTimer
     /\ \E c \in Callers :
          /\ IsNextWaiter(c)'
          /\ dispatchTimer' = Later(now, EligibleAt(lane[c])')

\* schedule(), on the state the handler leaves.
Schedule ==
  IF Waiting' = {} THEN dispatchTimer' = NoTimer
  ELSE \E c \in Callers :
         /\ IsNextWaiter(c)'
         /\ dispatchTimer' = Later(now, EligibleAt(lane[c])')

\* Mutant: a grant moves the clock of the background lane only.
MarkGrantedBackground ==
  /\ nextGrantAt' = now + GatewayInterval
  /\ UNCHANGED lastGrantAt
  /\ grants' = grants + 1 /\ spentAt' = now

\* markGranted
MarkGranted ==
  /\ lastGrantAt' = now
  /\ nextGrantAt' = now + GatewayInterval
  /\ grants' = grants + 1 /\ spentAt' = now

NoGrant == UNCHANGED <<lastGrantAt, nextGrantAt, grants, spentAt>>
NoPause == UNCHANGED <<pausedUntil, pauseSetAt, pauses>>
--------------------------------------------------------------------------------
\* The end of the queue.
NextArrival == arrivals + 1

\* acquire(lane)
Acquire(c, l) ==
  /\ arrival[c] = Absent /\ arrivals < Cardinality(Callers) /\ now < MaxTime
  /\ arrivals' = arrivals + 1
  /\ arrival' = [arrival EXCEPT ![c] = NextArrival]
  /\ lane' = [lane EXCEPT ![c] = l]
  /\ NoGrant /\ NoPause /\ UNCHANGED now
  /\ Schedule

\* The caller's signal aborts while it waits: spliced out.  A caller that only
\* races the wait with its signal stays in the queue, and nothing happens here.
Abort(c) ==
  /\ c \in Waiting
  /\ arrival' = [arrival EXCEPT ![c] = Absent]
  /\ NoGrant /\ NoPause /\ UNCHANGED <<now, lane, arrivals>>
  /\ Schedule

\* Mutant: a head that is not due yet is forgotten.
RearmNot == dispatchTimer' = NoTimer

\* A head that is not due yet gets the timer again.
Rearm == Schedule

\* The timer fires: the head may have changed, or be due later than the timer
\* was armed for.
Fire ==
  /\ dispatchTimer # NoTimer /\ dispatchTimer <= now
  /\ NoPause /\ UNCHANGED <<now, lane, arrivals>>
  /\ \E c \in Callers :
       /\ IsNextWaiter(c)
       /\ IF now < EligibleAt(lane[c])
          THEN NoGrant /\ UNCHANGED arrival /\ Rearm
          ELSE /\ MarkGranted /\ arrival' = [arrival EXCEPT ![c] = Absent]
               /\ Schedule

\* tryTakeImmediate(lane): it looks at the clock and not at the queue, and
\* leaves the timer as it is.
TryTake(l) ==
  /\ EligibleAt(l) <= now /\ now < MaxTime
  /\ MarkGranted
  /\ NoPause /\ UNCHANGED <<now, arrival, lane, arrivals, dispatchTimer>>

\* pauseFor(ms): a shorter pause than the current one changes nothing.
PauseFor(ms) ==
  /\ pauses < MaxPauses /\ now < MaxTime
  /\ pauses' = pauses + 1
  /\ IF now + ms > pausedUntil
     THEN pausedUntil' = now + ms /\ pauseSetAt' = now
     ELSE UNCHANGED <<pausedUntil, pauseSetAt>>
  /\ NoGrant /\ UNCHANGED <<now, arrival, lane, arrivals>>
  /\ Schedule

\* Time passes; past MaxTime only as far as a timer needs it.
Tick ==
  /\ now < MaxTime \/ dispatchTimer > now
  /\ now' = now + 1
  /\ NoGrant /\ NoPause /\ UNCHANGED <<arrival, lane, arrivals, dispatchTimer>>
--------------------------------------------------------------------------------
Next ==
  \/ \E c \in Callers : Abort(c) \/ \E l \in Lanes : Acquire(c, l)
  \/ Fire \/ Tick
  \/ \E l \in Lanes : TryTake(l)
  \/ \E ms \in Pauses : PauseFor(ms)

Spec == Init /\ [][Next]_vars

\* Time passes and an armed timer fires.
Fairness == WF_vars(Tick) /\ WF_vars(Fire)
FairSpec == Spec /\ Fairness
--------------------------------------------------------------------------------
(* Properties.                                                              *)

TypeOK ==
  /\ {now, lastGrantAt, nextGrantAt, pausedUntil, pauseSetAt,
      spentAt} \subseteq Nat
  /\ arrival \in [Callers -> Nat] /\ lane \in [Callers -> Lanes]
  /\ arrivals \in Nat /\ grants \in Nat /\ pauses \in Nat
  /\ dispatchTimer \in Nat \cup {NoTimer}
  /\ \A c, d \in Waiting : arrival[c] = arrival[d] => c = d
  /\ \A c \in Waiting : arrival[c] <= arrivals

\* No caller waits on a timer that is not armed, or armed for later than its
\* turn: whoever arrives, leaves or pauses meanwhile, the timer of the one at
\* the head is armed for the instant it may go, or an earlier one.
TimerInTime ==
  \A c \in Callers : IsNextWaiter(c) =>
    /\ dispatchTimer # NoTimer
    /\ dispatchTimer <= Later(now, EligibleAt(lane[c]))

\* The ceiling of the device: whatever the mix of lanes, of queued callers and
\* of tryTakeImmediate, no two grants are closer than the interactive spacing.
Ceiling ==
  [][grants' # grants /\ grants # 0 => now >= spentAt + InteractiveInterval]_vars

\* A person who waits is never held by the long tail of a pause that a
\* background call has earned: from any instant, the spacing or the capped
\* share of the pause is all that keeps the interactive lane back.
InteractiveSoon ==
  InteractiveEligibleAt <= now + Later(InteractiveInterval, InteractiveMaxPause)

\* Every caller is granted or gives up.
Served == \A c \in Callers : c \in Waiting ~> c \notin Waiting
================================================================================
