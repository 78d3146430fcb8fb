---------------------------- MODULE Throttles_proofs ----------------------------
(***************************************************************************)
(* Proofs about the two throttles: the gateway's rate limiter, then the     *)
(* throttled refresh of the feed (RefreshCoalescer, under Refresh!).       *)
(*                                                                         *)
(* The limiter, for any callers, intervals and pauses: the armed timer is   *)
(* never late, no two grants are closer than the interactive spacing, no    *)
(* pause freezes the interactive lane.                                     *)
(***************************************************************************)
EXTENDS GatewayLimiter, TLAPS

\* The clocks: nothing the limiter remembers lies in the future but what it
\* waits for, and both lanes are spaced from the last grant.
Clocks ==
  /\ now \in Nat /\ lastGrantAt \in Nat /\ nextGrantAt \in Nat
  /\ pausedUntil \in Nat /\ pauseSetAt \in Nat
  /\ grants \in Nat /\ spentAt \in Nat
  /\ pauseSetAt <= now /\ lastGrantAt <= now
  /\ nextGrantAt <= now + GatewayInterval
  /\ grants # 0 => /\ spentAt = lastGrantAt
                   /\ nextGrantAt = lastGrantAt + GatewayInterval

\* The queue, but for what Clocks says of TypeOK.
Queue ==
  /\ arrival \in [Callers -> Nat] /\ lane \in [Callers -> Lanes]
  /\ arrivals \in Nat /\ pauses \in Nat
  /\ dispatchTimer \in Nat \cup {NoTimer}
  /\ \A c, d \in Waiting : arrival[c] = arrival[d] => c = d
  /\ \A c \in Waiting : arrival[c] <= arrivals

IInv == Clocks /\ Queue

LEMMA Arithmetic ==
  ASSUME NEW a \in Nat, NEW b \in Nat
  PROVE  a + b \in Nat /\ Later(a, b) \in Nat /\ Sooner(a, b) \in Nat
  BY DEF Later, Sooner

LEMMA EligibleNat ==
  ASSUME Clocks, NEW l
  PROVE  EligibleAt(l) \in Nat
<1>1. /\ lastGrantAt \in Nat /\ nextGrantAt \in Nat
      /\ pausedUntil \in Nat /\ pauseSetAt \in Nat
      /\ InteractiveInterval \in Nat /\ InteractiveMaxPause \in Nat
  BY IntervalAssumption DEF Clocks
<1>2. PauseFloor \in Nat
  BY <1>1 DEF PauseFloor, Sooner
<1>. QED BY <1>1, <1>2 DEF EligibleAt, InteractiveEligibleAt, BackgroundEligibleAt, Later

\* The same of the state a step leaves.
LEMMA EligibleNatNext ==
  ASSUME Clocks', NEW c
  PROVE  EligibleAt(lane[c])' \in Nat
<1>1. /\ lastGrantAt' \in Nat /\ nextGrantAt' \in Nat
      /\ pausedUntil' \in Nat /\ pauseSetAt' \in Nat
      /\ InteractiveInterval \in Nat /\ InteractiveMaxPause \in Nat
  BY IntervalAssumption DEF Clocks
<1>2. /\ lastGrantAt' + InteractiveInterval \in Nat
      /\ Sooner(pausedUntil', pauseSetAt' + InteractiveMaxPause) \in Nat
  BY <1>1, Arithmetic
<1>3. PauseFloor' \in Nat
  BY <1>2 DEF PauseFloor
<1>4. /\ Later(lastGrantAt' + InteractiveInterval, PauseFloor') \in Nat
      /\ Later(nextGrantAt', pausedUntil') \in Nat
  BY <1>1, <1>2, <1>3, Arithmetic
<1>. QED BY <1>4 DEF EligibleAt, InteractiveEligibleAt, BackgroundEligibleAt

\* What schedule() leaves: no timer, or one at an instant that is a number.
LEMMA ScheduleTyped ==
  ASSUME Clocks, Clocks', Schedule
  PROVE  dispatchTimer' \in Nat \cup {NoTimer}
<1>1. CASE Waiting' = {}
  BY <1>1 DEF Schedule
<1>2. CASE Waiting' # {}
  <2>1. PICK c \in Callers : dispatchTimer' = Later(now, EligibleAt(lane[c])')
    BY <1>2 DEF Schedule
  <2>2. EligibleAt(lane[c])' \in Nat
    BY EligibleNatNext
  <2>3. now \in Nat
    BY DEF Clocks
  <2>. QED BY <2>1, <2>2, <2>3 DEF Later
<1>. QED BY <1>1, <1>2

\* Two heads would be the same caller.
LEMMA HeadUnique ==
  ASSUME Queue', NEW c \in Callers, NEW d \in Callers,
         IsNextWaiter(c)', IsNextWaiter(d)'
  PROVE  c = d
<1>1. c \in Waiting' /\ d \in Waiting' /\ arrival'[c] \in Nat /\ arrival'[d] \in Nat
  BY DEF IsNextWaiter, Queue
<1>2. lane'[c] \in Lanes /\ lane'[d] \in Lanes
  BY DEF Queue
<1>3. Preferred(c)' /\ Preferred(d)'
  BY DEF IsNextWaiter
<1>4. /\ \/ lane'[c] = lane'[d] /\ arrival'[c] <= arrival'[d]
         \/ lane'[c] = "interactive" /\ lane'[d] = "background"
      /\ \/ lane'[d] = lane'[c] /\ arrival'[d] <= arrival'[c]
         \/ lane'[d] = "interactive" /\ lane'[c] = "background"
  BY <1>1, <1>3 DEF Preferred
<1>5. arrival'[c] = arrival'[d]
  BY <1>1, <1>4
<1>. QED BY <1>1, <1>5 DEF Queue

\* schedule() arms the timer for the head, whoever it is.
LEMMA ScheduleInTime ==
  ASSUME Clocks', Queue', now' = now, Schedule
  PROVE  TimerInTime'
<1>. SUFFICES ASSUME NEW c \in Callers, IsNextWaiter(c)'
              PROVE  /\ dispatchTimer' # NoTimer
                     /\ dispatchTimer' <= Later(now', EligibleAt(lane[c])')
  BY DEF TimerInTime
<1>1. Waiting' # {}
  BY DEF IsNextWaiter
<1>2. PICK d \in Callers : /\ IsNextWaiter(d)'
                           /\ dispatchTimer' = Later(now, EligibleAt(lane[d])')
  BY <1>1 DEF Schedule
<1>3. c = d
  BY <1>2, HeadUnique
<1>4. EligibleAt(lane[c])' \in Nat /\ now' \in Nat
  BY EligibleNatNext DEF Clocks
<1>. QED BY <1>2, <1>3, <1>4 DEF Later, NoTimer
--------------------------------------------------------------------------------
LEMMA InitInv == Init => IInv /\ TimerInTime
<1>. SUFFICES ASSUME Init PROVE IInv /\ TimerInTime
  OBVIOUS
<1>1. Waiting = {}
  BY DEF Init, Waiting, Absent
<1>2. Clocks
  BY IntervalAssumption DEF Init, Clocks, Start
<1>3. Queue
  BY <1>1 DEF Init, Queue, Lanes, NoTimer, Absent
<1>4. TimerInTime
  BY <1>1 DEF TimerInTime, IsNextWaiter
<1>. QED BY <1>2, <1>3, <1>4 DEF IInv

\* A grant that is due keeps the clocks in order, and so does a pause.
LEMMA GrantClocks ==
  ASSUME Clocks, MarkGranted, NoPause, now' = now
  PROVE  Clocks'
<1>1. now \in Nat /\ GatewayInterval \in Nat
  BY IntervalAssumption DEF Clocks
<1>2. now + GatewayInterval \in Nat /\ grants + 1 \in Nat
  BY <1>1 DEF Clocks
<1>. QED BY <1>1, <1>2 DEF Clocks, MarkGranted, NoPause

LEMMA NoGrantClocks ==
  ASSUME Clocks, NoGrant, NoPause, now' = now
  PROVE  Clocks'
  BY DEF Clocks, NoGrant, NoPause

LEMMA PauseClocks ==
  ASSUME Clocks, NEW ms \in Pauses, PauseFor(ms)
  PROVE  Clocks'
<1>1. now \in Nat /\ ms \in Nat
  BY IntervalAssumption DEF Clocks
<1>2. now + ms \in Nat
  BY <1>1
<1>3. /\ pausedUntil' = now + ms \/ pausedUntil' = pausedUntil
      /\ pauseSetAt' = now \/ pauseSetAt' = pauseSetAt
  BY DEF PauseFor
<1>. QED BY <1>1, <1>2, <1>3 DEF Clocks, PauseFor, NoGrant

LEMMA TickClocks ==
  ASSUME Clocks, Tick
  PROVE  Clocks'
<1>1. now \in Nat /\ now' = now + 1 /\ now + 1 \in Nat
  BY DEF Clocks, Tick
<1>. QED BY <1>1, IntervalAssumption DEF Clocks, Tick, NoGrant, NoPause

\* The clocks in any step.
LEMMA NextClocks ==
  ASSUME Clocks, [Next]_vars
  PROVE  Clocks'
<1>1. CASE UNCHANGED vars
  BY <1>1 DEF Clocks, vars
<1>2. ASSUME NEW c \in Callers, Abort(c) \/ \E l \in Lanes : Acquire(c, l)
      PROVE  Clocks'
  BY <1>2, NoGrantClocks DEF Abort, Acquire
<1>3. CASE Fire
  BY <1>3, GrantClocks, NoGrantClocks DEF Fire
<1>4. CASE Tick
  BY <1>4, TickClocks
<1>5. ASSUME NEW l \in Lanes, TryTake(l)
      PROVE  Clocks'
  BY <1>5, GrantClocks DEF TryTake
<1>6. ASSUME NEW ms \in Pauses, PauseFor(ms)
      PROVE  Clocks'
  BY <1>6, PauseClocks
<1>. QED BY <1>1, <1>2, <1>3, <1>4, <1>5, <1>6 DEF Next
--------------------------------------------------------------------------------
\* A handler that takes callers from the queue, or none, and calls schedule().
LEMMA QueueShrinks ==
  ASSUME Clocks, Clocks', Queue, NEW c \in Callers,
         \/ arrival' = [arrival EXCEPT ![c] = Absent]
         \/ arrival' = arrival,
         UNCHANGED <<lane, arrivals>>, pauses' \in Nat, Schedule
  PROVE  Queue'
<1>1. dispatchTimer' \in Nat \cup {NoTimer}
  BY ScheduleTyped
<1>2. arrival' \in [Callers -> Nat]
  BY DEF Queue, Absent
<1>3. \A d \in Waiting' : d \in Waiting /\ arrival'[d] = arrival[d]
  BY DEF Waiting, Queue, Absent
<1>. QED BY <1>1, <1>2, <1>3 DEF Queue

\* A caller that arrives goes to the end.
LEMMA QueueGrows ==
  ASSUME Clocks, Clocks', Queue, NEW c \in Callers, NEW l \in Lanes, Acquire(c, l)
  PROVE  Queue'
<1>1. dispatchTimer' \in Nat \cup {NoTimer}
  BY ScheduleTyped DEF Acquire
<1>2. arrivals \in Nat /\ arrivals + 1 \in Nat /\ arrivals' = arrivals + 1
  BY DEF Queue, Acquire
<1>3. arrival' = [arrival EXCEPT ![c] = arrivals + 1] /\ arrival' \in [Callers -> Nat]
  BY <1>2 DEF Queue, Acquire, NextArrival
<1>4. lane' \in [Callers -> Lanes] /\ pauses' \in Nat
  BY DEF Queue, Acquire, NoPause
<1>5. \A d \in Waiting' : d # c => d \in Waiting /\ arrival'[d] = arrival[d]
  BY <1>3 DEF Waiting, Queue
<1>6. arrival'[c] = arrivals + 1
  BY <1>3 DEF Queue
<1>7. \A d \in Waiting : arrival[d] \in Nat /\ arrival[d] <= arrivals
  BY DEF Queue, Waiting
<1>8. \A d \in Waiting' : arrival'[d] <= arrivals'
  <2>. SUFFICES ASSUME NEW d, d \in Waiting' PROVE arrival'[d] <= arrivals'
    OBVIOUS
  <2>1. CASE d = c
    BY <2>1, <1>2, <1>6
  <2>2. CASE d # c
    <3>1. d \in Waiting /\ arrival'[d] = arrival[d]
      BY <2>2, <1>5
    <3>2. arrival[d] <= arrivals + 1
      BY <3>1, <1>2, <1>7
    <3>. QED BY <3>1, <3>2, <1>2
  <2>. QED BY <2>1, <2>2
<1>9. \A d, e \in Waiting' : arrival'[d] = arrival'[e] => d = e
  <2>. SUFFICES ASSUME NEW d, NEW e, d \in Waiting', e \in Waiting',
                       arrival'[d] = arrival'[e]
                PROVE  d = e
    OBVIOUS
  <2>0. \A x \in Waiting : arrival[x] # arrivals + 1
    BY <1>2, <1>7
  <2>1. CASE d # c /\ e # c
    <3>1. d \in Waiting /\ e \in Waiting /\ arrival[d] = arrival[e]
      BY <2>1, <1>5
    <3>. QED BY <3>1 DEF Queue
  <2>2. CASE d = c /\ e # c
    <3>1. e \in Waiting /\ arrival[e] = arrivals + 1
      BY <2>2, <1>5, <1>6
    <3>. QED BY <3>1, <2>0
  <2>3. CASE d # c /\ e = c
    <3>1. d \in Waiting /\ arrival[d] = arrivals + 1
      BY <2>3, <1>5, <1>6
    <3>. QED BY <3>1, <2>0
  <2>. QED BY <2>1, <2>2, <2>3
<1>. QED BY <1>1, <1>2, <1>3, <1>4, <1>8, <1>9 DEF Queue

LEMMA NextQueue ==
  ASSUME Clocks, Clocks', Queue, [Next]_vars
  PROVE  Queue'
<1>1. CASE UNCHANGED vars
  BY <1>1 DEF Queue, Waiting, vars
<1>2. ASSUME NEW c \in Callers, Abort(c)
      PROVE  Queue'
  BY <1>2, QueueShrinks DEF Abort, NoPause, Queue
<1>3. ASSUME NEW c \in Callers, NEW l \in Lanes, Acquire(c, l)
      PROVE  Queue'
  BY <1>3, QueueGrows
<1>4. CASE Fire
  <2>1. PICK c \in Callers :
          IF now < EligibleAt(lane[c])
          THEN NoGrant /\ UNCHANGED arrival /\ Rearm
          ELSE /\ MarkGranted /\ arrival' = [arrival EXCEPT ![c] = Absent]
               /\ Schedule
    BY <1>4 DEF Fire
  <2>2. UNCHANGED <<lane, arrivals>> /\ pauses' \in Nat
    BY <1>4 DEF Fire, NoPause, Queue
  <2>. QED BY <2>1, <2>2, QueueShrinks DEF Rearm
<1>5. CASE Tick
  BY <1>5 DEF Tick, Queue, Waiting, NoPause
<1>6. ASSUME NEW l \in Lanes, TryTake(l)
      PROVE  Queue'
  BY <1>6 DEF TryTake, Queue, Waiting, NoPause
<1>7. ASSUME NEW ms \in Pauses, PauseFor(ms)
      PROVE  Queue'
  <2>1. UNCHANGED <<arrival, lane, arrivals>> /\ pauses' \in Nat /\ Schedule
    BY <1>7 DEF PauseFor, Queue
  <2>2. CASE Callers = {}
    <3>1. dispatchTimer' \in Nat \cup {NoTimer}
      BY <2>1, ScheduleTyped
    <3>. QED BY <2>1, <3>1 DEF Queue, Waiting
  <2>3. CASE Callers # {}
    BY <2>1, <2>3, QueueShrinks
  <2>. QED BY <2>2, <2>3
<1>. QED BY <1>1, <1>2, <1>3, <1>4, <1>5, <1>6, <1>7 DEF Next
--------------------------------------------------------------------------------
LEMMA NextIInv == IInv /\ [Next]_vars => IInv'
  BY NextClocks, NextQueue DEF IInv

LEMMA Invariance == Spec => []IInv
<1>1. Init => IInv
  BY InitInv
<1>. QED BY <1>1, NextIInv, PTL DEF Spec

\* Every variable of the limiter keeps its type and no two callers share an
\* arrival number, whatever calls, aborts, pauses and timers come (lib/llm/
\* gateway-rate-limiter.ts, acquire to pauseFor).
THEOREM TypeCorrect == Spec => []TypeOK
<1>1. IInv => TypeOK
  BY DEF IInv, Clocks, Queue, TypeOK
<1>. QED BY <1>1, Invariance, PTL

\* Time that passes, or a slot taken, only postpones what the timer is held to.
LEMMA LaterStill ==
  ASSUME NEW t, NEW a \in Nat, NEW e \in Nat, NEW b \in Nat, NEW g \in Nat,
         t \in Nat \cup {NoTimer}, t <= Later(a, e), a <= b, e <= g
  PROVE  t <= Later(b, g)
  BY DEF Later, NoTimer

LEMMA NextInTime == IInv /\ IInv' /\ TimerInTime /\ [Next]_vars => TimerInTime'
<1>. SUFFICES ASSUME IInv, IInv', TimerInTime, [Next]_vars
              PROVE  TimerInTime'
  OBVIOUS
<1>. USE DEF IInv
<1>1. CASE UNCHANGED vars
  BY <1>1 DEF vars, TimerInTime, IsNextWaiter, Waiting, Preferred, EligibleAt,
     InteractiveEligibleAt, BackgroundEligibleAt, PauseFloor
<1>2. ASSUME NEW c \in Callers, Abort(c) \/ \E l \in Lanes : Acquire(c, l)
      PROVE  TimerInTime'
  BY <1>2, ScheduleInTime DEF Abort, Acquire
<1>3. CASE Fire
  BY <1>3, ScheduleInTime DEF Fire, Rearm
<1>4. CASE Tick
  <2>1. /\ UNCHANGED <<lastGrantAt, nextGrantAt, pausedUntil, pauseSetAt,
                       arrival, lane, dispatchTimer>>
        /\ now' = now + 1
    BY <1>4 DEF Tick, NoGrant, NoPause
  <2>2. SUFFICES ASSUME NEW c \in Callers, IsNextWaiter(c)'
                 PROVE  /\ dispatchTimer' # NoTimer
                        /\ dispatchTimer' <= Later(now', EligibleAt(lane[c])')
    BY DEF TimerInTime
  <2>3. IsNextWaiter(c)
    BY <2>1, <2>2 DEF IsNextWaiter, Waiting, Preferred
  <2>4. dispatchTimer # NoTimer /\ dispatchTimer <= Later(now, EligibleAt(lane[c]))
    BY <2>3 DEF TimerInTime
  <2>5. EligibleAt(lane[c])' = EligibleAt(lane[c])
    BY <2>1 DEF EligibleAt, InteractiveEligibleAt, BackgroundEligibleAt, PauseFloor
  <2>6. /\ EligibleAt(lane[c]) \in Nat /\ now \in Nat /\ now + 1 \in Nat
        /\ dispatchTimer \in Nat \cup {NoTimer} /\ now <= now + 1
        /\ EligibleAt(lane[c]) <= EligibleAt(lane[c])
    BY EligibleNat DEF Clocks, Queue
  <2>7. dispatchTimer <= Later(now + 1, EligibleAt(lane[c]))
    BY <2>4, <2>6, LaterStill
  <2>. QED BY <2>1, <2>4, <2>5, <2>7
<1>5. ASSUME NEW l \in Lanes, TryTake(l)
      PROVE  TimerInTime'
  <2>1. /\ UNCHANGED <<now, pausedUntil, pauseSetAt, arrival, lane, dispatchTimer>>
        /\ lastGrantAt' = now /\ nextGrantAt' = now + GatewayInterval
    BY <1>5 DEF TryTake, MarkGranted, NoPause
  <2>2. SUFFICES ASSUME NEW c \in Callers, IsNextWaiter(c)'
                 PROVE  /\ dispatchTimer' # NoTimer
                        /\ dispatchTimer' <= Later(now', EligibleAt(lane[c])')
    BY DEF TimerInTime
  <2>3. IsNextWaiter(c)
    BY <2>1, <2>2 DEF IsNextWaiter, Waiting, Preferred
  <2>4. dispatchTimer # NoTimer /\ dispatchTimer <= Later(now, EligibleAt(lane[c]))
    BY <2>3 DEF TimerInTime
  <2>. DEFINE e == EligibleAt(lane[c])
              g == IF lane[c] = "interactive"
                   THEN Later(now + InteractiveInterval, PauseFloor)
                   ELSE Later(now + GatewayInterval, pausedUntil)
  <2>5. EligibleAt(lane[c])' = g
    BY <2>1 DEF EligibleAt, InteractiveEligibleAt, BackgroundEligibleAt, PauseFloor
  <2>6. /\ now \in Nat /\ lastGrantAt \in Nat /\ nextGrantAt \in Nat
        /\ pausedUntil \in Nat /\ pauseSetAt \in Nat
        /\ GatewayInterval \in Nat /\ InteractiveInterval \in Nat
        /\ lastGrantAt <= now /\ nextGrantAt <= now + GatewayInterval
    BY IntervalAssumption DEF Clocks
  <2>7. PauseFloor \in Nat
    BY <2>6, IntervalAssumption DEF PauseFloor, Sooner
  <2>8. e \in Nat /\ g \in Nat /\ e <= g
    BY <2>6, <2>7 DEF EligibleAt, InteractiveEligibleAt, BackgroundEligibleAt, Later
  <2>9. dispatchTimer \in Nat \cup {NoTimer}
    BY DEF Queue
  <2>10. dispatchTimer <= Later(now, g)
    <3>. HIDE DEF e, g
    <3>1. dispatchTimer <= Later(now, e)
      BY <2>4 DEF e
    <3>2. now <= now
      BY <2>6
    <3>. QED BY <3>1, <3>2, <2>6, <2>8, <2>9, LaterStill
  <2>. QED BY <2>1, <2>4, <2>5, <2>10
<1>6. ASSUME NEW ms \in Pauses, PauseFor(ms)
      PROVE  TimerInTime'
  BY <1>6, ScheduleInTime DEF PauseFor
<1>. QED BY <1>1, <1>2, <1>3, <1>4, <1>5, <1>6 DEF Next

\* No caller waits on a timer that is not armed or armed too late: whoever
\* arrives, leaves, pauses or takes a slot, schedule() leaves the timer at an
\* instant no later than the turn of the head of the queue.
THEOREM NoLateTimer == Spec => []TimerInTime
<1>1. Init => TimerInTime
  BY InitInv
<1>. QED BY <1>1, NextInTime, Invariance, PTL DEF Spec
--------------------------------------------------------------------------------
\* A lane that is due is spaced from the last grant.
LEMMA DueIsSpaced ==
  ASSUME Clocks, NEW l \in Lanes, grants # 0, EligibleAt(l) <= now
  PROVE  now >= spentAt + InteractiveInterval
<1>1. /\ now \in Nat /\ lastGrantAt \in Nat /\ nextGrantAt \in Nat
      /\ pausedUntil \in Nat /\ pauseSetAt \in Nat
      /\ GatewayInterval \in Nat /\ InteractiveInterval \in Nat
      /\ GatewayInterval >= InteractiveInterval
      /\ spentAt = lastGrantAt /\ nextGrantAt = lastGrantAt + GatewayInterval
  BY IntervalAssumption DEF Clocks
<1>2. PauseFloor \in Nat
  BY <1>1, IntervalAssumption DEF PauseFloor, Sooner
<1>3. CASE l = "interactive"
  BY <1>1, <1>2, <1>3 DEF EligibleAt, InteractiveEligibleAt, Later
<1>4. CASE l # "interactive"
  BY <1>1, <1>4 DEF EligibleAt, BackgroundEligibleAt, Later
<1>. QED BY <1>3, <1>4

LEMMA NextSpaced ==
  IInv /\ [Next]_vars
    => (grants' # grants /\ grants # 0 => now >= spentAt + InteractiveInterval)
<1>. SUFFICES ASSUME IInv, [Next]_vars, grants' # grants, grants # 0
              PROVE  now >= spentAt + InteractiveInterval
  OBVIOUS
<1>1. CASE Fire
  <2>1. PICK c \in Callers : /\ IsNextWaiter(c)
                             /\ ~(now < EligibleAt(lane[c]))
    BY <1>1 DEF Fire, NoGrant
  <2>2. lane[c] \in Lanes
    BY DEF IInv, Queue
  <2>3. EligibleAt(lane[c]) \in Nat /\ now \in Nat
    BY EligibleNat DEF IInv, Clocks
  <2>4. EligibleAt(lane[c]) <= now
    BY <2>1, <2>3
  <2>. QED BY <2>2, <2>4, DueIsSpaced DEF IInv
<1>2. ASSUME NEW l \in Lanes, TryTake(l)
      PROVE  now >= spentAt + InteractiveInterval
  BY <1>2, DueIsSpaced DEF TryTake, IInv
<1>. QED BY <1>1, <1>2 DEF Next, vars, Abort, Acquire, Tick, PauseFor, NoGrant

\* The device-wide ceiling of the source's header: whatever the mix of lanes,
\* queued callers and tryTakeImmediate, consecutive grants are spaced by at
\* least the interactive interval.
THEOREM GrantsSpaced == Spec => Ceiling
<1>. QED BY NextSpaced, Invariance, PTL DEF Spec, Ceiling

\* No pause a background call has earned holds the interactive lane for longer
\* than INTERACTIVE_MAX_PAUSE_MS from any instant.
THEOREM NeverFrozen == Spec => []InteractiveSoon
<1>1. IInv => InteractiveSoon
  <2>. SUFFICES ASSUME IInv PROVE InteractiveSoon
    OBVIOUS
  <2>1. /\ now \in Nat /\ lastGrantAt \in Nat /\ pausedUntil \in Nat
        /\ pauseSetAt \in Nat /\ lastGrantAt <= now /\ pauseSetAt <= now
        /\ InteractiveInterval \in Nat /\ InteractiveMaxPause \in Nat
    BY IntervalAssumption DEF IInv, Clocks
  <2>2. PauseFloor <= now + InteractiveMaxPause /\ PauseFloor \in Nat
    BY <2>1 DEF PauseFloor, Sooner
  <2>. QED BY <2>1, <2>2 DEF InteractiveSoon, InteractiveEligibleAt, Later
<1>. QED BY <1>1, Invariance, PTL
--------------------------------------------------------------------------------
(***************************************************************************)
(* That a flush of RefreshCoalescer is exact, for any number of flushers    *)
(* and of writes.                                                          *)
(*                                                                         *)
(* Whatever has been announced by some moment is on its way to the screen   *)
(* from then on: it is shown, or it has been read and is about to be, or a  *)
(* read is still to come (Covered), unless the last load rejected.  A       *)
(* flush that waits is covered by the execution it joined; one that has     *)
(* resolved is not undone by a later execution, which reads no less.        *)
(***************************************************************************)
CONSTANTS Flushers, MaxWrites
VARIABLES db, announced, shown, refreshInFlight, read, rerunRequested,
          trailingTimer, recent, lost, flush, target

Refresh == INSTANCE RefreshCoalescer

\* What was announced up to v is shown or read by the execution under way.
Covered(v) ==
  \/ refreshInFlight = "reading"
  \/ ~Refresh!Idle /\ rerunRequested
  \/ refreshInFlight = "loading" /\ v <= read
  \/ refreshInFlight = "labels" /\ v <= shown

\* What was announced up to v is covered, pending, shown or lost.
OnItsWay(v) == Covered(v) \/ trailingTimer \/ (Refresh!Idle /\ (lost \/ v <= shown))

\* What the numbers mean: nothing is told, read or shown before it is written.
NothingAhead ==
  /\ announced <= db /\ shown <= db /\ read <= db
  /\ \A f \in Flushers : target[f] <= announced

\* An execution past its load has shown something, so nothing is lost then.
LabelsShown == refreshInFlight = "labels" => ~lost

FlushInv ==
  \A f \in Flushers :
    /\ flush[f] = "waiting" => Covered(target[f])
    /\ flush[f] = "done" /\ refreshInFlight = "loading" => target[f] <= read
    /\ flush[f] = "done" /\ ~lost => target[f] <= shown

Exactness == Refresh!TypeOK /\ NothingAhead /\ LabelsShown /\ OnItsWay(announced) /\ FlushInv
--------------------------------------------------------------------------------
\* Exactness holds of every reachable state.
LEMMA ExactnessHolds == Refresh!Spec => []Exactness
<1>1. Refresh!Init => Exactness
  <2> SUFFICES ASSUME Refresh!Init PROVE Exactness
    OBVIOUS
  <2>1. /\ rerunRequested \in BOOLEAN /\ trailingTimer \in BOOLEAN
        /\ recent \in BOOLEAN /\ lost \in BOOLEAN
    BY DEF Refresh!Init
  <2>2. /\ flush \in [Flushers -> {"none", "waiting", "done"}]
        /\ target \in [Flushers -> Nat]
    BY DEF Refresh!Init
  <2>3. Refresh!TypeOK
    BY <2>1, <2>2 DEF Refresh!Init, Refresh!TypeOK
  <2>4. NothingAhead /\ LabelsShown /\ FlushInv
    BY DEF Refresh!Init, NothingAhead, LabelsShown, FlushInv
  <2>5. OnItsWay(announced)
    BY DEF Refresh!Init, OnItsWay, Refresh!Idle
  <2>6. QED
    BY <2>3, <2>4, <2>5 DEF Exactness
<1>2. Exactness /\ [Refresh!Next]_(Refresh!vars) => Exactness'
  <2> SUFFICES ASSUME Exactness, [Refresh!Next]_(Refresh!vars) PROVE Exactness'
    OBVIOUS
  <2> USE DEF Exactness, Refresh!TypeOK, NothingAhead, LabelsShown, OnItsWay, Covered, FlushInv, Refresh!Idle
  <2>1. CASE Refresh!Write
    BY <2>1 DEF Refresh!Write, Refresh!run
  <2>2. CASE Refresh!Request
    <3>1. CASE ~recent /\ Refresh!Idle
      <4>1. /\ refreshInFlight' = "reading" /\ recent' = TRUE /\ trailingTimer' = FALSE
            /\ UNCHANGED <<read, rerunRequested>>
        BY <2>2, <3>1 DEF Refresh!Request, Refresh!RunSerialized
      <4>2. announced' = db /\ UNCHANGED <<db, shown, lost, flush, target>>
        BY <2>2 DEF Refresh!Request
      <4>3. Refresh!TypeOK'
        BY <4>1, <4>2
      <4>4. NothingAhead' /\ LabelsShown'
        BY <4>1, <4>2
      <4>5. OnItsWay(announced)' /\ FlushInv'
        BY <4>1, <4>2
      <4>6. QED
        BY <4>3, <4>4, <4>5
    <3>2. CASE ~(~recent /\ Refresh!Idle)
      <4>1. trailingTimer' = TRUE /\ UNCHANGED <<refreshInFlight, read, rerunRequested, recent>>
        BY <2>2, <3>2 DEF Refresh!Request, Refresh!run
      <4>2. announced' = db /\ UNCHANGED <<db, shown, lost, flush, target>>
        BY <2>2 DEF Refresh!Request
      <4>3. QED
        BY <4>1, <4>2
    <3>3. QED
      BY <3>1, <3>2
  <2>3. CASE Refresh!TimerFires
    BY <2>3 DEF Refresh!TimerFires, Refresh!RunSerialized
  <2>4. CASE Refresh!WindowCloses
    BY <2>4 DEF Refresh!WindowCloses
  <2>5. CASE Refresh!Read
    BY <2>5 DEF Refresh!Read
  <2>6. CASE Refresh!Show
    BY <2>6 DEF Refresh!Show
  <2>7. CASE Refresh!LabelsEnd
    BY <2>7 DEF Refresh!LabelsEnd, Refresh!PassEnds
  <2>8. CASE Refresh!LoadRejects
    BY <2>8 DEF Refresh!LoadRejects, Refresh!PassEnds
  <2>9. ASSUME NEW f \in Flushers, Refresh!Flush(f) PROVE Exactness'
    <3>1. /\ trailingTimer' = FALSE /\ target' = [target EXCEPT ![f] = announced]
          /\ UNCHANGED <<db, announced, shown, lost>>
      BY <2>9 DEF Refresh!Flush
    <3>2. /\ target' \in [Flushers -> Nat] /\ target'[f] = announced
          /\ \A g \in Flushers \ {f} : target'[g] = target[g]
      BY <3>1
    <3>3. CASE Refresh!Idle /\ trailingTimer
      <4>1. /\ flush' = [flush EXCEPT ![f] = "waiting"]
            /\ refreshInFlight' = "reading" /\ recent' = TRUE
            /\ UNCHANGED <<read, rerunRequested>>
        BY <2>9, <3>3 DEF Refresh!Flush, Refresh!RunSerialized
      <4>2. Refresh!TypeOK'
        BY <3>1, <3>2, <4>1
      <4>3. NothingAhead' /\ LabelsShown'
        BY <3>1, <3>2, <4>1
      <4>4. OnItsWay(announced)'
        BY <3>1, <3>2, <4>1
      <4>5. \A g \in Flushers : flush'[g] = IF g = f THEN "waiting" ELSE flush[g]
        BY <4>1
      <4>6. FlushInv'
        BY <3>1, <3>2, <4>1, <4>5
      <4>7. QED
        BY <4>2, <4>3, <4>4, <4>6
    <3>4. CASE ~Refresh!Idle
      <4>1. /\ flush' = [flush EXCEPT ![f] = "waiting"]
            /\ rerunRequested' = TRUE /\ UNCHANGED <<refreshInFlight, read, recent>>
        BY <2>9, <3>4 DEF Refresh!Flush, Refresh!RunSerialized
      <4>2. Refresh!TypeOK'
        BY <3>1, <3>2, <3>4, <4>1
      <4>3. NothingAhead' /\ LabelsShown'
        BY <3>1, <3>2, <3>4, <4>1
      <4>4. OnItsWay(announced)'
        BY <3>1, <3>2, <3>4, <4>1
      <4>5. \A g \in Flushers : flush'[g] = IF g = f THEN "waiting" ELSE flush[g]
        BY <4>1
      <4>6. FlushInv'
        BY <3>1, <3>2, <3>4, <4>1, <4>5
      <4>7. QED
        BY <4>2, <4>3, <4>4, <4>6
    <3>5. CASE Refresh!Idle /\ ~trailingTimer
      <4>1. /\ flush' = [flush EXCEPT ![f] = "done"]
            /\ UNCHANGED <<refreshInFlight, read, rerunRequested, recent>>
        BY <2>9, <3>5 DEF Refresh!Flush, Refresh!run
      <4>2. Refresh!TypeOK'
        BY <3>1, <3>2, <3>5, <4>1
      <4>3. NothingAhead' /\ LabelsShown'
        BY <3>1, <3>2, <3>5, <4>1
      <4>4. OnItsWay(announced)'
        BY <3>1, <3>2, <3>5, <4>1
      <4>5. \A g \in Flushers : flush'[g] = IF g = f THEN "done" ELSE flush[g]
        BY <4>1
      <4>6. FlushInv'
        BY <3>1, <3>2, <3>5, <4>1, <4>5
      <4>7. QED
        BY <4>2, <4>3, <4>4, <4>6
    <3>6. QED
      BY <3>3, <3>4, <3>5
  <2>10. CASE UNCHANGED Refresh!vars
    BY <2>10 DEF Refresh!vars, Refresh!run
  <2>11. QED
    BY <2>1, <2>2, <2>3, <2>4, <2>5, <2>6, <2>7, <2>8, <2>9, <2>10 DEF Refresh!Next
<1>3. QED
  BY <1>1, <1>2, PTL DEF Refresh!Spec

\* The variables of the coalescer keep their types.
THEOREM RefreshTyped == Refresh!Spec => []Refresh!TypeOK
<1>1. Exactness => Refresh!TypeOK
  BY DEF Exactness
<1>2. QED
  BY <1>1, ExactnessHolds, PTL

\* When nothing is pending and nothing in flight, the feed shows every write
\* announced, unless the last load rejected: the no-op of a flush is right.
THEOREM IdleExact == Refresh!Spec => []Refresh!IdleIsExact
<1>1. Exactness => Refresh!IdleIsExact
  BY DEF Exactness, OnItsWay, Covered, Refresh!IdleIsExact, Refresh!Idle
<1>2. QED
  BY <1>1, ExactnessHolds, PTL

\* A flush that has resolved shows all that was announced before it, whatever
\* execution it joined, unless the last load rejected.
THEOREM FlushExact == Refresh!Spec => []Refresh!FlushIsExact
<1>1. Exactness => Refresh!FlushIsExact
  BY DEF Exactness, FlushInv, Refresh!FlushIsExact
<1>2. QED
  BY <1>1, ExactnessHolds, PTL
================================================================================
