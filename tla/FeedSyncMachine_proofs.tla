------------------------- MODULE FeedSyncMachine_proofs -------------------------
(***************************************************************************)
(* Theorems about FeedSyncMachine, for every number of runs, pool frames   *)
(* and chunks and for every mix of callers: its types, the owner of the    *)
(* slot, the runs it has abandoned, and that it implements SingleFlight.   *)
(***************************************************************************)
EXTENDS FeedSyncMachine, TLAPS
--------------------------------------------------------------------------------
(* Type correctness: first the helpers, then one step per action.           *)

\* The woken frames are at places of their own kind.
LEMMA WokenTypes ==
  ASSUME TypeOK, NEW F, NEW D
  PROVE  /\ WokenPc(F, D) \in [Runs -> Places]
         /\ WokenWorker(F, D) \in [Runs -> [Workers -> WorkerState]]
  BY DEF TypeOK, WokenPc, WokenWorker, Suspended, WorkerState, Places

\* _transitionTo leaves a state of the table and a flag.
LEMMA TransitionTypes ==
  ASSUME TypeOK, NEW r, NEW next \in FeedSyncState, TransitionTo(r, next)
  PROVE  state' \in FeedSyncState /\ refused' \in BOOLEAN
<1>1. state' \in FeedSyncState BY DEF TypeOK, TransitionTo
<1>2. refused' \in BOOLEAN
  <2>1. CASE IsCurrentRun(r) /\ ~Allowed(next) BY <2>1 DEF TransitionTo
  <2>2. CASE ~(IsCurrentRun(r) /\ ~Allowed(next)) BY <2>2 DEF TransitionTo, TypeOK
  <2> QED BY <2>1, <2>2
<1> QED BY <1>1, <1>2

\* publish leaves a published status.
LEMMA PublishTypes ==
  ASSUME TypeOK, NEW r, NEW s \in SyncStatus, Publish(r, s)
  PROVE  status' \in SyncStatus
  BY DEF TypeOK, Publish

\* Releasing the wake lock keeps both flags Boolean.
LEMMA ReleaseTypes ==
  ASSUME TypeOK, NEW r, ReleaseKeepAwake(r)
  PROVE  keepAwakeHeld' \in BOOLEAN /\ wakeLock' \in BOOLEAN
<1>1. CASE IsCurrentRun(r) /\ keepAwakeHeld BY <1>1 DEF ReleaseKeepAwake
<1>2. CASE IsCurrentRun(r) /\ ~keepAwakeHeld BY <1>2 DEF ReleaseKeepAwake, TypeOK
<1>3. CASE ~IsCurrentRun(r) BY <1>3 DEF ReleaseKeepAwake, TypeOK
<1> QED BY <1>1, <1>2, <1>3

\* Acquiring the wake lock keeps both flags Boolean.
LEMMA AcquireTypes ==
  ASSUME TypeOK, NEW r, NEW granted \in BOOLEAN, AcquireKeepAwake(r, granted)
  PROVE  keepAwakeHeld' \in BOOLEAN /\ wakeLock' \in BOOLEAN
<1>1. CASE IsCurrentRun(r) /\ ~keepAwakeHeld BY <1>1 DEF AcquireKeepAwake
<1>2. CASE ~(IsCurrentRun(r) /\ ~keepAwakeHeld) BY <1>2 DEF AcquireKeepAwake, TypeOK
<1> QED BY <1>1, <1>2

\* A frame moves between places.
LEMMA GotoTypes ==
  ASSUME TypeOK, NEW r \in Runs, NEW where \in Places, Goto(r, where)
  PROVE  pc' \in [Runs -> Places]
  BY DEF TypeOK, Goto, Places

\* Settling a run leaves a place, a slot and its age.
LEMMA SettleTypes ==
  ASSUME TypeOK, NEW r \in Runs, NEW as \in Places, Settle(r, as)
  PROVE  pc' \in [Runs -> Places] /\ inFlight' \in 0..MaxRuns /\ aged' \in BOOLEAN
<1>1. pc' \in [Runs -> Places] BY GotoTypes DEF Settle
<1>2. CASE inFlight = r BY <1>1, <1>2, BoundsAssumption DEF Settle, NoRun
<1>3. CASE inFlight # r BY <1>1, <1>3 DEF Settle, TypeOK
<1> QED BY <1>2, <1>3

\* The catch of _run leaves a state, a status and a place.
LEMMA FailTypes ==
  ASSUME TypeOK, NEW r \in Runs, FailRun(r)
  PROVE  /\ state' \in FeedSyncState
         /\ status' \in SyncStatus
         /\ pc' \in [Runs -> Places]
<1>1. state' \in FeedSyncState BY DEF FailRun, TypeOK, FeedSyncState
<1>2. status' \in SyncStatus BY DEF FailRun, TypeOK, FeedSyncState, SyncStatus
<1>3. pc' \in [Runs -> Places] BY GotoTypes DEF FailRun, Places, Suspended
<1> QED BY <1>1, <1>2, <1>3

\* _forceIdle leaves a state of the table.
LEMMA ForceIdleTypes ==
  ASSUME TypeOK, NEW r, ForceIdle(r)
  PROVE  state' \in FeedSyncState
  BY DEF TypeOK, ForceIdle, FeedSyncState

\* Every step of the machine keeps its variables in their types.
LEMMA TypeStep ==
  ASSUME TypeOK, [Next]_vars
  PROVE  TypeOK'
<1>1. ASSUME NEW b \in Callers, Start(b) PROVE TypeOK'
  <2> DEFINE freed == IF inFlight = NoRun THEN {} ELSE waiters
  <2>1. runSeq' \in 0..MaxRuns /\ inFlight' \in 0..MaxRuns
    BY <1>1, BoundsAssumption DEF Start, TypeOK
  <2>2. aged' \in BOOLEAN /\ waiters' \subseteq Runs \X (Workers \cup {Main})
    BY <1>1 DEF Start, TypeOK
  <2>3. pc' \in [Runs -> Places]
    <3>1. pc' = [WokenPc(freed, {}) EXCEPT ![runSeq + 1] = "load"]
      BY <1>1 DEF Start
    <3> QED BY <3>1, WokenTypes DEF Places, Suspended
  <2>4. background' \in [Runs -> BOOLEAN]
    BY <1>1, CallersAssumption DEF Start, TypeOK
  <2>5. worker' \in [Runs -> [Workers -> WorkerState]]
    BY <1>1, WokenTypes DEF Start
  <2> QED
    BY <1>1, <2>1, <2>2, <2>3, <2>4, <2>5 DEF TypeOK, Start
<1>2. ASSUME NEW r \in Runs, PreambleFails(r) PROVE TypeOK'
  <2>1. pc' \in [Runs -> Places] /\ inFlight' \in 0..MaxRuns /\ aged' \in BOOLEAN
    BY <1>2, SettleTypes DEF PreambleFails, Places
  <2> QED
    BY <1>2, <2>1 DEF TypeOK, PreambleFails, pool
<1>3. ASSUME NEW r \in Runs, Arm(r) PROVE TypeOK'
  <2>1. state' \in FeedSyncState BY <1>3, ForceIdleTypes DEF Arm
  <2>2. paused' \in BOOLEAN BY <1>3 DEF Arm, TypeOK
  <2>3. UNCHANGED <<runSeq, waiters, finishedBy, refused, timers, connected,
                    status, background, aborted, suppressScoring, chunks,
                    stopLaunching, worker>>
  BY <1>3 DEF Arm, pool
  <2>4. CASE background[r]
    <3>1. pc' \in [Runs -> Places] BY <1>3, <2>4, GotoTypes DEF Arm, Places, Suspended
    <3>2. unsub' = NoRun /\ listeners' = Unsubscribed
          /\ UNCHANGED <<keepAwakeHeld, wakeLock, inFlight, aged>>
      BY <1>3, <2>4 DEF Arm
    <3> QED
      BY <2>1, <2>2, <2>3, <3>1, <3>2, BoundsAssumption DEF TypeOK, Unsubscribed, Places, NoRun
  <2>5. CASE ~background[r]
    <3>1. PICK granted \in BOOLEAN :
            /\ AcquireKeepAwake(r, granted)
            /\ IF granted THEN Goto(r, "check") /\ UNCHANGED <<inFlight, aged>>
                          ELSE Settle(r, "over")
      BY <1>3, <2>5 DEF Arm
    <3>2. keepAwakeHeld' \in BOOLEAN /\ wakeLock' \in BOOLEAN BY <3>1, AcquireTypes
    <3>3. pc' \in [Runs -> Places] /\ inFlight' \in 0..MaxRuns /\ aged' \in BOOLEAN
      <4>1. CASE granted
        <5>1. pc' \in [Runs -> Places]
          BY <3>1, <4>1, GotoTypes DEF Places, Suspended
        <5> QED BY <3>1, <4>1, <5>1 DEF TypeOK
      <4>2. CASE ~granted
        BY <3>1, <4>2, SettleTypes DEF Places
      <4> QED BY <4>1, <4>2
    <3>4. unsub' = r /\ listeners' = Unsubscribed \cup {r} BY <1>3, <2>5 DEF Arm
    <3>5. unsub' \in 0..MaxRuns /\ listeners' \subseteq Runs
      BY <3>4, BoundsAssumption DEF TypeOK, Unsubscribed, Runs
    <3> QED
      BY <2>1, <2>2, <2>3, <3>2, <3>3, <3>5 DEF TypeOK
  <2> QED BY <2>4, <2>5
<1>4. ASSUME NEW r \in Runs, CheckPipeline(r) PROVE TypeOK'
  <2>1. state' \in FeedSyncState /\ refused' \in BOOLEAN
    BY <1>4, TransitionTypes DEF CheckPipeline, FeedSyncState
  <2>2. pc' \in [Runs -> Places]
    BY <1>4, GotoTypes DEF CheckPipeline, Places, Suspended
  <2>3. suppressScoring' \in [Runs -> BOOLEAN]
    BY <1>4 DEF CheckPipeline, TypeOK
  <2> QED
    BY <1>4, <2>1, <2>2, <2>3 DEF TypeOK, CheckPipeline, Quiet, KeepLock, RunFrame
<1>5. ASSUME NEW r \in Runs, ParkRun(r) PROVE TypeOK'
  <2>1. pc' \in [Runs -> Places]
    BY <1>5, GotoTypes DEF ParkRun, Park, Places, Suspended
  <2>2. keepAwakeHeld' \in BOOLEAN /\ wakeLock' \in BOOLEAN
    BY <1>5, ReleaseTypes DEF ParkRun, Park
  <2>3. waiters' \subseteq Runs \X (Workers \cup {Main})
    BY <1>5 DEF ParkRun, Park, TypeOK, Runs
  <2> QED
    BY <1>5, <2>1, <2>2, <2>3 DEF TypeOK, ParkRun, Quiet, RunFrame, Park
<1>6. ASSUME NEW r \in Runs, ReturnAborted(r) PROVE TypeOK'
  <2>1. pc' \in [Runs -> Places] BY <1>6, GotoTypes DEF ReturnAborted, Places, Suspended
  <2>2. state' \in FeedSyncState BY <1>6, ForceIdleTypes DEF ReturnAborted
  <2> QED BY <1>6, <2>1, <2>2 DEF TypeOK, ReturnAborted, RunFrame, KeepLock, Quiet
<1>7. ASSUME NEW r \in Runs, BeginFetch(r) PROVE TypeOK'
  <2>1. pc' \in [Runs -> Places]
    BY <1>7, GotoTypes DEF BeginFetch, Places, Suspended
  <2> QED
    BY <1>7, <2>1 DEF TypeOK, BeginFetch, Quiet, KeepLock, RunFrame
<1>8. ASSUME NEW r \in Runs, Fetched(r) PROVE TypeOK'
  <2>1. state' \in FeedSyncState /\ refused' \in BOOLEAN
    BY <1>8, TransitionTypes DEF Fetched, FeedSyncState
  <2>2. pc' \in [Runs -> Places]
    BY <1>8, GotoTypes DEF Fetched, Places, Suspended
  <2> QED
    BY <1>8, <2>1, <2>2 DEF TypeOK, Fetched, Quiet, KeepLock, RunFrame
<1>9. ASSUME NEW r \in Runs, BeginDiff(r) PROVE TypeOK'
  <2>1. pc' \in [Runs -> Places]
    BY <1>9, GotoTypes DEF BeginDiff, Places, Suspended
  <2> QED
    BY <1>9, <2>1 DEF TypeOK, BeginDiff, Quiet, KeepLock, RunFrame
<1>10. ASSUME NEW r \in Runs, NothingMissing(r) PROVE TypeOK'
  <2>1. state' \in FeedSyncState /\ refused' \in BOOLEAN
    BY <1>10, TransitionTypes DEF NothingMissing, FeedSyncState
  <2>2. pc' \in [Runs -> Places]
    BY <1>10, GotoTypes DEF NothingMissing, Places, Suspended
  <2> QED
    BY <1>10, <2>1, <2>2 DEF TypeOK, NothingMissing, Quiet, KeepLock, RunFrame
<1>11. ASSUME NEW r \in Runs, SomeMissing(r) PROVE TypeOK'
  <2>1. state' \in FeedSyncState /\ refused' \in BOOLEAN
    BY <1>11, TransitionTypes DEF SomeMissing, FeedSyncState
  <2>2. status' \in SyncStatus
    BY <1>11, PublishTypes DEF SomeMissing, FeedSyncState, SyncStatus
  <2>3. pc' \in [Runs -> Places]
    BY <1>11, GotoTypes DEF SomeMissing, Places, Suspended
  <2>4. chunks' \in [Runs -> Nat]
    BY <1>11, BoundsAssumption DEF SomeMissing, TypeOK, Runs
  <2> QED
    BY <1>11, <2>1, <2>2, <2>3, <2>4 DEF TypeOK, SomeMissing, KeepLock, RunFrame
<1>12. ASSUME NEW r \in Runs, BeginHydrate(r) PROVE TypeOK'
  <2>1. pc' \in [Runs -> Places]
    BY <1>12, GotoTypes DEF BeginHydrate, Places, Suspended
  <2>2. worker' \in [Runs -> [Workers -> WorkerState]]
    BY <1>12 DEF BeginHydrate, TypeOK, WorkerState
  <2> QED
    BY <1>12, <2>1, <2>2 DEF TypeOK, BeginHydrate, env, machine
<1>13. ASSUME NEW r \in Runs, Hydrated(r) PROVE TypeOK'
  <2>1. state' \in FeedSyncState /\ refused' \in BOOLEAN
    BY <1>13, TransitionTypes DEF Hydrated, FeedSyncState
  <2>2. status' \in SyncStatus
    BY <1>13, PublishTypes DEF Hydrated, FeedSyncState, SyncStatus
  <2>3. pc' \in [Runs -> Places]
    BY <1>13, GotoTypes DEF Hydrated, Places, Suspended
  <2> QED
    BY <1>13, <2>1, <2>2, <2>3 DEF TypeOK, Hydrated, KeepLock, RunFrame
<1>14. ASSUME NEW r \in Runs, BeginScore(r) PROVE TypeOK'
  <2>1. keepAwakeHeld' \in BOOLEAN /\ wakeLock' \in BOOLEAN
    BY <1>14, ReleaseTypes DEF BeginScore
  <2>2. pc' \in [Runs -> Places]
    BY <1>14, GotoTypes DEF BeginScore, Places, Suspended
  <2> QED
    BY <1>14, <2>1, <2>2 DEF TypeOK, BeginScore, Quiet, RunFrame
<1>15. ASSUME NEW r \in Runs, FinishQuiet(r) PROVE TypeOK'
  <2>1. state' \in FeedSyncState /\ refused' \in BOOLEAN
    BY <1>15, TransitionTypes DEF FinishQuiet, FeedSyncState
  <2>2. pc' \in [Runs -> Places]
    BY <1>15, GotoTypes DEF FinishQuiet, Places, Suspended
  <2>3. status' \in SyncStatus
    BY <1>15 DEF FinishQuiet, TypeOK, SyncStatus, FeedSyncState
  <2>4. finishedBy' \in 0..MaxRuns
    BY <1>15, BoundsAssumption DEF FinishQuiet, TypeOK, Runs, NoRun
  <2> QED
    BY <1>15, <2>1, <2>2, <2>3, <2>4 DEF TypeOK, FinishQuiet, KeepLock, RunFrame
<1>16. ASSUME NEW r \in Runs, Finish(r) PROVE TypeOK'
  <2>1. state' \in FeedSyncState /\ refused' \in BOOLEAN
    BY <1>16, TransitionTypes DEF Finish, FeedSyncState
  <2>2. status' \in SyncStatus
    BY <1>16, PublishTypes DEF Finish, FeedSyncState, SyncStatus
  <2>3. pc' \in [Runs -> Places]
    BY <1>16, GotoTypes DEF Finish, Places, Suspended
  <2> QED
    BY <1>16, <2>1, <2>2, <2>3 DEF TypeOK, Finish, KeepLock, RunFrame
<1>17. ASSUME NEW r \in Runs, SnapshotWritten(r) PROVE TypeOK'
  <2>1. pc' \in [Runs -> Places]
    BY <1>17, GotoTypes DEF SnapshotWritten, Places, Suspended
  <2>2. timers' \subseteq Runs
    BY <1>17 DEF SnapshotWritten, TypeOK
  <2> QED
    BY <1>17, <2>1, <2>2 DEF TypeOK, SnapshotWritten, KeepLock, RunFrame
<1>18. ASSUME NEW r \in Runs, Teardown(r) PROVE TypeOK'
  <2>1. keepAwakeHeld' \in BOOLEAN /\ wakeLock' \in BOOLEAN
    BY <1>18, ReleaseTypes DEF Teardown, Unsubscribed
  <2>2. pc' \in [Runs -> Places] /\ inFlight' \in 0..MaxRuns /\ aged' \in BOOLEAN
    BY <1>18, SettleTypes DEF Teardown, Places
  <2>3. unsub' \in 0..MaxRuns
    BY <1>18, BoundsAssumption DEF Teardown, Unsubscribed, TypeOK, Runs, NoRun
  <2>4. listeners' \subseteq Runs
    BY <1>18 DEF Teardown, Unsubscribed, TypeOK
  <2> QED
    BY <1>18, <2>1, <2>2, <2>3, <2>4 DEF TypeOK, Teardown, pool, Unsubscribed
<1>19. ASSUME NEW r \in Runs, RejectStep(r) PROVE TypeOK'
  <2>1. state' \in FeedSyncState /\ status' \in SyncStatus /\ pc' \in [Runs -> Places]
    BY <1>19, FailTypes DEF RejectStep
  <2> QED
    BY <1>19, <2>1 DEF TypeOK, RejectStep, KeepLock, RunFrame
<1>20. ASSUME NEW r \in Runs, RejectNoTopics(r) PROVE TypeOK'
  <2>1. pc' \in [Runs -> Places] BY <1>20, GotoTypes DEF RejectNoTopics, Places, Suspended
  <2>2. state' \in FeedSyncState BY <1>20, ForceIdleTypes DEF RejectNoTopics
  <2>3. status' \in SyncStatus
    BY <1>20 DEF RejectNoTopics, TypeOK, SyncStatus, FeedSyncState
  <2> QED BY <1>20, <2>1, <2>2, <2>3 DEF TypeOK, RejectNoTopics, RunFrame, KeepLock
<1>21. ASSUME NEW r \in Runs, DoneTimer(r) PROVE TypeOK'
  <2>1. timers' \subseteq Runs BY <1>21 DEF DoneTimer, TypeOK
  <2>2. CASE IsCurrentRun(r) /\ state = "done"
    <3>1. state' \in FeedSyncState /\ refused' \in BOOLEAN
      BY <1>21, <2>2, TransitionTypes DEF DoneTimer, FeedSyncState
    <3>2. status' \in SyncStatus
      BY <1>21, <2>2, PublishTypes DEF DoneTimer, SyncStatus
    <3> QED BY <1>21, <2>1, <3>1, <3>2 DEF TypeOK, DoneTimer, env, runs, pool
  <2>3. CASE ~(IsCurrentRun(r) /\ state = "done")
    BY <1>21, <2>1, <2>3 DEF TypeOK, DoneTimer, env, runs, pool
  <2> QED BY <2>2, <2>3
<1>22. ASSUME NEW r \in Runs, Abort(r) PROVE TypeOK'
  <2>1. aborted' \in [Runs -> BOOLEAN]
    BY <1>22 DEF Abort, TypeOK
  <2> QED
    BY <1>22, <2>1 DEF TypeOK, Abort, pool, env, machine
<1>23. ASSUME NEW r \in Runs, NEW w \in Workers, WorkerPark(r, w) PROVE TypeOK'
  <2>1. keepAwakeHeld' \in BOOLEAN /\ wakeLock' \in BOOLEAN
    BY <1>23, ReleaseTypes DEF WorkerPark, Park
  <2>2. waiters' \subseteq Runs \X (Workers \cup {Main})
    BY <1>23 DEF WorkerPark, MoveWorker, Park, TypeOK, Runs
  <2>3. worker' \in [Runs -> [Workers -> WorkerState]]
    BY <1>23 DEF WorkerPark, MoveWorker, Park, TypeOK, WorkerState
  <2> QED
    BY <1>23, <2>1, <2>2, <2>3 DEF TypeOK, WorkerPark, PoolFrame, env, MoveWorker, Park
<1>24. ASSUME NEW r \in Runs, NEW w \in Workers, WorkerStop(r, w) PROVE TypeOK'
  <2>1. stopLaunching' \in [Runs -> BOOLEAN]
    BY <1>24 DEF WorkerStop, MoveWorker, TypeOK
  <2>2. worker' \in [Runs -> [Workers -> WorkerState]]
    BY <1>24 DEF WorkerStop, MoveWorker, TypeOK, WorkerState
  <2> QED
    BY <1>24, <2>1, <2>2 DEF TypeOK, WorkerStop, NoLock, PoolFrame, env, MoveWorker
<1>25. ASSUME NEW r \in Runs, NEW w \in Workers, WorkerTake(r, w) PROVE TypeOK'
  <2>1. chunks' \in [Runs -> Nat]
    BY <1>25, BoundsAssumption DEF WorkerTake, MoveWorker, TypeOK, Runs
  <2>2. worker' \in [Runs -> [Workers -> WorkerState]]
    BY <1>25 DEF WorkerTake, MoveWorker, TypeOK, WorkerState
  <2> QED
    BY <1>25, <2>1, <2>2 DEF TypeOK, WorkerTake, NoLock, PoolFrame, env, MoveWorker
<1>26. ASSUME NEW r \in Runs, NEW w \in Workers, WorkerLeave(r, w) PROVE TypeOK'
  <2>1. worker' \in [Runs -> [Workers -> WorkerState]]
    BY <1>26 DEF WorkerLeave, MoveWorker, TypeOK, WorkerState
  <2> QED
    BY <1>26, <2>1 DEF TypeOK, WorkerLeave, NoLock, PoolFrame, env, MoveWorker
<1>27. ASSUME NEW r \in Runs, NEW w \in Workers, WorkerChunkDone(r, w) PROVE TypeOK'
  <2>1. status' \in SyncStatus
    BY <1>27, PublishTypes DEF WorkerChunkDone, MoveWorker, FeedSyncState, SyncStatus
  <2>2. worker' \in [Runs -> [Workers -> WorkerState]]
    BY <1>27 DEF WorkerChunkDone, MoveWorker, TypeOK, WorkerState
  <2> QED
    BY <1>27, <2>1, <2>2 DEF TypeOK, WorkerChunkDone, NoLock, PoolFrame, env, MoveWorker
<1>28. ASSUME NEW r \in Runs, NEW w \in Workers, WorkerReject(r, w) PROVE TypeOK'
  <2>1. worker' \in [Runs -> [Workers -> WorkerState]]
    BY <1>28 DEF WorkerReject, MoveWorker, TypeOK, WorkerState
  <2>2. CASE pc[r] = "hydrate"
    BY <1>28, <2>1, <2>2, FailTypes DEF TypeOK, WorkerReject, PoolFrame, NoLock, Places, env
  <2>3. CASE pc[r] # "hydrate"
    BY <1>28, <2>1, <2>3 DEF TypeOK, WorkerReject, PoolFrame, NoLock, env
  <2> QED BY <2>2, <2>3
<1>29. ASSUME NetworkLost PROVE TypeOK'
  <2>1. CASE runSeq \in listeners /\ state \in NetworkDependent
    <3>1. state' \in FeedSyncState /\ refused' \in BOOLEAN
      BY <1>29, <2>1, TransitionTypes DEF NetworkLost, PauseIfDependent, FeedSyncState
    <3>2. status' \in SyncStatus
      BY <1>29, <2>1 DEF NetworkLost, PauseIfDependent, FeedSyncState, SyncStatus
    <3> QED BY <1>29, <2>1, <3>1, <3>2 DEF TypeOK, NetworkLost, PauseIfDependent, runs, pool
  <2>2. CASE ~(runSeq \in listeners /\ state \in NetworkDependent)
    BY <1>29, <2>2 DEF TypeOK, NetworkLost, PauseIfDependent, runs, pool
  <2> QED BY <2>1, <2>2
<1>30. ASSUME NetworkBack PROVE TypeOK'
  <2>1. CASE runSeq \in listeners /\ paused
    <3> DEFINE own == {f \in waiters : f[1] = runSeq}
    <3>1. CASE own = {}
      <4>1. pc' = WokenPc(waiters, {}) /\ worker' = WokenWorker(waiters, {})
        BY <1>30, <2>1, <3>1 DEF NetworkBack
      <4>2. pc' \in [Runs -> Places] /\ worker' \in [Runs -> [Workers -> WorkerState]]
        BY <4>1, WokenTypes
      <4> QED BY <1>30, <2>1, <3>1, <4>2 DEF TypeOK, NetworkBack, Places
    <3>2. CASE own # {}
      <4>1. PICK first \in own, granted \in BOOLEAN :
              LET denied == IF granted THEN {} ELSE {first} IN
              /\ AcquireKeepAwake(runSeq, granted)
              /\ pc' = WokenPc(waiters, denied)
              /\ worker' = WokenWorker(waiters, denied)
        BY <1>30, <2>1, <3>2 DEF NetworkBack
      <4>2. pc' \in [Runs -> Places] /\ worker' \in [Runs -> [Workers -> WorkerState]]
        BY <4>1, WokenTypes
      <4>3. keepAwakeHeld' \in BOOLEAN /\ wakeLock' \in BOOLEAN
        BY <4>1, AcquireTypes
      <4>4. UNCHANGED <<runSeq, state, inFlight, aged, unsub, listeners, finishedBy,
                   refused, timers, status, background, aborted, suppressScoring,
                   chunks, stopLaunching>> /\ paused' = FALSE /\ waiters' = {} /\ connected' = TRUE
        BY <1>30, <2>1 DEF NetworkBack
      <4> QED BY <4>2, <4>3, <4>4 DEF TypeOK
    <3> QED BY <3>1, <3>2
  <2>2. CASE ~(runSeq \in listeners /\ paused)
    BY <1>30, <2>2 DEF TypeOK, NetworkBack
  <2> QED BY <2>1, <2>2
<1>31. ASSUME Age PROVE TypeOK'
  <2>1. aged' \in BOOLEAN
    BY <1>31 DEF Age, TypeOK
  <2> QED
    BY <1>31, <2>1 DEF TypeOK, Age, pool, runs, machine
<1>32. CASE UNCHANGED vars
  BY <1>32 DEF TypeOK, vars, machine, env, runs, pool
<1> QED
  BY <1>1, <1>2, <1>3, <1>4, <1>5, <1>6, <1>7, <1>8, <1>9, <1>10, <1>11,
     <1>12, <1>13, <1>14, <1>15, <1>16, <1>17, <1>18, <1>19, <1>20, <1>21,
     <1>22, <1>23, <1>24, <1>25, <1>26, <1>27, <1>28, <1>29, <1>30, <1>31, <1>32
  DEF Next, RunStep, WorkerStep

\* The fields of a fresh singleton are of their types.
LEMMA InitTypes ==
  ASSUME Init
  PROVE  TypeOK
<1>1. /\ pc \in [Runs -> Places]
      /\ worker \in [Runs -> [Workers -> WorkerState]]
  BY DEF Init, Places, WorkerState
<1>2. /\ background \in [Runs -> BOOLEAN] /\ aborted \in [Runs -> BOOLEAN]
      /\ suppressScoring \in [Runs -> BOOLEAN]
      /\ stopLaunching \in [Runs -> BOOLEAN]
      /\ chunks \in [Runs -> Nat]
  BY DEF Init
<1>3. /\ runSeq \in 0..MaxRuns /\ inFlight \in 0..MaxRuns
      /\ unsub \in 0..MaxRuns /\ finishedBy \in 0..MaxRuns
  BY BoundsAssumption DEF Init, NoRun
<1>4. state \in FeedSyncState /\ status \in SyncStatus
  BY DEF Init, FeedSyncState, SyncStatus
<1> QED
  BY <1>1, <1>2, <1>3, <1>4 DEF Init, TypeOK

\* FeedSyncMachine.ts: every field of the singleton, and every await a frame
\* can be suspended in, is one the code names, in every reachable state.
THEOREM TypeCorrect == Spec => []TypeOK
<1>1. Init => TypeOK
  BY InitTypes
<1>2. TypeOK /\ [Next]_vars => TypeOK'
  BY TypeStep
<1> QED
  BY <1>1, <1>2, PTL DEF Spec
--------------------------------------------------------------------------------
(* One run owns the machine.                                                *)

Parked == {"parkFetch", "parkHydrate"}

\* The runs begun so far are 1..runSeq, and they leave the preamble in order.
Begun ==
  /\ \A r \in Runs : pc[r] = "unborn" <=> r > runSeq
  /\ \A q, r \in Runs : q < r /\ pc[q] = "load" => pc[r] \in {"unborn", "load"}

\* The frame of a run that is registered to be resolved is parked.
MainParked == \A r \in Runs : <<r, Main>> \in waiters => pc[r] \in Parked

OwnerInv == TypeOK /\ Begun /\ MainParked /\ SingleOwner

\* What a step does to the frames of the runs: nothing, one of them goes on,
\* one of them settles, the parked ones wake, or (Start) a new one begins.
MayGo(r) == pc[r] \in Suspended \ Parked /\ (pc[r] = "load" => PreambleTurn(r))

Rests ==
  /\ UNCHANGED <<runSeq, inFlight, pc>>
  /\ \A r \in Runs : <<r, Main>> \in waiters' => <<r, Main>> \in waiters

Advances(r) ==
  /\ MayGo(r)
  /\ UNCHANGED <<runSeq, inFlight>>
  /\ \E x \in Suspended \ {"load"} :
       /\ Goto(r, x)
       /\ waiters' = waiters \/ (x \in Parked /\ waiters' = waiters \cup {<<r, Main>>})

Settles(r) ==
  /\ MayGo(r)
  /\ UNCHANGED <<runSeq, waiters>>
  /\ \E x \in {"stillborn", "over"} : Settle(r, x)

Wakes ==
  /\ UNCHANGED <<runSeq, inFlight>>
  /\ waiters' = {}
  /\ \E D \in SUBSET waiters : pc' = WokenPc(waiters, D)

\* Every step of the machine has one of these shapes.
LEMMA Shapes ==
  ASSUME TypeOK, Next
  PROVE  \/ Rests \/ Wakes
         \/ \E r \in Runs : Advances(r) \/ Settles(r)
         \/ \E b \in Callers : Start(b)
<1>1. ASSUME NEW r \in Runs, PreambleFails(r) PROVE Settles(r)
  BY <1>1 DEF PreambleFails, pool, Settles, MayGo, Parked, Suspended,
    PreambleTurn
<1>2. ASSUME NEW r \in Runs, Arm(r) PROVE Advances(r) \/ Settles(r)
  BY <1>2 DEF Arm, pool, Settle, Goto, Advances, MayGo, Parked, Suspended,
    Settles, PreambleTurn
<1>3. ASSUME NEW r \in Runs, CheckPipeline(r) PROVE Advances(r)
  BY <1>3 DEF CheckPipeline, Quiet, KeepLock, RunFrame, Goto, Advances,
    MayGo, Parked, Suspended
<1>4. ASSUME NEW r \in Runs, ParkRun(r) PROVE Advances(r)
  BY <1>4 DEF ParkRun, Quiet, RunFrame, Goto, Park, Advances, MayGo, Parked,
    Suspended
<1>5. ASSUME NEW r \in Runs, ReturnAborted(r) PROVE Advances(r)
  BY <1>5 DEF ReturnAborted, Quiet, KeepLock, RunFrame, Goto, AtAbortCheck,
    PastWait, Advances, MayGo, Parked, Suspended
<1>6. ASSUME NEW r \in Runs, BeginFetch(r) PROVE Advances(r)
  BY <1>6 DEF BeginFetch, Quiet, KeepLock, RunFrame, Goto, PastWait,
    Advances, MayGo, Parked, Suspended
<1>7. ASSUME NEW r \in Runs, Fetched(r) PROVE Advances(r)
  BY <1>7 DEF Fetched, Quiet, KeepLock, RunFrame, Goto, Advances, MayGo,
    Parked, Suspended
<1>8. ASSUME NEW r \in Runs, BeginDiff(r) PROVE Advances(r)
  BY <1>8 DEF BeginDiff, Quiet, KeepLock, RunFrame, Goto, Advances, MayGo,
    Parked, Suspended
<1>9. ASSUME NEW r \in Runs, NothingMissing(r) PROVE Advances(r)
  BY <1>9 DEF NothingMissing, Quiet, KeepLock, RunFrame, Goto, Advances,
    MayGo, Parked, Suspended
<1>10. ASSUME NEW r \in Runs, SomeMissing(r) PROVE Advances(r)
  BY <1>10 DEF SomeMissing, KeepLock, RunFrame, Goto, Advances, MayGo,
    Parked, Suspended
<1>11. ASSUME NEW r \in Runs, BeginHydrate(r) PROVE Advances(r)
  BY <1>11 DEF BeginHydrate, env, machine, Goto, PastWait, Advances, MayGo,
    Parked, Suspended
<1>12. ASSUME NEW r \in Runs, Hydrated(r) PROVE Advances(r)
  BY <1>12 DEF Hydrated, KeepLock, RunFrame, Goto, Advances, MayGo, Parked,
    Suspended
<1>13. ASSUME NEW r \in Runs, BeginScore(r) PROVE Advances(r)
  BY <1>13 DEF BeginScore, Quiet, RunFrame, Goto, Advances, MayGo, Parked,
    Suspended
<1>14. ASSUME NEW r \in Runs, FinishQuiet(r) PROVE Advances(r)
  BY <1>14 DEF FinishQuiet, KeepLock, RunFrame, Goto, Advances, MayGo,
    Parked, Suspended
<1>15. ASSUME NEW r \in Runs, Finish(r) PROVE Advances(r)
  BY <1>15 DEF Finish, KeepLock, RunFrame, Goto, Advances, MayGo, Parked,
    Suspended
<1>16. ASSUME NEW r \in Runs, SnapshotWritten(r) PROVE Advances(r)
  BY <1>16 DEF SnapshotWritten, KeepLock, RunFrame, Goto, Advances, MayGo,
    Parked, Suspended
<1>17. ASSUME NEW r \in Runs, Teardown(r) PROVE Settles(r)
  BY <1>17 DEF Teardown, pool, Settles, MayGo, Parked, Suspended
<1>18. ASSUME NEW r \in Runs, RejectStep(r) PROVE Advances(r)
  BY <1>18 DEF RejectStep, KeepLock, RunFrame, FailRun, Goto, MayReject,
    Advances, MayGo, Parked, Suspended
<1>19. ASSUME NEW r \in Runs, RejectNoTopics(r) PROVE Advances(r)
  BY <1>19 DEF RejectNoTopics, KeepLock, RunFrame, Goto, Advances, MayGo,
    Parked, Suspended
<1>20. ASSUME NEW r \in Runs, DoneTimer(r) PROVE Rests
  BY <1>20 DEF DoneTimer, pool, runs, env, Rests
<1>21. ASSUME NEW r \in Runs, Abort(r) PROVE Rests
  BY <1>21 DEF Abort, pool, env, machine, Rests
<1>22. ASSUME NEW r \in Runs, NEW w \in Workers, WorkerPark(r, w) PROVE Rests
  BY <1>22, FramesAssumption DEF WorkerPark, PoolFrame, env, MoveWorker,
    Park, Rests
<1>23. ASSUME NEW r \in Runs, NEW w \in Workers, WorkerStop(r, w) PROVE Rests
  BY <1>23 DEF WorkerStop, NoLock, PoolFrame, env, MoveWorker, MayTake,
    Rests
<1>24. ASSUME NEW r \in Runs, NEW w \in Workers, WorkerTake(r, w) PROVE Rests
  BY <1>24 DEF WorkerTake, NoLock, PoolFrame, env, MoveWorker, MayTake,
    Rests
<1>25. ASSUME NEW r \in Runs, NEW w \in Workers, WorkerLeave(r, w) PROVE Rests
  BY <1>25 DEF WorkerLeave, NoLock, PoolFrame, env, MoveWorker, MayTake,
    Rests
<1>26. ASSUME NEW r \in Runs, NEW w \in Workers, WorkerChunkDone(r, w) PROVE Rests
  BY <1>26 DEF WorkerChunkDone, NoLock, PoolFrame, env, MoveWorker, Rests
<1>27. ASSUME NEW r \in Runs, NEW w \in Workers, WorkerReject(r, w) PROVE Advances(r) \/ Rests
  BY <1>27 DEF WorkerReject, NoLock, PoolFrame, env, FailRun, Goto,
    MoveWorker, Advances, MayGo, Parked, Suspended, Rests
<1>28. ASSUME NetworkLost PROVE Rests
  BY <1>28 DEF NetworkLost, pool, runs, PauseIfDependent, Rests
<1>29. ASSUME NetworkBack PROVE Wakes \/ Rests
  BY <1>29 DEF NetworkBack, Rests, Wakes
<1>30. ASSUME Age PROVE Rests
  BY <1>30 DEF Age, pool, runs, machine, Rests
<1> QED
  BY <1>1, <1>2, <1>3, <1>4, <1>5, <1>6, <1>7, <1>8, <1>9, <1>10, <1>11,
     <1>12, <1>13, <1>14, <1>15, <1>16, <1>17, <1>18, <1>19, <1>20, <1>21,
     <1>22, <1>23, <1>24, <1>25, <1>26, <1>27, <1>28, <1>29, <1>30
  DEF Next, RunStep, WorkerStep

\* A step that moves no frame keeps the invariant.
LEMMA OwnerRests ==
  ASSUME OwnerInv, TypeOK', Rests
  PROVE  OwnerInv'
  BY DEF OwnerInv, TypeOK, Rests, Begun, MainParked, SingleOwner, Live, Suspended, Parked

\* A frame going on keeps it: the run stays alive and keeps its slot.
LEMMA OwnerAdvances ==
  ASSUME OwnerInv, TypeOK', NEW r \in Runs, Advances(r)
  PROVE  OwnerInv'
<1>1. Begun' BY DEF OwnerInv, TypeOK, Advances, MayGo, Goto, Begun, PreambleTurn, Suspended
<1>2. MainParked' BY DEF OwnerInv, TypeOK, Advances, MayGo, Goto, MainParked, Suspended, Parked
<1>3. SingleOwner' BY DEF OwnerInv, TypeOK, Advances, MayGo, Goto, SingleOwner, Live, Suspended
<1> QED BY <1>1, <1>2, <1>3 DEF OwnerInv

\* A run settling keeps it: only the owner of the slot clears the slot.
LEMMA OwnerSettles ==
  ASSUME OwnerInv, TypeOK', NEW r \in Runs, Settles(r)
  PROVE  OwnerInv'
<1>1. Begun' BY DEF OwnerInv, TypeOK, Settles, MayGo, Settle, Goto, Begun, PreambleTurn, Suspended
<1>2. MainParked' BY DEF OwnerInv, TypeOK, Settles, MayGo, Settle, Goto, MainParked, Suspended, Parked
<1>3. SingleOwner' BY DEF OwnerInv, TypeOK, Settles, MayGo, Settle, Goto, SingleOwner, Live, Suspended, NoRun, Runs, Begun
<1> QED BY <1>1, <1>2, <1>3 DEF OwnerInv

\* Waking parked frames keeps it: they belong to live runs and stay so.
LEMMA OwnerWakes ==
  ASSUME OwnerInv, TypeOK', Wakes
  PROVE  OwnerInv'
<1>1. Begun' BY DEF OwnerInv, TypeOK, Wakes, WokenPc, Begun, MainParked, Suspended, Parked
<1>2. MainParked' BY DEF OwnerInv, TypeOK, Wakes, WokenPc, MainParked, Suspended, Parked
<1>3. \A r \in Runs : Live(r) <=> Live(r)'
  BY DEF OwnerInv, TypeOK, Wakes, WokenPc, MainParked, Live, Suspended, Parked
<1>4. SingleOwner'
  BY <1>3 DEF OwnerInv, TypeOK, Wakes, SingleOwner, NoRun, Runs
<1> QED BY <1>1, <1>2, <1>4 DEF OwnerInv

\* start() keeps it: the slot goes to the run it begins.
LEMMA OwnerStart ==
  ASSUME OwnerInv, TypeOK', NEW b \in Callers, Start(b)
  PROVE  OwnerInv'
<1> DEFINE freed == IF inFlight = NoRun THEN {} ELSE waiters
<1>1. /\ runSeq' = runSeq + 1 /\ runSeq + 1 \in Runs
      /\ pc' = [WokenPc(freed, {}) EXCEPT ![runSeq + 1] = "load"]
  BY BoundsAssumption DEF OwnerInv, TypeOK, Start, Runs
<1>2. pc'[runSeq + 1] = "load"
  BY <1>1 DEF WokenPc
<1>3. \A r \in Runs : r # runSeq + 1 =>
        \/ pc'[r] = pc[r]
        \/ pc[r] \in Parked /\ pc'[r] \in Suspended \ {"load"}
  BY <1>1 DEF OwnerInv, MainParked, WokenPc, Suspended
<1>4. Begun'
  <2>1. runSeq \in Nat /\ \A r \in Runs : r \in Nat
    BY BoundsAssumption DEF OwnerInv, TypeOK, Runs
  <2>2. \A r \in Runs : r # runSeq + 1 =>
          /\ pc'[r] = "unborn" <=> pc[r] = "unborn"
          /\ pc'[r] = "load" <=> pc[r] = "load"
  BY <1>3 DEF Suspended, Parked
  <2>3. ASSUME NEW r \in Runs PROVE pc'[r] = "unborn" <=> r > runSeq'
    <3>1. CASE r = runSeq + 1 BY <1>1, <1>2, <2>1, <3>1
    <3>2. CASE r # runSeq + 1
      <4>1. pc[r] = "unborn" <=> r > runSeq BY DEF OwnerInv, Begun
      <4> QED BY <1>1, <2>1, <2>2, <3>2, <4>1
    <3> QED BY <3>1, <3>2
  <2>4. ASSUME NEW q \in Runs, NEW r \in Runs, q < r, pc'[q] = "load"
        PROVE  pc'[r] \in {"unborn", "load"}
    <3>1. CASE r = runSeq + 1 BY <1>2, <3>1
    <3>2. CASE r # runSeq + 1 /\ q # runSeq + 1
      <4>1. pc[r] \in {"unborn", "load"}
        BY <2>2, <2>4, <3>2 DEF OwnerInv, Begun
      <4> QED BY <2>2, <3>2, <4>1
    <3>3. CASE r # runSeq + 1 /\ q = runSeq + 1
      BY <1>1, <2>1, <2>3, <2>4, <3>3
    <3> QED BY <3>1, <3>2, <3>3
  <2> QED BY <2>3, <2>4 DEF Begun
<1>5. MainParked' BY BoundsAssumption DEF OwnerInv, TypeOK, Start, WokenPc, Begun, MainParked, Suspended, Parked, Runs, NoRun
<1>6. SingleOwner' BY BoundsAssumption DEF OwnerInv, TypeOK, Start, WokenPc, Begun, SingleOwner, MainParked, Live, Suspended, Parked, NoRun, Runs
<1> QED BY <1>4, <1>5, <1>6 DEF OwnerInv

\* The invariant holds before the first run.
LEMMA OwnerInit ==
  Init => Begun /\ MainParked /\ SingleOwner
  BY BoundsAssumption DEF Init, Begun, MainParked, SingleOwner, Live, Runs, NoRun, Suspended

\* The invariant is inductive.
LEMMA OwnerStep ==
  ASSUME OwnerInv, TypeOK', [Next]_vars
  PROVE  OwnerInv'
<1>1. CASE Next
  <2>1. TypeOK BY DEF OwnerInv
  <2> QED
    BY <1>1, <2>1, Shapes, OwnerRests, OwnerAdvances, OwnerSettles, OwnerWakes,
       OwnerStart
<1>2. CASE UNCHANGED vars
  BY <1>2, OwnerRests DEF vars, machine, runs, Rests
<1> QED
  BY <1>1, <1>2

\* FeedSyncMachine.ts start() and its .finally (L118-173): however many runs
\* are abandoned, the slot holds the newest run for exactly as long as that run
\* is alive, so start() never begins a second run beside a live one that is
\* neither stale nor cancelled, and never hands a caller a settled run.
THEOREM OwnerUnique == Spec => []SingleOwner
<1>1. Init => OwnerInv
  BY InitTypes, OwnerInit DEF OwnerInv
<1>2. OwnerInv /\ [Next]_vars => OwnerInv'
  BY TypeStep, OwnerStep DEF OwnerInv
<1>3. OwnerInv => SingleOwner
  BY DEF OwnerInv
<1> QED
  BY <1>1, <1>2, <1>3, PTL DEF Spec
--------------------------------------------------------------------------------
(* No listener leaks.                                                       *)

\* Taking the machine over removes the old listener before it adds its own.
LEMMA ArmListeners ==
  ASSUME TypeOK, ListenersBounded, NEW r \in Runs, Arm(r)
  PROVE  ListenersBounded'
<1>1. Unsubscribed = {}
  BY DEF ListenersBounded, Unsubscribed
<1>2. r # NoRun
  BY DEF Runs, NoRun
<1>3. CASE background[r]
  BY <1>1, <1>3 DEF Arm, ListenersBounded
<1>4. CASE ~background[r]
  <2>1. unsub' = r /\ listeners' = {r} BY <1>1, <1>4 DEF Arm
  <2> QED BY <1>2, <2>1 DEF ListenersBounded
<1> QED BY <1>3, <1>4

\* The newest run's teardown removes the listener with its handle.
LEMMA TeardownListeners ==
  ASSUME TypeOK, ListenersBounded, NEW r \in Runs, Teardown(r)
  PROVE  ListenersBounded'
<1>1. CASE IsCurrentRun(r)
  BY <1>1 DEF Teardown, ListenersBounded, Unsubscribed
<1>2. CASE ~IsCurrentRun(r)
  BY <1>2 DEF Teardown, ListenersBounded
<1> QED BY <1>1, <1>2

\* Nothing else touches the listeners.
LEMMA OthersListeners ==
  ASSUME Next, ~(\E r \in Runs : Arm(r) \/ Teardown(r))
  PROVE  UNCHANGED <<unsub, listeners>>
<1> USE DEF RunFrame, PoolFrame, machine, env
<1>1. ASSUME NEW b \in Callers, Start(b) PROVE UNCHANGED <<unsub, listeners>>
  BY <1>1 DEF Start
<1>2. ASSUME NEW r \in Runs, RunStep(r) PROVE UNCHANGED <<unsub, listeners>>
  <2>1. ~Arm(r) /\ ~Teardown(r) OBVIOUS
  <2> QED
    BY <1>2, <2>1 DEF RunStep, PreambleFails, CheckPipeline, ParkRun,
      ReturnAborted, BeginFetch, Fetched, BeginDiff, NothingMissing,
      SomeMissing, BeginHydrate, Hydrated, BeginScore, FinishQuiet, Finish,
      SnapshotWritten, RejectStep, RejectNoTopics
<1>3. ASSUME NEW r \in Runs, DoneTimer(r) \/ Abort(r)
      PROVE  UNCHANGED <<unsub, listeners>>
  BY <1>3 DEF DoneTimer, Abort
<1>4. ASSUME NEW r \in Runs, NEW w \in Workers, WorkerStep(r, w)
      PROVE  UNCHANGED <<unsub, listeners>>
  BY <1>4 DEF WorkerStep, WorkerPark, WorkerStop, WorkerTake, WorkerLeave,
    WorkerChunkDone, WorkerReject
<1>5. ASSUME NetworkLost \/ NetworkBack \/ Age PROVE UNCHANGED <<unsub, listeners>>
  BY <1>5 DEF NetworkLost, NetworkBack, Age
<1> QED
  BY <1>1, <1>2, <1>3, <1>4, <1>5 DEF Next

\* So every step keeps it.
LEMMA ListenersStep == TypeOK /\ ListenersBounded /\ [Next]_vars => ListenersBounded'
<1> SUFFICES ASSUME TypeOK, ListenersBounded, [Next]_vars
             PROVE  ListenersBounded'
  OBVIOUS
<1>1. CASE \E r \in Runs : Arm(r) \/ Teardown(r)
  BY <1>1, ArmListeners, TeardownListeners
<1>2. CASE Next /\ ~(\E r \in Runs : Arm(r) \/ Teardown(r))
  BY <1>2, OthersListeners DEF ListenersBounded
<1>3. CASE UNCHANGED vars
  BY <1>3 DEF vars, machine, ListenersBounded
<1> QED BY <1>1, <1>2, <1>3

\* FeedSyncMachine.ts L187-225 and L241-248: however many runs are abandoned with
\* a listener of their own, the network store calls only the one listener the
\* singleton still holds the handle of.
THEOREM NoListenerLeaks == Spec => []ListenersBounded
<1>1. Init => ListenersBounded
  BY DEF Init, ListenersBounded, NoRun
<1> QED
  BY <1>1, ListenersStep, TypeCorrect, PTL DEF Spec
--------------------------------------------------------------------------------
(* An abandoned run is inert.                                               *)

\* What the run in charge of the machine relies on.
Relied == <<state, paused, waiters, keepAwakeHeld, wakeLock, unsub, listeners,
            inFlight, finishedBy>>

\* A step of another run, and every step that is no run's, moves no run r.
LEMMA MoverIsTheRun ==
  ASSUME TypeOK, NEW r \in Runs, Next, Moved(r)
  PROVE  \/ RunStep(r) \/ DoneTimer(r)
         \/ \E w \in Workers : WorkerStep(r, w)
<1> USE DEF RunFrame, PoolFrame, machine, env, pool, runs, Quiet, TypeOK
<1>1. ASSUME NEW q \in Runs, q # r, RunStep(q) PROVE FALSE
  <2>1. pc'[r] = pc[r]
    BY <1>1 DEF RunStep, PreambleFails, Arm, CheckPipeline, ParkRun,
      ReturnAborted, BeginFetch, Fetched, BeginDiff, NothingMissing,
      SomeMissing, BeginHydrate, Hydrated, BeginScore, FinishQuiet, Finish,
      SnapshotWritten, Teardown, RejectStep, RejectNoTopics, FailRun, Goto, Settle
  <2>2. worker'[r] = worker[r]
    BY <1>1 DEF RunStep, PreambleFails, Arm, CheckPipeline, ParkRun,
      ReturnAborted, BeginFetch, Fetched, BeginDiff, NothingMissing,
      SomeMissing, BeginHydrate, Hydrated, BeginScore, FinishQuiet, Finish,
      SnapshotWritten, Teardown, RejectStep, RejectNoTopics
  <2>3. r \in timers <=> r \in timers'
    BY <1>1 DEF RunStep, PreambleFails, Arm, CheckPipeline, ParkRun,
      ReturnAborted, BeginFetch, Fetched, BeginDiff, NothingMissing,
      SomeMissing, BeginHydrate, Hydrated, BeginScore, FinishQuiet, Finish,
      SnapshotWritten, Teardown, RejectStep, RejectNoTopics
  <2> QED BY <2>1, <2>2, <2>3 DEF Moved
<1>2. ASSUME NEW q \in Runs, q # r, DoneTimer(q) PROVE FALSE
  BY <1>2 DEF DoneTimer, Moved
<1>3. ASSUME NEW q \in Runs, Abort(q) PROVE FALSE
  BY <1>3 DEF Abort, Moved
<1>4. ASSUME NEW q \in Runs, q # r, NEW w \in Workers, WorkerStep(q, w)
      PROVE  FALSE
  <2>1. pc'[r] = pc[r] /\ worker'[r] = worker[r] /\ timers' = timers
    BY <1>4 DEF WorkerStep, WorkerPark, WorkerStop, WorkerTake, WorkerLeave,
      WorkerChunkDone, WorkerReject, MoveWorker, FailRun, Goto
  <2> QED BY <2>1 DEF Moved
<1>5. ASSUME NEW b \in Callers, Start(b) PROVE FALSE
  BY <1>5 DEF Start, Moved
<1>6. ASSUME NetworkLost \/ Age PROVE FALSE
  BY <1>6 DEF NetworkLost, Age, Moved
<1>7. ASSUME NetworkBack PROVE FALSE
  BY <1>7 DEF NetworkBack, Moved
<1> QED
  BY <1>1, <1>2, <1>3, <1>4, <1>5, <1>6, <1>7 DEF Next

\* The slot is not an abandoned run's to clear, and its place is not the
\* preamble, so each write of its steps is behind a guard that fails.
LEMMA AbandonedRunInert ==
  ASSUME OwnerInv, NEW r \in Runs, r # runSeq, pc[r] # "load", RunStep(r)
  PROVE  UNCHANGED Relied
<1> USE DEF RunFrame, KeepLock, Quiet, Relied
<1>1. ~IsCurrentRun(r) /\ inFlight # r
  BY DEF OwnerInv, SingleOwner, IsCurrentRun, NoRun, Runs
<1>2. ~PreambleFails(r) /\ ~Arm(r)
  BY DEF PreambleFails, Arm, PreambleTurn
<1>3. ~ParkRun(r)
  BY <1>1 DEF ParkRun, MustPark
<1>4. CASE CheckPipeline(r) \/ Fetched(r) \/ NothingMissing(r)
           \/ SomeMissing(r) \/ Hydrated(r) \/ Finish(r)
  BY <1>1, <1>4 DEF CheckPipeline, Fetched, NothingMissing, SomeMissing,
    Hydrated, Finish, TransitionTo
<1>5. CASE BeginFetch(r) \/ BeginDiff(r) \/ BeginHydrate(r) \/ SnapshotWritten(r)
  BY <1>5 DEF BeginFetch, BeginDiff, BeginHydrate, SnapshotWritten, machine
<1>6. CASE ReturnAborted(r) \/ RejectNoTopics(r)
  BY <1>1, <1>6 DEF ReturnAborted, RejectNoTopics, ForceIdle
<1>7. CASE BeginScore(r)
  BY <1>1, <1>7 DEF BeginScore, ReleaseKeepAwake
<1>8. CASE FinishQuiet(r)
  BY <1>1, <1>8 DEF FinishQuiet, TransitionTo
<1>9. CASE Teardown(r)
  BY <1>1, <1>9 DEF Teardown, ReleaseKeepAwake, Settle
<1>10. CASE RejectStep(r)
  BY <1>1, <1>10 DEF RejectStep, FailRun
<1> QED
  BY <1>2, <1>3, <1>4, <1>5, <1>6, <1>7, <1>8, <1>9, <1>10 DEF RunStep

\* Neither is anything its timer or its pool frames may still do.
LEMMA AbandonedPoolInert ==
  ASSUME NEW r \in Runs, r # runSeq,
         DoneTimer(r) \/ \E w \in Workers : WorkerStep(r, w)
  PROVE  UNCHANGED Relied
<1> USE DEF Relied, PoolFrame, NoLock
<1>1. ~IsCurrentRun(r) BY DEF IsCurrentRun
<1>2. CASE DoneTimer(r) BY <1>1, <1>2 DEF DoneTimer
<1>3. ASSUME NEW w \in Workers, WorkerStep(r, w) PROVE UNCHANGED Relied
  <2>1. ~WorkerPark(r, w) BY <1>1 DEF WorkerPark, MustPark
  <2>2. CASE WorkerReject(r, w) BY <1>1, <2>2 DEF WorkerReject, FailRun
  <2>3. CASE WorkerStop(r, w) \/ WorkerTake(r, w) \/ WorkerLeave(r, w)
             \/ WorkerChunkDone(r, w)
    BY <2>3 DEF WorkerStop, WorkerTake, WorkerLeave, WorkerChunkDone
  <2> QED BY <1>3, <2>1, <2>2, <2>3 DEF WorkerStep
<1> QED BY <1>2, <1>3

\* FeedSyncMachine.ts, _isCurrentRun and its callers (L645-719): past its
\* preamble, a run that was abandoned goes on executing and changes nothing
\* its successor relies on, whatever it is suspended in when it is replaced.
THEOREM AbandonedInert == Spec => ZombieInert
<1>1. Init => OwnerInv
  BY InitTypes, OwnerInit DEF OwnerInv
<1>2. OwnerInv /\ [Next]_vars => OwnerInv'
  BY TypeStep, OwnerStep DEF OwnerInv
<1>3. OwnerInv /\ [Next]_vars =>
        [\A r \in Runs :
           r # runSeq /\ pc[r] # "load" /\ Moved(r) =>
             UNCHANGED <<state, paused, waiters, keepAwakeHeld, wakeLock, unsub,
                         listeners, inFlight, finishedBy>>]_vars
  <2> SUFFICES ASSUME OwnerInv, Next,
                      NEW r \in Runs, r # runSeq, pc[r] # "load", Moved(r)
               PROVE  UNCHANGED Relied
    BY DEF Relied
  <2>1. TypeOK BY DEF OwnerInv
  <2>2. RunStep(r) \/ DoneTimer(r) \/ \E w \in Workers : WorkerStep(r, w)
    BY <2>1, MoverIsTheRun
  <2> QED BY <2>2, AbandonedRunInert, AbandonedPoolInert
<1> QED
  BY <1>1, <1>2, <1>3, PTL DEF Spec, ZombieInert
--------------------------------------------------------------------------------
(* The machine is a single-flight slot.                                     *)

\* A run that has not begun has a signal nobody has fired.
FreshSignal == \A r \in Runs : pc[r] = "unborn" => ~aborted[r]

FlightInv == OwnerInv /\ FreshSignal

Starts == \E b \in Callers : Start(b)

\* Only start() says who a run works for; only an abort fires a signal.
LEMMA Signals ==
  ASSUME Next, ~Starts
  PROVE  background' = background /\ (aborted' = aborted \/ \E r \in Runs : Abort(r))
<1> USE DEF RunFrame, PoolFrame, machine, env, runs
<1>1. ASSUME NEW r \in Runs, RunStep(r) PROVE UNCHANGED <<background, aborted>>
  BY <1>1 DEF RunStep, PreambleFails, Arm, CheckPipeline, ParkRun,
    ReturnAborted, BeginFetch, Fetched, BeginDiff, NothingMissing,
    SomeMissing, BeginHydrate, Hydrated, BeginScore, FinishQuiet, Finish,
    SnapshotWritten, Teardown, RejectStep, RejectNoTopics
<1>2. ASSUME NEW r \in Runs, DoneTimer(r) PROVE UNCHANGED <<background, aborted>>
  BY <1>2 DEF DoneTimer
<1>3. ASSUME NEW r \in Runs, Abort(r) PROVE background' = background
  BY <1>3 DEF Abort
<1>4. ASSUME NEW r \in Runs, NEW w \in Workers, WorkerStep(r, w)
      PROVE  UNCHANGED <<background, aborted>>
  BY <1>4 DEF WorkerStep, WorkerPark, WorkerStop, WorkerTake, WorkerLeave,
    WorkerChunkDone, WorkerReject
<1>5. ASSUME NetworkLost \/ NetworkBack \/ Age
      PROVE  UNCHANGED <<background, aborted>>
  BY <1>5 DEF NetworkLost, NetworkBack, Age
<1> QED
  BY <1>1, <1>2, <1>3, <1>4, <1>5 DEF Next, Starts

\* The slot's age changes when time passes and when a run settles.
LEMMA AgedMoves ==
  ASSUME Next, ~Starts
  PROVE  aged' = aged \/ Age \/ \E r \in Runs : Settles(r)
<1> USE DEF RunFrame, PoolFrame, machine, env, runs
<1>1. ASSUME NEW r \in Runs, PreambleFails(r) \/ Teardown(r) PROVE Settles(r)
  BY <1>1 DEF PreambleFails, Teardown, pool, Settles, MayGo, Parked, Suspended,
    PreambleTurn
<1>2. ASSUME NEW r \in Runs, Arm(r) PROVE aged' = aged \/ Settles(r)
  BY <1>2 DEF Arm, pool, Settle, Goto, MayGo, Parked, Suspended, Settles,
    PreambleTurn
<1>3. ASSUME NEW r \in Runs, RunStep(r), ~Arm(r), ~PreambleFails(r), ~Teardown(r)
      PROVE  aged' = aged
  BY <1>3 DEF RunStep, CheckPipeline, ParkRun, ReturnAborted, BeginFetch,
    Fetched, BeginDiff, NothingMissing, SomeMissing, BeginHydrate, Hydrated,
    BeginScore, FinishQuiet, Finish, SnapshotWritten, RejectStep,
    RejectNoTopics
<1>4. ASSUME NEW r \in Runs, DoneTimer(r) \/ Abort(r) PROVE aged' = aged
  BY <1>4 DEF DoneTimer, Abort
<1>5. ASSUME NEW r \in Runs, NEW w \in Workers, WorkerStep(r, w) PROVE aged' = aged
  BY <1>5 DEF WorkerStep, WorkerPark, WorkerStop, WorkerTake, WorkerLeave,
    WorkerChunkDone, WorkerReject
<1>6. ASSUME NetworkLost \/ NetworkBack PROVE aged' = aged
  BY <1>6 DEF NetworkLost, NetworkBack
<1> QED
  BY <1>1, <1>2, <1>3, <1>4, <1>5, <1>6 DEF Next, Starts

\* The invariant is inductive.
LEMMA FlightStep ==
  ASSUME FlightInv, [Next]_vars
  PROVE  FlightInv'
<1>1. OwnerInv'
  BY TypeStep, OwnerStep DEF FlightInv, OwnerInv
<1>2. FreshSignal'
  <2>1. CASE Starts
    <3>1. PICK b \in Callers : Start(b) BY <2>1 DEF Starts
    <3>2. ASSUME NEW r \in Runs, pc'[r] = "unborn" PROVE pc[r] = "unborn"
      <4>1. PICK F : pc' = [WokenPc(F, {}) EXCEPT ![runSeq + 1] = "load"]
        BY <3>1 DEF Start
      <4> QED BY <3>2, <4>1 DEF WokenPc
    <3>3. aborted' = aborted BY <3>1 DEF Start
    <3> QED BY <3>2, <3>3 DEF FlightInv, FreshSignal
  <2>2. CASE Next /\ ~Starts
    <3>1. \A r \in Runs : pc'[r] = "unborn" => pc[r] = "unborn"
      BY <1>1, <2>2, Shapes
      DEF Starts, FlightInv, OwnerInv, Begun, Rests, Wakes, Advances, Settles
    <3>2. aborted' = aborted \/ \E r \in Runs : Abort(r)
      BY <2>2, Signals
    <3> QED
      BY <3>1, <3>2 DEF Abort, FlightInv, FreshSignal, OwnerInv, TypeOK, Suspended
  <2>3. CASE UNCHANGED vars
    BY <2>3 DEF vars, runs, FlightInv, FreshSignal
  <2> QED BY <2>1, <2>2, <2>3 DEF Starts
<1> QED BY <1>1, <1>2 DEF FlightInv

\* A step of start() takes the slot for a new run.
LEMMA StartTakes ==
  ASSUME FlightInv, FlightInv', Starts
  PROVE  Flight!Begin
<1>1. PICK b \in Callers : Start(b) BY DEF Starts
<1>2. runSeq < MaxRuns /\ runSeq + 1 \in Runs
  BY <1>1, BoundsAssumption DEF Start, FlightInv, OwnerInv, TypeOK, Runs
<1>3. inFlight = 0 \/ Evictable
  BY <1>1 DEF Start, Joinable, Evictable, NoRun
<1>4. runSeq' = runSeq + 1 /\ inFlight' = runSeq + 1
  BY <1>1 DEF Start
<1>5. {r \in Runs : Live(r)}' = {r \in Runs : Live(r)} \cup {runSeq + 1}
  <2>1. ASSUME NEW r \in Runs PROVE Live(r)' <=> Live(r) \/ r = runSeq + 1
    BY <1>1, <1>2
    DEF Start, FlightInv, OwnerInv, TypeOK, MainParked, WokenPc, Live,
        Suspended, Parked
  <2> QED BY <1>2, <2>1
<1>6. Evictable' = FALSE
  <2>1. pc[runSeq + 1] = "unborn"
    BY <1>2, BoundsAssumption DEF FlightInv, OwnerInv, TypeOK, Begun, Runs
  <2>2. aged' = FALSE /\ ~aborted'[inFlight']
    BY <1>1, <1>2, <1>4, <2>1 DEF Start, FlightInv, FreshSignal
  <2> QED BY <2>2 DEF Evictable
<1> QED BY <1>2, <1>3, <1>4, <1>5, <1>6 DEF Flight!Begin

\* A run settling ends it, and frees the slot only if it holds it.
LEMMA SettleEnds ==
  ASSUME FlightInv, FlightInv', Next, ~Starts, NEW r \in Runs, Settles(r)
  PROVE  Flight!End(r) /\ Live(r)
<1>1. Live(r) BY DEF Settles, MayGo, Live, Suspended, Parked
<1>2. PICK x \in {"stillborn", "over"} : Settle(r, x) BY DEF Settles
<1>3. {q \in Runs : Live(q)}' = {q \in Runs : Live(q)} \ {r}
  <2>1. ASSUME NEW q \in Runs PROVE Live(q)' <=> Live(q) /\ q # r
    BY <1>2 DEF Settle, Goto, FlightInv, OwnerInv, TypeOK, Live, Suspended
  <2> QED BY <2>1
<1>4. background' = background /\ aborted' = aborted
  <2>1. pc' # pc
    BY <1>1, <1>2 DEF Settle, Goto, FlightInv, OwnerInv, TypeOK, Live, Suspended
  <2> QED BY <2>1, Signals DEF Abort
<1>5. IF r = inFlight THEN inFlight' = 0 /\ Evictable' = FALSE
                      ELSE UNCHANGED <<inFlight, Evictable>>
  BY <1>2, <1>4 DEF Settle, Evictable, NoRun
<1>6. runSeq' = runSeq BY DEF Settles
<1> QED BY <1>1, <1>3, <1>5, <1>6 DEF Flight!End

\* Every other step leaves the slot alone, or makes its holder evictable.
LEMMA OthersKeep ==
  ASSUME FlightInv, FlightInv', Next, ~Starts, ~\E r \in Runs : Settles(r)
  PROVE  Flight!Expire \/ UNCHANGED Flight!slot
<1>1. Rests \/ Wakes \/ \E r \in Runs : Advances(r)
  BY Shapes DEF Starts, FlightInv, OwnerInv
<1>2. UNCHANGED <<runSeq, inFlight>>
  BY <1>1 DEF Rests, Wakes, Advances
<1>3. {q \in Runs : Live(q)}' = {q \in Runs : Live(q)}
  <2>1. ASSUME NEW q \in Runs PROVE Live(q)' <=> Live(q)
    <3>1. CASE Rests
      BY <3>1 DEF Rests, Live
    <3>2. CASE Wakes
      BY <3>2 DEF Wakes, WokenPc, FlightInv, OwnerInv, TypeOK, MainParked, Live,
           Suspended, Parked
    <3>3. CASE \E r \in Runs : Advances(r)
      BY <3>3 DEF Advances, MayGo, Goto, FlightInv, OwnerInv, TypeOK, Live, Suspended,
           Parked
    <3> QED BY <1>1, <3>1, <3>2, <3>3
  <2> QED BY <2>1
<1>4. Evictable => Evictable'
  <2>1. aged => aged'
    BY AgedMoves DEF Age
  <2>2. background' = background /\ (aborted' = aborted \/ \E q \in Runs : Abort(q))
    BY Signals
  <2>3. inFlight # NoRun => inFlight \in Runs
    BY BoundsAssumption DEF FlightInv, OwnerInv, TypeOK, Runs, NoRun
  <2>4. inFlight # NoRun /\ aborted[inFlight] => aborted'[inFlight]
    BY <2>2, <2>3 DEF Abort, FlightInv, OwnerInv, TypeOK
  <2> QED BY <1>2, <2>1, <2>2, <2>4 DEF Evictable
<1>5. Evictable \in BOOLEAN /\ Evictable' \in BOOLEAN
  BY DEF Evictable
<1>6. Evictable' => inFlight # 0
  BY <1>2 DEF Evictable, NoRun
<1> QED
  BY <1>2, <1>3, <1>4, <1>5, <1>6 DEF Flight!Expire, Flight!slot

\* FeedSyncMachine.ts start() and its .finally (L118-173): for every number of
\* runs and frames the machine is a single-flight slot.  Each of its steps
\* begins a run in a slot that is free or evictable, ends a run and frees the
\* slot exactly if that run holds it, makes the holder evictable, or leaves the
\* slot alone.
THEOREM FlightImplemented == Spec => ImplementsSingleFlight
<1>1. Init => Flight!Init
  BY BoundsAssumption DEF Init, Flight!Init, Live, Suspended, Evictable, NoRun
<1>2. Init => FlightInv
  BY InitTypes, OwnerInit DEF FlightInv, OwnerInv, FreshSignal, Init
<1>3. FlightInv /\ [Next]_vars => FlightInv'
  BY FlightStep
<1>4. FlightInv /\ FlightInv' /\ [Next]_vars => [Flight!Next]_(Flight!slot)
  <2> SUFFICES ASSUME FlightInv, FlightInv', [Next]_vars
               PROVE  [Flight!Next]_(Flight!slot)
    OBVIOUS
  <2>1. CASE Starts BY <2>1, StartTakes DEF Flight!Next
  <2>2. CASE Next /\ ~Starts /\ \E r \in Runs : Settles(r)
    <3>1. PICK r \in Runs : Settles(r) BY <2>2
    <3>2. Flight!End(r) /\ r \in {q \in Runs : Live(q)} BY <2>2, <3>1, SettleEnds
    <3> QED BY <3>2 DEF Flight!Next
  <2>3. CASE Next /\ ~Starts /\ ~\E r \in Runs : Settles(r)
    BY <2>3, OthersKeep DEF Flight!Next
  <2>4. CASE UNCHANGED vars
    BY <2>4 DEF vars, machine, env, runs, Flight!slot, Evictable, Live
  <2> QED BY <2>1, <2>2, <2>3, <2>4 DEF Starts
<1> QED
  BY <1>1, <1>2, <1>3, <1>4, PTL DEF Spec, ImplementsSingleFlight, Flight!Spec
--------------------------------------------------------------------------------
(* Parked frames, the wake lock and the transition table.                   *)

\* Where a run may be while some of its pool frames are not done.
PoolPlaces == {"hydrate", "reported", "flush", "over"}

FramesOut(r) == \A w \in Workers : worker[r][w] = "out"

\* A run has no pool frames before its pool and none once the pool is through.
PoolQuiet == \A r \in Runs : pc[r] \notin PoolPlaces => FramesOut(r)

\* The newest run is paused by its listener, which is still there to hear of the
\* reconnect.
PausedHeard == \A r \in Runs :
  r = runSeq /\ paused /\ pc[r] \in Suspended \ {"load"} => ~connected /\ r \in listeners

\* A newest run that settled with its listener on has settled in its preamble.
OverQuiet == \A r \in Runs :
  r = runSeq /\ r \in listeners /\ pc[r] = "over" => FramesOut(r)

WaitInv ==
  OwnerInv /\ ListenersBounded /\ ParkedCanResume /\ PoolQuiet /\ PausedHeard /\ OverQuiet

\* The wake lock is some run's.
LockInv == WakeLockScoped /\ (wakeLock => runSeq \in Runs)

\* The state the table is in, by the await the newest run is suspended in.
Fetching  == {"saveFetch", "parkFetch", "resumeFetch", "fetch"}
Hydrating == {"saveHydrate", "parkHydrate", "resumeHydrate", "hydrate"}

StateFollows == \A r \in Runs : r = runSeq =>
  /\ pc[r] = "check" => state = "idle"
  /\ pc[r] \in Fetching => state \in {"fetching-topic-ids", "paused-offline"}
  /\ pc[r] \in {"saveDiff", "diff"} => state = "diffing"
  /\ pc[r] \in Hydrating => state \in {"hydrating", "paused-offline"}
  /\ pc[r] \in {"saveQuiet", "quiet", "saveScore", "score"} => state = "scoring"

\* The table refuses nothing the newest run asks of it.
LEMMA TableStep ==
  ASSUME OwnerInv, StateFollows, NeverRefused, Next
  PROVE  (StateFollows /\ NeverRefused)'
<1> USE DEF OwnerInv, TypeOK, StateFollows, NeverRefused, Fetching,
    Hydrating, IsCurrentRun, Allowed, ValidTransitions, NetworkDependent
<1>1. ASSUME NEW b \in Callers, Start(b) PROVE (StateFollows /\ NeverRefused)'
  BY <1>1 DEF Start, Begun, WokenPc, MainParked, Parked, Joinable, NoRun,
    Runs
<1>2. ASSUME NEW r \in Runs, PreambleFails(r) PROVE (StateFollows /\ NeverRefused)'
  BY <1>2 DEF PreambleFails, PreambleTurn, Settle, Goto, pool
<1>3. ASSUME NEW r \in Runs, Arm(r) PROVE (StateFollows /\ NeverRefused)'
  <2>1. /\ UNCHANGED <<runSeq, refused>> /\ state' = IF IsCurrentRun(r) THEN "idle" ELSE state
    BY <1>3 DEF Arm, ForceIdle
  <2>2. /\ pc'[r] \in {"check", "over"} /\ \A q \in Runs : q # r => pc'[q] = pc[q]
    BY <1>3 DEF Arm, Settle, Goto
  <2> QED BY <2>1, <2>2
<1>4. ASSUME NEW r \in Runs, CheckPipeline(r) PROVE (StateFollows /\ NeverRefused)'
  BY <1>4 DEF CheckPipeline, TransitionTo, Goto, RunFrame, KeepLock, Quiet
<1>5. ASSUME NEW r \in Runs, ParkRun(r) PROVE (StateFollows /\ NeverRefused)'
  BY <1>5 DEF ParkRun, Park, MustPark, Goto, RunFrame, Quiet
<1>6. ASSUME NEW r \in Runs, ReturnAborted(r) PROVE (StateFollows /\ NeverRefused)'
  BY <1>6 DEF ReturnAborted, AtAbortCheck, PastWait, MustPark, ForceIdle,
    Goto, RunFrame, KeepLock, Quiet
<1>7. ASSUME NEW r \in Runs, BeginFetch(r) PROVE (StateFollows /\ NeverRefused)'
  BY <1>7 DEF BeginFetch, PastWait, MustPark, Goto, RunFrame, KeepLock,
    Quiet
<1>8. ASSUME NEW r \in Runs, Fetched(r) PROVE (StateFollows /\ NeverRefused)'
  BY <1>8 DEF Fetched, TransitionTo, Goto, RunFrame, KeepLock, Quiet
<1>9. ASSUME NEW r \in Runs, BeginDiff(r) PROVE (StateFollows /\ NeverRefused)'
  BY <1>9 DEF BeginDiff, Goto, RunFrame, KeepLock, Quiet
<1>10. ASSUME NEW r \in Runs, NothingMissing(r) PROVE (StateFollows /\ NeverRefused)'
  BY <1>10 DEF NothingMissing, TransitionTo, Goto, RunFrame, KeepLock, Quiet
<1>11. ASSUME NEW r \in Runs, SomeMissing(r) PROVE (StateFollows /\ NeverRefused)'
  BY <1>11 DEF SomeMissing, TransitionTo, Goto, RunFrame, KeepLock
<1>12. ASSUME NEW r \in Runs, BeginHydrate(r) PROVE (StateFollows /\ NeverRefused)'
  BY <1>12 DEF BeginHydrate, PastWait, MustPark, Goto, machine, env
<1>13. ASSUME NEW r \in Runs, Hydrated(r) PROVE (StateFollows /\ NeverRefused)'
  BY <1>13 DEF Hydrated, TransitionTo, Goto, RunFrame, KeepLock
<1>14. ASSUME NEW r \in Runs, BeginScore(r) PROVE (StateFollows /\ NeverRefused)'
  BY <1>14 DEF BeginScore, Goto, RunFrame, Quiet, ReleaseKeepAwake
<1>15. ASSUME NEW r \in Runs, FinishQuiet(r) PROVE (StateFollows /\ NeverRefused)'
  BY <1>15 DEF FinishQuiet, TransitionTo, Goto, RunFrame, KeepLock
<1>16. ASSUME NEW r \in Runs, Finish(r) PROVE (StateFollows /\ NeverRefused)'
  BY <1>16 DEF Finish, TransitionTo, Goto, RunFrame, KeepLock
<1>17. ASSUME NEW r \in Runs, SnapshotWritten(r) PROVE (StateFollows /\ NeverRefused)'
  BY <1>17 DEF SnapshotWritten, Goto, RunFrame, KeepLock
<1>18. ASSUME NEW r \in Runs, Teardown(r) PROVE (StateFollows /\ NeverRefused)'
  BY <1>18 DEF Teardown, Settle, Goto, pool, ReleaseKeepAwake
<1>19. ASSUME NEW r \in Runs, RejectStep(r) PROVE (StateFollows /\ NeverRefused)'
  BY <1>19 DEF RejectStep, MayReject, FailRun, Goto, RunFrame, KeepLock
<1>20. ASSUME NEW r \in Runs, RejectNoTopics(r) PROVE (StateFollows /\ NeverRefused)'
  BY <1>20 DEF RejectNoTopics, ForceIdle, Goto, RunFrame, KeepLock
<1>21. ASSUME NEW r \in Runs, DoneTimer(r) PROVE (StateFollows /\ NeverRefused)'
  BY <1>21 DEF DoneTimer, TransitionTo, env, runs, pool
<1>22. ASSUME NEW r \in Runs, Abort(r) PROVE (StateFollows /\ NeverRefused)'
  BY <1>22 DEF Abort, machine, env, pool
<1>23. ASSUME NEW r \in Runs, NEW w \in Workers, WorkerPark(r, w) PROVE (StateFollows /\ NeverRefused)'
  BY <1>23 DEF WorkerPark, Park, MustPark, MoveWorker, PoolFrame
<1>24. ASSUME NEW r \in Runs, NEW w \in Workers, WorkerStop(r, w) PROVE (StateFollows /\ NeverRefused)'
  BY <1>24 DEF WorkerStop, MayTake, MustPark, MoveWorker, PoolFrame, NoLock
<1>25. ASSUME NEW r \in Runs, NEW w \in Workers, WorkerTake(r, w) PROVE (StateFollows /\ NeverRefused)'
  BY <1>25 DEF WorkerTake, MayTake, MustPark, MoveWorker, PoolFrame, NoLock
<1>26. ASSUME NEW r \in Runs, NEW w \in Workers, WorkerLeave(r, w) PROVE (StateFollows /\ NeverRefused)'
  BY <1>26 DEF WorkerLeave, MayTake, MustPark, MoveWorker, PoolFrame, NoLock
<1>27. ASSUME NEW r \in Runs, NEW w \in Workers, WorkerChunkDone(r, w) PROVE (StateFollows /\ NeverRefused)'
  BY <1>27 DEF WorkerChunkDone, MoveWorker, PoolFrame, NoLock
<1>28. ASSUME NEW r \in Runs, NEW w \in Workers, WorkerReject(r, w) PROVE (StateFollows /\ NeverRefused)'
  BY <1>28 DEF WorkerReject, FailRun, Goto, MoveWorker, PoolFrame, NoLock
<1>29. ASSUME NetworkLost PROVE (StateFollows /\ NeverRefused)'
  BY <1>29 DEF NetworkLost, PauseIfDependent, TransitionTo, runs, pool
<1>30. ASSUME NetworkBack PROVE (StateFollows /\ NeverRefused)'
  <2>1. UNCHANGED <<runSeq, refused, state>>
    BY <1>30 DEF NetworkBack
  <2>2. pc' = pc \/ \E D \in SUBSET waiters : pc' = WokenPc(waiters, D)
    BY <1>30 DEF NetworkBack
  <2>3. ASSUME NEW r \in Runs
        PROVE  \/ pc'[r] = pc[r]
               \/ pc[r] = "parkFetch" /\ pc'[r] \in {"resumeFetch", "denied"}
               \/ pc[r] = "parkHydrate" /\ pc'[r] \in {"resumeHydrate", "denied"}
    BY <2>2 DEF WokenPc, MainParked, Parked
  <2> QED BY <2>1, <2>3
<1>31. ASSUME Age PROVE (StateFollows /\ NeverRefused)'
  BY <1>31 DEF Age, machine, runs, pool
<1> QED
  BY <1>1, <1>2, <1>3, <1>4, <1>5, <1>6, <1>7, <1>8, <1>9, <1>10, <1>11,
    <1>12, <1>13, <1>14, <1>15, <1>16, <1>17, <1>18, <1>19, <1>20, <1>21,
    <1>22, <1>23, <1>24, <1>25, <1>26, <1>27, <1>28, <1>29, <1>30, <1>31 DEF
    Next, RunStep, WorkerStep

\* A frame is parked exactly when it is registered to be resolved.
Registered == \A r \in Runs :
  /\ pc[r] \in {"parkFetch", "parkHydrate"} <=> <<r, Main>> \in waiters
  /\ \A w \in Workers : worker[r][w] = "parked" <=> <<r, w>> \in waiters

Waiting == ParkedCanResume /\ PoolQuiet /\ PausedHeard /\ OverQuiet

\* What most steps of a run are to those that wait: its frame goes on, and is not
\* in the pool while a frame of the pool is out.
PlainMove(r) ==
  /\ UNCHANGED <<runSeq, paused, waiters, listeners, connected, worker>>
  /\ pc[r] \in Suspended \ (Parked \cup {"load"})
  /\ \E x \in Suspended \ (Parked \cup {"load"}) :
       Goto(r, x) /\ (x \in PoolPlaces \/ pc[r] \notin PoolPlaces \/ FramesOut(r))

\* What most steps of a pool frame are: it goes on, and its run may reject.
PoolMove(r, w) ==
  /\ UNCHANGED <<runSeq, paused, waiters, listeners, connected>>
  /\ worker[r][w] \notin {"out", "parked"}
  /\ \E x \in WorkerState \ {"parked"} : MoveWorker(r, w, x)
  /\ pc' = pc \/ (pc[r] = "hydrate" /\ \E x \in {"reported", "flush"} : Goto(r, x))

LEMMA PlainWaits ==
  ASSUME WaitInv, NEW r \in Runs, PlainMove(r)
  PROVE  Waiting'
<1> USE DEF WaitInv, OwnerInv, TypeOK, PlainMove, Goto, Live, Suspended, Parked, PoolPlaces
<1>1. ParkedCanResume' BY DEF ParkedCanResume, ParkedFramesWake
<1>2. PoolQuiet' BY DEF PoolQuiet, FramesOut
<1>3. PausedHeard' BY DEF PausedHeard
<1>4. OverQuiet' BY DEF OverQuiet, FramesOut
<1> QED BY <1>1, <1>2, <1>3, <1>4 DEF Waiting

LEMMA PoolWaits ==
  ASSUME WaitInv, NEW r \in Runs, NEW w \in Workers, PoolMove(r, w)
  PROVE  Waiting'
<1> USE DEF WaitInv, OwnerInv, TypeOK, PoolMove
<1>1. /\ \A q \in Runs : pc'[q] = pc[q] \/ (q = r /\ pc[q] = "hydrate" /\ pc'[q] \in {"reported", "flush"})
      /\ worker'[r][w] # "parked"
      /\ \A q \in Runs, v \in Workers : q # r \/ v # w => worker'[q][v] = worker[q][v]
  BY DEF Goto, MoveWorker
<1>2. \A q \in Runs : ~FramesOut(q) /\ pc[q] \in PoolPlaces => pc'[q] \in PoolPlaces
  BY <1>1 DEF PoolPlaces
<1>3. ~FramesOut(r) /\ pc[r] \in PoolPlaces
  BY DEF PoolQuiet, FramesOut
<1>4. Registered'
  <2>1. Registered /\ waiters' = waiters /\ worker[r][w] # "parked"
    BY DEF ParkedCanResume, Registered
  <2>2. \A q \in Runs : pc'[q] \in {"parkFetch", "parkHydrate"}
                       <=> pc[q] \in {"parkFetch", "parkHydrate"}
    BY <1>1
  <2>3. \A q \in Runs, v \in Workers : worker'[q][v] = "parked" <=> worker[q][v] = "parked"
    BY <1>1, <2>1
  <2> QED BY ONLY <2>1, <2>2, <2>3 DEF Registered
<1>5. ParkedFramesWake'
  BY <1>1 DEF ParkedCanResume, ParkedFramesWake, Live, Suspended
<1>6. PoolQuiet' BY <1>1, <1>2, <1>3 DEF PoolQuiet, FramesOut
<1>7. PausedHeard' BY <1>1 DEF PausedHeard, Suspended
<1>8. OverQuiet' BY <1>1, <1>3 DEF OverQuiet, FramesOut
<1> QED
  BY <1>4, <1>5, <1>6, <1>7, <1>8 DEF Waiting, ParkedCanResume, Registered

\* What a parked frame is.
LEMMA Frames ==
  ASSUME TypeOK, NEW f \in waiters
  PROVE  f = <<f[1], f[2]>> /\ f[1] \in Runs /\ (f[2] = Main \/ f[2] \in Workers)
  BY DEF TypeOK

\* A run that is neither parked nor in its pool has no frame to be woken.
LEMMA NoFrames ==
  ASSUME WaitInv, NEW r \in Runs, pc[r] \notin PoolPlaces \cup Parked
  PROVE  FramesOut(r) /\ \A f \in waiters : f[1] # r
<1>1. FramesOut(r) BY DEF WaitInv, PoolQuiet
<1>2. <<r, Main>> \notin waiters BY DEF WaitInv, ParkedCanResume, Parked
<1>3. \A w \in Workers : <<r, w>> \notin waiters
  BY <1>1 DEF WaitInv, ParkedCanResume, FramesOut
<1>4. TypeOK BY DEF WaitInv, OwnerInv
<1>5. ASSUME NEW f \in waiters, f[1] = r PROVE FALSE
  BY <1>2, <1>3, <1>4, <1>5, Frames
<1> QED BY <1>1, <1>5

\* Whoever is woken was parked, and everybody who was parked is woken.
LEMMA Woken ==
  ASSUME WaitInv, NEW D \in SUBSET waiters
  PROVE  /\ \A r \in Runs :
              \/ WokenPc(waiters, D)[r] = pc[r] /\ pc[r] \notin Parked
              \/ /\ pc[r] \in Parked
                 /\ WokenPc(waiters, D)[r] \in {"resumeFetch", "resumeHydrate", "denied"}
         /\ \A r \in Runs, w \in Workers :
              \/ WokenWorker(waiters, D)[r][w] = worker[r][w] /\ worker[r][w] # "parked"
              \/ /\ worker[r][w] = "parked"
                 /\ WokenWorker(waiters, D)[r][w] \in {"resumed", "denied"}
  BY DEF WaitInv, ParkedCanResume, WokenPc, WokenWorker, Parked

\* Waking everybody leaves nobody parked.
LEMMA WokenWaits ==
  ASSUME WaitInv, NEW D \in SUBSET waiters, waiters' = {},
         pc' = WokenPc(waiters, D), worker' = WokenWorker(waiters, D)
  PROVE  /\ ParkedCanResume' /\ PoolQuiet'
         /\ \A r \in Runs : pc'[r] = "over" => pc[r] = "over"
         /\ \A r \in Runs : FramesOut(r) => FramesOut(r)'
<1>1. /\ \A r \in Runs :
           \/ pc'[r] = pc[r] /\ pc[r] \notin Parked
           \/ pc[r] \in Parked /\ pc'[r] \in {"resumeFetch", "resumeHydrate", "denied"}
      /\ \A r \in Runs, w \in Workers :
           \/ worker'[r][w] = worker[r][w] /\ worker[r][w] # "parked"
           \/ worker[r][w] = "parked" /\ worker'[r][w] \in {"resumed", "denied"}
  BY Woken
<1>2. ParkedCanResume'
  BY <1>1 DEF ParkedCanResume, ParkedFramesWake, Parked
<1>3. \A r \in Runs : FramesOut(r) => FramesOut(r)'
  BY <1>1 DEF FramesOut
<1>4. \A r \in Runs : pc'[r] \notin PoolPlaces => pc[r] \notin PoolPlaces
  BY <1>1 DEF PoolPlaces, Parked
<1>5. PoolQuiet'
  BY <1>3, <1>4 DEF WaitInv, PoolQuiet
<1>6. \A r \in Runs : pc'[r] = "over" => pc[r] = "over"
  BY <1>1
<1> QED BY <1>2, <1>3, <1>5, <1>6

\* Every step keeps the parked frames where they will be woken.
LEMMA WaitStep ==
  ASSUME WaitInv, OwnerInv', ListenersBounded', Next
  PROVE  Waiting'
<1>1. ASSUME NEW b \in Callers, Start(b) PROVE Waiting'
  <2>1. /\ runSeq' = runSeq + 1 /\ runSeq + 1 \in Runs /\ pc[runSeq + 1] = "unborn"
        /\ UNCHANGED <<paused, listeners, connected>>
    BY <1>1, BoundsAssumption DEF Start, WaitInv, OwnerInv, TypeOK, Begun, Runs
  <2>2. FramesOut(runSeq + 1) /\ \A f \in waiters : f[1] # runSeq + 1
    BY <2>1, NoFrames DEF PoolPlaces, Parked
  <2>3. pc'[runSeq + 1] = "load"
    BY <1>1, <2>1 DEF Start, WokenPc
  <2>4. PausedHeard' /\ OverQuiet'
    BY <2>1, <2>3 DEF PausedHeard, OverQuiet
  <2>5. CASE inFlight = NoRun
    <3>1. /\ UNCHANGED <<waiters, worker>>
          /\ \A q \in Runs : q # runSeq + 1 => pc'[q] = pc[q]
      <4>1. /\ waiters' = waiters \ {} /\ pc' = [WokenPc({}, {}) EXCEPT ![runSeq + 1] = "load"]
            /\ worker' = WokenWorker({}, {})
        BY <1>1, <2>5 DEF Start
      <4>2. worker' = worker
        BY <4>1 DEF WokenWorker, WaitInv, OwnerInv, TypeOK
      <4> QED BY <4>1, <4>2 DEF WokenPc
    <3>2. Registered'
      BY <2>1, <2>2, <2>3, <3>1 DEF WaitInv, ParkedCanResume, Registered, FramesOut
    <3>3. \A f \in waiters : pc[f[1]] = "over" /\ f[2] # Main
      <4>1. TypeOK BY DEF WaitInv, OwnerInv
      <4>2. ASSUME NEW f \in waiters PROVE ~(f[1] = runSeq /\ Live(runSeq))
        BY <2>5, <4>1, Frames DEF WaitInv, OwnerInv, SingleOwner, NoRun, Runs
      <4> QED BY <4>2 DEF WaitInv, ParkedCanResume, ParkedFramesWake
    <3>4. ParkedFramesWake'
      BY <2>2, <3>1, <3>3 DEF ParkedFramesWake, WaitInv, OwnerInv, TypeOK
    <3>5. PoolQuiet'
      BY <2>2, <2>3, <3>1 DEF WaitInv, PoolQuiet, FramesOut
    <3> QED BY <2>4, <3>2, <3>4, <3>5 DEF Waiting, ParkedCanResume, Registered
  <2>6. CASE inFlight # NoRun
    <3>1. /\ waiters' = {} /\ pc' = [WokenPc(waiters, {}) EXCEPT ![runSeq + 1] = "load"]
          /\ worker' = WokenWorker(waiters, {})
      BY <1>1, <2>6 DEF Start
    <3>2. /\ \A r \in Runs :
               \/ pc'[r] = pc[r] /\ pc[r] \notin Parked
               \/ pc[r] \in Parked /\ pc'[r] \in {"resumeFetch", "resumeHydrate", "denied"}
               \/ r = runSeq + 1
          /\ \A r \in Runs, w \in Workers :
               \/ worker'[r][w] = worker[r][w] /\ worker[r][w] # "parked"
               \/ worker[r][w] = "parked" /\ worker'[r][w] \in {"resumed", "denied"}
      <4>1. \A r \in Runs : r # runSeq + 1 => pc'[r] = WokenPc(waiters, {})[r]
        BY <3>1 DEF WokenPc
      <4> QED BY <3>1, <4>1, Woken
    <3>3. ParkedCanResume'
      BY <2>3, <3>1, <3>2 DEF ParkedCanResume, ParkedFramesWake, Parked
    <3>4. \A r \in Runs : FramesOut(r) => FramesOut(r)'
      BY <3>2 DEF FramesOut
    <3>5. \A r \in Runs : r # runSeq + 1 /\ pc'[r] \notin PoolPlaces => pc[r] \notin PoolPlaces
      BY <3>2 DEF PoolPlaces, Parked
    <3>6. PoolQuiet'
      BY <2>2, <3>4, <3>5 DEF WaitInv, PoolQuiet
    <3> QED BY <2>4, <3>3, <3>6 DEF Waiting
  <2> QED BY <2>5, <2>6
<1>2. ASSUME NEW r \in Runs, PreambleFails(r) PROVE Waiting'
  <2>1. /\ pc[r] = "load" /\ pc'[r] = "stillborn" /\ \A q \in Runs : q # r => pc'[q] = pc[q]
        /\ UNCHANGED <<runSeq, paused, waiters, listeners, connected, worker>>
    BY <1>2 DEF PreambleFails, PreambleTurn, Settle, Goto, pool, WaitInv, OwnerInv, TypeOK
  <2>2. FramesOut(r) /\ \A f \in waiters : f[1] # r
    BY <2>1, NoFrames DEF PoolPlaces, Parked
  <2>3. Registered'
    BY <2>1 DEF WaitInv, ParkedCanResume, Registered
  <2>4. ParkedFramesWake'
    BY <2>1, <2>2 DEF WaitInv, ParkedCanResume, ParkedFramesWake, Live, OwnerInv, TypeOK
  <2>5. PoolQuiet' /\ OverQuiet'
    BY <2>1, <2>2 DEF WaitInv, PoolQuiet, OverQuiet, FramesOut
  <2>6. PausedHeard'
    BY <2>1 DEF WaitInv, PausedHeard, Suspended
  <2> QED BY <2>3, <2>4, <2>5, <2>6 DEF Waiting, ParkedCanResume, Registered
<1>3. ASSUME NEW r \in Runs, Arm(r) PROVE Waiting'
  <2>1. /\ pc[r] = "load" /\ pc'[r] \in {"check", "over"}
        /\ \A q \in Runs : q # r => pc'[q] = pc[q]
        /\ UNCHANGED <<runSeq, waiters, connected, worker>>
    BY <1>3 DEF Arm, PreambleTurn, Settle, Goto, pool, WaitInv, OwnerInv, TypeOK
  <2>2. paused' = IF IsCurrentRun(r) THEN FALSE ELSE paused
    BY <1>3 DEF Arm
  <2>3. FramesOut(r) /\ \A f \in waiters : f[1] # r
    BY <2>1, NoFrames DEF PoolPlaces, Parked
  <2>4. runSeq \in Runs /\ pc[runSeq] = "load"
    <3>1. r <= runSeq /\ runSeq \in Runs
      BY <2>1, BoundsAssumption DEF WaitInv, OwnerInv, TypeOK, Begun, Runs
    <3>2. pc[runSeq] # "unborn"
      BY <3>1 DEF WaitInv, OwnerInv, Begun, Runs
    <3>3. CASE r = runSeq
      BY <2>1, <3>1, <3>3
    <3>4. CASE r < runSeq
      BY <2>1, <3>1, <3>2, <3>4 DEF WaitInv, OwnerInv, Begun
    <3> QED BY <3>1, <3>3, <3>4 DEF Runs
  <2>5. \A f \in waiters : f[1] # runSeq
    BY <2>4, NoFrames DEF PoolPlaces, Parked
  <2>6. Registered'
    BY <2>1, <2>3 DEF WaitInv, ParkedCanResume, Registered
  <2>7. ParkedFramesWake'
    BY <2>1, <2>3, <2>5 DEF WaitInv, ParkedCanResume, ParkedFramesWake, OwnerInv, TypeOK
  <2>8. PoolQuiet'
    BY <2>1, <2>3 DEF WaitInv, PoolQuiet, FramesOut
  <2>9. PausedHeard' /\ OverQuiet'
    BY <2>1, <2>2, <2>3, <2>4 DEF PausedHeard, OverQuiet, FramesOut, IsCurrentRun
  <2> QED BY <2>6, <2>7, <2>8, <2>9 DEF Waiting, ParkedCanResume, Registered
<1>4. ASSUME NEW r \in Runs, CheckPipeline(r) PROVE Waiting'
  <2>1. PlainMove(r)
    BY <1>4 DEF CheckPipeline, TransitionTo, Goto, RunFrame, KeepLock, Quiet,
      PlainMove, Suspended, Parked, PoolPlaces, FramesOut
  <2> QED BY <2>1, PlainWaits
<1>5. ASSUME NEW r \in Runs, ParkRun(r) PROVE Waiting'
  <2>1. /\ r = runSeq /\ paused /\ pc[r] \in {"saveFetch", "saveHydrate"}
        /\ waiters' = waiters \cup {<<r, Main>>}
        /\ UNCHANGED <<runSeq, paused, listeners, connected, worker>>
    BY <1>5 DEF ParkRun, MustPark, IsCurrentRun, Park, RunFrame
  <2>2. pc'[r] \in Parked /\ \A q \in Runs : q # r => pc'[q] = pc[q]
    BY <1>5 DEF ParkRun, Goto, WaitInv, OwnerInv, TypeOK, Parked
  <2>3. ~connected /\ r \in listeners
    BY <2>1 DEF WaitInv, PausedHeard, Suspended
  <2>4. FramesOut(r)
    BY <2>1, NoFrames DEF PoolPlaces, Parked
  <2>5. Registered'
    BY <2>1, <2>2, FramesAssumption DEF WaitInv, ParkedCanResume, Registered, Parked
  <2>6. ParkedFramesWake'
    <3>1. Live(r) /\ Live(r)'
      BY <2>1, <2>2 DEF Live, Suspended, Parked
    <3>2. \A f \in waiters : pc[f[1]] = "over" => f[1] # r
      BY <2>1
    <3>3. \A f \in waiters : f[1] \in Runs
      BY Frames DEF WaitInv, OwnerInv
    <3> QED
      BY <2>1, <2>2, <2>3, <3>1, <3>2, <3>3 DEF WaitInv, ParkedCanResume, ParkedFramesWake
  <2>7. PoolQuiet' /\ OverQuiet'
    BY <2>1, <2>2, <2>4 DEF WaitInv, PoolQuiet, OverQuiet, FramesOut, Parked
  <2>8. PausedHeard'
    BY <2>1, <2>3 DEF WaitInv, PausedHeard
  <2> QED BY <2>5, <2>6, <2>7, <2>8 DEF Waiting, ParkedCanResume, Registered
<1>6. ASSUME NEW r \in Runs, ReturnAborted(r) PROVE Waiting'
  <2>1. PlainMove(r)
    BY <1>6 DEF ReturnAborted, AtAbortCheck, PastWait, MustPark, ForceIdle,
      Goto, RunFrame, KeepLock, Quiet, PlainMove, Suspended, Parked,
      PoolPlaces, FramesOut
  <2> QED BY <2>1, PlainWaits
<1>7. ASSUME NEW r \in Runs, BeginFetch(r) PROVE Waiting'
  <2>1. PlainMove(r)
    BY <1>7 DEF BeginFetch, PastWait, MustPark, Goto, RunFrame, KeepLock,
      Quiet, PlainMove, Suspended, Parked, PoolPlaces, FramesOut
  <2> QED BY <2>1, PlainWaits
<1>8. ASSUME NEW r \in Runs, Fetched(r) PROVE Waiting'
  <2>1. PlainMove(r)
    BY <1>8 DEF Fetched, TransitionTo, Goto, RunFrame, KeepLock, Quiet,
      PlainMove, Suspended, Parked, PoolPlaces, FramesOut
  <2> QED BY <2>1, PlainWaits
<1>9. ASSUME NEW r \in Runs, BeginDiff(r) PROVE Waiting'
  <2>1. PlainMove(r)
    BY <1>9 DEF BeginDiff, Goto, RunFrame, KeepLock, Quiet, PlainMove,
      Suspended, Parked, PoolPlaces, FramesOut
  <2> QED BY <2>1, PlainWaits
<1>10. ASSUME NEW r \in Runs, NothingMissing(r) PROVE Waiting'
  <2>1. PlainMove(r)
    BY <1>10 DEF NothingMissing, TransitionTo, Goto, RunFrame, KeepLock, Quiet,
      PlainMove, Suspended, Parked, PoolPlaces, FramesOut
  <2> QED BY <2>1, PlainWaits
<1>11. ASSUME NEW r \in Runs, SomeMissing(r) PROVE Waiting'
  <2>1. PlainMove(r)
    BY <1>11 DEF SomeMissing, TransitionTo, Goto, RunFrame, KeepLock,
      PlainMove, Suspended, Parked, PoolPlaces, FramesOut
  <2> QED BY <2>1, PlainWaits
<1>12. ASSUME NEW r \in Runs, BeginHydrate(r) PROVE Waiting'
  <2>1. /\ pc[r] \in {"saveHydrate", "resumeHydrate"}
        /\ UNCHANGED <<runSeq, paused, waiters, listeners, connected>>
    BY <1>12 DEF BeginHydrate, PastWait, machine, env
  <2>2. pc'[r] = "hydrate" /\ \A q \in Runs : q # r => pc'[q] = pc[q]
    BY <1>12 DEF BeginHydrate, Goto, WaitInv, OwnerInv, TypeOK
  <2>3. /\ \A w \in Workers : worker'[r][w] # "parked"
        /\ \A q \in Runs, w \in Workers : q # r => worker'[q][w] = worker[q][w]
    BY <1>12 DEF BeginHydrate, WaitInv, OwnerInv, TypeOK
  <2>4. FramesOut(r) /\ \A f \in waiters : f[1] # r
    BY <2>1, NoFrames DEF PoolPlaces, Parked
  <2>5. Registered'
    BY <2>1, <2>2, <2>3, <2>4 DEF WaitInv, ParkedCanResume, Registered
  <2>6. ParkedFramesWake'
    BY <2>1, <2>2, <2>4 DEF WaitInv, ParkedCanResume, ParkedFramesWake, Live, OwnerInv, TypeOK, Suspended
  <2>7. PoolQuiet' /\ OverQuiet'
    BY <2>1, <2>2, <2>3 DEF WaitInv, PoolQuiet, OverQuiet, FramesOut, PoolPlaces
  <2>8. PausedHeard'
    BY <2>1, <2>2 DEF WaitInv, PausedHeard, Suspended
  <2> QED BY <2>5, <2>6, <2>7, <2>8 DEF Waiting, ParkedCanResume, Registered
<1>13. ASSUME NEW r \in Runs, Hydrated(r) PROVE Waiting'
  <2>1. PlainMove(r)
    BY <1>13 DEF Hydrated, TransitionTo, Goto, RunFrame, KeepLock, PlainMove,
      Suspended, Parked, PoolPlaces, FramesOut
  <2> QED BY <2>1, PlainWaits
<1>14. ASSUME NEW r \in Runs, BeginScore(r) PROVE Waiting'
  <2>1. PlainMove(r)
    BY <1>14 DEF BeginScore, Goto, RunFrame, Quiet, ReleaseKeepAwake,
      PlainMove, Suspended, Parked, PoolPlaces, FramesOut
  <2> QED BY <2>1, PlainWaits
<1>15. ASSUME NEW r \in Runs, FinishQuiet(r) PROVE Waiting'
  <2>1. PlainMove(r)
    BY <1>15 DEF FinishQuiet, TransitionTo, Goto, RunFrame, KeepLock,
      PlainMove, Suspended, Parked, PoolPlaces, FramesOut
  <2> QED BY <2>1, PlainWaits
<1>16. ASSUME NEW r \in Runs, Finish(r) PROVE Waiting'
  <2>1. PlainMove(r)
    BY <1>16 DEF Finish, TransitionTo, Goto, RunFrame, KeepLock, PlainMove,
      Suspended, Parked, PoolPlaces, FramesOut
  <2> QED BY <2>1, PlainWaits
<1>17. ASSUME NEW r \in Runs, SnapshotWritten(r) PROVE Waiting'
  <2>1. PlainMove(r)
    BY <1>17 DEF SnapshotWritten, Goto, RunFrame, KeepLock, PlainMove,
      Suspended, Parked, PoolPlaces, FramesOut
  <2> QED BY <2>1, PlainWaits
<1>18. ASSUME NEW r \in Runs, Teardown(r) PROVE Waiting'
  <2>1. /\ pc[r] = "flush" /\ pc'[r] = "over" /\ \A q \in Runs : q # r => pc'[q] = pc[q]
        /\ UNCHANGED <<runSeq, paused, waiters, connected, worker>>
    BY <1>18 DEF Teardown, Settle, Goto, pool, WaitInv, OwnerInv, TypeOK
  <2>2. /\ r = runSeq => listeners' = {}
        /\ r # runSeq => listeners' = listeners
    BY <1>18 DEF Teardown, IsCurrentRun, Unsubscribed, WaitInv, ListenersBounded
  <2>3. Registered'
    BY <2>1 DEF WaitInv, ParkedCanResume, Registered
  <2>4. \A f \in waiters : f[1] = r => f[2] # Main
    <3>1. <<r, Main>> \notin waiters
      BY <2>1 DEF WaitInv, ParkedCanResume
    <3> QED BY <3>1, Frames DEF WaitInv, OwnerInv
  <2>5. ParkedFramesWake'
    BY <2>1, <2>2, <2>4 DEF WaitInv, ParkedCanResume, ParkedFramesWake, Live, OwnerInv, TypeOK
  <2>6. PoolQuiet'
    BY <2>1 DEF WaitInv, PoolQuiet, FramesOut, PoolPlaces
  <2>7. PausedHeard' /\ OverQuiet'
    BY <2>1, <2>2 DEF WaitInv, PausedHeard, OverQuiet, FramesOut, Suspended
  <2> QED BY <2>3, <2>5, <2>6, <2>7 DEF Waiting, ParkedCanResume, Registered
<1>19. ASSUME NEW r \in Runs, RejectStep(r) PROVE Waiting'
  <2>1. PlainMove(r)
    BY <1>19 DEF RejectStep, MayReject, FailRun, Goto, RunFrame, KeepLock,
      PlainMove, Suspended, Parked, PoolPlaces, FramesOut
  <2> QED BY <2>1, PlainWaits
<1>20. ASSUME NEW r \in Runs, RejectNoTopics(r) PROVE Waiting'
  <2>1. PlainMove(r)
    BY <1>20 DEF RejectNoTopics, ForceIdle, Goto, RunFrame, KeepLock,
      PlainMove, Suspended, Parked, PoolPlaces, FramesOut
  <2> QED BY <2>1, PlainWaits
<1>21. ASSUME NEW r \in Runs, DoneTimer(r) PROVE Waiting'
  BY <1>21 DEF DoneTimer, TransitionTo, env, runs, pool, ParkedCanResume,
    ParkedFramesWake, PoolQuiet, PausedHeard, OverQuiet, FramesOut, WaitInv,
    OwnerInv, Waiting, Live
<1>22. ASSUME NEW r \in Runs, Abort(r) PROVE Waiting'
  BY <1>22 DEF Abort, machine, env, pool, ParkedCanResume, ParkedFramesWake,
    PoolQuiet, PausedHeard, OverQuiet, FramesOut, WaitInv, OwnerInv,
    Waiting, Live, runs
<1>23. ASSUME NEW r \in Runs, NEW w \in Workers, WorkerPark(r, w) PROVE Waiting'
  <2>1. /\ r = runSeq /\ paused /\ worker[r][w] = "loop"
        /\ waiters' = waiters \cup {<<r, w>>}
        /\ UNCHANGED <<runSeq, paused, listeners, connected, pc>>
    BY <1>23 DEF WorkerPark, MustPark, IsCurrentRun, Park, PoolFrame, env
  <2>2. /\ worker'[r][w] = "parked"
        /\ \A q \in Runs, v \in Workers : q # r \/ v # w => worker'[q][v] = worker[q][v]
    BY <1>23 DEF WorkerPark, MoveWorker, WaitInv, OwnerInv, TypeOK
  <2>3. pc[r] \in PoolPlaces
    BY <2>1 DEF WaitInv, PoolQuiet, FramesOut
  <2>4. pc[r] = "over" \/ (Live(r) /\ ~connected /\ r \in listeners)
    BY <2>1, <2>3 DEF WaitInv, PausedHeard, PoolPlaces, Live, Suspended
  <2>5. Registered'
    BY <2>1, <2>2, FramesAssumption DEF WaitInv, ParkedCanResume, Registered
  <2>6. ParkedFramesWake'
    BY <2>1, <2>4, FramesAssumption DEF WaitInv, ParkedCanResume, ParkedFramesWake, Live
  <2>7. PoolQuiet'
    BY <2>1, <2>2, <2>3 DEF WaitInv, PoolQuiet, FramesOut
  <2>8. PausedHeard' /\ OverQuiet'
    BY <2>1, <2>2 DEF WaitInv, PausedHeard, OverQuiet, FramesOut
  <2> QED BY <2>5, <2>6, <2>7, <2>8 DEF Waiting, ParkedCanResume, Registered
<1>24. ASSUME NEW r \in Runs, NEW w \in Workers, WorkerStop(r, w) PROVE Waiting'
  <2>1. PoolMove(r, w)
    BY <1>24 DEF WorkerStop, MayTake, MustPark, MoveWorker, PoolFrame, NoLock,
      env, WaitInv, OwnerInv, TypeOK, PoolMove, WorkerState
  <2> QED BY <2>1, PoolWaits
<1>25. ASSUME NEW r \in Runs, NEW w \in Workers, WorkerTake(r, w) PROVE Waiting'
  <2>1. PoolMove(r, w)
    BY <1>25 DEF WorkerTake, MayTake, MustPark, MoveWorker, PoolFrame, NoLock,
      env, WaitInv, OwnerInv, TypeOK, PoolMove, WorkerState
  <2> QED BY <2>1, PoolWaits
<1>26. ASSUME NEW r \in Runs, NEW w \in Workers, WorkerLeave(r, w) PROVE Waiting'
  <2>1. PoolMove(r, w)
    BY <1>26 DEF WorkerLeave, MayTake, MustPark, MoveWorker, PoolFrame, NoLock,
      env, WaitInv, OwnerInv, TypeOK, PoolMove, WorkerState
  <2> QED BY <2>1, PoolWaits
<1>27. ASSUME NEW r \in Runs, NEW w \in Workers, WorkerChunkDone(r, w) PROVE Waiting'
  <2>1. PoolMove(r, w)
    BY <1>27 DEF WorkerChunkDone, MoveWorker, PoolFrame, NoLock, env, WaitInv,
      OwnerInv, TypeOK, PoolMove, WorkerState
  <2> QED BY <2>1, PoolWaits
<1>28. ASSUME NEW r \in Runs, NEW w \in Workers, WorkerReject(r, w) PROVE Waiting'
  <2>1. PoolMove(r, w)
    BY <1>28 DEF WorkerReject, FailRun, Goto, MoveWorker, PoolFrame, NoLock,
      env, WaitInv, OwnerInv, TypeOK, PoolMove, WorkerState
  <2> QED BY <2>1, PoolWaits
<1>29. ASSUME NetworkLost PROVE Waiting'
  <2>1. /\ UNCHANGED <<runSeq, waiters, listeners, pc, worker>> /\ connected' = FALSE
        /\ paused' = paused \/ (paused' = TRUE /\ runSeq \in listeners)
    BY <1>29 DEF NetworkLost, PauseIfDependent, runs, pool
  <2>2. ParkedCanResume'
    BY <2>1 DEF WaitInv, ParkedCanResume, ParkedFramesWake, Live
  <2>3. PoolQuiet' /\ OverQuiet' /\ PausedHeard'
    BY <2>1 DEF WaitInv, PoolQuiet, OverQuiet, PausedHeard, FramesOut
  <2> QED BY <2>2, <2>3 DEF Waiting
<1>30. ASSUME NetworkBack PROVE Waiting'
  <2>1. UNCHANGED <<runSeq, listeners>> /\ connected' = TRUE
    BY <1>30 DEF NetworkBack
  <2>2. CASE runSeq \in listeners /\ paused
    <3>1. /\ paused' = FALSE /\ waiters' = {}
          /\ \E D \in SUBSET waiters : pc' = WokenPc(waiters, D) /\ worker' = WokenWorker(waiters, D)
      BY <1>30, <2>2 DEF NetworkBack
    <3>2. /\ ParkedCanResume' /\ PoolQuiet'
          /\ \A r \in Runs : pc'[r] = "over" => pc[r] = "over"
          /\ \A r \in Runs : FramesOut(r) => FramesOut(r)'
      BY <3>1, WokenWaits
    <3>3. PausedHeard' /\ OverQuiet'
      BY <2>1, <3>1, <3>2 DEF PausedHeard, OverQuiet, WaitInv
    <3> QED BY <3>2, <3>3 DEF Waiting
  <2>3. CASE ~(runSeq \in listeners /\ paused)
    <3>1. UNCHANGED <<paused, waiters, pc, worker>>
      BY <1>30, <2>3 DEF NetworkBack
    <3>2. ParkedCanResume'
      BY <2>1, <2>3, <3>1 DEF WaitInv, ParkedCanResume, ParkedFramesWake, Live
    <3>3. PoolQuiet' /\ OverQuiet' /\ PausedHeard'
      BY <2>1, <2>3, <3>1 DEF WaitInv, PoolQuiet, OverQuiet, PausedHeard, FramesOut
    <3> QED BY <3>2, <3>3 DEF Waiting
  <2> QED BY <2>2, <2>3
<1>31. ASSUME Age PROVE Waiting'
  BY <1>31 DEF Age, machine, runs, pool, ParkedCanResume, ParkedFramesWake,
    PoolQuiet, PausedHeard, OverQuiet, FramesOut, WaitInv, OwnerInv,
    Waiting, Live
<1> QED
  BY <1>1, <1>2, <1>3, <1>4, <1>5, <1>6, <1>7, <1>8, <1>9, <1>10, <1>11,
    <1>12, <1>13, <1>14, <1>15, <1>16, <1>17, <1>18, <1>19, <1>20, <1>21,
    <1>22, <1>23, <1>24, <1>25, <1>26, <1>27, <1>28, <1>29, <1>30, <1>31 DEF
    Next, RunStep, WorkerStep

\* Every step keeps the wake lock with fetch and hydrate.
LEMMA LockStep ==
  ASSUME WaitInv, LockInv, Next
  PROVE  LockInv'
<1> USE DEF LockInv, WakeLockScoped, Live, Suspended, WaitInv, OwnerInv,
    TypeOK, IsCurrentRun
<1>1. ASSUME NEW b \in Callers, Start(b) PROVE LockInv'
  <2>1. /\ runSeq' = runSeq + 1 /\ runSeq + 1 \in Runs /\ pc[runSeq + 1] = "unborn"
        /\ UNCHANGED <<keepAwakeHeld, wakeLock>> /\ waiters' \subseteq waiters
    BY <1>1, BoundsAssumption DEF Start, Begun, Runs
  <2>2. \A f \in waiters : f[1] # runSeq + 1
    BY <2>1, NoFrames DEF PoolPlaces, Parked
  <2>3. pc'[runSeq + 1] = "load"
    BY <1>1, <2>1 DEF Start, WokenPc
  <2> QED BY <2>1, <2>2, <2>3
<1>2. ASSUME NEW r \in Runs, PreambleFails(r) PROVE LockInv'
  <2>1. pc[r] = "load" /\ pc'[r] = "stillborn" /\ \A q \in Runs : q # r => pc'[q] = pc[q]
    BY <1>2 DEF PreambleFails, PreambleTurn, Settle, Goto
  <2>2. UNCHANGED <<runSeq, waiters, keepAwakeHeld, wakeLock>>
    BY <1>2 DEF PreambleFails
  <2> QED BY <2>1, <2>2
<1>3. ASSUME NEW r \in Runs, Arm(r) PROVE LockInv'
  <2>1. /\ pc[r] = "load" /\ pc'[r] \in {"check", "over"}
        /\ \A q \in Runs : q # r => pc'[q] = pc[q]
        /\ UNCHANGED <<runSeq, waiters>>
    BY <1>3 DEF Arm, PreambleTurn, Settle, Goto
  <2>2. \A f \in waiters : f[1] # r
    BY <2>1, NoFrames DEF PoolPlaces, Parked
  <2>3. CASE background[r]
    <3>1. UNCHANGED <<keepAwakeHeld, wakeLock>> /\ pc'[r] = "check"
      BY <1>3, <2>3 DEF Arm, Goto
    <3> QED BY <2>1, <2>2, <3>1
  <2>4. CASE ~background[r]
    <3>1. PICK granted \in BOOLEAN :
            AcquireKeepAwake(r, granted) /\ (granted => pc'[r] = "check")
      BY <1>3, <2>4 DEF Arm, Goto
    <3>2. CASE r # runSeq
      <4>1. UNCHANGED <<keepAwakeHeld, wakeLock>>
        BY <3>1, <3>2 DEF AcquireKeepAwake
      <4> QED BY <2>1, <3>2, <4>1
    <3>3. CASE r = runSeq
      <4>1. wakeLock' => keepAwakeHeld' /\ pc'[r] = "check"
        BY <3>1, <3>3 DEF AcquireKeepAwake
      <4> QED BY <2>1, <2>2, <3>3, <4>1
    <3> QED BY <3>2, <3>3
  <2> QED BY <2>3, <2>4
<1>4. ASSUME NEW r \in Runs, CheckPipeline(r) PROVE LockInv'
  BY <1>4 DEF CheckPipeline, TransitionTo, Goto, RunFrame, KeepLock, Quiet
<1>5. ASSUME NEW r \in Runs, ParkRun(r) PROVE LockInv'
  <2>1. r = runSeq /\ ReleaseKeepAwake(r)
    BY <1>5 DEF ParkRun, MustPark, Park
  <2>2. ~wakeLock'
    BY <2>1 DEF ReleaseKeepAwake
  <2> QED BY <2>2
<1>6. ASSUME NEW r \in Runs, ReturnAborted(r) PROVE LockInv'
  BY <1>6 DEF ReturnAborted, AtAbortCheck, PastWait, MustPark, ForceIdle,
    Goto, RunFrame, KeepLock, Quiet
<1>7. ASSUME NEW r \in Runs, BeginFetch(r) PROVE LockInv'
  BY <1>7 DEF BeginFetch, PastWait, MustPark, Goto, RunFrame, KeepLock,
    Quiet
<1>8. ASSUME NEW r \in Runs, Fetched(r) PROVE LockInv'
  BY <1>8 DEF Fetched, TransitionTo, Goto, RunFrame, KeepLock, Quiet
<1>9. ASSUME NEW r \in Runs, BeginDiff(r) PROVE LockInv'
  BY <1>9 DEF BeginDiff, Goto, RunFrame, KeepLock, Quiet
<1>10. ASSUME NEW r \in Runs, NothingMissing(r) PROVE LockInv'
  BY <1>10 DEF NothingMissing, TransitionTo, Goto, RunFrame, KeepLock, Quiet
<1>11. ASSUME NEW r \in Runs, SomeMissing(r) PROVE LockInv'
  BY <1>11 DEF SomeMissing, TransitionTo, Goto, RunFrame, KeepLock
<1>12. ASSUME NEW r \in Runs, BeginHydrate(r) PROVE LockInv'
  BY <1>12 DEF BeginHydrate, PastWait, MustPark, Goto, machine, env
<1>13. ASSUME NEW r \in Runs, Hydrated(r) PROVE LockInv'
  BY <1>13 DEF Hydrated, TransitionTo, Goto, RunFrame, KeepLock
<1>14. ASSUME NEW r \in Runs, BeginScore(r) PROVE LockInv'
  BY <1>14 DEF BeginScore, Goto, RunFrame, Quiet, ReleaseKeepAwake
<1>15. ASSUME NEW r \in Runs, FinishQuiet(r) PROVE LockInv'
  BY <1>15 DEF FinishQuiet, TransitionTo, Goto, RunFrame, KeepLock
<1>16. ASSUME NEW r \in Runs, Finish(r) PROVE LockInv'
  BY <1>16 DEF Finish, TransitionTo, Goto, RunFrame, KeepLock
<1>17. ASSUME NEW r \in Runs, SnapshotWritten(r) PROVE LockInv'
  BY <1>17 DEF SnapshotWritten, Goto, RunFrame, KeepLock
<1>18. ASSUME NEW r \in Runs, Teardown(r) PROVE LockInv'
  BY <1>18 DEF Teardown, Settle, Goto, pool, ReleaseKeepAwake
<1>19. ASSUME NEW r \in Runs, RejectStep(r) PROVE LockInv'
  BY <1>19 DEF RejectStep, MayReject, FailRun, Goto, RunFrame, KeepLock
<1>20. ASSUME NEW r \in Runs, RejectNoTopics(r) PROVE LockInv'
  BY <1>20 DEF RejectNoTopics, ForceIdle, Goto, RunFrame, KeepLock
<1>21. ASSUME NEW r \in Runs, DoneTimer(r) PROVE LockInv'
  BY <1>21 DEF DoneTimer, TransitionTo, env, runs, pool
<1>22. ASSUME NEW r \in Runs, Abort(r) PROVE LockInv'
  BY <1>22 DEF Abort, machine, env, pool, runs
<1>23. ASSUME NEW r \in Runs, NEW w \in Workers, WorkerPark(r, w) PROVE LockInv'
  <2>1. r = runSeq /\ ReleaseKeepAwake(r)
    BY <1>23 DEF WorkerPark, MustPark, Park
  <2>2. ~wakeLock'
    BY <2>1 DEF ReleaseKeepAwake
  <2> QED BY <2>2
<1>24. ASSUME NEW r \in Runs, NEW w \in Workers, WorkerStop(r, w) PROVE LockInv'
  BY <1>24 DEF WorkerStop, MayTake, MustPark, MoveWorker, PoolFrame, NoLock
<1>25. ASSUME NEW r \in Runs, NEW w \in Workers, WorkerTake(r, w) PROVE LockInv'
  BY <1>25 DEF WorkerTake, MayTake, MustPark, MoveWorker, PoolFrame, NoLock
<1>26. ASSUME NEW r \in Runs, NEW w \in Workers, WorkerLeave(r, w) PROVE LockInv'
  BY <1>26 DEF WorkerLeave, MayTake, MustPark, MoveWorker, PoolFrame, NoLock
<1>27. ASSUME NEW r \in Runs, NEW w \in Workers, WorkerChunkDone(r, w) PROVE LockInv'
  BY <1>27 DEF WorkerChunkDone, MoveWorker, PoolFrame, NoLock
<1>28. ASSUME NEW r \in Runs, NEW w \in Workers, WorkerReject(r, w) PROVE LockInv'
  BY <1>28 DEF WorkerReject, FailRun, Goto, MoveWorker, PoolFrame, NoLock
<1>29. ASSUME NetworkLost PROVE LockInv'
  BY <1>29 DEF NetworkLost, PauseIfDependent, TransitionTo, runs, pool
<1>30. ASSUME NetworkBack PROVE LockInv'
  <2>1. runSeq' = runSeq
    BY <1>30 DEF NetworkBack
  <2>2. CASE ~(runSeq \in listeners /\ paused)
    <3>1. UNCHANGED <<waiters, pc, keepAwakeHeld, wakeLock>>
      BY <1>30, <2>2 DEF NetworkBack
    <3> QED BY <2>1, <3>1
  <2>3. CASE runSeq \in listeners /\ paused
    <3>1. waiters' = {} /\ \E D \in SUBSET waiters : pc' = WokenPc(waiters, D)
      BY <1>30, <2>3 DEF NetworkBack
    <3>2. runSeq \in Runs
      BY <2>3
    <3>3. \/ pc'[runSeq] = pc[runSeq] /\ pc[runSeq] \notin Parked
          \/ pc[runSeq] \in Parked /\ pc'[runSeq] \in {"resumeFetch", "resumeHydrate", "denied"}
      BY <3>1, <3>2, Woken
    <3>4. CASE {f \in waiters : f[1] = runSeq} = {}
      <4>1. UNCHANGED <<keepAwakeHeld, wakeLock>>
        BY <1>30, <2>3, <3>4 DEF NetworkBack
      <4> QED BY <2>1, <3>1, <3>2, <3>3, <4>1 DEF Parked
    <3>5. CASE {f \in waiters : f[1] = runSeq} # {}
      <4>1. PICK granted \in BOOLEAN : AcquireKeepAwake(runSeq, granted)
        BY <1>30, <2>3, <3>5 DEF NetworkBack
      <4>2. wakeLock' => keepAwakeHeld'
        BY <4>1 DEF AcquireKeepAwake
      <4>3. PICK f \in waiters : f[1] = runSeq
        BY <3>5
      <4>4. f = <<f[1], f[2]>> /\ (f[2] = Main \/ f[2] \in Workers)
        BY Frames
      <4>5. f[2] \in Workers => ~FramesOut(runSeq)
        <5>1. <<runSeq, f[2]>> \in waiters
          BY <4>3, <4>4
        <5> QED BY <3>2, <5>1 DEF ParkedCanResume, FramesOut
      <4>6. f[2] = Main => pc[runSeq] \in Parked
        BY <3>2, <4>3, <4>4 DEF MainParked
      <4>7. pc[runSeq] \in Parked \/ pc[runSeq] \in PoolPlaces
        BY <3>2, <4>4, <4>5, <4>6 DEF PoolQuiet
      <4>8. pc[runSeq] # "over"
        BY <2>3, <3>2, <4>4, <4>5, <4>6 DEF OverQuiet, Parked
      <4>9. /\ pc'[runSeq] \notin {"quiet", "clearQuiet", "score", "clear", "over"}
            /\ pc'[runSeq] \in Suspended
        BY <3>3, <4>7, <4>8 DEF Parked, PoolPlaces
      <4> QED BY <2>1, <3>1, <3>2, <4>2, <4>9
    <3> QED BY <3>4, <3>5
  <2> QED BY <2>2, <2>3
<1>31. ASSUME Age PROVE LockInv'
  BY <1>31 DEF Age, machine, runs, pool
<1> QED
  BY <1>1, <1>2, <1>3, <1>4, <1>5, <1>6, <1>7, <1>8, <1>9, <1>10, <1>11,
    <1>12, <1>13, <1>14, <1>15, <1>16, <1>17, <1>18, <1>19, <1>20, <1>21,
    <1>22, <1>23, <1>24, <1>25, <1>26, <1>27, <1>28, <1>29, <1>30, <1>31 DEF
    Next, RunStep, WorkerStep

\* What the three theorems need of the state, together.
MachineInv == WaitInv /\ LockInv /\ StateFollows /\ NeverRefused

\* It holds at the start and every step keeps it.
LEMMA MachineInvHolds == (Init => MachineInv) /\ (MachineInv /\ [Next]_vars => MachineInv')
<1>1. Init => MachineInv
  <2> SUFFICES ASSUME Init PROVE MachineInv
    OBVIOUS
  <2>1. OwnerInv
    BY InitTypes, OwnerInit DEF OwnerInv
  <2>2. ListenersBounded /\ NeverRefused /\ ~wakeLock /\ waiters = {}
    BY DEF Init, ListenersBounded, NeverRefused, NoRun
  <2>3. \A r \in Runs : r # runSeq /\ pc[r] = "unborn" /\ FramesOut(r)
    BY BoundsAssumption DEF Init, FramesOut, Runs
  <2>4. ParkedCanResume
    BY <2>2, <2>3 DEF ParkedCanResume, ParkedFramesWake, FramesOut
  <2>5. PoolQuiet /\ PausedHeard /\ OverQuiet /\ StateFollows
    BY <2>3 DEF PoolQuiet, PausedHeard, OverQuiet, StateFollows
  <2>6. LockInv
    BY <2>2 DEF LockInv, WakeLockScoped
  <2> QED BY <2>1, <2>2, <2>4, <2>5, <2>6 DEF MachineInv, WaitInv
<1>2. MachineInv /\ Next => MachineInv'
  <2> SUFFICES ASSUME MachineInv, Next PROVE MachineInv'
    OBVIOUS
  <2>1. OwnerInv'
    BY TypeStep, OwnerStep DEF MachineInv, WaitInv, OwnerInv
  <2>2. ListenersBounded'
    BY ListenersStep DEF MachineInv, WaitInv, OwnerInv
  <2>3. Waiting'
    BY <2>1, <2>2, WaitStep DEF MachineInv
  <2>4. LockInv' /\ StateFollows' /\ NeverRefused'
    BY LockStep, TableStep DEF MachineInv, WaitInv
  <2> QED BY <2>1, <2>2, <2>3, <2>4 DEF MachineInv, WaitInv, Waiting
<1>3. MachineInv /\ UNCHANGED vars => MachineInv'
  <2> SUFFICES ASSUME MachineInv, UNCHANGED vars PROVE MachineInv'
    OBVIOUS
  <2>1. OwnerInv'
    BY TypeStep, OwnerStep DEF MachineInv, WaitInv, OwnerInv
  <2>2. (ListenersBounded /\ ParkedCanResume /\ PoolQuiet /\ PausedHeard /\ OverQuiet)'
    BY DEF MachineInv, WaitInv, vars, machine, env, runs, pool, ListenersBounded,
      ParkedCanResume, ParkedFramesWake, PoolQuiet, PausedHeard, OverQuiet,
      FramesOut, Live
  <2>3. LockInv' /\ StateFollows' /\ NeverRefused'
    BY DEF MachineInv, vars, machine, env, runs, pool, LockInv, WakeLockScoped,
      StateFollows, NeverRefused, Live
  <2> QED BY <2>1, <2>2, <2>3 DEF MachineInv, WaitInv
<1> QED BY <1>1, <1>2, <1>3

\* FeedSyncMachine.ts _transitionTo (L645-658): no run, live or abandoned, is ever
\* refused a transition: the table allows all that the newest run asks of it, in
\* whatever order reconnects, aborts and timers come, and drops the others' silently.
THEOREM TableAllows == Spec => []NeverRefused
<1>1. MachineInv => NeverRefused
  BY DEF MachineInv
<1> QED
  BY <1>1, MachineInvHolds, PTL DEF Spec

\* FeedSyncMachine.ts _awaitResumeIfPaused (L704-719): every parked frame is
\* registered to be resolved, and a frame of the newest run is parked only while a
\* reconnect is due and the listener that will hear of it is there.
THEOREM NobodyStranded == Spec => []ParkedCanResume
<1>1. MachineInv => ParkedCanResume
  BY DEF MachineInv, WaitInv
<1> QED
  BY <1>1, MachineInvHolds, PTL DEF Spec

\* FeedSyncMachine.ts _acquireKeepAwake and _releaseKeepAwake (L259-274): however
\* many runs take the machine over, the wake lock is held for fetch and hydrate only.
THEOREM WakeLockBounded == Spec => []WakeLockScoped
<1>1. MachineInv => WakeLockScoped
  BY DEF MachineInv, LockInv
<1> QED
  BY <1>1, MachineInvHolds, PTL DEF Spec
================================================================================
