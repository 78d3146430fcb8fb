---------------------------- MODULE FeedSyncMachine ----------------------------
(***************************************************************************)
(* lib/scheduler/feed-sync/FeedSyncMachine.ts: the singleton that drives   *)
(* one feed sync at a time, with the hydrate pool of feed-sync-steps.ts.   *)
(*                                                                         *)
(* A run is a chain of awaits over one mutable singleton.  start() lets a  *)
(* caller join the run in flight; once that run is older than              *)
(* INFLIGHT_STALE_MS, or is a background run whose deadline aborted it,    *)
(* start() abandons it and begins another, and the abandoned run keeps     *)
(* executing against the same fields.  An action is what the code does     *)
(* between two awaits; pc[r] names the await run r is suspended in.        *)
(*                                                                         *)
(* A rejected promise is a step of its own (RejectStep), a frame parked    *)
(* offline is a member of waiters, and the network store's listeners run   *)
(* inside the action that changes the network.  Continuations of a wait    *)
(* that the listener releases run before any other event, as microtasks.   *)
(***************************************************************************)
EXTENDS Integers, FiniteSets

CONSTANTS
  MaxRuns,     \* bound: runs begun by start()
  Workers,     \* the frames of the hydrate pool (HYDRATE_CONCURRENCY of them)
  Main,        \* the frame of the run itself
  MaxChunks,   \* run -> bound: the hydrate chunks it may have
  Callers      \* subset of BOOLEAN: TRUE if the OS task calls start()
               \* (background mode), FALSE if the scheduler does

ASSUME BoundsAssumption == MaxRuns \in Nat /\ MaxChunks \in [1..MaxRuns -> Nat]
ASSUME FramesAssumption == Main \notin Workers /\ IsFiniteSet(Workers)
ASSUME CallersAssumption == Callers \subseteq BOOLEAN

VARIABLES
  runSeq,         \* _runSeq
  state,          \* _state
  paused,         \* _paused
  waiters,        \* _resumeWaiters: <<run, frame>> pairs parked offline
  inFlight,       \* _inFlight: the run whose promise it holds, or NoRun
  aged,           \* age of inFlight > INFLIGHT_STALE_MS
  unsub,          \* _networkUnsubscribe: the run whose listener it removes
  listeners,      \* runs whose listener the network store still calls
  keepAwakeHeld,  \* _keepAwakeHeld
  wakeLock,       \* the OS holds the expo-keep-awake tag
  connected,      \* useNetworkStore().isConnected
  status,         \* syncStatusMessage.state, or "none" for null
  finishedBy,     \* the run that last called markProcessingRunFinished
  refused,        \* some _transitionTo threw InvalidTransitionError
  timers,         \* runs whose 2s done -> idle timer is armed
  pc,             \* run -> where its frame is suspended
  background,     \* run -> it was given BackgroundSyncHooks
  aborted,        \* run -> ctx.signal.aborted
  suppressScoring,\* run -> a live scoring run owns the backlog
  chunks,         \* run -> hydrate chunks not taken yet
  stopLaunching,  \* run -> the pool takes no further chunk
  worker          \* run -> pool frame -> where it is suspended

env     == <<connected, aged>>
machine == <<runSeq, state, paused, waiters, inFlight, unsub, listeners,
             keepAwakeHeld, wakeLock, finishedBy, refused, timers>>
runs    == <<pc, background, aborted, suppressScoring>>
pool    == <<chunks, stopLaunching, worker>>
vars    == <<machine, env, status, runs, pool>>

Runs  == 1..MaxRuns
NoRun == 0

FeedSyncState == {"idle", "fetching-topic-ids", "diffing", "hydrating",
                  "scoring", "done", "paused-offline", "failed"}

Suspended == {"load", "check", "saveFetch", "parkFetch", "resumeFetch",
              "fetch", "saveDiff", "diff", "saveQuiet", "quiet", "clearQuiet",
              "saveHydrate", "parkHydrate", "resumeHydrate", "hydrate",
              "saveScore", "score", "clear", "denied", "reported", "flush"}

\* Before it is begun, rejected in its preamble, settled.
Places == Suspended \cup {"unborn", "stillborn", "over"}

WorkerState == {"loop", "parked", "resumed", "denied", "fetch", "out"}

ValidTransitions ==
  {<<"idle", "fetching-topic-ids">>,
   <<"fetching-topic-ids", "diffing">>, <<"fetching-topic-ids", "paused-offline">>,
   <<"fetching-topic-ids", "failed">>,
   <<"diffing", "hydrating">>, <<"diffing", "scoring">>, <<"diffing", "done">>,
   <<"diffing", "failed">>,
   <<"hydrating", "scoring">>, <<"hydrating", "paused-offline">>,
   <<"hydrating", "failed">>,
   <<"scoring", "done">>, <<"scoring", "failed">>,
   <<"paused-offline", "fetching-topic-ids">>, <<"paused-offline", "diffing">>,
   <<"paused-offline", "scoring">>, <<"paused-offline", "failed">>,
   <<"failed", "idle">>, <<"done", "idle">>}

NetworkDependent == {"fetching-topic-ids", "hydrating"}

\* The sync states that are published; "none" stands for no message.
SyncStatus == (FeedSyncState \ {"idle"}) \cup {"none"}

Init ==
  /\ runSeq = 0 /\ state = "idle" /\ paused = FALSE /\ waiters = {}
  /\ inFlight = NoRun /\ aged = FALSE /\ unsub = NoRun /\ listeners = {}
  /\ keepAwakeHeld = FALSE /\ wakeLock = FALSE
  /\ connected \in BOOLEAN
  /\ status = "none" /\ finishedBy = NoRun /\ refused = FALSE /\ timers = {}
  /\ pc = [r \in Runs |-> "unborn"]
  /\ background = [r \in Runs |-> FALSE]
  /\ aborted = [r \in Runs |-> FALSE]
  /\ suppressScoring = [r \in Runs |-> FALSE]
  /\ chunks = [r \in Runs |-> 0]
  /\ stopLaunching = [r \in Runs |-> FALSE]
  /\ worker = [r \in Runs |-> [w \in Workers |-> "out"]]
--------------------------------------------------------------------------------
(* The helpers every step is written with.                                  *)

IsCurrentRun(r) == runSeq = r

\* _transitionTo: dropped for an abandoned run, refused off the table.
Allowed(next) == <<state, next>> \in ValidTransitions

TransitionTo(r, next) ==
  /\ state' = IF IsCurrentRun(r) /\ Allowed(next) THEN next ELSE state
  /\ refused' = IF IsCurrentRun(r) /\ ~Allowed(next) THEN TRUE ELSE refused

\* Mutant: the reset without its ownership check.
ForceIdleAny(r) == state' = "idle"

ForceIdle(r) == state' = IF IsCurrentRun(r) THEN "idle" ELSE state

\* publish(): silent in the background, and NOT tied to the current run.
Publish(r, s) == status' = IF background[r] THEN status ELSE s

\* _acquireKeepAwake: granted says whether activateKeepAwakeAsync resolves.
AcquireKeepAwake(r, granted) ==
  LET asks == IsCurrentRun(r) /\ ~keepAwakeHeld IN
  /\ ~granted => asks
  /\ keepAwakeHeld' = IF asks THEN TRUE ELSE keepAwakeHeld
  /\ wakeLock' = IF asks THEN granted ELSE wakeLock

\* Mutant: the release without its ownership check.
ReleaseKeepAwakeAny(r) == keepAwakeHeld' = FALSE /\ wakeLock' = FALSE

ReleaseKeepAwake(r) ==
  /\ keepAwakeHeld' = IF IsCurrentRun(r) THEN FALSE ELSE keepAwakeHeld
  /\ wakeLock' = IF IsCurrentRun(r) /\ keepAwakeHeld THEN FALSE ELSE wakeLock

\* Mutant: an abandoned run parks too.
MustParkAny(r) == r \in Runs /\ paused

\* The guard of _awaitResumeIfPaused.
MustPark(r) == IsCurrentRun(r) /\ paused

\* Mutants: one resolver slot instead of a set; a wait that keeps the lock.
ParkSingleSlot(r, frame) == ReleaseKeepAwake(r) /\ waiters' = {<<r, frame>>}
ParkHoldingLock(r, frame) ==
  waiters' = waiters \cup {<<r, frame>>} /\ UNCHANGED <<keepAwakeHeld, wakeLock>>

Park(r, frame) == ReleaseKeepAwake(r) /\ waiters' = waiters \cup {<<r, frame>>}

Goto(r, where) == pc' = [pc EXCEPT ![r] = where]

\* Mutant: a settling run clears the slot whoever owns it.
SettleAny(r, as) == Goto(r, as) /\ inFlight' = NoRun /\ aged' = FALSE

\* The .finally of start(): only the owner of the slot clears it.
Settle(r, as) ==
  /\ Goto(r, as)
  /\ inFlight' = IF inFlight = r THEN NoRun ELSE inFlight
  /\ aged' = IF inFlight = r THEN FALSE ELSE aged

\* Mutant: the handle is overwritten without being called.
Overwritten == listeners

\* _networkUnsubscribe?.()
Unsubscribed == listeners \ {unsub}

\* Where the frames of F are once their wait is resolved; those of D find
\* that the wake lock is refused to them.
WokenPc(F, D) ==
  [r \in Runs |->
     IF <<r, Main>> \in D THEN "denied"
     ELSE IF <<r, Main>> \notin F THEN pc[r]
     ELSE IF pc[r] = "parkFetch" THEN "resumeFetch" ELSE "resumeHydrate"]
WokenWorker(F, D) ==
  [r \in Runs |-> [w \in Workers |->
     IF <<r, w>> \in D THEN "denied"
     ELSE IF <<r, w>> \in F THEN "resumed" ELSE worker[r][w]]]
--------------------------------------------------------------------------------
(* start() and the preamble of _start().                                    *)

\* Mutant: a foreground run that was aborted is abandoned as well.
JoinableUncancelled == inFlight # NoRun /\ ~aged /\ ~aborted[inFlight]

\* The run in flight is one start() hands to its caller instead of beginning.
Joinable ==
  /\ inFlight # NoRun
  /\ ~aged
  /\ ~(background[inFlight] /\ aborted[inFlight])

\* start(): nothing to join, so a new run takes the machine.  A run it
\* abandons has its parked frames released, which finds them not current.
Start(isBackground) ==
  LET r     == runSeq + 1
      freed == IF inFlight = NoRun THEN {} ELSE waiters
  IN
  /\ runSeq < MaxRuns
  /\ ~Joinable
  /\ runSeq' = r
  /\ inFlight' = r
  /\ aged' = FALSE
  /\ background' = [background EXCEPT ![r] = isBackground]
  /\ waiters' = waiters \ freed
  /\ pc' = [WokenPc(freed, {}) EXCEPT ![r] = "load"]
  /\ worker' = WokenWorker(freed, {})
  /\ UNCHANGED <<state, paused, unsub, listeners, keepAwakeHeld, wakeLock,
                 connected, status, finishedBy, refused, timers, aborted,
                 suppressScoring, chunks, stopLaunching>>

\* The settings database serves loadValidSnapshot and saveMachineSnapshot in
\* the order they were asked for, so runs leave their preamble in order.
PreambleTurn(r) == pc[r] = "load" /\ \A q \in Runs : q < r => pc[q] # "load"

\* The snapshot cannot be read or written: the run rejects before its try.
PreambleFails(r) ==
  /\ PreambleTurn(r)
  /\ Settle(r, "stillborn")
  /\ UNCHANGED <<runSeq, state, paused, waiters, unsub, listeners,
                 keepAwakeHeld, wakeLock, finishedBy, refused, timers,
                 connected, status, background, aborted, suppressScoring, pool>>

\* From the saved snapshot to the wake lock: reset the singleton, take over
\* the network listener.  A wake lock that is refused rejects the run before
\* its try, so no teardown follows.
Arm(r) ==
  /\ PreambleTurn(r)
  /\ ForceIdle(r)
  /\ paused' = IF IsCurrentRun(r) THEN FALSE ELSE paused
  /\ IF background[r]
     THEN /\ unsub' = NoRun
          /\ listeners' = Unsubscribed
          /\ Goto(r, "check")
          /\ UNCHANGED <<keepAwakeHeld, wakeLock, inFlight, aged>>
     ELSE /\ unsub' = r
          /\ listeners' = Unsubscribed \cup {r}
          /\ \E granted \in BOOLEAN :
               /\ AcquireKeepAwake(r, granted)
               /\ IF granted
                  THEN Goto(r, "check") /\ UNCHANGED <<inFlight, aged>>
                  ELSE Settle(r, "over")
  /\ UNCHANGED <<runSeq, waiters, finishedBy, refused, timers, connected,
                 status, background, aborted, suppressScoring, pool>>
--------------------------------------------------------------------------------
(* _run(), one action per stretch between two awaits.                       *)

\* What a step of _run() outside the pool leaves alone.
RunFrame == UNCHANGED <<runSeq, paused, inFlight, unsub, listeners, connected,
                        aged, background, aborted, worker, stopLaunching>>
KeepLock == UNCHANGED <<keepAwakeHeld, wakeLock, waiters>>
Quiet    == UNCHANGED <<status, finishedBy, timers>>

\* getPipelineStatus and staleRunVerdict answer: a live foreground run that is
\* not wedged suppresses scoring, a wedged one was aborted.
CheckPipeline(r) ==
  /\ pc[r] = "check"
  /\ \E running, wedged \in BOOLEAN :
       suppressScoring' = [suppressScoring EXCEPT
                             ![r] = running /\ ~background[r] /\ ~wedged]
  /\ TransitionTo(r, "fetching-topic-ids")
  /\ Goto(r, "saveFetch")
  /\ UNCHANGED chunks /\ RunFrame /\ KeepLock /\ Quiet

\* _awaitResumeIfPaused before the fetch and before the pool.
ParkRun(r) ==
  /\ pc[r] \in {"saveFetch", "saveHydrate"}
  /\ MustPark(r)
  /\ Park(r, Main)
  /\ Goto(r, IF pc[r] = "saveFetch" THEN "parkFetch" ELSE "parkHydrate")
  /\ UNCHANGED <<state, refused, suppressScoring, chunks>> /\ RunFrame /\ Quiet

\* The frame goes on past _awaitResumeIfPaused.
PastWait(r, before, after) ==
  pc[r] = after \/ (pc[r] = before /\ ~MustPark(r))

AtAbortCheck(r) ==
  \/ PastWait(r, "saveFetch", "resumeFetch")
  \/ PastWait(r, "saveHydrate", "resumeHydrate")
  \/ pc[r] \in {"saveDiff", "saveQuiet", "saveScore"}

\* if (ctx.signal.aborted) { _forceIdle; markNoOp; return }
ReturnAborted(r) ==
  /\ AtAbortCheck(r) /\ aborted[r]
  /\ ForceIdle(r)
  /\ Goto(r, "flush")
  /\ UNCHANGED <<refused, suppressScoring, chunks>>
  /\ RunFrame /\ KeepLock /\ Quiet

BeginFetch(r) ==
  /\ PastWait(r, "saveFetch", "resumeFetch") /\ ~aborted[r]
  /\ Goto(r, "fetch")
  /\ UNCHANGED <<state, refused, suppressScoring, chunks>>
  /\ RunFrame /\ KeepLock /\ Quiet

Fetched(r) ==
  /\ pc[r] = "fetch"
  /\ TransitionTo(r, "diffing")
  /\ Goto(r, "saveDiff")
  /\ UNCHANGED <<suppressScoring, chunks>> /\ RunFrame /\ KeepLock /\ Quiet

BeginDiff(r) ==
  /\ pc[r] = "saveDiff" /\ ~aborted[r]
  /\ Goto(r, "diff")
  /\ UNCHANGED <<state, refused, suppressScoring, chunks>>
  /\ RunFrame /\ KeepLock /\ Quiet

\* missingIds is empty: the silent branch.
NothingMissing(r) ==
  /\ pc[r] = "diff"
  /\ TransitionTo(r, "scoring")
  /\ Goto(r, "saveQuiet")
  /\ UNCHANGED <<suppressScoring, chunks>> /\ RunFrame /\ KeepLock /\ Quiet

SomeMissing(r) ==
  /\ pc[r] = "diff"
  /\ TransitionTo(r, "hydrating")
  /\ Publish(r, "hydrating")
  /\ \E n \in 1..MaxChunks[r] : chunks' = [chunks EXCEPT ![r] = n]
  /\ Goto(r, "saveHydrate")
  /\ UNCHANGED <<suppressScoring, finishedBy, timers>> /\ RunFrame /\ KeepLock

\* Fetch and hydrate are over: hand the wake lock off, then score unless the
\* backlog belongs to a live scoring run (or, silently, to the foreground).
BeginScore(r) ==
  /\ pc[r] \in {"saveQuiet", "saveScore"} /\ ~aborted[r]
  /\ ReleaseKeepAwake(r)
  /\ Goto(r, IF pc[r] = "saveQuiet" THEN "quiet" ELSE "score")
  /\ UNCHANGED <<state, refused, waiters, suppressScoring, chunks>>
  /\ RunFrame /\ Quiet

\* The silent branch ends; it clears a leftover failure and stamps a finished
\* processing run, both for the current run only.
FinishQuiet(r) ==
  /\ pc[r] = "quiet"
  /\ TransitionTo(r, "done")
  /\ status' = IF /\ IsCurrentRun(r) /\ ~background[r]
                  /\ status \in {"failed", "paused-offline"}
               THEN "none" ELSE status
  /\ finishedBy' = IF IsCurrentRun(r) /\ ~suppressScoring[r] THEN r
                   ELSE finishedBy
  /\ Goto(r, "clearQuiet")
  /\ UNCHANGED <<suppressScoring, chunks, timers>> /\ RunFrame /\ KeepLock

Finish(r) ==
  /\ pc[r] = "score"
  /\ TransitionTo(r, "done")
  /\ Publish(r, "done")
  /\ Goto(r, "clear")
  /\ UNCHANGED <<suppressScoring, chunks, timers, finishedBy>>
  /\ RunFrame /\ KeepLock

\* The snapshot is cleared (or the failure saved); its own failure is caught.
SnapshotWritten(r) ==
  /\ pc[r] \in {"clear", "clearQuiet", "reported"}
  /\ timers' = IF pc[r] = "clear" THEN timers \cup {r} ELSE timers
  /\ Goto(r, "flush")
  /\ UNCHANGED <<state, refused, suppressScoring, chunks, status, finishedBy>>
  /\ RunFrame /\ KeepLock

\* The finally of _start(): the newest run gives back what it holds.
Teardown(r) ==
  /\ pc[r] = "flush"
  /\ ReleaseKeepAwake(r)
  /\ unsub' = IF IsCurrentRun(r) THEN NoRun ELSE unsub
  /\ listeners' = IF IsCurrentRun(r) THEN Unsubscribed ELSE listeners
  /\ Settle(r, "over")
  /\ UNCHANGED <<runSeq, state, paused, waiters, finishedBy, refused, timers,
                 connected, status, background, aborted, suppressScoring, pool>>

\* The 2s timer of Finish, never cleared, inert for a run that was replaced.
DoneTimer(r) ==
  /\ r \in timers
  /\ timers' = timers \ {r}
  /\ IF IsCurrentRun(r) /\ state = "done"
     THEN TransitionTo(r, "idle") /\ Publish(r, "none")
     ELSE UNCHANGED <<state, refused, status>>
  /\ UNCHANGED <<runSeq, paused, waiters, inFlight, unsub, listeners,
                 keepAwakeHeld, wakeLock, finishedBy, env, runs, pool>>
--------------------------------------------------------------------------------
(* The catch of _run().                                                     *)

\* The await run r is suspended in may reject.
MayReject(r) ==
  \/ pc[r] \in {"check", "saveFetch", "fetch", "saveDiff", "diff", "saveQuiet",
                "saveHydrate", "saveScore", "denied"}
  \/ pc[r] = "quiet" /\ ~background[r] /\ ~suppressScoring[r]
  \/ pc[r] = "score" /\ (background[r] \/ ~suppressScoring[r])

\* A background run fails silently; a foreground run that still owns the
\* machine is forced to failed, reports it and saves the failure.
FailRun(r) ==
  LET reports == ~background[r] /\ IsCurrentRun(r) /\ state # "done" IN
  /\ state' = IF reports THEN "failed"
              ELSE IF background[r] /\ IsCurrentRun(r) THEN "idle" ELSE state
  /\ status' = IF reports THEN "failed" ELSE status
  /\ Goto(r, IF reports THEN "reported" ELSE "flush")

RejectStep(r) ==
  /\ MayReject(r)
  /\ FailRun(r)
  /\ UNCHANGED <<refused, suppressScoring, chunks, finishedBy, timers>>
  /\ RunFrame /\ KeepLock

\* no-topics-configured: a clean end that shows the add-interests prompt.
RejectNoTopics(r) ==
  /\ pc[r] = "fetch"
  /\ status' = IF IsCurrentRun(r) /\ ~background[r] THEN "failed" ELSE status
  /\ ForceIdle(r)
  /\ Goto(r, "reported")
  /\ UNCHANGED <<refused, suppressScoring, chunks, finishedBy, timers>>
  /\ RunFrame /\ KeepLock
--------------------------------------------------------------------------------
(* The hydrate pool (stepHydratePersistEnqueue).                            *)

AtMost(a, b) == IF a <= b THEN a ELSE b

BeginHydrate(r) ==
  /\ PastWait(r, "saveHydrate", "resumeHydrate") /\ ~aborted[r]
  /\ \E W \in SUBSET Workers :
       /\ Cardinality(W) = AtMost(Cardinality(Workers), chunks[r])
       /\ worker' = [worker EXCEPT
                       ![r] = [w \in Workers |-> IF w \in W THEN "loop" ELSE "out"]]
  /\ Goto(r, "hydrate")
  /\ UNCHANGED <<machine, env, status, background, aborted, suppressScoring,
                 chunks, stopLaunching>>

\* What a step of one pool frame leaves alone.
PoolFrame == UNCHANGED <<runSeq, paused, inFlight, unsub, listeners, finishedBy,
                         refused, timers, env, background, aborted,
                         suppressScoring>>
NoLock    == UNCHANGED <<keepAwakeHeld, wakeLock, waiters>>
MoveWorker(r, w, where) == worker' = [worker EXCEPT ![r][w] = where]

WorkerPark(r, w) ==
  /\ worker[r][w] = "loop" /\ ~stopLaunching[r] /\ MustPark(r)
  /\ Park(r, w)
  /\ MoveWorker(r, w, "parked")
  /\ UNCHANGED <<state, status, pc, chunks, stopLaunching>> /\ PoolFrame

\* The frame is past the cooperative wait at the top of its loop.
MayTake(r, w) ==
  \/ worker[r][w] = "loop" /\ ~stopLaunching[r] /\ ~MustPark(r)
  \/ worker[r][w] = "resumed"

\* The signal aborted, or a foreground run is past HYDRATE_STOP_AFTER_MS.
WorkerStop(r, w) ==
  /\ MayTake(r, w) /\ (aborted[r] \/ ~background[r])
  /\ stopLaunching' = [stopLaunching EXCEPT ![r] = TRUE]
  /\ MoveWorker(r, w, "out")
  /\ UNCHANGED <<state, status, pc, chunks>> /\ PoolFrame /\ NoLock

WorkerTake(r, w) ==
  /\ MayTake(r, w) /\ ~aborted[r] /\ chunks[r] > 0
  /\ chunks' = [chunks EXCEPT ![r] = @ - 1]
  /\ MoveWorker(r, w, "fetch")
  /\ UNCHANGED <<state, status, pc, stopLaunching>> /\ PoolFrame /\ NoLock

WorkerLeave(r, w) ==
  /\ \/ worker[r][w] = "loop" /\ stopLaunching[r]
     \/ MayTake(r, w) /\ ~aborted[r] /\ chunks[r] = 0
  /\ MoveWorker(r, w, "out")
  /\ UNCHANGED <<state, status, pc, chunks, stopLaunching>>
  /\ PoolFrame /\ NoLock

\* The chunk is downloaded, persisted and gated; onProgress publishes.
WorkerChunkDone(r, w) ==
  /\ worker[r][w] = "fetch"
  /\ Publish(r, "hydrating")
  /\ MoveWorker(r, w, "loop")
  /\ UNCHANGED <<state, pc, chunks, stopLaunching>> /\ PoolFrame /\ NoLock

\* The frame rejects.  The first rejection rejects the pool's Promise.all and
\* with it the run; the other frames of the pool are not told.
WorkerReject(r, w) ==
  /\ worker[r][w] \in {"fetch", "denied"}
  /\ MoveWorker(r, w, "out")
  /\ IF pc[r] = "hydrate" THEN FailRun(r) ELSE UNCHANGED <<state, status, pc>>
  /\ UNCHANGED <<chunks, stopLaunching>> /\ PoolFrame /\ NoLock

\* Every frame of the pool has resolved.
Hydrated(r) ==
  /\ pc[r] = "hydrate"
  /\ \A w \in Workers : worker[r][w] = "out"
  /\ TransitionTo(r, "scoring")
  /\ Publish(r, "scoring")
  /\ Goto(r, "saveScore")
  /\ UNCHANGED <<suppressScoring, chunks, finishedBy, timers>>
  /\ RunFrame /\ KeepLock
--------------------------------------------------------------------------------
(* The network store, the abort signal, the passing of time.                *)

\* The listener of the current run sees a store change while disconnected.
PauseIfDependent ==
  IF runSeq \in listeners /\ state \in NetworkDependent
  THEN /\ TransitionTo(runSeq, "paused-offline")
       /\ paused' = TRUE
       /\ status' = "paused-offline"
  ELSE UNCHANGED <<state, refused, paused, status>>

\* isConnected turns false, or another field of the store changes meanwhile.
NetworkLost ==
  /\ connected' = FALSE
  /\ PauseIfDependent
  /\ UNCHANGED <<runSeq, waiters, inFlight, aged, unsub, listeners,
                 keepAwakeHeld, wakeLock, finishedBy, timers, runs, pool>>

\* The reconnect: the current run's listener wakes every parked frame.  The
\* first of them that belongs to the current run retakes the wake lock.
NetworkBack ==
  /\ ~connected
  /\ connected' = TRUE
  /\ IF runSeq \in listeners /\ paused
     THEN LET own == {f \in waiters : f[1] = runSeq} IN
          /\ paused' = FALSE
          /\ waiters' = {}
          /\ IF own = {}
             THEN /\ pc' = WokenPc(waiters, {})
                  /\ worker' = WokenWorker(waiters, {})
                  /\ UNCHANGED <<keepAwakeHeld, wakeLock>>
             ELSE \E first \in own, granted \in BOOLEAN :
                    LET denied == IF granted THEN {} ELSE {first} IN
                    /\ AcquireKeepAwake(runSeq, granted)
                    /\ pc' = WokenPc(waiters, denied)
                    /\ worker' = WokenWorker(waiters, denied)
     ELSE UNCHANGED <<paused, waiters, pc, worker, keepAwakeHeld, wakeLock>>
  /\ UNCHANGED <<runSeq, state, inFlight, aged, unsub, listeners, finishedBy,
                 refused, timers, status, background, aborted, suppressScoring,
                 chunks, stopLaunching>>

\* The scheduler's timeout, or the deadline of the OS task.
Abort(r) ==
  /\ pc[r] \in Suspended
  /\ aborted' = [aborted EXCEPT ![r] = TRUE]
  /\ UNCHANGED <<machine, env, status, pc, background, suppressScoring, pool>>

\* The run in flight passes INFLIGHT_STALE_MS.
Age ==
  /\ inFlight # NoRun
  /\ aged' = TRUE
  /\ UNCHANGED <<machine, connected, status, runs, pool>>
--------------------------------------------------------------------------------
RunStep(r) ==
  \/ PreambleFails(r) \/ Arm(r) \/ CheckPipeline(r) \/ ParkRun(r)
  \/ ReturnAborted(r) \/ BeginFetch(r) \/ Fetched(r) \/ BeginDiff(r)
  \/ NothingMissing(r) \/ SomeMissing(r) \/ BeginHydrate(r) \/ Hydrated(r)
  \/ BeginScore(r) \/ FinishQuiet(r) \/ Finish(r) \/ SnapshotWritten(r)
  \/ Teardown(r) \/ RejectStep(r) \/ RejectNoTopics(r)

WorkerStep(r, w) ==
  \/ WorkerPark(r, w) \/ WorkerStop(r, w) \/ WorkerTake(r, w)
  \/ WorkerLeave(r, w) \/ WorkerChunkDone(r, w) \/ WorkerReject(r, w)

Next ==
  \/ \E b \in Callers : Start(b)
  \/ \E r \in Runs : RunStep(r) \/ DoneTimer(r) \/ Abort(r)
  \/ \E r \in Runs, w \in Workers : WorkerStep(r, w)
  \/ NetworkLost \/ NetworkBack \/ Age

Spec == Init /\ [][Next]_vars

\* Every await settles (requests carry their own timeouts) and
\* a lost connection comes back; nothing obliges a caller, an abort or a loss.
Fairness ==
  /\ \A r \in Runs : WF_vars(RunStep(r))
  /\ \A r \in Runs, w \in Workers : WF_vars(WorkerStep(r, w))
  /\ WF_vars(NetworkBack)

FairSpec == Spec /\ Fairness
--------------------------------------------------------------------------------
(* Properties.                                                              *)

Live(r) == pc[r] \in Suspended

\* The run in flight may be abandoned: too old, or cancelled by its deadline.
Evictable ==
  inFlight # NoRun /\ (aged \/ (background[inFlight] /\ aborted[inFlight]))

Flight == INSTANCE SingleFlight WITH
  MaxBegun <- MaxRuns, begun <- runSeq, holder <- inFlight,
  alive <- {r \in Runs : Live(r)}, evictable <- Evictable

TypeOK ==
  /\ runSeq \in 0..MaxRuns
  /\ state \in FeedSyncState
  /\ paused \in BOOLEAN /\ connected \in BOOLEAN /\ aged \in BOOLEAN
  /\ waiters \subseteq Runs \X (Workers \cup {Main})
  /\ inFlight \in 0..MaxRuns /\ unsub \in 0..MaxRuns /\ finishedBy \in 0..MaxRuns
  /\ listeners \subseteq Runs /\ timers \subseteq Runs
  /\ keepAwakeHeld \in BOOLEAN /\ wakeLock \in BOOLEAN /\ refused \in BOOLEAN
  /\ status \in SyncStatus
  /\ pc \in [Runs -> Places]
  /\ background \in [Runs -> BOOLEAN]
  /\ aborted \in [Runs -> BOOLEAN]
  /\ suppressScoring \in [Runs -> BOOLEAN]
  /\ chunks \in [Runs -> Nat]
  /\ stopLaunching \in [Runs -> BOOLEAN]
  /\ worker \in [Runs -> [Workers -> WorkerState]]

\* No run, live or abandoned, ever gets an InvalidTransitionError: with the
\* ownership guards the table refuses nothing the code asks of it.
NeverRefused == ~refused

\* At most one run is not abandoned: the slot holds the newest run for exactly
\* as long as that run is alive, so start() can neither begin a second run
\* beside a live one nor join one that has settled.
SingleOwner ==
  /\ inFlight # NoRun => inFlight = runSeq /\ Live(runSeq)
  /\ \A r \in Runs : r = runSeq /\ Live(r) => inFlight = r

\* To its callers the machine is a single-flight slot: start() begins a run only
\* when none is in flight or the one in flight may be abandoned, the wake-ups,
\* pauses and pool frames of a run never touch the slot, and the end of an
\* abandoned run never frees the slot of the run that replaced it.
ImplementsSingleFlight == Flight!Spec

ParkedFramesWake ==
  \A f \in waiters :
    \/ /\ f[1] = runSeq /\ Live(runSeq)
       /\ paused /\ ~connected /\ runSeq \in listeners
    \/ pc[f[1]] = "over" /\ f[2] # Main

\* Every parked frame is registered to be resolved.  A frame of the newest run
\* is parked only while the device is offline and that run's listener is there
\* to wake it; an abandoned run never stays parked.  The only other parked
\* frames are pool frames of settled runs.
ParkedCanResume ==
  /\ \A r \in Runs :
       /\ pc[r] \in {"parkFetch", "parkHydrate"} <=> <<r, Main>> \in waiters
       /\ \A w \in Workers : worker[r][w] = "parked" <=> <<r, w>> \in waiters
  /\ ParkedFramesWake

\* The wake lock is held for fetch and hydrate only: never while a frame of
\* the newest run waits offline, never once that run hands over to scoring,
\* and past the run's end only when a run died in its preamble before it
\* took the machine over from the run it abandoned.
WakeLockScoped ==
  wakeLock =>
    /\ keepAwakeHeld
    /\ \A f \in waiters : f[1] # runSeq
    /\ pc[runSeq] \notin {"quiet", "clearQuiet", "score", "clear"}
    /\ Live(runSeq) \/ pc[runSeq] = "stillborn"

\* No listener leaks: the network store calls at most the one listener the
\* singleton can still remove, however many runs were abandoned.
ListenersBounded == listeners = {unsub} \ {NoRun}

\* Run r moved, other than by being woken.
Moved(r) ==
  /\ runSeq' = runSeq /\ connected' = connected
  /\ pc'[r] # pc[r] \/ worker'[r] # worker[r] \/ (r \in timers) # (r \in timers')

\* Past its preamble, an abandoned run changes nothing the run that replaced
\* it relies on: state, pause, parked frames, wake lock, listener, slot and the
\* processing-finished stamp.
ZombieInert ==
  [][\A r \in Runs :
       r # runSeq /\ pc[r] # "load" /\ Moved(r) =>
         UNCHANGED <<state, paused, waiters, keepAwakeHeld, wakeLock, unsub,
                     listeners, inFlight, finishedBy>>]_vars

\* Every run that starts ends, whatever is lost, aborted or abandoned, as long
\* as requests settle and the connection comes back.
RunsEnd == \A r \in Runs : pc[r] = "load" ~> pc[r] \in {"stillborn", "over"}
================================================================================
