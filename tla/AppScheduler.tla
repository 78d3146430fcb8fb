------------------------------ MODULE AppScheduler ------------------------------
(***************************************************************************)
(* lib/scheduler: AppScheduler.ts with scheduler-runner.ts, the in-memory  *)
(* scheduler-store.ts and the rows of scheduler-persistence.ts, seen from  *)
(* one exclusive task that declares the foreground and reconnect triggers  *)
(* (feed-sync is one; every task but the cache eviction is exclusive).     *)
(*                                                                         *)
(* Three kinds of event loop visit the tasks in turn: the 5s tick, the     *)
(* foreground kick and the reconnect.  A loop asks the guard, awaits the   *)
(* task's conditions and only then enqueues; trigger(), for the user and   *)
(* for the runner's retries, asks the guard and enqueues at once.          *)
(*                                                                         *)
(* Clocks are not modelled: whether a task is due (frequency, floors,      *)
(* failure backoff, debounce) is a choice, a loop may always pass the task *)
(* by, and a run may be old whenever clearStaleRunning looks.              *)
(***************************************************************************)
EXTENDS Integers, FiniteSets

CONSTANTS
  MaxJobs,      \* bound: jobs reserved over the life of the installation
  MaxAttempts,  \* the task's maxAttempts
  MaxCrashes,   \* bound: times the process is killed and started again
  AppStates,    \* bound: what AppState.currentState may be
  Sources,      \* which of "tick", "foreground", "reconnect" the task listens to
  Faults,       \* database calls that may reject
  Overdue       \* a handler may outlive its task's timeout by 30s

FaultPoints == {"load", "stale", "create", "markRunning", "markCompleted",
                "saveLastRun", "markFailed"}
LoopKinds   == {"tick", "foreground", "reconnect"}

ASSUME BoundsAssumption ==
  MaxJobs \in Nat /\ MaxAttempts \in Nat \ {0} /\ MaxCrashes \in Nat
ASSUME ChoicesAssumption ==
  "active" \in AppStates /\ AppStates \subseteq {"active", "inactive", "background"}
  /\ Sources \subseteq LoopKinds /\ Faults \subseteq FaultPoints /\ Overdue \in BOOLEAN

VARIABLES
  app,          \* AppState.currentState
  boot,         \* how far init() is; scheduler status is 'initializing' until
                \* "running"
  suspended,    \* suspend() was called
  paused,       \* the task is in pausedTasks
  pendingKick,  \* pendingForegroundKick
  coldKick,     \* onStoresHydrated: not called yet, its kick held in
                \* deferredColdKick, its settle timer running, or over
  served,       \* a foreground kick ran since the app last became active
  loops,        \* event loops that have not reached the task
  asking,       \* event loops past the guard, awaiting _conditionsMet
  status,       \* taskCurrentStatus, "none" for null
  failing,      \* the task has a lastFailureAt
  lastRun,      \* taskLastRun: the job that stamped it, or NoJob
  readRun,      \* what init() read of the saved stamp, not merged yet
  timers,       \* jobs whose retry timer is armed
  nextJob,      \* jobs reserved so far
  pc,           \* job -> the await it is suspended in
  attempt,      \* job -> its attempt
  origin,       \* job -> the job its ladder of retries began with
  noOp,         \* job -> its handler called markNoOp
  row,          \* job -> status of its scheduler_jobs row
  savedRun,     \* the saved last-run stamp
  crashes       \* bound: kills so far

process == <<app, boot, suspended, paused, pendingKick, coldKick, served>>
memory  == <<status, failing, lastRun, readRun, timers>>
job     == <<nextJob, attempt, origin>>
disk    == <<row, savedRun>>
vars    == <<process, loops, asking, memory, job, pc, noOp, disk, crashes>>

Jobs  == 1..MaxJobs
NoJob == 0

BootStates == {"off", "loading", "read", "marking", "running", "stuck", "halted"}
ColdKicks == {"none", "held", "settling", "over"}
TaskStatus == {"none", "pending", "running", "completed", "failed", "retrying"}
LivePlaces == {"create", "markRunning", "handler", "markCompleted",
               "saveLastRun", "markFailed"}
Places == LivePlaces \cup {"unused", "ended", "died", "lost"}

Live(j) == pc[j] \in LivePlaces

\* markRunning or markFailed, which run() awaits outside any try, rejected: the
\* run is over with nothing put away.
Died(j) == pc[j] = "died"

Init ==
  /\ app \in AppStates /\ boot = "off" /\ suspended = FALSE /\ paused = FALSE
  /\ pendingKick = FALSE /\ coldKick = "none" /\ served = FALSE
  /\ loops = {} /\ asking = {}
  /\ status = "none" /\ failing = FALSE
  /\ lastRun = NoJob /\ readRun = NoJob /\ savedRun = NoJob /\ timers = {}
  /\ nextJob = 0
  /\ pc = [j \in Jobs |-> "unused"]
  /\ attempt = [j \in Jobs |-> 0]
  /\ origin = [j \in Jobs |-> NoJob]
  /\ noOp = [j \in Jobs |-> FALSE]
  /\ row = [j \in Jobs |-> "none"]
  /\ crashes = 0
--------------------------------------------------------------------------------
(* Helpers.                                                                 *)

\* The listeners of init() are attached; dispose() removes them.
Listening ==
  ~suspended /\ boot \in {"loading", "read", "marking", "running", "stuck"}

Initializing == boot \in {"loading", "read", "marking", "stuck"}

\* The event loops that visit the task once those of K have begun.
Begun(K) == loops \cup (K \cap Sources)

Goto(j, where) == pc' = [pc EXCEPT ![j] = where]

ReserveTask == status' = "running"

\* Mutant: the flag of a run that never was is left standing.
KeepReservation == UNCHANGED status

ClearTaskReservation == status' = IF status = "running" THEN "none" ELSE status

\* Mutant: the suspended flag stops the triggers only.
HaltedNever == FALSE

\* The chokepoint of _enqueueAndRun.
Halted == suspended

\* Mutant: the attempt is not carried forward.
SameAttempt(j) == attempt[j]

\* The attempt of the job that a retry of j creates.
NextAttempt(j) == attempt[j] + 1

\* The last attempt failed.
Exhausted(j) == attempt[j] >= MaxAttempts

\* Mutant: a no-op run stamps lastRun like any other.
StampsAlways(j) == j \in Jobs

\* The run of j did something: it stamps lastRun.
Stamps(j) == ~noOp[j]

\* Mutant: an activation while init() is reading is dropped.
DropKick == UNCHANGED pendingKick

RememberKick == pendingKick' = TRUE

\* clearStaleRunning, on every foreground kick: the flag is cleared once it is
\* older than the task's timeout plus 30s.
Sweep ==
  \E stale \in BOOLEAN :
    /\ stale => status = "running" /\ (Overdue \/ ~\E j \in Jobs : Live(j))
    /\ status' = IF stale THEN "none" ELSE status

\* _runForegroundKick, beside the loops of K: a held cold kick goes along.
ForegroundKick(K) ==
  /\ loops' = Begun({"foreground"} \cup K)
  /\ served' = TRUE
  /\ coldKick' = IF coldKick = "held" THEN "over" ELSE coldKick
  /\ Sweep
--------------------------------------------------------------------------------
(* _enqueueAndRun                                                           *)

\* The synchronous part, up to createJob's await.
Enqueue(tries, first) ==
  LET j == nextJob + 1 IN
  IF Halted
  THEN UNCHANGED <<status, nextJob, pc, attempt, origin>>
  ELSE /\ nextJob < MaxJobs
       /\ nextJob' = j
       /\ ReserveTask
       /\ Goto(j, "create")
       /\ attempt' = [attempt EXCEPT ![j] = tries]
       /\ origin' = [origin EXCEPT ![j] = IF first = NoJob THEN j ELSE first]

\* The guard every path asks before it enqueues.
Free == ~paused /\ status # "running"

\* A loop passes the task by: not its trigger, paused, running, not due.
LoopSkip(k) ==
  /\ k \in loops
  /\ loops' = loops \ {k}
  /\ UNCHANGED <<process, asking, memory, job, pc, noOp, disk, crashes>>

\* A loop finds the task free and due, and awaits its conditions.  Bound: one
\* loop of a kind on either side of the guard.
LoopAsk(k) ==
  /\ k \in loops /\ k \notin asking
  /\ Free
  /\ loops' = loops \ {k}
  /\ asking' = asking \cup {k}
  /\ UNCHANGED <<process, memory, job, pc, noOp, disk, crashes>>

\* The conditions hold; nothing is asked again.
ConditionsMet(k) ==
  /\ k \in asking
  /\ asking' = asking \ {k}
  /\ Enqueue(1, NoJob)
  /\ UNCHANGED <<process, loops, failing, lastRun, readRun, timers, noOp, disk,
                 crashes>>

ConditionsUnmet(k) ==
  /\ k \in asking
  /\ asking' = asking \ {k}
  /\ UNCHANGED <<process, loops, memory, job, pc, noOp, disk, crashes>>

\* trigger() by the user; skipped while paused or running, or debounced.
Trigger ==
  /\ Free
  /\ Enqueue(1, NoJob)
  /\ UNCHANGED <<process, loops, asking, failing, lastRun, readRun, timers, noOp,
                 disk, crashes>>

\* A retry timer fires.  A task that is paused or running swallows it.
Retry(j) ==
  /\ j \in timers
  /\ timers' = timers \ {j}
  /\ IF Free
     THEN Enqueue(NextAttempt(j), origin[j])
     ELSE UNCHANGED <<status, nextJob, pc, attempt, origin>>
  /\ UNCHANGED <<process, loops, asking, failing, lastRun, readRun, noOp, disk,
                 crashes>>
--------------------------------------------------------------------------------
(* createJob, then scheduler-runner's run().                                *)

JobFrame == UNCHANGED <<process, loops, asking, job, readRun, crashes>>

CreateFails(j) ==
  /\ pc[j] = "create" /\ "create" \in Faults
  /\ ClearTaskReservation
  /\ Goto(j, "ended")
  /\ UNCHANGED <<failing, lastRun, timers, noOp, disk>> /\ JobFrame

\* addJob keeps a reservation that still stands.
Created(j) ==
  /\ pc[j] = "create"
  /\ row' = [row EXCEPT ![j] = "pending"]
  /\ status' = IF status = "running" THEN "running" ELSE "pending"
  /\ Goto(j, "markRunning")
  /\ UNCHANGED <<failing, lastRun, timers, noOp, savedRun>> /\ JobFrame

\* markRunning is awaited outside run()'s try: the run dies where it stands.
MarkRunningFails(j) ==
  /\ pc[j] = "markRunning" /\ "markRunning" \in Faults
  /\ Goto(j, "died")
  /\ UNCHANGED <<status, failing, lastRun, timers, noOp, disk>> /\ JobFrame

MarkedRunning(j) ==
  /\ pc[j] = "markRunning"
  /\ row' = [row EXCEPT ![j] = "running"]
  /\ status' = "running"
  /\ Goto(j, "handler")
  /\ UNCHANGED <<failing, lastRun, timers, noOp, savedRun>> /\ JobFrame

HandlerOk(j) ==
  /\ pc[j] = "handler"
  /\ \E idle \in BOOLEAN : noOp' = [noOp EXCEPT ![j] = idle]
  /\ Goto(j, "markCompleted")
  /\ UNCHANGED <<status, failing, lastRun, timers, disk>> /\ JobFrame

\* The catch of run(): the failure is stamped before anything is awaited.
Caught(j) == failing' = TRUE /\ Goto(j, "markFailed")

HandlerFails(j) ==
  /\ pc[j] = "handler"
  /\ Caught(j)
  /\ UNCHANGED <<status, lastRun, timers, noOp, disk>> /\ JobFrame

\* clearFailure and setJobCompleted.
Complete(j) ==
  /\ failing' = FALSE
  /\ status' = "completed"
  /\ lastRun' = IF Stamps(j) THEN j ELSE lastRun
  /\ Goto(j, "ended")

MarkedCompleted(j) ==
  /\ pc[j] = "markCompleted"
  /\ row' = [row EXCEPT ![j] = "completed"]
  /\ IF Stamps(j)
     THEN Goto(j, "saveLastRun") /\ UNCHANGED <<failing, status, lastRun>>
     ELSE Complete(j)
  /\ UNCHANGED <<timers, noOp, savedRun>> /\ JobFrame

LastRunSaved(j) ==
  /\ pc[j] = "saveLastRun"
  /\ savedRun' = j
  /\ Complete(j)
  /\ UNCHANGED <<timers, noOp, row>> /\ JobFrame

\* A completed run whose bookkeeping rejects is a failed run.
BookkeepingFails(j) ==
  /\ pc[j] \in {"markCompleted", "saveLastRun"} /\ pc[j] \in Faults
  /\ Caught(j)
  /\ UNCHANGED <<status, lastRun, timers, noOp, disk>> /\ JobFrame

\* The failed run is recorded; unless it is the last attempt, or its error
\* cannot be retried, the next one is timed.
MarkedFailed(j) ==
  /\ pc[j] = "markFailed"
  /\ \E nonRetryable \in BOOLEAN :
       LET exhausted == nonRetryable \/ Exhausted(j)
           outcome   == IF exhausted THEN "failed" ELSE "retrying" IN
       /\ row' = [row EXCEPT ![j] = outcome]
       /\ status' = outcome
       /\ timers' = IF exhausted THEN timers ELSE timers \cup {j}
  /\ Goto(j, "ended")
  /\ UNCHANGED <<failing, lastRun, noOp, savedRun>> /\ JobFrame

\* markFailed rejects inside the catch: no status, no retry.
MarkFailedFails(j) ==
  /\ pc[j] = "markFailed" /\ "markFailed" \in Faults
  /\ Goto(j, "died")
  /\ UNCHANGED <<status, failing, lastRun, timers, noOp, disk>> /\ JobFrame
--------------------------------------------------------------------------------
(* init() and onStoresHydrated().                                           *)

BootFrame == UNCHANGED <<asking, failing, timers, job, pc, noOp,
                         savedRun, crashes>>

\* Up to the first await: the listeners are attached before anything is read.
InitStarts ==
  /\ boot = "off"
  /\ boot' = IF suspended THEN "halted" ELSE "loading"
  /\ pendingKick' = IF suspended THEN pendingKick ELSE FALSE
  /\ UNCHANGED <<app, suspended, paused, coldKick, served, loops, lastRun, readRun,
                 row, status>> /\ BootFrame

\* The task's last run is read; those of the other tasks are still to come.
LastRunRead ==
  /\ boot = "loading"
  /\ boot' = "read" /\ readRun' = savedRun
  /\ UNCHANGED <<app, suspended, paused, pendingKick, coldKick, served, loops,
                 lastRun, row, status>> /\ BootFrame

\* loadLastRunTimes is merged over what runs have stamped meanwhile.
LastRunLoaded ==
  /\ boot = "read"
  /\ boot' = "marking" /\ readRun' = NoJob
  /\ lastRun' = IF readRun = NoJob THEN lastRun ELSE readRun
  /\ UNCHANGED <<app, suspended, paused, pendingKick, coldKick, served, loops, row, status>>
  /\ BootFrame

\* markStaleCrashedJobs is over (rows left running by a killed process, if old
\* enough, are stale): first tick, and the kick that came meanwhile.
InitEnds ==
  /\ boot = "marking"
  /\ \E Old \in SUBSET {j \in Jobs : row[j] = "running" /\ pc[j] = "lost"} :
       row' = [j \in Jobs |-> IF j \in Old THEN "stale" ELSE row[j]]
  /\ LET first == IF app = "active" THEN {"tick"} ELSE {} IN
     IF suspended
     THEN /\ boot' = "halted"
          /\ UNCHANGED <<pendingKick, coldKick, served, loops, status>>
     ELSE /\ boot' = "running"
          /\ pendingKick' = FALSE
          /\ IF pendingKick
             THEN ForegroundKick(first)
             ELSE loops' = Begun(first) /\ UNCHANGED <<coldKick, served, status>>
  /\ UNCHANGED <<app, suspended, paused, lastRun, readRun>> /\ BootFrame

\* A read or the sweep rejects: init() rejects, its listeners stay attached.
InitFails ==
  /\ \/ boot \in {"loading", "read"} /\ "load" \in Faults
     \/ boot = "marking" /\ "stale" \in Faults
  /\ boot' = IF suspended THEN "halted" ELSE "stuck"
  /\ readRun' = NoJob
  /\ UNCHANGED <<app, suspended, paused, pendingKick, coldKick, served, loops,
                 lastRun, row, status>> /\ BootFrame

\* The stores are hydrated; in the background the kick is held back.
StoresHydrated ==
  /\ boot # "off" /\ coldKick = "none"
  /\ coldKick' = IF app = "background" THEN "held" ELSE "settling"
  /\ UNCHANGED <<app, boot, suspended, paused, pendingKick, served, loops, lastRun,
                 readRun, row, status>> /\ BootFrame

\* The settle timer of the cold start fires: _onForeground, with no held kick.
ColdKick ==
  /\ coldKick = "settling"
  /\ coldKick' = "over"
  /\ loops' = Begun({"foreground"}) /\ served' = TRUE /\ Sweep
  /\ UNCHANGED <<app, boot, suspended, paused, pendingKick, lastRun, readRun, row>>
  /\ BootFrame
--------------------------------------------------------------------------------
(* The operating system, the network, the auth breaker, the update gate.    *)

EventFrame == UNCHANGED <<asking, failing, lastRun, readRun, timers, job, pc, noOp,
                          disk, crashes>>

\* AppState turns active.  While init() is reading, the kick is remembered;
\* afterwards it sweeps a stale flag and starts a loop, taking a held cold
\* kick along.
Activate ==
  /\ app # "active"
  /\ app' = "active"
  /\ IF Listening /\ ~Initializing
     THEN ForegroundKick({}) /\ UNCHANGED pendingKick
     ELSE /\ IF Listening THEN RememberKick ELSE UNCHANGED pendingKick
          /\ served' = FALSE
          /\ UNCHANGED <<coldKick, loops, status>>
  /\ UNCHANGED <<boot, suspended, paused>> /\ EventFrame

Deactivate ==
  /\ \E s \in AppStates \ {"active", app} : app' = s
  /\ UNCHANGED <<boot, suspended, paused, pendingKick, coldKick, served, loops,
                 status>> /\ EventFrame

\* The 5s interval, foreground only.
Tick ==
  /\ boot = "running" /\ app = "active"
  /\ loops' = Begun({"tick"})
  /\ UNCHANGED <<process, status>> /\ EventFrame

\* isConnected turns true while not in the background.
NetworkReconnect ==
  /\ Listening /\ app # "background"
  /\ loops' = Begun({"reconnect"})
  /\ UNCHANGED <<process, status>> /\ EventFrame

\* The auth-failure breaker opens, or closes.
PauseOrResume ==
  /\ paused' = ~paused
  /\ UNCHANGED <<app, boot, suspended, pendingKick, coldKick, served, loops, status>>
  /\ EventFrame

\* The mandatory-update gate: listeners and tick are torn down, the flag set.
Suspend ==
  /\ ~suspended
  /\ suspended' = TRUE
  /\ boot' = IF boot \in {"running", "stuck"} THEN "halted" ELSE boot
  /\ UNCHANGED <<app, paused, pendingKick, coldKick, served, loops, status>>
  /\ EventFrame

\* The process is killed and started again, for a reader or by the OS.
Crash ==
  /\ crashes < MaxCrashes
  /\ crashes' = crashes + 1
  /\ app' \in AppStates /\ boot' = "off" /\ suspended' = FALSE /\ paused' = FALSE
  /\ pendingKick' = FALSE /\ coldKick' = "none" /\ served' = FALSE
  /\ loops' = {} /\ asking' = {}
  /\ status' = "none" /\ failing' = FALSE /\ lastRun' = NoJob /\ readRun' = NoJob
  /\ timers' = {}
  /\ pc' = [j \in Jobs |-> IF Live(j) \/ Died(j) THEN "lost" ELSE pc[j]]
  /\ UNCHANGED <<job, noOp, disk>>
--------------------------------------------------------------------------------
LoopStep(k) == LoopSkip(k) \/ LoopAsk(k) \/ ConditionsMet(k) \/ ConditionsUnmet(k)

JobStep(j) ==
  \/ CreateFails(j) \/ Created(j) \/ MarkRunningFails(j) \/ MarkedRunning(j)
  \/ HandlerOk(j) \/ HandlerFails(j) \/ MarkedCompleted(j) \/ LastRunSaved(j)
  \/ BookkeepingFails(j) \/ MarkedFailed(j) \/ MarkFailedFails(j)

BootStep ==
  \/ InitStarts \/ LastRunRead \/ LastRunLoaded \/ InitEnds \/ InitFails
  \/ StoresHydrated \/ ColdKick

Next ==
  \/ \E k \in LoopKinds : LoopStep(k)
  \/ \E j \in Jobs : JobStep(j) \/ Retry(j)
  \/ BootStep
  \/ Trigger \/ Activate \/ Deactivate \/ Tick \/ NetworkReconnect
  \/ PauseOrResume \/ Suspend \/ Crash

Spec == Init /\ [][Next]_vars

\* init(), hydration and their timers go on; nothing obliges an event or a run.
FairSpec == Spec /\ WF_vars(BootStep)
--------------------------------------------------------------------------------
(* Properties.                                                              *)

TypeOK ==
  /\ app \in AppStates /\ boot \in BootStates /\ coldKick \in ColdKicks
  /\ suspended \in BOOLEAN /\ paused \in BOOLEAN /\ pendingKick \in BOOLEAN
  /\ served \in BOOLEAN /\ failing \in BOOLEAN
  /\ loops \subseteq LoopKinds /\ asking \subseteq LoopKinds
  /\ status \in TaskStatus
  /\ lastRun \in 0..MaxJobs /\ readRun \in 0..MaxJobs /\ savedRun \in 0..MaxJobs
  /\ timers \subseteq Jobs /\ nextJob \in 0..MaxJobs /\ crashes \in 0..MaxCrashes
  /\ pc \in [Jobs -> Places]
  /\ attempt \in [Jobs -> 0..MaxAttempts]
  /\ origin \in [Jobs -> 0..MaxJobs]
  /\ noOp \in [Jobs -> BOOLEAN]
  /\ row \in [Jobs -> TaskStatus \cup {"stale"}]

\* The exclusive task never runs beside itself, whichever of the triggers start
\* it together: the reservation is made for that (AppScheduler.ts:632-635).
ExclusiveRuns == \A i, j \in Jobs : Live(i) /\ Live(j) => i = j

\* The running flag belongs to a live run, or to one whose markRunning or
\* markFailed rejected (scheduler-runner.ts:17 and 97): every other way a run ends
\* takes the flag down, so that no task is blocked for the rest of the session by
\* a run that is gone (AppScheduler.ts:641).
RunningMeansLive == status = "running" => \E j \in Jobs : Live(j) \/ Died(j)

\* A ladder of retries climbs: its jobs have different attempts, none beyond
\* maxAttempts, so there are at most that many, whatever pauses, sweeps, overlaps
\* and restarts happen on the way.
LadderBounded ==
  /\ \A i, j \in Jobs :
       origin[i] = origin[j] /\ origin[i] # NoJob /\ attempt[i] = attempt[j] => i = j
  /\ \A o \in Jobs : Cardinality({j \in Jobs : origin[j] = o}) <= MaxAttempts

\* A last-run stamp, saved or in memory, names a run whose handler did work and
\* whose completion is on disk: no run that did nothing arms the frequency gate.
LastRunHonest ==
  \A j \in {lastRun, savedRun, readRun} \ {NoJob} :
    row[j] = "completed" /\ ~noOp[j]

\* After suspend() nothing is enqueued, by whatever loop, trigger or timer.
SuspendHalts == [][suspended /\ suspended' => nextJob' = nextJob]_vars

\* No activation is lost: a reader who opens the app gets a foreground kick,
\* also when the app turns active while init() is reading, or was hydrated in
\* the background, unless the reader leaves again or the scheduler is dead.
ReaderServed ==
  (app = "active" /\ ~served)
     ~> (served \/ app # "active" \/ suspended \/ boot = "stuck")
================================================================================
