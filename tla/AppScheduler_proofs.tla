-------------------------- MODULE AppScheduler_proofs --------------------------
(***************************************************************************)
(* Proofs about the task scheduler, for any number of jobs, attempts and   *)
(* restarts.                                                               *)
(***************************************************************************)
EXTENDS AppScheduler, FiniteSetTheorems, TLAPS

(* The invariant.                                                           *)

\* Jobs are numbered as they are reserved, and each belongs to the ladder of a
\* job reserved before it or of its own.
Numbered ==
  /\ \A j \in Jobs : pc[j] = "unused" <=> j > nextJob
  /\ \A j \in Jobs : origin[j] = NoJob <=> j > nextJob
  /\ \A j \in Jobs : origin[j] <= nextJob

\* A job that runs, or whose retry is timed, is the last of its ladder.
Foremost(j) == Live(j) \/ j \in timers

\* The jobs of a ladder are told apart by their attempts, and only the last of
\* them may be retried, if it has an attempt left.
Ladders ==
  /\ \A j \in Jobs : j <= nextJob => attempt[j] > 0
  /\ \A i, j \in Jobs :
       i <= nextJob /\ j <= nextJob /\ origin[i] = origin[j] =>
         /\ attempt[i] = attempt[j] => i = j
         /\ Foremost(j) => attempt[i] <= attempt[j]
  /\ \A j \in timers : pc[j] = "ended" /\ attempt[j] < MaxAttempts

\* A stamp names a run that is over, so nothing takes back what it stands for;
\* a run whose stamp is being saved has done its work.
Stamped ==
  /\ \A j \in {lastRun, savedRun, readRun} \ {NoJob} :
       pc[j] = "ended" /\ row[j] = "completed" /\ ~noOp[j]
  /\ \A j \in Jobs :
       pc[j] = "saveLastRun" => row[j] = "completed" /\ ~noOp[j]

IInv == TypeOK /\ Numbered /\ Ladders /\ Stamped
--------------------------------------------------------------------------------
(* What a step does to the jobs.                                            *)

\* A job is reserved: the next number, with one of the attempts there are.
Reserved(tries, first) ==
  LET n == nextJob + 1 IN
  /\ ~suspended /\ n \in Jobs /\ nextJob' = n /\ status' = "running"
  /\ pc' = [pc EXCEPT ![n] = "create"]
  /\ attempt' = [attempt EXCEPT ![n] = tries]
  /\ origin' = [origin EXCEPT ![n] = IF first = NoJob THEN n ELSE first]

\* Nothing is reserved and no run moves.
Still == UNCHANGED <<pc, nextJob, attempt, origin>>

LEMMA EnqueueShape ==
  ASSUME TypeOK, NEW tries, NEW first, Enqueue(tries, first)
  PROVE  Reserved(tries, first) \/ (Still /\ UNCHANGED status)
<1>1. CASE suspended
  BY <1>1 DEF Enqueue, Halted, Still
<1>2. CASE ~suspended
  <2>1. nextJob + 1 \in Jobs
    BY <1>2, BoundsAssumption DEF Enqueue, Halted, TypeOK, Jobs
  <2>. QED BY <1>2, <2>1 DEF Enqueue, Halted, Reserved, ReserveTask, Goto
<1>. QED BY <1>1, <1>2

\* A sweep leaves a status of the task.
LEMMA SweepTyped ==
  ASSUME TypeOK, Sweep PROVE status' \in TaskStatus
BY DEF Sweep, TypeOK, TaskStatus

\* Run j goes on, and nothing is reserved; its retry is timed at its end, if it
\* has an attempt left.
Runs(j) ==
  /\ Live(j)
  /\ \E where \in LivePlaces \cup {"ended", "died"} : pc' = [pc EXCEPT ![j] = where]
  /\ UNCHANGED job
  /\ \/ timers' = timers
     \/ timers' = timers \cup {j} /\ attempt[j] < MaxAttempts /\ pc'[j] = "ended"

LEMMA RunShape ==
  ASSUME TypeOK, NEW j \in Jobs, JobStep(j)
  PROVE  Runs(j)
<1>. USE DEF Live, LivePlaces, Goto, JobFrame, Runs
<1>1. CASE CreateFails(j) \/ Created(j)
  BY <1>1 DEF CreateFails, Created
<1>2. CASE MarkRunningFails(j) \/ MarkedRunning(j)
  BY <1>2 DEF MarkRunningFails, MarkedRunning
<1>3. CASE HandlerOk(j) \/ HandlerFails(j)
  BY <1>3 DEF HandlerOk, HandlerFails, Caught
<1>4. CASE MarkedCompleted(j)
  BY <1>4 DEF MarkedCompleted, Complete
<1>5. CASE LastRunSaved(j)
  BY <1>5 DEF LastRunSaved, Complete
<1>6. CASE BookkeepingFails(j)
  BY <1>6 DEF BookkeepingFails, Caught
<1>7. CASE MarkedFailed(j)
  <2>1. pc[j] = "markFailed" /\ pc' = [pc EXCEPT ![j] = "ended"] /\ UNCHANGED job
    BY <1>7 DEF MarkedFailed
  <2>2. pc'[j] = "ended"
    BY <2>1 DEF TypeOK
  <2>3. attempt[j] \in 0..MaxAttempts /\ MaxAttempts \in Nat
    BY BoundsAssumption DEF TypeOK
  <2>4. timers' = timers \/ (timers' = timers \cup {j} /\ ~Exhausted(j))
    BY <1>7 DEF MarkedFailed
  <2>. QED BY <2>1, <2>2, <2>3, <2>4 DEF Exhausted
<1>8. CASE MarkFailedFails(j)
  BY <1>8 DEF MarkFailedFails
<1>. QED BY <1>1, <1>2, <1>3, <1>4, <1>5, <1>6, <1>7, <1>8 DEF JobStep

\* The process is killed: its runs are lost and no retry is timed.
Killed ==
  /\ pc' = [j \in Jobs |-> IF Live(j) \/ Died(j) THEN "lost" ELSE pc[j]]
  /\ timers' = {} /\ UNCHANGED job

\* Every step is one of these to the jobs: a first attempt or a retry is
\* reserved, a run goes on, all are lost, or nothing happens.
First == Reserved(1, NoJob) /\ timers' = timers
Again(j) == Reserved(NextAttempt(j), origin[j]) /\ timers' = timers \ {j}
Quiet == Still /\ timers' \subseteq timers

LEMMA Shapes ==
  ASSUME TypeOK, [Next]_vars
  PROVE  \/ First \/ Quiet \/ Killed
         \/ \E j \in timers : Again(j)
         \/ \E j \in Jobs : Runs(j)
<1>1. CASE UNCHANGED vars
  BY <1>1 DEF vars, memory, job, Quiet, Still
<1>2. ASSUME NEW k \in LoopKinds, LoopStep(k) PROVE First \/ Quiet
  <2>1. CASE LoopSkip(k) \/ LoopAsk(k) \/ ConditionsUnmet(k)
    BY <2>1 DEF LoopSkip, LoopAsk, ConditionsUnmet, memory, job, Quiet, Still
  <2>2. CASE ConditionsMet(k)
    BY <2>2, EnqueueShape DEF ConditionsMet, First, Quiet
  <2>. QED BY <1>2, <2>1, <2>2 DEF LoopStep
<1>3. CASE Trigger
  BY <1>3, EnqueueShape DEF Trigger, First, Quiet
<1>4. ASSUME NEW j \in timers, Retry(j) PROVE Again(j) \/ Quiet
  <2>1. timers' = timers \ {j}
    BY <1>4 DEF Retry
  <2>2. CASE Free
    BY <1>4, <2>1, <2>2, EnqueueShape DEF Retry, Again, Quiet
  <2>3. CASE ~Free
    BY <1>4, <2>1, <2>3 DEF Retry, Quiet, Still
  <2>. QED BY <2>2, <2>3
<1>5. CASE BootStep
  BY <1>5 DEF BootStep, InitStarts, LastRunRead, LastRunLoaded, InitEnds, InitFails,
       StoresHydrated, ColdKick, BootFrame, job, Quiet, Still
<1>6. CASE Activate \/ Deactivate \/ Tick \/ NetworkReconnect \/ PauseOrResume \/ Suspend
  BY <1>6 DEF Activate, Deactivate, Tick, NetworkReconnect, PauseOrResume, Suspend,
       EventFrame, job, Quiet, Still
<1>7. CASE Crash
  BY <1>7 DEF Crash, Killed
<1>8. \A j \in Jobs : Retry(j) => j \in timers
  BY DEF Retry
<1>. QED BY <1>1, <1>2, <1>3, <1>4, <1>5, <1>6, <1>7, <1>8, RunShape DEF Next
--------------------------------------------------------------------------------
(* Types.                                                                   *)

\* What is reserved has a number and an attempt there is.
LEMMA ReservedTyped ==
  ASSUME TypeOK, NEW tries \in 1..MaxAttempts, NEW first \in 0..MaxJobs,
         Reserved(tries, first)
  PROVE  /\ nextJob' \in 0..MaxJobs /\ status' \in TaskStatus
         /\ pc' \in [Jobs -> Places]
         /\ attempt' \in [Jobs -> 0..MaxAttempts] /\ origin' \in [Jobs -> 0..MaxJobs]
<1>1. MaxJobs \in Nat /\ MaxAttempts \in Nat
  BY BoundsAssumption
<1>2. /\ nextJob + 1 \in Jobs /\ nextJob' = nextJob + 1 /\ status' = "running"
      /\ pc' = [pc EXCEPT ![nextJob + 1] = "create"]
      /\ attempt' = [attempt EXCEPT ![nextJob + 1] = tries]
      /\ origin' = [origin EXCEPT ![nextJob + 1] =
                      IF first = NoJob THEN nextJob + 1 ELSE first]
  BY DEF Reserved
<1>3. /\ "create" \in Places /\ "running" \in TaskStatus
      /\ tries \in 0..MaxAttempts
      /\ nextJob + 1 \in 0..MaxJobs
  BY <1>1, <1>2 DEF Places, LivePlaces, TaskStatus, Jobs
<1>. QED BY <1>2, <1>3 DEF TypeOK

\* The numbers, places, attempts and origins keep their types.
LEMMA JobsTyped ==
  ASSUME IInv, [Next]_vars
  PROVE  /\ nextJob' \in 0..MaxJobs /\ timers' \subseteq Jobs
         /\ pc' \in [Jobs -> Places]
         /\ attempt' \in [Jobs -> 0..MaxAttempts] /\ origin' \in [Jobs -> 0..MaxJobs]
<1>0. TypeOK /\ 1 \in 1..MaxAttempts /\ NoJob \in 0..MaxJobs
  BY BoundsAssumption DEF IInv, NoJob
<1>1. CASE First
  BY <1>0, <1>1, ReservedTyped DEF First, TypeOK
<1>2. CASE Quiet
  BY <1>0, <1>2 DEF Quiet, Still, TypeOK
<1>3. CASE Killed
  <2>1. "lost" \in Places
    BY DEF Places
  <2>. QED BY <1>0, <1>3, <2>1 DEF Killed, job, TypeOK
<1>4. ASSUME NEW j \in timers, Again(j)
      PROVE  /\ nextJob' \in 0..MaxJobs /\ timers' \subseteq Jobs
             /\ pc' \in [Jobs -> Places]
             /\ attempt' \in [Jobs -> 0..MaxAttempts] /\ origin' \in [Jobs -> 0..MaxJobs]
  <2>1. NextAttempt(j) \in 1..MaxAttempts /\ origin[j] \in 0..MaxJobs
    BY <1>0, BoundsAssumption DEF IInv, Ladders, NextAttempt, TypeOK
  <2>. QED BY <1>0, <1>4, <2>1, ReservedTyped DEF Again, TypeOK
<1>5. ASSUME NEW j \in Jobs, Runs(j)
      PROVE  /\ nextJob' \in 0..MaxJobs /\ timers' \subseteq Jobs
             /\ pc' \in [Jobs -> Places]
             /\ attempt' \in [Jobs -> 0..MaxAttempts] /\ origin' \in [Jobs -> 0..MaxJobs]
  <2>1. LivePlaces \cup {"ended", "died"} \subseteq Places
    BY DEF Places
  <2>. QED BY <1>0, <1>5, <2>1 DEF Runs, job, TypeOK
<1>. QED BY <1>0, <1>1, <1>2, <1>3, <1>4, <1>5, Shapes

\* A reservation keeps the flag's type, in whatever step it is made.
LEMMA EnqueueStatus ==
  ASSUME TypeOK, NEW tries, NEW first, Enqueue(tries, first)
  PROVE  status' \in TaskStatus
BY EnqueueShape DEF Reserved, TypeOK, TaskStatus

LEMMA StatusTyped ==
  ASSUME TypeOK, [Next]_vars PROVE status' \in TaskStatus
<1>0. status \in TaskStatus /\ {"none", "pending", "running", "completed", "failed",
                                "retrying"} \subseteq TaskStatus
  BY DEF TypeOK, TaskStatus
<1>1. CASE UNCHANGED vars
  BY <1>0, <1>1 DEF vars, memory
<1>2. ASSUME NEW k \in LoopKinds, LoopStep(k) PROVE status' \in TaskStatus
  BY <1>0, <1>2, EnqueueStatus
     DEF LoopStep, LoopSkip, LoopAsk, ConditionsMet, ConditionsUnmet, memory
<1>3. ASSUME NEW j \in Jobs, JobStep(j) PROVE status' \in TaskStatus
  BY <1>0, <1>3 DEF JobStep, CreateFails, Created, MarkRunningFails, MarkedRunning,
       HandlerOk, HandlerFails, MarkedCompleted, LastRunSaved, BookkeepingFails,
       MarkedFailed, MarkFailedFails, ClearTaskReservation, Complete
<1>4. ASSUME NEW j \in Jobs, Retry(j) PROVE status' \in TaskStatus
  BY <1>0, <1>4, EnqueueStatus DEF Retry
<1>5. CASE Trigger
  BY <1>5, EnqueueStatus DEF Trigger
<1>6. CASE BootStep
  BY <1>0, <1>6, SweepTyped DEF BootStep, InitStarts, LastRunRead, LastRunLoaded,
       InitEnds, InitFails, StoresHydrated, ColdKick, ForegroundKick
<1>7. CASE Activate \/ Deactivate \/ Tick \/ NetworkReconnect \/ PauseOrResume
             \/ Suspend \/ Crash
  BY <1>0, <1>7, SweepTyped DEF Activate, Deactivate, Tick, NetworkReconnect,
       PauseOrResume, Suspend, Crash, ForegroundKick
<1>. QED BY <1>1, <1>2, <1>3, <1>4, <1>5, <1>6, <1>7 DEF Next

\* The state of the process.
LEMMA ProcessTyped ==
  ASSUME TypeOK, [Next]_vars
  PROVE  /\ app' \in AppStates /\ boot' \in BootStates /\ coldKick' \in ColdKicks
         /\ suspended' \in BOOLEAN /\ paused' \in BOOLEAN /\ pendingKick' \in BOOLEAN
         /\ served' \in BOOLEAN
         /\ loops' \subseteq LoopKinds /\ asking' \subseteq LoopKinds
<1>. USE DEF process, BootStates, ColdKicks
<1>0. \A K \in SUBSET LoopKinds : Begun(K) \subseteq LoopKinds
  BY DEF Begun, TypeOK
<1>1. CASE UNCHANGED vars
  BY <1>1 DEF vars, TypeOK
<1>2. ASSUME NEW k \in LoopKinds, LoopStep(k)
      PROVE  UNCHANGED process /\ loops' \subseteq LoopKinds /\ asking' \subseteq LoopKinds
  BY <1>2 DEF LoopStep, LoopSkip, LoopAsk, ConditionsMet, ConditionsUnmet, TypeOK
<1>3. ASSUME NEW j \in Jobs, JobStep(j) \/ Retry(j)
      PROVE  UNCHANGED process /\ loops' = loops /\ asking' = asking
  BY <1>3 DEF JobStep, CreateFails, Created, MarkRunningFails, MarkedRunning,
       HandlerOk, HandlerFails, MarkedCompleted, LastRunSaved, BookkeepingFails,
       MarkedFailed, MarkFailedFails, JobFrame, Retry
<1>4. CASE Trigger
  BY <1>4 DEF Trigger, TypeOK
<1>5. CASE BootStep
  <2>1. CASE InitEnds
    <3>1. {"tick"} \subseteq LoopKinds /\ {} \subseteq LoopKinds
          /\ {"foreground", "tick"} \subseteq LoopKinds
      BY DEF LoopKinds
    <3>2. UNCHANGED <<app, suspended, paused, asking>>
      BY <2>1 DEF InitEnds, BootFrame
    <3>3. boot' \in {"halted", "running"} /\ pendingKick' \in {pendingKick, FALSE}
      BY <2>1 DEF InitEnds
    <3>4. coldKick' \in {coldKick, "over"} /\ served' \in {served, TRUE}
      BY <2>1 DEF InitEnds, ForegroundKick
    <3>5. \/ loops' = loops \/ loops' = Begun({"tick"}) \/ loops' = Begun({})
          \/ loops' = Begun({"foreground"} \cup {"tick"})
          \/ loops' = Begun({"foreground"} \cup {})
      BY <2>1 DEF InitEnds, ForegroundKick
    <3>. QED BY <1>0, <3>1, <3>2, <3>3, <3>4, <3>5 DEF TypeOK, LoopKinds
  <2>2. CASE ColdKick
    BY <1>0, <2>2 DEF ColdKick, BootFrame, TypeOK, LoopKinds
  <2>3. CASE InitStarts \/ LastRunRead \/ LastRunLoaded \/ InitFails \/ StoresHydrated
    BY <2>3 DEF InitStarts, LastRunRead, LastRunLoaded, InitFails, StoresHydrated,
         BootFrame, TypeOK
  <2>. QED BY <1>5, <2>1, <2>2, <2>3 DEF BootStep
<1>6. CASE Activate
  <2>1. UNCHANGED <<boot, suspended, paused, asking>>
    BY <1>6 DEF Activate, EventFrame
  <2>2. app' = "active" /\ pendingKick' \in {pendingKick, TRUE}
        /\ served' \in {TRUE, FALSE} /\ coldKick' \in {coldKick, "over"}
        /\ (loops' = loops \/ loops' = Begun({"foreground"} \cup {}))
    BY <1>6 DEF Activate, ForegroundKick, RememberKick
  <2>3. app' \in AppStates /\ served' \in BOOLEAN /\ pendingKick' \in BOOLEAN
    BY <2>2, ChoicesAssumption DEF TypeOK
  <2>4. coldKick' \in ColdKicks
    BY <2>2 DEF TypeOK, ColdKicks
  <2>5. loops' \subseteq LoopKinds
    <3>1. {"foreground"} \cup {} \in SUBSET LoopKinds
      BY DEF LoopKinds
    <3>2. Begun({"foreground"} \cup {}) \subseteq LoopKinds
      BY <1>0, <3>1
    <3>. QED BY <2>2, <3>2 DEF TypeOK
  <2>. QED BY <2>1, <2>3, <2>4, <2>5 DEF TypeOK
<1>7. CASE Deactivate \/ PauseOrResume \/ Suspend
  <2>1. CASE Deactivate
    BY <2>1 DEF Deactivate, EventFrame, TypeOK
  <2>2. CASE PauseOrResume
    BY <2>2 DEF PauseOrResume, EventFrame, TypeOK
  <2>3. CASE Suspend
    BY <2>3 DEF Suspend, EventFrame, TypeOK
  <2>. QED BY <1>7, <2>1, <2>2, <2>3
<1>8. CASE Tick \/ NetworkReconnect
  BY <1>0, <1>8 DEF Tick, NetworkReconnect, EventFrame, TypeOK, LoopKinds
<1>9. CASE Crash
  BY <1>9 DEF Crash, TypeOK
<1>. QED BY <1>1, <1>2, <1>3, <1>4, <1>5, <1>6, <1>7, <1>8, <1>9 DEF Next, TypeOK

\* The stamps, the failure, the rows and what the handlers said.
LEMMA StampsTyped ==
  ASSUME TypeOK, [Next]_vars
  PROVE  /\ failing' \in BOOLEAN /\ crashes' \in 0..MaxCrashes
         /\ lastRun' \in 0..MaxJobs /\ readRun' \in 0..MaxJobs /\ savedRun' \in 0..MaxJobs
         /\ noOp' \in [Jobs -> BOOLEAN]
         /\ row' \in [Jobs -> TaskStatus \cup {"stale"}]
<1>0. /\ MaxCrashes \in Nat /\ NoJob \in 0..MaxJobs /\ Jobs \subseteq 0..MaxJobs
      /\ failing \in BOOLEAN /\ crashes \in 0..MaxCrashes
      /\ lastRun \in 0..MaxJobs /\ readRun \in 0..MaxJobs /\ savedRun \in 0..MaxJobs
      /\ noOp \in [Jobs -> BOOLEAN]
      /\ row \in [Jobs -> TaskStatus \cup {"stale"}]
  BY BoundsAssumption DEF TypeOK, NoJob, Jobs
<1>1. CASE UNCHANGED vars
  BY <1>0, <1>1 DEF vars, memory, disk
<1>2. ASSUME NEW k \in LoopKinds, LoopStep(k)
      PROVE  UNCHANGED <<failing, crashes, lastRun, readRun, savedRun, noOp, row>>
  BY <1>2 DEF LoopStep, LoopSkip, LoopAsk, ConditionsMet, ConditionsUnmet, memory, disk
<1>3. ASSUME NEW j \in Jobs, JobStep(j)
      PROVE  /\ failing' \in BOOLEAN /\ crashes' = crashes /\ readRun' = readRun
             /\ lastRun' \in 0..MaxJobs /\ savedRun' \in 0..MaxJobs
             /\ noOp' \in [Jobs -> BOOLEAN]
             /\ row' \in [Jobs -> TaskStatus \cup {"stale"}]
  <2>1. {"pending", "running", "completed", "failed", "retrying"} \subseteq TaskStatus
    BY DEF TaskStatus
  <2>2. j \in 0..MaxJobs
    BY <1>0
  <2>3. CASE CreateFails(j) \/ MarkRunningFails(j) \/ MarkFailedFails(j)
    BY <1>0, <2>3 DEF CreateFails, MarkRunningFails, MarkFailedFails, JobFrame, disk
  <2>4. CASE Created(j) \/ MarkedRunning(j)
    BY <1>0, <2>1, <2>4 DEF Created, MarkedRunning, JobFrame
  <2>5. CASE HandlerOk(j) \/ HandlerFails(j) \/ BookkeepingFails(j)
    BY <1>0, <2>5 DEF HandlerOk, HandlerFails, BookkeepingFails, Caught, JobFrame, disk
  <2>6. CASE MarkedCompleted(j)
    BY <1>0, <2>1, <2>2, <2>6 DEF MarkedCompleted, Complete, JobFrame
  <2>7. CASE LastRunSaved(j)
    BY <1>0, <2>2, <2>7 DEF LastRunSaved, Complete, JobFrame
  <2>8. CASE MarkedFailed(j)
    BY <1>0, <2>1, <2>8 DEF MarkedFailed, JobFrame
  <2>. QED BY <1>3, <2>3, <2>4, <2>5, <2>6, <2>7, <2>8 DEF JobStep
<1>4. ASSUME NEW j \in Jobs, Retry(j)
      PROVE  UNCHANGED <<failing, crashes, lastRun, readRun, savedRun, noOp, row>>
  BY <1>4 DEF Retry, disk
<1>5. CASE Trigger
  BY <1>0, <1>5 DEF Trigger, disk
<1>6. CASE BootStep
  <2>1. UNCHANGED <<failing, crashes, savedRun, noOp>>
    BY <1>6 DEF BootStep, InitStarts, LastRunRead, LastRunLoaded, InitEnds, InitFails,
         StoresHydrated, ColdKick, BootFrame
  <2>2. readRun' \in {readRun, savedRun, NoJob} /\ lastRun' \in {lastRun, readRun}
    BY <1>6 DEF BootStep, InitStarts, LastRunRead, LastRunLoaded, InitEnds, InitFails,
         StoresHydrated, ColdKick
  <2>3. row' \in [Jobs -> TaskStatus \cup {"stale"}]
    BY <1>0, <1>6 DEF BootStep, InitStarts, LastRunRead, LastRunLoaded, InitEnds,
         InitFails, StoresHydrated, ColdKick
  <2>. QED BY <1>0, <2>1, <2>2, <2>3
<1>7. CASE Activate \/ Deactivate \/ Tick \/ NetworkReconnect \/ PauseOrResume \/ Suspend
  BY <1>0, <1>7 DEF Activate, Deactivate, Tick, NetworkReconnect, PauseOrResume,
       Suspend, EventFrame, disk
<1>8. CASE Crash
  <2>1. crashes' \in 0..MaxCrashes
    BY <1>0, <1>8 DEF Crash
  <2>2. failing' = FALSE /\ lastRun' = NoJob /\ readRun' = NoJob /\ UNCHANGED <<noOp, row, savedRun>>
    BY <1>8 DEF Crash, disk
  <2>. QED BY <1>0, <2>1, <2>2
<1>. QED BY <1>0, <1>1, <1>2, <1>3, <1>4, <1>5, <1>6, <1>7, <1>8 DEF Next

LEMMA TypeStep == IInv /\ [Next]_vars => TypeOK'
BY JobsTyped, StatusTyped, ProcessTyped, StampsTyped DEF IInv, TypeOK
--------------------------------------------------------------------------------
(* The ladders of retries.                                                  *)

\* What reserving the next job leaves to the others.
LEMMA ReservedKeeps ==
  ASSUME TypeOK, Numbered, NEW tries \in Nat, NEW first \in 0..nextJob,
         Reserved(tries, first)
  PROVE  /\ nextJob + 1 \in Jobs /\ nextJob' = nextJob + 1
         /\ pc'[nextJob + 1] = "create" /\ attempt'[nextJob + 1] = tries
         /\ origin'[nextJob + 1] = IF first = NoJob THEN nextJob + 1 ELSE first
         /\ \A j \in Jobs : j # nextJob + 1 =>
              /\ pc'[j] = pc[j] /\ attempt'[j] = attempt[j] /\ origin'[j] = origin[j]
         /\ Numbered'
<1>0. nextJob \in Nat /\ MaxJobs \in Nat
  BY BoundsAssumption DEF TypeOK
<1>. DEFINE n == nextJob + 1
<1>1. /\ n \in Jobs /\ nextJob' = n
      /\ pc' = [pc EXCEPT ![n] = "create"]
      /\ attempt' = [attempt EXCEPT ![n] = tries]
      /\ origin' = [origin EXCEPT ![n] = IF first = NoJob THEN n ELSE first]
  BY DEF Reserved
<1>2. /\ pc'[n] = "create" /\ attempt'[n] = tries
      /\ origin'[n] = IF first = NoJob THEN n ELSE first
      /\ \A j \in Jobs : j # n =>
           /\ pc'[j] = pc[j] /\ attempt'[j] = attempt[j] /\ origin'[j] = origin[j]
  BY <1>1 DEF TypeOK
<1>3. \A j \in Jobs : j \in Nat
  BY DEF Jobs
<1>4. ASSUME NEW j \in Jobs
      PROVE  /\ pc'[j] = "unused" <=> j > n
             /\ origin'[j] = NoJob <=> j > n
             /\ origin'[j] <= n
  <2>1. CASE j = n
    BY <1>0, <1>2, <2>1 DEF NoJob
  <2>2. CASE j # n
    <3>1. (j > n <=> j > nextJob) /\ origin[j] \in Nat /\ origin[j] <= nextJob
      BY <1>0, <1>3, <2>2 DEF Numbered, TypeOK
    <3>. QED BY <1>0, <1>2, <2>2, <3>1 DEF Numbered
  <2>. QED BY <2>1, <2>2
<1>5. Numbered'
  BY <1>1, <1>4 DEF Numbered
<1>. HIDE DEF n
<1>. QED BY <1>1, <1>2, <1>5 DEF n

\* The jobs of a ladder stay apart, and the last of it is the one to retry.
LEMMA LaddersStep ==
  ASSUME IInv, [Next]_vars PROVE Numbered' /\ Ladders'
<1>0. /\ TypeOK /\ Numbered /\ Ladders /\ nextJob \in Nat
      /\ MaxAttempts \in Nat /\ 1 \in 1..MaxAttempts /\ NoJob \in 0..nextJob
      /\ \A j \in Jobs : /\ j \in Nat /\ attempt[j] \in Nat /\ origin[j] \in Nat
                         /\ origin[j] <= nextJob
  BY BoundsAssumption DEF IInv, TypeOK, NoJob, Jobs, Numbered
<1>1. CASE First
  <2>. DEFINE n == nextJob + 1
  <2>1. /\ n \in Jobs /\ nextJob' = n /\ timers' = timers
        /\ pc'[n] = "create" /\ attempt'[n] = 1 /\ origin'[n] = n
        /\ \A j \in Jobs : j # n =>
             /\ pc'[j] = pc[j] /\ attempt'[j] = attempt[j] /\ origin'[j] = origin[j]
        /\ Numbered'
    BY <1>0, <1>1, ReservedKeeps DEF First
  <2>2. n \notin timers /\ n \in Nat
    <3>1. n \in Nat /\ n > nextJob
      BY <1>0
    <3>2. pc[n] = "unused"
      BY <1>0, <2>1, <3>1 DEF Numbered
    <3>. QED BY <1>0, <3>1, <3>2 DEF Ladders
  <2>. HIDE DEF n
  <2>3. \A j \in Jobs : j <= nextJob' => attempt'[j] > 0
    <3>1. \A j \in Jobs : j <= n /\ j # n => j <= nextJob
      BY <1>0 DEF n
    <3>. QED BY <1>0, <2>1, <3>1 DEF Ladders
  <2>4. ASSUME NEW i \in Jobs, NEW j \in Jobs,
               i <= nextJob', j <= nextJob', origin'[i] = origin'[j]
        PROVE  /\ attempt'[i] = attempt'[j] => i = j
               /\ Foremost(j)' => attempt'[i] <= attempt'[j]
    <3>1. \A k \in Jobs : k # n => origin[k] # n
      BY <1>0 DEF n
    <3>2. CASE i = n \/ j = n
      BY <1>0, <2>1, <2>4, <3>1, <3>2
    <3>3. CASE i # n /\ j # n
      <4>1. i <= nextJob /\ j <= nextJob
        BY <1>0, <2>1, <2>4, <3>3 DEF n
      <4>. QED BY <1>0, <2>1, <2>4, <3>3, <4>1 DEF Ladders, Foremost, Live
    <3>. QED BY <3>2, <3>3
  <2>5. \A j \in timers' : pc'[j] = "ended" /\ attempt'[j] < MaxAttempts
    BY <1>0, <2>1, <2>2 DEF Ladders, TypeOK
  <2>. QED BY <2>1, <2>3, <2>4, <2>5 DEF Ladders
<1>2. ASSUME NEW r \in timers, Again(r) PROVE Numbered' /\ Ladders'
  <2>. DEFINE n == nextJob + 1
  <2>0. /\ r \in Jobs /\ r <= nextJob /\ pc[r] = "ended" /\ attempt[r] < MaxAttempts
        /\ origin[r] # NoJob /\ origin[r] \in 0..nextJob
        /\ \A i \in Jobs : i <= nextJob /\ origin[i] = origin[r] => attempt[i] <= attempt[r]
    <3>1. r \in Jobs /\ pc[r] = "ended" /\ attempt[r] < MaxAttempts
      BY <1>0 DEF TypeOK, Ladders
    <3>2. ~(r > nextJob)
      BY <1>0, <3>1 DEF Numbered
    <3>. QED BY <1>0, <3>1, <3>2 DEF Numbered, Ladders, Foremost
  <2>1. /\ n \in Jobs /\ nextJob' = n /\ timers' = timers \ {r}
        /\ pc'[n] = "create" /\ attempt'[n] = attempt[r] + 1 /\ origin'[n] = origin[r]
        /\ \A j \in Jobs : j # n =>
             /\ pc'[j] = pc[j] /\ attempt'[j] = attempt[j] /\ origin'[j] = origin[j]
        /\ Numbered'
    BY <1>0, <1>2, <2>0, ReservedKeeps DEF Again, NextAttempt
  <2>2. n \notin timers /\ n \in Nat
    <3>1. n \in Nat /\ n > nextJob
      BY <1>0
    <3>2. pc[n] = "unused"
      BY <1>0, <2>1, <3>1 DEF Numbered
    <3>. QED BY <1>0, <3>1, <3>2 DEF Ladders
  <2>. HIDE DEF n
  <2>3. \A j \in Jobs : j <= nextJob' => attempt'[j] > 0
    <3>1. \A j \in Jobs : j <= n /\ j # n => j <= nextJob
      BY <1>0 DEF n
    <3>. QED BY <1>0, <2>0, <2>1, <3>1 DEF Ladders
  <2>4. ASSUME NEW i \in Jobs, NEW j \in Jobs,
               i <= nextJob', j <= nextJob', origin'[i] = origin'[j]
        PROVE  /\ attempt'[i] = attempt'[j] => i = j
               /\ Foremost(j)' => attempt'[i] <= attempt'[j]
    <3>0. \A k \in Jobs : k <= n /\ k # n => k <= nextJob
      BY <1>0 DEF n
    <3>1. CASE i = n /\ j = n
      BY <1>0, <2>0, <2>1, <3>1
    <3>2. CASE i = n /\ j # n
      \* A live or timed job of this ladder is r, whose timer has fired.
      <4>1. j <= nextJob /\ origin[j] = origin[r] /\ attempt[j] <= attempt[r]
        BY <2>0, <2>1, <2>4, <3>0, <3>2
      <4>2. ~Foremost(j)'
        <5>1. Foremost(j)' => Foremost(j) /\ (j = r => FALSE)
          BY <2>0, <2>1, <3>2 DEF Foremost, Live, LivePlaces
        <5>2. Foremost(j) => attempt[r] <= attempt[j]
          BY <1>0, <2>0, <4>1 DEF Ladders
        <5>3. attempt[j] = attempt[r] => j = r
          BY <1>0, <2>0, <4>1 DEF Ladders
        <5>. QED BY <1>0, <2>0, <4>1, <5>1, <5>2, <5>3
      <4>. QED BY <1>0, <2>0, <2>1, <3>2, <4>1, <4>2
    <3>3. CASE i # n /\ j = n
      <4>1. i <= nextJob /\ origin[i] = origin[r]
        BY <2>0, <2>1, <2>4, <3>0, <3>3
      <4>. QED BY <1>0, <2>0, <2>1, <3>3, <4>1
    <3>4. CASE i # n /\ j # n
      <4>1. i <= nextJob /\ j <= nextJob
        BY <2>1, <2>4, <3>0, <3>4
      <4>. QED BY <1>0, <2>1, <2>4, <3>4, <4>1 DEF Ladders, Foremost, Live
    <3>. QED BY <3>1, <3>2, <3>3, <3>4
  <2>5. \A j \in timers' : pc'[j] = "ended" /\ attempt'[j] < MaxAttempts
    BY <1>0, <2>1, <2>2 DEF Ladders, TypeOK
  <2>. QED BY <2>1, <2>3, <2>4, <2>5 DEF Ladders
<1>3. ASSUME NEW r \in Jobs, Runs(r) PROVE Numbered' /\ Ladders'
  <2>1. UNCHANGED <<nextJob, attempt, origin>> /\ pc[r] \in LivePlaces
    BY <1>3 DEF Runs, job, Live
  <2>2. PICK where \in LivePlaces \cup {"ended", "died"} : pc' = [pc EXCEPT ![r] = where]
    BY <1>3 DEF Runs
  <2>3. pc'[r] = where /\ \A j \in Jobs : j # r => pc'[j] = pc[j]
    BY <1>0, <2>2 DEF TypeOK
  <2>4. \/ timers' = timers
        \/ timers' = timers \cup {r} /\ attempt[r] < MaxAttempts /\ pc'[r] = "ended"
    BY <1>3 DEF Runs
  <2>5. "unused" \notin LivePlaces \cup {"died"} /\ "ended" \notin LivePlaces
    BY DEF LivePlaces
  <2>6. Numbered'
    BY <1>0, <2>1, <2>2, <2>3, <2>5 DEF Numbered
  <2>7. \A j \in Jobs : Foremost(j)' => Foremost(j)
    BY <2>1, <2>3, <2>4 DEF Foremost, Live
  <2>8. \A j \in timers' : pc'[j] = "ended" /\ attempt'[j] < MaxAttempts
    BY <1>0, <2>1, <2>3, <2>4, <2>5 DEF Ladders, TypeOK
  <2>. QED BY <1>0, <2>1, <2>6, <2>7, <2>8 DEF Ladders
<1>4. CASE Killed
  <2>1. UNCHANGED <<nextJob, attempt, origin>> /\ timers' = {}
    BY <1>4 DEF Killed, job
  <2>2. \A j \in Jobs : pc'[j] = IF Live(j) \/ Died(j) THEN "lost" ELSE pc[j]
    BY <1>4 DEF Killed
  <2>3. \A j \in Jobs : ~Foremost(j)' /\ (pc'[j] = "unused" <=> pc[j] = "unused")
    BY <2>1, <2>2 DEF Foremost, Live, Died, LivePlaces
  <2>. QED BY <1>0, <2>1, <2>3 DEF Numbered, Ladders
<1>5. CASE Quiet
  <2>1. UNCHANGED <<pc, nextJob, attempt, origin>> /\ timers' \subseteq timers
    BY <1>5 DEF Quiet, Still
  <2>. QED BY <1>0, <2>1 DEF Numbered, Ladders, Foremost, Live
<1>. QED BY <1>0, <1>1, <1>2, <1>3, <1>4, <1>5, Shapes
--------------------------------------------------------------------------------
(* The stamps.                                                              *)

\* A step that saves or reads no stamp keeps them honest if the runs that are
\* over stay as they are.
LEMMA StampsKept ==
  ASSUME TypeOK, Stamped,
         {lastRun', savedRun', readRun'} \ {NoJob} \subseteq {lastRun, savedRun, readRun},
         \A j \in Jobs : pc[j] = "ended" /\ row[j] = "completed" =>
           pc'[j] = "ended" /\ row'[j] = row[j] /\ noOp'[j] = noOp[j],
         \A j \in Jobs : pc'[j] = "saveLastRun" =>
           pc[j] = "saveLastRun" /\ row'[j] = row[j] /\ noOp'[j] = noOp[j]
  PROVE  Stamped'
<1>1. {lastRun, savedRun, readRun} \ {NoJob} \subseteq Jobs
  BY BoundsAssumption DEF TypeOK, NoJob, Jobs
<1>. QED BY <1>1 DEF Stamped

\* A reservation touches no run that is over and no row.
LEMMA ReservedStamps ==
  ASSUME IInv, NEW tries \in Nat, NEW first \in 0..nextJob,
         Reserved(tries, first) \/ Still,
         UNCHANGED <<lastRun, savedRun, readRun, row, noOp>>
  PROVE  Stamped'
<1>1. CASE Still
  BY <1>1, StampsKept DEF Still, IInv
<1>2. CASE Reserved(tries, first)
  <2>0. nextJob \in Nat
    BY DEF IInv, TypeOK
  <2>1. /\ nextJob + 1 \in Jobs /\ pc'[nextJob + 1] = "create"
        /\ \A j \in Jobs : j # nextJob + 1 => pc'[j] = pc[j]
    BY <1>2, ReservedKeeps DEF IInv
  <2>2. pc[nextJob + 1] = "unused"
    BY <2>0, <2>1 DEF IInv, Numbered
  <2>. QED BY <2>1, <2>2, StampsKept DEF IInv
<1>. QED BY <1>1, <1>2

\* Every step of a run.
LEMMA RunStamps ==
  ASSUME IInv, NEW r \in Jobs, JobStep(r) PROVE Stamped'
<1>0. TypeOK /\ Stamped /\ r # NoJob
  BY DEF IInv, Jobs, NoJob
<1>1. CASE CreateFails(r) \/ MarkRunningFails(r) \/ MarkFailedFails(r)
  <2>1. /\ pc[r] \in LivePlaces
        /\ \E where \in {"ended", "died"} : pc' = [pc EXCEPT ![r] = where]
        /\ UNCHANGED <<lastRun, savedRun, readRun, row, noOp>>
    BY <1>1 DEF CreateFails, MarkRunningFails, MarkFailedFails, JobFrame, disk, Goto,
         LivePlaces
  <2>. QED BY <1>0, <2>1, StampsKept DEF LivePlaces, TypeOK
<1>2. CASE Created(r) \/ MarkedRunning(r) \/ MarkedFailed(r)
  <2>1. \E where \in {"markRunning", "handler", "ended"}, s \in TaskStatus :
          /\ pc[r] \in LivePlaces /\ pc' = [pc EXCEPT ![r] = where]
          /\ row' = [row EXCEPT ![r] = s]
          /\ UNCHANGED <<lastRun, savedRun, readRun, noOp>>
    BY <1>2 DEF Created, MarkedRunning, MarkedFailed, JobFrame, Goto, LivePlaces, TaskStatus
  <2>. QED BY <1>0, <2>1, StampsKept DEF LivePlaces, TypeOK
<1>3. CASE HandlerOk(r) \/ HandlerFails(r) \/ BookkeepingFails(r)
  <2>1. \E where \in {"markCompleted", "markFailed"}, idle \in BOOLEAN :
          /\ pc[r] \in LivePlaces /\ pc' = [pc EXCEPT ![r] = where]
          /\ noOp' = [noOp EXCEPT ![r] = idle] \/ noOp' = noOp
          /\ UNCHANGED <<lastRun, savedRun, readRun, row>>
    BY <1>3 DEF HandlerOk, HandlerFails, BookkeepingFails, Caught, JobFrame, disk, Goto,
         LivePlaces
  <2>. QED BY <1>0, <2>1, StampsKept DEF LivePlaces, TypeOK
<1>4. CASE MarkedCompleted(r)
  <2>1. /\ pc[r] = "markCompleted" /\ row' = [row EXCEPT ![r] = "completed"]
        /\ UNCHANGED <<savedRun, readRun, noOp>>
    BY <1>4 DEF MarkedCompleted, JobFrame
  <2>2. \/ /\ ~noOp[r] /\ pc' = [pc EXCEPT ![r] = "saveLastRun"] /\ lastRun' = lastRun
        \/ /\ pc' = [pc EXCEPT ![r] = "ended"] /\ lastRun' = lastRun
    BY <1>4 DEF MarkedCompleted, Complete, Stamps, Goto
  <2>3. /\ row'[r] = "completed"
        /\ \A j \in Jobs : j # r => row'[j] = row[j] /\ pc'[j] = pc[j]
        /\ pc'[r] = "saveLastRun" => ~noOp[r]
    BY <1>0, <2>1, <2>2 DEF TypeOK
  <2>4. \A j \in {lastRun, savedRun, readRun} \ {NoJob} : j \in Jobs /\ j # r
    BY <1>0, <2>1, BoundsAssumption DEF Stamped, TypeOK, NoJob, Jobs
  <2>. QED BY <1>0, <2>1, <2>2, <2>3, <2>4 DEF Stamped
<1>5. CASE LastRunSaved(r)
  <2>1. /\ pc[r] = "saveLastRun" /\ pc' = [pc EXCEPT ![r] = "ended"]
        /\ UNCHANGED <<readRun, row, noOp>>
        /\ savedRun' = r /\ lastRun' \in {lastRun, r}
    BY <1>5 DEF LastRunSaved, Complete, JobFrame, Goto
  <2>. QED BY <1>0, <2>1 DEF Stamped, TypeOK
<1>. QED BY <1>1, <1>2, <1>3, <1>4, <1>5 DEF JobStep

LEMMA StampStep ==
  ASSUME IInv, [Next]_vars PROVE Stamped'
<1>0. TypeOK /\ Stamped /\ 1 \in Nat /\ NoJob \in 0..nextJob
  BY DEF IInv, TypeOK, NoJob
<1>1. CASE UNCHANGED vars
  BY <1>0, <1>1, StampsKept DEF vars, memory, disk
<1>2. ASSUME NEW k \in LoopKinds, LoopStep(k) PROVE Stamped'
  <2>1. CASE LoopSkip(k) \/ LoopAsk(k) \/ ConditionsUnmet(k)
    BY <1>0, <2>1, StampsKept DEF LoopSkip, LoopAsk, ConditionsUnmet, memory, disk
  <2>2. CASE ConditionsMet(k)
    BY <1>0, <2>2, EnqueueShape, ReservedStamps DEF ConditionsMet, disk
  <2>. QED BY <1>2, <2>1, <2>2 DEF LoopStep
<1>3. CASE Trigger
  BY <1>0, <1>3, EnqueueShape, ReservedStamps DEF Trigger, disk
<1>4. ASSUME NEW r \in timers, Retry(r) PROVE Stamped'
  <2>1. UNCHANGED <<lastRun, savedRun, readRun, row, noOp>>
    BY <1>4 DEF Retry, disk
  <2>2. CASE Free
    <3>1. NextAttempt(r) \in Nat /\ origin[r] \in 0..nextJob
      BY <1>0 DEF IInv, Numbered, TypeOK, NextAttempt
    <3>. QED BY <1>0, <1>4, <2>1, <2>2, <3>1, EnqueueShape, ReservedStamps DEF Retry
  <2>3. CASE ~Free
    BY <1>0, <1>4, <2>1, <2>3, StampsKept DEF Retry
  <2>. QED BY <2>2, <2>3
<1>5. CASE BootStep
  <2>1. /\ readRun' \in {readRun, savedRun, NoJob} /\ lastRun' \in {lastRun, readRun}
        /\ UNCHANGED <<savedRun, pc, noOp>>
    BY <1>5 DEF BootStep, InitStarts, LastRunRead, LastRunLoaded, InitEnds, InitFails,
         StoresHydrated, ColdKick, BootFrame
  <2>2. \A j \in Jobs : row[j] = "completed" => row'[j] = "completed"
    BY <1>0, <1>5 DEF BootStep, InitStarts, LastRunRead, LastRunLoaded, InitEnds,
         InitFails, StoresHydrated, ColdKick
  <2>3. \A j \in Jobs : pc[j] = "saveLastRun" => row[j] = "completed"
    BY <1>0 DEF Stamped
  <2>. QED BY <1>0, <2>1, <2>2, <2>3, StampsKept
<1>6. CASE Activate \/ Deactivate \/ Tick \/ NetworkReconnect \/ PauseOrResume \/ Suspend
  <2>1. UNCHANGED <<lastRun, savedRun, readRun, row, noOp, pc>>
    BY <1>6 DEF Activate, Deactivate, Tick, NetworkReconnect, PauseOrResume, Suspend,
         EventFrame, disk
  <2>. QED BY <1>0, <2>1, StampsKept
<1>7. CASE Crash
  <2>1. /\ lastRun' = NoJob /\ readRun' = NoJob /\ UNCHANGED <<savedRun, row, noOp>>
        /\ \A j \in Jobs : pc'[j] = IF Live(j) \/ Died(j) THEN "lost" ELSE pc[j]
    BY <1>7 DEF Crash, disk
  <2>2. "saveLastRun" \in LivePlaces /\ "ended" \notin LivePlaces
    BY DEF LivePlaces
  <2>. QED BY <1>0, <2>1, <2>2, StampsKept DEF Live, Died
<1>8. \A j \in Jobs : Retry(j) => j \in timers
  BY DEF Retry
<1>. QED BY <1>1, <1>2, <1>3, <1>4, <1>5, <1>6, <1>7, <1>8, RunStamps DEF Next
--------------------------------------------------------------------------------
LEMMA InitInv == Init => IInv
<1>. SUFFICES ASSUME Init PROVE IInv
  OBVIOUS
<1>0. /\ MaxJobs \in Nat /\ MaxAttempts \in Nat /\ MaxCrashes \in Nat
      /\ \A j \in Jobs : j \in Nat /\ j > 0
  BY BoundsAssumption DEF Jobs
<1>1. TypeOK
  <2>1. /\ app \in AppStates /\ boot \in BootStates /\ coldKick \in ColdKicks
        /\ suspended \in BOOLEAN /\ paused \in BOOLEAN /\ pendingKick \in BOOLEAN
        /\ served \in BOOLEAN /\ failing \in BOOLEAN
    BY DEF Init, BootStates, ColdKicks
  <2>2. /\ loops \subseteq LoopKinds /\ asking \subseteq LoopKinds /\ status \in TaskStatus
        /\ lastRun \in 0..MaxJobs /\ readRun \in 0..MaxJobs /\ savedRun \in 0..MaxJobs
        /\ timers \subseteq Jobs /\ nextJob \in 0..MaxJobs /\ crashes \in 0..MaxCrashes
    BY <1>0 DEF Init, TaskStatus, NoJob
  <2>3. /\ pc \in [Jobs -> Places] /\ attempt \in [Jobs -> 0..MaxAttempts]
        /\ origin \in [Jobs -> 0..MaxJobs] /\ noOp \in [Jobs -> BOOLEAN]
    BY <1>0 DEF Init, Places, NoJob
  <2>4. row \in [Jobs -> TaskStatus \cup {"stale"}]
    BY DEF Init, TaskStatus
  <2>. QED BY <2>1, <2>2, <2>3, <2>4 DEF TypeOK
<1>2. Numbered /\ Ladders /\ Stamped
  BY <1>0 DEF Init, Numbered, Ladders, Foremost, Live, LivePlaces, Stamped, NoJob
<1>. QED BY <1>1, <1>2 DEF IInv

LEMMA InvAlways == Spec => []IInv
<1>1. IInv /\ [Next]_vars => IInv'
  BY TypeStep, LaddersStep, StampStep DEF IInv
<1>. QED BY <1>1, InitInv, PTL DEF Spec

\* Every variable of the scheduler keeps its type: no attempt beyond maxAttempts.
THEOREM TypeCorrect == Spec => []TypeOK
<1>1. IInv => TypeOK
  BY DEF IInv
<1>. QED BY <1>1, InvAlways, PTL

\* The last-run stamp, in memory, saved or read by init(), is that of a run whose
\* handler did work and whose completion is on disk (scheduler-runner.ts run()).
THEOREM StampsAreHonest == Spec => []LastRunHonest
<1>1. IInv => LastRunHonest
  BY DEF IInv, Stamped, LastRunHonest
<1>. QED BY <1>1, InvAlways, PTL

\* A ladder of retries climbs to maxAttempts and no further: its jobs have attempts
\* of their own (scheduler-runner.ts:74-96, AppScheduler.ts trigger()).
THEOREM LaddersEnd == Spec => []LadderBounded
<1>1. IInv => LadderBounded
  <2>0. ASSUME IInv, NEW i \in Jobs, NEW j \in Jobs,
               origin[i] = origin[j], origin[i] # NoJob, attempt[i] = attempt[j]
        PROVE  i = j
    <3>1. i \in Nat /\ j \in Nat /\ nextJob \in Nat
      BY <2>0 DEF IInv, TypeOK, Jobs
    <3>2. i <= nextJob /\ j <= nextJob
      BY <2>0, <3>1 DEF IInv, Numbered
    <3>. QED BY <2>0, <3>2 DEF IInv, Ladders
  <2>. SUFFICES ASSUME IInv, NEW o \in Jobs
                PROVE  Cardinality({j \in Jobs : origin[j] = o}) <= MaxAttempts
    BY <2>0 DEF LadderBounded
  <2>. DEFINE ladder == {j \in Jobs : origin[j] = o}
              rung == [j \in ladder |-> attempt[j]]
  <2>1. \A j \in ladder : j <= nextJob /\ attempt[j] \in 1..MaxAttempts
    <3>1. \A j \in Jobs : j \in Nat /\ j # NoJob
      BY DEF Jobs, NoJob
    <3>2. nextJob \in Nat /\ MaxAttempts \in Nat
      BY BoundsAssumption DEF IInv, TypeOK
    <3>. QED BY <3>1, <3>2 DEF IInv, Numbered, Ladders, TypeOK
  <2>2. rung \in Injection(ladder, 1..MaxAttempts)
    <3>1. rung \in [ladder -> 1..MaxAttempts]
      BY <2>1
    <3>2. \A i, j \in ladder : rung[i] = rung[j] => i = j
      BY <2>1 DEF IInv, Ladders
    <3>. QED BY <3>1, <3>2 DEF Injection, IsInjective
  <2>3. MaxAttempts \in Nat /\ IsFiniteSet(1..MaxAttempts)
        /\ Cardinality(1..MaxAttempts) = MaxAttempts
    BY BoundsAssumption, FS_Interval
  <2>4. Cardinality(ladder) <= Cardinality(1..MaxAttempts)
    BY <2>2, <2>3, FS_Injection
  <2>. QED BY <2>3, <2>4
<1>. QED BY <1>1, InvAlways, PTL

\* After suspend() no loop, trigger or retry timer enqueues (AppScheduler.ts
\* _enqueueAndRun, the chokepoint).
THEOREM NothingAfterSuspend == Spec => SuspendHalts
<1>1. IInv /\ [Next]_vars => [suspended /\ suspended' => nextJob' = nextJob]_vars
  <2>1. ASSUME IInv, [Next]_vars, suspended PROVE nextJob' = nextJob
    <3>1. ~First /\ \A j \in timers : ~Again(j)
      BY <2>1 DEF First, Again, Reserved
    <3>2. Quiet \/ Killed \/ (\E j \in Jobs : Runs(j)) => nextJob' = nextJob
      BY DEF Quiet, Still, Killed, Runs, job
    <3>. QED BY <2>1, <3>1, <3>2, Shapes DEF IInv
  <2>. QED BY <2>1
<1>. QED BY <1>1, InvAlways, PTL DEF Spec, SuspendHalts
--------------------------------------------------------------------------------
(* The running flag.                                                        *)

\* A flag that stays, or is cleared, and jobs that live on or stay dead.
LEMMA FlagKept ==
  ASSUME RunningMeansLive, status' = "running" => status = "running",
         \A j \in Jobs : Live(j) \/ Died(j) => (Live(j) \/ Died(j))'
  PROVE  RunningMeansLive'
BY DEF RunningMeansLive

\* Who is reserved is alive, and has the flag.
LEMMA FlagReserved ==
  ASSUME TypeOK, RunningMeansLive, NEW tries, NEW first, Enqueue(tries, first)
  PROVE  RunningMeansLive'
<1>1. CASE Reserved(tries, first)
  <2>1. nextJob + 1 \in Jobs /\ pc'[nextJob + 1] = "create"
    BY <1>1 DEF Reserved, TypeOK
  <2>. QED BY <2>1 DEF RunningMeansLive, Live, LivePlaces
<1>2. CASE Still /\ UNCHANGED status
  BY <1>2, FlagKept DEF Still, Live, Died
<1>. QED BY <1>1, <1>2, EnqueueShape

\* A step of a run takes the flag with it when it ends, or leaves it to a run that
\* is recorded as dead.
LEMMA FlagOfRun ==
  ASSUME TypeOK, RunningMeansLive, NEW r \in Jobs, JobStep(r)
  PROVE  RunningMeansLive'
<1>0. pc[r] \in LivePlaces => Live(r)
  BY DEF Live
<1>1. CASE CreateFails(r)
  BY <1>1 DEF CreateFails, ClearTaskReservation, RunningMeansLive
<1>2. CASE Created(r) \/ MarkedRunning(r)
  <2>1. Live(r)'
    BY <1>2 DEF Created, MarkedRunning, Goto, Live, LivePlaces, TypeOK
  <2>. QED BY <2>1 DEF RunningMeansLive
<1>3. CASE HandlerOk(r) \/ HandlerFails(r) \/ BookkeepingFails(r)
  <2>1. Live(r)'
    BY <1>3 DEF HandlerOk, HandlerFails, BookkeepingFails, Caught, Goto, Live,
         LivePlaces, TypeOK
  <2>. QED BY <2>1 DEF RunningMeansLive
<1>4. CASE MarkedCompleted(r)
  <2>1. status' = "completed" \/ pc' = [pc EXCEPT ![r] = "saveLastRun"]
    BY <1>4 DEF MarkedCompleted, Complete, Goto
  <2>2. status' = "completed" \/ Live(r)'
    BY <2>1 DEF Live, LivePlaces, TypeOK
  <2>. QED BY <2>2 DEF RunningMeansLive
<1>5. CASE LastRunSaved(r) \/ MarkedFailed(r)
  BY <1>5 DEF LastRunSaved, Complete, MarkedFailed, RunningMeansLive
<1>6. CASE MarkRunningFails(r) \/ MarkFailedFails(r)
  <2>1. Died(r)'
    BY <1>6 DEF MarkRunningFails, MarkFailedFails, Goto, Died, TypeOK
  <2>. QED BY <2>1 DEF RunningMeansLive
<1>. QED BY <1>1, <1>2, <1>3, <1>4, <1>5, <1>6 DEF JobStep

\* The running flag belongs to a live run, or to one whose markRunning or markFailed
\* rejected (scheduler-runner.ts:17 and 97), whatever loops overlap and whatever
\* else is late, rejected, swept or killed: every other end of a run takes the flag
\* down (AppScheduler.ts:639-644).
THEOREM FlagHasRun == Spec => []RunningMeansLive
<1>1. Init => RunningMeansLive
  BY DEF Init, RunningMeansLive
<1>2. TypeOK /\ RunningMeansLive /\ [Next]_vars => RunningMeansLive'
  <2>. SUFFICES ASSUME TypeOK, RunningMeansLive, [Next]_vars PROVE RunningMeansLive'
    OBVIOUS
  <2>1. CASE UNCHANGED vars
    BY <2>1, FlagKept DEF vars, memory, Live, Died
  <2>2. ASSUME NEW k \in LoopKinds, LoopStep(k) PROVE RunningMeansLive'
    <3>1. CASE LoopSkip(k) \/ LoopAsk(k) \/ ConditionsUnmet(k)
      BY <3>1, FlagKept DEF LoopSkip, LoopAsk, ConditionsUnmet, memory, Live, Died
    <3>2. CASE ConditionsMet(k)
      BY <3>2, FlagReserved DEF ConditionsMet
    <3>. QED BY <2>2, <3>1, <3>2 DEF LoopStep
  <2>3. CASE Trigger
    BY <2>3, FlagReserved DEF Trigger
  <2>4. ASSUME NEW j \in Jobs, Retry(j) PROVE RunningMeansLive'
    BY <2>4, FlagReserved, FlagKept DEF Retry, Live, Died
  <2>5. CASE BootStep
    <3>1. pc' = pc /\ (status' = "running" => status = "running")
      BY <2>5 DEF BootStep, InitStarts, LastRunRead, LastRunLoaded, InitEnds, InitFails,
           StoresHydrated, ColdKick, BootFrame, ForegroundKick, Sweep
    <3>. QED BY <3>1, FlagKept DEF Live, Died
  <2>6. CASE Activate \/ Deactivate \/ Tick \/ NetworkReconnect \/ PauseOrResume \/ Suspend
    <3>1. pc' = pc /\ (status' = "running" => status = "running")
      BY <2>6 DEF Activate, Deactivate, Tick, NetworkReconnect, PauseOrResume, Suspend,
           EventFrame, ForegroundKick, Sweep
    <3>. QED BY <3>1, FlagKept DEF Live, Died
  <2>7. CASE Crash
    BY <2>7 DEF Crash, RunningMeansLive
  <2>. QED BY <2>1, <2>2, <2>3, <2>4, <2>5, <2>6, <2>7, FlagOfRun DEF Next
<1>. QED BY <1>1, <1>2, TypeCorrect, PTL DEF Spec
================================================================================
