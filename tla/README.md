# A TLA+ development of the Mera app's concurrent core

Mera is a React Native news app whose server never sees a reader's interests:
the phone fetches topic ids, diffs them against its own database, downloads
what is missing, has it scored at an attested gateway and, where the reader
chose so, runs a language model on the device. All of that is driven by a few
long-lived singletons in `lib/`, each a chain of `await`s over mutable fields.
JavaScript runs one piece at a time, so there are no data races; what goes wrong
goes wrong between two `await`s: a state that was read before one and is used
after it, a call that lands while another one is suspended, a promise that
settles late, never, or rejects, a process that is killed.

This directory models those singletons in TLA+, checks the models with TLC and
proves some of what TLC checks with TLAPS. `PROJECT.json` lists components,
runs, mutants, findings, hazards and theorems, and maps every definition to the
lines it stands for. Paths below are relative to the repository.

## 1. The system

| Part | Where | State it keeps | What it does |
|---|---|---|---|
| Feed-sync machine | `lib/scheduler/feed-sync/FeedSyncMachine.ts` | one state, pause flag, parked waiters, in-flight promise, listener, wake lock, run number | one feed sync at a time: fetch ids, diff, hydrate, enqueue scoring |
| Feed-sync pool | `lib/scheduler/feed-sync/feed-sync-steps.ts` | chunk cursor, stop flag, frames | hydrates chunks in parallel, persists, groups, enqueues |
| Task scheduler | `lib/scheduler/AppScheduler.ts`, `scheduler-runner.ts`, `scheduler-store.ts`, `scheduler-persistence.ts` | status and stamps per task, retry timers, job rows | runs tasks on a tick, on foregrounding, on reconnect and on demand, with retries |
| Scheduled tasks | `lib/scheduler/tasks/` | none | the handlers: feed sync, cleanup, entitlement, persona upkeep, ... |
| Scoring pipeline | `lib/services/scoring-pipeline.ts` | one run of batches with phases, keys, attempts | sends batches to the gateway, polls, applies scores and notes |
| Pipeline store | `lib/database/services/scoring-pipeline-store.ts` | a settings row, a keychain item, a write queue | compare-and-swap over the one persisted run |
| Inference queue | `lib/inference/InferenceQueue.ts`, `models/InferenceJob.ts`, `inference-job-service.ts` | consumer loop, gates, pause depth, job rows | runs on-device inference jobs one at a time, below the chat |
| Combination pass | `combo-pass-service.ts`, `handlers/topic-combo-handler.ts` | job rows of a pass | topic generation over combinations of facts, in batches |
| Model lifecycle, local chat | `lib/hooks/useModelLifecycle.ts`, `lib/llm/useLocalLLM.ts` | loaded model, turn | starts and stops the queue, pauses it for a turn |
| Auth-failure breaker | `lib/auth-failure-breaker.ts` | strikes, the question under way, the verdict | pauses the poller when the session is gone, and resumes it |
| Gateway rate limiter | `lib/llm/gateway-rate-limiter.ts` | anchors, pause, two lanes, one timer | spaces the calls of the device to the gateway |
| Suggestion sync | `lib/services/SuggestionSyncService.ts` | refresh coalescer, refresh chain | moves scored rows into the feed store |
| Cycle state, result fetching | `cycle-state-machine.ts`, `inference-results.ts` | what the reader is told | progress; the HTTP call of a batch |
| Gateway client | `lib/llm/hedge.ts` and the clients beside it | none | hedged model calls |
| Auth and GraphQL clients | `lib/auth-client.ts`, `lib/apollo-client.ts` | a token | report successes and failures to the breaker |
| On-device toolkit | `llama-lock.ts`, `modelManager.ts`, `inference.ts` in `lib/mera-protocol-toolkit/core/` | the lock's chain, the resident context, moves to the background | loads, asks and frees the one native model |
| On this phone | `useMeraProtocolSettings.tsx`, `downloadService.ts` | the mode, kept three times, and the download queue | the reader's choice of where scoring runs, and the download that may switch it |
| App lock, identity | `lib/security/`, `lib/stores/pin-store.ts` | PIN, identity gate | lock and wipe |
| Backup | `lib/backup/` | generations, manifest | encrypted snapshots |
| Translation queue | `lib/translation-queue.ts` | batch, cancellation | translates what is on screen |
| Fact checks, feedback requests, chat | `lib/fact-check/`, `lib/feedback-requests/`, `lib/chat-session/` | small state machines | polling and conversation |
| Background tasks | `lib/background/` | none | the OS runs a feed sync with a deadline, or a drain of the pipeline |
| Everything else | `lib/database`, `lib/stores`, `lib/news-harness`, `lib/e2ee`, `app`, `components`, native modules | schema, zustand stores, prompts, crypto, UI | data, ranking, rendering |

How they meet:

* `AppScheduler` runs feed sync as an exclusive task; the OS calls the same
  singleton from `lib/background/background-feed-sync.ts` without asking the
  scheduler. `FeedSyncMachine.start()` is where they meet: it joins, abandons
  or begins a run.
* `FeedSyncMachine` subscribes to the network store, publishes to the status
  store that `FeedSyncIndicator` reads, skips its work while a pipeline run
  lives, hands new rows to `enqueueCandidates`, and flushes the refresh of
  `SuggestionSyncService` when it ends.
* The pipeline is driven by a poller, by drains after an enqueue, by silent
  pushes and by the OS task, any of which may be at work beside the others.
  They share nothing but the store, whose compare-and-swap decides who wins,
  and the limiter, which every call to the gateway passes.
* `useModelLifecycle` starts and stops `InferenceQueue` from a React effect;
  `useLocalLLM` pauses it for a chat turn; services only add rows to its table.
* The Apollo link and the gateway submit report to the breaker, which asks the session
  endpoint and calls `AppScheduler.pauseTask('feed-sync')`.
* Everything that runs a model on the phone takes the llama lock once: the queue
  and the chat for text, the relevance pass for Kev. The mode decides who may
  load; settings, downloads and the foreground handler write it.
* Boot: `use-app-root.ts` calls `AppScheduler.init()`, hydrates the stores and
  then calls `onStoresHydrated()`; a native update suspends the scheduler.

What is hard to test here: two callers of one singleton; a run that is
abandoned but still executing; guards asked before an `await`; rejecting
database or native calls at every `await`; a request that was accepted and
billed though its reply was lost; retries across a restart; a question that
iOS freezes; waiting on each other (`start` on `stop`, `stop` on `start`, parked
frames on a listener). `PROJECT.json` lists the hazards at their lines, with the
properties that watch them.

What makes each modelled part correct:

* Feed sync: one owner of the machine; an abandoned run is inert; whoever parks
  offline is woken; no wake lock is held while waiting; no listener leaks;
  every run ends.
* Scheduler: an exclusive task does not overlap; its running flag belongs to a
  live run; ladders of retries are bounded; only a run that did its work stamps
  the cadence; nothing starts after `suspend()`; a reader who opens the app is
  served.
* Scoring pipeline: a result is decoded by the ids it was sent with; a lost
  reply is not billed again; a batch that ended stays ended; saved scores and
  notes are not undone; every run ends, as feed sync waits for it.
* Pipeline store: no acknowledged write is lost; a run finds its own secret; a
  run that lost it is cleared; the write queue empties.
* Inference queue: one consumer; a running row has an owner; a deferral costs
  no attempt; a chat has the model to itself; nothing starves; `start` and
  `stop` do not wait for each other for ever.
* Breaker: one question at a time; no verdict from a question that showed no
  cookie; a paused poller is never stranded; a wrong verdict is withdrawn.
* On-device engine: one native context, never freed under a call, none without its
  file; none for a reader on Private cloud; every call gets the lock and ends.
* On this phone: a choice of Private cloud stands; the phone follows the other
  choice once it can; the restart hold and the rows follow the download.
* Refresh: when a flush has resolved the feed shows what the database held.
* Limiter: the device keeps its ceiling; a pause does not freeze the lane of a
  person who waits; the timer is never late; everybody is served.

## 2. Modules

| Module | Models | Extends / used by |
|---|---|---|
| `SingleFlight` | what a single-flight slot promises, abstractly | instantiated by `FeedSyncMachine` |
| `FeedSyncMachine` | the machine and its pool | |
| `FeedSyncMachine_proofs` | its theorems, with the refinement | extends the former and `TLAPS` |
| `AppScheduler`, `AppScheduler_proofs` | scheduler, runner, store, job rows, for one exclusive task | the latter extends the former |
| `ScoringPipeline`, `ScoringPipeline_proofs` | the run, its batches, the gateway's jobs, the rows | the latter extends the former |
| `PipelineStore`, `PipelineStore_proofs` | the store under that run | the latter extends the former |
| `InferenceQueue`, `InferenceQueue_proofs` | queue, job rows, combination pass, lifecycle effect, chat turns | the latter extends the former |
| `AuthBreaker`, `AuthBreaker_proofs` | the breaker, its questions, the session | the latter extends the former |
| `GatewayLimiter` | both lanes against a clock | |
| `OnDeviceEngine`, `OnDeviceEngine_proofs` | the llama lock, the native context, the calls on it, the background | the latter extends the former |
| `OnThisPhone` | the processing mode, its writers, the model download | |
| `RefreshCoalescer` | the throttled refresh and its flush | |
| `Throttles_proofs` | the theorems of the limiter and of the refresh | extends `GatewayLimiter`; `Refresh == INSTANCE RefreshCoalescer` |
| `MC...` | model values, bounds and symmetry for TLC | extend their component |

All follow one convention. **An action is what the code does between two
`await`s**, with every synchronous call it makes (listeners of a store that is
set, `wake()`, a `finally`) inside. A program counter names the `await` a run, a
job, a loop or a chain is suspended in, and a rejected promise is an action of
its own. Clocks are not modelled, except in `GatewayLimiter`, which is about
one: elsewhere a timeout, a frequency gate or a poll is a choice. Bounds
(`Max...`) are constants named in the guards, and exist for TLC. A definition
under a comment `Mutant:` is a plausible bug, used by no action.

### SingleFlight and FeedSyncMachine

A run is a number, `_runSeq`. `Start` is `start()` up to its first `await`: it
joins the run in flight, or abandons it when it is stale (`aged`) or is an
aborted background run, and otherwise begins one. `Arm` is the preamble's tail:
the run takes the machine over, replaces the listener and takes the wake lock.
Then there is one action per step of `_run` (`CheckPipeline`, `BeginFetch`, `Fetched`,
`BeginDiff`, `NothingMissing`, `SomeMissing`, `BeginHydrate`, `Hydrated`,
`BeginScore`, `Finish`, ...), `ReturnAborted` for the abort checks,
`RejectStep`/`FailRun` for the error path, `SnapshotWritten` and `Teardown` for
the `finally`. The frames of the pool are `worker[r][w]`. `NetworkLost` and
`NetworkBack` contain the listener; waiters it resolves continue before any
other event, as microtasks do. Topic ids, rows and counts are dropped: only how
many chunks a run has is left.

`SingleFlight` is what `start()`'s callers rely on: `Begin` when the slot is
empty or its holder may be evicted, `Expire`, and `End` of any live run, which
frees the slot only if that run holds it. `FeedSyncMachine` implements it under

    begun <- runSeq   holder <- inFlight   alive <- the runs not yet settled
    evictable <- aged, or a background run that was aborted

(`Flight == INSTANCE SingleFlight WITH ...`, property `ImplementsSingleFlight`):
everything else the machine does, the pool, the pauses, the listener and the
wake lock, is a stutter of the slot.

### AppScheduler

One exclusive task that listens to the tick, to foregrounding and to reconnects. A loop
is in `loops` until it reaches the task, in `asking` while it awaits
`_conditionsMet`, and then enqueues. `Trigger` asks and enqueues at once. A job
walks `create`, `markRunning`, `handler`, `markCompleted`, `saveLastRun` (or
`markFailed`), with a rejecting variant of each database call (`Faults`).
A run ends in the place `ended`, or in `died` when `markRunning` or `markFailed`,
which `run()` awaits outside any `try`, has rejected. `Retry` is the runner's timer,
`Crash` a killed process that keeps only the rows and the saved stamp. `init()` is three awaits (`boot`), hydration and its
deferred kick are `coldKick`. `Overdue` lets a handler outlive its timeout, so
that `clearStaleRunning` frees the flag of a run that is late but alive.

### ScoringPipeline

The run is one persisted record; a batch of it goes through a relevance job and
then a reasons job. A **frame** is one chain of awaits at work on a batch, and
several may work at once: a poller tick, the drain after an enqueue, the OS
task. A frame looks at a snapshot (`Look...`), goes to the gateway, and writes
back with the phase it expects (`Lost` is the branch that finds another one).
Phases and their moves are the code's: `Claim`, `Build`, `Reserve` (the
idempotency key is minted and stored before the POST), `SendAccepted` or
`SendRefused`, `ToWaiting`; `GiveBack`, `FailOrRetry` and `FailNow` for what may
come back instead; `ClaimReasons`; `LookCheck`, `ApplyRelevance`, `RelevanceDone`,
`ApplyReasons` and `Requeue` for an answer; `RevertStuck`, `ForceFail` (the
reader aborts), `BeginFinalize`/`EndFinalize`. A batch of owed notes
(`reasonsOnly`) skips the relevance job.

The gateway is external: it accepts a request and bills it (`jobs`), or finds
the key of one it has accepted and gives that job again. Its reply may be lost
after it has accepted. A key has a generation (`keyGen`), raised when a job is
given up, so that the next request is a new one; `dropped` remembers the keys
given up that way. The OS task lists the batches it will ask about before it
waits for its limiter slots (`listed`), which is why it may act on an old list.
A kill (`Crash`) loses the frames and keeps the store and the gateway's jobs.
Writes to the store are atomic here; how they are made so is the next module.

### PipelineStore

The run is a row of the settings table, its secret an item of the keychain.
`createPipeline` writes the secret and then the row, `clearPipeline` deletes the
row and then the secret, `getPipeline` reads both and clears a row whose secret
is gone (`HealRow`). A mutation waits for its turn in `writeQueue`, reads
the row, applies its mutator to a copy, reads again and writes if the version
did not move, `MaxCasAttempts` times at most. The content of a row is the set of
mutations that made it, so that a lost update is a missing element. Every write
may reject. `overlapped` remembers whether anything ran beside a create or a
clear, the exception `OwnSecret` names.

### InferenceQueue

`Effect` is the React effect: it changes its mind (`wanted`) and calls
`start()` or `stop()` behind the state test that it makes. `doStart` is
`Recover`, `Started`, `Reported`; `StartFails` is its error path. A consumer
loop is a counter in `pc` with one action per `await` of the `while` body, a
dequeued job (`taken`) and the siblings a combination job has claimed
(`claimed`). There are two loop names so that a second consumer could exist.
`Pause` and `Resume` are a chat turn of an engine in `Chats`. There may be several:
`attachChatSession` and `resetChatSession` (`chat-session.ts:175-190`, `295-304`) dispose
an engine by setting its `alive` to false (`useLocalLLM.ts:290-292`), and the turn it
is in holds its pause until the `finally` at line 218, beside the turns of its
successor. `counted` is history: the turns whose `pause()` was counted in
`pauseDepth`, and whose count neither a `stop()` nor the `resume()` of an uncounted
turn has taken since. `Enqueue` and `EnqueuePass` add rows in
creation order; a newer pass destroys the pending rows of the older one, also
the one the loop has dequeued. `Crash` keeps the rows.

A sleep may end at any time, which covers the poll, each backoff of it and
`wake()`. A gate (`gateUntil`) lasts 30 s or more and so expires only while the
loop sleeps. Two assumptions are about WatermelonDB, which is not in the
repository's `lib/`: updating a destroyed record rejects (`"vanish"`), and a batch is
atomic.

### AuthBreaker

A **question** to the session endpoint is a token: its request (`Start`, with
what the cookie jar held at that instant), its answer (`Answered`), and a
reading of the keychain before a "no session" counts (`KeychainRead`).
`RecordAuthFailure` opens the breaker at the threshold and has a question ask
for it; callers join the question in flight (`Join`), a foreground abandons it
for a fresh one (`Revalidate`), and what settles late finds the handle
moved (`HandleAfter`). `Freeze` is iOS suspending a request for good. The world
changes beside it: `SessionEnds` (revoked on the server or lapsed on the phone),
`SignIn`, the keychain behind the launch latch or locked, a network that errs.
The verdict (`needsReauth`) is in the settings table and survives a restart,
which is an initial state with it set.

### GatewayLimiter

The one module with a clock. A handler of the limiter is one action, as it runs
to completion: `Acquire`, `Abort`, `Fire` (the timer, on time or late), `TryTake`,
`PauseFor`. All of them go through `Schedule` or leave the timer alone, as the
code does. `Tick` is bounded by `MaxTime`, beyond which time passes only up to
an armed timer. `grants` and `spentAt` are history, there to state the ceiling
independently of the anchors the code computes with.

### OnDeviceEngine

A **call** is one promise of the toolkit and `llamaChain` the calls that have taken a
place on the lock, whose head holds it. `Enter` takes the place; the text jobs
and streams are `StartInfer`/`EndInfer`, `StartDispose` and `StartDelete` release the
context (`Release` up to its await, `Released` after it), and `decide` is `Check`,
`Loaded` or `LoadFailed`, and then `Answered`, `GpuFailed` or `DecideFailed`, with
its second attempt. The native side is external: `contexts` are those alive in
it, and one that ran while the app was off the screen may have been refused the
GPU (`failed`): its output is garbage, and it answers -3 from then on. An await of
something settled does not yield to an event of the app, so the resident path of
`Check` asks in the same step. A native release is assumed to succeed, a GPU that
fails in the foreground is what the comment at `inference.ts:257` gives up on,
and the catalogue has the one model it has.

### OnThisPhone

The mode is the server's, the cached persona's and the store's. Each of the five
writers (`Writers`) has at most one write under way: it may arrive late
(`Arrive`), never, or have its answer lost (`Settle` with `ok` false). `Pick` is
`selectMode` up to its await, with its three early returns in `NothingToWrite`;
`RefreshRead` and `ApplyIntent` are `refresh`; `RestoreAsk`, `RestoreRead`,
`RestoreDone` the foreground restore; `StartDownload`, `Loop`, `DownloadEnds`,
`AfterModelLanded`, `LandingAnswered`, `Cancel` the download service, where a
cancel detaches the runner (`detached`); `StartDelete`, `FellBack`, `Removed` the
delete. The screen is open with its load done. `choice` and `quiet` are history:
the mode the reader chose last, and whether anything that could promote the
phone was in flight then.

### RefreshCoalescer

The database is the number of writes it has taken, and a reload the number it
read. `Request`, `TimerFires` and `Flush` are the entry points, each with
`RunSerialized` inside; an execution is `Read`, `Show`, `LabelsEnd`, or `LoadRejects`,
which is swallowed and remembered in `lost`; `PassEnds` is the loop that goes once
more if it was asked to meanwhile. The clock is whether the window of the last
start is still open.

## 3. Runs

| Run | Properties | Bounds |
|---|---|---|
| `MCFeedSyncMachine` | `NeverRefused`, `ParkedCanResume`, `WakeLockScoped`, `SingleOwner`, `ListenersBounded`, `ZombieInert`, `ImplementsSingleFlight` | 2 runs, foreground or background; the first hydrates 2 chunks with 2 frames (symmetric) |
| `MCFeedSyncTakeover` | `RunsEnd` | 2 runs of either kind, the first with 1 chunk and 1 frame; fair |
| `MCAppScheduler` | `RunningMeansLive`, `LadderBounded`, `LastRunHonest`, `SuspendHalts`, `ReaderServed` | 2 jobs of 2 attempts, the tick loop, triggers and retries, app active or not, 1 kill, every database call rejecting, late handlers; fair |
| `MCAppSchedulerOverlap` | `ExclusiveRuns`, which is violated | 2 jobs, tick and foreground loops, nothing late, nothing failing |
| `MCInferenceQueue` | `SingleLoop`, `RunningRowsOwned`, `AttemptsHonest`, `ChatAlone`, `HoldStartsNothing` | a pass of 2 jobs and a background job, 2 chat engines (symmetric), 2 attempts, 3 effects, 1 kill or change of app state or mode, all faults |
| `MCInferenceQueueLive` | `NoStarvation`, `NoEndlessWait` | a pass job ahead of a nicety and of an unknown type, 1 chat engine, 3 effects; fair |
| `MCScoringPipeline` | `DecodesItsOwnIds`, `WorkStays` (`TerminalStays`, `NeverRescored`, `NotesStay`) | 1 batch of 2 rows, 2 frames, foreground and OS task, 2 attempts |
| `MCScoringPipelineLive` | `BilledOnce`, `RunEnds` | 1 row, a scoring batch and one of owed notes, 1 frame, 1 kill; fair |
| `MCPipelineStore` | `NoLostUpdate`, `OwnSecret`, `StoreSettles` (`SecretlessRunEnds`, `QueueDrains`) | 3 operations at once, 2 runs, 2 mutations of 2 attempts, 1 kill; fair |
| `MCGatewayLimiter` | `TimerInTime`, `InteractiveSoon`, `Ceiling`, `Served` | 3 callers, spacings 3 and 2, pauses of 1 and 5 against a cap of 3, calls until 7; fair |
| `MCAuthBreaker` | `PausedMeansOpen`, `SingleAsk`, `AnonymousProvesNothing`, `PollerResumes`, `FlagHeals` | threshold 2, 2 questions, 1 frozen; fair |
| `MCOnDeviceEngine` | `ContextSafe` (`OneContext`, `NoReleaseMidCall`, `FileUnderContext`), `CloudStaysUnloaded`, `BackgroundContained` (`GarbageOnlyAfterLoad`, `PoisonDropped`), `EveryCallSettles` | 3 calls of any kind, 1 move to the background, 1 change of mode; fair |

Where a property is a conjunction, `PROJECT.json` names a mutant for one of its
parts, and the module has mutants for the others (`LostNever`, `TakeInHandAny`,
`GetKeyNoHeal`, `AfterGpuFailureKept`, ...).

The configurations below are not among the runs of `PROJECT.json` and are run the
same way. Those that pass:

| Configuration | Properties | Bounds |
|---|---|---|
| `MCOnThisPhone` | `CloudChoiceKept`, `HoldIsTheRunner`, `RowHasRunner` | 2 choices, 2 downloads |
| `MCOnThisPhoneLive` | `PhoneFollows`, `DownloadSettles` | 1 choice, 1 download, the built-in model comes or goes once; fair |
| `MCRefreshCoalescer` | `IdleIsExact`, `FlushIsExact`, `AnnouncedLands` | 2 flushers, 3 writes; fair |

and those that end in a violation, each of a sentence of the code, as
`MCAppSchedulerOverlap` does:

| Configuration | Violates | Said at |
|---|---|---|
| `MCInferenceQueueHolds` | `HoldsStand` | `InferenceQueue.ts:266` |
| `MCScoringPipelineTwice` | `OneBatchPerRow` | `scoring-pipeline.ts:2849` |
| `MCOnDeviceEngineTrust` | `AnswersTrusted` | `inference.ts:253` |
| `MCOnThisPhoneChoice` | `ReaderChoiceKept` | `useMeraProtocolSettings.tsx:401`, `:407` |
| `MCOnThisPhoneRestore` | `RestoreYields` | `downloadService.ts:305` |
| `MCOnThisPhoneDelete` | `NoPromotionInDelete` | `useMeraProtocolSettings.tsx:220`, `:467` |

Why the bounds suffice for what they ask. *Feed sync*: its ownership guards
compare a run with the newest one, so one abandoned run and its successor show
every pair; two frames are the fewest that can park, wake and fail apart from
each other, and two chunks are the fewest that leave one frame working when the
other rejects; liveness needs no second frame, as a frame waits for the
connection only. *Scheduler*: two jobs overlap or do not, and are a ladder of two attempts, or two
ladders with a kill between them; the foreground kick, which sweeps and serves
the reader, happens whichever loops the task listens to, so the tick stands for
the three of them; an inactive app takes steps of the other two. *Pipeline*: two frames are a chain
and the one it races; two rows let a retry ask for other ids than the first
request; two attempts separate the first failure from the last. The background
context takes the steps of the foreground but one look, and is left out; the
kill and owed notes are in the second run, where one frame is enough, since a
request that a killed frame has sent is asked for again by its successor.
*Store*: two mutations race each other, a create or a clear is the third; a
second run is what an old mutation can land in. *Queue*: three effects are a
start, a stop and a start again, which is what it takes for a stop to meet both;
two jobs of a pass are a leader with a sibling; one kill, or one
change of the app state or the mode, meets each await of the loop; two engines are a disposed one and
its successor, and a second one adds nothing to the liveness run but a longer
pause, which `NoStarvation` excepts and on which neither `start` nor `stop` waits. *Limiter*: three callers are a
head, one behind it in its lane and one in the other; a pause longer and one
shorter than the cap, and a second one while the first runs. *Breaker*: two
questions are the newest and the one it replaced, and a frozen one leaves one to
heal with. *Engine*: a holder of the lock and two behind it, of any kind, are a
call, what frees its context and what loads it again; one move to the background
meets each await of a call. *On this phone*: two choices are one and its
revocation, two downloads a cancelled runner and its successor.
*Refresh*: one flush may find another's execution past its read.

`CHECK_DEADLOCK FALSE` is set for the queue, the pipeline, the store, the
limiter, the breaker and the engine: with the effects, enqueues, operations or callers used up and nothing under
way they are idle, as in the program. The feed-sync and scheduler runs check
deadlock.

### Fairness

* Feed sync: every started await of a run or frame settles (requests carry
  timeouts), and the connection comes back. No caller, abort or loss is obliged.
* Scheduler: only `init()`, hydration and their timers go on. `ReaderServed`
  needs no more, and names its exceptions: the reader leaves again, the
  scheduler is suspended, or `init()` has rejected.
* Queue: awaited calls return and sleeps end (weak fairness of each loop and of
  `start`/`stop`); `markRunning` does not reject for ever (strong fairness). No
  chat, job or effect is obliged.
* Pipeline: the poller ticks while a run is there, so the foreground looks again
  and again and reverts what is stuck; every await settles; and what is asked
  for again and again, an answer of the gateway, an attestation, a free slot of
  the limiter, comes in the end (strong fairness: an outage ends). Without the
  last, a gateway that is never free postpones a batch for ever, by design.
* Store: every await settles; the poller reads the run while there is one; the
  keychain that can be read and the delete that can succeed do so in the end.
* Limiter: time passes and an armed timer fires.
* Breaker: the reader comes back to the app again and again, the cooldown of a
  verification passes, and a question that is not frozen settles. `PollerResumes`
  and `FlagHeals` add, in their own statement, that session, keychain and
  network are well from some point on.

* Engine: native calls settle and a stream's consumer leaves it in the end. Nobody
  is obliged to call, to come back to the screen or to change the mode.
* On this phone: every call settles, the reader keeps coming back to the screen,
  and a promotion that is sent again and again arrives and is answered in the end
  (strong fairness).
* Refresh: reads and timers complete, and the window closes.

### The violations

Each is a sentence of the code that the code does not keep in one interleaving.

* `ExclusiveRuns`, a finding of `PROJECT.json`. The comment at `AppScheduler.ts:632-635`
  says that with the synchronous reservation "two near-simultaneous triggers" cannot
  "both pass the isRunning() guard". They can: `_tick` (L419), `_onForeground` (L492) and
  `_onNetworkReconnect` (L550) ask the guard, await `_conditionsMet`, and then
  enqueue without asking again, and `_enqueueAndRun` reserves without looking. A
  run that `trigger()` or another loop reserves during that await is joined by a
  second one. Every registered task has a tick or a foreground trigger, or both.
* `HoldsStand`. "Ref-counted: a chat turn mid scoring pass must not un-pause the pass's
  hold" (`InferenceQueue.ts:266`), stated of the holders there are today, the turns of
  two engines. `resume()` lowers `pauseDepth` whoever calls it, also a turn
  whose own `pause()` found the queue stopped and was not counted, or one that a
  `stop()` has forgotten. When the queue has started since and another engine's turn
  holds it, that hold is the one that ends. `ChatAlone` is stated of the holds that
  no such `resume()` has taken.
* `OneBatchPerRow`. The comment at `scoring-pipeline.ts:2849` says that an enqueue
  beside a concurrent trigger is safe, since `enqueueCandidates` dedups. It dedups
  against a snapshot: `persistCandidateBatches` filters by the run it has read, and
  `createRunWithBatches` awaits the encryption context before it creates. When
  another trigger creates the run during that await, the batches are appended to
  it unfiltered, and the same row is in two live batches, sent and billed twice.
* `AnswersTrusted`. "An answer from a call the app left the screen under is
  dropped": `decide` asks `inBackground()` before it awaits the load of Kev, and
  reads `movesBefore` after it (`inference.ts:265-270`). A call the app left while
  it was loading is asked in the background, and its answer is kept.
  `BackgroundContained` says that nothing worse happens.
* `ReaderChoiceKept`. "A download in flight follows the reader's latest choice",
  and "the server already holds it": the promotion of a refresh leaves
  `serverOnDeviceRef` alone, so a pick of Private cloud made while its write is in
  flight returns early at line 408, and the answer then switches the phone to On
  this phone. `CloudChoiceKept` holds of a choice nothing in flight can overtake.
* `RestoreYields`. "Re-checked after the awaits: the reader may have switched
  meanwhile": the second look (`downloadService.ts:306`) finds Cloud in the store,
  as it does for a fallback, and cannot tell that the reader picked it since.
* `NoPromotionInDelete`. "Nothing may promote the phone while its files are being
  removed": `deletingRef` holds `applyIntent` off, not a pick or a promotion whose
  write was under way when the delete began.

### Behaviour the models have and no property claims

Most of these are hazards with a note in `PROJECT.json`, and each can be seen with the
configurations here:

* A rejected `markRunning` or `markFailed` leaves the task marked running until a
  foreground kick finds the flag older than the timeout plus 30 s
  (`clearStaleRunning`), against `scheduler-store.ts:51-55`, where the flag is "resolved
  later" by the settling of the job. `RunningMeansLive` excepts such a run, and shows
  that there is no other.
* A run that its timeout aborts publishes nothing, so the last published status
  stands, and `FeedSyncIndicator.tsx:85` takes it to mean that the phone works.
* `Promise.all` rejects with the first frame; the others go on persisting
  chunks after the run has flushed and torn down.
* `init()` that rejects leaves the scheduler `initializing`; a task paused while its
  conditions are awaited runs all the same; `clearStaleRunning` frees the flag of
  a run that is late but alive.
* A wake lock whose activation rejects counts as held until the next release.
* The lifecycle effect skips `stop()` while the state is still `stopped`,
  although a start is being prepared; the queue comes up and stays.
* A batch appended between the finalizer's test and its clear is dropped with
  the run; its rows are still unscored, and are enqueued again.

Exceptions are in the properties themselves. `ChatAlone` excepts a combination job:
pausing during its awaited pre-check finds no current job and returns, and the
job starts beside the chat (`InferenceQueue.ts:421-427`). `HoldStartsNothing` bounds
that exception: under a hold nothing is picked up, a combination job included, so it
is the one whose pre-check was under way when the turn began, and once it is
over the chat is alone.
`NotesStay` excepts the OS task, whose list may be old, results that come after an
abort failed their batch (`saveScoringResult` spares only excluded and read rows, so
a complete row is written over), and a row in two batches. `NeverRescored` excepts
the chain of an ended run: a mutator compares the batch id and the phase and not the
run, so such a chain hands back the batch that bears its number in the next run
(`requeueThrottled`, `failOrRetrySubmit`). `OwnSecret` excepts operations that collided,
and `FlagHeals` a handle on a frozen question.

## 4. Proofs

TLC covers the instances above; the theorems hold for every value of the
constants that satisfies the modules' `ASSUME`s, and for any number of steps.
The assumptions say that bounds are natural numbers and that sets are what they
are meant to be; only the limiter's has content: the background spacing is no
smaller than the interactive one.

**Feed sync.**

* `FeedSyncMachine_proofs!TypeCorrect`: `Spec => []TypeOK`, for any number of
  runs, frames and chunks. One lemma per group of actions (runs, pool,
  environment). `TypeOK` is inductive by itself.
* `FeedSyncMachine_proofs!OwnerUnique`: `Spec => []SingleOwner`. `SingleOwner`
  is not inductive; `OwnerInv` adds `TypeOK`, that the runs begun are exactly
  `1..runSeq` and leave their preambles in order (`Begun`: `Start` must not begin
  a run that is already somewhere in the code), and that a registered waiter is
  really parked (`MainParked`: waking must not move a run that has settled).
  `Shapes` reduces every action to one of five shapes (nothing, one run goes
  on, one settles, the parked ones wake, one begins), and each shape has a lemma. The
  step that matters is `Settle`, which clears the slot only when it names the
  run that settles (the mutant `SettleAny` drops exactly that).
* `NoListenerLeaks`: `Spec => []ListenersBounded`. Only
  `Arm` and `Teardown` touch the listeners, and each removes the old one together
  with its handle; the invariant is inductive by itself.
* `AbandonedInert`: `Spec => ZombieInert`, an action
  property, from `OwnerInv`. `MoverIsTheRun` shows that only a step of the run
  itself moves it, and `AbandonedRunInert` and `AbandonedPoolInert` go through
  its steps: each write is behind a guard on `_runSeq` that fails, and the slot
  is another run's.
* `FlightImplemented`: `Spec => Flight!Spec`, the
  refinement of `SingleFlight`. From `OwnerInv` and `FreshSignal`, that a run not
  yet begun has a signal nobody fired, without which a new holder could be
  evictable from its birth. `StartTakes` maps `Start` to `Begin` (or to nothing,
  when it joins), `SettleEnds` what settles to `End`, `AgedMoves` and the aborts
  to `Expire`, and `OthersKeep` the rest to a stutter.
* `TableAllows`, `NobodyStranded`, `WakeLockBounded`: `Spec => []NeverRefused`,
  `[]ParkedCanResume`, `[]WakeLockScoped`, from one invariant, `MachineInv`. Its
  part `WaitInv` says who may be parked: a frame is parked exactly when it is
  registered (`ParkedCanResume`), no frame is in a pool that its run has left
  (`PoolQuiet`), a newest run that is paused has the listener that will hear of the
  reconnect (`PausedHeard`), and one that ended with its listener on ended in its
  preamble (`OverQuiet`). `LockInv` ties the wake lock to a run that exists.
  `StateFollows` gives the state of the table for every await the newest run can be
  suspended in; with it each `_transitionTo` of that run is one the table has,
  and those of the others are dropped before the table is asked.

**Scheduler.** From `IInv`, for any number of jobs, attempts and restarts, any
event sources and any faults.

* `AppScheduler_proofs!LaddersEnd`: `Spec => []LadderBounded`: the jobs of a ladder have
  attempts of their own, so there are at most `MaxAttempts` of them. `Numbered`: jobs
  are numbered as they are reserved, and each names the first job of its ladder.
  `Ladders`: one that is alive or has its retry timed (`Foremost`) has the highest
  attempt of its ladder. A retry adds the next one on top, so the map from the jobs of
  a ladder to `1..MaxAttempts` stays injective, and `FS_Injection` bounds their number.
* `StampsAreHonest`: `Spec => []LastRunHonest`. `Stamped` adds what a run must have
  done when it is about to save its stamp, which is what makes it inductive.
* `NothingAfterSuspend`: `Spec => SuspendHalts`, an action property: every step that
  reserves goes through `_enqueueAndRun`.
* `FlagHasRun`: `Spec => []RunningMeansLive`, inductive with `TypeOK`. With every
  database call rejecting, late handlers, overlapping runs, sweeps and kills, the only
  run that leaves the flag behind is one whose `markRunning` or `markFailed` rejected.
* `TypeCorrect`: `Spec => []TypeOK`.

**Pipeline store.**

* `PipelineStore_proofs!TypeCorrect`, from `Typed`, which adds that whoever is at
  its second read or its write is the head of the queue.
* `PipelineStore_proofs!UpdatesKept`: `Spec => []NoLostUpdate`. The write of a
  mutation replaces the row by a copy of what was read two awaits ago, and only
  the head of the queue does that. The strengthening `Kept` says that a run not
  created yet is nowhere else (`Numbered`), and that a copy under way holds every
  mutation its run was acknowledged (`SeenKept`): between the two reads a run can only be
  cleared or replaced, not mutated.
* `SecretIsOwn`: `Spec => []OwnSecret`. While nothing has run beside a create or a
  clear (`Paired`), a chain between its two writes is alone (`Alone`), the row is
  not there meanwhile (`RowAway`), the secret is there before the row (`KeyFirst`),
  and what is stored, or read and about to be written back, belongs to the secret
  (`RowsKey`, `SeenKey`). It rests on the order of the two writes.

**Inference queue.**

* `InferenceQueue_proofs!OneConsumer`: `Spec => []SingleLoop`. Not inductive:
  `Started` begins a loop in a state that must be known to have none. The
  strengthening says that a start which is being prepared finds no loop and no
  stop in flight (`StartFindsRest`), that while a loop runs in a stopped queue a
  stop awaits it (`StopAwaitsLoop`), and that a stop in flight means the state is
  stopped (`StoppingStopped`). Only the control variables matter; rows, gates
  and attempts are untouched by the argument.
* `TypeCorrect`, `RowsOwned`, `AttemptsAreSpent`: `Spec => []TypeOK`,
  `[]RunningRowsOwned`, `[]AttemptsHonest`, from `RowInv`. The attempts of a row are
  the runs that failed or died and the one under way (`RowsSound`). A loop between
  the query and the end of its job
  holds a job in the state its place implies, unless a newer pass has destroyed it
  (`TakenInv`); what it has claimed is running and is not that job (`ClaimedInv`);
  and, once recovered, a running row is some loop's (`NoOrphan`). `InOrder`
  (jobs of a priority are created in the order of their ids) is there because a pass
  is created as a block. Lemmas about the table alone (`TakeSound`, `DeferSound` and
  their like) say which changes of rows keep it.
* `ChatKeepsPriority`: `Spec => []ChatAlone`, for any number of chat engines. `ChatInv`
  adds to `RowInv` that a counted pause holds the queue (`HeldPaused`: the depth is at
  least the number of counted turns, so that one of them may end and leave the
  others theirs), that the current job is that of the loop which executes one
  (`CurrentIsTaken`), and that only a job of the combination pass is pre-checked
  (`PrecheckIsCombo`), which is why it is the only exception.
* `NothingStartsUnderHold`: `Spec => HoldStartsNothing`, an action property, from
  `HeldPaused`: what picks a job up has just seen the queue running
  (`PicksUpRunning`), which under a hold it is not.

**Scoring pipeline.** From `IInv`, for any number of rows, chains, batches, runs,
attempts and kills.

* `ScoringPipeline_proofs!ResultsDecode`: `Spec => []DecodesItsOwnIds`, and
  `NoSecondBill`: `Spec => []BilledOnce`. Both are about idempotency keys, which are
  held in three places: by the gateway's jobs, by a chain between the minting and
  the reply, and by the batch. `Uses` is the set of pairs of a key and the ids it was,
  or is to be, sent with, in all three. `KeyInv` says of it that a key stands for one
  list of ids; that a key of this run was minted; that the last key of a batch is the
  one it stores, or was given up; and that ids are sent with the next key only if the
  one before was given up, which is `BilledOnce` made inductive. `Reserve`, which
  mints or reuses, and `Requeue`, which forgets, are the steps that matter; the
  others at most copy uses (`Carried`, `OrdinaryKeys`). `AnswerInv` then gives a chain
  that was told "ok" a job with its key and ids, so that what `ToWaiting` stores is
  what the job was sent with, also when the chain is late. `FrameInv` says what a
  chain has in hand place by place, and `StoreInv` that batches are numbered from 1
  and have attempts left until they are over.
* `WorkIsKept`: `Spec => TerminalStays /\ NeverRescored`, two of the three action
  properties of `WorkStays`. `Advances` is how a batch may move on within a run,
  and `ScoresStay` goes through the steps of a batch that is past its relevance
  job; the one that takes it back is that of a chain of an ended run.
  The third, `NotesStay`, is about how the lists of two chains overlap, and is
  model-checked only.
* `TypeCorrect`: `Spec => []TypeOK`.

**On-device engine.** From `IInv`, for any number of calls, moves and changes of
mode.

* `OnDeviceEngine_proofs!ContextIsSafe`: `Spec => []ContextSafe`. `LockInv`: only the
  head of the chain is past its guard. `ContextInv`: a context is alive because it
  is resident, or because the holder is loading or releasing it, and a call that is
  asked has the resident one. With the lock this is one context and no release
  under a call; `FileUnderContext` is the third part.
* `CloudUnloaded`: `Spec => []CloudStaysUnloaded`, from `UnloadedInCloud`: while a
  dispose for a Cloud reader stands, the mode is still Cloud and no context is
  alive. A call that was queued before asks the mode when it gets the lock.
* `BackgroundHarmless`: `Spec => []BackgroundContained`, from `LeftInv`, which says
  that a call off the screen was left during its load unless the move has been
  counted since.
* `TypeCorrect`: `Spec => []TypeOK`.


**Limiter.** All from `IInv`: `Clocks` (what the limiter remembers lies in the past,
and both lanes are spaced from the last grant) and `Queue` (arrival numbers are
distinct and none is ahead of the counter).

* `Throttles_proofs!NoLateTimer`: `Spec => []TimerInTime`, by one step per
  handler.
* `GrantsSpaced`: `Spec => Ceiling`, an action property: each of the three places
  that grant is behind an eligibility that lies a spacing after `lastGrantAt`,
  which `Clocks` ties to the last grant.
* `NeverFrozen`: `Spec => []InteractiveSoon`. `TypeCorrect`: `Spec => []TypeOK`.

**Breaker.**

* `AuthBreaker_proofs!OneQuestion`: `Spec => []SingleAsk`. Every action changes the
  questions in one of five ways (not at all, a new one, a caller joins, an
  answer, the world reaches one in flight), and each way has a lemma.
* `NeverStranded`: `Spec => []PausedMeansOpen`, and `TypeCorrect`.
* `VerdictsHaveGrounds`: `Spec => VerdictEarned /\ AnonymousProvesNothing`, action
  properties. They need `ReadingAnonymous`: a question waits for the keychain
  only if its request carried nothing in the open, so that its cookie is judged by
  what was readable when it was sent, not when it was answered.

**Refresh.** All from one invariant, `Exactness`: nothing is told, read or shown before it is
written (`NothingAhead`), an execution past its load has lost nothing (`LabelsShown`),
what has been announced is `OnItsWay`, and a flush that waits is `Covered`
(`FlushInv`): the execution it joined has not read yet, will go once more, or has
read and is about to show at least that much. Without `Covered` the end of an
execution would say nothing of the flushes that joined it.

* `Throttles_proofs!FlushExact`: `Refresh!Spec => []Refresh!FlushIsExact`.
* `IdleExact`: `Refresh!Spec => []Refresh!IdleIsExact`. `RefreshTyped`: its `TypeOK`.

Out of the prover's reach, and left to TLC: liveness under fairness (`RunsEnd`,
`ReaderServed`, `NoStarvation`, `NoEndlessWait`, `RunEnds`, `SecretlessRunEnds`,
`QueueDrains`, `Served`, `PollerResumes`, `FlagHeals`, `EveryCallSettles`, `PhoneFollows`,
`DownloadSettles`, `AnnouncedLands`), and anything by induction
over data. Model-checked and not proved so far: all of `OnThisPhone`, and
`NotesStay`.

## 5. What is not modelled

* Data: topics, rankings, prompts, text, crypto. Where only a choice matters it
  is a choice; the rest is absent.
* Feed sync: the gate chain (`ScoreGate`), the dispatch to scoring and the donor
  propagation inside a chunk; telemetry.
* Scheduler: other tasks (one exclusive task stands for each), the condition
  predicates (a choice), the debounce and frequency arithmetic (a choice).
* Pipeline: the poller's intervals and ramp, the wait before a deferred
  remainder is enqueued, prompts and decoding, the stamp `scoreFailedAt`, which
  the pipeline does not read, and what the reader is shown
  (`cycle-state-machine.ts`).
* Store: a second JS context, for whose sake the version is compared at all; a
  row that does not parse; an abort that reads no run while there is one.
* Queue: `onDrain`, `isBusy`, the idle backoff, pruning and the repair sweeps
  of `doStart`; the settling of a combination pass after its last job; a
  rejecting write when a job is settled or a claim released. `stop()` resets
  the pause depth, so the properties of the chat are stated of holds the queue
  still counts.
* Breaker: how an ownership fault raises the flag beside it, the scoping of a
  background task's failures (they are not counted, and are no actions), the
  length of its cooldowns (a choice).
* Limiter: its two peeks, which change nothing; a waiter that the OS task
  abandons without a signal, whose grant is spent for nobody; a clock that steps
  back.
* Engine: a native release that rejects, a GPU that fails in the foreground, the
  restart hold around a call, the purge of retired models, the checks of a file.
* On this phone: the first load of the screen, cancelling all downloads at once, a
  catalogue of more than one model, notifications; a write that arrives after its
  call has failed.
* Refresh: the callers that reload past the throttle (`suppression-sweep.ts:113`,
  `data-cleanup-task.ts:44`), the merge of rows and the labels themselves.
* Every component with status `not_modelled` in `PROJECT.json`, with its reason.
  Most of the repository's lines are of this kind: screens, prompts, schema,
  services that make one request.

## 6. Plan

Done: feed sync with its refinement, the scheduler, the inference queue, the
scoring pipeline and its store, the limiter, the breaker, the on-device engine,
the choice of where the phone runs, the refresh.

Modules to come, the most important behaviour first: the breaker's pause
composed with `AppScheduler`; the local chat's model lifecycle over
`OnDeviceEngine`; the hedge race; `Backup` generations; the translation queue.

Theorems to come: for the pipeline `NotesStay`, for which a chain must be shown to apply only ids that no
other chain has; and `CloudChoiceKept` for the choice.

## 7. Running it

From this directory:

    tlc -workers 2 -config MCFeedSyncMachine.cfg MCFeedSyncMachine.tla
    tlc -workers 2 -config MCGatewayLimiter.cfg GatewayLimiter.tla
    tlapm FeedSyncMachine_proofs.tla

`PROJECT.json` names the module of each configuration. The largest run has about
two million distinct states; each takes from one to four minutes. A violation
ends in seconds.
