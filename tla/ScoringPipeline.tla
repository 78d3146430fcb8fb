---------------------------- MODULE ScoringPipeline ----------------------------
(***************************************************************************)
(* lib/services/scoring-pipeline.ts: the multi-batch cloud scoring run.    *)
(*                                                                         *)
(* The run is one persisted record (scoring-pipeline-store.ts); a batch of *)
(* it goes through a relevance job and then a reasons job at the gateway.  *)
(* Every caller (poller tick, drain, silent push, OS task) is a chain of   *)
(* awaits that reads a snapshot, talks to the gateway and writes back with *)
(* a compare-and-swap on the phase it expects.  A frame is one such chain  *)
(* working on one batch, frame[f].at the await it is suspended in.  Store  *)
(* writes are atomic here; PipelineStore is about how they are made so.    *)
(* Reads that follow each other with no write in between are one step.     *)
(*                                                                         *)
(* Time is abstracted: a stuck submit, a stale wait and a free limiter     *)
(* slot may come at any moment.  So is the choice among pollable batches,  *)
(* which backoff and the per-sweep skip set reorder freely; fresh submits  *)
(* keep their rank order.  A process may be killed at any step.  The stamp *)
(* scoreFailedAt on the rows of an exhausted batch changes no status, is   *)
(* read by no step of the pipeline and is left out.                        *)
(***************************************************************************)
EXTENDS Integers, FiniteSets

CONSTANTS
  Ids,               \* article_suggestions rows
  Frames,            \* bound: chains of awaits at work at once
  Contexts,          \* ExecutionContext: "foreground", "background", "task"
  Kinds,             \* reasonsOnly of the batches that may be enqueued
  MaxBatches,        \* bound: enqueues, so also batches of a run
  MaxRuns,           \* bound: runs created
  MaxBatchAttempts,  \* MAX_BATCH_ATTEMPTS
  MaxInFlight,       \* MAX_IN_FLIGHT
  MaxInFlightTotal,  \* MAX_IN_FLIGHT_TOTAL
  MaxCrashes         \* bound: kills of the process

ASSUME BoundsAssumption ==
  /\ MaxBatches \in Nat /\ MaxRuns \in Nat /\ MaxCrashes \in Nat
  /\ MaxBatchAttempts \in Nat \ {0}
  /\ MaxInFlight \in Nat \ {0} /\ MaxInFlightTotal \in Nat \ {0}
ASSUME SetsAssumption ==
  /\ IsFiniteSet(Ids) /\ Kinds \subseteq BOOLEAN
  /\ Contexts \subseteq {"foreground", "background", "task"}

VARIABLES
  run,       \* the run in the store, NoRun if there is none
  created,   \* runs created so far
  batches,   \* the run's batches, by batchId
  row,       \* article row: unscored, owed a note (pending), noted, or
             \* complete without one (which here includes filtered out)
  frame,     \* the frames at work
  finalizing,\* doFinalize is between its re-read and clearPipeline
  jobs,      \* jobs the gateway has accepted (and billed)
  dropped,   \* keys whose job was given up (forgetIdempotencyKey)
  enqueues,  \* batches ever enqueued
  crashes    \* kills so far

vars == <<run, created, batches, row, frame, finalizing, jobs, dropped,
          enqueues, crashes>>

NoRun    == 0
Runs     == 1..MaxRuns
BatchIds == 1..MaxBatches

Terminal == {"done", "failed"}
Waiting  == {"waiting-relevance", "waiting-reasons"}
Submitting == {"submitting-relevance", "submitting-reasons"}
BatchPhase == Terminal \cup Waiting \cup Submitting
                \cup {"queued", "needs-reasons-submit", "absent"}

IsTerminal(b) == batches[b].phase \in Terminal
HoldsRelevanceSlot(b) ==
  batches[b].phase \in {"submitting-relevance", "waiting-relevance"}
IsInFlight(b) == batches[b].phase \in Submitting \cup Waiting

Present    == {b \in BatchIds : batches[b].phase # "absent"}
AllTerminal == \A b \in Present : IsTerminal(b)
NonTerminalIds == UNION {batches[b].cand : b \in {x \in Present : ~IsTerminal(x)}}

\* runId:batchId:phase:generation
NoKey == <<0, 0, "rel", 0>>
Key   == (Runs \X BatchIds \X {"rel", "r"} \X Nat) \cup {NoKey}

\* idem is <<phase, sentIds>> of the stored Idempotency-Key, {} if forgotten.
NoBatch == [phase |-> "absent", reasonsOnly |-> FALSE, cand |-> {},
            reasonCand |-> {}, attempt |-> 0, idem |-> {}, keyGen |-> 0,
            job |-> NoKey]
IdleFrame == [at |-> "idle", kind |-> "submit", ctx |-> "foreground", batch |-> 0,
          from |-> "queued", ids |-> {}, key |-> NoKey, by |-> NoRun]

Init ==
  /\ run = NoRun /\ created = 0
  /\ batches = [b \in BatchIds |-> NoBatch]
  /\ row = [i \in Ids |-> "unscored"]
  /\ frame = [f \in Frames |-> IdleFrame]
  /\ finalizing = FALSE
  /\ jobs = {} /\ dropped = {}
  /\ enqueues = 0 /\ crashes = 0
--------------------------------------------------------------------------------
(* What every step is written with.                                         *)

At(f, where) == frame[f].at = where
\* The next await; a chain that only has its outcome to write keeps no more.
Outcomes == {"failed", "retryLater", "threw", "requeue", "markDone"}
Move(f, where) ==
  frame' = [frame EXCEPT ![f] =
    IF where \in Outcomes
    THEN [@ EXCEPT !.at = where, !.ids = {}, !.key = NoKey, !.by = NoRun]
    ELSE [@ EXCEPT !.at = where]]
Leave(f) == frame' = [frame EXCEPT ![f] = IdleFrame]
Free(f) == At(f, "idle")

\* The phase of the batch numbered b in whatever run is stored now.
PhaseOf(b) == IF run = NoRun THEN "absent" ELSE batches[b].phase

\* mutatePipeline with a mutator guarded on the source phase.
Write(b, new) == batches' = [batches EXCEPT ![b] = new]

\* Mutant: a mutator that does not compare the phase, only finds the batch.
LostNever(f) == PhaseOf(frame[f].batch) = "absent"

\* The batch left the phase this frame expects it in: the mutator aborts.
Lost(f) == PhaseOf(frame[f].batch) # frame[f].from

StoreRest == UNCHANGED <<run, created, finalizing, enqueues, crashes>>
ReadStep  == StoreRest /\ UNCHANGED <<batches, row, jobs, dropped>>

\* batchesInHand: the batches some frame checks or submits reasons for.
InHand == {frame[f].batch : f \in {g \in Frames :
             ~Free(g) /\ frame[g].kind \in {"check", "reasons"}
             /\ frame[g].at # "listed"}}

\* Mutant: the guard of withBatchInHand dropped.
TakeInHandAny(b) == b \in BatchIds

TakeInHand(b) == b \notin InHand

\* asTaskStep: one background step at a time, and it works sequentially.
TaskFree == \A g \in Frames : Free(g) \/ frame[g].ctx # "task"
MayWork(f, c) == Free(f) /\ run # NoRun /\ (c = "task" => TaskFree)

\* forgetIdempotencyKey
Forget(r) == [r EXCEPT !.idem = {}]
KeyOf(b, ph, gen) == <<run, b, ph, gen>>
GivenUp(b) == IF batches[b].idem = {} THEN {}
              ELSE {KeyOf(b, p[1], batches[b].keyGen - 1) : p \in batches[b].idem}
--------------------------------------------------------------------------------
(* Enqueue: persistCandidateBatches and enqueueOrphanedReasons.             *)

\* The snapshot is read and the ids it already covers are filtered out: rows
\* without a score, or (reasonsOnly) rows owed a note.
EnqueueLook(f, reasonsOnly) ==
  /\ Free(f) /\ enqueues < MaxBatches
  /\ (run = NoRun) => created < MaxRuns
  /\ \E X \in SUBSET ({i \in Ids : row[i] = IF reasonsOnly THEN "pending"
                                            ELSE "unscored"} \ NonTerminalIds) :
       /\ X # {}
       /\ frame' = [frame EXCEPT ![f] =
            [IdleFrame EXCEPT !.at = IF run = NoRun THEN "create" ELSE "append",
                          !.kind = IF reasonsOnly THEN "orphans" ELSE "enqueue",
                          !.ids = X]]
  /\ enqueues' = enqueues + 1
  /\ UNCHANGED <<run, created, batches, row, finalizing, jobs, dropped, crashes>>

Appended(f, b) ==
  [NoBatch EXCEPT !.phase = "queued", !.cand = frame[f].ids,
                  !.reasonsOnly = frame[f].kind = "orphans"]

\* appendBatches: the next batchId of the run stored now; without a run the
\* rows stay for a later enqueue.  createPipeline refuses to overwrite a run,
\* and createRunWithBatches then appends.
AppendBatch(f) ==
  /\ At(f, "append") \/ (At(f, "create") /\ run # NoRun)
  /\ IF run = NoRun
     THEN UNCHANGED batches
     ELSE LET b == Cardinality(Present) + 1 IN Write(b, Appended(f, b))
  /\ Leave(f)
  /\ StoreRest /\ UNCHANGED <<row, jobs, dropped>>

CreateRun(f) ==
  /\ At(f, "create") /\ run = NoRun
  /\ IF created < MaxRuns
     THEN /\ created' = created + 1
          /\ run' = created + 1
          /\ Write(1, Appended(f, 1))
     ELSE UNCHANGED <<created, run, batches>>
  /\ Leave(f)
  /\ UNCHANGED <<row, finalizing, jobs, dropped, enqueues, crashes>>
--------------------------------------------------------------------------------
(* Submit: pickNextGatewayAction, the claim, doSubmit.                      *)

Queued == {b \in Present : batches[b].phase = "queued"}
Lowest(S) == CHOOSE b \in S : \A c \in S : b <= c

\* The queued batches the in-flight caps of a sweep let through.
Admissible(c) ==
  LET total     == Cardinality({b \in Present : IsInFlight(b)})
      relevance == Cardinality({b \in Present : HoldsRelevanceSlot(b)})
  IN IF c = "task" THEN {b \in Queued : total < MaxInFlight}
     ELSE {b \in Queued : /\ total < MaxInFlightTotal
                          /\ batches[b].reasonsOnly \/ relevance < MaxInFlight}

\* A fresh submit is chosen and its limiter slot taken.  A silent push never
\* submits one: it has no token for it.
LookSubmit(f, c) ==
  /\ MayWork(f, c) /\ c # "background"
  /\ Admissible(c) # {}
  /\ frame' = [frame EXCEPT ![f] =
       [IdleFrame EXCEPT !.at = "claim", !.ctx = c, !.batch = Lowest(Admissible(c))]]
  /\ ReadStep

SubmitPhase(b) == IF batches[b].reasonsOnly THEN "submitting-reasons"
                  ELSE "submitting-relevance"

Claim(f) ==
  LET b == frame[f].batch IN
  /\ At(f, "claim")
  /\ IF PhaseOf(b) = "queued"
     THEN /\ Write(b, [batches[b] EXCEPT !.phase = SubmitPhase(b)])
          /\ Move(f, "build")
     ELSE UNCHANGED batches /\ Leave(f)
  /\ StoreRest /\ UNCHANGED <<row, jobs, dropped>>

\* doSubmit up to the key: re-read, build the bundle from the rows still owed
\* work (hard filters finish some of them), rebuild the E2EE context.
Build(f) ==
  LET b == frame[f].batch
      owed == {i \in batches[b].cand :
                 row[i] = IF batches[b].reasonsOnly THEN "pending" ELSE "unscored"}
  IN
  /\ At(f, "build")
  /\ IF PhaseOf(b) \notin Submitting
     THEN Leave(f) /\ UNCHANGED row
     ELSE \E X \in SUBSET owed :
            /\ row' = [i \in Ids |-> IF i \in X THEN "complete" ELSE row[i]]
            /\ \E next \in IF owed \ X = {} THEN {"markDone"}
                           ELSE {"reserve", "keyInvalid", "threw"} :
                 frame' = [frame EXCEPT
                   ![f].at = next, ![f].ids = owed \ X, ![f].by = run,
                   ![f].from = IF next = "keyInvalid" THEN PhaseOf(b)
                               ELSE SubmitPhase(b)]
  /\ StoreRest /\ UNCHANGED <<batches, jobs, dropped>>

\* Mutant: a stored key is reused whatever ids it was sent with.
ReusableAnyIds(b, ph, ids) == \E p \in batches[b].idem : p[1] = ph

\* The stored key was sent with exactly these ids for this phase.
Reusable(b, ph, ids) == <<ph, ids>> \in batches[b].idem

\* Mutant: a forgotten key's generation is minted again.
MintedGenAgain(b) == IF batches[b].idem = {} THEN 0 ELSE batches[b].keyGen

\* The generation of a key minted now.
MintedGen(b) == batches[b].keyGen

\* reserveIdempotencyKey: persisted before the POST.
Reserve(f) ==
  LET b == frame[f].batch
      ph == IF frame[f].from = "submitting-relevance" THEN "rel" ELSE "r"
      gen == IF Reusable(b, ph, frame[f].ids) THEN batches[b].keyGen - 1
             ELSE MintedGen(b)
  IN
  /\ At(f, "reserve")
  /\ IF Lost(f) THEN UNCHANGED batches /\ Leave(f)
     ELSE /\ Write(b, [batches[b] EXCEPT !.idem = {<<ph, frame[f].ids>>},
                                         !.keyGen = gen + 1])
          /\ frame' = [frame EXCEPT ![f].at = "send", ![f].key = KeyOf(b, ph, gen)]
  /\ StoreRest /\ UNCHANGED <<row, jobs, dropped>>

\* sendInferenceRequest.  The gateway (external) stores a key once its job
\* exists and replays that job for it; the reply, or the whole request, may be
\* lost, and a task's deadline mid-POST counts as neither accepted nor failed;
\* 429, 409, a read hold or a missing JWT create nothing.
Accepted(key) == \E j \in jobs : j.key = key
JobOf(key) == CHOOSE j \in jobs : j.key = key
JobsWith(f) ==
  IF Accepted(frame[f].key) THEN jobs
  ELSE jobs \cup {[key |-> frame[f].key, ids |-> frame[f].ids, by |-> frame[f].by]}

SendAccepted(f) ==
  /\ At(f, "send")
  /\ jobs' = JobsWith(f)
  /\ \E reply \in {"ok", "failed", "retryLater"} : Move(f, reply)
  /\ StoreRest /\ UNCHANGED <<batches, row, dropped>>

SendRefused(f) ==
  /\ At(f, "send")
  /\ \E reply \in {"retryLater", "failed"} : Move(f, reply)
  /\ ReadStep

\* transitionToWaitingRelevance and transitionToWaitingReasons.
ToWaiting(f) ==
  LET b == frame[f].batch
      relevance == frame[f].from = "submitting-relevance"
      froms == IF relevance THEN {"submitting-relevance"}
               ELSE {"submitting-reasons", "needs-reasons-submit"}
  IN
  /\ At(f, "ok")
  /\ IF PhaseOf(b) \notin froms THEN UNCHANGED batches
     ELSE Write(b,
       IF relevance
       THEN [batches[b] EXCEPT !.phase = "waiting-relevance",
                               !.job = frame[f].key, !.cand = frame[f].ids]
       ELSE [batches[b] EXCEPT !.phase = "waiting-reasons",
                               !.job = frame[f].key, !.reasonCand = frame[f].ids])
  /\ Leave(f)
  /\ StoreRest /\ UNCHANGED <<row, jobs, dropped>>

\* requeueThrottled; releaseClaim for a reasons submit.  Nothing is spent.
GiveBack(f) ==
  LET b == frame[f].batch IN
  /\ At(f, "retryLater") \/ (At(f, "threw") /\ frame[f].ctx = "task")
  /\ IF Lost(f) THEN UNCHANGED batches
     ELSE Write(b, [batches[b] EXCEPT !.phase =
            IF frame[f].kind = "reasons" THEN "needs-reasons-submit" ELSE "queued"])
  /\ Leave(f)
  /\ StoreRest /\ UNCHANGED <<row, jobs, dropped>>

\* One attempt more, failed at the cap, else back to the given phase.
Retried(r, back) ==
  [r EXCEPT !.attempt = @ + 1,
            !.phase = IF r.attempt + 1 >= MaxBatchAttempts THEN "failed" ELSE back]

\* Mutant: a failed POST spends no attempt.
SubmitFailedFree(b) == [batches[b] EXCEPT !.phase = "queued"]

\* What a failed POST leaves of the batch: the key is kept.
SubmitFailed(b) == Retried(batches[b], "queued")

\* failOrRetrySubmit
FailOrRetry(f) ==
  LET b == frame[f].batch IN
  /\ frame[f].kind = "submit"
  /\ At(f, "failed") \/ (At(f, "threw") /\ frame[f].ctx # "task")
  /\ IF Lost(f) THEN UNCHANGED batches
     ELSE Write(b, SubmitFailed(b))
  /\ Leave(f)
  /\ StoreRest /\ UNCHANGED <<row, jobs, dropped>>

\* failSubmitModelKeyInvalid
FailNow(f) ==
  LET b == frame[f].batch IN
  /\ At(f, "keyInvalid")
  /\ IF Lost(f) THEN UNCHANGED batches
     ELSE Write(b, [batches[b] EXCEPT !.phase = "failed"])
  /\ Leave(f)
  /\ StoreRest /\ UNCHANGED <<row, jobs, dropped>>

\* markBatchDone: an empty bundle, reasons applied, or a reasons submit that
\* failed for good (its scores are kept).
MarkDone(f) ==
  LET b == frame[f].batch IN
  /\ At(f, "markDone") \/ (At(f, "failed") /\ frame[f].kind = "reasons")
  /\ IF PhaseOf(b) \in Terminal \cup {"absent"} THEN UNCHANGED batches
     ELSE Write(b, [batches[b] EXCEPT !.phase = "done"])
  /\ Leave(f)
  /\ StoreRest /\ UNCHANGED <<row, jobs, dropped>>
--------------------------------------------------------------------------------
(* submitNeedsReasons: the follow-up job of a batch whose scores are saved. *)

LookReasons(f, c) ==
  /\ MayWork(f, c)
  /\ \E b \in Present :
       /\ batches[b].phase = "needs-reasons-submit" /\ TakeInHand(b)
       /\ frame' = [frame EXCEPT ![f] =
            [IdleFrame EXCEPT !.at = "buildReasons", !.kind = "reasons",
                              !.ctx = c, !.batch = b]]
  /\ ReadStep

\* Re-read, build from the rows still owed a note (a tag gate may finish some
\* of them), take a limiter slot or leave the batch for later.
BuildReasons(f) ==
  LET b == frame[f].batch
      owed == {i \in batches[b].reasonCand : row[i] = "pending"}
  IN
  /\ At(f, "buildReasons")
  /\ IF PhaseOf(b) # "needs-reasons-submit"
     THEN Leave(f) /\ UNCHANGED row
     ELSE \E X \in SUBSET owed :
            /\ row' = [i \in Ids |-> IF i \in X THEN "complete" ELSE row[i]]
            /\ IF owed \ X = {} THEN Move(f, "markDone")
               ELSE \/ Leave(f)
                    \/ frame' = [frame EXCEPT
                         ![f].at = "claimReasons", ![f].ids = owed \ X,
                         ![f].from = "submitting-reasons", ![f].by = run]
  /\ StoreRest /\ UNCHANGED <<batches, jobs, dropped>>

\* The claim, then the E2EE context: an invalid model key finishes the batch,
\* another throw ends this chain with the batch still claimed (a task hands
\* it back).
ClaimReasons(f) ==
  LET b == frame[f].batch IN
  /\ At(f, "claimReasons")
  /\ IF PhaseOf(b) = "needs-reasons-submit"
     THEN /\ Write(b, [batches[b] EXCEPT !.phase = "submitting-reasons"])
          /\ \/ \E next \in {"reserve", "markDone"} : Move(f, next)
             \/ frame[f].ctx = "task" /\ Move(f, "threw")
             \/ frame[f].ctx # "task" /\ Leave(f)
     ELSE UNCHANGED batches /\ Leave(f)
  /\ StoreRest /\ UNCHANGED <<row, jobs, dropped>>
--------------------------------------------------------------------------------
(* checkBatch: fetch a waiting batch's results and apply them.              *)

ResultIds(b) == IF batches[b].phase = "waiting-relevance" THEN batches[b].cand
                ELSE batches[b].reasonCand

\* A waiting batch is chosen; the OS task chooses from a list it read before
\* it waited for its limiter slot.
LookCheck(f, c) ==
  /\ MayWork(f, c)
  /\ \E b \in Present :
       /\ batches[b].phase \in Waiting
       /\ c = "task" \/ TakeInHand(b)
       /\ frame' = [frame EXCEPT ![f] =
            [IdleFrame EXCEPT !.at = IF c = "task" THEN "listed" ELSE "fetch",
                              !.kind = "check", !.ctx = c, !.batch = b,
                              !.from = batches[b].phase, !.ids = ResultIds(b),
                              !.key = batches[b].job]]
  /\ ReadStep

\* withBatchInHand for the task: busy, or its turn.
TaskTurn(f) ==
  /\ At(f, "listed")
  /\ IF TakeInHand(frame[f].batch) THEN Move(f, "fetch") ELSE Leave(f)
  /\ ReadStep

\* Still pending, or an error: the batch stays as it is.
FetchLater(f) == At(f, "fetch") /\ Leave(f) /\ ReadStep

\* Not found, refused, or waiting past BATCH_STALE_MS.  The OS task requeues on
\* a definite 404 only, which can come for any job.
FetchGivesUp(f) == At(f, "fetch") /\ Move(f, "requeue") /\ ReadStep

\* Results of a relevance job: each score is saved (owing a note or not), a row
\* may come back without one, and the apply may throw halfway.  Results that
\* were encrypted for another run's key cannot be read.
ApplyRelevance(f) ==
  LET readable == IF JobOf(frame[f].key).by = run THEN frame[f].ids ELSE {} IN
  /\ At(f, "fetch") /\ frame[f].from = "waiting-relevance"
  /\ \E scored \in SUBSET readable : \E impactful \in SUBSET scored :
       /\ row' = [i \in Ids |-> IF i \in impactful THEN "pending"
                                ELSE IF i \in scored THEN "complete" ELSE row[i]]
       /\ \/ frame' = [frame EXCEPT ![f].at = "relevanceDone", ![f].ids = impactful,
                                       ![f].key = NoKey]
          \/ Move(f, "requeue")
  /\ StoreRest /\ UNCHANGED <<batches, jobs, dropped>>

\* The scores are in: done, or on to the reasons submit with this batch in hand.
RelevanceDone(f) ==
  LET b == frame[f].batch IN
  /\ At(f, "relevanceDone")
  /\ IF PhaseOf(b) # "waiting-relevance" THEN UNCHANGED batches
     ELSE Write(b, [batches[b] EXCEPT
            !.reasonCand = frame[f].ids,
            !.phase = IF frame[f].ids = {} THEN "done" ELSE "needs-reasons-submit"])
  /\ IF frame[f].ids = {} THEN Leave(f)
     ELSE frame' = [frame EXCEPT ![f].at = "buildReasons", ![f].kind = "reasons",
                                 ![f].ids = {}, ![f].key = NoKey]
  /\ StoreRest /\ UNCHANGED <<row, jobs, dropped>>

\* Results of a reasons job: notes are saved, the batch is finished.
ApplyReasons(f) ==
  LET readable == IF JobOf(frame[f].key).by = run THEN frame[f].ids ELSE {} IN
  /\ At(f, "fetch") /\ frame[f].from = "waiting-reasons"
  /\ \E noted \in SUBSET readable :
       row' = [i \in Ids |-> IF i \in noted THEN "noted" ELSE row[i]]
  /\ \E next \in {"markDone", "requeue"} : Move(f, next)
  /\ StoreRest /\ UNCHANGED <<batches, jobs, dropped>>

\* requeueWaitingOrFail: one attempt more and the key forgotten; rows of a
\* failed reasons batch stop waiting for a note.
Requeue(f) ==
  LET b == frame[f].batch
      back == IF frame[f].from = "waiting-reasons" THEN "needs-reasons-submit"
              ELSE "queued"
      new == Forget(Retried(batches[b], back))
  IN
  /\ At(f, "requeue")
  /\ IF Lost(f) THEN UNCHANGED <<batches, row, dropped>>
     ELSE /\ Write(b, new)
          /\ dropped' = dropped \cup GivenUp(b)
          /\ row' = [i \in Ids |->
               IF /\ new.phase = "failed" /\ frame[f].from = "waiting-reasons"
                  /\ i \in new.reasonCand /\ row[i] = "pending"
               THEN "complete" ELSE row[i]]
  /\ Leave(f)
  /\ StoreRest /\ UNCHANGED jobs
--------------------------------------------------------------------------------
(* The run: stuck submits, abort, finalize, the process.                    *)

\* Mutant: a stuck reasons submit is requeued from scratch.
RevertTargetQueued(b) == IF b \in BatchIds THEN "queued" ELSE "failed"

\* Where a stuck submit goes back to.
RevertTarget(b) ==
  IF batches[b].phase = "submitting-reasons" /\ ~batches[b].reasonsOnly
  THEN "needs-reasons-submit" ELSE "queued"

\* revertStuckSubmitters: the chain that claimed the batch may still be at work.
RevertStuck(b) ==
  /\ run # NoRun /\ batches[b].phase \in Submitting
  /\ Write(b, Retried(batches[b], RevertTarget(b)))
  /\ StoreRest /\ UNCHANGED <<row, frame, jobs, dropped>>

\* forceFailNonTerminalAndFinalize: abortRun and a run recover() abandons.
ForceFail ==
  /\ run # NoRun /\ ~AllTerminal
  /\ batches' = [b \in BatchIds |->
       IF b \in Present /\ ~IsTerminal(b)
       THEN [batches[b] EXCEPT !.phase = "failed"] ELSE batches[b]]
  /\ StoreRest /\ UNCHANGED <<row, frame, jobs, dropped>>

\* maybeFinalize at the tail of a drain, and the single-flight doFinalize up to
\* refreshUi.
BeginFinalize ==
  /\ run # NoRun /\ AllTerminal /\ ~finalizing
  /\ finalizing' = TRUE
  /\ UNCHANGED <<run, created, batches, row, frame, jobs, dropped, enqueues, crashes>>

\* clearPipeline, whatever the run has become during refreshUi.
EndFinalize ==
  /\ finalizing
  /\ finalizing' = FALSE
  /\ run' = NoRun
  /\ batches' = [b \in BatchIds |-> NoBatch]
  /\ UNCHANGED <<created, row, frame, jobs, dropped, enqueues, crashes>>

\* The process is killed: every chain of awaits is gone, the store is not.
Crash ==
  /\ crashes < MaxCrashes
  /\ crashes' = crashes + 1
  /\ frame' = [f \in Frames |-> IdleFrame]
  /\ finalizing' = FALSE
  /\ UNCHANGED <<run, created, batches, row, jobs, dropped, enqueues>>
--------------------------------------------------------------------------------
Look(f, c) == LookSubmit(f, c) \/ LookReasons(f, c) \/ LookCheck(f, c)

FrameStep(f) ==
  \/ AppendBatch(f) \/ CreateRun(f)
  \/ Claim(f) \/ Build(f) \/ Reserve(f) \/ SendAccepted(f) \/ SendRefused(f)
  \/ ToWaiting(f) \/ GiveBack(f) \/ FailOrRetry(f) \/ FailNow(f) \/ MarkDone(f)
  \/ BuildReasons(f) \/ ClaimReasons(f)
  \/ TaskTurn(f) \/ FetchLater(f) \/ FetchGivesUp(f)
  \/ ApplyRelevance(f) \/ RelevanceDone(f) \/ ApplyReasons(f) \/ Requeue(f)

Next ==
  \/ \E f \in Frames :
       \/ FrameStep(f)
       \/ \E c \in Contexts : Look(f, c)
       \/ \E ro \in Kinds : EnqueueLook(f, ro)
  \/ \E b \in BatchIds : RevertStuck(b)
  \/ ForceFail \/ BeginFinalize \/ EndFinalize \/ Crash

Spec == Init /\ [][Next]_vars

\* Frame f passes one of these awaits: the gateway has answered, the limiter
\* has a slot, the attestation is there.
Answers == {"send", "fetch"}
Attestations == {"build", "claimReasons"}
Slots == {"buildReasons"}
Passes(f, awaits) ==
  /\ frame[f].at \in awaits /\ FrameStep(f)
  /\ frame'[f].at \notin {"idle", "retryLater", "threw"}

\* In the foreground: the poller ticks on a timer while there is a run, so it
\* looks again and again and reverts what is stuck; every await settles; a
\* tick's drain, or recover() when the app opens, finalizes.  What is asked for
\* again and again (an answer, an attestation, a slot) comes in the end.
Fairness ==
  /\ \A f \in Frames :
       /\ WF_vars(FrameStep(f))
       /\ SF_vars(Passes(f, Answers))
       /\ SF_vars(Passes(f, Attestations))
       /\ SF_vars(Passes(f, Slots))
  /\ SF_vars(\E f \in Frames : Look(f, "foreground"))
  /\ \A b \in BatchIds : WF_vars(RevertStuck(b))
  /\ WF_vars(BeginFinalize) /\ WF_vars(EndFinalize)

FairSpec == Spec /\ Fairness
--------------------------------------------------------------------------------
(* Properties.                                                              *)

FramePlaces == {"idle", "create", "append", "claim", "build", "reserve", "send",
                "ok", "failed", "retryLater", "threw", "keyInvalid", "markDone",
                "buildReasons", "claimReasons", "listed", "fetch",
                "relevanceDone", "requeue"}

BatchRecord ==
  [phase : BatchPhase, reasonsOnly : BOOLEAN, cand : SUBSET Ids,
   reasonCand : SUBSET Ids, attempt : 0..MaxBatchAttempts,
   idem : SUBSET ({"rel", "r"} \X SUBSET Ids), keyGen : Nat, job : Key]

FrameRecord ==
  [at : FramePlaces,
   kind : {"submit", "reasons", "check", "enqueue", "orphans"},
   ctx : {"foreground", "background", "task"}, batch : 0..MaxBatches,
   from : BatchPhase, ids : SUBSET Ids, key : Key, by : 0..MaxRuns]

TypeOK ==
  /\ run \in 0..MaxRuns /\ created \in 0..MaxRuns
  /\ batches \in [BatchIds -> BatchRecord]
  /\ row \in [Ids -> {"unscored", "pending", "complete", "noted"}]
  /\ frame \in [Frames -> FrameRecord]
  /\ finalizing \in BOOLEAN
  /\ \A j \in jobs : j.key \in Key /\ j.ids \in SUBSET Ids /\ j.by \in Runs
  /\ dropped \subseteq Key
  /\ enqueues \in 0..MaxBatches /\ crashes \in 0..MaxCrashes

\* The position of an id in candidateIds (reasonCandidateIds) is what a result
\* is decoded by: a waiting batch lists exactly the ids its job was sent with,
\* whichever of several chains, retries or replays the requestId came from.
DecodesItsOwnIds ==
  \A b \in Present : batches[b].phase \in Waiting =>
    \E j \in jobs : j.key = batches[b].job /\ j.ids = ResultIds(b)

\* Asking again for the ids of the last request of a batch replays its job
\* instead of billing a second one, unless that job was given up: after a lost
\* reply, a kill between the POST and the write, a stuck submit, two chains.
BilledOnce ==
  \A j, k \in jobs :
    /\ j.ids = k.ids /\ j.key[4] + 1 = k.key[4]
    /\ \A n \in 1..3 : j.key[n] = k.key[n]
    => j.key \in dropped

\* A batch that is done or failed is never reopened while its run lives, and no
\* batch leaves the run: late answers and reverts find nothing to move.
TerminalStays ==
  [][run' = run => \A b \in Present :
       /\ batches'[b].phase # "absent"
       /\ IsTerminal(b) => batches'[b].phase = batches[b].phase]_vars

\* Scores that are saved are never asked for again: a batch past its relevance
\* job does not go back to it, with one exception.  A mutator compares the
\* batchId and the phase, not the runId: a chain of an ended run that submits a
\* batch of owed notes hands back the scoring batch that bears its number now.
PastRelevance(b) ==
  batches[b].phase \in {"needs-reasons-submit", "submitting-reasons", "waiting-reasons"}
OfAnEndedRun(b) == \E f \in Frames :
  /\ frame'[f] # frame[f] /\ frame[f].batch = b /\ ~batches[b].reasonsOnly
  /\ frame[f].kind = "submit" /\ frame[f].from = "submitting-reasons"
NeverRescored ==
  [][run' = run => \A b \in Present :
       PastRelevance(b) /\ ~batches[b].reasonsOnly
         => PastRelevance(b)' \/ IsTerminal(b)' \/ OfAnEndedRun(b)]_vars

\* A note, once written, is not wiped: results are not applied twice, with three
\* exceptions.  The OS task works from a list it read before it waited for its
\* limiter slots; results that come after the batch was failed by an abort are
\* applied all the same; and a row may be in two batches (OneBatchPerRow).
ByTask == \E f \in Frames : frame[f].ctx = "task" /\ frame'[f] # frame[f]
Late == \E f \in Frames :
  /\ frame'[f] # frame[f] /\ frame[f].at = "fetch"
  /\ PhaseOf(frame[f].batch) # frame[f].from
Shared(i) == \E b, c \in Present : b # c /\ i \in batches[b].cand \cap batches[c].cand
NotesStay ==
  [][\A i \in Ids :
       row[i] = "noted" => row'[i] = "noted" \/ ByTask \/ Late \/ Shared(i)]_vars

\* Work that is done stays done: no batch is reopened, no score is asked for twice,
\* no note is wiped.
WorkStays == TerminalStays /\ NeverRescored /\ NotesStay

\* Every run ends, so feed sync, which does nothing while a run lives, resumes:
\* whatever is lost, refused, killed or retried, no batch keeps a run for ever.
RunEnds == \A r \in Runs : run = r ~> run # r

(* Claim of the source that the code does not keep (violation run).         *)

\* scoring-pipeline.ts:2850: an enqueue beside a concurrent trigger is safe,
\* since enqueueCandidates dedups: no row is in two live batches.
OneBatchPerRow ==
  \A b, c \in Present :
    b # c /\ ~IsTerminal(b) /\ ~IsTerminal(c) => batches[b].cand \cap batches[c].cand = {}
================================================================================
