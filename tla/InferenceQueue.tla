----------------------------- MODULE InferenceQueue -----------------------------
(***************************************************************************)
(* lib/inference/InferenceQueue.ts: the one consumer of the persistent     *)
(* inference_jobs table, with the row transitions of models/InferenceJob   *)
(* .ts and inference-job-service.ts, the sibling claims of the combination *)
(* pass (handlers/topic-combo-handler.ts, combo-pass-service.ts), the      *)
(* effect that starts and stops it (hooks/useModelLifecycle.ts) and the    *)
(* chat turns that pause it (llm/useLocalLLM.ts).                          *)
(*                                                                         *)
(* Clocks are not modelled.  A sleep of the loop may end at any time, which *)
(* covers the poll, every backoff of it and every wake(); a defer gate     *)
(* lasts 30s or more and expires only while the loop sleeps.               *)
(***************************************************************************)
EXTENDS Integers, Sequences, FiniteSets

CONSTANTS
  TypeOf,       \* the types of the jobs, in the order their rows are created
  Chats,        \* chat engines: a disposed one ends its turn beside the next one's
  MaxAttempts,  \* a row's max_attempts
  MaxEffects,   \* bound: times the lifecycle effect runs
  MaxUpsets,    \* bound: changes of the app state and of the processing mode, and
                \* times the process is killed and started again
  Faults        \* database calls that may reject; "vanish": the row is destroyed

Types == {"topic_gen", "topic_combo", "persona_summary", "unknown"}
FaultPoints == {"setup", "stats", "markRunning", "apply", "vanish"}

ASSUME TypesAssumption == TypeOf \in Seq(Types)
ASSUME ChatsAssumption == IsFiniteSet(Chats)
ASSUME BoundsAssumption ==
  /\ MaxAttempts \in Nat \ {0} /\ MaxEffects \in Nat /\ MaxUpsets \in Nat
  /\ Faults \subseteq FaultPoints

VARIABLES
  wanted,       \* shouldRun of the effect's last run
  starting,     \* how far doStart() is, "none" when the promise is null
  startWaits,   \* a start() awaits the stop in flight
  stopWaits,    \* a stop() awaits the start in flight
  stopping,     \* the promise stopping is not null
  state,        \* state
  pauseDepth,   \* pauseDepth
  recovered,    \* recoveredThisProcess
  pc,           \* consumer loop -> where it is
  taken,        \* consumer loop -> the job it has dequeued, or NoJob
  claimed,      \* consumer loop -> outstanding siblings of the combo handler
  current,      \* the job of currentJobPromise, NoJob, or Rejected for ever
  gated,        \* types with a running gate in gateUntil
  onDevice,     \* the processing mode is OnDevice
  active,       \* AppState.currentState is 'active'
  chat,         \* chat engine -> its turn
  counted,      \* history: chats whose pause() was counted, and whose count no stop()
                \* and no resume() of an uncounted turn has taken
  row,          \* job -> status of its row, "none" before and "gone" after
  attempts,     \* job -> attempts
  passOf,       \* combo job -> passId
  spent,        \* job -> runs of it that failed or died with the process
  effects, upsets   \* bounds

lifecycle == <<wanted, starting, startWaits, stopWaits, stopping, recovered>>
hold      == <<state, pauseDepth, chat, counted>>
loop      == <<pc, taken, claimed, current>>
world     == <<onDevice, active>>
rows      == <<row, attempts, spent>>
bounds    == <<effects, upsets>>
vars      == <<lifecycle, hold, loop, gated, world, rows, passOf, bounds>>

Jobs     == DOMAIN TypeOf
NoJob    == 0
Rejected == -1
Loops    == {1, 2}

Sleeping  == {"asleep", "paused"}
Unmarked  == {"dequeued", "precheck", "markRunning"}
Working   == {"handler", "claim", "batch"}
Settling  == {"siblings", "markDone", "markFailed", "markDeferred"}
Executing == {"markRunning"} \cup Working \cup Settling
PickedUp  == {"precheck", "unrunnable"} \cup Executing
Places    == {"off", "top", "stats", "query", "unrunnable"} \cup Sleeping \cup Unmarked
             \cup Working \cup Settling
RowStatus == {"none", "pending", "running", "done", "failed", "gone"}

Combo(j) == TypeOf[j] = "topic_combo"

Init ==
  /\ wanted = FALSE /\ starting = "none" /\ startWaits = FALSE
  /\ stopWaits = FALSE /\ stopping = FALSE /\ recovered = FALSE
  /\ state = "stopped" /\ pauseDepth = 0
  /\ pc = [l \in Loops |-> "off"]
  /\ taken = [l \in Loops |-> NoJob]
  /\ claimed = [l \in Loops |-> {}]
  /\ current = NoJob /\ gated = {}
  /\ onDevice \in BOOLEAN /\ active = TRUE
  /\ chat = [c \in Chats |-> "idle"] /\ counted = {}
  /\ row = [j \in Jobs |-> "none"]
  /\ attempts = [j \in Jobs |-> 0]
  /\ passOf = [j \in Jobs |-> 0]
  /\ spent = [j \in Jobs |-> 0]
  /\ effects = 0 /\ upsets = 0
--------------------------------------------------------------------------------
(* Rows: what the database calls write.                                     *)

Status(S, status) == row' = [j \in Jobs |-> IF j \in S THEN status ELSE row[j]]

\* markRunning() and claimSiblings(): an attempt is taken with the row.
TakeRows(S) ==
  /\ Status(S, "running")
  /\ attempts' = [j \in Jobs |-> IF j \in S THEN attempts[j] + 1 ELSE attempts[j]]
  /\ UNCHANGED spent

SettleRows(S, status) == Status(S, status) /\ UNCHANGED <<attempts, spent>>

\* Mutant: a deferral keeps the attempt.
DeferKeeping(S) == SettleRows(S, "pending")

\* markDeferred() and releaseComboJobs('defer'): the attempt is given back.
DeferRows(S) ==
  /\ Status(S, "pending")
  /\ attempts' = [j \in Jobs |->
       IF j \in S /\ attempts[j] > 0 THEN attempts[j] - 1 ELSE attempts[j]]
  /\ UNCHANGED spent

\* A run of the rows of S is over and failed; `kept` still have an attempt left.
FailKeeping(S, kept) ==
  /\ row' = [j \in Jobs |->
       IF j \notin S THEN row[j] ELSE IF j \in kept THEN "pending" ELSE "gone"]
  /\ spent' = [j \in Jobs |->
       IF j \in S /\ row[j] \in {"running", "done"} THEN spent[j] + 1 ELSE spent[j]]
  /\ UNCHANGED attempts

\* markFailed() and releaseComboJobs({ error }): destroyed at the last attempt.
FailRows(S) == FailKeeping(S, {j \in S : attempts[j] < MaxAttempts})

PendingCombos == {j \in Jobs : Combo(j) /\ row[j] = "pending"}

Priority(j) ==
  CASE TypeOf[j] = "topic_gen" -> 10
    [] TypeOf[j] = "topic_combo" -> 15
    [] OTHER -> 20

\* j comes no later than k in the order of dequeueJob().
NoLater(j, k) ==
  Priority(j) < Priority(k) \/ (Priority(j) = Priority(k) /\ j <= k)

\* Mutant: a gated type is skipped after the query, not in it.
HeadOfAllRows(j) ==
  /\ row[j] = "pending" /\ TypeOf[j] \notin gated
  /\ \A k \in Jobs : row[k] = "pending" => NoLater(j, k)

\* dequeueJob() returns j.
HeadRow(j) ==
  /\ row[j] = "pending" /\ TypeOf[j] \notin gated
  /\ \A k \in Jobs : row[k] = "pending" /\ TypeOf[k] \notin gated => NoLater(j, k)
--------------------------------------------------------------------------------
(* start() and stop(), called by the lifecycle effect.                      *)

LoopLive == \E l \in Loops : pc[l] # "off"

\* Mutant: start() does not wait for the stop in flight.
StartAtOnce == FALSE

\* start() must wait: the old loop still runs its job.
MustWait == stopping

\* The body of start() past its await.
Begin ==
  starting' = IF state = "stopped" /\ starting = "none" THEN "recover" ELSE starting

\* The body of stop() past its await.  Sleeping loops are woken by SleepEnds.
Halt ==
  IF state = "stopped" THEN UNCHANGED <<hold, stopping>>
  ELSE /\ state' = "stopped" /\ pauseDepth' = 0 /\ counted' = {}
       /\ stopping' = LoopLive
       /\ UNCHANGED chat

CallStart ==
  /\ IF MustWait THEN startWaits' = TRUE /\ UNCHANGED starting
                 ELSE Begin /\ UNCHANGED startWaits
  /\ UNCHANGED <<hold, stopping, stopWaits>>

CallStop ==
  /\ IF starting # "none"
       THEN stopWaits' = TRUE /\ UNCHANGED <<hold, stopping>>
       ELSE Halt /\ UNCHANGED stopWaits
  /\ UNCHANGED <<starting, startWaits>>

\* useModelLifecycle, effect 3: the queue is stopped unless it looks stopped.
Effect ==
  /\ effects < MaxEffects /\ effects' = effects + 1
  /\ \/ wanted' = TRUE /\ CallStart
     \/ wanted' = FALSE /\ state # "stopped" /\ CallStop
     \/ /\ wanted' = FALSE /\ state = "stopped"
        /\ UNCHANGED <<starting, startWaits, stopWaits, stopping, hold>>
  /\ UNCHANGED <<recovered, loop, gated, world, rows, passOf, upsets>>

StartResumes ==
  /\ startWaits /\ ~stopping /\ startWaits' = FALSE /\ Begin
  /\ UNCHANGED <<wanted, stopWaits, stopping, recovered, hold, loop, gated,
                 world, rows, passOf, bounds>>

StopResumes ==
  /\ stopWaits /\ starting = "none" /\ stopWaits' = FALSE /\ Halt
  /\ UNCHANGED <<wanted, starting, startWaits, recovered, loop, gated, world,
                 rows, passOf, bounds>>

\* recoverCrashedJobs(), once per process: runs that died have cost an attempt.
Recover ==
  /\ starting = "recover" /\ starting' = "sweep" /\ recovered' = TRUE
  /\ row' = [j \in Jobs |->
       IF recovered \/ row[j] # "running" THEN row[j]
       ELSE IF attempts[j] >= MaxAttempts THEN "failed" ELSE "pending"]
  /\ spent' = [j \in Jobs |->
       IF recovered \/ row[j] # "running" THEN spent[j] ELSE spent[j] + 1]
  /\ UNCHANGED <<wanted, startWaits, stopWaits, stopping, hold, loop, gated,
                 world, attempts, passOf, bounds>>

\* The sweeps are over and the loop begins; failed rows are reported afterwards.
Started ==
  /\ starting = "sweep"
  /\ starting' = IF \E j \in Jobs : row[j] = "failed" THEN "report" ELSE "none"
  /\ state' = "running"
  /\ \E l \in Loops :
       pc[l] = "off" /\ (\A k \in 1..(l - 1) : pc[k] # "off")
       /\ pc' = [pc EXCEPT ![l] = "top"]
  /\ UNCHANGED <<wanted, startWaits, stopWaits, stopping, recovered, pauseDepth,
                 chat, counted, taken, claimed, current, gated, world, rows,
                 passOf, bounds>>

Reported ==
  /\ starting = "report" /\ starting' = "none"
  /\ UNCHANGED <<wanted, startWaits, stopWaits, stopping, recovered, hold, loop,
                 gated, world, rows, passOf, bounds>>

\* A read of doStart() rejects, and every start() and stop() awaiting it.
StartFails ==
  /\ "setup" \in Faults /\ starting \in {"recover", "sweep"}
  /\ starting' = "none" /\ stopWaits' = FALSE
  /\ UNCHANGED <<wanted, startWaits, stopping, recovered, hold, loop, gated,
                 world, rows, passOf, bounds>>
--------------------------------------------------------------------------------
(* consumeLoop().                                                           *)

LoopFrame == UNCHANGED <<wanted, starting, startWaits, stopWaits, recovered,
                         world, passOf, bounds>>

\* Loop l goes on at `where`, holding job j.
Goto(l, where, j) ==
  /\ pc' = [pc EXCEPT ![l] = where]
  /\ taken' = [taken EXCEPT ![l] = j]

Stay == UNCHANGED <<stopping, hold, claimed, current>> /\ LoopFrame

\* Mutant: the promise of a finished stop() is never cleared.
StopKept == UNCHANGED stopping

\* The loop is over: the stop() that awaited it, if any, is done.
StopDone == stopping' = FALSE

LoopEnds(l) ==
  /\ pc[l] = "top" /\ state = "stopped"
  /\ Goto(l, "off", NoJob) /\ StopDone
  /\ UNCHANGED <<hold, claimed, current, gated, rows>> /\ LoopFrame

WaitsForForeground == ~active /\ onDevice

LoopRests(l) ==
  /\ pc[l] = "top" /\ state # "stopped"
  /\ \/ state = "paused" /\ Goto(l, "paused", NoJob)
     \/ state = "running" /\ WaitsForForeground /\ Goto(l, "asleep", NoJob)
  /\ UNCHANGED <<gated, rows>> /\ Stay

LoopLooks(l) ==
  /\ pc[l] = "top" /\ state = "running" /\ ~WaitsForForeground
  /\ Goto(l, "stats", NoJob)
  /\ UNCHANGED <<gated, rows>> /\ Stay

\* The timer or a wake(); gates may have run out meanwhile.
SleepEnds(l) ==
  /\ pc[l] \in Sleeping /\ Goto(l, "top", NoJob)
  /\ gated' \in SUBSET gated
  /\ UNCHANGED rows /\ Stay

\* getQueueStats(), with purgeFailedJobs() when it counts a failed row.
Stats(l) ==
  /\ pc[l] = "stats" /\ Goto(l, "query", NoJob)
  /\ SettleRows({j \in Jobs : row[j] = "failed"}, "gone")
  /\ UNCHANGED gated /\ Stay

QueryFinds(l) ==
  /\ pc[l] = "query"
  /\ \E j \in Jobs : HeadRow(j) /\ Goto(l, "dequeued", j)
  /\ UNCHANGED <<gated, rows>> /\ Stay

QueryFindsNothing(l) ==
  /\ pc[l] = "query" /\ ~\E j \in Jobs : HeadRow(j)
  /\ Goto(l, "asleep", NoJob)
  /\ UNCHANGED <<gated, rows>> /\ Stay

\* Mutant: the state is not looked at again.
RunningUnchecked == TRUE

\* "Check state again after dequeue".
StillRunning == state = "running"

\* A row whose type this bundle does not know goes to markUnrunnable().
Dequeued(l) ==
  /\ pc[l] = "dequeued"
  /\ IF ~StillRunning THEN Goto(l, "top", NoJob) /\ UNCHANGED current
     ELSE CASE Combo(taken[l]) ->
                 Goto(l, "precheck", taken[l]) /\ UNCHANGED current
            [] TypeOf[taken[l]] = "unknown" ->
                 Goto(l, "unrunnable", taken[l]) /\ UNCHANGED current
            [] OTHER ->
                 Goto(l, "markRunning", taken[l]) /\ current' = taken[l]
  /\ UNCHANGED <<stopping, hold, claimed, gated, rows>> /\ LoopFrame

\* markUnrunnable() counts an attempt.
Unrunnable(l) ==
  LET j == taken[l] IN
  /\ pc[l] = "unrunnable" /\ Goto(l, "top", NoJob)
  /\ attempts' = [attempts EXCEPT ![j] = @ + 1]
  /\ spent' = [spent EXCEPT ![j] = @ + 1]
  /\ Status({j}, IF attempts[j] + 1 >= MaxAttempts THEN "gone" ELSE "pending")
  /\ UNCHANGED gated /\ Stay

\* precheckComboJob(): offline or without a credential the type is gated.
PrecheckDefers(l) ==
  /\ pc[l] = "precheck" /\ ~onDevice /\ Goto(l, "top", NoJob)
  /\ gated' = gated \cup {"topic_combo"}
  /\ UNCHANGED rows /\ Stay

PrecheckDrops(l) ==
  /\ pc[l] = "precheck" /\ onDevice /\ Goto(l, "top", NoJob)
  /\ SettleRows(PendingCombos, "gone")
  /\ UNCHANGED gated /\ Stay

PrecheckRuns(l) ==
  /\ pc[l] = "precheck" /\ ~onDevice
  /\ Goto(l, "markRunning", taken[l]) /\ current' = taken[l]
  /\ UNCHANGED <<stopping, hold, claimed, gated, rows>> /\ LoopFrame

\* jobExec begins.
MarkedRunning(l) ==
  /\ pc[l] = "markRunning" /\ row[taken[l]] = "pending"
  /\ TakeRows({taken[l]})
  /\ Goto(l, IF Combo(taken[l]) THEN "claim" ELSE "handler", taken[l])
  /\ UNCHANGED gated /\ Stay

MarkRunningFails(l) ==
  /\ "markRunning" \in Faults /\ pc[l] = "markRunning" /\ row[taken[l]] = "pending"
  /\ Goto(l, "markFailed", taken[l])
  /\ UNCHANGED <<gated, rows>> /\ Stay

\* A handler returns, fails, or finds that the conditions are wrong.
HandlerEnds(l) ==
  /\ pc[l] = "handler"
  /\ \E outcome \in {"markDone", "markFailed", "markDeferred"} :
       Goto(l, outcome, taken[l])
  /\ UNCHANGED <<gated, rows>> /\ Stay

\* handleTopicComboJob() claims the pending jobs of its pass, unless the mode
\* has changed since the pre-check.
ClaimSiblings(l) ==
  LET siblings == {j \in PendingCombos : passOf[j] = passOf[taken[l]]} IN
  /\ pc[l] = "claim" /\ ~onDevice
  /\ TakeRows(siblings) /\ claimed' = [claimed EXCEPT ![l] = siblings]
  /\ Goto(l, "batch", taken[l])
  /\ UNCHANGED <<stopping, hold, current, gated>> /\ LoopFrame

ClaimDrops(l) ==
  /\ pc[l] = "claim" /\ onDevice
  /\ SettleRows(PendingCombos, "gone") /\ Goto(l, "markDone", taken[l])
  /\ UNCHANGED gated /\ Stay

\* Mutant: the siblings of a failed batch are not given back.
ReleaseNothing(S, deferred) == UNCHANGED rows

\* The catch of the handler gives the outstanding siblings back.
Release(S, deferred) == IF deferred THEN DeferRows(S) ELSE FailRows(S)

HandlerThrows(l) ==
  /\ \E deferred \in BOOLEAN :
       /\ Release(claimed[l], deferred)
       /\ Goto(l, IF deferred THEN "markDeferred" ELSE "markFailed", taken[l])
  /\ claimed' = [claimed EXCEPT ![l] = {}]
  /\ UNCHANGED <<stopping, hold, current, gated>> /\ LoopFrame

BatchFails(l) == pc[l] = "batch" /\ HandlerThrows(l)

\* The batch answers; the head's topics are applied, or its call had an error.
BatchAnswers(l) ==
  /\ pc[l] = "batch" /\ Goto(l, "siblings", taken[l])
  /\ \E S \in {{}, {taken[l]}} : SettleRows(S, "done")
  /\ UNCHANGED gated /\ Stay

\* One sibling is applied, or released because its call had an error.
SiblingSettles(l) ==
  /\ pc[l] = "siblings"
  /\ \E j \in claimed[l] :
       /\ SettleRows({j}, "done") \/ FailRows({j})
       /\ claimed' = [claimed EXCEPT ![l] = @ \ {j}]
  /\ UNCHANGED <<pc, taken, stopping, hold, current, gated>> /\ LoopFrame

\* A write of applyComboTopicsForFact() rejects.
ApplyFails(l) ==
  "apply" \in Faults /\ pc[l] = "siblings" /\ claimed[l] # {} /\ HandlerThrows(l)

ComboEnds(l) ==
  /\ pc[l] = "siblings" /\ claimed[l] = {}
  /\ IF row[taken[l]] = "done" THEN Goto(l, "markDone", taken[l])
     ELSE \E outcome \in {"markFailed", "markDeferred"} : Goto(l, outcome, taken[l])
  /\ UNCHANGED <<gated, rows>> /\ Stay

\* jobExec is over: every pause() that awaited it returns.
JobEnds(l) ==
  /\ pc[l] \in {"markDone", "markFailed", "markDeferred"}
  /\ \/ pc[l] = "markDone" /\ SettleRows({taken[l]}, "done") /\ UNCHANGED gated
     \/ pc[l] = "markFailed" /\ row[taken[l]] # "gone" /\ FailRows({taken[l]}) /\ UNCHANGED gated
     \/ /\ pc[l] = "markDeferred" /\ DeferRows({taken[l]})
        /\ gated' = gated \cup {TypeOf[taken[l]]}
  /\ Goto(l, "top", NoJob) /\ current' = NoJob
  /\ chat' = [c \in Chats |-> IF chat[c] = "waiting" THEN "holding" ELSE chat[c]]
  /\ UNCHANGED <<stopping, state, pauseDepth, counted, claimed>> /\ LoopFrame

\* What ends the loop for good, leaving `state` alone: a read that rejects, or a
\* row superseded under the loop, whose markRunning() and markFailed() reject.
Fatal(l) ==
  \/ "stats" \in Faults /\ pc[l] \in {"stats", "query"}
  \/ pc[l] \in {"markRunning", "markFailed"} /\ row[taken[l]] = "gone"

\* jobExec is awaited by the loop and by pause(): both reject, and a turn whose
\* pause() rejects ends without its resume().
LoopFails(l) ==
  /\ Fatal(l) /\ Goto(l, "off", NoJob) /\ StopDone
  /\ startWaits' = FALSE
  /\ IF pc[l] \in Executing
       THEN /\ current' = Rejected
            /\ chat' = [c \in Chats |->
                 IF chat[c] = "waiting" THEN "idle" ELSE chat[c]]
       ELSE UNCHANGED <<current, chat>>
  /\ UNCHANGED <<wanted, starting, stopWaits, recovered, state, pauseDepth,
                 counted, claimed, gated, world, rows, passOf, bounds>>
--------------------------------------------------------------------------------
(* Chat turns, new jobs and the world.                                      *)

\* runInference() calls pause(); the depth is bounded.
Pause(c) ==
  /\ chat[c] = "idle" /\ pauseDepth <= Cardinality(Chats)
  /\ IF state = "stopped"
       THEN chat' = [chat EXCEPT ![c] = "holding"]
            /\ UNCHANGED <<state, pauseDepth, counted>>
       ELSE /\ pauseDepth' = pauseDepth + 1 /\ state' = "paused"
            /\ counted' = IF current = Rejected THEN counted ELSE counted \cup {c}
            /\ chat' = [chat EXCEPT ![c] =
                 CASE current = NoJob -> "holding"
                   [] current = Rejected -> "idle"
                   [] OTHER -> "waiting"]
  /\ UNCHANGED <<lifecycle, loop, gated, world, rows, passOf, bounds>>

\* Mutant: a resume() lifts the holds of all the turns.
HoldsForgotten == 0

\* What a resume() leaves of the depth.
HoldsLeft == IF pauseDepth > 0 THEN pauseDepth - 1 ELSE 0

\* The end of the turn calls resume().  One that was never counted takes the
\* count of another: from then on nobody's hold is vouched for.
Resume(c) ==
  /\ chat[c] = "holding" /\ chat' = [chat EXCEPT ![c] = "idle"]
  /\ pauseDepth' = HoldsLeft
  /\ counted' = IF c \in counted THEN counted \ {c} ELSE {}
  /\ state' = IF pauseDepth' = 0 /\ state = "paused" THEN "running" ELSE state
  /\ UNCHANGED <<lifecycle, loop, gated, world, rows, passOf, bounds>>

\* j is the next row of its priority to be created, so that ids order them by
\* created_at.
NextOfPriority(j) == row[j] = "none" /\ \A k \in 1..(j - 1) :
                       Priority(k) = Priority(j) => row[k] # "none"

Enqueue ==
  /\ \E j \in Jobs : ~Combo(j) /\ NextOfPriority(j) /\ SettleRows({j}, "pending")
  /\ UNCHANGED <<lifecycle, hold, loop, gated, world, passOf, bounds>>

\* enqueueComboPass(): the pending jobs of an earlier pass are destroyed in the
\* same batch, also the one the loop has dequeued and not marked yet.
EnqueuePass ==
  /\ "vanish" \notin Faults =>
       \A l \in Loops : taken[l] \notin PendingCombos
  /\ \E first, last \in Jobs :
       LET new == {j \in first..last : Combo(j)} IN
       /\ Combo(first) /\ Combo(last) /\ first <= last /\ NextOfPriority(first)
       /\ row' = [j \in Jobs |->
            CASE j \in new -> "pending"
              [] j \in PendingCombos -> "gone"
              [] OTHER -> row[j]]
       /\ passOf' = [j \in Jobs |-> IF j \in new THEN first ELSE passOf[j]]
  /\ UNCHANGED <<lifecycle, hold, loop, gated, world, attempts, spent, bounds>>

\* The listener, while armed, lifts every gate on the way back to 'active'.
AppStateChanges ==
  /\ upsets < MaxUpsets /\ upsets' = upsets + 1 /\ active' = ~active
  /\ gated' = IF active' /\ state # "stopped" THEN {} ELSE gated
  /\ UNCHANGED <<lifecycle, hold, loop, onDevice, rows, passOf, effects>>

ModeChanges ==
  /\ upsets < MaxUpsets /\ upsets' = upsets + 1 /\ onDevice' = ~onDevice
  /\ UNCHANGED <<lifecycle, hold, loop, gated, active, rows, passOf, effects>>

\* The process dies and only the rows stay.
Crash ==
  /\ upsets < MaxUpsets /\ upsets' = upsets + 1
  /\ wanted' = FALSE /\ starting' = "none" /\ startWaits' = FALSE
  /\ stopWaits' = FALSE /\ stopping' = FALSE /\ recovered' = FALSE
  /\ state' = "stopped" /\ pauseDepth' = 0 /\ counted' = {}
  /\ chat' = [c \in Chats |-> "idle"]
  /\ pc' = [l \in Loops |-> "off"] /\ taken' = [l \in Loops |-> NoJob]
  /\ claimed' = [l \in Loops |-> {}] /\ current' = NoJob /\ gated' = {}
  /\ UNCHANGED <<world, rows, passOf, effects>>
--------------------------------------------------------------------------------
StartStep == StartResumes \/ Recover \/ Started \/ Reported \/ StartFails

LoopStep(l) ==
  \/ LoopEnds(l) \/ LoopRests(l) \/ LoopLooks(l) \/ SleepEnds(l) \/ Stats(l)
  \/ QueryFinds(l) \/ QueryFindsNothing(l) \/ Dequeued(l) \/ Unrunnable(l)
  \/ PrecheckDefers(l) \/ PrecheckDrops(l) \/ PrecheckRuns(l)
  \/ MarkedRunning(l) \/ MarkRunningFails(l) \/ HandlerEnds(l)
  \/ ClaimSiblings(l) \/ ClaimDrops(l) \/ BatchFails(l) \/ BatchAnswers(l)
  \/ SiblingSettles(l) \/ ApplyFails(l) \/ ComboEnds(l) \/ JobEnds(l)
  \/ LoopFails(l)

Next ==
  \/ Effect \/ StartStep \/ StopResumes
  \/ \E l \in Loops : LoopStep(l)
  \/ \E c \in Chats : Pause(c) \/ Resume(c)
  \/ Enqueue \/ EnqueuePass \/ AppStateChanges \/ ModeChanges \/ Crash

Spec == Init /\ [][Next]_vars

\* Awaited calls return, sleeps end and markRunning() does not reject for ever;
\* nothing obliges a chat, a job or the effect.
Fairness ==
  /\ WF_vars(StartStep) /\ WF_vars(StopResumes)
  /\ \A l \in Loops : WF_vars(LoopStep(l)) /\ SF_vars(MarkedRunning(l))

FairSpec == Spec /\ Fairness
--------------------------------------------------------------------------------
(* Properties.                                                              *)

TypeOK ==
  /\ wanted \in BOOLEAN /\ startWaits \in BOOLEAN /\ stopWaits \in BOOLEAN
  /\ starting \in {"none", "recover", "sweep", "report"}
  /\ stopping \in BOOLEAN /\ recovered \in BOOLEAN
  /\ state \in {"stopped", "running", "paused"}
  /\ pauseDepth \in 0..(Cardinality(Chats) + 1)
  /\ pc \in [Loops -> Places] /\ taken \in [Loops -> Jobs \cup {NoJob}]
  /\ claimed \in [Loops -> SUBSET Jobs]
  /\ current \in Jobs \cup {NoJob, Rejected}
  /\ gated \subseteq Types /\ onDevice \in BOOLEAN /\ active \in BOOLEAN
  /\ chat \in [Chats -> {"idle", "waiting", "holding"}] /\ counted \subseteq Chats
  /\ row \in [Jobs -> RowStatus]
  /\ attempts \in [Jobs -> 0..MaxAttempts] /\ spent \in [Jobs -> 0..MaxAttempts]
  /\ passOf \in [Jobs -> Jobs \cup {0}]
  /\ effects \in 0..MaxEffects /\ upsets \in 0..MaxUpsets

\* Two consumer loops never exist together, whatever starts and stops overlap
\* (InferenceQueue.ts:125-128).
SingleLoop == \A l, k \in Loops : pc[l] # "off" /\ pc[k] # "off" => l = k

Owned(l) ==
  claimed[l] \cup IF pc[l] \in Working \cup Settling THEN {taken[l]} ELSE {}

\* Once the leftovers of a crash are recovered, a row is 'running' only while a
\* loop works on it: no sibling stays claimed, to hold the pass open for the
\* rest of the session.  And nobody re-pends a row under the loop.
RunningRowsOwned ==
  /\ recovered => \A j \in Jobs :
       row[j] = "running" => \E l \in Loops : j \in Owned(l)
  /\ \A l \in Loops :
       /\ \A j \in claimed[l] : row[j] = "running"
       /\ pc[l] \in Working => row[taken[l]] = "running"

\* An attempt is spent by a run that failed or died with the process, and by
\* nothing else: no deferral, offline or on a busy model, costs a job its life.
AttemptsHonest ==
  \A j \in Jobs : row[j] # "none" =>
    attempts[j] = spent[j] + IF row[j] \in {"running", "done"} THEN 1 ELSE 0

\* A counted turn c is under way: pause() has returned and resume() is to come.
Holds(c) == c \in counted /\ chat[c] = "holding"

\* A chat whose pause() was counted and has returned keeps its priority, also
\* over the end of another engine's turn: nothing runs beside it but a job of
\* the combination pass, whose pre-check is awaited after the last look at the
\* state (InferenceQueue.ts:421-427).
ChatAlone ==
  \A c \in Chats, l \in Loops : Holds(c) /\ pc[l] \in Executing => Combo(taken[l])

\* Nor is that a way in for more than the one job whose pre-check was under way
\* when the turn began: under a hold no job gets past the look at the state,
\* so once that job is over the chat is alone (InferenceQueue.ts:421-427).
HoldStartsNothing ==
  [][\A c \in Chats, l \in Loops :
       Holds(c) /\ Holds(c)' /\ pc'[l] \in PickedUp => pc[l] \in PickedUp]_vars

\* What the comment at InferenceQueue.ts:266 says, of the holders there are, chat
\* turns: while a counted one is under way no other un-pauses the queue.  It does not hold of the end of a turn
\* whose own pause() found the queue stopped, or was forgotten by a stop().
HoldsStand ==
  [][\A c \in Chats : Holds(c) /\ chat'[c] = "holding" /\ state = "paused" => state' # "running"]_vars

\* A deferred type at the head of the queue does not starve the jobs behind it:
\* while the queue runs, a waiting job of another type is taken.
NoStarvation ==
  \A j \in Jobs :
    (~Combo(j) /\ row[j] = "pending" /\ TypeOf[j] \notin gated)
      ~> ((\E l \in Loops : taken[l] = j) \/ TypeOf[j] \in gated
          \/ state # "running" \/ WaitsForForeground \/ ~LoopLive)

\* start() awaits a stop and stop() awaits a start; no such wait is for ever.
NoEndlessWait == (startWaits \/ stopWaits) ~> ~(startWaits \/ stopWaits)
================================================================================
