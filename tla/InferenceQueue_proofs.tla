------------------------- MODULE InferenceQueue_proofs -------------------------
(***************************************************************************)
(* Proofs about InferenceQueue, in three layers.                           *)
(*                                                                         *)
(*   - SingleLoop is not inductive: it holds because a loop is only begun  *)
(*     by a doStart() that found the queue stopped and at rest, and because *)
(*     a loop that is still alive in a stopped queue has a stop() waiting  *)
(*     for it.                                                             *)
(*   - With one loop, the rows: what the loop may assume of the row it     *)
(*     holds, from which the types, the owner of every running row and the *)
(*     honest count of attempts follow.                                    *)
(*   - With one chat engine, the priority of its turns.                    *)
(***************************************************************************)
EXTENDS InferenceQueue, FiniteSetTheorems, TLAPS

Off == \A l \in Loops : pc[l] = "off"

\* A loop that outlives its queue has a stop() waiting for it.
StopAwaitsLoop == state = "stopped" /\ ~stopping => Off

\* doStart() prepares a queue that is stopped and at rest.
StartFindsRest == starting \in {"recover", "sweep"} => state = "stopped" /\ Off

\* Only a stopped queue with a live loop is stopping.
StoppingStopped == stopping => state = "stopped" /\ ~Off

\* The inductive invariant.
LoopInv ==
  /\ pc \in [Loops -> Places]
  /\ SingleLoop /\ StopAwaitsLoop /\ StartFindsRest /\ StoppingStopped

\* What an action that leaves the lifecycle alone may do: move live loops
\* between live places.
Moves ==
  /\ UNCHANGED <<starting, stopping>>
  /\ (state = "stopped") = (state' = "stopped")
  /\ pc' \in [Loops -> Places]
  /\ \A l \in Loops : (pc[l] = "off") = (pc'[l] = "off")

\* The queue starts without a loop.
LEMMA LoopInit == Init => LoopInv
  BY DEF Init, LoopInv, Off, SingleLoop, StopAwaitsLoop, StartFindsRest,
         StoppingStopped, Places

\* Such an action preserves the invariant.
LEMMA MovesKeep == ASSUME LoopInv, Moves PROVE LoopInv'
  BY DEF LoopInv, Moves, Off, SingleLoop, StopAwaitsLoop, StartFindsRest,
         StoppingStopped

\* Every step of a loop but its end is such an action.
LEMMA LoopMoves ==
  ASSUME LoopInv, NEW l \in Loops, LoopStep(l), ~LoopEnds(l), ~LoopFails(l)
  PROVE  Moves
<1> USE DEF Moves, LoopInv, Goto, Stay, LoopFrame, Places, Sleeping, Unmarked,
            Working, Settling, hold, rows, world, bounds
<1>1. CASE LoopRests(l)  BY <1>1 DEF LoopRests
<1>2. CASE LoopLooks(l)  BY <1>2 DEF LoopLooks
<1>3. CASE SleepEnds(l)  BY <1>3 DEF SleepEnds
<1>4. CASE Stats(l)  BY <1>4 DEF Stats
<1>5. CASE QueryFinds(l)  BY <1>5 DEF QueryFinds
<1>6. CASE QueryFindsNothing(l)  BY <1>6 DEF QueryFindsNothing
<1>7. CASE Dequeued(l)  BY <1>7 DEF Dequeued
<1>8. CASE Unrunnable(l)  BY <1>8 DEF Unrunnable
<1>9. CASE PrecheckDefers(l)  BY <1>9 DEF PrecheckDefers
<1>10. CASE PrecheckDrops(l)  BY <1>10 DEF PrecheckDrops
<1>11. CASE PrecheckRuns(l)  BY <1>11 DEF PrecheckRuns
<1>12. CASE MarkedRunning(l)  BY <1>12 DEF MarkedRunning
<1>13. CASE MarkRunningFails(l)  BY <1>13 DEF MarkRunningFails
<1>14. CASE HandlerEnds(l)  BY <1>14 DEF HandlerEnds
<1>15. CASE ClaimSiblings(l)  BY <1>15 DEF ClaimSiblings
<1>16. CASE ClaimDrops(l)  BY <1>16 DEF ClaimDrops
<1>17. CASE BatchFails(l)  BY <1>17 DEF BatchFails, HandlerThrows
<1>18. CASE BatchAnswers(l)  BY <1>18 DEF BatchAnswers
<1>19. CASE SiblingSettles(l)  BY <1>19 DEF SiblingSettles
<1>20. CASE ApplyFails(l)  BY <1>20 DEF ApplyFails, HandlerThrows
<1>21. CASE ComboEnds(l)  BY <1>21 DEF ComboEnds
<1>22. CASE JobEnds(l)  BY <1>22 DEF JobEnds
<1> QED
  BY <1>1, <1>2, <1>3, <1>4, <1>5, <1>6, <1>7, <1>8, <1>9, <1>10, <1>11, <1>12,
     <1>13, <1>14, <1>15, <1>16, <1>17, <1>18, <1>19, <1>20, <1>21, <1>22
  DEF LoopStep

\* A loop that ends is the only one there was.
LEMMA EndKeeps ==
  ASSUME LoopInv, NEW l \in Loops, LoopEnds(l) \/ LoopFails(l)
  PROVE  LoopInv'
<1>1. /\ pc[l] # "off"
      /\ pc' = [pc EXCEPT ![l] = "off"] /\ stopping' = FALSE
      /\ UNCHANGED <<starting, state>>
  BY DEF LoopEnds, LoopFails, Fatal, Goto, StopDone, LoopFrame, hold
<1>2. Off'
  BY <1>1 DEF LoopInv, SingleLoop, Off
<1> QED
  BY <1>1, <1>2 DEF LoopInv, SingleLoop, Off, StopAwaitsLoop, StartFindsRest,
                    StoppingStopped, Places

\* The body of start(), past its await, begins nothing beside a live loop.
LEMMA BeginKeeps ==
  ASSUME LoopInv, ~stopping, Begin, UNCHANGED <<stopping, state, pc>>
  PROVE  LoopInv'
  BY DEF Begin, LoopInv, SingleLoop, Off, StopAwaitsLoop, StartFindsRest,
         StoppingStopped

\* The body of stop(), past its await, waits for the loop if there is one.
LEMMA HaltKeeps ==
  ASSUME LoopInv, starting = "none", Halt, UNCHANGED <<starting, pc>>
  PROVE  LoopInv'
<1>1. CASE state = "stopped"
  BY <1>1 DEF Halt, hold, LoopInv, SingleLoop, Off, StopAwaitsLoop,
              StartFindsRest, StoppingStopped
<1>2. CASE state # "stopped"
  BY <1>2 DEF Halt, LoopLive, LoopInv, SingleLoop, Off, StopAwaitsLoop,
              StartFindsRest, StoppingStopped
<1> QED BY <1>1, <1>2

\* Every step preserves the invariant.
LEMMA LoopInvStep == LoopInv /\ [Next]_vars => LoopInv'
<1> SUFFICES ASSUME LoopInv, [Next]_vars PROVE LoopInv'
  OBVIOUS
<1> USE DEF lifecycle, hold, loop, world, rows, bounds
<1>1. CASE Effect
  <2>1. CASE CallStart /\ UNCHANGED pc
    <3>1. CASE stopping
      BY <2>1, <3>1, MovesKeep DEF CallStart, MustWait, Moves, LoopInv
    <3>2. CASE ~stopping
      BY <2>1, <3>2, BeginKeeps DEF CallStart, MustWait
    <3> QED BY <3>1, <3>2
  <2>2. CASE CallStop /\ UNCHANGED pc
    <3>1. CASE starting = "none"
      BY <2>2, <3>1, HaltKeeps DEF CallStop
    <3>2. CASE starting # "none"
      BY <2>2, <3>2, MovesKeep DEF CallStop, Moves, LoopInv
    <3> QED BY <3>1, <3>2
  <2>3. CASE UNCHANGED <<starting, stopping, state, pc>>
    BY <2>3, MovesKeep DEF Moves, LoopInv
  <2> QED BY <1>1, <2>1, <2>2, <2>3 DEF Effect
<1>2. CASE StartResumes
  BY <1>2, BeginKeeps DEF StartResumes
<1>3. CASE StopResumes
  BY <1>3, HaltKeeps DEF StopResumes
<1>4. CASE Recover
  BY <1>4 DEF Recover, LoopInv, SingleLoop, Off, StopAwaitsLoop,
              StartFindsRest, StoppingStopped
<1>5. CASE Started
  <2>1. PICK l \in Loops : pc' = [pc EXCEPT ![l] = "top"]
    BY <1>5 DEF Started
  <2>2. Off /\ state' = "running" /\ starting' \notin {"recover", "sweep"}
    BY <1>5 DEF Started, LoopInv, StartFindsRest
  <2>3. ~stopping'
    BY <1>5, <2>2 DEF Started, LoopInv, StoppingStopped
  <2> QED
    BY <2>1, <2>2, <2>3 DEF LoopInv, SingleLoop, Off, StopAwaitsLoop,
                            StartFindsRest, StoppingStopped, Places
<1>6. CASE Reported \/ StartFails
  BY <1>6 DEF Reported, StartFails, LoopInv, SingleLoop, Off, StopAwaitsLoop,
              StartFindsRest, StoppingStopped
<1>7. CASE \E l \in Loops : LoopStep(l)
  <2>1. PICK l \in Loops : LoopStep(l)
    BY <1>7
  <2>2. CASE LoopEnds(l) \/ LoopFails(l)
    BY <2>2, EndKeeps
  <2>3. CASE ~(LoopEnds(l) \/ LoopFails(l))
    BY <2>1, <2>3, LoopMoves, MovesKeep
  <2> QED BY <2>2, <2>3
<1>8. CASE \E c \in Chats : Pause(c) \/ Resume(c)
  BY <1>8, MovesKeep DEF Pause, Resume, Moves, LoopInv
<1>9. CASE Enqueue \/ EnqueuePass \/ AppStateChanges \/ ModeChanges
  BY <1>9, MovesKeep DEF Enqueue, EnqueuePass, AppStateChanges, ModeChanges,
                         Moves, LoopInv
<1>10. CASE Crash
  BY <1>10 DEF Crash, LoopInv, SingleLoop, Off, StopAwaitsLoop, StartFindsRest,
               StoppingStopped, Places
<1>11. CASE UNCHANGED vars
  BY <1>11, MovesKeep DEF vars, Moves, LoopInv
<1> QED
  BY <1>1, <1>2, <1>3, <1>4, <1>5, <1>6, <1>7, <1>8, <1>9, <1>10, <1>11
  DEF Next, StartStep

\* However starts, stops, crashes and failures of the loop overlap, there is
\* never more than one consumer loop (InferenceQueue.ts:125-128).
THEOREM OneConsumer == Spec => []SingleLoop
<1>1. LoopInv => SingleLoop
  BY DEF LoopInv
<1> QED
  BY <1>1, LoopInit, LoopInvStep, PTL DEF Spec
--------------------------------------------------------------------------------
(* Rows.  RunningRowsOwned and AttemptsHonest need what a loop may assume  *)
(* of the row it holds: another pass can destroy a row that is not marked  *)
(* yet, and nothing else touches a row under the loop.                     *)

Spent(j) == spent[j] + IF row[j] \in {"running", "done"} THEN 1 ELSE 0

\* What the table says of one job: its attempts are those it has spent, a
\* waiting job has one left, and a job not created yet has spent none.
Sound(j) ==
  /\ row[j] \in RowStatus
  /\ attempts[j] \in 0..MaxAttempts /\ spent[j] \in 0..MaxAttempts
  /\ row[j] # "none" => attempts[j] = Spent(j)
  /\ row[j] = "pending" => attempts[j] < MaxAttempts
  /\ row[j] = "none" => attempts[j] = 0 /\ spent[j] = 0

RowsSound ==
  /\ row \in [Jobs -> RowStatus]
  /\ attempts \in [Jobs -> 0..MaxAttempts] /\ spent \in [Jobs -> 0..MaxAttempts]
  /\ \A j \in Jobs : Sound(j)

\* The jobs of one priority are created in the order of their ids.
InOrder ==
  \A j, k \in Jobs :
    j < k /\ Priority(j) = Priority(k) /\ row[k] # "none" => row[j] # "none"

\* A loop between the query and the end of its job holds a job ...
Holding == {"unrunnable"} \cup Unmarked \cup Working \cup Settling

\* ... whose row is still to be marked, but for a job of an overtaken pass ...
Awaited(j) == row[j] = "pending" \/ (Combo(j) /\ row[j] = "gone")

\* ... and is at `where` in one of these states.
Expected(where, j) ==
  CASE where \in Unmarked     -> Awaited(j)
    [] where = "unrunnable"   -> ~Combo(j) /\ row[j] = "pending"
    [] where \in Working      -> row[j] = "running"
    [] where = "markFailed"   -> row[j] \in {"pending", "running", "done", "gone"}
    [] OTHER                  -> row[j] \in {"running", "done"}

TakenInv ==
  \A l \in Loops : pc[l] \in Holding =>
    taken[l] \in Jobs /\ Expected(pc[l], taken[l])

\* Siblings are claimed only during the batch and the settling after it, they
\* are running and the job of the loop is not one of them.
ClaimedInv ==
  \A l \in Loops :
    /\ claimed[l] # {} => pc[l] \in {"batch", "siblings"}
    /\ \A j \in claimed[l] : row[j] = "running" /\ j # taken[l]

\* A running row belongs to a loop.
NoOrphan ==
  recovered => \A j \in Jobs :
    row[j] = "running" => \E l \in Loops : j \in Owned(l)

\* The inductive invariant.
RowInv ==
  /\ TypeOK /\ LoopInv /\ RowsSound /\ InOrder
  /\ TakenInv /\ ClaimedInv /\ NoOrphan
--------------------------------------------------------------------------------
(* What the database calls do to a sound table.                            *)

\* No job is created or forgotten.
SameJobs == \A j \in Jobs : row'[j] = "none" <=> row[j] = "none"

\* It is enough to look at the table job by job.
LEMMA JobByJob ==
  ASSUME row' = [j \in Jobs |-> row'[j]],
         attempts' = [j \in Jobs |-> attempts'[j]],
         spent' = [j \in Jobs |-> spent'[j]],
         \A j \in Jobs : Sound(j)'
  PROVE  RowsSound'
<1>1. row' \in [Jobs -> RowStatus]
  BY DEF Sound
<1>2. attempts' \in [Jobs -> 0..MaxAttempts]
  BY DEF Sound
<1>3. spent' \in [Jobs -> 0..MaxAttempts]
  BY DEF Sound
<1> QED BY <1>1, <1>2, <1>3 DEF RowsSound

\* The lengths of the lines: a type of the catalogue for every job.
LEMMA JobTypes == Jobs = 1..Len(TypeOf) /\ \A j \in Jobs : TypeOf[j] \in Types
  BY TypesAssumption DEF Jobs

\* Rows that still wait are marked or claimed.
LEMMA TakeSound ==
  ASSUME RowsSound, NEW S \in SUBSET Jobs,
         \A j \in S : row[j] = "pending", TakeRows(S)
  PROVE  RowsSound' /\ SameJobs
<1> USE BoundsAssumption DEF RowsSound, TakeRows, Status
<1>1. ASSUME NEW j \in Jobs
      PROVE  Sound(j)' /\ (row'[j] = "none" <=> row[j] = "none")
  <2>1. CASE j \in S
    BY <2>1 DEF Sound, Spent, RowStatus
  <2>2. CASE j \notin S
    BY <2>2 DEF Sound, Spent, RowStatus
  <2> QED BY <2>1, <2>2
<1> QED BY <1>1, JobByJob DEF SameJobs

\* Rows that wait, or have failed, are destroyed.
LEMMA DropSound ==
  ASSUME RowsSound, NEW S \in SUBSET Jobs,
         \A j \in S : row[j] \in {"pending", "failed"}, SettleRows(S, "gone")
  PROVE  RowsSound' /\ SameJobs
<1> USE BoundsAssumption DEF RowsSound, SettleRows, Status
<1>1. ASSUME NEW j \in Jobs
      PROVE  Sound(j)' /\ (row'[j] = "none" <=> row[j] = "none")
  <2>1. CASE j \in S
    BY <2>1 DEF Sound, Spent, RowStatus
  <2>2. CASE j \notin S
    BY <2>2 DEF Sound, Spent, RowStatus
  <2> QED BY <2>1, <2>2
<1> QED BY <1>1, JobByJob DEF SameJobs

\* Running rows are done.
LEMMA DoneSound ==
  ASSUME RowsSound, NEW S \in SUBSET Jobs,
         \A j \in S : row[j] \in {"running", "done"}, SettleRows(S, "done")
  PROVE  RowsSound' /\ SameJobs
<1> USE BoundsAssumption DEF RowsSound, SettleRows, Status
<1>1. ASSUME NEW j \in Jobs
      PROVE  Sound(j)' /\ (row'[j] = "none" <=> row[j] = "none")
  <2>1. CASE j \in S
    BY <2>1 DEF Sound, Spent, RowStatus
  <2>2. CASE j \notin S
    BY <2>2 DEF Sound, Spent, RowStatus
  <2> QED BY <2>1, <2>2
<1> QED BY <1>1, JobByJob DEF SameJobs

\* Running rows are deferred, and get their attempt back.
LEMMA DeferSound ==
  ASSUME RowsSound, NEW S \in SUBSET Jobs,
         \A j \in S : row[j] \in {"running", "done"}, DeferRows(S)
  PROVE  RowsSound' /\ SameJobs
<1> USE BoundsAssumption DEF RowsSound, DeferRows, Status
<1>1. ASSUME NEW j \in Jobs
      PROVE  Sound(j)' /\ (row'[j] = "none" <=> row[j] = "none")
  <2>1. CASE j \in S
    <3>1. attempts[j] = spent[j] + 1
      BY <2>1 DEF Sound, Spent
    <3>2. attempts[j] > 0 /\ attempts'[j] = spent[j] /\ row'[j] = "pending"
      BY <2>1, <3>1
    <3> QED BY <3>1, <3>2 DEF Sound, Spent, RowStatus
  <2>2. CASE j \notin S
    BY <2>2 DEF Sound, Spent, RowStatus
  <2> QED BY <2>1, <2>2
<1> QED BY <1>1, JobByJob DEF SameJobs

\* Rows fail: one that has run has spent its attempt, one that has not been
\* marked has spent nothing and waits again.
LEMMA FailSound ==
  ASSUME RowsSound, NEW S \in SUBSET Jobs,
         \A j \in S : row[j] \in {"pending", "running", "done"}, FailRows(S)
  PROVE  RowsSound' /\ SameJobs
<1> DEFINE kept == {j \in S : attempts[j] < MaxAttempts}
<1> USE BoundsAssumption DEF RowsSound, FailRows, FailKeeping
<1>1. ASSUME NEW j \in Jobs
      PROVE  Sound(j)' /\ (row'[j] = "none" <=> row[j] = "none")
  <2>1. CASE j \in S /\ row[j] = "pending"
    BY <2>1 DEF Sound, Spent, RowStatus
  <2>2. CASE j \in S /\ row[j] # "pending"
    <3>1. attempts[j] = spent[j] + 1 /\ spent'[j] = spent[j] + 1
      BY <2>2 DEF Sound, Spent
    <3>2. row'[j] = IF attempts[j] < MaxAttempts THEN "pending" ELSE "gone"
      BY <2>2
    <3> QED BY <2>2, <3>1, <3>2 DEF Sound, Spent, RowStatus
  <2>3. CASE j \notin S
    BY <2>3 DEF Sound, Spent, RowStatus
  <2> QED BY <2>1, <2>2, <2>3
<1> QED BY <1>1, JobByJob DEF SameJobs

\* Where no row changes, the table stays sound.
LEMMA StillSound ==
  ASSUME RowsSound, UNCHANGED <<row, attempts, spent>>
  PROVE  RowsSound' /\ SameJobs
  BY DEF RowsSound, Sound, Spent, SameJobs

\* Where no job is created, the order of creation stands.
LEMMA OrderKept == ASSUME InOrder, SameJobs PROVE InOrder'
  BY DEF InOrder, SameJobs, Priority, Combo
--------------------------------------------------------------------------------
(* The table stays sound.                                                   *)

\* What a step does with its loop's job, with the siblings
\* it has claimed and with the waiting jobs of the pass, the lemmas above allow.
LEMMA LoopSound ==
  ASSUME RowInv, NEW l \in Loops, LoopStep(l)
  PROVE  RowsSound' /\ SameJobs
<1> USE DEF RowInv, TakenInv, ClaimedInv, Expected, Awaited, Holding
<1>1. CASE UNCHANGED rows
  BY <1>1, StillSound DEF rows
<1>2. CASE Stats(l)
  <2>1. {j \in Jobs : row[j] = "failed"} \in SUBSET Jobs
    OBVIOUS
  <2> QED BY <1>2, <2>1, DropSound DEF Stats
<1>3. CASE Unrunnable(l)
  <2> DEFINE j == taken[l]
  <2>1. j \in Jobs /\ row[j] = "pending"
    BY <1>3 DEF Unrunnable, Unmarked, Working
  <2>2. /\ attempts' = [attempts EXCEPT ![j] = @ + 1]
        /\ spent' = [spent EXCEPT ![j] = @ + 1]
        /\ row' = [k \in Jobs |-> IF k = j
                     THEN IF attempts[j] + 1 >= MaxAttempts THEN "gone" ELSE "pending"
                     ELSE row[k]]
    BY <1>3 DEF Unrunnable, Status
  <2>3. Sound(j) /\ attempts[j] = spent[j] /\ attempts[j] < MaxAttempts
    BY <2>1 DEF RowsSound, Sound, Spent
  <2>4. ASSUME NEW k \in Jobs
        PROVE  Sound(k)' /\ (row'[k] = "none" <=> row[k] = "none")
    <3>1. CASE k = j
      BY <2>1, <2>2, <2>3, <3>1, BoundsAssumption DEF RowsSound, Sound, Spent, RowStatus
    <3>2. CASE k # j
      BY <2>1, <2>2, <3>2 DEF RowsSound, Sound, Spent
    <3> QED BY <3>1, <3>2
  <2>5. /\ attempts' = [k \in Jobs |-> attempts'[k]]
        /\ spent' = [k \in Jobs |-> spent'[k]] /\ row' = [k \in Jobs |-> row'[k]]
    BY <2>2 DEF RowsSound
  <2> QED BY <2>4, <2>5, JobByJob DEF SameJobs
<1>4. CASE PrecheckDrops(l) \/ ClaimDrops(l)
  <2>1. PendingCombos \in SUBSET Jobs /\ SettleRows(PendingCombos, "gone")
    BY <1>4 DEF PrecheckDrops, ClaimDrops, PendingCombos
  <2>2. \A j \in PendingCombos : row[j] \in {"pending", "failed"}
    BY DEF PendingCombos
  <2> QED BY <2>1, <2>2, DropSound
<1>5. CASE MarkedRunning(l)
  <2>1. taken[l] \in Jobs /\ row[taken[l]] = "pending" /\ TakeRows({taken[l]})
    BY <1>5 DEF MarkedRunning, Unmarked
  <2> QED BY <2>1, TakeSound
<1>6. CASE ClaimSiblings(l)
  <2> DEFINE siblings == {j \in PendingCombos : passOf[j] = passOf[taken[l]]}
  <2>1. siblings \in SUBSET Jobs /\ TakeRows(siblings)
    BY <1>6 DEF ClaimSiblings, PendingCombos
  <2>2. \A j \in siblings : row[j] = "pending"
    BY DEF PendingCombos
  <2> HIDE DEF siblings
  <2> QED BY <2>1, <2>2, TakeSound
<1>7. CASE \E deferred \in BOOLEAN : Release(claimed[l], deferred)
  <2>1. claimed[l] \in SUBSET Jobs /\ \A j \in claimed[l] : row[j] = "running"
    BY DEF TypeOK
  <2>2. CASE DeferRows(claimed[l])
    BY <2>1, <2>2, DeferSound
  <2>3. CASE FailRows(claimed[l])
    BY <2>1, <2>3, FailSound
  <2> QED BY <1>7, <2>2, <2>3 DEF Release
<1>8. CASE BatchAnswers(l)
  <2>1. PICK S \in {{}, {taken[l]}} : SettleRows(S, "done")
    BY <1>8 DEF BatchAnswers
  <2>2. taken[l] \in Jobs /\ row[taken[l]] = "running"
    BY <1>8 DEF BatchAnswers, Working, Unmarked
  <2>3. S \in SUBSET Jobs /\ \A j \in S : row[j] \in {"running", "done"}
    BY <2>1, <2>2
  <2> QED BY <2>1, <2>3, DoneSound
<1>9. CASE SiblingSettles(l)
  <2>1. PICK j \in claimed[l] : SettleRows({j}, "done") \/ FailRows({j})
    BY <1>9 DEF SiblingSettles
  <2>2. {j} \in SUBSET Jobs /\ row[j] = "running"
    BY <2>1 DEF TypeOK
  <2> QED BY <2>1, <2>2, DoneSound, FailSound
<1>10. CASE JobEnds(l)
  <2>1. taken[l] \in Jobs
    BY <1>10 DEF JobEnds, Settling
  <2>2. CASE pc[l] = "markDone" /\ SettleRows({taken[l]}, "done")
    <3>1. row[taken[l]] \in {"running", "done"}
      BY <2>2 DEF Settling, Working, Unmarked
    <3> QED BY <2>1, <2>2, <3>1, DoneSound
  <2>3. CASE pc[l] = "markFailed" /\ row[taken[l]] # "gone" /\ FailRows({taken[l]})
    <3>1. row[taken[l]] \in {"pending", "running", "done"}
      BY <2>3 DEF Settling, Working, Unmarked
    <3> QED BY <2>1, <2>3, <3>1, FailSound
  <2>4. CASE pc[l] = "markDeferred" /\ DeferRows({taken[l]})
    <3>1. row[taken[l]] \in {"running", "done"}
      BY <2>4 DEF Settling, Working, Unmarked
    <3> QED BY <2>1, <2>4, <3>1, DeferSound
  <2> QED BY <1>10, <2>2, <2>3, <2>4 DEF JobEnds
<1> QED
  BY <1>1, <1>2, <1>3, <1>4, <1>5, <1>6, <1>7, <1>8, <1>9, <1>10
  DEF LoopStep, LoopEnds, LoopRests, LoopLooks, SleepEnds, QueryFinds,
      QueryFindsNothing, Dequeued, PrecheckDefers, PrecheckRuns,
      MarkRunningFails, HandlerEnds, BatchFails, ApplyFails, HandlerThrows,
      ComboEnds, LoopFails

\* A process that starts again finds the runs that died with the last one.
LEMMA RecoverSound == ASSUME RowInv, Recover PROVE RowsSound' /\ SameJobs
<1> USE BoundsAssumption DEF RowInv, RowsSound, Recover
<1>1. ASSUME NEW j \in Jobs
      PROVE  Sound(j)' /\ (row'[j] = "none" <=> row[j] = "none")
  <2>1. CASE recovered \/ row[j] # "running"
    BY <2>1 DEF Sound, Spent
  <2>2. CASE ~recovered /\ row[j] = "running"
    BY <2>2 DEF Sound, Spent, RowStatus
  <2> QED BY <2>1, <2>2
<1>2. attempts' = [j \in Jobs |-> attempts'[j]]
  OBVIOUS
<1> QED BY <1>1, <1>2, JobByJob DEF SameJobs

\* A job is created with its attempts unspent, behind the others of its priority.
LEMMA EnqueueSound == ASSUME RowInv, Enqueue PROVE RowsSound' /\ InOrder'
<1> USE BoundsAssumption DEF RowInv, RowsSound
<1>1. PICK j \in Jobs : NextOfPriority(j) /\ SettleRows({j}, "pending")
  BY DEF Enqueue
<1>2. ASSUME NEW k \in Jobs PROVE Sound(k)'
  BY <1>1 DEF SettleRows, Status, NextOfPriority, Sound, Spent, RowStatus
<1>3. /\ attempts' = [k \in Jobs |-> attempts'[k]]
      /\ spent' = [k \in Jobs |-> spent'[k]] /\ row' = [k \in Jobs |-> row'[k]]
  BY <1>1 DEF SettleRows, Status
<1>4. ASSUME NEW i \in Jobs, NEW k \in Jobs, i < k, Priority(i) = Priority(k),
             row'[k] # "none"
      PROVE  row'[i] # "none"
  <2>1. CASE k = j
    BY <1>1, <1>4, <2>1, JobTypes DEF SettleRows, Status, NextOfPriority
  <2>2. CASE k # j
    BY <1>1, <1>4, <2>2 DEF SettleRows, Status, InOrder
  <2> QED BY <2>1, <2>2
<1>5. InOrder'
  BY <1>4 DEF InOrder, Priority
<1> QED BY <1>2, <1>3, <1>5, JobByJob

\* A pass is created as a block, behind the jobs of earlier passes, and the
\* waiting jobs of those are destroyed.
LEMMA PassCreates ==
  ASSUME RowInv, EnqueuePass, NEW j \in Jobs
  PROVE  \/ row'[j] = row[j]
         \/ row[j] = "none" /\ row'[j] = "pending"
         \/ row[j] = "pending" /\ Combo(j) /\ row'[j] = "gone"
<1>1. PICK first \in Jobs, last \in Jobs :
        LET new == {k \in first..last : Combo(k)} IN
        /\ Combo(first) /\ NextOfPriority(first)
        /\ row' = [k \in Jobs |->
             CASE k \in new -> "pending"
               [] k \in PendingCombos -> "gone"
               [] OTHER -> row[k]]
  BY DEF EnqueuePass
<1> DEFINE new == {k \in first..last : Combo(k)}
<1>2. j \in new => row[j] = "none"
  BY <1>1, JobTypes DEF NextOfPriority, InOrder, Combo, Priority, RowInv
<1>3. CASE j \in new
  BY <1>1, <1>2, <1>3 DEF PendingCombos
<1>4. CASE j \notin new /\ j \in PendingCombos
  BY <1>1, <1>4 DEF PendingCombos
<1>5. CASE j \notin new /\ j \notin PendingCombos
  BY <1>1, <1>5
<1> QED BY <1>3, <1>4, <1>5

\* So the table stays sound and in order.
LEMMA PassSound == ASSUME RowInv, EnqueuePass PROVE RowsSound' /\ InOrder'
<1> USE BoundsAssumption DEF RowInv, RowsSound
<1>1. PICK first \in Jobs, last \in Jobs :
        LET new == {j \in first..last : Combo(j)} IN
        /\ Combo(first) /\ Combo(last) /\ first <= last /\ NextOfPriority(first)
        /\ row' = [j \in Jobs |->
             CASE j \in new -> "pending"
               [] j \in PendingCombos -> "gone"
               [] OTHER -> row[j]]
  BY DEF EnqueuePass
<1> DEFINE new == {j \in first..last : Combo(j)}
<1>2. UNCHANGED <<attempts, spent>>
  BY DEF EnqueuePass
<1>3. \A j, k \in Jobs : Combo(j) /\ Combo(k) => Priority(j) = Priority(k)
  BY DEF Combo, Priority
<1>4. \A j \in Jobs : j \in new => row[j] = "none"
  BY <1>1, <1>3, JobTypes DEF NextOfPriority, InOrder
<1>5. ASSUME NEW k \in Jobs PROVE Sound(k)'
  <2>1. CASE k \in new
    BY <1>1, <1>2, <1>4, <2>1 DEF Sound, Spent, RowStatus
  <2>2. CASE k \notin new /\ k \in PendingCombos
    BY <1>1, <1>2, <2>2 DEF Sound, Spent, RowStatus, PendingCombos
  <2>3. CASE k \notin new /\ k \notin PendingCombos
    BY <1>1, <1>2, <2>3 DEF Sound, Spent
  <2> QED BY <2>1, <2>2, <2>3
<1>6. ASSUME NEW i \in Jobs, NEW k \in Jobs, i < k, Priority(i) = Priority(k),
             row'[k] # "none"
      PROVE  row'[i] # "none"
  <2>1. CASE k \in new
    <3>1. Combo(i)
      BY <1>6, <2>1 DEF Priority, Combo
    <3>2. CASE i >= first
      BY <1>1, <1>6, <2>1, <3>1, <3>2, JobTypes
    <3>3. CASE i < first
      <4>1. row[i] # "none"
        <5>1. i \in 1..(first - 1)
          BY <1>1, <3>3, JobTypes
        <5>2. Priority(i) = Priority(first)
          BY <1>1, <1>3, <3>1
        <5> QED BY <1>1, <5>1, <5>2 DEF NextOfPriority
      <4> QED BY <1>1, <4>1
    <3> QED BY <1>1, <3>2, <3>3, JobTypes
  <2>2. CASE k \notin new
    <3>1. row[k] # "none"
      BY <1>1, <1>6, <2>2 DEF PendingCombos
    <3> QED BY <1>1, <1>6, <3>1 DEF InOrder
  <2> QED BY <2>1, <2>2
<1>7. InOrder'
  BY <1>6 DEF InOrder, Priority
<1>8. /\ attempts' = [k \in Jobs |-> attempts'[k]]
      /\ spent' = [k \in Jobs |-> spent'[k]] /\ row' = [k \in Jobs |-> row'[k]]
  BY <1>1, <1>2
<1> QED BY <1>5, <1>7, <1>8, JobByJob

\* Every step keeps the table sound.
LEMMA SoundStep == RowInv /\ [Next]_vars => (RowsSound /\ InOrder)'
<1> SUFFICES ASSUME RowInv, [Next]_vars PROVE (RowsSound /\ InOrder)'
  OBVIOUS
<1>1. CASE UNCHANGED rows
  BY <1>1, StillSound, OrderKept DEF rows, RowInv
<1>2. CASE \E l \in Loops : LoopStep(l)
  BY <1>2, LoopSound, OrderKept DEF RowInv
<1>3. CASE Recover
  BY <1>3, RecoverSound, OrderKept DEF RowInv
<1>4. CASE Enqueue \/ EnqueuePass
  BY <1>4, EnqueueSound, PassSound
<1>5. CASE Effect \/ StartResumes \/ Started \/ Reported \/ StartFails
           \/ StopResumes \/ AppStateChanges \/ ModeChanges \/ Crash
           \/ \E c \in Chats : Pause(c) \/ Resume(c)
  BY <1>1, <1>5 DEF Effect, StartResumes, Started, Reported, StartFails,
     StopResumes, AppStateChanges, ModeChanges, Crash, Pause, Resume, rows
<1> QED
  BY <1>1, <1>2, <1>3, <1>4, <1>5 DEF Next, StartStep, vars
--------------------------------------------------------------------------------
(* Types.                                                                   *)

\* What TypeOK says beyond the table.
LEMMA LoopTypes ==
  ASSUME RowInv, NEW l \in Loops, LoopStep(l), RowsSound'
  PROVE  TypeOK'
<1> USE DEF RowInv, TypeOK, RowsSound, LoopFrame, Stay, Goto, hold, loop, world,
            rows, bounds, StopDone, Places, Sleeping, Unmarked, Working, Settling
<1>0. \A j \in Jobs : TypeOf[j] \in Types
  BY JobTypes
<1>1. CASE LoopEnds(l)
  <2>1. stopping' \in BOOLEAN /\ stopWaits' \in BOOLEAN /\ starting' = starting
    BY <1>1 DEF LoopEnds
  <2>2. pc' \in [Loops -> Places] /\ taken' \in [Loops -> Jobs \cup {NoJob}]
    BY <1>1 DEF LoopEnds
  <2> QED BY <1>1, <2>1, <2>2 DEF LoopEnds
<1>2. CASE LoopRests(l)  BY <1>2 DEF LoopRests
<1>3. CASE LoopLooks(l)  BY <1>3 DEF LoopLooks
<1>4. CASE SleepEnds(l)  BY <1>4 DEF SleepEnds
<1>5. CASE Stats(l)  BY <1>5 DEF Stats
<1>6. CASE QueryFinds(l)  BY <1>6 DEF QueryFinds
<1>7. CASE QueryFindsNothing(l)  BY <1>7 DEF QueryFindsNothing
<1>8. CASE Dequeued(l)
  <2>1. taken[l] \in Jobs
    BY <1>8 DEF Dequeued, TakenInv, Holding
  <2> QED BY <1>8, <2>1 DEF Dequeued
<1>9. CASE Unrunnable(l)  BY <1>9 DEF Unrunnable
<1>10. CASE PrecheckDefers(l)  BY <1>10 DEF PrecheckDefers, Types
<1>11. CASE PrecheckDrops(l)  BY <1>11 DEF PrecheckDrops
<1>12. CASE PrecheckRuns(l)
  <2>1. taken[l] \in Jobs
    BY <1>12 DEF PrecheckRuns, TakenInv, Holding
  <2> QED BY <1>12, <2>1 DEF PrecheckRuns
<1>13. CASE MarkedRunning(l)  BY <1>13 DEF MarkedRunning
<1>14. CASE MarkRunningFails(l)  BY <1>14 DEF MarkRunningFails
<1>15. CASE HandlerEnds(l)  BY <1>15 DEF HandlerEnds
<1>16. CASE ClaimSiblings(l)  BY <1>16 DEF ClaimSiblings, PendingCombos
<1>17. CASE ClaimDrops(l)  BY <1>17 DEF ClaimDrops
<1>18. CASE BatchFails(l) \/ ApplyFails(l)
  BY <1>18 DEF BatchFails, ApplyFails, HandlerThrows
<1>19. CASE BatchAnswers(l)  BY <1>19 DEF BatchAnswers
<1>20. CASE SiblingSettles(l)  BY <1>20 DEF SiblingSettles
<1>21. CASE ComboEnds(l)  BY <1>21 DEF ComboEnds
<1>22. CASE JobEnds(l)
  <2>1. taken[l] \in Jobs
    BY <1>22 DEF JobEnds, TakenInv, Holding
  <2>2. gated' \subseteq Types
    BY <1>0, <1>22, <2>1 DEF JobEnds
  <2>3. chat' \in [Chats -> {"idle", "waiting", "holding"}]
    BY <1>22 DEF JobEnds
  <2> QED BY <1>22, <2>2, <2>3 DEF JobEnds
<1>23. CASE LoopFails(l)
  <2>1. chat' \in [Chats -> {"idle", "waiting", "holding"}]
    BY <1>23 DEF LoopFails
  <2>2. current' \in Jobs \cup {NoJob, Rejected}
    BY <1>23 DEF LoopFails
  <2> QED BY <1>23, <2>1, <2>2 DEF LoopFails
<1> QED
  BY <1>1, <1>2, <1>3, <1>4, <1>5, <1>6, <1>7, <1>8, <1>9, <1>10, <1>11, <1>12,
     <1>13, <1>14, <1>15, <1>16, <1>17, <1>18, <1>19, <1>20, <1>21, <1>22, <1>23
  DEF LoopStep

\* Every step keeps the types.
LEMMA TypeStep == RowInv /\ [Next]_vars => TypeOK'
<1> SUFFICES ASSUME RowInv, [Next]_vars PROVE TypeOK'
  OBVIOUS
<1>0. RowsSound'
  BY SoundStep
<1> USE <1>0, BoundsAssumption DEF RowInv, TypeOK, RowsSound, lifecycle, hold, loop, world, rows, bounds
<1>c. Cardinality(Chats) \in Nat
  BY ChatsAssumption, FS_CardinalityType
<1>b. ASSUME Begin
      PROVE  starting' \in {"none", "recover", "sweep", "report"}
  BY <1>b DEF Begin
<1>h. ASSUME Halt
      PROVE  /\ stopping' \in BOOLEAN /\ state' \in {"stopped", "running", "paused"}
             /\ pauseDepth' \in 0..(Cardinality(Chats) + 1)
             /\ chat' = chat /\ counted' \subseteq Chats
  <2>1. CASE state = "stopped"
    BY <1>h, <2>1 DEF Halt
  <2>2. CASE state # "stopped"
    <3>1. LoopLive \in BOOLEAN
      BY DEF LoopLive
    <3> QED BY <1>h, <1>c, <2>2, <3>1 DEF Halt
  <2> QED BY <2>1, <2>2
<1>1. CASE Effect
  <2>0. wanted' \in BOOLEAN
    <3>1. wanted' = TRUE \/ wanted' = FALSE
      BY <1>1 DEF Effect
    <3> QED BY <3>1
  <2>e. effects' \in 0..MaxEffects
    BY <1>1 DEF Effect
  <2>1. /\ UNCHANGED <<recovered, loop, gated, world, rows, passOf, upsets>>
        /\ effects' \in 0..MaxEffects /\ wanted' \in BOOLEAN
    BY <1>1, <2>0, <2>e DEF Effect
  <2>2. CASE CallStart
    <3>1. CASE MustWait
      BY <2>1, <2>2, <3>1 DEF CallStart
    <3>2. CASE ~MustWait
      BY <2>1, <2>2, <3>2, <1>b DEF CallStart
    <3> QED BY <3>1, <3>2
  <2>3. CASE CallStop
    <3>1. CASE starting # "none"
      BY <2>1, <2>3, <3>1 DEF CallStop
    <3>2. CASE starting = "none"
      BY <2>1, <2>3, <3>2, <1>h DEF CallStop
    <3> QED BY <3>1, <3>2
  <2>4. CASE UNCHANGED <<starting, startWaits, stopWaits, stopping, hold>>
    BY <2>1, <2>4
  <2> QED BY <1>1, <2>2, <2>3, <2>4 DEF Effect
<1>2. CASE StartResumes \/ StopResumes
  <2>1. CASE StartResumes  BY <1>b, <2>1 DEF StartResumes
  <2>2. CASE StopResumes  BY <1>h, <2>2 DEF StopResumes
  <2> QED BY <1>2, <2>1, <2>2
<1>3. CASE Recover  BY <1>3 DEF Recover
<1>4. CASE Started  BY <1>4 DEF Started, Places
<1>5. CASE Reported \/ StartFails
  <2>1. CASE Reported  BY <2>1 DEF Reported
  <2>2. CASE StartFails  BY <2>2 DEF StartFails
  <2> QED BY <1>5, <2>1, <2>2
<1>6. CASE \E l \in Loops : LoopStep(l)
  BY <1>6, LoopTypes
<1>7. ASSUME NEW c \in Chats, Pause(c) PROVE TypeOK'
  <2>2. pauseDepth' \in 0..(Cardinality(Chats) + 1)
    BY <1>7, <1>c DEF Pause
  <2>3. chat' \in [Chats -> {"idle", "waiting", "holding"}]
    BY <1>7 DEF Pause
  <2>4. state' \in {"stopped", "running", "paused"} /\ counted' \subseteq Chats
    BY <1>7 DEF Pause
  <2> QED BY <1>7, <2>2, <2>3, <2>4 DEF Pause
<1>8. ASSUME NEW c \in Chats, Resume(c) PROVE TypeOK'
  <2>2. pauseDepth' \in 0..(Cardinality(Chats) + 1)
    BY <1>8, <1>c DEF Resume, HoldsLeft
  <2> QED BY <1>8, <2>2 DEF Resume
<1>9. CASE Enqueue  BY <1>9 DEF Enqueue
<1>10. CASE EnqueuePass
  <2>1. passOf' \in [Jobs -> Jobs \cup {0}]
    BY <1>10 DEF EnqueuePass
  <2> QED BY <1>10, <2>1 DEF EnqueuePass
<1>11. CASE AppStateChanges \/ ModeChanges
  <2>1. CASE AppStateChanges
    <3>1. active' \in BOOLEAN /\ gated' \subseteq Types /\ upsets' \in 0..MaxUpsets
      BY <2>1 DEF AppStateChanges
    <3> QED BY <2>1, <3>1 DEF AppStateChanges
  <2>2. CASE ModeChanges
    <3>1. onDevice' \in BOOLEAN /\ upsets' \in 0..MaxUpsets
      BY <2>2 DEF ModeChanges
    <3> QED BY <2>2, <3>1 DEF ModeChanges
  <2> QED BY <1>11, <2>1, <2>2
<1>12. CASE Crash
  <2>1. /\ wanted' \in BOOLEAN /\ startWaits' \in BOOLEAN /\ stopWaits' \in BOOLEAN
        /\ stopping' \in BOOLEAN /\ recovered' \in BOOLEAN
    BY <1>12 DEF Crash
  <2>2. /\ starting' = "none" /\ state' = "stopped" /\ current' = NoJob
        /\ pauseDepth' \in 0..(Cardinality(Chats) + 1)
        /\ gated' = {} /\ counted' = {}
        /\ UNCHANGED <<onDevice, active, passOf, effects>>
    BY <1>12, <1>c DEF Crash
  <2>3. /\ chat' \in [Chats -> {"idle", "waiting", "holding"}]
        /\ pc' \in [Loops -> Places] /\ taken' \in [Loops -> Jobs \cup {NoJob}]
        /\ claimed' \in [Loops -> SUBSET Jobs]
    BY <1>12 DEF Crash, Places
  <2>4. upsets' \in 0..MaxUpsets
    BY <1>12 DEF Crash
  <2> QED BY <2>1, <2>2, <2>3, <2>4
<1>13. CASE UNCHANGED vars
  BY <1>13 DEF vars
<1> QED
  BY <1>1, <1>2, <1>3, <1>4, <1>5, <1>6, <1>7, <1>8, <1>9, <1>10, <1>11, <1>12,
     <1>13 DEF Next, StartStep
--------------------------------------------------------------------------------
(* The loop and its rows.  The loop that takes a step is the only one, so   *)
(* that what the invariant says of all loops it says of this one.           *)

Works(l) ==
  /\ pc[l] \in Holding => taken[l] \in Jobs /\ Expected(pc[l], taken[l])
  /\ claimed[l] # {} => pc[l] \in {"batch", "siblings"}
  /\ \A j \in claimed[l] : row[j] = "running" /\ j # taken[l]
  /\ recovered => \A j \in Jobs : row[j] = "running" => j \in Owned(l)

Rests(l) == pc[l] = "off" /\ claimed[l] = {}

LEMMA WorksAlone ==
  ASSUME RowInv, NEW l \in Loops, pc[l] # "off"
  PROVE  Works(l) /\ \A k \in Loops \ {l} : Rests(k)
<1>1. \A k \in Loops \ {l} : Rests(k)
  BY DEF RowInv, LoopInv, SingleLoop, ClaimedInv, Rests
<1>2. \A k \in Loops \ {l} : Owned(k) = {}
  BY <1>1 DEF Rests, Owned, Working, Settling
<1> QED
  BY <1>1, <1>2 DEF RowInv, TakenInv, ClaimedInv, NoOrphan, Works

LEMMA WorksSuffices ==
  ASSUME NEW l \in Loops, Works(l)', \A k \in Loops \ {l} : Rests(k)'
  PROVE  (TakenInv /\ ClaimedInv /\ NoOrphan)'
  BY DEF TakenInv, ClaimedInv, NoOrphan, Works, Rests, Owned, Holding, Unmarked,
         Working, Settling, Expected, Awaited, Combo

\* Every step of a loop leaves it in order.
LEMMA LoopWorks ==
  ASSUME RowInv, NEW l \in Loops, LoopStep(l), Works(l), pc[l] # "off"
  PROVE  Works(l)'
<1> USE DEF RowInv, TypeOK, Works, Holding, Unmarked, Working, Settling, Expected,
            Awaited, Owned, Goto, Stay, LoopFrame, rows, Sleeping, Combo
<1>1. CASE LoopEnds(l)  BY <1>1 DEF LoopEnds
<1>2. CASE LoopRests(l)  BY <1>2 DEF LoopRests
<1>3. CASE LoopLooks(l)  BY <1>3 DEF LoopLooks
<1>4. CASE SleepEnds(l)  BY <1>4 DEF SleepEnds
<1>5. CASE Stats(l)  BY <1>5 DEF Stats, SettleRows, Status
<1>6. CASE QueryFinds(l)  BY <1>6 DEF QueryFinds, HeadRow
<1>7. CASE QueryFindsNothing(l)  BY <1>7 DEF QueryFindsNothing
<1>8. CASE Dequeued(l)  BY <1>8 DEF Dequeued
<1>9. CASE Unrunnable(l)  BY <1>9 DEF Unrunnable, Status
<1>10. CASE PrecheckDefers(l)  BY <1>10 DEF PrecheckDefers
<1>11. CASE PrecheckDrops(l)
  BY <1>11 DEF PrecheckDrops, SettleRows, Status, PendingCombos
<1>12. CASE PrecheckRuns(l)  BY <1>12 DEF PrecheckRuns
<1>13. CASE MarkedRunning(l)  BY <1>13 DEF MarkedRunning, TakeRows, Status
<1>14. CASE MarkRunningFails(l)  BY <1>14 DEF MarkRunningFails
<1>15. CASE HandlerEnds(l)  BY <1>15 DEF HandlerEnds
<1>16. CASE ClaimSiblings(l)
  BY <1>16 DEF ClaimSiblings, TakeRows, Status, PendingCombos
<1>17. CASE ClaimDrops(l)
  BY <1>17 DEF ClaimDrops, SettleRows, Status, PendingCombos
<1>18. CASE BatchFails(l) \/ ApplyFails(l)
  BY <1>18 DEF BatchFails, ApplyFails, HandlerThrows, Release, DeferRows,
               FailRows, FailKeeping, Status
<1>19. CASE BatchAnswers(l)  BY <1>19 DEF BatchAnswers, SettleRows, Status
<1>20. CASE SiblingSettles(l)
  BY <1>20 DEF SiblingSettles, SettleRows, Status, FailRows, FailKeeping
<1>21. CASE ComboEnds(l)  BY <1>21 DEF ComboEnds
<1>22. CASE JobEnds(l)
  BY <1>22 DEF JobEnds, SettleRows, Status, DeferRows, FailRows, FailKeeping
<1>23. CASE LoopFails(l)  BY <1>23 DEF LoopFails, Fatal
<1> QED
  BY <1>1, <1>2, <1>3, <1>4, <1>5, <1>6, <1>7, <1>8, <1>9, <1>10, <1>11, <1>12,
     <1>13, <1>14, <1>15, <1>16, <1>17, <1>18, <1>19, <1>20, <1>21, <1>22, <1>23
  DEF LoopStep

\* No step of one loop moves another or touches what it claims.
LEMMA LoopFrames ==
  ASSUME RowInv, NEW l \in Loops, LoopStep(l)
  PROVE  /\ pc[l] # "off"
         /\ \A k \in Loops \ {l} : pc'[k] = pc[k] /\ claimed'[k] = claimed[k]
<1> USE DEF RowInv, TypeOK, Goto, Stay, loop, Sleeping, Fatal
<1>1. pc[l] # "off"
  BY DEF LoopStep, LoopEnds, LoopRests, LoopLooks, SleepEnds, Stats, QueryFinds,
     QueryFindsNothing, Dequeued, Unrunnable, PrecheckDefers, PrecheckDrops,
     PrecheckRuns, MarkedRunning, MarkRunningFails, HandlerEnds, ClaimSiblings,
     ClaimDrops, BatchFails, BatchAnswers, SiblingSettles, ApplyFails,
     ComboEnds, JobEnds, LoopFails
<1>2. /\ \/ UNCHANGED pc
         \/ \E where \in Places : pc' = [pc EXCEPT ![l] = where]
      /\ \/ UNCHANGED claimed
         \/ \E S \in SUBSET Jobs : claimed' = [claimed EXCEPT ![l] = S]
  <2> USE DEF Places, Unmarked, Working, Settling
  <2>1. CASE ClaimSiblings(l)
    BY <2>1 DEF ClaimSiblings, PendingCombos
  <2>2. CASE SiblingSettles(l)
    BY <2>2 DEF SiblingSettles
  <2>3. CASE BatchFails(l) \/ ApplyFails(l)
    <3>1. claimed' = [claimed EXCEPT ![l] = {}]
      BY <2>3 DEF BatchFails, ApplyFails, HandlerThrows
    <3>2. \E where \in Places : pc' = [pc EXCEPT ![l] = where]
      BY <2>3 DEF BatchFails, ApplyFails, HandlerThrows
    <3> QED BY <3>1, <3>2
  <2>4. CASE LoopEnds(l) \/ LoopRests(l) \/ LoopLooks(l) \/ SleepEnds(l) \/ Stats(l)
    BY <2>4 DEF LoopEnds, LoopRests, LoopLooks, SleepEnds, Stats
  <2>5. CASE QueryFinds(l) \/ QueryFindsNothing(l) \/ Dequeued(l) \/ Unrunnable(l)
    BY <2>5 DEF QueryFinds, QueryFindsNothing, Dequeued, Unrunnable
  <2>6. CASE PrecheckDefers(l) \/ PrecheckDrops(l) \/ PrecheckRuns(l)
    BY <2>6 DEF PrecheckDefers, PrecheckDrops, PrecheckRuns
  <2>7. CASE MarkedRunning(l) \/ MarkRunningFails(l) \/ HandlerEnds(l) \/ ClaimDrops(l)
    BY <2>7 DEF MarkedRunning, MarkRunningFails, HandlerEnds, ClaimDrops
  <2>8. CASE BatchAnswers(l) \/ ComboEnds(l) \/ JobEnds(l) \/ LoopFails(l)
    BY <2>8 DEF BatchAnswers, ComboEnds, JobEnds, LoopFails
  <2> QED
    BY <2>1, <2>2, <2>3, <2>4, <2>5, <2>6, <2>7, <2>8 DEF LoopStep
<1> QED BY <1>1, <1>2

\* Every step leaves the loops in order with their rows.
LEMMA HeldStep == RowInv /\ [Next]_vars => (TakenInv /\ ClaimedInv /\ NoOrphan)'
<1> SUFFICES ASSUME RowInv, [Next]_vars PROVE (TakenInv /\ ClaimedInv /\ NoOrphan)'
  OBVIOUS
<1> DEFINE Held == TakenInv /\ ClaimedInv /\ NoOrphan
<1> USE DEF RowInv, TypeOK, RowsSound
<1>1. CASE \E l \in Loops : LoopStep(l)
  <2>1. PICK l \in Loops : LoopStep(l)
    BY <1>1
  <2>2. Works(l)' /\ \A k \in Loops \ {l} : Rests(k)'
    BY <2>1, LoopFrames, WorksAlone, LoopWorks DEF Rests
  <2> QED BY <2>2, WorksSuffices
<1>2. CASE UNCHANGED <<recovered, pc, taken, claimed, row>>
  BY <1>2 DEF TakenInv, ClaimedInv, NoOrphan, Owned, Expected, Awaited, Combo
<1>3. CASE Recover
  <2>1. Off /\ Off' /\ UNCHANGED claimed
    BY <1>3 DEF Recover, LoopInv, StartFindsRest, Off, loop
  <2>2. recovered => row' = row
    BY <1>3 DEF Recover
  <2>3. ~recovered => \A j \in Jobs : row'[j] # "running"
    BY <1>3 DEF Recover
  <2>4. \A l \in Loops : claimed[l] = {} /\ Owned(l) = {}
    BY <2>1 DEF ClaimedInv, Off, Owned, Working, Settling
  <2>5. recovered => \A j \in Jobs : row[j] # "running"
    BY <2>4 DEF NoOrphan
  <2> QED
    BY <2>1, <2>2, <2>3, <2>4, <2>5 DEF TakenInv, ClaimedInv, NoOrphan, Off,
       Holding, Unmarked, Working, Settling
<1>4. CASE Started
  <2>1. PICK l \in Loops : pc' = [pc EXCEPT ![l] = "top"]
    BY <1>4 DEF Started
  <2>2. Off /\ UNCHANGED <<recovered, taken, claimed, row>>
    BY <1>4 DEF Started, LoopInv, StartFindsRest, rows
  <2>3. \A k \in Loops : claimed[k] = {} /\ Owned(k) = {}
    BY <2>2 DEF ClaimedInv, Off, Owned, Working, Settling
  <2>4. recovered => \A j \in Jobs : row[j] # "running"
    BY <2>3 DEF NoOrphan
  <2> QED
    BY <2>1, <2>2, <2>3, <2>4 DEF TakenInv, ClaimedInv, NoOrphan, Off,
       Holding, Unmarked, Working, Settling
<1>5. CASE Enqueue
  <2>1. PICK i \in Jobs : row[i] = "none" /\ SettleRows({i}, "pending")
    BY <1>5 DEF Enqueue, NextOfPriority
  <2>2. UNCHANGED <<recovered, pc, taken, claimed>>
    BY <1>5 DEF Enqueue, lifecycle, loop
  <2>3. \A j \in Jobs : row'[j] = IF j = i THEN "pending" ELSE row[j]
    BY <2>1 DEF SettleRows, Status
  <2>4. TakenInv'
    BY <2>1, <2>2, <2>3 DEF TakenInv, Expected, Awaited, Combo, Holding
  <2>5. ClaimedInv'
    BY <2>1, <2>2, <2>3 DEF ClaimedInv
  <2>6. NoOrphan'
    BY <2>1, <2>2, <2>3 DEF NoOrphan, Owned
  <2> QED BY <2>4, <2>5, <2>6
<1>6. CASE EnqueuePass
  <2>1. UNCHANGED <<recovered, pc, taken, claimed>>
    BY <1>6 DEF EnqueuePass, lifecycle, loop
  <2>2. ASSUME NEW j \in Jobs
        PROVE  \/ row'[j] = row[j]
               \/ row[j] = "none" /\ row'[j] = "pending"
               \/ row[j] = "pending" /\ Combo(j) /\ row'[j] = "gone"
    BY <1>6, <2>2, PassCreates
  <2>3. TakenInv'
    BY <2>1, <2>2 DEF TakenInv, Expected, Awaited, Combo, Holding, Unmarked, Working, Settling
  <2>4. ClaimedInv'
    BY <2>1, <2>2 DEF ClaimedInv
  <2>5. NoOrphan'
    BY <2>1, <2>2 DEF NoOrphan, Owned
  <2> QED BY <2>3, <2>4, <2>5
<1>7. CASE Crash
  BY <1>7 DEF Crash, TakenInv, ClaimedInv, NoOrphan, Holding, Unmarked, Working,
              Settling
<1> QED
  BY <1>1, <1>2, <1>3, <1>4, <1>5, <1>6, <1>7 DEF Next, StartStep, vars, Effect,
     StartResumes, Reported, StartFails, StopResumes, AppStateChanges,
     ModeChanges, Pause, Resume, lifecycle, loop, rows

LEMMA RowInit == Init => RowInv
<1> SUFFICES ASSUME Init PROVE RowInv
  OBVIOUS
<1> USE BoundsAssumption DEF Init
<1>1. TypeOK
  <2>1. Cardinality(Chats) \in Nat
    BY ChatsAssumption, FS_CardinalityType
  <2>2. /\ wanted \in BOOLEAN /\ startWaits \in BOOLEAN /\ stopWaits \in BOOLEAN
        /\ stopping \in BOOLEAN /\ recovered \in BOOLEAN
        /\ onDevice \in BOOLEAN /\ active \in BOOLEAN
    OBVIOUS
  <2>3. /\ pc \in [Loops -> Places] /\ taken \in [Loops -> Jobs \cup {NoJob}]
        /\ claimed \in [Loops -> SUBSET Jobs]
        /\ chat \in [Chats -> {"idle", "waiting", "holding"}]
    BY DEF Places
  <2>4. /\ row \in [Jobs -> RowStatus] /\ passOf \in [Jobs -> Jobs \cup {0}]
        /\ attempts \in [Jobs -> 0..MaxAttempts] /\ spent \in [Jobs -> 0..MaxAttempts]
    BY DEF RowStatus
  <2> QED BY <2>1, <2>2, <2>3, <2>4 DEF TypeOK
<1>2. RowsSound
  BY DEF RowsSound, Sound, Spent, RowStatus
<1>3. InOrder /\ TakenInv /\ ClaimedInv /\ NoOrphan
  BY DEF InOrder, TakenInv, ClaimedInv, NoOrphan, Holding, Unmarked, Working,
         Settling
<1> QED BY <1>1, <1>2, <1>3, LoopInit DEF RowInv

LEMMA RowStep == RowInv /\ [Next]_vars => RowInv'
  BY LoopInvStep, SoundStep, TypeStep, HeldStep DEF RowInv

LEMMA RowInvariant == Spec => []RowInv
  BY RowInit, RowStep, PTL DEF Spec

\* Every variable keeps its type: no attempt beyond max_attempts, no depth of
\* pauses below zero.
THEOREM TypeCorrect == Spec => []TypeOK
<1>1. RowInv => TypeOK
  BY DEF RowInv
<1> QED BY <1>1, RowInvariant, PTL

\* Once a crash is recovered, a row is 'running' only while a loop works on it,
\* and nobody takes a running row away from the loop (topic-combo-handler.ts).
THEOREM RowsOwned == Spec => []RunningRowsOwned
<1>1. RowInv => RunningRowsOwned
  BY DEF RowInv, RunningRowsOwned, NoOrphan, ClaimedInv, TakenInv, Expected,
         Holding, Unmarked, Working, Settling
<1> QED BY <1>1, RowInvariant, PTL

\* A job loses an attempt to a run that failed or died, never to a deferral.
THEOREM AttemptsAreSpent == Spec => []AttemptsHonest
<1>1. RowInv => AttemptsHonest
  BY DEF RowInv, RowsSound, Sound, Spent, AttemptsHonest
<1> QED BY <1>1, RowInvariant, PTL
--------------------------------------------------------------------------------
(* The chats.  A counted pause() keeps the queue paused until its own       *)
(* resume(), whatever turns of other engines begin and end meanwhile, and a *)
(* pause() that finds no job in currentJobPromise finds no loop past its    *)
(* last look at the state.                                                  *)

\* Each counted pause has its own count of the depth, and together they hold
\* the queue.
HeldPaused ==
  /\ Cardinality(counted) <= pauseDepth
  /\ counted # {} => state = "paused"

\* currentJobPromise is the job of the loop that executes one ...
CurrentIsTaken ==
  \A l \in Loops : pc[l] \in Executing => taken[l] \in Jobs /\ current = taken[l]

\* ... and only a job of the combination pass is pre-checked.
PrecheckIsCombo == \A l \in Loops : pc[l] = "precheck" => Combo(taken[l])

ChatInv == RowInv /\ HeldPaused /\ CurrentIsTaken /\ PrecheckIsCombo /\ ChatAlone

LEMMA ChatInit == Init => ChatInv
<1> SUFFICES ASSUME Init PROVE ChatInv
  OBVIOUS
<1>1. HeldPaused /\ CurrentIsTaken /\ PrecheckIsCombo /\ ChatAlone
  BY FS_EmptySet DEF Init, HeldPaused, CurrentIsTaken, PrecheckIsCombo, ChatAlone,
     Holds, Executing, Working, Settling
<1> QED BY <1>1, RowInit DEF ChatInv

\* A counted pause outlives neither its resume() nor a stop(), and no resume() but
\* that of an uncounted turn takes its count.
LEMMA PausedStep ==
  ASSUME ChatInv, [Next]_vars
  PROVE  HeldPaused'
<1> USE DEF ChatInv, RowInv, HeldPaused
<1>0. /\ IsFiniteSet(counted) /\ Cardinality(counted) \in Nat
      /\ pauseDepth \in Nat /\ Cardinality({}) = 0
  BY ChatsAssumption, FS_Subset, FS_CardinalityType, FS_EmptySet DEF TypeOK
<1>1. CASE UNCHANGED <<state, pauseDepth, counted>>
  BY <1>1
<1>2. ASSUME Halt PROVE HeldPaused'
  BY <1>0, <1>2 DEF Halt, hold
<1>3. CASE Started
  <2>1. counted = {}
    BY <1>3 DEF Started, LoopInv, StartFindsRest
  <2> QED BY <1>3, <2>1 DEF Started
<1>4. CASE Crash
  BY <1>0, <1>4 DEF Crash
<1>5. ASSUME NEW c \in Chats, Pause(c) PROVE HeldPaused'
  <2>1. CASE state = "stopped"
    BY <1>5, <2>1 DEF Pause
  <2>2. CASE state # "stopped"
    <3>1. /\ Cardinality(counted \cup {c}) = Cardinality(counted)
             \/ Cardinality(counted \cup {c}) = Cardinality(counted) + 1
      BY <1>0, FS_AddElement
    <3>2. pauseDepth' = pauseDepth + 1 /\ state' = "paused"
          /\ (counted' = counted \/ counted' = counted \cup {c})
      BY <1>5, <2>2 DEF Pause
    <3> QED BY <1>0, <3>1, <3>2
  <2> QED BY <2>1, <2>2
<1>6. ASSUME NEW c \in Chats, Resume(c) PROVE HeldPaused'
  <2>1. CASE c \notin counted
    BY <1>0, <1>6, <2>1 DEF Resume, HoldsLeft
  <2>2. CASE c \in counted
    <3>1. Cardinality(counted \ {c}) = Cardinality(counted) - 1
      BY <1>0, <2>2, FS_RemoveElement
    <3>2. counted' = counted \ {c} /\ pauseDepth' = HoldsLeft
          /\ state' = IF pauseDepth' = 0 /\ state = "paused" THEN "running" ELSE state
      BY <1>6, <2>2 DEF Resume
    <3>3. Cardinality(counted') <= pauseDepth'
      BY <1>0, <3>1, <3>2 DEF HoldsLeft
    <3>4. ASSUME counted' # {} PROVE state' = "paused"
      <4>1. Cardinality(counted') # 0
        BY <1>0, <3>2, <3>4, FS_RemoveElement, FS_EmptySet
      <4>2. Cardinality(counted') \in Nat
        BY <1>0, <3>2, FS_RemoveElement, FS_CardinalityType
      <4>3. pauseDepth' # 0
        BY <3>3, <4>1, <4>2
      <4> QED BY <2>2, <3>2, <4>3
    <3> QED BY <3>3, <3>4
  <2> QED BY <2>1, <2>2
<1>7. CASE \E l \in Loops : LoopStep(l)
  BY <1>1, <1>7 DEF LoopStep, LoopEnds, LoopRests, LoopLooks, SleepEnds, Stats,
     QueryFinds, QueryFindsNothing, Dequeued, Unrunnable, PrecheckDefers,
     PrecheckDrops, PrecheckRuns, MarkedRunning, MarkRunningFails, HandlerEnds,
     ClaimSiblings, ClaimDrops, BatchFails, BatchAnswers, SiblingSettles,
     ApplyFails, HandlerThrows, ComboEnds, JobEnds, LoopFails, Stay, hold
<1>8. CASE Effect \/ StopResumes
  BY <1>1, <1>2, <1>8 DEF Effect, CallStart, CallStop, StopResumes, hold
<1> QED
  BY <1>1, <1>3, <1>4, <1>5, <1>6, <1>7, <1>8 DEF Next, StartStep, vars, hold,
     StartResumes, Recover, Reported, StartFails, Enqueue, EnqueuePass,
     AppStateChanges, ModeChanges

\* The loop's own part of the rest: what it executes and who holds the queue.
Runs(l) ==
  /\ pc[l] \in Executing => taken[l] \in Jobs /\ current = taken[l]
  /\ pc[l] = "precheck" => Combo(taken[l])
  /\ \A c \in counted : chat[c] = "holding" /\ pc[l] \in Executing => Combo(taken[l])

LEMMA LoopRuns ==
  ASSUME ChatInv, NEW l \in Loops, LoopStep(l)
  PROVE  Runs(l)'
<1> USE DEF ChatInv, RowInv, TypeOK, CurrentIsTaken, PrecheckIsCombo, ChatAlone,
            Holds, HeldPaused, TakenInv, Runs, Executing, Holding, Unmarked, Working,
            Settling, Goto, Stay, hold, Sleeping, Combo
<1>1. CASE LoopEnds(l)  BY <1>1 DEF LoopEnds
<1>2. CASE LoopRests(l)  BY <1>2 DEF LoopRests
<1>3. CASE LoopLooks(l)  BY <1>3 DEF LoopLooks
<1>4. CASE SleepEnds(l)  BY <1>4 DEF SleepEnds
<1>5. CASE Stats(l)  BY <1>5 DEF Stats
<1>6. CASE QueryFinds(l)  BY <1>6 DEF QueryFinds
<1>7. CASE QueryFindsNothing(l)  BY <1>7 DEF QueryFindsNothing
<1>8. CASE Dequeued(l)  BY <1>8 DEF Dequeued, StillRunning
<1>9. CASE Unrunnable(l)  BY <1>9 DEF Unrunnable
<1>10. CASE PrecheckDefers(l)  BY <1>10 DEF PrecheckDefers
<1>11. CASE PrecheckDrops(l)  BY <1>11 DEF PrecheckDrops
<1>12. CASE PrecheckRuns(l)  BY <1>12 DEF PrecheckRuns
<1>13. CASE MarkedRunning(l)  BY <1>13 DEF MarkedRunning
<1>14. CASE MarkRunningFails(l)  BY <1>14 DEF MarkRunningFails
<1>15. CASE HandlerEnds(l)  BY <1>15 DEF HandlerEnds
<1>16. CASE ClaimSiblings(l)  BY <1>16 DEF ClaimSiblings
<1>17. CASE ClaimDrops(l)  BY <1>17 DEF ClaimDrops
<1>18. CASE BatchFails(l) \/ ApplyFails(l)
  BY <1>18 DEF BatchFails, ApplyFails, HandlerThrows
<1>19. CASE BatchAnswers(l)  BY <1>19 DEF BatchAnswers
<1>20. CASE SiblingSettles(l)  BY <1>20 DEF SiblingSettles
<1>21. CASE ComboEnds(l)  BY <1>21 DEF ComboEnds
<1>22. CASE JobEnds(l)  BY <1>22 DEF JobEnds
<1>23. CASE LoopFails(l)  BY <1>23 DEF LoopFails
<1> QED
  BY <1>1, <1>2, <1>3, <1>4, <1>5, <1>6, <1>7, <1>8, <1>9, <1>10, <1>11, <1>12,
     <1>13, <1>14, <1>15, <1>16, <1>17, <1>18, <1>19, <1>20, <1>21, <1>22, <1>23
  DEF LoopStep

\* A turn begins beside no job but one of the combination pass.
LEMMA RunsStep ==
  ASSUME ChatInv, [Next]_vars
  PROVE  (CurrentIsTaken /\ PrecheckIsCombo /\ ChatAlone)'
<1> DEFINE AllRun == \A l \in Loops : Runs(l)
<1> USE DEF ChatInv, RowInv, TypeOK
<1>0. AllRun' => (CurrentIsTaken /\ PrecheckIsCombo /\ ChatAlone)'
  BY DEF Runs, CurrentIsTaken, PrecheckIsCombo, ChatAlone, Holds, Combo, TypeOK
<1>a. AllRun
  BY DEF Runs, CurrentIsTaken, PrecheckIsCombo, ChatAlone, Holds
<1>1. CASE \E l \in Loops : LoopStep(l)
  <2>1. PICK l \in Loops : LoopStep(l)
    BY <1>1
  <2>2. \A k \in Loops \ {l} : pc'[k] = "off"
    BY <2>1, LoopFrames, WorksAlone DEF Rests
  <2>3. Runs(l)'
    BY <2>1, LoopRuns
  <2>4. \A k \in Loops \ {l} : Runs(k)'
    BY <2>2 DEF Runs, Executing, Working, Settling
  <2> QED BY <1>0, <2>3, <2>4
<1>2. CASE UNCHANGED <<pc, taken, current, chat>> /\ counted' \subseteq counted
  BY <1>0, <1>a, <1>2 DEF Runs, Combo
<1>3. CASE Started
  <2>1. PICK l \in Loops : pc' = [pc EXCEPT ![l] = "top"]
    BY <1>3 DEF Started
  <2>2. UNCHANGED <<taken, current, chat, counted>>
    BY <1>3 DEF Started
  <2> QED BY <1>0, <1>a, <2>1, <2>2 DEF Runs, Combo, Executing, Working, Settling
<1>4. CASE Crash
  BY <1>0, <1>4 DEF Crash, Runs, Executing, Working, Settling
<1>5. ASSUME NEW c \in Chats, Pause(c) PROVE AllRun'
  <2>1. UNCHANGED <<pc, taken, current>>
    BY <1>5 DEF Pause, loop
  <2>2. CASE state = "stopped"
    <3>1. counted' = {}
      BY <1>5, <2>2 DEF Pause, HeldPaused
    <3> QED BY <1>a, <2>1, <3>1 DEF Runs, Combo
  <2>3. CASE state # "stopped" /\ current = NoJob
    <3>1. \A l \in Loops : pc[l] \notin Executing
      BY <1>a, <2>3, JobTypes DEF Runs, NoJob
    <3> QED BY <1>a, <2>1, <3>1 DEF Runs, Combo
  <2>4. CASE state # "stopped" /\ current # NoJob
    <3>1. chat'[c] # "holding" /\ \A d \in Chats : d # c => chat'[d] = chat[d]
      BY <1>5, <2>4 DEF Pause
    <3>2. counted' \subseteq counted \cup {c}
      BY <1>5, <2>4 DEF Pause
    <3> QED BY <1>a, <2>1, <3>1, <3>2 DEF Runs, Combo
  <2> QED BY <2>2, <2>3, <2>4
<1>6. ASSUME NEW c \in Chats, Resume(c) PROVE AllRun'
  BY <1>a, <1>6 DEF Resume, Runs, Combo, loop
<1> QED
  BY <1>0, <1>1, <1>2, <1>3, <1>4, <1>5, <1>6 DEF Next, StartStep, vars, hold,
     loop, Effect, CallStart, CallStop, Halt, StartResumes, StopResumes, Recover,
     Reported, StartFails, Enqueue, EnqueuePass, AppStateChanges, ModeChanges

\* A turn whose pause() was counted and has returned keeps its priority, however
\* many engines have turns: nothing runs beside it but a job of the combination
\* pass (InferenceQueue.ts:264-283, 421-427).
THEOREM ChatKeepsPriority == Spec => []ChatAlone
<1>1. ChatInv /\ [Next]_vars => ChatInv'
  BY RowStep, PausedStep, RunsStep DEF ChatInv
<1>2. ChatInv => ChatAlone
  BY DEF ChatInv
<1> QED BY <1>1, <1>2, ChatInit, PTL DEF Spec

\* A loop that picks a job up has found the queue running.
LEMMA PicksUpRunning ==
  ASSUME TypeOK, NEW l \in Loops, LoopStep(l),
         pc[l] \notin PickedUp, pc'[l] \in PickedUp
  PROVE  state = "running"
<1> USE DEF TypeOK, PickedUp, Executing, Working, Settling, Goto
<1>1. CASE Dequeued(l)
  BY <1>1 DEF Dequeued, StillRunning
<1>2. CASE LoopEnds(l) \/ LoopRests(l) \/ LoopLooks(l) \/ SleepEnds(l) \/ Stats(l)
             \/ QueryFinds(l) \/ QueryFindsNothing(l)
  BY <1>2 DEF LoopEnds, LoopRests, LoopLooks, SleepEnds, Stats, QueryFinds,
     QueryFindsNothing
<1>3. CASE Unrunnable(l) \/ PrecheckDefers(l) \/ PrecheckDrops(l) \/ PrecheckRuns(l)
             \/ MarkedRunning(l) \/ MarkRunningFails(l) \/ HandlerEnds(l)
             \/ ClaimSiblings(l) \/ ClaimDrops(l) \/ BatchFails(l) \/ BatchAnswers(l)
             \/ SiblingSettles(l) \/ ApplyFails(l) \/ ComboEnds(l) \/ JobEnds(l)
  BY <1>3 DEF Unrunnable, PrecheckDefers, PrecheckDrops, PrecheckRuns, MarkedRunning,
     MarkRunningFails, HandlerEnds, ClaimSiblings, ClaimDrops, BatchFails,
     BatchAnswers, SiblingSettles, ApplyFails, ComboEnds, JobEnds
<1>4. CASE LoopFails(l)
  BY <1>4 DEF LoopFails
<1> QED BY <1>1, <1>2, <1>3, <1>4 DEF LoopStep

\* While a counted turn is under way no job is picked up: the one that may run
\* beside it was in its pre-check when the turn began (InferenceQueue.ts:421-427).
THEOREM NothingStartsUnderHold == Spec => HoldStartsNothing
<1> DEFINE Quiet == \A c \in Chats, l \in Loops :
      Holds(c) /\ Holds(c)' /\ pc'[l] \in PickedUp => pc[l] \in PickedUp
<1>1. ASSUME ChatInv, [Next]_vars, NEW c \in Chats, NEW l \in Loops, Holds(c),
             pc'[l] \in PickedUp, pc[l] \notin PickedUp
      PROVE  FALSE
  <2> USE DEF ChatInv, RowInv, PickedUp, Executing, Working, Settling
  <2>1. state = "paused" /\ counted # {}
    BY <1>1 DEF Holds, HeldPaused
  <2>2. CASE \E k \in Loops : LoopStep(k)
    <3>1. PICK k \in Loops : LoopStep(k)
      BY <2>2
    <3>2. k = l
      BY <1>1, <3>1, LoopFrames, WorksAlone DEF Rests
    <3> QED BY <1>1, <2>1, <3>1, <3>2, PicksUpRunning
  <2>3. CASE Started
    <3>1. PICK k \in Loops : pc' = [pc EXCEPT ![k] = "top"]
      BY <2>3 DEF Started
    <3> QED BY <1>1, <3>1 DEF TypeOK
  <2>4. CASE Crash
    BY <1>1, <2>4 DEF Crash
  <2>5. CASE pc' = pc
    BY <1>1, <2>5
  <2> QED
    BY <1>1, <2>2, <2>3, <2>4, <2>5 DEF Next, StartStep, vars, loop, Effect,
       StartResumes, StopResumes, Recover, Reported, StartFails, Enqueue, EnqueuePass,
       AppStateChanges, ModeChanges, Pause, Resume
<1>2. ChatInv /\ [Next]_vars => Quiet
  BY <1>1
<1>3. ChatInv /\ [Next]_vars => ChatInv'
  BY RowStep, PausedStep, RunsStep DEF ChatInv
<1> QED BY <1>2, <1>3, ChatInit, PTL DEF Spec, HoldStartsNothing
================================================================================
