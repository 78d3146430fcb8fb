------------------------ MODULE ScoringPipeline_proofs -------------------------
(***************************************************************************)
(* Proofs about the scoring run, for any rows, chains of awaits, contexts, *)
(* batches, runs, attempts, caps and kills.                                *)
(***************************************************************************)
EXTENDS ScoringPipeline, FiniteSetTheorems, WellFoundedInduction, TLAPS

(* The invariant.                                                           *)

\* What a chain of awaits keeps in hand, place by place.
GoodFrame(r) ==
  /\ r.at \notin {"idle", "create", "append"} => r.batch \in BatchIds
  /\ r.at \in {"claimReasons", "reserve", "send", "ok", "retryLater", "threw",
               "failed", "keyInvalid"}
       => r.from \in Submitting /\ r.kind \in {"submit", "reasons"}
  /\ r.at \in {"claim", "build"} => r.kind = "submit"
  /\ r.at = "buildReasons" => r.kind = "reasons"
  /\ r.at \in {"claimReasons", "reserve", "send", "ok"} => r.by \in Runs
  /\ r.at \in {"listed", "fetch", "relevanceDone", "requeue"} => r.from \in Waiting

FrameInv == \A f \in Frames : GoodFrame(frame[f])

\* The run in the store: its batches are numbered from 1, those that are over
\* aside none has spent its attempts, and a key is kept only if it was minted.
GoodBatch(r) ==
  /\ r.phase \in Terminal \/ r.attempt < MaxBatchAttempts
  /\ r.idem # {} => r.keyGen > 0
  /\ \A p, q \in r.idem : p = q

StoreInv ==
  /\ run <= created
  /\ \E n \in 0..MaxBatches : Present = 1..n
  /\ \A b \in BatchIds \ Present : batches[b] = NoBatch
  /\ run = NoRun => Present = {}
  /\ \A b \in BatchIds : GoodBatch(batches[b])

\* A use of a key is the key with the ids it was, or is to be, sent with: by a
\* job, by a chain that holds it, by the batch it is stored on.
Uses ==
  {<<j.key, j.ids>> : j \in jobs}
    \cup {<<frame[f].key, frame[f].ids>> :
            f \in {g \in Frames : frame[g].at \in {"send", "ok"}}}
    \cup UNION {{<<KeyOf(b, p[1], batches[b].keyGen - 1), p[2]>> :
                   p \in batches[b].idem} : b \in BatchIds}

SameLine(k, l) == k[1] = l[1] /\ k[2] = l[2] /\ k[3] = l[3]
InThisRun(k) == run # NoRun /\ k[1] = run

\* The key of use u is the last that its batch minted.
IsLast(u) == InThisRun(u[1]) /\ u[1][4] + 1 = batches[u[1][2]].keyGen

KeyInv ==
  /\ \A u \in Uses :
       /\ u[1] \in Runs \X BatchIds \X {"rel", "r"} \X Nat
       /\ u[1][1] <= created
       /\ InThisRun(u[1]) => u[1][4] < batches[u[1][2]].keyGen
  \* a key stands for one list of ids
  /\ \A u, v \in Uses : u[1] = v[1] => u[2] = v[2]
  \* the last key of a batch is the stored one, or was given up
  /\ \A u \in Uses : IsLast(u) =>
       /\ \A p \in batches[u[1][2]].idem : p = <<u[1][3], u[2]>>
       /\ batches[u[1][2]].idem = {} => u[1] \in dropped
  \* and the ids of a key are sent with the next one only if it was given up
  /\ \A u, v \in Uses :
       u[2] = v[2] /\ SameLine(u[1], v[1]) /\ u[1][4] + 1 = v[1][4]
         => u[1] \in dropped

\* A chain told "ok" has a job for its key and ids.
HasJob(k, ids) == \E j \in jobs : j.key = k /\ j.ids = ids
AnswerInv ==
  /\ \A f \in Frames : frame[f].at = "ok" => HasJob(frame[f].key, frame[f].ids)
  /\ DecodesItsOwnIds

IInv == TypeOK /\ FrameInv /\ StoreInv /\ KeyInv /\ AnswerInv
--------------------------------------------------------------------------------
\* Of the batches that may be submitted one comes first.
LEMMA LeastBatch ==
  ASSUME NEW S \in SUBSET BatchIds, S # {}
  PROVE  \E x \in S : \A y \in S : x <= y
<1>. DEFINE R == {p \in Nat \X Nat : p[1] < p[2]}
<1>1. IsWellFoundedOn(R, Nat)
  BY NatLessThanWellFounded DEF OpToRel
<1>2. S \subseteq Nat
  BY DEF BatchIds
<1>3. \E x \in S : \A y \in S : <<y, x>> \notin R
  <2>. HIDE DEF R
  <2>. QED BY <1>1, <1>2, WFMin
<1>4. \A x, y \in S : <<y, x>> \notin R => x <= y
  BY <1>2, SMT
<1>. QED BY <1>3, <1>4
--------------------------------------------------------------------------------
(* What a step does to the chain that takes it.                             *)

HoldsKey == {"send", "ok"}

\* f goes on with r; it comes to hold a key only where it is reserved, and is
\* told "ok" only by the gateway.
Moved(f, r) ==
  /\ r \in FrameRecord /\ GoodFrame(r)
  /\ frame' = [frame EXCEPT ![f] = r]
  /\ r.at \in HoldsKey =>
       \/ Reserve(f)
       \/ frame[f].at \in HoldsKey /\ r.key = frame[f].key /\ r.ids = frame[f].ids
  /\ r.at = "ok" => SendAccepted(f)

LEMMA IdleGood == IdleFrame \in FrameRecord /\ GoodFrame(IdleFrame)
<1>1. 0 \in 0..MaxBatches /\ 0 \in 0..MaxRuns
  BY BoundsAssumption
<1>. QED BY <1>1 DEF IdleFrame, FrameRecord, GoodFrame, FramePlaces, BatchPhase, Key, NoRun

LEMMA IdleKind == IdleFrame.kind = "submit"
  BY DEF IdleFrame

\* A chain that ends here.
LEMMA LeaveMoved == ASSUME NEW f \in Frames, Leave(f) PROVE \E r : Moved(f, r)
<1>1. Moved(f, IdleFrame)
  BY IdleGood DEF Leave, Moved, IdleFrame, HoldsKey
<1>. QED BY <1>1

\* A chain that goes on to its next await with what it has in hand.
LEMMA MoveMoved ==
  ASSUME TypeOK, FrameInv, NEW f \in Frames, NEW w \in FramePlaces, Move(f, w),
         w \in {"build", "reserve", "fetch"} \cup Outcomes \cup {"ok"},
         w = "build" => frame[f].at = "claim",
         w = "reserve" => frame[f].at = "claimReasons",
         w = "fetch" => frame[f].at = "listed",
         w = "ok" => frame[f].at = "send" /\ SendAccepted(f),
         w \in {"failed", "retryLater", "threw"} =>
           frame[f].at \in {"send", "claimReasons"},
         w = "requeue" => frame[f].at = "fetch",
         w = "markDone" => frame[f].at \notin {"idle", "create", "append"}
  PROVE  \E r : Moved(f, r)
<1>. DEFINE o == frame[f]
            r == IF w \in Outcomes
                 THEN [o EXCEPT !.at = w, !.ids = {}, !.key = NoKey, !.by = NoRun]
                 ELSE [o EXCEPT !.at = w]
<1>1. o \in FrameRecord /\ GoodFrame(o)
  BY DEF TypeOK, FrameInv
<1>2. NoKey \in Key /\ NoRun \in 0..MaxRuns
  BY BoundsAssumption DEF Key, NoRun
<1>3. r \in FrameRecord
  BY <1>1, <1>2 DEF FrameRecord
<1>4. /\ r.at = w /\ r.kind = o.kind /\ r.batch = o.batch /\ r.from = o.from
      /\ w \notin Outcomes => r.key = o.key /\ r.ids = o.ids /\ r.by = o.by
  BY <1>1 DEF FrameRecord
<1>5. frame' = [frame EXCEPT ![f] = r]
  BY DEF Move
<1>6. GoodFrame(r)
  <2>. HIDE DEF r
  <2>1. r.at \notin {"idle", "create", "append"} /\ r.batch \in BatchIds
    BY <1>1, <1>4 DEF GoodFrame, Outcomes
  <2>2. r.at \in {"reserve", "ok", "retryLater", "threw", "failed"} =>
          r.from \in Submitting /\ r.kind \in {"submit", "reasons"}
    BY <1>1, <1>4 DEF GoodFrame, Outcomes
  <2>3. r.at = "build" => r.kind = "submit"
    BY <1>1, <1>4 DEF GoodFrame, Outcomes
  <2>4. r.at \in {"reserve", "ok"} => r.by \in Runs
    BY <1>1, <1>4 DEF GoodFrame, Outcomes
  <2>5. r.at \in {"fetch", "requeue"} => r.from \in Waiting
    BY <1>1, <1>4 DEF GoodFrame, Outcomes
  <2>6. w \in {"build", "reserve", "fetch", "ok", "failed", "retryLater", "threw",
               "requeue", "markDone"}
    BY DEF Outcomes
  <2>. QED BY <1>4, <2>1, <2>2, <2>3, <2>4, <2>5, <2>6 DEF GoodFrame
<1>7. Moved(f, r)
  <2>. HIDE DEF r
  <2>. QED BY <1>3, <1>4, <1>5, <1>6 DEF Moved, HoldsKey, Outcomes
<1>. QED BY <1>7

LEMMA BatchNumber == BatchIds \subseteq 0..MaxBatches
  BY BoundsAssumption DEF BatchIds

\* The looks: what a chain begins with.
LEMMA LooksMoved ==
  ASSUME TypeOK, NEW f \in Frames, NEW c \in Contexts, Look(f, c)
  PROVE  \E r : Moved(f, r)
<1>0. c \in {"foreground", "background", "task"}
  BY SetsAssumption
<1>1. CASE LookSubmit(f, c)
  <2>. DEFINE b == Lowest(Admissible(c))
              r == [IdleFrame EXCEPT !.at = "claim", !.ctx = c, !.batch = b]
  <2>1. b \in BatchIds
    <3>1. Admissible(c) \subseteq BatchIds /\ Admissible(c) # {}
      BY <1>1 DEF LookSubmit, Admissible, Queued, Present
    <3>2. \E x \in Admissible(c) : \A y \in Admissible(c) : x <= y
      BY <3>1, LeastBatch
    <3>. QED BY <3>1, <3>2 DEF Lowest
  <2>2. frame' = [frame EXCEPT ![f] = r]
    BY <1>1 DEF LookSubmit
  <2>. HIDE DEF b
  <2>3. r \in FrameRecord /\ r.at = "claim" /\ r.kind = "submit" /\ r.batch = b
    BY <2>1, IdleKind, IdleGood, <1>0, BatchNumber DEF FrameRecord, FramePlaces
  <2>4. Moved(f, r)
    <3>. HIDE DEF r
    <3>. QED BY <2>1, <2>2, <2>3 DEF Moved, GoodFrame, HoldsKey
  <2>. QED BY <2>4
<1>2. CASE LookReasons(f, c)
  <2>1. PICK b \in Present : frame' = [frame EXCEPT ![f] =
            [IdleFrame EXCEPT !.at = "buildReasons", !.kind = "reasons",
                              !.ctx = c, !.batch = b]]
    BY <1>2 DEF LookReasons
  <2>. DEFINE r == [IdleFrame EXCEPT !.at = "buildReasons", !.kind = "reasons",
                                     !.ctx = c, !.batch = b]
  <2>2. b \in BatchIds
    BY DEF Present
  <2>3. r \in FrameRecord /\ r.at = "buildReasons" /\ r.kind = "reasons" /\ r.batch = b
    BY <2>2, IdleGood, <1>0, BatchNumber DEF FrameRecord, FramePlaces
  <2>4. Moved(f, r)
    <3>1. frame' = [frame EXCEPT ![f] = r]
      BY <2>1
    <3>. HIDE DEF r
    <3>. QED BY <3>1, <2>2, <2>3 DEF Moved, GoodFrame, HoldsKey
  <2>. QED BY <2>4
<1>3. CASE LookCheck(f, c)
  <2>1. PICK b \in Present :
          /\ batches[b].phase \in Waiting
          /\ frame' = [frame EXCEPT ![f] =
               [IdleFrame EXCEPT !.at = IF c = "task" THEN "listed" ELSE "fetch",
                              !.kind = "check", !.ctx = c, !.batch = b,
                              !.from = batches[b].phase, !.ids = ResultIds(b),
                              !.key = batches[b].job]]
    BY <1>3 DEF LookCheck
  <2>. DEFINE r == [IdleFrame EXCEPT !.at = IF c = "task" THEN "listed" ELSE "fetch",
                              !.kind = "check", !.ctx = c, !.batch = b,
                              !.from = batches[b].phase, !.ids = ResultIds(b),
                              !.key = batches[b].job]
  <2>2. b \in BatchIds
    BY DEF Present
  <2>3. /\ batches[b].phase \in BatchPhase /\ batches[b].job \in Key
        /\ ResultIds(b) \in SUBSET Ids
    BY <2>2 DEF TypeOK, BatchRecord, ResultIds
  <2>4. r \in FrameRecord /\ r.at \in {"listed", "fetch"} /\ r.batch = b
          /\ r.from = batches[b].phase
    BY <2>2, <2>3, IdleGood, <1>0, BatchNumber DEF FrameRecord, FramePlaces
  <2>5. Moved(f, r)
    <3>1. frame' = [frame EXCEPT ![f] = r]
      BY <2>1
    <3>. HIDE DEF r
    <3>. QED BY <3>1, <2>1, <2>2, <2>4 DEF Moved, GoodFrame, HoldsKey
  <2>. QED BY <2>5
<1>. QED BY <1>1, <1>2, <1>3 DEF Look

LEMMA EnqueueLookMoved ==
  ASSUME TypeOK, NEW f \in Frames, NEW ro \in Kinds, EnqueueLook(f, ro)
  PROVE  \E r : Moved(f, r)
<1>1. PICK X \in SUBSET Ids : frame' = [frame EXCEPT ![f] =
            [IdleFrame EXCEPT !.at = IF run = NoRun THEN "create" ELSE "append",
                          !.kind = IF ro THEN "orphans" ELSE "enqueue",
                          !.ids = X]]
  BY DEF EnqueueLook
<1>. DEFINE r == [IdleFrame EXCEPT !.at = IF run = NoRun THEN "create" ELSE "append",
                          !.kind = IF ro THEN "orphans" ELSE "enqueue",
                          !.ids = X]
<1>2. r \in FrameRecord /\ r.at \in {"create", "append"}
  BY IdleGood, SetsAssumption DEF FrameRecord, FramePlaces, IdleFrame
<1>3. Moved(f, r)
  <2>1. frame' = [frame EXCEPT ![f] = r]
    BY <1>1
  <2>. HIDE DEF r
  <2>. QED BY <2>1, <1>2 DEF Moved, GoodFrame, HoldsKey
<1>. QED BY <1>3

LEMMA InRun == ASSUME TypeOK, NEW b, PhaseOf(b) # "absent"
               PROVE  run # NoRun /\ run \in Runs /\ PhaseOf(b) = batches[b].phase
  BY DEF PhaseOf, TypeOK, NoRun, Runs

\* The steps of a chain that is at work: those that end it or take it on as it is.
LEMMA PlainStepsMoved ==
  ASSUME TypeOK, FrameInv, NEW f \in Frames,
         \/ AppendBatch(f) \/ CreateRun(f) \/ Claim(f) \/ SendAccepted(f)
         \/ SendRefused(f) \/ ToWaiting(f) \/ GiveBack(f) \/ FailOrRetry(f)
         \/ FailNow(f) \/ MarkDone(f) \/ ClaimReasons(f) \/ TaskTurn(f)
         \/ FetchLater(f) \/ FetchGivesUp(f) \/ ApplyReasons(f) \/ Requeue(f)
  PROVE  \E r : Moved(f, r)
<1>1. CASE Leave(f)
  BY <1>1, LeaveMoved
<1>2. CASE Claim(f) /\ Move(f, "build")
  <2>1. frame[f].at = "claim"
    BY <1>2 DEF Claim, At
  <2>. QED BY <1>2, <2>1, MoveMoved DEF FramePlaces, Outcomes
<1>3. CASE SendAccepted(f)
  <2>1. frame[f].at = "send"
    BY <1>3 DEF SendAccepted, At
  <2>2. PICK w \in {"ok", "failed", "retryLater"} : Move(f, w)
    BY <1>3 DEF SendAccepted
  <2>. QED BY <1>3, <2>1, <2>2, MoveMoved DEF FramePlaces, Outcomes
<1>4. CASE SendRefused(f)
  <2>1. frame[f].at = "send"
    BY <1>4 DEF SendRefused, At
  <2>2. PICK w \in {"failed", "retryLater"} : Move(f, w)
    BY <1>4 DEF SendRefused
  <2>. QED BY <1>4, <2>1, <2>2, MoveMoved DEF FramePlaces, Outcomes
<1>5. CASE ClaimReasons(f)
  <2>1. frame[f].at = "claimReasons"
    BY <1>5 DEF ClaimReasons, At
  <2>2. Leave(f) \/ \E w \in {"reserve", "markDone", "threw"} : Move(f, w)
    BY <1>5 DEF ClaimReasons
  <2>. QED BY <1>1, <1>5, <2>1, <2>2, MoveMoved DEF FramePlaces, Outcomes
<1>6. CASE TaskTurn(f) /\ Move(f, "fetch")
  <2>1. frame[f].at = "listed"
    BY <1>6 DEF TaskTurn, At
  <2>. QED BY <1>6, <2>1, MoveMoved DEF FramePlaces, Outcomes
<1>7. CASE FetchGivesUp(f)
  <2>1. frame[f].at = "fetch"
    BY <1>7 DEF FetchGivesUp, At
  <2>2. Move(f, "requeue")
    BY <1>7 DEF FetchGivesUp
  <2>. QED BY <2>1, <2>2, MoveMoved DEF FramePlaces, Outcomes
<1>8. CASE ApplyReasons(f)
  <2>1. frame[f].at = "fetch"
    BY <1>8 DEF ApplyReasons, At
  <2>2. PICK w \in {"requeue", "markDone"} : Move(f, w)
    BY <1>8 DEF ApplyReasons
  <2>. QED BY <2>1, <2>2, MoveMoved DEF FramePlaces, Outcomes
<1>. QED
  BY <1>1, <1>2, <1>3, <1>4, <1>5, <1>6, <1>7, <1>8
     DEF AppendBatch, CreateRun, Claim, ToWaiting, GiveBack, FailOrRetry, FailNow,
         MarkDone, TaskTurn, FetchLater, Requeue

LEMMA BuildMoved ==
  ASSUME TypeOK, FrameInv, NEW f \in Frames, Build(f)
  PROVE  \E r : Moved(f, r)
<1>. DEFINE b == frame[f].batch
            o == frame[f]
<1>1. o \in FrameRecord /\ GoodFrame(o) /\ o.at = "build" /\ f \in DOMAIN frame
  BY DEF TypeOK, FrameInv, Build, At
<1>2. CASE Leave(f)
  BY <1>2, LeaveMoved
<1>3. CASE ~Leave(f)
  <2>1. PhaseOf(b) \in Submitting
    BY <1>3 DEF Build
  <2>2. run \in Runs /\ PhaseOf(b) \in BatchPhase /\ b \in BatchIds
    BY <1>1, <2>1, InRun DEF GoodFrame, Submitting, BatchPhase
  <2>3. PICK X, Y \in SUBSET Ids, next \in {"markDone", "reserve", "keyInvalid", "threw"} :
          frame' = [frame EXCEPT
                   ![f].at = next, ![f].ids = Y, ![f].by = run,
                   ![f].from = IF next = "keyInvalid" THEN PhaseOf(b)
                               ELSE SubmitPhase(b)]
    <3>. DEFINE owed == {i \in batches[b].cand :
                 row[i] = IF batches[b].reasonsOnly THEN "pending" ELSE "unscored"}
    <3>1. owed \in SUBSET Ids
      BY <2>2 DEF TypeOK, BatchRecord
    <3>. QED BY <1>3, <3>1 DEF Build
  <2>. DEFINE from == IF next = "keyInvalid" THEN PhaseOf(b) ELSE SubmitPhase(b)
              r == [o EXCEPT !.at = next, !.ids = Y, !.by = run, !.from = from]
  <2>4. from \in Submitting
    BY <2>1 DEF SubmitPhase, Submitting
  <2>5. frame' = [frame EXCEPT ![f] = r]
    BY <2>3, <1>1
  <2>. HIDE DEF from
  <2>6. r \in FrameRecord
    <3>1. run \in 0..MaxRuns /\ from \in BatchPhase /\ next \in FramePlaces
      BY <2>4 DEF TypeOK, BatchPhase, FramePlaces
    <3>. QED BY <1>1, <3>1 DEF FrameRecord
  <2>7. /\ r.at = next /\ r.kind = o.kind /\ r.batch = b /\ r.from = from /\ r.by = run
    BY <1>1 DEF FrameRecord
  <2>8. o.kind = "submit"
    BY <1>1 DEF GoodFrame
  <2>9. Moved(f, r)
    <3>. HIDE DEF r, o, b
    <3>. QED BY <2>2, <2>4, <2>5, <2>6, <2>7, <2>8 DEF Moved, GoodFrame, HoldsKey
  <2>. QED BY <2>9
<1>. QED BY <1>2, <1>3

LEMMA BuildReasonsMoved ==
  ASSUME TypeOK, FrameInv, NEW f \in Frames, BuildReasons(f)
  PROVE  \E r : Moved(f, r)
<1>. DEFINE b == frame[f].batch
            o == frame[f]
<1>1. o \in FrameRecord /\ GoodFrame(o) /\ o.at = "buildReasons" /\ f \in DOMAIN frame
  BY DEF TypeOK, FrameInv, BuildReasons, At
<1>2. CASE Leave(f)
  BY <1>2, LeaveMoved
<1>3. CASE Move(f, "markDone")
  BY <1>1, <1>3, MoveMoved DEF FramePlaces, Outcomes
<1>4. CASE ~Leave(f) /\ ~Move(f, "markDone")
  <2>1. PhaseOf(b) = "needs-reasons-submit"
    BY <1>4 DEF BuildReasons
  <2>2. run \in Runs /\ b \in BatchIds
    BY <1>1, <2>1, InRun DEF GoodFrame
  <2>3. PICK Y \in SUBSET Ids :
          frame' = [frame EXCEPT ![f].at = "claimReasons", ![f].ids = Y,
                                 ![f].from = "submitting-reasons", ![f].by = run]
    <3>. DEFINE owed == {i \in batches[b].reasonCand : row[i] = "pending"}
    <3>1. owed \in SUBSET Ids
      BY <2>2 DEF TypeOK, BatchRecord
    <3>. QED BY <1>4, <3>1 DEF BuildReasons
  <2>. DEFINE r == [o EXCEPT !.at = "claimReasons", !.ids = Y,
                             !.from = "submitting-reasons", !.by = run]
  <2>4. frame' = [frame EXCEPT ![f] = r]
    BY <2>3, <1>1
  <2>5. r \in FrameRecord
    <3>1. run \in 0..MaxRuns /\ "submitting-reasons" \in BatchPhase
            /\ "claimReasons" \in FramePlaces
      BY DEF TypeOK, BatchPhase, Submitting, FramePlaces
    <3>. QED BY <1>1, <3>1 DEF FrameRecord
  <2>6. /\ r.at = "claimReasons" /\ r.kind = o.kind /\ r.batch = b
        /\ r.from = "submitting-reasons" /\ r.by = run
    BY <1>1 DEF FrameRecord
  <2>7. o.kind = "reasons"
    BY <1>1 DEF GoodFrame
  <2>8. Moved(f, r)
    <3>. HIDE DEF r, o, b
    <3>. QED BY <2>2, <2>4, <2>5, <2>6, <2>7 DEF Moved, GoodFrame, HoldsKey, Submitting
  <2>. QED BY <2>8
<1>. QED BY <1>2, <1>3, <1>4

LEMMA ApplyRelevanceMoved ==
  ASSUME TypeOK, FrameInv, NEW f \in Frames, ApplyRelevance(f)
  PROVE  \E r : Moved(f, r)
<1>. DEFINE o == frame[f]
<1>1. o \in FrameRecord /\ GoodFrame(o) /\ o.at = "fetch" /\ f \in DOMAIN frame
  BY DEF TypeOK, FrameInv, ApplyRelevance, At
<1>2. CASE Move(f, "requeue")
  BY <1>1, <1>2, MoveMoved DEF FramePlaces, Outcomes
<1>3. CASE ~Move(f, "requeue")
  <2>1. PICK Y \in SUBSET Ids :
          frame' = [frame EXCEPT ![f].at = "relevanceDone", ![f].ids = Y, ![f].key = NoKey]
    <3>. DEFINE readable == IF JobOf(frame[f].key).by = run THEN frame[f].ids ELSE {}
    <3>1. readable \in SUBSET Ids
      BY <1>1 DEF FrameRecord
    <3>. QED BY <1>3, <3>1 DEF ApplyRelevance
  <2>. DEFINE r == [o EXCEPT !.at = "relevanceDone", !.ids = Y, !.key = NoKey]
  <2>2. frame' = [frame EXCEPT ![f] = r]
    BY <2>1, <1>1
  <2>3. r \in FrameRecord
    <3>1. NoKey \in Key /\ "relevanceDone" \in FramePlaces
      BY DEF Key, FramePlaces
    <3>. QED BY <1>1, <3>1 DEF FrameRecord
  <2>4. r.at = "relevanceDone" /\ r.kind = o.kind /\ r.batch = o.batch /\ r.from = o.from
    BY <1>1 DEF FrameRecord
  <2>5. Moved(f, r)
    <3>. HIDE DEF r, o
    <3>. QED BY <1>1, <2>2, <2>3, <2>4 DEF Moved, GoodFrame, HoldsKey
  <2>. QED BY <2>5
<1>. QED BY <1>2, <1>3

LEMMA RelevanceDoneMoved ==
  ASSUME TypeOK, FrameInv, NEW f \in Frames, RelevanceDone(f)
  PROVE  \E r : Moved(f, r)
<1>. DEFINE o == frame[f]
            r == [o EXCEPT !.at = "buildReasons", !.kind = "reasons",
                           !.ids = {}, !.key = NoKey]
<1>1. o \in FrameRecord /\ GoodFrame(o) /\ o.at = "relevanceDone" /\ f \in DOMAIN frame
  BY DEF TypeOK, FrameInv, RelevanceDone, At
<1>2. CASE Leave(f)
  BY <1>2, LeaveMoved
<1>3. CASE ~Leave(f)
  <2>2. frame' = [frame EXCEPT ![f] = r]
    BY <1>1, <1>3 DEF RelevanceDone
  <2>3. r \in FrameRecord
    <3>1. NoKey \in Key /\ "buildReasons" \in FramePlaces
      BY DEF Key, FramePlaces
    <3>. QED BY <1>1, <3>1 DEF FrameRecord
  <2>4. r.at = "buildReasons" /\ r.kind = "reasons" /\ r.batch = o.batch
    BY <1>1 DEF FrameRecord
  <2>5. Moved(f, r)
    <3>. HIDE DEF r, o
    <3>. QED BY <1>1, <2>2, <2>3, <2>4 DEF Moved, GoodFrame, HoldsKey
  <2>. QED BY <2>5
<1>. QED BY <1>2, <1>3

\* The key a reserve writes down, and who holds it then.
SendPhase(f) == IF frame[f].from = "submitting-relevance" THEN "rel" ELSE "r"
SendGen(f) ==
  LET b == frame[f].batch
  IN IF Reusable(b, SendPhase(f), frame[f].ids) THEN batches[b].keyGen - 1
     ELSE MintedGen(b)
SendKey(f) == KeyOf(frame[f].batch, SendPhase(f), SendGen(f))

LEMMA ReserveShape ==
  ASSUME TypeOK, FrameInv, StoreInv, NEW f \in Frames, Reserve(f), ~Lost(f)
  PROVE  /\ frame[f].batch \in Present /\ run \in Runs
         /\ frame[f].from \in Submitting
         /\ batches[frame[f].batch].phase = frame[f].from
         /\ SendPhase(f) \in {"rel", "r"} /\ SendGen(f) \in Nat
         /\ SendKey(f) = <<run, frame[f].batch, SendPhase(f), SendGen(f)>>
         /\ SendKey(f) \in Key
         /\ batches' = [batches EXCEPT ![frame[f].batch] =
              [batches[frame[f].batch] EXCEPT !.idem = {<<SendPhase(f), frame[f].ids>>},
                                              !.keyGen = SendGen(f) + 1]]
         /\ frame' = [frame EXCEPT ![f] =
              [frame[f] EXCEPT !.at = "send", !.key = SendKey(f)]]
<1>. DEFINE b == frame[f].batch
<1>1. /\ frame[f] \in FrameRecord /\ GoodFrame(frame[f]) /\ frame[f].at = "reserve"
      /\ f \in DOMAIN frame
  BY DEF TypeOK, FrameInv, Reserve, At
<1>2. b \in BatchIds /\ frame[f].from \in Submitting
  BY <1>1 DEF GoodFrame
<1>3. PhaseOf(b) = frame[f].from /\ PhaseOf(b) # "absent"
  BY <1>2 DEF Lost, Submitting
<1>4. run \in Runs /\ batches[b].phase = frame[f].from /\ b \in Present
  BY <1>2, <1>3, InRun DEF Present
<1>5. batches[b] \in BatchRecord /\ GoodBatch(batches[b])
  BY <1>2 DEF TypeOK, StoreInv
<1>6. batches[b].keyGen \in Nat /\ (batches[b].idem # {} => batches[b].keyGen > 0)
  BY <1>5 DEF BatchRecord, GoodBatch
<1>7. Reusable(b, SendPhase(f), frame[f].ids) => batches[b].idem # {}
  BY DEF Reusable
<1>8. SendGen(f) \in Nat
  BY <1>6, <1>7 DEF SendGen, MintedGen
<1>9. SendPhase(f) \in {"rel", "r"}
  BY DEF SendPhase
<1>10. SendKey(f) = <<run, b, SendPhase(f), SendGen(f)>>
  BY DEF SendKey, KeyOf
<1>11. SendKey(f) \in Key
  BY <1>2, <1>4, <1>8, <1>9, <1>10 DEF Key
<1>12. batches' = [batches EXCEPT ![b] =
         [batches[b] EXCEPT !.idem = {<<SendPhase(f), frame[f].ids>>},
                            !.keyGen = SendGen(f) + 1]]
  BY DEF Reserve, Write, SendPhase, SendGen
<1>13. frame' = [frame EXCEPT ![f] = [frame[f] EXCEPT !.at = "send", !.key = SendKey(f)]]
  BY <1>1 DEF Reserve, SendKey, SendPhase, SendGen
<1>. QED BY <1>2, <1>4, <1>8, <1>9, <1>10, <1>11, <1>12, <1>13

LEMMA ReserveMoved ==
  ASSUME TypeOK, FrameInv, StoreInv, NEW f \in Frames, Reserve(f)
  PROVE  \E r : Moved(f, r)
<1>1. CASE Lost(f)
  BY <1>1, LeaveMoved DEF Reserve
<1>2. CASE ~Lost(f)
  <2>. DEFINE o == frame[f]
              r == [o EXCEPT !.at = "send", !.key = SendKey(f)]
  <2>1. o \in FrameRecord /\ GoodFrame(o) /\ o.at = "reserve"
    BY DEF TypeOK, FrameInv, Reserve, At
  <2>2. frame' = [frame EXCEPT ![f] = r] /\ SendKey(f) \in Key
    BY <1>2, ReserveShape
  <2>3. r \in FrameRecord
    <3>1. "send" \in FramePlaces
      BY DEF FramePlaces
    <3>. QED BY <2>1, <2>2, <3>1 DEF FrameRecord
  <2>4. /\ r.at = "send" /\ r.kind = o.kind /\ r.batch = o.batch /\ r.from = o.from
        /\ r.by = o.by
    BY <2>1 DEF FrameRecord
  <2>5. Moved(f, r)
    <3>. HIDE DEF r, o
    <3>. QED BY <2>1, <2>2, <2>3, <2>4 DEF Moved, GoodFrame, HoldsKey
  <2>. QED BY <2>5
<1>. QED BY <1>1, <1>2

\* One chain takes a step.
ChainStep(f) ==
  \/ FrameStep(f)
  \/ \E c \in Contexts : Look(f, c)
  \/ \E ro \in Kinds : EnqueueLook(f, ro)

LEMMA ChainStepMoved ==
  ASSUME TypeOK, FrameInv, StoreInv, NEW f \in Frames, ChainStep(f)
  PROVE  \E r : Moved(f, r)
BY LooksMoved, EnqueueLookMoved, PlainStepsMoved, BuildMoved, BuildReasonsMoved,
   ApplyRelevanceMoved, RelevanceDoneMoved, ReserveMoved
   DEF ChainStep, FrameStep
--------------------------------------------------------------------------------
(* What a step does to the batches of the run.                              *)

\* Batch r may become new: one that is over stays over, one that waits has a
\* job that was sent with the ids it lists.
Advances(r, new) ==
  /\ new \in BatchRecord /\ GoodBatch(new)
  /\ new.reasonsOnly = r.reasonsOnly /\ new.phase # "absent"
  /\ r.phase \in Terminal => new.phase = r.phase
  /\ new.phase = "waiting-relevance" => HasJob(new.job, new.cand)
  /\ new.phase = "waiting-reasons" => HasJob(new.job, new.reasonCand)

Carried ==
  /\ batches' \in [BatchIds -> BatchRecord]
  /\ \A b \in BatchIds :
       IF b \in Present THEN Advances(batches[b], batches'[b])
       ELSE batches'[b] = batches[b]

KeysStay == \A b \in BatchIds :
  batches'[b].idem = batches[b].idem /\ batches'[b].keyGen = batches[b].keyGen

LEMMA StayAdvances ==
  ASSUME TypeOK, StoreInv, AnswerInv, NEW b \in Present
  PROVE  Advances(batches[b], batches[b])
<1>1. b \in BatchIds /\ batches[b].phase # "absent" /\ batches[b] \in BatchRecord
  BY DEF Present, TypeOK
<1>2. GoodBatch(batches[b])
  BY <1>1 DEF StoreInv
<1>3. batches[b].phase \in Waiting => HasJob(batches[b].job, ResultIds(b))
  BY DEF AnswerInv, DecodesItsOwnIds, HasJob
<1>. QED BY <1>1, <1>2, <1>3 DEF Advances, ResultIds, Waiting

LEMMA SameCarried ==
  ASSUME TypeOK, StoreInv, AnswerInv, UNCHANGED batches
  PROVE  Carried /\ KeysStay
<1>1. \A b \in Present : Advances(batches[b], batches'[b])
  BY StayAdvances
<1>. QED BY <1>1 DEF Carried, KeysStay, TypeOK

LEMMA WriteCarried ==
  ASSUME TypeOK, StoreInv, AnswerInv, NEW b \in Present, NEW new,
         Write(b, new), Advances(batches[b], new)
  PROVE  /\ Carried
         /\ new.idem = batches[b].idem /\ new.keyGen = batches[b].keyGen => KeysStay
<1>1. b \in BatchIds /\ new \in BatchRecord /\ batches \in [BatchIds -> BatchRecord]
  BY DEF Present, Advances, TypeOK
<1>2. batches' = [batches EXCEPT ![b] = new]
  BY DEF Write
<1>3. /\ batches' \in [BatchIds -> BatchRecord] /\ batches'[b] = new
      /\ \A c \in BatchIds : c # b => batches'[c] = batches[c]
  BY <1>1, <1>2
<1>4. \A c \in Present : Advances(batches[c], batches'[c])
  BY <1>3, StayAdvances DEF Present
<1>5. Carried
  BY <1>3, <1>4 DEF Carried
<1>6. new.idem = batches[b].idem /\ new.keyGen = batches[b].keyGen => KeysStay
  BY <1>3 DEF KeysStay
<1>. QED BY <1>5, <1>6

\* A batch that is not over goes to a phase in which no result is awaited.
LEMMA PhaseAdvances ==
  ASSUME TypeOK, StoreInv, NEW b \in Present, ~IsTerminal(b),
         NEW ph \in BatchPhase \ (Waiting \cup {"absent"})
  PROVE  LET new == [batches[b] EXCEPT !.phase = ph]
         IN  /\ Advances(batches[b], new)
             /\ new.idem = batches[b].idem /\ new.keyGen = batches[b].keyGen
<1>. DEFINE new == [batches[b] EXCEPT !.phase = ph]
<1>1. b \in BatchIds /\ batches[b] \in BatchRecord /\ GoodBatch(batches[b])
  BY DEF Present, TypeOK, StoreInv
<1>2. new \in BatchRecord
  BY <1>1 DEF BatchRecord
<1>3. /\ new.phase = ph /\ new.reasonsOnly = batches[b].reasonsOnly
      /\ new.idem = batches[b].idem /\ new.keyGen = batches[b].keyGen
      /\ new.attempt = batches[b].attempt
  BY <1>1 DEF BatchRecord
<1>4. Advances(batches[b], new)
  <2>. HIDE DEF new
  <2>. QED BY <1>1, <1>2, <1>3 DEF Advances, GoodBatch, IsTerminal, Waiting
<1>. QED BY <1>3, <1>4

\* One attempt is spent.
LEMMA RetriedAdvances ==
  ASSUME TypeOK, StoreInv, NEW b \in Present, ~IsTerminal(b),
         NEW ph \in {"queued", "needs-reasons-submit"}
  PROVE  LET new == Retried(batches[b], ph)
         IN  /\ Advances(batches[b], new) /\ new \in BatchRecord
             /\ new.idem = batches[b].idem /\ new.keyGen = batches[b].keyGen
             /\ new.phase \in {ph, "failed"}
             /\ Advances(batches[b], Forget(new))
             /\ Forget(new) = [new EXCEPT !.idem = {}]
<1>. DEFINE new == Retried(batches[b], ph)
            gone == Forget(new)
<1>1. b \in BatchIds /\ batches[b] \in BatchRecord /\ GoodBatch(batches[b])
  BY DEF Present, TypeOK, StoreInv
<1>2. batches[b].attempt \in 0..MaxBatchAttempts /\ batches[b].attempt < MaxBatchAttempts
  BY <1>1 DEF GoodBatch, BatchRecord, IsTerminal
<1>3. new \in BatchRecord
  <2>1. batches[b].attempt + 1 \in 0..MaxBatchAttempts
    BY <1>2, BoundsAssumption
  <2>2. "failed" \in BatchPhase /\ ph \in BatchPhase
    BY DEF BatchPhase, Terminal
  <2>. QED BY <1>1, <2>1, <2>2 DEF BatchRecord, Retried
<1>4. /\ new.phase = (IF batches[b].attempt + 1 >= MaxBatchAttempts THEN "failed" ELSE ph)
      /\ new.reasonsOnly = batches[b].reasonsOnly
      /\ new.idem = batches[b].idem /\ new.keyGen = batches[b].keyGen
      /\ new.attempt = batches[b].attempt + 1
  BY <1>1 DEF BatchRecord, Retried
<1>5. gone \in BatchRecord /\ gone.phase = new.phase /\ gone.idem = {}
        /\ gone.reasonsOnly = new.reasonsOnly /\ gone.attempt = new.attempt
  <2>. HIDE DEF new
  <2>. QED BY <1>3 DEF BatchRecord, Forget
<1>6. new.phase \in Terminal \/ new.attempt < MaxBatchAttempts
  <2>. HIDE DEF new
  <2>. QED BY <1>2, <1>4, BoundsAssumption DEF Terminal
<1>7. new.phase \in {ph, "failed"}
  <2>. HIDE DEF new
  <2>. QED BY <1>4
<1>8. Advances(batches[b], new)
  <2>. HIDE DEF new
  <2>. QED BY <1>1, <1>3, <1>4, <1>6, <1>7 DEF Advances, GoodBatch, IsTerminal
<1>9. Advances(batches[b], gone)
  <2>. HIDE DEF new, gone
  <2>. QED BY <1>1, <1>4, <1>5, <1>6, <1>7 DEF Advances, GoodBatch, IsTerminal
<1>10. gone = [new EXCEPT !.idem = {}]
  BY DEF Forget
<1>. QED BY <1>3, <1>4, <1>7, <1>8, <1>9, <1>10

\* A chain that is not lost has the batch it works on before it.
LEMMA FoundPresent ==
  ASSUME TypeOK, FrameInv, NEW f \in Frames,
         frame[f].at \in {"ok", "retryLater", "threw", "failed", "keyInvalid", "requeue"}
  PROVE  LET b == frame[f].batch
         IN  /\ b \in BatchIds
             /\ frame[f].from \in Submitting \cup Waiting
             /\ ~Lost(f) => b \in Present /\ ~IsTerminal(b) /\ run \in Runs
                            /\ batches[b].phase = frame[f].from
<1>. DEFINE b == frame[f].batch
<1>1. b \in BatchIds /\ frame[f].from \in Submitting \cup Waiting
  BY DEF FrameInv, GoodFrame
<1>2. ASSUME ~Lost(f) PROVE b \in Present /\ ~IsTerminal(b) /\ run \in Runs
                            /\ batches[b].phase = frame[f].from
  <2>1. PhaseOf(b) = frame[f].from /\ PhaseOf(b) # "absent"
    BY <1>1, <1>2 DEF Lost, Submitting, Waiting
  <2>2. run \in Runs /\ batches[b].phase = frame[f].from
    BY <2>1, InRun
  <2>. QED BY <1>1, <2>1, <2>2 DEF Present, IsTerminal, Terminal, Submitting, Waiting
<1>. QED BY <1>1, <1>2

\* Steps that write at most the phase of a batch.
LEMMA PhaseSteps ==
  ASSUME IInv, NEW f \in Frames,
         \/ Claim(f) \/ GiveBack(f) \/ FailNow(f) \/ MarkDone(f) \/ ClaimReasons(f)
  PROVE  Carried /\ KeysStay
<1>. DEFINE b == frame[f].batch
<1>. USE DEF IInv
<1>1. CASE UNCHANGED batches
  BY <1>1, SameCarried
<1>2. ASSUME b \in Present, ~IsTerminal(b), NEW ph \in BatchPhase \ (Waiting \cup {"absent"}),
             Write(b, [batches[b] EXCEPT !.phase = ph])
      PROVE  Carried /\ KeysStay
  <2>. DEFINE new == [batches[b] EXCEPT !.phase = ph]
  <2>1. Advances(batches[b], new) /\ new.idem = batches[b].idem
        /\ new.keyGen = batches[b].keyGen /\ Write(b, new)
    BY <1>2, PhaseAdvances
  <2>. HIDE DEF new
  <2>. QED BY <1>2, <2>1, WriteCarried
<1>3. /\ "queued" \in BatchPhase \ (Waiting \cup {"absent"})
      /\ "needs-reasons-submit" \in BatchPhase \ (Waiting \cup {"absent"})
      /\ "submitting-reasons" \in BatchPhase \ (Waiting \cup {"absent"})
      /\ "submitting-relevance" \in BatchPhase \ (Waiting \cup {"absent"})
      /\ "done" \in BatchPhase \ (Waiting \cup {"absent"})
      /\ "failed" \in BatchPhase \ (Waiting \cup {"absent"})
  BY DEF BatchPhase, Waiting, Submitting, Terminal
<1>4. ASSUME frame[f].at \notin {"idle", "create", "append"}, PhaseOf(b) # "absent",
             PhaseOf(b) \notin Terminal
      PROVE  b \in Present /\ ~IsTerminal(b)
  <2>1. b \in BatchIds
    BY <1>4 DEF FrameInv, GoodFrame
  <2>. QED BY <1>4, <2>1, InRun DEF Present, IsTerminal
<1>5. CASE Claim(f) /\ ~UNCHANGED batches
  <2>1. PhaseOf(b) = "queued" /\ frame[f].at = "claim"
        /\ Write(b, [batches[b] EXCEPT !.phase = SubmitPhase(b)])
    BY <1>5 DEF Claim, At
  <2>2. SubmitPhase(b) \in {"submitting-reasons", "submitting-relevance"}
    BY DEF SubmitPhase
  <2>. QED BY <2>1, <2>2, <1>2, <1>3, <1>4 DEF Terminal
<1>6. CASE ClaimReasons(f) /\ ~UNCHANGED batches
  <2>1. PhaseOf(b) = "needs-reasons-submit" /\ frame[f].at = "claimReasons"
        /\ Write(b, [batches[b] EXCEPT !.phase = "submitting-reasons"])
    BY <1>6 DEF ClaimReasons, At
  <2>. QED BY <2>1, <1>2, <1>3, <1>4 DEF Terminal
<1>7. CASE GiveBack(f) /\ ~UNCHANGED batches
  <2>1. frame[f].at \in {"retryLater", "threw"} /\ ~Lost(f)
    BY <1>7 DEF GiveBack, At
  <2>2. b \in Present /\ ~IsTerminal(b)
    BY <2>1, FoundPresent
  <2>3. \E ph \in {"needs-reasons-submit", "queued"} :
          Write(b, [batches[b] EXCEPT !.phase = ph])
    BY <1>7, <2>1 DEF GiveBack
  <2>. QED BY <2>2, <2>3, <1>2, <1>3
<1>8. CASE FailNow(f) /\ ~UNCHANGED batches
  <2>1. frame[f].at = "keyInvalid" /\ ~Lost(f)
        /\ Write(b, [batches[b] EXCEPT !.phase = "failed"])
    BY <1>8 DEF FailNow, At
  <2>2. b \in Present /\ ~IsTerminal(b)
    BY <2>1, FoundPresent
  <2>. QED BY <2>1, <2>2, <1>2, <1>3
<1>9. CASE MarkDone(f) /\ ~UNCHANGED batches
  <2>1. frame[f].at \in {"markDone", "failed"} /\ PhaseOf(b) \notin Terminal \cup {"absent"}
        /\ Write(b, [batches[b] EXCEPT !.phase = "done"])
    BY <1>9 DEF MarkDone, At
  <2>. QED BY <2>1, <1>2, <1>3, <1>4
<1>. QED BY <1>1, <1>5, <1>6, <1>7, <1>8, <1>9

\* The other writes of a chain, one by one.
LEMMA ToWaitingCarried ==
  ASSUME IInv, NEW f \in Frames, ToWaiting(f)
  PROVE  Carried /\ KeysStay
<1>. DEFINE b == frame[f].batch
            old == batches[b]
            relevance == frame[f].from = "submitting-relevance"
            new == IF relevance
                   THEN [old EXCEPT !.phase = "waiting-relevance",
                                    !.job = frame[f].key, !.cand = frame[f].ids]
                   ELSE [old EXCEPT !.phase = "waiting-reasons",
                                    !.job = frame[f].key, !.reasonCand = frame[f].ids]
<1>. USE DEF IInv
<1>1. CASE UNCHANGED batches
  BY <1>1, SameCarried
<1>2. CASE ~UNCHANGED batches
  <2>1. frame[f].at = "ok" /\ Write(b, new)
        /\ PhaseOf(b) \in {"submitting-relevance", "submitting-reasons", "needs-reasons-submit"}
    BY <1>2 DEF ToWaiting, At
  <2>2. b \in BatchIds /\ frame[f] \in FrameRecord
    BY <2>1 DEF FrameInv, GoodFrame, TypeOK
  <2>3. b \in Present /\ ~IsTerminal(b)
    BY <2>1, <2>2, InRun DEF Present, IsTerminal, Terminal
  <2>4. old \in BatchRecord /\ GoodBatch(old)
    BY <2>2 DEF TypeOK, StoreInv
  <2>5. frame[f].key \in Key /\ frame[f].ids \in SUBSET Ids
    BY <2>2 DEF FrameRecord
  <2>6. new \in BatchRecord
    <3>1. "waiting-relevance" \in BatchPhase /\ "waiting-reasons" \in BatchPhase
      BY DEF BatchPhase, Waiting
    <3>. QED BY <2>4, <2>5, <3>1 DEF BatchRecord
  <2>7. /\ new.job = frame[f].key /\ new.idem = old.idem /\ new.keyGen = old.keyGen
        /\ new.attempt = old.attempt /\ new.reasonsOnly = old.reasonsOnly
        /\ relevance => new.phase = "waiting-relevance" /\ new.cand = frame[f].ids
        /\ ~relevance => new.phase = "waiting-reasons" /\ new.reasonCand = frame[f].ids
    BY <2>4 DEF BatchRecord
  <2>8. HasJob(frame[f].key, frame[f].ids)
    BY <2>1 DEF AnswerInv
  <2>9. Advances(old, new)
    <3>. HIDE DEF new, old
    <3>1. GoodBatch(new)
      BY <2>3, <2>4, <2>7 DEF GoodBatch, IsTerminal, old
    <3>. QED BY <2>3, <2>6, <2>7, <2>8, <3>1 DEF Advances, IsTerminal, old
  <2>. HIDE DEF new
  <2>. QED BY <2>1, <2>3, <2>7, <2>9, WriteCarried
<1>. QED BY <1>1, <1>2

LEMMA RelevanceDoneCarried ==
  ASSUME IInv, NEW f \in Frames, RelevanceDone(f)
  PROVE  Carried /\ KeysStay
<1>. DEFINE b == frame[f].batch
            old == batches[b]
            ph == IF frame[f].ids = {} THEN "done" ELSE "needs-reasons-submit"
            new == [old EXCEPT !.reasonCand = frame[f].ids, !.phase = ph]
<1>. USE DEF IInv
<1>1. CASE UNCHANGED batches
  BY <1>1, SameCarried
<1>2. CASE ~UNCHANGED batches
  <2>1. frame[f].at = "relevanceDone" /\ Write(b, new) /\ PhaseOf(b) = "waiting-relevance"
    BY <1>2 DEF RelevanceDone, At
  <2>2. b \in BatchIds /\ frame[f] \in FrameRecord
    BY <2>1 DEF FrameInv, GoodFrame, TypeOK
  <2>3. b \in Present /\ ~IsTerminal(b)
    BY <2>1, <2>2, InRun DEF Present, IsTerminal, Terminal
  <2>4. old \in BatchRecord /\ GoodBatch(old)
    BY <2>2 DEF TypeOK, StoreInv
  <2>5. frame[f].ids \in SUBSET Ids
    BY <2>2 DEF FrameRecord
  <2>6. new \in BatchRecord
    <3>1. ph \in BatchPhase
      BY DEF BatchPhase, Terminal
    <3>. QED BY <2>4, <2>5, <3>1 DEF BatchRecord
  <2>7. /\ new.idem = old.idem /\ new.keyGen = old.keyGen
        /\ new.attempt = old.attempt /\ new.reasonsOnly = old.reasonsOnly
        /\ new.phase = ph
    BY <2>4 DEF BatchRecord
  <2>9. Advances(old, new)
    <3>. HIDE DEF new, old
    <3>1. GoodBatch(new)
      BY <2>3, <2>4, <2>7 DEF GoodBatch, IsTerminal, old
    <3>. QED BY <2>3, <2>6, <2>7, <3>1 DEF Advances, IsTerminal, old
  <2>. HIDE DEF new
  <2>. QED BY <2>1, <2>3, <2>7, <2>9, WriteCarried
<1>. QED BY <1>1, <1>2

LEMMA FailOrRetryCarried ==
  ASSUME IInv, NEW f \in Frames, FailOrRetry(f)
  PROVE  Carried /\ KeysStay
<1>. DEFINE b == frame[f].batch
<1>. USE DEF IInv
<1>1. CASE Lost(f)
  BY <1>1, SameCarried DEF FailOrRetry
<1>2. CASE ~Lost(f)
  <2>1. frame[f].at \in {"failed", "threw"} /\ Write(b, Retried(batches[b], "queued"))
    BY <1>2 DEF FailOrRetry, At, SubmitFailed
  <2>2. b \in Present /\ ~IsTerminal(b)
    BY <1>2, <2>1, FoundPresent
  <2>. QED BY <2>1, <2>2, RetriedAdvances, WriteCarried
<1>. QED BY <1>1, <1>2

RequeuedTo(f) ==
  IF frame[f].from = "waiting-reasons" THEN "needs-reasons-submit" ELSE "queued"

LEMMA RequeueShape ==
  ASSUME IInv, NEW f \in Frames, Requeue(f), ~Lost(f)
  PROVE  LET b == frame[f].batch
             new == Forget(Retried(batches[b], RequeuedTo(f)))
         IN  /\ b \in Present /\ run \in Runs
             /\ batches[b].phase = frame[f].from
             /\ Carried
             /\ batches' = [batches EXCEPT ![b] = new]
             /\ new.idem = {} /\ new.keyGen = batches[b].keyGen
             /\ new.phase \in {RequeuedTo(f), "failed"}
             /\ dropped' = dropped \cup GivenUp(b)
<1>. DEFINE b == frame[f].batch
            mid == Retried(batches[b], RequeuedTo(f))
            new == Forget(mid)
<1>. USE DEF IInv
<1>1. frame[f].at = "requeue"
  BY DEF Requeue, At
<1>2. b \in Present /\ ~IsTerminal(b) /\ run \in Runs /\ batches[b].phase = frame[f].from
  BY <1>1, FoundPresent
<1>3. Write(b, new) /\ dropped' = dropped \cup GivenUp(b)
  BY DEF Requeue, RequeuedTo
<1>4. RequeuedTo(f) \in {"queued", "needs-reasons-submit"}
  BY DEF RequeuedTo
<1>5. /\ Advances(batches[b], new) /\ mid \in BatchRecord
      /\ mid.keyGen = batches[b].keyGen /\ mid.phase \in {RequeuedTo(f), "failed"}
      /\ new = [mid EXCEPT !.idem = {}]
  BY <1>2, <1>4, RetriedAdvances
<1>6. new.idem = {} /\ new.keyGen = mid.keyGen /\ new.phase = mid.phase
  <2>. HIDE DEF mid, new
  <2>. QED BY <1>5 DEF BatchRecord
<1>7. Carried
  BY <1>2, <1>3, <1>5, WriteCarried
<1>8. batches' = [batches EXCEPT ![b] = new]
  BY <1>3 DEF Write
<1>. QED BY <1>2, <1>3, <1>5, <1>6, <1>7, <1>8

LEMMA ReserveCarried ==
  ASSUME IInv, NEW f \in Frames, Reserve(f)
  PROVE  Carried
<1>. DEFINE b == frame[f].batch
            old == batches[b]
            new == [old EXCEPT !.idem = {<<SendPhase(f), frame[f].ids>>},
                               !.keyGen = SendGen(f) + 1]
<1>. USE DEF IInv
<1>1. CASE Lost(f)
  BY <1>1, SameCarried DEF Reserve
<1>2. CASE ~Lost(f)
  <2>1. /\ b \in Present /\ old.phase \in Submitting
        /\ SendPhase(f) \in {"rel", "r"} /\ SendGen(f) \in Nat
        /\ batches' = [batches EXCEPT ![b] = new]
    BY <1>2, ReserveShape
  <2>2. old \in BatchRecord /\ GoodBatch(old)
    BY <2>1 DEF TypeOK, StoreInv, Present
  <2>3. frame[f].ids \in SUBSET Ids
    BY DEF TypeOK, FrameRecord
  <2>4. new \in BatchRecord
    <3>1. {<<SendPhase(f), frame[f].ids>>} \in SUBSET ({"rel", "r"} \X SUBSET Ids)
      BY <2>1, <2>3
    <3>2. SendGen(f) + 1 \in Nat
      BY <2>1
    <3>. QED BY <2>2, <3>1, <3>2 DEF BatchRecord
  <2>5. /\ new.idem = {<<SendPhase(f), frame[f].ids>>} /\ new.keyGen = SendGen(f) + 1
        /\ new.phase = old.phase /\ new.attempt = old.attempt
        /\ new.reasonsOnly = old.reasonsOnly
    BY <2>2 DEF BatchRecord
  <2>6. GoodBatch(new)
    <3>. HIDE DEF new
    <3>. QED BY <2>1, <2>2, <2>5 DEF GoodBatch
  <2>7. Advances(old, new)
    <3>. HIDE DEF new, old
    <3>. QED BY <2>1, <2>4, <2>5, <2>6 DEF Advances, Submitting, Terminal
  <2>8. Write(b, new)
    BY <2>1 DEF Write
  <2>. HIDE DEF new
  <2>. QED BY <2>1, <2>7, <2>8, WriteCarried
<1>. QED BY <1>1, <1>2

\* The steps of no chain.
LEMMA RevertStuckCarried ==
  ASSUME IInv, NEW b \in BatchIds, RevertStuck(b)
  PROVE  Carried /\ KeysStay
<1>. USE DEF IInv
<1>1. b \in Present /\ ~IsTerminal(b)
  BY DEF RevertStuck, Present, IsTerminal, Submitting, Terminal
<1>2. RevertTarget(b) \in {"queued", "needs-reasons-submit"}
  BY DEF RevertTarget
<1>3. Write(b, Retried(batches[b], RevertTarget(b)))
  BY DEF RevertStuck
<1>. DEFINE new == Retried(batches[b], RevertTarget(b))
<1>4. /\ Advances(batches[b], new) /\ Write(b, new)
      /\ new.idem = batches[b].idem /\ new.keyGen = batches[b].keyGen
  BY <1>1, <1>2, <1>3, RetriedAdvances
<1>. HIDE DEF new
<1>. QED BY <1>1, <1>4, WriteCarried

LEMMA ForceFailCarried ==
  ASSUME IInv, ForceFail
  PROVE  Carried /\ KeysStay
<1>. USE DEF IInv
<1>. DEFINE new(b) == [batches[b] EXCEPT !.phase = "failed"]
<1>1. /\ batches \in [BatchIds -> BatchRecord]
      /\ batches' = [b \in BatchIds |->
           IF b \in Present /\ ~IsTerminal(b) THEN new(b) ELSE batches[b]]
  BY DEF ForceFail, TypeOK
<1>2. ASSUME NEW b \in Present, ~IsTerminal(b)
      PROVE  Advances(batches[b], new(b)) /\ new(b).idem = batches[b].idem
             /\ new(b).keyGen = batches[b].keyGen /\ new(b) \in BatchRecord
  <2>1. "failed" \in BatchPhase \ (Waiting \cup {"absent"})
    BY DEF BatchPhase, Waiting, Terminal
  <2>2. Advances(batches[b], new(b)) /\ new(b).idem = batches[b].idem
        /\ new(b).keyGen = batches[b].keyGen
    BY <1>2, <2>1, PhaseAdvances
  <2>. QED BY <2>2 DEF Advances
<1>3. \A b \in Present : IsTerminal(b) => Advances(batches[b], batches[b])
  BY StayAdvances
<1>4. Present \subseteq BatchIds
  BY DEF Present
<1>. HIDE DEF new
<1>5. batches' \in [BatchIds -> BatchRecord]
  BY <1>1, <1>2
<1>6. \A b \in Present : Advances(batches[b], batches'[b])
  BY <1>1, <1>2, <1>3, <1>4
<1>7. \A b \in BatchIds \ Present : batches'[b] = batches[b]
  BY <1>1
<1>8. KeysStay
  BY <1>1, <1>2 DEF KeysStay
<1>. QED BY <1>5, <1>6, <1>7, <1>8 DEF Carried
--------------------------------------------------------------------------------
(* New batches, and the store as a whole.                                   *)

LEMMA NoBatchGood == NoBatch \in BatchRecord /\ GoodBatch(NoBatch)
<1>1. 0 \in 0..MaxBatchAttempts /\ 0 < MaxBatchAttempts
  BY BoundsAssumption
<1>. QED BY <1>1 DEF NoBatch, BatchRecord, GoodBatch, BatchPhase, Key

LEMMA AppendedGood ==
  ASSUME TypeOK, NEW f \in Frames, NEW b
  PROVE  LET new == Appended(f, b)
         IN  /\ new \in BatchRecord /\ GoodBatch(new)
             /\ new.phase = "queued" /\ new.idem = {} /\ new.keyGen = 0
<1>. DEFINE new == Appended(f, b)
<1>1. frame[f].ids \in SUBSET Ids /\ "queued" \in BatchPhase
  BY DEF TypeOK, FrameRecord, BatchPhase
<1>2. new \in BatchRecord
  BY <1>1, NoBatchGood DEF Appended, BatchRecord
<1>3. new.phase = "queued" /\ new.idem = {} /\ new.keyGen = 0 /\ new.attempt = 0
  BY DEF Appended, NoBatch
<1>4. GoodBatch(new)
  <2>. HIDE DEF new
  <2>. QED BY <1>3, BoundsAssumption DEF GoodBatch
<1>. QED BY <1>2, <1>3, <1>4

LEMMA NextBatchId ==
  ASSUME StoreInv
  PROVE  LET n == Cardinality(Present) IN n \in 0..MaxBatches /\ Present = 1..n
<1>1. PICK n \in 0..MaxBatches : Present = 1..n
  BY DEF StoreInv
<1>2. n \in Nat
  BY <1>1, BoundsAssumption
<1>3. Cardinality(Present) = n
  BY <1>1, <1>2, FS_Interval
<1>. QED BY <1>1, <1>3

\* A batch is added at the end of the run, or there is none to add.
LEMMA NewBatchShape ==
  ASSUME TypeOK, StoreInv, NEW f \in Frames, AppendBatch(f) \/ CreateRun(f)
  PROVE  /\ \/ run' = run /\ created' = created
            \/ /\ run = NoRun /\ Present = {}
               /\ run' = created' /\ created' = created + 1 /\ created' \in Runs
         /\ \/ batches' = batches
            \/ /\ run' # NoRun
               /\ \E n \in BatchIds : /\ Present = 1..(n - 1)
                                     /\ batches' = [batches EXCEPT ![n] = Appended(f, n)]
<1>. DEFINE n == Cardinality(Present) + 1
<1>1. n - 1 \in 0..MaxBatches /\ Present = 1..(n - 1) /\ n \in Nat /\ n >= 1
  BY NextBatchId, BoundsAssumption
<1>2. n \in BatchIds \/ n \notin DOMAIN batches
  BY DEF TypeOK
<1>3. CASE AppendBatch(f)
  <2>1. run' = run /\ created' = created
    BY <1>3 DEF AppendBatch, StoreRest
  <2>2. CASE run = NoRun
    BY <1>3, <2>1, <2>2 DEF AppendBatch
  <2>3. CASE run # NoRun
    <3>1. batches' = [batches EXCEPT ![n] = Appended(f, n)]
      BY <1>3, <2>3 DEF AppendBatch, Write
    <3>2. n \notin DOMAIN batches => batches' = batches
      BY <3>1 DEF TypeOK
    <3>. HIDE DEF n
    <3>. QED BY <1>1, <1>2, <2>1, <2>3, <3>1, <3>2
  <2>. QED BY <2>2, <2>3
<1>4. CASE CreateRun(f)
  <2>1. run = NoRun /\ Present = {}
    BY <1>4 DEF CreateRun, StoreInv
  <2>2. CASE created < MaxRuns
    <3>1. /\ run' = created + 1 /\ created' = created + 1
          /\ batches' = [batches EXCEPT ![1] = Appended(f, 1)]
      BY <1>4, <2>2 DEF CreateRun, Write
    <3>2. created \in 0..MaxRuns
      BY DEF TypeOK
    <3>3. created + 1 \in Runs /\ created + 1 # NoRun
      BY <2>2, <3>2, BoundsAssumption DEF Runs, NoRun
    <3>4. CASE MaxBatches = 0
      <4>1. 1 \notin DOMAIN batches
        BY <3>4 DEF TypeOK, BatchIds
      <4>2. batches' = batches
        BY <3>1, <4>1 DEF TypeOK
      <4>. QED BY <2>1, <3>1, <3>3, <3>4, <4>2
    <3>5. CASE MaxBatches # 0
      <4>1. 1 \in BatchIds /\ Present = 1..(1 - 1)
        BY <2>1, <3>5, BoundsAssumption DEF BatchIds
      <4>. QED BY <2>1, <3>1, <3>3, <4>1
    <3>. QED BY <3>4, <3>5
  <2>3. CASE ~(created < MaxRuns)
    BY <1>4, <2>1, <2>3 DEF CreateRun
  <2>. QED BY <2>2, <2>3
<1>. QED BY <1>3, <1>4

\* What every new batch keeps, and what it leaves to the others.
LEMMA NewBatchKeeps ==
  ASSUME IInv, NEW f \in Frames, AppendBatch(f) \/ CreateRun(f)
  PROVE  /\ batches' \in [BatchIds -> BatchRecord] /\ StoreInv' /\ KeysStay
         /\ \A b \in Present : batches'[b] = batches[b]
         /\ \A b \in BatchIds \ Present :
              batches'[b] = batches[b] \/ batches'[b].phase = "queued"
<1>. USE DEF IInv
<1>1. created \in Nat /\ run \in Nat /\ MaxRuns \in Nat /\ NoRun = 0
  BY BoundsAssumption DEF TypeOK, NoRun
<1>2. run' <= created'
  BY <1>1, NewBatchShape DEF StoreInv
<1>3. CASE batches' = batches
  <2>1. Present' = Present
    BY <1>3 DEF Present
  <2>2. run' = NoRun => Present' = {}
    <3>1. CASE run' = run
      BY <2>1, <3>1 DEF StoreInv
    <3>2. CASE run' # run
      BY <1>1, <2>1, <3>2, NewBatchShape
    <3>. QED BY <3>1, <3>2
  <2>3. StoreInv'
    BY <1>2, <1>3, <2>1, <2>2 DEF StoreInv, GoodBatch
  <2>. QED BY <1>3, <2>3 DEF KeysStay, TypeOK
<1>4. CASE batches' # batches
  <2>1. PICK n \in BatchIds :
          Present = 1..(n - 1) /\ batches' = [batches EXCEPT ![n] = Appended(f, n)]
    BY <1>4, NewBatchShape
  <2>. DEFINE new == Appended(f, n)
  <2>2. /\ new \in BatchRecord /\ GoodBatch(new)
        /\ new.phase = "queued" /\ new.idem = {} /\ new.keyGen = 0
    BY AppendedGood
  <2>. HIDE DEF new
  <2>3. /\ batches' \in [BatchIds -> BatchRecord] /\ batches'[n] = new
        /\ \A b \in BatchIds : b # n => batches'[b] = batches[b]
    BY <2>1, <2>2 DEF TypeOK, new
  <2>4. n \in 1..MaxBatches /\ n \notin Present
    BY <2>1, BoundsAssumption DEF BatchIds
  <2>5. batches[n] = NoBatch /\ NoBatch.idem = {} /\ NoBatch.keyGen = 0
    BY <2>4 DEF StoreInv, NoBatch, BatchIds
  <2>6. Present' = 1..n
    <3>1. Present' = Present \cup {n}
      BY <2>2, <2>3, <2>4 DEF Present
    <3>. QED BY <2>1, <2>4, <3>1
  <2>7. KeysStay
    BY <2>2, <2>3, <2>5 DEF KeysStay
  <2>8. \A b \in BatchIds \ Present' : batches'[b] = NoBatch
    BY <2>1, <2>3, <2>6 DEF StoreInv, BatchIds
  <2>9. \A b \in BatchIds : GoodBatch(batches'[b])
    BY <2>2, <2>3 DEF StoreInv
  <2>10. run' # NoRun
    BY <1>4, NewBatchShape
  <2>11. n \in 0..MaxBatches
    BY <2>4
  <2>12. StoreInv'
    BY <1>2, <2>6, <2>8, <2>9, <2>10, <2>11 DEF StoreInv, GoodBatch
  <2>13. \A b \in Present : b \in BatchIds /\ b # n
    BY <2>4 DEF Present
  <2>. QED BY <2>2, <2>3, <2>7, <2>12, <2>13
<1>. QED BY <1>3, <1>4

LEMMA CarriedStore ==
  ASSUME StoreInv, Carried, run' = run, created' = created
  PROVE  StoreInv' /\ Present' = Present
<1>1. Present' = Present
  BY DEF Carried, Advances, Present
<1>2. \A b \in BatchIds : GoodBatch(batches'[b])
  BY DEF Carried, Advances, StoreInv
<1>. QED BY <1>1, <1>2 DEF StoreInv, Carried, GoodBatch

LEMMA EndFinalizeStore ==
  ASSUME TypeOK, EndFinalize
  PROVE  StoreInv' /\ batches' \in [BatchIds -> BatchRecord]
         /\ \A b \in BatchIds : batches'[b] = NoBatch
<1>1. \A b \in BatchIds : batches'[b] = NoBatch
  BY DEF EndFinalize
<1>2. batches' \in [BatchIds -> BatchRecord]
  BY NoBatchGood DEF EndFinalize
<1>3. Present' = {} /\ Present' = 1..0
  BY <1>1 DEF Present, NoBatch
<1>4. run' <= created' /\ 0 \in 0..MaxBatches
  BY BoundsAssumption DEF EndFinalize, TypeOK, NoRun
<1>5. \A b \in BatchIds : GoodBatch(batches'[b])
  BY <1>1, NoBatchGood
<1>. QED BY <1>1, <1>2, <1>3, <1>4, <1>5 DEF StoreInv, GoodBatch
--------------------------------------------------------------------------------
(* The keys.                                                                *)

JobUse(u)   == \E j \in jobs : u = <<j.key, j.ids>>
ChainUse(u) == \E f \in Frames :
  frame[f].at \in HoldsKey /\ u = <<frame[f].key, frame[f].ids>>
StoreUse(u) == \E b \in BatchIds : \E p \in batches[b].idem :
  u = <<KeyOf(b, p[1], batches[b].keyGen - 1), p[2]>>

LEMMA UsesMember == \A u : u \in Uses <=> JobUse(u) \/ ChainUse(u) \/ StoreUse(u)
  BY DEF Uses, JobUse, ChainUse, StoreUse, HoldsKey

LEMMA UsesMemberNext ==
  \A u : u \in Uses' <=> JobUse(u)' \/ ChainUse(u)' \/ StoreUse(u)'
  BY DEF Uses, JobUse, ChainUse, StoreUse, HoldsKey

\* No key is used anew and no batch of the run forgets one.
LEMMA KeysKept ==
  ASSUME KeyInv, Uses' \subseteq Uses, dropped \subseteq dropped',
         created \in Nat, created' \in Nat, created <= created',
         \A u \in Uses' : InThisRun(u[1])' =>
           /\ InThisRun(u[1])
           /\ batches'[u[1][2]].idem = batches[u[1][2]].idem
           /\ batches'[u[1][2]].keyGen = batches[u[1][2]].keyGen
  PROVE  KeyInv'
<1>1. \A u \in Uses' : u[1] \in Runs \X BatchIds \X {"rel", "r"} \X Nat
                         /\ u[1][1] <= created'
  <2>1. \A u \in Uses' : u[1] \in Runs \X BatchIds \X {"rel", "r"} \X Nat
                         /\ u[1][1] <= created
    BY DEF KeyInv
  <2>2. \A u \in Uses' : u[1][1] \in Nat
    BY <2>1 DEF Runs
  <2>. QED BY <2>1, <2>2
<1>2. \A u \in Uses' : InThisRun(u[1])' => u[1][4] < batches'[u[1][2]].keyGen
  BY DEF KeyInv
<1>3. \A u \in Uses' : IsLast(u)' =>
        /\ \A p \in batches'[u[1][2]].idem : p = <<u[1][3], u[2]>>
        /\ batches'[u[1][2]].idem = {} => u[1] \in dropped'
  BY DEF KeyInv, IsLast
<1>4. \A u, v \in Uses' : u[1] = v[1] => u[2] = v[2]
  BY DEF KeyInv
<1>5. \A u, v \in Uses' :
        u[2] = v[2] /\ SameLine(u[1], v[1]) /\ u[1][4] + 1 = v[1][4] => u[1] \in dropped'
  BY DEF KeyInv
<1>. QED BY <1>1, <1>2, <1>3, <1>4, <1>5 DEF KeyInv

\* A chain that goes on without reserving uses no key it did not.
LEMMA MovedUses ==
  ASSUME TypeOK, NEW f \in Frames, NEW r, Moved(f, r), ~Reserve(f)
  PROVE  \A u : ChainUse(u)' => ChainUse(u)
<1>1. frame' = [frame EXCEPT ![f] = r] /\ frame \in [Frames -> FrameRecord]
  BY DEF Moved, TypeOK
<1>2. r.at \in HoldsKey =>
        frame[f].at \in HoldsKey /\ r.key = frame[f].key /\ r.ids = frame[f].ids
  BY DEF Moved
<1>3. ASSUME NEW u, NEW g \in Frames, frame'[g].at \in HoldsKey,
             u = <<frame'[g].key, frame'[g].ids>>
      PROVE  ChainUse(u)
  <2>1. CASE g = f
    <3>1. frame'[g] = r
      BY <1>1, <2>1
    <3>2. u = <<frame[f].key, frame[f].ids>> /\ frame[f].at \in HoldsKey
      BY <1>2, <1>3, <3>1
    <3>. QED BY <3>2 DEF ChainUse
  <2>2. CASE g # f
    <3>1. frame'[g] = frame[g]
      BY <1>1, <2>2
    <3>. QED BY <1>3, <3>1 DEF ChainUse
  <2>. QED BY <2>1, <2>2
<1>. QED BY <1>3 DEF ChainUse

LEMMA StoreUsesStay ==
  ASSUME KeysStay, run' = run
  PROVE  \A u : StoreUse(u)' => StoreUse(u)
  BY DEF KeysStay, StoreUse, KeyOf

\* A request adds the use its chain already was.
LEMMA SentUses ==
  ASSUME NEW f \in Frames, SendAccepted(f)
  PROVE  \A u : JobUse(u)' => JobUse(u) \/ ChainUse(u)
<1>1. jobs' = JobsWith(f) /\ frame[f].at = "send"
  BY DEF SendAccepted, At
<1>2. \A j \in jobs' : j \in jobs \/ j = [key |-> frame[f].key, ids |-> frame[f].ids,
                                         by |-> frame[f].by]
  BY <1>1 DEF JobsWith
<1>3. \A j \in jobs' : j \in jobs \/ (j.key = frame[f].key /\ j.ids = frame[f].ids)
  BY <1>2
<1>. QED BY <1>1, <1>3 DEF JobUse, ChainUse, HoldsKey

\* Every step within a run but a reserve and a requeue.
LEMMA OrdinaryKeys ==
  ASSUME IInv, run' = run, created' = created, dropped' = dropped, KeysStay,
         \A u : ChainUse(u)' => ChainUse(u),
         \A u : JobUse(u)' => JobUse(u) \/ ChainUse(u)
  PROVE  KeyInv'
<1>1. Uses' \subseteq Uses
  BY UsesMember, UsesMemberNext, StoreUsesStay
<1>2. \A u \in Uses : u[1][2] \in BatchIds
  BY DEF IInv, KeyInv
<1>3. \A u \in Uses' : InThisRun(u[1])' =>
           /\ InThisRun(u[1])
           /\ batches'[u[1][2]].idem = batches[u[1][2]].idem
           /\ batches'[u[1][2]].keyGen = batches[u[1][2]].keyGen
  BY <1>1, <1>2 DEF InThisRun, KeysStay
<1>4. created \in Nat /\ KeyInv
  BY BoundsAssumption DEF IInv, TypeOK
<1>. QED BY <1>1, <1>3, <1>4, KeysKept

LEMMA NewRunKeys ==
  ASSUME IInv, run = NoRun, created' = created + 1, run' = created', dropped' = dropped,
         KeysStay, jobs' = jobs, \A u : ChainUse(u)' => ChainUse(u)
  PROVE  KeyInv'
<1>1. \A b \in BatchIds : batches[b].idem = {}
  BY DEF IInv, StoreInv, NoBatch
<1>2. \A u : ~StoreUse(u)'
  BY <1>1 DEF KeysStay, StoreUse
<1>3. Uses' \subseteq Uses
  BY <1>2, UsesMember, UsesMemberNext DEF JobUse
<1>4. created \in Nat /\ KeyInv /\ created' \in Nat
  BY BoundsAssumption DEF IInv, TypeOK
<1>5. \A u \in Uses : u[1][1] \in Nat /\ u[1][1] <= created
  BY <1>4 DEF KeyInv, Runs
<1>6. \A u \in Uses' : ~InThisRun(u[1])'
  BY <1>3, <1>4, <1>5 DEF InThisRun
<1>. QED BY <1>3, <1>4, <1>6, KeysKept

LEMMA EndFinalizeKeys ==
  ASSUME IInv, EndFinalize
  PROVE  KeyInv'
<1>1. \A b \in BatchIds : batches'[b].idem = {}
  BY DEF EndFinalize, NoBatch
<1>2. \A u : ~StoreUse(u)'
  BY <1>1 DEF StoreUse
<1>3. Uses' \subseteq Uses
  BY <1>2, UsesMember, UsesMemberNext DEF JobUse, ChainUse, EndFinalize
<1>4. created \in Nat /\ KeyInv /\ created' = created /\ dropped' = dropped
  BY BoundsAssumption DEF IInv, TypeOK, EndFinalize
<1>5. \A u : ~InThisRun(u)'
  BY DEF InThisRun, EndFinalize
<1>. QED BY <1>3, <1>4, <1>5, KeysKept

\* The key that is given up is the last one of its batch.
LEMMA RequeueKeys ==
  ASSUME IInv, NEW f \in Frames, Requeue(f)
  PROVE  KeyInv'
<1>. DEFINE b == frame[f].batch
            new == Forget(Retried(batches[b], RequeuedTo(f)))
<1>0. /\ run' = run /\ created' = created /\ jobs' = jobs /\ frame[f].at = "requeue"
      /\ created \in Nat /\ KeyInv
  BY BoundsAssumption DEF Requeue, StoreRest, At, IInv, TypeOK
<1>1. \A u : ChainUse(u)' => ChainUse(u)
  <2>1. ~Reserve(f)
    BY <1>0 DEF Reserve, At
  <2>2. PICK r : Moved(f, r)
    BY LeaveMoved DEF Requeue
  <2>. QED BY <2>1, <2>2, MovedUses DEF IInv
<1>2. CASE Lost(f)
  <2>1. KeysStay /\ dropped' = dropped
    BY <1>2 DEF Requeue, KeysStay
  <2>. QED BY <1>0, <1>1, <2>1, OrdinaryKeys DEF JobUse
<1>3. CASE ~Lost(f)
  <2>1. /\ b \in Present /\ run \in Runs
        /\ batches' = [batches EXCEPT ![b] = new]
        /\ new.idem = {} /\ new.keyGen = batches[b].keyGen
        /\ dropped' = dropped \cup GivenUp(b)
    BY <1>3, RequeueShape
  <2>. HIDE DEF new
  <2>2. b \in BatchIds /\ batches \in [BatchIds -> BatchRecord] /\ run # NoRun
    BY <2>1, BoundsAssumption DEF Present, IInv, TypeOK, Runs, NoRun
  <2>3. /\ batches'[b].idem = {} /\ batches'[b].keyGen = batches[b].keyGen
        /\ \A c \in BatchIds : c # b => batches'[c] = batches[c]
    BY <2>1, <2>2
  <2>4. \A u : StoreUse(u)' => StoreUse(u)
    BY <1>0, <2>3 DEF StoreUse, KeyOf
  <2>5. Uses' \subseteq Uses
    BY <1>0, <1>1, <2>4, UsesMember, UsesMemberNext DEF JobUse
  <2>6. \A u \in Uses : /\ u[1] \in Runs \X BatchIds \X {"rel", "r"} \X Nat
                        /\ u[1][1] <= created
                        /\ InThisRun(u[1]) => u[1][4] < batches[u[1][2]].keyGen
    BY <1>0 DEF KeyInv
  <2>7. \A c \in BatchIds : batches'[c].keyGen = batches[c].keyGen
    BY <2>3
  <2>8. \A u \in Uses' : /\ u[1] \in Runs \X BatchIds \X {"rel", "r"} \X Nat
                         /\ u[1][1] <= created'
                         /\ InThisRun(u[1])' => u[1][4] < batches'[u[1][2]].keyGen
    BY <1>0, <2>5, <2>6, <2>7 DEF InThisRun
  <2>9. \A u, v \in Uses' : u[1] = v[1] => u[2] = v[2]
    BY <1>0, <2>5 DEF KeyInv
  <2>10. \A u, v \in Uses' :
        u[2] = v[2] /\ SameLine(u[1], v[1]) /\ u[1][4] + 1 = v[1][4] => u[1] \in dropped'
    BY <1>0, <2>1, <2>5 DEF KeyInv
  <2>11. ASSUME NEW u \in Uses', IsLast(u)'
         PROVE  /\ \A p \in batches'[u[1][2]].idem : p = <<u[1][3], u[2]>>
                /\ batches'[u[1][2]].idem = {} => u[1] \in dropped'
    <3>1. u \in Uses /\ IsLast(u) /\ u[1][2] \in BatchIds
      BY <1>0, <2>5, <2>6, <2>7, <2>11 DEF IsLast, InThisRun
    <3>2. /\ \A p \in batches[u[1][2]].idem : p = <<u[1][3], u[2]>>
          /\ batches[u[1][2]].idem = {} => u[1] \in dropped
      BY <1>0, <3>1 DEF KeyInv
    <3>3. CASE u[1][2] # b
      BY <2>1, <2>3, <3>1, <3>2, <3>3
    <3>4. CASE u[1][2] = b /\ batches[b].idem = {}
      BY <2>1, <2>3, <3>2, <3>4
    <3>5. CASE u[1][2] = b /\ batches[b].idem # {}
      <4>1. PICK p \in batches[b].idem : TRUE
        BY <3>5
      <4>2. p = <<u[1][3], u[2]>> /\ p[1] = u[1][3]
        BY <3>2, <3>5, <4>1
      <4>3. u[1] = <<run, b, u[1][3], batches[b].keyGen - 1>>
        <5>1. u[1] \in Runs \X BatchIds \X {"rel", "r"} \X Nat
          BY <2>6, <3>1
        <5>2. u[1] = <<u[1][1], u[1][2], u[1][3], u[1][4]>>
          BY <5>1
        <5>3. u[1][1] = run /\ u[1][4] + 1 = batches[b].keyGen /\ u[1][4] \in Nat
          BY <3>1, <3>5, <5>1 DEF IsLast, InThisRun
        <5>4. u[1][4] = batches[b].keyGen - 1
          BY <5>3
        <5>. QED BY <3>5, <5>2, <5>3, <5>4
      <4>4. u[1] = KeyOf(b, p[1], batches[b].keyGen - 1)
        BY <4>2, <4>3 DEF KeyOf
      <4>5. u[1] \in GivenUp(b)
        BY <4>1, <4>4, <3>5 DEF GivenUp
      <4>. QED BY <2>1, <2>3, <3>5, <4>5
    <3>. QED BY <3>3, <3>4, <3>5
  <2>. QED BY <2>8, <2>9, <2>10, <2>11 DEF KeyInv
<1>. QED BY <1>2, <1>3

\* A key that is reused is the stored one with the ids it was sent with; a key
\* that is minted is above all of its batch, and the one below it is not one
\* for the same ids unless it was given up.
LEMMA ReserveKeys ==
  ASSUME IInv, NEW f \in Frames, Reserve(f)
  PROVE  KeyInv'
<1>. DEFINE b == frame[f].batch
            ids == frame[f].ids
            use == <<SendKey(f), ids>>
<1>0. /\ run' = run /\ created' = created /\ jobs' = jobs /\ dropped' = dropped
      /\ created \in Nat /\ KeyInv /\ frame \in [Frames -> FrameRecord]
      /\ batches \in [BatchIds -> BatchRecord]
  BY BoundsAssumption DEF Reserve, StoreRest, IInv, TypeOK
<1>1. CASE Lost(f)
  <2>1. Leave(f) /\ KeysStay
    BY <1>1 DEF Reserve, KeysStay
  <2>2. \A u : ChainUse(u)' => ChainUse(u)
    <3>1. frame' = [frame EXCEPT ![f] = IdleFrame] /\ IdleFrame.at = "idle"
      BY <2>1 DEF Leave, IdleFrame
    <3>. QED BY <1>0, <3>1 DEF ChainUse, HoldsKey
  <2>. QED BY <1>0, <2>1, <2>2, OrdinaryKeys DEF JobUse
<1>2. CASE ~Lost(f)
  <2>1. /\ b \in Present /\ run \in Runs
        /\ SendPhase(f) \in {"rel", "r"} /\ SendGen(f) \in Nat
        /\ SendKey(f) = <<run, b, SendPhase(f), SendGen(f)>>
        /\ batches' = [batches EXCEPT ![b] =
             [batches[b] EXCEPT !.idem = {<<SendPhase(f), ids>>}, !.keyGen = SendGen(f) + 1]]
        /\ frame' = [frame EXCEPT ![f] = [frame[f] EXCEPT !.at = "send", !.key = SendKey(f)]]
    BY <1>2, ReserveShape DEF IInv
  <2>2. b \in BatchIds /\ run # NoRun /\ batches[b] \in BatchRecord /\ GoodBatch(batches[b])
    BY <2>1, BoundsAssumption DEF Present, IInv, TypeOK, Runs, NoRun, StoreInv
  <2>3. /\ batches'[b].idem = {<<SendPhase(f), ids>>} /\ batches'[b].keyGen = SendGen(f) + 1
        /\ \A c \in BatchIds : c # b => batches'[c] = batches[c]
    BY <1>0, <2>1, <2>2 DEF BatchRecord
  <2>4. \A u : ChainUse(u)' => ChainUse(u) \/ u = use
    <3>1. frame'[f].key = SendKey(f) /\ frame'[f].ids = ids
      BY <1>0, <2>1 DEF FrameRecord
    <3>2. \A g \in Frames : g # f => frame'[g] = frame[g]
      BY <1>0, <2>1
    <3>. QED BY <3>1, <3>2 DEF ChainUse
  <2>5. \A u : StoreUse(u)' => StoreUse(u) \/ u = use
    <3>1. ASSUME NEW u, NEW c \in BatchIds, NEW p \in batches'[c].idem,
                 u = <<KeyOf(c, p[1], batches[c].keyGen - 1)', p[2]>>
          PROVE  StoreUse(u) \/ u = use
      <4>1. CASE c # b
        BY <1>0, <2>3, <3>1, <4>1 DEF StoreUse, KeyOf
      <4>2. CASE c = b
        <5>1. p = <<SendPhase(f), ids>> /\ batches'[c].keyGen - 1 = SendGen(f)
          BY <2>1, <2>3, <3>1, <4>2
        <5>2. u = <<SendKey(f), ids>>
          BY <1>0, <2>1, <3>1, <4>2, <5>1 DEF KeyOf
        <5>. QED BY <5>2
      <4>. QED BY <4>1, <4>2
    <3>. QED BY <3>1 DEF StoreUse
  <2>6. Uses' \subseteq Uses \cup {use}
    BY <1>0, <2>4, <2>5, UsesMember, UsesMemberNext DEF JobUse
  <2>7. \A u \in Uses : /\ u[1] \in Runs \X BatchIds \X {"rel", "r"} \X Nat
                        /\ u[1][1] <= created
                        /\ InThisRun(u[1]) => u[1][4] < batches[u[1][2]].keyGen
    BY <1>0 DEF KeyInv
  <2>8. CASE Reusable(b, SendPhase(f), ids)
    <3>1. /\ <<SendPhase(f), ids>> \in batches[b].idem
          /\ SendGen(f) = batches[b].keyGen - 1
      BY <2>8 DEF Reusable, SendGen
    <3>2. batches[b].idem = {<<SendPhase(f), ids>>}
      BY <2>2, <3>1 DEF GoodBatch
    <3>3. batches[b].keyGen \in Nat
      BY <2>2 DEF BatchRecord
    <3>4. \A c \in BatchIds : batches'[c].idem = batches[c].idem
                              /\ batches'[c].keyGen = batches[c].keyGen
      <4>1. batches'[b].idem = batches[b].idem
        BY <2>3, <3>2
      <4>2. batches'[b].keyGen = batches[b].keyGen
        BY <2>3, <3>1, <3>3
      <4>. QED BY <2>3, <4>1, <4>2
    <3>5. StoreUse(use)
      <4>1. use = <<KeyOf(b, <<SendPhase(f), ids>>[1], batches[b].keyGen - 1),
                    <<SendPhase(f), ids>>[2]>>
        BY <2>1, <3>1 DEF KeyOf
      <4>. QED BY <2>2, <3>1, <4>1 DEF StoreUse
    <3>6. Uses' \subseteq Uses
      BY <2>6, <3>5, UsesMember
    <3>7. \A u \in Uses' : InThisRun(u[1])' =>
           /\ InThisRun(u[1])
           /\ batches'[u[1][2]].idem = batches[u[1][2]].idem
           /\ batches'[u[1][2]].keyGen = batches[u[1][2]].keyGen
      BY <1>0, <2>7, <3>4, <3>6 DEF InThisRun
    <3>. QED BY <1>0, <3>6, <3>7, KeysKept
  <2>9. CASE ~Reusable(b, SendPhase(f), ids)
    <3>1. SendGen(f) = batches[b].keyGen /\ batches[b].keyGen \in Nat
      BY <2>2, <2>9 DEF SendGen, MintedGen, BatchRecord
    <3>2. use[1] = <<run, b, SendPhase(f), batches[b].keyGen>> /\ use[2] = ids
      BY <2>1, <3>1
    <3>3. /\ use[1] \in Runs \X BatchIds \X {"rel", "r"} \X Nat
          /\ use[1][1] = run /\ use[1][2] = b /\ use[1][3] = SendPhase(f)
          /\ use[1][4] = batches[b].keyGen
      BY <2>1, <2>2, <3>1, <3>2
    <3>4. run <= created /\ batches'[b].keyGen = batches[b].keyGen + 1
      BY <2>3, <3>1 DEF IInv, StoreInv
    <3>. HIDE DEF use
    \* the new key is above all others of its batch
    <3>5. \A u \in Uses : u[1][1] = run /\ u[1][2] = b => u[1][4] < batches[b].keyGen
      BY <2>2, <2>7 DEF InThisRun
    <3>6. \A u \in Uses : u[1] # use[1]
      BY <2>7, <3>1, <3>3, <3>5
    <3>7. \A u \in Uses' : /\ u[1] \in Runs \X BatchIds \X {"rel", "r"} \X Nat
                           /\ u[1][1] <= created'
                           /\ InThisRun(u[1])' => u[1][4] < batches'[u[1][2]].keyGen
      <4>1. ASSUME NEW u \in Uses
            PROVE  /\ u[1] \in Runs \X BatchIds \X {"rel", "r"} \X Nat
                   /\ u[1][1] <= created'
                   /\ InThisRun(u[1])' => u[1][4] < batches'[u[1][2]].keyGen
        <5>1. u[1] \in Runs \X BatchIds \X {"rel", "r"} \X Nat /\ u[1][1] <= created
          BY <2>7
        <5>2. u[1][2] \in BatchIds /\ u[1][4] \in Nat
          BY <5>1
        <5>3. InThisRun(u[1])' => u[1][4] < batches[u[1][2]].keyGen
          BY <1>0, <2>7 DEF InThisRun
        <5>4. batches'[u[1][2]].keyGen = batches[u[1][2]].keyGen
                \/ (u[1][2] = b /\ batches'[u[1][2]].keyGen = batches[b].keyGen + 1)
          BY <2>3, <3>4, <5>2
        <5>5. InThisRun(u[1])' => u[1][4] < batches'[u[1][2]].keyGen
          BY <3>1, <5>2, <5>3, <5>4
        <5>. QED BY <1>0, <5>1, <5>5
      <4>2. /\ use[1][1] <= created'
            /\ use[1][4] < batches'[use[1][2]].keyGen
        BY <1>0, <3>1, <3>3, <3>4
      <4>. QED BY <2>6, <3>3, <4>1, <4>2
    <3>8. \A u, v \in Uses' : u[1] = v[1] => u[2] = v[2]
      BY <1>0, <2>6, <3>6 DEF KeyInv
    <3>9. ASSUME NEW u \in Uses', IsLast(u)'
          PROVE  /\ \A p \in batches'[u[1][2]].idem : p = <<u[1][3], u[2]>>
                 /\ batches'[u[1][2]].idem = {} => u[1] \in dropped'
      <4>1. CASE u = use
        BY <2>3, <3>2, <3>3, <4>1
      <4>2. CASE u \in Uses
        <5>1. u[1][2] \in BatchIds /\ u[1][4] \in Nat
          BY <2>7, <4>2
        <5>2. InThisRun(u[1]) /\ u[1][1] = run /\ u[1][4] + 1 = batches'[u[1][2]].keyGen
          BY <1>0, <3>9 DEF IsLast, InThisRun
        <5>3. u[1][2] # b
          BY <3>1, <3>4, <3>5, <4>2, <5>1, <5>2
        <5>4. batches'[u[1][2]] = batches[u[1][2]]
          BY <2>3, <5>1, <5>3
        <5>5. IsLast(u)
          BY <5>2, <5>4 DEF IsLast
        <5>. QED BY <1>0, <4>2, <5>4, <5>5 DEF KeyInv
      <4>. QED BY <2>6, <4>1, <4>2
    <3>10. ASSUME NEW u \in Uses', NEW v \in Uses', u[2] = v[2],
                  SameLine(u[1], v[1]), u[1][4] + 1 = v[1][4]
           PROVE  u[1] \in dropped'
      <4>1. CASE u \in Uses /\ v \in Uses
        BY <1>0, <3>10, <4>1 DEF KeyInv
      <4>2. CASE u \in Uses /\ v = use
        <5>1. /\ u[1][1] = run /\ u[1][2] = b /\ u[1][3] = SendPhase(f) /\ u[2] = ids
              /\ u[1][4] + 1 = batches[b].keyGen
          BY <3>2, <3>3, <3>10, <4>2 DEF SameLine
        <5>2. IsLast(u)
          BY <2>2, <5>1 DEF IsLast, InThisRun
        <5>3. /\ \A p \in batches[b].idem : p = <<SendPhase(f), ids>>
              /\ batches[b].idem = {} => u[1] \in dropped
          BY <1>0, <4>2, <5>1, <5>2 DEF KeyInv
        <5>4. batches[b].idem = {}
          BY <2>9, <5>3 DEF Reusable
        <5>. QED BY <1>0, <5>3, <5>4
      <4>3. CASE u = use /\ v \in Uses
        <5>1. v[1][1] = run /\ v[1][2] = b /\ v[1][4] = batches[b].keyGen + 1
          BY <3>3, <3>10, <4>3 DEF SameLine
        <5>2. v[1][4] < batches[b].keyGen
          BY <3>5, <4>3, <5>1
        <5>. QED BY <3>1, <5>1, <5>2
      <4>4. CASE u = use /\ v = use
        BY <3>1, <3>3, <3>10, <4>4
      <4>. QED BY <2>6, <4>1, <4>2, <4>3, <4>4
    <3>. QED BY <3>7, <3>8, <3>9, <3>10 DEF KeyInv
  <2>. QED BY <2>8, <2>9
<1>. QED BY <1>1, <1>2
--------------------------------------------------------------------------------
(* The invariant is kept.                                                   *)

\* The steps of a chain that neither add a batch nor touch a key.
Routine(f) ==
  \/ Claim(f) \/ Build(f) \/ SendAccepted(f) \/ SendRefused(f)
  \/ ToWaiting(f) \/ GiveBack(f) \/ FailOrRetry(f) \/ FailNow(f) \/ MarkDone(f)
  \/ BuildReasons(f) \/ ClaimReasons(f)
  \/ TaskTurn(f) \/ FetchLater(f) \/ FetchGivesUp(f)
  \/ ApplyRelevance(f) \/ RelevanceDone(f) \/ ApplyReasons(f)
  \/ \E c \in Contexts : Look(f, c)
  \/ \E ro \in Kinds : EnqueueLook(f, ro)

LEMMA RoutineShape ==
  ASSUME IInv, NEW f \in Frames, Routine(f)
  PROVE  /\ Carried /\ KeysStay
         /\ run' = run /\ created' = created /\ dropped' = dropped
         /\ finalizing' = finalizing /\ crashes' = crashes
         /\ SendAccepted(f) \/ jobs' = jobs
         /\ EnqueueLook(f, TRUE) \/ EnqueueLook(f, FALSE) \/ enqueues' = enqueues
         /\ ~Reserve(f)
<1>. USE DEF IInv
<1>1. /\ run' = run /\ created' = created /\ dropped' = dropped
      /\ finalizing' = finalizing /\ crashes' = crashes
      /\ SendAccepted(f) \/ jobs' = jobs
  BY DEF Routine, Look, Claim, Build, SendAccepted, SendRefused, ToWaiting, GiveBack,
         FailOrRetry, FailNow, MarkDone, BuildReasons, ClaimReasons, TaskTurn,
         FetchLater, FetchGivesUp, ApplyRelevance, RelevanceDone, ApplyReasons,
         LookSubmit, LookReasons, LookCheck, EnqueueLook, StoreRest, ReadStep
<1>2. EnqueueLook(f, TRUE) \/ EnqueueLook(f, FALSE) \/ enqueues' = enqueues
  BY SetsAssumption
     DEF Routine, Look, Claim, Build, SendAccepted, SendRefused, ToWaiting, GiveBack,
         FailOrRetry, FailNow, MarkDone, BuildReasons, ClaimReasons, TaskTurn,
         FetchLater, FetchGivesUp, ApplyRelevance, RelevanceDone, ApplyReasons,
         LookSubmit, LookReasons, LookCheck, StoreRest, ReadStep
<1>3. Carried /\ KeysStay
  <2>1. CASE \/ Build(f) \/ SendAccepted(f) \/ SendRefused(f) \/ BuildReasons(f)
             \/ TaskTurn(f) \/ FetchLater(f) \/ FetchGivesUp(f) \/ ApplyRelevance(f)
             \/ ApplyReasons(f) \/ (\E c \in Contexts : Look(f, c))
             \/ \E ro \in Kinds : EnqueueLook(f, ro)
    <3>1. UNCHANGED batches
      BY <2>1 DEF Look, Build, SendAccepted, SendRefused, BuildReasons, TaskTurn,
         FetchLater, FetchGivesUp, ApplyRelevance, ApplyReasons,
         LookSubmit, LookReasons, LookCheck, EnqueueLook, ReadStep
    <3>. QED BY <3>1, SameCarried
  <2>2. CASE Claim(f) \/ GiveBack(f) \/ FailNow(f) \/ MarkDone(f) \/ ClaimReasons(f)
    BY <2>2, PhaseSteps
  <2>. QED BY <2>1, <2>2, ToWaitingCarried, RelevanceDoneCarried, FailOrRetryCarried
             DEF Routine
<1>4. ~Reserve(f)
  BY DEF Routine, Look, Claim, Build, SendAccepted, SendRefused, ToWaiting, GiveBack,
         FailOrRetry, FailNow, MarkDone, BuildReasons, ClaimReasons, TaskTurn,
         FetchLater, FetchGivesUp, ApplyRelevance, RelevanceDone, ApplyReasons,
         LookSubmit, LookReasons, LookCheck, EnqueueLook, MayWork, Reserve, At, Free
<1>. QED BY <1>1, <1>2, <1>3, <1>4

\* A row only ever has one of the four statuses.
Statuses == {"unscored", "pending", "complete", "noted"}

LEMMA RowTyped ==
  ASSUME TypeOK, Next
  PROVE  row' \in [Ids -> Statuses]
<1>1. row \in [Ids -> Statuses]
  BY DEF TypeOK, Statuses
<1>2. CASE UNCHANGED row
  BY <1>1, <1>2
<1>3. ASSUME NEW X, row' = [i \in Ids |-> IF i \in X THEN "complete" ELSE row[i]]
      PROVE  row' \in [Ids -> Statuses]
  BY <1>1, <1>3 DEF Statuses
<1>4. ASSUME NEW f \in Frames, Build(f) \/ BuildReasons(f)
      PROVE  row' \in [Ids -> Statuses]
  <2>1. UNCHANGED row
          \/ \E X : row' = [i \in Ids |-> IF i \in X THEN "complete" ELSE row[i]]
    BY <1>4 DEF Build, BuildReasons
  <2>. QED BY <1>2, <1>3, <2>1
<1>5. ASSUME NEW f \in Frames, ApplyRelevance(f) PROVE row' \in [Ids -> Statuses]
  <2>1. \E X, Y : row' = [i \in Ids |-> IF i \in Y THEN "pending"
                                ELSE IF i \in X THEN "complete" ELSE row[i]]
    BY <1>5 DEF ApplyRelevance
  <2>. QED BY <1>1, <2>1 DEF Statuses
<1>6. ASSUME NEW f \in Frames, ApplyReasons(f) PROVE row' \in [Ids -> Statuses]
  <2>1. \E X : row' = [i \in Ids |-> IF i \in X THEN "noted" ELSE row[i]]
    BY <1>6 DEF ApplyReasons
  <2>. QED BY <1>1, <2>1 DEF Statuses
<1>7. ASSUME NEW f \in Frames, Requeue(f) PROVE row' \in [Ids -> Statuses]
  BY <1>1, <1>7 DEF Requeue, Statuses
<1>8. \/ UNCHANGED row
      \/ \E f \in Frames : \/ Build(f) \/ BuildReasons(f) \/ ApplyRelevance(f)
                           \/ ApplyReasons(f) \/ Requeue(f)
  <2>1. ASSUME NEW f \in Frames, FrameStep(f)
        PROVE  \/ UNCHANGED row \/ Build(f) \/ BuildReasons(f)
               \/ ApplyRelevance(f) \/ ApplyReasons(f) \/ Requeue(f)
    <3>1. AppendBatch(f) \/ CreateRun(f) \/ Claim(f) \/ Reserve(f) => UNCHANGED row
      BY DEF AppendBatch, CreateRun, Claim, Reserve
    <3>2. SendAccepted(f) \/ SendRefused(f) => UNCHANGED row
      BY DEF SendAccepted, SendRefused, ReadStep
    <3>3. ToWaiting(f) \/ GiveBack(f) => UNCHANGED row
      BY DEF ToWaiting, GiveBack
    <3>4. FailOrRetry(f) \/ FailNow(f) => UNCHANGED row
      BY DEF FailOrRetry, FailNow
    <3>5. MarkDone(f) \/ ClaimReasons(f) => UNCHANGED row
      BY DEF MarkDone, ClaimReasons
    <3>6. TaskTurn(f) \/ FetchLater(f) => UNCHANGED row
      BY DEF TaskTurn, FetchLater, ReadStep
    <3>7. FetchGivesUp(f) \/ RelevanceDone(f) => UNCHANGED row
      BY DEF FetchGivesUp, RelevanceDone, ReadStep
    <3>. QED BY <2>1, <3>1, <3>2, <3>3, <3>4, <3>5, <3>6, <3>7 DEF FrameStep
  <2>2. ASSUME NEW f \in Frames, NEW c \in Contexts, Look(f, c) PROVE UNCHANGED row
    BY <2>2 DEF Look, LookSubmit, LookReasons, LookCheck, ReadStep
  <2>3. ASSUME NEW f \in Frames, NEW ro \in Kinds, EnqueueLook(f, ro)
        PROVE  UNCHANGED row
    BY <2>3 DEF EnqueueLook, ReadStep
  <2>4. ASSUME \/ \E b \in BatchIds : RevertStuck(b)
               \/ ForceFail \/ BeginFinalize \/ EndFinalize \/ Crash
        PROVE  UNCHANGED row
    BY <2>4 DEF RevertStuck, ForceFail, BeginFinalize, EndFinalize, Crash
  <2>. QED BY <2>1, <2>2, <2>3, <2>4 DEF Next
<1>. QED BY <1>2, <1>4, <1>5, <1>6, <1>7, <1>8

\* A gateway that answers has a job for the key of the request and its ids.
LEMMA SentHasJob ==
  ASSUME IInv, NEW f \in Frames, SendAccepted(f)
  PROVE  /\ jobs \subseteq jobs'
         /\ \E j \in jobs' : j.key = frame[f].key /\ j.ids = frame[f].ids
         /\ \A j \in jobs' : \/ j \in jobs
                             \/ /\ j.key = frame[f].key /\ j.ids = frame[f].ids
                                /\ j.by = frame[f].by
<1>. DEFINE new == [key |-> frame[f].key, ids |-> frame[f].ids, by |-> frame[f].by]
<1>1. jobs' = JobsWith(f) /\ frame[f].at = "send"
  BY DEF SendAccepted, At
<1>2. CASE Accepted(frame[f].key)
  <2>1. PICK j \in jobs : j.key = frame[f].key
    BY <1>2 DEF Accepted
  <2>2. <<j.key, j.ids>> \in Uses /\ <<frame[f].key, frame[f].ids>> \in Uses
    BY <1>1, UsesMember DEF JobUse, ChainUse, HoldsKey
  <2>3. \A u, v \in Uses : u[1] = v[1] => u[2] = v[2]
    BY DEF IInv, KeyInv
  <2>4. <<j.key, j.ids>>[2] = <<frame[f].key, frame[f].ids>>[2]
    BY <2>1, <2>2, <2>3
  <2>5. j.ids = frame[f].ids
    BY <2>4
  <2>. QED BY <1>1, <1>2, <2>1, <2>5 DEF JobsWith
<1>3. CASE ~Accepted(frame[f].key)
  <2>1. jobs' = jobs \cup {new}
    BY <1>1, <1>3 DEF JobsWith
  <2>2. new.key = frame[f].key /\ new.ids = frame[f].ids /\ new.by = frame[f].by
    OBVIOUS
  <2>. HIDE DEF new
  <2>. QED BY <2>1, <2>2
<1>. QED BY <1>2, <1>3

LEMMA FramesKept ==
  ASSUME IInv, NEW f \in Frames, NEW r, Moved(f, r)
  PROVE  /\ frame' \in [Frames -> FrameRecord] /\ FrameInv'
         /\ frame'[f] = r /\ \A g \in Frames : g # f => frame'[g] = frame[g]
<1>1. /\ frame \in [Frames -> FrameRecord] /\ frame' = [frame EXCEPT ![f] = r]
      /\ r \in FrameRecord /\ GoodFrame(r)
  BY DEF Moved, IInv, TypeOK
<1>2. frame'[f] = r /\ \A g \in Frames : g # f => frame'[g] = frame[g]
  BY <1>1
<1>3. \A g \in Frames : GoodFrame(frame'[g])
  BY <1>1, <1>2 DEF IInv, FrameInv
<1>4. frame' \in [Frames -> FrameRecord]
  BY <1>1
<1>. QED BY <1>2, <1>3, <1>4 DEF FrameInv, GoodFrame

\* A batch that comes to wait, or waits on, has its job; the jobs stay.
LEMMA AnswersKept ==
  ASSUME jobs \subseteq jobs',
         \A g \in Frames : frame'[g].at = "ok" =>
           \E j \in jobs' : j.key = frame'[g].key /\ j.ids = frame'[g].ids,
         \A b \in Present' : batches'[b].phase \in Waiting =>
           b \in Present /\ Advances(batches[b], batches'[b])
  PROVE  AnswerInv'
<1>1. ASSUME NEW b \in Present', batches'[b].phase \in Waiting
      PROVE  \E j \in jobs' : j.key = batches'[b].job /\ j.ids = ResultIds(b)'
  <2>1. Advances(batches[b], batches'[b])
    BY <1>1
  <2>2. CASE batches'[b].phase = "waiting-relevance"
    <3>1. HasJob(batches'[b].job, batches'[b].cand) /\ ResultIds(b)' = batches'[b].cand
      BY <2>1, <2>2 DEF Advances, ResultIds
    <3>. QED BY <3>1 DEF HasJob
  <2>3. CASE batches'[b].phase = "waiting-reasons"
    <3>1. HasJob(batches'[b].job, batches'[b].reasonCand)
            /\ ResultIds(b)' = batches'[b].reasonCand
      BY <2>1, <2>3 DEF Advances, ResultIds
    <3>. QED BY <3>1 DEF HasJob
  <2>. QED BY <1>1, <2>2, <2>3 DEF Waiting
<1>. QED BY <1>1 DEF AnswerInv, DecodesItsOwnIds, HasJob

LEMMA RoutineKept ==
  ASSUME IInv, NEW f \in Frames, Routine(f)
  PROVE  /\ KeyInv' /\ StoreInv' /\ FrameInv' /\ AnswerInv'
         /\ frame' \in [Frames -> FrameRecord]
         /\ \A j \in jobs' : j.key \in Key /\ j.ids \in SUBSET Ids /\ j.by \in Runs
<1>1. /\ Carried /\ KeysStay
      /\ run' = run /\ created' = created /\ dropped' = dropped
      /\ SendAccepted(f) \/ jobs' = jobs
      /\ ~Reserve(f)
  BY RoutineShape
<1>2. PICK r : Moved(f, r)
  <2>1. ChainStep(f)
    BY DEF Routine, ChainStep, FrameStep
  <2>. QED BY <2>1, ChainStepMoved DEF IInv
<1>4. /\ frame' \in [Frames -> FrameRecord] /\ FrameInv'
      /\ frame'[f] = r /\ \A g \in Frames : g # f => frame'[g] = frame[g]
  BY <1>2, FramesKept
<1>5. StoreInv' /\ Present' = Present
  BY <1>1, CarriedStore DEF IInv
<1>6. \A u : ChainUse(u)' => ChainUse(u)
  BY <1>1, <1>2, MovedUses DEF IInv
<1>7. \A u : JobUse(u)' => JobUse(u) \/ ChainUse(u)
  BY <1>1, SentUses DEF JobUse
<1>8. KeyInv'
  BY <1>1, <1>6, <1>7, OrdinaryKeys
<1>9. jobs \subseteq jobs'
  BY <1>1, SentHasJob
<1>11. \A g \in Frames : frame'[g].at = "ok" =>
         \E j \in jobs' : j.key = frame'[g].key /\ j.ids = frame'[g].ids
  <2>1. ASSUME NEW g \in Frames, g # f, frame'[g].at = "ok"
        PROVE  \E j \in jobs' : j.key = frame'[g].key /\ j.ids = frame'[g].ids
    <3>1. frame'[g] = frame[g]
      BY <1>4, <2>1
    <3>2. HasJob(frame[g].key, frame[g].ids)
      BY <2>1, <3>1 DEF IInv, AnswerInv
    <3>. QED BY <1>9, <3>1, <3>2 DEF HasJob
  <2>2. ASSUME r.at = "ok"
        PROVE  \E j \in jobs' : j.key = r.key /\ j.ids = r.ids
    <3>1. SendAccepted(f) /\ r.key = frame[f].key /\ r.ids = frame[f].ids
      BY <1>1, <1>2, <2>2 DEF Moved, HoldsKey
    <3>. QED BY <3>1, SentHasJob
  <2>. QED BY <1>4, <2>1, <2>2
<1>13. AnswerInv'
  BY <1>1, <1>5, <1>9, <1>11, AnswersKept DEF Carried, Present
<1>14. \A j \in jobs' : j.key \in Key /\ j.ids \in SUBSET Ids /\ j.by \in Runs
  <2>1. CASE jobs' = jobs
    BY <2>1 DEF IInv, TypeOK
  <2>2. CASE SendAccepted(f)
    <3>1. frame[f].key \in Key /\ frame[f].ids \in SUBSET Ids /\ frame[f].by \in Runs
      BY <2>2 DEF FrameRecord, TypeOK, IInv, FrameInv, GoodFrame, SendAccepted, At
    <3>. QED BY <2>2, <3>1, SentHasJob DEF IInv, TypeOK
  <2>. QED BY <1>1, <2>1, <2>2
<1>. QED BY <1>4, <1>5, <1>8, <1>13, <1>14

\* The other steps of a chain.
LEMMA SpecialKept ==
  ASSUME IInv, NEW f \in Frames,
         AppendBatch(f) \/ CreateRun(f) \/ Reserve(f) \/ Requeue(f)
  PROVE  /\ KeyInv' /\ StoreInv' /\ FrameInv' /\ AnswerInv'
         /\ frame' \in [Frames -> FrameRecord]
         /\ batches' \in [BatchIds -> BatchRecord]
         /\ jobs' = jobs /\ finalizing' = finalizing
         /\ enqueues' = enqueues /\ crashes' = crashes
<1>1. /\ jobs' = jobs /\ finalizing' = finalizing
      /\ enqueues' = enqueues /\ crashes' = crashes
  BY DEF AppendBatch, CreateRun, Reserve, Requeue, StoreRest
<1>2. PICK r : Moved(f, r)
  <2>1. ChainStep(f)
    BY DEF ChainStep, FrameStep
  <2>. QED BY <2>1, ChainStepMoved DEF IInv
<1>3. /\ frame' \in [Frames -> FrameRecord] /\ FrameInv'
      /\ frame'[f] = r /\ \A g \in Frames : g # f => frame'[g] = frame[g]
  BY <1>2, FramesKept
<1>4. r.at # "ok"
  <2>1. ~SendAccepted(f)
    BY DEF SendAccepted, AppendBatch, CreateRun, Reserve, Requeue, At
  <2>. QED BY <1>2, <2>1 DEF Moved
<1>5. \A g \in Frames : frame'[g].at = "ok" =>
           \E j \in jobs' : j.key = frame'[g].key /\ j.ids = frame'[g].ids
  BY <1>1, <1>3, <1>4 DEF IInv, AnswerInv, HasJob
<1>6. CASE Reserve(f) \/ Requeue(f)
  <2>1. run' = run /\ created' = created
    BY <1>6 DEF Reserve, Requeue, StoreRest
  <2>2. Carried
    <3>1. CASE Reserve(f)
      BY <3>1, ReserveCarried
    <3>2. CASE Requeue(f) /\ ~Lost(f)
      BY <3>2, RequeueShape
    <3>3. CASE Requeue(f) /\ Lost(f)
      BY <3>3, SameCarried DEF Requeue, IInv
    <3>. QED BY <1>6, <3>1, <3>2, <3>3
  <2>3. StoreInv' /\ Present' = Present
    BY <2>1, <2>2, CarriedStore DEF IInv
  <2>4. KeyInv'
    BY <1>6, ReserveKeys, RequeueKeys
  <2>5. AnswerInv'
    BY <1>1, <1>5, <2>2, <2>3, AnswersKept DEF Carried, Present
  <2>. QED BY <1>1, <1>3, <2>2, <2>3, <2>4, <2>5 DEF Carried
<1>7. CASE AppendBatch(f) \/ CreateRun(f)
  <2>1. /\ batches' \in [BatchIds -> BatchRecord] /\ StoreInv' /\ KeysStay
        /\ \A b \in Present : batches'[b] = batches[b]
        /\ \A b \in BatchIds \ Present :
             batches'[b] = batches[b] \/ batches'[b].phase = "queued"
    BY <1>7, NewBatchKeeps
  <2>2. \A b \in Present' : batches'[b].phase \in Waiting =>
           b \in Present /\ Advances(batches[b], batches'[b])
    <3>1. ASSUME NEW b \in Present', batches'[b].phase \in Waiting
          PROVE  b \in Present /\ batches'[b] = batches[b]
      BY <2>1, <3>1 DEF Present, Waiting
    <3>. QED BY <3>1, StayAdvances DEF IInv
  <2>3. AnswerInv'
    BY <1>1, <1>5, <2>2, AnswersKept
  <2>4. dropped' = dropped /\ ~Reserve(f)
    BY <1>7 DEF AppendBatch, CreateRun, Reserve, At
  <2>5. \A u : ChainUse(u)' => ChainUse(u)
    BY <1>2, <2>4, MovedUses DEF IInv
  <2>6. \/ run' = run /\ created' = created
        \/ run = NoRun /\ run' = created' /\ created' = created + 1
    BY <1>7, NewBatchShape DEF IInv
  <2>7. KeyInv'
    <3>1. CASE run' = run /\ created' = created
      BY <1>1, <2>1, <2>4, <2>5, <3>1, OrdinaryKeys DEF JobUse
    <3>2. CASE run = NoRun /\ run' = created' /\ created' = created + 1
      BY <1>1, <2>1, <2>4, <2>5, <3>2, NewRunKeys
    <3>. QED BY <2>6, <3>1, <3>2
  <2>. QED BY <1>1, <1>3, <2>1, <2>3, <2>7
<1>. QED BY <1>6, <1>7

\* The steps of no chain.
LEMMA StoreStepsKept ==
  ASSUME IInv, (\E b \in BatchIds : RevertStuck(b)) \/ ForceFail
  PROVE  /\ KeyInv' /\ StoreInv' /\ FrameInv' /\ AnswerInv'
         /\ batches' \in [BatchIds -> BatchRecord]
<1>1. /\ run' = run /\ created' = created /\ frame' = frame /\ jobs' = jobs
      /\ dropped' = dropped
  BY DEF RevertStuck, ForceFail, StoreRest
<1>2. Carried /\ KeysStay
  BY RevertStuckCarried, ForceFailCarried
<1>3. StoreInv' /\ Present' = Present
  BY <1>1, <1>2, CarriedStore DEF IInv
<1>4. KeyInv'
  BY <1>1, <1>2, OrdinaryKeys DEF ChainUse, JobUse
<1>5. FrameInv'
  BY <1>1 DEF IInv, FrameInv, GoodFrame
<1>6. AnswerInv'
  BY <1>1, <1>2, <1>3, AnswersKept DEF Carried, Present, IInv, AnswerInv, HasJob
<1>. QED BY <1>2, <1>3, <1>4, <1>5, <1>6 DEF Carried

LEMMA FinalizeKept ==
  ASSUME IInv, BeginFinalize \/ EndFinalize
  PROVE  /\ KeyInv' /\ StoreInv' /\ FrameInv' /\ AnswerInv'
         /\ batches' \in [BatchIds -> BatchRecord]
<1>1. frame' = frame /\ jobs' = jobs /\ dropped' = dropped /\ created' = created
  BY DEF BeginFinalize, EndFinalize
<1>2. FrameInv'
  BY <1>1 DEF IInv, FrameInv, GoodFrame
<1>3. \A g \in Frames : frame'[g].at = "ok" =>
           \E j \in jobs' : j.key = frame'[g].key /\ j.ids = frame'[g].ids
  BY <1>1 DEF IInv, AnswerInv, HasJob
<1>4. CASE BeginFinalize
  <2>1. run' = run /\ UNCHANGED batches
    BY <1>4 DEF BeginFinalize
  <2>2. Carried /\ KeysStay
    BY <2>1, SameCarried DEF IInv
  <2>3. StoreInv' /\ Present' = Present
    BY <1>1, <2>1, <2>2, CarriedStore DEF IInv
  <2>4. KeyInv'
    BY <1>1, <2>1, <2>2, OrdinaryKeys DEF ChainUse, JobUse
  <2>5. AnswerInv'
    BY <1>1, <1>3, <2>2, <2>3, AnswersKept DEF Carried, Present
  <2>. QED BY <1>2, <2>2, <2>3, <2>4, <2>5 DEF Carried
<1>5. CASE EndFinalize
  <2>1. /\ StoreInv' /\ batches' \in [BatchIds -> BatchRecord]
        /\ \A b \in BatchIds : batches'[b] = NoBatch
    BY <1>5, EndFinalizeStore DEF IInv
  <2>2. Present' = {}
    BY <2>1 DEF Present, NoBatch
  <2>3. AnswerInv'
    BY <1>1, <1>3, <2>2, AnswersKept
  <2>. QED BY <1>2, <1>5, <2>1, <2>3, EndFinalizeKeys
<1>. QED BY <1>4, <1>5

LEMMA CrashKept ==
  ASSUME IInv, Crash
  PROVE  /\ KeyInv' /\ StoreInv' /\ FrameInv' /\ AnswerInv'
         /\ batches' \in [BatchIds -> BatchRecord]
         /\ frame' \in [Frames -> FrameRecord]
<1>1. /\ run' = run /\ created' = created /\ jobs' = jobs /\ dropped' = dropped
      /\ UNCHANGED batches
      /\ frame' \in [Frames -> FrameRecord] /\ \A g \in Frames : frame'[g] = IdleFrame
  BY IdleGood DEF Crash
<1>2. Carried /\ KeysStay
  BY <1>1, SameCarried DEF IInv
<1>3. StoreInv' /\ Present' = Present
  BY <1>1, <1>2, CarriedStore DEF IInv
<1>4. \A g \in Frames : frame'[g].at = "idle"
  BY <1>1 DEF IdleFrame
<1>5. KeyInv'
  BY <1>1, <1>2, <1>4, OrdinaryKeys DEF ChainUse, JobUse, HoldsKey
<1>6. FrameInv'
  BY <1>1, IdleGood DEF FrameInv, GoodFrame
<1>7. AnswerInv'
  BY <1>1, <1>2, <1>3, <1>4, AnswersKept DEF Carried, Present
<1>. QED BY <1>1, <1>2, <1>3, <1>5, <1>6, <1>7 DEF Carried

LEMMA GivenUpKeys ==
  ASSUME IInv, NEW b \in Present
  PROVE  GivenUp(b) \subseteq Key
<1>1. b \in BatchIds /\ batches[b] \in BatchRecord /\ GoodBatch(batches[b])
  BY DEF Present, IInv, TypeOK, StoreInv
<1>2. run \in Runs
  BY DEF IInv, StoreInv, TypeOK, Runs, NoRun
<1>3. ASSUME NEW p \in batches[b].idem
      PROVE  KeyOf(b, p[1], batches[b].keyGen - 1) \in Key
  <2>1. p[1] \in {"rel", "r"}
    BY <1>1 DEF BatchRecord
  <2>2. batches[b].keyGen - 1 \in Nat
    BY <1>1 DEF BatchRecord, GoodBatch
  <2>. QED BY <1>1, <1>2, <2>1, <2>2 DEF KeyOf, Key
<1>. QED BY <1>3 DEF GivenUp

\* The numbers, and the keys that were given up.
LEMMA CountsTyped ==
  ASSUME IInv, Next
  PROVE  /\ run' \in 0..MaxRuns /\ created' \in 0..MaxRuns
         /\ finalizing' \in BOOLEAN /\ dropped' \subseteq Key
         /\ enqueues' \in 0..MaxBatches /\ crashes' \in 0..MaxCrashes
<1>0. /\ run \in 0..MaxRuns /\ created \in 0..MaxRuns
      /\ finalizing \in BOOLEAN /\ dropped \subseteq Key
      /\ enqueues \in 0..MaxBatches /\ crashes \in 0..MaxCrashes
      /\ MaxRuns \in Nat /\ MaxBatches \in Nat /\ MaxCrashes \in Nat
  BY BoundsAssumption DEF IInv, TypeOK
<1>1. ASSUME NEW f \in Frames, Routine(f)
      PROVE  /\ run' = run /\ created' = created /\ dropped' = dropped
             /\ finalizing' = finalizing /\ crashes' = crashes
             /\ enqueues' \in 0..MaxBatches
  <2>1. /\ run' = run /\ created' = created /\ dropped' = dropped
        /\ finalizing' = finalizing /\ crashes' = crashes
        /\ EnqueueLook(f, TRUE) \/ EnqueueLook(f, FALSE) \/ enqueues' = enqueues
    BY <1>1, RoutineShape
  <2>2. \A ro : EnqueueLook(f, ro) => enqueues' \in 0..MaxBatches
    BY <1>0 DEF EnqueueLook
  <2>. QED BY <1>0, <2>1, <2>2
<1>2. ASSUME NEW f \in Frames, AppendBatch(f) \/ CreateRun(f)
      PROVE  /\ run' \in 0..MaxRuns /\ created' \in 0..MaxRuns
             /\ UNCHANGED <<finalizing, dropped, enqueues, crashes>>
  <2>1. UNCHANGED <<finalizing, dropped, enqueues, crashes>>
    BY <1>2 DEF AppendBatch, CreateRun, StoreRest
  <2>2. /\ \/ run' = run /\ created' = created
           \/ run' = created' /\ created' \in Runs
    BY <1>2, NewBatchShape DEF IInv
  <2>. QED BY <1>0, <2>1, <2>2 DEF Runs
<1>3. ASSUME NEW f \in Frames, Reserve(f)
      PROVE  UNCHANGED <<run, created, finalizing, dropped, enqueues, crashes>>
  BY <1>3 DEF Reserve, StoreRest
<1>4. ASSUME NEW f \in Frames, Requeue(f)
      PROVE  /\ UNCHANGED <<run, created, finalizing, enqueues, crashes>>
             /\ dropped' \subseteq Key
  <2>1. UNCHANGED <<run, created, finalizing, enqueues, crashes>>
    BY <1>4 DEF Requeue, StoreRest
  <2>2. CASE Lost(f)
    BY <1>0, <1>4, <2>1, <2>2 DEF Requeue
  <2>3. CASE ~Lost(f)
    BY <1>0, <1>4, <2>1, <2>3, RequeueShape, GivenUpKeys
  <2>. QED BY <2>2, <2>3
<1>5. ASSUME \/ \E b \in BatchIds : RevertStuck(b)
             \/ ForceFail \/ BeginFinalize \/ EndFinalize \/ Crash
      PROVE  /\ run' \in 0..MaxRuns /\ created' \in 0..MaxRuns
             /\ finalizing' \in BOOLEAN /\ dropped' \subseteq Key
             /\ enqueues' \in 0..MaxBatches /\ crashes' \in 0..MaxCrashes
  <2>1. /\ run' = run \/ run' = 0
        /\ created' = created /\ finalizing' \in {finalizing, TRUE, FALSE}
        /\ dropped' = dropped /\ enqueues' = enqueues
    BY <1>5 DEF RevertStuck, ForceFail, BeginFinalize, EndFinalize, Crash, StoreRest, NoRun
  <2>2. Crash => crashes' \in 0..MaxCrashes
    BY <1>0 DEF Crash
  <2>3. crashes' \in 0..MaxCrashes
    <3>1. (\E b \in BatchIds : RevertStuck(b)) => crashes' = crashes
      BY DEF RevertStuck, StoreRest
    <3>2. ForceFail \/ BeginFinalize \/ EndFinalize => crashes' = crashes
      BY DEF ForceFail, BeginFinalize, EndFinalize, StoreRest
    <3>. QED BY <1>0, <1>5, <2>2, <3>1, <3>2
  <2>4. finalizing' \in BOOLEAN
    BY <1>0, <2>1
  <2>. QED BY <1>0, <2>1, <2>3, <2>4
<1>. QED BY <1>0, <1>1, <1>2, <1>3, <1>4, <1>5 DEF Next, FrameStep, Routine

LEMMA InitInv == Init => IInv
<1>. SUFFICES ASSUME Init PROVE IInv
  OBVIOUS
<1>1. 0 \in 0..MaxRuns /\ 0 \in 0..MaxBatches /\ 0 \in 0..MaxCrashes
  BY BoundsAssumption
<1>2. batches \in [BatchIds -> BatchRecord] /\ \A b \in BatchIds : batches[b] = NoBatch
  BY NoBatchGood DEF Init
<1>3. frame \in [Frames -> FrameRecord] /\ \A f \in Frames : frame[f] = IdleFrame
  BY IdleGood DEF Init
<1>4. TypeOK
  BY <1>1, <1>2, <1>3 DEF Init, TypeOK, NoRun
<1>5. FrameInv
  BY <1>3, IdleGood DEF FrameInv
<1>6. Present = {} /\ 1..0 = {}
  BY <1>2 DEF Present, NoBatch
<1>7. StoreInv
  BY <1>1, <1>2, <1>6, NoBatchGood DEF StoreInv, Init, NoRun
<1>8. Uses = {}
  <2>1. \A f \in Frames : frame[f].at = "idle"
    BY <1>3 DEF IdleFrame
  <2>2. \A b \in BatchIds : batches[b].idem = {}
    BY <1>2 DEF NoBatch
  <2>3. \A u : ~JobUse(u) /\ ~ChainUse(u) /\ ~StoreUse(u)
    BY <2>1, <2>2 DEF Init, JobUse, ChainUse, StoreUse, HoldsKey
  <2>. QED BY <2>3, UsesMember
<1>9. KeyInv
  BY <1>8 DEF KeyInv
<1>10. AnswerInv
  <2>1. \A f \in Frames : frame[f].at = "idle"
    BY <1>3 DEF IdleFrame
  <2>. QED BY <1>6, <2>1 DEF AnswerInv, DecodesItsOwnIds
<1>. QED BY <1>4, <1>5, <1>7, <1>9, <1>10 DEF IInv

LEMMA NextInv == IInv /\ [Next]_vars => IInv'
<1>. SUFFICES ASSUME IInv, [Next]_vars PROVE IInv'
  OBVIOUS
<1>1. CASE UNCHANGED vars
  <2>1. UNCHANGED <<run, created, batches, row, frame, finalizing, jobs, dropped,
                    enqueues, crashes>>
    BY <1>1 DEF vars
  <2>2. TypeOK'
    BY <2>1 DEF IInv, TypeOK
  <2>3. Carried /\ KeysStay
    BY <2>1, SameCarried DEF IInv
  <2>4. StoreInv' /\ Present' = Present
    BY <2>1, <2>3, CarriedStore DEF IInv
  <2>5. KeyInv'
    BY <2>1, <2>3, OrdinaryKeys DEF ChainUse, JobUse
  <2>6. FrameInv'
    BY <2>1 DEF IInv, FrameInv, GoodFrame
  <2>7. AnswerInv'
    BY <2>1, <2>3, <2>4, AnswersKept DEF Carried, Present, IInv, AnswerInv, HasJob
  <2>. QED BY <2>2, <2>4, <2>5, <2>6, <2>7 DEF IInv
<1>2. CASE Next
  <2>1. /\ KeyInv' /\ StoreInv' /\ FrameInv' /\ AnswerInv'
        /\ frame' \in [Frames -> FrameRecord]
        /\ batches' \in [BatchIds -> BatchRecord]
        /\ \A j \in jobs' : j.key \in Key /\ j.ids \in SUBSET Ids /\ j.by \in Runs
    <3>0. /\ frame \in [Frames -> FrameRecord]
          /\ \A j \in jobs : j.key \in Key /\ j.ids \in SUBSET Ids /\ j.by \in Runs
      BY DEF IInv, TypeOK
    <3>1. CASE \E f \in Frames : Routine(f)
      BY <3>1, RoutineKept, RoutineShape DEF Carried
    <3>2. CASE \E f \in Frames :
                 AppendBatch(f) \/ CreateRun(f) \/ Reserve(f) \/ Requeue(f)
      BY <3>0, <3>2, SpecialKept
    <3>3. CASE (\E b \in BatchIds : RevertStuck(b)) \/ ForceFail
      <4>1. frame' = frame /\ jobs' = jobs
        BY <3>3 DEF RevertStuck, ForceFail
      <4>. QED BY <3>0, <3>3, <4>1, StoreStepsKept
    <3>4. CASE BeginFinalize \/ EndFinalize
      <4>1. frame' = frame /\ jobs' = jobs
        BY <3>4 DEF BeginFinalize, EndFinalize
      <4>. QED BY <3>0, <3>4, <4>1, FinalizeKept
    <3>5. CASE Crash
      <4>1. jobs' = jobs
        BY <3>5 DEF Crash
      <4>. QED BY <3>0, <3>5, <4>1, CrashKept
    <3>. QED BY <1>2, <3>1, <3>2, <3>3, <3>4, <3>5 DEF Next, FrameStep, Routine
  <2>2. row' \in [Ids -> {"unscored", "pending", "complete", "noted"}]
    BY <1>2, RowTyped DEF IInv, Statuses
  <2>3. TypeOK'
    BY <1>2, <2>1, <2>2, CountsTyped DEF TypeOK
  <2>. QED BY <2>1, <2>3 DEF IInv
<1>. QED BY <1>1, <1>2
--------------------------------------------------------------------------------
(* The theorems.                                                            *)

LEMMA InvAlways == Spec => []IInv
  BY InitInv, NextInv, PTL DEF Spec

\* Types: of the run, its batches, the rows, the chains of awaits and the jobs.
THEOREM TypeCorrect == Spec => []TypeOK
<1>1. IInv => TypeOK
  BY DEF IInv
<1>. QED BY <1>1, InvAlways, PTL

\* A batch that waits lists the ids its job was sent with, so its results are
\* decoded by the right positions, whatever was lost, replayed, retried, reverted
\* or killed on the way (doSubmit, transitionToWaitingRelevance, checkBatch).
THEOREM ResultsDecode == Spec => []DecodesItsOwnIds
<1>1. IInv => DecodesItsOwnIds
  BY DEF IInv, AnswerInv
<1>. QED BY <1>1, InvAlways, PTL

\* The ids of a batch's last request are sent with a new key only if the job of
\* the old one was given up, so that nothing is billed twice
\* (reserveIdempotencyKey, forgetIdempotencyKey).
THEOREM NoSecondBill == Spec => []BilledOnce
<1>1. IInv => BilledOnce
  <2>. SUFFICES ASSUME IInv, NEW j \in jobs, NEW k \in jobs, j.ids = k.ids,
                       j.key[4] + 1 = k.key[4], \A n \in 1..3 : j.key[n] = k.key[n]
                PROVE  j.key \in dropped
    BY DEF BilledOnce
  <2>1. <<j.key, j.ids>> \in Uses /\ <<k.key, k.ids>> \in Uses
    BY UsesMember DEF JobUse
  <2>2. SameLine(j.key, k.key)
    BY DEF SameLine
  <2>3. \A u, v \in Uses :
          u[2] = v[2] /\ SameLine(u[1], v[1]) /\ u[1][4] + 1 = v[1][4] => u[1] \in dropped
    BY DEF IInv, KeyInv
  <2>4. <<j.key, j.ids>>[1] \in dropped
    BY <2>1, <2>2, <2>3
  <2>. QED BY <2>4
<1>. QED BY <1>1, InvAlways, PTL

\* Within a run a batch stays in it, and moves on only as Advances says.
LEMMA BatchMovesOn ==
  ASSUME IInv, Next, run' = run, NEW b \in Present
  PROVE  batches'[b] = batches[b] \/ Advances(batches[b], batches'[b])
<1>1. b \in BatchIds
  BY DEF Present
<1>2. CASE Carried
  BY <1>1, <1>2 DEF Carried
<1>3. CASE UNCHANGED batches
  BY <1>3
<1>4. CASE \E f \in Frames : AppendBatch(f) \/ CreateRun(f)
  BY <1>4, NewBatchKeeps
<1>5. CASE \E f \in Frames : Requeue(f)
  BY <1>2, <1>3, <1>5, RequeueShape DEF Requeue
<1>6. CASE EndFinalize
  BY <1>6 DEF EndFinalize, IInv, StoreInv
<1>7. CASE BeginFinalize \/ Crash
  BY <1>3, <1>7 DEF BeginFinalize, Crash
<1>. QED
  BY <1>2, <1>4, <1>5, <1>6, <1>7, RoutineShape, ReserveCarried, RevertStuckCarried,
     ForceFailCarried DEF Next, FrameStep, Routine

\* A step that takes a scored batch back to its relevance job is a chain's that
\* submits a batch of owed notes, which this one is not.
LEMMA ScoresStay ==
  ASSUME IInv, Next, run' = run, NEW b \in Present,
         PastRelevance(b), ~batches[b].reasonsOnly
  PROVE  PastRelevance(b)' \/ IsTerminal(b)' \/ OfAnEndedRun(b)
<1>. DEFINE Kept == PastRelevance(b)' \/ IsTerminal(b)'
<1>. USE DEF IInv
<1>0. /\ b \in BatchIds /\ batches[b] \in BatchRecord
      /\ batches \in [BatchIds -> BatchRecord] /\ run # NoRun
      /\ batches[b].phase \in {"needs-reasons-submit", "submitting-reasons", "waiting-reasons"}
  BY DEF Present, TypeOK, StoreInv, PastRelevance
<1>1. batches'[b].phase = batches[b].phase => Kept
  BY DEF PastRelevance
<1>2. batches'[b].phase \in {"done", "failed", "needs-reasons-submit",
                             "submitting-reasons", "waiting-reasons"} => Kept
  BY DEF PastRelevance, IsTerminal, Terminal
<1>. HIDE DEF Kept
<1>3. ASSUME NEW f \in Frames, GiveBack(f) PROVE Kept \/ OfAnEndedRun(b)
  <2>1. frame[f].at \in {"retryLater", "threw"} /\ Leave(f)
    BY <1>3 DEF GiveBack, At
  <2>2. frame[f].from \in Submitting /\ frame[f].kind \in {"submit", "reasons"}
    BY <2>1 DEF FrameInv, GoodFrame
  <2>3. frame'[f] # frame[f]
    <3>1. frame'[f] = IdleFrame
      BY <2>1 DEF Leave, TypeOK
    <3>2. IdleFrame.at = "idle"
      BY DEF IdleFrame
    <3>. QED BY <2>1, <3>1, <3>2
  <2>4. CASE Lost(f) \/ frame[f].batch # b
    BY <1>0, <1>1, <1>3, <2>4 DEF GiveBack, Write
  <2>5. CASE ~Lost(f) /\ frame[f].batch = b
    <3>1. batches[b].phase = frame[f].from
      BY <2>1, <2>5, FoundPresent
    <3>2. frame[f].from = "submitting-reasons"
      BY <1>0, <2>2, <3>1 DEF Submitting
    <3>3. CASE frame[f].kind = "submit"
      BY <2>3, <2>5, <3>2, <3>3 DEF OfAnEndedRun
    <3>4. CASE frame[f].kind = "reasons"
      <4>1. batches'[b] = [batches[b] EXCEPT !.phase = "needs-reasons-submit"]
        BY <1>0, <1>3, <2>5, <3>4 DEF GiveBack, Write
      <4>2. batches'[b].phase = "needs-reasons-submit"
        BY <1>0, <4>1 DEF BatchRecord
      <4>. QED BY <1>2, <4>2
    <3>. QED BY <2>2, <3>3, <3>4
  <2>. QED BY <2>4, <2>5
<1>4. ASSUME NEW f \in Frames, FailOrRetry(f) PROVE Kept \/ OfAnEndedRun(b)
  <2>1. frame[f].at \in {"failed", "threw"} /\ Leave(f) /\ frame[f].kind = "submit"
    BY <1>4 DEF FailOrRetry, At
  <2>2. frame[f].from \in Submitting
    BY <2>1 DEF FrameInv, GoodFrame
  <2>3. frame'[f] # frame[f]
    <3>1. frame'[f] = IdleFrame
      BY <2>1 DEF Leave, TypeOK
    <3>2. IdleFrame.at = "idle"
      BY DEF IdleFrame
    <3>. QED BY <2>1, <3>1, <3>2
  <2>4. CASE Lost(f) \/ frame[f].batch # b
    BY <1>0, <1>1, <1>4, <2>4 DEF FailOrRetry, Write
  <2>5. CASE ~Lost(f) /\ frame[f].batch = b
    <3>1. batches[b].phase = frame[f].from
      BY <2>1, <2>5, FoundPresent
    <3>2. frame[f].from = "submitting-reasons"
      BY <1>0, <2>2, <3>1 DEF Submitting
    <3>. QED BY <2>1, <2>3, <2>5, <3>2 DEF OfAnEndedRun
  <2>. QED BY <2>4, <2>5
<1>5. ASSUME NEW f \in Frames,
             Claim(f) \/ FailNow(f) \/ MarkDone(f) \/ ClaimReasons(f)
      PROVE  Kept
  <2>1. CASE UNCHANGED batches
    BY <1>1, <2>1
  <2>2. CASE ~UNCHANGED batches
    <3>1. PICK ph \in BatchPhase :
            /\ batches' = [batches EXCEPT ![frame[f].batch] =
                             [batches[frame[f].batch] EXCEPT !.phase = ph]]
            /\ \/ ph \in {"done", "failed", "submitting-reasons"}
               \/ PhaseOf(frame[f].batch) = "queued"
      <4>1. SubmitPhase(frame[f].batch) \in BatchPhase /\ "done" \in BatchPhase
              /\ "failed" \in BatchPhase /\ "submitting-reasons" \in BatchPhase
        BY DEF SubmitPhase, BatchPhase, Submitting, Terminal
      <4>. QED BY <1>5, <2>2, <4>1 DEF Claim, FailNow, MarkDone, ClaimReasons, Write
    <3>2. CASE frame[f].batch = b
      <4>1. batches'[b] = [batches[b] EXCEPT !.phase = ph]
        BY <1>0, <3>1, <3>2
      <4>2. batches'[b].phase = ph
        BY <1>0, <4>1 DEF BatchRecord
      <4>3. PhaseOf(b) # "queued"
        BY <1>0 DEF PhaseOf
      <4>. QED BY <1>2, <3>1, <3>2, <4>2, <4>3
    <3>3. CASE frame[f].batch # b
      BY <1>0, <1>1, <3>1, <3>3
    <3>. QED BY <3>2, <3>3
  <2>. QED BY <2>1, <2>2
<1>6. ASSUME NEW f \in Frames, ToWaiting(f) \/ RelevanceDone(f) PROVE Kept
  <2>1. CASE UNCHANGED batches
    BY <1>1, <2>1
  <2>2. CASE ~UNCHANGED batches /\ frame[f].batch # b
    BY <1>0, <1>1, <1>6, <2>2 DEF ToWaiting, RelevanceDone, Write
  <2>3. CASE ~UNCHANGED batches /\ frame[f].batch = b
    <3>1. PhaseOf(b) = batches[b].phase
      BY <1>0 DEF PhaseOf
    <3>2. batches'[b] = [batches[b] EXCEPT !.phase = "waiting-reasons",
                           !.job = frame[f].key, !.reasonCand = frame[f].ids]
      BY <1>0, <1>6, <2>3, <3>1 DEF ToWaiting, RelevanceDone, Write
    <3>3. batches'[b].phase = "waiting-reasons"
      BY <1>0, <3>2 DEF BatchRecord
    <3>. QED BY <1>2, <3>3
  <2>. QED BY <2>1, <2>2, <2>3
<1>7. ASSUME NEW f \in Frames, Reserve(f) PROVE Kept
  <2>1. CASE Lost(f)
    BY <1>1, <1>7, <2>1 DEF Reserve
  <2>2. CASE ~Lost(f)
    <3>1. batches' = [batches EXCEPT ![frame[f].batch] =
              [batches[frame[f].batch] EXCEPT !.idem = {<<SendPhase(f), frame[f].ids>>},
                                              !.keyGen = SendGen(f) + 1]]
      BY <1>7, <2>2, ReserveShape
    <3>2. batches'[b].phase = batches[b].phase
      BY <1>0, <3>1 DEF BatchRecord
    <3>. QED BY <1>1, <3>2
  <2>. QED BY <2>1, <2>2
<1>8. ASSUME NEW f \in Frames, Requeue(f) PROVE Kept
  <2>1. CASE Lost(f)
    BY <1>1, <1>8, <2>1 DEF Requeue
  <2>2. CASE ~Lost(f)
    <3>. DEFINE new == Forget(Retried(batches[frame[f].batch], RequeuedTo(f)))
    <3>1. /\ batches' = [batches EXCEPT ![frame[f].batch] = new]
          /\ batches[frame[f].batch].phase = frame[f].from
          /\ new.phase \in {RequeuedTo(f), "failed"}
      BY <1>8, <2>2, RequeueShape
    <3>. HIDE DEF new
    <3>2. CASE frame[f].batch = b
      <4>1. frame[f].at = "requeue"
        BY <1>8 DEF Requeue, At
      <4>2. frame[f].from = "waiting-reasons"
        BY <1>0, <3>1, <3>2, <4>1 DEF FrameInv, GoodFrame, Waiting
      <4>3. batches'[b].phase \in {"needs-reasons-submit", "failed"}
        BY <1>0, <3>1, <3>2, <4>2 DEF RequeuedTo
      <4>. QED BY <1>2, <4>3
    <3>3. CASE frame[f].batch # b
      BY <1>0, <1>1, <3>1, <3>3
    <3>. QED BY <3>2, <3>3
  <2>. QED BY <2>1, <2>2
<1>9. ASSUME NEW c \in BatchIds, RevertStuck(c) PROVE Kept
  <2>1. CASE c # b
    BY <1>0, <1>1, <1>9, <2>1 DEF RevertStuck, Write
  <2>2. CASE c = b
    <3>1. batches[b].phase = "submitting-reasons"
      BY <1>0, <1>9, <2>2 DEF RevertStuck, Submitting
    <3>2. RevertTarget(b) = "needs-reasons-submit"
      BY <3>1 DEF RevertTarget
    <3>. DEFINE new == Retried(batches[b], RevertTarget(b))
    <3>3. new.phase \in {RevertTarget(b), "failed"}
      <4>1. ~IsTerminal(b)
        BY <3>1 DEF IsTerminal, Terminal
      <4>. QED BY <3>2, <4>1, RetriedAdvances
    <3>4. batches'[b] = new
      BY <1>0, <1>9, <2>2 DEF RevertStuck, Write
    <3>. QED BY <1>2, <3>2, <3>3, <3>4
  <2>. QED BY <2>1, <2>2
<1>10. ASSUME ForceFail PROVE Kept
  <2>1. ~IsTerminal(b)
    BY <1>0 DEF IsTerminal, Terminal
  <2>2. batches'[b] = [batches[b] EXCEPT !.phase = "failed"]
    BY <1>0, <1>10, <2>1 DEF ForceFail
  <2>3. batches'[b].phase = "failed"
    BY <1>0, <2>2 DEF BatchRecord
  <2>. QED BY <1>2, <2>3
<1>11. ASSUME NEW f \in Frames, AppendBatch(f) \/ CreateRun(f) PROVE Kept
  BY <1>1, <1>11, NewBatchKeeps
<1>12. ASSUME UNCHANGED batches PROVE Kept
  BY <1>1, <1>12
<1>13. ASSUME EndFinalize PROVE Kept
  BY <1>0, <1>13 DEF EndFinalize
<1>14. ASSUME NEW f \in Frames,
         \/ Build(f) \/ SendAccepted(f) \/ SendRefused(f) \/ BuildReasons(f)
         \/ TaskTurn(f) \/ FetchLater(f) \/ FetchGivesUp(f) \/ ApplyRelevance(f)
         \/ ApplyReasons(f) \/ (\E c \in Contexts : Look(f, c))
         \/ \E ro \in Kinds : EnqueueLook(f, ro)
       PROVE  Kept
  <2>1. UNCHANGED batches
    BY <1>14 DEF Look, Build, SendAccepted, SendRefused, BuildReasons, TaskTurn,
         FetchLater, FetchGivesUp, ApplyRelevance, ApplyReasons,
         LookSubmit, LookReasons, LookCheck, EnqueueLook, ReadStep
  <2>. QED BY <1>12, <2>1
<1>15. ASSUME BeginFinalize \/ Crash PROVE Kept
  <2>1. UNCHANGED batches
    BY <1>15 DEF BeginFinalize, Crash
  <2>. QED BY <1>12, <2>1
<1>. QED
  <2>1. ASSUME NEW f \in Frames, FrameStep(f) PROVE Kept \/ OfAnEndedRun(b)
    BY <1>3, <1>4, <1>5, <1>6, <1>7, <1>8, <1>11, <1>14, <2>1 DEF FrameStep
  <2>2. Kept \/ OfAnEndedRun(b)
    BY <1>9, <1>10, <1>11, <1>13, <1>14, <1>15, <2>1 DEF Next
  <2>. QED BY <2>2 DEF Kept

\* Within a run no batch is dropped and none that is over is reopened, and no
\* scored batch goes back to its relevance job, but by a chain of an ended run
\* (mutatePipeline with the phase guards of its callers).
THEOREM WorkIsKept == Spec => TerminalStays /\ NeverRescored
<1>1. IInv /\ [Next]_vars =>
        [run' = run => \A b \in Present :
           /\ batches'[b].phase # "absent"
           /\ IsTerminal(b) => batches'[b].phase = batches[b].phase]_vars
  <2>1. ASSUME IInv, Next, run' = run, NEW b \in Present
        PROVE  /\ batches'[b].phase # "absent"
               /\ IsTerminal(b) => batches'[b].phase = batches[b].phase
    BY <2>1, BatchMovesOn DEF Advances, IsTerminal, Present
  <2>. QED BY <2>1
<1>2. IInv /\ [Next]_vars =>
        [run' = run => \A b \in Present :
           PastRelevance(b) /\ ~batches[b].reasonsOnly
             => PastRelevance(b)' \/ IsTerminal(b)' \/ OfAnEndedRun(b)]_vars
  BY ScoresStay
<1>. QED BY <1>1, <1>2, InvAlways, PTL DEF Spec, TerminalStays, NeverRescored
================================================================================
