----------------------------- MODULE PipelineStore -----------------------------
(***************************************************************************)
(* lib/database/services/scoring-pipeline-store.ts: how the one persisted  *)
(* run of ScoringPipeline is created, read, mutated and cleared.           *)
(*                                                                         *)
(* The run is a row of the settings table and its E2EE secret an item of   *)
(* the keychain, so creating and clearing are two writes to two stores,    *)
(* and reading is two reads.  A mutation reads the row, applies a mutator  *)
(* to a copy, reads the row again and writes the copy if the version did   *)
(* not move.  Every call is a chain of awaits; chain[c].at is the one it   *)
(* is suspended in.  Mutations of this JS context wait for each other in   *)
(* writeQueue, the other operations do not wait for anything.              *)
(*                                                                         *)
(* A second JS context and a row that does not parse are not modelled.     *)
(***************************************************************************)
EXTENDS Integers, Sequences, FiniteSets

CONSTANTS
  Callers,         \* bound: store operations under way at once
  MaxRuns,         \* bound: calls of createPipeline that find no run
  MaxMutations,    \* bound: calls of mutatePipeline
  MaxCasAttempts,  \* MAX_CAS_ATTEMPTS
  MaxCrashes       \* bound: kills of the process

ASSUME BoundsAssumption ==
  /\ MaxRuns \in Nat /\ MaxMutations \in Nat /\ MaxCrashes \in Nat
  /\ MaxCasAttempts \in Nat \ {0}
ASSUME CallersAssumption == IsFiniteSet(Callers)

VARIABLES
  row,        \* the settings row, {} or one stored run
  key,        \* whose secret the keychain holds, NoKey if none
  chain,      \* the operations under way
  writeQueue, \* callers of mutatePipeline in turn, the head at work
  created,    \* createPipeline calls that got past the check
  issued,     \* mutatePipeline calls so far
  acked,      \* by run: mutations whose caller was told they are persisted
  overlapped, \* history: has anything run beside a create or a clear?
  crashes     \* kills so far

vars == <<row, key, chain, writeQueue, created, issued, acked, overlapped, crashes>>

NoKey     == 0
Runs      == 1..MaxRuns
Mutations == 1..MaxMutations

\* A stored run; its content is the set of mutations that made it.
StoredRun == [run : Runs, version : Nat \ {0}, has : SUBSET Mutations]
Fresh(r)  == [run |-> r, version |-> 1, has |-> {}]

Idle == [at |-> "idle", run |-> NoKey, seen |-> {}, mutation |-> 0, attempt |-> 0]

Init ==
  /\ row = {} /\ key = NoKey
  /\ chain = [c \in Callers |-> Idle]
  /\ writeQueue = <<>>
  /\ created = 0 /\ issued = 0 /\ crashes = 0
  /\ acked = [r \in Runs |-> {}]
  /\ overlapped = FALSE
--------------------------------------------------------------------------------
At(c, where) == chain[c].at = where
Goto(c, where) == chain' = [chain EXCEPT ![c].at = where]
Return(c) == chain' = [chain EXCEPT ![c] = Idle]
Counters == UNCHANGED <<created, issued, acked, crashes>>

\* createPipeline: throws if there is a row; the secret goes first.  Either
\* write may reject.
CreateCheck(c) ==
  /\ At(c, "idle") /\ row = {} /\ created < MaxRuns
  /\ created' = created + 1
  /\ chain' = [chain EXCEPT ![c] = [Idle EXCEPT !.at = "createKey", !.run = created + 1]]
  /\ UNCHANGED <<row, key, writeQueue, issued, acked, crashes>>

\* Mutant: the row goes first.
CreateKeyLate(c) ==
  /\ At(c, "createKey")
  /\ \/ row' = {Fresh(chain[c].run)} /\ Goto(c, "createRow")
     \/ UNCHANGED row /\ Return(c)
  /\ UNCHANGED <<key, writeQueue>> /\ Counters

CreateKey(c) ==
  /\ At(c, "createKey")
  /\ \/ key' = chain[c].run /\ Goto(c, "createRow")
     \/ UNCHANGED key /\ Return(c)
  /\ UNCHANGED <<row, writeQueue>> /\ Counters

CreateRow(c) ==
  /\ At(c, "createRow")
  /\ row' = {Fresh(chain[c].run)} \/ UNCHANGED row
  /\ Return(c)
  /\ UNCHANGED <<key, writeQueue>> /\ Counters
--------------------------------------------------------------------------------
\* getPipeline: the row, then its secret.
GetRow(c) ==
  /\ At(c, "idle") /\ row # {}
  /\ Goto(c, "getKey")
  /\ UNCHANGED <<row, key, writeQueue>> /\ Counters

\* Mutant: a missing secret is taken for one that cannot be read now.
GetKeyNoHeal(c) ==
  /\ At(c, "getKey")
  /\ Return(c)
  /\ UNCHANGED <<row, key, writeQueue>> /\ Counters

\* A keychain that cannot be read now answers null and clears nothing; a secret
\* that is missing clears both stores.
GetKey(c) ==
  /\ At(c, "getKey")
  /\ \/ Return(c)
     \/ key = NoKey /\ Goto(c, "healRow")
  /\ UNCHANGED <<row, key, writeQueue>> /\ Counters

\* clearBoth: the row goes first; a rejected delete is only reported.
HealRow(c) ==
  /\ At(c, "healRow")
  /\ row' = {} \/ UNCHANGED row
  /\ Goto(c, "deleteKey")
  /\ UNCHANGED <<key, writeQueue>> /\ Counters

\* clearPipeline, also called when there is no run: the row goes first; it
\* throws if that is rejected.
ClearCall(c) ==
  /\ At(c, "idle")
  /\ Goto(c, "deleteRow")
  /\ UNCHANGED <<row, key, writeQueue>> /\ Counters

DeleteRow(c) ==
  /\ At(c, "deleteRow")
  /\ \/ row' = {} /\ Goto(c, "deleteKey")
     \/ UNCHANGED row /\ Return(c)
  /\ UNCHANGED <<key, writeQueue>> /\ Counters

DeleteKey(c) ==
  /\ At(c, "deleteKey")
  /\ key' = NoKey \/ UNCHANGED key
  /\ Return(c)
  /\ UNCHANGED <<row, writeQueue>> /\ Counters
--------------------------------------------------------------------------------
\* mutatePipeline: behind the mutations that were asked for before.
MutateCall(c) ==
  /\ At(c, "idle") /\ issued < MaxMutations
  /\ issued' = issued + 1
  /\ writeQueue' = Append(writeQueue, c)
  /\ chain' = [chain EXCEPT ![c] =
       [Idle EXCEPT !.at = "read", !.mutation = issued + 1, !.attempt = 1]]
  /\ UNCHANGED <<row, key, created, acked, crashes>>

\* Mutant: mutations do not wait for each other.
MyTurnAlways(c) == \E i \in 1..Len(writeQueue) : writeQueue[i] = c

MyTurn(c) == writeQueue # <<>> /\ Head(writeQueue) = c

\* The promise at the head settles, whatever the outcome; the next one starts.
Done(c) ==
  /\ Return(c)
  /\ writeQueue' = Tail(writeQueue)

\* Mutant: a rejected mutation ends the promise chain.
RejectedWedged(c) == Return(c) /\ UNCHANGED writeQueue

\* A rejected mutation is no different for the ones behind it.
Rejected(c) == Done(c)

\* No run, or the mutator aborts, or it has changed the copy.
MutateRead(c) ==
  /\ At(c, "read") /\ MyTurn(c)
  /\ \/ Done(c)
     \/ /\ row # {}
        /\ chain' = [chain EXCEPT ![c].at = "recheck", ![c].seen = row]
        /\ UNCHANGED writeQueue
  /\ UNCHANGED <<row, key>> /\ Counters

Version(stored) == CHOOSE v \in {r.version : r \in stored} : TRUE

\* The second read: no run any more, another version (again from the top, or
\* PipelineStaleError at the last attempt), or the same.
MutateRecheck(c) ==
  /\ At(c, "recheck")
  /\ IF row = {} THEN Done(c)
     ELSE IF Version(row) = Version(chain[c].seen)
     THEN Goto(c, "write") /\ UNCHANGED writeQueue
     ELSE IF chain[c].attempt < MaxCasAttempts
     THEN /\ chain' = [chain EXCEPT ![c].at = "read", ![c].seen = {},
                                    ![c].attempt = @ + 1]
          /\ UNCHANGED writeQueue
     ELSE Rejected(c)
  /\ UNCHANGED <<row, key>> /\ Counters

\* setSetting writes a row whether or not there still is one, or rejects.
MutateWrite(c) ==
  /\ At(c, "write")
  /\ \E r \in chain[c].seen :
       \/ /\ row' = {[r EXCEPT !.version = @ + 1,
                               !.has = @ \cup {chain[c].mutation}]}
          /\ acked' = [acked EXCEPT ![r.run] = @ \cup {chain[c].mutation}]
          /\ Done(c)
       \/ Rejected(c) /\ UNCHANGED <<row, acked>>
  /\ UNCHANGED <<key, created, issued, crashes>>

\* The process is killed; both stores stay as they are.
Crash ==
  /\ crashes < MaxCrashes
  /\ crashes' = crashes + 1
  /\ chain' = [c \in Callers |-> Idle]
  /\ writeQueue' = <<>>
  /\ UNCHANGED <<row, key, created, issued, acked>>
--------------------------------------------------------------------------------
\* A chain that is creating or clearing a run has another beside it.
Rebuilding == {"createKey", "createRow", "healRow", "deleteRow", "deleteKey"}
Collision == \E c, d \in Callers :
               c # d /\ chain[c].at \in Rebuilding /\ chain[d].at # "idle"

Step(c) ==
  \/ CreateKey(c) \/ CreateRow(c) \/ GetKey(c) \/ HealRow(c) \/ DeleteRow(c) \/ DeleteKey(c)
  \/ MutateRead(c) \/ MutateRecheck(c) \/ MutateWrite(c)
Call(c) == CreateCheck(c) \/ GetRow(c) \/ ClearCall(c) \/ MutateCall(c)

Next ==
  /\ Crash \/ \E c \in Callers : Step(c) \/ Call(c)
  /\ overlapped' = (overlapped \/ Collision')

Spec == Init /\ [][Next]_vars

\* The poller reads the run again and again while there is one; every await
\* settles; the keychain and the database answer in the end.
Heals   == \E c \in Callers : At(c, "getKey") /\ Step(c) /\ chain'[c].at = "healRow"
Deletes == \E c \in Callers : At(c, "healRow") /\ Step(c) /\ row' = {}
Fairness ==
  /\ \A c \in Callers : WF_vars(Step(c) /\ Next)
  /\ SF_vars((\E c \in Callers : GetRow(c)) /\ Next)
  /\ SF_vars(Heals /\ Next) /\ SF_vars(Deletes /\ Next)

FairSpec == Spec /\ Fairness
--------------------------------------------------------------------------------
(* Properties.                                                              *)

Places == {"idle", "createKey", "createRow", "getKey", "healRow", "deleteRow",
           "deleteKey", "read", "recheck", "write"}

Chain == [at : Places, run : 0..MaxRuns, seen : SUBSET StoredRun,
          mutation : 0..MaxMutations, attempt : 0..MaxCasAttempts]

TypeOK ==
  /\ row \in SUBSET StoredRun
  /\ key \in 0..MaxRuns
  /\ chain \in [Callers -> Chain]
  /\ writeQueue \in Seq(Callers)
  /\ created \in 0..MaxRuns /\ issued \in 0..MaxMutations
  /\ acked \in [Runs -> SUBSET Mutations]
  /\ overlapped \in BOOLEAN /\ crashes \in 0..MaxCrashes

\* A mutation whose caller was told it is persisted is not undone by a later
\* one: while its run is stored it is part of it, however creates, clears,
\* crashes and rejected writes come in between.
NoLostUpdate == \A r \in row : acked[r.run] \subseteq r.has

\* A kill or a rejected write between the two stores never leaves a run with
\* no secret, or with another run's: the orders of createPipeline and
\* clearPipeline see to it, unless another operation ran beside one of them.
OwnSecret == \A r \in row : overlapped \/ key = r.run

\* A run that lost its secret, which only such a collision can do, is cleared:
\* it does not hold the pipeline for ever.
SecretlessRunEnds == (row # {} /\ key = NoKey) ~> (row = {} \/ key # NoKey)

\* No mutation wedges the ones behind it, however it ended: the queue empties.
QueueDrains == []<>(writeQueue = <<>>)

\* The store comes to rest, whatever was killed or rejected on the way.
StoreSettles == SecretlessRunEnds /\ QueueDrains
================================================================================
