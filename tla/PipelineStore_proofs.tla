-------------------------- MODULE PipelineStore_proofs --------------------------
(***************************************************************************)
(* Proofs about the store of the scoring run, for any callers, runs,       *)
(* mutations, attempts and kills.                                          *)
(***************************************************************************)
EXTENDS PipelineStore, TLAPS

Creating == {"createKey", "createRow"}
AtWork   == {"recheck", "write"}

\* Types; a mutation past its first read is the head of the queue; a chain
\* that creates has a run of its own to create.
Typed ==
  /\ row \in SUBSET StoredRun
  /\ key \in 0..MaxRuns
  /\ chain \in [Callers -> Chain]
  /\ writeQueue \in Seq(Callers)
  /\ created \in 0..MaxRuns /\ issued \in 0..MaxMutations
  /\ acked \in [Runs -> SUBSET Mutations]
  /\ \A c \in Callers : chain[c].at \in AtWork =>
       /\ writeQueue # <<>> /\ Head(writeQueue) = c
       /\ chain[c].mutation \in Mutations
  /\ \A c \in Callers : chain[c].at = "read" => chain[c].mutation \in Mutations
  /\ \A c \in Callers : chain[c].at \in Creating => chain[c].run \in Runs

LEMMA IdleTyped == Idle \in Chain
  BY BoundsAssumption DEF Idle, Chain, Places, NoKey

LEMMA InitTyped == Init => Typed
<1>. SUFFICES ASSUME Init PROVE Typed
  OBVIOUS
<1>1. \A c \in Callers : chain[c] = Idle
  BY DEF Init
<1>2. Idle.at = "idle"
  BY DEF Idle
<1>3. chain \in [Callers -> Chain] /\ writeQueue \in Seq(Callers)
  BY IdleTyped DEF Init
<1>4. 0 \in 0..MaxRuns /\ 0 \in 0..MaxMutations
  BY BoundsAssumption
<1>. QED BY <1>1, <1>2, <1>3, <1>4 DEF Init, Typed, NoKey, AtWork, Creating

\* A chain that goes to a place, or is done.
LEMMA GotoTyped ==
  ASSUME chain \in [Callers -> Chain], NEW c \in Callers, NEW w \in Places, Goto(c, w)
  PROVE  /\ chain' \in [Callers -> Chain]
         /\ chain'[c] = [chain[c] EXCEPT !.at = w]
         /\ \A d \in Callers : d # c => chain'[d] = chain[d]
  BY DEF Goto, Chain

LEMMA ReturnTyped ==
  ASSUME chain \in [Callers -> Chain], NEW c \in Callers, Return(c)
  PROVE  /\ chain' \in [Callers -> Chain]
         /\ chain'[c] = Idle
         /\ \A d \in Callers : d # c => chain'[d] = chain[d]
  BY IdleTyped DEF Return

\* What a step on chain c leaves to the others.
LEMMA OthersTyped ==
  ASSUME Typed, NEW c \in Callers,
         chain' \in [Callers -> Chain],
         \A d \in Callers : d # c => chain'[d] = chain[d],
         chain'[c].at \in AtWork => /\ writeQueue' # <<>> /\ Head(writeQueue') = c
                                    /\ chain'[c].mutation \in Mutations,
         chain'[c].at = "read" => chain'[c].mutation \in Mutations,
         chain'[c].at \in Creating => chain'[c].run \in Runs,
         \/ writeQueue' = writeQueue
         \/ \A d \in Callers : d # c => chain[d].at \notin AtWork,
         row' \in SUBSET StoredRun, key' \in 0..MaxRuns, writeQueue' \in Seq(Callers),
         created' \in 0..MaxRuns, issued' \in 0..MaxMutations,
         acked' \in [Runs -> SUBSET Mutations]
  PROVE  Typed'
<1>1. ASSUME NEW d \in Callers, chain'[d].at \in AtWork
      PROVE  /\ writeQueue' # <<>> /\ Head(writeQueue') = d
             /\ chain'[d].mutation \in Mutations
  BY <1>1 DEF Typed
<1>2. ASSUME NEW d \in Callers, chain'[d].at = "read"
      PROVE  chain'[d].mutation \in Mutations
  BY <1>2 DEF Typed
<1>3. ASSUME NEW d \in Callers, chain'[d].at \in Creating
      PROVE  chain'[d].run \in Runs
  BY <1>3 DEF Typed
<1>. QED BY <1>1, <1>2, <1>3 DEF Typed

LEMMA CreateTyped ==
  ASSUME Typed, NEW c \in Callers, CreateCheck(c) \/ CreateKey(c) \/ CreateRow(c)
  PROVE  Typed'
<1>. chain[c] \in Chain /\ 0 \in 0..MaxRuns
  BY BoundsAssumption DEF Typed
<1>1. CASE CreateCheck(c)
  <2>1. created + 1 \in Runs /\ created + 1 \in 0..MaxRuns
    BY <1>1, BoundsAssumption DEF CreateCheck, Typed, Runs
  <2>. DEFINE new == [Idle EXCEPT !.at = "createKey", !.run = created + 1]
  <2>2. new \in Chain /\ new.at = "createKey" /\ new.run = created + 1
    BY <2>1, IdleTyped DEF Chain, Places
  <2>3. chain' = [chain EXCEPT ![c] = new]
    BY <1>1 DEF CreateCheck
  <2>. HIDE DEF new
  <2>4. /\ chain' \in [Callers -> Chain] /\ chain'[c] = new
        /\ \A d \in Callers : d # c => chain'[d] = chain[d]
    BY <2>2, <2>3 DEF Typed
  <2>5. UNCHANGED <<row, key, writeQueue, issued, acked>> /\ created' = created + 1
    BY <1>1 DEF CreateCheck
  <2>6. /\ row' \in SUBSET StoredRun /\ key' \in 0..MaxRuns
        /\ writeQueue' \in Seq(Callers) /\ created' \in 0..MaxRuns
        /\ issued' \in 0..MaxMutations /\ acked' \in [Runs -> SUBSET Mutations]
    BY <2>1, <2>5 DEF Typed
  <2>. QED BY <2>1, <2>2, <2>4, <2>5, <2>6, OthersTyped DEF AtWork, Creating
<1>2. CASE CreateKey(c) \/ CreateRow(c)
  <2>1. chain[c].run \in Runs /\ chain[c].run \in 0..MaxRuns
    BY <1>2 DEF CreateKey, CreateRow, At, Typed, Creating, Chain
  <2>2. Fresh(chain[c].run) \in StoredRun
    BY <2>1 DEF Fresh, StoredRun
  <2>3. /\ row' \in SUBSET StoredRun /\ key' \in 0..MaxRuns
        /\ UNCHANGED <<writeQueue, created, issued, acked>>
    BY <1>2, <2>1, <2>2 DEF CreateKey, CreateRow, Typed, Counters
  <2>4. Goto(c, "createRow") \/ Return(c)
    BY <1>2 DEF CreateKey, CreateRow
  <2>5. /\ chain' \in [Callers -> Chain]
        /\ \A d \in Callers : d # c => chain'[d] = chain[d]
        /\ chain'[c] = [chain[c] EXCEPT !.at = "createRow"] \/ chain'[c] = Idle
    BY <2>4, GotoTyped, ReturnTyped DEF Typed, Places
  <2>6. /\ chain'[c].at \in {"createRow", "idle"}
        /\ chain'[c].at = "createRow" => chain'[c].run = chain[c].run
    BY <2>5 DEF Idle, Chain
  <2>. QED BY <2>1, <2>3, <2>5, <2>6, OthersTyped DEF Typed, AtWork, Creating
<1>. QED BY <1>1, <1>2

LEMMA ReadClearTyped ==
  ASSUME Typed, NEW c \in Callers,
         \/ GetRow(c) \/ GetKey(c) \/ HealRow(c)
         \/ ClearCall(c) \/ DeleteRow(c) \/ DeleteKey(c)
  PROVE  Typed'
<1>. chain[c] \in Chain
  BY DEF Typed
<1>1. /\ row' \in SUBSET StoredRun /\ key' \in 0..MaxRuns
      /\ UNCHANGED <<writeQueue, created, issued, acked>>
  BY BoundsAssumption DEF Typed, GetRow, GetKey, HealRow, ClearCall, DeleteRow,
     DeleteKey, Counters, NoKey
<1>2. Return(c) \/ \E w \in {"getKey", "healRow", "deleteRow", "deleteKey"} : Goto(c, w)
  BY DEF GetRow, GetKey, HealRow, ClearCall, DeleteRow, DeleteKey
<1>3. /\ chain' \in [Callers -> Chain]
      /\ \A d \in Callers : d # c => chain'[d] = chain[d]
      /\ chain'[c].at \in {"idle", "getKey", "healRow", "deleteRow", "deleteKey"}
  <2>1. CASE Return(c)
    BY <2>1, ReturnTyped DEF Typed, Idle
  <2>2. CASE \E w \in {"getKey", "healRow", "deleteRow", "deleteKey"} : Goto(c, w)
    <3>1. PICK w \in {"getKey", "healRow", "deleteRow", "deleteKey"} : Goto(c, w)
      BY <2>2
    <3>2. w \in Places /\ chain \in [Callers -> Chain]
      BY DEF Places, Typed
    <3>3. /\ chain' \in [Callers -> Chain]
          /\ chain'[c] = [chain[c] EXCEPT !.at = w]
          /\ \A d \in Callers : d # c => chain'[d] = chain[d]
      BY <3>1, <3>2, GotoTyped
    <3>4. chain'[c].at = w
      BY <3>3 DEF Chain
    <3>. QED BY <3>3, <3>4
  <2>. QED BY <1>2, <2>1, <2>2
<1>. QED BY <1>1, <1>3, OthersTyped DEF Typed, AtWork, Creating

LEMMA MutateCallTyped ==
  ASSUME Typed, NEW c \in Callers, MutateCall(c)
  PROVE  Typed'
<1>1. issued + 1 \in Mutations /\ issued + 1 \in 0..MaxMutations
  BY BoundsAssumption DEF MutateCall, Typed, Mutations
<1>. DEFINE new == [Idle EXCEPT !.at = "read", !.mutation = issued + 1, !.attempt = 1]
<1>2. new \in Chain /\ new.at = "read" /\ new.mutation = issued + 1
  <2>1. 1 \in 0..MaxCasAttempts
    BY BoundsAssumption
  <2>. QED BY <1>1, <2>1, IdleTyped DEF Chain, Places
<1>3. chain' = [chain EXCEPT ![c] = new]
  BY DEF MutateCall
<1>. HIDE DEF new
<1>4. /\ chain' \in [Callers -> Chain] /\ chain'[c] = new
      /\ \A d \in Callers : d # c => chain'[d] = chain[d]
  BY <1>2, <1>3 DEF Typed
<1>5. /\ UNCHANGED <<row, key, created, acked>> /\ issued' = issued + 1
      /\ writeQueue' = Append(writeQueue, c) /\ chain[c].at = "idle"
  BY DEF MutateCall, At
<1>6. writeQueue' \in Seq(Callers)
  BY <1>5 DEF Typed
<1>7. \A d \in Callers : chain'[d].at \in AtWork =>
         /\ writeQueue' # <<>> /\ Head(writeQueue') = d
         /\ chain'[d].mutation \in Mutations
  <2>. SUFFICES ASSUME NEW d \in Callers, chain'[d].at \in AtWork
                PROVE  /\ writeQueue' # <<>> /\ Head(writeQueue') = d
                       /\ chain'[d].mutation \in Mutations
    OBVIOUS
  <2>1. d # c /\ chain'[d] = chain[d]
    BY <1>2, <1>4 DEF AtWork
  <2>2. writeQueue # <<>> /\ Head(writeQueue) = d /\ chain[d].mutation \in Mutations
    BY <2>1 DEF Typed
  <2>3. writeQueue' # <<>> /\ Head(writeQueue') = Head(writeQueue)
    BY <2>2, <1>5 DEF Typed
  <2>. QED BY <2>1, <2>2, <2>3
<1>8. \A d \in Callers : chain'[d].at = "read" => chain'[d].mutation \in Mutations
  BY <1>1, <1>2, <1>4 DEF Typed
<1>9. \A d \in Callers : chain'[d].at \in Creating => chain'[d].run \in Runs
  BY <1>2, <1>4 DEF Typed, Creating
<1>. QED BY <1>1, <1>4, <1>5, <1>6, <1>7, <1>8, <1>9 DEF Typed

\* The turn is over: the others were not at work.
LEMMA DoneTyped ==
  ASSUME Typed, NEW c \in Callers, MyTurn(c), Done(c)
  PROVE  /\ chain' \in [Callers -> Chain] /\ chain'[c] = Idle
         /\ writeQueue' \in Seq(Callers)
         /\ \A d \in Callers : d # c => /\ chain'[d] = chain[d]
                                       /\ chain[d].at \notin AtWork
<1>1. writeQueue # <<>> /\ Head(writeQueue) = c /\ writeQueue' = Tail(writeQueue)
  BY DEF MyTurn, Done
<1>2. Return(c) /\ chain \in [Callers -> Chain]
  BY DEF Done, Typed
<1>3. writeQueue' \in Seq(Callers)
  BY <1>1 DEF Typed
<1>4. \A d \in Callers : d # c => chain[d].at \notin AtWork
  BY <1>1 DEF Typed
<1>. QED BY <1>2, <1>3, <1>4, ReturnTyped

LEMMA MutateTyped ==
  ASSUME Typed, NEW c \in Callers, MutateRead(c) \/ MutateRecheck(c) \/ MutateWrite(c)
  PROVE  Typed'
<1>. chain[c] \in Chain
  BY DEF Typed
<1>1. /\ MyTurn(c) /\ chain[c].mutation \in Mutations
      /\ chain[c].at \in {"read", "recheck", "write"}
  BY DEF MutateRead, MutateRecheck, MutateWrite, At, MyTurn, Typed, AtWork
<1>2. UNCHANGED <<key, created, issued>> /\ row \in SUBSET StoredRun
  BY DEF MutateRead, MutateRecheck, MutateWrite, Counters, Typed
<1>3. row' \in SUBSET StoredRun /\ acked' \in [Runs -> SUBSET Mutations]
  <2>1. CASE MutateWrite(c)
    <3>1. PICK r \in chain[c].seen :
            \/ /\ row' = {[r EXCEPT !.version = @ + 1,
                                    !.has = @ \cup {chain[c].mutation}]}
               /\ acked' = [acked EXCEPT ![r.run] = @ \cup {chain[c].mutation}]
            \/ UNCHANGED <<row, acked>>
      BY <2>1 DEF MutateWrite
    <3>2. r \in StoredRun
      BY DEF Chain
    <3>3. [r EXCEPT !.version = @ + 1, !.has = @ \cup {chain[c].mutation}] \in StoredRun
      <4>1. r.version + 1 \in Nat \ {0}
        BY <3>2 DEF StoredRun
      <4>. QED BY <3>2, <4>1, <1>1 DEF StoredRun
    <3>4. [acked EXCEPT ![r.run] = @ \cup {chain[c].mutation}] \in [Runs -> SUBSET Mutations]
      BY <3>2, <1>1 DEF StoredRun, Typed
    <3>. QED BY <3>1, <3>3, <3>4 DEF Typed
  <2>2. CASE MutateRead(c) \/ MutateRecheck(c)
    BY <2>2 DEF MutateRead, MutateRecheck, Counters, Typed
  <2>. QED BY <2>1, <2>2
<1>4. CASE Done(c)
  <2>1. /\ chain' \in [Callers -> Chain] /\ chain'[c] = Idle
        /\ writeQueue' \in Seq(Callers)
        /\ \A d \in Callers : d # c => /\ chain'[d] = chain[d]
                                      /\ chain[d].at \notin AtWork
    BY <1>1, <1>4, DoneTyped
  <2>2. chain'[c].at = "idle"
    BY <2>1 DEF Idle
  <2>. QED BY <1>2, <1>3, <2>1, <2>2, OthersTyped DEF Typed, AtWork, Creating
<1>5. CASE MutateRead(c) /\ ~Done(c)
  <2>. DEFINE new == [chain[c] EXCEPT !.at = "recheck", !.seen = row]
  <2>1. chain' = [chain EXCEPT ![c] = new] /\ writeQueue' = writeQueue
    BY <1>5 DEF MutateRead, Typed, Chain
  <2>2. new \in Chain /\ new.at = "recheck" /\ new.mutation = chain[c].mutation
    BY <1>2 DEF Chain, Places
  <2>. HIDE DEF new
  <2>3. /\ chain' \in [Callers -> Chain] /\ chain'[c] = new
        /\ \A d \in Callers : d # c => chain'[d] = chain[d]
    BY <2>1, <2>2 DEF Typed
  <2>. QED BY <1>1, <1>2, <1>3, <2>1, <2>2, <2>3, OthersTyped DEF Typed, AtWork, Creating, MyTurn
<1>6. CASE MutateRecheck(c) /\ ~Done(c)
  <2>1. /\ writeQueue' = writeQueue
        /\ \/ Goto(c, "write")
           \/ /\ chain[c].attempt < MaxCasAttempts
              /\ chain' = [chain EXCEPT ![c].at = "read", ![c].seen = {},
                                       ![c].attempt = @ + 1]
    BY <1>6 DEF MutateRecheck, Rejected
  <2>2. CASE Goto(c, "write")
    <3>1. /\ chain' \in [Callers -> Chain]
          /\ chain'[c] = [chain[c] EXCEPT !.at = "write"]
          /\ \A d \in Callers : d # c => chain'[d] = chain[d]
      BY <2>2, GotoTyped DEF Typed, Places
    <3>2. chain'[c].at = "write" /\ chain'[c].mutation = chain[c].mutation
      BY <3>1 DEF Chain
    <3>. QED BY <1>1, <1>2, <1>3, <2>1, <3>1, <3>2, OthersTyped
             DEF Typed, AtWork, Creating, MyTurn
  <2>3. CASE ~Goto(c, "write")
    <3>. DEFINE new == [chain[c] EXCEPT !.at = "read", !.seen = {}, !.attempt = @ + 1]
    <3>1. chain' = [chain EXCEPT ![c] = new] /\ chain[c].attempt < MaxCasAttempts
      BY <2>1, <2>3 DEF Typed, Chain
    <3>2. new \in Chain /\ new.at = "read" /\ new.mutation = chain[c].mutation
      <4>1. chain[c].attempt + 1 \in 0..MaxCasAttempts
        BY <3>1, BoundsAssumption DEF Chain
      <4>. QED BY <4>1 DEF Chain, Places
    <3>. HIDE DEF new
    <3>3. /\ chain' \in [Callers -> Chain] /\ chain'[c] = new
          /\ \A d \in Callers : d # c => chain'[d] = chain[d]
      BY <3>1, <3>2 DEF Typed
    <3>. QED BY <1>1, <1>2, <1>3, <2>1, <3>2, <3>3, OthersTyped DEF Typed, AtWork, Creating
  <2>. QED BY <2>2, <2>3
<1>7. CASE MutateWrite(c) /\ ~Done(c)
  BY <1>7 DEF MutateWrite, Rejected
<1>. QED BY <1>4, <1>5, <1>6, <1>7

LEMMA CrashTyped == Typed /\ Crash => Typed'
<1>. SUFFICES ASSUME Typed, Crash PROVE Typed'
  OBVIOUS
<1>1. \A d \in Callers : chain'[d] = Idle
  BY DEF Crash
<1>2. Idle.at = "idle"
  BY DEF Idle
<1>3. chain' \in [Callers -> Chain] /\ writeQueue' \in Seq(Callers)
  BY IdleTyped DEF Crash
<1>. QED BY <1>1, <1>2, <1>3 DEF Crash, Typed, AtWork, Creating

LEMMA NextTyped == Typed /\ [Next]_vars => Typed'
<1>. SUFFICES ASSUME Typed, [Next]_vars PROVE Typed'
  OBVIOUS
<1>1. CASE UNCHANGED vars
  BY <1>1 DEF vars, Typed
<1>2. CASE Crash
  BY <1>2, CrashTyped
<1>3. ASSUME NEW c \in Callers, Step(c) \/ Call(c)
      PROVE  Typed'
  BY <1>3, CreateTyped, ReadClearTyped, MutateCallTyped, MutateTyped DEF Step, Call
<1>. QED BY <1>1, <1>2, <1>3 DEF Next
\* The history variable and the bound on kills.
Bounds == overlapped \in BOOLEAN /\ crashes \in 0..MaxCrashes

LEMMA NextBounds == Bounds /\ [Next]_vars => Bounds'
<1>. SUFFICES ASSUME Bounds, [Next]_vars PROVE Bounds'
  OBVIOUS
<1>1. CASE UNCHANGED vars
  BY <1>1 DEF vars, Bounds
<1>2. CASE Next
  <2>1. overlapped' \in BOOLEAN
    BY <1>2 DEF Next
  <2>2. CASE Crash
    BY <2>1, <2>2, BoundsAssumption DEF Crash, Bounds
  <2>3. ASSUME NEW c \in Callers, Step(c) \/ Call(c)
        PROVE  crashes' = crashes
    BY <2>3 DEF Step, Call, CreateCheck, CreateKey, CreateRow, GetRow, GetKey, HealRow,
                ClearCall, DeleteRow, DeleteKey, MutateCall, MutateRead, MutateRecheck,
                MutateWrite, Counters
  <2>. QED BY <1>2, <2>1, <2>2, <2>3 DEF Next, Bounds
<1>. QED BY <1>1, <1>2

\* Every variable of the store keeps its type: no write makes a stored run
\* that is not one, and the write queue holds callers only.
THEOREM TypeCorrect == Spec => []TypeOK
<1>1. Init => Typed /\ Bounds
  <2>1. Init => overlapped = FALSE /\ crashes = 0
    BY DEF Init
  <2>2. 0 \in 0..MaxCrashes
    BY BoundsAssumption
  <2>. QED BY <2>1, <2>2, InitTyped DEF Bounds
<1>2. (Typed /\ Bounds) /\ [Next]_vars => (Typed /\ Bounds)'
  BY NextTyped, NextBounds
<1>3. Typed /\ Bounds => TypeOK
  BY DEF Typed, Bounds, TypeOK
<1>. QED BY <1>1, <1>2, <1>3, PTL DEF Spec
--------------------------------------------------------------------------------
\* A run that is yet to be created, or is being created, is nowhere else.
Unseen == {n \in Runs :
  /\ acked[n] = {}
  /\ \A r \in row : r.run # n
  /\ \A d \in Callers : \A r \in chain[d].seen : r.run # n}

Numbered ==
  /\ \A n \in Runs : n > created => n \in Unseen
  /\ \A c \in Callers : chain[c].at \in Creating =>
       chain[c].run <= created /\ chain[c].run \in Unseen
  /\ \A c, d \in Callers :
       chain[c].at \in Creating /\ chain[d].at \in Creating /\ c # d
         => chain[c].run # chain[d].run

\* What a mutation has read and may write has all that is persisted.
SeenKept == \A c \in Callers : chain[c].at \in AtWork =>
              \A r \in chain[c].seen : acked[r.run] \subseteq r.has

Kept == Numbered /\ SeenKept /\ NoLostUpdate

LEMMA InitKept == Init => Kept
<1>. SUFFICES ASSUME Init PROVE Kept
  OBVIOUS
<1>1. \A c \in Callers : chain[c].at = "idle" /\ chain[c].seen = {}
  BY DEF Init, Idle
<1>2. row = {} /\ \A n \in Runs : acked[n] = {}
  BY DEF Init
<1>3. \A n \in Runs : n \in Unseen
  BY <1>1, <1>2 DEF Unseen
<1>. QED BY <1>1, <1>2, <1>3 DEF Kept, Numbered, SeenKept, NoLostUpdate, Creating, AtWork

\* A step that writes no run: it reads the row, drops it, or does neither.
LEMMA QuietKept ==
  ASSUME Typed, Typed', Kept,
         acked' = acked, created' = created, row' \subseteq row,
         \A d \in Callers :
           /\ chain'[d].seen \subseteq chain[d].seen \cup row
           /\ chain'[d].at \in Creating => /\ chain[d].at \in Creating
                                          /\ chain'[d].run = chain[d].run
           /\ chain'[d].at \in AtWork => \/ chain'[d].seen \subseteq row
                                        \/ /\ chain[d].at \in AtWork
                                           /\ chain'[d].seen = chain[d].seen
  PROVE  Kept'
<1>1. Unseen \subseteq Unseen'
  <2>. SUFFICES ASSUME NEW n \in Unseen PROVE n \in Unseen'
    OBVIOUS
  <2>1. \A r \in row' : r.run # n
    BY DEF Unseen
  <2>2. \A d \in Callers : \A r \in chain'[d].seen : r.run # n
    BY DEF Unseen
  <2>. QED BY <2>1, <2>2 DEF Unseen
<1>2. Numbered'
  <2>1. \A n \in Runs : n > created' => n \in Unseen'
    BY <1>1 DEF Kept, Numbered
  <2>2. \A c \in Callers : chain'[c].at \in Creating =>
           chain'[c].run <= created' /\ chain'[c].run \in Unseen'
    <3>. SUFFICES ASSUME NEW c \in Callers, chain'[c].at \in Creating
                  PROVE  chain'[c].run <= created' /\ chain'[c].run \in Unseen'
      OBVIOUS
    <3>1. chain'[c].run = chain[c].run /\ chain[c].run <= created /\ chain[c].run \in Unseen
      BY DEF Kept, Numbered
    <3>. QED BY <1>1, <3>1
  <2>3. \A c, d \in Callers :
           chain'[c].at \in Creating /\ chain'[d].at \in Creating /\ c # d
             => chain'[c].run # chain'[d].run
    BY DEF Kept, Numbered
  <2>. QED BY <2>1, <2>2, <2>3 DEF Numbered
<1>3. SeenKept'
  <2>. SUFFICES ASSUME NEW c \in Callers, chain'[c].at \in AtWork,
                       NEW r \in chain'[c].seen
                PROVE  acked'[r.run] \subseteq r.has
    BY DEF SeenKept
  <2>. QED BY DEF Kept, SeenKept, NoLostUpdate
<1>4. NoLostUpdate'
  BY DEF Kept, NoLostUpdate
<1>. QED BY <1>2, <1>3, <1>4 DEF Kept

LEMMA CreateCheckKept ==
  ASSUME Typed, Kept, NEW c \in Callers, CreateCheck(c)
  PROVE  Kept'
<1>. DEFINE new == [Idle EXCEPT !.at = "createKey", !.run = created + 1]
<1>1. /\ row' = row /\ acked' = acked /\ created' = created + 1
      /\ chain' = [chain EXCEPT ![c] = new] /\ chain[c].at = "idle"
      /\ created \in Nat /\ created + 1 \in Runs
  BY BoundsAssumption DEF CreateCheck, At, Typed, Runs
<1>2. new.at = "createKey" /\ new.run = created + 1 /\ new.seen = {}
  BY DEF Idle
<1>. HIDE DEF new
<1>3. /\ chain'[c] = new
      /\ \A d \in Callers : d # c => chain'[d] = chain[d]
  BY <1>1 DEF Typed
<1>4. Unseen \subseteq Unseen'
  <2>. SUFFICES ASSUME NEW n \in Unseen PROVE n \in Unseen'
    OBVIOUS
  <2>1. \A d \in Callers : \A r \in chain'[d].seen : r.run # n
    BY <1>2, <1>3 DEF Unseen
  <2>. QED BY <1>1, <2>1 DEF Unseen
<1>5. created + 1 \in Unseen /\ created + 1 \in Unseen'
  BY <1>1, <1>4 DEF Kept, Numbered
<1>6. Numbered'
  <2>1. \A n \in Runs : n > created' => n \in Unseen'
    BY <1>1, <1>4 DEF Kept, Numbered, Runs
  <2>2. ASSUME NEW d \in Callers, chain'[d].at \in Creating
        PROVE  chain'[d].run <= created' /\ chain'[d].run \in Unseen'
    <3>1. CASE d = c
      <4>1. chain'[d].run = created + 1
        BY <3>1, <1>2, <1>3
      <4>. QED BY <1>1, <1>5, <4>1
    <3>2. CASE d # c
      <4>1. chain'[d] = chain[d] /\ chain[d].at \in Creating /\ chain[d].run \in Runs
        BY <1>3, <2>2, <3>2 DEF Typed
      <4>2. chain[d].run <= created /\ chain[d].run \in Unseen
        BY <4>1 DEF Kept, Numbered
      <4>. QED BY <1>1, <1>4, <4>1, <4>2 DEF Runs
    <3>. QED BY <3>1, <3>2
  <2>3. ASSUME NEW d \in Callers, NEW e \in Callers,
               chain'[d].at \in Creating, chain'[e].at \in Creating, d # e
        PROVE  chain'[d].run # chain'[e].run
    <3>1. \A f \in Callers : f # c /\ chain'[f].at \in Creating => chain'[f].run # created + 1
      BY <1>1, <1>3 DEF Kept, Numbered, Typed, Runs
    <3>. QED BY <1>2, <1>3, <2>3, <3>1 DEF Kept, Numbered
  <2>. QED BY <2>1, <2>2, <2>3 DEF Numbered
<1>7. SeenKept'
  BY <1>1, <1>2, <1>3 DEF Kept, SeenKept, AtWork
<1>8. NoLostUpdate'
  BY <1>1 DEF Kept, NoLostUpdate
<1>. QED BY <1>6, <1>7, <1>8 DEF Kept

LEMMA CreateRowKept ==
  ASSUME Typed, Kept, NEW c \in Callers, CreateRow(c)
  PROVE  Kept'
<1>. DEFINE n == chain[c].run
<1>1. /\ acked' = acked /\ created' = created
      /\ row' = row \/ row' = {Fresh(n)}
      /\ chain'[c] = Idle
      /\ \A d \in Callers : d # c => chain'[d] = chain[d]
  BY ReturnTyped DEF CreateRow, Counters, Typed
<1>2. n \in Runs /\ n <= created /\ n \in Unseen /\ chain[c].at \in Creating
  BY DEF CreateRow, At, Typed, Creating, Kept, Numbered
<1>3. Fresh(n).run = n /\ acked[n] = {}
  BY <1>2 DEF Fresh, Unseen
<1>. HIDE DEF n
<1>4. Idle.at = "idle" /\ Idle.seen = {}
  BY DEF Idle
<1>5. ASSUME NEW m \in Unseen, m # n
      PROVE  /\ acked'[m] = {}
             /\ \A r \in row' : r.run # m
             /\ \A d \in Callers : \A r \in chain'[d].seen : r.run # m
  BY <1>1, <1>3, <1>4, <1>5 DEF Unseen
<1>6. Numbered'
  <2>1. ASSUME NEW m \in Runs, m > created'
        PROVE  m \in Unseen'
    <3>1. m \in Unseen /\ m # n
      BY <1>1, <1>2, <2>1 DEF Kept, Numbered, Typed, Runs
    <3>. QED BY <1>5, <3>1 DEF Unseen
  <2>2. ASSUME NEW d \in Callers, chain'[d].at \in Creating
        PROVE  chain'[d].run <= created' /\ chain'[d].run \in Unseen'
    <3>1. d # c /\ chain'[d] = chain[d]
      BY <1>1, <1>4, <2>2 DEF Creating
    <3>2. chain[d].run <= created /\ chain[d].run \in Unseen /\ chain[d].run # n
      BY <1>2, <2>2, <3>1 DEF Kept, Numbered, n
    <3>. QED BY <1>1, <1>5, <3>1, <3>2 DEF Unseen
  <2>3. ASSUME NEW d \in Callers, NEW e \in Callers,
               chain'[d].at \in Creating, chain'[e].at \in Creating, d # e
        PROVE  chain'[d].run # chain'[e].run
    BY <1>1, <1>4, <2>3 DEF Kept, Numbered, Creating
  <2>. QED BY <2>1, <2>2, <2>3 DEF Numbered
<1>7. SeenKept'
  BY <1>1, <1>4 DEF Kept, SeenKept, AtWork
<1>8. NoLostUpdate'
  BY <1>1, <1>3 DEF Kept, NoLostUpdate
<1>. QED BY <1>6, <1>7, <1>8 DEF Kept

LEMMA WriteKept ==
  ASSUME Typed, Kept, NEW c \in Callers, MutateWrite(c)
  PROVE  Kept'
<1>1. /\ MyTurn(c) /\ chain[c].at \in AtWork /\ Done(c) /\ created' = created
  BY DEF MutateWrite, At, Typed, AtWork, MyTurn, Rejected
<1>2. /\ chain'[c] = Idle
      /\ \A d \in Callers : d # c => chain'[d] = chain[d] /\ chain[d].at \notin AtWork
  BY <1>1, DoneTyped
<1>3. Idle.at = "idle" /\ Idle.seen = {}
  BY DEF Idle
<1>4. SeenKept'
  BY <1>2, <1>3 DEF SeenKept, AtWork
<1>. DEFINE m == chain[c].mutation
<1>5. PICK r \in chain[c].seen :
        \/ /\ row' = {[r EXCEPT !.version = @ + 1, !.has = @ \cup {m}]}
           /\ acked' = [acked EXCEPT ![r.run] = @ \cup {m}]
        \/ UNCHANGED <<row, acked>>
  BY DEF MutateWrite
<1>6. r \in StoredRun /\ acked[r.run] \subseteq r.has
  BY <1>1 DEF Typed, Chain, Kept, SeenKept
<1>. DEFINE new == [r EXCEPT !.version = @ + 1, !.has = @ \cup {m}]
<1>7. new.run = r.run /\ new.has = r.has \cup {m} /\ r.run \in Runs
  BY <1>6 DEF StoredRun
<1>8. row' = row \/ row' = {new}
  BY <1>5
<1>9. /\ acked' = acked \/ acked' = [acked EXCEPT ![r.run] = @ \cup {m}]
      /\ row' = {new} /\ row' # row => acked' = [acked EXCEPT ![r.run] = @ \cup {m}]
  BY <1>5
<1>. HIDE DEF m, new
<1>10. ASSUME NEW n \in Unseen
       PROVE  /\ acked'[n] = {}
              /\ \A s \in row' : s.run # n
              /\ \A d \in Callers : \A s \in chain'[d].seen : s.run # n
  <2>1. r.run # n
    BY <1>10 DEF Unseen
  <2>2. acked'[n] = {}
    BY <1>9, <1>10, <2>1 DEF Unseen, Typed
  <2>. QED BY <1>2, <1>3, <1>7, <1>8, <1>10, <2>1, <2>2 DEF Unseen
<1>11. Numbered'
  <2>1. ASSUME NEW n \in Runs, n > created'
        PROVE  n \in Unseen'
    <3>1. n \in Unseen
      BY <1>1, <2>1 DEF Kept, Numbered
    <3>. QED BY <1>10, <3>1 DEF Unseen
  <2>2. ASSUME NEW d \in Callers, chain'[d].at \in Creating
        PROVE  chain'[d].run <= created' /\ chain'[d].run \in Unseen'
    <3>1. d # c /\ chain'[d] = chain[d]
      BY <1>2, <1>3, <2>2 DEF Creating
    <3>2. chain[d].run \in Runs /\ chain[d].run <= created /\ chain[d].run \in Unseen
      BY <2>2, <3>1 DEF Kept, Numbered, Typed
    <3>. QED BY <1>1, <1>10, <3>1, <3>2 DEF Unseen
  <2>3. ASSUME NEW d \in Callers, NEW e \in Callers,
               chain'[d].at \in Creating, chain'[e].at \in Creating, d # e
        PROVE  chain'[d].run # chain'[e].run
    BY <1>2, <1>3, <2>3 DEF Kept, Numbered, Creating
  <2>. QED BY <2>1, <2>2, <2>3 DEF Numbered
<1>12. NoLostUpdate'
  <2>1. CASE UNCHANGED <<row, acked>>
    BY <2>1 DEF Kept, NoLostUpdate
  <2>2. CASE row' = {new} /\ acked' = [acked EXCEPT ![r.run] = @ \cup {m}]
    <3>1. acked'[r.run] = acked[r.run] \cup {m}
      BY <1>7, <2>2 DEF Typed
    <3>. QED BY <1>6, <1>7, <2>2, <3>1 DEF NoLostUpdate
  <2>. QED BY <1>5, <2>1, <2>2 DEF new
<1>. QED BY <1>4, <1>11, <1>12 DEF Kept

LEMMA NextKept == Typed /\ Kept /\ [Next]_vars => Kept'
<1>. SUFFICES ASSUME Typed, Kept, [Next]_vars PROVE Kept'
  OBVIOUS
<1>0. Typed'
  BY NextTyped
<1>1. CASE UNCHANGED vars
  BY <1>1 DEF vars, Kept, Numbered, Unseen, SeenKept, NoLostUpdate
<1>2. CASE Crash
  <2>1. /\ UNCHANGED <<row, created, acked>>
        /\ \A d \in Callers : chain'[d].at = "idle" /\ chain'[d].seen = {}
    BY <1>2 DEF Crash, Idle
  <2>. QED BY <1>0, <2>1, QuietKept DEF AtWork, Creating
<1>3. ASSUME NEW c \in Callers, Step(c) \/ Call(c)
      PROVE  Kept'
  <2>. chain[c] \in Chain /\ chain \in [Callers -> Chain]
    BY DEF Typed
  <2>1. CASE CreateCheck(c)
    BY <2>1, CreateCheckKept
  <2>2. CASE CreateRow(c)
    BY <2>2, CreateRowKept
  <2>3. CASE MutateWrite(c)
    BY <2>3, WriteKept
  <2>4. CASE \/ CreateKey(c) \/ GetKey(c) \/ HealRow(c) \/ DeleteRow(c) \/ DeleteKey(c)
             \/ GetRow(c) \/ ClearCall(c)
    <3>1. acked' = acked /\ created' = created /\ row' \subseteq row
      BY <2>4 DEF CreateKey, GetKey, HealRow, DeleteRow, DeleteKey, GetRow, ClearCall, Counters
    <3>2. \/ Return(c)
          \/ Goto(c, "createRow") /\ chain[c].at = "createKey"
          \/ \E w \in {"getKey", "healRow", "deleteRow", "deleteKey"} : Goto(c, w)
      BY <2>4 DEF CreateKey, GetKey, HealRow, DeleteRow, DeleteKey, GetRow, ClearCall, At
    <3>3. \A d \in Callers : d # c => chain'[d] = chain[d]
      BY <3>2, GotoTyped, ReturnTyped DEF Places
    <3>4. \/ chain'[c] = Idle
          \/ /\ chain[c].at = "createKey"
             /\ chain'[c] = [chain[c] EXCEPT !.at = "createRow"]
          \/ \E w \in {"getKey", "healRow", "deleteRow", "deleteKey"} :
               chain'[c] = [chain[c] EXCEPT !.at = w]
      BY <3>2, GotoTyped, ReturnTyped DEF Places
    <3>5. /\ chain'[c].seen \subseteq chain[c].seen
          /\ chain'[c].at \notin AtWork
          /\ chain'[c].at \in Creating => /\ chain[c].at \in Creating
                                         /\ chain'[c].run = chain[c].run
      BY <3>4 DEF Idle, Chain, AtWork, Creating
    <3>. QED BY <1>0, <3>1, <3>3, <3>5, QuietKept
  <2>5. CASE MutateCall(c) \/ MutateRead(c) \/ MutateRecheck(c)
    <3>1. acked' = acked /\ created' = created /\ row' = row
      BY <2>5 DEF MutateCall, MutateRead, MutateRecheck, Counters
    <3>2. \/ Return(c)
          \/ Goto(c, "write") /\ chain[c].at = "recheck"
          \/ chain' = [chain EXCEPT ![c].at = "recheck", ![c].seen = row]
          \/ chain' = [chain EXCEPT ![c].at = "read", ![c].seen = {}, ![c].attempt = @ + 1]
          \/ chain' = [chain EXCEPT ![c] =
               [Idle EXCEPT !.at = "read", !.mutation = issued + 1, !.attempt = 1]]
      BY <2>5 DEF MutateCall, MutateRead, MutateRecheck, Done, Rejected, At
    <3>3. \A d \in Callers : d # c => chain'[d] = chain[d]
      BY <3>2 DEF Return, Goto
    <3>4. /\ chain'[c].seen \subseteq chain[c].seen \cup row
          /\ chain'[c].at \notin Creating
          /\ chain'[c].at \in AtWork => \/ chain'[c].seen \subseteq row
                                       \/ /\ chain[c].at \in AtWork
                                          /\ chain'[c].seen = chain[c].seen
      <4>1. \/ chain'[c].at \in {"idle", "read"} /\ chain'[c].seen = {}
            \/ /\ chain'[c].at = "write" /\ chain'[c].seen = chain[c].seen
               /\ chain[c].at = "recheck"
            \/ chain'[c].at = "recheck" /\ chain'[c].seen = row
        <5>1. CASE Return(c)
          BY <5>1 DEF Return, Idle
        <5>2. CASE Goto(c, "write") /\ chain[c].at = "recheck"
          BY <5>2 DEF Goto, Chain
        <5>3. CASE chain' = [chain EXCEPT ![c].at = "recheck", ![c].seen = row]
          BY <5>3 DEF Chain
        <5>4. CASE chain' = [chain EXCEPT ![c].at = "read", ![c].seen = {},
                                          ![c].attempt = @ + 1]
          BY <5>4 DEF Chain
        <5>5. CASE chain' = [chain EXCEPT ![c] =
                [Idle EXCEPT !.at = "read", !.mutation = issued + 1, !.attempt = 1]]
          BY <5>5 DEF Idle
        <5>. QED BY <3>2, <5>1, <5>2, <5>3, <5>4, <5>5
      <4>. QED BY <4>1 DEF AtWork, Creating
    <3>. QED BY <1>0, <3>1, <3>3, <3>4, QuietKept
  <2>. QED BY <1>3, <2>1, <2>2, <2>3, <2>4, <2>5 DEF Step, Call
<1>. QED BY <1>1, <1>2, <1>3 DEF Next

\* mutatePipeline never undoes what it told a caller is persisted, for any
\* number of operations under way, runs, attempts and kills.
THEOREM UpdatesKept == Spec => []NoLostUpdate
<1>1. Init => Typed /\ Kept
  BY InitTyped, InitKept
<1>2. Typed /\ Kept /\ [Next]_vars => (Typed /\ Kept)'
  BY NextTyped, NextKept
<1>3. Kept => NoLostUpdate
  BY DEF Kept
<1>. QED BY <1>1, <1>2, <1>3, PTL DEF Spec
--------------------------------------------------------------------------------
(* The secret.  As long as nothing has run beside a chain that creates or   *)
(* clears, what such a chain has seen of the two stores stays true between  *)
(* its steps.                                                               *)

Alone ==
  \A c, d \in Callers :
    c # d /\ chain[c].at \in Rebuilding => chain[d].at = "idle"

\* The row is gone, or not there yet, while a chain is between the two stores.
RowAway ==
  \A c \in Callers :
    chain[c].at \in {"createKey", "createRow", "healRow", "deleteKey"} => row = {}

\* The secret of a run is there before its row.
KeyFirst == \A c \in Callers : chain[c].at = "createRow" => key = chain[c].run

\* The run stored, and the one a mutation may write back, is the secret's.
RowsKey  == \A r \in row : key = r.run
SeenKey  == \A c \in Callers : chain[c].at \in AtWork =>
              \A r \in chain[c].seen : key = r.run

Paired == ~overlapped => Alone /\ RowAway /\ KeyFirst /\ RowsKey /\ SeenKey

LEMMA InitPaired == Init => Paired
<1>. SUFFICES ASSUME Init PROVE Paired
  OBVIOUS
<1>1. \A c \in Callers : chain[c].at = "idle"
  BY DEF Init, Idle
<1>. QED
  BY <1>1 DEF Init, Paired, Alone, RowAway, KeyFirst, RowsKey, SeenKey,
              Rebuilding, AtWork

\* A chain that creates or clears, alone, between the two stores.
LEMMA RebuildPaired ==
  ASSUME Typed, ~overlapped, Paired, NEW c \in Callers,
         CreateKey(c) \/ CreateRow(c) \/ HealRow(c) \/ DeleteRow(c) \/ DeleteKey(c)
  PROVE  RowAway' /\ KeyFirst' /\ RowsKey' /\ SeenKey'
<1>. USE DEF Paired, Typed, At
<1>1. chain[c].at \in Rebuilding
  BY DEF CreateKey, CreateRow, HealRow, DeleteRow, DeleteKey, Rebuilding
<1>2. \A d \in Callers : d # c => chain[d].at = "idle"
  BY <1>1 DEF Alone
<1>3. \/ Return(c)
      \/ \E w \in Places : Goto(c, w)
  BY DEF CreateKey, CreateRow, HealRow, DeleteRow, DeleteKey, Places
<1>4. \A d \in Callers : d # c => chain'[d].at = "idle"
  BY <1>2, <1>3, GotoTyped, ReturnTyped
<1>5. ASSUME Return(c) PROVE chain'[c].at = "idle"
  BY <1>5, ReturnTyped DEF Idle
<1>6. ASSUME NEW w \in Places, Goto(c, w)
      PROVE  chain'[c].at = w /\ chain'[c].run = chain[c].run
  <2>1. chain[c] \in Chain /\ chain'[c] = [chain[c] EXCEPT !.at = w]
    BY <1>6, GotoTyped
  <2>. QED BY <2>1 DEF Chain
<1>7. /\ "createRow" \in Places /\ "deleteKey" \in Places
  BY DEF Places
<1>8. CASE CreateKey(c)
  <2>1. row' = {}
    BY <1>8 DEF CreateKey, RowAway
  <2>2. chain'[c].at = "createRow" => key' = chain'[c].run
    BY <1>5, <1>6, <1>7, <1>8 DEF CreateKey
  <2>3. chain'[c].at \in {"idle", "createRow"}
    BY <1>5, <1>6, <1>7, <1>8 DEF CreateKey
  <2>. QED
    BY <1>4, <2>1, <2>2, <2>3 DEF RowAway, KeyFirst, RowsKey, SeenKey, AtWork
<1>9. CASE CreateRow(c)
  <2>1. chain'[c].at = "idle" /\ key' = key /\ key = chain[c].run
    BY <1>5, <1>9 DEF CreateRow, KeyFirst
  <2>2. row' \in {{}, {Fresh(chain[c].run)}}
    BY <1>9 DEF CreateRow, RowAway
  <2>3. RowsKey'
    BY <2>1, <2>2 DEF RowsKey, Fresh
  <2>. QED
    BY <1>4, <2>1, <2>3 DEF RowAway, KeyFirst, SeenKey, AtWork
<1>10. CASE HealRow(c)
  <2>1. row' = {} /\ chain'[c].at = "deleteKey"
    BY <1>6, <1>7, <1>10 DEF HealRow, RowAway
  <2>. QED
    BY <1>4, <2>1 DEF RowAway, KeyFirst, RowsKey, SeenKey, AtWork
<1>11. CASE DeleteRow(c)
  <2>1. \/ row' = {} /\ chain'[c].at = "deleteKey"
        \/ row' = row /\ chain'[c].at = "idle"
    BY <1>5, <1>6, <1>7, <1>11 DEF DeleteRow
  <2>2. key' = key
    BY <1>11 DEF DeleteRow
  <2>. QED
    BY <1>4, <2>1, <2>2 DEF RowAway, KeyFirst, RowsKey, SeenKey, AtWork
<1>12. CASE DeleteKey(c)
  <2>1. row' = {} /\ chain'[c].at = "idle"
    BY <1>5, <1>12 DEF DeleteKey, RowAway
  <2>. QED
    BY <1>4, <2>1 DEF RowAway, KeyFirst, RowsKey, SeenKey, AtWork
<1>. QED BY <1>8, <1>9, <1>10, <1>11, <1>12

\* A chain that reads, is called, or mutates moves no secret; the run that it
\* writes back is the one it has read.
LEMMA OtherPaired ==
  ASSUME Typed, Typed', ~overlapped, Paired, NEW c \in Callers,
         \/ Call(c) \/ GetKey(c) \/ MutateRead(c) \/ MutateRecheck(c) \/ MutateWrite(c),
         ~Collision'
  PROVE  RowAway' /\ KeyFirst' /\ RowsKey' /\ SeenKey'
<1>. USE DEF Paired, Typed, At
<1>1. key' = key
  BY DEF Call, CreateCheck, GetRow, ClearCall, MutateCall, GetKey, MutateRead,
         MutateRecheck, MutateWrite, Counters
<1>2. \A d \in Callers : d # c => chain'[d] = chain[d]
  BY GotoTyped, ReturnTyped DEF Call, CreateCheck, GetRow, ClearCall, MutateCall,
     GetKey, MutateRead, MutateRecheck, MutateWrite, Done, Rejected, Goto, Return
<1>3. ASSUME Return(c) PROVE chain'[c].at = "idle"
  BY <1>3, ReturnTyped DEF Idle
<1>4. ASSUME NEW w \in Places, Goto(c, w)
      PROVE  chain'[c].at = w /\ chain'[c].seen = chain[c].seen
  BY <1>4, GotoTyped DEF Chain
<1>5. ASSUME row' = row, chain'[c].at = "createRow" => FALSE,
             chain'[c].at \in {"createKey", "healRow", "deleteKey"} => row = {},
             chain'[c].at \in AtWork => \A r \in chain'[c].seen : key = r.run
      PROVE  RowAway' /\ KeyFirst' /\ RowsKey' /\ SeenKey'
  BY <1>1, <1>2, <1>5 DEF RowAway, KeyFirst, RowsKey, SeenKey
<1>6. CASE CreateCheck(c)
  <2>1. chain'[c].at = "createKey" /\ row = {} /\ row' = row
    BY <1>6 DEF CreateCheck, Idle
  <2>. QED BY <1>5, <2>1 DEF AtWork
<1>7. CASE GetRow(c)
  <2>1. chain'[c].at = "getKey" /\ row' = row
    BY <1>4, <1>7 DEF GetRow, Places
  <2>. QED BY <1>5, <2>1 DEF AtWork
<1>8. CASE ClearCall(c)
  <2>1. chain'[c].at = "deleteRow" /\ row' = row
    BY <1>4, <1>8 DEF ClearCall, Places
  <2>. QED BY <1>5, <2>1 DEF AtWork
<1>9. CASE MutateCall(c)
  <2>1. chain'[c].at = "read" /\ row' = row
    BY <1>9 DEF MutateCall, Idle
  <2>. QED BY <1>5, <2>1 DEF AtWork
<1>10. CASE GetKey(c)
  <2>1. \/ chain'[c].at = "idle"
        \/ key = NoKey /\ chain'[c].at = "healRow"
    BY <1>3, <1>4, <1>10 DEF GetKey, Places
  <2>2. key = NoKey => row = {}
    BY BoundsAssumption DEF RowsKey, StoredRun, Runs, NoKey
  <2>3. row' = row
    BY <1>10 DEF GetKey
  <2>. QED BY <1>5, <2>1, <2>2, <2>3 DEF AtWork
<1>11. CASE MutateRead(c)
  <2>1. CASE Done(c)
    BY <1>3, <1>5, <1>11, <2>1 DEF MutateRead, Done, AtWork
  <2>2. CASE chain' = [chain EXCEPT ![c].at = "recheck", ![c].seen = row]
    <3>1. chain'[c].at = "recheck" /\ chain'[c].seen = row
      BY <2>2 DEF Chain
    <3>. QED BY <1>5, <1>11, <3>1 DEF MutateRead, RowsKey
  <2>. QED BY <1>11, <2>1, <2>2 DEF MutateRead
<1>12. CASE MutateRecheck(c)
  <2>1. row' = row
    BY <1>12 DEF MutateRecheck
  <2>2. CASE Done(c) \/ Rejected(c)
    BY <1>3, <1>5, <2>1, <2>2 DEF Done, Rejected, AtWork
  <2>3. CASE Goto(c, "write")
    <3>1. chain'[c].at = "write" /\ chain'[c].seen = chain[c].seen
      BY <1>4, <2>3 DEF Places
    <3>. QED BY <1>5, <1>12, <2>1, <3>1 DEF MutateRecheck, SeenKey, AtWork
  <2>4. CASE chain' = [chain EXCEPT ![c].at = "read", ![c].seen = {},
                                    ![c].attempt = @ + 1]
    <3>1. chain'[c].at = "read"
      BY <2>4 DEF Chain
    <3>. QED BY <1>5, <2>1, <3>1 DEF AtWork
  <2>. QED BY <1>12, <2>2, <2>3, <2>4 DEF MutateRecheck
<1>13. CASE MutateWrite(c)
  <2>1. chain'[c].at = "idle" /\ chain[c].at = "write"
    BY <1>3, <1>13 DEF MutateWrite, Done, Rejected
  <2>2. CASE row' = row
    BY <1>5, <2>1, <2>2 DEF AtWork
  <2>3. CASE row' # row
    <3>1. PICK r \in chain[c].seen :
            row' = {[r EXCEPT !.version = @ + 1, !.has = @ \cup {chain[c].mutation}]}
      BY <1>13, <2>3 DEF MutateWrite
    <3>2. r \in StoredRun /\ key = r.run
      BY <2>1 DEF Chain, SeenKey, AtWork
    <3>3. RowsKey'
      BY <1>1, <3>1, <3>2 DEF RowsKey, StoredRun
    <3>4. \A d \in Callers : d # c => chain[d].at \notin Rebuilding
      BY <2>1 DEF Alone
    <3>. QED
      BY <1>1, <1>2, <2>1, <3>3, <3>4
      DEF RowAway, KeyFirst, SeenKey, Rebuilding, AtWork
  <2>. QED BY <2>2, <2>3
<1>. QED
  BY <1>6, <1>7, <1>8, <1>9, <1>10, <1>11, <1>12, <1>13 DEF Call

LEMMA NextPaired == Typed /\ Typed' /\ Paired /\ [Next]_vars => Paired'
<1>. SUFFICES ASSUME Typed, Typed', Paired, [Next]_vars, ~overlapped'
              PROVE  (Alone /\ RowAway /\ KeyFirst /\ RowsKey /\ SeenKey)'
  BY DEF Paired
<1>1. CASE UNCHANGED vars
  BY <1>1 DEF vars, Paired, Alone, RowAway, KeyFirst, RowsKey, SeenKey
<1>2. CASE Next
  <2>1. ~overlapped /\ ~Collision'
    BY <1>2 DEF Next
  <2>2. Alone'
    BY <2>1 DEF Collision, Alone
  <2>3. CASE Crash
    <3>1. \A c \in Callers : chain'[c].at = "idle"
      BY <2>3 DEF Crash, Idle
    <3>. QED
      BY <2>1, <2>2, <2>3, <3>1 DEF Crash, Paired, RowAway, KeyFirst, RowsKey,
                                    SeenKey, AtWork
  <2>4. ASSUME NEW c \in Callers, Step(c) \/ Call(c)
        PROVE  RowAway' /\ KeyFirst' /\ RowsKey' /\ SeenKey'
    BY <2>1, <2>4, RebuildPaired, OtherPaired DEF Step
  <2>. QED BY <1>2, <2>2, <2>3, <2>4 DEF Next
<1>. QED BY <1>1, <1>2

\* However a create or a clear is killed or rejected between its two writes, a
\* stored run has its own secret, unless another operation ran beside one
\* (scoring-pipeline-store.ts: the secret is created first and deleted last).
THEOREM SecretIsOwn == Spec => []OwnSecret
<1>1. Typed /\ Paired /\ [Next]_vars => (Typed /\ Paired)'
  BY NextTyped, NextPaired
<1>2. Paired => OwnSecret
  BY DEF Paired, RowsKey, OwnSecret
<1>. QED BY <1>1, <1>2, InitTyped, InitPaired, PTL DEF Spec
================================================================================
