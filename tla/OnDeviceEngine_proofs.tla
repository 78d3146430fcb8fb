-------------------------- MODULE OnDeviceEngine_proofs --------------------------
(***************************************************************************)
(* That the native context of OnDeviceEngine is safe, for any number of     *)
(* calls, moves to the background and changes of the mode.                 *)
(*                                                                         *)
(* Everything rests on the lock: a call past its guard is the head of the   *)
(* chain (LockInv), so at most one is.  That call and llamaContext between  *)
(* them account for every context that is alive (ContextInv).              *)
(***************************************************************************)
EXTENDS OnDeviceEngine, FiniteSetTheorems, TLAPS

\* Places of a call that has got the lock and not given it back.
Busy == {"check", "loading", "deciding", "inferring", "releasing"}

\* Only the head of the chain is past its guard.
LockInv == \A c \in Calls : pc[c] \in Busy => llamaChain # <<>> /\ Head(llamaChain) = c

\* A context is alive because it is resident, or because the call that loads or
\* releases it is not done; a call asks the resident one.
ContextInv ==
  /\ Resident => contexts = {llamaContext}
  /\ \A c \in Calls : pc[c] = "deciding" => Resident /\ context[c] = llamaContext
  /\ \A c \in Calls : pc[c] = "loading" =>
       ~Resident /\ contexts = {context[c]} /\ context[c] # None /\ failed = {}
  /\ \A c \in Calls : pc[c] = "releasing" => ~Resident /\ contexts \subseteq {context[c]}
  /\ ~Resident /\ (\A c \in Calls : pc[c] \notin {"loading", "releasing"}) => contexts = {}
  /\ failed \subseteq contexts /\ None \notin contexts

\* The mode a dispose has settled under is still the reader's.
UnloadedInCloud == unloaded => processingMode = "Cloud" /\ contexts = {}

\* A call that is asked, or loads, off the screen has left it during its load,
\* unless the move has been counted since.
LeftInv == \A c \in Calls :
  /\ movesBefore[c] <= backgroundMoves
  /\ pc[c] = "loading" /\ ~foreground => leftInLoad[c]
  /\ pc[c] = "deciding" /\ ~onScreen[c] /\ ~LeftScreen(c) => leftInLoad[c]
  /\ result[c] # "none" => pc[c] = "settled"

IInv ==
  /\ TypeOK /\ LockInv /\ ContextInv /\ FileUnderContext /\ UnloadedInCloud
  /\ LeftInv /\ BackgroundContained
--------------------------------------------------------------------------------

\* A call that is asked has the resident context.
LEMMA Asked ==
  ASSUME TypeOK, ContextInv, NEW c \in Calls, pc[c] = "deciding"
  PROVE  context[c] = llamaContext /\ context[c] \in ContextIds /\ context[c] \in contexts
BY DEF TypeOK, ContextInv, Resident

\* A chain that is not empty keeps its head when a call joins.
LEMMA HeadKept ==
  ASSUME NEW S, NEW s \in Seq(S), NEW e \in S, s # <<>>
  PROVE  Append(s, e) # <<>> /\ Head(Append(s, e)) = Head(s)
OBVIOUS

\* The holder of the lock is the only call past its guard.
LEMMA Alone ==
  ASSUME TypeOK, LockInv, NEW c \in Calls, pc[c] \in Busy \/ Holds(c)
  PROVE  Holds(c) /\ llamaChain # <<>> /\ \A d \in Calls : pc[d] \in Busy => d = c
BY DEF TypeOK, LockInv, Holds

\* What settling does to the call and to the chain.
LEMMA Settling ==
  ASSUME TypeOK, NEW c \in Calls, NEW r \in Results, llamaChain # <<>>, Settle(c, r)
  PROVE  /\ pc' \in [Calls -> Places] /\ result' \in [Calls -> Results]
         /\ llamaChain' \in Seq(Calls)
         /\ pc'[c] = "settled" /\ result'[c] = r
         /\ \A d \in Calls : d # c => pc'[d] = pc[d] /\ result'[d] = result[d]
<1>1. "settled" \in Places
  BY DEF Places
<1>2. QED
  BY <1>1 DEF TypeOK, Settle

\* What going on does: the call keeps the lock.
LEMMA Going ==
  ASSUME TypeOK, NEW c \in Calls, NEW place \in Places, Go(c, place)
  PROVE  /\ pc' \in [Calls -> Places] /\ result' = result /\ llamaChain' = llamaChain
         /\ pc'[c] = place /\ \A d \in Calls : d # c => pc'[d] = pc[d]
BY DEF TypeOK, Go

\* What the start of a release does.
LEMMA Releasing ==
  ASSUME TypeOK, NEW c \in Calls, NEW then \in Nexts, Release(c, then)
  PROVE  /\ pc' \in [Calls -> Places] /\ result' = result /\ llamaChain' = llamaChain
         /\ pc'[c] = "releasing" /\ \A d \in Calls : d # c => pc'[d] = pc[d]
         /\ context' \in [Calls -> ContextIds \union {None}] /\ context'[c] = llamaContext
         /\ \A d \in Calls : d # c => context'[d] = context[d]
         /\ llamaContext' = None /\ next' \in [Calls -> Nexts]
         /\ attempt' = attempt
<1>1. "releasing" \in Places
  BY DEF Places
<1>2. QED
  BY <1>1 DEF TypeOK, Release, Go

\* Every step keeps the types.
LEMMA TypeStep ==
  BoundsAssumption /\ TypeOK /\ LockInv /\ ContextInv /\ [Next]_vars => TypeOK'
<1> SUFFICES ASSUME BoundsAssumption, TypeOK, LockInv, ContextInv, [Next]_vars PROVE TypeOK'
  OBVIOUS
<1> USE DEF BoundsAssumption, TypeOK, Modes, Ops, Results, Places, Nexts, MaxAttempts, ContextIds
<1>1. ASSUME NEW c \in Calls, NEW o \in Ops, Enter(c, o) PROVE TypeOK'
  BY <1>1 DEF Enter, KeepRelease, World, Native, History
<1>2. ASSUME NEW c \in Calls, StartInfer(c) PROVE TypeOK'
  <2>1. llamaChain # <<>>
    BY <1>2 DEF StartInfer, Holds
  <2>2. CASE OnDeviceMode
    BY <1>2, <2>2 DEF StartInfer, Go, KeepRelease, World, Native, History
  <2>3. CASE ~OnDeviceMode
    <3>1. Settle(c, "error")
      BY <1>2, <2>3 DEF StartInfer
    <3>2. QED
      BY <1>2, <2>1, <3>1 DEF StartInfer, Settle, KeepRelease, World, Native, History
  <2>4. QED
    BY <2>2, <2>3
<1>3. ASSUME NEW c \in Calls, EndInfer(c) PROVE TypeOK'
  <2>1. Holds(c) /\ llamaChain # <<>>
    BY <1>3, Alone DEF EndInfer, Busy
  <2>2. QED
    BY <1>3, <2>1 DEF EndInfer, Settle, KeepRelease, World, Native, History
<1>4. ASSUME NEW c \in Calls, StartDispose(c) PROVE TypeOK'
  BY <1>4 DEF StartDispose, Release, Go, KeepRelease, World, Native, History
<1>5. ASSUME NEW c \in Calls, StartDelete(c) PROVE TypeOK'
  <2>1. llamaChain # <<>>
    BY <1>5 DEF StartDelete, Holds
  <2>2. CASE RemoveAtOnce
    <3>1. unloaded' \in BOOLEAN
      BY <1>5, <2>2 DEF StartDelete, Unload
    <3>2. Settle(c, "none") /\ onDisk' \in BOOLEAN /\ KeepRelease
      BY <1>5, <2>2 DEF StartDelete
    <3>3. UNCHANGED <<World, Native, op, movesBefore, onScreen, leftInLoad>>
      BY <1>5 DEF StartDelete
    <3>4. QED
      BY <2>1, <3>1, <3>2, <3>3 DEF Settle, KeepRelease, World, Native
  <2>3. CASE ~RemoveAtOnce
    BY <1>5, <2>3 DEF StartDelete, Release, Go, World, Native
  <2>4. QED
    BY <2>2, <2>3
<1>6. ASSUME NEW c \in Calls, Released(c) PROVE TypeOK'
  <2>1. llamaChain # <<>>
    BY <1>6, Alone DEF Released, Busy
  <2>2. unloaded' \in BOOLEAN
    BY <1>6 DEF Released, Unload
  <2>3. /\ contexts' \subseteq ContextIds /\ failed' \subseteq ContextIds
        /\ UNCHANGED <<World, llamaContext, op, next, context, movesBefore, onScreen, leftInLoad>>
    BY <1>6 DEF Released
  <2>4. CASE next[c] = "retry"
    <3>1. Go(c, "check") /\ attempt' = [attempt EXCEPT ![c] = 2] /\ onDisk' = onDisk
      BY <1>6, <2>4 DEF Released
    <3>2. QED
      BY <2>2, <2>3, <3>1 DEF Go, World
  <2>5. CASE next[c] # "retry"
    <3>1. PICK r \in Results : Settle(c, r)
      BY <1>6, <2>5 DEF Released
    <3>2. attempt' = attempt /\ onDisk' \in BOOLEAN
      BY <1>6, <2>5 DEF Released
    <3>3. QED
      BY <2>1, <2>2, <2>3, <3>1, <3>2 DEF Settle, World
  <2>6. QED
    BY <2>4, <2>5
<1>7. ASSUME NEW c \in Calls, Check(c) PROVE TypeOK'
  <2>1. llamaChain # <<>>
    BY <1>7, Alone DEF Check, Busy, Holds
  <2>2. UNCHANGED <<World, onDisk, llamaContext, failed, op, next, attempt, leftInLoad, unloaded>>
    BY <1>7 DEF Check
  <2>3. CASE Refused
    <3>1. /\ UNCHANGED <<context, movesBefore, onScreen, contexts>>
          /\ Settle(c, IF foreground THEN "error" ELSE "busy")
      BY <1>7, <2>3 DEF Check
    <3>2. QED
      BY <2>1, <2>2, <3>1 DEF Settle, World
  <2>4. CASE ~Refused /\ Resident
    <3>1. Ask(c, llamaContext) /\ contexts' = contexts
      BY <1>7, <2>4 DEF Check
    <3>2. QED
      BY <2>2, <3>1 DEF Ask, Go, World
  <2>5. CASE ~Refused /\ ~Resident
    <3>1. /\ contexts' = contexts \union {<<c, attempt[c]>>}
          /\ context' = [context EXCEPT ![c] = <<c, attempt[c]>>]
          /\ Go(c, "loading") /\ UNCHANGED <<movesBefore, onScreen>>
      BY <1>7, <2>5 DEF Check
    <3>2. <<c, attempt[c]>> \in ContextIds
      OBVIOUS
    <3>3. QED
      BY <2>2, <3>1, <3>2 DEF Go, World
  <2>6. QED
    BY <2>3, <2>4, <2>5
<1>8. ASSUME NEW c \in Calls, Loaded(c) PROVE TypeOK'
  BY <1>8 DEF Loaded, Ask, Go, KeepRelease, World, Native, History
<1>9. ASSUME NEW c \in Calls, LoadFailed(c) PROVE TypeOK'
  <2>1. Holds(c) /\ llamaChain # <<>>
    BY <1>9, Alone DEF LoadFailed, Busy
  <2>2. QED
    BY <1>9, <2>1 DEF LoadFailed, Settle, KeepRelease, World, Native, History
<1>10. ASSUME NEW c \in Calls, Answered(c) PROVE TypeOK'
  <2>1. llamaChain # <<>>
    BY <1>10, Alone DEF Answered, Busy
  <2>2. failed' \subseteq ContextIds
    BY <1>10, Asked DEF Answered
  <2>3. UNCHANGED <<World, onDisk, contexts, op, movesBefore, onScreen, leftInLoad, unloaded>>
    BY <1>10 DEF Answered, History
  <2>4. CASE LeftScreen(c)
    <3>1. Release(c, "busy")
      BY <1>10, <2>4 DEF Answered
    <3>2. QED
      BY <2>2, <2>3, <3>1 DEF Release, Go, World
  <2>5. CASE ~LeftScreen(c)
    <3>1. PICK r \in Results : Settle(c, r) /\ KeepRelease
      BY <1>10, <2>5 DEF Answered
    <3>2. QED
      BY <2>1, <2>2, <2>3, <3>1 DEF Settle, KeepRelease, World
  <2>6. QED
    BY <2>4, <2>5
<1>11. ASSUME NEW c \in Calls, GpuFailed(c) PROVE TypeOK'
  <2>1. PICK then \in Nexts : Release(c, then)
    BY <1>11 DEF GpuFailed, AfterGpuFailure
  <2>2. failed' \subseteq ContextIds
    BY <1>11, Asked DEF GpuFailed
  <2>3. UNCHANGED <<World, onDisk, contexts, op, movesBefore, onScreen, leftInLoad, unloaded>>
    BY <1>11 DEF GpuFailed, History
  <2>4. QED
    BY <2>1, <2>2, <2>3 DEF Release, Go, World
<1>12. ASSUME NEW c \in Calls, DecideFailed(c) PROVE TypeOK'
  <2>1. Holds(c) /\ llamaChain # <<>>
    BY <1>12, Alone DEF DecideFailed, Busy
  <2>2. QED
    BY <1>12, <2>1 DEF DecideFailed, Settle, KeepRelease, World, Native, History
<1>13. CASE LeaveScreen
  <2>1. /\ onScreen' \in [Calls -> BOOLEAN] /\ leftInLoad' \in [Calls -> BOOLEAN]
        /\ backgroundMoves' \in 0 .. MaxMoves /\ foreground' = FALSE
    BY <1>13 DEF LeaveScreen
  <2>2. QED
    BY <1>13, <2>1 DEF LeaveScreen, KeepRelease, Native
<1>14. CASE Return
  BY <1>14 DEF Return, KeepRelease, World, Native, History
<1>15. CASE FlipMode
  <2>1. /\ processingMode' \in Modes /\ flips' \in 0 .. MaxFlips /\ unloaded' = FALSE
    BY <1>15 DEF FlipMode
  <2>2. QED
    BY <1>15, <2>1 DEF FlipMode, KeepRelease, Native
<1>16. CASE Download
  BY <1>16 DEF Download, KeepRelease, World, Native, History
<1>17. CASE UNCHANGED vars
  BY <1>17 DEF vars
<1>18. QED
  BY <1>1, <1>2, <1>3, <1>4, <1>5, <1>6, <1>7, <1>8, <1>9, <1>10,
     <1>11, <1>12, <1>13, <1>14, <1>15, <1>16, <1>17 DEF Next, Step

\* Every step leaves at most the head of the chain past its guard.
LEMMA LockStep ==
  TypeOK /\ LockInv /\ [Next]_vars => LockInv'
<1> SUFFICES ASSUME TypeOK, LockInv, [Next]_vars PROVE LockInv'
  OBVIOUS
<1> USE DEF TypeOK, LockInv, Busy, Holds
<1>1. ASSUME NEW c \in Calls, NEW o \in Ops, Enter(c, o) PROVE LockInv'
  <2>1. llamaChain # <<>> => llamaChain' # <<>> /\ Head(llamaChain') = Head(llamaChain)
    BY <1>1, HeadKept DEF Enter
  <2>2. QED
    BY <1>1, <2>1 DEF Enter
<1>2. ASSUME NEW c \in Calls, StartInfer(c) PROVE LockInv'
  BY <1>2 DEF StartInfer, Go, Settle, KeepRelease, World, Native, History
<1>3. ASSUME NEW c \in Calls, EndInfer(c) PROVE LockInv'
  BY <1>3 DEF EndInfer, Settle, KeepRelease, World, Native, History
<1>4. ASSUME NEW c \in Calls, StartDispose(c) PROVE LockInv'
  BY <1>4 DEF StartDispose, Release, Go, KeepRelease, World, Native, History
<1>5. ASSUME NEW c \in Calls, StartDelete(c) PROVE LockInv'
  <2>1. CASE RemoveAtOnce
    BY <1>5, <2>1 DEF StartDelete, Settle
  <2>2. CASE ~RemoveAtOnce
    BY <1>5, <2>2 DEF StartDelete, Release, Go
  <2>3. QED
    BY <2>1, <2>2
<1>6. ASSUME NEW c \in Calls, Released(c) PROVE LockInv'
  BY <1>6 DEF Released, Go, Settle, Unload, KeepRelease, World, Native, History
<1>7. ASSUME NEW c \in Calls, Check(c) PROVE LockInv'
  BY <1>7 DEF Check, Settle, Ask, Go, Refused, KeepRelease, World, Native, History
<1>8. ASSUME NEW c \in Calls, Loaded(c) PROVE LockInv'
  BY <1>8 DEF Loaded, Ask, Go, KeepRelease, World, Native, History
<1>9. ASSUME NEW c \in Calls, LoadFailed(c) PROVE LockInv'
  BY <1>9 DEF LoadFailed, Settle, KeepRelease, World, Native, History
<1>10. ASSUME NEW c \in Calls, Answered(c) PROVE LockInv'
  BY <1>10 DEF Answered, Release, Settle, Go, KeepRelease, World, Native, History
<1>11. ASSUME NEW c \in Calls, GpuFailed(c) PROVE LockInv'
  BY <1>11 DEF GpuFailed, AfterGpuFailure, Release, Go, KeepRelease, World, Native, History
<1>12. ASSUME NEW c \in Calls, DecideFailed(c) PROVE LockInv'
  BY <1>12 DEF DecideFailed, Settle, KeepRelease, World, Native, History
<1>13. CASE LeaveScreen
  BY <1>13 DEF LeaveScreen, KeepRelease, World, Native, History
<1>14. CASE Return
  BY <1>14 DEF Return, KeepRelease, World, Native, History
<1>15. CASE FlipMode
  BY <1>15 DEF FlipMode, KeepRelease, World, Native, History
<1>16. CASE Download
  BY <1>16 DEF Download, KeepRelease, World, Native, History
<1>17. CASE UNCHANGED vars
  BY <1>17 DEF vars
<1>18. QED
  BY <1>1, <1>2, <1>3, <1>4, <1>5, <1>6, <1>7, <1>8, <1>9, <1>10,
     <1>11, <1>12, <1>13, <1>14, <1>15, <1>16, <1>17 DEF Next, Step

\* The others stay off the lock while the holder moves.
LEMMA OthersOut ==
  ASSUME TypeOK, LockInv, NEW c \in Calls, pc[c] \in Busy \/ Holds(c),
         \A d \in Calls : d # c => pc'[d] = pc[d]
  PROVE  \A d \in Calls : d # c => pc[d] \notin Busy /\ pc'[d] \notin Busy
BY Alone

\* A context has a name.
LEMMA Named == None \notin ContextIds
BY DEF None, ContextIds

\* The holder starts a release, having asked the resident context or none.
LEMMA Disposed ==
  ASSUME TypeOK, LockInv, ContextInv, NEW c \in Calls, NEW then \in Nexts,
         pc[c] = "deciding" \/ (pc[c] = "waiting" /\ Holds(c)), Release(c, then),
         contexts' = contexts, failed' \subseteq contexts
  PROVE  ContextInv'
<1>1. /\ llamaContext' = None /\ context'[c] = llamaContext /\ pc'[c] = "releasing"
      /\ \A d \in Calls : d # c => pc'[d] = pc[d]
  BY Releasing
<1>2. \A d \in Calls : d # c => pc[d] \notin Busy /\ pc'[d] \notin Busy
  BY <1>1, OthersOut DEF Busy
<1>3. contexts \subseteq {llamaContext}
  BY <1>2 DEF ContextInv, Busy
<1>4. QED
  BY <1>1, <1>2, <1>3 DEF ContextInv, Resident, Busy

\* Every step accounts for the contexts that are alive.
LEMMA ContextStep ==
  TypeOK /\ LockInv /\ ContextInv /\ [Next]_vars => ContextInv'
<1> SUFFICES ASSUME TypeOK, LockInv, ContextInv, [Next]_vars PROVE ContextInv'
  OBVIOUS
<1> USE DEF ContextInv, Resident
<1>1. ASSUME NEW c \in Calls, NEW o \in Ops, Enter(c, o) PROVE ContextInv'
  <2>1. /\ UNCHANGED <<llamaContext, context, contexts, failed>>
        /\ \A d \in Calls : pc'[d] # pc[d] => pc[d] = "idle" /\ pc'[d] = "waiting"
    BY <1>1 DEF Enter, KeepRelease, Native, TypeOK
  <2>2. QED
    BY <2>1
<1>2. ASSUME NEW c \in Calls, StartInfer(c) PROVE ContextInv'
  <2>1. /\ UNCHANGED <<llamaContext, context, contexts, failed>>
        /\ llamaChain # <<>> /\ Holds(c) /\ pc[c] = "waiting"
    BY <1>2 DEF StartInfer, KeepRelease, Native, Holds
  <2>2. /\ pc'[c] \in {"inferring", "settled"}
        /\ \A d \in Calls : d # c => pc'[d] = pc[d]
    BY <1>2 DEF StartInfer, Go, Settle, TypeOK
  <2>3. \A d \in Calls : d # c => pc[d] \notin Busy /\ pc'[d] \notin Busy
    BY <2>1, <2>2, OthersOut
  <2>4. QED
    BY <2>1, <2>2, <2>3 DEF Busy
<1>3. ASSUME NEW c \in Calls, EndInfer(c) PROVE ContextInv'
  <2>1. UNCHANGED <<llamaContext, context, contexts, failed>> /\ pc[c] = "inferring"
    BY <1>3 DEF EndInfer, KeepRelease, Native
  <2>2. pc'[c] = "settled" /\ \A d \in Calls : d # c => pc'[d] = pc[d]
    BY <1>3 DEF EndInfer, Settle, TypeOK
  <2>3. \A d \in Calls : d # c => pc[d] \notin Busy /\ pc'[d] \notin Busy
    BY <2>1, <2>2, OthersOut DEF Busy
  <2>4. QED
    BY <2>1, <2>2, <2>3 DEF Busy
<1>4. ASSUME NEW c \in Calls, StartDispose(c) PROVE ContextInv'
  <2>1. Release(c, "done") /\ Holds(c) /\ pc[c] = "waiting" /\ UNCHANGED Native
    BY <1>4 DEF StartDispose
  <2>2. contexts' = contexts /\ failed' \subseteq contexts /\ "done" \in Nexts
    BY <2>1 DEF Native, Nexts
  <2>3. QED
    BY <2>1, <2>2, Disposed
<1>5. ASSUME NEW c \in Calls, StartDelete(c) PROVE ContextInv'
  <2>1. Holds(c) /\ pc[c] = "waiting" /\ UNCHANGED Native
    BY <1>5 DEF StartDelete
  <2>2. CASE ~RemoveAtOnce
    <3>1. Release(c, "remove")
      BY <1>5, <2>2 DEF StartDelete
    <3>2. contexts' = contexts /\ failed' \subseteq contexts /\ "remove" \in Nexts
      BY <2>1 DEF Native, Nexts
    <3>3. QED
      BY <2>1, <3>1, <3>2, Disposed
  <2>3. CASE RemoveAtOnce
    <3>1. UNCHANGED <<llamaContext, context, contexts, failed>>
      BY <1>5, <2>3 DEF StartDelete, KeepRelease, Native
    <3>2. pc'[c] = "settled" /\ \A d \in Calls : d # c => pc'[d] = pc[d]
      BY <1>5, <2>3 DEF StartDelete, Settle, TypeOK
    <3>3. \A d \in Calls : d # c => pc[d] \notin Busy /\ pc'[d] \notin Busy
      BY <2>1, <3>2, OthersOut
    <3>4. QED
      BY <2>1, <3>1, <3>2, <3>3 DEF Busy
  <2>4. QED
    BY <2>2, <2>3
<1>6. ASSUME NEW c \in Calls, Released(c) PROVE ContextInv'
  <2>1. /\ pc[c] = "releasing" /\ UNCHANGED <<llamaContext, context>>
        /\ contexts' = contexts \ {context[c]} /\ failed' = failed \ {context[c]}
    BY <1>6 DEF Released
  <2>2. pc'[c] \in {"check", "settled"} /\ \A d \in Calls : d # c => pc'[d] = pc[d]
    BY <1>6 DEF Released, Go, Settle, TypeOK
  <2>3. \A d \in Calls : d # c => pc[d] \notin Busy /\ pc'[d] \notin Busy
    BY <2>1, <2>2, OthersOut DEF Busy
  <2>4. ~Resident /\ contexts' = {} /\ failed' = {}
    BY <2>1
  <2>5. QED
    BY <2>1, <2>2, <2>3, <2>4 DEF Busy
<1>7. ASSUME NEW c \in Calls, Check(c) PROVE ContextInv'
  <2>1. /\ pc[c] \in {"waiting", "check"} /\ (pc[c] \in Busy \/ Holds(c))
        /\ UNCHANGED <<llamaContext, failed>>
    BY <1>7 DEF Check, Busy
  <2>2. \A d \in Calls : d # c => pc'[d] = pc[d]
    BY <1>7 DEF Check, Settle, Ask, Go, TypeOK
  <2>3. \A d \in Calls : d # c => pc[d] \notin Busy /\ pc'[d] \notin Busy
    BY <2>1, <2>2, OthersOut
  <2>4. CASE Refused
    <3>1. UNCHANGED <<context, contexts>> /\ pc'[c] = "settled"
      BY <1>7, <2>4 DEF Check, Settle, TypeOK
    <3>2. QED
      BY <2>1, <2>3, <3>1 DEF Busy
  <2>5. CASE ~Refused /\ Resident
    <3>1. contexts' = contexts /\ context'[c] = llamaContext /\ pc'[c] = "deciding"
      BY <1>7, <2>5 DEF Check, Ask, Go, TypeOK
    <3>2. QED
      BY <2>1, <2>3, <2>5, <3>1 DEF Busy
  <2>6. CASE ~Refused /\ ~Resident
    <3>1. contexts' = contexts \union {<<c, attempt[c]>>} /\ pc'[c] = "loading"
      BY <1>7, <2>6 DEF Check, Go, TypeOK
    <3>2. <<c, attempt[c]>> \in ContextIds
      BY DEF TypeOK, ContextIds, MaxAttempts
    <3>3. context'[c] = <<c, attempt[c]>>
      BY <1>7, <2>6 DEF Check, TypeOK
    <3>4. contexts = {}
      BY <2>1, <2>3, <2>6 DEF Busy
    <3>5. QED
      BY <2>1, <2>3, <2>6, <3>1, <3>2, <3>3, <3>4, Named DEF Busy
  <2>7. QED
    BY <2>4, <2>5, <2>6
<1>8. ASSUME NEW c \in Calls, Loaded(c) PROVE ContextInv'
  <2>1. /\ pc[c] = "loading" /\ UNCHANGED <<contexts, failed>>
        /\ llamaContext' = context[c] /\ pc'[c] = "deciding" /\ context'[c] = context[c]
        /\ \A d \in Calls : d # c => pc'[d] = pc[d]
    BY <1>8 DEF Loaded, Ask, Go, Native, TypeOK
  <2>2. \A d \in Calls : d # c => pc[d] \notin Busy /\ pc'[d] \notin Busy
    BY <2>1, OthersOut DEF Busy
  <2>3. contexts = {context[c]} /\ context[c] # None
    BY <2>1
  <2>4. QED
    BY <2>1, <2>2, <2>3 DEF Busy
<1>9. ASSUME NEW c \in Calls, LoadFailed(c) PROVE ContextInv'
  <2>1. /\ pc[c] = "loading" /\ UNCHANGED <<llamaContext, context, failed>>
        /\ contexts' = contexts \ {context[c]}
    BY <1>9 DEF LoadFailed, KeepRelease
  <2>2. pc'[c] = "settled" /\ \A d \in Calls : d # c => pc'[d] = pc[d]
    BY <1>9 DEF LoadFailed, Settle, TypeOK
  <2>3. \A d \in Calls : d # c => pc[d] \notin Busy /\ pc'[d] \notin Busy
    BY <2>1, <2>2, OthersOut DEF Busy
  <2>4. ~Resident /\ contexts' = {} /\ failed = {}
    BY <2>1
  <2>5. QED
    BY <2>1, <2>2, <2>3, <2>4 DEF Busy
<1>10. ASSUME NEW c \in Calls, Answered(c) PROVE ContextInv'
  <2>1. /\ pc[c] = "deciding" /\ contexts' = contexts
        /\ failed' \subseteq failed \union {context[c]}
    BY <1>10 DEF Answered
  <2>2. failed' \subseteq contexts
    BY <2>1, Asked
  <2>3. CASE LeftScreen(c)
    <3>1. Release(c, "busy")
      BY <1>10, <2>3 DEF Answered
    <3>2. QED
      BY <2>1, <2>2, <3>1, Disposed DEF Nexts, Busy
  <2>4. CASE ~LeftScreen(c)
    <3>1. /\ UNCHANGED <<llamaContext, context>> /\ pc'[c] = "settled"
          /\ \A d \in Calls : d # c => pc'[d] = pc[d]
      BY <1>10, <2>4 DEF Answered, KeepRelease, Settle, TypeOK
    <3>2. \A d \in Calls : d # c => pc[d] \notin Busy /\ pc'[d] \notin Busy
      BY <2>1, <3>1, OthersOut DEF Busy
    <3>3. QED
      BY <2>1, <2>2, <3>1, <3>2 DEF Busy
  <2>5. QED
    BY <2>3, <2>4
<1>11. ASSUME NEW c \in Calls, GpuFailed(c) PROVE ContextInv'
  <2>1. /\ pc[c] = "deciding" /\ contexts' = contexts
        /\ failed' = failed \union {context[c]}
    BY <1>11 DEF GpuFailed
  <2>2. failed' \subseteq contexts
    BY <2>1, Asked
  <2>3. PICK then \in Nexts : Release(c, then)
    BY <1>11 DEF GpuFailed, AfterGpuFailure, Nexts
  <2>4. QED
    BY <2>1, <2>2, <2>3, Disposed DEF Busy
<1>12. ASSUME NEW c \in Calls, DecideFailed(c) PROVE ContextInv'
  <2>1. UNCHANGED <<llamaContext, context, contexts, failed>> /\ pc[c] = "deciding"
    BY <1>12 DEF DecideFailed, KeepRelease, Native
  <2>2. pc'[c] = "settled" /\ \A d \in Calls : d # c => pc'[d] = pc[d]
    BY <1>12 DEF DecideFailed, Settle, TypeOK
  <2>3. \A d \in Calls : d # c => pc[d] \notin Busy /\ pc'[d] \notin Busy
    BY <2>1, <2>2, OthersOut DEF Busy
  <2>4. QED
    BY <2>1, <2>2, <2>3 DEF Busy
<1>13. CASE LeaveScreen
  BY <1>13 DEF LeaveScreen, KeepRelease, World, Native, History
<1>14. CASE Return
  BY <1>14 DEF Return, KeepRelease, World, Native, History
<1>15. CASE FlipMode
  BY <1>15 DEF FlipMode, KeepRelease, World, Native, History
<1>16. CASE Download
  BY <1>16 DEF Download, KeepRelease, World, Native, History
<1>17. CASE UNCHANGED vars
  BY <1>17 DEF vars
<1>18. QED
  BY <1>1, <1>2, <1>3, <1>4, <1>5, <1>6, <1>7, <1>8, <1>9, <1>10,
     <1>11, <1>12, <1>13, <1>14, <1>15, <1>16, <1>17 DEF Next, Step

\* Every step keeps the file under a context.
LEMMA FileStep ==
  TypeOK /\ LockInv /\ ContextInv /\ FileUnderContext /\ [Next]_vars => FileUnderContext'
<1> SUFFICES ASSUME TypeOK, LockInv, ContextInv, FileUnderContext, [Next]_vars PROVE FileUnderContext'
  OBVIOUS
<1> USE DEF FileUnderContext
<1>1. ASSUME NEW c \in Calls, NEW o \in Ops, Enter(c, o) PROVE FileUnderContext'
  BY <1>1 DEF Enter, KeepRelease, World, Native, History
<1>2. ASSUME NEW c \in Calls, StartInfer(c) PROVE FileUnderContext'
  BY <1>2 DEF StartInfer, Go, Settle, KeepRelease, World, Native, History
<1>3. ASSUME NEW c \in Calls, EndInfer(c) PROVE FileUnderContext'
  BY <1>3 DEF EndInfer, Settle, KeepRelease, World, Native, History
<1>4. ASSUME NEW c \in Calls, StartDispose(c) PROVE FileUnderContext'
  BY <1>4 DEF StartDispose, Release, Go, KeepRelease, World, Native, History
<1>5. ASSUME NEW c \in Calls, StartDelete(c) PROVE FileUnderContext'
  <2>1. contexts' = contexts
    BY <1>5 DEF StartDelete, Native
  <2>2. CASE RemoveAtOnce
    BY <1>5, <2>1, <2>2, Alone DEF StartDelete, Busy, ContextInv, Resident, RemoveAtOnce
  <2>3. CASE ~RemoveAtOnce
    BY <1>5, <2>1, <2>3 DEF StartDelete
  <2>4. QED
    BY <2>2, <2>3
<1>6. ASSUME NEW c \in Calls, Released(c) PROVE FileUnderContext'
  <2>1. contexts' = {}
    BY <1>6 DEF Released, ContextInv
  <2>2. QED
    BY <2>1
<1>7. ASSUME NEW c \in Calls, Check(c) PROVE FileUnderContext'
  <2>1. onDisk' = onDisk /\ (Refused \/ Resident => contexts' = contexts)
    BY <1>7 DEF Check
  <2>2. QED
    BY <2>1 DEF Refused
<1>8. ASSUME NEW c \in Calls, Loaded(c) PROVE FileUnderContext'
  BY <1>8 DEF Loaded, Ask, Go, KeepRelease, World, Native, History
<1>9. ASSUME NEW c \in Calls, LoadFailed(c) PROVE FileUnderContext'
  <2>1. contexts' \subseteq contexts /\ onDisk' = onDisk
    BY <1>9 DEF LoadFailed, KeepRelease
  <2>2. QED
    BY <2>1
<1>10. ASSUME NEW c \in Calls, Answered(c) PROVE FileUnderContext'
  <2>1. UNCHANGED <<contexts, onDisk>>
    BY <1>10 DEF Answered
  <2>2. QED
    BY <2>1
<1>11. ASSUME NEW c \in Calls, GpuFailed(c) PROVE FileUnderContext'
  <2>1. UNCHANGED <<contexts, onDisk>>
    BY <1>11 DEF GpuFailed
  <2>2. QED
    BY <2>1
<1>12. ASSUME NEW c \in Calls, DecideFailed(c) PROVE FileUnderContext'
  BY <1>12 DEF DecideFailed, Settle, KeepRelease, World, Native, History
<1>13. CASE LeaveScreen
  BY <1>13 DEF LeaveScreen, KeepRelease, World, Native, History
<1>14. CASE Return
  BY <1>14 DEF Return, KeepRelease, World, Native, History
<1>15. CASE FlipMode
  BY <1>15 DEF FlipMode, KeepRelease, World, Native, History
<1>16. CASE Download
  BY <1>16 DEF Download, KeepRelease, World, Native, History
<1>17. CASE UNCHANGED vars
  BY <1>17 DEF vars
<1>18. QED
  BY <1>1, <1>2, <1>3, <1>4, <1>5, <1>6, <1>7, <1>8, <1>9, <1>10,
     <1>11, <1>12, <1>13, <1>14, <1>15, <1>16, <1>17 DEF Next, Step

\* Every step keeps an unloaded Kev out of memory.
LEMMA UnloadedStep ==
  TypeOK /\ LockInv /\ ContextInv /\ UnloadedInCloud /\ [Next]_vars => UnloadedInCloud'
<1> SUFFICES ASSUME TypeOK, LockInv, ContextInv, UnloadedInCloud, [Next]_vars PROVE UnloadedInCloud'
  OBVIOUS
<1> USE DEF UnloadedInCloud
<1>1. ASSUME NEW c \in Calls, NEW o \in Ops, Enter(c, o) PROVE UnloadedInCloud'
  BY <1>1 DEF Enter, KeepRelease, World, Native, History
<1>2. ASSUME NEW c \in Calls, StartInfer(c) PROVE UnloadedInCloud'
  BY <1>2 DEF StartInfer, Go, Settle, KeepRelease, World, Native, History
<1>3. ASSUME NEW c \in Calls, EndInfer(c) PROVE UnloadedInCloud'
  BY <1>3 DEF EndInfer, Settle, KeepRelease, World, Native, History
<1>4. ASSUME NEW c \in Calls, StartDispose(c) PROVE UnloadedInCloud'
  BY <1>4 DEF StartDispose, Release, Go, KeepRelease, World, Native, History
<1>5. ASSUME NEW c \in Calls, StartDelete(c) PROVE UnloadedInCloud'
  <2>1. UNCHANGED <<contexts, processingMode>>
    BY <1>5 DEF StartDelete, Native, World
  <2>2. CASE RemoveAtOnce
    <3>1. contexts = {}
      BY <1>5, <2>2, Alone DEF StartDelete, Busy, ContextInv, Resident, RemoveAtOnce
    <3>2. unloaded' => unloaded \/ processingMode = "Cloud"
      BY <1>5, <2>2 DEF StartDelete, Unload
    <3>3. QED
      BY <2>1, <3>1, <3>2
  <2>3. CASE ~RemoveAtOnce
    BY <1>5, <2>1, <2>3 DEF StartDelete
  <2>4. QED
    BY <2>2, <2>3
<1>6. ASSUME NEW c \in Calls, Released(c) PROVE UnloadedInCloud'
  <2>1. contexts' = {} /\ processingMode' = processingMode
    BY <1>6 DEF Released, ContextInv, World
  <2>2. unloaded' => unloaded \/ processingMode = "Cloud"
    BY <1>6 DEF Released, Unload
  <2>3. QED
    BY <2>1, <2>2
<1>7. ASSUME NEW c \in Calls, Check(c) PROVE UnloadedInCloud'
  <2>1. UNCHANGED <<processingMode, unloaded>> /\ (Refused => contexts' = contexts)
    BY <1>7 DEF Check, World
  <2>2. Refused \/ processingMode # "Cloud"
    BY DEF Refused, OnDeviceMode
  <2>3. Resident => contexts' = contexts
    BY <1>7, <2>1 DEF Check
  <2>4. QED
    BY <2>1, <2>2
<1>8. ASSUME NEW c \in Calls, Loaded(c) PROVE UnloadedInCloud'
  BY <1>8 DEF Loaded, Ask, Go, KeepRelease, World, Native, History
<1>9. ASSUME NEW c \in Calls, LoadFailed(c) PROVE UnloadedInCloud'
  <2>1. contexts' \subseteq contexts /\ UNCHANGED <<unloaded, processingMode>>
    BY <1>9 DEF LoadFailed, World, History
  <2>2. QED
    BY <2>1
<1>10. ASSUME NEW c \in Calls, Answered(c) PROVE UnloadedInCloud'
  <2>1. UNCHANGED <<contexts, unloaded, processingMode>>
    BY <1>10 DEF Answered, World, History
  <2>2. QED
    BY <2>1
<1>11. ASSUME NEW c \in Calls, GpuFailed(c) PROVE UnloadedInCloud'
  <2>1. UNCHANGED <<contexts, unloaded, processingMode>>
    BY <1>11 DEF GpuFailed, World, History
  <2>2. QED
    BY <2>1
<1>12. ASSUME NEW c \in Calls, DecideFailed(c) PROVE UnloadedInCloud'
  BY <1>12 DEF DecideFailed, Settle, KeepRelease, World, Native, History
<1>13. CASE LeaveScreen
  BY <1>13 DEF LeaveScreen, KeepRelease, World, Native, History
<1>14. CASE Return
  BY <1>14 DEF Return, KeepRelease, World, Native, History
<1>15. CASE FlipMode
  BY <1>15 DEF FlipMode
<1>16. CASE Download
  BY <1>16 DEF Download, KeepRelease, World, Native, History
<1>17. CASE UNCHANGED vars
  BY <1>17 DEF vars
<1>18. QED
  BY <1>1, <1>2, <1>3, <1>4, <1>5, <1>6, <1>7, <1>8, <1>9, <1>10,
     <1>11, <1>12, <1>13, <1>14, <1>15, <1>16, <1>17 DEF Next, Step

\* Every step accounts for the moves to the background.
LEMMA LeftStep ==
  TypeOK /\ LeftInv /\ [Next]_vars => LeftInv'
<1> SUFFICES ASSUME TypeOK, LeftInv, [Next]_vars PROVE LeftInv'
  OBVIOUS
<1> USE DEF LeftInv
<1>1. ASSUME NEW c \in Calls, NEW o \in Ops, Enter(c, o) PROVE LeftInv'
  <2>1. /\ UNCHANGED <<foreground, backgroundMoves, movesBefore, onScreen, leftInLoad>>
        /\ pc[c] # "settled"
    BY <1>1 DEF Enter, KeepRelease, World, Native, History
  <2>2. /\ pc'[c] \notin {"loading", "deciding"} /\ (result'[c] # result[c] => pc'[c] = "settled")
        /\ \A d \in Calls : d # c => pc'[d] = pc[d] /\ result'[d] = result[d]
    BY <1>1 DEF Enter, TypeOK
  <2>3. QED
    BY <2>1, <2>2 DEF LeftScreen
<1>2. ASSUME NEW c \in Calls, StartInfer(c) PROVE LeftInv'
  <2>1. /\ UNCHANGED <<foreground, backgroundMoves, movesBefore, onScreen, leftInLoad>>
        /\ pc[c] # "settled"
    BY <1>2 DEF StartInfer, Go, Settle, KeepRelease, World, Native, History
  <2>2. /\ pc'[c] \notin {"loading", "deciding"} /\ (result'[c] # result[c] => pc'[c] = "settled")
        /\ \A d \in Calls : d # c => pc'[d] = pc[d] /\ result'[d] = result[d]
    BY <1>2 DEF StartInfer, Go, Settle, TypeOK
  <2>3. QED
    BY <2>1, <2>2 DEF LeftScreen
<1>3. ASSUME NEW c \in Calls, EndInfer(c) PROVE LeftInv'
  <2>1. /\ UNCHANGED <<foreground, backgroundMoves, movesBefore, onScreen, leftInLoad>>
        /\ pc[c] # "settled"
    BY <1>3 DEF EndInfer, Settle, KeepRelease, World, Native, History
  <2>2. /\ pc'[c] \notin {"loading", "deciding"} /\ (result'[c] # result[c] => pc'[c] = "settled")
        /\ \A d \in Calls : d # c => pc'[d] = pc[d] /\ result'[d] = result[d]
    BY <1>3 DEF EndInfer, Settle, TypeOK
  <2>3. QED
    BY <2>1, <2>2 DEF LeftScreen
<1>4. ASSUME NEW c \in Calls, StartDispose(c) PROVE LeftInv'
  <2>1. /\ UNCHANGED <<foreground, backgroundMoves, movesBefore, onScreen, leftInLoad>>
        /\ pc[c] # "settled"
    BY <1>4 DEF StartDispose, Release, Go, KeepRelease, World, Native, History
  <2>2. /\ pc'[c] \notin {"loading", "deciding"} /\ (result'[c] # result[c] => pc'[c] = "settled")
        /\ \A d \in Calls : d # c => pc'[d] = pc[d] /\ result'[d] = result[d]
    BY <1>4 DEF StartDispose, Release, Go, TypeOK
  <2>3. QED
    BY <2>1, <2>2 DEF LeftScreen
<1>5. ASSUME NEW c \in Calls, StartDelete(c) PROVE LeftInv'
  <2>1. /\ UNCHANGED <<foreground, backgroundMoves, movesBefore, onScreen, leftInLoad>>
        /\ pc[c] # "settled"
    BY <1>5 DEF StartDelete, World, History
  <2>2. /\ pc'[c] \in {"releasing", "settled"} /\ (result'[c] # result[c] => pc'[c] = "settled")
        /\ \A d \in Calls : d # c => pc'[d] = pc[d] /\ result'[d] = result[d]
    <3>1. CASE RemoveAtOnce
      BY <1>5, <3>1 DEF StartDelete, Settle, Release, Go, Unload, TypeOK
    <3>2. CASE ~RemoveAtOnce
      BY <1>5, <3>2 DEF StartDelete, Settle, Release, Go, Unload, TypeOK
    <3>3. QED
      BY <3>1, <3>2
  <2>3. QED
    BY <2>1, <2>2 DEF LeftScreen
<1>6. ASSUME NEW c \in Calls, Released(c) PROVE LeftInv'
  <2>1. /\ UNCHANGED <<foreground, backgroundMoves, movesBefore, onScreen, leftInLoad>>
        /\ pc[c] # "settled"
    BY <1>6 DEF Released, Go, Settle, Unload, KeepRelease, World, Native, History
  <2>2. /\ pc'[c] \notin {"loading", "deciding"} /\ (result'[c] # result[c] => pc'[c] = "settled")
        /\ \A d \in Calls : d # c => pc'[d] = pc[d] /\ result'[d] = result[d]
    BY <1>6 DEF Released, Go, Settle, Unload, TypeOK
  <2>3. QED
    BY <2>1, <2>2 DEF LeftScreen
<1>7. ASSUME NEW c \in Calls, Check(c) PROVE LeftInv'
  <2>1. /\ UNCHANGED <<foreground, backgroundMoves, leftInLoad>> /\ pc[c] # "settled"
    BY <1>7 DEF Check, World
  <2>2. \A d \in Calls : d # c => /\ pc'[d] = pc[d] /\ result'[d] = result[d]
                                /\ movesBefore'[d] = movesBefore[d] /\ onScreen'[d] = onScreen[d]
    BY <1>7 DEF Check, Settle, Ask, Go, TypeOK
  <2>3. CASE Refused
    <3>1. UNCHANGED <<movesBefore, onScreen>> /\ pc'[c] = "settled"
      BY <1>7, <2>3 DEF Check, Settle, TypeOK
    <3>2. QED
      BY <2>1, <2>2, <3>1 DEF LeftScreen
  <2>4. CASE ~Refused /\ Resident
    <3>1. /\ movesBefore'[c] = backgroundMoves /\ onScreen'[c] = foreground /\ result' = result
      BY <1>7, <2>4 DEF Check, Ask, Go, TypeOK
    <3>2. foreground /\ pc'[c] = "deciding"
      BY <1>7, <2>4 DEF Check, Ask, Go, Refused, TypeOK
    <3>3. backgroundMoves <= backgroundMoves
      BY DEF TypeOK
    <3>4. QED
      BY <2>1, <2>2, <3>1, <3>2, <3>3 DEF LeftScreen
  <2>5. CASE ~Refused /\ ~Resident
    <3>1. UNCHANGED <<movesBefore, onScreen, result>> /\ pc'[c] = "loading" /\ foreground
      BY <1>7, <2>5 DEF Check, Go, Refused, TypeOK
    <3>2. QED
      BY <2>1, <2>2, <3>1 DEF LeftScreen
  <2>6. QED
    BY <2>3, <2>4, <2>5
<1>8. ASSUME NEW c \in Calls, Loaded(c) PROVE LeftInv'
  <2>1. UNCHANGED <<foreground, backgroundMoves, leftInLoad>> /\ pc[c] = "loading"
    BY <1>8 DEF Loaded, World
  <2>2. \A d \in Calls : d # c => /\ pc'[d] = pc[d] /\ result'[d] = result[d]
                                /\ movesBefore'[d] = movesBefore[d] /\ onScreen'[d] = onScreen[d]
    BY <1>8 DEF Loaded, Ask, Go, TypeOK
  <2>3. /\ movesBefore'[c] = backgroundMoves /\ onScreen'[c] = foreground /\ result' = result
        /\ pc'[c] = "deciding"
    BY <1>8 DEF Loaded, Ask, Go, TypeOK
  <2>4. backgroundMoves <= backgroundMoves
    BY DEF TypeOK
  <2>5. QED
    BY <2>1, <2>2, <2>3, <2>4 DEF LeftScreen
<1>9. ASSUME NEW c \in Calls, LoadFailed(c) PROVE LeftInv'
  <2>1. /\ UNCHANGED <<foreground, backgroundMoves, movesBefore, onScreen, leftInLoad>>
        /\ pc[c] # "settled"
    BY <1>9 DEF LoadFailed, Settle, KeepRelease, World, Native, History
  <2>2. /\ pc'[c] \notin {"loading", "deciding"} /\ (result'[c] # result[c] => pc'[c] = "settled")
        /\ \A d \in Calls : d # c => pc'[d] = pc[d] /\ result'[d] = result[d]
    BY <1>9 DEF LoadFailed, Settle, TypeOK
  <2>3. QED
    BY <2>1, <2>2 DEF LeftScreen
<1>10. ASSUME NEW c \in Calls, Answered(c) PROVE LeftInv'
  <2>1. /\ UNCHANGED <<foreground, backgroundMoves, movesBefore, onScreen, leftInLoad>>
        /\ pc[c] # "settled"
    BY <1>10 DEF Answered, World, History
  <2>2. /\ pc'[c] \in {"releasing", "settled"} /\ (result'[c] # result[c] => pc'[c] = "settled")
        /\ \A d \in Calls : d # c => pc'[d] = pc[d] /\ result'[d] = result[d]
    <3>1. CASE LeftScreen(c)
      BY <1>10, <3>1 DEF Answered, Release, Settle, Go, TypeOK
    <3>2. CASE ~LeftScreen(c)
      BY <1>10, <3>2 DEF Answered, Release, Settle, Go, TypeOK
    <3>3. QED
      BY <3>1, <3>2
  <2>3. QED
    BY <2>1, <2>2 DEF LeftScreen
<1>11. ASSUME NEW c \in Calls, GpuFailed(c) PROVE LeftInv'
  <2>1. /\ UNCHANGED <<foreground, backgroundMoves, movesBefore, onScreen, leftInLoad>>
        /\ pc[c] # "settled"
    BY <1>11 DEF GpuFailed, AfterGpuFailure, Release, Go, KeepRelease, World, Native, History
  <2>2. /\ pc'[c] \notin {"loading", "deciding"} /\ (result'[c] # result[c] => pc'[c] = "settled")
        /\ \A d \in Calls : d # c => pc'[d] = pc[d] /\ result'[d] = result[d]
    BY <1>11 DEF GpuFailed, AfterGpuFailure, Release, Go, TypeOK
  <2>3. QED
    BY <2>1, <2>2 DEF LeftScreen
<1>12. ASSUME NEW c \in Calls, DecideFailed(c) PROVE LeftInv'
  <2>1. /\ UNCHANGED <<foreground, backgroundMoves, movesBefore, onScreen, leftInLoad>>
        /\ pc[c] # "settled"
    BY <1>12 DEF DecideFailed, Settle, KeepRelease, World, Native, History
  <2>2. /\ pc'[c] \notin {"loading", "deciding"} /\ (result'[c] # result[c] => pc'[c] = "settled")
        /\ \A d \in Calls : d # c => pc'[d] = pc[d] /\ result'[d] = result[d]
    BY <1>12 DEF DecideFailed, Settle, TypeOK
  <2>3. QED
    BY <2>1, <2>2 DEF LeftScreen
<1>13. CASE LeaveScreen
  <2>1. UNCHANGED <<pc, movesBefore, result>> /\ backgroundMoves' = backgroundMoves + 1
    BY <1>13 DEF LeaveScreen
  <2>2. \A d \in Calls : /\ leftInLoad[d] => leftInLoad'[d]
                         /\ pc[d] = "loading" => leftInLoad'[d]
    BY <1>13 DEF LeaveScreen
  <2>3. \A d \in Calls : movesBefore[d] < backgroundMoves'
    BY <2>1 DEF TypeOK
  <2>4. QED
    BY <2>1, <2>2, <2>3 DEF LeftScreen, TypeOK
<1>14. CASE Return
  BY <1>14 DEF Return, KeepRelease, World, Native, History, LeftScreen
<1>15. CASE FlipMode
  BY <1>15 DEF FlipMode, KeepRelease, World, Native, History, LeftScreen
<1>16. CASE Download
  BY <1>16 DEF Download, KeepRelease, World, Native, History, LeftScreen
<1>17. CASE UNCHANGED vars
  BY <1>17 DEF vars, LeftScreen
<1>18. QED
  BY <1>1, <1>2, <1>3, <1>4, <1>5, <1>6, <1>7, <1>8, <1>9, <1>10,
     <1>11, <1>12, <1>13, <1>14, <1>15, <1>16, <1>17 DEF Next, Step

\* What keeps the harm of the background where it is: nobody hands out what the
\* GPU did not write, the settled calls stay as they are, and the resident context
\* has not failed unless it had.
LEMMA Harmless ==
  ASSUME LeftInv, BackgroundContained,
         \A d \in Calls : leftInLoad[d] => leftInLoad'[d],
         \A d \in Calls : pc[d] = "settled" => result'[d] = result[d] /\ context'[d] = context[d],
         \A d \in Calls : pc[d] # "settled" => result'[d] # "garbage",
         llamaContext' \in failed' => llamaContext' = llamaContext /\ llamaContext \in failed
  PROVE  BackgroundContained'
<1>1. \A d \in Calls : result[d] = "garbage" => pc[d] = "settled"
  BY DEF LeftInv
<1>2. GarbageOnlyAfterLoad'
  BY <1>1 DEF BackgroundContained, GarbageOnlyAfterLoad
<1>3. PoisonDropped'
  BY <1>1 DEF BackgroundContained, PoisonDropped
<1>4. QED
  BY <1>2, <1>3 DEF BackgroundContained

\* Every step contains what the background does.
LEMMA ContainedStep ==
  TypeOK /\ ContextInv /\ LeftInv /\ BackgroundContained /\ [Next]_vars => BackgroundContained'
<1> SUFFICES ASSUME TypeOK, ContextInv, LeftInv, BackgroundContained, [Next]_vars PROVE BackgroundContained'
  OBVIOUS
<1>1. ASSUME NEW c \in Calls, NEW o \in Ops, Enter(c, o) PROVE BackgroundContained'
  <2>1. \A d \in Calls : leftInLoad[d] => leftInLoad'[d]
    BY <1>1 DEF Enter, KeepRelease, History
  <2>2. /\ \A d \in Calls : pc[d] = "settled" => result'[d] = result[d] /\ context'[d] = context[d]
        /\ \A d \in Calls : pc[d] # "settled" => result'[d] # "garbage"
    BY <1>1 DEF Enter, KeepRelease, TypeOK, LeftInv
  <2>3. llamaContext' \in failed' => llamaContext' = llamaContext /\ llamaContext \in failed
    BY <1>1 DEF Enter, KeepRelease, Native
  <2>4. QED
    BY <2>1, <2>2, <2>3, Harmless
<1>2. ASSUME NEW c \in Calls, StartInfer(c) PROVE BackgroundContained'
  <2>1. \A d \in Calls : leftInLoad[d] => leftInLoad'[d]
    BY <1>2 DEF StartInfer, KeepRelease, History
  <2>2. /\ \A d \in Calls : pc[d] = "settled" => result'[d] = result[d] /\ context'[d] = context[d]
        /\ \A d \in Calls : pc[d] # "settled" => result'[d] # "garbage"
    BY <1>2 DEF StartInfer, Go, Settle, KeepRelease, TypeOK, LeftInv
  <2>3. llamaContext' \in failed' => llamaContext' = llamaContext /\ llamaContext \in failed
    BY <1>2 DEF StartInfer, KeepRelease, Native
  <2>4. QED
    BY <2>1, <2>2, <2>3, Harmless
<1>3. ASSUME NEW c \in Calls, EndInfer(c) PROVE BackgroundContained'
  <2>1. \A d \in Calls : leftInLoad[d] => leftInLoad'[d]
    BY <1>3 DEF EndInfer, KeepRelease, History
  <2>2. /\ \A d \in Calls : pc[d] = "settled" => result'[d] = result[d] /\ context'[d] = context[d]
        /\ \A d \in Calls : pc[d] # "settled" => result'[d] # "garbage"
    BY <1>3 DEF EndInfer, Settle, KeepRelease, TypeOK, LeftInv
  <2>3. llamaContext' \in failed' => llamaContext' = llamaContext /\ llamaContext \in failed
    BY <1>3 DEF EndInfer, KeepRelease, Native
  <2>4. QED
    BY <2>1, <2>2, <2>3, Harmless
<1>4. ASSUME NEW c \in Calls, StartDispose(c) PROVE BackgroundContained'
  <2>1. \A d \in Calls : leftInLoad[d] => leftInLoad'[d]
    BY <1>4 DEF StartDispose, History
  <2>2. /\ \A d \in Calls : pc[d] = "settled" => result'[d] = result[d] /\ context'[d] = context[d]
        /\ \A d \in Calls : pc[d] # "settled" => result'[d] # "garbage"
    BY <1>4 DEF StartDispose, Release, Go, TypeOK, LeftInv
  <2>3. llamaContext' \in failed' => llamaContext' = llamaContext /\ llamaContext \in failed
    BY <1>4, Named DEF StartDispose, Release, Native, TypeOK
  <2>4. QED
    BY <2>1, <2>2, <2>3, Harmless
<1>5. ASSUME NEW c \in Calls, StartDelete(c) PROVE BackgroundContained'
  <2>1. \A d \in Calls : leftInLoad[d] => leftInLoad'[d]
    BY <1>5 DEF StartDelete
  <2>2. failed' = failed /\ failed \subseteq ContextIds /\ pc[c] # "settled"
    BY <1>5 DEF StartDelete, Native, TypeOK
  <2>3. CASE RemoveAtOnce
    <3>1. /\ \A d \in Calls : pc[d] = "settled" => result'[d] = result[d] /\ context'[d] = context[d]
          /\ \A d \in Calls : pc[d] # "settled" => result'[d] # "garbage"
          /\ llamaContext' = llamaContext
      BY <1>5, <2>2, <2>3 DEF StartDelete, Settle, KeepRelease, TypeOK, LeftInv
    <3>2. QED
      BY <2>1, <2>2, <3>1, Harmless
  <2>4. CASE ~RemoveAtOnce
    <3>1. /\ \A d \in Calls : pc[d] = "settled" => result'[d] = result[d] /\ context'[d] = context[d]
          /\ \A d \in Calls : pc[d] # "settled" => result'[d] # "garbage"
          /\ llamaContext' = None
      BY <1>5, <2>2, <2>4 DEF StartDelete, Release, Go, TypeOK, LeftInv
    <3>2. QED
      BY <2>1, <2>2, <3>1, Named, Harmless
  <2>5. QED
    BY <2>3, <2>4
<1>6. ASSUME NEW c \in Calls, Released(c) PROVE BackgroundContained'
  <2>1. \A d \in Calls : leftInLoad[d] => leftInLoad'[d]
    BY <1>6 DEF Released
  <2>2. /\ \A d \in Calls : pc[d] = "settled" => result'[d] = result[d] /\ context'[d] = context[d]
        /\ \A d \in Calls : pc[d] # "settled" => result'[d] # "garbage"
    BY <1>6 DEF Released, Go, Settle, TypeOK, LeftInv
  <2>3. llamaContext' \in failed' => llamaContext' = llamaContext /\ llamaContext \in failed
    BY <1>6 DEF Released, ContextInv
  <2>4. QED
    BY <2>1, <2>2, <2>3, Harmless
<1>7. ASSUME NEW c \in Calls, Check(c) PROVE BackgroundContained'
  <2>1. /\ UNCHANGED <<leftInLoad, llamaContext, failed>> /\ pc[c] # "settled"
    BY <1>7 DEF Check
  <2>2. \A d \in Calls : d # c => context'[d] = context[d] /\ result'[d] = result[d]
    BY <1>7 DEF Check, Settle, Ask, Go, TypeOK
  <2>3. result'[c] # "garbage"
    BY <1>7 DEF Check, Settle, Ask, Go, TypeOK, LeftInv
  <2>4. \A d \in Calls : pc[d] # "settled" => result'[d] # "garbage"
    BY <2>2, <2>3 DEF LeftInv
  <2>5. QED
    BY <2>1, <2>2, <2>4, Harmless
<1>8. ASSUME NEW c \in Calls, Loaded(c) PROVE BackgroundContained'
  <2>1. \A d \in Calls : leftInLoad[d] => leftInLoad'[d]
    BY <1>8 DEF Loaded
  <2>2. /\ \A d \in Calls : pc[d] = "settled" => result'[d] = result[d] /\ context'[d] = context[d]
        /\ \A d \in Calls : pc[d] # "settled" => result'[d] # "garbage"
    BY <1>8 DEF Loaded, Ask, Go, TypeOK, LeftInv
  <2>3. llamaContext' \in failed' => llamaContext' = llamaContext /\ llamaContext \in failed
    BY <1>8 DEF Loaded, Native, ContextInv
  <2>4. QED
    BY <2>1, <2>2, <2>3, Harmless
<1>9. ASSUME NEW c \in Calls, LoadFailed(c) PROVE BackgroundContained'
  <2>1. \A d \in Calls : leftInLoad[d] => leftInLoad'[d]
    BY <1>9 DEF LoadFailed, KeepRelease, History
  <2>2. /\ \A d \in Calls : pc[d] = "settled" => result'[d] = result[d] /\ context'[d] = context[d]
        /\ \A d \in Calls : pc[d] # "settled" => result'[d] # "garbage"
    BY <1>9 DEF LoadFailed, Settle, KeepRelease, TypeOK, LeftInv
  <2>3. llamaContext' \in failed' => llamaContext' = llamaContext /\ llamaContext \in failed
    BY <1>9 DEF LoadFailed, KeepRelease, Native
  <2>4. QED
    BY <2>1, <2>2, <2>3, Harmless
<1>10. ASSUME NEW c \in Calls, Answered(c) PROVE BackgroundContained'
  <2>1. /\ pc[c] = "deciding" /\ context[c] \notin failed /\ leftInLoad' = leftInLoad
    BY <1>10 DEF Answered, History
  <2>2. PICK refused \in BOOLEAN :
          /\ refused => ~onScreen[c]
          /\ failed' = IF refused THEN failed \union {context[c]} ELSE failed
          /\ IF LeftScreen(c) THEN Release(c, "busy")
             ELSE Settle(c, IF refused THEN "garbage" ELSE "answer") /\ KeepRelease
    BY <1>10 DEF Answered
  <2>3. CASE LeftScreen(c)
    <3>1. Release(c, "busy") /\ "busy" \in Nexts
      BY <2>2, <2>3 DEF Nexts
    <3>2. llamaContext' \notin failed'
      BY <2>1, <2>2, <3>1, Asked, Named, Releasing DEF TypeOK
    <3>3. /\ \A d \in Calls : pc[d] = "settled" => result'[d] = result[d] /\ context'[d] = context[d]
          /\ \A d \in Calls : pc[d] # "settled" => result'[d] # "garbage"
      BY <2>1, <3>1, Releasing DEF LeftInv
    <3>4. QED
      BY <2>1, <3>2, <3>3, Harmless
  <2>4. CASE ~LeftScreen(c) /\ ~refused
    <3>1. UNCHANGED <<context, llamaContext, failed>> /\ Settle(c, "answer")
      BY <2>2, <2>4 DEF KeepRelease
    <3>2. /\ \A d \in Calls : pc[d] = "settled" => result'[d] = result[d]
          /\ \A d \in Calls : pc[d] # "settled" => result'[d] # "garbage"
      BY <2>1, <3>1 DEF Settle, TypeOK, LeftInv
    <3>3. QED
      BY <2>1, <3>1, <3>2, Harmless
  <2>5. CASE ~LeftScreen(c) /\ refused
    <3>1. UNCHANGED <<context, llamaContext>> /\ Settle(c, "garbage")
      BY <2>2, <2>5 DEF KeepRelease
    <3>2. result'[c] = "garbage" /\ \A d \in Calls : d # c => result'[d] = result[d]
      BY <3>1 DEF Settle, TypeOK
    <3>3. leftInLoad[c]
      BY <2>1, <2>2, <2>5 DEF LeftInv
    <3>4. context[c] = llamaContext
      BY <2>1, Asked
    <3>5. GarbageOnlyAfterLoad'
      BY <2>1, <3>2, <3>3 DEF BackgroundContained, GarbageOnlyAfterLoad
    <3>6. PoisonDropped'
      BY <3>1, <3>2, <3>4 DEF PoisonDropped
    <3>7. QED
      BY <3>5, <3>6 DEF BackgroundContained
  <2>6. QED
    BY <2>3, <2>4, <2>5
<1>11. ASSUME NEW c \in Calls, GpuFailed(c) PROVE BackgroundContained'
  <2>1. PICK then \in Nexts : Release(c, then)
    BY <1>11 DEF GpuFailed, AfterGpuFailure, Nexts
  <2>2. pc[c] = "deciding" /\ leftInLoad' = leftInLoad /\ failed' = failed \union {context[c]}
    BY <1>11 DEF GpuFailed, History
  <2>3. llamaContext' \notin failed'
    BY <2>1, <2>2, Asked, Named, Releasing DEF TypeOK
  <2>4. /\ \A d \in Calls : pc[d] = "settled" => result'[d] = result[d] /\ context'[d] = context[d]
        /\ \A d \in Calls : pc[d] # "settled" => result'[d] # "garbage"
    BY <2>1, <2>2, Releasing DEF LeftInv
  <2>5. QED
    BY <2>2, <2>3, <2>4, Harmless
<1>12. ASSUME NEW c \in Calls, DecideFailed(c) PROVE BackgroundContained'
  <2>1. \A d \in Calls : leftInLoad[d] => leftInLoad'[d]
    BY <1>12 DEF DecideFailed, KeepRelease, History
  <2>2. /\ \A d \in Calls : pc[d] = "settled" => result'[d] = result[d] /\ context'[d] = context[d]
        /\ \A d \in Calls : pc[d] # "settled" => result'[d] # "garbage"
    BY <1>12 DEF DecideFailed, Settle, KeepRelease, TypeOK, LeftInv
  <2>3. llamaContext' \in failed' => llamaContext' = llamaContext /\ llamaContext \in failed
    BY <1>12 DEF DecideFailed, KeepRelease, Native
  <2>4. QED
    BY <2>1, <2>2, <2>3, Harmless
<1>13. CASE LeaveScreen
  <2>1. UNCHANGED <<llamaContext, failed, pc, result, context>>
    BY <1>13 DEF LeaveScreen, KeepRelease, Native
  <2>2. \A d \in Calls : leftInLoad[d] => leftInLoad'[d]
    BY <1>13 DEF LeaveScreen
  <2>3. QED
    BY <2>1, <2>2 DEF BackgroundContained, GarbageOnlyAfterLoad, PoisonDropped
<1>14. CASE Return
  BY <1>14 DEF Return, KeepRelease, Native, History, BackgroundContained,
               GarbageOnlyAfterLoad, PoisonDropped
<1>15. CASE FlipMode
  BY <1>15 DEF FlipMode, KeepRelease, Native, History, BackgroundContained,
               GarbageOnlyAfterLoad, PoisonDropped
<1>16. CASE Download
  BY <1>16 DEF Download, KeepRelease, Native, History, BackgroundContained,
               GarbageOnlyAfterLoad, PoisonDropped
<1>17. CASE UNCHANGED vars
  BY <1>17 DEF vars, BackgroundContained, GarbageOnlyAfterLoad, PoisonDropped
<1>18. QED
  BY <1>1, <1>2, <1>3, <1>4, <1>5, <1>6, <1>7, <1>8, <1>9, <1>10,
     <1>11, <1>12, <1>13, <1>14, <1>15, <1>16, <1>17 DEF Next, Step

--------------------------------------------------------------------------------
\* The invariant holds at the start and every step keeps it.
LEMMA IInvInductive == BoundsAssumption => (Init => IInv) /\ (IInv /\ [Next]_vars => IInv')
<1> SUFFICES ASSUME BoundsAssumption PROVE (Init => IInv) /\ (IInv /\ [Next]_vars => IInv')
  OBVIOUS
<1>1. Init => IInv
  <2> SUFFICES ASSUME Init PROVE IInv
    OBVIOUS
  <2>1. TypeOK
    <3>1. <<>> \in Seq(Calls) /\ 0 \in 0 .. MaxMoves /\ 0 \in 0 .. MaxFlips /\ 1 \in 1 .. MaxAttempts
      BY DEF BoundsAssumption, MaxAttempts
    <3>2. "infer" \in Ops /\ "idle" \in Places /\ "done" \in Nexts /\ "none" \in Results
      BY DEF Ops, Places, Nexts, Results
    <3>3. QED
      BY <3>1, <3>2 DEF Init, TypeOK, None
  <2>2. LockInv /\ ContextInv /\ FileUnderContext /\ UnloadedInCloud
    BY Named DEF Init, LockInv, Busy, ContextInv, Resident, FileUnderContext, UnloadedInCloud, None
  <2>3. LeftInv
    BY DEF Init, LeftInv, LeftScreen
  <2>4. BackgroundContained
    BY DEF Init, BackgroundContained, GarbageOnlyAfterLoad, PoisonDropped
  <2>5. QED
    BY <2>1, <2>2, <2>3, <2>4 DEF IInv
<1>2. IInv /\ [Next]_vars => IInv'
  <2> SUFFICES ASSUME IInv, [Next]_vars PROVE IInv'
    OBVIOUS
  <2>1. TypeOK' /\ LockInv' /\ ContextInv'
    BY TypeStep, LockStep, ContextStep DEF IInv
  <2>2. FileUnderContext' /\ UnloadedInCloud'
    BY FileStep, UnloadedStep DEF IInv
  <2>3. LeftInv' /\ BackgroundContained'
    BY LeftStep, ContainedStep DEF IInv
  <2>4. QED
    BY <2>1, <2>2, <2>3 DEF IInv
<1>3. QED
  BY <1>1, <1>2

\* The inductive invariant holds in every reachable state.
LEMMA AlwaysIInv == BoundsAssumption => (Spec => []IInv)
<1> SUFFICES ASSUME BoundsAssumption PROVE Spec => []IInv
  OBVIOUS
<1>1. Init => IInv
  BY IInvInductive
<1>2. IInv /\ [Next]_vars => IInv'
  BY IInvInductive
<1>3. QED
  BY <1>1, <1>2, PTL DEF Spec

\* Each variable keeps its type.
THEOREM TypeCorrect == Spec => []TypeOK
<1>1. IInv => TypeOK
  BY DEF IInv
<1>2. QED
  BY <1>1, BoundsAssumption, AlwaysIInv, PTL

\* The one native context: never two alive, none released, replaced or freed under
\* the call that runs on it, none without its file on disk.
THEOREM ContextIsSafe == Spec => []ContextSafe
<1>1. IInv => ContextSafe
  <2> SUFFICES ASSUME IInv PROVE ContextSafe
    OBVIOUS
  <2>1. OneContext
    <3>1. PICK x : contexts \subseteq {x}
      BY DEF IInv, ContextInv
    <3>2. IsFiniteSet({x}) /\ Cardinality({x}) = 1
      BY FS_Singleton
    <3>3. Cardinality(contexts) <= Cardinality({x})
      BY <3>1, <3>2, FS_Subset
    <3>4. QED
      BY <3>2, <3>3 DEF OneContext
  <2>2. NoReleaseMidCall
    BY DEF IInv, ContextInv, NoReleaseMidCall
  <2>3. QED
    BY <2>1, <2>2 DEF ContextSafe, IInv
<1>2. QED
  BY <1>1, BoundsAssumption, AlwaysIInv, PTL

\* Once Kev is unloaded for a reader on Private cloud, nothing puts it back.
THEOREM CloudUnloaded == Spec => []CloudStaysUnloaded
<1>1. IInv => CloudStaysUnloaded
  BY DEF IInv, UnloadedInCloud, CloudStaysUnloaded
<1>2. QED
  BY <1>1, BoundsAssumption, AlwaysIInv, PTL

\* An answer the GPU never wrote comes only from a call that was left while it was
\* loading, and no other leaves a context that has failed.
THEOREM BackgroundHarmless == Spec => []BackgroundContained
<1>1. IInv => BackgroundContained
  BY DEF IInv
<1>2. QED
  BY <1>1, BoundsAssumption, AlwaysIInv, PTL
================================================================================
