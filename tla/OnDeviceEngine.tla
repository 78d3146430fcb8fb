---------------------------- MODULE OnDeviceEngine ----------------------------
(***************************************************************************)
(* lib/mera-protocol-toolkit/core/{llama-lock,modelManager,inference}.ts:  *)
(* the one llama.rn context of the app, which holds Kev, the lock every    *)
(* caller of the toolkit takes once, and the background.                   *)
(*                                                                         *)
(* A call is one promise of the toolkit.  Between two awaits it runs to    *)
(* completion, so a step below is the code from one await to the next; an  *)
(* await of something already settled does not yield to an event of the    *)
(* app.  There is one model, so a context is named by the load that made   *)
(* it.  The GPU is external: work it does for an app in the background may *)
(* leave the output unwritten, and the context then answers -3 for ever.   *)
(***************************************************************************)
EXTENDS Naturals, Sequences, FiniteSets

CONSTANTS
  Calls,    \* calls of the toolkit
  MaxMoves, \* bound: moves of the app to the background
  MaxFlips  \* bound: changes of the processing mode

ASSUME BoundsAssumption == MaxMoves \in Nat /\ MaxFlips \in Nat

VARIABLES
  processingMode,  \* of the protocol store
  flips,           \* changes of it so far
  foreground,      \* AppState.currentState # 'background'
  backgroundMoves, \* moves to the background counted by inference.ts
  onDisk,          \* Kev's file exists
  llamaChain,      \* calls that have taken a place on the lock; the head holds it
  llamaContext,    \* the resident context, or None
  contexts,        \* contexts alive in native code, loading ones included
  failed,          \* those whose GPU backend has failed
  op,              \* what each call is
  pc,              \* where it is
  next,            \* where it goes on once a context is released
  context,         \* the context it loads, uses or releases
  attempt,         \* of decide
  movesBefore,     \* backgroundMoves read before context.decide
  onScreen,        \* history: the app has stayed on screen while the call decides
  leftInLoad,      \* history: the app left the screen while the call loaded Kev
  result,          \* what the call settled with
  unloaded         \* history: a dispose has settled since Cloud was chosen

vars == <<processingMode, flips, foreground, backgroundMoves, onDisk, llamaChain,
          llamaContext, contexts, failed, op, pc, next, context, attempt,
          movesBefore, onScreen, leftInLoad, result, unloaded>>

Modes   == {"OnDevice", "Cloud"}
Ops     == {"decide", "infer", "dispose", "delete"}
Results == {"none", "answer", "garbage", "busy", "error"}
Places  == {"idle", "waiting", "check", "loading", "deciding", "inferring",
            "releasing", "settled"}
Nexts   == {"retry", "busy", "done", "remove"}
MaxAttempts == 2
ContextIds  == Calls \X (1 .. MaxAttempts)
None        == <<>>

Init ==
  /\ processingMode \in Modes /\ flips = 0
  /\ foreground = TRUE /\ backgroundMoves = 0 /\ onDisk \in BOOLEAN
  /\ llamaChain = <<>> /\ llamaContext = None /\ contexts = {} /\ failed = {}
  /\ op = [c \in Calls |-> "infer"] /\ pc = [c \in Calls |-> "idle"]
  /\ next = [c \in Calls |-> "done"] /\ context = [c \in Calls |-> None]
  /\ attempt = [c \in Calls |-> 1]
  /\ movesBefore = [c \in Calls |-> 0]
  /\ onScreen = [c \in Calls |-> FALSE] /\ leftInLoad = [c \in Calls |-> FALSE]
  /\ result = [c \in Calls |-> "none"] /\ unloaded = FALSE
--------------------------------------------------------------------------------
World   == <<processingMode, flips, foreground, backgroundMoves>>
Native  == <<contexts, failed>>
History == <<onScreen, leftInLoad, unloaded>>

\* withLlamaLock runs fn once every earlier caller has settled; acquireLlamaLock
\* resolves then, and its caller releases in a finally.
Holds(c) == llamaChain # <<>> /\ Head(llamaChain) = c

\* Mutant: a call that fails keeps its place.
SettleWedged(c, r) ==
  /\ pc' = [pc EXCEPT ![c] = "settled"] /\ result' = [result EXCEPT ![c] = r]
  /\ llamaChain' = IF r = "error" THEN llamaChain
                   ELSE Tail(llamaChain)

\* The holder's call settles, resolved or rejected, and the next one may run.
Settle(c, r) ==
  /\ pc' = [pc EXCEPT ![c] = "settled"] /\ result' = [result EXCEPT ![c] = r]
  /\ llamaChain' = Tail(llamaChain)

Go(c, place) ==
  pc' = [pc EXCEPT ![c] = place] /\ UNCHANGED <<llamaChain, result>>

\* Mutant: the native release is not awaited before the request is asked again.
ReleaseUnawaited(c, then) ==
  /\ context' = [context EXCEPT ![c] = llamaContext] /\ llamaContext' = None
  /\ next' = [next EXCEPT ![c] = then]
  /\ IF then = "retry"
     THEN attempt' = [attempt EXCEPT ![c] = 2] /\ Go(c, "check")
     ELSE UNCHANGED attempt /\ Go(c, "releasing")

\* _releaseModel, up to its await.
Release(c, then) ==
  /\ context' = [context EXCEPT ![c] = llamaContext] /\ llamaContext' = None
  /\ next' = [next EXCEPT ![c] = then]
  /\ UNCHANGED attempt /\ Go(c, "releasing")

KeepRelease == UNCHANGED <<llamaContext, context, next, attempt>>

\* A dispose or a delete that settles while the reader is on Private cloud.
Unload == unloaded' = (unloaded \/ processingMode = "Cloud")
--------------------------------------------------------------------------------
\* A caller takes its place.  The text jobs, the streams and initBaseModel are
\* "infer": they hold the lock and load nothing.  disposeModel and resetContext
\* are "dispose".  A file is deleted by a caller that has left On this phone.
Enter(c, o) ==
  /\ pc[c] = "idle"
  /\ o = "delete" => processingMode = "Cloud"
  /\ op' = [op EXCEPT ![c] = o]
  /\ pc' = [pc EXCEPT ![c] = "waiting"]
  /\ llamaChain' = Append(llamaChain, c)
  /\ KeepRelease /\ UNCHANGED <<World, onDisk, Native, movesBefore, result, History>>

\* Mutant: a load is refused to nobody.
OnDeviceModeAny == TRUE

\* _assertOnDeviceMode
OnDeviceMode == processingMode = "OnDevice"

\* infer, inferStructured, inferStream: under the lock, on the built-in model.
StartInfer(c) ==
  /\ pc[c] = "waiting" /\ op[c] = "infer" /\ Holds(c)
  /\ IF OnDeviceMode THEN Go(c, "inferring") ELSE Settle(c, "error")
  /\ KeepRelease /\ UNCHANGED <<World, onDisk, Native, op, movesBefore, History>>

\* The built-in model ends, fails, or its consumer leaves: the finally releases.
EndInfer(c) ==
  /\ pc[c] = "inferring"
  /\ \E r \in {"answer", "error"} : Settle(c, r)
  /\ KeepRelease /\ UNCHANGED <<World, onDisk, Native, op, movesBefore, History>>

\* Mutant: a reset after a native crash does not wait for the lock.
StartDisposeUnlocked(c) ==
  /\ pc[c] = "waiting" /\ op[c] = "dispose"
  /\ Release(c, "done")
  /\ UNCHANGED <<World, onDisk, Native, op, movesBefore, History>>

\* disposeModel, resetContext
StartDispose(c) ==
  /\ pc[c] = "waiting" /\ op[c] = "dispose" /\ Holds(c)
  /\ Release(c, "done")
  /\ UNCHANGED <<World, onDisk, Native, op, movesBefore, History>>

\* Mutant: the file goes whatever is resident.
RemoveAtOnceBlind == TRUE

\* deleteDownloadedModel releases the resident context first.
RemoveAtOnce == llamaContext = None

StartDelete(c) ==
  /\ pc[c] = "waiting" /\ op[c] = "delete" /\ Holds(c)
  /\ IF RemoveAtOnce
     THEN Settle(c, "none") /\ onDisk' = FALSE /\ Unload /\ KeepRelease
     ELSE Release(c, "remove") /\ UNCHANGED <<onDisk, unloaded>>
  /\ UNCHANGED <<World, Native, op, movesBefore, onScreen, leftInLoad>>

\* A native release settles, and the call goes on after it.
Released(c) ==
  /\ pc[c] = "releasing"
  /\ contexts' = contexts \ {context[c]} /\ failed' = failed \ {context[c]}
  /\ \/ /\ next[c] = "retry" /\ Go(c, "check")
        /\ attempt' = [attempt EXCEPT ![c] = 2] /\ UNCHANGED <<onDisk, unloaded>>
     \/ /\ next[c] = "busy" /\ Settle(c, "busy")
        /\ UNCHANGED <<attempt, onDisk, unloaded>>
     \/ /\ next[c] = "done" /\ Settle(c, "none") /\ Unload
        /\ UNCHANGED <<attempt, onDisk>>
     \/ /\ next[c] = "remove" /\ Settle(c, "none") /\ Unload /\ onDisk' = FALSE
        /\ UNCHANGED attempt
  /\ UNCHANGED <<World, llamaContext, op, next, context, movesBefore,
                 onScreen, leftInLoad>>
--------------------------------------------------------------------------------
\* context.decide is called: in the same turn of the event loop as the check that
\* let it through if Kev is resident, and only after the load if it is not.
Ask(c, ctx) ==
  /\ context' = [context EXCEPT ![c] = ctx]
  /\ movesBefore' = [movesBefore EXCEPT ![c] = backgroundMoves]
  /\ onScreen' = [onScreen EXCEPT ![c] = foreground]
  /\ Go(c, "deciding")

Resident == llamaContext # None

\* Busy in the background; an error off On this phone, or with no file to load.
Refused == ~foreground \/ ~OnDeviceMode \/ (~Resident /\ ~onDisk)

\* decide, from the top of its loop to its first await.
Check(c) ==
  /\ \/ pc[c] = "waiting" /\ op[c] = "decide" /\ Holds(c)
     \/ pc[c] = "check"
  /\ \/ Refused /\ Settle(c, IF foreground THEN "error" ELSE "busy")
        /\ UNCHANGED <<context, movesBefore, onScreen, contexts>>
     \/ ~Refused /\ Resident /\ Ask(c, llamaContext) /\ UNCHANGED contexts
     \/ /\ ~Refused /\ ~Resident
        /\ contexts' = contexts \union {<<c, attempt[c]>>}
        /\ context' = [context EXCEPT ![c] = <<c, attempt[c]>>]
        /\ Go(c, "loading") /\ UNCHANGED <<movesBefore, onScreen>>
  /\ UNCHANGED <<World, onDisk, llamaContext, failed, op, next, attempt,
                 leftInLoad, unloaded>>

\* initLlama resolves with a Kev: it is resident, and asked.
Loaded(c) ==
  /\ pc[c] = "loading"
  /\ llamaContext' = context[c]
  /\ Ask(c, context[c])
  /\ UNCHANGED <<World, onDisk, Native, op, next, attempt, leftInLoad, unloaded>>

\* initLlama rejects, or what it loaded is not a Kev and is released.
LoadFailed(c) ==
  /\ pc[c] = "loading"
  /\ contexts' = contexts \ {context[c]}
  /\ Settle(c, "error")
  /\ KeepRelease /\ UNCHANGED <<World, onDisk, failed, op, movesBefore, History>>

\* Mutant: nobody looks whether the app left the screen.
LeftScreenNever(c) == FALSE

LeftScreen(c) == backgroundMoves # movesBefore[c]

\* context.decide resolves.  Its output is to be trusted if the app was on screen
\* all along; if not, the GPU may have been refused, and the context has failed.
Answered(c) ==
  /\ pc[c] = "deciding" /\ context[c] \notin failed
  /\ \E refused \in IF onScreen[c] THEN {FALSE} ELSE BOOLEAN :
       /\ failed' = IF refused THEN failed \union {context[c]} ELSE failed
       /\ IF LeftScreen(c) THEN Release(c, "busy")
          ELSE Settle(c, IF refused THEN "garbage" ELSE "answer") /\ KeepRelease
  /\ UNCHANGED <<World, onDisk, contexts, op, movesBefore, History>>

\* Mutant: the context that failed is asked again.
AfterGpuFailureKept(c) ==
  IF attempt[c] > 1 THEN Settle(c, "busy") /\ KeepRelease
  ELSE /\ attempt' = [attempt EXCEPT ![c] = 2] /\ Go(c, "check")
       /\ UNCHANGED <<llamaContext, context, next>>

AfterGpuFailure(c) == Release(c, IF attempt[c] > 1 THEN "busy" ELSE "retry")

\* It rejects with -3, of its own or because the context has failed before.
GpuFailed(c) ==
  /\ pc[c] = "deciding"
  /\ failed' = failed \union {context[c]}
  /\ AfterGpuFailure(c)
  /\ UNCHANGED <<World, onDisk, contexts, op, movesBefore, History>>

\* It rejects with anything else: to the caller as it is.
DecideFailed(c) ==
  /\ pc[c] = "deciding" /\ context[c] \notin failed
  /\ Settle(c, "error")
  /\ KeepRelease /\ UNCHANGED <<World, onDisk, Native, op, movesBefore, History>>
--------------------------------------------------------------------------------
LeaveScreen ==
  /\ foreground /\ backgroundMoves < MaxMoves
  /\ foreground' = FALSE /\ backgroundMoves' = backgroundMoves + 1
  /\ onScreen' = [c \in Calls |-> FALSE]
  /\ leftInLoad' = [c \in Calls |-> leftInLoad[c] \/ pc[c] = "loading"]
  /\ KeepRelease
  /\ UNCHANGED <<processingMode, flips, onDisk, llamaChain, Native, op, pc,
                 movesBefore, result, unloaded>>

Return ==
  /\ ~foreground /\ foreground' = TRUE
  /\ KeepRelease
  /\ UNCHANGED <<processingMode, flips, backgroundMoves, onDisk, llamaChain, Native,
                 op, pc, movesBefore, result, History>>

\* setProcessingMode, by the reader, a landing or a fallback.
FlipMode ==
  /\ flips < MaxFlips /\ flips' = flips + 1
  /\ processingMode' \in Modes \ {processingMode}
  /\ unloaded' = FALSE
  /\ KeepRelease
  /\ UNCHANGED <<foreground, backgroundMoves, onDisk, llamaChain, Native, op, pc,
                 movesBefore, result, onScreen, leftInLoad>>

\* A download lands: of a model that is missing.
Download ==
  /\ ~onDisk /\ onDisk' = TRUE
  /\ KeepRelease
  /\ UNCHANGED <<World, llamaChain, Native, op, pc, movesBefore, result, History>>

Step(c) ==
  \/ StartInfer(c) \/ EndInfer(c) \/ StartDispose(c) \/ StartDelete(c)
  \/ Released(c) \/ Check(c) \/ Loaded(c) \/ LoadFailed(c)
  \/ Answered(c) \/ GpuFailed(c) \/ DecideFailed(c)

Next ==
  \/ \E c \in Calls : Step(c) \/ \E o \in Ops : Enter(c, o)
  \/ LeaveScreen \/ Return \/ FlipMode \/ Download

Spec == Init /\ [][Next]_vars

\* Native calls settle, and a stream's consumer leaves it in the end.
FairSpec == Spec /\ \A c \in Calls : WF_vars(Step(c))
--------------------------------------------------------------------------------
TypeOK ==
  /\ processingMode \in Modes /\ flips \in 0 .. MaxFlips
  /\ foreground \in BOOLEAN /\ backgroundMoves \in 0 .. MaxMoves
  /\ onDisk \in BOOLEAN /\ llamaChain \in Seq(Calls)
  /\ llamaContext \in ContextIds \union {None}
  /\ contexts \subseteq ContextIds /\ failed \subseteq ContextIds
  /\ op \in [Calls -> Ops] /\ pc \in [Calls -> Places] /\ next \in [Calls -> Nexts]
  /\ context \in [Calls -> ContextIds \union {None}]
  /\ attempt \in [Calls -> 1 .. MaxAttempts]
  /\ movesBefore \in [Calls -> 0 .. MaxMoves]
  /\ onScreen \in [Calls -> BOOLEAN] /\ leftInLoad \in [Calls -> BOOLEAN]
  /\ result \in [Calls -> Results] /\ unloaded \in BOOLEAN

\* modelManager.ts, "Never two contexts at once": of some 3 GB each.
OneContext == Cardinality(contexts) <= 1

\* llama-lock.ts: a context is never released, replaced or freed under a call
\* that is running on it.
NoReleaseMidCall == \A c \in Calls :
  pc[c] = "deciding" => llamaContext = context[c] /\ context[c] \in contexts

\* deleteDownloadedModel: the weights are mapped, so the file stays for as long as
\* a context lives or is being loaded, whatever else is queued on the lock.
FileUnderContext == contexts # {} => onDisk

\* The native context is safe: never two, none freed in use, none without its file.
ContextSafe == OneContext /\ NoReleaseMidCall /\ FileUnderContext

\* Once a dispose or a delete has settled for a reader on Private cloud, no request
\* that was queued before or comes after puts Kev back into memory.
CloudStaysUnloaded == unloaded => contexts = {}

\* What decide does ensure: an answer the GPU never wrote is handed out only by a
\* call the app left the screen under while it was loading Kev.
GarbageOnlyAfterLoad == \A c \in Calls : result[c] = "garbage" => leftInLoad[c]

\* A context whose GPU has failed is never left for the next caller, but for one
\* that has just handed out such an answer.
PoisonDropped == llamaContext \in failed =>
  \E c \in Calls : result[c] = "garbage" /\ context[c] = llamaContext

\* What the background does to the GPU stays with the calls it was done to.
BackgroundContained == GarbageOnlyAfterLoad /\ PoisonDropped

\* One failed call must not wedge every later one: each call gets the lock, and
\* settles, however the others end.
EveryCallSettles == \A c \in Calls : pc[c] = "waiting" ~> pc[c] = "settled"

\* inference.ts of decide: "An answer from a call the app left the screen under is
\* dropped."
AnswersTrusted == \A c \in Calls : result[c] # "garbage"
================================================================================
