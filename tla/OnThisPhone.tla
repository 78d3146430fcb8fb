------------------------------ MODULE OnThisPhone ------------------------------
(***************************************************************************)
(* Whether the phone runs On this phone or in Private cloud: the mode the   *)
(* reader picks (components/custom/config-mera/useMeraProtocolSettings.tsx) *)
(* and the model download that may switch it                               *)
(* (lib/mera-protocol-toolkit/core/downloadService.ts).                    *)
(*                                                                         *)
(* The mode is kept three times: by the server, in the cached persona and   *)
(* in the store of this phone, which may say Private cloud on its own while *)
(* the phone cannot run.  Five pieces of code write the server's; a write   *)
(* may arrive late or never and its answer may be lost.  The settings       *)
(* screen is open with its load done, and the catalogue has one model.      *)
(***************************************************************************)
EXTENDS Naturals

CONSTANTS
  Abilities,    \* what may happen: a subset of AllAbilities
  MaxPicks,     \* bound: modes the reader picks, and deletes
  MaxDownloads, \* bound: downloads asked for
  MaxNative     \* bound: changes of the built-in model's availability

AllAbilities == {"download", "restore", "delete", "refresh"}

VARIABLES
  serverMode,      \* the server persona's processingMode
  cachedMode,      \* the cached persona's
  localMode,       \* the store's: what the phone runs
  writes,          \* each writer's updateProcessingMode
  intent,          \* onDeviceIntent, and intentRef after it
  serverOnDevice,  \* serverOnDeviceRef
  shown,           \* status.runnable as last read, and lastDownloadKey
  refreshing,      \* what a refresh has read and not yet applied
  pick,            \* the pick being written, and hadIntent
  deleting,        \* a delete of the model: where it is
  nativeAvailable, \* the built-in model can run
  onDisk,          \* Kev is on disk
  restoring,       \* restoreOnDeviceIfRunnable: what it has read of the server
  promoteWhenDone, \* of the download service
  runner,          \* its queue runner: where it is
  entry,           \* the model's download
  held,            \* the 'model-download' restart hold
  detached,        \* runners a cancel has detached
  used,            \* picks, downloads and changes of availability so far
  choice,          \* history: the mode the reader chose last
  quiet            \* history: nothing that could promote it met that choice in flight

mode   == <<serverMode, cachedMode, localMode>>
screen == <<intent, serverOnDevice, shown, refreshing, pick, deleting>>
queue  == <<runner, entry, held, detached>>
phone  == <<nativeAvailable, onDisk>>
reader == <<choice, quiet>>
vars   == <<mode, writes, screen, queue, phone, reader, restoring, promoteWhenDone, used>>

Modes    == {"OnDevice", "Cloud"}
Writers  == {"pick", "refresh", "save", "landing", "delete"}
Runners  == {"none", "starting", "downloading", "landed", "promoting", "saving", "telling"}
Entries  == {"idle", "queued", "downloading", "failed"}
NoPick   == [mode |-> "none", had |-> FALSE]
Runnable == onDisk /\ nativeAvailable   \* isModelDownloaded()
Running  == runner # "none"

TypeOK ==
  /\ {serverMode, cachedMode, localMode} \subseteq Modes
  /\ writes \in [Writers -> {"none", "sent", "done"}]
  /\ {intent, serverOnDevice, nativeAvailable, onDisk, promoteWhenDone, held, quiet}
       \subseteq BOOLEAN
  /\ shown \in [runnable : BOOLEAN, entry : Entries] /\ entry \in Entries
  /\ refreshing \in {"none", "runnable", "not"}
  /\ pick \in {NoPick} \union [mode : Modes, had : BOOLEAN]
  /\ deleting \in {"none", "writing", "removing"}
  /\ restoring \in {"none", "asked"} \union Modes
  /\ runner \in Runners /\ detached \in 0 .. MaxDownloads
  /\ used \in [pick : 0 .. MaxPicks, download : 0 .. MaxDownloads, native : 0 .. MaxNative]
  /\ choice \in Modes \union {"unknown"}

\* After boot: the phone follows the server where it can run.
Init ==
  /\ serverMode \in Modes /\ cachedMode = serverMode
  /\ writes = [x \in Writers |-> "none"]
  /\ nativeAvailable \in BOOLEAN /\ onDisk \in BOOLEAN
  /\ localMode = IF Runnable THEN serverMode ELSE "Cloud"
  /\ intent = (serverMode = "OnDevice") /\ serverOnDevice = intent
  /\ shown = [runnable |-> Runnable, entry |-> "idle"] /\ refreshing = "none"
  /\ pick = NoPick /\ deleting = "none" /\ restoring = "none"
  /\ promoteWhenDone = FALSE /\ runner = "none" /\ entry = "idle"
  /\ held = FALSE /\ detached = 0
  /\ used = [pick |-> 0, download |-> 0, native |-> 0]
  /\ choice = "unknown" /\ quiet = TRUE
--------------------------------------------------------------------------------
(* The writes *)

Send(xs) == writes' = [x \in Writers |-> IF x \in xs THEN "sent" ELSE writes[x]]

\* The server takes a write.
Arrive(x) ==
  /\ writes[x] = "sent" /\ writes' = [writes EXCEPT ![x] = "done"]
  /\ serverMode' = CASE x = "pick" -> pick.mode [] x = "delete" -> "Cloud" [] OTHER -> "OnDevice"
  /\ UNCHANGED <<cachedMode, localMode, screen, queue, phone, reader, restoring,
                 promoteWhenDone, used>>

\* x's call settles: it fails when the write never arrives or its answer is lost.
Settle(x, ok) ==
  /\ writes[x] # "none" /\ (ok => writes[x] = "done")
  /\ writes' = [writes EXCEPT ![x] = "none"]

\* The save to send, when the download has just begun to promote.
\* One save is in flight at a time.
SaveIf(begun) == IF begun /\ writes["save"] = "none" THEN {"save"} ELSE {}

\* The end of promoteToOnDevice.
Promote(ok) ==
  IF ok THEN cachedMode' = "OnDevice" /\ localMode' = "OnDevice"
  ELSE UNCHANGED <<cachedMode, localMode>>

\* Mutant: the save does not look whether it is still wanted.
SaveIntentAnyway(ok) ==
  cachedMode' = (IF ok THEN "OnDevice" ELSE cachedMode) /\ UNCHANGED localMode

\* The end of writeOnDeviceIntent(() => promoteWhenDone).
SaveIntent(ok) ==
  /\ cachedMode' = IF ok /\ promoteWhenDone THEN "OnDevice" ELSE cachedMode
  /\ UNCHANGED localMode

SaveAnswered(ok) ==
  /\ Settle("save", ok) /\ SaveIntent(ok)
  /\ UNCHANGED <<serverMode, screen, queue, phone, reader, restoring, promoteWhenDone, used>>
--------------------------------------------------------------------------------
(* The reader's pick *)

\* What may still promote the phone when the reader chooses; a delete also leaves
\* promoteWhenDone to a landing until its write is answered.
Promoting ==
  \/ writes["refresh"] # "none" \/ runner = "promoting" \/ restoring # "none"
  \/ pick.mode = "OnDevice"

Choose(m, alone) == choice' = m /\ quiet' = (alone /\ ~Promoting)

\* serverOnDevice, as selectMode works it out before it changes anything.
ServerMayHold ==
  serverOnDevice \/ (Running /\ promoteWhenDone) \/ cachedMode = "OnDevice"

\* The early returns of selectMode: the phone cannot run yet, the server is taken
\* to hold Cloud, or nothing changes.
NothingToWrite(m) ==
  \/ m = "OnDevice" /\ ~shown.runnable
  \/ m = "Cloud" /\ localMode = "Cloud" /\ ~ServerMayHold
  \/ m = localMode /\ (m = "OnDevice") = intent

\* The tabs, which tell a change; and Turn on, which a delete does not disable.
Offered(m) ==
  \/ deleting = "none" /\ (m = "OnDevice") # intent
  \/ m = "OnDevice" /\ intent /\ shown.runnable

Pick(m) ==
  /\ pick = NoPick /\ Offered(m) /\ used.pick < MaxPicks
  /\ used' = [used EXCEPT !.pick = @ + 1]
  /\ intent' = (m = "OnDevice") /\ promoteWhenDone' = (m = "OnDevice")
  /\ Choose(m, TRUE)
  /\ Send((IF NothingToWrite(m) THEN {} ELSE {"pick"})
            \union SaveIf(m = "OnDevice" /\ ~promoteWhenDone /\ Running))
  /\ pick' = IF NothingToWrite(m) THEN NoPick ELSE [mode |-> m, had |-> intent]
  /\ UNCHANGED <<mode, serverOnDevice, shown, refreshing, deleting, queue, phone, restoring>>

PickAnswered(ok) ==
  /\ Settle("pick", ok) /\ pick' = NoPick
  /\ IF ok
     THEN /\ serverOnDevice' = (pick.mode = "OnDevice")
          /\ localMode' = pick.mode /\ cachedMode' = pick.mode
          /\ UNCHANGED <<intent, choice>>
     ELSE /\ intent' = pick.had /\ choice' = "unknown"
          /\ UNCHANGED <<serverOnDevice, localMode, cachedMode>>
  /\ UNCHANGED <<serverMode, shown, refreshing, deleting, queue, phone, quiet, restoring,
                 promoteWhenDone, used>>
--------------------------------------------------------------------------------
(* The phone follows what can run *)

\* refresh, on focus and on return: what is on disk and can run.
RefreshRead ==
  /\ "refresh" \in Abilities /\ refreshing = "none"
  /\ shown' = [shown EXCEPT !.runnable = Runnable]
  /\ refreshing' = IF Runnable THEN "runnable" ELSE "not"
  /\ UNCHANGED <<mode, writes, intent, serverOnDevice, pick, deleting, queue, phone,
                 reader, restoring, promoteWhenDone, used>>

\* readStatus after a download has changed.
StatusRead ==
  /\ shown.entry # entry /\ shown' = [runnable |-> Runnable, entry |-> entry]
  /\ UNCHANGED <<mode, writes, intent, serverOnDevice, refreshing, pick, deleting, queue,
                 phone, reader, restoring, promoteWhenDone, used>>

\* Mutant: the phone is not promoted when the server says On this phone already.
ApplyIntentNoHeal ==
  /\ refreshing # "none" /\ refreshing' = "none"
  /\ LET follows  == intent /\ deleting = "none"
         promotes == follows /\ refreshing = "runnable" /\ localMode = "Cloud" /\ ~serverOnDevice
     IN  /\ promotes => writes["refresh"] = "none"
         /\ Send(IF promotes THEN {"refresh"} ELSE {})
         /\ localMode' = IF follows /\ refreshing = "not" THEN "Cloud" ELSE localMode
  /\ UNCHANGED <<serverMode, cachedMode, intent, serverOnDevice, shown, pick, deleting,
                 queue, phone, reader, restoring, promoteWhenDone, used>>

\* applyIntent, on what was read.  One promotion is in flight at a time.
ApplyIntent ==
  /\ refreshing # "none" /\ refreshing' = "none"
  /\ LET follows  == intent /\ deleting = "none"
         promotes == follows /\ refreshing = "runnable" /\ localMode = "Cloud"
     IN  /\ promotes => writes["refresh"] = "none"
         /\ Send(IF promotes THEN {"refresh"} ELSE {})
         /\ localMode' = IF follows /\ refreshing = "not" THEN "Cloud" ELSE localMode
  /\ UNCHANGED <<serverMode, cachedMode, intent, serverOnDevice, shown, pick, deleting,
                 queue, phone, reader, restoring, promoteWhenDone, used>>

PromotionAnswered(ok) ==
  /\ Settle("refresh", ok) /\ Promote(ok)
  /\ UNCHANGED <<serverMode, screen, queue, phone, reader, restoring, promoteWhenDone, used>>

\* restoreOnDeviceIfRunnable, on return to the foreground.
RestoreAsk ==
  /\ "restore" \in Abilities /\ restoring = "none"
  /\ cachedMode = "OnDevice" /\ localMode = "Cloud" /\ Runnable
  /\ restoring' = "asked"
  /\ quiet' = (quiet /\ pick = NoPick /\ deleting # "writing")
  /\ UNCHANGED <<mode, writes, screen, queue, phone, choice, promoteWhenDone, used>>

\* The server answers getUserPersona.
RestoreRead ==
  /\ restoring = "asked" /\ restoring' = serverMode
  /\ UNCHANGED <<mode, writes, screen, queue, phone, reader, promoteWhenDone, used>>

RestoreDone ==
  /\ restoring \in Modes /\ restoring' = "none"
  /\ cachedMode' = restoring
  /\ localMode' = IF restoring = "OnDevice" /\ localMode = "Cloud" THEN "OnDevice" ELSE localMode
  /\ UNCHANGED <<serverMode, writes, screen, queue, phone, reader, promoteWhenDone, used>>

RestoreFailed ==
  /\ restoring # "none" /\ restoring' = "none"
  /\ UNCHANGED <<mode, writes, screen, queue, phone, reader, promoteWhenDone, used>>
--------------------------------------------------------------------------------
(* The download *)

\* handleDownload's startModelDownloads, with the model's row offering it.
StartDownload ==
  /\ "download" \in Abilities /\ used.download < MaxDownloads /\ deleting = "none"
  /\ entry \in {"idle", "failed"} /\ (onDisk => shown.entry # entry)
  /\ used' = [used EXCEPT !.download = @ + 1]
  /\ promoteWhenDone' = intent /\ entry' = "queued"
  /\ runner' = IF Running THEN runner ELSE "starting"
  /\ held' = TRUE
  /\ Send(SaveIf(intent /\ ~(Running /\ promoteWhenDone)))
  /\ UNCHANGED <<mode, screen, phone, reader, restoring, detached>>

\* Mutant: a queue whose model could not run yet is dropped, its row left as it is.
LoopRunnableOnly ==
  /\ runner \in {"starting", "telling"}
  /\ IF entry = "queued" /\ nativeAvailable
     THEN runner' = "downloading" /\ entry' = "downloading" /\ UNCHANGED held
     ELSE runner' = "none" /\ held' = FALSE /\ UNCHANGED entry
  /\ UNCHANGED <<mode, writes, screen, detached, phone, reader, restoring, promoteWhenDone, used>>

\* The head of the runner's loop, then its finally when nothing is queued.
Loop ==
  /\ runner \in {"starting", "telling"}
  /\ IF entry = "queued"
     THEN runner' = "downloading" /\ entry' = "downloading" /\ UNCHANGED held
     ELSE runner' = "none" /\ held' = FALSE /\ UNCHANGED entry
  /\ UNCHANGED <<mode, writes, screen, detached, phone, reader, restoring, promoteWhenDone, used>>

DownloadEnds(landed) ==
  /\ runner = "downloading"
  /\ onDisk' = (onDisk \/ landed)
  /\ entry' = IF landed THEN "idle" ELSE "failed"
  /\ runner' = IF landed THEN "landed" ELSE "telling"
  /\ UNCHANGED <<mode, writes, screen, held, detached, nativeAvailable, reader, restoring,
                 promoteWhenDone, used>>

\* afterModelLanded as far as its write.
AfterModelLanded ==
  /\ runner = "landed"
  /\ runner' = IF promoteWhenDone /\ Runnable /\ localMode # "OnDevice" THEN "promoting"
               ELSE IF promoteWhenDone /\ ~Runnable /\ entry # "queued" THEN "saving"
               ELSE "telling"
  /\ Send(IF runner' = "telling" THEN {} ELSE {"landing"})
  /\ UNCHANGED <<mode, screen, entry, held, detached, phone, reader, restoring,
                 promoteWhenDone, used>>

LandingAnswered(ok) ==
  /\ Settle("landing", ok) /\ runner' = "telling"
  /\ IF runner = "promoting" THEN Promote(ok) ELSE SaveIntent(ok)
  /\ UNCHANGED <<serverMode, screen, entry, held, detached, phone, reader, restoring,
                 promoteWhenDone, used>>

\* Mutant: the runner on the cancelled model is not detached.
CancelAttached ==
  /\ entry # "idle" /\ entry' = "idle"
  /\ UNCHANGED <<mode, writes, screen, runner, held, detached, phone, reader, restoring,
                 promoteWhenDone, used>>

\* cancelModelDownload of the model's row: the runner on it is detached and its
\* hold released; a place in the queue, or a failure, is only dropped.
Cancel ==
  /\ entry # "idle" /\ entry' = "idle"
  /\ IF runner = "downloading"
     THEN runner' = "none" /\ held' = FALSE /\ detached' = detached + 1
     ELSE UNCHANGED <<runner, held, detached>>
  /\ UNCHANGED <<mode, writes, screen, phone, reader, restoring, promoteWhenDone, used>>

\* Mutant: a runner's finally does not ask whether it is current.
DetachedEndsAnyway ==
  /\ detached > 0 /\ detached' = detached - 1 /\ held' = FALSE
  /\ UNCHANGED <<mode, writes, screen, runner, entry, phone, reader, restoring,
                 promoteWhenDone, used>>

\* A detached runner's download rejects; isCurrent() keeps it from everything.
DetachedEnds ==
  /\ detached > 0 /\ detached' = detached - 1
  /\ UNCHANGED <<mode, writes, screen, runner, entry, held, phone, reader, restoring,
                 promoteWhenDone, used>>
--------------------------------------------------------------------------------
(* The delete *)

\* handleDeleteModel, confirmed.  fallBackToCloud writes only when there is
\* something to fall back from.
StartDelete ==
  /\ "delete" \in Abilities /\ deleting = "none" /\ onDisk /\ used.pick < MaxPicks
  /\ used' = [used EXCEPT !.pick = @ + 1]
  /\ IF localMode = "OnDevice" \/ intent
     THEN /\ deleting' = "writing" /\ Send({"delete"}) /\ Choose("Cloud", ~Running)
          /\ UNCHANGED <<intent, promoteWhenDone>>
     ELSE /\ deleting' = "removing"
          /\ intent' = FALSE /\ promoteWhenDone' = FALSE
          /\ UNCHANGED <<writes, reader>>
  /\ UNCHANGED <<mode, serverOnDevice, shown, refreshing, pick, queue, phone, restoring>>

\* fallBackToCloud ends, whatever its write did, and the intent is cleared.
FellBack(ok) ==
  /\ Settle("delete", ok) /\ deleting' = "removing"
  /\ localMode' = "Cloud" /\ intent' = FALSE /\ promoteWhenDone' = FALSE
  /\ IF ok THEN serverOnDevice' = FALSE /\ cachedMode' = "Cloud" /\ UNCHANGED choice
     ELSE choice' = "unknown" /\ UNCHANGED <<serverOnDevice, cachedMode>>
  /\ UNCHANGED <<serverMode, shown, refreshing, pick, queue, phone, quiet, restoring, used>>

\* The file goes, or the delete fails; the refresh that follows reads the phone.
Removed(gone) ==
  /\ deleting = "removing" /\ refreshing = "none"
  /\ deleting' = "none" /\ onDisk' = (onDisk /\ ~gone)
  /\ shown' = [shown EXCEPT !.runnable = onDisk' /\ nativeAvailable]
  /\ refreshing' = IF shown'.runnable THEN "runnable" ELSE "not"
  /\ UNCHANGED <<mode, writes, intent, serverOnDevice, pick, queue, nativeAvailable, reader,
                 restoring, promoteWhenDone, used>>

\* The built-in model becomes available, or stops being.
NativeToggles ==
  /\ used.native < MaxNative /\ used' = [used EXCEPT !.native = @ + 1]
  /\ nativeAvailable' = ~nativeAvailable
  /\ UNCHANGED <<mode, writes, screen, queue, onDisk, reader, restoring, promoteWhenDone>>
--------------------------------------------------------------------------------
Answered ==
  \E ok \in BOOLEAN : SaveAnswered(ok) \/ PickAnswered(ok) \/ PromotionAnswered(ok)
                        \/ LandingAnswered(ok) \/ FellBack(ok)
Runs == Loop \/ AfterModelLanded \/ \E landed \in BOOLEAN : DownloadEnds(landed)
Next ==
  \/ \E m \in Modes : Pick(m)
  \/ \E x \in Writers : Arrive(x)
  \/ \E ok \in BOOLEAN : SaveAnswered(ok)
  \/ \E ok \in BOOLEAN : PickAnswered(ok)
  \/ \E ok \in BOOLEAN : PromotionAnswered(ok)
  \/ \E ok \in BOOLEAN : LandingAnswered(ok)
  \/ \E ok \in BOOLEAN : FellBack(ok)
  \/ RefreshRead \/ StatusRead \/ ApplyIntent
  \/ RestoreAsk \/ RestoreRead \/ RestoreDone \/ RestoreFailed
  \/ StartDownload \/ Loop \/ AfterModelLanded \/ Cancel \/ DetachedEnds
  \/ \E landed \in BOOLEAN : DownloadEnds(landed)
  \/ StartDelete \/ NativeToggles
  \/ \E gone \in BOOLEAN : Removed(gone)

Spec == Init /\ [][Next]_vars

\* Every call settles, the runner is never left, the reader keeps coming back to
\* the screen, and the server cannot be out of reach at every promotion.
FairSpec ==
  /\ Spec
  /\ WF_vars(Answered) /\ WF_vars(Runs)
  /\ WF_vars(RefreshRead) /\ WF_vars(StatusRead) /\ WF_vars(ApplyIntent)
  /\ SF_vars(Arrive("refresh")) /\ SF_vars(PromotionAnswered(TRUE))
--------------------------------------------------------------------------------
(* Properties *)

\* A reader who chose Private cloud while nothing that could promote was in flight
\* stays there, in the store and in the cached persona the next boot goes by,
\* whatever downloads, refreshes and saves of an older intent do meanwhile.
CloudChoiceKept ==
  choice = "Cloud" /\ quiet /\ pick = NoPick /\ deleting # "writing"
    => localMode = "Cloud" /\ cachedMode = "Cloud"

\* The app's restart is held exactly while a queue runner is on: a runner a cancel
\* detached neither keeps the hold nor lets go of the next one's.
HoldIsTheRunner == held <=> Running

\* The row never says queued or downloading without a runner that will get to it,
\* nor says downloading while the runner is elsewhere.
RowHasRunner ==
  /\ entry = "queued" => Running
  /\ entry = "downloading" <=> runner = "downloading"

\* A phone whose reader wants On this phone, and which can run it for good, gets
\* there from every split state: an offline promotion, a fallback, a late landing.
PhoneFollows == <>[](intent /\ Runnable) => <>[](localMode = "OnDevice")

\* A model asked for lands, fails or is given up.
DownloadSettles == entry \in {"queued", "downloading"} ~> entry \in {"idle", "failed"}

\* "A download in flight follows the reader's latest choice", and nothing else
\* promotes the phone after it: a mode chosen and written is the phone's.
ReaderChoiceKept ==
  choice = "Cloud" /\ pick = NoPick /\ deleting = "none" => localMode = "Cloud"

\* "Re-checked after the awaits: the reader may have switched meanwhile": a restore
\* leaves a reader who has chosen Private cloud where he is.
RestoreYields ==
  [][RestoreDone /\ choice = "Cloud" /\ pick = NoPick /\ localMode = "Cloud"
       => localMode' = "Cloud"]_vars

\* "Nothing may promote the phone while its files are being removed", after
\* "processing falls back to cloud, BEFORE the file goes".
NoPromotionInDelete == deleting = "removing" => localMode = "Cloud"
================================================================================
