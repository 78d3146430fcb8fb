---------------------------- MODULE RefreshCoalescer ----------------------------
(***************************************************************************)
(* The throttle between the database and the feed on screen                *)
(* (lib/services/SuggestionSyncService.ts): writers ask for a reload, asks  *)
(* inside a window end in one trailing reload, reloads run one at a time,   *)
(* and a flush waits until the feed shows the database as it is.           *)
(*                                                                         *)
(* The database is the number of writes it has taken, a reload the number  *)
(* it read.  The clock is whether the window of the last start is open: it  *)
(* closes some time, so it does not go back.                               *)
(***************************************************************************)
EXTENDS Naturals

CONSTANTS
  Flushers,  \* ends of a feed sync or of a scoring pass
  MaxWrites  \* bound: writes

VARIABLES
  db,              \* the writes the database has taken
  announced,       \* how many of them a request has told of
  shown,           \* how many of them the feed shows
  refreshInFlight, \* where the execution under way is
  read,            \* what it has read
  rerunRequested,
  trailingTimer,   \* a trailing execution is due
  recent,          \* within REFRESH_MIN_INTERVAL_MS of the last start
  lost,            \* history: the last execution's load rejected
  flush,           \* each flusher's call
  target           \* history: what had been announced when it called

run  == <<refreshInFlight, read, rerunRequested, recent>>
vars == <<db, announced, shown, run, trailingTimer, lost, flush, target>>

TypeOK ==
  /\ db \in Nat /\ announced \in Nat /\ shown \in Nat /\ read \in Nat
  /\ refreshInFlight \in {"none", "reading", "loading", "labels"}
  /\ rerunRequested \in BOOLEAN /\ trailingTimer \in BOOLEAN
  /\ recent \in BOOLEAN /\ lost \in BOOLEAN
  /\ flush \in [Flushers -> {"none", "waiting", "done"}]
  /\ target \in [Flushers -> Nat]

Init ==
  /\ db = 0 /\ announced = 0 /\ shown = 0
  /\ refreshInFlight = "none" /\ read = 0 /\ rerunRequested = FALSE
  /\ trailingTimer = FALSE /\ recent = FALSE /\ lost = FALSE
  /\ flush = [f \in Flushers |-> "none"] /\ target = [f \in Flushers |-> 0]
--------------------------------------------------------------------------------
Idle == refreshInFlight = "none"

\* runRefreshSerialized: start an execution, or have the one under way run again.
RunSerialized ==
  IF Idle
  THEN refreshInFlight' = "reading" /\ recent' = TRUE /\ UNCHANGED <<read, rerunRequested>>
  ELSE rerunRequested' = TRUE /\ UNCHANGED <<refreshInFlight, read, recent>>

Write ==
  /\ db < MaxWrites /\ db' = db + 1
  /\ UNCHANGED <<announced, shown, run, trailingTimer, lost, flush, target>>

\* Mutant: a request inside the window is dropped.
RequestLeadingOnly ==
  /\ announced' = db /\ UNCHANGED trailingTimer
  /\ IF ~recent /\ Idle THEN RunSerialized ELSE UNCHANGED run
  /\ UNCHANGED <<db, shown, lost, flush, target>>

\* requestSuggestionsRefresh: at once outside the window, else a trailing one.
Request ==
  /\ announced' = db
  /\ IF ~recent /\ Idle THEN trailingTimer' = FALSE /\ RunSerialized
     ELSE trailingTimer' = TRUE /\ UNCHANGED run
  /\ UNCHANGED <<db, shown, lost, flush, target>>

\* Mutant: the timer joins an execution under way without having it run again.
TimerFiresJoining ==
  /\ trailingTimer /\ trailingTimer' = FALSE
  /\ IF Idle THEN RunSerialized ELSE UNCHANGED run
  /\ UNCHANGED <<db, announced, shown, lost, flush, target>>

TimerFires ==
  /\ trailingTimer /\ trailingTimer' = FALSE /\ RunSerialized
  /\ UNCHANGED <<db, announced, shown, lost, flush, target>>

\* Mutant: a flush waits for the execution under way, whatever it has read.
FlushJoining(f) ==
  /\ flush[f] # "waiting" /\ trailingTimer' = FALSE
  /\ target' = [target EXCEPT ![f] = announced]
  /\ flush' = [flush EXCEPT ![f] = IF trailingTimer \/ ~Idle THEN "waiting" ELSE "done"]
  /\ IF trailingTimer /\ Idle THEN RunSerialized ELSE UNCHANGED run
  /\ UNCHANGED <<db, announced, shown, lost>>

\* flushSuggestionsRefresh: nothing to do when nothing is pending or under way.
Flush(f) ==
  /\ flush[f] # "waiting" /\ trailingTimer' = FALSE
  /\ target' = [target EXCEPT ![f] = announced]
  /\ IF trailingTimer \/ ~Idle
     THEN flush' = [flush EXCEPT ![f] = "waiting"] /\ RunSerialized
     ELSE flush' = [flush EXCEPT ![f] = "done"] /\ UNCHANGED run
  /\ UNCHANGED <<db, announced, shown, lost>>

\* executeRefreshOnce is over: once more if asked meanwhile, else the execution
\* ends, and with it every flush that joined it.
PassEnds ==
  IF rerunRequested
  THEN refreshInFlight' = "reading" /\ rerunRequested' = FALSE /\ recent' = TRUE
       /\ UNCHANGED <<read, flush>>
  ELSE /\ refreshInFlight' = "none"
       /\ flush' = [f \in Flushers |-> IF flush[f] = "waiting" THEN "done" ELSE flush[f]]
       /\ UNCHANGED <<read, rerunRequested, recent>>

\* loadSuggestions reads the rows.
Read ==
  /\ refreshInFlight = "reading" /\ refreshInFlight' = "loading" /\ read' = db
  /\ UNCHANGED <<db, announced, shown, rerunRequested, recent, trailingTimer, lost, flush, target>>

\* refreshSuggestionsInStore puts them on screen, then republishes the labels.
Show ==
  /\ refreshInFlight = "loading" /\ refreshInFlight' = "labels"
  /\ shown' = read /\ lost' = FALSE
  /\ UNCHANGED <<db, announced, read, rerunRequested, recent, trailingTimer, flush, target>>

LabelsEnd ==
  /\ refreshInFlight = "labels" /\ PassEnds
  /\ UNCHANGED <<db, announced, shown, trailingTimer, lost, target>>

\* The load rejects; executeRefreshOnce swallows it.
LoadRejects ==
  /\ refreshInFlight \in {"reading", "loading"} /\ PassEnds /\ lost' = TRUE
  /\ UNCHANGED <<db, announced, shown, trailingTimer, target>>

WindowCloses ==
  /\ recent /\ recent' = FALSE
  /\ UNCHANGED <<db, announced, shown, refreshInFlight, read, rerunRequested, trailingTimer,
                 lost, flush, target>>

Executes == Read \/ Show \/ LabelsEnd \/ LoadRejects
Next ==
  \/ Write \/ Request \/ TimerFires \/ WindowCloses
  \/ Read \/ Show \/ LabelsEnd \/ LoadRejects
  \/ \E f \in Flushers : Flush(f)

Spec == Init /\ [][Next]_vars

\* Reads and timers complete, and the clock moves on.
FairSpec == Spec /\ WF_vars(Executes) /\ WF_vars(TimerFires) /\ WF_vars(WindowCloses)
--------------------------------------------------------------------------------
(* Properties *)

\* "When nothing is pending and nothing is in flight the last refresh already
\* reflects current state": every announced write is shown, unless the last load
\* rejected.
IdleIsExact == Idle /\ ~trailingTimer /\ ~lost => announced <= shown

\* "A terminal state is always exact": a flush that has resolved shows all that
\* was announced before it, whatever run it joined, unless the last load rejected.
FlushIsExact == \A f \in Flushers : flush[f] = "done" /\ ~lost => target[f] <= shown

\* The last burst always lands: what was announced is shown, or its load rejected.
AnnouncedLands ==
  \A v \in 1 .. MaxWrites : announced = v ~> (v <= shown \/ lost)
================================================================================
