------------------------------- MODULE AuthBreaker -------------------------------
(***************************************************************************)
(* lib/auth-failure-breaker.ts: the circuit breaker between the auth       *)
(* failures of the app and its feed-sync poller.                           *)
(*                                                                         *)
(* Three failures in a row open the breaker, which asks the server for the *)
(* truth about the session and stops the poller unless the answer is       *)
(* "alive".  A question can be joined, abandoned for a fresh one, answered *)
(* late or never: iOS freezes what is in flight when the app leaves the    *)
(* screen.  The verdict flag outlives the process and the rest of the      *)
(* state does not: a restart is an initial state with the flag kept.       *)
(*                                                                         *)
(* Handlers are synchronous, so a handler is an action.  A question is     *)
(* two, its request and its answer, and a third when the app reads the     *)
(* keychain before it concludes.                                           *)
(* Failures seen by the background task while the app is not active are    *)
(* not counted, and are no actions.                                        *)
(***************************************************************************)
EXTENDS Integers

CONSTANTS
  AUTH_FAILURE_THRESHOLD,
  Tokens,      \* identities of questions; one is free again once settled
  None,        \* no question
  MaxFreezes   \* bound: questions that never settle

ASSUME ThresholdAssumption == AUTH_FAILURE_THRESHOLD \in Nat \ {0}
ASSUME TokensAssumption == None \notin Tokens
ASSUME BoundsAssumption == MaxFreezes \in Nat

VARIABLES
  consecutiveFailures, \* up to the threshold: beyond it nothing tells them apart
  breakerOpen,
  pendingRecheck,  \* the question others join, None if there is none
  recheckToken,    \* the most recent question
  ask,             \* the questions, by token
  verifyCooled,    \* REAUTH_RECHECK_COOLDOWN_MS since the last verification
  feedSyncPaused,  \* feed-sync is in AppScheduler.pausedTasks
  needsReauth,     \* the verdict, in the settings table
  session,         \* the session behind the stored cookie
  keychain,        \* "hidden" by the launch latch, "locked", or "open"
  flaky,           \* the network, or an edge in front of the server, may err
  freezes

breakerVars == <<consecutiveFailures, breakerOpen, pendingRecheck, recheckToken,
                 ask, verifyCooled, feedSyncPaused, needsReauth>>
worldVars   == <<session, keychain, flaky>>
vars        == <<breakerVars, worldVars, freezes>>

Sessions == {"alive", "revoked", "lapsed"}   \* "lapsed": no cookie to send
Replies  == {"session", "no-session", "rejected", "error"}

\* sent: the cookie the request carried, "stale" once the server rejects it;
\* hidden: the latch hid it; reply: once it is known; trips: a trip waits for
\* the outcome.
Ask == [at : {"asked", "reading"}, sent : {"none", "live", "stale"},
        hidden : BOOLEAN, reply : Replies, trips : BOOLEAN]
Settled == [at |-> "settled"]
Frozen  == [at |-> "frozen"]

Init ==
  /\ consecutiveFailures = 0 /\ breakerOpen = FALSE
  /\ pendingRecheck = None /\ recheckToken = None
  /\ ask = [t \in Tokens |-> Settled]
  /\ verifyCooled = TRUE /\ feedSyncPaused = FALSE /\ needsReauth \in BOOLEAN
  /\ session \in Sessions /\ keychain = "hidden" /\ flaky = FALSE
  /\ freezes = 0
--------------------------------------------------------------------------------
(* triggerRecheck: one question at a time.                                 *)

Free(t) == ask[t].at = "settled"

\* What the request carries, read at the instant it is built.
CookieSent == IF keychain # "open" \/ session = "lapsed" THEN "none"
              ELSE IF session = "alive" THEN "live" ELSE "stale"

Question(trips) ==
  [at |-> "asked", sent |-> CookieSent, hidden |-> keychain = "hidden",
   reply |-> "error", trips |-> trips]

\* A new question, in the place of whatever was pending.
Start(trips) ==
  /\ \E t \in Tokens :
       /\ Free(t)
       /\ pendingRecheck' = t /\ recheckToken' = t
       /\ ask' = [u \in Tokens |->
            IF u = t THEN Question(trips)
            ELSE IF ask[u] = Frozen THEN Settled
            ELSE ask[u]]

Joined(a, trips) == IF a = Frozen THEN a ELSE [a EXCEPT !.trips = a.trips \/ trips]

\* The pending question answers the new caller too.
Join(trips) ==
  /\ pendingRecheck # None
  /\ ask' = [ask EXCEPT ![pendingRecheck] = Joined(ask[pendingRecheck], trips)]
  /\ UNCHANGED <<pendingRecheck, recheckToken>>

TriggerRecheck(trips) == Join(trips) \/ (pendingRecheck = None /\ Start(trips))

NoRecheck == UNCHANGED <<pendingRecheck, recheckToken, ask>>
--------------------------------------------------------------------------------
(* What the app reports.                                                   *)

CountUp == IF consecutiveFailures < AUTH_FAILURE_THRESHOLD
           THEN consecutiveFailures + 1 ELSE consecutiveFailures

\* A 401, which needs a session, a keychain or a network in a bad state.
FailurePossible == session # "alive" \/ keychain # "open" \/ flaky

\* RECHECK_COOLDOWN_MS, a matter of time only, has passed or has not.
RecordAuthFailure ==
  /\ FailurePossible
  /\ consecutiveFailures' = CountUp
  /\ \/ /\ ~breakerOpen /\ consecutiveFailures' < AUTH_FAILURE_THRESHOLD
        /\ NoRecheck /\ UNCHANGED breakerOpen
     \/ /\ ~breakerOpen /\ consecutiveFailures' = AUTH_FAILURE_THRESHOLD
        /\ breakerOpen' = TRUE /\ TriggerRecheck(TRUE)
     \/ /\ breakerOpen /\ UNCHANGED breakerOpen
        /\ NoRecheck \/ (pendingRecheck = None /\ Start(FALSE))
  /\ UNCHANGED <<verifyCooled, feedSyncPaused, needsReauth, worldVars, freezes>>

CountAfterSuccess == 0

\* Any error-free response, a public operation's for a dead session too.
RecordAuthSuccess ==
  /\ consecutiveFailures' = CountAfterSuccess /\ breakerOpen' = FALSE
  /\ feedSyncPaused' = (feedSyncPaused /\ ~breakerOpen)
  /\ NoRecheck
  /\ UNCHANGED <<verifyCooled, needsReauth, worldVars, freezes>>

\* maybeVerifyReauthState
MaybeVerify ==
  /\ IF verifyCooled THEN TriggerRecheck(FALSE) /\ verifyCooled' = FALSE
     ELSE NoRecheck /\ UNCHANGED verifyCooled
  /\ UNCHANGED consecutiveFailures

\* Mutant: a flagged device asks nothing.
ReturnFlaggedSilent ==
  needsReauth /\ NoRecheck /\ UNCHANGED <<verifyCooled, consecutiveFailures>>

ReturnFlagged == needsReauth /\ MaybeVerify

\* Mutant: a return to the app joins a question that may be frozen.
RevalidateJoining == TriggerRecheck(FALSE)

\* Ask afresh: a question of before may never settle.
Revalidate == Start(FALSE)

OnAppForeground ==
  /\ \/ ReturnFlagged
     \/ /\ ~needsReauth /\ consecutiveFailures' = 0 /\ UNCHANGED verifyCooled
        /\ IF breakerOpen THEN Revalidate ELSE NoRecheck
  /\ UNCHANGED <<breakerOpen, feedSyncPaused, needsReauth, worldVars, freezes>>

OnNetworkReconnect ==
  /\ \/ ReturnFlagged
     \/ ~needsReauth /\ breakerOpen /\ Revalidate
        /\ UNCHANGED <<verifyCooled, consecutiveFailures>>
  /\ UNCHANGED <<breakerOpen, feedSyncPaused, needsReauth, worldVars, freezes>>

\* recheckSession: the launch gate, the return to a flagged app, a resume.
RecheckSession ==
  /\ TriggerRecheck(FALSE)
  /\ UNCHANGED <<consecutiveFailures, breakerOpen, verifyCooled, feedSyncPaused,
                 needsReauth, worldVars, freezes>>
--------------------------------------------------------------------------------
(* The answer.                                                             *)

\* What the server, or what stands before it, says to a request.
PossibleReply(t, r) ==
  \/ r = "session" /\ ask[t].sent = "live"
  \/ r \in {"no-session", "rejected"} /\ ask[t].sent = "stale"
  \/ r = "no-session" /\ ask[t].sent = "none"
  \/ r \in {"error", "rejected"} /\ flaky

\* Mutant: the latch is read when the answer is, not when the question was put.
BasisLate(t) ==
  IF ask[t].sent # "none" THEN "present"
  ELSE IF keychain = "hidden" THEN "quarantined"
  ELSE IF session = "lapsed" THEN "expired" ELSE "absent"

\* readRecheckBasis: the keychain is read now, the rest is what the request saw.
\* A jar that is empty or does not parse counts as a lapsed one: no branch of the
\* verdict tells 'absent', 'unknown' and 'expired' apart.
Basis(t) ==
  IF ask[t].sent # "none" THEN "present"
  ELSE IF ask[t].hidden THEN "quarantined"
  ELSE IF keychain # "locked" /\ session = "lapsed" THEN "expired" ELSE "unreadable"

Outcome(t, r) ==
  CASE r = "session"  -> "alive"
    [] r = "rejected" -> "dead"
    [] r = "error"    -> "inconclusive"
    [] r = "no-session" /\ Basis(t) \in {"quarantined", "unreadable"} -> "no-credential"
    [] OTHER          -> "dead"

\* Mutant: the run that settles clears the handle whoever holds it.
HandleAfterAny(t) == None

\* The identity guard: only the newest question clears the handle.
HandleAfter(t) == IF recheckToken = t THEN None ELSE pendingRecheck

\* Mutant: the trip pauses without asking whether the breaker is still open.
PausesAlways(t) == ask[t].trips

\* The callback of a trip, for an answer other than "alive".
Pauses(t) == ask[t].trips /\ breakerOpen

Alive ==
  /\ consecutiveFailures' = 0 /\ breakerOpen' = FALSE
  /\ needsReauth' = FALSE /\ feedSyncPaused' = FALSE

NotAlive(t, outcome) ==
  /\ needsReauth' = (needsReauth \/ outcome = "dead")
  /\ feedSyncPaused' = (feedSyncPaused \/ Pauses(t))
  /\ UNCHANGED <<consecutiveFailures, breakerOpen>>

Settle(t, r) ==
  /\ IF Outcome(t, r) = "alive" THEN Alive ELSE NotAlive(t, Outcome(t, r))
  /\ pendingRecheck' = HandleAfter(t)
  /\ ask' = [ask EXCEPT ![t] = Settled]
  /\ UNCHANGED <<recheckToken, verifyCooled, worldVars, freezes>>

\* Only a request that carried nothing, and knew no reason, reads the keychain.
Answered(t, r) ==
  /\ ask[t].at = "asked" /\ PossibleReply(t, r)
  /\ IF r = "session" \/ ask[t].sent # "none" \/ ask[t].hidden THEN Settle(t, r)
     ELSE /\ ask' = [ask EXCEPT ![t].at = "reading", ![t].reply = r]
          /\ UNCHANGED <<consecutiveFailures, breakerOpen, pendingRecheck,
                         recheckToken, verifyCooled, feedSyncPaused, needsReauth,
                         worldVars, freezes>>

KeychainRead(t) == ask[t].at = "reading" /\ Settle(t, ask[t].reply)

Progress(t) == KeychainRead(t) \/ \E r \in Replies : Answered(t, r)

VerifyCools == ~verifyCooled /\ verifyCooled' = TRUE
  /\ UNCHANGED <<consecutiveFailures, breakerOpen, pendingRecheck, recheckToken, ask,
                 feedSyncPaused, needsReauth, worldVars, freezes>>
--------------------------------------------------------------------------------
(* The reader, the phone and the server.                                   *)

\* completeDeviceSignIn
SignIn ==
  /\ session # "alive" /\ keychain = "open"
  /\ session' = "alive" /\ needsReauth' = FALSE
  /\ UNCHANGED <<consecutiveFailures, breakerOpen, pendingRecheck, recheckToken, ask,
                 verifyCooled, feedSyncPaused, keychain, flaky, freezes>>

\* The session ends on the server, or its cookie runs out on the phone.
SessionEnds ==
  /\ session = "alive"
  /\ \/ session' = "lapsed" /\ UNCHANGED ask
     \/ /\ session' = "revoked"
        /\ ask' = [t \in Tokens |->
             IF ask[t].at = "asked" /\ ask[t].sent = "live"
             THEN [ask[t] EXCEPT !.sent = "stale"] ELSE ask[t]]
  /\ UNCHANGED <<consecutiveFailures, breakerOpen, pendingRecheck, recheckToken,
                 verifyCooled, feedSyncPaused, needsReauth, keychain, flaky, freezes>>

\* The install boundary releases the latch; the keychain and the network change.
WorldChanges ==
  /\ \/ keychain \in {"hidden", "locked"} /\ keychain' = "open" /\ UNCHANGED flaky
     \/ keychain = "open" /\ keychain' = "locked" /\ UNCHANGED flaky
     \/ flaky' = ~flaky /\ UNCHANGED keychain
  /\ UNCHANGED <<breakerVars, session, freezes>>

\* A question in flight never settles.  One that nobody can join any more is
\* then as good as settled.
Freeze(t) ==
  /\ freezes < MaxFreezes /\ freezes' = freezes + 1
  /\ ask[t].at = "asked"
  /\ ask' = [ask EXCEPT ![t] = IF t = pendingRecheck THEN Frozen ELSE Settled]
  /\ UNCHANGED <<consecutiveFailures, breakerOpen, pendingRecheck, recheckToken,
                 verifyCooled, feedSyncPaused, needsReauth, worldVars>>

Next ==
  \/ RecordAuthFailure \/ RecordAuthSuccess \/ OnAppForeground \/ OnNetworkReconnect
  \/ RecheckSession \/ VerifyCools
  \/ SignIn \/ SessionEnds \/ WorldChanges
  \/ \E t \in Tokens : Progress(t) \/ Freeze(t)

Spec == Init /\ [][Next]_vars

\* The reader keeps coming back, time passes, and what is not frozen settles.
Fairness ==
  /\ WF_vars(OnAppForeground) /\ WF_vars(VerifyCools)
  /\ \A t \in Tokens : WF_vars(Progress(t))

FairSpec == Spec /\ Fairness
--------------------------------------------------------------------------------
\* Types, and a closed breaker has not seen the failures that open it.
TypeOK ==
  /\ consecutiveFailures \in 0..AUTH_FAILURE_THRESHOLD /\ breakerOpen \in BOOLEAN
  /\ ~breakerOpen => consecutiveFailures < AUTH_FAILURE_THRESHOLD
  /\ pendingRecheck \in Tokens \cup {None} /\ recheckToken \in Tokens \cup {None}
  /\ ask \in [Tokens -> Ask \cup {Settled, Frozen}]
  /\ verifyCooled \in BOOLEAN
  /\ feedSyncPaused \in BOOLEAN /\ needsReauth \in BOOLEAN
  /\ session \in Sessions /\ keychain \in {"hidden", "locked", "open"}
  /\ flaky \in BOOLEAN /\ freezes \in 0..MaxFreezes

\* The poller is paused only behind an open breaker: every path that resumes it
\* (a success, a foreground, a reconnect) starts from an open breaker, so a
\* poller paused behind a closed one stays paused until the app is killed.
PausedMeansOpen == feedSyncPaused => breakerOpen

\* One question at a time: callers join the newest question while it is in
\* flight, however late the ones it replaced settle, and never a settled one.
SingleAsk ==
  \A t \in Tokens : pendingRecheck = t <=> recheckToken = t /\ ~Free(t)

\* A "no session" answer raises the flag only on a request that showed the
\* server a cookie, or had none to show because it had lapsed; never on one
\* made while the launch latch hid the keychain, or that could not read it.
AnonymousProvesNothing ==
  [][\A t \in Tokens :
       /\ ~needsReauth /\ needsReauth' /\ ask[t].at \in {"asked", "reading"}
       /\ Settle(t, "no-session") /\ (ask[t].at = "reading" => ask[t].reply = "no-session")
       => \/ ask[t].sent # "none"
          \/ session = "lapsed" /\ keychain # "locked" /\ ~ask[t].hidden]_vars

\* All is well with the session, the keychain and the network.
Good == session = "alive" /\ keychain = "open" /\ ~flaky

\* Once all is well for good and no verdict stands, the poller runs again,
\* whatever questions were lost before.
PollerResumes == <>[](Good /\ ~needsReauth) => <>[]~feedSyncPaused

\* Once all is well for good a wrong verdict is withdrawn without a sign-in,
\* unless the question others join is frozen: a flagged device joins it, on
\* every return, where one without the flag would ask afresh.
FlagHeals ==
  <>[](Good /\ (pendingRecheck # None => ask[pendingRecheck] # Frozen))
    => <>[]~needsReauth
================================================================================
