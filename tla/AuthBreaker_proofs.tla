---------------------------- MODULE AuthBreaker_proofs ----------------------------
(***************************************************************************)
(* Proofs about AuthBreaker.  A step changes the questions in one of five  *)
(* ways: not at all, a new one, a caller joining, an answer, the world     *)
(* reaching one in flight.  That the newest question keeps the handle is   *)
(* about those; that a pause stands behind an open breaker is about who    *)
(* closes it and who pauses.                                               *)
(***************************************************************************)
EXTENDS AuthBreaker, TLAPS

Questions == Ask \cup {Settled, Frozen}

\* The handle, the newest token and the questions have their types.
AskTyped ==
  /\ pendingRecheck \in Tokens \cup {None} /\ recheckToken \in Tokens \cup {None}
  /\ ask \in [Tokens -> Questions]

\* A step that neither starts nor settles a question.
NoneMoved == \A t \in Tokens : ask[t].at = "settled" <=> ask'[t].at = "settled"

\* A request is a question, whatever the phone could put into it.
LEMMA QuestionTyped ==
  ASSUME NEW b \in BOOLEAN
  PROVE  Question(b) \in Ask
PROOF
<1>1. CookieSent \in {"none", "live", "stale"} BY DEF CookieSent
<1>2. "error" \in Replies BY DEF Replies
<1>3. (keychain = "hidden") \in BOOLEAN OBVIOUS
<1> QED BY <1>1, <1>2, <1>3 DEF Question, Ask

\* Joining a question, learning its reply, losing its session: still one.
LEMMA StillAsk ==
  ASSUME NEW a \in Ask, NEW b \in BOOLEAN, NEW r \in Replies
  PROVE  /\ [a EXCEPT !.trips = a.trips \/ b] \in Ask
         /\ [a EXCEPT !.at = "reading", !.reply = r] \in Ask
         /\ [a EXCEPT !.sent = "stale"] \in Ask
PROOF
<1>1. (a.trips \/ b) \in BOOLEAN BY DEF Ask
<1> QED BY <1>1 DEF Ask

LEMMA AskOrNot ==
  ASSUME NEW a \in Questions
  PROVE  /\ a.at \in {"asked", "reading"} => a \in Ask
         /\ a # Frozen /\ a.at # "settled" => a \in Ask
         /\ a \in Ask => a.at # "settled"
PROOF
<1>1. CASE a \in Ask
  <2>1. a.at \in {"asked", "reading"} BY <1>1 DEF Ask
  <2> QED BY <1>1, <2>1
<1>2. CASE a = Settled BY <1>2 DEF Settled, Ask
<1>3. CASE a = Frozen BY <1>3 DEF Frozen, Ask
<1> QED BY <1>1, <1>2, <1>3 DEF Questions

\* Such a step leaves the handle with the newest question.
LEMMA HandleStays ==
  ASSUME SingleAsk, NoneMoved,
         UNCHANGED <<pendingRecheck, recheckToken>>
  PROVE  SingleAsk'
PROOF BY DEF SingleAsk, NoneMoved, Free

LEMMA StartKeeps ==
  ASSUME AskTyped, NEW b \in BOOLEAN, Start(b)
  PROVE  AskTyped' /\ SingleAsk'
PROOF
<1>1. PICK t \in Tokens :
        /\ pendingRecheck' = t /\ recheckToken' = t
        /\ ask' = [u \in Tokens |-> IF u = t THEN Question(b)
                                    ELSE IF ask[u] = Frozen THEN Settled ELSE ask[u]]
      BY DEF Start
<1>2. Question(b) \in Questions BY QuestionTyped DEF Questions
<1>3. Settled \in Questions BY DEF Questions
<1>4. AskTyped' BY <1>1, <1>2, <1>3 DEF AskTyped
<1>5. Question(b).at = "asked" BY DEF Question
<1>6. SingleAsk' BY <1>1, <1>5, TokensAssumption DEF SingleAsk, Free
<1> QED BY <1>4, <1>6

LEMMA JoinKeeps ==
  ASSUME AskTyped, SingleAsk, NEW b \in BOOLEAN, Join(b)
  PROVE  AskTyped' /\ SingleAsk'
PROOF
<1> DEFINE p == pendingRecheck
           q == Joined(ask[p], b)
<1>1. p \in Tokens /\ ask[p] \in Questions BY DEF Join, AskTyped
<1>2. /\ ask' = [ask EXCEPT ![p] = q]
      /\ pendingRecheck' = p /\ recheckToken' = recheckToken
      BY DEF Join
<1>3. q \in Questions
  <2>1. CASE ask[p] = Frozen BY <2>1, <1>1 DEF Joined
  <2>2. CASE ask[p] # Frozen
    <3>1. ask[p] \in Ask BY <2>2, <1>1, AskOrNot DEF SingleAsk, Free
    <3>2. PICK r : r \in Replies BY DEF Replies
    <3> QED BY <3>1, <3>2, <2>2, StillAsk DEF Questions, Joined
  <2> QED BY <2>1, <2>2
<1>4. AskTyped' BY <1>1, <1>2, <1>3 DEF AskTyped
<1>5. NoneMoved
  <2>1. ask[p].at # "settled" BY <1>1 DEF SingleAsk, Free
  <2>2. q.at # "settled"
    <3>1. CASE ask[p] = Frozen BY <3>1, <2>1 DEF Joined
    <3>2. CASE ask[p] # Frozen BY <3>2, <2>1, <1>1, AskOrNot DEF Ask, Joined
    <3> QED BY <3>1, <3>2
  <2> QED BY <2>1, <2>2, <1>1, <1>2 DEF NoneMoved, AskTyped
<1>6. SingleAsk' BY <1>2, <1>5, HandleStays
<1> QED BY <1>4, <1>6

LEMMA TriggerKeeps ==
  ASSUME AskTyped, SingleAsk, NEW b \in BOOLEAN, TriggerRecheck(b)
  PROVE  AskTyped' /\ SingleAsk'
PROOF BY StartKeeps, JoinKeeps DEF TriggerRecheck

\* The answer to a question settles it, and takes the handle only with it.
LEMMA SettleKeeps ==
  ASSUME AskTyped, SingleAsk, NEW t \in Tokens, NEW r, ~Free(t), Settle(t, r)
  PROVE  AskTyped' /\ SingleAsk'
PROOF
<1>1. /\ ask' = [ask EXCEPT ![t] = Settled] /\ recheckToken' = recheckToken
      /\ pendingRecheck' = IF recheckToken = t THEN None ELSE pendingRecheck
      BY DEF Settle, HandleAfter
<1>2. AskTyped' BY <1>1 DEF AskTyped, Questions
<1>3. Settled.at = "settled" BY DEF Settled
<1>4. SingleAsk' BY <1>1, <1>3, TokensAssumption DEF SingleAsk, Free, AskTyped
<1> QED BY <1>2, <1>4

\* The environment changes questions in flight and settles none that has the
\* handle.
LEMMA FreezeKeeps ==
  ASSUME AskTyped, SingleAsk, NEW t \in Tokens, Freeze(t)
  PROVE  AskTyped' /\ SingleAsk'
PROOF
<1>1. /\ ask' = [ask EXCEPT ![t] = IF t = pendingRecheck THEN Frozen ELSE Settled]
      /\ recheckToken' = recheckToken /\ pendingRecheck' = pendingRecheck
      /\ ask[t].at = "asked"
      BY DEF Freeze
<1>2. AskTyped' BY <1>1 DEF AskTyped, Questions
<1>3. Settled.at = "settled" /\ Frozen.at # "settled" BY DEF Settled, Frozen
<1>4. SingleAsk' BY <1>1, <1>3 DEF SingleAsk, Free, AskTyped
<1> QED BY <1>2, <1>4

LEMMA AnsweredKeeps ==
  ASSUME AskTyped, SingleAsk, NEW t \in Tokens, NEW r \in Replies, Answered(t, r)
  PROVE  AskTyped' /\ SingleAsk'
PROOF
<1>1. ask[t].at = "asked" /\ ~Free(t) BY DEF Answered, Free
<1>2. CASE Settle(t, r) BY <1>1, <1>2, SettleKeeps
<1>3. CASE /\ ask' = [ask EXCEPT ![t].at = "reading", ![t].reply = r]
           /\ UNCHANGED <<pendingRecheck, recheckToken>>
  <2>1. ask[t] \in Ask BY <1>1, AskOrNot DEF AskTyped
  <2>2. [ask[t] EXCEPT !.at = "reading", !.reply = r] \in Ask BY <2>1, StillAsk
  <2>3. AskTyped' BY <2>2, <1>3 DEF AskTyped, Questions
  <2>4. [ask[t] EXCEPT !.at = "reading", !.reply = r].at # "settled" BY <2>1 DEF Ask
  <2>5. NoneMoved BY <2>4, <1>1, <1>3 DEF NoneMoved, AskTyped
  <2> QED BY <2>3, <2>5, <1>3, HandleStays
<1> QED BY <1>2, <1>3 DEF Answered

LEMMA SessionEndsKeeps ==
  ASSUME AskTyped, SingleAsk, SessionEnds
  PROVE  AskTyped' /\ SingleAsk'
PROOF
<1>1. UNCHANGED <<pendingRecheck, recheckToken>> BY DEF SessionEnds
<1>2. CASE UNCHANGED ask BY <1>1, <1>2 DEF AskTyped, SingleAsk, Free
<1>3. CASE ask' = [t \in Tokens |->
             IF ask[t].at = "asked" /\ ask[t].sent = "live"
             THEN [ask[t] EXCEPT !.sent = "stale"] ELSE ask[t]]
  <2>1. ASSUME NEW t \in Tokens
        PROVE  ask'[t] \in Questions /\ (ask[t].at = "settled" <=> ask'[t].at = "settled")
    <3>1. CASE ask[t].at = "asked" /\ ask[t].sent = "live"
      <4>1. ask[t] \in Ask BY <3>1, AskOrNot DEF AskTyped
      <4>2. PICK r : r \in Replies BY DEF Replies
      <4>3. [ask[t] EXCEPT !.sent = "stale"] \in Ask BY <4>1, <4>2, StillAsk
      <4>4. [ask[t] EXCEPT !.sent = "stale"].at = ask[t].at BY <4>1 DEF Ask
      <4> QED BY <1>3, <3>1, <4>3, <4>4 DEF Questions
    <3>2. CASE ~(ask[t].at = "asked" /\ ask[t].sent = "live")
      BY <1>3, <3>2 DEF AskTyped
    <3> QED BY <3>1, <3>2
  <2>2. AskTyped' BY <1>1, <1>3, <2>1 DEF AskTyped
  <2>3. NoneMoved BY <2>1 DEF NoneMoved
  <2> QED BY <1>1, <2>2, <2>3, HandleStays
<1> QED BY <1>2, <1>3 DEF SessionEnds

\* What an action of the breaker does to the questions.
LEMMA NextKeeps ==
  ASSUME AskTyped, SingleAsk, [Next]_vars
  PROVE  AskTyped' /\ SingleAsk'
PROOF
<1> DEFINE Same == UNCHANGED <<pendingRecheck, recheckToken, ask>>
<1>0. ASSUME Same PROVE AskTyped' /\ SingleAsk'
  BY <1>0 DEF AskTyped, SingleAsk, Free
<1>1. CASE RecordAuthFailure
  BY <1>0, <1>1, TriggerKeeps, StartKeeps DEF RecordAuthFailure, NoRecheck
<1>2. CASE RecordAuthSuccess BY <1>0, <1>2 DEF RecordAuthSuccess, NoRecheck
<1>3. ASSUME ReturnFlagged PROVE AskTyped' /\ SingleAsk'
  BY <1>0, <1>3, TriggerKeeps DEF ReturnFlagged, MaybeVerify, NoRecheck
<1>4. CASE OnAppForeground
  BY <1>0, <1>3, <1>4, StartKeeps DEF OnAppForeground, Revalidate, NoRecheck
<1>5. CASE OnNetworkReconnect
  BY <1>3, <1>5, StartKeeps DEF OnNetworkReconnect, Revalidate
<1>6. CASE RecheckSession BY <1>6, TriggerKeeps DEF RecheckSession
<1>7. CASE VerifyCools BY <1>0, <1>7 DEF VerifyCools
<1>8. CASE SignIn BY <1>0, <1>8 DEF SignIn
<1>9. CASE SessionEnds BY <1>9, SessionEndsKeeps
<1>10. CASE WorldChanges BY <1>0, <1>10 DEF WorldChanges, breakerVars
<1>11. ASSUME NEW t \in Tokens, Progress(t) PROVE AskTyped' /\ SingleAsk'
  <2>1. CASE KeychainRead(t)
    <3>1. ~Free(t) /\ Settle(t, ask[t].reply) BY <2>1 DEF KeychainRead, Free
    <3> QED BY <3>1, SettleKeeps
  <2>2. CASE \E r \in Replies : Answered(t, r) BY <2>2, AnsweredKeeps
  <2> QED BY <1>11, <2>1, <2>2 DEF Progress
<1>12. ASSUME NEW t \in Tokens, Freeze(t) PROVE AskTyped' /\ SingleAsk'
  BY <1>12, FreezeKeeps
<1>13. CASE UNCHANGED vars BY <1>0, <1>13 DEF vars, breakerVars
<1> QED BY <1>1, <1>2, <1>4, <1>5, <1>6, <1>7, <1>8, <1>9, <1>10, <1>11, <1>12,
           <1>13 DEF Next

LEMMA InitKeeps == Init => AskTyped /\ SingleAsk
PROOF BY TokensAssumption DEF Init, AskTyped, SingleAsk, Questions, Free, Settled

\* Callers join the newest question while it is in flight and no other: for
\* any number of questions, answered in any order or never.
THEOREM OneQuestion == Spec => []SingleAsk
PROOF
<1>1. AskTyped /\ SingleAsk /\ [Next]_vars => (AskTyped /\ SingleAsk)' BY NextKeeps
<1> QED BY InitKeeps, <1>1, PTL DEF Spec

\* The rest of the breaker: its count, its flags and the world around it.
Rest ==
  /\ consecutiveFailures \in 0..AUTH_FAILURE_THRESHOLD /\ breakerOpen \in BOOLEAN
  /\ ~breakerOpen => consecutiveFailures < AUTH_FAILURE_THRESHOLD
  /\ verifyCooled \in BOOLEAN
  /\ feedSyncPaused \in BOOLEAN /\ needsReauth \in BOOLEAN
  /\ session \in Sessions /\ keychain \in {"hidden", "locked", "open"}
  /\ flaky \in BOOLEAN /\ freezes \in 0..MaxFreezes

\* A closed breaker may have counted nothing yet.
LEMMA NothingCounted ==
  0 \in 0..AUTH_FAILURE_THRESHOLD /\ 0 < AUTH_FAILURE_THRESHOLD
PROOF BY ThresholdAssumption

\* What an answer does to the breaker, whatever the question was.
LEMMA SettleRest ==
  ASSUME Rest, PausedMeansOpen, NEW t, NEW r, Settle(t, r)
  PROVE  Rest' /\ PausedMeansOpen'
PROOF
<1>1. UNCHANGED <<verifyCooled, session, keychain, flaky, freezes>>
  BY DEF Settle, worldVars
<1>2. CASE Alive
  BY <1>1, <1>2, NothingCounted DEF Alive, Rest, PausedMeansOpen
<1>3. CASE NotAlive(t, Outcome(t, r))
  <2>1. /\ needsReauth' \in BOOLEAN /\ feedSyncPaused' \in BOOLEAN
        /\ feedSyncPaused' => feedSyncPaused \/ breakerOpen
    BY <1>3 DEF NotAlive, Pauses
  <2>2. UNCHANGED <<consecutiveFailures, breakerOpen>> BY <1>3 DEF NotAlive
  <2> QED BY <1>1, <2>1, <2>2 DEF Rest, PausedMeansOpen
<1> QED BY <1>2, <1>3 DEF Settle

LEMMA NextRest ==
  ASSUME Rest, PausedMeansOpen, [Next]_vars
  PROVE  Rest' /\ PausedMeansOpen'
PROOF
<1> DEFINE Calm == UNCHANGED <<consecutiveFailures, breakerOpen, verifyCooled,
                     feedSyncPaused, needsReauth, session, keychain, flaky, freezes>>
<1>0. ASSUME Calm PROVE Rest' /\ PausedMeansOpen'
  BY <1>0 DEF Rest, PausedMeansOpen
<1>1. CASE RecordAuthFailure
  <2>1. /\ CountUp \in 0..AUTH_FAILURE_THRESHOLD
        /\ AUTH_FAILURE_THRESHOLD \in Nat
    BY ThresholdAssumption DEF CountUp, Rest
  <2>2. UNCHANGED <<verifyCooled, feedSyncPaused, needsReauth, session, keychain,
                    flaky, freezes>>
    BY <1>1 DEF RecordAuthFailure, worldVars
  <2>3. /\ consecutiveFailures' = CountUp
        /\ \/ ~breakerOpen /\ consecutiveFailures' < AUTH_FAILURE_THRESHOLD
              /\ breakerOpen' = breakerOpen
           \/ breakerOpen' = TRUE
           \/ breakerOpen /\ breakerOpen' = breakerOpen
    BY <1>1 DEF RecordAuthFailure
  <2> QED BY <2>1, <2>2, <2>3 DEF Rest, PausedMeansOpen
<1>2. CASE RecordAuthSuccess
  <2>1. /\ consecutiveFailures' = 0 /\ breakerOpen' = FALSE
        /\ feedSyncPaused' = (feedSyncPaused /\ ~breakerOpen)
        /\ UNCHANGED <<verifyCooled, needsReauth, session, keychain, flaky, freezes>>
    BY <1>2 DEF RecordAuthSuccess, CountAfterSuccess, worldVars
  <2>2. feedSyncPaused' = FALSE BY <2>1 DEF PausedMeansOpen, Rest
  <2> QED BY <2>1, <2>2, NothingCounted DEF Rest, PausedMeansOpen
<1>3. CASE OnAppForeground \/ OnNetworkReconnect
  <2>1. /\ UNCHANGED <<breakerOpen, feedSyncPaused, needsReauth, session, keychain,
                       flaky, freezes>>
        /\ consecutiveFailures' \in {0, consecutiveFailures}
        /\ verifyCooled' \in {FALSE, verifyCooled}
    BY <1>3 DEF OnAppForeground, OnNetworkReconnect, ReturnFlagged, MaybeVerify, worldVars
  <2> QED BY <2>1, NothingCounted DEF Rest, PausedMeansOpen
<1>4. CASE RecheckSession BY <1>0, <1>4 DEF RecheckSession, worldVars
<1>5. CASE VerifyCools BY <1>5 DEF VerifyCools, worldVars, Rest, PausedMeansOpen
<1>6. CASE SignIn BY <1>6 DEF SignIn, Rest, PausedMeansOpen, Sessions
<1>7. CASE SessionEnds BY <1>7 DEF SessionEnds, Rest, PausedMeansOpen, Sessions
<1>8. CASE WorldChanges
  <2>1. /\ UNCHANGED <<consecutiveFailures, breakerOpen, verifyCooled,
                       feedSyncPaused, needsReauth, session, freezes>>
        /\ keychain' \in {"open", "locked", keychain} /\ flaky' \in {flaky, ~flaky}
    BY <1>8 DEF WorldChanges, breakerVars
  <2> QED BY <2>1 DEF Rest, PausedMeansOpen
<1>9. ASSUME NEW t \in Tokens, Progress(t) PROVE Rest' /\ PausedMeansOpen'
  BY <1>0, <1>9, SettleRest DEF Progress, KeychainRead, Answered, worldVars
<1>10. ASSUME NEW t \in Tokens, Freeze(t) PROVE Rest' /\ PausedMeansOpen'
  BY <1>10, BoundsAssumption DEF Freeze, worldVars, Rest, PausedMeansOpen
<1>11. CASE UNCHANGED vars BY <1>0, <1>11 DEF vars, breakerVars, worldVars
<1> QED BY <1>1, <1>2, <1>3, <1>4, <1>5, <1>6, <1>7, <1>8, <1>9, <1>10, <1>11 DEF Next

\* Init makes both.
LEMMA InitRest == Init => Rest /\ PausedMeansOpen
PROOF
<1> SUFFICES ASSUME Init PROVE Rest /\ PausedMeansOpen OBVIOUS
<1>1. 0 \in 0..MaxFreezes BY BoundsAssumption
<1>2. keychain = "hidden" /\ flaky = FALSE /\ freezes = 0 /\ session \in Sessions
      /\ verifyCooled = TRUE /\ needsReauth \in BOOLEAN
  BY DEF Init
<1>3. consecutiveFailures = 0 /\ breakerOpen = FALSE /\ feedSyncPaused = FALSE
  BY DEF Init
<1> QED BY <1>1, <1>2, <1>3, NothingCounted DEF Rest, PausedMeansOpen

\* feed-sync is paused only behind an open breaker, whoever pauses and resumes
\* it in whatever order: a poller nobody would resume does not exist.
THEOREM NeverStranded == Spec => []PausedMeansOpen
PROOF
<1>1. Rest /\ PausedMeansOpen /\ [Next]_vars => (Rest /\ PausedMeansOpen)' BY NextRest
<1> QED BY InitRest, <1>1, PTL DEF Spec

\* Types, and a closed breaker has seen fewer failures than open it.
THEOREM TypeCorrect == Spec => []TypeOK
PROOF
<1> DEFINE IInv == AskTyped /\ SingleAsk /\ Rest /\ PausedMeansOpen
<1>1. Init => IInv BY InitKeeps, InitRest
<1>2. IInv /\ [Next]_vars => IInv' BY NextKeeps, NextRest
<1>3. IInv => TypeOK BY DEF AskTyped, Rest, TypeOK, Questions
<1> QED BY <1>1, <1>2, <1>3, PTL DEF Spec
--------------------------------------------------------------------------------
(* Verdicts.                                                                *)

\* Only a request that carried nothing, in the open, waits for the keychain.
ReadingAnonymous ==
  \A t \in Tokens :
    ask[t].at = "reading" => ask[t].sent = "none" /\ ~ask[t].hidden

\* The cookie ran out before the request, and the keychain can be read.
NothingToSend(t) ==
  /\ ask[t].sent = "none" /\ ~ask[t].hidden
  /\ session = "lapsed" /\ keychain # "locked"

\* A "rejected" has come, or comes from an edge in front of the server.
Refused(t) == \/ ask[t].at = "reading" /\ ask[t].reply = "rejected"
              \/ ask[t].at = "asked" /\ flaky

Grounds(t) ==
  /\ ask[t].at \in {"asked", "reading"}
  /\ ask[t].sent = "stale" \/ Refused(t) \/ NothingToSend(t)

\* Every verdict has a question behind it: one whose cookie the server no
\* longer takes, one that was refused, or one that had nothing left to send.
VerdictEarned ==
  [][~needsReauth /\ needsReauth' => \E t \in Tokens : Grounds(t)]_vars

LEMMA ReadingKept ==
  ASSUME AskTyped, SingleAsk, ReadingAnonymous, [Next]_vars
  PROVE  ReadingAnonymous'
PROOF
<1> USE DEF AskTyped, ReadingAnonymous
<1>0. CASE UNCHANGED ask BY <1>0
<1>1. ASSUME NEW b \in BOOLEAN, Start(b) PROVE ReadingAnonymous'
  BY <1>1 DEF Start, Question, Settled
<1>2. ASSUME NEW b \in BOOLEAN, Join(b) PROVE ReadingAnonymous'
  <2> DEFINE p == pendingRecheck
  <2>1. p \in Tokens /\ ask' = [ask EXCEPT ![p] = Joined(ask[p], b)]
    BY <1>2 DEF Join
  <2>2. CASE ask[p] = Frozen BY <2>1, <2>2 DEF Joined
  <2>3. CASE ask[p] # Frozen
    <3>1. ask[p] \in Ask BY <2>1, <2>3, AskOrNot DEF SingleAsk, Free
    <3>2. /\ ask'[p].at = ask[p].at /\ ask'[p].sent = ask[p].sent
          /\ ask'[p].hidden = ask[p].hidden
      BY <2>1, <2>3, <3>1 DEF Joined, Ask
    <3> QED BY <2>1, <3>2
  <2> QED BY <2>2, <2>3
<1>3. ASSUME NEW b \in BOOLEAN, TriggerRecheck(b) PROVE ReadingAnonymous'
  BY <1>1, <1>2, <1>3 DEF TriggerRecheck
<1>4. ASSUME NEW t \in Tokens, ask' = [ask EXCEPT ![t] = Settled]
      PROVE  ReadingAnonymous'
  BY <1>4 DEF Settled
<1>5. ASSUME NEW t \in Tokens, NEW r \in Replies, Answered(t, r)
      PROVE  ReadingAnonymous'
  <2>1. CASE Settle(t, r) BY <1>4, <2>1 DEF Settle
  <2>2. CASE /\ ask[t].sent = "none" /\ ~ask[t].hidden
             /\ ask' = [ask EXCEPT ![t].at = "reading", ![t].reply = r]
    <3>1. ask[t] \in Ask BY <1>5, AskOrNot DEF Answered
    <3>2. [ask[t] EXCEPT !.at = "reading", !.reply = r].sent = "none"
          /\ ~[ask[t] EXCEPT !.at = "reading", !.reply = r].hidden
      BY <2>2, <3>1 DEF Ask
    <3> QED BY <2>2, <3>2
  <2>3. ask[t].sent \in {"none", "live", "stale"}
    BY <1>5, AskOrNot DEF Answered, Ask
  <2> QED BY <1>5, <2>1, <2>2, <2>3 DEF Answered
<1>6. ASSUME NEW t \in Tokens, Progress(t) PROVE ReadingAnonymous'
  BY <1>4, <1>5, <1>6 DEF Progress, KeychainRead, Settle
<1>7. CASE SessionEnds
  <2>1. ASSUME NEW t \in Tokens
        PROVE  \/ ask'[t] = ask[t]
               \/ ask[t].at = "asked" /\ ask'[t].at = "asked"
    <3>1. CASE ask[t].at = "asked" /\ ask[t].sent = "live" /\ session' = "revoked"
      <4>1. ask[t] \in Ask BY <3>1, AskOrNot
      <4> QED BY <1>7, <3>1, <4>1 DEF SessionEnds, Ask
    <3>2. CASE ~(ask[t].at = "asked" /\ ask[t].sent = "live" /\ session' = "revoked")
      BY <1>7, <3>2 DEF SessionEnds
    <3> QED BY <3>1, <3>2
  <2> QED BY <2>1
<1>8. ASSUME NEW t \in Tokens, Freeze(t) PROVE ReadingAnonymous'
  BY <1>8 DEF Freeze, Settled, Frozen
<1>9. CASE RecordAuthFailure
  BY <1>0, <1>1, <1>3, <1>9 DEF RecordAuthFailure, NoRecheck
<1>10. CASE OnAppForeground \/ OnNetworkReconnect \/ RecheckSession
  BY <1>0, <1>1, <1>3, <1>10 DEF OnAppForeground, OnNetworkReconnect,
     ReturnFlagged, MaybeVerify, RecheckSession, Revalidate, NoRecheck
<1> QED
  BY <1>0, <1>6, <1>7, <1>8, <1>9, <1>10 DEF Next, vars, breakerVars,
     RecordAuthSuccess, NoRecheck, VerifyCools, SignIn, WorldChanges

\* A step that raises the flag is an answer of a question in flight.
LEMMA OnlyAnswersAccuse ==
  ASSUME [Next]_vars, ~needsReauth, needsReauth'
  PROVE  \E t \in Tokens : KeychainRead(t) \/ \E r \in Replies :
           Answered(t, r) /\ Settle(t, r)
PROOF
  BY DEF Next, vars, breakerVars, RecordAuthFailure, RecordAuthSuccess,
     OnAppForeground, OnNetworkReconnect, RecheckSession, VerifyCools, SignIn,
     SessionEnds, WorldChanges, Progress, Answered, Freeze

\* The question a verdict comes from has its grounds.
LEMMA VerdictHasGrounds ==
  ASSUME AskTyped, ReadingAnonymous, NEW t \in Tokens, NEW r, Settle(t, r),
         ~needsReauth, needsReauth',
         \/ ask[t].at = "reading" /\ r = ask[t].reply
         \/ ask[t].at = "asked" /\ PossibleReply(t, r)
  PROVE  Grounds(t)
PROOF
<1>1. Outcome(t, r) = "dead"
  BY DEF Settle, Alive, NotAlive
<1>2. r = "rejected" \/ (r \notin {"session", "error"} /\
        (r = "no-session" => Basis(t) \in {"present", "expired"}))
  BY <1>1 DEF Outcome, Basis
<1>3. ask[t] \in Ask BY AskOrNot DEF AskTyped
<1>4. CASE ask[t].at = "reading"
  BY <1>2, <1>3, <1>4 DEF ReadingAnonymous, Ask, Replies, Basis, Refused, NothingToSend,
     Grounds
<1>5. CASE ask[t].at = "asked"
  BY <1>2, <1>3, <1>5 DEF PossibleReply, Ask, Basis, Refused, NothingToSend,
     Grounds
<1> QED BY <1>4, <1>5

\* The flag is raised on grounds: no request made while the latch hid the
\* keychain, or that could not read it, proves anything about the session
\* (auth-failure-breaker.ts, readRecheckBasis).
THEOREM VerdictsHaveGrounds == Spec => VerdictEarned /\ AnonymousProvesNothing
PROOF
<1> DEFINE IInv == AskTyped /\ SingleAsk /\ ReadingAnonymous
<1>1. Init => IInv
  BY InitKeeps DEF Init, ReadingAnonymous, Settled
<1>2. IInv /\ [Next]_vars => IInv'
  BY NextKeeps, ReadingKept
<1>3. IInv /\ [Next]_vars =>
        [~needsReauth /\ needsReauth' => \E t \in Tokens : Grounds(t)]_vars
  BY OnlyAnswersAccuse, VerdictHasGrounds DEF KeychainRead, Answered
<1>4. [\A t \in Tokens :
         /\ ~needsReauth /\ needsReauth' /\ ask[t].at \in {"asked", "reading"}
         /\ Settle(t, "no-session") /\ (ask[t].at = "reading" => ask[t].reply = "no-session")
         => \/ ask[t].sent # "none"
            \/ session = "lapsed" /\ keychain # "locked" /\ ~ask[t].hidden]_vars
  BY DEF Settle, Alive, NotAlive, Outcome, Basis
<1> QED
  BY <1>1, <1>2, <1>3, <1>4, PTL DEF Spec, VerdictEarned, AnonymousProvesNothing
================================================================================
