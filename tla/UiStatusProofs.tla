--------------------------- MODULE UiStatusProofs ---------------------------
(***************************************************************************)
(* Theorems about UiStatus, for any number of runs, of messages on their   *)
(* way and of timers, and any outcomes of the test packs.                  *)
(***************************************************************************)
EXTENDS UiStatus, TLAPS

USE UiStatusAssumption

\* TypeOK by who changes it: the server, the requests, the store and the user.
ServerType ==
  /\ server \in Session /\ server.status \in TestrunStatus
  /\ run \in 0 .. MaxRuns /\ reports \subseteq Runs
  /\ beginning \in BOOLEAN /\ paused \in BOOLEAN
\* A run that has begun, or is about to, has its number.
Numbered == beginning \/ server.status # IDLE => run \in Runs
MqttType == mqtt \in Seq(Session) /\ Len(mqtt) <= MaxQueue
CallsType ==
  /\ DOMAIN calls = Call
  /\ calls["reports"] \in Answer(SUBSET Runs)
  /\ \A k \in Call \ {"reports"} : calls[k] \in Answer(Session)
StoreType ==
  /\ loaded \in BOOLEAN /\ snack \in BOOLEAN /\ waitTimer \in BOOLEAN
  /\ complete \in BOOLEAN /\ loading \in BOOLEAN
  /\ sub \in {"off", "asked", "on"}
  /\ shown \in Session /\ status \in UiStatuses
  /\ dismissals \in 0 .. MaxTimers
  /\ modal \in {"none", "due", "open"}
DialogType == dialog \in {"none", "start", "sent", "stop"}

LEMMA TypeParts ==
  TypeOK <=> ServerType /\ MqttType /\ CallsType /\ StoreType /\ DialogType
BY DEF TypeOK, ServerType, MqttType, CallsType, StoreType, DialogType

LEMMA StatusFacts ==
  /\ TestrunStatus \subseteq UiStatuses
  /\ CANCELLING \in UiStatuses /\ Unset \in UiStatuses
  /\ IDLE \in TestrunStatus /\ STARTING \in TestrunStatus
  /\ STOPPING \in TestrunStatus /\ CANCELLED \in TestrunStatus
  /\ OutcomeStatus \subseteq TestrunStatus
  /\ RunningStatus \subseteq TestrunStatus
BY DEF UiStatuses, TestrunStatus, OutcomeStatus, RunningStatus, IDLE, STARTING,
       WAITING_FOR_DEVICE, MONITORING, IN_PROGRESS, CANCELLED, STOPPING, VALIDATING,
       COMPLETE, PROCEED, DO_NOT_PROCEED

LEMMA StatusesDiffer ==
  /\ IDLE \notin RunningStatus /\ STOPPING # IDLE /\ IN_PROGRESS # IDLE
  /\ CANCELLING # IDLE /\ WAITING_FOR_DEVICE # IDLE /\ STARTING # IDLE
BY DEF RunningStatus, IDLE, STARTING, WAITING_FOR_DEVICE, MONITORING, IN_PROGRESS,
       STOPPING, VALIDATING, CANCELLING

LEMMA ConstantSessions ==
  /\ IDLE_STATUS \in Session /\ EMPTY_STATUS \in Session
  /\ Said(STARTING, FALSE, 0) \in Session
  /\ Said(STARTING, FALSE, 0).status = STARTING
  /\ IDLE_STATUS.status = IDLE
<1>1. 0 \in 0 .. MaxRuns  OBVIOUS
<1>2. \A s \in UiStatuses : Said(s, FALSE, 0) \in Session /\ Said(s, FALSE, 0).status = s
  BY <1>1 DEF Said, Session
<1>3. QED  BY <1>2, StatusFacts DEF IDLE_STATUS, EMPTY_STATUS

\* The server's own steps keep to the types of what it says.
LEMMA FollowsType ==
  ASSUME NEW s \in TestrunStatus
  PROVE  Run!Follows[s] \subseteq TestrunStatus
<1>1. /\ Run!TestrunStatus = TestrunStatus /\ Run!OutcomeStatus = OutcomeStatus
      /\ {Run!STARTING, Run!VALIDATING, Run!WAITING_FOR_DEVICE, Run!MONITORING,
          Run!IN_PROGRESS, Run!CANCELLED, Run!IDLE} \subseteq TestrunStatus
      /\ OutcomeStatus \subseteq TestrunStatus
  BY DEF Run!TestrunStatus, Run!OutcomeStatus, Run!IDLE, Run!STARTING,
     Run!WAITING_FOR_DEVICE, Run!MONITORING, Run!IN_PROGRESS, Run!CANCELLED,
     Run!STOPPING, Run!VALIDATING, Run!COMPLETE, Run!PROCEED, Run!DO_NOT_PROCEED,
     TestrunStatus, OutcomeStatus, IDLE, STARTING, WAITING_FOR_DEVICE, MONITORING,
     IN_PROGRESS, CANCELLED, STOPPING, VALIDATING, COMPLETE, PROCEED, DO_NOT_PROCEED
<1>2. QED  BY <1>1 DEF Run!Follows

LEMMA PublishType ==
  ASSUME ServerType, MqttType, NEW s \in Session, s.status \in TestrunStatus,
         Publish(s)
  PROVE  /\ server' \in Session /\ server'.status \in TestrunStatus
         /\ paused' \in BOOLEAN /\ MqttType'
<1>1. mqtt' = mqtt \/ (Len(mqtt) < MaxQueue /\ mqtt' = Append(mqtt, s))
  BY DEF Publish
<1>2. MqttType'  BY <1>1 DEF MqttType
<1>3. QED  BY <1>2 DEF ServerType, Publish

LEMMA BeginType ==
  ASSUME ServerType, MqttType, Begin
  PROVE  /\ server' \in Session /\ server'.status \in TestrunStatus
         /\ paused' \in BOOLEAN /\ MqttType'
<1>1. Said(STARTING, FALSE, 0) \in Session
      /\ Said(STARTING, FALSE, 0).status \in TestrunStatus
  BY ConstantSessions, StatusFacts
<1>2. server' = Said(STARTING, FALSE, 0) /\ paused' = FALSE  BY DEF Begin
<1>3. mqtt' = mqtt \/ (Len(mqtt) < MaxQueue /\ mqtt' = Append(mqtt, server'))
  BY DEF Begin
<1>4. server' \in Session  BY <1>1, <1>2
<1>5. MqttType'  BY <1>3, <1>4 DEF MqttType
<1>6. QED  BY <1>1, <1>2, <1>4, <1>5

LEMMA ServerMovesType ==
  ASSUME ServerType, MqttType, Numbered, ServerMoves
  PROVE  ServerType' /\ MqttType' /\ Numbered'
<1>1. CASE ServerStep
  <2>1. PICK s \in TestrunStatus : Publish([server EXCEPT !.status = s])
    BY <1>1, StatusFacts, FollowsType DEF ServerStep, ServerType
  <2>2. /\ [server EXCEPT !.status = s] \in Session
        /\ [server EXCEPT !.status = s].status \in TestrunStatus
    BY <2>1, StatusFacts DEF ServerType, Session
  <2>3. server.status # IDLE /\ UNCHANGED <<run, beginning, reports>>
    BY <1>1, StatusesDiffer DEF ServerStep, InProgress
  <2>4. QED  BY <2>1, <2>2, <2>3, PublishType DEF ServerType, Numbered
<1>2. CASE ServerReports
  <2> DEFINE withResults == [server EXCEPT !.results = TRUE]
             withReport == [server EXCEPT !.report = run]
  <2>1. /\ withResults \in Session /\ withResults.status = server.status
        /\ withReport \in Session /\ withReport.status = server.status
    BY DEF ServerType, Session
  <2>2. Publish(server) \/ Publish(withResults) \/ Publish(withReport)
    BY <1>2 DEF ServerReports
  <2> HIDE DEF withResults, withReport
  <2>3. PICK s \in Session : s.status = server.status /\ Publish(s)
    BY <2>1, <2>2 DEF ServerType
  <2>4. /\ server' \in Session /\ server'.status \in TestrunStatus
        /\ paused' \in BOOLEAN /\ MqttType'
    BY <2>3, PublishType DEF ServerType
  <2>5. server' = s /\ UNCHANGED <<run, beginning, reports>>
    BY <1>2, <2>3 DEF ServerReports, Publish
  <2>6. QED  BY <2>3, <2>4, <2>5 DEF ServerType, Numbered
<1>3. CASE ServerAddsReport
  <2>1. run \in Runs  BY <1>3, StatusesDiffer DEF ServerAddsReport, Numbered
  <2>2. QED  BY <1>3, <2>1 DEF ServerAddsReport, ServerType, MqttType, Numbered
<1>4. CASE ServerBegins
  <2>1. run \in Runs /\ UNCHANGED <<run, reports>> /\ Begin /\ beginning' = FALSE
    BY <1>4 DEF ServerBegins, Numbered
  <2>2. QED  BY <2>1, BeginType DEF ServerType, Numbered
<1>5. CASE ServerDeletesReport
  BY <1>5 DEF ServerDeletesReport, ServerType, MqttType, Numbered
<1>6. QED  BY <1>1, <1>2, <1>3, <1>4, <1>5 DEF ServerMoves

-----------------------------------------------------------------------------
(***************************************************************************)
(* The requests and their answers.                                         *)
(***************************************************************************)

\* One request is given an answer of its type.
LEMMA CallType ==
  ASSUME CallsType, NEW k \in Call, NEW a,
         calls' = [calls EXCEPT ![k] = a],
         k = "reports" => a \in Answer(SUBSET Runs),
         k # "reports" => a \in Answer(Session)
  PROVE  CallsType'
<1>1. DOMAIN calls' = Call /\ \A j \in Call : calls'[j] = IF j = k THEN a ELSE calls[j]
  BY DEF CallsType
<1>2. "reports" \in Call  BY DEF Call
<1>3. QED  BY <1>1, <1>2 DEF CallsType

LEMMA AnswerFacts ==
  ASSUME NEW B
  PROVE  /\ None \in Answer(B) /\ Sent \in Answer(B) /\ Failed \in Answer(B)
         /\ \A b \in B : Answered(b) \in Answer(B)
         /\ \A a \in Answer(B) : a \notin {None, Sent, Failed} => a.body \in B
BY DEF None, Sent, Failed, Answered, Answer

LEMMA ServerAnswersType ==
  ASSUME ServerType, MqttType, Numbered, CallsType, ServerAnswers
  PROVE  ServerType' /\ MqttType' /\ Numbered' /\ CallsType'
<1> USE DEF serverVars
<1>0. Call = {"status", "reports", "start", "stop"}  BY DEF Call
<1>1. CASE AnswerStatus
  <2>1. PICK a \in Answer(Session) : calls' = [calls EXCEPT !["status"] = a]
    BY <1>1, AnswerFacts DEF AnswerStatus, Answers, ServerType
  <2>2. CallsType'  BY <1>0, <2>1, CallType
  <2>3. QED  BY <1>1, <2>2 DEF AnswerStatus, ServerType, MqttType, Numbered
<1>2. CASE AnswerReports
  <2>1. PICK a \in Answer(SUBSET Runs) : calls' = [calls EXCEPT !["reports"] = a]
    BY <1>2, AnswerFacts DEF AnswerReports, Answers, ServerType
  <2>2. CallsType'  BY <1>0, <2>1, CallType
  <2>3. QED  BY <1>2, <2>2 DEF AnswerReports, ServerType, MqttType, Numbered
<1>3. CASE AnswerStart
  <2>1. ASSUME NEW a \in Answer(Session), AnswersStart(a)
        PROVE  CallsType'
    <3>1. PICK b \in Answer(Session) : calls' = [calls EXCEPT !["start"] = b]
      BY <2>1, AnswerFacts DEF AnswersStart, Answers
    <3>2. QED  BY <1>0, <3>1, CallType
  <2>2. CASE AnswersStart(Failed) /\ UNCHANGED <<serverVars, mqtt>>
    BY <2>1, <2>2, AnswerFacts DEF ServerType, MqttType, Numbered
  <2>3. CASE /\ run < MaxRuns /\ run' = run + 1 /\ beginning' = TRUE
             /\ \E seen \in {Failed, Answered(server), Answered(IDLE_STATUS)} :
                  AnswersStart(seen)
             /\ UNCHANGED <<server, paused, reports, mqtt>>
    <3>1. CallsType'
      BY <2>1, <2>3, AnswerFacts, ConstantSessions DEF ServerType
    <3>2. run' \in Runs  BY <2>3 DEF ServerType, Runs
    <3>3. QED  BY <2>3, <3>1, <3>2 DEF ServerType, MqttType, Numbered, Runs
  <2>4. CASE /\ run < MaxRuns /\ run' = run + 1
             /\ Begin /\ AnswersStart(Answered(server'))
             /\ UNCHANGED <<beginning, reports>>
    <3>1. /\ server' \in Session /\ server'.status \in TestrunStatus
          /\ paused' \in BOOLEAN /\ MqttType'
      BY <2>4, BeginType
    <3>2. CallsType'  BY <2>1, <2>4, <3>1, AnswerFacts
    <3>3. run' \in Runs  BY <2>4 DEF ServerType, Runs
    <3>4. QED  BY <2>4, <3>1, <3>2, <3>3 DEF ServerType, Numbered, Runs
  <2>5. QED  BY <1>3, <2>2, <2>3, <2>4 DEF AnswerStart
<1>4. CASE AnswerStop
  <2>1. CallsType'
    BY <1>0, <1>4, AnswerFacts, CallType DEF AnswerStop, Answers
  <2>2. CASE server.status \in InProgress /\ Publish([server EXCEPT !.status = STOPPING])
    <3>1. /\ [server EXCEPT !.status = STOPPING] \in Session
          /\ [server EXCEPT !.status = STOPPING].status \in TestrunStatus
      BY StatusFacts DEF ServerType, Session
    <3>2. /\ server' \in Session /\ server'.status \in TestrunStatus
          /\ paused' \in BOOLEAN /\ MqttType'
      BY <2>2, <3>1, PublishType
    <3>3. server.status # IDLE  BY <2>2, StatusesDiffer DEF InProgress
    <3>4. QED  BY <1>4, <2>1, <3>2, <3>3 DEF AnswerStop, ServerType, Numbered
  <2>3. CASE UNCHANGED <<server, paused, mqtt>>
    BY <1>4, <2>1, <2>3 DEF AnswerStop, ServerType, MqttType, Numbered
  <2>4. QED  BY <1>4, <2>2, <2>3 DEF AnswerStop
<1>5. QED  BY <1>1, <1>2, <1>3, <1>4 DEF ServerAnswers

-----------------------------------------------------------------------------
(***************************************************************************)
(* The store.                                                              *)
(***************************************************************************)

\* Whatever status is fetched or delivered, the store takes it with its types,
\* the application learns it, and a notification that should go has a timer.
StoreInv == StoreType /\ StatusAgrees /\ SnackBarExplained

LEMMA FetchStep ==
  ASSUME StoreInv, NEW s \in Session, fetchSystemStatusSuccess(s)
  PROVE  StoreInv'
<1> USE DEF fetchSystemStatusSuccess
<1>1. StoreType /\ StatusAgrees /\ SnackBarExplained /\ s.status \in UiStatuses
  BY DEF StoreInv, Session
<1>2. shown' = s /\ loading' \in BOOLEAN
  BY <1>1 DEF setTestrunStatus, Loading, StoreType
<1>3. sub' \in {"off", "asked", "on"}  BY <1>1 DEF Subscribed, stopInterval, StoreType
<1>4. /\ status' \in UiStatuses /\ loaded' \in BOOLEAN
      /\ s.status \in {status', CANCELLING}
  BY <1>1 DEF AppStatus, statusLoaded, StatusAgrees, StoreType
<1>5. complete' \in BOOLEAN /\ modal' \in {"none", "due", "open"}
  BY <1>1 DEF Completion, StoreType
<1>6. /\ snack' = snack /\ waitTimer' \in BOOLEAN
      /\ dismissals' \in 0 .. MaxTimers
      /\ snack /\ s.status # WAITING_FOR_DEVICE => dismissals' > 0
  <2>1. snack' = snack  BY DEF Notification
  <2>2. waitTimer' \in BOOLEAN
    <3>1. CASE snack  BY <1>1, <3>1 DEF Notification, StoreType
    <3>2. CASE ~snack
      BY <3>2, (s.status = WAITING_FOR_DEVICE) \in BOOLEAN DEF Notification
    <3>3. QED  BY <3>1, <3>2
  <2>3. dismissals' \in 0 .. MaxTimers
    <3>1. dismissals \in 0 .. MaxTimers  BY <1>1 DEF StoreType
    <3>2. dismissals' = dismissals
          \/ (dismissals < MaxTimers /\ dismissals' = dismissals + 1)
      BY DEF Notification
    <3>3. QED  BY <3>1, <3>2
  <2>4. snack /\ s.status # WAITING_FOR_DEVICE => dismissals' > 0
    <3>1. dismissals \in 0 .. MaxTimers  BY <1>1 DEF StoreType
    <3>2. ASSUME snack, s.status # WAITING_FOR_DEVICE
          PROVE  dismissals' = IF dismissals < MaxTimers THEN dismissals + 1
                                                         ELSE dismissals
      BY <3>2 DEF Notification
    <3>3. QED  BY <3>1, <3>2
  <2>5. QED  BY <2>1, <2>2, <2>3, <2>4
<1>7. StoreType'  BY <1>1, <1>2, <1>3, <1>4, <1>5, <1>6 DEF StoreType
<1>8. StatusAgrees'  BY <1>2, <1>4 DEF StatusAgrees
<1>9. SnackBarExplained'  BY <1>2, <1>6 DEF SnackBarExplained
<1>10. QED  BY <1>7, <1>8, <1>9 DEF StoreInv

LEMMA StoreStays ==
  ASSUME StoreInv, UNCHANGED storeVars
  PROVE  StoreInv'
BY DEF StoreInv, StoreType, StatusAgrees, SnackBarExplained, storeVars, snackVars

\* An answer is heard, or a message.
LEMMA AnswerHeard ==
  ASSUME StoreInv, CallsType, MqttType, DialogType,
         StatusFetched \/ ReportsFetched \/ StartAnswered \/ Deliver
  PROVE  StoreInv' /\ CallsType' /\ MqttType' /\ DialogType'
<1>0. Call = {"status", "reports", "start", "stop"}  BY DEF Call
<1>1. CASE StatusFetched
  <2>1. calls["status"] = Failed \/ calls["status"].body \in Session
    BY <1>0, <1>1, AnswerFacts DEF StatusFetched, CallsType
  <2>2. PICK s \in Session : fetchSystemStatusSuccess(s)
    BY <1>1, <2>1, ConstantSessions DEF StatusFetched
  <2>3. StoreInv'  BY <2>2, FetchStep
  <2>4. CallsType'  BY <1>0, <1>1, AnswerFacts, CallType DEF StatusFetched
  <2>5. QED  BY <1>1, <2>3, <2>4 DEF StatusFetched, MqttType, DialogType
<1>2. CASE ReportsFetched
  <2>1. StoreInv'
    BY <1>2, FetchStep, StoreStays, ConstantSessions DEF ReportsFetched, NoStatus
  <2>2. CallsType'  BY <1>0, <1>2, AnswerFacts, CallType DEF ReportsFetched
  <2>3. QED  BY <1>2, <2>1, <2>2 DEF ReportsFetched, MqttType, DialogType
<1>3. CASE StartAnswered
  <2>1. calls["start"] = Failed \/ calls["start"].body \in Session
    BY <1>0, <1>3, AnswerFacts DEF StartAnswered, CallsType
  <2>2. StoreInv'
    BY <1>3, <2>1, FetchStep, StoreStays DEF StartAnswered, NoStatus
  <2>3. CallsType'  BY <1>0, <1>3, AnswerFacts, CallType DEF StartAnswered
  <2>4. QED  BY <1>3, <2>2, <2>3 DEF StartAnswered, MqttType, DialogType
<1>4. CASE Deliver
  <2>1. Head(mqtt) \in Session  BY <1>4 DEF Deliver, MqttType
  <2>2. StoreInv'  BY <1>4, <2>1, FetchStep, StoreStays DEF Deliver, NoStatus
  <2>3. Tail(mqtt) \in Seq(Session) /\ Len(Tail(mqtt)) <= MaxQueue
    BY <1>4 DEF Deliver, MqttType
  <2>4. QED  BY <1>4, <2>2, <2>3 DEF Deliver, MqttType, CallsType, DialogType
<1>5. QED  BY <1>1, <1>2, <1>3, <1>4

\* A timer fires.
LEMMA TimerStep ==
  ASSUME StoreInv, OpenTimer \/ DismissTimer \/ CompleteTimer
  PROVE  StoreInv'
<1> USE DEF StoreInv, StoreType, StatusAgrees, SnackBarExplained, snackVars
<1>1. CASE OpenTimer  BY <1>1 DEF OpenTimer, openSnackBar
<1>2. CASE DismissTimer
  <2>1. dismissals' \in 0 .. MaxTimers  BY <1>2 DEF DismissTimer
  <2>2. snack' = FALSE  BY <1>2 DEF DismissTimer
  <2>3. UNCHANGED <<sub, shown, status, loaded, waitTimer, complete, modal, loading>>
    BY <1>2 DEF DismissTimer
  <2>4. QED  BY <2>1, <2>2, <2>3
<1>3. CASE CompleteTimer  BY <1>3 DEF CompleteTimer
<1>4. QED  BY <1>1, <1>2, <1>3

\* The user acts, and the broker hears of the subscription.
LEMMA UserStep ==
  ASSUME StoreInv, CallsType, DialogType, User \/ BrokerSubscribes
  PROVE  StoreInv' /\ CallsType' /\ DialogType' /\ UNCHANGED <<serverVars, mqtt>>
<1>0. Call = {"status", "reports", "start", "stop"}  BY DEF Call
<1>1. CASE OpenStart \/ OpenStop
  BY <1>1, StoreStays DEF OpenStart, OpenStop, CallsType, DialogType
<1>2. CASE StartTestRun \/ FetchReports
  <2>1. CallsType'
    BY <1>0, <1>2, AnswerFacts, CallType DEF StartTestRun, FetchReports
  <2>2. QED  BY <1>2, <2>1, StoreStays DEF StartTestRun, FetchReports, DialogType
<1>3. CASE CloseDialog
  <2>1. calls' = calls \/ calls' = [calls EXCEPT !["start"] = None]
    BY <1>3 DEF CloseDialog
  <2>2. CallsType'
    <3>1. CASE calls' = calls  BY <3>1 DEF CallsType
    <3>2. CASE calls' = [calls EXCEPT !["start"] = None]
      BY <1>0, <3>2, AnswerFacts, CallType
    <3>3. QED  BY <2>1, <3>1, <3>2
  <2>3. QED  BY <1>3, <2>2, StoreStays DEF CloseDialog, DialogType
<1>4. CASE ConfirmStop
  <2>1. CallsType'
    BY <1>0, <1>4, AnswerFacts, CallType DEF ConfirmStop, sendStop
  <2>2. /\ shown' = [shown EXCEPT !.status = CANCELLING]
        /\ loading' \in BOOLEAN
        /\ UNCHANGED <<sub, status, loaded, snackVars, complete, modal>>
    BY <1>4 DEF ConfirmStop, setTestrunStatus, getCancellingStatus, Loading,
       StoreInv, StoreType
  <2>3. shown' \in Session /\ shown'.status = CANCELLING
    BY <2>2, StatusFacts DEF StoreInv, StoreType, Session
  <2>4. StoreInv'
    BY <2>2, <2>3 DEF StoreInv, StoreType, StatusAgrees, SnackBarExplained, snackVars
  <2>5. QED  BY <1>4, <2>1, <2>4 DEF ConfirmStop, DialogType
<1>5. CASE CloseModal
  BY <1>5 DEF CloseModal, CallsType, DialogType, StoreInv, StoreType, StatusAgrees,
     SnackBarExplained, snackVars
<1>6. CASE SnackBarAction
  <2>1. CallsType'
    <3>1. CASE UNCHANGED calls  BY <3>1 DEF CallsType
    <3>2. CASE sendStop  BY <1>0, <3>2, AnswerFacts, CallType DEF sendStop
    <3>3. QED  BY <1>6, <3>1, <3>2 DEF SnackBarAction
  <2>2. StoreInv'
    BY <1>6 DEF SnackBarAction, StoreInv, StoreType, StatusAgrees, SnackBarExplained
  <2>3. QED  BY <1>6, <2>1, <2>2 DEF SnackBarAction, DialogType
<1>7. CASE BrokerSubscribes
  BY <1>7 DEF BrokerSubscribes, CallsType, DialogType, StoreInv, StoreType,
     StatusAgrees, SnackBarExplained, snackVars
<1>8. QED  BY <1>1, <1>2, <1>3, <1>4, <1>5, <1>6, <1>7 DEF User

-----------------------------------------------------------------------------
(***************************************************************************)
(* The invariant and what follows from it.                                 *)
(***************************************************************************)
UiInv == ServerType /\ MqttType /\ Numbered /\ CallsType /\ StoreInv /\ DialogType

LEMMA InitUiInv == Init => UiInv
<1> SUFFICES ASSUME Init PROVE UiInv
  OBVIOUS
<1>1. PICK s \in TestrunStatus, r \in BOOLEAN, u \in {0, 1} :
        /\ server = Said(s, r, u) /\ run \in {0, 1}
        /\ s # IDLE => run = 1
  BY StatusFacts DEF Init, IDLE_STATUS
<1>2. {0, 1} \subseteq 0 .. MaxRuns /\ 1 \in Runs  BY DEF Runs
<1>3. server \in Session /\ server.status = s
  <2>1. u \in 0 .. MaxRuns /\ s \in UiStatuses  BY <1>2, StatusFacts
  <2>2. QED  BY <1>1, <2>1 DEF Said, Session
<1>4. reports \subseteq Runs
  BY <1>1, <1>2 DEF Init, Said
<1>5. ServerType /\ Numbered
  <2>1. run \in 0 .. MaxRuns /\ server.status \in TestrunStatus  BY <1>1, <1>2, <1>3
  <2>2. beginning = FALSE /\ paused \in BOOLEAN  BY DEF Init
  <2>3. server.status # IDLE => run \in Runs  BY <1>1, <1>2, <1>3
  <2>4. ServerType  BY <1>3, <1>4, <2>1, <2>2 DEF ServerType
  <2>5. Numbered  BY <2>2, <2>3 DEF Numbered
  <2>6. QED  BY <2>4, <2>5
<1>6. MqttType  BY DEF Init, MqttType
<1>7. CallsType
  <2>1. "reports" \in Call  BY DEF Call
  <2>2. DOMAIN calls = Call /\ \A k \in Call : calls[k] \in {Sent, None}
    BY DEF Init
  <2>3. QED  BY <2>1, <2>2, AnswerFacts DEF CallsType
<1>8. StoreInv
  <2>1. shown \in Session /\ shown.status = Unset /\ status = Unset /\ Unset \in UiStatuses
    BY ConstantSessions, StatusFacts DEF Init, EMPTY_STATUS, Said
  <2>2. /\ sub = "off" /\ loaded = FALSE /\ snack = FALSE /\ waitTimer = FALSE
        /\ dismissals = 0 /\ complete = FALSE /\ modal = "none" /\ loading = FALSE
    BY DEF Init
  <2>3. dismissals \in 0 .. MaxTimers  BY <2>2
  <2>4. StoreType  BY <2>1, <2>2, <2>3 DEF StoreType
  <2>5. StatusAgrees /\ SnackBarExplained
    BY <2>1, <2>2 DEF StatusAgrees, SnackBarExplained
  <2>6. QED  BY <2>4, <2>5 DEF StoreInv
<1>9. DialogType  BY DEF Init, DialogType
<1>10. QED  BY <1>5, <1>6, <1>7, <1>8, <1>9 DEF UiInv

LEMMA NextUiInv == UiInv /\ [Next]_vars => UiInv'
<1> SUFFICES ASSUME UiInv, [Next]_vars PROVE UiInv'
  OBVIOUS
<1> USE DEF UiInv
<1>1. CASE ServerMoves
  <2>1. UNCHANGED <<calls, storeVars, dialog>>  BY <1>1 DEF ServerMoves
  <2>2. CallsType' /\ DialogType'  BY <2>1 DEF CallsType, DialogType
  <2>3. QED  BY <1>1, <2>1, <2>2, ServerMovesType, StoreStays
<1>2. CASE ServerAnswers
  <2>1. UNCHANGED <<storeVars, dialog>>  BY <1>2 DEF ServerAnswers
  <2>2. DialogType'  BY <2>1 DEF DialogType
  <2>3. QED  BY <1>2, <2>1, <2>2, ServerAnswersType, StoreStays
<1>3. CASE StatusFetched \/ ReportsFetched \/ StartAnswered \/ Deliver
  <2>1. UNCHANGED serverVars
    BY <1>3 DEF StatusFetched, ReportsFetched, StartAnswered, Deliver
  <2>2. ServerType' /\ Numbered'  BY <2>1 DEF ServerType, Numbered, serverVars
  <2>3. QED  BY <1>3, <2>2, AnswerHeard
<1>4. CASE OpenTimer \/ DismissTimer \/ CompleteTimer
  <2>1. UNCHANGED <<serverVars, mqtt, calls, dialog>>
    BY <1>4 DEF OpenTimer, openSnackBar, DismissTimer, CompleteTimer
  <2>2. ServerType' /\ Numbered' /\ MqttType' /\ CallsType' /\ DialogType'
    BY <2>1 DEF ServerType, Numbered, MqttType, CallsType, DialogType, serverVars
  <2>3. QED  BY <1>4, <2>2, TimerStep
<1>5. CASE User \/ BrokerSubscribes
  <2>1. StoreInv' /\ CallsType' /\ DialogType' /\ UNCHANGED <<serverVars, mqtt>>
    BY <1>5, UserStep
  <2>2. QED  BY <2>1 DEF ServerType, Numbered, MqttType, serverVars
<1>6. CASE UNCHANGED vars
  BY <1>6, StoreStays DEF vars, serverVars, ServerType, Numbered, MqttType, CallsType,
     DialogType
<1>7. QED  BY <1>1, <1>2, <1>3, <1>4, <1>5, <1>6 DEF Next

\* The types of UiStatus, for any bounds.  That a run that is on has its number
\* is what keeps the list of the reports to the runs there were.
THEOREM UiTypeCorrect == Spec => []TypeOK
<1>1. UiInv => TypeOK  BY TypeParts DEF UiInv, StoreInv
<1>2. QED  BY <1>1, InitUiInv, NextUiInv, PTL DEF Spec

\* The status the application goes by is the status that is shown, but for a
\* stop (onFetchSystemStatusSuccess, stopTestrun), whatever answers and
\* messages cross each other, also when the same status comes twice.
THEOREM StatusesAgree == Spec => []StatusAgrees
<1>1. UiInv => StatusAgrees  BY DEF UiInv, StoreInv
<1>2. QED  BY <1>1, InitUiInv, NextUiInv, PTL DEF Spec

\* A notification that the device is waited for never stays with nobody to
\* take it away (showSnackBar, dismissWithTimout).
THEOREM NotificationsExplained == Spec => []SnackBarExplained
<1>1. UiInv => SnackBarExplained  BY DEF UiInv, StoreInv
<1>2. QED  BY <1>1, InitUiInv, NextUiInv, PTL DEF Spec
=============================================================================
