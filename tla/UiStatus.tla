------------------------------ MODULE UiStatus ------------------------------
(***************************************************************************)
(* What the user interface knows of the run: the ngrx store and its        *)
(* effects (store/effects.ts), the store of the application and that of    *)
(* the testing page, the dialogs that start and stop a run, and the        *)
(* notification that the device is waited for.                             *)
(*                                                                         *)
(* The server is RunLifecycle with a stop of its own.  It answers requests *)
(* and publishes its status on every change, and is silent once it has     *)
(* published an ending (session_tracker).  The interface asks for the      *)
(* status once, when it is loaded; after that it only learns what is       *)
(* published, and only whilst it is subscribed.                            *)
(***************************************************************************)
EXTENDS Statuses, Naturals, Sequences

CONSTANTS
  Outcomes,   \* the outcomes that the test packs give
  MaxRuns,    \* bound: runs started
  MaxQueue,   \* bound: messages published and not delivered
  MaxTimers   \* bound: timers that dismiss the notification; a later one
              \* fires with the last of them

ASSUME UiStatusAssumption ==
  /\ Outcomes \subseteq OutcomeStatus
  /\ {MaxRuns, MaxQueue, MaxTimers} \subseteq Nat \ {0}

VARIABLES
  server,     \* the session: its status, whether it has results, its report
  run,        \* the number of the run
  beginning,  \* a start was accepted and its thread has not begun
  paused,     \* session.pause_message
  reports,    \* the runs whose report the server lists
  mqtt,       \* the status messages on their way to the interface
  calls,      \* the request of each kind that is under way
  sub,        \* AppEffects.statusSubscription
  shown,      \* AppState.systemStatus
  status,     \* AppState.status
  loaded,     \* AppComponentState.isStatusLoaded
  snack,      \* AppState.isOpenWaitSnackBar
  waitTimer,  \* a timer of showSnackBar runs
  dismissals, \* the timers of dismissWithTimout that run
  complete,   \* AppState.isTestingComplete
  modal,      \* the dialog of TestingCompleteComponent: none, due or open
  dialog,     \* the dialog the user has open: none, start, sent or stop
  loading     \* LoaderService.loading$, as the store of the testing page sets it

serverVars == <<server, run, beginning, paused, reports>>
snackVars == <<snack, waitTimer, dismissals>>
storeVars == <<sub, shown, status, loaded, snackVars, complete, modal, loading>>
vars == <<serverVars, mqtt, calls, storeVars, dialog>>

Runs == 1 .. MaxRuns
CANCELLING == "Cancelling"     \* a status only the interface knows
Unset == "undefined"           \* the status of {} and of null
UiStatuses == TestrunStatus \cup {CANCELLING, Unset}

\* What a status says here; report 0 is the empty url.
Session == [status : UiStatuses, results : BOOLEAN, report : 0 .. MaxRuns]
Said(s, r, u) == [status |-> s, results |-> r, report |-> u]
IDLE_STATUS == Said(IDLE, FALSE, 0)
EMPTY_STATUS == Said(Unset, FALSE, 0)

Call == {"status", "reports", "start", "stop"}
None == [at |-> "none"]
Sent == [at |-> "sent"]
Failed == [at |-> "failed"]
Answered(b) == [at |-> "answered", body |-> b]
Answer(B) == [at : {"none", "sent", "failed"}] \cup [at : {"answered"}, body : B]

InProgress == RunningStatus    \* testrunInProgress names the same five
Finished == OutcomeStatus      \* isTestrunFinished; no session says Error
Ended == STATUSES_COMPLETE \ {IDLE}

\* The run the server is at, as RunLifecycle has it.
Run == INSTANCE RunLifecycle WITH status <- server.status

TypeOK ==
  /\ server \in Session /\ server.status \in TestrunStatus
  /\ run \in 0 .. MaxRuns /\ reports \subseteq Runs
  /\ {beginning, paused, loaded, snack, waitTimer, complete, loading}
       \subseteq BOOLEAN
  /\ mqtt \in Seq(Session) /\ Len(mqtt) <= MaxQueue
  /\ DOMAIN calls = Call
  /\ calls["reports"] \in Answer(SUBSET Runs)
  /\ \A k \in Call \ {"reports"} : calls[k] \in Answer(Session)
  /\ sub \in {"off", "asked", "on"}
  /\ shown \in Session /\ status \in UiStatuses
  /\ dismissals \in 0 .. MaxTimers
  /\ modal \in {"none", "due", "open"}
  /\ dialog \in {"none", "start", "sent", "stop"}

\* The page is loaded, whatever the server is doing; app.component asks for
\* the status and the reports.
Init ==
  /\ \/ server = IDLE_STATUS /\ run = 0
     \/ \E s \in TestrunStatus \ ({IDLE} \cup OutcomeStatus) :
          server = Said(s, FALSE, 0) /\ run = 1
     \/ \E s \in Outcomes : server = Said(s, TRUE, 1) /\ run = 1
  /\ reports = IF server.report = 0 THEN {} ELSE {server.report}
  /\ paused = (server.status \in Ended) /\ beginning = FALSE
  /\ mqtt = <<>>
  /\ calls = [k \in Call |-> IF k \in {"status", "reports"} THEN Sent ELSE None]
  /\ sub = "off" /\ shown = EMPTY_STATUS /\ status = Unset /\ loaded = FALSE
  /\ snack = FALSE /\ waitTimer = FALSE /\ dismissals = 0
  /\ complete = FALSE /\ modal = "none" /\ dialog = "none"
  /\ loading = FALSE

-----------------------------------------------------------------------------
(***************************************************************************)
(* The server.                                                             *)
(***************************************************************************)

\* session_tracker: a change is published to whoever is subscribed.
Publish(s) ==
  /\ server' = s
  /\ paused' = (paused \/ s.status \in Ended)
  /\ IF paused \/ sub /= "on" THEN UNCHANGED mqtt
     ELSE Len(mqtt) < MaxQueue /\ mqtt' = Append(mqtt, s)

\* The run goes on, or ends; an outcome comes with the report.
ServerStep ==
  /\ server.status \in InProgress \cup {STOPPING} /\ ~beginning
  /\ \E s \in IF server.status = STOPPING THEN {CANCELLED}
              ELSE Run!Follows[server.status] :
       /\ s \in OutcomeStatus => s \in Outcomes /\ run \in reports
       /\ Publish([server EXCEPT !.status = s])
  /\ UNCHANGED <<run, beginning, reports>>

\* Something else of the session changes: a result, the url of the report.
\* Bound: not before what was published is delivered.
ServerReports ==
  /\ mqtt = <<>> /\ server.status \in InProgress /\ ~beginning
  /\ \/ Publish(server) /\ server.status /= IN_PROGRESS
     \/ /\ server.status = IN_PROGRESS
        /\ \/ Publish([server EXCEPT !.results = TRUE])
           \/ server.results /\ Publish([server EXCEPT !.report = run])
  /\ UNCHANGED <<run, beginning, reports>>

\* device.add_report, once the url is set and before the status is.
ServerAddsReport ==
  /\ server.status = IN_PROGRESS /\ server.report = run /\ run \notin reports
  /\ reports' = reports \cup {run}
  /\ UNCHANGED <<server, run, beginning, paused, mqtt>>

\* The thread of a start begins: session.start resets the session.
Begin ==
  /\ paused' = FALSE
  /\ server' = Said(STARTING, FALSE, 0)
  /\ IF sub = "on" THEN Len(mqtt) < MaxQueue /\ mqtt' = Append(mqtt, server')
     ELSE UNCHANGED mqtt

ServerBegins ==
  /\ beginning /\ beginning' = FALSE /\ Begin
  /\ UNCHANGED <<run, reports>>

\* A report is deleted, by whom ever.
ServerDeletesReport ==
  /\ \E r \in reports : /\ (r /= run \/ server.status \in Ended)
                          /\ reports' = reports \ {r}
  /\ UNCHANGED <<server, run, beginning, paused, mqtt>>

ServerMoves ==
  /\ ServerStep \/ ServerReports \/ ServerAddsReport \/ ServerBegins
       \/ ServerDeletesReport
  /\ UNCHANGED <<calls, storeVars, dialog>>

\* The broker hears of the subscription.
BrokerSubscribes ==
  /\ sub = "asked" /\ sub' = "on"
  /\ UNCHANGED <<serverVars, mqtt, calls, shown, status, loaded,
                 snackVars, complete, modal, loading, dialog>>

-----------------------------------------------------------------------------
(***************************************************************************)
(* The interface: what a status does to it.                                *)
(***************************************************************************)

\* The card of the run has a bar of progress.
getClassProgress(s) == s.status \in InProgress \cup {CANCELLING, STOPPING}

\* The device of the run is kept from being deleted and started again.
deviceInProgress(s) == s.status \in InProgress \cup {CANCELLING, STOPPING}

\* Mutant: a run that is being stopped is not listened to.
SubscribedMutant(s) ==
  IF s.status \notin InProgress THEN "off"
  ELSE IF sub = "off" THEN "asked" ELSE sub

\* stopInterval: the subscription is closed, if there is one.
stopInterval == "off"

\* onFetchSystemStatusSuccess, first: subscribe, or unsubscribe.
Subscribed(s) ==
  IF s.status \notin InProgress \cup {STOPPING} THEN stopInterval
  ELSE IF sub = "off" THEN "asked" ELSE sub

\* Mutants: only the device found dismisses the notification; only a change
\* of the status starts a timer.
NotificationMutant(s) ==
  /\ waitTimer' = IF snack THEN waitTimer ELSE s.status = WAITING_FOR_DEVICE
  /\ dismissals' = IF snack /\ s.status = MONITORING /\ dismissals < MaxTimers
                   THEN dismissals + 1 ELSE dismissals
  /\ UNCHANGED snack
NotificationOnChange(s) ==
  /\ waitTimer' = IF snack \/ s.status = shown.status THEN waitTimer
                  ELSE s.status = WAITING_FOR_DEVICE
  /\ dismissals' = IF snack /\ s.status /= WAITING_FOR_DEVICE
                       /\ dismissals < MaxTimers
                   THEN dismissals + 1 ELSE dismissals
  /\ UNCHANGED snack

\* ... then the notification: a timer to open it, a timer to dismiss it, or
\* the timers that would open it are destroyed.
Notification(s) ==
  /\ waitTimer' = IF snack THEN waitTimer
                  ELSE s.status = WAITING_FOR_DEVICE
  /\ dismissals' = IF snack /\ s.status /= WAITING_FOR_DEVICE
                       /\ dismissals < MaxTimers
                   THEN dismissals + 1 ELSE dismissals
  /\ UNCHANGED snack

\* Mutant: a status is not written over one that is being cancelled.
AppStatusMutant(s) ==
  IF shown.status \in {s.status, CANCELLING} THEN UNCHANGED <<status, loaded>>
  ELSE status' = s.status /\ loaded' = TRUE

\* With the first change of the status it is known to be loaded.
statusLoaded(s) == loaded' = (loaded \/ s.status /= status)

\* ... and the status, which the application is told of only when it is not
\* that of the last.
AppStatus(s) ==
  IF s.status = shown.status THEN UNCHANGED <<status, loaded>>
  ELSE status' = s.status /\ statusLoaded(s)

\* The testing page shows and hides the loader.
Loading(s) ==
  IF \/ s.status \in InProgress \ {IN_PROGRESS}
     \/ s.status = IN_PROGRESS /\ ~s.results
  THEN TRUE
  ELSE IF s.status = CANCELLING THEN loading ELSE FALSE

setTestrunStatus(s) ==
  /\ shown' = s
  /\ loading' = Loading(s)

\* The dialog of a finished run is due when testing is complete, and is no
\* longer when it is not; one that is open stays.
Completion(s) ==
  /\ complete' = (s.status \in Finished)
  /\ modal' = IF modal = "open" THEN "open"
              ELSE IF ~complete' THEN "none"
              ELSE IF ~complete THEN "due" ELSE modal

fetchSystemStatusSuccess(s) ==
  /\ sub' = Subscribed(s)
  /\ Notification(s) /\ AppStatus(s) /\ Completion(s)
  /\ setTestrunStatus(s)

\* The store as it is.
NoStatus == UNCHANGED storeVars

-----------------------------------------------------------------------------
(***************************************************************************)
(* Requests and what is published.                                         *)
(***************************************************************************)

\* The server comes to a request.
Answers(k, answer) == calls[k] = Sent /\ calls' = [calls EXCEPT ![k] = answer]

AnswerStatus ==
  /\ Answers("status", Answered(server)) \/ Answers("status", Failed)
  /\ UNCHANGED <<serverVars, mqtt>>

AnswerReports ==
  /\ \E listed \in {reports, {}} : Answers("reports", Answered(listed))
  /\ UNCHANGED <<serverVars, mqtt>>

\* A start is refused whilst a run is on.  Its answer is the session, which
\* the thread of the start may have begun anew, or reset, or not yet touched;
\* or it comes too late for the interceptor, which waits five seconds.  Nobody
\* takes the answer when the dialog was closed.
AnswersStart(answer) == Answers("start", IF dialog = "sent" THEN answer ELSE None)

AnswerStart ==
  \/ AnswersStart(Failed) /\ UNCHANGED <<serverVars, mqtt>>
  \/ /\ server.status \notin InProgress /\ ~beginning
     /\ run < MaxRuns /\ run' = run + 1
     /\ \/ /\ beginning' = TRUE
           /\ \E seen \in {Failed, Answered(server), Answered(IDLE_STATUS)} :
                AnswersStart(seen)
           /\ UNCHANGED <<server, paused, reports, mqtt>>
        \/ /\ Begin /\ AnswersStart(Answered(server'))
           /\ UNCHANGED <<beginning, reports>>

\* A stop is accepted whilst a run is on.  It is refused, or never arrives, or
\* is given up after the interceptor's minute: stopTestrun catches the failure
\* and it stays so.  Nobody takes the answer to an accepted one, or misses it.
AnswerStop ==
  /\ \/ /\ server.status \in InProgress /\ ~beginning
        /\ Answers("stop", None)
        /\ Publish([server EXCEPT !.status = STOPPING])
     \/ Answers("stop", Failed) /\ UNCHANGED <<server, paused, mqtt>>
  /\ UNCHANGED <<run, beginning, reports>>

ServerAnswers ==
  /\ AnswerStatus \/ AnswerReports \/ AnswerStart \/ AnswerStop
  /\ UNCHANGED <<storeVars, dialog>>

\* The answer to the status of a page that loads; one that failed is {}.
StatusFetched ==
  /\ calls["status"] \notin {None, Sent}
  /\ fetchSystemStatusSuccess(IF calls["status"] = Failed THEN EMPTY_STATUS
                              ELSE calls["status"].body)
  /\ calls' = [calls EXCEPT !["status"] = None]
  /\ UNCHANGED <<serverVars, mqtt, dialog>>

\* The reports, none when the request failed: setReports, and a finished run
\* whose report is not among them was deleted.
ReportsFetched ==
  /\ calls["reports"] \notin {None, Sent}
  /\ IF shown.status \in Finished /\ shown.report \notin calls["reports"].body
     THEN fetchSystemStatusSuccess(IDLE_STATUS) ELSE NoStatus
  /\ calls' = [calls EXCEPT !["reports"] = None]
  /\ UNCHANGED <<serverVars, mqtt, dialog>>

\* The reports page opens, or deletes a report: the reports are asked for,
\* and an earlier answer will be ignored.
FetchReports ==
  /\ dialog = "none" /\ modal /= "open"
  /\ calls' = [calls EXCEPT !["reports"] = Sent]
  /\ UNCHANGED <<serverVars, mqtt, storeVars, dialog>>

\* The dialog of a start closes with the status that was answered.
StartAnswered ==
  /\ calls["start"] \notin {None, Sent}
  /\ IF calls["start"] = Failed THEN dialog' = "start" /\ NoStatus
     ELSE dialog' = "none" /\ fetchSystemStatusSuccess(calls["start"].body)
  /\ calls' = [calls EXCEPT !["start"] = None]
  /\ UNCHANGED <<serverVars, mqtt>>

\* A message arrives; nobody hears it when the subscription is closed.
Deliver ==
  /\ mqtt /= <<>> /\ mqtt' = Tail(mqtt)
  /\ IF sub = "off" THEN NoStatus ELSE fetchSystemStatusSuccess(Head(mqtt))
  /\ UNCHANGED <<serverVars, calls, dialog>>

-----------------------------------------------------------------------------
(***************************************************************************)
(* Timers.                                                                 *)
(***************************************************************************)

\* NotificationService, with the flag of the store.
openSnackBar == snack' = TRUE

\* A minute is up: the notification opens if the device is still waited for,
\* and the other timers are destroyed.  Those that dismiss take five seconds.
OpenTimer ==
  /\ waitTimer /\ dismissals = 0
  /\ IF shown.status = WAITING_FOR_DEVICE
     THEN openSnackBar /\ waitTimer' = FALSE
     ELSE UNCHANGED snack /\ waitTimer' \in BOOLEAN
  /\ UNCHANGED <<serverVars, mqtt, calls, sub, shown, status, loaded,
                 dismissals, complete, modal, loading, dialog>>

\* The time is up: the notification goes, if another has not closed it.
DismissTimer ==
  /\ dismissals > 0 /\ dismissals' = dismissals - 1
  /\ snack' = FALSE
  /\ UNCHANGED <<serverVars, mqtt, calls, sub, shown, status, loaded,
                 waitTimer, complete, modal, loading, dialog>>

CompleteTimer ==
  /\ modal = "due" /\ modal' = "open"
  /\ UNCHANGED <<serverVars, mqtt, calls, sub, shown, status, loaded,
                 snackVars, complete, loading, dialog>>

-----------------------------------------------------------------------------
(***************************************************************************)
(* The user.                                                               *)
(***************************************************************************)

Free == modal /= "open"

\* The button of the side menu, disabled whilst a run is on.
OpenStart ==
  /\ Free /\ dialog = "none" /\ loaded /\ status \notin InProgress
  /\ dialog' = "start"
  /\ UNCHANGED <<serverVars, mqtt, calls, storeVars>>

\* startTestRun sends one request from a dialog; bound: and not whilst that
\* of a dialog that was closed is under way, nor after MaxRuns.
StartTestRun ==
  /\ Free /\ dialog = "start" /\ calls["start"] = None /\ run < MaxRuns
  /\ dialog' = "sent" /\ calls' = [calls EXCEPT !["start"] = Sent]
  /\ UNCHANGED <<serverVars, mqtt, storeVars>>

getCancellingStatus(s) == [s EXCEPT !.status = CANCELLING]

\* onStopTestrun: a request to stop, for which an earlier one is given up.
sendStop == calls' = [calls EXCEPT !["stop"] = Sent]

\* The button of the testing page, there whilst a run is on.
OpenStop ==
  /\ Free /\ dialog = "none" /\ shown.status \in InProgress
  /\ dialog' = "stop"
  /\ UNCHANGED <<serverVars, mqtt, calls, storeVars>>

\* stopTestrun: the status says so at once, whatever it says by now.
ConfirmStop ==
  /\ Free /\ dialog = "stop" /\ dialog' = "none"
  /\ setTestrunStatus(getCancellingStatus(shown))
  /\ sendStop
  /\ UNCHANGED <<serverVars, mqtt, sub, status, loaded, snackVars,
                 complete, modal>>

\* A dialog is cancelled, that of a start also when the request is sent.
CloseDialog ==
  /\ Free /\ dialog /= "none" /\ dialog' = "none"
  /\ calls' = IF calls["start"] = Sent THEN calls ELSE [calls EXCEPT !["start"] = None]
  /\ UNCHANGED <<serverVars, mqtt, storeVars>>

CloseModal ==
  /\ modal = "open" /\ modal' = "none"
  /\ UNCHANGED <<serverVars, mqtt, calls, sub, shown, status, loaded,
                 snackVars, complete, loading, dialog>>

\* The notification's own buttons: to wait on, or to stop.
SnackBarAction ==
  /\ Free /\ dialog = "none" /\ snack /\ snack' = FALSE
  /\ \/ UNCHANGED calls
     \/ sendStop
  /\ UNCHANGED <<serverVars, mqtt, sub, shown, status, loaded,
                 waitTimer, dismissals, complete, modal, loading, dialog>>

User ==
  \/ OpenStart \/ StartTestRun \/ OpenStop \/ ConfirmStop \/ CloseDialog
  \/ CloseModal \/ SnackBarAction \/ FetchReports

Next ==
  \/ ServerMoves \/ ServerAnswers \/ BrokerSubscribes
  \/ StatusFetched \/ ReportsFetched \/ StartAnswered \/ Deliver
  \/ OpenTimer \/ DismissTimer \/ CompleteTimer
  \/ User

Spec == Init /\ [][Next]_vars

\* The network delivers, timers fire, and the threads of the server that do
\* not wait for the device go on.  The user owes nothing.
FairSpec ==
  /\ Spec
  /\ WF_vars(BrokerSubscribes) /\ WF_vars(Deliver)
  /\ \A k \in Call : WF_vars(ServerAnswers /\ calls[k] = Sent /\ calls'[k] /= Sent)
  /\ WF_vars(StatusFetched) /\ WF_vars(ReportsFetched) /\ WF_vars(StartAnswered)
  /\ WF_vars(OpenTimer) /\ WF_vars(DismissTimer) /\ WF_vars(CompleteTimer)
  /\ WF_vars(ServerMoves /\ ServerBegins)
  /\ WF_vars(ServerMoves /\ ServerStep /\ server.status /= WAITING_FOR_DEVICE)

-----------------------------------------------------------------------------
(***************************************************************************)
(* Properties.                                                             *)
(***************************************************************************)

\* The status the application goes by, which is written only when it differs
\* from the last, is the status shown, but for a stop that was asked for.
StatusAgrees == shown.status \in {status, CANCELLING}

\* A notification that stays open is for a device that is waited for, or is
\* being dismissed, or the user has asked to stop.
SnackBarExplained ==
  snack => \/ shown.status \in {WAITING_FOR_DEVICE, CANCELLING}
           \/ dismissals > 0

\* The guide tells the user to power the device on once the notification
\* appears.  A wait for the device of which the interface is told, when it
\* expects no answer that is older, is announced or ends; or the user asks to
\* stop.  A stop that is accepted ends the wait; one that fails leaves the status
\* shown at Cancelling, which nothing takes back but the next message, and no
\* timer opens the notification ...
Awaited == server.status = WAITING_FOR_DEVICE
Told == sub = "on" /\ \E i \in DOMAIN mqtt : mqtt[i].status = server.status
NoAnswerDue == calls["start"] = None /\ calls["status"] = None

StopNotAccepted ==
  shown.status = CANCELLING /\ calls["stop"] \in {Sent, Failed}

WaitingAnnounced ==
  (Awaited /\ Told /\ NoAnswerDue) ~> (~Awaited \/ snack \/ StopNotAccepted)

\* ... but the interface that started the run need not be told.
StartAnnounced ==
  beginning ~> \/ snack
               \/ ~beginning /\ server.status \notin {STARTING, VALIDATING,
                                                      WAITING_FOR_DEVICE}

\* A run that is being stopped, or whose ending is on its way, is shown to be
\* over, unless the next has begun.
EndShown ==
  ( /\ sub = "on" /\ NoAnswerDue
    /\ server.status = STOPPING \/ (server.status \in Ended /\ Told) )
  ~> ( \/ beginning \/ server.status \in InProgress
       \/ ~getClassProgress(shown) /\ ~deviceInProgress(shown) )
=============================================================================
