-------------------------- MODULE TestOrchestrator --------------------------
(***************************************************************************)
(* One test run: the thread that executes test_orchestrator.py             *)
(* run_test_modules for a device that is ready for testing, the stop tasks *)
(* a user's stop requests create on the API's event loop, the containers   *)
(* of the test modules and the cable of the device under test.             *)
(*                                                                         *)
(* The orchestrator thread and a stop task share the session (status and   *)
(* results) and the containers, with no lock.  An action is what a thread  *)
(* does between two accesses that another thread can tell apart.  A stop   *)
(* task has no await in it: while it runs the event loop serves no other   *)
(* request, so there is at most one at work and others queue behind it.    *)
(*                                                                         *)
(* The run starts where testrun.py _device_stable has set the status to In *)
(* Progress and calls run_test_modules.                                    *)
(***************************************************************************)
EXTENDS TestResults, FiniteSets

CONSTANTS
  NumModules,   \* how many enabled modules the run has
  ModuleTests,  \* the tests of each module, in the order of its config
  Verdicts,     \* the results a module's result file may hold
  MaxStops,     \* bound: stop requests accepted during the run
  MaxFaults     \* bound: calls to Docker that fail and are not noticed

Modules == 1 .. NumModules
TestsOf(m) == {ModuleTests[m][j] : j \in 1 .. Len(ModuleTests[m])}

ASSUME ModulesAssumption ==
  /\ NumModules \in Nat \ {0}
  /\ ModuleTests \in [Modules -> Seq(Tests)]
  /\ Tests = UNION {TestsOf(m) : m \in Modules}
  \* Test names are unique, in a module and across modules.
  /\ \A m, n \in Modules :
       \A i \in 1 .. Len(ModuleTests[m]), j \in 1 .. Len(ModuleTests[n]) :
         ModuleTests[m][i] = ModuleTests[n][j] => m = n /\ i = j
  /\ Verdicts \subseteq FinalResult
  /\ MaxStops \in Nat
  /\ MaxFaults \in Nat

VARIABLES
  status,       \* session._status
  results,      \* session._results
  report,       \* {} or the one report generated
  published,    \* the report is in the device's list of reports
  pc,           \* where the orchestrator thread is
  module,       \* _current_module
  test,         \* the next test of the module to mark in progress
  container,    \* the modules whose container is running
  written,      \* the modules whose container has written its result file
  faults,       \* history: Docker calls whose failure the code swallowed
  connected,    \* the device interface is up
  networkUp,    \* the virtual network and its containers are up
  queued,       \* stop tasks created and not begun
  stopPc,       \* where the stop task at work is
  stopModule,   \* the module whose container it stops next
  stopped       \* history: a stop task has set the status to Stopping

sessionVars   == <<status, results, report, published>>
threadVars    == <<pc, module, test>>
containerVars == <<container, written, faults>>
stopVars      == <<queued, stopPc, stopModule, stopped>>
vars == <<sessionVars, threadVars, containerVars, connected, networkUp,
          stopVars>>

Reports == [tests : Results, result : TestrunResult, status : OutcomeStatus]

PcValues ==
  {"begin", "module", "mark", "disconnected", "start", "poll", "kill",
   "timeout", "check_stop", "load", "finish", "decide", "report",
   "publish", "outcome", "stop_network", "done", "crashed", "failed"}
StopPcValues ==
  {"idle", "finish1", "stopping2", "finish2", "modules", "cancel", "network"}

TypeOK ==
  /\ status \in TestrunStatus
  /\ results \in Results
  /\ report \subseteq Reports
  /\ published \in BOOLEAN
  /\ pc \in PcValues
  /\ module \in Modules
  /\ test \in Nat \ {0}
  /\ container \subseteq Modules
  /\ written \subseteq Modules
  /\ faults \in 0 .. MaxFaults
  /\ connected \in BOOLEAN
  /\ networkUp \in BOOLEAN
  /\ queued \in 0 .. MaxStops
  /\ stopPc \in StopPcValues
  /\ stopModule \in 1 .. (NumModules + 1)
  /\ stopped \in BOOLEAN

Init ==
  /\ status = IN_PROGRESS
  /\ results = NoResults
  /\ report = {}
  /\ published = FALSE
  /\ pc = "begin"
  /\ module = 1
  /\ test = 1
  /\ container = {}
  /\ written = {}
  /\ faults = 0
  /\ connected = TRUE
  /\ networkUp = TRUE
  /\ queued = 0
  /\ stopPc = "idle"
  /\ stopModule = 1
  /\ stopped = FALSE

-----------------------------------------------------------------------------
(***************************************************************************)
(* The orchestrator thread.                                                *)
(***************************************************************************)

Goto(label) == pc' = label /\ UNCHANGED <<module, test>>

\* Leaving _run_test_module: the loop goes on with the next module, or ends.
NextModuleMutant ==
  IF module <= NumModules
  THEN pc' = "module" /\ module' = module + 1 /\ test' = 1
  ELSE Goto("finish")
NextModule ==
  IF module < NumModules
  THEN pc' = "module" /\ module' = module + 1 /\ test' = 1
  ELSE Goto("finish")

\* run_test_modules up to its loop.  Every test of the pack gets its entry.
RunTestModules ==
  /\ pc = "begin"
  /\ IF status = IN_PROGRESS
     THEN /\ Goto("module")
          /\ results' = AddTestResults(results, Pack,
                                       [t \in Pack |-> NOT_STARTED])
     ELSE Goto("stop_network") /\ UNCHANGED results
  /\ UNCHANGED <<status, report, published, containerVars, connected,
                 networkUp, stopVars>>

\* _run_test_module's own check that Testrun is not stopping.
EnterModule ==
  /\ pc = "module"
  /\ IF status = IN_PROGRESS THEN Goto("mark") ELSE NextModule
  /\ UNCHANGED <<sessionVars, containerVars, connected, networkUp, stopVars>>

\* One turn of the loop that marks the module's tests in progress.  The
\* connection is looked at before each test, and the pack only then.
MarkTestMutant ==
  /\ pc = "mark" /\ test <= Len(ModuleTests[module])
  /\ connected
  /\ pc' = pc /\ module' = module /\ test' = test + 1
  /\ results' = results
  /\ UNCHANGED <<status, report, published, containerVars, connected,
                 networkUp, stopVars>>
MarkTest ==
  /\ pc = "mark" /\ test <= Len(ModuleTests[module])
  /\ connected
  /\ pc' = pc /\ module' = module /\ test' = test + 1
  /\ LET t == ModuleTests[module][test] IN
     results' = IF t \in Pack
                THEN AddTestResult(results, t, TEST_IN_PROGRESS)
                ELSE results
  /\ UNCHANGED <<status, report, published, containerVars, connected,
                 networkUp, stopVars>>

\* The tests _set_test_modules_error goes through: the module's from the
\* current one on, and all of the later modules'.
RemainingTestsMutant ==
  {ModuleTests[module][j] : j \in test .. Len(ModuleTests[module])}
RemainingTests ==
  {ModuleTests[module][j] : j \in test .. Len(ModuleTests[module])}
  \cup UNION {TestsOf(m) : m \in (module + 1) .. NumModules}

\* The device is found disconnected: _set_test_modules_error appends the
\* modules' own TestCase objects, whatever entries their tests have.
SetTestModulesError ==
  /\ pc = "mark" /\ test <= Len(ModuleTests[module])
  /\ ~connected
  /\ Goto("disconnected")
  /\ results' = SetTestResultErrors(results, RemainingTests)
  /\ UNCHANGED <<status, report, published, containerVars, connected,
                 networkUp, stopVars>>

\* ... and then the run is cancelled.
CancelDisconnected ==
  /\ pc = "disconnected"
  /\ status' = CANCELLED
  /\ NextModule
  /\ UNCHANGED <<results, report, published, containerVars,
                 connected, networkUp, stopVars>>

AllMarked ==
  /\ pc = "mark" /\ test > Len(ModuleTests[module])
  /\ Goto("start")
  /\ UNCHANGED <<sessionVars, containerVars, connected, networkUp, stopVars>>

\* What a call to Docker about the module leaves when its error is caught and
\* logged (DockerModule.stop, get_container): the container, and no notice.
Swallowed(m) ==
  /\ m \in container /\ faults < MaxFaults
  /\ faults' = faults + 1
  /\ UNCHANGED container

\* DockerModule.stop, kill or not: the container is removed, if it is there.
DockerStop(m) ==
  \/ container' = container \ {m} /\ UNCHANGED faults
  \/ Swallowed(m)

\* module.start and the attachment to the network.
StartContainer ==
  /\ pc = "start"
  /\ container' = container \cup {module}
  /\ Goto("poll")
  /\ UNCHANGED <<sessionVars, written, faults, connected, networkUp, stopVars>>

\* Docker raises what DockerModule.start does not catch; or the container runs
\* and its attachment or its logs fail: the callback thread ends there.
StartFails ==
  /\ pc = "start"
  /\ container' \in {container, container \cup {module}}
  /\ Goto("crashed")
  /\ UNCHANGED <<sessionVars, written, faults, connected, networkUp, stopVars>>

\* The condition of the polling loop is false: the container is gone, or its
\* status cannot be had and is taken for that, or the run is stopped.
PollEnds ==
  /\ pc = "poll"
  /\ \/ /\ module \notin container \/ status # IN_PROGRESS
        /\ UNCHANGED <<container, faults>>
     \/ Swallowed(module)
  /\ Goto("check_stop")
  /\ UNCHANGED <<sessionVars, written, connected, networkUp, stopVars>>

\* Docker raises what get_container does not catch: the thread ends there.
PollFails ==
  /\ pc = "poll"
  /\ Goto("crashed")
  /\ UNCHANGED <<sessionVars, containerVars, connected, networkUp, stopVars>>

\* The condition is true and the module's time is over.
PollTimeoutMutant ==
  /\ pc = "poll"
  /\ module \notin container /\ status = IN_PROGRESS
  /\ Goto("kill")
  /\ UNCHANGED <<sessionVars, containerVars, connected, networkUp, stopVars>>
PollTimeout ==
  /\ pc = "poll"
  /\ module \in container /\ status = IN_PROGRESS
  /\ Goto("kill")
  /\ UNCHANGED <<sessionVars, containerVars, connected, networkUp, stopVars>>

KillModuleMutant ==
  /\ pc = "kill"
  /\ Goto("timeout")
  /\ UNCHANGED <<sessionVars, containerVars, connected, networkUp, stopVars>>
KillModule ==
  /\ pc = "kill"
  /\ DockerStop(module)
  /\ Goto("timeout")
  /\ UNCHANGED <<sessionVars, written, connected, networkUp, stopVars>>

\* Every test of the module becomes an error, with no look at the pack.
TimeoutErrors ==
  /\ pc = "timeout"
  /\ results' = AddTestResults(results, TestsOf(module),
                               [t \in TestsOf(module) |-> ERROR])
  /\ Goto("check_stop")
  /\ UNCHANGED <<status, report, published, containerVars, connected,
                 networkUp, stopVars>>

\* The results are discarded when the status is Stopping, and only then.
CheckStopped ==
  /\ pc = "check_stop"
  /\ IF status = STOPPING THEN NextModule ELSE Goto("load")
  /\ UNCHANGED <<sessionVars, containerVars, connected, networkUp, stopVars>>

\* The result file is read.  A file that is missing or cannot be parsed
\* leaves the results as they are.  The file has a result for each test of
\* the module in the pack (test_module.py _get_device_tests, run_tests).
LoadResultsMutant ==
  /\ pc = "load"
  /\ \E r \in [TestsOf(module) \cap Pack -> Verdicts] :
          results' = AddTestResults(results, DOMAIN r, r)
  /\ NextModule
  /\ UNCHANGED <<status, report, published, containerVars, connected,
                 networkUp, stopVars>>
LoadResults ==
  /\ pc = "load"
  /\ IF module \in written
     THEN \E r \in [TestsOf(module) \cap Pack -> Verdicts] :
            results' = AddTestResults(results, DOMAIN r, r)
     ELSE UNCHANGED results
  /\ NextModule
  /\ UNCHANGED <<status, report, published, containerVars, connected,
                 networkUp, stopVars>>

FinishSessionMutant ==
  /\ pc = "finish"
  /\ Goto("decide")
  /\ UNCHANGED <<sessionVars, containerVars, connected, networkUp, stopVars>>
FinishSession ==
  /\ pc = "finish"
  /\ results' = Finish(results)
  /\ Goto("decide")
  /\ UNCHANGED <<status, report, published, containerVars, connected,
                 networkUp, stopVars>>

\* Do not carry on (generating a report) if Testrun has been stopped.
Decide ==
  /\ pc = "decide"
  /\ IF status = IN_PROGRESS THEN Goto("report") ELSE Goto("stop_network")
  /\ UNCHANGED <<sessionVars, containerVars, connected, networkUp, stopVars>>

\* _generate_report and _write_reports: the session's results as they are.
GenerateReport ==
  /\ pc = "report"
  /\ report' = {[tests  |-> results,
                 result |-> CalculateResult(results),
                 status |-> CalculateStatus(results)]}
  /\ Goto("publish")
  /\ UNCHANGED <<status, results, published, containerVars,
                 connected, networkUp, stopVars>>

\* The report is copied to the device's folder and added to its reports.
PublishReport ==
  /\ pc = "publish"
  /\ published' = TRUE
  /\ Goto("outcome")
  /\ UNCHANGED <<status, results, report, containerVars, connected,
                 networkUp, stopVars>>

\* The report cannot be rendered, written or copied: nothing catches that, and
\* the callback thread ends there.
ReportFails ==
  /\ pc = "publish"
  /\ Goto("failed")
  /\ UNCHANGED <<sessionVars, containerVars, connected, networkUp, stopVars>>

\* set_status with the status of the report, whatever the status is now.
SetOutcomeMutant ==
  /\ pc = "outcome"
  /\ status' = COMPLETE
  /\ Goto("stop_network")
  /\ UNCHANGED <<results, report, published, containerVars,
                 connected, networkUp, stopVars>>
SetOutcome ==
  /\ pc = "outcome"
  /\ \E r \in report : status' = r.status
  /\ Goto("stop_network")
  /\ UNCHANGED <<results, report, published, containerVars,
                 connected, networkUp, stopVars>>

\* Back in _device_stable: the network is torn down and the thread ends.
StopNetwork ==
  /\ pc = "stop_network"
  /\ networkUp' = FALSE
  /\ Goto("done")
  /\ UNCHANGED <<sessionVars, containerVars, connected, stopVars>>

Orchestrator ==
  \/ RunTestModules \/ EnterModule
  \/ MarkTest \/ SetTestModulesError \/ CancelDisconnected \/ AllMarked
  \/ StartContainer \/ StartFails
  \/ PollEnds \/ PollFails \/ PollTimeout \/ KillModule \/ TimeoutErrors
  \/ CheckStopped \/ LoadResults
  \/ FinishSession \/ Decide
  \/ GenerateReport \/ PublishReport \/ ReportFails \/ SetOutcome
  \/ StopNetwork

-----------------------------------------------------------------------------
(***************************************************************************)
(* The API's event loop: stop requests and the stop tasks they create.     *)
(***************************************************************************)

\* stop_testrun: served while no stop task runs, accepted by the status.
AcceptStop ==
  /\ stopPc = "idle"
  /\ status \in RunningStatus
  /\ queued < MaxStops
  /\ queued' = queued + 1
  /\ UNCHANGED <<sessionVars, threadVars, containerVars, connected, networkUp,
                 stopPc, stopModule, stopped>>

\* Testrun.stop calls session.stop twice: the status, then finish.
BeginStop ==
  /\ stopPc = "idle" /\ queued > 0
  /\ queued' = queued - 1
  /\ status' = STOPPING
  /\ stopPc' = "finish1"
  /\ stopped' = TRUE
  /\ UNCHANGED <<results, report, published, threadVars,
                 containerVars, connected, networkUp, stopModule>>

StopFinish ==
  /\ stopPc \in {"finish1", "finish2"}
  /\ results' = Finish(results)
  /\ stopPc' = IF stopPc = "finish1" THEN "stopping2" ELSE "modules"
  /\ UNCHANGED <<status, report, published, threadVars,
                 containerVars, connected, networkUp, queued, stopModule,
                 stopped>>

StopAgain ==
  /\ stopPc = "stopping2"
  /\ status' = STOPPING
  /\ stopPc' = "finish2"
  /\ UNCHANGED <<results, report, published, threadVars,
                 containerVars, connected, networkUp, queued, stopModule,
                 stopped>>

\* test_orc.stop: the containers that are there, one module after another.
StopOneModule ==
  /\ stopPc = "modules" /\ stopModule \in Modules
  /\ DockerStop(stopModule)
  /\ stopModule' = stopModule + 1
  /\ UNCHANGED <<sessionVars, threadVars, written, connected, networkUp,
                 queued, stopPc, stopped>>

AllModulesStopped ==
  /\ stopPc = "modules" /\ stopModule \notin Modules
  /\ stopPc' = "cancel"
  /\ stopModule' = 1
  /\ UNCHANGED <<sessionVars, threadVars, containerVars, connected, networkUp,
                 queued, stopped>>

StopCancelMutant ==
  /\ stopPc = "cancel"
  /\ stopPc' = "network"
  /\ UNCHANGED <<sessionVars, threadVars, containerVars, connected, networkUp,
                 queued, stopModule, stopped>>
StopCancel ==
  /\ stopPc = "cancel"
  /\ status' = CANCELLED
  /\ stopPc' = "network"
  /\ UNCHANGED <<results, report, published, threadVars,
                 containerVars, connected, networkUp, queued, stopModule,
                 stopped>>

StopTaskNetworkMutant ==
  /\ stopPc = "network"
  /\ stopPc' = "idle"
  /\ UNCHANGED <<sessionVars, threadVars, containerVars, connected, networkUp,
                 queued, stopModule, stopped>>
StopTaskNetwork ==
  /\ stopPc = "network"
  /\ networkUp' = FALSE
  /\ stopPc' = "idle"
  /\ UNCHANGED <<sessionVars, threadVars, containerVars, connected, queued,
                 stopModule, stopped>>

StopTask ==
  \/ BeginStop \/ StopFinish \/ StopAgain \/ StopOneModule
  \/ AllModulesStopped \/ StopCancel \/ StopTaskNetwork

-----------------------------------------------------------------------------
(***************************************************************************)
(* The environment.                                                        *)
(***************************************************************************)

\* A test module writes its results once, at its end, and its container is
\* removed when it exits; it may also exit without having written them.
ContainerWrites ==
  /\ \E m \in container \ written : written' = written \cup {m}
  /\ UNCHANGED <<sessionVars, threadVars, container, faults, connected, networkUp,
                 stopVars>>

ContainerExits ==
  /\ \E m \in container : container' = container \ {m}
  /\ UNCHANGED <<sessionVars, threadVars, written, faults, connected,
                 networkUp, stopVars>>

\* The device is unplugged, or plugged in again.
CableMoves ==
  /\ connected' = ~connected
  /\ UNCHANGED <<sessionVars, threadVars, containerVars, networkUp, stopVars>>

Environment == ContainerWrites \/ ContainerExits \/ CableMoves

-----------------------------------------------------------------------------

Next == Orchestrator \/ AcceptStop \/ StopTask \/ Environment

Spec == Init /\ [][Next]_vars

\* What the orchestrator does when no call to Docker and no report fails.
Progress == Orchestrator /\ pc' # "crashed" /\ UNCHANGED faults

\* Both threads are scheduled.  The clock moves on, so a module that neither
\* ends nor is stopped runs into its timeout; nothing else is expected of
\* containers, users and cables, and no failure is expected of Docker.
FairSpec == Spec /\ WF_vars(Progress) /\ WF_vars(StopTask)

-----------------------------------------------------------------------------
(***************************************************************************)
(* Properties.                                                             *)
(***************************************************************************)

\* A test that still runs or never ran is not reported: when a report is
\* generated (run_test_modules, _generate_report) each test of the pack has
\* exactly one entry in the session, and it is final, whatever stops,
\* timeouts, lost result files and disconnections happened before.
ReportComplete ==
  report # {} =>
    \A t \in Pack : Len(results[t]) = 1 /\ results[t][1] \in FinalResult

\* The results the UI reads from the session never differ from those of the
\* report that was generated from them (session.to_json, get_report_tests): no
\* late result, timeout or stop changes the session after the report.
ReportMatchesSession == \A r \in report : r.tests = results

\* A result other than an error needs a result file: a test of a module that
\* was killed, crashed or never wrote its file is reported as an error
\* (_run_test_module, finish).
EvidenceBacked ==
  \A r \in report : \A m \in Modules \ written :
    \A t \in TestsOf(m) \cap Pack :
      \A i \in DOMAIN r.tests[t] : r.tests[t][i] = ERROR

\* Test containers run together only where Docker calls failed unnoticed: both
\* are attached to the one virtual network of the device, and some modules
\* reconfigure it.  Whatever is stopped, killed, timed out or disconnected,
\* each container beyond the first one is left by a stop, a kill or a look at
\* the status whose error was swallowed (docker_module.py stop, get_container);
\* with no such error there is one container at a time.
OneContainer == Cardinality(container) <= 1 + faults

\* A run nobody stopped accounts for every test, though the device may have
\* been disconnected in the middle: each has an entry with a final result.
EveryTestAccounted ==
  pc = "done" /\ ~stopped =>
    \A t \in Pack : \E i \in DOMAIN results[t] : results[t][i] \in FinalResult

\* Nothing is shown as in progress once the run is over (session.finish),
\* though a stop task may run finish while the orchestrator marks tests.
NothingLeftInProgress ==
  pc \in {"decide", "report", "publish", "outcome", "stop_network", "done",
          "failed"} =>
    \A t \in Tests : \A i \in DOMAIN results[t] :
      results[t][i] # TEST_IN_PROGRESS

\* An outcome status is the one of the report, and the report can already be
\* fetched: the UI reads both when it sees the status.
OutcomeHasReport ==
  status \in OutcomeStatus =>
    published /\ \E r \in report : r.status = status

\* The inductive invariant the safety properties rest on, by parts.

\* Where the thread is past its polling, and past its last add_test_result.
PastMarking ==
  {"start", "poll", "kill", "timeout", "check_stop", "load"}
PastFinish ==
  {"decide", "report", "publish", "outcome", "stop_network", "done", "failed"}
PastModules == {"finish"} \cup PastFinish

\* The tests the run has marked in progress, were it not interrupted.
Marked(t) ==
  \E m \in Modules : \E j \in 1 .. Len(ModuleTests[m]) :
    /\ t = ModuleTests[m][j]
    /\ \/ m < module
       \/ m = module /\ pc \in PastMarking
       \/ m = module /\ pc = "mark" /\ j < test
       \/ pc \in PastModules

\* While the status is In Progress every test of the pack has its one entry,
\* and the tests the run went past are no longer Not Started.
ProgressInv ==
  /\ pc = "begin" => module = 1
  /\ pc \in {"begin", "module"} => test = 1
  /\ pc = "begin" => \A t \in Tests : Len(results[t]) = 0
  /\ status = IN_PROGRESS /\ pc \notin {"begin", "disconnected"} =>
       \A t \in Pack :
         /\ Len(results[t]) = 1
         /\ Marked(t) => results[t][1] # NOT_STARTED

\* The modules are gone through before the thread finishes the session, and
\* nothing is added to the results after it has.
FinishInv ==
  /\ pc = "finish" => module = NumModules
  /\ pc \in PastFinish =>
       \A t \in Tests : \A i \in 1 .. Len(results[t]) :
         results[t][i] # TEST_IN_PROGRESS

\* A report is generated from the results that are there.
ReportInv ==
  /\ pc \in {"report", "publish", "outcome"} \/ report # {} =>
       \A t \in Pack : Len(results[t]) = 1 /\ results[t][1] \in FinalResult
  /\ report # {} =>
       pc \in {"publish", "outcome", "stop_network", "done", "failed"}
  /\ pc \in {"publish", "outcome"} => report # {}
  /\ pc = "outcome" => published
  /\ \A r, s \in report : r = s
  /\ \A r \in report : r.tests = results
  /\ status \in OutcomeStatus =>
       /\ pc \in {"stop_network", "done"}
       /\ published
       /\ \E r \in report : r.status = status

\* The containers that may run when the thread is about to start another, and
\* those beside the module's own: the ones that swallowed failures left.
ContainerInv ==
  /\ OneContainer
  /\ pc \in {"begin", "mark", "start", "timeout"} =>
       Cardinality(container) <= faults
  /\ pc \in {"poll", "kill"} => Cardinality(container \ {module}) <= faults
  /\ pc \in {"module", "check_stop", "load"} /\ status = IN_PROGRESS =>
       Cardinality(container) <= faults

\* Once the thread is in its loop every test of the pack has an entry, and a
\* test that it has yet to come to was never given a result.
Ahead(m, j) ==
  \/ m > module
  \/ m = module /\ pc = "module"
  \/ m = module /\ pc = "mark" /\ j >= test

EntryInv ==
  /\ pc \notin {"begin", "stop_network", "done"} =>
       \A t \in Pack : Len(results[t]) >= 1
  /\ \A m \in Modules : \A j \in 1 .. Len(ModuleTests[m]) :
       ModuleTests[m][j] \in Pack /\ Ahead(m, j) =>
         \/ Len(results[ModuleTests[m][j]]) = 0
         \/ results[ModuleTests[m][j]][1] = NOT_STARTED

\* The tests of a module without a result file have none but errors.
EvidenceInv ==
  \A m \in Modules \ written : \A t \in TestsOf(m) \cap Pack :
    \A i \in 1 .. Len(results[t]) :
      results[t][i] \in {NOT_STARTED, TEST_IN_PROGRESS, ERROR}

\* A run that nobody stops is cancelled only by a disconnection, and each
\* test has an entry that was started, or was made an error, by then.
AccountInv ==
  ~stopped =>
    /\ stopPc = "idle"
    /\ \/ status = IN_PROGRESS
       \/ pc \in {"module", "finish", "decide", "stop_network", "done"}
    /\ \/ pc = "disconnected" \/ status # IN_PROGRESS
       \/ pc \in {"stop_network", "done"}
       => \A t \in Pack : \E i \in 1 .. Len(results[t]) :
            results[t][i] # NOT_STARTED

IInv ==
  /\ ProgressInv /\ FinishInv /\ ReportInv /\ ContainerInv
  /\ EntryInv /\ EvidenceInv /\ AccountInv

\* The run as the contract sees it.
SettledTests ==
  {t \in Pack : results[t] # <<>> /\ results[t][1] \in FinalResult}
Outcome ==
  IF report # {} THEN "reported"
  ELSE IF pc \in {"stop_network", "done", "crashed", "failed"} THEN "abandoned"
  ELSE "open"
Contract == INSTANCE RunContract WITH settled <- SettledTests,
                                      outcome <- Outcome

\* The orchestrator keeps the contract of a run.
KeepsContract == Contract!Spec

\* ... and, its threads being scheduled, the contract's promise that a run
\* ends: no module can hold it up for ever.
KeepsFairContract == Contract!FairSpec

\* The system does not stay in Stopping: a stop ends in Cancelled, or in the
\* outcome the orchestrator was about to set.
StoppingEnds ==
  status = STOPPING ~> status \in OutcomeStatus \cup {CANCELLED}

\* The virtual network is torn down after every run that ends or is stopped,
\* even when the orchestrator's thread has died.
NetworkReleased == pc = "done" \/ stopped ~> [](~networkUp)

(***************************************************************************)
(* What comments and docs say and the code does not do.  TLC refutes each  *)
(* of these; the counterexamples are told in the README.                   *)
(***************************************************************************)

\* test_orchestrator.py:96: stop() will "Stop any running tests".  When the
\* stop tasks and the run are over no test container runs.
StopStopsContainers ==
  stopped /\ stopPc = "idle" /\ queued = 0 /\ pc = "done" => container = {}

\* test_orchestrator.py:823: "Set all remaining tests to error".
NoTestLeftNotStarted ==
  pc = "done" /\ ~stopped =>
    \A t \in Pack : \A i \in DOMAIN results[t] : results[t][i] # NOT_STARTED
=============================================================================
