----------------------------- MODULE Lifecycle -----------------------------
(***************************************************************************)
(* The life of a session (core/testrun.py, api/api.py, the listener and    *)
(* the discovery of net_orc), around the test run that TestOrchestrator    *)
(* models in detail and that is one phase of a thread here.                *)
(*                                                                         *)
(* The threads: the API's event loop, where a start or stop request is     *)
(* served in one go and a stop task runs without yielding; one start       *)
(* thread for each accepted start; for each device a listener discovers,   *)
(* a thread of the network orchestrator that waits for its address and     *)
(* monitors it, and one of Testrun that adopts it as the target; and the   *)
(* thread the end of monitoring starts, which tests the device.  They      *)
(* share the session, the listener and the network with no lock.           *)
(***************************************************************************)
EXTENDS Statuses, Naturals, Sequences, FiniteSets

CONSTANTS
  Devices,          \* the devices of the repository that may be plugged in
  NoDevice,         \* None
  Validate,         \* the runtime parameter that runs the network validator
  AllowDisconnect,  \* the setting allow_disconnect
  Patient,          \* the user starts a run only when the last has ended
  MaxRuns,          \* bound: start requests accepted
  MaxStops          \* bound: stop requests accepted

ASSUME LifecycleAssumption ==
  /\ NoDevice \notin Devices
  /\ {Validate, AllowDisconnect, Patient} \subseteq BOOLEAN
  /\ {MaxRuns, MaxStops} \subseteq Nat

VARIABLES
  status, target,  \* session._status and _device
  paused,          \* session.pause_message
  shown,           \* the status last published to the user interface
  api,             \* the device start_testrun is about to set as the target
  requested,       \* history: the device of the last start
  starters,        \* where each start thread is
  listener,        \* the start thread that created the current listener, or 0
  sniffing,        \* the listeners that sniff
  callbacks,       \* of each listener: who registered which callback
  seen,            \* the devices each listener has discovered
  leased,          \* the devices that have an ip_addr
  discovery,       \* where the thread of a listener and a device is
  adopting,        \* the devices with a Testrun._device_discovered to run
  testers,         \* where each thread running _device_stable is
  connected,       \* the device interface is up
  networkUp,       \* the virtual network and its services are up
  queued,          \* stop tasks created and not begun
  stopPc           \* where the stop task at work is

session == <<status, target, paused, shown>>
apiVars == <<api, requested, starters>>
netVars == <<listener, sniffing, callbacks, networkUp>>
devVars == <<seen, leased, discovery, adopting>>
stopVars == <<queued, stopPc>>
vars == <<session, apiVars, netVars, devVars, testers, connected, stopVars>>

Runs == 1 .. MaxRuns
Callbacks == {"net", "discovered", "stable"} \X Runs
StarterPc == {"reset", "starting", "restore", "forget", "create", "validate",
              "validated", "ready", "register", "listen", "waiting", "failed",
              "dead"}
DiscoveryPc == {"none", "check", "sniff", "conf", "monitor", "monitoring",
                "fire", "done"}
TesterPc == {"check", "begin", "enter", "testing", "outcome", "network",
             "forget", "done", "dead"}
StopPc == {"idle", "again", "listener", "tests", "network", "forget"}

TypeOK ==
  /\ status \in TestrunStatus /\ shown \in TestrunStatus
  /\ paused \in BOOLEAN
  /\ {target, api, requested} \subseteq Devices \cup {NoDevice}
  /\ starters \in Seq(StarterPc) /\ Len(starters) <= MaxRuns
  /\ listener \in 0 .. MaxRuns
  /\ sniffing \subseteq Runs
  /\ callbacks \in [Runs -> SUBSET Callbacks]
  /\ seen \in [Runs -> SUBSET Devices]
  /\ leased \subseteq Devices /\ adopting \subseteq Devices
  /\ discovery \in [Runs \X Devices -> DiscoveryPc]
  /\ testers \in Seq(TesterPc)
  /\ {connected, networkUp} \subseteq BOOLEAN
  /\ queued \in 0 .. MaxStops
  /\ stopPc \in StopPc

Init ==
  /\ status = IDLE /\ shown = IDLE /\ paused = FALSE
  /\ target = NoDevice /\ api = NoDevice /\ requested = NoDevice
  /\ starters = <<>> /\ testers = <<>>
  /\ listener = 0 /\ sniffing = {}
  /\ callbacks = [g \in Runs |-> {}]
  /\ seen = [g \in Runs |-> {}]
  /\ leased = {} /\ adopting = {}
  /\ discovery = [x \in Runs \X Devices |-> "none"]
  /\ connected = TRUE /\ networkUp = FALSE
  /\ queued = 0 /\ stopPc = "idle"

-----------------------------------------------------------------------------
(***************************************************************************)
(* What several threads do to the session and the network.                 *)
(***************************************************************************)

\* The session_tracker around session.set_status: the change is published,
\* and the one that ends a run is the last to be until the next start.
SetStatus(s) ==
  /\ status' = s
  /\ IF paused THEN UNCHANGED <<shown, paused>>
     ELSE shown' = s /\ paused' = (s \in STATUSES_COMPLETE)

\* network_orchestrator.stop: the network goes and the listener stops ...
StopNet ==
  /\ networkUp' = FALSE
  /\ sniffing' = sniffing \ {listener}
  /\ UNCHANGED <<listener, callbacks, devVars>>

\* ... and then the listener, which may be another by now, is stopped and
\* forgets its callbacks and the devices it discovered.
ForgetListener ==
  /\ sniffing' = sniffing \ {listener}
  /\ callbacks' = [g \in Runs |-> IF g = listener THEN {} ELSE callbacks[g]]
  /\ seen' = [g \in Runs |-> IF g = listener THEN {} ELSE seen[g]]
  /\ UNCHANGED <<listener, networkUp, leased, discovery, adopting>>

\* No thread is at work: the start threads sleep or are dead.
Quiet ==
  /\ api = NoDevice
  /\ \A r \in DOMAIN starters : starters[r] \in {"waiting", "dead"}
  /\ \A x \in DOMAIN discovery : discovery[x] \in {"none", "done"}
  /\ adopting = {}
  /\ \A i \in DOMAIN testers : testers[i] \in {"done", "dead"}
  /\ stopPc = "idle" /\ queued = 0

-----------------------------------------------------------------------------
(***************************************************************************)
(* The API.                                                                *)
(***************************************************************************)

EventLoopFree == stopPc = "idle" /\ api = NoDevice

\* start_testrun: the thread is started, and only then ...
AcceptStart(d) ==
  /\ EventLoopFree
  /\ Patient => Quiet
  /\ Len(starters) < MaxRuns
  /\ status \notin RunningStatus
  /\ starters' = Append(starters, "reset")
  /\ api' = d /\ requested' = d
  /\ UNCHANGED <<session, netVars, devVars, testers, connected, stopVars>>

\* ... the target is set.
SetTarget ==
  /\ api # NoDevice
  /\ target' = api /\ api' = NoDevice
  /\ UNCHANGED <<status, paused, shown, requested, starters, netVars, devVars,
                 testers, connected, stopVars>>

\* stop_testrun.
AcceptStop ==
  /\ EventLoopFree
  /\ queued < MaxStops
  /\ status \in RunningStatus
  /\ queued' = queued + 1
  /\ UNCHANGED <<session, apiVars, netVars, devVars, testers, connected,
                 stopPc>>

\* Testrun.stop.
BeginStop ==
  /\ EventLoopFree
  /\ queued > 0
  /\ queued' = queued - 1
  /\ SetStatus(STOPPING)
  /\ stopPc' = "again"
  /\ UNCHANGED <<target, apiVars, netVars, devVars, testers, connected>>

StopAgain ==
  /\ stopPc = "again"
  /\ SetStatus(STOPPING)
  /\ stopPc' = "listener"
  /\ UNCHANGED <<target, apiVars, netVars, devVars, testers, connected,
                 queued>>

StopListener ==
  /\ stopPc = "listener"
  /\ sniffing' = sniffing \ {listener}
  /\ stopPc' = "tests"
  /\ UNCHANGED <<session, apiVars, listener, callbacks, networkUp, devVars,
                 testers, connected, queued>>

StopTestsMutant ==
  /\ stopPc = "tests"
  /\ stopPc' = "network"
  /\ UNCHANGED <<session, apiVars, netVars, devVars, testers, connected,
                 queued>>
StopTests ==
  /\ stopPc = "tests"
  /\ SetStatus(CANCELLED)
  /\ stopPc' = "network"
  /\ UNCHANGED <<target, apiVars, netVars, devVars, testers, connected,
                 queued>>

StopNetwork ==
  /\ stopPc = "network"
  /\ StopNet
  /\ stopPc' = "forget"
  /\ UNCHANGED <<session, apiVars, testers, connected, queued>>

StopEnds ==
  /\ stopPc = "forget"
  /\ ForgetListener
  /\ stopPc' = "idle"
  /\ UNCHANGED <<session, apiVars, testers, connected, queued>>

Api ==
  \/ SetTarget \/ BeginStop \/ StopAgain \/ StopListener \/ StopTests
  \/ StopNetwork \/ StopEnds

-----------------------------------------------------------------------------
(***************************************************************************)
(* The start thread r: Testrun.start and network_orchestrator.start.       *)
(***************************************************************************)

StarterGoes(r, from, to) ==
  /\ starters[r] = from
  /\ starters' = [starters EXCEPT ![r] = to]
  /\ UNCHANGED <<api, requested>>

\* session.reset; the status is set with no message, being Idle.
Reset(r) ==
  /\ StarterGoes(r, "reset", "starting")
  /\ status' = IDLE /\ paused' = FALSE /\ target' = NoDevice
  /\ UNCHANGED <<shown, netVars, devVars, testers, connected, stopVars>>

\* The rest of session.start.
Starting(r) ==
  /\ StarterGoes(r, "starting", "restore")
  /\ status' = STARTING /\ shown' = STARTING /\ paused' = FALSE
  /\ UNCHANGED <<target, netVars, devVars, testers, connected, stopVars>>

\* Restore the network first if required.
Restore(r) ==
  /\ StarterGoes(r, "restore", "forget")
  /\ StopNet
  /\ UNCHANGED <<session, testers, connected, stopVars>>

Restored(r) ==
  /\ StarterGoes(r, "forget", "create")
  /\ ForgetListener
  /\ UNCHANGED <<session, testers, connected, stopVars>>

\* create_net and start_network_services.  The new listener calls back the
\* network orchestrator.
CreateNet(r) ==
  /\ StarterGoes(r, "create", IF Validate THEN "validate" ELSE "ready")
  /\ networkUp' = TRUE
  /\ listener' = r
  /\ callbacks' = [callbacks EXCEPT ![r] = {<<"net", r>>}]
  /\ UNCHANGED <<session, sniffing, devVars, testers, connected, stopVars>>

\* The network cannot be created: what there is of it is stopped, and sys.exit
\* in a thread ends only the thread.
CreateFails(r) ==
  /\ StarterGoes(r, "create", "failed")
  /\ StopNet
  /\ UNCHANGED <<session, testers, connected, stopVars>>

StarterExits(r) ==
  /\ StarterGoes(r, "failed", "dead")
  /\ ForgetListener
  /\ UNCHANGED <<session, testers, connected, stopVars>>

Validating(r) ==
  /\ StarterGoes(r, "validate", "validated")
  /\ SetStatus(VALIDATING)
  /\ UNCHANGED <<target, netVars, devVars, testers, connected, stopVars>>

Validated(r) ==
  /\ StarterGoes(r, "validated", "ready")
  /\ UNCHANGED <<session, netVars, devVars, testers, connected, stopVars>>

NetworkReady(r) ==
  /\ StarterGoes(r, "ready", "register")
  /\ SetStatus(WAITING_FOR_DEVICE)
  /\ UNCHANGED <<target, netVars, devVars, testers, connected, stopVars>>

\* Testrun's own callbacks, on whatever listener is there now.
Register(r) ==
  /\ StarterGoes(r, "register", "listen")
  /\ callbacks' = [callbacks EXCEPT ![listener] =
                     @ \cup {<<"discovered", r>>, <<"stable", r>>}]
  /\ UNCHANGED <<session, listener, sniffing, networkUp, devVars, testers,
                 connected, stopVars>>

\* The listener is started and the status set again, before any packet it
\* sniffs can have changed the status.
Listen(r) ==
  /\ StarterGoes(r, "listen", "waiting")
  /\ sniffing' = sniffing \cup {listener}
  /\ SetStatus(WAITING_FOR_DEVICE)
  /\ UNCHANGED <<target, listener, callbacks, networkUp, devVars, testers,
                 connected, stopVars>>

Starter(r) ==
  \/ Reset(r) \/ Starting(r) \/ Restore(r) \/ Restored(r)
  \/ CreateNet(r) \/ CreateFails(r) \/ StarterExits(r)
  \/ Validating(r) \/ Validated(r) \/ NetworkReady(r)
  \/ Register(r) \/ Listen(r)

-----------------------------------------------------------------------------
(***************************************************************************)
(* Discovery: the thread of listener g and device d, in                    *)
(* network_orchestrator._device_discovered and _start_device_monitor.      *)
(***************************************************************************)

\* listener._packet_callback: the first packet of a device.
PacketMutant(g, d) ==
  /\ g \in sniffing
  /\ discovery[<<g, d>>] \in {"none", "done"}
  /\ seen' = [seen EXCEPT ![g] = @ \cup {d}]
  /\ discovery' = IF \E r \in Runs : <<"net", r>> \in callbacks[g]
                  THEN [discovery EXCEPT ![<<g, d>>] = "check"]
                  ELSE discovery
  /\ adopting' = IF \E r \in Runs : <<"discovered", r>> \in callbacks[g]
                 THEN adopting \cup {d} ELSE adopting
  /\ UNCHANGED <<session, apiVars, netVars, leased, testers, connected,
                 stopVars>>
Packet(g, d) ==
  /\ g \in sniffing
  /\ d \notin seen[g]
  /\ seen' = [seen EXCEPT ![g] = @ \cup {d}]
  /\ discovery' = IF \E r \in Runs : <<"net", r>> \in callbacks[g]
                  THEN [discovery EXCEPT ![<<g, d>>] = "check"]
                  ELSE discovery
  /\ adopting' = IF \E r \in Runs : <<"discovered", r>> \in callbacks[g]
                 THEN adopting \cup {d} ELSE adopting
  /\ UNCHANGED <<session, apiVars, netVars, leased, testers, connected,
                 stopVars>>

\* Testrun._device_discovered: with no target, the device becomes the target.
Adopt(d) ==
  /\ d \in adopting
  /\ adopting' = adopting \ {d}
  /\ target' = IF target = NoDevice THEN d ELSE target
  /\ UNCHANGED <<status, paused, shown, apiVars, netVars, seen, leased,
                 discovery, testers, connected, stopVars>>

\* _dhcp_lease_ack: a device keeps its address from run to run.
Lease(d) ==
  /\ networkUp /\ \E g \in sniffing, r \in Runs : <<"net", r>> \in callbacks[g]
  /\ d \notin leased
  /\ leased' = leased \cup {d}
  /\ UNCHANGED <<session, apiVars, netVars, seen, discovery, adopting,
                 testers, connected, stopVars>>

Goes(x, from, to) ==
  /\ discovery[x] = from
  /\ discovery' = [discovery EXCEPT ![x] = to]
  /\ UNCHANGED <<apiVars, netVars, seen, leased, adopting, connected, stopVars>>

\* A device other than the target is ignored.
CheckTarget(g, d) ==
  /\ Goes(<<g, d>>, "check", IF target \in {NoDevice, d} THEN "sniff" ELSE "done")
  /\ UNCHANGED <<session, testers>>

\* The sniffing ends with a packet of a device that has an address, or in a
\* timeout.
SniffEnds(g, d) ==
  /\ Goes(<<g, d>>, "sniff", "conf")
  /\ UNCHANGED <<session, testers>>

\* The target's configuration is written, which raises when there is none;
\* then the run is cancelled when the device has no address.
NoAddress(g, d) ==
  /\ target # NoDevice /\ d \notin leased
  /\ Goes(<<g, d>>, "conf", "done")
  /\ SetStatus(CANCELLED)
  /\ UNCHANGED <<target, testers>>

HasAddressMutant(g, d) ==
  /\ d \in leased
  /\ Goes(<<g, d>>, "conf", "monitor")
  /\ UNCHANGED <<session, testers>>
HasAddress(g, d) ==
  /\ target # NoDevice /\ d \in leased
  /\ Goes(<<g, d>>, "conf", "monitor")
  /\ UNCHANGED <<session, testers>>

NoTarget(g, d) ==
  /\ target = NoDevice
  /\ Goes(<<g, d>>, "conf", "done")
  /\ UNCHANGED <<session, testers>>

Monitor(g, d) ==
  /\ Goes(<<g, d>>, "monitor", "monitoring")
  /\ SetStatus(MONITORING)
  /\ UNCHANGED <<target, testers>>

\* Check Testrun hasn't been cancelled.
MonitorCancelled(g, d) ==
  /\ status \in {STOPPING, CANCELLED}
  /\ Goes(<<g, d>>, "monitoring", "done")
  /\ UNCHANGED <<session, testers>>

\* The device interface went down: the run is cancelled, and its end called
\* back all the same, unless the sniffer could not be stopped.
MonitorDisconnected(g, d) ==
  /\ status \notin {STOPPING, CANCELLED}
  /\ ~AllowDisconnect /\ ~connected
  /\ \E pc \in {"fire", "monitoring"} : Goes(<<g, d>>, "monitoring", pc)
  /\ SetStatus(CANCELLED)
  /\ UNCHANGED <<target, testers>>

\* The monitor period is over.
MonitorEnds(g, d) ==
  /\ Goes(<<g, d>>, "monitoring", "fire")
  /\ UNCHANGED <<session, testers>>

\* DEVICE_STABLE, for the callbacks of the listener there is now.
Fire(g, d) ==
  /\ Goes(<<g, d>>, "fire", "done")
  /\ LET stable == {r \in Runs : listener # 0
                               /\ <<"stable", r>> \in callbacks[listener]}
     IN testers' = testers \o [i \in 1 .. Cardinality(stable) |-> "check"]
  /\ UNCHANGED session

Discovery(g, d) ==
  \/ CheckTarget(g, d) \/ SniffEnds(g, d)
  \/ NoAddress(g, d) \/ HasAddress(g, d) \/ NoTarget(g, d)
  \/ Monitor(g, d) \/ MonitorCancelled(g, d) \/ MonitorDisconnected(g, d)
  \/ MonitorEnds(g, d) \/ Fire(g, d)

-----------------------------------------------------------------------------
(***************************************************************************)
(* The i-th thread in Testrun._device_stable.                              *)
(***************************************************************************)

TesterGoes(i, from, to) ==
  /\ testers[i] = from
  /\ testers' = [testers EXCEPT ![i] = to]
  /\ UNCHANGED <<apiVars, connected, stopVars>>

\* Do not continue testing if Testrun has cancelled during monitor phase.
DeviceStableMutant(i) ==
  /\ TesterGoes(i, "check", "begin")
  /\ UNCHANGED <<session, netVars, devVars>>
DeviceStable(i) ==
  /\ TesterGoes(i, "check", IF status = CANCELLED THEN "network" ELSE "begin")
  /\ UNCHANGED <<session, netVars, devVars>>

InProgress(i) ==
  /\ TesterGoes(i, "begin", "enter")
  /\ SetStatus(IN_PROGRESS)
  /\ UNCHANGED <<target, netVars, devVars>>

\* run_test_modules, as the rest of the session sees it: it does nothing when
\* the status is no longer In Progress,
RunTestModules(i) ==
  /\ TesterGoes(i, "enter", IF status = IN_PROGRESS THEN "testing"
                            ELSE "network")
  /\ UNCHANGED <<session, netVars, devVars>>

\* cancels the run when the device is disconnected,
TestsDisconnected(i) ==
  /\ ~connected
  /\ TesterGoes(i, "testing", "network")
  /\ SetStatus(CANCELLED)
  /\ UNCHANGED <<target, netVars, devVars>>

\* may die of an error of Docker or of the report,
TestsCrash(i) ==
  /\ TesterGoes(i, "testing", "dead")
  /\ UNCHANGED <<session, netVars, devVars>>

\* and ends with a report unless it was stopped.
TestsEnd(i) ==
  /\ TesterGoes(i, "testing", IF status = IN_PROGRESS THEN "outcome"
                              ELSE "network")
  /\ UNCHANGED <<session, netVars, devVars>>

SetOutcomeMutant(i) ==
  /\ TesterGoes(i, "outcome", "network")
  /\ UNCHANGED <<session, netVars, devVars>>
SetOutcome(i) ==
  /\ TesterGoes(i, "outcome", "network")
  /\ \E s \in OutcomeStatus : SetStatus(s)
  /\ UNCHANGED <<target, netVars, devVars>>

TesterStopsNetworkMutant(i) ==
  /\ TesterGoes(i, "network", "forget")
  /\ UNCHANGED <<session, netVars, devVars>>
TesterStopsNetwork(i) ==
  /\ TesterGoes(i, "network", "forget")
  /\ StopNet
  /\ UNCHANGED session

TesterEnds(i) ==
  /\ TesterGoes(i, "forget", "done")
  /\ ForgetListener
  /\ UNCHANGED session

Tester(i) ==
  \/ DeviceStable(i) \/ InProgress(i) \/ RunTestModules(i)
  \/ TestsDisconnected(i) \/ TestsCrash(i) \/ TestsEnd(i) \/ SetOutcome(i)
  \/ TesterStopsNetwork(i) \/ TesterEnds(i)

-----------------------------------------------------------------------------

CableMoves ==
  /\ connected' = ~connected
  /\ UNCHANGED <<session, apiVars, netVars, devVars, testers, stopVars>>

User == AcceptStop \/ \E d \in Devices : AcceptStart(d)

Network ==
  \/ \E d \in Devices : Lease(d) \/ \E g \in Runs : Packet(g, d)
  \/ CableMoves

Next ==
  \/ User \/ Api \/ Network
  \/ \E r \in DOMAIN starters : Starter(r)
  \/ \E d \in Devices : Adopt(d) \/ \E g \in Runs : Discovery(g, d)
  \/ \E i \in DOMAIN testers : Tester(i)

Spec == Init /\ [][Next]_vars

\* The event loop and the threads are scheduled.  Sniffing and monitoring
\* have a timeout and the run of the tests has one for each module.
\* Nothing is expected of users, devices and cables.
FairSpec ==
  /\ Spec
  /\ WF_vars(Api)
  /\ \A r \in Runs : WF_vars(r \in DOMAIN starters /\ Starter(r))
  /\ \A g \in Runs, d \in Devices : WF_vars(Discovery(g, d))
  /\ \A d \in Devices : WF_vars(Adopt(d))
  /\ \A i \in Runs : WF_vars(i \in DOMAIN testers /\ Tester(i))

-----------------------------------------------------------------------------
(***************************************************************************)
(* Properties.                                                             *)
(***************************************************************************)

\* The device is tested by one thread at a time, though its discovery, the
\* timeout of its monitoring and the stops are in threads of their own
\* (listener.call_callback, _device_stable).
OneRun ==
  \A i, j \in DOMAIN testers :
    /\ testers[i] \in {"enter", "testing", "outcome"}
    /\ testers[j] \in {"enter", "testing", "outcome"}
    => i = j

\* A device is monitored and tested only while the session has a target,
\* which run_test_modules takes the test pack from: the target a reset lost
\* is found again or the discovery does not get that far.
TargetPresent ==
  /\ \A x \in DOMAIN discovery :
       discovery[x] \in {"monitor", "monitoring"} => target # NoDevice
  /\ \A i \in DOMAIN testers :
       testers[i] \in {"enter", "testing", "outcome"} => target # NoDevice

\* When all threads are at rest after a run that came to its outcome, the
\* virtual network is down, whatever stops came meanwhile (_device_stable).
OutcomeTornDown == Quiet /\ status \in OutcomeStatus => ~networkUp

\* In Progress is never shown with nobody testing: the last thread that was
\* started for a stable device is there, or it died of an error (_device_stable, run_test_modules).
InProgressBacked ==
  status = IN_PROGRESS =>
    testers # <<>>
    /\ testers[Len(testers)] \in {"enter", "testing", "outcome", "dead"}

\* A run nobody stops goes through its statuses in order, and neither
\* validating nor monitoring lasts (testrun.py, network_orchestrator.py).
Contract == INSTANCE RunLifecycle
KeepsOrder     == Contract!Spec
KeepsLifecycle == Contract!FairSpec

\* A stop comes to its end: Stopping does not last.
StopSettles == status = STOPPING ~> status # STOPPING

(***************************************************************************)
(* What comments say and the code does not do.  TLC refutes each of these; *)
(* the counterexamples are told in the README.                             *)
(***************************************************************************)

\* api.py:280: "Check Testrun is not already running".
StartedAlone == [][Len(starters') > Len(starters) => Quiet]_vars

\* testrun.py:570: "Do not continue testing if Testrun has cancelled during
\* monitor phase": a cancelled run is neither monitored nor tested any more.
CancelledStays ==
  [][status = CANCELLED => status' \notin {MONITORING, IN_PROGRESS}]_vars

\* testrun.py:555: "Ignore discovered device because it is not the target
\* device", the target being the device of the answered start request.
OnlyTargetMonitored ==
  api = NoDevice =>
    \A x \in DOMAIN discovery :
      discovery[x] = "monitoring" /\ target = x[2] => x[2] = requested
=============================================================================
