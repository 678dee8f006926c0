# Testrun: a verification project

Testrun (`framework/python/src`) tests the network behaviour of a device: it
builds a virtual network of containers on the device's interface, waits for the
device to take an address, monitors it, runs containers with tests against it
one after another, and writes a report. A user drives it from a page in the
browser (`modules/ui`), which follows the run over MQTT and edits devices, risk
profiles, certificates, reports and settings over HTTP. This directory holds TLA+
models of the framework's concurrent core and of the user interface, TLC
configurations that check them, and TLAPS proofs.

## 1. The system

| Part | State it keeps | Operations | Talks to |
|---|---|---|---|
| HTTP API (`api/api.py`) | none | start, stop, status, shutdown; devices, reports, profiles, certificates | calls Testrun and the session; creates one start thread per start and one asyncio task per stop |
| Testrun core (`core/testrun.py`) | device files, UI and broker containers | `start`, `stop`, `_device_discovered`, `_device_stable` | session, both orchestrators, listener callbacks |
| Session (`core/session.py`) | status, target, results, reports of modules, certificates, profiles, configuration | `start`, `reset`, `set_status`, `add_test_result`, `set_test_result_error`, `finish`, `stop`, `upload_cert`, ... | every public method is wrapped to publish the session over MQTT |
| Network orchestrator (`net_orc/network_orchestrator.py`) | network modules, current listener | `start`, `stop`, `_device_discovered`, `_start_device_monitor`, `_dhcp_lease_ack` | session status, containers, interfaces, listener |
| Listener (`net_orc/listener.py`) | callbacks, discovered devices, sniffer | `register_callback`, `_packet_callback`, `start_listener`, `stop_listener`, `reset` | starts one thread per callback |
| Test orchestrator (`test_orc/`) | test modules and packs, current module | `run_test_modules`, `_run_test_module`, `stop`, reports | session results, containers, connection of the device |
| Docker modules (`core/docker/`) | the container | `start`, `stop`, `get_status` | Docker |
| Test packs (`resources/test_packs/`) | the required results of tests | `calculate_result`, `calculate_status` | read the session's results |
| Test modules (`modules/test/`) | their results | `run_tests` | write one result file, edit the DHCP servers over gRPC |
| Network modules (`modules/network/`) | configuration files of daemons | gRPC servers of both DHCP servers | edited by the connection tests |
| Devices and reports (`common/device.py`, `common/testreport.py`) | the list of reports of a device, `device_config.json`, report folders | add, edit, remove, retention, loading and migration | session, API, the end of a run |
| Certificates (`core/session.py`, `api/api.py`) | the list in the session, files in `local/root_certs` | upload, delete, load | handlers on the event loop, loads in threads |
| Risk profiles (`core/session.py`, `common/risk_profile.py`) | the list in the session, files in `local/risk_profiles` | load, create, update, rename, delete, validate | session, API |
| UI: status (`store/effects.ts`, `reducers.ts`, `testrun.store.ts`) | the status shown, the status the application goes by, the subscription, the notification and its timers, the dialogs of a run | fetch, subscribe, start, stop, notify, complete | API, MQTT; every page reads the store |
| UI: start dialog (`testrun-initiate-form`, `device-tests`) | the device and the boxes chosen, the list of devices as old as the page | choose, start | API; opened by `app.store.ts` and the devices page |
| UI: pages (`certificates`, `reports`, `general-settings`, `devices`, `risk-assessment`) | a list of the server's objects, a form, the calls under way, dialogs | fetch, save, edit, delete, filter, discard | API; lists of devices, profiles and reports live in the ngrx store, from page to page |
| UI: questions (`dynamic-form`) | the boxes of a question | check, load, save | the profile form |

Who runs at the same time: the API's event loop; one start thread for every
accepted start (it never ends: it sleeps in a loop); a thread for every callback
of every packet that the listener reacts to; the thread that tests; the
containers. They share the session, the listener and the containers and take no
lock. In the browser there is one thread, and what crosses are calls, messages,
timers and dialogs. What is hard about it:

* **a stop** is a task on the event loop without an `await` in it: no request is
  served while it works, and every other thread goes on. It changes the status
  three times and expects the other threads to read it;
* **threads outlive what started them**: a discovery thread sniffs for up to the
  startup timeout, whatever happens to the session meanwhile;
* **check, then act**: a status that was read is stale when the status is set or
  a container started;
* **partial failure**: a container that is killed, crashes, loses its result
  file, or a device that is unplugged in the middle of a module; Docker errors
  that end a thread;
* **calls that cross**: the effects of the interface drop, queue or give up a call
  while another is under way (`exhaustMap`, `concatMap`, `switchMap`), the
  interceptor gives up on any after a few seconds, and the list that an answer is
  applied to may be older or newer than the answer;
* **one message, once**: the interface asks for the status when it is loaded and
  hears the rest; what is published while it does not listen is gone;
* **long legal sequences**: stop, finish, timeouts and late results all edit the
  one list of results that becomes the report.

What makes each part correct:

* *Test orchestrator*: a report has each test of the pack once with a final
  result, nothing changes the session's results after it, a result other than an
  error needs a result file, one container at a time unless Docker failed unnoticed,
  every run ends, and the network is torn down.
* *Session and lifecycle*: the statuses follow each other in order, a device is
  tested by one thread and it is the requested one, a stop ends and stays, and
  the UI is shown the truth.
* *Listener*: a device is discovered once by a listener, and none by one that was
  stopped.
* *Devices and reports*: retention deletes the oldest and never the new one;
  memory, `device_config.json` and the report folders agree, over restarts and
  crashes; nobody deletes a device under a run.
* *UI, status*: the application goes by the status it shows; the notification is
  for a device that is waited for, and it appears; a run that is over is shown so.
* *UI, pages*: a list is the server's list wherever the page can know; a filter is
  what its chip says; a form with unsaved changes goes only when the user says so
  (the code lets it go in two ways more, section 3); a run is started with the device and the modules that the dialog showed.
* *Certificates and profiles*: the list in memory is that of the files; a common name
  is stored once; a deletion removes what it names; what was saved stays, over
  failures, crashes and restarts.
* *Connection tests and DHCP servers*: dhcpd serves what was written by the time a
  test relies on it; each test leaves the range, the reservations, the failover, the
  second server and the interface as it found them, however calls fail.

## 2. The modules

| Module | What it is |
|---|---|
| `Statuses` | the enumerations of `common/statuses.py` |
| `TestResults` | the list of results of the session and what the test packs compute from it, as operators |
| `TestOrchestrator` | one run of the test modules: orchestrator thread, stop tasks, containers, cable; its properties and inductive invariant |
| `RunContract` | the abstract specification of a run: tests settle for good, the run is reported when all of them are or is abandoned |
| `TestOrchestratorProofs` | lemmas and theorems about `TestOrchestrator`, and the proof that it implements `RunContract` |
| `Lifecycle` | the session around the run: requests, start threads, listener, discovery, monitoring, testing threads, stops |
| `RunLifecycle` | the abstract specification of a session by its status alone |
| `LifecycleProofs` | lemmas and theorems about `Lifecycle` |
| `DeviceReports` | one device: its reports in memory and on disk, the API's handlers, the end of a run with its clean-up, loading and migration, crashes |
| `DhcpTests` | the tests of the connection module that reconfigure the network, and the two DHCP servers they do it to |
| `CertificateStore` | the certificates of the server: uploads and deletions on the event loop, threads that load the list |
| `ProfileStore` | the risk profiles of the server: the list, the files, failures and crashes |
| `UiStatus` | what the interface knows of the run, with the server as `RunLifecycle` and a stop |
| `UiCalls` | what a request of a page is at |
| `UiCertificates`, `UiReports`, `UiSettings`, `UiDevices`, `UiProfiles` | one page each, with the server's objects and the calls |
| `UiInitiate` | the dialog that starts a run, and what of it the server runs |
| `UiQuestions` | a question of a risk profile that has many answers |
| `UiPages` | the pages side by side: the router shows one of them, and the others stay as they are |
| `UiStatusProofs`, `DhcpTestsProofs`, `DeviceReportsProofs` | lemmas and theorems about the module each is named after |
| `ServerStoresProofs` | lemmas and theorems about `CertificateStore` and `ProfileStore` |
| `UiFormsProofs` | lemmas and theorems about the pages with a form: `UiDevices`, `UiProfiles`, `UiQuestions` |
| `UiPagesProofs` | lemmas and theorems about the other pages, and about `UiPages` |
| `MCPages` | `UiPages` for TLC, with the pages that are not shown in one of their initial states, and with nothing typed or chosen once the calls are used up |
| `MCStores` | what the server keeps in memory and on disk, `DeviceReports`, `CertificateStore` and `ProfileStore`, side by side: they share no state, so one of them moves and the others stay as they are |
| `MCTestOrchestrator`, `MCLifecycle`, `MCDhcpTests` | constants for TLC |

`TestOrchestrator` and `Lifecycle` meet at `_device_stable`: `TestOrchestrator`
starts where it has set the status to In Progress, and what it does until its
network is torn down is the actions `RunTestModules` to `TesterEnds` of a
testing thread in `Lifecycle`, which keep what the rest of the session can see of
it (the status, the network, its end). The stop is modelled in both: with
containers and results in the first, with listener and network in the second.

### TestOrchestrator and the code

`pc` is the place of the orchestrator thread, and an action is what the thread
does between two accesses to the session, the containers or the interface that
another thread can tell apart.

| Code (`test_orchestrator.py`) | Actions |
|---|---|
| 103-165: check, and an entry Not Started for each enabled test | `RunTestModules` |
| 529: check of a module | `EnterModule` |
| 537-558: tests marked In Progress, one at a time | `MarkTest`, `AllMarked` |
| 540-544, 822-829: the device is gone | `SetTestModulesError`, then `CancelDisconnected` |
| 561-576: the container | `StartContainer`, `StartFails` |
| 578-599: polling and timeout | `PollEnds`, `PollFails`, `PollTimeout`, `KillModule`, `TimeoutErrors` |
| `docker_module.py` 96-115, 174-188: errors that are caught and logged | `Swallowed`, `DockerStop` |
| 607-672: discard or load | `CheckStopped`, `LoadResults` |
| 174-178 | `FinishSession`, `Decide` |
| 180-214: the report | `GenerateReport`, `PublishReport`, `ReportFails`, `SetOutcome` |
| `testrun.py` 583 | `StopNetwork` |
| `api.py` 341-358, `testrun.py` 463-482, `session.py` 192-202 | `AcceptStop`, `BeginStop`, `StopFinish`, `StopAgain`, `StopOneModule`, `AllModulesStopped`, `StopCancel`, `StopTaskNetwork` |

`DockerModule.stop` catches whatever Docker raises and logs it, and `get_container` makes
a None of an `APIError`, which the loop takes for a container that is gone. After either
the container may be up and nobody knows (`Swallowed`); `faults`, a history, counts these
calls. What Docker raises and nobody catches ends the thread, with the container or
without it (`StartFails`, `PollFails`).

The list of results becomes a function from test names to the sequence of
results of the entries of that name: no code depends on how entries of different
names are interleaved. An entry's description, details and recommendations are
left out; its required result is `LevelOf`, because only the entries that
`run_test_modules` creates take it from the pack.

The operations on the whole list (`finish`, the entries of `RunTestModules`, of
a timeout and of a result file) are one step each. In the code another thread
may come between two entries; entries are independent of each other, and the
only two-step access to one entry, `finish` reading In Progress and then writing
Error, can meet a late result only in a run that is already Stopping, which makes
no report.

### Lifecycle and the code

Threads are sequences or functions of places: `starters[r]` for the r-th accepted
start, `discovery[<<g, d>>]` for the thread of listener g and device d,
`testers[i]` for the i-th thread in `_device_stable`. Listener g is the one that
start thread g created; `listener` names the current one. `SetStatus` is
`session.set_status` with the wrapper that publishes it: `shown` is what the UI
was told last and `paused` is `pause_message`.

| Code | Actions |
|---|---|
| `api.py` 248-330 | `AcceptStart`, then `SetTarget` |
| `api.py` 341-358, `testrun.py` 463-482 | `AcceptStop`, `BeginStop`, `StopAgain`, `StopListener`, `StopTests`, `StopNetwork`, `StopEnds` |
| `session.py` 178-181, 878-891 | `Reset`, `Starting` |
| `network_orchestrator.py` 76-151, 421-438 | `Restore`, `Restored`, `CreateNet`, `CreateFails`, `StarterExits`, `Validating`, `Validated`, `NetworkReady` |
| `testrun.py` 446-456 | `Register`, `Listen` |
| `listener.py` 77-98 | `Packet`, `Fire` |
| `network_orchestrator.py` 184-244, 287-339 | `CheckTarget`, `SniffEnds`, `NoAddress`, `HasAddress`, `NoTarget`, `Monitor`, `MonitorCancelled`, `MonitorDisconnected`, `MonitorEnds`, `Lease` |
| `testrun.py` 542-583 | `Adopt`, `DeviceStable`, `InProgress`, `RunTestModules`, ..., `TesterEnds` |

`Listen` starts the listener and sets Waiting for Device in one step: a packet
needs a thread, several commands and a sniffer before it reaches the status.

### DeviceReports and the code

The handlers of the API run on the event loop, one at a time; the end of a run
runs on the thread that tests. `api` and `tester` are the places of the two, and
`loader` the place of the loading at the start of the process, before which
nothing is served. Up to two `Device` objects belong to the one folder of the
model: the one in the repository (`object`) and the one that the thread still
holds (`testing`).

| Code | Actions |
|---|---|
| `testrun.py` 170-326 | `Start`, `LoadDevice`, `CopyExisting`, `ExistingCopied`, `AlreadyCopied`, `SaveLoaded`, `LoadedSaved`, `RemoveOld`, `AddDevice` |
| `api.py` 461-475, `device.py` 75-79 | `DeleteReport`, `RemoveReport`, `RemoveFolder`, then the save |
| `test_orchestrator.py` 398-413 | `GetReport` (getting or exporting a report saves the device) |
| `api.py` 528-671, `testrun.py` 390-423 | `SaveNewDevice`, `EditDevice`; the save is `OpenDevice`, `CloseDevice` |
| `api.py` 477-516, `testrun.py` 425-438 | `DeleteDevice`, `RemoveReports`, `ClearReports`, `RemoveTree`, `RemoveDevice` |
| `test_orchestrator.py` 172-220 | `TestsEnd`, `CopyResults`, `ResultsCopied`, `AddReport`, `SetOutcome`, `ExportConfig`, `ConfigExported` |
| `test_orchestrator.py` 297-308 | `SortReports`, `CheckLimit`, `PopOldest`, `RemovePopped` |

A save opens `device_config.json`, which empties it, and writes when it closes it:
`OpenConfig` and `CloseConfig`. Between them the other thread may open it too, and
a crash leaves it empty; what two overlapping writers leave is the last one's text
or something that does not parse. A report is the number of its run, since its
folder and its place in the sorted list come from when it started. All of a
device but its reports and its limit is one bit, `profile`, which an edit flips.
The statuses of a run are the ones the handlers tell apart. A failed
deletion of a folder, and the text of a report that is regenerated, are left out.

The variables below `crashes` are history that no guard reads; they only say in
the properties which loss somebody asked for.

### DhcpTests and the code

A DHCP server is two processes. The gRPC service keeps a configuration, made from
the file at its first call and never read again (`memory`); a call that edits it
writes the whole file, which the opening empties first (`writing`, then
`WriteConfig`). The other process reads the file again and again, compares its text
with what it read last (`known`) and restarts dhcpd when they differ: the process is
killed, a second later dhcpd is started and reads the file as it is by then
(`serving`). Only the primary's configuration is edited, so the secondary is whether
it runs.

A configuration is whether failover is on, how often the device's address is
reserved, the range, and the network that the range is in: its netmask and broadcast are
given in the file at first (`Given`), and `set_range` computes them from whatever range it
sets (`SetRange`), so that the first range set again is in another network. Which test runs is `test`, and `step` is the call it is at;
the steps are shared, since the tests are made of the same calls in other orders.

| Code (`modules/test/conn`, `modules/network`) | Actions |
|---|---|
| `test_module.py` 150-174 | `Begin`: a test is run or not; an exception ends it and the next is run |
| `connection_module.py` 722-820, 845-895 | `GetRange`, `TestSubnet`, `LeaseInSubnet`, `SubnetsTested`, `RestoreRange` |
| `dhcp_util.py` 246-265, `connection_module.py` 619-639 | `StopSecondary`, `DisableFailover` |
| `connection_module.py` 292-335, 432-538 | `AddReservedLease`, `DeleteReservedLease`, `CleanUp`, `Settle` |
| `connection_module.py` 377-430 | `CheckInterface`, `SetIfaceDown`, `SetIfaceUp`, `LookUpNewLease`, `Confirm` |
| `connection_module.py` 337-375 | `CheckServers`, `StopPrimary` |
| `dhcp_util.py` 79-90, `connection_module.py` 604-617 | `EnableFailover`, `StartSecondary` |
| `dhcp_util.py` 125-207, 267-291 | `LookUpLease`, `Found`, `PingDevice`, `WaitForLeaseExpire` |
| `dhcp_server.py` 86-103, `isc-dhcp-service` | `NoticeChange`, `StopDhcpd`, `StartDhcpd` |
| `network_service.py` of the servers and of the host | `Edit`, `SetInterface` |

Every call answers, is refused (an answer with the code 500), or raises an exception,
before or after the service did what it was asked. An edit that is refused has
changed `memory` all the same, because the handler changes it before it writes, and
may have left the file empty.

Time is left out but for one thing: what a test waits for in vain (a lease, an
unanswered ping) or waits out (a lease's end, the 30 seconds after a test)
takes longer than a restart, so that these steps need `Settled`; the three seconds of
`setup_single_dhcp_server` are the guard of `DisableFailover`. That the restarts
do end, and the tests with them, is part of `NetworkRestored`. An address may be
listed by any running server that has no reservation for the device, by both
when they are a pair, or by none. Left out: radvd, which is started and stopped with
dhcpd.

### CertificateStore, ProfileStore and the code

Handlers that are coroutines run on the event loop one at a time, and what they do to
certificates and profiles has no `await` that gives way. `get_certs` is a function, so
the server runs it in a thread: `load_certs` makes `self._certs` a new list and appends
to whatever list is there by then, one file after the other. A certificate is its common
name; a file that has been opened and not written is `Empty`.

| Code (`core/session.py`, `api/api.py`) | Actions |
|---|---|
| `api.py` 990-1062, `session.py` 928-986 | `UploadCert`, `CheckName`, `OpenFile`, `WriteFile`, `UploadFails` |
| `api.py` 1064-1086, `session.py` 1048-1067 | `DeleteCert`, `RemoveFile`, `RemoveFails`, `UnlistCert` |
| `api.py` 982-988, `session.py` 988-1046 | `BeginLoad`, `ListFiles`, `ReadFile`, `AppendCert`, `EndLoad` |

`touched`, `since` and `crossed` are history: the files that changed and of which the
list may be wrong, those that changed since a load began, and whether loads crossed.

Profiles are found by their name in lower case and their files by the name as it is
spelt. A save changes the list first; with a `rename` it removes the file of the name it
was sent; then it opens, which empties, and writes the file. Each of these can fail,
which leaves the list as it is by then, and the process can end after each
(`CrashSaving`); the next one loads the files (`LoadProfiles`), in any order.

| Code (`core/session.py`) | Actions |
|---|---|
| 614-656 | `LoadProfiles` |
| 683-725 | `CreateProfile`, `UpdateProfile`, `RemoveOriginal`, `OpenProfile`, `WriteProfile`, `SaveFails` |
| 860-876 | `DeleteProfile`, `DeleteFails` |

What a profile says is the number of its save. Three variables are history. `answered`
has for each name the save of it that was answered last, until a rename or a deletion of it
is answered. `lost` has the names of which a save failed, or was cut off by the end of the
process, after it had removed or emptied a file and before it wrote it. `odd`: the names of
which list and files may differ, because a save failed, or spelt the name otherwise, or
took the name of another profile.

### UiStatus and the code

The server is `RunLifecycle` with requests: it answers, publishes each change to
those who are subscribed, and is silent once it has published an ending
(`session.py` 63-93, the tracker). `mqtt` holds what is published and not yet
delivered, `calls[k]` the one request of kind `k`: nothing, sent, failed or
answered with what the server said then.

| Code (`modules/ui/src/app`) | Actions and operators |
|---|---|
| `store/effects.ts` 170-207, 324-362 | `Subscribed`, `Notification` in `fetchSystemStatusSuccess`; `Deliver`, `BrokerSubscribes` |
| `store/effects.ts` 272-300 | `ReportsFetched`: a finished run whose report is not listed becomes Idle |
| `store/reducers.ts`, `selectors.ts`, `app.store.ts` | `AppStatus`: the status that only changes when it differs |
| `testrun.store.ts`, `testrun.component.ts` | `Loading`, `OpenStop`, `ConfirmStop` with `getCancellingStatus` |
| `notification.service.ts`, `snack-bar.component.ts` | `OpenTimer`, `DismissTimer`, `SnackBarAction` |
| `testing-complete.component.ts` | `Completion`, `CompleteTimer`, `CloseModal` |
| `testrun-initiate-form.component.ts` 205-235 | `OpenStart`, `StartTestRun`, `StartAnswered`, `CloseDialog` |
| `api.py` 248-364, `session.py` 178-202 | `AnswerStart`, `Begin`, `AnswerStop`; the answer of a start is the session that its thread has, or has not yet, reset; a stop may be refused, lost or given up, which `stopTestrun` turns into a false that nobody reads |

### The pages and the code

Each page has the server's objects (`stored`, `kept`, `config`, `repository`,
`storedProfiles`, `enabledModules`, `answers`), what of them the page lists, its
form and the calls under way. What a call does is split where another may come in
between: sent, done by the server (or refused, or done and its answer lost, which
is what the interceptor's timeout is), answered. Dialogs are a stack, the last
opened first: the code of a dialog runs when it is closed with the values it was
opened with, and the models keep those in the dialog.

| Module | Code | What of it |
|---|---|---|
| `UiCertificates` | `certificates.store.ts` | `switchMap` gives up the call under way; one row for a name, and one for the file being uploaded |
| `UiReports` | `reports.store.ts`, `filter-dialog`, `filter-chips`, `delete-report` | the predicate on the table, the chips, the range with its two ends, `exhaustMap` of a deletion |
| `UiSettings` | `general-settings.store.ts`, `.component.ts`, the validator | `setDefaultFormValues` on every change of the configuration, options of the interfaces, adapters, a save that fails or is dropped |
| `UiDevices` | `devices.store.ts`, `.component.ts`, `device-qualification-from`, `device.validators.ts` | rows found by address, the setter of the form that may ask first, `changeDevice`, Save, Delete, leaving the page, the menu's "Create new device" (`isOpenAddDevice`) |
| `UiProfiles` | `risk-assessment.store.ts`, `.component.ts`, `profile-form`, `profile.validators.ts` | the same with copies that only the page has, names that must differ, drafts |
| `UiInitiate` | `testrun-initiate-form`, `device-tests`, `app.store.ts` 276; `api.py` 296-323, `test_orchestrator.py` 514 | boxes by place, modules by name, the merge on the server |
| `UiQuestions` | `dynamic-form.component.ts` 143-146, 186-261, `profile-form.component.ts` 107-140 | `applyNoneLogic` compares with the value last emitted, and its own changes are silent, and a None that is the first option has no such logic (`HasNoneLogic`: its index is falsy); the timer that enables the form |

A MAC address stands for the fields of a device that are compared as they are and
one answer for those of the questionnaire; a log level stands for the monitoring
period, loaded and saved alike. Days stand for dates and times.

History variables say which differences nobody could avoid: `untold`,
`unheard` and `unlisted` name the objects of which an answer was lost, given up or
crossed another. Those of the certificates are kept by cause, not by comparing the list:
the server's change of a name puts it in `stale`, and in `missed` for each answer that is on
its way by then; an answer that is heard takes out of `stale` what it tells of, but for
what it missed. `hidden` has the names whose row a failed upload took off, because the
file has that name.
Of the others, `chosen` (in `ran`) is what the dialog showed; `touched`, `took`
and `again` are what the user and the form itself have done to the boxes. No guard
reads them.

## 3. The runs

| Run | Instance | Shows |
|---|---|---|
| `test_run` | 2 modules of 2 tests (one test outside of the pack, one informational), pilot pack, 2 stops, 1 Docker call that fails unnoticed, `FairSpec` | types and the safety properties below; the contract with its promise to end (`RunContract!FairSpec`), `StoppingEnds`, `NetworkReleased` |
| `session_stops` | 1 device, 2 runs, 2 stops, validator on, patient user, `FairSpec` | `OneRun`, `TargetPresent`, `OutcomeTornDown`, `InProgressBacked`, `StopSettles` |
| `session_unstopped` | 1 device, 2 runs, no stop, `FairSpec` | the statuses in order (`RunLifecycle!FairSpec`) |
| `orphan_container` | as `test_run`, qualification pack, 1 stop, no Docker call that fails unnoticed | refutes `StopStopsContainers` |
| `cancelled_stays` | 1 device, 1 run, 1 stop | refutes `CancelledStays` |
| `server_stores` | reports: 2 old ones, 1 run, 1 crash, limit 1 of the device and none of the system; certificates: 2 files, 2 common names, 2 threads that load; profiles: 2 spellings of a name and another name, 5 saves, crashes anywhere | `ListedHasFolder`, `ConfigCurrent`, `NewestKept`; `ListFollowsDisk`, `DeletesNamed`, `StoredApart`; `AnsweredKept`, `MemoryOnDisk` |
| `limit_lost` | 1 old report, 1 run, no crash | refutes `LimitSurvives` |
| `dhcp_tests` | the six tests in the order of `module_config.json`, 2 ranges, calls of 2 kinds failing, `FairSpec` | `ServesFile`, `FailoverBySecondary`, `NetworkRestored` |
| `ui_status` | 2 runs, 2 messages under way, one timer, `FairSpec`, the page loaded at any status | `StatusAgrees`, `SnackBarExplained`, `WaitingAnnounced`, `EndShown` |
| `start_announced` | 1 run, 1 message | refutes `StartAnnounced` |
| `pages` | 2 files, 2 reports, 2 ports, 4 addresses, 2 names, 3 devices with 2 modules, 3 boxes | a property or two of each page |
| `others_kept` | the same | refutes `OthersKept` |

The type invariants of `Lifecycle`, `DhcpTests`, `UiStatus` and `CertificateStore` hold in
these instances too and are proved for all (section 4), so that the runs do not check
them again, and so are those of `ProfileStore` and `DeviceReports`; those of the pages,
which are `TypeOK` of `UiPages`, hold in the instance of `pages` and are parts of the
invariants of section 4.

The properties of a run:

* `ReportComplete`: each test of the pack is in a report once, with a final result.
* `ReportMatchesSession`: nothing changes the session after its report.
* `EvidenceBacked`: a result other than Error needs a result file.
* `OneContainer`: there are no more test containers beside one than Docker calls have
  failed unnoticed: whatever is stopped, timed out or disconnected, two run together only
  after such a failure. (They then do, and the next module starts all the same.)
* `EveryTestAccounted`: a run nobody stopped has a final result for every test,
  also when the device was disconnected half way.
* `NothingLeftInProgress`: after `finish`, whatever a stop does meanwhile.
* `OutcomeHasReport`: a status that is an outcome is the one of a published report.
* `KeepsFairContract`: the refinement of `RunContract`, a test being settled when its
  first entry is final.

Of a session: `OneRun` (one thread tests), `TargetPresent` (it has a target, though
the target can be lost by a reset), `OutcomeTornDown` (after an outcome no network
is left), `InProgressBacked` (In Progress is never shown with nobody there, unless
the thread died), `KeepsLifecycle`, `StopSettles`.

Of a device:

* `ListedHasFolder`: a report in the list has its whole folder, unless a user
  (`deleted`) or the clean-up (`retired`) set out to delete it or a crash cut its
  copy short (`cut`). Memory and disk are changed in another order by each of
  copying, adding, removing and cleaning up.
* `ConfigCurrent`: at rest the file is what is in memory, so a restart brings the
  same device back, unless two writers met (`spoiled`).
* `NewestKept`: a run's own report survives its clean-up, unless a user deleted it,
  or deleted any between the comparison and the `pop` (`raced`), by which the
  clean-up takes one more than it should.

Of the connection tests:

* `ServesFile`: when a test waits for the device to take up an edit, dhcpd serves the
  file, unless a call that edits failed or the failover test has stopped the primary.
  An edit during a restart, or a file read while it was empty, does no lasting harm.
* `FailoverBySecondary`: the lease that the test of failover confirms is the
  secondary's, whatever restarts were under way when the primary was stopped, unless
  a test before it was interrupted in its restoring.
* `NetworkRestored`: the tests end, and from then on the interface is up, the range the
  original, the device's address not reserved, failover on, the secondary up, and dhcpd
  serving that; each of these unless a call that has to do with it failed, or the last
  test to take the pair of servers apart returned early. The network of the range is not
  restored: after a test of subnets it is the one computed from the range (a /27), which
  the property says, and not the one that was given (a /24).

Of the certificates and profiles of the server:

* `ListFollowsDisk`: with nothing under way, each file that is a certificate is listed
  once and no other file is, but for the files changed since the last load (an upload
  does not enter the list) and after loads that crossed. A deletion needs no load
  after it.
* `DeletesNamed`: the file that a deletion removes has the common name that was sent,
  unless its entry was already out of date when it was found.
* `StoredApart`: an upload stores no certificate beside one of its name, unless the names
  were compared with a list that was being made or lacked one by then.
* `AnsweredKept`: the save of a name that was answered last is in a file of that name,
  whatever is saved, renamed, refused or deleted under this or any other name and
  spelling, until it is renamed or deleted itself. The code takes a file from the disk
  before it writes it: a save in that window is exempt, and one that failed or was cut off
  there (`lost`). Any other loss would be found.
* `MemoryOnDisk`: with nothing under way the listed profiles of a name are exactly its
  files, with what is in them, but for the names in `odd`.

Of the interface and a run:

* `StatusAgrees`: the status is written to two places by two effects, one of them
  only when it has changed; they agree whatever crosses, but for the Cancelling that
  a confirmed stop shows at once.
* `SnackBarExplained`: the notification is open only for a device that is waited
  for, while it is being dismissed, or while the user stops the run.
* `WaitingAnnounced`: a wait of which the interface is told is announced, or ends.
  The premise is that it is subscribed and expects no older answer. One case is left: a
  stop that is confirmed shows Cancelling at once, and when the request fails nothing
  takes that back; the device is still waited for, and the notification does not open
  again (`StopNotAccepted`).
* `EndShown`: a run that is being stopped, or whose ending is on its way, is shown to
  be over, unless the next has begun.

Of the pages: `CertificatesAgree`, `ReportsAgree`, `DevicesAgree`, `ProfilesAgree`
(the list is the server's, but for what the history names; of the reports also: what
the filters let through), `SettingsSound` (never one port for both sides; a form with
nothing to save shows the configuration of the store), `EditsKept` (below), `RunsAsChosen` (the modules that run are
those whose boxes were checked, as far as the configuration of the device names
them), `QuestionsAgree` (a loaded answer is shown as it is; None stands beside
another box only where the form had just taken one of them back, or is the first option).

`CertificatesAgree` is about every name of which the page has heard the latest. It has one
exception, a fault: a failed upload hides the certificate that has the name of its file
(`hidden`).

`EditsKept` (`DeviceEditsKept` and `ProfileEditsKept`): what was typed in a form and not
saved, field by field, stays until the user types again or answers a dialog, or a deletion
is answered. It names the ways in which the code lets it go unasked: a questionnaire that
is late fills the form of a device again (`FilledLate`), and a click on Save sets
`changeDevice` or `changeProfile`, by which the next selection replaces the form whether
the call was answered, failed or was dropped. That selection resets the flag, and the form
is safe again. Each of these exceptions is needed in the instance of `pages`.

**Bounds.** Two modules are what the loop over the modules needs: a current and
a later one; the first has a test before and after the point where a
disconnection hits. `MaxStops` = 2 lets a second request be accepted before the
first one's task begins. `MaxFaults` = 1 leaves one container that nobody knows of to meet
everything that comes after; a second one would do the same. Two runs let threads, listeners, addresses and the pause
of one run meet the next. With two old reports the migration can list them in the wrong
order, as a directory may, and the clean-up has to sort, to take two and to keep one;
one crash can hit every place of loading, handlers and clean-up, and the
restart after it is complete. The instance with two runs and the same limits (4.7
million states) holds as well and is not kept for its time. Verdicts are Compliant and Non-Compliant: the rest of the
final results behave as one of these. Every other variable is finite by itself.

Of the connection tests: the six tests are all there are that reconfigure anything,
and any of them may be left out, so that each meets what each earlier one has left. Two
ranges let one fail and the next be set. Two kinds of failing calls (each of them as
often as it likes) let a failure meet another one in the restoring.

Of the server's stores: two files are what a common name needs to be stored twice, and
two names to confuse one file's with another's; two threads cross, a third one would only
cross one of them. A file may change under a thread as often as it likes. Two spellings
of a name and another name are what a rename needs to go to itself, to another spelling
and to another profile; five saves let these follow each other with a crash between
any two.

Of the interface: one request of a kind, since a second one of the same kind drops or
replaces the first, which the models do. Two messages under way let one overtake no
other but meet an answer and a change of the server. Two runs let what is left of one
(a timer, a dialog, a subscription, an answer) meet the next. `MaxTimers` = 1: the
timers that dismiss the notification do the same and a later one fires after the
first, so a second only repeats it. The pages need two objects to be confused with
each other (of the devices, the one that is there and one that is added), an address in
two cases, a name as long as that of its copy; `MaxCalls`, `MaxSavings`, `MaxStarts` = 2
let a call meet another, and once the last is made `MCPages` lets nobody type (what was
typed before it is enough for its answer to meet). There a request meets one filter of
the reports, and two of them (`MaxFilters`) stand together when none is under way; and
at first a device has all of the modules it names enabled or none, which boxes and
starts then change. The theorems have no such bounds;
`MaxEvents` = 3 lets a load, an adapter and a save meet; after the third event nothing
is chosen any more.
Three boxes are two and None, the last of them; the theorem is about any place of it.

**Fairness.** The orchestrator thread, each start, discovery and testing thread
and the stop tasks are weakly fair: they are threads of a running process and
none waits for a lock. A module that neither ends nor is stopped meets its
timeout, since time passes; sniffing and monitoring have timeouts too. Nothing is
assumed of users, containers, devices or the cable. In `UiStatus` the server comes to
every request, answers and messages arrive, the broker hears of a subscription and
timers fire, each weakly fair; the server's own steps are fair but for those that
wait for the device. The user never has to do anything. In `DhcpTests` the service
writes the file it has opened, the loop reads it again and again, and the tests go on;
nothing is asked of the device. Failures may come and are never expected: the fair
steps of the orchestrator (`Progress`) are those in which nothing of Docker fails, so that a
module which hangs ends by its timeout or a stop. An orchestrator thread may die
(`StartFails`, `PollFails`, `ReportFails`, `TestsCrash`), and then only a stop tears the network
down, which is how `NetworkReleased` is stated.

**The patient user.** `Patient` lets a start be accepted only when no thread of
the last run is at work. The API does not enforce it (`StartedAlone`), and without
it two runs share everything; what the passing runs show of a session holds under
this assumption. `CHECK_DEADLOCK FALSE` in the two session runs: all requests used
up and all threads at rest is how a behaviour ends there. `StartRun` of
`DeviceReports` assumes the same user; the process can always be ended and started
again there. The interface's runs have `CHECK_DEADLOCK FALSE` too: with the bounds
used up and nothing under way the page simply stays.

### What the refuted properties say

* `StopStopsContainers`: a module's container is started after a stop went through
  the modules; the status it then polls is Cancelled, so the loop ends at once and
  nobody stops the container.
* `CancelledStays`: a stop while a discovery thread waits for an address. The
  thread then sets Monitoring; the listener was reset, so the end of the monitoring
  calls nobody, and the status stays Monitoring: starts are refused while the UI,
  which is told nothing after Cancelled, offers one. A stop between the check of
  `_device_stable` and its setting of In Progress undoes the cancellation too.
* `LimitSurvives`: `to_config_json` does not write `max_device_reports`, so the
  first save of a device loses its limit at the next start.
* `StartAnnounced`: a start is answered with the session while its thread has not
  reset it. The interface takes the outcome of the last run, or Idle, for the end of
  this one, closes its subscription and never shows the run.
* `OthersKept`: the name of a new profile is checked against the names without the
  one of the profile shown before it; saved, it overwrites that one.

These are refuted by TLC too, and are stated in their modules without a run of
their own:

* `NoTestLeftNotStarted` (`TestOrchestrator`, constants of `orphan_container`): the
  errors of a disconnected device are entries of their own beside the ones that stay
  Not Started.
* `CommonNamesDiffer` (`CertificateStore`): an upload compares its common name with
  the list, and does not enter the list. The next upload with the same common name is
  stored beside it, as is one that comes while a thread has just emptied the list.
* `DeletedWhenSaid` (`CertificateStore`): the handler of a deletion answers that all
  went well whatever `delete_cert` returns, so also when the file is still there.
* `ExistingLoaded` (`ProfileStore`): a crash between the opening and the writing of a
  profile leaves a file that is no JSON. Its exception ends the loop over the files, and the profiles
  after it are gone from the list, though not from the disk, at every start.
* `StartedAlone` (`Lifecycle`, `Patient` FALSE, two runs): the status is checked by a
  request and set later by its thread.
* `OnlyTargetMonitored` (`Lifecycle`, two devices, one run): the target is set by the
  request and cleared by the reset of its own thread; then the first registered
  device that is discovered is adopted.
* `DeletedAtRest` (`DeviceReports`, constants of `limit_lost`): the status by which
  `delete_device` decides is set before the thread cleans up and saves, and by a stop
  before the thread has ended.
* `ChangeConfirmed` (`UiProfiles`, constants of `pages`): the dialog of a save is
  cancelled, `changeProfile` stays set, and the next profile selected replaces the
  form with its changes unasked.
* `AddDeviceOnce` (`UiDevices`, constants of `pages`): the flag by which the menu asks
  for a new device stays set when the form is discarded, saved or deleted; "Create new
  device" then does nothing on the page, and the page opens the form unasked when the
  user comes back to it.
* `DevicePortKept` (`UiSettings`): the configuration is shown before the interfaces
  are known, its port is no option and the form blank, and a save then wipes it.

Met while modelling, and visible in the definitions: a stop accepted after `Decide`
still gives a report and an outcome (`SetOutcome`); a stop that is already over
does not discard the results of the module it interrupted (`CheckStopped`); a
timeout adds results for tests outside of the pack (`TimeoutErrors`); the entries a
disconnection appends are the modules' own `TestCase` objects
(`test_orchestrator.py` 827), whose texts the next run copies.

In the connection tests: the tests of an address change and of subnets return when
there is no lease, without restoring what `setup_single_dhcp_server` has done
(`CutBy`); nothing starts the primary again after the test of failover (`StopPrimary`);
a reservation that is refused leaves the interface down (`WaitForLeaseExpire`); the host
answers with a message, which is true in Python whatever its code, so that a failure to
set the interface goes unnoticed (`SetInterface`, `connection_module.py` 401, 419 and
457); of two reservations a deletion leaves one (`DeleteReservedLease`); a range
restored to 10.10.10.10-10.10.10.20 gets the netmask of a /27 (`SetRange`). An edit repeated after
a lost answer can write a file equal to the one the loop remembers while dhcpd was
started with an empty one, and dhcpd is then down for good: `NetworkRestored` leaves it
out with the interrupted tests.

In the interface: a stop confirmed after the run has ended leaves Cancelling
(`ConfirmStop`), and so does one whose request fails (`AnswerStop`); a failed upload takes
the row of a certificate that has the name of its file (`Uploaded`); a deletion answered when the row is gone takes the last device of the
list (`removeDevice`, index -1); a range of dates with only an end filters nothing
and shows a chip (`filterStartedDateRange`); a deletion confirmed while another is
under way is dropped (`deleteReport`); a failed save of the settings ends the effect,
so that no later one is sent until the page is opened again (`dead`); a copy that is discarded puts back the
list of when the dialog opened (`UiProfiles`); a dialog of a start that is opened
before the modules are loaded can never start (`startTestrun`), and the modules that
a device's configuration does not name run although their boxes are not checked
(`enabledIn`); a None that is the first option is checked beside any other (`HasNoneLogic`); a box
checked, then None, then the box again leaves both checked, and a
saved answer that contradicts itself is changed 100 ms after it is shown
(`applyNoneLogic`, `enableForm`).

## 4. The proofs

`TestOrchestratorProofs` proves, for any modules and tests, any pack, verdicts and
number of stops and of Docker calls that fail unnoticed, from `PackAssumption` and `ModulesAssumption` (test names are
unique, every module has a sequence of them, a result file holds final results):

* `TypeCorrect`: `Spec => []TypeOK`;
* `InductiveInvariant`: `Spec => [](TypeOK /\ IInv)`;
* `ReportsAreComplete`, `ReportsMatchSession`, `NothingInProgressAfterFinish`,
  `OneContainerAtATime`, `OutcomesHaveReports`, `ResultsHaveEvidence`,
  `TestsAreAccounted`.

None of the properties is inductive. `IInv` has these parts. `ProgressInv`: while
the status is In Progress every test of the pack has its one entry, and the tests
the thread went past (`Marked`) are no longer Not Started; a stop ends the premise
for good, because nothing sets In Progress again. `FinishInv`: after `finish` no
entry is in progress. Both together give, at `Decide`, that every test is settled
(`AllSettled`), which is the heart of `ReportComplete`. `ReportInv`: a report is
made of settled results, which then do not change, since all that can still touch
them is a stop's `finish`, which changes nothing (`FinishIdle`). `ContainerInv`:
where the thread may start a container, those that run are no more than the failures that
nobody noticed. `EntryInv`: a test that the
thread has yet to come to (`Ahead`) was given no result. `EvidenceInv`: all entries of
a module that left no file are errors or not settled. `AccountInv`: a run that nobody
stopped is cancelled only by a disconnection, and each of its tests was started or
made an error by then. Each part is a lemma with one case for each action, and the
steps of the stop task and the environment are summed up once (`OtherSteps`).

Its last section proves `OrchestratorKeepsContract`: the safety part of the
refinement of `RunContract`. Every step of the detailed orchestrator settles some
tests for good, reports when all of them are settled, abandons the run, or is a
stutter of the contract; the step that reports rests on `IInv`.

`LifecycleProofs` proves `SessionTypeCorrect` for any users and devices. It needs one
fact beside the types: a start thread that has created the network has a listener
(`Created`), or `Register` would write to the callbacks of none. For the patient
user and one device (`OneDeviceAtATime`), with any number of runs and stops, it
proves `TestedOnce`, `TestedWithTarget`, `NetworkTornDown` and `ProgressIsBacked`.
The invariant is `LifeInv`. `ListenerInv`: only the last start thread is at work, and
only the current listener sniffs, with callbacks of that thread. `FreshInv`: a packet
can start a discovery only while the last start thread waits, nobody works on the
device, and the status is Waiting for Device or that of a stop which is just about
to stop the listener; this is what a stop and a discovery that cross must keep.
`OneInv`: at most one thread of discovery, or else one of the tests, has the device.
`TargetInv`, `OutcomeInv` and `ProgressInv` say what that thread may rely on: the
target, a network that its own tester tears down, and In Progress only where the
tests are. The two assumptions are needed: `OnlyTargetMonitored` is refuted with two
devices and `StartedAlone` with a user who is not patient.

When that user stops nothing (`MaxStops = 0`), `LifecycleKept` proves the safety part of
the refinement of `RunLifecycle`: every step of the threads moves the status to one that
may follow it, or leaves it. `CourseInv` ties the status to the places of the threads:
that of the last start thread (`StartCourse`), of the discovery (`DiscoveryCourse`) and of
the tests (`TestCourse`), where only a disconnection, or a device that got no address,
cancels the run. A stop breaks it, and the order with it: `CancelledStays` is refuted.

`UiStatusProofs` proves, for any runs, messages, timers and outcomes, `UiTypeCorrect`,
`StatusesAgree` and `NotificationsExplained`. Its invariant `UiInv` gives the types by
who changes them (server, broker, requests, store, dialog) and says that a run which
has begun has its number (`Numbered`). In the store the two properties are
proved together (`StoreInv`): one step of the store changes both statuses, the
subscription and the notification.

`DhcpTestsProofs` proves `DhcpTypeCorrect`, `FailoversBySecondary` and `TestsAreServed` for any tests,
in any order and each of them run or not, any ranges and any number of failing calls,
from `DhcpAssumption`. The type of the place in the ranges needs one fact more: the
device is in a range only where the test is at one (`SubnetInv`). `FailoverInv` has
these parts. `FlowInv`: each kind of test stays on its own steps, so that the test of
failover never edits anything. `AloneInv`: a test that reconfigures the primary does it
whilst the secondary is down. `QuietInv`: so whenever both servers are up no edit is
under way and dhcpd serves the file, but for the steps that restore the network and
wait. `PairInv` and `StoppedInv`: the test of failover has a secondary, and the primary
it stopped is not started again by a restart that was due. An edit or a start that
fails breaks `AloneInv`, which is why `Interrupted` is in the premise.

`TestsAreServed` is about what no test may do: go on with a configuration that dhcpd
did not take. The service restarts dhcpd only where it has read a new configuration,
and it compares what it reads with what it read last. `ServeInv` says, until an edit
or a start fails: a written file is the service's (`MemoryInv`); no test edits before
failover is disabled (`DisabledInv`); the range is another one only while a test of
subnets has it on trial (`RangeInv`), and a device is reserved only while a test of the
address has it (`ReservedInv`); with failover off, what had been read before is served
or is no longer what was read last (`KnownInv`); and so what dhcpd does not serve yet
will be read as new (`FreshInv`).

`ServerStoresProofs` is about any files, names, saves and number of threads. Of the
certificates, from `CertificateAssumption`, it proves `CertsTypeCorrect`,
`DeletionsFindTheirFile`, `CertsFollowDisk` and `UploadsStoredApart`. What is listed is
there by `CertInv`. `ListedInv`: an
entry of the list is what is in its file, unless the file changed since the list was
made. `PendingInv`: so is what a thread has read and is about to list, unless the file
changed since the thread began. `AloneInv`: without crossing there is one load, and what
changes during it stays in `touched`. `OnceInv`: without crossing each file is listed
once. `FoundInv`: what a deletion found in the list is what is in the file it removes,
unless it was out of date. `OnceInv` is there because a deletion takes its file out
of `touched` when it has taken one entry off the list: were there two, the other one
would be wrong. What is there is listed by `CompleteInv`: one of the loads under way
will list every file that has not changed since it began, or the list is complete
already. `SureInv`: no other file has the name that an upload is sure of. Of the risk
profiles it proves `ProfilesTypeCorrect`, `AnswersAreKept` and `ProfilesOnDisk`.
`AnsweredKept` is inductive with the types: a file changes only by the save under way,
which exposes its name first, or by a deletion that is answered. Between
the removal of the old file and the end of the writing of the new one memory and disk
differ, so `StoredInv` compares the list with `Intended`, the files as they will be when
the save under way is done; `OffInv` says that no save outlives its process.

`DeviceReportsProofs` proves `ReportsTypeCorrect`, `ListedHaveFolders`, `NewestReportKept`
and `ConfigIsCurrent` for any number of old reports, runs and crashes and any limits.
The types come with `WorkInv`, which says who may be at work at once: while the device
is loaded nobody else (`LoadingInv`), the run that has begun is the last one (`RunInv`),
and a handler has the Device of the repository or a new one (`HandlerInv`). Folders:
every report that is in a list, in the file, or about to be written to it has its folder
or was given up (`FolderInv`), and a run that has not listed its report yet has a number
that nothing mentions (`NumberInv`). The newest report: once the list is sorted it is the
last, and the first is removed only from a list of two or more (`NewestInv`); the lemmas
on `SortedLists` say what the sort keeps. The configuration: `WriterInv` says who has the
file open, and without `overlap` it is one; `WritesInv` says that what is about to be
written is current, or the file will be opened again; `SyncInv` that the file is current
or somebody is still to write it.

`UiFormsProofs` is about the pages with a form, each of them alone (`deviceSpec`,
`profileSpec`, `questionSpec`). Devices: `DevicesAreListed` says of each address that the
list has it once, as the server does. Server and list change in different steps of a
call, so `DevServerInv` says for each call that the server has answered what the list has
until it hears of it (`AddDue`, `EditDue`, `DeletionDue`), and that calls which cross have
their addresses in `unheard` (`CrossedKnown`). `ProfilesAreListed` is alike, with
`GoneDue` and `NamesCrossed`. `DeviceFormKept` and `ProfileFormKept` are the action
properties of the two forms: each action is shown to leave the fields as they are, or to
be one of the ways that are named (`DeviceEditFate`, `ProfileEditFate`); that the form
is not given another device without its flag rests on the premise, that there are changes
(`ChangesHold`, `ProfileChangesHold`). Questions: `AnswersAgree` needs what
`fillProfileForm` makes of an answer, a recursive function of the model over any number
of boxes. That the boxes below `i` are those of the answer after `i` steps
(`FillContained`, `FillShows`) is proved by induction over the set of the steps that
satisfy it (`StepByStep`, from the least step that would not). It holds for a form that
is in step, where what was emitted last covers what is checked or is covered by it
(`InStep`); why every form is, or took a box back, is what `AnswersShown`, `TakenAgain`
and `KnownExplained` add to `QuestionInv`.

`UiPagesProofs` has the other pages, first each alone. `CertificatesListed`: beside the
property and the types it takes `AnswersCurrent`, that an answer on its way tells the
truth of every name that has not changed since it was made; so a list that is shown, from
whichever of the calls, is right but for what it missed. `SettingsAreSound`: a save that is under way carries two different
ports (`SaveOK`), and a form without changes waits for an answer or shows the store's
configuration (`FormFollows`). `ReportsShown`: what a deletion was answered for the server
has no more (`DeletionOK`), which is why the answer may take it out of any list there is
by then (`HistoryAgrees`); the other half, that the table shows what passes the filters of
the chips, is `FiltersOK`. `RunsWhatWasChosen`: a request carries what its dialog showed,
and no dialog has a box beyond the modules it was opened with. Then it puts the pages
together: a step of `UiPages` is one of the page that is shown and leaves the others alone
(`PagesApart`), so `Spec` implies the specification of every page (`EveryPage`);
`PagesKeepUp` and `EditsAreKept` follow.

Every invariant and action property that a passing run checks is stated by a theorem.
Only model-checked: liveness under fairness (`KeepsFairContract`, `StoppingEnds`,
`NetworkReleased`, `KeepsLifecycle`, `StopSettles`, `WaitingAnnounced`, `EndShown`,
`NetworkRestored`), which is out of the prover's reach; of `KeepsFairContract` and
`KeepsLifecycle` the safety part is proved. The refuted properties have their
counterexamples. The parts of the invariants above are proved and have no run of their
own.

## 5. Not modelled

Of the framework: the packet analyses in the test modules, OVS and interface
commands, report rendering, logging and packaging have no protocol between concurrent
parts. Shutdown ends the process; the API refuses it during a run. The periodic MQTT
checks only read. The tests of the connection module that reconfigure nothing, radvd and
the text of the DHCP configuration, and the order in which the network modules are loaded
are not modelled yet. Of a risk profile, its answers with their checks, its risk and its
expiry are functions of what it says and of the day, and its PDF is rendering. Of a
certificate, its kind, its dates and its issuer are data.

Of the interface: what only renders or navigates (menus, focus, help tips, callouts,
the layout of lists, icons, the version's consent, downloads); the sorting of columns;
profiles that have expired, which the form shows disabled; the dialog after a profile
is saved; the boxes of the test modules in the form of a device (clicking another
device resets them before the dialog asks); the text of a firmware version. A
question of `UiQuestions` saves again only a profile that exists.

The two sides meet in `UiStatus`, whose server is `RunLifecycle`, the specification
that `Lifecycle` is shown to implement when nobody stops it, with a stop added; the
pages take the server's handlers as what they answer.

`PROJECT.json` lists every part.

## 6. Plan

1. Module loading: the order of start under dependencies, as a function checked
   against a reference definition.
2. The expiry of risk profiles, in the server and in the form.
3. Proofs of what these add. A session with stops implements no contract yet: one that
   allows what the refutation of `CancelledStays` shows would have to be written first.
