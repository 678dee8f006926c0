--------------------------- MODULE DeviceReports ---------------------------
(***************************************************************************)
(* A device, its reports and what of them is on disk: the handlers of the  *)
(* API that change them (api.py, on the event loop, one at a time), the    *)
(* end of a test run that adds a report and deletes old ones               *)
(* (test_orchestrator.py, on a thread of its own), and the loading of the  *)
(* device when Testrun starts (testrun.py).                                *)
(*                                                                         *)
(* Devices share nothing here but the status and the target, so the model  *)
(* is of one folder under local/devices.  Over time several Device objects *)
(* belong to that folder: one that was loaded, one that was added after    *)
(* the first was deleted, and the one a testing thread may still hold.     *)
(*                                                                         *)
(* A step is what is done between two accesses to memory or disk that the  *)
(* other thread, or a crash, can tell apart.  Reports are numbered by the  *)
(* time their run started.                                                 *)
(***************************************************************************)
EXTENDS Statuses, Integers, SequencesExt

CONSTANTS
  NumOld,        \* how many reports an older version left with the device
  MaxRuns,       \* bound: test runs
  MaxCrashes,    \* bound: times the process dies in the middle of something
  NoLimit,       \* max_device_reports is not in the device's configuration
  DeviceLimit,   \* max_device_reports of the device as it was installed
  SessionLimit   \* max_device_reports of the system

Report  == 1 .. (NumOld + MaxRuns)
Objects == {1, 2}
Limits  == Nat \cup {NoLimit}

ASSUME ReportsAssumption ==
  /\ NumOld \in Nat /\ MaxRuns \in Nat /\ MaxCrashes \in Nat
  /\ NoLimit \notin Nat
  /\ DeviceLimit \in Limits
  /\ SessionLimit \in Nat

VARIABLES
  up,         \* the process runs
  loader,     \* where the loading of the device is
  todo,       \* old reports the loading has still to copy
  copied,     \* the old report that is being copied
  dir,        \* the device's folder exists
  config,     \* the content of device_config.json (reports, limit, profile),
              \* or {} if it cannot be loaded
  old,        \* the reports in the device's own folder
  folders,    \* the folder in local/reports of every report
  object,     \* the Device in the session's repository, or 0
  reports,    \* device.reports, of each Device
  limit,      \* device.max_device_reports
  profile,    \* the rest of a Device, as far as an edit changes it
  status,     \* session._status
  target,     \* session._device, or 0
  runs,       \* runs started
  tester,     \* where the testing thread is
  testing,    \* the Device it tests
  current,    \* the report it makes
  popped,     \* the report it is deleting
  api,        \* where the handler on the event loop is
  served,     \* the Device it is about
  wanted,     \* the report it is about
  pending,    \* what each writer of device_config.json is about to write
  overlap,    \* the file was opened while another writer had it open
  crashes,
  deleted,    \* history: reports a user deleted, alone or with the device
  retired,    \* history: reports deleted because there were too many
  cut,        \* history: reports whose copying a crash cut short
  raced,      \* history: a user deleted between the check and the pop
  spoiled,    \* history: writers of the file got in each other's way
  original    \* history: the device has not been deleted since installation

loaderVars  == <<up, loader, todo, copied, crashes>>
diskVars    == <<dir, old>>
fileVars    == <<config, pending, overlap, spoiled>>
deviceVars  == <<object, limit, profile>>
sessionVars == <<status, target, runs>>
testerVars  == <<tester, testing, current, popped>>
apiVars     == <<api, served, wanted>>
pastVars    == <<deleted, retired, cut, raced, original>>
vars == <<loaderVars, diskVars, fileVars, folders, deviceVars, reports,
          sessionVars, testerVars, apiVars, pastVars>>

Writers == {"loader", "tester", "api"}

Init ==
  /\ up = FALSE /\ loader = "off" /\ todo = {} /\ copied = 0
  /\ dir = TRUE
  /\ config = {[reports |-> <<>>, limit |-> DeviceLimit, profile |-> 0]}
  /\ old = 1 .. NumOld
  /\ folders = [r \in Report |-> "none"]
  /\ object = 0
  /\ reports = [o \in Objects |-> <<>>]
  /\ limit = [o \in Objects |-> NoLimit]
  /\ profile = [o \in Objects |-> 0]
  /\ status = IDLE /\ target = 0 /\ runs = 0
  /\ tester = "idle" /\ testing = 0 /\ current = 0 /\ popped = 0
  /\ api = "idle" /\ served = 0 /\ wanted = 0
  /\ pending = [w \in Writers |-> {}] /\ overlap = FALSE
  /\ crashes = 0
  /\ deleted = {} /\ retired = {} /\ cut = {}
  /\ raced = FALSE /\ spoiled = FALSE /\ original = TRUE

\* The reports of a Device; there are none when there is no Device.
Listed(o) == IF o = 0 THEN {} ELSE ToSet(reports[o])

-----------------------------------------------------------------------------
(***************************************************************************)
(* device_config.json is opened, which empties it, and written when it is  *)
(* closed.  When two writers have it open at once, what is left is what    *)
(* the last one wrote or a mix that cannot be parsed.                      *)
(***************************************************************************)

\* to_config_json: the limit is not among the fields.
ToConfigJson(o) ==
  [reports |-> reports[o], limit |-> NoLimit, profile |-> profile[o]]

OpenConfig(w, o) ==
  /\ config' = {}
  /\ pending' = [pending EXCEPT ![w] = {ToConfigJson(o)}]
  /\ overlap' = (overlap \/ \E v \in Writers \ {w} : pending[v] # {})
  /\ UNCHANGED spoiled

\* A file that was deleted meanwhile takes what is written with it.
CloseConfig(w, o) ==
  /\ pending' = [pending EXCEPT ![w] = {}]
  /\ IF pending[w] = {}
     THEN UNCHANGED <<config, overlap, spoiled>>
     ELSE IF ~overlap
     THEN /\ config' = pending[w]
          /\ spoiled' = (w = "tester" /\ o # object)
          /\ UNCHANGED overlap
     ELSE IF \A v \in Writers \ {w} : pending[v] = {}
     THEN /\ config' \in {pending[w], {}}
          /\ spoiled' = TRUE
          /\ overlap' = FALSE
     ELSE UNCHANGED <<config, overlap, spoiled>>

-----------------------------------------------------------------------------
(***************************************************************************)
(* Starting: load_all_devices.                                             *)
(***************************************************************************)

Start ==
  /\ ~up
  /\ up' = TRUE /\ loader' = "device"
  /\ UNCHANGED <<todo, copied, crashes, diskVars, fileVars, folders,
                 deviceVars, reports, sessionVars, testerVars, apiVars,
                 pastVars>>

\* The reports in the device's own folder count only if none is listed.
LoadTestReports(c) == IF c.reports = <<>> THEN old ELSE {}

\* A configuration that is missing or cannot be parsed is skipped.
LoadDevice ==
  /\ loader = "device"
  /\ IF config = {}
     THEN loader' = "done" /\ UNCHANGED <<todo, reports, limit, profile>>
     ELSE \E c \in config :
            /\ reports' = [reports EXCEPT ![1] = c.reports]
            /\ limit' = [limit EXCEPT ![1] = c.limit]
            /\ profile' = [profile EXCEPT ![1] = c.profile]
            /\ todo' = LoadTestReports(c)
            /\ loader' = IF todo' = {} THEN "register" ELSE "copy"
  /\ spoiled' = FALSE
  /\ UNCHANGED <<up, copied, crashes, diskVars, config, pending, overlap,
                 folders, object, sessionVars, testerVars, apiVars, pastVars>>

\* _copy_existing_reports, in the order the folder is listed in.
CopyExisting(r) ==
  /\ loader = "copy" /\ r \in todo /\ folders[r] = "none"
  /\ folders' = [folders EXCEPT ![r] = "partial"]
  /\ loader' = "copying" /\ copied' = r
  /\ todo' = todo \ {r}
  /\ UNCHANGED <<up, crashes, diskVars, fileVars, deviceVars, reports,
                 sessionVars, testerVars, apiVars, pastVars>>

ExistingCopied ==
  /\ loader = "copying"
  /\ folders' = [folders EXCEPT ![copied] = "full"]
  /\ reports' = [reports EXCEPT ![1] = Append(@, copied)]
  /\ loader' = "copy" /\ copied' = 0
  /\ UNCHANGED <<up, todo, crashes, diskVars, fileVars, deviceVars,
                 sessionVars, testerVars, apiVars, pastVars>>

\* FileExistsError: what is there, a whole copy or not, counts as the copy.
AlreadyCopied(r) ==
  /\ loader = "copy" /\ r \in todo /\ folders[r] # "none"
  /\ reports' = [reports EXCEPT ![1] = Append(@, r)]
  /\ todo' = todo \ {r}
  /\ UNCHANGED <<up, loader, copied, crashes, diskVars, fileVars, folders,
                 deviceVars, sessionVars, testerVars, apiVars, pastVars>>

SaveLoaded ==
  /\ loader = "copy" /\ todo = {}
  /\ loader' = "close"
  /\ OpenConfig("loader", 1)
  /\ UNCHANGED <<up, todo, copied, crashes, diskVars, folders, deviceVars,
                 reports, sessionVars, testerVars, apiVars, pastVars>>

LoadedSaved ==
  /\ loader = "close"
  /\ loader' = "old"
  /\ CloseConfig("loader", 1)
  /\ UNCHANGED <<up, todo, copied, crashes, diskVars, folders, deviceVars,
                 reports, sessionVars, testerVars, apiVars, pastVars>>

RemoveOld ==
  /\ loader = "old"
  /\ loader' = "register" /\ old' = {}
  /\ UNCHANGED <<up, todo, copied, crashes, dir, fileVars, folders,
                 deviceVars, reports, sessionVars, testerVars, apiVars,
                 pastVars>>

AddDevice ==
  /\ loader = "register"
  /\ loader' = "done" /\ object' = 1
  /\ UNCHANGED <<up, todo, copied, crashes, diskVars, fileVars, folders,
                 limit, profile, reports, sessionVars, testerVars, apiVars,
                 pastVars>>

LoadAllDevices ==
  \/ Start \/ LoadDevice \/ ExistingCopied \/ SaveLoaded \/ LoadedSaved
  \/ RemoveOld \/ AddDevice
  \/ \E r \in Report : CopyExisting(r) \/ AlreadyCopied(r)

-----------------------------------------------------------------------------
(***************************************************************************)
(* The handlers of the API.  None gives up the event loop once it has the  *)
(* body of its request, so they do not interleave with each other.         *)
(***************************************************************************)

EventLoopFree == loader = "done" /\ api = "idle"

\* The check that delete and edit make.
BeingTested == target = object /\ status \notin STATUSES_COMPLETE \ {IDLE}

Handle(label, r) ==
  /\ EventLoopFree /\ object # 0
  /\ api' = label /\ served' = object /\ wanted' = r

HandlerEnds == api' = "idle" /\ served' = 0 /\ wanted' = 0

\* DELETE /report: whatever the status is.
DeleteReport(r) ==
  /\ r \in Listed(object)
  /\ Handle("remove", r)
  /\ UNCHANGED <<loaderVars, diskVars, fileVars, folders, deviceVars, reports,
                 sessionVars, testerVars, pastVars>>

\* The first place a report is listed at.
FirstAt(i, r, list) == list[i] = r /\ \A j \in 1 .. i - 1 : list[j] # r

\* remove_report takes the report from the list ...
RemoveReportMutant ==
  /\ api = "remove"
  /\ \E i \in DOMAIN reports[served] :
       /\ FirstAt(i, wanted, reports[served])
       /\ reports' = [reports EXCEPT ![served] = RemoveAt(@, i)]
  /\ deleted' = deleted \cup {wanted}
  /\ raced' = (raced \/ tester = "pop")
  /\ HandlerEnds
  /\ UNCHANGED <<loaderVars, diskVars, fileVars, folders, deviceVars,
                 sessionVars, testerVars, retired, cut, original>>
RemoveReport ==
  /\ api = "remove"
  /\ IF wanted \in Listed(served)
     THEN /\ \E i \in DOMAIN reports[served] :
               /\ FirstAt(i, wanted, reports[served])
               /\ reports' = [reports EXCEPT ![served] = RemoveAt(@, i)]
          /\ deleted' = deleted \cup {wanted}
          /\ raced' = (raced \/ tester = "pop")
          /\ api' = "remove_folder" /\ UNCHANGED <<served, wanted>>
     ELSE HandlerEnds /\ UNCHANGED <<reports, deleted, raced>>
  /\ UNCHANGED <<loaderVars, diskVars, fileVars, folders, deviceVars,
                 sessionVars, testerVars, retired, cut, original>>

\* ... deletes its folder, and then saves the device.
RemoveFolder ==
  /\ api = "remove_folder"
  /\ folders' = [folders EXCEPT ![wanted] = "none"]
  /\ api' = "open" /\ UNCHANGED <<served, wanted>>
  /\ UNCHANGED <<loaderVars, diskVars, fileVars, deviceVars, reports,
                 sessionVars, testerVars, pastVars>>

\* GET /report and POST /export regenerate the report, which saves the device.
GetReport(r) ==
  /\ r \in Listed(object)
  /\ Handle("open", r)
  /\ UNCHANGED <<loaderVars, diskVars, fileVars, folders, deviceVars, reports,
                 sessionVars, testerVars, pastVars>>

EditDevice ==
  /\ ~BeingTested
  /\ Handle("open", 0)
  /\ profile' = [profile EXCEPT ![object] = 1 - @]
  /\ UNCHANGED <<loaderVars, diskVars, fileVars, folders, object, limit,
                 reports, sessionVars, testerVars, pastVars>>

\* save_device of the API: a folder that is there already is refused.
SaveNewDevice(o) ==
  /\ EventLoopFree /\ object = 0 /\ ~dir
  /\ o # testing
  /\ dir' = TRUE
  /\ reports' = [reports EXCEPT ![o] = <<>>]
  /\ limit' = [limit EXCEPT ![o] = NoLimit]
  /\ profile' = [profile EXCEPT ![o] = 0]
  /\ api' = "open" /\ served' = o /\ wanted' = 0
  /\ UNCHANGED <<loaderVars, old, fileVars, folders, object, sessionVars,
                 testerVars, pastVars>>

OpenDevice ==
  /\ api = "open"
  /\ api' = "close" /\ UNCHANGED <<served, wanted>>
  /\ OpenConfig("api", served)
  /\ UNCHANGED <<loaderVars, diskVars, folders, deviceVars, reports,
                 sessionVars, testerVars, pastVars>>

\* A new device comes into the repository when its file is written.
CloseDevice ==
  /\ api = "close"
  /\ HandlerEnds
  /\ object' = served
  /\ CloseConfig("api", served)
  /\ UNCHANGED <<loaderVars, diskVars, folders, limit, profile, reports,
                 sessionVars, testerVars, pastVars>>

DeleteDevice ==
  /\ ~BeingTested
  /\ Handle("remove_reports", 0)
  /\ UNCHANGED <<loaderVars, diskVars, fileVars, folders, deviceVars, reports,
                 sessionVars, testerVars, pastVars>>

\* remove_reports deletes every folder and then empties the list.
RemoveReports ==
  /\ api = "remove_reports"
  /\ folders' = [r \in Report |->
                   IF r \in Listed(served) THEN "none" ELSE folders[r]]
  /\ deleted' = deleted \cup Listed(served)
  /\ api' = "clear" /\ UNCHANGED <<served, wanted>>
  /\ UNCHANGED <<loaderVars, diskVars, fileVars, deviceVars, reports,
                 sessionVars, testerVars, retired, cut, raced, original>>

ClearReports ==
  /\ api = "clear"
  /\ reports' = [reports EXCEPT ![served] = <<>>]
  /\ deleted' = deleted \cup Listed(served)
  /\ raced' = (raced \/ tester = "pop")
  /\ api' = "rmtree" /\ UNCHANGED <<served, wanted>>
  /\ UNCHANGED <<loaderVars, diskVars, fileVars, folders, deviceVars,
                 sessionVars, testerVars, retired, cut, original>>

RemoveTree ==
  /\ api = "rmtree"
  /\ dir' = FALSE /\ config' = {} /\ old' = {}
  /\ pending' = [w \in Writers |-> {}]
  /\ overlap' = FALSE /\ spoiled' = FALSE
  /\ original' = FALSE
  /\ api' = "unregister" /\ UNCHANGED <<served, wanted>>
  /\ UNCHANGED <<loaderVars, folders, deviceVars, reports, sessionVars,
                 testerVars, deleted, retired, cut, raced>>

RemoveDevice ==
  /\ api = "unregister"
  /\ HandlerEnds
  /\ object' = 0
  /\ UNCHANGED <<loaderVars, diskVars, fileVars, folders, limit, profile,
                 reports, sessionVars, testerVars, pastVars>>

Api ==
  \/ RemoveReport \/ RemoveFolder \/ EditDevice \/ OpenDevice \/ CloseDevice
  \/ DeleteDevice \/ RemoveReports \/ ClearReports \/ RemoveTree
  \/ RemoveDevice
  \/ \E r \in Report : DeleteReport(r) \/ GetReport(r)
  \/ \E o \in Objects : SaveNewDevice(o)

-----------------------------------------------------------------------------
(***************************************************************************)
(* A run of the tests.  The user starts one when the last has ended.       *)
(***************************************************************************)

\* The reset of the start thread may clear the target the API sets.
StartRun ==
  /\ EventLoopFree /\ object # 0 /\ tester = "idle"
  /\ runs < MaxRuns /\ status \notin RunningStatus
  /\ status' = STARTING /\ target' \in {object, 0}
  /\ runs' = runs + 1
  /\ UNCHANGED <<loaderVars, diskVars, fileVars, folders, deviceVars, reports,
                 testerVars, apiVars, pastVars>>

\* The device is discovered, stable, and its tests start.
DeviceStable ==
  /\ status = STARTING /\ object # 0
  /\ status' = IN_PROGRESS /\ target' = object
  /\ tester' = "tests" /\ testing' = object /\ current' = NumOld + runs
  /\ UNCHANGED <<loaderVars, diskVars, fileVars, folders, deviceVars, reports,
                 runs, popped, apiVars, pastVars>>

\* A stop is a task on the event loop.  Cancelled stands for Stopping too.
Stop ==
  /\ EventLoopFree /\ status \in RunningStatus
  /\ status' = CANCELLED
  /\ UNCHANGED <<loaderVars, diskVars, fileVars, folders, deviceVars, reports,
                 target, runs, testerVars, apiVars, pastVars>>

TesterAt(label) == tester' = label /\ UNCHANGED <<testing, current, popped>>
TesterEnds == tester' = "idle" /\ testing' = 0 /\ current' = 0 /\ popped' = 0

\* run_test_modules after its modules: no report for a run that was stopped.
TestsEnd ==
  /\ tester = "tests"
  /\ IF status = IN_PROGRESS THEN TesterAt("copy") ELSE TesterEnds
  /\ UNCHANGED <<loaderVars, diskVars, fileVars, folders, deviceVars, reports,
                 sessionVars, apiVars, pastVars>>

CopyResults ==
  /\ tester = "copy"
  /\ TesterAt("copying")
  /\ folders' = [folders EXCEPT ![current] = "partial"]
  /\ UNCHANGED <<loaderVars, diskVars, fileVars, deviceVars, reports,
                 sessionVars, apiVars, pastVars>>

ResultsCopied ==
  /\ tester = "copying"
  /\ TesterAt("add")
  /\ folders' = [folders EXCEPT ![current] = "full"]
  /\ UNCHANGED <<loaderVars, diskVars, fileVars, deviceVars, reports,
                 sessionVars, apiVars, pastVars>>

AddReport ==
  /\ tester = "add"
  /\ TesterAt("outcome")
  /\ reports' = [reports EXCEPT ![testing] = Append(@, current)]
  /\ UNCHANGED <<loaderVars, diskVars, fileVars, folders, deviceVars,
                 sessionVars, apiVars, pastVars>>

\* The handlers treat the statuses that end a run alike.
SetOutcome ==
  /\ tester = "outcome"
  /\ TesterAt("sort")
  /\ status' = COMPLETE
  /\ UNCHANGED <<loaderVars, diskVars, fileVars, folders, deviceVars, reports,
                 target, runs, apiVars, pastVars>>

\* _cleanup_old_test_results: the limit of the device, or else the system's;
\* zero is none.
MaxReports(o) == IF limit[o] # NoLimit THEN limit[o] ELSE SessionLimit

\* What the list can be once it is sorted.
SortedLists(list) ==
  LET places == DOMAIN list
      orders == {p \in [places -> places] :
                   \A i \in places : \E j \in places : p[j] = i}
  IN  {s \in {[i \in places |-> list[p[i]]] : p \in orders} :
         \A i, j \in places : i < j => s[i] <= s[j]}

SortReportsMutant ==
  /\ tester = "sort"
  /\ TesterAt("check")
  /\ \E s \in SortedLists(reports[testing]) :
       reports' = [reports EXCEPT ![testing] = s]
  /\ UNCHANGED <<loaderVars, diskVars, fileVars, folders, deviceVars,
                 sessionVars, apiVars, pastVars>>
SortReports ==
  /\ tester = "sort"
  /\ IF MaxReports(testing) > 0
     THEN /\ TesterAt("check")
          /\ \E s \in SortedLists(reports[testing]) :
               reports' = [reports EXCEPT ![testing] = s]
     ELSE TesterAt("open") /\ UNCHANGED reports
  /\ UNCHANGED <<loaderVars, diskVars, fileVars, folders, deviceVars,
                 sessionVars, apiVars, pastVars>>

CheckLimit ==
  /\ tester = "check"
  /\ TesterAt(IF Len(reports[testing]) > MaxReports(testing)
              THEN "pop" ELSE "open")
  /\ UNCHANGED <<loaderVars, diskVars, fileVars, folders, deviceVars, reports,
                 sessionVars, apiVars, pastVars>>

\* The list may be empty by now: pop raises, and that is the end of the thread.
PopOldest ==
  /\ tester = "pop"
  /\ IF reports[testing] = <<>>
     THEN TesterEnds /\ UNCHANGED <<reports, retired>>
     ELSE /\ popped' = Head(reports[testing])
          /\ reports' = [reports EXCEPT ![testing] = Tail(@)]
          /\ retired' = retired \cup {popped'}
          /\ tester' = "rmtree" /\ UNCHANGED <<testing, current>>
  /\ UNCHANGED <<loaderVars, diskVars, fileVars, folders, deviceVars,
                 sessionVars, apiVars, deleted, cut, raced, original>>

RemovePoppedMutant ==
  /\ tester = "rmtree"
  /\ TesterAt("check")
  /\ folders' = [folders EXCEPT ![current] = "none"]
  /\ UNCHANGED <<loaderVars, diskVars, fileVars, deviceVars, reports,
                 sessionVars, apiVars, pastVars>>
RemovePopped ==
  /\ tester = "rmtree"
  /\ tester' = "check" /\ popped' = 0 /\ UNCHANGED <<testing, current>>
  /\ folders' = [folders EXCEPT ![popped] = "none"]
  /\ UNCHANGED <<loaderVars, diskVars, fileVars, deviceVars, reports,
                 sessionVars, apiVars, pastVars>>

\* export_config_json: with no folder, FileNotFoundError ends the thread.
ExportConfig ==
  /\ tester = "open"
  /\ IF dir
     THEN TesterAt("close") /\ OpenConfig("tester", testing)
     ELSE TesterEnds /\ UNCHANGED fileVars
  /\ UNCHANGED <<loaderVars, diskVars, folders, deviceVars, reports,
                 sessionVars, apiVars, pastVars>>

ConfigExported ==
  /\ tester = "close"
  /\ TesterEnds
  /\ CloseConfig("tester", testing)
  /\ UNCHANGED <<loaderVars, diskVars, folders, deviceVars, reports,
                 sessionVars, apiVars, pastVars>>

Run ==
  \/ StartRun \/ DeviceStable \/ Stop \/ TestsEnd \/ CopyResults
  \/ ResultsCopied \/ AddReport \/ SetOutcome \/ SortReports \/ CheckLimit
  \/ PopOldest \/ RemovePopped \/ ExportConfig \/ ConfigExported

-----------------------------------------------------------------------------
(***************************************************************************)
(* The end of the process, and everything it had in memory.                *)
(***************************************************************************)

Resting == loader = "done" /\ api = "idle" /\ tester = "idle"

Dies ==
  /\ up /\ (Resting \/ crashes < MaxCrashes)
  /\ crashes' = IF Resting THEN crashes ELSE crashes + 1
  /\ cut' = cut \cup {r \in Report : folders[r] = "partial"}
  /\ up' = FALSE /\ loader' = "off" /\ todo' = {} /\ copied' = 0
  /\ pending' = [w \in Writers |-> {}] /\ overlap' = FALSE
  /\ object' = 0
  /\ reports' = [o \in Objects |-> <<>>]
  /\ limit' = [o \in Objects |-> NoLimit]
  /\ profile' = [o \in Objects |-> 0]
  /\ status' = IDLE /\ target' = 0
  /\ TesterEnds /\ HandlerEnds
  /\ UNCHANGED <<diskVars, config, spoiled, folders, runs, deleted, retired,
                 raced, original>>

Next == LoadAllDevices \/ Api \/ Run \/ Dies

Spec == Init /\ [][Next]_vars

-----------------------------------------------------------------------------
(***************************************************************************)
(* Properties.                                                             *)
(***************************************************************************)

\* A report that is listed has its folder, over crashes and restarts, unless
\* somebody set out to delete it, the retention did, or a crash cut its copy
\* short (copy, add, remove and retention, each in its own order).
ListedHasFolder ==
  \A r \in Listed(object) :
    folders[r] = "full" \/ r \in deleted \cup retired \cup cut

\* When nothing is at work, what the next start will load of the device is
\* what is in memory, unless two writers got in each other's way.
ConfigCurrent ==
  Resting /\ object # 0 /\ ~spoiled =>
    \E c \in config : /\ c.reports = reports[object]
                      /\ c.profile = profile[object]

\* A run's own report survives its clean-up, whatever the limit is, unless a
\* user deleted it or deleted another between the check and the pop.
NewestKept ==
  tester \in {"open", "close"} =>
    current \in Listed(testing) \cup deleted \/ raced

(***************************************************************************)
(* What comments say and the code does not do.  TLC refutes each of these; *)
(* the counterexamples are told in the README.                             *)
(***************************************************************************)

\* device.py:110: "Fields relevant to the device config json file are
\* exported", and testrun.py:249: "Load max device reports".
LimitSurvives == object # 0 /\ original => limit[object] = DeviceLimit

\* api.py:501: "Check that Testrun is not currently running against this
\* device".
DeletedAtRest ==
  [][api = "idle" /\ api' = "remove_reports" => tester = "idle"]_vars
=============================================================================
