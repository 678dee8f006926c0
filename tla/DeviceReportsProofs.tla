------------------------ MODULE DeviceReportsProofs ------------------------
(***************************************************************************)
(* Theorems about a device, its reports and what of them is on disk, for   *)
(* any number of old reports, runs and crashes and any limits.             *)
(*                                                                         *)
(* The invariants are given one by one, each with the lemma that the steps *)
(* keep it: who is at work (LoadingInv, RunInv, HandlerInv), what becomes  *)
(* of a report (AccountInv), where the newest one is in its list           *)
(* (NewestInv), who has the configuration open (WriterInv) and who is      *)
(* still to write it (SyncInv).                                            *)
(***************************************************************************)
EXTENDS DeviceReports, ServerStoresProofs

USE DEF loaderVars, diskVars, fileVars, deviceVars, sessionVars, testerVars,
        apiVars, pastVars, Objects, Writers

-----------------------------------------------------------------------------
(***************************************************************************)
(* Types.                                                                  *)
(***************************************************************************)

ConfigRecord == [reports : Seq(Report), limit : Limits, profile : {0, 1}]

LoaderTypes ==
  /\ up \in BOOLEAN
  /\ loader \in {"off", "device", "copy", "copying", "close", "old",
                 "register", "done"}
  /\ todo \subseteq 1 .. NumOld /\ old \subseteq 1 .. NumOld
  /\ copied \in 0 .. NumOld

ApiTypes ==
  /\ api \in {"idle", "remove", "remove_folder", "open", "close",
              "remove_reports", "clear", "rmtree", "unregister"}
  /\ object \in {0, 1, 2} /\ served \in {0, 1, 2} /\ wanted \in Report \cup {0}
  /\ dir \in BOOLEAN

RunTypes ==
  /\ tester \in {"idle", "tests", "copy", "copying", "add", "outcome", "sort",
                 "check", "pop", "rmtree", "open", "close"}
  /\ status \in {IDLE, STARTING, IN_PROGRESS, CANCELLED, COMPLETE}
  /\ testing \in {0, 1, 2} /\ current \in Report \cup {0}
  /\ popped \in Report \cup {0} /\ runs \in 0 .. MaxRuns

ListTypes ==
  /\ reports \in [Objects -> Seq(Report)]
  /\ limit \in [Objects -> Limits] /\ profile \in [Objects -> {0, 1}]
  /\ config \subseteq ConfigRecord
  /\ pending \in [Writers -> SUBSET ConfigRecord]

HistoryTypes ==
  /\ folders \in [Report -> {"none", "partial", "full"}]
  /\ deleted \subseteq Report /\ retired \subseteq Report /\ cut \subseteq Report
  /\ raced \in BOOLEAN /\ spoiled \in BOOLEAN /\ overlap \in BOOLEAN
  /\ original \in BOOLEAN

ReportsTypeOK == LoaderTypes /\ ApiTypes /\ RunTypes /\ ListTypes /\ HistoryTypes

LEMMA ReportNumbers ==
  /\ NumOld \in Nat /\ MaxRuns \in Nat /\ SessionLimit \in Nat
  /\ NoLimit \notin Nat /\ DeviceLimit \in Limits /\ NoLimit \in Limits
  /\ 1 .. NumOld \subseteq Report /\ 0 \notin Report
  /\ \A r \in Report : r \in Nat
BY ReportsAssumption DEF Report, Limits

-----------------------------------------------------------------------------
(***************************************************************************)
(* Who is at work.                                                         *)
(***************************************************************************)

\* While the device is loaded nothing else is done.
LoadingInv ==
  /\ loader # "done" =>
       api = "idle" /\ tester = "idle" /\ object = 0 /\ status = IDLE
  /\ ~up => loader = "off"
  /\ loader = "copying" => copied # 0

\* The run that has begun is the last one, and has a thread once its tests
\* start.
RunInv ==
  /\ status = STARTING => tester = "idle" /\ runs > 0
  /\ tester = "idle" <=> testing = 0
  /\ tester # "idle" => runs > 0 /\ current = NumOld + runs
  /\ tester = "rmtree" => popped \in retired

\* A handler is about the Device in the repository, or about a new one.
HandlerInv ==
  /\ api # "idle" =>
       /\ served # 0
       /\ served # object =>
            object = 0 /\ api \in {"open", "close"} /\ served # testing
  /\ api \in {"remove", "remove_folder"} => wanted # 0
  /\ api = "remove_folder" => wanted \in deleted

WorkInv == ReportsTypeOK /\ LoadingInv /\ RunInv /\ HandlerInv

\* What a step leaves alone keeps what is said of it.
LEMMA WorkFrames ==
  /\ LoaderTypes /\ UNCHANGED <<up, loader, todo, old, copied>> => LoaderTypes'
  /\ ApiTypes /\ UNCHANGED <<api, object, served, wanted, dir>> => ApiTypes'
  /\ RunTypes /\ UNCHANGED <<tester, status, testing, current, popped, runs>>
       => RunTypes'
  /\ ListTypes /\ UNCHANGED <<reports, limit, profile, config, pending>>
       => ListTypes'
  /\ HistoryTypes /\ UNCHANGED <<folders, deleted, retired, cut, raced,
                                 spoiled, overlap, original>>
       => HistoryTypes'
  /\ LoadingInv /\ UNCHANGED <<up, loader, copied, api, tester, object, status>>
       => LoadingInv'
  /\ RunInv /\ UNCHANGED <<status, tester, runs, testing, current, popped,
                           retired>>
       => RunInv'
  /\ HandlerInv /\ UNCHANGED <<api, served, object, testing, wanted, deleted>>
       => HandlerInv'
<1>1. /\ LoaderTypes /\ UNCHANGED <<up, loader, todo, old, copied>> => LoaderTypes'
      /\ ApiTypes /\ UNCHANGED <<api, object, served, wanted, dir>> => ApiTypes'
  BY DEF LoaderTypes, ApiTypes
<1>2. RunTypes /\ UNCHANGED <<tester, status, testing, current, popped, runs>>
        => RunTypes'
  BY DEF RunTypes
<1>3. ListTypes /\ UNCHANGED <<reports, limit, profile, config, pending>>
        => ListTypes'
  BY DEF ListTypes
<1>4. HistoryTypes /\ UNCHANGED <<folders, deleted, retired, cut, raced,
                                  spoiled, overlap, original>>
        => HistoryTypes'
  BY DEF HistoryTypes
<1>5. LoadingInv /\ UNCHANGED <<up, loader, copied, api, tester, object, status>>
        => LoadingInv'
  BY DEF LoadingInv
<1>6. RunInv /\ UNCHANGED <<status, tester, runs, testing, current, popped,
                            retired>>
        => RunInv'
  BY DEF RunInv
<1>7. HandlerInv /\ UNCHANGED <<api, served, object, testing, wanted, deleted>>
        => HandlerInv'
  BY DEF HandlerInv
<1> QED
  BY <1>1, <1>2, <1>3, <1>4, <1>5, <1>6, <1>7

LEMMA OpenTypes ==
  ASSUME ReportsTypeOK, NEW w \in Writers, NEW o \in Objects, OpenConfig(w, o)
  PROVE  /\ config' \subseteq ConfigRecord
         /\ pending' \in [Writers -> SUBSET ConfigRecord]
         /\ overlap' \in BOOLEAN /\ spoiled' = spoiled
<1>1. ToConfigJson(o) \in ConfigRecord
  BY ReportNumbers
  DEF ReportsTypeOK, ListTypes, ToConfigJson, ConfigRecord
<1>2. overlap \in BOOLEAN /\ pending \in [Writers -> SUBSET ConfigRecord]
  BY DEF ReportsTypeOK, ListTypes, HistoryTypes
<1>3. /\ config' = {} /\ spoiled' = spoiled
      /\ pending' = [pending EXCEPT ![w] = {ToConfigJson(o)}]
      /\ overlap' \in BOOLEAN
  BY <1>2 DEF OpenConfig
<1> QED
  BY <1>1, <1>2, <1>3

LEMMA CloseTypes ==
  ASSUME ReportsTypeOK, NEW w \in Writers, NEW o, CloseConfig(w, o)
  PROVE  /\ config' \subseteq ConfigRecord
         /\ pending' \in [Writers -> SUBSET ConfigRecord]
         /\ overlap' \in BOOLEAN /\ spoiled' \in BOOLEAN
<1>1. /\ overlap \in BOOLEAN /\ spoiled \in BOOLEAN
      /\ pending \in [Writers -> SUBSET ConfigRecord]
      /\ config \subseteq ConfigRecord
  BY DEF ReportsTypeOK, ListTypes, HistoryTypes
<1>2. pending' = [pending EXCEPT ![w] = {}]
  BY DEF CloseConfig
<1>3. config' \in {config, pending[w], {}}
  BY DEF CloseConfig
<1>4. overlap' \in {overlap, FALSE} /\ spoiled' \in BOOLEAN
  BY <1>1 DEF CloseConfig
<1> QED
  BY <1>1, <1>2, <1>3, <1>4

\* The steps of the loading.
LEMMA LoadWorks ==
  ASSUME WorkInv, LoadAllDevices
  PROVE  WorkInv'
<1>t. /\ WorkInv /\ ReportsTypeOK
      /\ LoaderTypes /\ ApiTypes /\ RunTypes /\ ListTypes /\ HistoryTypes
      /\ LoadingInv /\ RunInv /\ HandlerInv
  BY DEF WorkInv, ReportsTypeOK
<1> USE DEF WorkInv, ReportsTypeOK
<1>1. CASE Start
  BY <1>t, <1>1, WorkFrames
  DEF Start, LoaderTypes, LoadingInv
<1>2. CASE LoadDevice
  <2>1. CASE config = {}
    BY <1>t, <1>2, <2>1, WorkFrames
    DEF LoadDevice, LoaderTypes, HistoryTypes, LoadingInv
  <2>2. CASE config # {}
    <3>1. PICK c \in config :
            /\ reports' = [reports EXCEPT ![1] = c.reports]
            /\ limit' = [limit EXCEPT ![1] = c.limit]
            /\ profile' = [profile EXCEPT ![1] = c.profile]
            /\ todo' = LoadTestReports(c)
            /\ loader' = IF todo' = {} THEN "register" ELSE "copy"
      BY <1>2, <2>2 DEF LoadDevice
    <3>2. c.reports \in Seq(Report) /\ c.limit \in Limits /\ c.profile \in {0, 1}
      BY <1>t DEF ListTypes, ConfigRecord
    <3>3. LoaderTypes' /\ LoadingInv' /\ HistoryTypes'
      BY <1>t, <1>2, <3>1
      DEF LoadDevice, LoadTestReports, LoaderTypes, LoadingInv, HistoryTypes
    <3>4. ListTypes'
      BY <1>t, <1>2, <3>1, <3>2 DEF LoadDevice, ListTypes
    <3> QED
      BY <1>t, <1>2, <3>3, <3>4, WorkFrames DEF LoadDevice
  <2> QED
    BY <2>1, <2>2
<1>3. CASE ExistingCopied
  BY <1>t, <1>3, WorkFrames, ReportNumbers
  DEF ExistingCopied, LoaderTypes, ListTypes, HistoryTypes, LoadingInv
<1>4. CASE SaveLoaded
  BY <1>t, <1>4, OpenTypes, WorkFrames
  DEF SaveLoaded, LoaderTypes, ListTypes, HistoryTypes, LoadingInv
<1>5. CASE LoadedSaved
  BY <1>t, <1>5, CloseTypes, WorkFrames
  DEF LoadedSaved, LoaderTypes, ListTypes, HistoryTypes, LoadingInv
<1>6. CASE RemoveOld
  BY <1>t, <1>6, WorkFrames
  DEF RemoveOld, LoaderTypes, LoadingInv
<1>7. CASE AddDevice
  BY <1>t, <1>7, WorkFrames, ReportNumbers
  DEF AddDevice, LoaderTypes, ApiTypes, LoadingInv, HandlerInv
<1>8. ASSUME NEW r \in Report, CopyExisting(r) PROVE WorkInv'
  BY <1>t, <1>8, WorkFrames
  DEF CopyExisting, LoaderTypes, HistoryTypes, LoadingInv
<1>9. ASSUME NEW r \in Report, AlreadyCopied(r) PROVE WorkInv'
  BY <1>t, <1>9, WorkFrames, ReportNumbers
  DEF AlreadyCopied, LoaderTypes, ListTypes, LoadingInv
<1> QED
  BY <1>1, <1>2, <1>3, <1>4, <1>5, <1>6, <1>7, <1>8, <1>9 DEF LoadAllDevices

LEMMA RemovedAt ==
  ASSUME NEW S, NEW s \in Seq(S), NEW i \in DOMAIN s
  PROVE  /\ RemoveAt(s, i) \in Seq(S) /\ Len(RemoveAt(s, i)) = Len(s) - 1
         /\ \A j \in DOMAIN RemoveAt(s, i) :
              RemoveAt(s, i)[j] = s[IF j < i THEN j ELSE j + 1]
<1>1. RemoveAt(s, i) = Without(s, i)
  BY DEF RemoveAt, Without
<1> QED
  BY <1>1, WithoutOne, Zenon

\* The handlers.
LEMMA ApiWorks ==
  ASSUME WorkInv, Api
  PROVE  WorkInv'
<1>t. /\ WorkInv /\ ReportsTypeOK
      /\ LoaderTypes /\ ApiTypes /\ RunTypes /\ ListTypes /\ HistoryTypes
      /\ LoadingInv /\ RunInv /\ HandlerInv
  BY DEF WorkInv, ReportsTypeOK
<1> USE DEF WorkInv, ReportsTypeOK
<1>1. ASSUME NEW r \in Report, DeleteReport(r) PROVE WorkInv'
  BY <1>t, <1>1, WorkFrames, ReportNumbers
  DEF DeleteReport, Handle, EventLoopFree, ApiTypes, LoadingInv, HandlerInv
<1>2. ASSUME NEW r \in Report, GetReport(r) PROVE WorkInv'
  BY <1>t, <1>2, WorkFrames
  DEF GetReport, Handle, EventLoopFree, ApiTypes, LoadingInv, HandlerInv
<1>3. ASSUME NEW o \in Objects, SaveNewDevice(o) PROVE WorkInv'
  <2>1. <<>> \in Seq(Report)
    OBVIOUS
  <2> QED
    BY <1>t, <1>3, <2>1, WorkFrames, ReportNumbers
    DEF SaveNewDevice, EventLoopFree, ApiTypes, ListTypes, LoadingInv,
        HandlerInv
<1>4. CASE RemoveReport
  <2>1. CASE wanted \in Listed(served)
    <3>1. PICK i \in DOMAIN reports[served] :
            reports' = [reports EXCEPT ![served] = RemoveAt(@, i)]
      BY <1>4, <2>1 DEF RemoveReport
    <3>2. reports[served] \in Seq(Report)
      BY <1>t, <1>4 DEF RemoveReport, ListTypes, ApiTypes, HandlerInv
    <3>3. RemoveAt(reports[served], i) \in Seq(Report)
      BY <3>2, RemovedAt
    <3>4. ListTypes'
      BY <1>t, <1>4, <3>1, <3>3 DEF RemoveReport, ListTypes
    <3> QED
      BY <1>t, <1>4, <2>1, <3>4, WorkFrames
      DEF RemoveReport, ApiTypes, HistoryTypes, LoadingInv, HandlerInv
  <2>2. CASE wanted \notin Listed(served)
    BY <1>t, <1>4, <2>2, WorkFrames
    DEF RemoveReport, HandlerEnds, ApiTypes, LoadingInv, HandlerInv,
        HistoryTypes
  <2> QED
    BY <2>1, <2>2
<1>5. CASE RemoveFolder
  BY <1>t, <1>5, WorkFrames
  DEF RemoveFolder, ApiTypes, HistoryTypes, LoadingInv, HandlerInv
<1>6. CASE EditDevice
  BY <1>t, <1>6, WorkFrames
  DEF EditDevice, Handle, EventLoopFree, ApiTypes, ListTypes, LoadingInv, HandlerInv
<1>7. CASE OpenDevice
  BY <1>t, <1>7, OpenTypes, WorkFrames
  DEF OpenDevice, ApiTypes, ListTypes, HistoryTypes, LoadingInv, HandlerInv
<1>8. CASE CloseDevice
  BY <1>t, <1>8, CloseTypes, WorkFrames
  DEF CloseDevice, HandlerEnds, ApiTypes, ListTypes, HistoryTypes, LoadingInv, HandlerInv
<1>9. CASE DeleteDevice
  BY <1>t, <1>9, WorkFrames
  DEF DeleteDevice, Handle, EventLoopFree, ApiTypes, LoadingInv, HandlerInv
<1>listed. Listed(served) \subseteq Report
  BY <1>t DEF Listed, ToSet, ListTypes, ApiTypes
<1>10. CASE RemoveReports
  BY <1>t, <1>10, <1>listed, WorkFrames
  DEF RemoveReports, ApiTypes, HistoryTypes, LoadingInv, HandlerInv
<1>11. CASE ClearReports
  <2>1. <<>> \in Seq(Report)
    OBVIOUS
  <2> QED
    BY <1>t, <1>11, <1>listed, <2>1, WorkFrames
    DEF ClearReports, ApiTypes, ListTypes, HistoryTypes, LoadingInv, HandlerInv
<1>12. CASE RemoveTree
  <2>1. LoaderTypes' /\ ApiTypes' /\ HistoryTypes'
    BY <1>t, <1>12 DEF RemoveTree, LoaderTypes, ApiTypes, HistoryTypes
  <2>2. ListTypes'
    BY <1>t, <1>12 DEF RemoveTree, ListTypes
  <2> QED
    BY <1>t, <1>12, <2>1, <2>2, WorkFrames
    DEF RemoveTree, LoadingInv, HandlerInv
<1>13. CASE RemoveDevice
  BY <1>t, <1>13, WorkFrames
  DEF RemoveDevice, HandlerEnds, ApiTypes, LoadingInv, HandlerInv
<1> QED
  BY <1>1, <1>2, <1>3, <1>4, <1>5, <1>6, <1>7, <1>8, <1>9, <1>10, <1>11,
     <1>12, <1>13
  DEF Api

\* What the list is once it is sorted: as long as it was, with the reports it
\* had, in their order.
LEMMA SortedList ==
  ASSUME NEW list \in Seq(Report), NEW s \in SortedLists(list)
  PROVE  /\ s \in Seq(Report) /\ Len(s) = Len(list)
         /\ DOMAIN s = DOMAIN list
         /\ \A i \in DOMAIN s : \E j \in DOMAIN list : s[i] = list[j]
         /\ \A j \in DOMAIN list : \E i \in DOMAIN s : s[i] = list[j]
         /\ \A i, j \in DOMAIN s : i < j => s[i] <= s[j]
<1>1. PICK p \in [DOMAIN list -> DOMAIN list] :
        /\ \A i \in DOMAIN list : \E j \in DOMAIN list : p[j] = i
        /\ s = [i \in DOMAIN list |-> list[p[i]]]
        /\ \A i, j \in DOMAIN list : i < j => s[i] <= s[j]
  BY DEF SortedLists
<1>2. /\ DOMAIN list = 1 .. Len(list) /\ Len(list) \in Nat
      /\ \A i \in DOMAIN list : list[i] \in Report
  OBVIOUS
<1>3. DOMAIN s = DOMAIN list /\ \A i \in DOMAIN list : s[i] = list[p[i]]
  BY <1>1
<1>4. s \in Seq(Report) /\ Len(s) = Len(list)
  <2>1. s \in [1 .. Len(list) -> Report]
    BY <1>1, <1>2
  <2> QED
    BY <1>2, <2>1
<1> QED
  BY <1>1, <1>3, <1>4

\* The steps of a run.
LEMMA RunWorks ==
  ASSUME WorkInv, Run
  PROVE  WorkInv'
<1>t. /\ WorkInv /\ ReportsTypeOK
      /\ LoaderTypes /\ ApiTypes /\ RunTypes /\ ListTypes /\ HistoryTypes
      /\ LoadingInv /\ RunInv /\ HandlerInv
  BY DEF WorkInv, ReportsTypeOK
<1> USE DEF WorkInv, ReportsTypeOK
<1>number. \A n \in 1 .. MaxRuns : NumOld + n \in Report
  BY ReportNumbers DEF Report
<1>1. CASE StartRun
  <2>1. runs' = runs + 1 /\ runs < MaxRuns /\ status' = STARTING
    BY <1>1 DEF StartRun
  <2>2. runs' \in 0 .. MaxRuns /\ runs' > 0
    BY <1>t, <2>1, ReportNumbers DEF RunTypes
  <2>3. RunTypes' /\ LoadingInv' /\ RunInv'
    BY <1>t, <1>1, <2>1, <2>2
    DEF StartRun, EventLoopFree, RunTypes, LoadingInv, RunInv
  <2> QED
    BY <1>t, <1>1, <2>3, WorkFrames DEF StartRun
<1>2. CASE DeviceStable
  <2>1. /\ tester = "idle" /\ runs \in 1 .. MaxRuns /\ loader = "done"
        /\ object \in Objects
    BY <1>t, <1>2, ReportNumbers
    DEF DeviceStable, RunInv, RunTypes, LoadingInv, ApiTypes, IDLE, STARTING
  <2>2. current' \in Report /\ current' = NumOld + runs
    BY <1>2, <1>number, <2>1 DEF DeviceStable
  <2>3. RunTypes' /\ LoadingInv'
    BY <1>t, <1>2, <2>1, <2>2 DEF DeviceStable, RunTypes, LoadingInv
  <2>4. RunInv' /\ HandlerInv'
    BY <1>t, <1>2, <2>1, <2>2
    DEF DeviceStable, RunInv, HandlerInv, RunTypes, IN_PROGRESS, STARTING
  <2> QED
    BY <1>t, <1>2, <2>3, <2>4, WorkFrames DEF DeviceStable
<1>3. CASE Stop
  BY <1>t, <1>3, WorkFrames, ReportNumbers
  DEF Stop, EventLoopFree, RunTypes, LoadingInv, RunInv, IDLE, STARTING, IN_PROGRESS, CANCELLED, COMPLETE
<1>4. CASE TestsEnd
  BY <1>t, <1>4, WorkFrames
  DEF TestsEnd, RunTypes, LoadingInv, RunInv, HandlerInv, TesterAt, TesterEnds
<1>5. CASE CopyResults
  BY <1>t, <1>5, WorkFrames
  DEF CopyResults, RunTypes, HistoryTypes, LoadingInv, RunInv, TesterAt
<1>6. CASE ResultsCopied
  BY <1>t, <1>6, WorkFrames
  DEF ResultsCopied, RunTypes, HistoryTypes, LoadingInv, RunInv, TesterAt
<1>7. CASE AddReport
  <2>1. /\ tester = "add" /\ tester' = "outcome"
        /\ reports' = [reports EXCEPT ![testing] = Append(@, current)]
    BY <1>7 DEF AddReport, TesterAt
  <2>2. current \in Report
    BY <1>t, <1>number, <2>1, ReportNumbers DEF RunInv, RunTypes
  <2>3. reports[testing] \in Seq(Report)
    BY <1>t, <2>1 DEF ListTypes, RunInv, RunTypes
  <2>4. reports' \in [Objects -> Seq(Report)]
    <3>1. Append(reports[testing], current) \in Seq(Report)
      BY <2>2, <2>3
    <3> QED
      BY <1>t, <2>1, <3>1 DEF ListTypes
  <2> QED
    BY <1>t, <1>7, <2>4, WorkFrames
    DEF AddReport, TesterAt, RunTypes, ListTypes, LoadingInv, RunInv
<1>8. CASE SetOutcome
  BY <1>t, <1>8, WorkFrames
  DEF SetOutcome, RunTypes, LoadingInv, RunInv, TesterAt, IDLE, STARTING, IN_PROGRESS, CANCELLED, COMPLETE
<1>9. CASE SortReports
  <2>1. CASE MaxReports(testing) > 0
    <3>1. PICK s \in SortedLists(reports[testing]) :
            reports' = [reports EXCEPT ![testing] = s]
      BY <1>9, <2>1 DEF SortReports
    <3>2. reports[testing] \in Seq(Report)
      BY <1>t, <1>9 DEF SortReports, ListTypes, RunInv, RunTypes
    <3>3. s \in Seq(Report)
      BY <3>2, SortedList
    <3>4. ListTypes'
      BY <1>t, <1>9, <3>1, <3>3 DEF SortReports, ListTypes
    <3> QED
      BY <1>t, <1>9, <2>1, <3>4, WorkFrames
      DEF SortReports, TesterAt, RunTypes, LoadingInv, RunInv
  <2>2. CASE ~(MaxReports(testing) > 0)
    BY <1>t, <1>9, <2>2, WorkFrames
    DEF SortReports, TesterAt, RunTypes, LoadingInv, RunInv
  <2> QED
    BY <2>1, <2>2
<1>10. CASE CheckLimit
  BY <1>t, <1>10, WorkFrames
  DEF CheckLimit, RunTypes, LoadingInv, RunInv, TesterAt
<1>11. CASE PopOldest
  <2>1. reports[testing] \in Seq(Report)
    BY <1>t, <1>11 DEF PopOldest, ListTypes, RunInv, RunTypes
  <2>2. CASE reports[testing] = <<>>
    BY <1>t, <1>11, <2>2, WorkFrames
    DEF PopOldest, TesterEnds, RunTypes, LoadingInv, RunInv, HandlerInv
  <2>3. CASE reports[testing] # <<>>
    <3>1. /\ popped' = Head(reports[testing])
          /\ reports' = [reports EXCEPT ![testing] = Tail(@)]
          /\ retired' = retired \cup {popped'}
          /\ tester' = "rmtree" /\ UNCHANGED <<testing, current>>
      BY <1>11, <2>3 DEF PopOldest
    <3>2. popped' \in Report /\ Tail(reports[testing]) \in Seq(Report)
      BY <2>1, <2>3, <3>1
    <3>3. ListTypes'
      BY <1>t, <1>11, <3>1, <3>2 DEF PopOldest, ListTypes
    <3> QED
      BY <1>t, <1>11, <3>1, <3>2, <3>3, WorkFrames
      DEF PopOldest, RunTypes, HistoryTypes, LoadingInv, RunInv
  <2> QED
    BY <2>2, <2>3
<1>12. CASE RemovePopped
  BY <1>t, <1>12, WorkFrames
  DEF RemovePopped, RunTypes, HistoryTypes, LoadingInv, RunInv
<1>13. CASE ExportConfig
  <2>1. CASE dir
    <3>1. testing \in Objects
      BY <1>t, <1>13 DEF ExportConfig, RunInv, RunTypes
    <3> QED
      BY <1>t, <1>13, <2>1, <3>1, OpenTypes, WorkFrames
      DEF ExportConfig, TesterAt, RunTypes, ListTypes, HistoryTypes,
          LoadingInv, RunInv
  <2>2. CASE ~dir
    BY <1>t, <1>13, <2>2, WorkFrames
    DEF ExportConfig, TesterEnds, RunTypes, LoadingInv, RunInv, HandlerInv
  <2> QED
    BY <2>1, <2>2
<1>14. CASE ConfigExported
  BY <1>t, <1>14, CloseTypes, WorkFrames
  DEF ConfigExported, TesterEnds, RunTypes, ListTypes, HistoryTypes,
      LoadingInv, RunInv, HandlerInv
<1> QED
  BY <1>1, <1>2, <1>3, <1>4, <1>5, <1>6, <1>7, <1>8, <1>9, <1>10, <1>11,
     <1>12, <1>13, <1>14
  DEF Run

\* Every step, and what the process starts with.
LEMMA WorkNext == WorkInv /\ [Next]_vars => WorkInv'
<1> SUFFICES ASSUME WorkInv, [Next]_vars PROVE WorkInv'
  OBVIOUS
<1>t. /\ WorkInv /\ ReportsTypeOK
      /\ LoaderTypes /\ ApiTypes /\ RunTypes /\ ListTypes /\ HistoryTypes
      /\ LoadingInv /\ RunInv /\ HandlerInv
  BY DEF WorkInv, ReportsTypeOK
<1> USE DEF WorkInv, ReportsTypeOK
<1>1. CASE Dies
  <2>1. <<>> \in Seq(Report)
    OBVIOUS
  <2>0. 0 \in 0 .. NumOld
    BY ReportNumbers
  <2>2. LoaderTypes' /\ ApiTypes'
    BY <1>t, <1>1, <2>0 DEF Dies, HandlerEnds, LoaderTypes, ApiTypes
  <2>3. RunTypes'
    BY <1>t, <1>1 DEF Dies, TesterEnds, RunTypes
  <2>4. ListTypes'
    BY <1>t, <1>1, <2>1, ReportNumbers DEF Dies, ListTypes
  <2>5. HistoryTypes'
    BY <1>t, <1>1 DEF Dies, HistoryTypes
  <2>6. LoadingInv' /\ RunInv' /\ HandlerInv'
    BY <1>1 DEF Dies, TesterEnds, HandlerEnds, LoadingInv, RunInv, HandlerInv,
                IDLE, STARTING
  <2> QED
    BY <2>2, <2>3, <2>4, <2>5, <2>6
<1>2. CASE UNCHANGED vars
  BY <1>t, <1>2, WorkFrames DEF vars
<1> QED
  BY <1>1, <1>2, LoadWorks, ApiWorks, RunWorks DEF Next

LEMMA WorkInit == Init => WorkInv
<1> SUFFICES ASSUME Init PROVE WorkInv
  OBVIOUS
<1>1. <<>> \in Seq(Report)
  OBVIOUS
<1>0. 0 \in 0 .. NumOld
  BY ReportNumbers
<1>2. LoaderTypes /\ ApiTypes
  BY <1>0 DEF Init, LoaderTypes, ApiTypes
<1>3. RunTypes
  BY ReportNumbers DEF Init, RunTypes
<1>4. ListTypes
  <2>1. config \subseteq ConfigRecord
    BY <1>1, ReportNumbers DEF Init, ConfigRecord
  <2> QED
    BY <1>1, <2>1, ReportNumbers DEF Init, ListTypes
<1>5. HistoryTypes
  BY DEF Init, HistoryTypes
<1>6. LoadingInv /\ RunInv /\ HandlerInv
  BY DEF Init, LoadingInv, RunInv, HandlerInv, IDLE, STARTING
<1> QED
  BY <1>2, <1>3, <1>4, <1>5, <1>6 DEF WorkInv, ReportsTypeOK

\* Every variable keeps its type, and of the loading, the handlers and the
\* testing thread only those are at work that may be at once.
THEOREM ReportsTypeCorrect == Spec => []WorkInv
BY WorkInit, WorkNext, PTL DEF Spec

-----------------------------------------------------------------------------
(***************************************************************************)
(* What becomes of a report.                                               *)
(***************************************************************************)

\* A report that is in a list, in memory, on disk or about to be written.
Mentioned(r) ==
  \/ \E o \in Objects : r \in ToSet(reports[o])
  \/ \E c \in config : r \in ToSet(c.reports)
  \/ \E w \in Writers : \E c \in pending[w] : r \in ToSet(c.reports)

\* What the file is opened and closed with is what was mentioned.
LEMMA WritersMention ==
  ASSUME WorkInv, NEW w \in Writers, NEW o, NEW r, UNCHANGED reports,
         (o \in Objects /\ OpenConfig(w, o)) \/ CloseConfig(w, o),
         Mentioned(r)'
  PROVE  Mentioned(r)
<1>1. pending \in [Writers -> SUBSET ConfigRecord]
  BY DEF WorkInv, ReportsTypeOK, ListTypes
<1>2. CASE o \in Objects /\ OpenConfig(w, o)
  <2>1. config' = {} /\ pending' = [pending EXCEPT ![w] = {ToConfigJson(o)}]
    BY <1>2 DEF OpenConfig
  <2>2. ToConfigJson(o).reports = reports[o]
    BY DEF ToConfigJson
  <2> QED
    BY <1>1, <1>2, <2>1, <2>2 DEF Mentioned
<1>3. CASE CloseConfig(w, o)
  <2>1. pending' = [pending EXCEPT ![w] = {}]
    BY <1>3 DEF CloseConfig
  <2>2. config' \in {config, pending[w], {}}
    BY <1>3 DEF CloseConfig
  <2> QED
    BY <1>1, <2>1, <2>2 DEF Mentioned
<1> QED
  BY <1>2, <1>3

\* A step mentions no report it has not found, but the one it copies or adds.
Brings(r) ==
  \/ AddReport /\ r = current
  \/ ExistingCopied /\ r = copied
  \/ r \in Report /\ AlreadyCopied(r)

LEMMA LoadMentions ==
  ASSUME WorkInv, LoadAllDevices, NEW r, Mentioned(r)'
  PROVE  Mentioned(r) \/ Brings(r)
<1>t. /\ reports \in [Objects -> Seq(Report)] /\ copied \in 0 .. NumOld
      /\ loader = "copying" => copied # 0
  BY DEF WorkInv, ReportsTypeOK, ListTypes, LoaderTypes, LoadingInv
<1>1. CASE Start \/ RemoveOld \/ AddDevice
  BY <1>1 DEF Start, RemoveOld, AddDevice, Mentioned
<1>2. CASE LoadDevice
  <2>1. CASE config = {}
    BY <1>2, <2>1 DEF LoadDevice, Mentioned
  <2>2. CASE config # {}
    <3>1. PICK c \in config : reports' = [reports EXCEPT ![1] = c.reports]
      BY <1>2, <2>2 DEF LoadDevice
    <3>2. config' = config /\ pending' = pending
      BY <1>2 DEF LoadDevice
    <3> QED
      BY <1>t, <3>1, <3>2 DEF Mentioned
  <2> QED
    BY <2>1, <2>2
<1>3. ASSUME NEW q \in Report,
             \/ ExistingCopied /\ q = copied
             \/ AlreadyCopied(q)
      PROVE  Mentioned(r) \/ Brings(r)
  <2>1. /\ reports' = [reports EXCEPT ![1] = Append(@, q)]
        /\ config' = config /\ pending' = pending
    BY <1>3 DEF ExistingCopied, AlreadyCopied
  <2>2. \A x : x \in ToSet(Append(reports[1], q))
                 => x \in ToSet(reports[1]) \/ x = q
    <3>1. reports[1] \in Seq(Report)
      BY <1>t
    <3> QED
      BY <3>1 DEF ToSet
  <2>3. Mentioned(r) \/ r = q
    BY <1>t, <2>1, <2>2 DEF Mentioned
  <2> QED
    BY <1>3, <2>3 DEF Brings
<1>4. CASE ExistingCopied
  <2>1. copied \in Report
    BY <1>t, <1>4, ReportNumbers DEF ExistingCopied
  <2> QED
    BY <1>3, <1>4, <2>1
<1>5. CASE SaveLoaded \/ LoadedSaved
  BY <1>5, WritersMention DEF SaveLoaded, LoadedSaved
<1>6. ASSUME NEW q \in Report, CopyExisting(q) PROVE Mentioned(r)
  BY <1>6 DEF CopyExisting, Mentioned
<1> QED
  BY <1>1, <1>2, <1>3, <1>4, <1>5, <1>6 DEF LoadAllDevices

LEMMA ApiMentions ==
  ASSUME WorkInv, Api, NEW r, Mentioned(r)'
  PROVE  Mentioned(r)
<1>t. /\ reports \in [Objects -> Seq(Report)]
      /\ pending \in [Writers -> SUBSET ConfigRecord]
      /\ api # "idle" => served \in Objects
  BY DEF WorkInv, ReportsTypeOK, ListTypes, ApiTypes, HandlerInv
<1>1. ASSUME NEW q \in Report, DeleteReport(q) \/ GetReport(q)
      PROVE  Mentioned(r)
  BY <1>1 DEF DeleteReport, GetReport, Mentioned
<1>2. CASE RemoveFolder \/ EditDevice \/ DeleteDevice \/ RemoveReports
             \/ RemoveDevice
  BY <1>2 DEF RemoveFolder, EditDevice, DeleteDevice, RemoveReports,
              RemoveDevice, Mentioned
<1>3. CASE OpenDevice
  BY <1>t, <1>3, WritersMention DEF OpenDevice
<1>4. CASE CloseDevice
  BY <1>t, <1>4, WritersMention DEF CloseDevice
<1>5. CASE RemoveReport
  <2>1. CASE wanted \in Listed(served)
    <3>1. PICK i \in DOMAIN reports[served] :
            reports' = [reports EXCEPT ![served] = RemoveAt(@, i)]
      BY <1>5, <2>1 DEF RemoveReport
    <3>2. reports[served] \in Seq(Report) /\ served \in Objects
      BY <1>t, <1>5 DEF RemoveReport
    <3>3. \A x : x \in ToSet(RemoveAt(reports[served], i))
                   => x \in ToSet(reports[served])
      <4>1. /\ RemoveAt(reports[served], i) \in Seq(Report)
            /\ Len(RemoveAt(reports[served], i)) = Len(reports[served]) - 1
            /\ \A j \in DOMAIN RemoveAt(reports[served], i) :
                 RemoveAt(reports[served], i)[j]
                   = reports[served][IF j < i THEN j ELSE j + 1]
        BY <3>2, RemovedAt
      <4>2. \A j \in DOMAIN RemoveAt(reports[served], i) :
              (IF j < i THEN j ELSE j + 1) \in DOMAIN reports[served]
        BY <3>2, <4>1
      <4> QED
        BY <4>1, <4>2 DEF ToSet
    <3>4. config' = config /\ pending' = pending
      BY <1>5 DEF RemoveReport
    <3> QED
      BY <1>t, <3>1, <3>2, <3>3, <3>4 DEF Mentioned
  <2>2. CASE wanted \notin Listed(served)
    BY <1>5, <2>2 DEF RemoveReport, Mentioned
  <2> QED
    BY <2>1, <2>2
<1>empty. ToSet(<<>>) = {}
  BY DEF ToSet
<1>6. ASSUME NEW o \in Objects, reports' = [reports EXCEPT ![o] = <<>>],
             config' = config, pending' = pending
      PROVE  Mentioned(r)
  BY <1>t, <1>6, <1>empty DEF Mentioned
<1>7. CASE ClearReports
  BY <1>t, <1>6, <1>7 DEF ClearReports
<1>8. ASSUME NEW o \in Objects, SaveNewDevice(o) PROVE Mentioned(r)
  BY <1>6, <1>8 DEF SaveNewDevice
<1>9. CASE RemoveTree
  BY <1>t, <1>9 DEF RemoveTree, Mentioned
<1> QED
  BY <1>1, <1>2, <1>3, <1>4, <1>5, <1>7, <1>8, <1>9 DEF Api

LEMMA RunMentions ==
  ASSUME WorkInv, Run, NEW r, Mentioned(r)'
  PROVE  Mentioned(r) \/ Brings(r)
<1>t. /\ reports \in [Objects -> Seq(Report)]
      /\ tester # "idle" => testing \in Objects
  BY DEF WorkInv, ReportsTypeOK, ListTypes, RunTypes, RunInv
<1>1. CASE StartRun \/ DeviceStable \/ Stop \/ TestsEnd \/ CopyResults
             \/ ResultsCopied \/ SetOutcome \/ CheckLimit \/ RemovePopped
  BY <1>1 DEF StartRun, DeviceStable, Stop, TestsEnd, CopyResults,
              ResultsCopied, SetOutcome, CheckLimit, RemovePopped, Mentioned
<1>2. CASE AddReport
  <2>1. /\ reports' = [reports EXCEPT ![testing] = Append(@, current)]
        /\ config' = config /\ pending' = pending
        /\ testing \in Objects /\ reports[testing] \in Seq(Report)
    BY <1>t, <1>2 DEF AddReport
  <2>2. \A x : x \in ToSet(Append(reports[testing], current))
                 => x \in ToSet(reports[testing]) \/ x = current
    BY <2>1 DEF ToSet
  <2> QED
    BY <1>t, <1>2, <2>1, <2>2 DEF Mentioned, Brings
<1>3. CASE SortReports
  <2>1. CASE MaxReports(testing) > 0
    <3>1. PICK s \in SortedLists(reports[testing]) :
            reports' = [reports EXCEPT ![testing] = s]
      BY <1>3, <2>1 DEF SortReports
    <3>2. reports[testing] \in Seq(Report) /\ testing \in Objects
      BY <1>t, <1>3 DEF SortReports
    <3>3. \A x \in ToSet(s) : x \in ToSet(reports[testing])
      BY <3>2, SortedList DEF ToSet
    <3>4. config' = config /\ pending' = pending
      BY <1>3 DEF SortReports
    <3> QED
      BY <1>t, <3>1, <3>2, <3>3, <3>4 DEF Mentioned
  <2>2. CASE ~(MaxReports(testing) > 0)
    BY <1>3, <2>2 DEF SortReports, Mentioned
  <2> QED
    BY <2>1, <2>2
<1>4. CASE PopOldest
  <2>1. config' = config /\ pending' = pending
        /\ reports[testing] \in Seq(Report) /\ testing \in Objects
    BY <1>t, <1>4 DEF PopOldest
  <2>2. CASE reports[testing] = <<>>
    BY <1>4, <2>1, <2>2 DEF PopOldest, Mentioned
  <2>3. CASE reports[testing] # <<>>
    <3>1. reports' = [reports EXCEPT ![testing] = Tail(@)]
      BY <1>4, <2>3 DEF PopOldest
    <3>2. \A x : x \in ToSet(Tail(reports[testing]))
                   => x \in ToSet(reports[testing])
      BY <2>1, <2>3 DEF ToSet
    <3> QED
      BY <1>t, <2>1, <3>1, <3>2 DEF Mentioned
  <2> QED
    BY <2>2, <2>3
<1>5. CASE ExportConfig
  <2>1. CASE dir
    BY <1>t, <1>5, <2>1, WritersMention DEF ExportConfig
  <2>2. CASE ~dir
    BY <1>5, <2>2 DEF ExportConfig, Mentioned
  <2> QED
    BY <2>1, <2>2
<1>6. CASE ConfigExported
  BY <1>t, <1>6, WritersMention DEF ConfigExported
<1> QED
  BY <1>1, <1>2, <1>3, <1>4, <1>5, <1>6 DEF Run

LEMMA NextMentions ==
  ASSUME WorkInv, [Next]_vars, NEW r, Mentioned(r)'
  PROVE  Mentioned(r) \/ Brings(r)
<1>1. CASE Dies
  <2>1. ToSet(<<>>) = {}
    BY DEF ToSet
  <2>2. /\ reports' = [o \in Objects |-> <<>>] /\ config' = config
        /\ pending' = [w \in Writers |-> {}]
    BY <1>1 DEF Dies
  <2> QED
    BY <2>1, <2>2 DEF Mentioned
<1>2. CASE UNCHANGED vars
  BY <1>2 DEF vars, Mentioned
<1> QED
  BY <1>1, <1>2, LoadMentions, ApiMentions, RunMentions DEF Next

\* What the loading and the handlers leave to the run, and the run and the
\* handlers to the loading.
LEMMA OthersLeft ==
  /\ LoadAllDevices \/ Api => UNCHANGED <<status, runs, testerVars, retired, cut>>
  /\ Api \/ Run => UNCHANGED <<loader, copied>>
<1>1. LoadAllDevices => UNCHANGED <<status, runs, testerVars, retired, cut>>
  BY DEF LoadAllDevices, Start, LoadDevice, ExistingCopied, SaveLoaded,
         LoadedSaved, RemoveOld, AddDevice, CopyExisting, AlreadyCopied
<1>2. Api => UNCHANGED <<status, runs, testerVars, retired, cut, loader, copied>>
  BY DEF Api, RemoveReport, RemoveFolder, EditDevice, OpenDevice, CloseDevice,
         DeleteDevice, RemoveReports, ClearReports, RemoveTree, RemoveDevice,
         DeleteReport, GetReport, SaveNewDevice
<1>3. Run => UNCHANGED <<loader, copied>>
  BY DEF Run, StartRun, DeviceStable, Stop, TestsEnd, CopyResults,
         ResultsCopied, AddReport, SetOutcome, SortReports, CheckLimit,
         PopOldest, RemovePopped, ExportConfig, ConfigExported
<1> QED
  BY <1>1, <1>2, <1>3

\* The run that has begun has not listed its report yet.
Unreported == status = STARTING \/ tester \in {"tests", "copy", "copying", "add"}

Numbered(r) == r <= NumOld + runs /\ (Unreported => r < NumOld + runs)

NumberInv == \A r : Mentioned(r) => Numbered(r)

LEMMA RunsCount ==
  ASSUME WorkInv, [Next]_vars
  PROVE  \/ runs' = runs /\ (Unreported' => Unreported)
         \/ runs' = runs + 1
<1>1. CASE LoadAllDevices \/ Api
  BY <1>1, OthersLeft DEF Unreported
<1>2. CASE StartRun
  BY <1>2 DEF StartRun
<1>3. CASE DeviceStable \/ Stop
  BY <1>3
  DEF DeviceStable, Stop, Unreported, STARTING, IN_PROGRESS, CANCELLED
<1>4. CASE TestsEnd \/ CopyResults \/ ResultsCopied \/ AddReport \/ SetOutcome
  BY <1>4 DEF TestsEnd, CopyResults, ResultsCopied, AddReport, SetOutcome,
              Unreported, TesterAt, TesterEnds, STARTING, COMPLETE
<1>5. CASE SortReports \/ CheckLimit \/ PopOldest \/ RemovePopped
             \/ ExportConfig \/ ConfigExported
  BY <1>5 DEF SortReports, CheckLimit, PopOldest, RemovePopped, ExportConfig,
              ConfigExported, Unreported, TesterAt, TesterEnds
<1>6. CASE Dies
  BY <1>6 DEF Dies, Unreported, TesterEnds, STARTING, IDLE
<1>7. CASE UNCHANGED vars
  BY <1>7 DEF vars, Unreported
<1> QED
  BY <1>1, <1>2, <1>3, <1>4, <1>5, <1>6, <1>7 DEF Next, Run

LEMMA MentionedReport ==
  ASSUME WorkInv, NEW r, Mentioned(r)
  PROVE  r \in Report
BY DEF WorkInv, ReportsTypeOK, ListTypes, ConfigRecord, Mentioned, ToSet

LEMMA BroughtReport ==
  ASSUME WorkInv, NEW r, Brings(r)
  PROVE  r \in Report
<1>1. \A n \in 1 .. MaxRuns : NumOld + n \in Report
  BY ReportNumbers DEF Report
<1>2. CASE AddReport
  BY <1>1, <1>2, ReportNumbers
  DEF AddReport, Brings, AlreadyCopied, ExistingCopied, WorkInv, RunInv,
      ReportsTypeOK, RunTypes, LoadingInv
<1>3. CASE ExistingCopied
  BY <1>3, ReportNumbers
  DEF ExistingCopied, AddReport, Brings, AlreadyCopied, WorkInv, LoadingInv,
      ReportsTypeOK, LoaderTypes
<1> QED
  BY <1>2, <1>3 DEF Brings

LEMMA NumberNext ==
  ASSUME WorkInv, NumberInv, [Next]_vars
  PROVE  NumberInv'
<1>t. /\ runs \in Nat /\ NumOld \in Nat
      /\ \A r \in Report : r \in Nat
  BY ReportNumbers DEF WorkInv, ReportsTypeOK, RunTypes
<1>1. ASSUME NEW r \in Report, Numbered(r) PROVE Numbered(r)'
  BY <1>t, <1>1, RunsCount DEF Numbered
<1>2. ASSUME NEW r, Brings(r) PROVE Numbered(r)'
  <2>1. CASE AddReport /\ r = current
    <3>1. current = NumOld + runs /\ tester = "add" /\ status # STARTING
      BY <2>1 DEF AddReport, WorkInv, RunInv
    <3>2. runs' = runs /\ ~Unreported'
      BY <2>1, <3>1 DEF AddReport, TesterAt, Unreported
    <3> QED
      BY <1>t, <2>1, <3>1, <3>2 DEF Numbered
  <2>2. CASE \/ ExistingCopied /\ r = copied
             \/ r \in Report /\ AlreadyCopied(r)
    <3>1. r \in 1 .. NumOld
      BY <2>2, ReportNumbers
      DEF ExistingCopied, AlreadyCopied, WorkInv, ReportsTypeOK, LoaderTypes,
          LoadingInv
    <3>2. tester = "idle" /\ status = IDLE
      BY <2>2 DEF ExistingCopied, AlreadyCopied, WorkInv, LoadingInv
    <3>3. runs' = runs /\ ~Unreported'
      BY <2>2, <3>2
      DEF ExistingCopied, AlreadyCopied, Unreported, IDLE, STARTING
    <3> QED
      BY <1>t, <3>1, <3>3 DEF Numbered
  <2> QED
    BY <1>2, <2>1, <2>2 DEF Brings
<1>3. ASSUME NEW r, Mentioned(r)' PROVE Numbered(r)'
  BY <1>1, <1>2, <1>3, NextMentions, MentionedReport DEF NumberInv
<1> QED
  BY <1>3 DEF NumberInv

\* The folder of a report is there, or the report is accounted for otherwise.
GivenUp == deleted \cup retired \cup cut

HasFolder(r) == folders[r] = "full" \/ r \in GivenUp

FolderInv ==
  /\ \A r : Mentioned(r) => HasFolder(r)
  /\ tester = "add" => HasFolder(current)
  /\ \A r \in Report :
       folders[r] = "partial" =>
         \/ r \in cut
         \/ loader = "copying" /\ copied = r
         \/ tester = "copying" /\ current = r

LEMMA GivenUpGrows ==
  ASSUME [Next]_vars
  PROVE  GivenUp \subseteq GivenUp'
<1>1. CASE LoadAllDevices
  BY <1>1
  DEF LoadAllDevices, Start, LoadDevice, ExistingCopied, SaveLoaded,
      LoadedSaved, RemoveOld, AddDevice, CopyExisting, AlreadyCopied, GivenUp
<1>2. CASE Api
  <2>1. deleted \subseteq deleted'
    BY <1>2
    DEF Api, RemoveReport, RemoveFolder, EditDevice, OpenDevice, CloseDevice,
        DeleteDevice, RemoveReports, ClearReports, RemoveTree, RemoveDevice,
        DeleteReport, GetReport, SaveNewDevice
  <2> QED
    BY <1>2, <2>1, OthersLeft DEF GivenUp
<1>3. CASE Run
  BY <1>3
  DEF Run, StartRun, DeviceStable, Stop, TestsEnd, CopyResults, ResultsCopied,
      AddReport, SetOutcome, SortReports, CheckLimit, PopOldest, RemovePopped,
      ExportConfig, ConfigExported, GivenUp
<1>4. CASE Dies
  BY <1>4 DEF Dies, GivenUp
<1>5. CASE UNCHANGED vars
  BY <1>5 DEF vars, GivenUp
<1> QED
  BY <1>1, <1>2, <1>3, <1>4, <1>5 DEF Next

\* What is done to folders.
LEMMA FolderSteps ==
  ASSUME WorkInv, [Next]_vars
  PROVE  \/ folders' = folders
         \/ /\ loader = "copy" /\ tester = "idle"
            /\ loader' = "copying" /\ copied' \in Report
            /\ folders[copied'] = "none"
            /\ folders' = [folders EXCEPT ![copied'] = "partial"]
         \/ /\ ExistingCopied
            /\ folders' = [folders EXCEPT ![copied] = "full"]
         \/ /\ tester = "copy" /\ tester' = "copying" /\ current' = current
            /\ folders' = [folders EXCEPT ![current] = "partial"]
         \/ /\ tester = "copying" /\ tester' = "add" /\ current' = current
            /\ folders' = [folders EXCEPT ![current] = "full"]
         \/ /\ \A r \in Report : folders'[r] # folders[r] =>
                                   r \in GivenUp' /\ folders'[r] = "none"
            /\ folders' \in [Report -> {"none", "partial", "full"}]
            /\ \/ UNCHANGED <<loader, copied, tester, current>>
               \/ tester = "rmtree" /\ UNCHANGED <<loader, copied>>
<1>t. folders \in [Report -> {"none", "partial", "full"}]
  BY DEF WorkInv, ReportsTypeOK, HistoryTypes
<1>1. CASE LoadAllDevices
  <2>1. ASSUME NEW r \in Report, CopyExisting(r)
        PROVE  /\ loader = "copy" /\ tester = "idle"
               /\ loader' = "copying" /\ copied' \in Report
               /\ folders[copied'] = "none"
               /\ folders' = [folders EXCEPT ![copied'] = "partial"]
    BY <2>1 DEF CopyExisting, WorkInv, LoadingInv
  <2>2. ExistingCopied => folders' = [folders EXCEPT ![copied] = "full"]
    BY DEF ExistingCopied
  <2>3. CASE \/ Start \/ LoadDevice \/ SaveLoaded \/ LoadedSaved
             \/ RemoveOld \/ AddDevice
             \/ \E r \in Report : AlreadyCopied(r)
    BY <2>3 DEF Start, LoadDevice, SaveLoaded, LoadedSaved, RemoveOld,
                AddDevice, AlreadyCopied
  <2> QED
    BY <1>1, <2>1, <2>2, <2>3 DEF LoadAllDevices
<1>2. CASE RemoveFolder
  BY <1>t, <1>2 DEF RemoveFolder, WorkInv, HandlerInv, GivenUp
<1>3. CASE RemoveReports
  BY <1>t, <1>3 DEF RemoveReports, GivenUp
<1>4. CASE Api /\ ~RemoveFolder /\ ~RemoveReports
  BY <1>4
  DEF Api, RemoveReport, EditDevice, OpenDevice, CloseDevice, DeleteDevice,
      ClearReports, RemoveTree, RemoveDevice, DeleteReport, GetReport,
      SaveNewDevice
<1>5. CASE CopyResults \/ ResultsCopied
  BY <1>5 DEF CopyResults, ResultsCopied, TesterAt
<1>6. CASE RemovePopped
  BY <1>t, <1>6 DEF RemovePopped, WorkInv, RunInv, GivenUp
<1>7. CASE Run /\ ~CopyResults /\ ~ResultsCopied /\ ~RemovePopped
  BY <1>7
  DEF Run, StartRun, DeviceStable, Stop, TestsEnd, AddReport, SetOutcome,
      SortReports, CheckLimit, PopOldest, ExportConfig, ConfigExported
<1>8. CASE Dies \/ UNCHANGED vars
  BY <1>8 DEF Dies, vars
<1> QED
  BY <1>1, <1>2, <1>3, <1>4, <1>5, <1>6, <1>7, <1>8 DEF Next

\* A copy that has begun is ended by its own step, or by the process.
LEMMA CopiesEnd ==
  ASSUME WorkInv, [Next]_vars
  PROVE  /\ tester' = "add" =>
              ResultsCopied \/ (tester = "add" /\ current' = current)
         /\ loader = "copying" =>
              \/ ExistingCopied \/ Dies
              \/ loader' = "copying" /\ copied' = copied
         /\ tester = "copying" =>
              \/ ResultsCopied \/ Dies
              \/ tester' = "copying" /\ current' = current
         /\ cut \subseteq cut'
<1>1. CASE LoadAllDevices
  <2>1. loader = "copying" => ExistingCopied
    BY <1>1
    DEF LoadAllDevices, Start, LoadDevice, SaveLoaded, LoadedSaved, RemoveOld,
        AddDevice, CopyExisting, AlreadyCopied, WorkInv, LoadingInv
  <2> QED
    BY <1>1, <2>1, OthersLeft
<1>2. CASE Api
  BY <1>2, OthersLeft
<1>3. CASE Run
  <2>1. /\ tester' = "add" =>
              ResultsCopied \/ (tester = "add" /\ current' = current)
        /\ tester = "copying" =>
              ResultsCopied \/ (tester' = "copying" /\ current' = current)
        /\ cut' = cut
    BY <1>3
    DEF Run, StartRun, DeviceStable, Stop, TestsEnd, CopyResults, AddReport,
        SetOutcome, SortReports, CheckLimit, PopOldest, RemovePopped,
        ExportConfig, ConfigExported, TesterAt, TesterEnds, WorkInv, RunInv,
        ResultsCopied
  <2> QED
    BY <1>3, <2>1, OthersLeft
<1>4. CASE Dies
  BY <1>4 DEF Dies, TesterEnds
<1>5. CASE UNCHANGED vars
  BY <1>5 DEF vars
<1> QED
  BY <1>1, <1>2, <1>3, <1>4, <1>5 DEF Next

LEMMA FolderNext ==
  ASSUME WorkInv, NumberInv, FolderInv, [Next]_vars
  PROVE  FolderInv'
<1>t. folders \in [Report -> {"none", "partial", "full"}]
  BY DEF WorkInv, ReportsTypeOK, HistoryTypes
<1>current. tester # "idle" => current = NumOld + runs /\ current \in Report
  BY ReportNumbers DEF WorkInv, RunInv, ReportsTypeOK, RunTypes
<1>1. ASSUME NEW r \in Report, HasFolder(r),
             tester = "copy" => r # current
      PROVE  HasFolder(r)'
  BY <1>t, <1>1, GivenUpGrows, FolderSteps DEF HasFolder
<1>2. ASSUME NEW r, Mentioned(r) PROVE HasFolder(r)'
  <2>1. r \in Report /\ HasFolder(r) /\ Numbered(r) /\ r \in Nat
    BY <1>2, MentionedReport, ReportNumbers DEF FolderInv, NumberInv
  <2>2. tester = "copy" => r # current
    BY <1>current, <2>1, ReportNumbers
    DEF Numbered, Unreported, WorkInv, ReportsTypeOK, RunTypes
  <2> QED
    BY <1>1, <2>1, <2>2
<1>3. ASSUME NEW r, Brings(r) PROVE HasFolder(r)'
  <2>1. r \in Report
    BY <1>3, BroughtReport
  <2>2. CASE AddReport /\ r = current
    BY <1>1, <2>1, <2>2 DEF AddReport, FolderInv
  <2>3. CASE ExistingCopied
    BY <1>t, <2>1, <2>3, <1>3
    DEF ExistingCopied, AlreadyCopied, AddReport, Brings, HasFolder, WorkInv,
        LoadingInv
  <2>4. CASE AlreadyCopied(r)
    <3>1. folders[r] # "none" /\ loader = "copy" /\ tester = "idle"
      BY <2>4 DEF AlreadyCopied, WorkInv, LoadingInv
    <3>2. HasFolder(r)
      BY <1>t, <2>1, <3>1 DEF FolderInv, HasFolder, GivenUp
    <3> QED
      BY <1>1, <2>1, <3>1, <3>2
  <2> QED
    BY <1>3, <2>2, <2>3, <2>4 DEF Brings
<1>4. \A r : Mentioned(r)' => HasFolder(r)'
  BY <1>2, <1>3, NextMentions
<1>5. tester' = "add" => HasFolder(current)'
  <2>1. CASE ResultsCopied
    BY <1>t, <1>current, <2>1 DEF ResultsCopied, TesterAt, HasFolder
  <2>2. CASE tester = "add" /\ current' = current
    <3>1. HasFolder(current) /\ current \in Report
      BY <1>current, <2>2 DEF FolderInv
    <3>2. \A r \in Report : HasFolder(r) => HasFolder(r)'
      BY <1>1, <2>2
    <3>3. folders'[current] = "full" \/ current \in GivenUp'
      BY <3>1, <3>2 DEF HasFolder
    <3> QED
      BY <2>2, <3>3 DEF HasFolder
  <2> QED
    BY <2>1, <2>2, CopiesEnd
<1>6. ASSUME NEW r \in Report, folders'[r] = "partial"
      PROVE  \/ r \in cut'
             \/ loader' = "copying" /\ copied' = r
             \/ tester' = "copying" /\ current' = r
  <2>1. CASE folders[r] = "partial"
    <3>1. CASE Dies
      BY <2>1, <3>1 DEF Dies
    <3>2. CASE ~Dies
      <4>1. ~(ExistingCopied /\ copied = r)
        BY <1>t, <1>6 DEF ExistingCopied
      <4>2. ~(ResultsCopied /\ current = r)
        BY <1>t, <1>6 DEF ResultsCopied
      <4> QED
        BY <2>1, <3>2, <4>1, <4>2, CopiesEnd DEF FolderInv
    <3> QED
      BY <3>1, <3>2
  <2>2. CASE folders[r] # "partial"
    <3>1. CASE ExistingCopied
      BY <1>t, <1>6, <2>2, <3>1 DEF ExistingCopied
    <3> QED
      BY <1>t, <1>6, <2>2, <3>1, FolderSteps
  <2> QED
    BY <2>1, <2>2
<1> QED
  BY <1>4, <1>5, <1>6 DEF FolderInv

LEMMA FolderInit == Init => NumberInv /\ FolderInv
<1> SUFFICES ASSUME Init PROVE NumberInv /\ FolderInv
  OBVIOUS
<1>1. \A r : ~Mentioned(r)
  BY DEF Init, Mentioned, ToSet
<1>2. \A r \in Report : folders[r] = "none"
  BY DEF Init
<1>3. tester = "idle"
  BY DEF Init
<1> QED
  BY <1>1, <1>2, <1>3 DEF NumberInv, FolderInv

\* A report that is listed has its folder, over crashes and restarts, unless
\* somebody set out to delete it, the retention did, or a crash cut its copy
\* short.
THEOREM ListedHaveFolders == Spec => []ListedHasFolder
<1>1. WorkInv /\ NumberInv /\ FolderInv /\ [Next]_vars
        => WorkInv' /\ NumberInv' /\ FolderInv'
  BY WorkNext, NumberNext, FolderNext
<1>2. WorkInv /\ FolderInv => ListedHasFolder
  <2> SUFFICES ASSUME WorkInv, FolderInv, NEW r \in Listed(object)
               PROVE  folders[r] = "full" \/ r \in deleted \cup retired \cup cut
    BY DEF ListedHasFolder
  <2>1. object \in Objects /\ r \in ToSet(reports[object])
    BY DEF Listed, WorkInv, ReportsTypeOK, ApiTypes
  <2> QED
    BY <2>1 DEF FolderInv, Mentioned, HasFolder, GivenUp
<1> QED
  BY <1>1, <1>2, WorkInit, FolderInit, PTL DEF Spec

-----------------------------------------------------------------------------
(***************************************************************************)
(* Where the newest report is.                                             *)
(***************************************************************************)

LastIs(list, r) == list # <<>> /\ list[Len(list)] = r

\* Once the list is sorted the newest report is the last of it, and the first
\* is removed only of a list of two or more.
NewestInv ==
  /\ tester \in {"outcome", "sort"} =>
       current \in Listed(testing) \/ current \in deleted
  /\ tester \in {"check", "pop", "rmtree"} =>
       /\ \/ current \in deleted \/ raced
          \/ LastIs(reports[testing], current)
       /\ MaxReports(testing) > 0
  /\ tester = "pop" => raced \/ Len(reports[testing]) > 1
  /\ tester \in {"open", "close"} =>
       current \in Listed(testing) \/ current \in deleted \/ raced

\* What a list loses when one of its entries is removed.
LEMMA LostOne ==
  ASSUME NEW s \in Seq(Report), NEW i \in DOMAIN s, NEW t, t = RemoveAt(s, i)
  PROVE  /\ \A x \in ToSet(s) : x \in ToSet(t) \/ x = s[i]
         /\ \A x : LastIs(s, x) => LastIs(t, x) \/ x = s[i]
<1>1. /\ t \in Seq(Report) /\ Len(t) = Len(s) - 1
      /\ \A j \in DOMAIN t : t[j] = s[IF j < i THEN j ELSE j + 1]
  BY RemovedAt
<1>2. /\ DOMAIN s = 1 .. Len(s) /\ Len(s) \in Nat /\ i \in 1 .. Len(s)
      /\ DOMAIN t = 1 .. Len(s) - 1
  BY <1>1
<1>3. ASSUME NEW j \in 1 .. Len(s), j # i PROVE s[j] \in ToSet(t)
  <2>1. CASE j < i
    BY <1>1, <1>2, <2>1 DEF ToSet
  <2>2. CASE j > i
    <3>1. j - 1 \in DOMAIN t /\ ~(j - 1 < i) /\ (j - 1) + 1 = j
      BY <1>2, <2>2
    <3>2. t[j - 1] = s[j]
      BY <1>1, <3>1
    <3> QED
      BY <3>1, <3>2 DEF ToSet
  <2> QED
    BY <1>2, <1>3, <2>1, <2>2
<1>4. ASSUME NEW x, LastIs(s, x), x # s[i] PROVE LastIs(t, x)
  <2>1. i < Len(s) /\ s[Len(s)] = x
    BY <1>2, <1>4 DEF LastIs
  <2>2. /\ Len(t) \in DOMAIN t /\ ~(Len(t) < i) /\ Len(t) + 1 = Len(s)
        /\ t # <<>>
    BY <1>1, <1>2, <2>1
  <2>3. t[Len(t)] = s[Len(s)]
    BY <1>1, <2>2
  <2> QED
    BY <2>1, <2>2, <2>3 DEF LastIs
<1> QED
  BY <1>2, <1>3, <1>4 DEF ToSet

\* What a handler does to the list of the run.
LEMMA HandlersTake ==
  ASSUME WorkInv, Api, tester # "idle"
  PROVE  /\ MaxReports(testing)' = MaxReports(testing)
         /\ deleted \subseteq deleted' /\ (raced => raced')
         /\ \/ reports'[testing] = reports[testing]
            \/ /\ tester = "pop" => raced'
               /\ \/ \E i \in DOMAIN reports[testing] :
                       /\ reports'[testing] = RemoveAt(reports[testing], i)
                       /\ reports[testing][i] \in deleted'
                  \/ Listed(testing) \subseteq deleted'
<1>t. /\ testing \in Objects /\ testing' = testing
      /\ reports \in [Objects -> Seq(Report)] /\ limit \in [Objects -> Limits]
      /\ raced \in BOOLEAN
      /\ api # "idle" => served \in Objects
  BY OthersLeft
  DEF WorkInv, ReportsTypeOK, ListTypes, RunTypes, RunInv, ApiTypes,
      HandlerInv, HistoryTypes
<1>1. CASE RemoveReport
  <2>1. /\ limit' = limit /\ deleted \subseteq deleted' /\ (raced => raced')
    BY <1>1 DEF RemoveReport
  <2>2. MaxReports(testing)' = MaxReports(testing)
    BY <1>t, <2>1 DEF MaxReports
  <2>3. CASE wanted \in Listed(served)
    <3>1. PICK i \in DOMAIN reports[served] :
            /\ FirstAt(i, wanted, reports[served])
            /\ reports' = [reports EXCEPT ![served] = RemoveAt(@, i)]
      BY <1>1, <2>3 DEF RemoveReport
    <3>2. wanted \in deleted' /\ (tester = "pop" => raced')
      BY <1>1, <2>3 DEF RemoveReport
    <3>3. reports[served][i] = wanted /\ served \in Objects
      BY <1>t, <1>1, <3>1 DEF FirstAt, RemoveReport
    <3> QED
      BY <1>t, <2>1, <2>2, <3>1, <3>2, <3>3
  <2>4. CASE wanted \notin Listed(served)
    BY <1>1, <2>1, <2>2, <2>4 DEF RemoveReport
  <2> QED
    BY <2>3, <2>4
<1>2. CASE ClearReports
  <2>1. /\ reports' = [reports EXCEPT ![served] = <<>>]
        /\ limit' = limit /\ deleted' = deleted \cup Listed(served)
        /\ raced' = (raced \/ tester = "pop")
    BY <1>2 DEF ClearReports
  <2> QED
    BY <1>t, <2>1 DEF MaxReports
<1>3. ASSUME NEW o \in Objects, SaveNewDevice(o)
      PROVE  /\ MaxReports(testing)' = MaxReports(testing)
             /\ deleted' = deleted /\ raced' = raced
             /\ reports'[testing] = reports[testing]
  <2>1. /\ o # testing /\ reports' = [reports EXCEPT ![o] = <<>>]
        /\ limit' = [limit EXCEPT ![o] = NoLimit]
        /\ deleted' = deleted /\ raced' = raced
    BY <1>3 DEF SaveNewDevice
  <2> QED
    BY <1>t, <2>1 DEF MaxReports
<1>4. CASE \/ RemoveFolder \/ EditDevice \/ OpenDevice \/ CloseDevice
           \/ DeleteDevice \/ RemoveReports \/ RemoveTree \/ RemoveDevice
           \/ \E r \in Report : DeleteReport(r) \/ GetReport(r)
  <2>1. /\ reports' = reports /\ limit' = limit /\ raced' = raced
        /\ deleted \subseteq deleted'
    BY <1>4
    DEF RemoveFolder, EditDevice, OpenDevice, CloseDevice, DeleteDevice,
        RemoveReports, RemoveTree, RemoveDevice, DeleteReport, GetReport
  <2> QED
    BY <1>t, <2>1 DEF MaxReports
<1> QED
  BY <1>1, <1>2, <1>3, <1>4 DEF Api

LEMMA HandlersNewest ==
  ASSUME WorkInv, NewestInv, Api
  PROVE  NewestInv'
<1>1. UNCHANGED <<tester, testing, current>>
  BY OthersLeft
<1>2. SUFFICES ASSUME tester # "idle" PROVE NewestInv'
  BY <1>1 DEF NewestInv
<1>3. testing \in Objects /\ reports[testing] \in Seq(Report)
  BY <1>2 DEF WorkInv, ReportsTypeOK, RunTypes, RunInv, ListTypes
<1>4. Listed(testing) = ToSet(reports[testing])
      /\ Listed(testing)' = ToSet(reports'[testing])
  BY <1>1, <1>3 DEF Listed
<1>5. /\ current \in Listed(testing) =>
           current \in Listed(testing)' \/ current \in deleted'
      /\ LastIs(reports[testing], current) =>
           LastIs(reports'[testing], current) \/ current \in deleted'
  <2>1. CASE reports'[testing] = reports[testing]
    BY <1>4, <2>1
  <2>2. ASSUME NEW i \in DOMAIN reports[testing],
               reports'[testing] = RemoveAt(reports[testing], i),
               reports[testing][i] \in deleted'
        PROVE  /\ current \in Listed(testing) =>
                    current \in Listed(testing)' \/ current \in deleted'
               /\ LastIs(reports[testing], current) =>
                    LastIs(reports'[testing], current) \/ current \in deleted'
    BY <1>3, <1>4, <2>2, LostOne
  <2>3. CASE Listed(testing) \subseteq deleted'
    <3>1. LastIs(reports[testing], current) => current \in Listed(testing)
      BY <1>3, <1>4 DEF LastIs, ToSet
    <3> QED
      BY <2>3, <3>1
  <2> QED
    BY <1>2, <2>1, <2>2, <2>3, HandlersTake
<1>6. tester = "pop" => raced' \/ Len(reports'[testing]) > 1
  BY <1>2, HandlersTake DEF NewestInv
<1>7. MaxReports(testing)' = MaxReports(testing) /\ deleted \subseteq deleted'
      /\ (raced => raced')
  BY <1>2, HandlersTake
<1> QED
  BY <1>1, <1>5, <1>6, <1>7 DEF NewestInv

\* The list of the run, sorted.
LEMMA SortNewest ==
  ASSUME WorkInv, NumberInv, NewestInv, SortReports
  PROVE  NewestInv'
<1>1. tester = "sort" /\ UNCHANGED <<testing, current, deleted, raced, limit>>
  BY DEF SortReports, TesterAt
<1>2. /\ testing \in Objects /\ reports[testing] \in Seq(Report)
      /\ reports \in [Objects -> Seq(Report)]
      /\ current = NumOld + runs /\ current \in Nat
  BY <1>1, ReportNumbers
  DEF WorkInv, ReportsTypeOK, RunTypes, RunInv, ListTypes
<1>3. MaxReports(testing)' = MaxReports(testing)
  BY <1>1 DEF MaxReports
<1>4. CASE MaxReports(testing) > 0
  <2>1. PICK s \in SortedLists(reports[testing]) :
          reports' = [reports EXCEPT ![testing] = s]
    BY <1>4 DEF SortReports
  <2>2. /\ s \in Seq(Report) /\ Len(s) = Len(reports[testing])
        /\ DOMAIN s = DOMAIN reports[testing]
        /\ \A i \in DOMAIN s :
             \E j \in DOMAIN reports[testing] : s[i] = reports[testing][j]
        /\ \A j \in DOMAIN reports[testing] :
             \E i \in DOMAIN s : s[i] = reports[testing][j]
        /\ \A i, j \in DOMAIN s : i < j => s[i] <= s[j]
    BY <1>2, SortedList
  <2>3. reports'[testing] = s /\ tester' = "check"
    BY <1>2, <1>4, <2>1 DEF SortReports, TesterAt
  <2>4. ASSUME current \in Listed(testing) PROVE LastIs(s, current)
    <3>1. PICK i \in DOMAIN s : s[i] = current
      BY <1>2, <2>2, <2>4 DEF Listed, ToSet
    <3>2. /\ DOMAIN s = 1 .. Len(s) /\ Len(s) \in Nat
          /\ Len(s) \in DOMAIN s /\ s # <<>>
      <4>1. s \in Seq(Report)
        BY <2>2
      <4> QED
        BY <3>1, <4>1
    <3>3. s[Len(s)] \in Nat /\ s[Len(s)] <= NumOld + runs
      <4>1. PICK j \in DOMAIN reports[testing] : s[Len(s)] = reports[testing][j]
        BY <2>2, <3>2
      <4>2. Mentioned(s[Len(s)])
        BY <1>2, <4>1 DEF Mentioned, ToSet
      <4> QED
        BY <4>2, MentionedReport, ReportNumbers DEF NumberInv, Numbered
    <3>4. current <= s[Len(s)]
      <4>1. CASE i = Len(s)
        BY <1>2, <3>1, <4>1
      <4>2. CASE i # Len(s)
        <5>1. i < Len(s)
          BY <3>1, <3>2, <4>2
        <5> QED
          BY <2>2, <3>1, <3>2, <5>1
      <4> QED
        BY <4>1, <4>2
    <3> QED
      BY <1>2, <3>2, <3>3, <3>4 DEF LastIs
  <2> QED
    BY <1>1, <1>3, <1>4, <2>3, <2>4 DEF NewestInv
<1>5. CASE ~(MaxReports(testing) > 0)
  BY <1>1, <1>5 DEF SortReports, TesterAt, NewestInv, Listed
<1> QED
  BY <1>4, <1>5

LEMMA RunNewest ==
  ASSUME WorkInv, NumberInv, NewestInv, Run
  PROVE  NewestInv'
<1>t. tester # "idle" => testing \in Objects /\ reports[testing] \in Seq(Report)
  BY DEF WorkInv, ReportsTypeOK, RunTypes, RunInv, ListTypes
<1>1. CASE StartRun \/ Stop
  BY <1>1 DEF StartRun, Stop, NewestInv, Listed, MaxReports
<1>2. CASE DeviceStable \/ TestsEnd \/ CopyResults \/ ResultsCopied
  BY <1>2
  DEF DeviceStable, TestsEnd, CopyResults, ResultsCopied, TesterAt, TesterEnds,
      NewestInv
<1>3. CASE AddReport
  <2>1. /\ tester' = "outcome" /\ testing' = testing /\ current' = current
        /\ reports' = [reports EXCEPT ![testing] = Append(@, current)]
        /\ testing \in Objects /\ reports[testing] \in Seq(Report)
        /\ reports \in [Objects -> Seq(Report)]
    BY <1>t, <1>3
    DEF AddReport, TesterAt, WorkInv, ReportsTypeOK, ListTypes
  <2>2. current \in ToSet(Append(reports[testing], current))
    <3>1. /\ Len(reports[testing]) + 1
               \in DOMAIN Append(reports[testing], current)
          /\ Append(reports[testing], current)[Len(reports[testing]) + 1]
               = current
      BY <2>1
    <3> QED
      BY <3>1 DEF ToSet
  <2> QED
    BY <2>1, <2>2 DEF NewestInv, Listed
<1>4. CASE SetOutcome
  BY <1>4 DEF SetOutcome, TesterAt, NewestInv, Listed
<1>5. CASE CheckLimit
  <2>1. /\ tester = "check" /\ UNCHANGED <<testing, current, reports, limit,
                                          deleted, raced>>
        /\ tester' = IF Len(reports[testing]) > MaxReports(testing)
                     THEN "pop" ELSE "open"
    BY <1>5 DEF CheckLimit, TesterAt
  <2>2. /\ testing \in Objects /\ reports[testing] \in Seq(Report)
        /\ MaxReports(testing) \in Nat /\ MaxReports(testing)' = MaxReports(testing)
    BY <1>t, <2>1, ReportNumbers
    DEF MaxReports, WorkInv, ReportsTypeOK, ListTypes, Limits
  <2>3. LastIs(reports[testing], current) => current \in Listed(testing)
    BY <2>2 DEF LastIs, Listed, ToSet
  <2>4. /\ current \in deleted \/ raced \/ LastIs(reports[testing], current)
        /\ MaxReports(testing) > 0
    BY <2>1 DEF NewestInv
  <2>5. Listed(testing)' = Listed(testing)
    BY <2>1 DEF Listed
  <2> QED
    BY <2>1, <2>2, <2>3, <2>4, <2>5 DEF NewestInv
<1>6. CASE PopOldest
  <2>1. CASE reports[testing] = <<>>
    BY <1>6, <2>1 DEF PopOldest, TesterEnds, NewestInv
  <2>2. CASE reports[testing] # <<>>
    <3>1. /\ tester = "pop" /\ tester' = "rmtree"
          /\ UNCHANGED <<testing, current, limit, deleted, raced>>
          /\ reports' = [reports EXCEPT ![testing] = Tail(@)]
      BY <1>6, <2>2 DEF PopOldest
    <3>2. /\ testing \in Objects /\ reports[testing] \in Seq(Report)
          /\ reports \in [Objects -> Seq(Report)]
      BY <1>t, <3>1 DEF WorkInv, ReportsTypeOK, ListTypes
    <3>3. reports'[testing] = Tail(reports[testing])
          /\ MaxReports(testing)' = MaxReports(testing)
      BY <3>1, <3>2 DEF MaxReports
    <3>4. ASSUME LastIs(reports[testing], current), Len(reports[testing]) > 1
          PROVE  LastIs(reports'[testing], current)
      <4> DEFINE list == reports[testing]
      <4>1. list \in Seq(Report) /\ Len(list) > 1 /\ list[Len(list)] = current
        BY <3>2, <3>4 DEF LastIs
      <4> HIDE DEF list
      <4>2. /\ Tail(list) # <<>> /\ Len(Tail(list)) = Len(list) - 1
            /\ Tail(list)[Len(list) - 1] = list[Len(list)]
        BY <4>1
      <4>3. reports'[testing] = Tail(list)
        BY <3>3 DEF list
      <4> QED
        BY <4>1, <4>2, <4>3 DEF LastIs
    <3> QED
      BY <3>1, <3>3, <3>4 DEF NewestInv
  <2> QED
    BY <2>1, <2>2
<1>7. CASE RemovePopped
  BY <1>7 DEF RemovePopped, NewestInv, MaxReports
<1>8. CASE ExportConfig \/ ConfigExported
  BY <1>8
  DEF ExportConfig, ConfigExported, TesterAt, TesterEnds, NewestInv, Listed
<1> QED
  BY <1>1, <1>2, <1>3, <1>4, <1>5, <1>6, <1>7, <1>8, SortNewest DEF Run

\* A run's own report survives its clean-up, whatever the limit is, unless a
\* user deleted it or deleted another between the check and the pop.
THEOREM NewestReportKept == Spec => []NewestKept
<1>1. Init => NewestInv
  BY DEF Init, NewestInv
<1>2. WorkInv /\ NumberInv /\ NewestInv /\ [Next]_vars => NewestInv'
  <2> SUFFICES ASSUME WorkInv, NumberInv, NewestInv, [Next]_vars
               PROVE  NewestInv'
    OBVIOUS
  <2>1. CASE LoadAllDevices
    <3>1. tester = "idle" /\ tester' = tester
      BY <2>1, OthersLeft
      DEF LoadAllDevices, Start, LoadDevice, ExistingCopied, SaveLoaded,
          LoadedSaved, RemoveOld, AddDevice, CopyExisting, AlreadyCopied,
          WorkInv, LoadingInv
    <3> QED
      BY <3>1 DEF NewestInv
  <2>2. CASE Dies
    BY <2>2 DEF Dies, TesterEnds, NewestInv
  <2>3. CASE UNCHANGED vars
    BY <2>3 DEF vars, NewestInv, Listed, MaxReports
  <2> QED
    BY <2>1, <2>2, <2>3, HandlersNewest, RunNewest DEF Next
<1>3. WorkInv /\ NumberInv /\ [Next]_vars => WorkInv' /\ NumberInv'
  BY WorkNext, NumberNext
<1>4. NewestInv => NewestKept
  BY DEF NewestInv, NewestKept
<1> QED
  BY <1>1, <1>2, <1>3, <1>4, WorkInit, FolderInit, PTL DEF Spec

-----------------------------------------------------------------------------
(***************************************************************************)
(* Who has the configuration open, and who is still to write it.           *)
(***************************************************************************)

HasOpen(w) == pending[w] # {}

\* A Device is read from a folder and written to one.
FolderNeeded ==
  \/ config # {} \/ \E w \in Writers : HasOpen(w)
  \/ loader \in {"copy", "copying", "close", "old", "register"}
  \/ (object # 0 /\ api # "unregister")
  \/ api \in {"open", "close"}

DirInv == FolderNeeded => dir

WriterInv ==
  /\ HasOpen("loader") <=> loader = "close"
  /\ HasOpen("tester") => tester = "close"
  /\ HasOpen("api") <=> api = "close"
  /\ ~overlap => \A v, w \in Writers : HasOpen(v) /\ HasOpen(w) => v = w
  /\ overlap => HasOpen("tester") \/ HasOpen("api")

\* The effect of opening and of closing the file.
LEMMA OpensOne ==
  ASSUME WorkInv, NEW w \in Writers, NEW o, OpenConfig(w, o)
  PROVE  /\ config' = {} /\ pending'[w] = {ToConfigJson(o)} /\ HasOpen(w)'
         /\ \A v \in Writers \ {w} : pending'[v] = pending[v]
         /\ overlap' = (overlap \/ \E v \in Writers \ {w} : HasOpen(v))
         /\ spoiled' = spoiled
<1>1. pending \in [Writers -> SUBSET ConfigRecord]
  BY DEF WorkInv, ReportsTypeOK, ListTypes
<1> QED
  BY <1>1 DEF OpenConfig, HasOpen

LEMMA ClosesOne ==
  ASSUME WorkInv, NEW w \in Writers, NEW o, CloseConfig(w, o)
  PROVE  /\ pending'[w] = {} /\ ~HasOpen(w)'
         /\ \A v \in Writers \ {w} : pending'[v] = pending[v]
         /\ ~HasOpen(w) => UNCHANGED <<config, overlap, spoiled>>
         /\ HasOpen(w) /\ ~overlap =>
              /\ config' = pending[w] /\ overlap' = overlap
              /\ spoiled' = (w = "tester" /\ o # object)
         /\ HasOpen(w) /\ overlap =>
              IF \E v \in Writers \ {w} : HasOpen(v)
              THEN UNCHANGED <<config, overlap, spoiled>>
              ELSE spoiled' /\ ~overlap' /\ config' \in {pending[w], {}}
<1>1. pending \in [Writers -> SUBSET ConfigRecord]
  BY DEF WorkInv, ReportsTypeOK, ListTypes
<1>2. pending' = [pending EXCEPT ![w] = {}]
  BY DEF CloseConfig
<1>3. /\ pending'[w] = {} /\ ~HasOpen(w)'
      /\ \A v \in Writers \ {w} : pending'[v] = pending[v]
  BY <1>1, <1>2 DEF HasOpen
<1>4. /\ ~HasOpen(w) => UNCHANGED <<config, overlap, spoiled>>
      /\ HasOpen(w) /\ ~overlap =>
           /\ config' = pending[w] /\ overlap' = overlap
           /\ spoiled' = (w = "tester" /\ o # object)
  BY DEF CloseConfig, HasOpen
<1>5. HasOpen(w) /\ overlap =>
        IF \E v \in Writers \ {w} : HasOpen(v)
        THEN UNCHANGED <<config, overlap, spoiled>>
        ELSE spoiled' /\ ~overlap' /\ config' \in {pending[w], {}}
  BY DEF CloseConfig, HasOpen
<1> QED
  BY <1>3, <1>4, <1>5

\* While the device is loaded nobody else has the file open.
LEMMA LoaderAlone ==
  ASSUME WorkInv, WriterInv, loader # "done"
  PROVE  ~HasOpen("tester") /\ ~HasOpen("api") /\ ~overlap
BY DEF WorkInv, LoadingInv, WriterInv

LEMMA WriterNext ==
  ASSUME WorkInv, WriterInv, [Next]_vars
  PROVE  WriterInv'
<1>1. CASE LoadAllDevices
  <2>1. CASE SaveLoaded
    <3>1. loader' = "close" /\ UNCHANGED <<tester, api>>
          /\ loader = "copy" /\ OpenConfig("loader", 1)
      BY <2>1 DEF SaveLoaded
    <3> QED
      BY <3>1, OpensOne, LoaderAlone DEF WriterInv, HasOpen, WorkInv, LoadingInv
  <2>2. CASE LoadedSaved
    <3>1. loader' = "old" /\ UNCHANGED <<tester, api>>
          /\ loader = "close" /\ CloseConfig("loader", 1)
      BY <2>2 DEF LoadedSaved
    <3> QED
      BY <3>1, ClosesOne, LoaderAlone DEF WriterInv, HasOpen, WorkInv, LoadingInv
  <2>3. CASE Start \/ LoadDevice \/ ExistingCopied \/ RemoveOld \/ AddDevice
    <3>1. UNCHANGED <<pending, overlap, tester, api>>
          /\ loader # "close" /\ loader' # "close"
      BY <2>3 DEF Start, LoadDevice, ExistingCopied, RemoveOld, AddDevice,
                  WorkInv, LoadingInv
    <3> QED
      BY <3>1 DEF WriterInv, HasOpen
  <2>4. ASSUME NEW r \in Report, CopyExisting(r) \/ AlreadyCopied(r)
        PROVE  WriterInv'
    BY <2>4 DEF CopyExisting, AlreadyCopied, WriterInv, HasOpen
  <2> QED
    BY <1>1, <2>1, <2>2, <2>3, <2>4 DEF LoadAllDevices
<1>2. CASE Api
  <2>1. CASE OpenDevice
    <3>1. /\ UNCHANGED <<loader, tester>> /\ api = "open" /\ api' = "close"
          /\ OpenConfig("api", served)
      BY <2>1 DEF OpenDevice
    <3> QED
      BY <3>1, OpensOne DEF WriterInv, HasOpen
  <2>2. CASE CloseDevice
    <3>1. /\ UNCHANGED <<loader, tester>> /\ api = "close" /\ api' = "idle"
          /\ CloseConfig("api", served)
      BY <2>2 DEF CloseDevice, HandlerEnds
    <3>2. /\ ~HasOpen("api")' /\ HasOpen("api")
          /\ HasOpen("loader")' <=> HasOpen("loader")
          /\ HasOpen("tester")' <=> HasOpen("tester")
      BY <3>1, ClosesOne DEF WriterInv, HasOpen
    <3>3. ~HasOpen("loader")
      BY <3>1 DEF WriterInv, WorkInv, LoadingInv
    <3>4. overlap' => overlap /\ HasOpen("tester")
      BY <3>1, <3>3, ClosesOne DEF WriterInv
    <3> QED
      BY <3>1, <3>2, <3>3, <3>4 DEF WriterInv
  <2>3. CASE RemoveTree
    <3>1. loader = "done"
      BY <2>3 DEF RemoveTree, WorkInv, LoadingInv
    <3> QED
      BY <2>3, <3>1 DEF RemoveTree, WriterInv, HasOpen
  <2>4. CASE Api /\ ~OpenDevice /\ ~CloseDevice /\ ~RemoveTree
    <3>1. /\ UNCHANGED <<loader, tester, pending, overlap>>
          /\ api # "close" /\ api' # "close"
      BY <2>4
      DEF Api, RemoveReport, RemoveFolder, EditDevice, DeleteDevice,
          RemoveReports, ClearReports, RemoveDevice, DeleteReport, GetReport,
          SaveNewDevice, Handle, EventLoopFree, HandlerEnds
    <3> QED
      BY <3>1 DEF WriterInv, HasOpen
  <2> QED
    BY <1>2, <2>1, <2>2, <2>3, <2>4
<1>3. CASE Run
  <2>1. UNCHANGED <<loader, api>>
    BY <1>3
    DEF Run, StartRun, DeviceStable, Stop, TestsEnd, CopyResults,
        ResultsCopied, AddReport, SetOutcome, SortReports, CheckLimit,
        PopOldest, RemovePopped, ExportConfig, ConfigExported
  <2>2. CASE ExportConfig /\ dir
    <3>1. /\ tester = "open" /\ tester' = "close"
          /\ OpenConfig("tester", testing)
      BY <2>2 DEF ExportConfig, TesterAt
    <3>2. loader = "done"
      BY <3>1 DEF WorkInv, LoadingInv
    <3> QED
      BY <2>1, <3>1, <3>2, OpensOne DEF WriterInv, HasOpen
  <2>3. CASE ConfigExported
    <3>1. tester = "close" /\ CloseConfig("tester", testing)
      BY <2>3 DEF ConfigExported
    <3>2. loader = "done"
      BY <3>1 DEF WorkInv, LoadingInv
    <3> QED
      BY <2>1, <3>1, <3>2, ClosesOne DEF WriterInv, HasOpen
  <2>4. CASE Run /\ ~(ExportConfig /\ dir) /\ ~ConfigExported
    <3>1. UNCHANGED <<pending, overlap>>
      BY <2>4
      DEF Run, StartRun, DeviceStable, Stop, TestsEnd, CopyResults,
          ResultsCopied, AddReport, SetOutcome, SortReports, CheckLimit,
          PopOldest, RemovePopped, ExportConfig
    <3>2. tester # "close" \/ tester' = tester
      BY <2>4
      DEF Run, StartRun, DeviceStable, Stop, TestsEnd, CopyResults,
          ResultsCopied, AddReport, SetOutcome, SortReports, CheckLimit,
          PopOldest, RemovePopped, ExportConfig, WorkInv, RunInv
    <3> QED
      BY <2>1, <3>1, <3>2 DEF WriterInv, HasOpen
  <2> QED
    BY <1>3, <2>2, <2>3, <2>4
<1>4. CASE Dies
  BY <1>4 DEF Dies, WriterInv, HasOpen, HandlerEnds
<1>5. CASE UNCHANGED vars
  BY <1>5 DEF vars, WriterInv, HasOpen
<1> QED
  BY <1>1, <1>2, <1>3, <1>4, <1>5 DEF Next

LEMMA DirNext ==
  ASSUME WorkInv, WriterInv, DirInv, [Next]_vars
  PROVE  DirInv'
<1> SUFFICES ASSUME FolderNeeded' PROVE dir'
  BY DEF DirInv
<1>1. CASE LoadAllDevices
  <2>1. dir' = dir
    BY <1>1
    DEF LoadAllDevices, Start, LoadDevice, ExistingCopied, SaveLoaded,
        LoadedSaved, RemoveOld, AddDevice, CopyExisting, AlreadyCopied
  <2>2. CASE Start \/ LoadDevice
    BY <2>1, <2>2
    DEF DirInv, Start, LoadDevice, FolderNeeded, HasOpen, WorkInv, LoadingInv
  <2>3. CASE \/ ExistingCopied \/ SaveLoaded \/ LoadedSaved \/ RemoveOld
             \/ AddDevice
             \/ \E r \in Report : CopyExisting(r) \/ AlreadyCopied(r)
    <3>1. FolderNeeded
      BY <2>3
      DEF ExistingCopied, SaveLoaded, LoadedSaved, RemoveOld, AddDevice,
          CopyExisting, AlreadyCopied, FolderNeeded
    <3> QED
      BY <2>1, <3>1 DEF DirInv
  <2> QED
    BY <1>1, <2>2, <2>3 DEF LoadAllDevices
<1>2. CASE Api
  <2>1. CASE RemoveTree
    BY <2>1
    DEF RemoveTree, FolderNeeded, HasOpen, WorkInv, LoadingInv
  <2>2. CASE RemoveDevice
    BY <2>2
    DEF RemoveDevice, HandlerEnds, FolderNeeded, DirInv, HasOpen
  <2>3. ASSUME NEW o \in Objects, SaveNewDevice(o) PROVE dir'
    BY <2>3 DEF SaveNewDevice
  <2>4. CASE \/ RemoveReport \/ RemoveFolder \/ EditDevice \/ OpenDevice
             \/ CloseDevice \/ DeleteDevice \/ RemoveReports \/ ClearReports
             \/ \E r \in Report : DeleteReport(r) \/ GetReport(r)
    <3>1. dir' = dir
      BY <2>4
      DEF RemoveReport, RemoveFolder, EditDevice, OpenDevice, CloseDevice,
          DeleteDevice, RemoveReports, ClearReports, DeleteReport, GetReport
    <3>2. api \in {"open", "close"} \/ (object # 0 /\ api # "unregister")
      BY <2>4
      DEF RemoveReport, RemoveFolder, EditDevice, OpenDevice, CloseDevice,
          DeleteDevice, RemoveReports, ClearReports, DeleteReport, GetReport,
          Handle, EventLoopFree, WorkInv, HandlerInv
    <3> QED
      BY <3>1, <3>2 DEF DirInv, FolderNeeded
  <2> QED
    BY <1>2, <2>1, <2>2, <2>3, <2>4 DEF Api
<1>3. CASE Run
  <2>1. UNCHANGED <<loader, api, object, dir>>
    BY <1>3
    DEF Run, StartRun, DeviceStable, Stop, TestsEnd, CopyResults,
        ResultsCopied, AddReport, SetOutcome, SortReports, CheckLimit,
        PopOldest, RemovePopped, ExportConfig, ConfigExported
  <2>2. CASE ExportConfig /\ dir
    BY <2>1, <2>2
  <2>3. CASE ConfigExported
    <3>1. CloseConfig("tester", testing)
      BY <2>3 DEF ConfigExported
    <3>2. FolderNeeded
      BY <2>1, <3>1, ClosesOne DEF FolderNeeded, HasOpen
    <3> QED
      BY <2>1, <3>2 DEF DirInv
  <2>4. CASE Run /\ ~(ExportConfig /\ dir) /\ ~ConfigExported
    <3>1. UNCHANGED <<config, pending>>
      BY <2>4
      DEF Run, StartRun, DeviceStable, Stop, TestsEnd, CopyResults,
          ResultsCopied, AddReport, SetOutcome, SortReports, CheckLimit,
          PopOldest, RemovePopped, ExportConfig
    <3> QED
      BY <2>1, <3>1 DEF FolderNeeded, HasOpen, DirInv
  <2> QED
    BY <1>3, <2>2, <2>3, <2>4
<1>4. CASE Dies
  BY <1>4 DEF Dies, DirInv, FolderNeeded, HasOpen, HandlerEnds
<1>5. CASE UNCHANGED vars
  BY <1>5 DEF vars, DirInv, FolderNeeded, HasOpen
<1> QED
  BY <1>1, <1>2, <1>3, <1>4, <1>5 DEF Next

\* A configuration is that of a Device.
IsOf(c, o) == c.reports = reports[o] /\ c.profile = profile[o]
InConfig(o) == \E c \in config : IsOf(c, o)

\* A handler will open the file yet, or is deleting the device; the testing
\* thread will open it yet.
ApiSaves == api \in {"remove_folder", "open"} /\ served = object
Goes == api \in {"remove_reports", "clear", "rmtree", "unregister"}
TesterSaves ==
  \/ tester \in {"outcome", "sort", "check", "rmtree", "open"}
  \/ tester = "pop" /\ reports[testing] # <<>>

\* What is about to be written is current, or the file will be opened again.
WritesInv ==
  /\ \A c \in pending["loader"] : IsOf(c, 1)
  /\ loader \in {"copy", "copying", "close", "old", "register"} => ~spoiled
  /\ loader \in {"old", "register"} => InConfig(1)
  /\ ~overlap /\ testing = object =>
       \A c \in pending["tester"] : IsOf(c, testing) \/ ApiSaves \/ Goes
  /\ ~overlap =>
       \A c \in pending["api"] :
         IsOf(c, served) \/ (testing = served /\ TesterSaves)

\* The file is current, or somebody is still to write it.
SyncInv ==
  object # 0 /\ ~spoiled =>
    \/ InConfig(object)
    \/ ApiSaves \/ Goes \/ HasOpen("api") \/ HasOpen("tester")
    \/ testing = object /\ TesterSaves

SaveInv == WritesInv /\ SyncInv

LEMMA ConfigOf ==
  ASSUME WorkInv, NEW o \in Objects
  PROVE  IsOf(ToConfigJson(o), o)
BY DEF IsOf, ToConfigJson

\* The steps of the loading.
LEMMA LoadSaves ==
  ASSUME WorkInv, WriterInv, SaveInv, LoadAllDevices
  PROVE  SaveInv'
<1>1. /\ object = 0 /\ tester = "idle" /\ testing = 0 /\ api = "idle"
      /\ loader # "done"
      /\ reports \in [Objects -> Seq(Report)] /\ profile \in [Objects -> {0, 1}]
  <2>1. loader # "done"
    BY DEF LoadAllDevices, Start, LoadDevice, ExistingCopied, SaveLoaded,
           LoadedSaved, RemoveOld, AddDevice, CopyExisting, AlreadyCopied,
           WorkInv, LoadingInv
  <2> QED
    BY <2>1 DEF WorkInv, LoadingInv, RunInv, ReportsTypeOK, ListTypes
<1>2. pending["tester"] = {} /\ pending["api"] = {} /\ ~overlap
  BY <1>1, LoaderAlone DEF HasOpen
<1>3. loader # "close" => pending["loader"] = {}
  BY DEF WriterInv, HasOpen
<1>4. CASE LoadDevice
  <2>1. /\ UNCHANGED <<pending, config, object, testing, tester, api, served>>
        /\ ~spoiled' /\ pending["loader"] = {}
    BY <1>3, <1>4 DEF LoadDevice
  <2>2. CASE config = {}
    BY <1>1, <1>2, <1>4, <2>1, <2>2
    DEF LoadDevice, SaveInv, WritesInv, SyncInv
  <2>3. CASE config # {}
    <3>1. PICK c \in config :
            /\ reports' = [reports EXCEPT ![1] = c.reports]
            /\ profile' = [profile EXCEPT ![1] = c.profile]
      BY <1>4, <2>3 DEF LoadDevice
    <3>2. IsOf(c, 1)'
      BY <1>1, <3>1 DEF IsOf
    <3>3. InConfig(1)'
      BY <2>1, <3>2 DEF InConfig
    <3> QED
      BY <1>1, <1>2, <2>1, <3>3 DEF SaveInv, WritesInv, SyncInv
  <2> QED
    BY <2>2, <2>3
<1>5. CASE \/ Start \/ ExistingCopied
           \/ \E r \in Report : CopyExisting(r) \/ AlreadyCopied(r)
  <2>1. /\ UNCHANGED <<pending, config, object, testing, tester, api, served,
                       spoiled>>
        /\ pending["loader"] = {}
        /\ \/ loader' \in {"copy", "copying"} /\ loader \in {"copy", "copying"}
           \/ loader' = "device"
    BY <1>3, <1>5
    DEF Start, ExistingCopied, CopyExisting, AlreadyCopied, WorkInv, LoadingInv
  <2> QED
    BY <1>1, <1>2, <2>1 DEF SaveInv, WritesInv, SyncInv
<1>6. CASE SaveLoaded
  <2>1. /\ UNCHANGED <<reports, profile, object, testing, tester, api, served>>
        /\ loader = "copy" /\ loader' = "close" /\ OpenConfig("loader", 1)
    BY <1>6 DEF SaveLoaded
  <2>2. /\ pending'["loader"] = {ToConfigJson(1)} /\ spoiled' = spoiled
        /\ pending'["tester"] = {} /\ pending'["api"] = {}
    BY <1>2, <2>1, OpensOne
  <2>3. IsOf(ToConfigJson(1), 1) /\ \A c : IsOf(c, 1)' <=> IsOf(c, 1)
    BY <2>1, ConfigOf DEF IsOf
  <2> QED
    BY <1>1, <2>1, <2>2, <2>3 DEF SaveInv, WritesInv, SyncInv
<1>7. CASE LoadedSaved
  <2>1. /\ UNCHANGED <<reports, profile, object, testing, tester, api, served>>
        /\ loader = "close" /\ loader' = "old" /\ CloseConfig("loader", 1)
    BY <1>7 DEF LoadedSaved
  <2>2. HasOpen("loader")
    BY <2>1 DEF WriterInv
  <2>3. /\ config' = pending["loader"] /\ ~spoiled' /\ pending'["loader"] = {}
        /\ pending'["tester"] = {} /\ pending'["api"] = {}
    BY <1>2, <2>1, <2>2, ClosesOne
  <2>4. InConfig(1)'
    BY <2>1, <2>2, <2>3 DEF SaveInv, WritesInv, InConfig, IsOf, HasOpen
  <2> QED
    BY <1>1, <2>1, <2>3, <2>4 DEF SaveInv, WritesInv, SyncInv
<1>8. CASE RemoveOld \/ AddDevice
  <2>1. /\ UNCHANGED <<reports, profile, pending, config, testing, tester, api,
                       served, spoiled>>
        /\ loader \in {"old", "register"} /\ loader' \in {"register", "done"}
        /\ object' \in {0, 1}
    BY <1>1, <1>8 DEF RemoveOld, AddDevice
  <2>2. InConfig(1)' /\ ~spoiled
    BY <2>1 DEF SaveInv, WritesInv, InConfig, IsOf
  <2> QED
    BY <1>1, <1>2, <1>3, <2>1, <2>2 DEF SaveInv, WritesInv, SyncInv
<1> QED
  BY <1>4, <1>5, <1>6, <1>7, <1>8 DEF LoadAllDevices

\* The handlers.
LEMMA ApiSavesInv ==
  ASSUME WorkInv, WriterInv, SaveInv, Api
  PROVE  SaveInv'
<1>t. /\ loader = "done" /\ UNCHANGED <<loader, tester, testing>>
      /\ served \in {0, 1, 2} /\ object \in {0, 1, 2}
      /\ reports \in [Objects -> Seq(Report)] /\ profile \in [Objects -> {0, 1}]
      /\ ~HasOpen("loader") /\ pending["loader"] = {}
  <2>1. loader = "done"
    BY DEF Api, RemoveReport, RemoveFolder, EditDevice, OpenDevice,
           CloseDevice, DeleteDevice, RemoveReports, ClearReports, RemoveTree,
           RemoveDevice, DeleteReport, GetReport, SaveNewDevice, Handle,
           EventLoopFree, WorkInv, LoadingInv
  <2> QED
    BY <2>1, OthersLeft
    DEF WorkInv, ReportsTypeOK, ApiTypes, ListTypes, WriterInv, HasOpen
<1>idle. testing = 0 => pending["tester"] = {}
  BY DEF WriterInv, HasOpen, WorkInv, RunInv
<1>1. CASE \E r \in Report : DeleteReport(r) \/ GetReport(r)
  <2>1. /\ api = "idle" /\ api' \in {"remove", "open"} /\ object' = object
        /\ UNCHANGED <<reports, profile, config, pending, overlap, spoiled>>
    BY <1>1 DEF DeleteReport, GetReport, Handle, EventLoopFree
  <2>2. pending["api"] = {}
    BY <2>1 DEF WriterInv, HasOpen
  <2> QED
    BY <1>t, <2>1, <2>2
    DEF SaveInv, WritesInv, SyncInv, ApiSaves, Goes, TesterSaves, InConfig,
        IsOf, HasOpen
<1>2. CASE DeleteDevice \/ RemoveReports \/ ClearReports
  <2>1. /\ api # "close" /\ Goes' /\ object' = object
        /\ UNCHANGED <<config, pending, overlap, spoiled>>
    BY <1>2
    DEF DeleteDevice, RemoveReports, ClearReports, Handle, EventLoopFree, Goes
  <2>2. pending["api"] = {}
    BY <2>1 DEF WriterInv, HasOpen
  <2> QED
    BY <1>t, <2>1, <2>2 DEF SaveInv, WritesInv, SyncInv
<1>3. CASE RemoveTree
  <2>1. Goes' /\ pending' = [w \in Writers |-> {}]
    BY <1>3 DEF RemoveTree, Goes
  <2> QED
    BY <1>t, <2>1 DEF SaveInv, WritesInv, SyncInv
<1>4. CASE RemoveDevice
  <2>1. /\ api = "unregister" /\ object' = 0
        /\ UNCHANGED <<config, pending, overlap, spoiled>>
    BY <1>4 DEF RemoveDevice
  <2>2. pending["api"] = {}
    BY <2>1 DEF WriterInv, HasOpen
  <2> QED
    BY <1>t, <1>idle, <2>1, <2>2 DEF SaveInv, WritesInv, SyncInv
<1>5. CASE RemoveReport
  <2>1. /\ api = "remove" /\ served = object
        /\ UNCHANGED <<object, config, pending, overlap, spoiled, profile>>
    BY <1>5 DEF RemoveReport, WorkInv, HandlerInv
  <2>2. pending["api"] = {}
    BY <2>1 DEF WriterInv, HasOpen
  <2>3. CASE wanted \in Listed(served)
    <3>1. ApiSaves'
      BY <1>5, <2>1, <2>3 DEF RemoveReport, ApiSaves
    <3> QED
      BY <1>t, <2>1, <2>2, <3>1 DEF SaveInv, WritesInv, SyncInv
  <2>4. CASE wanted \notin Listed(served)
    <3>1. reports' = reports
      BY <1>5, <2>4 DEF RemoveReport
    <3> QED
      BY <1>t, <2>1, <2>2, <3>1
      DEF SaveInv, WritesInv, SyncInv, ApiSaves, Goes, TesterSaves, InConfig,
          IsOf, HasOpen
  <2> QED
    BY <2>3, <2>4
<1>6. CASE RemoveFolder \/ EditDevice
  <2>1. /\ api # "close" /\ ApiSaves'
        /\ UNCHANGED <<object, config, pending, overlap, spoiled>>
    BY <1>6
    DEF RemoveFolder, EditDevice, Handle, EventLoopFree, ApiSaves, WorkInv,
        HandlerInv
  <2>2. pending["api"] = {}
    BY <2>1 DEF WriterInv, HasOpen
  <2> QED
    BY <1>t, <2>1, <2>2 DEF SaveInv, WritesInv, SyncInv
<1>7. ASSUME NEW o \in Objects, SaveNewDevice(o) PROVE SaveInv'
  <2>1. /\ api = "idle" /\ object' = 0
        /\ UNCHANGED <<config, pending, overlap, spoiled>>
    BY <1>7 DEF SaveNewDevice, EventLoopFree
  <2>2. pending["api"] = {}
    BY <2>1 DEF WriterInv, HasOpen
  <2> QED
    BY <1>t, <1>idle, <2>1, <2>2 DEF SaveInv, WritesInv, SyncInv
<1>8. CASE OpenDevice
  <2>1. /\ api = "open" /\ UNCHANGED <<object, served, reports, profile>>
        /\ OpenConfig("api", served) /\ served \in Objects
    BY <1>t, <1>8 DEF OpenDevice, WorkInv, HandlerInv
  <2>2. /\ pending'["api"] = {ToConfigJson(served)} /\ HasOpen("api")'
        /\ pending'["tester"] = pending["tester"]
        /\ pending'["loader"] = pending["loader"]
        /\ overlap' = (overlap \/ \E v \in Writers \ {"api"} : HasOpen(v))
        /\ spoiled' = spoiled
    BY <2>1, OpensOne
  <2>3. ~overlap' => pending["tester"] = {}
    BY <2>2 DEF HasOpen
  <2>4. \A c \in pending'["api"] : IsOf(c, served)'
    BY <2>1, <2>2, ConfigOf DEF IsOf
  <2> QED
    BY <1>t, <2>1, <2>2, <2>3, <2>4 DEF SaveInv, WritesInv, SyncInv
<1>9. CASE CloseDevice
  <2>1. /\ api = "close" /\ object' = served /\ served' = 0 /\ api' = "idle"
        /\ UNCHANGED <<reports, profile>>
        /\ CloseConfig("api", served) /\ served \in Objects
    BY <1>t, <1>9 DEF CloseDevice, HandlerEnds, WorkInv, HandlerInv
  <2>2. HasOpen("api") /\ pending["api"] # {}
    BY <2>1 DEF WriterInv, HasOpen
  <2>3. /\ pending'["api"] = {}
        /\ pending'["tester"] = pending["tester"]
        /\ pending'["loader"] = {}
    BY <1>t, <2>1, ClosesOne
  <2>4. CASE ~overlap
    <3>1. config' = pending["api"] /\ pending["tester"] = {}
      <4>1. config' = pending["api"]
        BY <2>1, <2>2, <2>4, ClosesOne
      <4>2. ~HasOpen("tester")
        BY <2>2, <2>4 DEF WriterInv
      <4> QED
        BY <4>1, <4>2 DEF HasOpen
    <3>2. PICK c \in pending["api"] :
            IsOf(c, served) \/ (testing = served /\ TesterSaves)
      BY <2>2, <2>4 DEF SaveInv, WritesInv
    <3>3. InConfig(object)' \/ (testing = object /\ TesterSaves)'
      BY <1>t, <2>1, <3>1, <3>2 DEF InConfig, IsOf, TesterSaves
    <3> QED
      BY <1>t, <2>3, <3>1, <3>3 DEF SaveInv, WritesInv, SyncInv
  <2>5. CASE overlap /\ HasOpen("tester")
    <3>1. overlap'
      BY <2>1, <2>2, <2>5, ClosesOne
    <3>2. HasOpen("tester")'
      BY <2>3, <2>5 DEF HasOpen
    <3> QED
      BY <1>t, <2>3, <3>1, <3>2 DEF SaveInv, WritesInv, SyncInv
  <2>6. CASE overlap /\ ~HasOpen("tester")
    <3>1. spoiled'
      BY <1>t, <2>1, <2>2, <2>6, ClosesOne
    <3>2. pending'["tester"] = {}
      BY <2>3, <2>6 DEF HasOpen
    <3> QED
      BY <1>t, <2>3, <3>1, <3>2 DEF SaveInv, WritesInv, SyncInv
  <2> QED
    BY <2>4, <2>5, <2>6
<1> QED
  BY <1>1, <1>2, <1>3, <1>4, <1>5, <1>6, <1>7, <1>8, <1>9 DEF Api

\* The steps of a run.
LEMMA RunSaves ==
  ASSUME WorkInv, WriterInv, DirInv, SaveInv, Run
  PROVE  SaveInv'
<1>t. /\ UNCHANGED <<loader, api, served, object, profile>>
      /\ testing \in {0, 1, 2} /\ (tester = "idle" <=> testing = 0)
      /\ tester # "idle" => loader = "done"
      /\ reports \in [Objects -> Seq(Report)] /\ profile \in [Objects -> {0, 1}]
      /\ served \in {0, 1, 2} /\ object \in {0, 1, 2}
  BY DEF Run, StartRun, DeviceStable, Stop, TestsEnd, CopyResults,
         ResultsCopied, AddReport, SetOutcome, SortReports, CheckLimit,
         PopOldest, RemovePopped, ExportConfig, ConfigExported, WorkInv,
         LoadingInv, RunInv, ReportsTypeOK, RunTypes, ListTypes, ApiTypes
<1>closed. tester # "close" => pending["tester"] = {}
  BY DEF WriterInv, HasOpen
<1>loader. loader # "close" => pending["loader"] = {}
  BY DEF WriterInv, HasOpen
<1>done. loader = "done"
  BY <1>t DEF Run, StartRun, DeviceStable, Stop, EventLoopFree, TestsEnd,
         CopyResults, ResultsCopied, AddReport, SetOutcome, SortReports,
         CheckLimit, PopOldest, RemovePopped, ExportConfig, ConfigExported,
         WorkInv, LoadingInv, IDLE, STARTING
<1>1. CASE \/ StartRun \/ Stop \/ SetOutcome \/ RemovePopped
           \/ CopyResults \/ ResultsCopied \/ TestsEnd \/ DeviceStable
  <2>1. UNCHANGED <<reports, config, pending, overlap, spoiled>>
    BY <1>1 DEF StartRun, Stop, SetOutcome, RemovePopped, CopyResults,
                ResultsCopied, TestsEnd, DeviceStable
  <2>2. \/ UNCHANGED <<tester, testing>>
        \/ tester # "close" /\ ~TesterSaves
        \/ tester # "close" /\ testing' = testing /\ TesterSaves'
    BY <1>1, <1>t
    DEF StartRun, Stop, SetOutcome, RemovePopped, CopyResults, ResultsCopied,
        TestsEnd, DeviceStable, TesterSaves, TesterAt, WorkInv, RunInv
  <2> QED
    BY <1>t, <1>closed, <2>1, <2>2
    DEF SaveInv, WritesInv, SyncInv, ApiSaves, Goes, TesterSaves, InConfig,
        IsOf, HasOpen
<1>2. ASSUME UNCHANGED <<config, pending, overlap, spoiled, testing>>,
             tester # "close", testing \in Objects, TesterSaves',
             \A o \in Objects \ {testing} : reports'[o] = reports[o]
      PROVE  SaveInv'
  <2>1. \A c, o : o \in Objects \ {testing} => (IsOf(c, o)' <=> IsOf(c, o))
    BY <1>t, <1>2 DEF IsOf
  <2>2. WritesInv'
    <3>1. \A c \in pending["api"] :
            ~overlap /\ testing # served => IsOf(c, served)'
      <4>1. pending["api"] # {} => served \in Objects
        BY <1>t DEF WriterInv, HasOpen, WorkInv, HandlerInv
      <4> QED
        BY <1>t, <2>1, <4>1 DEF SaveInv, WritesInv
    <3> QED
      BY <1>t, <1>2, <1>closed, <1>loader, <1>done, <3>1 DEF WritesInv
  <2>3. SyncInv'
    <3>1. CASE testing = object
      BY <1>t, <1>2, <3>1 DEF SyncInv
    <3>2. CASE testing # object /\ object # 0
      <4>1. InConfig(object) => InConfig(object)'
        BY <1>t, <1>2, <2>1, <3>2 DEF InConfig
      <4> QED
        BY <1>t, <1>2, <3>2, <4>1
        DEF SaveInv, SyncInv, ApiSaves, Goes, HasOpen
    <3> QED
      BY <1>t, <3>1, <3>2 DEF SyncInv
  <2> QED
    BY <2>2, <2>3 DEF SaveInv
<1>3. CASE AddReport
  <2>1. /\ tester = "add" /\ tester' = "outcome" /\ testing' = testing
        /\ UNCHANGED <<config, pending, overlap, spoiled>>
        /\ reports' = [reports EXCEPT ![testing] = Append(@, current)]
    BY <1>3 DEF AddReport, TesterAt
  <2> QED
    BY <1>t, <1>2, <2>1 DEF TesterSaves
<1>4. CASE SortReports
  <2>1. /\ tester = "sort" /\ tester' \in {"check", "open"}
        /\ testing' = testing
        /\ UNCHANGED <<config, pending, overlap, spoiled>>
        /\ \/ reports' = reports
           \/ \E s : reports' = [reports EXCEPT ![testing] = s]
    BY <1>4 DEF SortReports, TesterAt
  <2>2. \A o \in Objects \ {testing} : reports'[o] = reports[o]
    BY <1>t, <2>1
  <2> QED
    BY <1>t, <1>2, <2>1, <2>2 DEF TesterSaves
<1>5. CASE CheckLimit
  <2>1. /\ tester = "check" /\ testing' = testing
        /\ tester' = IF Len(reports[testing]) > MaxReports(testing)
                     THEN "pop" ELSE "open"
        /\ UNCHANGED <<reports, config, pending, overlap, spoiled>>
    BY <1>5 DEF CheckLimit, TesterAt
  <2>2. testing \in Objects /\ MaxReports(testing) \in Nat
    BY <1>t, <2>1, ReportNumbers
    DEF MaxReports, WorkInv, ReportsTypeOK, ListTypes, Limits
  <2>3. Len(reports[testing]) > MaxReports(testing) => reports[testing] # <<>>
    BY <2>2
  <2> QED
    BY <1>2, <2>1, <2>2, <2>3 DEF TesterSaves
<1>6. CASE PopOldest
  <2>1. tester = "pop" /\ UNCHANGED <<config, pending, overlap, spoiled>>
    BY <1>6 DEF PopOldest
  <2>2. CASE reports[testing] = <<>>
    <3>1. /\ tester' = "idle" /\ testing' = 0 /\ reports' = reports
          /\ ~TesterSaves
      BY <1>6, <2>1, <2>2 DEF PopOldest, TesterEnds, TesterSaves
    <3> QED
      BY <1>t, <1>closed, <2>1, <3>1
      DEF SaveInv, WritesInv, SyncInv, ApiSaves, Goes, InConfig, IsOf, HasOpen
  <2>3. CASE reports[testing] # <<>>
    <3>1. /\ tester' = "rmtree" /\ testing' = testing
          /\ reports' = [reports EXCEPT ![testing] = Tail(@)]
      BY <1>6, <2>3 DEF PopOldest
    <3> QED
      BY <1>t, <1>2, <2>1, <3>1 DEF TesterSaves
  <2> QED
    BY <2>2, <2>3
<1>7. CASE ExportConfig
  <2>1. tester = "open" /\ reports' = reports /\ testing \in Objects
    BY <1>t, <1>7 DEF ExportConfig
  <2>2. CASE dir
    <3>1. /\ testing' = testing /\ tester' = "close"
          /\ OpenConfig("tester", testing)
      BY <1>7, <2>2 DEF ExportConfig, TesterAt
    <3>2. /\ pending'["tester"] = {ToConfigJson(testing)} /\ HasOpen("tester")'
          /\ pending'["api"] = pending["api"]
          /\ pending'["loader"] = pending["loader"]
          /\ overlap' = (overlap \/ \E v \in Writers \ {"tester"} : HasOpen(v))
          /\ spoiled' = spoiled
      BY <3>1, OpensOne
    <3>3. ~overlap' => pending["api"] = {}
      BY <3>2 DEF HasOpen
    <3>4. \A c \in pending'["tester"] : IsOf(c, testing)'
      BY <1>t, <2>1, <3>1, <3>2, ConfigOf DEF IsOf
    <3> QED
      BY <1>t, <1>loader, <1>done, <3>1, <3>2, <3>3, <3>4
      DEF SaveInv, WritesInv, SyncInv
  <2>3. CASE ~dir
    <3>1. /\ testing' = 0 /\ tester' = "idle"
          /\ UNCHANGED <<config, pending, overlap, spoiled>>
      BY <1>7, <2>3 DEF ExportConfig, TesterEnds
    <3>2. pending["api"] = {} /\ (object # 0 => Goes)
      BY <2>3 DEF DirInv, FolderNeeded, HasOpen, Goes
    <3> QED
      BY <1>t, <1>loader, <1>done, <1>closed, <2>1, <3>1, <3>2
      DEF SaveInv, WritesInv, SyncInv, Goes
  <2> QED
    BY <2>2, <2>3
<1>8. CASE ConfigExported
  <2>1. /\ tester = "close" /\ tester' = "idle" /\ testing' = 0
        /\ reports' = reports /\ CloseConfig("tester", testing)
        /\ ~TesterSaves /\ testing \in Objects
    BY <1>t, <1>8 DEF ConfigExported, TesterEnds, TesterSaves
  <2>2. /\ pending'["tester"] = {}
        /\ pending'["api"] = pending["api"]
        /\ pending'["loader"] = {}
        /\ HasOpen("api")' <=> HasOpen("api")
        /\ ~HasOpen("loader")
    BY <1>loader, <1>done, <2>1, ClosesOne DEF HasOpen
  <2>3. CASE ~HasOpen("tester")
    <3>1. UNCHANGED <<config, overlap, spoiled>>
      BY <2>1, <2>3, ClosesOne
    <3> QED
      BY <1>t, <1>done, <2>1, <2>2, <2>3, <3>1
      DEF SaveInv, WritesInv, SyncInv, ApiSaves, Goes, InConfig, IsOf
  <2>4. CASE HasOpen("tester") /\ ~overlap
    <3>1. /\ config' = pending["tester"] /\ spoiled' = (testing # object)
      BY <2>1, <2>4, ClosesOne
    <3>2. pending["api"] = {}
      <4>1. ~HasOpen("api")
        BY <2>4 DEF WriterInv
      <4> QED
        BY <4>1 DEF HasOpen
    <3>3. PICK c : c \in pending["tester"]
      BY <2>4 DEF HasOpen
    <3>4. testing = object => InConfig(object)' \/ ApiSaves' \/ Goes'
      <4>1. testing = object => IsOf(c, testing) \/ ApiSaves \/ Goes
        BY <2>4, <3>3 DEF SaveInv, WritesInv
      <4> QED
        BY <1>t, <2>1, <3>1, <3>3, <4>1 DEF InConfig, IsOf, ApiSaves, Goes
    <3> QED
      BY <1>t, <1>done, <2>2, <3>1, <3>2, <3>4 DEF SaveInv, WritesInv, SyncInv
  <2>5. CASE HasOpen("tester") /\ overlap /\ HasOpen("api")
    <3>1. overlap'
      BY <2>1, <2>5, ClosesOne
    <3> QED
      BY <1>t, <1>done, <2>2, <2>5, <3>1 DEF SaveInv, WritesInv, SyncInv
  <2>6. CASE HasOpen("tester") /\ overlap /\ ~HasOpen("api")
    <3>1. spoiled'
      BY <2>1, <2>2, <2>6, ClosesOne
    <3>2. pending["api"] = {}
      BY <2>6 DEF HasOpen
    <3> QED
      BY <1>t, <1>done, <2>2, <3>1, <3>2 DEF SaveInv, WritesInv, SyncInv
  <2> QED
    BY <2>3, <2>4, <2>5, <2>6
<1> QED
  BY <1>1, <1>3, <1>4, <1>5, <1>6, <1>7, <1>8 DEF Run

\* When nothing is at work, what the next start will load of the device is
\* what is in memory, unless two writers got in each other's way.
THEOREM ConfigIsCurrent == Spec => []ConfigCurrent
<1>1. Init => WriterInv /\ DirInv /\ SaveInv
  BY DEF Init, WriterInv, DirInv, SaveInv, WritesInv, SyncInv, HasOpen
<1>2. WorkInv /\ WriterInv /\ DirInv /\ SaveInv /\ [Next]_vars => SaveInv'
  <2> SUFFICES ASSUME WorkInv, WriterInv, DirInv, SaveInv, [Next]_vars
               PROVE  SaveInv'
    OBVIOUS
  <2>1. CASE Dies
    BY <2>1 DEF Dies, SaveInv, WritesInv, SyncInv
  <2>2. CASE UNCHANGED vars
    BY <2>2
    DEF vars, SaveInv, WritesInv, SyncInv, ApiSaves, Goes, TesterSaves,
        InConfig, IsOf, HasOpen
  <2> QED
    BY <2>1, <2>2, LoadSaves, ApiSavesInv, RunSaves DEF Next
<1>3. WorkInv /\ WriterInv /\ DirInv /\ [Next]_vars
        => WorkInv' /\ WriterInv' /\ DirInv'
  BY WorkNext, WriterNext, DirNext
<1>4. WorkInv /\ WriterInv /\ SaveInv => ConfigCurrent
  BY DEF ConfigCurrent, Resting, WriterInv, SaveInv, SyncInv, InConfig, IsOf,
         ApiSaves, Goes, TesterSaves
<1> QED
  BY <1>1, <1>2, <1>3, <1>4, WorkInit, PTL DEF Spec
=============================================================================
