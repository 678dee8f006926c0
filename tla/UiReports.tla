------------------------------ MODULE UiReports ------------------------------
(***************************************************************************)
(* The reports page (pages/reports): the list of reports of the ngrx       *)
(* store, the table and its filters, the dialogs that choose a filter and  *)
(* that delete a report.                                                   *)
(***************************************************************************)
EXTENDS Statuses, Naturals, FiniteSets, FiniteSetsExt, UiCalls

CONSTANTS
  Reports,   \* the reports that a run may make
  Shape,     \* [Reports -> TestrunReport]
  Texts,     \* what a device or a firmware may be called
  Part,      \* [Texts -> the texts it is a part of, itself among them]
  Today,     \* the days are 1 .. Today
  Searches,  \* bound: the texts that are searched for
  ResultChoices,   \* bound: the sets of results that are chosen
  MaxFilters \* bound: filters at a time

VARIABLES
  kept,          \* server: the reports it has
  history,       \* AppState.reports
  fetching,      \* onFetchReports: the request under way
  deletingRow,   \* deleteReport: the request under way
  asking,        \* the report the dialog of a deletion is about
  filter,        \* filteredValues, that the chips show
  tableFilter,   \* MatTableDataSource.filter
  noFilter,      \* isFiltersEmpty, that hides the chips
  activeFilter,  \* the filter whose dialog is open
  range,         \* FilterDialogComponent.range
  untold         \* history: reports that changed and the page was not told

reportVars == <<kept, history, fetching, deletingRow, asking, filter,
                tableFilter, noFilter, activeFilter, range, untold>>

AnyText == Blank
NoDay == 0
Days == 1 .. Today
DateRange == [start : Days \cup {NoDay}, end : Days \cup {NoDay}]
NoRange == [start |-> NoDay, end |-> NoDay]
Nothing == "nothing"

TestrunReport == [deviceInfo : Texts, deviceFirmware : Texts,
                  test_pack : {"Device Qualification", "Pilot Assessment"},
                  status : STATUSES_COMPLETE,
                  result : TestrunResult \cup {Blank},
                  started : Days \cup {NoDay}, minutes : Nat]

resultList == {COMPLIANT, NON_COMPLIANT, PROCEED, DO_NOT_PROCEED}

ASSUME UiReportsAssumption ==
  /\ Shape \in [Reports -> TestrunReport]
  /\ Part \in [Texts -> SUBSET Texts] /\ {Today, MaxFilters} \subseteq Nat
  /\ Searches \subseteq Texts /\ ResultChoices \subseteq SUBSET resultList

FilterName == {"deviceInfo", "deviceFirmware", "results", "started"}
Filters == [deviceInfo : Texts \cup {AnyText},
            deviceFirmware : Texts \cup {AnyText},
            results : SUBSET resultList, dateRange : DateRange]
NoFilters == [deviceInfo |-> AnyText, deviceFirmware |-> AnyText,
              results |-> {}, dateRange |-> NoRange]

reportTypeOK ==
  /\ kept \subseteq Reports /\ history \subseteq Reports
  /\ untold \subseteq Reports
  /\ fetching \in {Idle, Asked} \cup [at : {"answered"}, list : SUBSET Reports]
  /\ deletingRow \in {Idle, Failed} \cup [at : {"asked", "done"}, report : Reports]
  /\ asking \in Reports \cup {Nothing}
  /\ filter \in Filters /\ tableFilter \in Filters /\ noFilter \in BOOLEAN
  /\ activeFilter \in FilterName \cup {Nothing}
  /\ range \in DateRange

\* The page opens on the list that the store has, and asks for a new one.
reportInit ==
  /\ kept \in SUBSET Reports /\ history \in {kept, {}}
  /\ fetching = Asked /\ deletingRow = Idle
  /\ asking = Nothing /\ activeFilter = Nothing /\ range = NoRange
  /\ filter = NoFilters /\ tableFilter = NoFilters /\ noFilter = TRUE
  /\ untold = SymDiff(kept, history)

-----------------------------------------------------------------------------
(***************************************************************************)
(* What a row says, and which rows a filter lets through.                  *)
(***************************************************************************)
getTestResult(r) ==
  IF /\ r.test_pack = "Device Qualification"
     /\ r.status = COMPLETE /\ r.result /= Blank
  THEN r.result ELSE r.status

\* A date formatted as minutes: an hour is no minutes.
getDuration(r) == IF r.started = NoDay THEN NoDay ELSE r.minutes % 60

formateData(r) == [testResult |-> getTestResult(r), duration |-> getDuration(r)]

filterStringData(data, search) == search = AnyText \/ data \in Part[search]

\* Mutant: the day that ends the range is left out.
filterStartedDateRangeMutant(started, d) ==
  \/ started = NoDay \/ d.start = NoDay
  \/ started >= d.start /\ (d.end /= NoDay => started < d.end)

\* A range without a start lets everything through.
filterStartedDateRange(started, d) ==
  \/ started = NoDay \/ d.start = NoDay
  \/ started >= d.start /\ (d.end /= NoDay => started <= d.end)

customFilterPredicate(r, f) ==
  /\ filterStringData(r.deviceInfo, f.deviceInfo)
  /\ filterStringData(r.deviceFirmware, f.deviceFirmware)
  /\ f.results = {} \/ formateData(r).testResult \in f.results
  /\ filterStartedDateRange(r.started, f.dateRange)

isFiltersEmpty(f) == f = NoFilters

\* The rows of the table.
filteredData == {r \in history : customFilterPredicate(Shape[r], tableFilter)}

-----------------------------------------------------------------------------
(***************************************************************************)
(* The server.                                                             *)
(***************************************************************************)

\* Another run is reported, or a report makes way for it.  A report that
\* nobody knows any more stands for a new one.
Known == kept \cup history \cup {asking}
  \cup (IF fetching.at = "answered" THEN fetching.list ELSE {})
  \cup (IF deletingRow \in {Idle, Failed} THEN {} ELSE {deletingRow.report})
ServerRuns ==
  /\ \E r \in kept \cup (Reports \ Known) :
       kept' = SymDiff(kept, {r}) /\ untold' = untold \cup {r}
  /\ UNCHANGED <<history, fetching, deletingRow, asking, filter, tableFilter,
                 noFilter, activeFilter, range>>

\* GET /reports: the list, or none after an error.
ServeReports ==
  /\ fetching = Asked
  /\ fetching' \in {[at |-> "answered", list |-> l] : l \in {kept, {}}}
  /\ UNCHANGED <<kept, history, deletingRow, asking, filter, tableFilter,
                 noFilter, activeFilter, range, untold>>

\* DELETE /report: the answer may be lost on its way back.
ServeDeletion ==
  /\ deletingRow.at = "asked"
  /\ \/ /\ deletingRow.report \in kept /\ kept' = kept \ {deletingRow.report}
        /\ untold' = untold \cup {deletingRow.report}
        /\ deletingRow' \in {[deletingRow EXCEPT !.at = "done"], Failed}
     \/ /\ deletingRow' = Failed
        /\ UNCHANGED <<kept, untold>>
  /\ UNCHANGED <<history, fetching, asking, filter, tableFilter, noFilter,
                 activeFilter, range>>

-----------------------------------------------------------------------------
(***************************************************************************)
(* The list.                                                               *)
(***************************************************************************)
updateFilters(f) ==
  filter' = f /\ tableFilter' = f /\ noFilter' = isFiltersEmpty(f)

\* getReports, after every setReports: a new table, with the filters.
getReports(list) == history' = list /\ updateFilters(filter)

ReportsFetched ==
  /\ fetching.at = "answered" /\ fetching' = Idle
  /\ getReports(fetching.list) /\ untold' = SymDiff(kept, fetching.list)
  /\ UNCHANGED <<kept, deletingRow, asking, activeFilter, range>>

\* A run that ends asks for the reports anew; the last request is given up.
fetchReports ==
  /\ fetching' = Asked
  /\ UNCHANGED <<kept, history, deletingRow, asking, filter, tableFilter,
                 noFilter, activeFilter, range, untold>>

\* Mutant: the list the deletion started from comes back.
removeReportMutant(r, current) ==
  IF r \in current THEN getReports(current) ELSE UNCHANGED
    <<history, filter, tableFilter, noFilter>>

\* It is removed from the list as it is when the answer arrives.
removeReport(r, current) ==
  IF r \in current THEN getReports(current \ {r}) ELSE UNCHANGED
    <<history, filter, tableFilter, noFilter>>

ReportDeleted ==
  /\ deletingRow.at \in {"done", "failed"} /\ deletingRow' = Idle
  /\ IF deletingRow = Failed
     THEN UNCHANGED <<history, filter, tableFilter, noFilter, untold>>
     ELSE /\ removeReport(deletingRow.report, history)
          /\ untold' = untold \ ({deletingRow.report} \ kept)
  /\ UNCHANGED <<kept, fetching, asking, activeFilter, range>>

\* The dialog of a deletion.  Whilst one is under way another is forgotten.
deleteReport ==
  /\ activeFilter = Nothing
  /\ \/ asking = Nothing /\ asking' \in filteredData /\ UNCHANGED deletingRow
     \/ /\ asking /= Nothing /\ asking' = Nothing
        /\ \/ UNCHANGED deletingRow
           \/ /\ deletingRow = Idle
              /\ deletingRow' = [at |-> "asked", report |-> asking]
  /\ UNCHANGED <<kept, history, fetching, filter, tableFilter, noFilter,
                 activeFilter, range, untold>>

-----------------------------------------------------------------------------
(***************************************************************************)
(* The filters.                                                            *)
(***************************************************************************)
noDialog == asking = Nothing /\ activeFilter = Nothing

openFilter ==
  /\ noDialog /\ activeFilter' \in FilterName /\ range' = NoRange
  /\ UNCHANGED <<kept, history, fetching, deletingRow, asking, filter,
                 tableFilter, noFilter, untold>>

\* A day is chosen in the calendar, or a range typed; typed dates are valid
\* when they are in order.
selectedChange(d) ==
  range' = IF range.start = NoDay \/ range.end /= NoDay
           THEN [start |-> d, end |-> NoDay]
           ELSE [start |-> Min({range.start, d}), end |-> Max({range.start, d})]

chooseDates ==
  /\ activeFilter = "started"
  /\ \/ \E d \in Days : selectedChange(d)
     \/ range' \in {d \in DateRange : d.end = NoDay \/ d.start <= d.end}
  /\ UNCHANGED <<kept, history, fetching, deletingRow, asking, filter,
                 tableFilter, noFilter, activeFilter, untold>>

\* A range that was not ended ends today.
Ended(d) == IF d.start /= NoDay /\ d.end = NoDay THEN [d EXCEPT !.end = Today] ELSE d

Chip(k) == IF k = "started" THEN "dateRange" ELSE k

\* The dialog closes, with the one filter it is for or without.
closeFilter ==
  /\ activeFilter /= Nothing /\ activeFilter' = Nothing
  /\ \/ UNCHANGED <<filter, tableFilter, noFilter>>
     \/ \E v \in CASE activeFilter = "results" -> ResultChoices \cup {{}}
                   [] activeFilter = "started" -> {Ended(range)}
                   [] OTHER -> Searches \cup {AnyText} :
          updateFilters([filter EXCEPT ![Chip(activeFilter)] = v])
  /\ Cardinality({k \in DOMAIN filter : filter'[k] /= NoFilters[k]}) <= MaxFilters
  /\ range' = NoRange
  /\ UNCHANGED <<kept, history, fetching, deletingRow, asking, untold>>

\* A chip is cleared, or all of them.
clearFilter ==
  /\ noDialog /\ ~noFilter
  /\ \/ \E k \in DOMAIN filter : updateFilters([filter EXCEPT ![k] = NoFilters[k]])
     \/ updateFilters(NoFilters)
  /\ UNCHANGED <<kept, history, fetching, deletingRow, asking, activeFilter,
                 range, untold>>

reportNext ==
  \/ ServerRuns \/ ServeReports \/ ServeDeletion
  \/ ReportsFetched \/ fetchReports \/ ReportDeleted \/ deleteReport
  \/ openFilter \/ chooseDates \/ closeFilter \/ clearFilter

-----------------------------------------------------------------------------
(***************************************************************************)
(* Properties.                                                             *)
(***************************************************************************)

\* The table shows the reports the server has, if the page was told of them,
\* that pass every filter a chip is shown for; a range of dates that only
\* has an end is the exception.  Chips are hidden only when none filters.
Within(day, d) == day = NoDay \/ d.start = NoDay \/ day \in d.start .. d.end
Passes(r, f) ==
  /\ \A k \in {"deviceInfo", "deviceFirmware"} :
       f[k] = AnyText \/ Shape[r][k] \in Part[f[k]]
  /\ f.results = {} \/ getTestResult(Shape[r]) \in f.results
  /\ Within(Shape[r].started, f.dateRange)

ReportsAgree ==
  /\ \A r \in Reports \ untold :
       r \in filteredData <=> r \in kept /\ Passes(r, filter)
  /\ noFilter => filter = NoFilters
=============================================================================
