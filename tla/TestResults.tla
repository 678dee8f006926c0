---------------------------- MODULE TestResults ----------------------------
(***************************************************************************)
(* The list of test results a session keeps (session.py, _results) and     *)
(* what the test packs compute from it.                                    *)
(*                                                                         *)
(* _results is a list of TestCase objects.  Nothing depends on how entries *)
(* of different names are interleaved, so the list is the function from a  *)
(* test name to the sequence of results of the entries that carry it.  A   *)
(* name has several entries once set_test_result_error has appended one.   *)
(***************************************************************************)
EXTENDS Statuses, Naturals, Sequences

CONSTANTS
  Tests,      \* the names of the test cases of the enabled modules
  Pack,       \* those the device's test pack names
  Level,      \* the pack's required_result of each of them
  PilotPack,  \* TRUE for the pilot pack, FALSE for the qualification pack
  Gate        \* the tests the pilot pack's status depends on

RequiredLevel ==
  {"Required", "Required if Applicable", "Recommended", "Roadmap",
   "Informational"}

ASSUME PackAssumption ==
  /\ Pack \subseteq Tests
  /\ Level \in [Pack -> RequiredLevel]
  /\ PilotPack \in BOOLEAN
  /\ Gate \subseteq Tests

Results == [Tests -> Seq(TestResult)]
NoResults == [t \in Tests |-> <<>>]

\* The required_result of the i-th entry named t.  Only the entry that
\* run_test_modules creates takes it from the pack; every other TestCase keeps
\* the default of the dataclass.
LevelOf(t, i) ==
  IF i = 1 /\ t \in Pack THEN Level[t] ELSE "Recommended"

\* What an entry of required_result l stores when it is given the result r.
Stored(l, r) ==
  IF l = "Informational" /\ r \in {COMPLIANT, NON_COMPLIANT, INFORMATIONAL}
  THEN INFORMATIONAL ELSE r

\* session.add_test_result: every entry of that name takes the result, and the
\* TestCase itself becomes the entry when there is none.
AddEntry(rs, t, r) ==
  IF rs[t] = <<>>
  THEN <<r>>
  ELSE [i \in 1 .. Len(rs[t]) |-> Stored(LevelOf(t, i), r)]

AddTestResult(rs, t, r) == [rs EXCEPT ![t] = AddEntry(rs, t, r)]

\* One add_test_result for each test of ts, r giving the result of each.
AddTestResults(rs, ts, r) ==
  [t \in Tests |-> IF t \in ts THEN AddEntry(rs, t, r[t]) ELSE rs[t]]

\* session.set_test_result_error for each test of ts: an entry more, always.
SetTestResultErrors(rs, ts) ==
  [t \in Tests |-> IF t \in ts THEN Append(rs[t], ERROR) ELSE rs[t]]

\* session.finish: what is in progress did not end and becomes an error.
Finish(rs) ==
  [t \in Tests |->
     [i \in 1 .. Len(rs[t]) |->
        IF rs[t][i] = TEST_IN_PROGRESS THEN ERROR ELSE rs[t][i]]]

\* test_pack.calculate_result, the same text in both packs.
Fails(l, r) ==
  \/ l = "Required" /\ r \notin {COMPLIANT, ERROR}
  \/ l = "Required if Applicable" /\ r = NON_COMPLIANT

CalculateResult(rs) ==
  IF \E t \in Tests : \E i \in DOMAIN rs[t] : Fails(LevelOf(t, i), rs[t][i])
  THEN NON_COMPLIANT ELSE COMPLIANT

\* test_pack.calculate_status: the qualification pack only ever completes,
\* the pilot pack looks at the tests of Gate.
CalculateStatus(rs) ==
  IF ~PilotPack THEN COMPLETE
  ELSE IF \E t \in Gate : \E i \in DOMAIN rs[t] : rs[t][i] # COMPLIANT
       THEN DO_NOT_PROCEED ELSE PROCEED
=============================================================================
