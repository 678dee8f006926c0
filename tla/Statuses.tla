------------------------------ MODULE Statuses ------------------------------
(***************************************************************************)
(* The enumerations of framework/python/src/common/statuses.py, by the     *)
(* text they have on the wire.  Every other module of the project speaks   *)
(* of statuses and results through these names.                            *)
(***************************************************************************)

\* class TestrunStatus: the status of the whole system.
IDLE               == "Idle"
STARTING           == "Starting"
WAITING_FOR_DEVICE == "Waiting for Device"
MONITORING         == "Monitoring"
IN_PROGRESS        == "In Progress"
CANCELLED          == "Cancelled"
STOPPING           == "Stopping"
VALIDATING         == "Validating Network"
COMPLETE           == "Complete"
PROCEED            == "Proceed"
DO_NOT_PROCEED     == "Do Not Proceed"

TestrunStatus ==
  {IDLE, STARTING, WAITING_FOR_DEVICE, MONITORING, IN_PROGRESS, CANCELLED,
   STOPPING, VALIDATING, COMPLETE, PROCEED, DO_NOT_PROCEED}

\* The outcome of a run that was not interrupted (test_pack.calculate_status).
OutcomeStatus == {COMPLETE, PROCEED, DO_NOT_PROCEED}

\* The statuses in which the API accepts a stop and refuses a start
\* (api.py start_testrun and stop_testrun name the same five).
RunningStatus ==
  {IN_PROGRESS, WAITING_FOR_DEVICE, MONITORING, VALIDATING, STARTING}

\* session.py STATUSES_COMPLETE: after one of these is published the session
\* stops publishing until the next start.
STATUSES_COMPLETE == {CANCELLED, COMPLETE, DO_NOT_PROCEED, PROCEED, IDLE}

\* class TestResult: the result of one test case.
TEST_IN_PROGRESS     == "In Progress"
COMPLIANT            == "Compliant"
NON_COMPLIANT        == "Non-Compliant"
ERROR                == "Error"
FEATURE_NOT_DETECTED == "Feature Not Detected"
INFORMATIONAL        == "Informational"
NOT_STARTED          == "Not Started"
DISABLED             == "Disabled"

\* The results that end a test, and those that only track it.
FinalResult == {COMPLIANT, NON_COMPLIANT, ERROR, FEATURE_NOT_DETECTED,
                INFORMATIONAL, DISABLED}
OpenResult  == {NOT_STARTED, TEST_IN_PROGRESS}
TestResult  == FinalResult \cup OpenResult

\* class TestrunResult: the overall verdict of a report, COMPLIANT or not.
TestrunResult == {COMPLIANT, NON_COMPLIANT}
=============================================================================
