---------------------------- MODULE RunContract ----------------------------
(***************************************************************************)
(* What a test run promises, without threads, modules or containers: each  *)
(* test of the pack is settled at most once and for good, and the run ends *)
(* either with a report, when every test is settled, or without one.       *)
(***************************************************************************)
CONSTANT Pack

VARIABLES
  settled,  \* the tests that have their final result
  outcome   \* "open", then "reported" or "abandoned"

cvars == <<settled, outcome>>

Init == settled = {} /\ outcome = "open"

\* Tests settle while there is no report; a stop settles tests even after the
\* run was given up.
Settle ==
  /\ outcome # "reported"
  /\ settled' \in SUBSET Pack /\ settled \subseteq settled'
  /\ UNCHANGED outcome

ReportRun ==
  /\ outcome = "open"
  /\ settled = Pack
  /\ outcome' = "reported"
  /\ UNCHANGED settled

Abandon ==
  /\ outcome = "open"
  /\ outcome' = "abandoned"
  /\ UNCHANGED settled

Next == Settle \/ ReportRun \/ Abandon

Spec == Init /\ [][Next]_cvars

\* The run ends.
FairSpec == Spec /\ WF_cvars(ReportRun \/ Abandon)
=============================================================================
