---------------------------- MODULE RunLifecycle ----------------------------
(***************************************************************************)
(* The life of a session as a user understands it, by its status alone: a  *)
(* run starts, waits for the device, monitors it, tests it and ends, and   *)
(* ends at once when the device fails; only a new start leaves an ending.  *)
(***************************************************************************)
EXTENDS Statuses

VARIABLE status

Init == status = IDLE

\* From a status to the statuses that may follow it.
Follows ==
  [s \in TestrunStatus |->
     CASE s = STARTING           -> {VALIDATING, WAITING_FOR_DEVICE}
       [] s = VALIDATING         -> {WAITING_FOR_DEVICE}
       [] s = WAITING_FOR_DEVICE -> {MONITORING, CANCELLED}
       [] s = MONITORING         -> {IN_PROGRESS, CANCELLED}
       [] s = IN_PROGRESS        -> OutcomeStatus \cup {CANCELLED}
       [] OTHER                  -> {IDLE, STARTING}]

Next == status' \in Follows[status]

Spec == Init /\ [][Next]_status

\* Monitoring and validating end by themselves.
FairSpec ==
  /\ Spec
  /\ WF_status(status \in {MONITORING, VALIDATING} /\ Next)
=============================================================================
