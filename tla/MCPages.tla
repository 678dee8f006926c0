------------------------------ MODULE MCPages ------------------------------
(***************************************************************************)
(* The pages of the user interface for TLC, on small instances of each.    *)
(***************************************************************************)
EXTENDS UiPages

\* A certificate may have the name of a file as its common name.
MCCommonName == [f \in Files |-> IF f = "f1" THEN "n1" ELSE f]
MCDefects == [f \in Files |-> {}]

\* Two runs: one on the day before and of more than an hour, one today.
MCShape ==
  [r \in Reports |->
     IF r = "r1"
     THEN [deviceInfo |-> "ab", deviceFirmware |-> "a",
           test_pack |-> "Device Qualification", status |-> COMPLETE,
           result |-> COMPLIANT, started |-> 1, minutes |-> 61]
     ELSE [deviceInfo |-> "a", deviceFirmware |-> "ab",
           test_pack |-> "Pilot Assessment", status |-> PROCEED,
           result |-> "", started |-> 2, minutes |-> 5]]
MCPart == [t \in Texts |-> IF t = "a" THEN {"a", "ab"} ELSE {"ab"}]

\* Only the device port is configured, or both are.
MCConfigurations ==
  {[EmptyConfig EXCEPT !.device_intf = "p1"],
   [EmptyConfig EXCEPT !.device_intf = "p1", !.internet_intf = "p2"]}

\* An address in both cases, and a device that lacks an answer: a second one
\* comes to the list when it is added.
MCLower == [m \in Macs |-> IF m = "A" THEN "a" ELSE m]
MCRepositories == {{[mac |-> "a", answer |-> ""]}}

\* The name of a copy that is as long as it may be is that of its own copy.
MCCopyName == [n \in ProfileNames |-> "copy"]
MCStoredProfiles == {{[name |-> "n", status |-> "Draft", answer |-> "x"]}}

\* A device that names one of the modules, one that names both, one of old.
MCOffered == <<"connection", "dns">>
MCKnows == [d \in Fleet |-> IF d = "d1" THEN {"connection"}
                      ELSE IF d = "d2" THEN {"connection", "dns"} ELSE {}]

\* Of the pages that are not shown, TLC tries one of the initial states; at
\* first a device has all of its modules enabled or none.
MCInit ==
  /\ page \in Pages
  /\ page # "certificates" => stored = {}
  /\ page # "reports" => kept = {} /\ history = {}
  /\ page # "settings" => config = [EmptyConfig EXCEPT !.device_intf = "p1"] /\ single_intf = FALSE
  /\ page # "initiate" => listModules = [d \in Fleet |-> {}]
  /\ page # "questions" => answers = [p \in Assessments |-> {}]
  /\ Init
  /\ \A d \in Fleet : enabledModules[d] \in {{}, Knows[d]}

\* Bounds: once the calls and events are used up nothing more is typed or
\* chosen in their forms, and what is due meets what was typed before. A
\* request meets one filter of the reports, a second one none.
MCNext ==
  /\ Next
  /\ calls = MaxCalls => ~typeDevice
  /\ savings = MaxSavings => ~typeProfile
  /\ events = MaxEvents => ~choose
  /\ (fetching' # Idle \/ deletingRow' # Idle) =>
       Cardinality({k \in DOMAIN filter' : filter'[k] # NoFilters[k]}) <= 1
MCSpec == MCInit /\ [][MCNext]_pageVars
=============================================================================
