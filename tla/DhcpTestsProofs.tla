-------------------------- MODULE DhcpTestsProofs --------------------------
(***************************************************************************)
(* Theorems about DhcpTests, for any tests, in any order, any ranges and   *)
(* any number of failing calls.                                            *)
(***************************************************************************)
EXTENDS DhcpTests, FiniteSetTheorems, TLAPS

-----------------------------------------------------------------------------
(***************************************************************************)
(* Types.                                                                  *)
(***************************************************************************)

\* What an edit makes of a configuration is one, and none is the empty file.
LEMMA EditedConfigs ==
  ASSUME NEW c \in Configs
  PROVE  /\ \A b \in BOOLEAN : [c EXCEPT !.failover = b] \in Configs
         /\ \A n \in Nat : [c EXCEPT !.reserved = n] \in Configs
         /\ \A r \in Ranges : SetRange(c, r) \in Configs
         /\ c.reserved \in Nat /\ c.range \in Ranges
BY DEF Configs, SetRange

LEMMA PristineConfig == Pristine \in Configs
BY DEF Pristine, Configs, Ranges

LEMMA InitTypes == Init => TypeOK
<1> SUFFICES ASSUME Init PROVE TypeOK
  OBVIOUS
<1>1. Cardinality({}) = 0
  BY FS_EmptySet
<1>2. Len(Tests) \in Nat /\ Len(TestRanges) \in Nat
  BY DhcpAssumption
<1>3. failed \subseteq CallSteps /\ Cardinality(failed) <= MaxFailed
  BY <1>1, DhcpAssumption DEF Init
<1>4. test \in 1 .. Len(Tests) + 1 /\ subnet \in 1 .. Len(TestRanges) + 1
  BY <1>2 DEF Init
<1>5. step \in Steps /\ curRange \in Ranges /\ listed \subseteq Servers
  BY DEF Init, Steps, Ranges
<1> QED
  BY <1>3, <1>4, <1>5, PristineConfig DEF Init, TypeOK

\* The test stays, or the next one begins.
LEMMA GotoTypes ==
  ASSUME test \in 1 .. Len(Tests) + 1, test <= Len(Tests),
         NEW s \in Steps \cup {"end"}, Goto(s)
  PROVE  test' \in 1 .. Len(Tests) + 1 /\ step' \in Steps
<1>1. Len(Tests) \in Nat
  BY DhcpAssumption
<1>2. "begin" \in Steps
  BY DEF Steps
<1> QED
  BY <1>1, <1>2 DEF Goto

\* A call is counted among the failed ones, within their bound.
LEMMA TriedTypes ==
  ASSUME TypeOK, step \in CallSteps, NEW c, Tried(c)
  PROVE  failed' \subseteq CallSteps /\ Cardinality(failed') <= MaxFailed
BY DEF TypeOK, Tried

\* An edit keeps the types of the configuration and its file.
LEMMA EditTypes ==
  ASSUME TypeOK, ~writing, NEW c \in Calls, NEW config \in Configs,
         Edit(c, config)
  PROVE  /\ memory' \in Configs /\ file' \in Configs \cup {Nothing}
         /\ writing' \in BOOLEAN /\ (writing' => file' = Nothing)
<1>1. memory \in Configs /\ file \in Configs \cup {Nothing}
  BY DEF TypeOK
<1>2. memory' \in Configs /\ file' \in Configs \cup {Nothing}
  BY <1>1 DEF Edit, confVars
<1>3. \/ writing' = TRUE /\ file' = Nothing
      \/ writing' = writing
  BY DEF Edit, confVars
<1>4. writing = FALSE
  BY DEF TypeOK
<1> QED
  BY <1>2, <1>3, <1>4

LEMMA SetInterfaceTypes ==
  ASSUME TypeOK, NEW s \in CallSteps, NEW up \in BOOLEAN, NEW next \in Steps,
         SetInterface(s, up, next)
  PROVE  TypeOK'
<1>1. step \in CallSteps /\ test <= Len(Tests)
  BY DEF SetInterface, At
<1>2. failed' \subseteq CallSteps /\ Cardinality(failed') <= MaxFailed
  BY <1>1, TriedTypes DEF SetInterface
<1>3. test' \in 1 .. Len(Tests) + 1 /\ step' \in Steps
  <2>1. PICK n \in Steps \cup {"end"} : Goto(n)
    BY DEF SetInterface, GiveUp, CleanUp, Steps, CallSteps, Edits
  <2> QED
    BY <1>1, <2>1, GotoTypes DEF TypeOK
<1>4. iface' \in BOOLEAN
  BY DEF SetInterface, TypeOK
<1> QED
  BY <1>2, <1>3, <1>4
  DEF SetInterface, TypeOK, confVars, loopVars, testVars

\* A test of subnets waits for a lease only in a range that it has.
SubnetInv == step = "in_subnet" => subnet <= Len(TestRanges)

LEMMA TypeNext == TypeOK /\ SubnetInv /\ [Next]_vars => TypeOK'
<1> SUFFICES ASSUME TypeOK, SubnetInv, [Next]_vars PROVE TypeOK'
  OBVIOUS
<1> USE DEF confVars, loopVars, netVars, testVars
<1>1. CASE WriteConfig
  BY <1>1 DEF WriteConfig, TypeOK
<1>2. CASE Loop
  <2>1. CASE NoticeChange
    BY <2>1 DEF NoticeChange, TypeOK
  <2>2. CASE StopDhcpd
    BY <2>2 DEF StopDhcpd, TypeOK
  <2>3. CASE StartDhcpd
    BY <2>3 DEF StartDhcpd, TypeOK
  <2> QED
    BY <1>2, <2>1, <2>2, <2>3 DEF Loop
<1>3. CASE DeviceLeases \/ LeaseExpires
  <2>1. listed' \subseteq Servers
    BY <1>3 DEF DeviceLeases, LeaseExpires, TypeOK
  <2>2. /\ UNCHANGED <<confVars, loopVars, serving, secondary, iface>>
        /\ UNCHANGED <<test, step, testVars, failed, cut>>
    BY <1>3 DEF DeviceLeases, LeaseExpires
  <2> QED
    BY <2>1, <2>2 DEF TypeOK
<1>4. CASE TestStep
  <2>1. CASE Begin
    <3>1. test' \in 1 .. Len(Tests) + 1 /\ step' \in Steps
      <4>1. PICK s \in Steps \cup {"end"} : Goto(s)
        BY <2>1 DEF Begin, Steps, CallSteps, Edits
      <4> QED
        BY <2>1, <4>1, GotoTypes DEF Begin, At, TypeOK
    <3>2. subnet' \in 1 .. Len(TestRanges) + 1
      BY <2>1, DhcpAssumption DEF Begin
    <3> QED
      BY <2>1, <3>1, <3>2 DEF Begin, UntouchedNet, TypeOK
  <2>2. CASE GetRange
    BY <2>2, GotoTypes, TriedTypes, EditTypes, EditedConfigs, DhcpAssumption
    DEF GetRange, TypeOK, At, Steps, CallSteps, Edits, UntouchedNet,
        UntouchedButConf
  <2>3. CASE StopSecondary
    BY <2>3, GotoTypes, TriedTypes, EditTypes, EditedConfigs, DhcpAssumption
    DEF StopSecondary, TypeOK, At, Steps, CallSteps, Edits, UntouchedNet,
        UntouchedButConf, GiveUp, CleanUp
  <2>4. CASE DisableFailover
    BY <2>4, GotoTypes, TriedTypes, EditTypes, EditedConfigs, DhcpAssumption
    DEF DisableFailover, TypeOK, At, Steps, CallSteps, Edits, UntouchedNet,
        UntouchedButConf, GiveUp, CleanUp
  <2>5. CASE CheckInterface
    BY <2>5, GotoTypes, TriedTypes, EditTypes, EditedConfigs, DhcpAssumption
    DEF CheckInterface, TypeOK, At, Steps, CallSteps, Edits, UntouchedNet,
        UntouchedButConf, GiveUp, CleanUp
  <2>6. CASE CheckServers
    BY <2>6, GotoTypes, TriedTypes, EditTypes, EditedConfigs, DhcpAssumption
    DEF CheckServers, TypeOK, At, Steps, CallSteps, Edits, UntouchedNet,
        UntouchedButConf
  <2>7. CASE LookUpLease
    <3>1. step \in CallSteps /\ test <= Len(Tests)
      BY <2>7 DEF LookUpLease, At, CallSteps
    <3>2. test' \in 1 .. Len(Tests) + 1 /\ step' \in Steps
      <4>1. PICK s \in Steps \cup {"end"} : Goto(s)
        BY <2>7 DEF LookUpLease, GiveUp, CleanUp, Steps, CallSteps, Edits
      <4> QED
        BY <3>1, <4>1, GotoTypes DEF TypeOK
    <3>3. failed' \subseteq CallSteps /\ Cardinality(failed') <= MaxFailed
      BY <2>7, <3>1, TriedTypes DEF LookUpLease, TypeOK
    <3>4. lease' \in Servers \cup {"none"}
      BY <2>7 DEF LookUpLease, Found, TypeOK
    <3>5. cut' \subseteq {"no_lease", "failover"}
      BY <2>7 DEF LookUpLease, CutBy, TypeOK
    <3>6. UntouchedNet /\ UNCHANGED <<subnet, curRange, reserved>>
      BY <2>7 DEF LookUpLease
    <3> QED
      BY <3>2, <3>3, <3>4, <3>5, <3>6 DEF UntouchedNet, TypeOK
  <2>8. CASE PingDevice
    BY <2>8, GotoTypes, TriedTypes, EditTypes, EditedConfigs, DhcpAssumption
    DEF PingDevice, TypeOK, At, Steps, CallSteps, Edits, UntouchedNet,
        UntouchedButConf, GiveUp, CleanUp
  <2>9. CASE TestSubnet
    <3>1. step = "subnet" /\ test <= Len(Tests) /\ ~writing
      BY <2>9 DEF TestSubnet, At
    <3>2. /\ subnet \in 1 .. Len(TestRanges)
          /\ UNCHANGED <<curRange, reserved, lease, cut>> /\ UntouchedButConf
      BY <2>9, DhcpAssumption DEF TestSubnet, TypeOK
    <3>3. subnet + 1 \in 1 .. Len(TestRanges) + 1
      BY <3>2, DhcpAssumption
    <3>4. test' = test /\ step' \in Steps /\ subnet' \in 1 .. Len(TestRanges) + 1
      BY <2>9, <3>2, <3>3 DEF TestSubnet, Goto, Steps, CallSteps, Edits
    <3>5. CASE UNCHANGED <<confVars, failed>>
      BY <3>2, <3>4, <3>5 DEF UntouchedButConf, TypeOK
    <3>6. CASE ~ UNCHANGED <<confVars, failed>>
      <4>1. PICK c \in Calls :
              Tried(c) /\ Edit(c, SetRange(memory, TestRanges[subnet]))
        BY <2>9, <3>6 DEF TestSubnet
      <4>2. TestRanges[subnet] \in Ranges
        BY <3>2, DhcpAssumption DEF Ranges
      <4>3. SetRange(memory, TestRanges[subnet]) \in Configs
        BY <4>2, EditedConfigs DEF TypeOK
      <4>4. /\ memory' \in Configs /\ file' \in Configs \cup {Nothing}
            /\ writing' \in BOOLEAN /\ (writing' => file' = Nothing)
        BY <3>1, <4>1, <4>3, EditTypes
      <4>5. failed' \subseteq CallSteps /\ Cardinality(failed') <= MaxFailed
        BY <3>1, <4>1, TriedTypes DEF CallSteps, Edits
      <4> QED
        BY <3>2, <3>4, <4>4, <4>5 DEF UntouchedButConf, TypeOK
    <3> QED
      BY <3>5, <3>6
  <2>10. CASE LeaseInSubnet
    <3>1. subnet + 1 \in 1 .. Len(TestRanges) + 1
      BY <2>10, DhcpAssumption DEF LeaseInSubnet, At, SubnetInv, TypeOK
    <3>2. test' = test /\ step' = "subnet" /\ subnet' = subnet + 1
      BY <2>10 DEF LeaseInSubnet, Goto
    <3> QED
      BY <2>10, <3>1, <3>2 DEF LeaseInSubnet, TypeOK, Steps, CallSteps, Edits
  <2>11. CASE SubnetsTested
    BY <2>11, GotoTypes, TriedTypes, EditTypes, EditedConfigs, DhcpAssumption
    DEF SubnetsTested, TypeOK, At, Steps, CallSteps, Edits, UntouchedNet,
        UntouchedButConf
  <2>12. CASE RestoreRange
    BY <2>12, GotoTypes, TriedTypes, EditTypes, EditedConfigs, DhcpAssumption
    DEF RestoreRange, TypeOK, At, Steps, CallSteps, Edits, UntouchedNet,
        UntouchedButConf
  <2>13. CASE AddReservedLease
    <3>1. PICK c \in Calls :
            /\ Tried(c) /\ Edit(c, [memory EXCEPT !.reserved = @ + 1])
            /\ reserved' = (c.reply = "ok")
            /\ Goto(IF Kind = "ip_change"
                    THEN IF c.reply = "ok" THEN "expire" ELSE "end"
                    ELSE IF c.reply = "raised" THEN CleanUp ELSE "iface_down")
      BY <2>13 DEF AddReservedLease
    <3>2. step = "reserve" /\ test <= Len(Tests) /\ ~writing
      BY <2>13 DEF AddReservedLease, At
    <3>3. [memory EXCEPT !.reserved = @ + 1] \in Configs
      <4>1. memory \in Configs /\ memory.reserved + 1 \in Nat
        BY EditedConfigs DEF TypeOK
      <4> QED
        BY <4>1, EditedConfigs
    <3>4. /\ memory' \in Configs /\ file' \in Configs \cup {Nothing}
          /\ writing' \in BOOLEAN /\ (writing' => file' = Nothing)
      BY <3>1, <3>2, <3>3, EditTypes
    <3>5. failed' \subseteq CallSteps /\ Cardinality(failed') <= MaxFailed
      BY <3>1, <3>2, TriedTypes DEF CallSteps, Edits
    <3>6. test' \in 1 .. Len(Tests) + 1 /\ step' \in Steps
      <4>1. PICK s \in Steps \cup {"end"} : Goto(s)
        BY <3>1 DEF CleanUp, Steps, CallSteps, Edits
      <4> QED
        BY <3>2, <4>1, GotoTypes DEF TypeOK
    <3>7. reserved' \in BOOLEAN
      BY <3>1
    <3>8. UntouchedButConf /\ UNCHANGED <<subnet, curRange, lease, cut>>
      BY <2>13 DEF AddReservedLease
    <3> QED
      BY <3>4, <3>5, <3>6, <3>7, <3>8 DEF UntouchedButConf, TypeOK
  <2>14. CASE SetIfaceDown
    <3>1. SetInterface("iface_down", FALSE, "expire")
      BY <2>14 DEF SetIfaceDown
    <3> QED
      BY <3>1, SetInterfaceTypes DEF Steps, CallSteps, Edits, CleanUp
  <2>15. CASE SetIfaceUp
    <3>1. SetInterface("iface_up", TRUE, IF Kind = "disconnect" THEN "new_lease" ELSE CleanUp)
      BY <2>15 DEF SetIfaceUp
    <3> QED
      BY <3>1, SetInterfaceTypes DEF Steps, CallSteps, Edits, CleanUp
  <2>16. CASE WaitForLeaseExpire
    BY <2>16, GotoTypes, TriedTypes, EditTypes, EditedConfigs, DhcpAssumption
    DEF WaitForLeaseExpire, TypeOK, At, Steps, CallSteps, Edits, UntouchedNet,
        UntouchedButConf, GiveUp, CleanUp
  <2>17. CASE DeleteReservedLease
    <3>1. PICK c \in Calls :
            /\ Tried(c) /\ Edit(c, [memory EXCEPT !.reserved = @ \div 2])
            /\ Goto(IF c.reply = "raised" THEN "end" ELSE "enable")
      BY <2>17 DEF DeleteReservedLease
    <3>2. step = "delete" /\ test <= Len(Tests) /\ ~writing
      BY <2>17 DEF DeleteReservedLease, At
    <3>3. [memory EXCEPT !.reserved = @ \div 2] \in Configs
      <4>1. memory.reserved \in Nat
        BY EditedConfigs DEF TypeOK
      <4>2. memory.reserved \div 2 \in Nat
        BY <4>1
      <4> QED
        BY <4>2, EditedConfigs DEF TypeOK
    <3>4. /\ memory' \in Configs /\ file' \in Configs \cup {Nothing}
          /\ writing' \in BOOLEAN /\ (writing' => file' = Nothing)
      BY <3>1, <3>2, <3>3, EditTypes
    <3>5. failed' \subseteq CallSteps /\ Cardinality(failed') <= MaxFailed
      BY <3>1, <3>2, TriedTypes DEF CallSteps, Edits
    <3>6. test' \in 1 .. Len(Tests) + 1 /\ step' \in Steps
      <4>1. PICK s \in Steps \cup {"end"} : Goto(s)
        BY <3>1 DEF Steps, CallSteps, Edits
      <4> QED
        BY <3>2, <4>1, GotoTypes DEF TypeOK
    <3>7. UntouchedButConf /\ UNCHANGED <<testVars, cut>>
      BY <2>17 DEF DeleteReservedLease
    <3> QED
      BY <3>4, <3>5, <3>6, <3>7 DEF UntouchedButConf, TypeOK
  <2>18. CASE EnableFailover
    <3>1. PICK c \in Calls :
            /\ Tried(c) /\ Edit(c, [memory EXCEPT !.failover = TRUE])
            /\ Goto(CASE c.reply = "ok"      -> "start_secondary"
                      [] c.reply = "refused" -> "settle"
                      [] OTHER               -> "end")
      BY <2>18 DEF EnableFailover
    <3>2. step = "enable" /\ test <= Len(Tests) /\ ~writing
      BY <2>18 DEF EnableFailover, At
    <3>3. [memory EXCEPT !.failover = TRUE] \in Configs
      BY EditedConfigs DEF TypeOK
    <3>4. /\ memory' \in Configs /\ file' \in Configs \cup {Nothing}
          /\ writing' \in BOOLEAN /\ (writing' => file' = Nothing)
      BY <3>1, <3>2, <3>3, EditTypes
    <3>5. failed' \subseteq CallSteps /\ Cardinality(failed') <= MaxFailed
      BY <3>1, <3>2, TriedTypes DEF CallSteps, Edits
    <3>6. test' \in 1 .. Len(Tests) + 1 /\ step' \in Steps
      <4>1. PICK s \in Steps \cup {"end"} : Goto(s)
        BY <3>1 DEF Steps, CallSteps, Edits
      <4> QED
        BY <3>2, <4>1, GotoTypes DEF TypeOK
    <3>7. UntouchedButConf /\ UNCHANGED <<testVars, cut>>
      BY <2>18 DEF EnableFailover
    <3> QED
      BY <3>4, <3>5, <3>6, <3>7 DEF UntouchedButConf, TypeOK
  <2>19. CASE StartSecondary
    BY <2>19, GotoTypes, TriedTypes, EditTypes, EditedConfigs, DhcpAssumption
    DEF StartSecondary, TypeOK, At, Steps, CallSteps, Edits, UntouchedNet,
        UntouchedButConf
  <2>20. CASE Settle
    BY <2>20, GotoTypes, TriedTypes, EditTypes, EditedConfigs, DhcpAssumption
    DEF Settle, TypeOK, At, Steps, CallSteps, Edits, UntouchedNet,
        UntouchedButConf
  <2>21. CASE StopPrimary
    BY <2>21, GotoTypes, TriedTypes, EditTypes, EditedConfigs, DhcpAssumption
    DEF StopPrimary, TypeOK, At, Steps, CallSteps, Edits, UntouchedNet,
        UntouchedButConf
  <2>22. CASE LookUpNewLease
    <3>1. step \in CallSteps /\ test <= Len(Tests)
      BY <2>22 DEF LookUpNewLease, At, CallSteps
    <3>2. test' \in 1 .. Len(Tests) + 1 /\ step' \in Steps
      <4>1. PICK s \in Steps \cup {"end"} : Goto(s)
        BY <2>22 DEF LookUpNewLease, Steps
      <4> QED
        BY <3>1, <4>1, GotoTypes DEF TypeOK
    <3>3. failed' \subseteq CallSteps /\ Cardinality(failed') <= MaxFailed
      BY <2>22, <3>1, TriedTypes DEF LookUpNewLease, TypeOK
    <3>4. lease' \in Servers \cup {"none"}
      BY <2>22 DEF LookUpNewLease, Found, TypeOK
    <3>5. UntouchedNet /\ UNCHANGED <<subnet, curRange, reserved, cut>>
      BY <2>22 DEF LookUpNewLease
    <3> QED
      BY <3>2, <3>3, <3>4, <3>5 DEF UntouchedNet, TypeOK
  <2>23. CASE Confirm
    BY <2>23, GotoTypes, TriedTypes, EditTypes, EditedConfigs, DhcpAssumption
    DEF Confirm, TypeOK, At, Steps, CallSteps, Edits, UntouchedNet,
        UntouchedButConf
  <2> QED
    BY <1>4, <2>1, <2>2, <2>3, <2>4, <2>5, <2>6, <2>7, <2>8, <2>9, <2>10,
       <2>11, <2>12, <2>13, <2>14, <2>15, <2>16, <2>17, <2>18, <2>19, <2>20,
       <2>21, <2>22, <2>23
    DEF TestStep
<1>5. CASE UNCHANGED vars
  BY <1>5 DEF TypeOK, vars
<1> QED
  BY <1>1, <1>2, <1>3, <1>4, <1>5 DEF Next

LEMMA SubnetNext == TypeOK /\ SubnetInv /\ [Next]_vars => SubnetInv'
<1> SUFFICES ASSUME TypeOK, SubnetInv, [Next]_vars PROVE SubnetInv'
  OBVIOUS
<1> USE DEF confVars, loopVars, netVars, testVars
<1>1. CASE WriteConfig \/ Loop \/ DeviceLeases \/ LeaseExpires \/ UNCHANGED vars
  BY <1>1 DEF WriteConfig, Loop, NoticeChange, StopDhcpd, StartDhcpd,
              DeviceLeases, LeaseExpires, vars, SubnetInv
<1>2. CASE TestSubnet
  BY <1>2 DEF TestSubnet, Goto, SubnetInv
<1>3. CASE \/ Begin \/ GetRange \/ StopSecondary \/ DisableFailover
           \/ CheckInterface \/ CheckServers \/ LookUpLease \/ PingDevice
  BY <1>3 DEF Begin, GetRange, StopSecondary, DisableFailover, CheckInterface,
              CheckServers, LookUpLease, PingDevice, Goto, GiveUp, CleanUp,
              SubnetInv
<1>4. CASE \/ LeaseInSubnet \/ SubnetsTested \/ RestoreRange
           \/ AddReservedLease \/ SetIfaceDown \/ SetIfaceUp
           \/ WaitForLeaseExpire
  BY <1>4 DEF LeaseInSubnet, SubnetsTested, RestoreRange, AddReservedLease,
              SetIfaceDown, SetIfaceUp, SetInterface, WaitForLeaseExpire, Goto,
              GiveUp, CleanUp, SubnetInv
<1>5. CASE \/ DeleteReservedLease \/ EnableFailover \/ StartSecondary
           \/ Settle \/ StopPrimary \/ LookUpNewLease \/ Confirm
  BY <1>5 DEF DeleteReservedLease, EnableFailover, StartSecondary, Settle,
              StopPrimary, LookUpNewLease, Confirm, Goto, SubnetInv
<1> QED
  BY <1>1, <1>2, <1>3, <1>4, <1>5 DEF Next, TestStep

\* Every variable keeps its type: no configuration is made that dhcpd could
\* not run, and no range is tried that the test does not have.
THEOREM DhcpTypeCorrect == Spec => []TypeOK
<1>1. Init => TypeOK /\ SubnetInv
  BY InitTypes DEF Init, SubnetInv
<1>2. TypeOK /\ SubnetInv /\ [Next]_vars => (TypeOK /\ SubnetInv)'
  BY TypeNext, SubnetNext
<1> QED
  BY <1>1, <1>2, PTL DEF Spec

-----------------------------------------------------------------------------
(***************************************************************************)
(* The failover is to the secondary.                                       *)
(***************************************************************************)

\* The test that is run is one of those kinds.
Runs(kinds) == ~TestsOver /\ Kind \in kinds

Reconfiguring == {"subnets", "ip_change", "disconnect_ip_change"}

\* What the tests go through that leave the servers alone or stop one.
FailoverSteps == {"begin", "status", "lease", "ping", "stop_primary", "expire",
                  "new_lease", "confirm"}
DisconnectSteps == {"begin", "iface", "lease", "ping", "iface_down", "expire",
                    "iface_up", "new_lease", "confirm"}
FlowInv ==
  /\ Runs({"failover"}) => step \in FailoverSteps
  /\ Runs({"disconnect"}) => step \in DisconnectSteps
  /\ Runs(Reconfiguring) => step \notin {"status", "stop_primary"}
  /\ step \in {"get_range", "stop_secondary"} => ~reserved

\* Between its stop and the restoring of failover the secondary is down.
AloneInv ==
  ~Interrupted /\ Runs(Reconfiguring)
    /\ step \in {"disable", "lease", "ping", "iface", "subnet", "in_subnet",
                 "restore_range", "reserve", "expire", "iface_down", "iface_up",
                 "delete"}
  => ~secondary

\* With both servers up no edit is under way, written or served, except where
\* a test restores the network and waits.
QuietInv ==
  ~Interrupted /\ secondary /\ step \notin {"start_secondary", "settle"}
  => Settled

\* The test of failover has a secondary, and the primary stays stopped.
PairInv ==
  Runs({"failover"}) /\ step \in FailoverSteps \ {"begin", "status"} => secondary
StoppedInv ==
  /\ ~Interrupted /\ Runs({"failover"})
  /\ step \in {"expire", "new_lease", "confirm"}
  => serving = Nothing

FailoverInv ==
  FlowInv /\ AloneInv /\ QuietInv /\ PairInv /\ StoppedInv /\ FailoverBySecondary

\* A failed call stays one, so that a test which was interrupted stays so.
LEMMA FailedGrows ==
  ASSUME NEW c \in Calls, Tried(c)
  PROVE  /\ Interrupted => Interrupted'
         /\ c.reply # "ok" => step \in failed'
         /\ c.reply = "ok" => failed' = failed
BY DEF Tried, Interrupted

\* Where a test reconfigures the primary the secondary is down.
LEMMA EditedAlone ==
  ASSUME TypeOK, FailoverInv, test <= Len(Tests), ~Interrupted,
         step \in {"disable", "subnet", "restore_range", "reserve", "delete"}
  PROVE  ~secondary /\ Runs(Reconfiguring)
<1>1. Kind \in TestKinds
  <2>1. test \in 1 .. Len(Tests) /\ Tests \in Seq(TestKinds)
    BY DhcpAssumption DEF TypeOK
  <2> QED
    BY <2>1 DEF Kind
<1>2. ~TestsOver
  BY DhcpAssumption DEF TestsOver, TypeOK
<1>3. Runs(Reconfiguring)
  BY <1>1, <1>2
  DEF FailoverInv, FlowInv, Runs, FailoverSteps, DisconnectSteps, TestKinds,
      Reconfiguring
<1> QED
  BY <1>3 DEF FailoverInv, AloneInv

LEMMA FailoverNext ==
  TypeOK /\ FailoverInv /\ [Next]_vars => FailoverInv'
<1> SUFFICES ASSUME TypeOK, FailoverInv, [Next]_vars PROVE FailoverInv'
  OBVIOUS
<1> USE DEF FailoverInv, FlowInv, AloneInv, QuietInv, PairInv, StoppedInv,
            FailoverBySecondary, Runs, TestsOver, Kind, Reconfiguring,
            FailoverSteps, DisconnectSteps,
            confVars, loopVars, netVars, testVars
<1>1. CASE WriteConfig \/ Loop
  BY <1>1
  DEF WriteConfig, Loop, NoticeChange, StopDhcpd, StartDhcpd, Settled,
      Interrupted
<1>2. CASE DeviceLeases \/ LeaseExpires \/ UNCHANGED vars
  BY <1>2 DEF DeviceLeases, LeaseExpires, vars, Settled, Interrupted
<1>3. CASE TestStep
  <2>1. CASE Begin
    BY <2>1, FailedGrows
    DEF Begin, At, Goto, Settled, UntouchedNet, UntouchedButConf, Interrupted,
        Edits
  <2>2. CASE GetRange
    BY <2>2, FailedGrows
    DEF GetRange, At, Goto, Settled, UntouchedNet, UntouchedButConf,
        Interrupted, Edits
  <2>3. CASE StopSecondary
    BY <2>3, FailedGrows
    DEF StopSecondary, At, Goto, Settled, UntouchedNet, UntouchedButConf,
        Interrupted, Edits, GiveUp, CleanUp, Calls
  <2>4. CASE DisableFailover
    <3>1. step = "disable" /\ test <= Len(Tests) /\ secondary' = secondary
      BY <2>4 DEF DisableFailover, At, UntouchedButConf
    <3>2. PICK c \in Calls :
            /\ Tried(c)
            /\ Goto(CASE c.reply = "ok" -> IF Kind = "disconnect_ip_change"
                                           THEN "iface" ELSE "lease"
                      [] c.reply = "refused" -> GiveUp
                      [] OTHER -> "end")
      BY <2>4 DEF DisableFailover
    <3>3. Interrupted' \/ ~secondary'
      BY <3>1, <3>2, FailedGrows, EditedAlone
    <3>4. serving' = serving /\ lease' = lease
      BY <2>4 DEF DisableFailover, UntouchedButConf
    <3> QED
      BY <3>1, <3>2, <3>3, <3>4, FailedGrows, EditedAlone
      DEF Goto, GiveUp, CleanUp, Interrupted, Edits
  <2>5. CASE CheckInterface
    BY <2>5, FailedGrows
    DEF CheckInterface, At, Goto, Settled, UntouchedNet, UntouchedButConf,
        Interrupted, Edits, GiveUp, CleanUp
  <2>6. CASE CheckServers
    <3>1. PICK c \in Calls :
            /\ Tried(c)
            /\ Goto(IF c.reply = "ok" /\ \A s \in Servers : Running(s)
                    THEN "lease" ELSE "end")
      BY <2>6 DEF CheckServers
    <3>2. /\ step = "status" /\ secondary' = secondary
          /\ serving' = serving /\ lease' = lease
          /\ UNCHANGED <<confVars, loopVars>> /\ Settled' = Settled
      BY <2>6 DEF CheckServers, At, UntouchedNet, Settled
    <3>3. CASE c.reply = "ok" /\ \A s \in Servers : Running(s)
      <4>1. step' = "lease" /\ test' = test
        BY <3>1, <3>3 DEF Goto
      <4>2. secondary
        BY <3>3 DEF Servers, Running
      <4> QED
        BY <3>1, <3>2, <4>1, <4>2, FailedGrows
    <3>4. CASE ~(c.reply = "ok" /\ \A s \in Servers : Running(s))
      <4>1. step' = "begin"
        BY <3>1, <3>4 DEF Goto
      <4> QED
        BY <3>1, <3>2, <4>1, FailedGrows
    <3> QED
      BY <3>3, <3>4
  <2>7. CASE LookUpLease
    BY <2>7, FailedGrows
    DEF LookUpLease, At, Goto, Settled, UntouchedNet, UntouchedButConf,
        Interrupted, Edits, GiveUp, CleanUp, Found
  <2>8. CASE PingDevice
    BY <2>8, FailedGrows
    DEF PingDevice, At, Goto, Settled, UntouchedNet, UntouchedButConf,
        Interrupted, Edits, GiveUp, CleanUp
  <2>9. CASE TestSubnet
    <3>1. /\ step = "subnet" /\ test <= Len(Tests)
          /\ secondary' = secondary /\ serving' = serving /\ lease' = lease
      BY <2>9 DEF TestSubnet, At, UntouchedButConf
    <3>2. test' = test /\ step' \in {"subnet", "in_subnet"}
      BY <2>9 DEF TestSubnet, Goto
    <3>3. failed' = failed \/ \E c \in Calls : Tried(c)
      BY <2>9 DEF TestSubnet
    <3>4. Interrupted => Interrupted'
      BY <3>3, FailedGrows DEF Interrupted
    <3> QED
      BY <3>1, <3>2, <3>4, EditedAlone
  <2>10. CASE LeaseInSubnet
    BY <2>10, FailedGrows
    DEF LeaseInSubnet, At, Goto, Settled, UntouchedNet, UntouchedButConf,
        Interrupted, Edits
  <2>11. CASE SubnetsTested
    BY <2>11, FailedGrows
    DEF SubnetsTested, At, Goto, Settled, UntouchedNet, UntouchedButConf,
        Interrupted, Edits
  <2>12. CASE RestoreRange
    <3>1. step = "restore_range" /\ test <= Len(Tests) /\ secondary' = secondary
      BY <2>12 DEF RestoreRange, At, UntouchedButConf
    <3>2. PICK c \in Calls :
            /\ Tried(c)
            /\ Goto(CASE c.reply = "ok"      -> "enable"
                      [] c.reply = "refused" -> "settle"
                      [] OTHER               -> "end")
      BY <2>12 DEF RestoreRange
    <3>3. Interrupted' \/ ~secondary'
      BY <3>1, <3>2, FailedGrows, EditedAlone
    <3>4. serving' = serving /\ lease' = lease
      BY <2>12 DEF RestoreRange, UntouchedButConf
    <3> QED
      BY <3>1, <3>2, <3>3, <3>4, FailedGrows, EditedAlone
      DEF Goto
  <2>13. CASE AddReservedLease
    <3>1. step = "reserve" /\ test <= Len(Tests) /\ secondary' = secondary
      BY <2>13 DEF AddReservedLease, At, UntouchedButConf
    <3>2. PICK c \in Calls :
            /\ Tried(c)
            /\ Goto(IF Kind = "ip_change"
                    THEN IF c.reply = "ok" THEN "expire" ELSE "end"
                    ELSE IF c.reply = "raised" THEN CleanUp ELSE "iface_down")
      BY <2>13 DEF AddReservedLease
    <3>3. Interrupted' \/ ~secondary'
      BY <3>1, <3>2, FailedGrows, EditedAlone
    <3>4. serving' = serving /\ lease' = lease
      BY <2>13 DEF AddReservedLease, UntouchedButConf
    <3> QED
      BY <3>1, <3>2, <3>3, <3>4, FailedGrows, EditedAlone
      DEF Goto, CleanUp
  <2>14. CASE SetIfaceDown
    BY <2>14, FailedGrows
    DEF SetIfaceDown, At, Goto, Settled, UntouchedNet, UntouchedButConf,
        Interrupted, Edits, GiveUp, CleanUp, SetInterface
  <2>15. CASE SetIfaceUp
    BY <2>15, FailedGrows
    DEF SetIfaceUp, At, Goto, Settled, UntouchedNet, UntouchedButConf,
        Interrupted, Edits, GiveUp, CleanUp, SetInterface
  <2>16. CASE WaitForLeaseExpire
    <3>1. /\ step = "expire" /\ Settled /\ Settled' = Settled
          /\ secondary' = secondary /\ serving' = serving /\ lease' = lease
          /\ test' = test /\ Interrupted' = Interrupted
      BY <2>16 DEF WaitForLeaseExpire, At, Settled, Goto, CleanUp, Interrupted
    <3>2. Goto(CASE Kind = "ip_change"  -> "delete"
                 [] Kind = "failover"   -> "new_lease"
                 [] Kind = "disconnect" -> "iface_up"
                 [] OTHER -> IF reserved THEN "iface_up" ELSE CleanUp)
      BY <2>16 DEF WaitForLeaseExpire
    <3>3. /\ Kind = "failover" => step' = "new_lease"
          /\ Kind = "disconnect" => step' = "iface_up"
          /\ step' \in {"delete", "new_lease", "iface_up", "enable"}
          /\ Kind \in Reconfiguring => step' # "new_lease"
      BY <3>2 DEF Goto, CleanUp
    <3> QED
      BY <3>1, <3>3
  <2>17. CASE DeleteReservedLease
    <3>1. step = "delete" /\ test <= Len(Tests) /\ secondary' = secondary
      BY <2>17 DEF DeleteReservedLease, At, UntouchedButConf
    <3>2. PICK c \in Calls :
            Tried(c) /\ Goto(IF c.reply = "raised" THEN "end" ELSE "enable")
      BY <2>17 DEF DeleteReservedLease
    <3>3. Interrupted' \/ ~secondary'
      BY <3>1, <3>2, FailedGrows, EditedAlone
    <3>4. serving' = serving /\ lease' = lease
      BY <2>17 DEF DeleteReservedLease, UntouchedButConf
    <3> QED
      BY <3>1, <3>2, <3>3, <3>4, FailedGrows, EditedAlone
      DEF Goto
  <2>18. CASE EnableFailover
    BY <2>18, FailedGrows
    DEF EnableFailover, At, Goto, Settled, UntouchedNet, UntouchedButConf,
        Interrupted, Edits, Edit
  <2>19. CASE StartSecondary
    BY <2>19, FailedGrows
    DEF StartSecondary, At, Goto, Settled, UntouchedNet, UntouchedButConf,
        Interrupted, Edits
  <2>20. CASE Settle
    BY <2>20, FailedGrows
    DEF Settle, At, Goto, Settled, UntouchedNet, UntouchedButConf, Interrupted,
        Edits
  <2>21. CASE StopPrimary
    <3>1. PICK c \in Calls :
            /\ Tried(c) /\ serving' = IF c.done THEN Nothing ELSE serving
            /\ Goto(IF c.reply = "ok" THEN "expire" ELSE "end")
      BY <2>21 DEF StopPrimary
    <3>2. /\ step = "stop_primary" /\ secondary' = secondary /\ lease' = lease
          /\ Settled' = Settled
      BY <2>21 DEF StopPrimary, At, Settled
    <3>3. CASE c.reply = "ok"
      <4>1. step' = "expire" /\ test' = test /\ serving' = Nothing
        BY <3>1, <3>3 DEF Goto, Calls
      <4> QED
        BY <3>1, <3>2, <4>1, FailedGrows
    <3>4. CASE c.reply # "ok"
      <4>1. step' = "begin"
        BY <3>1, <3>4 DEF Goto
      <4> QED
        BY <3>1, <3>2, <4>1, FailedGrows
    <3> QED
      BY <3>3, <3>4
  <2>22. CASE LookUpNewLease
    <3>1. /\ step = "new_lease" /\ test <= Len(Tests)
          /\ secondary' = secondary /\ serving' = serving /\ Settled' = Settled
      BY <2>22 DEF LookUpNewLease, At, UntouchedNet, Settled
    <3>2. CASE Found(lease') /\ lease' # "none" /\ Goto("confirm") /\ failed' = failed
      <4>1. step' = "confirm" /\ test' = test /\ Interrupted' = Interrupted
        BY <3>2 DEF Goto, Interrupted
      <4>2. ~TestsOver /\ test \in 1 .. Len(Tests)
        BY <3>1, DhcpAssumption DEF TypeOK
      <4>3. Kind = "failover" /\ ~Interrupted => serving = Nothing
        BY <3>1, <4>2
      <4>4. Kind = "failover" /\ ~Interrupted => lease' = "secondary"
        BY <3>2, <4>3 DEF Found, Running, Servers
      <4> QED
        BY <3>1, <4>1, <4>2, <4>4
    <3>3. CASE Goto("end") /\ (Interrupted => Interrupted')
      <4>1. step' = "begin"
        BY <3>3 DEF Goto
      <4> QED
        BY <3>1, <3>3, <4>1
    <3> QED
      BY <2>22, <3>2, <3>3, FailedGrows DEF LookUpNewLease, Interrupted
  <2>23. CASE Confirm
    BY <2>23, FailedGrows
    DEF Confirm, At, Goto, Settled, UntouchedNet, UntouchedButConf,
        Interrupted, Edits
  <2> QED
    BY <1>3, <2>1, <2>2, <2>3, <2>4, <2>5, <2>6, <2>7, <2>8, <2>9, <2>10,
       <2>11, <2>12, <2>13, <2>14, <2>15, <2>16, <2>17, <2>18, <2>19, <2>20,
       <2>21, <2>22, <2>23
    DEF TestStep
<1> QED
  BY <1>1, <1>2, <1>3 DEF Next

\* What the test of failover confirms is a lease of the secondary, whatever
\* was restarted, refused or lost before, unless an edit or the restart of the
\* secondary failed.
THEOREM FailoversBySecondary == Spec => []FailoverBySecondary
<1>1. Init => FailoverInv
  BY DEF Init, FailoverInv, FlowInv, AloneInv, QuietInv, PairInv, StoppedInv,
         FailoverBySecondary, Runs, FailoverSteps, DisconnectSteps, Settled
<1>2. FailoverInv => FailoverBySecondary
  BY DEF FailoverInv
<1> QED
  BY <1>1, <1>2, DhcpTypeCorrect, FailoverNext, PTL DEF Spec

-----------------------------------------------------------------------------
(***************************************************************************)
(* What a test waits for is served.                                        *)
(*                                                                         *)
(* The other process restarts dhcpd for what it has not read before, so a  *)
(* configuration is missed when it is, by the time it is read, the one     *)
(* read last, and another was served meanwhile.  Each edit of a test makes *)
(* a configuration that differs from all that may have been read last, or  *)
(* is made while that one is served; the two that need not are followed by *)
(* one that does.                                                          *)
(***************************************************************************)

\* The steps that follow in the test that runs, if no edit of it fails.
CleanUps == IF Kind = "disconnect_ip_change" THEN {CleanUp} ELSE {}
After ==
  CASE step = "begin" ->
         IF Kind = "subnets" THEN {"get_range"}
         ELSE IF Kind = "disconnect" THEN {"iface"}
         ELSE IF Kind = "failover" THEN {"status"} ELSE {"stop_secondary"}
    [] step = "get_range"      -> {"stop_secondary"}
    [] step = "stop_secondary" -> {"disable"} \cup CleanUps
    [] step = "disable"        -> {"iface", "lease"}
    [] step = "iface"          -> {"lease"} \cup CleanUps
    [] step = "status"         -> {"lease"}
    [] step = "lease" ->
         CleanUps \cup (IF Kind = "ip_change" THEN {"reserve"} ELSE {"ping"})
    [] step = "ping" ->
         CleanUps \cup
         (IF Kind = "subnets" THEN {"subnet", "restore_range"}
          ELSE IF Kind = "disconnect" THEN {"iface_down"}
          ELSE IF Kind = "failover" THEN {"stop_primary"} ELSE {"reserve"})
    [] step = "subnet"        -> {"subnet", "in_subnet", "restore_range"}
    [] step = "in_subnet"     -> {"subnet"}
    [] step = "restore_range" -> {"enable"}
    [] step = "reserve"       -> IF Kind = "ip_change" THEN {"expire"}
                                                       ELSE {"iface_down"}
    [] step = "iface_down"    -> {"expire"} \cup CleanUps
    [] step = "iface_up"      -> IF Kind = "disconnect" THEN {"new_lease"}
                                                        ELSE {CleanUp}
    [] step = "expire" ->
         IF Kind = "ip_change" THEN {"delete"}
         ELSE IF Kind = "failover" THEN {"new_lease"}
         ELSE IF Kind = "disconnect" THEN {"iface_up"}
         ELSE {IF reserved THEN "iface_up" ELSE CleanUp}
    [] step = "delete"          -> {"enable"}
    [] step = "enable"          -> {"start_secondary"}
    [] step = "start_secondary" -> {"settle"}
    [] step = "stop_primary"    -> {"expire"}
    [] step = "new_lease"       -> {"confirm"}
    [] OTHER                    -> {}

\* The steps a test may end at that way.  One of them has a handler.
Ends ==
  {"begin", "get_range", "stop_secondary", "status", "stop_primary",
   "new_lease", "confirm", "settle"}
  \cup (IF Kind = "disconnect_ip_change" THEN {}
        ELSE {"iface", "lease", "ping", "iface_down", "iface_up"})

Flows == \/ step \in Ends /\ step' = "begin"
         \/ step' \in After /\ test' = test

\* What a step of a test does to the servers and keeps in mind, if no edit
\* fails.
MakesEdit ==
  /\ ~writing /\ file' = Nothing /\ writing' = TRUE
  /\ memory' = CASE step = "disable" -> [memory EXCEPT !.failover = FALSE]
                 [] step = "subnet"  -> SetRange(memory, TestRanges[subnet])
                 [] step = "restore_range" -> SetRange(memory, curRange)
                 [] step = "reserve" -> [memory EXCEPT !.reserved = @ + 1]
                 [] step = "delete"  -> [memory EXCEPT !.reserved = @ \div 2]
                 [] OTHER            -> [memory EXCEPT !.failover = TRUE]
  /\ step = "disable" => restart = "none"
  /\ step = "subnet" => subnet \in DOMAIN TestRanges /\ step' = "in_subnet"
  /\ serving' = serving
Does ==
  /\ UNCHANGED loopVars
  /\ serving' = serving \/ "failover" \in cut'
  /\ curRange' = IF step = "get_range" /\ step' # "begin" THEN memory.range
                                                          ELSE curRange
  /\ step \notin {"begin", "reserve"} => reserved' = reserved
  /\ step = "reserve" => reserved'
  /\ step \in {"in_subnet", "expire", "settle"} => Settled
  /\ \/ MakesEdit /\ step \in Edits
     \/ UNCHANGED confVars
        /\ (step \in Edits => step = "subnet" /\ step' # "in_subnet")

\* An edit that fails interrupts its test, and it stays interrupted.
LEMMA EditsDone ==
  ASSUME NEW c \in Calls, Tried(c), ~Interrupted',
         step \in Edits \cup {"start_secondary"}
  PROVE  c.reply = "ok" /\ c.done
<1>1. c.reply = "ok"
  BY FailedGrows DEF Interrupted
<1> QED
  BY <1>1 DEF Calls

LEMMA InterruptedStays ==
  ASSUME [Next]_vars, Interrupted
  PROVE  Interrupted'
<1>1. failed' = failed \/ \E c \in Calls : Tried(c)
  <2>1. CASE ~TestStep
    BY <2>1
    DEF Next, WriteConfig, Loop, NoticeChange, StopDhcpd, StartDhcpd,
        DeviceLeases, LeaseExpires, vars
  <2>2. CASE TestStep
    BY <2>2
    DEF TestStep, Begin, GetRange, StopSecondary, DisableFailover,
        CheckInterface, CheckServers, LookUpLease, PingDevice, TestSubnet,
        LeaseInSubnet, SubnetsTested, RestoreRange, AddReservedLease,
        SetIfaceDown, SetIfaceUp, SetInterface, WaitForLeaseExpire,
        DeleteReservedLease, EnableFailover, StartSecondary, Settle,
        StopPrimary, LookUpNewLease, Confirm
  <2> QED
    BY <2>1, <2>2
<1> QED
  BY <1>1, FailedGrows DEF Interrupted

\* A test that does a step is one of them, and no file is being written then.
LEMMA TestRuns ==
  ASSUME TypeOK, TestStep
  PROVE  ~TestsOver /\ Kind \in TestKinds /\ ~writing
<1>1. At(step)
  BY DEF TestStep, At, Begin, GetRange, StopSecondary, DisableFailover,
        CheckInterface, CheckServers, LookUpLease, PingDevice, TestSubnet,
        LeaseInSubnet, SubnetsTested, RestoreRange, AddReservedLease,
        SetIfaceDown, SetIfaceUp, SetInterface, WaitForLeaseExpire,
        DeleteReservedLease, EnableFailover, StartSecondary, Settle,
        StopPrimary, LookUpNewLease, Confirm
<1>2. test \in 1 .. Len(Tests) /\ Tests \in Seq(TestKinds)
  BY <1>1, DhcpAssumption DEF TypeOK, At
<1> QED
  BY <1>1, <1>2 DEF Kind, At, TestsOver

\* The tests go as the table says.
LEMMA TestFlow ==
  ASSUME TypeOK, FailoverInv, TestStep, ~Interrupted'
  PROVE  Flows
<1> USE DEF After, Ends, Flows, At, Goto, GiveUp, CleanUps, CleanUp
<1>0. Kind \in TestKinds
  BY TestRuns
<1>1. CASE Begin
  BY <1>0, <1>1 DEF Begin, TestKinds
<1>2. CASE GetRange
  BY <1>0, <1>2 DEF GetRange
<1>3. CASE StopSecondary
  BY <1>0, <1>3 DEF StopSecondary, TestKinds
<1>4. CASE DisableFailover
  BY <1>0, <1>4, EditsDone DEF DisableFailover, Edits
<1>5. CASE CheckInterface
  BY <1>0, <1>5 DEF CheckInterface, TestKinds
<1>6. CASE CheckServers
  BY <1>0, <1>6 DEF CheckServers
<1>7. CASE LookUpLease
  BY <1>0, <1>7 DEF LookUpLease, TestKinds
<1>8. CASE PingDevice
  BY <1>0, <1>8 DEF PingDevice, TestKinds
<1>9. CASE TestSubnet
  BY <1>0, <1>9, EditsDone DEF TestSubnet, Edits
<1>10. CASE LeaseInSubnet
  BY <1>0, <1>10 DEF LeaseInSubnet
<1>11. CASE SubnetsTested
  BY <1>0, <1>11 DEF SubnetsTested
<1>12. CASE RestoreRange
  BY <1>0, <1>12, EditsDone DEF RestoreRange, Edits
<1>13. CASE AddReservedLease
  BY <1>0, <1>13, EditsDone DEF AddReservedLease, Edits
<1>14. CASE SetIfaceDown
  BY <1>0, <1>14 DEF SetIfaceDown, SetInterface, TestKinds
<1>15. CASE SetIfaceUp
  BY <1>0, <1>15 DEF SetIfaceUp, SetInterface, TestKinds
<1>16. CASE WaitForLeaseExpire
  BY <1>0, <1>16 DEF WaitForLeaseExpire, TestKinds
<1>17. CASE DeleteReservedLease
  BY <1>0, <1>17, EditsDone DEF DeleteReservedLease, Edits
<1>18. CASE EnableFailover
  BY <1>0, <1>18, EditsDone DEF EnableFailover, Edits
<1>19. CASE StartSecondary
  BY <1>0, <1>19, EditsDone DEF StartSecondary, Edits
<1>20. CASE Settle
  BY <1>0, <1>20 DEF Settle
<1>21. CASE StopPrimary
  BY <1>0, <1>21 DEF StopPrimary
<1>22. CASE LookUpNewLease
  BY <1>0, <1>22 DEF LookUpNewLease
<1>23. CASE Confirm
  BY <1>0, <1>23 DEF Confirm
<1> QED
  BY <1>1, <1>2, <1>3, <1>4, <1>5, <1>6, <1>7, <1>8, <1>9, <1>10, <1>11,
     <1>12, <1>13, <1>14, <1>15, <1>16, <1>17, <1>18, <1>19, <1>20, <1>21,
     <1>22, <1>23
  DEF TestStep

LEMMA TestDoes ==
  ASSUME TypeOK, SubnetInv, TestStep, ~Interrupted'
  PROVE  Does
<1> USE DEF Does, At, Goto, UntouchedNet, UntouchedButConf, confVars, loopVars,
            netVars, testVars
<1>1. CASE Begin
  BY <1>1
  DEF Begin, Edits
<1>2. CASE GetRange
  BY <1>2
  DEF GetRange, Edits
<1>3. CASE StopSecondary
  BY <1>3
  DEF StopSecondary, Edits
<1>4. CASE DisableFailover
  BY <1>4, EditsDone
  DEF DisableFailover, MakesEdit, Edit, Edits
<1>5. CASE CheckInterface
  BY <1>5
  DEF CheckInterface, Edits
<1>6. CASE CheckServers
  BY <1>6
  DEF CheckServers, Edits
<1>7. CASE LookUpLease
  BY <1>7
  DEF LookUpLease, Edits
<1>8. CASE PingDevice
  BY <1>8
  DEF PingDevice, Edits
<1>9. CASE TestSubnet
  BY <1>9, EditsDone, DhcpAssumption
  DEF TestSubnet, MakesEdit, Edit, Edits, SetRange, TypeOK
<1>10. CASE LeaseInSubnet
  BY <1>10
  DEF LeaseInSubnet, Edits
<1>11. CASE SubnetsTested
  BY <1>11
  DEF SubnetsTested, Edits
<1>12. CASE RestoreRange
  BY <1>12, EditsDone
  DEF RestoreRange, MakesEdit, Edit, Edits, SetRange
<1>13. CASE AddReservedLease
  BY <1>13, EditsDone
  DEF AddReservedLease, MakesEdit, Edit, Edits
<1>14. CASE SetIfaceDown
  BY <1>14
  DEF SetIfaceDown, SetInterface, Edits
<1>15. CASE SetIfaceUp
  BY <1>15
  DEF SetIfaceUp, SetInterface, Edits
<1>16. CASE WaitForLeaseExpire
  BY <1>16
  DEF WaitForLeaseExpire, Edits
<1>17. CASE DeleteReservedLease
  BY <1>17, EditsDone
  DEF DeleteReservedLease, MakesEdit, Edit, Edits
<1>18. CASE EnableFailover
  BY <1>18, EditsDone
  DEF EnableFailover, MakesEdit, Edit, Edits
<1>19. CASE StartSecondary
  BY <1>19, EditsDone
  DEF StartSecondary, Edits
<1>20. CASE Settle
  BY <1>20
  DEF Settle, Edits
<1>21. CASE StopPrimary
  BY <1>21
  DEF StopPrimary, Edits
<1>22. CASE LookUpNewLease
  BY <1>22
  DEF LookUpNewLease, Edits
<1>23. CASE Confirm
  BY <1>23
  DEF Confirm, Edits
<1> QED
  BY <1>1, <1>2, <1>3, <1>4, <1>5, <1>6, <1>7, <1>8, <1>9, <1>10, <1>11,
     <1>12, <1>13, <1>14, <1>15, <1>16, <1>17, <1>18, <1>19, <1>20, <1>21,
     <1>22, <1>23
  DEF TestStep

\* A written file is that of the service.  Failover is on only where all has
\* been read and served, or a test restores it and waits.
MemoryInv ==
  /\ ~writing => file = memory
  /\ memory.failover /\ step \notin {"start_secondary", "settle"} => Settled

\* A test edits nothing before it has disabled failover.
DisabledInv ==
  Runs(Reconfiguring)
    /\ step \in {"lease", "ping", "iface", "subnet", "in_subnet",
                 "restore_range", "reserve", "expire", "iface_down", "iface_up",
                 "delete"}
  => ~memory.failover

\* The range is another one only while the test of subnets has one on trial.
\* Between two of them the last has been read.
OnTrial == {"subnet", "in_subnet", "restore_range"}
Restoring == {"enable", "start_secondary", "settle"}
RangeInv ==
  /\ curRange = Original
  /\ memory.range # Original => step \in OnTrial
  /\ known.range \notin {Original, "none"} => step \in OnTrial \cup Restoring
  /\ step = "subnet" => \/ Settled
                        \/ /\ memory.range = Original
                           /\ known.range \in {Original, "none"}

\* So with the reservation: there is one while a test has it, and is to
\* delete it.
Reserving ==
  \/ Runs({"ip_change"}) /\ step \in {"expire", "delete"}
  \/ /\ Runs({"disconnect_ip_change"})
     /\ step \in {"iface_down", "expire", "iface_up", "delete"}
ReservedInv ==
  /\ memory.reserved # 0 => memory.reserved = 1 /\ reserved /\ Reserving
  /\ known.reserved # 0 =>
       \/ Reserving
       \/ Runs({"ip_change", "disconnect_ip_change"}) /\ step \in Restoring
  /\ step = "reserve" => Runs({"ip_change", "disconnect_ip_change"})

\* With failover off, what was read before that is no longer what was read
\* last, or dhcpd serves it.
KnownInv ==
  ~memory.failover => \/ restart = "none" /\ serving = known
                      \/ ~known.failover

\* What dhcpd does not serve will be read as new.  During a restart the file
\* is served that there is by then, unless it is half written: then what is
\* written will be new.
Due == IF writing THEN memory ELSE file
Fresh == IF restart = "none" THEN serving = known \/ known # Due
                             ELSE writing => known # memory
FreshInv == memory.failover \/ step # "enable" => Fresh

ServeInv ==
  ~Interrupted =>
    /\ MemoryInv /\ DisabledInv /\ RangeInv /\ ReservedInv
    /\ "failover" \notin cut => KnownInv /\ FreshInv

LEMMA ServeInit == Init => ServeInv
BY DEF Init, ServeInv, MemoryInv, DisabledInv, RangeInv, ReservedInv, KnownInv,
       FreshInv, Fresh, Due, Settled, Pristine

\* The servers' own steps.
LEMMA ServersServe ==
  ASSUME TypeOK, ServeInv, ~Interrupted, WriteConfig \/ Loop
  PROVE  ServeInv'
<1> USE DEF confVars, loopVars, netVars, testVars
<1>1. /\ file \in {memory, Nothing} /\ (writing => file = Nothing)
      /\ memory \in Configs /\ Original # "none"
      /\ (file = memory \/ writing) /\ writing \in BOOLEAN
  BY DEF TypeOK, ServeInv, MemoryInv, Original
<1>2. memory # Nothing /\ memory.range # "none"
  BY <1>1, DhcpAssumption DEF Configs, Ranges, Nothing, Original
<1>3. /\ MemoryInv /\ DisabledInv /\ RangeInv /\ ReservedInv
      /\ "failover" \notin cut => KnownInv /\ FreshInv
  BY DEF ServeInv
<1>4. CASE WriteConfig
  <2>1. /\ writing /\ ~writing' /\ file' = memory
        /\ UNCHANGED <<memory, loopVars, serving, step, test, curRange, reserved, cut>>
    BY <1>4 DEF WriteConfig
  <2>2. MemoryInv' /\ DisabledInv' /\ RangeInv' /\ ReservedInv'
    BY <1>3, <2>1
    DEF MemoryInv, DisabledInv, RangeInv, ReservedInv, Settled, Runs, TestsOver,
        Kind, Reserving
  <2>3. "failover" \notin cut => KnownInv' /\ FreshInv'
    BY <1>3, <2>1 DEF KnownInv, FreshInv, Fresh, Due
  <2> QED
    BY <2>1, <2>2, <2>3 DEF ServeInv
<1>5. CASE NoticeChange
  <2>1. /\ restart = "none" /\ known' = file /\ restart' = "stop" /\ known # file
        /\ UNCHANGED <<confVars, serving, step, test, curRange, reserved, cut>>
    BY <1>5 DEF NoticeChange
  <2>2. MemoryInv' /\ DisabledInv' /\ ReservedInv' /\ ~Settled
    BY <1>1, <1>3, <2>1
    DEF MemoryInv, DisabledInv, ReservedInv, Settled, Runs, TestsOver,
        Kind, Reserving, Nothing
  <2>3. RangeInv'
    BY <1>1, <1>3, <2>1, <2>2 DEF RangeInv, Nothing, Original
  <2>4. "failover" \notin cut => KnownInv' /\ FreshInv'
    BY <1>1, <1>2, <1>3, <2>1 DEF KnownInv, FreshInv, Fresh, Due, Nothing
  <2> QED
    BY <2>1, <2>2, <2>3, <2>4 DEF ServeInv
<1>6. CASE StopDhcpd \/ StartDhcpd
  <2>1. /\ restart # "none" /\ known' = known
        /\ UNCHANGED <<confVars, step, test, curRange, reserved, cut>>
        /\ \/ restart' = "start"
           \/ restart' = "none" /\ serving' = file
    BY <1>6 DEF StopDhcpd, StartDhcpd
  <2>2. MemoryInv' /\ DisabledInv' /\ ReservedInv' /\ ~Settled
    BY <1>1, <1>3, <2>1
    DEF MemoryInv, DisabledInv, ReservedInv, Settled, Runs, TestsOver,
        Kind, Reserving, Nothing
  <2>3. RangeInv'
    BY <1>1, <1>3, <2>1, <2>2 DEF RangeInv
  <2>4. "failover" \notin cut => KnownInv' /\ FreshInv'
    BY <1>1, <1>2, <1>3, <2>1 DEF KnownInv, FreshInv, Fresh, Due
  <2> QED
    BY <2>1, <2>2, <2>3, <2>4 DEF ServeInv
<1> QED
  BY <1>4, <1>5, <1>6 DEF Loop

\* The steps of the tests, by what they do and where they lead.
LEMMA TestsServe ==
  ASSUME TypeOK, SubnetInv, FailoverInv, ServeInv, ~Interrupted, TestStep,
         ~Interrupted'
  PROVE  ServeInv'
<1> USE DEF confVars, loopVars
<1>1. Flows /\ Does
  BY TestFlow, TestDoes
<1>2. /\ MemoryInv /\ DisabledInv /\ RangeInv /\ ReservedInv
      /\ "failover" \notin cut => KnownInv /\ FreshInv
  BY DEF ServeInv
<1>3. memory \in Configs /\ Kind \in TestKinds /\ ~TestsOver /\ ~writing
      /\ file = memory /\ test <= Len(Tests)
  BY <1>2, TestRuns, DhcpAssumption DEF TypeOK, MemoryInv, TestsOver
<1>4. step \in Edits \ {"enable"} => Runs(Reconfiguring)
  BY <1>3, EditedAlone DEF Edits
<1>5. "failover" \in cut => "failover" \in cut'
  BY DEF TestStep, CutBy, Begin, GetRange, StopSecondary, DisableFailover,
        CheckInterface, CheckServers, LookUpLease, PingDevice, TestSubnet,
        LeaseInSubnet, SubnetsTested, RestoreRange, AddReservedLease,
        SetIfaceDown, SetIfaceUp, SetInterface, WaitForLeaseExpire,
        DeleteReservedLease, EnableFailover, StartSecondary, Settle,
        StopPrimary, LookUpNewLease, Confirm
<1>6. MemoryInv'
  <2>1. CASE MakesEdit /\ step \in Edits
    <3>1. step # "enable" => ~memory'.failover
      BY <1>2, <1>3, <1>4, <2>1
      DEF MakesEdit, SetRange, Edits, DisabledInv, Configs
    <3>2. step = "enable" => step' = "start_secondary"
      BY <1>1, <2>1 DEF Flows, After, Ends
    <3> QED
      BY <2>1, <3>1, <3>2 DEF MemoryInv, MakesEdit
  <2>2. CASE UNCHANGED confVars
    <3>1. Settled' = Settled
      BY <1>1, <2>2 DEF Does, Settled
    <3>2. step \in {"start_secondary", "settle"} =>
            Settled \/ step' = "settle"
      BY <1>1 DEF Flows, Does, After, Ends
    <3> QED
      BY <1>2, <2>2, <3>1, <3>2 DEF MemoryInv
  <2> QED
    BY <1>1, <2>1, <2>2 DEF Does
<1>7. DisabledInv'
  <2> DEFINE Disabled == {"lease", "ping", "iface", "subnet", "in_subnet",
                          "restore_range", "reserve", "expire", "iface_down",
                          "iface_up", "delete"}
  <2> SUFFICES ASSUME Runs(Reconfiguring)', step' \in Disabled
               PROVE  ~memory'.failover
    BY DEF DisabledInv
  <2>1. step' \in After /\ test' = test
    BY <1>1 DEF Flows
  <2>2. Runs(Reconfiguring)
    BY <2>1 DEF Runs, TestsOver, Kind
  <2>3. step \in Disabled \cup {"disable"}
    BY <2>1, <2>2
    DEF After, CleanUps, CleanUp, FailoverInv, FlowInv, Runs, Reconfiguring
  <2>4. step # "disable" => ~memory.failover
    BY <1>2, <2>2, <2>3 DEF DisabledInv
  <2> QED
    BY <1>1, <1>3, <2>3, <2>4 DEF Does, MakesEdit, SetRange, Edits, Configs
<1>8. RangeInv'
  <2>1. \/ step' = step /\ step = "subnet"
        \/ step \in OnTrial /\ step' \in OnTrial \cup {"enable"}
        \/ step \in Restoring /\ step' \in Restoring
        \/ step = "settle" /\ Settled
        \/ step \notin OnTrial \cup Restoring
    BY <1>1 DEF Flows, Does, After, Ends, OnTrial, Restoring
  <2>2. curRange' = Original
    BY <1>1, <1>2 DEF Does, RangeInv, OnTrial
  <2>3. memory'.range # Original => step' \in OnTrial
    <3>1. CASE MakesEdit /\ step \in Edits
      BY <1>1, <1>2, <1>3, <3>1
      DEF MakesEdit, SetRange, Edits, RangeInv, Configs, OnTrial, Flows, After, Ends
    <3>2. CASE UNCHANGED confVars /\ (step \in Edits => step = "subnet")
      <4>1. step \in OnTrial => step' \in OnTrial
        BY <1>1, <3>2 DEF Edits, OnTrial, Flows, After, Ends
      <4> QED
        BY <1>2, <3>2, <4>1 DEF RangeInv
    <3> QED
      BY <1>1, <3>1, <3>2 DEF Does
  <2>4. known'.range \notin {Original, "none"} =>
          step' \in OnTrial \cup Restoring
    <3>1. known' = known
      BY <1>1 DEF Does
    <3>2. Settled => known.range = memory.range
      BY <1>3 DEF Settled
    <3> QED
      BY <1>2, <2>1, <3>1, <3>2 DEF RangeInv, OnTrial, Restoring
  <2>5. step' = "subnet" => \/ Settled'
                            \/ /\ memory'.range = Original
                               /\ known'.range \in {Original, "none"}
    <3> SUFFICES ASSUME step' = "subnet"
                 PROVE  \/ Settled'
                        \/ /\ memory'.range = Original
                           /\ known'.range \in {Original, "none"}
      OBVIOUS
    <3>1. step \in {"ping", "subnet", "in_subnet"}
      BY <1>1 DEF Flows, After, Ends, CleanUps, CleanUp
    <3>2. UNCHANGED <<confVars, loopVars>> /\ Settled' = Settled
      BY <1>1, <3>1 DEF Does, MakesEdit, Edits, Settled
    <3>3. step = "in_subnet" => Settled
      BY <1>1 DEF Does
    <3>4. CASE Settled
      BY <3>2, <3>4
    <3>5. CASE ~Settled
      <4>1. memory.range = Original /\ known.range \in {Original, "none"}
        BY <1>2, <3>1, <3>3, <3>5 DEF RangeInv, OnTrial, Restoring
      <4> QED
        BY <3>2, <4>1
    <3> QED
      BY <3>4, <3>5
  <2> QED
    BY <2>2, <2>3, <2>4, <2>5 DEF RangeInv
<1>9. ReservedInv'
  <2>1. known' = known
    BY <1>1 DEF Does
  <2>2. Settled => known = memory
    BY <1>3 DEF Settled
  <2>3. Reserving => \/ Reserving' /\ reserved' = reserved
                     \/ /\ step = "delete" \/ ~reserved
                        /\ step' = "enable" /\ test' = test
    BY <1>1, <1>3
    DEF Flows, After, Ends, CleanUps, CleanUp, Reserving, Runs, TestsOver, Kind,
        Does
  <2>4. memory'.reserved # 0 => memory'.reserved = 1 /\ reserved' /\ Reserving'
    <3>1. CASE MakesEdit /\ step = "reserve"
      <4>1. memory.reserved = 0
        BY <1>2, <3>1 DEF ReservedInv, Reserving
      <4>2. memory'.reserved = 1 /\ reserved'
        BY <1>1, <1>3, <3>1, <4>1 DEF MakesEdit, Does, Configs
      <4>3. Reserving'
        BY <1>1, <1>2, <3>1
        DEF Flows, After, Ends, ReservedInv, Reserving, Runs, TestsOver, Kind
      <4> QED
        BY <4>2, <4>3
    <3>2. CASE MakesEdit /\ step = "delete"
      <4>1. memory.reserved \in {0, 1} /\ 0 \div 2 = 0 /\ 1 \div 2 = 0
        BY <1>2 DEF ReservedInv
      <4>2. memory'.reserved = memory.reserved \div 2
        BY <1>3, <3>2 DEF MakesEdit, Configs
      <4> QED
        BY <4>1, <4>2
    <3>3. CASE MakesEdit /\ step \in Edits \ {"reserve", "delete"}
      <4>1. memory'.reserved = memory.reserved
        BY <1>3, <3>3 DEF MakesEdit, SetRange, Configs
      <4>2. ~Reserving
        BY <3>3 DEF Reserving, Edits
      <4> QED
        BY <1>2, <4>1, <4>2 DEF ReservedInv
    <3>4. CASE UNCHANGED confVars /\ (step \in Edits => step = "subnet")
      BY <1>2, <2>3, <3>4 DEF ReservedInv, Edits
    <3> QED
      BY <1>1, <3>1, <3>2, <3>3, <3>4 DEF Does
  <2>5. known'.reserved # 0 =>
       \/ Reserving'
       \/ Runs({"ip_change", "disconnect_ip_change"})' /\ step' \in Restoring
    <3>1. CASE Reserving
      BY <2>1, <2>3, <3>1 DEF Reserving, Restoring, Runs, TestsOver, Kind
    <3>2. CASE ~Reserving /\ step = "settle"
      <4>1. known.reserved = 0
        BY <1>1, <1>2, <2>2, <3>2 DEF Does, ReservedInv
      <4> QED
        BY <2>1, <4>1
    <3>3. CASE step \in {"enable", "start_secondary"}
      BY <1>1, <1>2, <2>1, <3>3
      DEF ReservedInv, Reserving, Flows, After, Ends, Restoring, Runs,
          TestsOver, Kind
    <3> QED
      BY <1>2, <2>1, <3>1, <3>2, <3>3 DEF ReservedInv, Restoring
  <2>6. step' = "reserve" => Runs({"ip_change", "disconnect_ip_change"})'
    BY <1>1, <1>3
    DEF Flows, After, Ends, CleanUps, CleanUp, Runs, TestsOver, Kind, TestKinds
  <2> QED
    BY <2>4, <2>5, <2>6 DEF ReservedInv
<1>10. ASSUME "failover" \notin cut' PROVE KnownInv' /\ FreshInv'
  <2>1. KnownInv /\ FreshInv /\ UNCHANGED <<loopVars, serving>>
    BY <1>1, <1>2, <1>5, <1>10 DEF Does
  <2>2. Settled /\ Fresh => serving = known
    BY DEF Settled, Fresh, Due
  <2>3. memory.failover /\ step \in Edits =>
          Settled /\ serving = known /\ restart = "none"
    BY <1>2, <2>1, <2>2 DEF MemoryInv, FreshInv, Edits, Settled
  <2>4. KnownInv'
    BY <1>1, <1>3, <2>1, <2>3 DEF KnownInv, Does, MakesEdit, Configs
  <2>5. FreshInv'
    <3>1. CASE UNCHANGED confVars /\ (step \in Edits => step = "subnet")
      BY <2>1, <3>1 DEF FreshInv, Fresh, Due, Edits
    <3>2. CASE MakesEdit /\ step \in {"restore_range", "delete"}
      <4>1. step' = "enable"
        BY <1>1, <3>2 DEF Flows, After, Ends
      <4>2. ~memory'.failover
        BY <1>2, <1>3, <1>4, <3>2 DEF MakesEdit, SetRange, DisabledInv, Edits, Configs
      <4> QED
        BY <4>1, <4>2 DEF FreshInv
    <3>3. CASE MakesEdit /\ step \in {"disable", "subnet", "reserve", "enable"}
      <4> SUFFICES \/ restart = "none" /\ serving = known
                   \/ known # memory'
                   \/ memory' = memory /\ restart = "none" /\ Fresh
        BY <1>3, <2>1, <3>3 DEF FreshInv, Fresh, Due, MakesEdit
      <4>1. CASE memory.failover
        BY <2>3, <3>3, <4>1 DEF Edits
      <4>2. CASE ~memory.failover /\ step = "disable"
        BY <1>3, <2>1, <3>3, <4>2 DEF MakesEdit, FreshInv, Configs
      <4>3. CASE step = "subnet"
        <5>1. memory'.range \notin {Original, "none"}
          BY <1>3, <3>3, <4>3, DhcpAssumption DEF MakesEdit, SetRange, Configs
        <5>2. known.range \in {Original, "none"} \/ Settled
          BY <1>2, <4>3 DEF RangeInv
        <5>3. Fresh
          BY <2>1, <4>3 DEF FreshInv
        <5> QED
          BY <2>2, <5>1, <5>2, <5>3 DEF Settled
      <4>4. CASE step = "reserve"
        <5>1. memory.reserved = 0 /\ known.reserved = 0
          BY <1>2, <4>4 DEF ReservedInv, Reserving, Restoring
        <5>2. memory'.reserved = 1
          BY <1>3, <3>3, <4>4, <5>1 DEF MakesEdit, Configs
        <5> QED
          BY <5>1, <5>2
      <4>5. CASE ~memory.failover /\ step = "enable"
        <5>1. memory'.failover
          BY <1>3, <3>3, <4>5 DEF MakesEdit, Configs
        <5> QED
          BY <2>1, <4>5, <5>1 DEF KnownInv
      <4> QED
        BY <3>3, <4>1, <4>2, <4>3, <4>4, <4>5
    <3> QED
      BY <1>1, <3>1, <3>2, <3>3 DEF Does, Edits
  <2> QED
    BY <2>4, <2>5
<1> QED
  BY <1>6, <1>7, <1>8, <1>9, <1>10 DEF ServeInv

LEMMA ServeNext ==
  TypeOK /\ SubnetInv /\ FailoverInv /\ ServeInv /\ [Next]_vars => ServeInv'
<1> SUFFICES ASSUME TypeOK, SubnetInv, FailoverInv, ServeInv, [Next]_vars,
                    ~Interrupted'
             PROVE  ServeInv'
  BY DEF ServeInv
<1>1. ~Interrupted
  BY InterruptedStays
<1>2. CASE DeviceLeases \/ LeaseExpires \/ UNCHANGED vars
  <2>1. /\ UNCHANGED <<confVars, loopVars, serving, step, test>>
        /\ UNCHANGED <<curRange, reserved, failed, cut>>
    BY <1>2 DEF DeviceLeases, LeaseExpires, vars, netVars, testVars
  <2> QED
    BY <2>1
    DEF ServeInv, MemoryInv, DisabledInv, RangeInv, ReservedInv, Reserving,
        KnownInv, FreshInv, Fresh, Due, Settled, Runs, TestsOver, Kind,
        Interrupted, confVars, loopVars
<1>3. CASE WriteConfig \/ Loop
  BY <1>1, <1>3, ServersServe
<1>4. CASE TestStep
  BY <1>1, <1>4, TestsServe
<1> QED
  BY <1>2, <1>3, <1>4 DEF Next

\* A test that waits for the device to take up what it has written waits for
\* what dhcpd serves, for any tests in any order: no edit is missed, whatever
\* of the file was read or served before, unless an edit failed.
THEOREM TestsAreServed == Spec => []ServesFile
<1>1. Init => TypeOK /\ SubnetInv /\ FailoverInv /\ ServeInv
  BY InitTypes, ServeInit
  DEF Init, FailoverInv, FlowInv, AloneInv, QuietInv, PairInv, StoppedInv,
      FailoverBySecondary, Runs, FailoverSteps, DisconnectSteps, Settled,
      SubnetInv
<1>2. TypeOK /\ SubnetInv /\ FailoverInv /\ ServeInv /\ [Next]_vars =>
        (TypeOK /\ SubnetInv /\ FailoverInv /\ ServeInv)'
  BY TypeNext, SubnetNext, FailoverNext, ServeNext
<1>3. ServeInv => ServesFile
  BY DEF ServeInv, ServesFile, FreshInv, Fresh, Due, Settled
<1> QED
  BY <1>1, <1>2, <1>3, PTL DEF Spec
=============================================================================
