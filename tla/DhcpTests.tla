----------------------------- MODULE DhcpTests -----------------------------
(***************************************************************************)
(* The tests of the connection module that reconfigure the network, and    *)
(* the two DHCP servers they do it to.                                     *)
(*                                                                         *)
(* A server is two processes.  Its gRPC service keeps a configuration of   *)
(* its own, which a call changes and then writes to the file of dhcpd; the *)
(* other process reads the file again and again and restarts dhcpd when    *)
(* what it read is new.  The tests change the configuration of the primary *)
(* only, so that of the secondary is left out: it runs or it does not.     *)
(*                                                                         *)
(* A configuration is what the calls change: whether it is that of a       *)
(* failover pair, how many times the address of the device is reserved,    *)
(* the range, and the network the range is of: its address, netmask and    *)
(* broadcast, which are given in the file at first and are computed from   *)
(* the range whenever one is set.  The tests run one after the other, in   *)
(* their order, each of them or not (packs leave tests out, devices        *)
(* disable modules).  The calls of MaxFailed kinds may fail.               *)
(***************************************************************************)
EXTENDS Naturals, Sequences, FiniteSets

CONSTANTS
  Tests,      \* the module's tests, by what they do, in their order
  TestRanges, \* the ranges a test of subnets tries, in their order
  MaxFailed   \* bound: how many kinds of calls may fail

TestKinds ==
  {"subnets", "disconnect", "disconnect_ip_change", "ip_change", "failover"}

Original == "original"
Given == "given"

ASSUME DhcpAssumption ==
  /\ Tests \in Seq(TestKinds)
  /\ TestRanges \in Seq(STRING)
  /\ \A i \in DOMAIN TestRanges : TestRanges[i] \notin {Original, Given, "none"}
  /\ MaxFailed \in Nat

VARIABLES
  memory,    \* the configuration the gRPC service of the primary keeps
  file,      \* dhcpd.conf
  writing,   \* the service has opened the file and not written it yet
  known,     \* what the other process has last read of it
  restart,   \* what that process is at: "none", "stop" or "start"
  serving,   \* what the primary's dhcpd serves
  secondary, \* the secondary's dhcpd runs
  iface,     \* the interface of the device is up
  listed,    \* the servers whose lease file lists a lease of the device
  test,      \* the test that runs, by its place in Tests
  step,      \* the call it is at
  subnet,    \* the range it is at, by its place in TestRanges
  curRange,  \* cur_range
  reserved,  \* reserved_lease
  lease,     \* the server whose lease it found last
  failed,    \* history: the steps whose call has failed
  cut        \* history: why tests ended before they restored anything, as far
             \* as no later test has restored it

confVars == <<memory, file, writing>>
loopVars == <<known, restart>>
netVars == <<secondary, iface, listed>>
testVars == <<subnet, curRange, reserved, lease>>
vars == <<confVars, loopVars, serving, netVars, test, step, testVars, failed,
          cut>>

Servers == {"primary", "secondary"}

Pristine == [failover |-> TRUE, reserved |-> 0, range |-> Original, net |-> Given]

\* An empty file, and so no dhcpd: it does not run without a subnet.
Nothing == [failover |-> FALSE, reserved |-> 0, range |-> "none", net |-> "none"]

\* In what the client gets of a call, "raised" is an exception: the service
\* could not be reached, or its answer was lost after the call was "done".
Calls == {c \in [reply : {"ok", "refused", "raised"}, done : BOOLEAN] :
            c.reply = "ok" => c.done}

\* The steps that edit the primary's configuration, and the other calls.
Edits == {"disable", "subnet", "restore_range", "reserve", "delete", "enable"}
CallSteps == Edits \cup {"get_range", "stop_secondary", "status", "iface",
                         "lease", "new_lease", "iface_down", "iface_up",
                         "start_secondary", "stop_primary"}

Steps == CallSteps \cup {"begin", "ping", "in_subnet", "expire", "confirm",
                        "settle"}

Ranges == {TestRanges[i] : i \in DOMAIN TestRanges} \cup {Original}
Configs == [failover : BOOLEAN, reserved : Nat, range : Ranges,
            net : Ranges \cup {Given}]

TypeOK ==
  /\ memory \in Configs
  /\ file \in Configs \cup {Nothing} /\ known \in Configs \cup {Nothing}
  /\ serving \in Configs \cup {Nothing}
  /\ writing \in BOOLEAN /\ (writing => file = Nothing)
  /\ restart \in {"none", "stop", "start"}
  /\ secondary \in BOOLEAN /\ iface \in BOOLEAN
  /\ listed \subseteq Servers
  /\ test \in 1 .. Len(Tests) + 1 /\ step \in Steps
  /\ subnet \in 1 .. Len(TestRanges) + 1
  /\ curRange \in Ranges
  /\ reserved \in BOOLEAN
  /\ lease \in Servers \cup {"none"}
  /\ failed \subseteq CallSteps /\ Cardinality(failed) <= MaxFailed
  /\ cut \subseteq {"no_lease", "failover"}

Init ==
  /\ memory = Pristine /\ file = Pristine /\ writing = FALSE
  /\ known = Pristine /\ restart = "none" /\ serving = Pristine
  /\ secondary = TRUE /\ iface = TRUE
  /\ listed \in {{}, Servers}
  /\ test = 1 /\ step = "begin"
  /\ subnet = 1 /\ curRange = Original /\ reserved = FALSE /\ lease = "none"
  /\ failed = {} /\ cut = {}

-----------------------------------------------------------------------------
(***************************************************************************)
(* The primary server.                                                     *)
(***************************************************************************)

\* The handler of a call that edits the configuration writes the file it has
\* opened, and emptied by that.
WriteConfig ==
  /\ writing
  /\ file' = memory /\ writing' = FALSE
  /\ UNCHANGED <<memory, loopVars, serving, netVars, test, step, testVars,
                 failed, cut>>

\* Mutant: dhcpd is not restarted for a change of the reserved hosts.
NoticeChangeMutant ==
  /\ restart = "none" /\ known # file
  /\ known' = file
  /\ restart' = IF known.reserved = file.reserved THEN "stop" ELSE "none"
  /\ UNCHANGED <<confVars, serving, netVars, test, step, testVars, failed, cut>>

\* run() of dhcp_server.py: what it reads is compared with what it read last.
NoticeChange ==
  /\ restart = "none" /\ known # file
  /\ known' = file /\ restart' = "stop"
  /\ UNCHANGED <<confVars, serving, netVars, test, step, testVars, failed, cut>>

StopDhcpd ==
  /\ restart = "stop"
  /\ serving' = Nothing /\ restart' = "start"
  /\ UNCHANGED <<confVars, known, netVars, test, step, testVars, failed, cut>>

\* A second later dhcpd is started and reads the file, whatever it is by now.
StartDhcpd ==
  /\ restart = "start"
  /\ serving' = file /\ restart' = "none"
  /\ UNCHANGED <<confVars, known, netVars, test, step, testVars, failed, cut>>

Loop == NoticeChange \/ StopDhcpd \/ StartDhcpd

\* A restart takes two seconds: a test that waits for a lease to end, for a
\* timeout or for a ping that is not answered waits longer.
Settled == ~writing /\ restart = "none" /\ known = file

-----------------------------------------------------------------------------
(***************************************************************************)
(* The device asks for leases as it likes.  The servers of a working pair  *)
(* tell each other of their leases; a reserved address is not listed.      *)
(***************************************************************************)
Running(s) == IF s = "primary" THEN serving # Nothing ELSE secondary

DeviceLeases ==
  /\ iface
  /\ \E s \in Servers :
       /\ Running(s)
       /\ s = "primary" => serving.reserved = 0
       /\ listed' = listed \cup (IF serving.failover /\ secondary THEN Servers
                                                                ELSE {s})
  /\ UNCHANGED <<confVars, loopVars, serving, secondary, iface, test, step,
                 testVars, failed, cut>>

LeaseExpires ==
  /\ listed' = {}
  /\ UNCHANGED <<confVars, loopVars, serving, secondary, iface, test, step,
                 testVars, failed, cut>>

-----------------------------------------------------------------------------
(***************************************************************************)
(* Calls.                                                                  *)
(***************************************************************************)
Kind == Tests[test]
At(s) == test <= Len(Tests) /\ step = s /\ ~writing

Goto(s) ==
  IF s = "end" THEN test' = test + 1 /\ step' = "begin"
               ELSE test' = test /\ step' = s

Tried(c) ==
  /\ failed' = IF c.reply = "ok" THEN failed ELSE failed \cup {step}
  /\ Cardinality(failed') <= MaxFailed

\* A call that edits the configuration: the service's own is edited first, so
\* that it is edited even when the file cannot be opened or written.  A range
\* that was set counts as refused when it cannot be confirmed.
Edit(c, config) ==
  \/ /\ c.done
     /\ c.reply = "refused" => step \in {"subnet", "restore_range"}
     /\ memory' = config /\ file' = Nothing /\ writing' = TRUE
  \/ /\ ~c.done /\ c.reply = "refused"
     /\ memory' = config /\ file' \in {file, Nothing} /\ UNCHANGED writing
  \/ /\ ~c.done /\ c.reply = "raised"
     /\ UNCHANGED confVars

\* set_range: the network is computed from the range that is set, and is not
\* that of the file, even when the range is (10.10.10.10 to 10.10.10.20 makes
\* a /27 of the /24 that was given).
SetRange(config, range) == [config EXCEPT !.range = range, !.net = range]

\* Where a test goes on when a call is refused or raises an exception: that
\* of dhcp_disconnect_ip_change has a handler, and restores the network.
CleanUp == IF reserved THEN "delete" ELSE "enable"
GiveUp == IF Kind = "disconnect_ip_change" THEN CleanUp ELSE "end"

UntouchedNet == UNCHANGED <<confVars, loopVars, serving, netVars>>
UntouchedButConf == UNCHANGED <<loopVars, serving, netVars>>

\* get_cur_lease: the first server that is up and lists a lease.  It returns
\* none when its time is up.
Found(f) ==
  /\ f \in Servers \cup {"none"}
  /\ IF Running("primary") /\ "primary" \in listed THEN f = "primary"
     ELSE IF Running("secondary") /\ "secondary" \in listed
          THEN f = "secondary"
     ELSE f = "none" /\ Settled

-----------------------------------------------------------------------------
(***************************************************************************)
(* The steps of the tests.                                                 *)
(***************************************************************************)

\* run_tests of the module comes to a test, which may not be one to run.
Begin ==
  /\ At("begin")
  /\ \/ Goto("end")
     \/ Goto(CASE Kind = "subnets"    -> "get_range"
               [] Kind = "disconnect" -> "iface"
               [] Kind = "failover"   -> "status"
               [] OTHER               -> "stop_secondary")
  /\ subnet' = 1 /\ reserved' = FALSE /\ lease' = "none"
  /\ UNCHANGED <<curRange, failed, cut>> /\ UntouchedNet

\* The range is read "for restoring network".
GetRange ==
  /\ At("get_range")
  /\ \E c \in Calls :
       /\ Tried(c)
       /\ IF c.reply = "ok" THEN curRange' = memory.range /\ Goto("stop_secondary")
                            ELSE UNCHANGED curRange /\ Goto("end")
  /\ UNCHANGED <<subnet, reserved, lease, cut>> /\ UntouchedNet

\* setup_single_dhcp_server.
StopSecondary ==
  /\ At("stop_secondary")
  /\ \E c \in Calls :
       /\ Tried(c)
       /\ secondary' = (secondary /\ ~c.done)
       /\ Goto(CASE c.reply = "ok"      -> "disable"
                 [] c.reply = "refused" -> GiveUp
                 [] OTHER               -> "end")
  /\ UNCHANGED <<confVars, loopVars, serving, iface, listed, testVars, cut>>

\* It slept three seconds first: a restart that was under way is over.
DisableFailover ==
  /\ At("disable") /\ restart = "none"
  /\ \E c \in Calls :
       /\ Tried(c)
       /\ Edit(c, [memory EXCEPT !.failover = FALSE])
       /\ Goto(CASE c.reply = "ok" -> IF Kind = "disconnect_ip_change"
                                      THEN "iface" ELSE "lease"
                 [] c.reply = "refused" -> GiveUp
                 [] OTHER -> "end")
  /\ UNCHANGED <<testVars, cut>> /\ UntouchedButConf

CheckInterface ==
  /\ At("iface")
  /\ \E c \in Calls :
       /\ Tried(c)
       /\ Goto(IF c.reply = "ok" /\ iface THEN "lease" ELSE GiveUp)
  /\ UNCHANGED <<testVars, cut>> /\ UntouchedNet

\* The test of failover wants both servers up.
CheckServers ==
  /\ At("status")
  /\ \E c \in Calls :
       /\ Tried(c)
       /\ Goto(IF c.reply = "ok" /\ \A s \in Servers : Running(s)
               THEN "lease" ELSE "end")
  /\ UNCHANGED <<testVars, cut>> /\ UntouchedNet

\* Two tests end at once when they find no lease, and leave the network as
\* setup_single_dhcp_server made it, for a later test to restore.
CutBy(found) ==
  IF found = "none" /\ Kind \in {"subnets", "ip_change"}
  THEN cut \cup {"no_lease"} ELSE cut

LookUpLease ==
  /\ At("lease")
  /\ \/ /\ Found(lease')
        /\ Goto(IF lease' = "none" THEN GiveUp
                ELSE IF Kind = "ip_change" THEN "reserve" ELSE "ping")
        /\ cut' = CutBy(lease')
        /\ UNCHANGED failed
     \/ /\ \E c \in Calls : c.reply # "ok" /\ Tried(c)
        /\ Goto(GiveUp)
        /\ cut' = CutBy("none")
        /\ UNCHANGED lease
  /\ UNCHANGED <<subnet, curRange, reserved>> /\ UntouchedNet

PingDevice ==
  /\ At("ping")
  /\ \/ /\ iface
        /\ Goto(CASE Kind = "subnets"    -> "subnet"
                  [] Kind = "disconnect" -> "iface_down"
                  [] Kind = "failover"   -> "stop_primary"
                  [] OTHER               -> "reserve")
     \/ /\ Settled
        /\ Goto(IF Kind = "subnets" THEN "restore_range" ELSE GiveUp)
  /\ UNCHANGED <<testVars, failed, cut>> /\ UntouchedNet

\* test_subnets: the next range, if the device has a lease that could move.
TestSubnet ==
  /\ At("subnet") /\ subnet <= Len(TestRanges)
  /\ \/ /\ Found("none")
        /\ subnet' = subnet + 1 /\ Goto("subnet")
        /\ UNCHANGED <<confVars, failed>>
     \/ /\ ~Found("none")
        /\ \E c \in Calls :
             /\ Tried(c)
             /\ Edit(c, SetRange(memory, TestRanges[subnet]))
             /\ IF c.reply = "ok"
                THEN UNCHANGED subnet /\ Goto("in_subnet")
                ELSE subnet' = subnet + 1 /\ Goto("subnet")
  /\ UNCHANGED <<curRange, reserved, lease, cut>> /\ UntouchedButConf

LeaseInSubnet ==
  /\ At("in_subnet") /\ Settled
  /\ listed' = {}
  /\ subnet' = subnet + 1 /\ Goto("subnet")
  /\ UNCHANGED <<confVars, loopVars, serving, secondary, iface, curRange,
                 reserved, lease, failed, cut>>

SubnetsTested ==
  /\ At("subnet") /\ subnet > Len(TestRanges)
  /\ Goto("restore_range")
  /\ UNCHANGED <<testVars, failed, cut>> /\ UntouchedNet

RestoreRange ==
  /\ At("restore_range")
  /\ \E c \in Calls :
       /\ Tried(c)
       /\ Edit(c, SetRange(memory, curRange))
       /\ Goto(CASE c.reply = "ok"      -> "enable"
                 [] c.reply = "refused" -> "settle"
                 [] OTHER               -> "end")
  /\ UNCHANGED <<testVars, cut>> /\ UntouchedButConf

\* add_reserved_lease.  The test with the interface goes on without one.
AddReservedLease ==
  /\ At("reserve")
  /\ \E c \in Calls :
       /\ Tried(c)
       /\ Edit(c, [memory EXCEPT !.reserved = @ + 1])
       /\ reserved' = (c.reply = "ok")
       /\ Goto(IF Kind = "ip_change"
               THEN IF c.reply = "ok" THEN "expire" ELSE "end"
               ELSE IF c.reply = "raised" THEN CleanUp ELSE "iface_down")
  /\ UNCHANGED <<subnet, curRange, lease, cut>> /\ UntouchedButConf

\* What the host answers is a message, and so true, whatever its code: a test
\* does not notice that the interface stays as it is.
SetInterface(s, up, next) ==
  /\ At(s)
  /\ \E c \in Calls :
       /\ Tried(c)
       /\ iface' = IF c.done THEN up ELSE iface
       /\ Goto(IF c.reply = "raised" THEN GiveUp ELSE next)
  /\ UNCHANGED <<confVars, loopVars, serving, secondary, listed, testVars, cut>>

SetIfaceDown == SetInterface("iface_down", FALSE, "expire")

\* With the interface up again the test of an address change pings.
SetIfaceUp ==
  SetInterface("iface_up", TRUE,
               IF Kind = "disconnect" THEN "new_lease" ELSE CleanUp)

\* wait_for_lease_expire.  Without the reservation the interface stays down.
WaitForLeaseExpire ==
  /\ At("expire") /\ Settled
  /\ listed' = {}
  /\ Goto(CASE Kind = "ip_change"  -> "delete"
            [] Kind = "failover"   -> "new_lease"
            [] Kind = "disconnect" -> "iface_up"
            [] OTHER               -> IF reserved THEN "iface_up" ELSE CleanUp)
  /\ UNCHANGED <<confVars, loopVars, serving, secondary, iface, testVars,
                 failed, cut>>

\* delete_reserved_host removes from the list it goes through: every other of
\* the hosts that are the device's is left.
DeleteReservedLease ==
  /\ At("delete")
  /\ \E c \in Calls :
       /\ Tried(c)
       /\ Edit(c, [memory EXCEPT !.reserved = @ \div 2])
       /\ Goto(IF c.reply = "raised" THEN "end" ELSE "enable")
  /\ UNCHANGED <<testVars, cut>> /\ UntouchedButConf

\* Mutant: the secondary is taken to start with the primary's failover.
EnableFailoverMutant ==
  /\ At("enable")
  /\ \E c \in Calls :
       /\ Tried(c)
       /\ Edit(c, [memory EXCEPT !.failover = TRUE])
       /\ Goto(IF c.reply = "raised" THEN "end" ELSE "settle")
  /\ UNCHANGED <<testVars, cut>> /\ UntouchedButConf

\* restore_failover_dhcp_server.
EnableFailover ==
  /\ At("enable")
  /\ \E c \in Calls :
       /\ Tried(c)
       /\ Edit(c, [memory EXCEPT !.failover = TRUE])
       /\ Goto(CASE c.reply = "ok"      -> "start_secondary"
                 [] c.reply = "refused" -> "settle"
                 [] OTHER               -> "end")
  /\ UNCHANGED <<testVars, cut>> /\ UntouchedButConf

StartSecondary ==
  /\ At("start_secondary")
  /\ \E c \in Calls :
       /\ Tried(c)
       /\ secondary' = (secondary \/ c.done)
       /\ cut' = IF c.reply = "ok" THEN cut \ {"no_lease"} ELSE cut
       /\ Goto(IF c.reply = "raised" THEN "end" ELSE "settle")
  /\ UNCHANGED <<confVars, loopVars, serving, iface, listed, testVars>>

\* Mutant: the test ends as soon as the servers have answered.
SettleMutant ==
  /\ At("settle")
  /\ Goto("end")
  /\ UNCHANGED <<confVars, loopVars, serving, netVars, testVars, failed, cut>>

\* The test waits for the device to get a lease of the restored network.
Settle ==
  /\ At("settle") /\ Settled
  /\ listed' = {}
  /\ Goto("end")
  /\ UNCHANGED <<confVars, loopVars, serving, secondary, iface, testVars,
                 failed, cut>>

\* The test of failover stops the primary, and nothing starts it again.
StopPrimary ==
  /\ At("stop_primary")
  /\ \E c \in Calls :
       /\ Tried(c)
       /\ serving' = IF c.done THEN Nothing ELSE serving
       /\ cut' = IF c.done THEN cut \cup {"failover"} ELSE cut
       /\ Goto(IF c.reply = "ok" THEN "expire" ELSE "end")
  /\ UNCHANGED <<confVars, loopVars, netVars, testVars>>

LookUpNewLease ==
  /\ At("new_lease")
  /\ \/ /\ Found(lease')
        /\ Goto(IF lease' = "none" THEN "end" ELSE "confirm")
        /\ UNCHANGED failed
     \/ /\ \E c \in Calls : c.reply # "ok" /\ Tried(c)
        /\ Goto("end")
        /\ UNCHANGED lease
  /\ UNCHANGED <<subnet, curRange, reserved, cut>> /\ UntouchedNet

\* A ping decides, and the test ends.
Confirm ==
  /\ At("confirm")
  /\ Goto("end")
  /\ UNCHANGED <<testVars, failed, cut>> /\ UntouchedNet

TestsOver == test > Len(Tests)

TestStep ==
  \/ Begin \/ GetRange \/ StopSecondary \/ DisableFailover \/ CheckInterface
  \/ CheckServers \/ LookUpLease \/ PingDevice \/ TestSubnet \/ LeaseInSubnet
  \/ SubnetsTested \/ RestoreRange \/ AddReservedLease \/ SetIfaceDown
  \/ SetIfaceUp \/ WaitForLeaseExpire \/ DeleteReservedLease \/ EnableFailover
  \/ StartSecondary \/ Settle \/ StopPrimary \/ LookUpNewLease \/ Confirm

Next == WriteConfig \/ Loop \/ DeviceLeases \/ LeaseExpires \/ TestStep

Spec == Init /\ [][Next]_vars

\* The processes are scheduled: the service writes, the primary reads its file
\* again and again, and the tests go on.  Nothing is asked of the device.
FairSpec == Spec /\ WF_vars(WriteConfig) /\ WF_vars(Loop) /\ WF_vars(TestStep)

-----------------------------------------------------------------------------
(***************************************************************************)
(* Properties.                                                             *)
(***************************************************************************)

\* A test may have been cut short in the middle of its restoring.
Interrupted == failed \cap (Edits \cup {"start_secondary"}) # {}

\* A test that waits for the device to take up what it has written waits for
\* something: dhcpd serves the file by then, unless a test was interrupted.  No
\* edit is missed, whatever is edited during a restart, and a file that was
\* read, or given to dhcpd, half written does no lasting harm.
ServesFile ==
  /\ step \in {"in_subnet", "expire", "settle"} /\ Settled
  /\ ~Interrupted /\ "failover" \notin cut
  => serving = file

\* What the test of failover confirms, "Secondary DHCP server lease confirmed
\* active in device", is a lease of the secondary, unless a test before it
\* was interrupted: the primary is not brought back by its own
\* process meanwhile.
FailoverBySecondary ==
  step = "confirm" /\ Kind = "failover" /\ ~Interrupted => lease = "secondary"

\* A configuration but for the network that is computed from its range.
ButNet(config) == [config EXCEPT !.net = Given]

\* "Restore the network": the tests end, and what they changed is as it was,
\* part by part, unless a call that has to do with that part failed, the last
\* test to take the pair apart returned for want of a lease, or the test of
\* failover stopped the primary.  The network of the range is no such part:
\* after a test of subnets the file has the range it had, in the network that
\* is computed from it, and not in the one that was given.
NetworkRestored ==
  <>[](/\ TestsOver
       /\ failed \cap {"iface_down", "iface_up", "reserve"} = {} => iface
       /\ "restore_range" \notin failed =>
            memory.range = Original /\ memory.net \in {Given, Original}
       /\ failed \cap {"reserve", "delete"} = {} => memory.reserved = 0
       /\ ~Interrupted /\ "stop_secondary" \notin failed =>
            /\ memory = file
            /\ "no_lease" \notin cut => memory.failover /\ secondary
            /\ cut = {} => ButNet(serving) = Pristine)
=============================================================================
