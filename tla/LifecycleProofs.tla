-------------------------- MODULE LifecycleProofs --------------------------
(***************************************************************************)
(* Theorems about Lifecycle for a user who starts a run only when the last *)
(* has ended and for one device, with any number of runs and of stops, the *)
(* network validator on or off, and disconnections allowed or not; the     *)
(* last one for a user who stops nothing.                                  *)
(***************************************************************************)
EXTENDS Lifecycle, SequenceTheorems, FiniteSetTheorems, TLAPS

\* The user of the theorems on runs: a start comes when the threads of the last
\* run are at rest, and one device is plugged in.
OneDeviceAtATime == Patient = TRUE /\ \E d : Devices = {d}

-----------------------------------------------------------------------------
(***************************************************************************)
(* The inductive invariant.                                                *)
(***************************************************************************)

\* Where the last start thread is.
Now == IF starters = <<>> THEN "none" ELSE starters[Len(starters)]

\* Places where the listener is its own, and where nothing is sniffed.
Built == {"validate", "validated", "ready", "register", "listen", "waiting"}
Silent == {"none", "forget", "create", "validate", "validated", "ready", "register",
           "listen", "failed", "dead"}
\* Places after the reset of the session and before the wait for a device.
Early == {"starting", "restore", "forget", "create", "validate", "validated", "ready",
          "register", "listen", "failed"}

Discovering == \E x \in DOMAIN discovery : discovery[x] \notin {"none", "done"}
Testing == \E i \in DOMAIN testers : testers[i] \notin {"done", "dead"}
\* A packet may start the discovery of the device.
Fresh == \E g \in sniffing : \E d \in Devices : d \notin seen[g]

\* A start thread that has created the network has a listener.
Created == \A r \in DOMAIN starters : starters[r] \in Built => listener # 0

\* Only the last start thread is at work, and only the current listener
\* sniffs, with callbacks of that thread.
ListenerInv ==
  /\ \A r \in DOMAIN starters : r < Len(starters) => starters[r] \in {"waiting", "dead"}
  /\ sniffing \subseteq {listener} /\ listener <= Len(starters)
  /\ Now \in Built => listener = Len(starters)
  /\ Now \in Silent => sniffing = {}
  /\ \A g \in Runs : callbacks[g] \subseteq {"net", "discovered", "stable"} \X {g}

\* A device can be discovered only while it is waited for and nobody works on
\* it, or a stop is just about to stop the listener.
FreshInv ==
  Fresh => /\ Now = "waiting"
           /\ ~Discovering /\ ~Testing
           /\ \/ status = WAITING_FOR_DEVICE
              \/ status = STOPPING /\ stopPc \in {"again", "listener", "tests"}
              \/ status = CANCELLED /\ stopPc = "network"

\* One thread at a time has the device: of discovery or of the tests.
OneInv ==
  /\ Discovering \/ Testing => Now = "waiting"
  /\ Discovering => ~Testing
  /\ \A x, y \in DOMAIN discovery :
       discovery[x] \notin {"none", "done"} /\ discovery[y] \notin {"none", "done"}
         => x = y
  /\ \A i \in DOMAIN testers : testers[i] \notin {"done", "dead"} => i = Len(testers)

\* The target is there from the end of the sniffing on.
TargetInv ==
  /\ \A x \in DOMAIN discovery :
       discovery[x] \in {"monitor", "monitoring", "fire"} => target # NoDevice
  /\ Testing => target # NoDevice

\* After an outcome the network is up only until its thread tears it down.
OutcomeInv ==
  /\ Now \in Early => status \notin OutcomeStatus
  /\ networkUp /\ status \in OutcomeStatus =>
       \E i \in DOMAIN testers : testers[i] = "network"

ProgressInv ==
  /\ InProgressBacked
  /\ Discovering => status # IN_PROGRESS

LifeInv ==
  /\ OneDeviceAtATime
  /\ TypeOK /\ Created /\ ListenerInv /\ FreshInv /\ OneInv /\ TargetInv /\ OutcomeInv
  /\ ProgressInv

-----------------------------------------------------------------------------
(***************************************************************************)
(* Lemmas.                                                                 *)
(***************************************************************************)

\* The statuses that the proofs compare.
LEMMA StatusFacts ==
  /\ {IDLE, STARTING, WAITING_FOR_DEVICE, MONITORING, IN_PROGRESS, CANCELLED, STOPPING,
      VALIDATING} \subseteq TestrunStatus \ OutcomeStatus
  /\ OutcomeStatus \subseteq TestrunStatus
  /\ IN_PROGRESS \notin {IDLE, STARTING, WAITING_FOR_DEVICE, MONITORING, CANCELLED,
                         STOPPING, VALIDATING}
  /\ WAITING_FOR_DEVICE \in RunningStatus
BY DEF TestrunStatus, OutcomeStatus, RunningStatus, IDLE, STARTING, WAITING_FOR_DEVICE,
       MONITORING, IN_PROGRESS, CANCELLED, STOPPING, VALIDATING, COMPLETE, PROCEED,
       DO_NOT_PROCEED

\* What a status change leaves in the session.
LEMMA SetStatusType ==
  ASSUME TypeOK, NEW s \in TestrunStatus, SetStatus(s)
  PROVE  status' = s /\ status' \in TestrunStatus /\ shown' \in TestrunStatus
         /\ paused' \in BOOLEAN
<1>1. status' = s /\ status' \in TestrunStatus
  BY DEF SetStatus
<1>2. shown' \in TestrunStatus
  BY DEF SetStatus, TypeOK
<1>3. paused' = paused \/ paused' = (s \in STATUSES_COMPLETE)
  BY DEF SetStatus
<1>4. (s \in STATUSES_COMPLETE) \in BOOLEAN
  OBVIOUS
<1>5. paused' \in BOOLEAN
  BY <1>3, <1>4 DEF TypeOK
<1> QED
  BY <1>1, <1>2, <1>5

\* A change of the last value of a sequence leaves the others in their set.
LEMMA EarlierStay ==
  ASSUME NEW S, NEW s \in Seq(S), NEW t \in Seq(S), NEW W, Len(t) = Len(s),
         \A q \in 1 .. Len(s) : q # Len(s) => t[q] = s[q],
         \A q \in DOMAIN s : q < Len(s) => s[q] \in W
  PROVE  \A q \in DOMAIN t : q < Len(t) => t[q] \in W
OBVIOUS

\* A start thread that does something is the last one.
LEMMA StarterStep ==
  ASSUME LifeInv, NEW r \in DOMAIN starters, NEW from \in StarterPc, NEW to \in StarterPc,
         from \notin {"waiting", "dead"}, StarterGoes(r, from, to)
  PROVE  /\ r = Len(starters) /\ Now = from /\ Now' = to
         /\ r \in Runs
         /\ starters' \in Seq(StarterPc) /\ Len(starters') = Len(starters)
         /\ Len(starters') <= MaxRuns
         /\ \A q \in DOMAIN starters' :
              q < Len(starters') => starters'[q] \in {"waiting", "dead"}
         /\ ~Fresh /\ ~Discovering /\ ~Testing
         /\ api' = api /\ requested' = requested
<1>1. starters \in Seq(StarterPc) /\ Len(starters) <= MaxRuns
  BY DEF LifeInv, TypeOK
<1>2. DOMAIN starters = 1 .. Len(starters) /\ Len(starters) \in Nat
  BY <1>1
<1>3. r = Len(starters)
  BY <1>2 DEF StarterGoes, LifeInv, ListenerInv
<1>4. starters' \in Seq(StarterPc) /\ Len(starters') = Len(starters)
      /\ DOMAIN starters' = 1 .. Len(starters)
      /\ \A q \in 1 .. Len(starters) : starters'[q] = IF q = r THEN to ELSE starters[q]
  BY <1>1, <1>2 DEF StarterGoes
<1>5. Now = from /\ Now' = to
  BY <1>1, <1>2, <1>3, <1>4 DEF Now, StarterGoes
<1>6. \A q \in DOMAIN starters' :
        q < Len(starters') => starters'[q] \in {"waiting", "dead"}
  <2>1. \A q \in DOMAIN starters :
          q < Len(starters) => starters[q] \in {"waiting", "dead"}
    BY DEF LifeInv, ListenerInv
  <2>2. \A q \in 1 .. Len(starters) : q # Len(starters) => starters'[q] = starters[q]
    BY <1>3, <1>4
  <2> QED
    BY <1>1, <1>4, <2>1, <2>2, EarlierStay
<1>7. ~Fresh /\ ~Discovering /\ ~Testing
  BY <1>5 DEF LifeInv, FreshInv, OneInv
<1> QED
  BY <1>1, <1>2, <1>3, <1>4, <1>5, <1>6, <1>7 DEF StarterGoes, Runs

\* A step that leaves the threads of the device alone, while there is none.
LEMMA NobodyElse ==
  ASSUME LifeInv, ~Discovering, ~Testing, UNCHANGED <<discovery, testers>>
  PROVE  OneInv' /\ TargetInv' /\ (status' # IN_PROGRESS \/ status' = status => ProgressInv')
<1>1. ~Discovering' /\ ~Testing'
  BY DEF Discovering, Testing
<1>2. OneInv'
  BY <1>1 DEF OneInv, Discovering, Testing
<1>3. TargetInv'
  BY <1>1 DEF TargetInv, Discovering, Testing
<1>4. ASSUME status' # IN_PROGRESS \/ status' = status PROVE ProgressInv'
  BY <1>1, <1>4 DEF ProgressInv, LifeInv, InProgressBacked
<1> QED
  BY <1>2, <1>3, <1>4

\* A step of the discovery of the device.
LEMMA DiscoveryStep ==
  ASSUME LifeInv, NEW g \in Runs, NEW d \in Devices,
         NEW from \in DiscoveryPc \ {"none", "done"}, NEW to \in DiscoveryPc,
         Goes(<<g, d>>, from, to)
  PROVE  /\ Now' = "waiting" /\ ListenerInv' /\ FreshInv'
         /\ ~Testing /\ ~Fresh /\ Discovering
         /\ discovery' \in [Runs \X Devices -> DiscoveryPc]
         /\ \A x \in DOMAIN discovery' :
              discovery'[x] \notin {"none", "done"} => x = <<g, d>>
         /\ discovery'[<<g, d>>] = to
<1>1. discovery \in [Runs \X Devices -> DiscoveryPc] /\ <<g, d>> \in Runs \X Devices
  BY DEF LifeInv, TypeOK
<1>2. Discovering /\ ~Testing /\ Now = "waiting" /\ ~Fresh
  BY <1>1 DEF Goes, Discovering, LifeInv, OneInv, FreshInv
<1>3. discovery' \in [Runs \X Devices -> DiscoveryPc] /\ discovery'[<<g, d>>] = to
      /\ \A x \in Runs \X Devices : x # <<g, d>> => discovery'[x] = discovery[x]
  BY <1>1 DEF Goes
<1>4. \A x \in DOMAIN discovery' :
        discovery'[x] \notin {"none", "done"} => x = <<g, d>>
  BY <1>1, <1>3 DEF Goes, LifeInv, OneInv
<1>5. Now' = Now /\ ~Fresh'
  BY <1>2 DEF Now, Fresh, Goes, apiVars, netVars
<1>6. ListenerInv'
  BY DEF ListenerInv, LifeInv, Goes, apiVars, netVars, Now
<1>7. FreshInv'
  BY <1>5 DEF FreshInv
<1> QED
  BY <1>2, <1>3, <1>4, <1>5, <1>6, <1>7

\* A step of the thread that tests.
LEMMA TesterStep ==
  ASSUME LifeInv, NEW i \in DOMAIN testers,
         NEW from \in TesterPc \ {"done", "dead"}, NEW to \in TesterPc,
         TesterGoes(i, from, to)
  PROVE  /\ i = Len(testers) /\ i >= 1 /\ Testing /\ ~Discovering /\ ~Fresh
         /\ Now = "waiting" /\ Now' = "waiting"
         /\ target # NoDevice
         /\ testers' \in Seq(TesterPc) /\ Len(testers') = Len(testers) /\ testers' # <<>>
         /\ \A j \in DOMAIN testers' : testers'[j] \notin {"done", "dead"} => j = Len(testers')
         /\ testers'[i] = to /\ i \in DOMAIN testers'
         /\ \A j \in DOMAIN testers' : j # i => testers'[j] = testers[j]
         /\ \A r \in DOMAIN starters' :
              r < Len(starters') => starters'[r] \in {"waiting", "dead"}
         /\ starters' = starters
<1>1. testers \in Seq(TesterPc) /\ DOMAIN testers = 1 .. Len(testers) /\ Len(testers) \in Nat
  BY DEF LifeInv, TypeOK
<1>2. Testing
  BY DEF TesterGoes, Testing
<1>3. i = Len(testers) /\ ~Discovering /\ Now = "waiting" /\ ~Fresh /\ target # NoDevice
  BY <1>2 DEF TesterGoes, LifeInv, OneInv, FreshInv, TargetInv
<1>4. testers' \in Seq(TesterPc) /\ Len(testers') = Len(testers)
      /\ DOMAIN testers' = 1 .. Len(testers)
      /\ \A j \in 1 .. Len(testers) : testers'[j] = IF j = i THEN to ELSE testers[j]
  BY <1>1 DEF TesterGoes
<1>5. \A j \in DOMAIN testers' : testers'[j] \notin {"done", "dead"} => j = Len(testers')
  BY <1>1, <1>3, <1>4 DEF LifeInv, OneInv
<1>6. starters' = starters /\ Now' = Now
  BY DEF TesterGoes, apiVars, Now
<1>7. testers' # <<>>
  BY <1>1, <1>4
<1>8. \A r \in DOMAIN starters' :
        r < Len(starters') => starters'[r] \in {"waiting", "dead"}
  BY <1>6 DEF LifeInv, ListenerInv
<1>9. testers'[i] = to /\ i \in DOMAIN testers' /\ i >= 1
      /\ \A j \in DOMAIN testers' : j # i => testers'[j] = testers[j]
  BY <1>1, <1>4
<1> QED
  BY <1>1, <1>2, <1>3, <1>4, <1>5, <1>6, <1>7, <1>8, <1>9

-----------------------------------------------------------------------------
(***************************************************************************)
(* Type correctness, for every user and any devices.                       *)
(***************************************************************************)

\* A step of a start thread keeps its place among those of the code.
LEMMA StarterTypes ==
  ASSUME TypeOK, NEW r \in DOMAIN starters, NEW from, NEW to \in StarterPc,
         StarterGoes(r, from, to)
  PROVE  /\ starters' \in Seq(StarterPc) /\ Len(starters') <= MaxRuns
         /\ r \in Runs
         /\ api' = api /\ requested' = requested
<1>1. starters \in Seq(StarterPc) /\ Len(starters) <= MaxRuns
  BY DEF TypeOK
<1>2. starters' \in Seq(StarterPc) /\ Len(starters') = Len(starters)
  BY <1>1 DEF StarterGoes
<1>3. r \in Runs
  BY <1>1, LifecycleAssumption DEF Runs
<1> QED
  BY <1>1, <1>2, <1>3 DEF StarterGoes

\* The two halves of stopping the network keep its types.
LEMMA NetTypes ==
  ASSUME TypeOK
  PROVE  /\ StopNet =>
              /\ networkUp' = FALSE /\ sniffing' \subseteq Runs
              /\ UNCHANGED <<listener, callbacks, devVars>>
         /\ ForgetListener =>
              /\ sniffing' \subseteq Runs /\ callbacks' \in [Runs -> SUBSET Callbacks]
              /\ seen' \in [Runs -> SUBSET Devices]
              /\ UNCHANGED <<listener, networkUp, leased, discovery, adopting>>
BY DEF StopNet, ForgetListener, TypeOK

\* The threads that the end of a monitoring starts.
LEMMA StableThreads ==
  ASSUME TypeOK, NEW S \in SUBSET Runs
  PROVE  [i \in 1 .. Cardinality(S) |-> "check"] \in Seq(TesterPc)
<1>1. IsFiniteSet(Runs)
  BY FS_Interval, LifecycleAssumption DEF Runs
<1>2. Cardinality(S) \in Nat
  BY <1>1, FS_Subset, FS_CardinalityType
<1> QED
  BY <1>2 DEF TesterPc

\* Each operation keeps the types; Register needs a listener to be there.
LEMMA TypeNext == TypeOK /\ Created /\ [Next]_vars => TypeOK'
<1> SUFFICES ASSUME TypeOK, Created, [Next]_vars PROVE TypeOK'
  OBVIOUS
<1> USE DEF session, apiVars, netVars, devVars, stopVars
<1>u. CASE User
  <2>1. CASE AcceptStop
    BY <2>1, LifecycleAssumption DEF AcceptStop, TypeOK
  <2>2. ASSUME NEW d \in Devices, AcceptStart(d) PROVE TypeOK'
    <3>1. starters' \in Seq(StarterPc) /\ Len(starters') <= MaxRuns
      BY <2>2, LifecycleAssumption DEF AcceptStart, TypeOK, StarterPc
    <3> QED
      BY <2>2, <3>1 DEF AcceptStart, TypeOK
  <2> QED
    BY <1>u, <2>1, <2>2 DEF User
<1>a. CASE Api
  <2>1. CASE SetTarget
    BY <2>1 DEF SetTarget, TypeOK
  <2>2. CASE BeginStop
    BY <2>2, SetStatusType, StatusFacts, LifecycleAssumption DEF BeginStop, TypeOK, StopPc
  <2>3. CASE StopAgain
    BY <2>3, SetStatusType, StatusFacts DEF StopAgain, TypeOK, StopPc
  <2>4. CASE StopListener
    BY <2>4 DEF StopListener, TypeOK, StopPc
  <2>5. CASE StopTests
    BY <2>5, SetStatusType, StatusFacts DEF StopTests, TypeOK, StopPc
  <2>6. CASE StopNetwork
    BY <2>6, NetTypes DEF StopNetwork, TypeOK, StopPc
  <2>7. CASE StopEnds
    BY <2>7, NetTypes DEF StopEnds, TypeOK, StopPc
  <2> QED
    BY <1>a, <2>1, <2>2, <2>3, <2>4, <2>5, <2>6, <2>7 DEF Api
<1>n. CASE Network
  <2>1. CASE CableMoves
    BY <2>1 DEF CableMoves, TypeOK
  <2>2. ASSUME NEW d \in Devices, Lease(d) PROVE TypeOK'
    BY <2>2 DEF Lease, TypeOK
  <2>3. ASSUME NEW d \in Devices, NEW g \in Runs, Packet(g, d) PROVE TypeOK'
    BY <2>3 DEF Packet, TypeOK, DiscoveryPc
  <2> QED
    BY <1>n, <2>1, <2>2, <2>3 DEF Network
<1>s. ASSUME NEW r \in DOMAIN starters, Starter(r) PROVE TypeOK'
  <2>1. \A from, to : to \in StarterPc /\ StarterGoes(r, from, to) =>
          /\ starters' \in Seq(StarterPc) /\ Len(starters') <= MaxRuns
          /\ r \in Runs
          /\ api' = api /\ requested' = requested
    BY StarterTypes
  <2>2. CASE Reset(r)
    BY <2>1, <2>2, StatusFacts DEF Reset, StarterPc, TypeOK
  <2>3. CASE Starting(r)
    BY <2>1, <2>3, StatusFacts DEF Starting, StarterPc, TypeOK
  <2>4. CASE Restore(r)
    BY <2>1, <2>4, NetTypes DEF Restore, StarterPc, TypeOK
  <2>5. CASE Restored(r)
    BY <2>1, <2>5, NetTypes DEF Restored, StarterPc, TypeOK
  <2>6. CASE CreateNet(r)
    <3>1. {<<"net", r>>} \in SUBSET Callbacks /\ r \in Runs
      BY <2>1, <2>6 DEF CreateNet, StarterPc, Callbacks
    <3> QED
      BY <2>1, <2>6, <3>1 DEF CreateNet, StarterPc, TypeOK, Runs
  <2>7. CASE CreateFails(r)
    BY <2>1, <2>7, NetTypes DEF CreateFails, StarterPc, TypeOK
  <2>8. CASE StarterExits(r)
    BY <2>1, <2>8, NetTypes DEF StarterExits, StarterPc, TypeOK
  <2>9. CASE Validating(r)
    BY <2>1, <2>9, SetStatusType, StatusFacts DEF Validating, StarterPc, TypeOK
  <2>10. CASE Validated(r)
    BY <2>1, <2>10 DEF Validated, StarterPc, TypeOK
  <2>11. CASE NetworkReady(r)
    BY <2>1, <2>11, SetStatusType, StatusFacts DEF NetworkReady, StarterPc, TypeOK
  <2>12. CASE Register(r)
    <3>1. {<<"discovered", r>>, <<"stable", r>>} \in SUBSET Callbacks
      BY <2>1, <2>12 DEF Register, StarterPc, Callbacks
    <3>2. callbacks' \in [Runs -> SUBSET Callbacks]
      BY <2>12, <3>1 DEF Register, TypeOK
    <3> QED
      BY <2>1, <2>12, <3>2 DEF Register, StarterPc, TypeOK
  <2>13. CASE Listen(r)
    <3>1. listener \in Runs
      BY <2>13 DEF Listen, StarterGoes, Created, Built, TypeOK, Runs
    <3> QED
      BY <2>1, <2>13, <3>1, SetStatusType, StatusFacts DEF Listen, StarterPc, TypeOK
  <2> QED
    BY <1>s, <2>2, <2>3, <2>4, <2>5, <2>6, <2>7, <2>8, <2>9, <2>10, <2>11, <2>12, <2>13
    DEF Starter
<1>p. ASSUME NEW d \in Devices, Adopt(d) PROVE TypeOK'
  BY <1>p DEF Adopt, TypeOK
<1>d. ASSUME NEW d \in Devices, NEW g \in Runs, Discovery(g, d) PROVE TypeOK'
  <2>1. \A from, to : to \in DiscoveryPc /\ Goes(<<g, d>>, from, to) =>
          /\ discovery' \in [Runs \X Devices -> DiscoveryPc]
          /\ UNCHANGED <<apiVars, netVars, seen, leased, adopting, connected, stopVars>>
    BY DEF Goes, TypeOK
  <2>2. CASE CheckTarget(g, d)
    BY <2>1, <2>2 DEF CheckTarget, DiscoveryPc, TypeOK
  <2>3. CASE SniffEnds(g, d)
    BY <2>1, <2>3 DEF SniffEnds, DiscoveryPc, TypeOK
  <2>4. CASE NoAddress(g, d)
    BY <2>1, <2>4, SetStatusType, StatusFacts DEF NoAddress, DiscoveryPc, TypeOK
  <2>5. CASE HasAddress(g, d)
    BY <2>1, <2>5 DEF HasAddress, DiscoveryPc, TypeOK
  <2>6. CASE NoTarget(g, d)
    BY <2>1, <2>6 DEF NoTarget, DiscoveryPc, TypeOK
  <2>7. CASE Monitor(g, d)
    BY <2>1, <2>7, SetStatusType, StatusFacts DEF Monitor, DiscoveryPc, TypeOK
  <2>8. CASE MonitorCancelled(g, d)
    BY <2>1, <2>8 DEF MonitorCancelled, DiscoveryPc, TypeOK
  <2>9. CASE MonitorDisconnected(g, d)
    BY <2>1, <2>9, SetStatusType, StatusFacts DEF MonitorDisconnected, DiscoveryPc, TypeOK
  <2>10. CASE MonitorEnds(g, d)
    BY <2>1, <2>10 DEF MonitorEnds, DiscoveryPc, TypeOK
  <2>11. CASE Fire(g, d)
    <3> DEFINE stable == {r \in Runs : listener # 0 /\ <<"stable", r>> \in callbacks[listener]}
    <3>1. [i \in 1 .. Cardinality(stable) |-> "check"] \in Seq(TesterPc)
      BY StableThreads
    <3>2. testers' \in Seq(TesterPc)
      BY <2>11, <3>1, ConcatProperties DEF Fire, TypeOK
    <3> QED
      BY <2>1, <2>11, <3>2 DEF Fire, DiscoveryPc, TypeOK
  <2> QED
    BY <1>d, <2>2, <2>3, <2>4, <2>5, <2>6, <2>7, <2>8, <2>9, <2>10, <2>11 DEF Discovery
<1>t. ASSUME NEW i \in DOMAIN testers, Tester(i) PROVE TypeOK'
  <2>1. \A from, to : to \in TesterPc /\ TesterGoes(i, from, to) =>
          testers' \in Seq(TesterPc) /\ UNCHANGED <<apiVars, connected, stopVars>>
    BY DEF TesterGoes, TypeOK
  <2>2. CASE DeviceStable(i)
    BY <2>1, <2>2 DEF DeviceStable, TesterPc, TypeOK
  <2>3. CASE InProgress(i)
    BY <2>1, <2>3, SetStatusType, StatusFacts DEF InProgress, TesterPc, TypeOK
  <2>4. CASE RunTestModules(i)
    BY <2>1, <2>4 DEF RunTestModules, TesterPc, TypeOK
  <2>5. CASE TestsDisconnected(i)
    BY <2>1, <2>5, SetStatusType, StatusFacts DEF TestsDisconnected, TesterPc, TypeOK
  <2>6. CASE TestsCrash(i)
    BY <2>1, <2>6 DEF TestsCrash, TesterPc, TypeOK
  <2>7. CASE TestsEnd(i)
    BY <2>1, <2>7 DEF TestsEnd, TesterPc, TypeOK
  <2>8. CASE SetOutcome(i)
    BY <2>1, <2>8, SetStatusType, StatusFacts DEF SetOutcome, TesterPc, TypeOK
  <2>9. CASE TesterStopsNetwork(i)
    BY <2>1, <2>9, NetTypes DEF TesterStopsNetwork, TesterPc, TypeOK
  <2>10. CASE TesterEnds(i)
    BY <2>1, <2>10, NetTypes DEF TesterEnds, TesterPc, TypeOK
  <2> QED
    BY <1>t, <2>2, <2>3, <2>4, <2>5, <2>6, <2>7, <2>8, <2>9, <2>10 DEF Tester
<1>v. CASE UNCHANGED vars
  BY <1>v DEF vars, TypeOK
<1> QED
  BY <1>u, <1>a, <1>n, <1>s, <1>p, <1>d, <1>t, <1>v DEF Next

\* The listener a start thread created is never taken away, only replaced.
LEMMA CreatedNext == TypeOK /\ Created /\ [Next]_vars => Created'
<1> SUFFICES ASSUME TypeOK, Created, [Next]_vars PROVE Created'
  OBVIOUS
<1> USE DEF apiVars, netVars
<1>0. starters \in Seq(StarterPc)
  BY DEF TypeOK
<1>1. CASE UNCHANGED <<starters, listener>>
  BY <1>1 DEF Created
<1>2. ASSUME NEW d \in Devices, AcceptStart(d) PROVE Created'
  <2>1. starters' = Append(starters, "reset") /\ listener' = listener
    BY <1>2 DEF AcceptStart
  <2>2. \A r \in DOMAIN starters' : \/ r \in DOMAIN starters /\ starters'[r] = starters[r]
                                   \/ starters'[r] = "reset"
    BY <1>0, <2>1
  <2> QED
    BY <2>1, <2>2 DEF Created, Built
<1>3. ASSUME NEW r \in DOMAIN starters, Starter(r) PROVE Created'
  <2>1. CASE CreateNet(r)
    BY <1>0, <2>1 DEF CreateNet, StarterGoes, Created
  <2>2. CASE ~CreateNet(r)
    <3>1. PICK from, to : StarterGoes(r, from, to) /\ listener' = listener
                          /\ (to \in Built => from \in Built)
      BY <1>3, <2>2 DEF Starter, Reset, Starting, Restore, Restored, CreateFails,
         StarterExits, Validating, Validated, NetworkReady, Register, Listen, Built,
         StopNet, ForgetListener
    <3> QED
      BY <1>0, <3>1 DEF StarterGoes, Created
  <2> QED
    BY <2>1, <2>2
<1>4. ASSUME NEW i \in DOMAIN testers, Tester(i) PROVE UNCHANGED <<starters, listener>>
  BY <1>4 DEF Tester, TesterGoes, DeviceStable, InProgress, RunTestModules,
     TestsDisconnected, TestsCrash, TestsEnd, SetOutcome, TesterStopsNetwork, TesterEnds,
     StopNet, ForgetListener
<1>5. ASSUME NEW d \in Devices, NEW g \in Runs, Discovery(g, d)
      PROVE  UNCHANGED <<starters, listener>>
  BY <1>5 DEF Discovery, Goes, CheckTarget, SniffEnds, NoAddress, HasAddress, NoTarget,
     Monitor, MonitorCancelled, MonitorDisconnected, MonitorEnds, Fire
<1>6. CASE Api
  BY <1>1, <1>6 DEF Api, SetTarget, BeginStop, StopAgain, StopListener, StopTests,
     StopNetwork, StopEnds, StopNet, ForgetListener
<1>7. CASE Network
  BY <1>1, <1>7 DEF Network, Lease, Packet, CableMoves
<1>8. ASSUME NEW d \in Devices, Adopt(d) PROVE UNCHANGED <<starters, listener>>
  BY <1>8 DEF Adopt
<1>9. CASE AcceptStop
  BY <1>1, <1>9 DEF AcceptStop
<1>10. CASE UNCHANGED vars
  BY <1>1, <1>10 DEF vars
<1> QED
  BY <1>1, <1>2, <1>3, <1>4, <1>5, <1>6, <1>7, <1>8, <1>9, <1>10 DEF Next, User

\* The program begins with no thread and no listener.
LEMMA TypeInit == Init => TypeOK /\ Created
<1> SUFFICES ASSUME Init PROVE TypeOK /\ Created
  OBVIOUS
<1>1. <<>> \in Seq(StarterPc) /\ <<>> \in Seq(TesterPc) /\ Len(<<>>) = 0
  OBVIOUS
<1>2. TypeOK
  <2>1. status \in TestrunStatus /\ shown \in TestrunStatus /\ paused \in BOOLEAN
    BY StatusFacts DEF Init
  <2>2. {target, api, requested} \subseteq Devices \cup {NoDevice}
    BY DEF Init
  <2>3. starters \in Seq(StarterPc) /\ Len(starters) <= MaxRuns /\ testers \in Seq(TesterPc)
    BY <1>1, LifecycleAssumption DEF Init
  <2>4. /\ listener \in 0 .. MaxRuns /\ sniffing \subseteq Runs
        /\ callbacks \in [Runs -> SUBSET Callbacks] /\ seen \in [Runs -> SUBSET Devices]
        /\ leased \subseteq Devices /\ adopting \subseteq Devices
    BY LifecycleAssumption DEF Init
  <2>5. discovery \in [Runs \X Devices -> DiscoveryPc]
    BY DEF Init, DiscoveryPc
  <2>6. connected \in BOOLEAN /\ networkUp \in BOOLEAN
    BY DEF Init
  <2>7. queued \in 0 .. MaxStops /\ stopPc \in StopPc
    BY LifecycleAssumption DEF Init, StopPc
  <2> QED
    BY <2>1, <2>2, <2>3, <2>4, <2>5, <2>6, <2>7 DEF TypeOK
<1>3. Created
  BY <1>1 DEF Init, Created
<1> QED
  BY <1>2, <1>3

\* Every variable of a session keeps its type, for any users and devices.
THEOREM SessionTypeCorrect == Spec => []TypeOK
<1>1. TypeOK /\ Created /\ [Next]_vars => (TypeOK /\ Created)'
  BY TypeNext, CreatedNext
<1> QED
  BY TypeInit, <1>1, PTL DEF Spec

-----------------------------------------------------------------------------
(***************************************************************************)
(* The invariant of a patient user with one device.                        *)
(***************************************************************************)

\* The invariant holds of the session before its first run.
LEMMA LifeInit == OneDeviceAtATime /\ Init => LifeInv
<1> SUFFICES ASSUME OneDeviceAtATime, Init PROVE LifeInv
  OBVIOUS
<1>1. TypeOK /\ Created
  BY TypeInit
<1>2. starters = <<>> /\ testers = <<>> /\ Len(starters) = 0 /\ Now = "none"
      /\ DOMAIN starters = {} /\ DOMAIN testers = {}
  BY DEF Init, Now
<1>3. ~Discovering /\ ~Testing /\ ~Fresh
  BY <1>2 DEF Init, Discovering, Testing, Fresh
<1>4. ListenerInv
  BY <1>2 DEF Init, ListenerInv, Built
<1>5. FreshInv /\ OneInv /\ TargetInv
  BY <1>2, <1>3 DEF FreshInv, OneInv, TargetInv, Init
<1>6. OutcomeInv /\ ProgressInv
  BY <1>2, <1>3, StatusFacts DEF OutcomeInv, ProgressInv, InProgressBacked, Init, Early
<1> QED
  BY <1>1, <1>4, <1>5, <1>6 DEF LifeInv

\* What is left of the invariant once its types are known.
Rest == ListenerInv /\ FreshInv /\ OneInv /\ TargetInv /\ OutcomeInv /\ ProgressInv

\* The requests of the user: a start comes when nobody is at work.
LEMMA UserStep == LifeInv /\ User => Rest'
<1> SUFFICES ASSUME LifeInv, User PROVE Rest'
  OBVIOUS
<1> USE DEF session, apiVars, netVars, devVars, stopVars
<1>1. CASE AcceptStop
  <2>1. UNCHANGED <<session, apiVars, netVars, devVars, testers, connected, stopPc>>
    BY <1>1 DEF AcceptStop
  <2>2. UNCHANGED <<Now, Discovering, Testing, Fresh>>
    BY <2>1 DEF Now, Discovering, Testing, Fresh
  <2> QED
    BY <2>1, <2>2 DEF LifeInv, Rest, ListenerInv, FreshInv, OneInv, TargetInv, OutcomeInv,
       ProgressInv, InProgressBacked
<1>2. ASSUME NEW d \in Devices, AcceptStart(d) PROVE Rest'
  <2>1. Quiet /\ EventLoopFree /\ status \notin RunningStatus
        /\ starters' = Append(starters, "reset")
        /\ UNCHANGED <<session, netVars, devVars, testers, connected, stopVars>>
    BY <1>2 DEF AcceptStart, LifeInv, OneDeviceAtATime
  <2>2. ~Discovering /\ ~Testing
    BY <2>1 DEF Quiet, Discovering, Testing
  <2>3. ~Fresh
    BY <2>1, StatusFacts DEF LifeInv, FreshInv, EventLoopFree
  <2>4. ~Fresh'
    BY <2>1, <2>3 DEF Fresh
  <2>5. starters \in Seq(StarterPc) /\ "reset" \in StarterPc
    BY DEF LifeInv, TypeOK, StarterPc
  <2>6. /\ Now' = "reset" /\ Len(starters') = Len(starters) + 1
        /\ Len(starters) \in Nat
        /\ \A r \in DOMAIN starters' :
             r < Len(starters') => r \in DOMAIN starters /\ starters'[r] = starters[r]
    BY <2>1, <2>5, AppendProperties DEF Now
  <2>7. \A r \in DOMAIN starters : starters[r] \in {"waiting", "dead"}
    BY <2>1 DEF Quiet
  <2>8. listener' = listener /\ listener \in Nat /\ listener <= Len(starters)
    BY <2>1, LifecycleAssumption DEF LifeInv, TypeOK, ListenerInv
  <2>9. ListenerInv'
    <3>1. "reset" \notin Built /\ "reset" \notin Silent
      BY DEF Built, Silent
    <3>2. \A r \in DOMAIN starters' : r < Len(starters') => starters'[r] \in {"waiting", "dead"}
      BY <2>6, <2>7
    <3>3. listener' <= Len(starters')
      BY <2>6, <2>8
    <3>4. sniffing' \subseteq {listener'}
          /\ \A g \in Runs : callbacks'[g] \subseteq {"net", "discovered", "stable"} \X {g}
      BY <2>1 DEF LifeInv, ListenerInv
    <3> QED
      BY <2>6, <3>1, <3>2, <3>3, <3>4 DEF ListenerInv
  <2>10. FreshInv'
    BY <2>4 DEF FreshInv
  <2>11. OneInv' /\ TargetInv' /\ ProgressInv'
    BY <2>1, <2>2, NobodyElse
  <2>12. OutcomeInv'
    BY <2>1, <2>6 DEF OutcomeInv, LifeInv, Early
  <2> QED
    BY <2>9, <2>10, <2>11, <2>12 DEF Rest
<1> QED
  BY <1>1, <1>2 DEF User

\* Nothing is sniffed once the current listener has been stopped.
LEMMA NetStops ==
  ASSUME LifeInv
  PROVE  /\ sniffing \ {listener} = {}
         /\ StopNet => sniffing' = {} /\ networkUp' = FALSE
                       /\ UNCHANGED <<listener, callbacks, seen, discovery>>
         /\ ForgetListener =>
              /\ sniffing' = {} /\ UNCHANGED <<listener, networkUp, discovery>>
              /\ \A g \in Runs : callbacks'[g] \subseteq callbacks[g]
<1>1. sniffing \ {listener} = {}
  BY DEF LifeInv, ListenerInv
<1>2. StopNet => sniffing' = {} /\ networkUp' = FALSE
                 /\ UNCHANGED <<listener, callbacks, seen, discovery>>
  BY <1>1 DEF StopNet, devVars
<1>3. ASSUME ForgetListener
      PROVE  /\ sniffing' = {} /\ UNCHANGED <<listener, networkUp, discovery>>
             /\ \A g \in Runs : callbacks'[g] \subseteq callbacks[g]
  BY <1>1, <1>3 DEF ForgetListener, LifeInv, TypeOK
<1> QED
  BY <1>1, <1>2, <1>3

\* A step that stops the listener and leaves the threads alone.
LEMMA SilentStep ==
  ASSUME LifeInv, UNCHANGED <<starters, discovery, testers, listener, status, target>>,
         sniffing' = {}, networkUp' = networkUp \/ networkUp' = FALSE,
         \A g \in Runs : callbacks'[g] \subseteq callbacks[g]
  PROVE  Rest'
<1>1. Now' = Now /\ (Discovering' <=> Discovering) /\ (Testing' <=> Testing) /\ ~Fresh'
  BY DEF Now, Discovering, Testing, Fresh
<1>2. ListenerInv'
  BY <1>1 DEF LifeInv, ListenerInv
<1>3. FreshInv'
  BY <1>1 DEF FreshInv
<1>4. OneInv' /\ TargetInv'
  BY <1>1 DEF LifeInv, OneInv, TargetInv
<1>5. OutcomeInv' /\ ProgressInv'
  BY <1>1 DEF LifeInv, OutcomeInv, ProgressInv, InProgressBacked
<1> QED
  BY <1>2, <1>3, <1>4, <1>5 DEF Rest

\* A step of the API that sets the status, to one that is no outcome.
LEMMA StatusStep ==
  ASSUME LifeInv, UNCHANGED <<starters, discovery, testers, netVars, seen, target>>,
         status' \in {STOPPING, CANCELLED},
         Fresh => \/ status' = STOPPING /\ stopPc' \in {"again", "listener", "tests"}
                  \/ status' = CANCELLED /\ stopPc' = "network"
  PROVE  Rest'
<1>1. Now' = Now /\ (Discovering' <=> Discovering) /\ (Testing' <=> Testing)
      /\ (Fresh' <=> Fresh)
  BY DEF Now, Discovering, Testing, Fresh, netVars
<1>2. ListenerInv'
  BY <1>1 DEF LifeInv, ListenerInv, netVars
<1>3. FreshInv'
  BY <1>1 DEF LifeInv, FreshInv
<1>4. OneInv' /\ TargetInv'
  BY <1>1 DEF LifeInv, OneInv, TargetInv
<1>5. status' \notin OutcomeStatus /\ status' # IN_PROGRESS
  BY StatusFacts
<1>6. OutcomeInv' /\ ProgressInv'
  BY <1>5 DEF OutcomeInv, ProgressInv, InProgressBacked
<1> QED
  BY <1>2, <1>3, <1>4, <1>6 DEF Rest

\* The stop, and the target that a request sets after its thread is started.
LEMMA ApiStep == LifeInv /\ Api => Rest'
<1> SUFFICES ASSUME LifeInv, Api PROVE Rest'
  OBVIOUS
<1> USE DEF session, apiVars, netVars, devVars, stopVars
<1>1. CASE SetTarget
  <2>1. UNCHANGED <<status, starters, netVars, devVars, testers, stopVars>>
        /\ target' # NoDevice
    BY <1>1 DEF SetTarget
  <2>2. UNCHANGED <<Now, Discovering, Testing, Fresh>>
    BY <2>1 DEF Now, Discovering, Testing, Fresh
  <2> QED
    BY <2>1, <2>2 DEF LifeInv, Rest, ListenerInv, FreshInv, OneInv, TargetInv, OutcomeInv,
       ProgressInv, InProgressBacked
<1>2. CASE BeginStop
  <2>1. status' = STOPPING /\ stopPc' = "again"
        /\ UNCHANGED <<target, apiVars, netVars, devVars, testers>>
    BY <1>2 DEF BeginStop, SetStatus
  <2> QED
    BY <2>1, StatusStep
<1>3. CASE StopAgain
  <2>1. status' = STOPPING /\ stopPc' = "listener"
        /\ UNCHANGED <<target, apiVars, netVars, devVars, testers>>
    BY <1>3 DEF StopAgain, SetStatus
  <2> QED
    BY <2>1, StatusStep
<1>4. CASE StopListener
  <2>1. sniffing' = {} /\ UNCHANGED <<session, apiVars, listener, callbacks, networkUp,
                                     devVars, testers>>
    BY <1>4, NetStops DEF StopListener
  <2> QED
    BY <2>1, SilentStep
<1>5. CASE StopTests
  <2>1. status' = CANCELLED /\ stopPc' = "network"
        /\ UNCHANGED <<target, apiVars, netVars, devVars, testers>>
    BY <1>5 DEF StopTests, SetStatus
  <2> QED
    BY <2>1, StatusStep
<1>6. CASE StopNetwork
  <2>1. sniffing' = {} /\ networkUp' = FALSE
        /\ UNCHANGED <<session, apiVars, listener, callbacks, discovery, testers>>
    BY <1>6, NetStops DEF StopNetwork
  <2> QED
    BY <2>1, SilentStep
<1>7. CASE StopEnds
  <2>1. /\ sniffing' = {} /\ \A g \in Runs : callbacks'[g] \subseteq callbacks[g]
        /\ UNCHANGED <<session, apiVars, listener, networkUp, discovery, testers>>
    BY <1>7, NetStops DEF StopEnds
  <2> QED
    BY <2>1, SilentStep
<1> QED
  BY <1>1, <1>2, <1>3, <1>4, <1>5, <1>6, <1>7 DEF Api

\* The network: a packet of the device starts one discovery, and a second can
\* come only from a listener that is started anew.
LEMMA NetworkStep == LifeInv /\ Network => Rest'
<1> SUFFICES ASSUME LifeInv, Network PROVE Rest'
  OBVIOUS
<1> USE DEF session, apiVars, netVars, devVars, stopVars
<1>1. ASSUME UNCHANGED <<session, apiVars, netVars, seen, discovery, testers, stopVars>>
      PROVE  Rest'
  <2>1. UNCHANGED <<Now, Discovering, Testing, Fresh>>
    BY <1>1 DEF Now, Discovering, Testing, Fresh
  <2> QED
    BY <1>1, <2>1 DEF LifeInv, Rest, ListenerInv, FreshInv, OneInv, TargetInv, OutcomeInv,
       ProgressInv, InProgressBacked
<1>2. ASSUME NEW d \in Devices, NEW g \in Runs, Packet(g, d) PROVE Rest'
  <2>1. g \in sniffing /\ d \notin seen[g] /\ seen' = [seen EXCEPT ![g] = @ \cup {d}]
        /\ discovery' \in {discovery, [discovery EXCEPT ![<<g, d>>] = "check"]}
        /\ UNCHANGED <<session, apiVars, netVars, testers, stopVars>>
    BY <1>2 DEF Packet
  <2>2. Fresh /\ Now = "waiting" /\ ~Discovering /\ ~Testing
        /\ status \in {WAITING_FOR_DEVICE, STOPPING, CANCELLED}
    BY <2>1 DEF Fresh, LifeInv, FreshInv
  <2>3. Now' = Now /\ ~Testing'
    BY <2>1, <2>2 DEF Now, Testing
  <2>4. ~Fresh'
    BY <2>1 DEF Fresh, LifeInv, OneDeviceAtATime, ListenerInv, TypeOK
  <2>5. ListenerInv'
    BY <2>1, <2>3 DEF LifeInv, ListenerInv
  <2>6. FreshInv'
    BY <2>4 DEF FreshInv
  <2>7. DOMAIN discovery' = DOMAIN discovery
        /\ \A x \in DOMAIN discovery' : \/ discovery'[x] = discovery[x]
                                        \/ x = <<g, d>> /\ discovery'[x] = "check"
    BY <2>1 DEF LifeInv, TypeOK
  <2>8. \A x \in DOMAIN discovery : discovery[x] \in {"none", "done"}
    BY <2>2 DEF Discovering
  <2>9. OneInv'
    BY <2>1, <2>2, <2>3, <2>7, <2>8 DEF OneInv, LifeInv
  <2>10. TargetInv'
    BY <2>1, <2>3, <2>7, <2>8 DEF TargetInv
  <2>11. OutcomeInv'
    BY <2>1, <2>3 DEF OutcomeInv, LifeInv
  <2>12. ProgressInv'
    BY <2>1, <2>2, StatusFacts DEF ProgressInv, LifeInv, InProgressBacked
  <2> QED
    BY <2>5, <2>6, <2>9, <2>10, <2>11, <2>12 DEF Rest
<1>3. ASSUME NEW d \in Devices, Lease(d)
      PROVE  UNCHANGED <<session, apiVars, netVars, seen, discovery, testers, stopVars>>
  BY <1>3 DEF Lease
<1>4. CASE CableMoves
  BY <1>1, <1>4 DEF CableMoves
<1> QED
  BY <1>1, <1>2, <1>3, <1>4 DEF Network

\* The device becomes the target when there is none.
LEMMA AdoptStep == \A d \in Devices : LifeInv /\ Adopt(d) => Rest'
<1> SUFFICES ASSUME NEW d \in Devices, LifeInv, Adopt(d) PROVE Rest'
  OBVIOUS
<1> USE DEF session, apiVars, netVars, devVars, stopVars
<1>1. UNCHANGED <<status, apiVars, netVars, seen, discovery, testers, stopVars>>
      /\ (target # NoDevice => target' # NoDevice)
  BY DEF Adopt
<1>2. UNCHANGED <<Now, Discovering, Testing, Fresh>>
  BY <1>1 DEF Now, Discovering, Testing, Fresh
<1> QED
  BY <1>1, <1>2 DEF LifeInv, Rest, ListenerInv, FreshInv, OneInv, TargetInv, OutcomeInv,
     ProgressInv, InProgressBacked

\* What a step of the start thread has to do for the invariant.
LEMMA StarterRest ==
  ASSUME LifeInv, NEW r \in DOMAIN starters, NEW from \in StarterPc, NEW to \in StarterPc,
         from \notin {"waiting", "dead"}, StarterGoes(r, from, to),
         UNCHANGED <<discovery, testers>>,
         sniffing' \subseteq {listener'}, listener' <= Len(starters),
         to \in Built => listener' = Len(starters),
         to \in Silent => sniffing' = {},
         \A g \in Runs : callbacks'[g] \subseteq {"net", "discovered", "stable"} \X {g},
         ~Fresh' \/ (to = "waiting" /\ status' = WAITING_FOR_DEVICE),
         to \in Early => status' \notin OutcomeStatus,
         status' \in OutcomeStatus => ~networkUp' \/ (networkUp /\ status' = status),
         status' # IN_PROGRESS \/ status' = status
  PROVE  Rest'
<1>1. /\ Now' = to /\ ~Discovering /\ ~Testing
      /\ Len(starters') = Len(starters)
      /\ \A q \in DOMAIN starters' :
           q < Len(starters') => starters'[q] \in {"waiting", "dead"}
  BY StarterStep
<1>2. ~Discovering' /\ ~Testing'
  BY <1>1 DEF Discovering, Testing
<1>3. ListenerInv'
  BY <1>1 DEF ListenerInv
<1>4. FreshInv'
  BY <1>1, <1>2 DEF FreshInv
<1>5. OneInv' /\ TargetInv' /\ ProgressInv'
  BY <1>1, NobodyElse
<1>6. OutcomeInv'
  BY <1>1 DEF OutcomeInv, LifeInv
<1> QED
  BY <1>3, <1>4, <1>5, <1>6 DEF Rest

\* Testrun.start and network_orchestrator.start, one place at a time.
LEMMA StarterSteps == \A r \in DOMAIN starters : LifeInv /\ Starter(r) => Rest'
<1> SUFFICES ASSUME NEW r \in DOMAIN starters, LifeInv, Starter(r) PROVE Rest'
  OBVIOUS
<1> USE DEF session, netVars, devVars
<1>1. /\ \A g \in Runs : callbacks[g] \subseteq {"net", "discovered", "stable"} \X {g}
      /\ sniffing \subseteq {listener} /\ listener <= Len(starters)
      /\ Now \in Built => listener = Len(starters)
      /\ Now \in Silent => sniffing = {}
      /\ Now \in Early => status \notin OutcomeStatus
  BY DEF LifeInv, ListenerInv, OutcomeInv
<1>2. ASSUME NEW from \in StarterPc \ {"waiting", "dead"}, NEW to \in StarterPc,
             StarterGoes(r, from, to)
      PROVE  r = Len(starters) /\ r \in Runs /\ Now = from /\ ~Fresh
  BY <1>2, StarterStep
<1>3. ASSUME UNCHANGED <<sniffing, seen>>, ~Fresh PROVE ~Fresh'
  BY <1>3 DEF Fresh
<1>4. ASSUME sniffing' = {} PROVE ~Fresh'
  BY <1>4 DEF Fresh
<1>5. CASE Reset(r)
  <2>1. StarterGoes(r, "reset", "starting") /\ status' = IDLE
        /\ UNCHANGED <<netVars, devVars, testers>>
    BY <1>5 DEF Reset
  <2>2. "reset" \in StarterPc /\ "starting" \in StarterPc
    BY DEF StarterPc
  <2> QED
    BY <1>1, <1>2, <1>3, <2>1, <2>2, StarterRest, StatusFacts DEF Built, Silent
<1>6. CASE Starting(r)
  <2>1. StarterGoes(r, "starting", "restore") /\ status' = STARTING
        /\ UNCHANGED <<netVars, devVars, testers>>
    BY <1>6 DEF Starting
  <2>2. "starting" \in StarterPc /\ "restore" \in StarterPc
    BY DEF StarterPc
  <2> QED
    BY <1>1, <1>2, <1>3, <2>1, <2>2, StarterRest, StatusFacts DEF Built, Silent
<1>7. CASE Restore(r)
  <2>1. StarterGoes(r, "restore", "forget") /\ sniffing' = {} /\ networkUp' = FALSE
        /\ UNCHANGED <<session, listener, callbacks, discovery, testers>>
    BY <1>7, NetStops DEF Restore
  <2>2. "restore" \in StarterPc \cap Early /\ "forget" \in StarterPc
    BY DEF StarterPc, Early
  <2> QED
    BY <1>1, <1>2, <1>4, <2>1, <2>2, StarterRest DEF Built
<1>8. CASE Restored(r)
  <2>1. StarterGoes(r, "forget", "create") /\ sniffing' = {}
        /\ UNCHANGED <<session, listener, networkUp, discovery, testers>>
        /\ \A g \in Runs : callbacks'[g] \subseteq callbacks[g]
    BY <1>8, NetStops DEF Restored
  <2>2. "forget" \in StarterPc \cap Early /\ "create" \in StarterPc
    BY DEF StarterPc, Early
  <2> QED
    BY <1>1, <1>2, <1>4, <2>1, <2>2, StarterRest DEF Built
<1>9. CASE CreateNet(r)
  <2> DEFINE to == IF Validate THEN "validate" ELSE "ready"
  <2>1. StarterGoes(r, "create", to) /\ listener' = r
        /\ callbacks' = [callbacks EXCEPT ![r] = {<<"net", r>>}]
        /\ UNCHANGED <<session, sniffing, devVars, testers>>
    BY <1>9 DEF CreateNet
  <2>2. "create" \in StarterPc \cap Early \cap Silent /\ to \in StarterPc \cap Silent
    BY DEF StarterPc, Early, Silent
  <2>3. r = Len(starters) /\ Now = "create" /\ ~Fresh /\ r \in Nat
    BY <1>2, <2>1, <2>2, LifecycleAssumption DEF Runs
  <2>4. sniffing' = {} /\ status' \notin OutcomeStatus /\ status' = status
    BY <1>1, <2>1, <2>2, <2>3
  <2>5. \A g \in Runs : callbacks'[g] \subseteq {"net", "discovered", "stable"} \X {g}
    BY <1>1, <2>1 DEF LifeInv, TypeOK
  <2> QED
    BY <1>4, <2>1, <2>2, <2>3, <2>4, <2>5, StarterRest
<1>10. CASE CreateFails(r)
  <2>1. StarterGoes(r, "create", "failed") /\ sniffing' = {} /\ networkUp' = FALSE
        /\ UNCHANGED <<session, listener, callbacks, discovery, testers>>
    BY <1>10, NetStops DEF CreateFails
  <2>2. "create" \in StarterPc \cap Early /\ "failed" \in StarterPc
    BY DEF StarterPc, Early
  <2> QED
    BY <1>1, <1>2, <1>4, <2>1, <2>2, StarterRest DEF Built
<1>11. CASE StarterExits(r)
  <2>1. StarterGoes(r, "failed", "dead") /\ sniffing' = {}
        /\ UNCHANGED <<session, listener, networkUp, discovery, testers>>
        /\ \A g \in Runs : callbacks'[g] \subseteq callbacks[g]
    BY <1>11, NetStops DEF StarterExits
  <2>2. "failed" \in StarterPc \cap Early /\ "dead" \in StarterPc
    BY DEF StarterPc, Early
  <2> QED
    BY <1>1, <1>2, <1>4, <2>1, <2>2, StarterRest DEF Built
<1>12. ASSUME NEW from \in StarterPc \cap Built \cap Silent, NEW to \in StarterPc \cap Built,
              StarterGoes(r, from, to),
              to \in Silent, status' \notin OutcomeStatus \/ (status' = status /\ from \in Early),
              status' # IN_PROGRESS \/ status' = status,
              UNCHANGED <<netVars, devVars, testers>>
       PROVE  Rest'
  <2>1. from \notin {"waiting", "dead"}
    BY <1>12 DEF Silent, Built
  <2>2. r = Len(starters) /\ Now = from /\ ~Fresh
    BY <1>2, <1>12, <2>1
  <2> QED
    BY <1>1, <1>3, <1>12, <2>1, <2>2, StarterRest
<1>13. CASE Validating(r)
  <2>1. StarterGoes(r, "validate", "validated") /\ status' = VALIDATING
        /\ UNCHANGED <<netVars, devVars, testers>>
    BY <1>13 DEF Validating, SetStatus
  <2> QED
    BY <1>12, <2>1, StatusFacts DEF StarterPc, Built, Silent, Early
<1>14. CASE Validated(r)
  <2>1. StarterGoes(r, "validated", "ready") /\ status' = status
        /\ UNCHANGED <<netVars, devVars, testers>>
    BY <1>14 DEF Validated
  <2> QED
    BY <1>12, <2>1 DEF StarterPc, Built, Silent, Early
<1>15. CASE NetworkReady(r)
  <2>1. StarterGoes(r, "ready", "register") /\ status' = WAITING_FOR_DEVICE
        /\ UNCHANGED <<netVars, devVars, testers>>
    BY <1>15 DEF NetworkReady, SetStatus
  <2> QED
    BY <1>12, <2>1, StatusFacts DEF StarterPc, Built, Silent, Early
<1>16. CASE Register(r)
  <2>1. StarterGoes(r, "register", "listen")
        /\ callbacks' = [callbacks EXCEPT ![listener] =
                           @ \cup {<<"discovered", r>>, <<"stable", r>>}]
        /\ UNCHANGED <<session, listener, sniffing, networkUp, devVars, testers>>
    BY <1>16 DEF Register
  <2>2. "register" \in StarterPc \cap Early \cap Silent \cap Built
        /\ "listen" \in StarterPc \cap Silent
    BY DEF StarterPc, Early, Silent, Built
  <2>3. r = Len(starters) /\ Now = "register" /\ ~Fresh /\ listener = r
    BY <1>1, <1>2, <2>1, <2>2
  <2>4. \A g \in Runs : callbacks'[g] \subseteq {"net", "discovered", "stable"} \X {g}
    BY <1>1, <2>1, <2>3 DEF LifeInv, TypeOK
  <2> QED
    BY <1>1, <1>3, <2>1, <2>2, <2>3, <2>4, StarterRest
<1>17. CASE Listen(r)
  <2>1. StarterGoes(r, "listen", "waiting") /\ sniffing' = sniffing \cup {listener}
        /\ status' = WAITING_FOR_DEVICE
        /\ UNCHANGED <<listener, callbacks, networkUp, devVars, testers>>
    BY <1>17 DEF Listen, SetStatus
  <2>2. "listen" \in StarterPc \cap Built /\ "waiting" \in StarterPc /\ "waiting" \notin Silent
    BY DEF StarterPc, Silent, Built
  <2> QED
    BY <1>1, <1>2, <2>1, <2>2, StarterRest, StatusFacts
<1> QED
  BY <1>5, <1>6, <1>7, <1>8, <1>9, <1>10, <1>11, <1>13, <1>14, <1>15, <1>16, <1>17 DEF Starter

\* A step of the discovery that starts no tests.
LEMMA DiscoveryRest ==
  ASSUME LifeInv, NEW g \in Runs, NEW d \in Devices,
         NEW from \in DiscoveryPc \ {"none", "done"}, NEW to \in DiscoveryPc,
         Goes(<<g, d>>, from, to), UNCHANGED <<testers, target>>,
         to \in {"monitor", "monitoring", "fire"} => target # NoDevice,
         status' \in {status, CANCELLED, MONITORING}
  PROVE  Rest'
<1>1. /\ Now' = "waiting" /\ ListenerInv' /\ FreshInv' /\ ~Testing /\ Discovering
      /\ discovery' \in [Runs \X Devices -> DiscoveryPc]
      /\ \A x \in DOMAIN discovery' :
           discovery'[x] \notin {"none", "done"} => x = <<g, d>>
      /\ discovery'[<<g, d>>] = to
  BY DiscoveryStep
<1>2. ~Testing'
  BY <1>1 DEF Testing
<1>3. OneInv'
  BY <1>1, <1>2 DEF OneInv, LifeInv
<1>4. TargetInv'
  BY <1>1, <1>2 DEF TargetInv
<1>5. status \notin {IN_PROGRESS} /\ status' # IN_PROGRESS
  BY <1>1, StatusFacts DEF LifeInv, ProgressInv
<1>6. networkUp' = networkUp
  BY DEF Goes, netVars
<1>7. OutcomeInv'
  BY <1>1, <1>6, StatusFacts DEF OutcomeInv, LifeInv, Early
<1>8. ProgressInv'
  BY <1>5 DEF ProgressInv, InProgressBacked
<1> QED
  BY <1>1, <1>3, <1>4, <1>7, <1>8 DEF Rest

\* Nothing or one value put at the end of a sequence.
LEMMA OneMore ==
  ASSUME NEW S, NEW s \in Seq(S), NEW u \in Seq(S)
  PROVE  /\ s \o u \in Seq(S)
         /\ Len(u) = 0 => s \o u = s
         /\ Len(u) = 1 =>
              /\ Len(s \o u) = Len(s) + 1 /\ (s \o u)[Len(s) + 1] = u[1]
              /\ \A i \in 1 .. Len(s) : (s \o u)[i] = s[i]
<1> DEFINE t == s \o u
<1>1. t \in Seq(S) /\ Len(t) = Len(s) + Len(u)
  OBVIOUS
<1>2. \A i \in 1 .. Len(s) : t[i] = s[i]
  OBVIOUS
<1>3. ASSUME Len(u) = 1 PROVE t[Len(s) + 1] = u[1]
  <2>1. Len(s) \in Nat /\ Len(u) \in Nat
    OBVIOUS
  <2>2. \A i \in 1 .. Len(s) + Len(u) :
          t[i] = IF i <= Len(s) THEN s[i] ELSE u[i - Len(s)]
    BY ConcatProperties
  <2>3. Len(s) + 1 \in 1 .. Len(s) + Len(u) /\ ~(Len(s) + 1 <= Len(s))
        /\ Len(s) + 1 - Len(s) = 1
    BY <1>3, <2>1
  <2> HIDE DEF t
  <2> QED
    BY <2>2, <2>3
<1>4. ASSUME Len(u) = 0 PROVE t = s
  <2>1. u = <<>>
    BY <1>4, EmptySeq
  <2> QED
    BY <2>1, ConcatEmptySeq
<1> QED
  BY <1>1, <1>2, <1>3, <1>4

\* The threads that are started are all at their check.
LEMMA Checks ==
  ASSUME NEW n \in Nat, NEW S, "check" \in S
  PROVE  /\ [i \in 1 .. n |-> "check"] \in Seq(S)
         /\ Len([i \in 1 .. n |-> "check"]) = n
         /\ n = 1 => [i \in 1 .. n |-> "check"][1] = "check"
OBVIOUS
\* The end of the monitoring calls back one thread, of the current listener's
\* start, or none.
LEMMA OneThread ==
  ASSUME LifeInv,
         NEW S, S = {r \in Runs : listener # 0 /\ <<"stable", r>> \in callbacks[listener]},
         NEW t, t = testers \o [i \in 1 .. Cardinality(S) |-> "check"]
  PROVE  /\ t \in Seq(TesterPc)
         /\ \/ t = testers
            \/ /\ Len(t) = Len(testers) + 1 /\ t[Len(t)] = "check"
               /\ \A i \in 1 .. Len(testers) : t[i] = testers[i]
<1>1. testers \in Seq(TesterPc) /\ listener \in 0 .. MaxRuns
  BY DEF LifeInv, TypeOK
<1>2. S \subseteq {listener}
  <2> SUFFICES ASSUME NEW r \in S PROVE r = listener
    OBVIOUS
  <2>1. listener \in Runs /\ <<"stable", r>> \in callbacks[listener]
    BY <1>1, LifecycleAssumption DEF Runs
  <2>2. callbacks[listener] \subseteq {"net", "discovered", "stable"} \X {listener}
    BY <2>1 DEF LifeInv, ListenerInv
  <2> QED
    BY <2>1, <2>2
<1>3. ASSUME NEW n \in {0, 1}, Cardinality(S) = n
      PROVE  /\ t \in Seq(TesterPc)
             /\ n = 0 => t = testers
             /\ n = 1 => /\ Len(t) = Len(testers) + 1 /\ t[Len(t)] = "check"
                        /\ \A i \in 1 .. Len(testers) : t[i] = testers[i]
  <2> DEFINE u == [i \in 1 .. n |-> "check"]
  <2>1. u \in Seq(TesterPc) /\ Len(u) = n /\ (n = 1 => u[1] = "check")
    BY Checks DEF TesterPc
  <2>2. t = testers \o u
    BY <1>3
  <2> HIDE DEF u
  <2>3. /\ testers \o u \in Seq(TesterPc)
        /\ Len(u) = 0 => testers \o u = testers
        /\ Len(u) = 1 =>
             /\ Len(testers \o u) = Len(testers) + 1
             /\ (testers \o u)[Len(testers) + 1] = u[1]
             /\ \A i \in 1 .. Len(testers) : (testers \o u)[i] = testers[i]
    BY <1>1, <2>1, OneMore
  <2> QED
    BY <2>1, <2>2, <2>3
<1>4. Cardinality(S) = 0 \/ Cardinality(S) = 1
  <2>1. S = {} \/ S = {listener}
    BY <1>2
  <2>2. CASE S = {}
    BY <2>2, FS_EmptySet
  <2>3. CASE S = {listener}
    BY <2>3, FS_Singleton
  <2> QED
    BY <2>1, <2>2, <2>3
<1> QED
  BY <1>3, <1>4

\* The wait for the address and the monitoring of the device.
LEMMA DiscoverySteps ==
  \A d \in Devices, g \in Runs : LifeInv /\ Discovery(g, d) => Rest'
<1> SUFFICES ASSUME NEW d \in Devices, NEW g \in Runs, LifeInv, Discovery(g, d) PROVE Rest'
  OBVIOUS
<1> USE DEF session
<1>1. /\ discovery[<<g, d>>] \in {"monitor", "monitoring", "fire"} => target # NoDevice
      /\ {"check", "sniff", "conf", "monitor", "monitoring", "fire"}
           \subseteq DiscoveryPc \ {"none", "done"}
      /\ "done" \in DiscoveryPc
  BY DEF LifeInv, TargetInv, TypeOK, DiscoveryPc
<1>2. CASE CheckTarget(g, d)
  BY <1>1, <1>2, DiscoveryRest DEF CheckTarget
<1>3. CASE SniffEnds(g, d)
  BY <1>1, <1>3, DiscoveryRest DEF SniffEnds
<1>4. CASE NoAddress(g, d)
  BY <1>1, <1>4, DiscoveryRest DEF NoAddress, SetStatus
<1>5. CASE HasAddress(g, d)
  BY <1>1, <1>5, DiscoveryRest DEF HasAddress
<1>6. CASE NoTarget(g, d)
  BY <1>1, <1>6, DiscoveryRest DEF NoTarget
<1>7. CASE Monitor(g, d)
  <2>1. Goes(<<g, d>>, "monitor", "monitoring") /\ status' = MONITORING
        /\ UNCHANGED <<testers, target>>
    BY <1>7 DEF Monitor, SetStatus
  <2>2. target # NoDevice
    BY <1>1, <2>1 DEF Goes
  <2> QED
    BY <1>1, <2>1, <2>2, DiscoveryRest
<1>8. CASE MonitorCancelled(g, d)
  BY <1>1, <1>8, DiscoveryRest DEF MonitorCancelled
<1>9. CASE MonitorDisconnected(g, d)
  <2>1. PICK pc \in {"fire", "monitoring"} : Goes(<<g, d>>, "monitoring", pc)
    BY <1>9 DEF MonitorDisconnected
  <2>2. status' = CANCELLED /\ UNCHANGED <<testers, target>>
    BY <1>9 DEF MonitorDisconnected, SetStatus
  <2>3. target # NoDevice
    BY <1>1, <2>1 DEF Goes
  <2> QED
    BY <1>1, <2>1, <2>2, <2>3, DiscoveryRest
<1>10. CASE MonitorEnds(g, d)
  <2>1. Goes(<<g, d>>, "monitoring", "fire") /\ UNCHANGED <<session, testers>>
    BY <1>10 DEF MonitorEnds
  <2>2. target # NoDevice
    BY <1>1, <2>1 DEF Goes
  <2> QED
    BY <1>1, <2>1, <2>2, DiscoveryRest
<1>11. CASE Fire(g, d)
  <2>1. Goes(<<g, d>>, "fire", "done") /\ UNCHANGED session
        /\ testers' = testers \o
             [i \in 1 .. Cardinality({r \in Runs : listener # 0
                                      /\ <<"stable", r>> \in callbacks[listener]}) |-> "check"]
    BY <1>11 DEF Fire
  <2>2. target # NoDevice
    BY <1>1, <2>1 DEF Goes
  <2>3. /\ Now' = "waiting" /\ ListenerInv' /\ FreshInv' /\ ~Testing /\ Discovering
        /\ discovery' \in [Runs \X Devices -> DiscoveryPc]
        /\ \A x \in DOMAIN discovery' :
             discovery'[x] \notin {"none", "done"} => x = <<g, d>>
        /\ discovery'[<<g, d>>] = "done"
    BY <1>1, <2>1, DiscoveryStep
  <2>4. ~Discovering' /\ \A x \in DOMAIN discovery' : discovery'[x] \in {"none", "done"}
    BY <2>3 DEF Discovering
  <2>5. /\ testers' \in Seq(TesterPc) /\ testers \in Seq(TesterPc)
        /\ \/ testers' = testers
           \/ /\ Len(testers') = Len(testers) + 1 /\ testers'[Len(testers')] = "check"
              /\ \A i \in 1 .. Len(testers) : testers'[i] = testers[i]
    BY <2>1, OneThread DEF LifeInv, TypeOK
  <2>6. \A i \in DOMAIN testers : testers[i] \in {"done", "dead"}
    BY <2>3 DEF Testing
  <2>7. \A i \in DOMAIN testers' : testers'[i] \notin {"done", "dead"} => i = Len(testers')
    BY <2>5, <2>6
  <2>8. OneInv'
    BY <2>3, <2>4, <2>7 DEF OneInv
  <2>9. TargetInv'
    BY <2>1, <2>2, <2>4 DEF TargetInv
  <2>10. status' # IN_PROGRESS /\ ProgressInv'
    BY <2>1, <2>3, <2>4 DEF ProgressInv, LifeInv, InProgressBacked
  <2>11. ~(networkUp /\ status \in OutcomeStatus)
    BY <2>6 DEF LifeInv, OutcomeInv
  <2>12. OutcomeInv'
    BY <2>1, <2>3, <2>11 DEF OutcomeInv, Early, Goes, netVars
  <2> QED
    BY <2>3, <2>8, <2>9, <2>10, <2>12 DEF Rest
<1> QED
  BY <1>2, <1>3, <1>4, <1>5, <1>6, <1>7, <1>8, <1>9, <1>10, <1>11 DEF Discovery

\* A step of the thread that tests.
LEMMA TesterRest ==
  ASSUME LifeInv, NEW i \in DOMAIN testers,
         NEW from \in TesterPc \ {"done", "dead"}, NEW to \in TesterPc,
         TesterGoes(i, from, to), UNCHANGED <<discovery, target, listener>>,
         sniffing' = {} \/ UNCHANGED <<sniffing, seen>>,
         \A g \in Runs : callbacks'[g] \subseteq callbacks[g],
         networkUp' /\ status' \in OutcomeStatus =>
           to = "network" \/ (networkUp /\ from # "network" /\ status' = status),
         status' = IN_PROGRESS => to \in {"enter", "testing", "outcome", "dead"}
  PROVE  Rest'
<1>1. /\ i = Len(testers) /\ ~Discovering /\ ~Fresh
      /\ Now = "waiting" /\ Now' = "waiting" /\ target # NoDevice
      /\ testers' \in Seq(TesterPc) /\ Len(testers') = Len(testers) /\ testers' # <<>>
      /\ \A j \in DOMAIN testers' : testers'[j] \notin {"done", "dead"} => j = Len(testers')
      /\ testers'[i] = to /\ i \in DOMAIN testers'
      /\ starters' = starters
  BY TesterStep
<1>2. ~Discovering'
  BY <1>1 DEF Discovering
<1>3. sniffing' \subseteq {listener} /\ ~Fresh'
  BY <1>1 DEF Fresh, LifeInv, ListenerInv
<1>4. ListenerInv'
  BY <1>1, <1>3 DEF ListenerInv, LifeInv, Silent, Built
<1>5. FreshInv'
  BY <1>3 DEF FreshInv
<1>6. OneInv'
  <2>1. \A x, y \in DOMAIN discovery' :
          discovery'[x] \notin {"none", "done"} /\ discovery'[y] \notin {"none", "done"}
            => x = y
    BY DEF LifeInv, OneInv
  <2> QED
    BY <1>1, <1>2, <2>1 DEF OneInv
<1>7. TargetInv'
  BY <1>1 DEF TargetInv, LifeInv
<1>8. ASSUME networkUp /\ status \in OutcomeStatus PROVE from = "network"
  <2>1. PICK j \in DOMAIN testers : testers[j] = "network"
    BY <1>8 DEF LifeInv, OutcomeInv
  <2>2. j = i
    BY <1>1, <2>1 DEF LifeInv, OneInv
  <2> QED
    BY <2>1, <2>2 DEF TesterGoes
<1>9. OutcomeInv'
  <2>1. networkUp' /\ status' \in OutcomeStatus => to = "network"
    BY <1>8
  <2> QED
    BY <1>1, <2>1 DEF OutcomeInv, Early
<1>10. ProgressInv'
  <2>1. status' = IN_PROGRESS =>
          testers'[Len(testers')] \in {"enter", "testing", "outcome", "dead"}
    BY <1>1
  <2> QED
    BY <1>1, <1>2, <2>1 DEF ProgressInv, InProgressBacked
<1> QED
  BY <1>4, <1>5, <1>6, <1>7, <1>9, <1>10 DEF Rest

\* In Progress is there only while the modules are run, or are about to be.
LEMMA TesterProgress ==
  ASSUME LifeInv, NEW i \in DOMAIN testers,
         NEW from \in {"check", "begin", "network", "forget"},
         NEW to \in TesterPc, TesterGoes(i, from, to)
  PROVE  status # IN_PROGRESS
<1>1. from \in TesterPc \ {"done", "dead"}
  BY DEF TesterPc
<1>2. i = Len(testers)
  BY <1>1, TesterStep
<1> QED
  BY <1>2 DEF TesterGoes, LifeInv, ProgressInv, InProgressBacked

\* _device_stable, one place at a time.
LEMMA TesterSteps == \A i \in DOMAIN testers : LifeInv /\ Tester(i) => Rest'
<1> SUFFICES ASSUME NEW i \in DOMAIN testers, LifeInv, Tester(i) PROVE Rest'
  OBVIOUS
<1> USE DEF session, netVars, devVars
<1>1. {"check", "begin", "enter", "testing", "outcome", "network", "forget"}
        \subseteq TesterPc \ {"done", "dead"}
      /\ {"done", "dead"} \subseteq TesterPc
  BY DEF TesterPc
<1>2. ASSUME NEW from \in TesterPc \ {"done", "dead", "network"}, NEW to \in TesterPc,
             TesterGoes(i, from, to), UNCHANGED <<target, netVars, devVars>>,
             status' \in OutcomeStatus => to = "network" \/ status' = status,
             status' = IN_PROGRESS => to \in {"enter", "testing", "outcome", "dead"}
      PROVE  Rest'
  <2>1. networkUp' /\ status' \in OutcomeStatus =>
          to = "network" \/ (networkUp /\ from # "network" /\ status' = status)
    BY <1>2
  <2> QED
    BY <1>2, <2>1, TesterRest
<1>3. CASE DeviceStable(i)
  <2> DEFINE to == IF status = CANCELLED THEN "network" ELSE "begin"
  <2>1. TesterGoes(i, "check", to) /\ status' = status
        /\ UNCHANGED <<target, netVars, devVars>> /\ to \in TesterPc
    BY <1>1, <1>3 DEF DeviceStable
  <2>2. status # IN_PROGRESS
    BY <2>1, TesterProgress
  <2> HIDE DEF to
  <2> QED
    BY <1>1, <1>2, <2>1, <2>2
<1>4. CASE InProgress(i)
  <2>1. TesterGoes(i, "begin", "enter") /\ status' = IN_PROGRESS
        /\ UNCHANGED <<target, netVars, devVars>>
    BY <1>4 DEF InProgress, SetStatus
  <2> QED
    BY <1>1, <1>2, <2>1, StatusFacts
<1>5. CASE RunTestModules(i)
  <2> DEFINE to == IF status = IN_PROGRESS THEN "testing" ELSE "network"
  <2>1. TesterGoes(i, "enter", to) /\ status' = status
        /\ UNCHANGED <<target, netVars, devVars>> /\ to \in TesterPc
    BY <1>1, <1>5 DEF RunTestModules
  <2>2. status' = IN_PROGRESS => to = "testing"
    BY <2>1
  <2> HIDE DEF to
  <2> QED
    BY <1>1, <1>2, <2>1, <2>2
<1>6. CASE TestsDisconnected(i)
  <2>1. TesterGoes(i, "testing", "network") /\ status' = CANCELLED
        /\ UNCHANGED <<target, netVars, devVars>>
    BY <1>6 DEF TestsDisconnected, SetStatus
  <2> QED
    BY <1>1, <1>2, <2>1, StatusFacts
<1>7. CASE TestsCrash(i)
  <2>1. TesterGoes(i, "testing", "dead") /\ status' = status
        /\ UNCHANGED <<target, netVars, devVars>>
    BY <1>7 DEF TestsCrash
  <2> QED
    BY <1>1, <1>2, <2>1
<1>8. CASE TestsEnd(i)
  <2> DEFINE to == IF status = IN_PROGRESS THEN "outcome" ELSE "network"
  <2>1. TesterGoes(i, "testing", to) /\ status' = status
        /\ UNCHANGED <<target, netVars, devVars>> /\ to \in TesterPc
    BY <1>1, <1>8 DEF TestsEnd
  <2>2. status' = IN_PROGRESS => to = "outcome"
    BY <2>1
  <2> HIDE DEF to
  <2> QED
    BY <1>1, <1>2, <2>1, <2>2
<1>9. CASE SetOutcome(i)
  <2>1. TesterGoes(i, "outcome", "network") /\ status' \in OutcomeStatus
        /\ UNCHANGED <<target, netVars, devVars>>
    BY <1>9 DEF SetOutcome, SetStatus
  <2> QED
    BY <1>1, <1>2, <2>1, StatusFacts
<1>10. CASE TesterStopsNetwork(i)
  <2>1. TesterGoes(i, "network", "forget") /\ status' = status
        /\ sniffing' = {} /\ networkUp' = FALSE
        /\ UNCHANGED <<target, listener, callbacks, discovery>>
    BY <1>10, NetStops DEF TesterStopsNetwork
  <2>2. status # IN_PROGRESS
    BY <1>1, <2>1, TesterProgress
  <2> QED
    BY <1>1, <2>1, <2>2, TesterRest
<1>11. CASE TesterEnds(i)
  <2>1. TesterGoes(i, "forget", "done") /\ status' = status /\ sniffing' = {}
        /\ UNCHANGED <<target, listener, networkUp, discovery>>
        /\ \A g \in Runs : callbacks'[g] \subseteq callbacks[g]
    BY <1>11, NetStops DEF TesterEnds
  <2>2. status # IN_PROGRESS
    BY <1>1, <2>1, TesterProgress
  <2> QED
    BY <1>1, <2>1, <2>2, TesterRest
<1> QED
  BY <1>3, <1>4, <1>5, <1>6, <1>7, <1>8, <1>9, <1>10, <1>11 DEF Tester

-----------------------------------------------------------------------------
(***************************************************************************)
(* The invariant and what follows from it.                                 *)
(***************************************************************************)

\* Every step of the session keeps the invariant.
LEMMA LifeNext == LifeInv /\ [Next]_vars => LifeInv'
<1> SUFFICES ASSUME LifeInv, [Next]_vars PROVE LifeInv'
  OBVIOUS
<1>1. OneDeviceAtATime' /\ TypeOK' /\ Created'
  BY TypeNext, CreatedNext DEF LifeInv, OneDeviceAtATime
<1>2. CASE Next
  <2>1. User => Rest'
    BY UserStep
  <2>2. Api => Rest'
    BY ApiStep
  <2>3. Network => Rest'
    BY NetworkStep
  <2>4. \A r \in DOMAIN starters : Starter(r) => Rest'
    BY StarterSteps
  <2>5. \A d \in Devices : Adopt(d) => Rest'
    BY AdoptStep
  <2>6. \A d \in Devices, g \in Runs : Discovery(g, d) => Rest'
    BY DiscoverySteps
  <2>7. \A i \in DOMAIN testers : Tester(i) => Rest'
    BY TesterSteps
  <2> QED
    BY <1>1, <1>2, <2>1, <2>2, <2>3, <2>4, <2>5, <2>6, <2>7 DEF Next, Rest, LifeInv
<1>3. CASE UNCHANGED vars
  <2>1. Now' = Now /\ (Discovering' <=> Discovering) /\ (Testing' <=> Testing)
        /\ (Fresh' <=> Fresh)
    BY <1>3 DEF vars, session, apiVars, netVars, devVars, stopVars, Now, Discovering,
            Testing, Fresh
  <2>2. UNCHANGED <<status, target, starters, listener, sniffing, callbacks, discovery,
                    testers, networkUp, stopPc>>
    BY <1>3 DEF vars, session, apiVars, netVars, devVars, stopVars
  <2>3. ListenerInv'
    BY <2>1, <2>2 DEF LifeInv, ListenerInv
  <2>4. FreshInv'
    BY <2>1, <2>2 DEF LifeInv, FreshInv
  <2>5. OneInv'
    BY <2>1, <2>2 DEF LifeInv, OneInv
  <2>6. TargetInv' /\ OutcomeInv'
    BY <2>1, <2>2 DEF LifeInv, TargetInv, OutcomeInv
  <2>7. ProgressInv'
    BY <2>1, <2>2 DEF LifeInv, ProgressInv, InProgressBacked
  <2> QED
    BY <1>1, <2>3, <2>4, <2>5, <2>6, <2>7 DEF LifeInv
<1> QED
  BY <1>2, <1>3

\* What the invariant says of the properties of Lifecycle.
LEMMA LifeImplies ==
  LifeInv => OneRun /\ TargetPresent /\ OutcomeTornDown /\ InProgressBacked
<1> SUFFICES ASSUME LifeInv PROVE OneRun /\ TargetPresent /\ OutcomeTornDown /\ InProgressBacked
  OBVIOUS
<1>1. OneRun
  <2>1. \A i \in DOMAIN testers : testers[i] \notin {"done", "dead"} => i = Len(testers)
    BY DEF LifeInv, OneInv
  <2>2. SUFFICES ASSUME NEW i \in DOMAIN testers, NEW j \in DOMAIN testers,
                        testers[i] \in {"enter", "testing", "outcome"},
                        testers[j] \in {"enter", "testing", "outcome"}
                 PROVE  i = j
    BY DEF OneRun
  <2>3. i = Len(testers)
    BY <2>1, <2>2
  <2>4. j = Len(testers)
    BY <2>1, <2>2
  <2> QED
    BY <2>3, <2>4
<1>2. TargetPresent
  BY DEF TargetPresent, LifeInv, TargetInv, Testing
<1>3. OutcomeTornDown
  BY DEF OutcomeTornDown, Quiet, LifeInv, OutcomeInv
<1>4. InProgressBacked
  BY DEF LifeInv, ProgressInv
<1> QED
  BY <1>1, <1>2, <1>3, <1>4

\* For a patient user and one device, the device is tested by one thread at a
\* time, however often it is discovered and the run is stopped
\* (listener.call_callback, _device_stable).
THEOREM TestedOnce == OneDeviceAtATime /\ Spec => []OneRun
<1>1. OneDeviceAtATime /\ Init => LifeInv
  BY LifeInit
<1>2. LifeInv /\ [Next]_vars => LifeInv'
  BY LifeNext
<1>3. LifeInv => OneRun
  BY LifeImplies
<1> QED
  BY <1>1, <1>2, <1>3, PTL DEF Spec

\* The device is monitored and tested only while the session has the target
\* that run_test_modules takes the test pack from.
THEOREM TestedWithTarget == OneDeviceAtATime /\ Spec => []TargetPresent
<1>1. OneDeviceAtATime /\ Init => LifeInv
  BY LifeInit
<1>2. LifeInv /\ [Next]_vars => LifeInv'
  BY LifeNext
<1>3. LifeInv => TargetPresent
  BY LifeImplies
<1> QED
  BY <1>1, <1>2, <1>3, PTL DEF Spec

\* With all threads at rest after an outcome the virtual network is down,
\* whatever stops came meanwhile (_device_stable).
THEOREM NetworkTornDown == OneDeviceAtATime /\ Spec => []OutcomeTornDown
<1>1. OneDeviceAtATime /\ Init => LifeInv
  BY LifeInit
<1>2. LifeInv /\ [Next]_vars => LifeInv'
  BY LifeNext
<1>3. LifeInv => OutcomeTornDown
  BY LifeImplies
<1> QED
  BY <1>1, <1>2, <1>3, PTL DEF Spec

\* In Progress is never shown with nobody testing, unless the tests died
\* (_device_stable, run_test_modules).
THEOREM ProgressIsBacked == OneDeviceAtATime /\ Spec => []InProgressBacked
<1>1. OneDeviceAtATime /\ Init => LifeInv
  BY LifeInit
<1>2. LifeInv /\ [Next]_vars => LifeInv'
  BY LifeNext
<1>3. LifeInv => InProgressBacked
  BY LifeImplies
<1> QED
  BY <1>1, <1>2, <1>3, PTL DEF Spec

-----------------------------------------------------------------------------
(***************************************************************************)
(* A run that nobody stops goes through its statuses in order.             *)
(***************************************************************************)

\* The status at the places of the last start thread, of the discovery and of
\* the tests.  A disconnection is the only thing that cancels a run there.
StartCourse ==
  /\ Now = "reset" => status \notin RunningStatus
  /\ Now = "starting" => status = IDLE
  /\ Now \in {"restore", "forget", "create", "validate", "failed"} => status = STARTING
  /\ Now = "validated" => status = VALIDATING
  /\ Now = "ready" => status \in {STARTING, VALIDATING}
  /\ Now \in {"register", "listen"} => status = WAITING_FOR_DEVICE
DiscoveryCourse ==
  \A x \in DOMAIN discovery :
    /\ discovery[x] \in {"check", "sniff", "conf", "monitor"} => status = WAITING_FOR_DEVICE
    /\ discovery[x] \in {"monitoring", "fire"} => status \in {MONITORING, CANCELLED}
TestCourse ==
  \A i \in DOMAIN testers :
    /\ testers[i] = "check" => status \in {MONITORING, CANCELLED}
    /\ testers[i] = "begin" => status = MONITORING
    /\ testers[i] \in {"enter", "testing", "outcome"} => status = IN_PROGRESS
NoStop == MaxStops = 0 /\ queued = 0 /\ stopPc = "idle" /\ status # STOPPING

CourseInv == NoStop /\ StartCourse /\ DiscoveryCourse /\ TestCourse

\* What may follow the statuses of a run, and what follows its end.
LEMMA FollowsFacts ==
  /\ \A s \in TestrunStatus \ RunningStatus : IDLE \in Contract!Follows[s]
  /\ STARTING \in Contract!Follows[IDLE]
  /\ {VALIDATING, WAITING_FOR_DEVICE} \subseteq Contract!Follows[STARTING]
  /\ WAITING_FOR_DEVICE \in Contract!Follows[VALIDATING]
  /\ {MONITORING, CANCELLED} \subseteq Contract!Follows[WAITING_FOR_DEVICE]
  /\ {IN_PROGRESS, CANCELLED} \subseteq Contract!Follows[MONITORING]
  /\ OutcomeStatus \cup {CANCELLED} \subseteq Contract!Follows[IN_PROGRESS]
<1> USE DEF TestrunStatus, OutcomeStatus, RunningStatus, IDLE, STARTING, WAITING_FOR_DEVICE,
       MONITORING, IN_PROGRESS, CANCELLED, STOPPING, VALIDATING, COMPLETE, PROCEED,
       DO_NOT_PROCEED, Contract!Follows, Contract!TestrunStatus, Contract!OutcomeStatus,
       Contract!IDLE, Contract!STARTING, Contract!WAITING_FOR_DEVICE, Contract!MONITORING,
       Contract!IN_PROGRESS, Contract!CANCELLED, Contract!STOPPING, Contract!VALIDATING,
       Contract!COMPLETE, Contract!PROCEED, Contract!DO_NOT_PROCEED
<1>1. \A s \in TestrunStatus \ RunningStatus : IDLE \in Contract!Follows[s]
  OBVIOUS
<1>2. /\ STARTING \in Contract!Follows[IDLE]
      /\ {VALIDATING, WAITING_FOR_DEVICE} \subseteq Contract!Follows[STARTING]
      /\ WAITING_FOR_DEVICE \in Contract!Follows[VALIDATING]
      /\ {MONITORING, CANCELLED} \subseteq Contract!Follows[WAITING_FOR_DEVICE]
  OBVIOUS
<1>3. /\ {IN_PROGRESS, CANCELLED} \subseteq Contract!Follows[MONITORING]
      /\ OutcomeStatus \cup {CANCELLED} \subseteq Contract!Follows[IN_PROGRESS]
  OBVIOUS
<1> QED
  BY <1>1, <1>2, <1>3

\* The statuses of a run and of its end are different.
LEMMA CourseFacts ==
  /\ {IDLE, STARTING, WAITING_FOR_DEVICE, MONITORING, IN_PROGRESS, CANCELLED, VALIDATING}
       \cup OutcomeStatus \subseteq TestrunStatus \ {STOPPING}
  /\ MONITORING # CANCELLED
BY DEF TestrunStatus, OutcomeStatus, IDLE, STARTING, WAITING_FOR_DEVICE, MONITORING,
       IN_PROGRESS, CANCELLED, STOPPING, VALIDATING, COMPLETE, PROCEED, DO_NOT_PROCEED

\* What a step does, as far as the contract sees it.
Advances == status' = status \/ status' \in Contract!Follows[status]

\* A step that leaves the status and the threads alone.
LEMMA SameCourse ==
  ASSUME CourseInv, UNCHANGED <<status, starters, discovery, testers, stopVars>>
  PROVE  CourseInv' /\ Advances
<1>1. Now' = Now
  BY DEF Now
<1> QED
  BY <1>1 DEF CourseInv, NoStop, StartCourse, DiscoveryCourse, TestCourse, Advances, stopVars

\* A step of the last start thread.
LEMMA StarterCourse ==
  ASSUME LifeInv, CourseInv, NEW r \in DOMAIN starters,
         NEW from \in StarterPc, NEW to \in StarterPc, from \notin {"waiting", "dead"},
         StarterGoes(r, from, to), UNCHANGED <<discovery, testers, stopVars>>,
         status' # STOPPING,
         Now' = to => StartCourse'
  PROVE  CourseInv'
<1>1. Now' = to /\ ~Discovering /\ ~Testing
  BY StarterStep
<1>2. NoStop'
  BY DEF CourseInv, NoStop, stopVars
<1>3. \A x \in DOMAIN discovery' : discovery'[x] \in {"none", "done"}
  BY <1>1 DEF Discovering
<1>4. \A i \in DOMAIN testers' : testers'[i] \in {"done", "dead"}
  BY <1>1 DEF Testing
<1>5. DiscoveryCourse' /\ TestCourse'
  BY <1>3, <1>4 DEF DiscoveryCourse, TestCourse
<1> QED
  BY <1>1, <1>2, <1>5 DEF CourseInv

\* A step of the discovery of the device.
LEMMA DiscoveryCourses ==
  ASSUME LifeInv, CourseInv, NEW g \in Runs, NEW d \in Devices,
         NEW from \in DiscoveryPc \ {"none", "done"}, NEW to \in DiscoveryPc,
         Goes(<<g, d>>, from, to), status' # STOPPING,
         to \in {"check", "sniff", "conf", "monitor"} => status' = WAITING_FOR_DEVICE,
         to \in {"monitoring", "fire"} => status' \in {MONITORING, CANCELLED},
         TestCourse'
  PROVE  CourseInv'
<1>1. /\ Now' = "waiting"
      /\ \A x \in DOMAIN discovery' :
           discovery'[x] \notin {"none", "done"} => x = <<g, d>>
      /\ discovery'[<<g, d>>] = to
  BY DiscoveryStep
<1>2. NoStop'
  BY DEF CourseInv, NoStop, stopVars, Goes
<1>3. StartCourse'
  BY <1>1 DEF StartCourse
<1>4. DiscoveryCourse'
  BY <1>1 DEF DiscoveryCourse
<1> QED
  BY <1>2, <1>3, <1>4 DEF CourseInv

\* A step of the thread that tests.
LEMMA TesterCourse ==
  ASSUME LifeInv, CourseInv, NEW i \in DOMAIN testers,
         NEW from \in TesterPc \ {"done", "dead"}, NEW to \in TesterPc,
         TesterGoes(i, from, to), UNCHANGED discovery, status' # STOPPING,
         to = "check" => status' \in {MONITORING, CANCELLED},
         to = "begin" => status' = MONITORING,
         to \in {"enter", "testing", "outcome"} => status' = IN_PROGRESS
  PROVE  CourseInv'
<1>1. /\ i = Len(testers) /\ ~Discovering /\ Now' = "waiting"
      /\ Len(testers') = Len(testers)
      /\ \A j \in DOMAIN testers' : testers'[j] \notin {"done", "dead"} => j = Len(testers')
      /\ testers'[i] = to
  BY TesterStep
<1>2. NoStop'
  BY DEF CourseInv, NoStop, stopVars, TesterGoes
<1>3. StartCourse'
  BY <1>1 DEF StartCourse
<1>4. DiscoveryCourse'
  BY <1>1 DEF DiscoveryCourse, Discovering
<1>5. TestCourse'
  <2> SUFFICES ASSUME NEW j \in DOMAIN testers', testers'[j] \notin {"done", "dead"}
               PROVE  testers'[j] = to
    BY DEF TestCourse
  <2> QED
    BY <1>1
<1> QED
  BY <1>2, <1>3, <1>4, <1>5 DEF CourseInv

\* The user and the event loop, which nobody asks to stop anything.
LEMMA UserCourse ==
  ASSUME LifeInv, CourseInv, User \/ Api
  PROVE  CourseInv' /\ Advances
<1> USE DEF session, apiVars, netVars, devVars, stopVars
<1>1. MaxStops = 0 /\ queued = 0 /\ stopPc = "idle"
  BY DEF CourseInv, NoStop
<1>2. CASE AcceptStop
  BY <1>1, <1>2 DEF AcceptStop
<1>3. ASSUME NEW d \in Devices, AcceptStart(d) PROVE CourseInv' /\ Advances
  <2>1. Quiet /\ status \notin RunningStatus /\ starters' = Append(starters, "reset")
        /\ UNCHANGED <<status, discovery, testers, queued, stopPc>>
    BY <1>3 DEF AcceptStart, LifeInv, OneDeviceAtATime
  <2>2. starters \in Seq(StarterPc) /\ "reset" \in StarterPc
    BY DEF LifeInv, TypeOK, StarterPc
  <2>3. Now' = "reset"
    BY <2>1, <2>2, AppendProperties DEF Now
  <2>4. StartCourse'
    BY <2>1, <2>3 DEF StartCourse
  <2>5. DiscoveryCourse' /\ TestCourse' /\ NoStop'
    BY <2>1 DEF CourseInv, DiscoveryCourse, TestCourse, NoStop
  <2> QED
    BY <2>1, <2>4, <2>5 DEF CourseInv, Advances
<1>4. CASE Api
  <2>1. SetTarget
    BY <1>1, <1>4 DEF Api, BeginStop, StopAgain, StopListener, StopTests, StopNetwork, StopEnds
  <2> QED
    BY <2>1, SameCourse DEF SetTarget
<1> QED
  BY <1>2, <1>3, <1>4 DEF User

\* A packet starts a discovery while the device is waited for.
LEMMA NetworkCourse ==
  ASSUME LifeInv, CourseInv, Network
  PROVE  CourseInv' /\ Advances
<1> USE DEF session, apiVars, netVars, devVars, stopVars
<1>1. ASSUME NEW d \in Devices, NEW g \in Runs, Packet(g, d) PROVE CourseInv' /\ Advances
  <2>1. g \in sniffing /\ d \notin seen[g]
        /\ discovery' \in {discovery, [discovery EXCEPT ![<<g, d>>] = "check"]}
        /\ UNCHANGED <<status, starters, testers, queued, stopPc>>
    BY <1>1 DEF Packet
  <2>2. status = WAITING_FOR_DEVICE
    BY <2>1 DEF Fresh, LifeInv, FreshInv, CourseInv, NoStop
  <2>3. \A x \in DOMAIN discovery' : \/ x \in DOMAIN discovery /\ discovery'[x] = discovery[x]
                                    \/ discovery'[x] = "check"
    BY <2>1 DEF LifeInv, TypeOK
  <2>4. DiscoveryCourse'
    BY <2>1, <2>2, <2>3 DEF CourseInv, DiscoveryCourse
  <2>5. Now' = Now
    BY <2>1 DEF Now
  <2>6. NoStop' /\ StartCourse' /\ TestCourse'
    BY <2>1, <2>5 DEF CourseInv, NoStop, StartCourse, TestCourse
  <2> QED
    BY <2>1, <2>4, <2>6 DEF CourseInv, Advances
<1>2. ASSUME NEW d \in Devices, Lease(d) PROVE CourseInv' /\ Advances
  BY <1>2, SameCourse DEF Lease
<1>3. CASE CableMoves
  BY <1>3, SameCourse DEF CableMoves
<1> QED
  BY <1>1, <1>2, <1>3 DEF Network

\* The device that is adopted.
LEMMA AdoptCourse ==
  ASSUME LifeInv, CourseInv, NEW d \in Devices, Adopt(d)
  PROVE  CourseInv' /\ Advances
BY SameCourse DEF Adopt, apiVars, stopVars

\* Testrun.start and network_orchestrator.start.
LEMMA StarterCourses ==
  ASSUME LifeInv, CourseInv, NEW r \in DOMAIN starters, Starter(r)
  PROVE  CourseInv' /\ Advances
<1> USE DEF session, netVars, devVars
<1>1. StarterPc \ {"waiting", "dead"} =
        {"reset", "starting", "restore", "forget", "create", "validate", "validated", "ready",
         "register", "listen", "failed"}
      /\ {"waiting", "dead"} \subseteq StarterPc
  BY DEF StarterPc
<1>2. ASSUME NEW from \in StarterPc \ {"waiting", "dead"}, NEW to \in StarterPc,
             StarterGoes(r, from, to)
      PROVE  Now = from
  BY <1>2, StarterStep
<1>3. StartCourse /\ status # STOPPING
  BY DEF CourseInv, NoStop
<1>4. ASSUME NEW from \in StarterPc \ {"waiting", "dead"}, NEW to \in StarterPc,
             StarterGoes(r, from, to), status' = status, status = STARTING,
             UNCHANGED <<discovery, testers, stopVars>>,
             to \in {"restore", "forget", "create", "validate", "failed", "ready", "dead"}
      PROVE  CourseInv' /\ Advances
  <2>1. Now' = to => StartCourse'
    BY <1>4 DEF StartCourse
  <2> QED
    BY <1>1, <1>3, <1>4, <2>1, StarterCourse DEF Advances
<1>5. CASE Reset(r)
  <2>1. StarterGoes(r, "reset", "starting") /\ status' = IDLE
        /\ UNCHANGED <<discovery, testers, stopVars>>
    BY <1>5 DEF Reset
  <2>2. status \in TestrunStatus \ RunningStatus
    BY <1>1, <1>2, <1>3, <2>1 DEF StartCourse, LifeInv, TypeOK
  <2>3. Now' = "starting" => StartCourse'
    BY <2>1 DEF StartCourse
  <2> QED
    BY <1>1, <2>1, <2>2, <2>3, StarterCourse, FollowsFacts, CourseFacts DEF Advances
<1>6. CASE Starting(r)
  <2>1. StarterGoes(r, "starting", "restore") /\ status' = STARTING
        /\ UNCHANGED <<discovery, testers, stopVars>>
    BY <1>6 DEF Starting
  <2>2. status = IDLE
    BY <1>1, <1>2, <1>3, <2>1 DEF StartCourse
  <2>3. Now' = "restore" => StartCourse'
    BY <2>1 DEF StartCourse
  <2> QED
    BY <1>1, <2>1, <2>2, <2>3, StarterCourse, FollowsFacts, CourseFacts DEF Advances
<1>7. CASE Restore(r)
  <2>1. StarterGoes(r, "restore", "forget") /\ status' = status
        /\ UNCHANGED <<discovery, testers, stopVars>>
    BY <1>7 DEF Restore, StopNet
  <2> QED
    BY <1>1, <1>2, <1>3, <1>4, <2>1 DEF StartCourse
<1>8. CASE Restored(r)
  <2>1. StarterGoes(r, "forget", "create") /\ status' = status
        /\ UNCHANGED <<discovery, testers, stopVars>>
    BY <1>8 DEF Restored, ForgetListener
  <2> QED
    BY <1>1, <1>2, <1>3, <1>4, <2>1 DEF StartCourse
<1>9. CASE CreateNet(r)
  <2>1. PICK to \in {"validate", "ready"} : StarterGoes(r, "create", to)
    BY <1>9 DEF CreateNet
  <2>2. status' = status /\ UNCHANGED <<discovery, testers, stopVars>>
    BY <1>9 DEF CreateNet
  <2> QED
    BY <1>1, <1>2, <1>3, <1>4, <2>1, <2>2 DEF StartCourse
<1>10. CASE CreateFails(r)
  <2>1. StarterGoes(r, "create", "failed") /\ status' = status
        /\ UNCHANGED <<discovery, testers, stopVars>>
    BY <1>10 DEF CreateFails, StopNet
  <2> QED
    BY <1>1, <1>2, <1>3, <1>4, <2>1 DEF StartCourse
<1>11. CASE StarterExits(r)
  <2>1. StarterGoes(r, "failed", "dead") /\ status' = status
        /\ UNCHANGED <<discovery, testers, stopVars>>
    BY <1>11 DEF StarterExits, ForgetListener
  <2> QED
    BY <1>1, <1>2, <1>3, <1>4, <2>1 DEF StartCourse
<1>12. CASE Validating(r)
  <2>1. StarterGoes(r, "validate", "validated") /\ status' = VALIDATING
        /\ UNCHANGED <<discovery, testers, stopVars>>
    BY <1>12 DEF Validating, SetStatus
  <2>2. status = STARTING
    BY <1>1, <1>2, <1>3, <2>1 DEF StartCourse
  <2>3. Now' = "validated" => StartCourse'
    BY <2>1 DEF StartCourse
  <2> QED
    BY <1>1, <2>1, <2>2, <2>3, StarterCourse, FollowsFacts, CourseFacts DEF Advances
<1>13. CASE Validated(r)
  <2>1. StarterGoes(r, "validated", "ready") /\ status' = status
        /\ UNCHANGED <<discovery, testers, stopVars>>
    BY <1>13 DEF Validated
  <2>2. status = VALIDATING
    BY <1>1, <1>2, <1>3, <2>1 DEF StartCourse
  <2>3. Now' = "ready" => StartCourse'
    BY <2>1, <2>2 DEF StartCourse
  <2> QED
    BY <1>1, <1>3, <2>1, <2>3, StarterCourse DEF Advances
<1>14. CASE NetworkReady(r)
  <2>1. StarterGoes(r, "ready", "register") /\ status' = WAITING_FOR_DEVICE
        /\ UNCHANGED <<discovery, testers, stopVars>>
    BY <1>14 DEF NetworkReady, SetStatus
  <2>2. status \in {STARTING, VALIDATING}
    BY <1>1, <1>2, <1>3, <2>1 DEF StartCourse
  <2>3. Now' = "register" => StartCourse'
    BY <2>1 DEF StartCourse
  <2> QED
    BY <1>1, <2>1, <2>2, <2>3, StarterCourse, FollowsFacts, CourseFacts DEF Advances
<1>15. CASE Register(r)
  <2>1. StarterGoes(r, "register", "listen") /\ status' = status
        /\ UNCHANGED <<discovery, testers, stopVars>>
    BY <1>15 DEF Register
  <2>2. status = WAITING_FOR_DEVICE
    BY <1>1, <1>2, <1>3, <2>1 DEF StartCourse
  <2>3. Now' = "listen" => StartCourse'
    BY <2>1, <2>2 DEF StartCourse
  <2> QED
    BY <1>1, <1>3, <2>1, <2>3, StarterCourse DEF Advances
<1>16. CASE Listen(r)
  <2>1. StarterGoes(r, "listen", "waiting") /\ status' = WAITING_FOR_DEVICE
        /\ UNCHANGED <<discovery, testers, stopVars>>
    BY <1>16 DEF Listen, SetStatus
  <2>2. status = WAITING_FOR_DEVICE
    BY <1>1, <1>2, <1>3, <2>1 DEF StartCourse
  <2>3. Now' = "waiting" => StartCourse'
    BY DEF StartCourse
  <2> QED
    BY <1>1, <2>1, <2>2, <2>3, StarterCourse, CourseFacts DEF Advances
<1> QED
  BY <1>5, <1>6, <1>7, <1>8, <1>9, <1>10, <1>11, <1>12, <1>13, <1>14, <1>15, <1>16 DEF Starter

\* The wait for the address and the monitoring of the device.
LEMMA DiscoveryOrder ==
  ASSUME LifeInv, CourseInv, NEW g \in Runs, NEW d \in Devices, Discovery(g, d)
  PROVE  CourseInv' /\ Advances
<1> USE DEF session
<1>1. {"check", "sniff", "conf", "monitor", "monitoring", "fire"}
        \subseteq DiscoveryPc \ {"none", "done"}
      /\ "done" \in DiscoveryPc
  BY DEF DiscoveryPc
<1>2. /\ discovery[<<g, d>>] \in {"check", "sniff", "conf", "monitor"}
           => status = WAITING_FOR_DEVICE
      /\ discovery[<<g, d>>] \in {"monitoring", "fire"} => status \in {MONITORING, CANCELLED}
      /\ status # STOPPING
  BY DEF CourseInv, NoStop, DiscoveryCourse, LifeInv, TypeOK
<1>3. ASSUME UNCHANGED testers, Discovering PROVE TestCourse'
  BY <1>3 DEF TestCourse, LifeInv, OneInv, Testing
<1>4. ASSUME NEW from \in DiscoveryPc \ {"none", "done"}, NEW to \in DiscoveryPc,
             Goes(<<g, d>>, from, to), UNCHANGED testers, status' # STOPPING,
             to \in {"check", "sniff", "conf", "monitor"} => status' = WAITING_FOR_DEVICE,
             to \in {"monitoring", "fire"} => status' \in {MONITORING, CANCELLED}
      PROVE  CourseInv'
  <2>1. Discovering
    BY <1>4, DiscoveryStep
  <2> QED
    BY <1>3, <1>4, <2>1, DiscoveryCourses
<1>5. CASE CheckTarget(g, d)
  <2>1. PICK to \in {"sniff", "done"} : Goes(<<g, d>>, "check", to)
    BY <1>5 DEF CheckTarget
  <2>2. UNCHANGED <<status, testers>> /\ status = WAITING_FOR_DEVICE
    BY <1>2, <1>5, <2>1 DEF CheckTarget, Goes
  <2> QED
    BY <1>1, <1>2, <1>4, <2>1, <2>2 DEF Advances
<1>6. CASE SniffEnds(g, d)
  <2>1. Goes(<<g, d>>, "sniff", "conf") /\ UNCHANGED <<status, testers>>
        /\ status = WAITING_FOR_DEVICE
    BY <1>2, <1>6 DEF SniffEnds, Goes
  <2> QED
    BY <1>1, <1>2, <1>4, <2>1 DEF Advances
<1>7. CASE NoAddress(g, d)
  <2>1. Goes(<<g, d>>, "conf", "done") /\ UNCHANGED testers /\ status' = CANCELLED
        /\ status = WAITING_FOR_DEVICE
    BY <1>2, <1>7 DEF NoAddress, SetStatus, Goes
  <2> QED
    BY <1>1, <1>4, <2>1, FollowsFacts, CourseFacts DEF Advances
<1>8. CASE HasAddress(g, d)
  <2>1. Goes(<<g, d>>, "conf", "monitor") /\ UNCHANGED <<status, testers>>
        /\ status = WAITING_FOR_DEVICE
    BY <1>2, <1>8 DEF HasAddress, Goes
  <2> QED
    BY <1>1, <1>2, <1>4, <2>1 DEF Advances
<1>9. CASE NoTarget(g, d)
  BY <1>1, <1>2, <1>4, <1>9 DEF NoTarget, Advances
<1>10. CASE Monitor(g, d)
  <2>1. Goes(<<g, d>>, "monitor", "monitoring") /\ UNCHANGED testers /\ status' = MONITORING
        /\ status = WAITING_FOR_DEVICE
    BY <1>2, <1>10 DEF Monitor, SetStatus, Goes
  <2> QED
    BY <1>1, <1>4, <2>1, FollowsFacts, CourseFacts DEF Advances
<1>11. CASE MonitorCancelled(g, d)
  BY <1>1, <1>2, <1>4, <1>11 DEF MonitorCancelled, Advances
<1>12. CASE MonitorDisconnected(g, d)
  <2>1. PICK pc \in {"fire", "monitoring"} : Goes(<<g, d>>, "monitoring", pc)
    BY <1>12 DEF MonitorDisconnected
  <2>2. UNCHANGED testers /\ status' = CANCELLED /\ status = MONITORING
    BY <1>2, <1>12, <2>1 DEF MonitorDisconnected, SetStatus, Goes
  <2> QED
    BY <1>1, <1>4, <2>1, <2>2, FollowsFacts, CourseFacts DEF Advances
<1>13. CASE MonitorEnds(g, d)
  <2>1. Goes(<<g, d>>, "monitoring", "fire") /\ UNCHANGED <<status, testers>>
        /\ status \in {MONITORING, CANCELLED}
    BY <1>2, <1>13 DEF MonitorEnds, Goes
  <2> QED
    BY <1>1, <1>2, <1>4, <2>1 DEF Advances
<1>14. CASE Fire(g, d)
  <2>1. Goes(<<g, d>>, "fire", "done") /\ UNCHANGED status
        /\ status \in {MONITORING, CANCELLED}
        /\ testers' = testers \o
             [i \in 1 .. Cardinality({r \in Runs : listener # 0
                                      /\ <<"stable", r>> \in callbacks[listener]}) |-> "check"]
    BY <1>2, <1>14 DEF Fire, Goes
  <2>2. ~Testing
    BY <1>1, <2>1, DiscoveryStep
  <2>3. /\ testers' \in Seq(TesterPc) /\ testers \in Seq(TesterPc)
        /\ \/ testers' = testers
           \/ /\ Len(testers') = Len(testers) + 1 /\ testers'[Len(testers')] = "check"
              /\ \A i \in 1 .. Len(testers) : testers'[i] = testers[i]
    BY <2>1, OneThread DEF LifeInv, TypeOK
  <2>4. \A i \in DOMAIN testers : testers[i] \in {"done", "dead"}
    BY <2>2 DEF Testing
  <2>5. \A i \in DOMAIN testers' : testers'[i] \in {"done", "dead", "check"}
    BY <2>3, <2>4
  <2>6. TestCourse'
    BY <2>1, <2>5 DEF TestCourse
  <2> QED
    BY <1>1, <1>2, <2>1, <2>6, DiscoveryCourses DEF Advances
<1> QED
  BY <1>5, <1>6, <1>7, <1>8, <1>9, <1>10, <1>11, <1>12, <1>13, <1>14 DEF Discovery

\* _device_stable, which nobody interrupts but a disconnection.
LEMMA TesterCourses ==
  ASSUME LifeInv, CourseInv, NEW i \in DOMAIN testers, Tester(i)
  PROVE  CourseInv' /\ Advances
<1> USE DEF session, netVars, devVars
<1>1. {"check", "begin", "enter", "testing", "outcome", "network", "forget"}
        \subseteq TesterPc \ {"done", "dead"}
      /\ {"done", "dead"} \subseteq TesterPc
  BY DEF TesterPc
<1>2. /\ testers[i] = "check" => status \in {MONITORING, CANCELLED}
      /\ testers[i] = "begin" => status = MONITORING
      /\ testers[i] \in {"enter", "testing", "outcome"} => status = IN_PROGRESS
      /\ status # STOPPING
  BY DEF CourseInv, NoStop, TestCourse
<1>3. CASE DeviceStable(i)
  <2> DEFINE to == IF status = CANCELLED THEN "network" ELSE "begin"
  <2>1. TesterGoes(i, "check", to) /\ UNCHANGED <<status, discovery>>
    BY <1>3 DEF DeviceStable
  <2>2. to \in {"network", "begin"} /\ (to = "begin" => status = MONITORING)
    BY <1>2, <2>1 DEF TesterGoes
  <2> HIDE DEF to
  <2> QED
    BY <1>1, <1>2, <2>1, <2>2, TesterCourse DEF Advances
<1>4. CASE InProgress(i)
  <2>1. TesterGoes(i, "begin", "enter") /\ status' = IN_PROGRESS /\ UNCHANGED discovery
        /\ status = MONITORING
    BY <1>2, <1>4 DEF InProgress, SetStatus, TesterGoes
  <2> QED
    BY <1>1, <2>1, TesterCourse, FollowsFacts, CourseFacts DEF Advances
<1>5. CASE RunTestModules(i)
  <2> DEFINE to == IF status = IN_PROGRESS THEN "testing" ELSE "network"
  <2>1. TesterGoes(i, "enter", to) /\ UNCHANGED <<status, discovery>>
    BY <1>5 DEF RunTestModules
  <2>2. to = "testing" /\ status = IN_PROGRESS
    BY <1>2, <2>1 DEF TesterGoes
  <2> HIDE DEF to
  <2> QED
    BY <1>1, <1>2, <2>1, <2>2, TesterCourse DEF Advances
<1>6. CASE TestsDisconnected(i)
  <2>1. TesterGoes(i, "testing", "network") /\ status' = CANCELLED /\ UNCHANGED discovery
        /\ status = IN_PROGRESS
    BY <1>2, <1>6 DEF TestsDisconnected, SetStatus, TesterGoes
  <2> QED
    BY <1>1, <2>1, TesterCourse, FollowsFacts, CourseFacts DEF Advances
<1>7. CASE TestsCrash(i)
  BY <1>1, <1>2, <1>7, TesterCourse DEF TestsCrash, Advances
<1>8. CASE TestsEnd(i)
  <2> DEFINE to == IF status = IN_PROGRESS THEN "outcome" ELSE "network"
  <2>1. TesterGoes(i, "testing", to) /\ UNCHANGED <<status, discovery>>
    BY <1>8 DEF TestsEnd
  <2>2. to = "outcome" /\ status = IN_PROGRESS
    BY <1>2, <2>1 DEF TesterGoes
  <2> HIDE DEF to
  <2> QED
    BY <1>1, <1>2, <2>1, <2>2, TesterCourse DEF Advances
<1>9. CASE SetOutcome(i)
  <2>1. TesterGoes(i, "outcome", "network") /\ status' \in OutcomeStatus
        /\ UNCHANGED discovery /\ status = IN_PROGRESS
    BY <1>2, <1>9 DEF SetOutcome, SetStatus, TesterGoes
  <2> QED
    BY <1>1, <2>1, TesterCourse, FollowsFacts, CourseFacts DEF Advances
<1>10. CASE TesterStopsNetwork(i)
  <2>1. TesterGoes(i, "network", "forget") /\ UNCHANGED <<status, discovery>>
    BY <1>10 DEF TesterStopsNetwork, StopNet
  <2> QED
    BY <1>1, <1>2, <2>1, TesterCourse DEF Advances
<1>11. CASE TesterEnds(i)
  <2>1. TesterGoes(i, "forget", "done") /\ UNCHANGED <<status, discovery>>
    BY <1>11 DEF TesterEnds, ForgetListener
  <2> QED
    BY <1>1, <1>2, <2>1, TesterCourse DEF Advances
<1> QED
  BY <1>3, <1>4, <1>5, <1>6, <1>7, <1>8, <1>9, <1>10, <1>11 DEF Tester

\* Every step of a session that nobody stops advances in the contract.
LEMMA CourseNext ==
  ASSUME LifeInv, CourseInv, [Next]_vars
  PROVE  CourseInv' /\ Advances
<1>1. CASE Next
  BY <1>1, UserCourse, NetworkCourse, StarterCourses, AdoptCourse, DiscoveryOrder,
     TesterCourses DEF Next
<1>2. CASE UNCHANGED vars
  BY <1>2, SameCourse DEF vars, session, apiVars, devVars
<1> QED
  BY <1>1, <1>2

\* For a patient user who stops nothing and one device, the session goes
\* through its statuses in the order of RunLifecycle: it starts, waits for the
\* device, monitors it, tests it and ends, or is cancelled where the device
\* fails (testrun.py, network_orchestrator.py).
THEOREM LifecycleKept == OneDeviceAtATime /\ MaxStops = 0 /\ Spec => KeepsOrder
<1>1. OneDeviceAtATime /\ Init => LifeInv
  BY LifeInit
<1>2. LifeInv /\ [Next]_vars => LifeInv'
  BY LifeNext
<1>3. MaxStops = 0 /\ Init => CourseInv /\ Contract!Init
  <2> SUFFICES ASSUME MaxStops = 0, Init PROVE CourseInv /\ Contract!Init
    OBVIOUS
  <2>1. Now = "none" /\ DOMAIN testers = {}
    BY DEF Init, Now
  <2>2. StartCourse /\ DiscoveryCourse /\ TestCourse
    BY <2>1 DEF Init, StartCourse, DiscoveryCourse, TestCourse
  <2>3. NoStop /\ Contract!Init
    BY CourseFacts DEF Init, NoStop, Contract!Init, IDLE, Contract!IDLE
  <2> QED
    BY <2>2, <2>3 DEF CourseInv
<1>4. LifeInv /\ CourseInv /\ [Next]_vars => CourseInv' /\ [Contract!Next]_status
  BY CourseNext DEF Advances, Contract!Next
<1> QED
  BY <1>1, <1>2, <1>3, <1>4, PTL DEF Spec, KeepsOrder, Contract!Spec
=============================================================================
