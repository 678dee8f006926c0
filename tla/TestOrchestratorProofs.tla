----------------------- MODULE TestOrchestratorProofs -----------------------
(***************************************************************************)
(* Theorems about TestOrchestrator, for any number of modules, tests, test *)
(* packs and stop requests.                                                *)
(***************************************************************************)
EXTENDS TestOrchestrator, FiniteSetTheorems, SequenceTheorems, TLAPS

USE PackAssumption, ModulesAssumption

-----------------------------------------------------------------------------
(***************************************************************************)
(* Lemmas about the operations on the results.                             *)
(***************************************************************************)

\* The results and statuses are what the definitions of Statuses say.
LEMMA ResultFacts ==
  /\ NOT_STARTED \in TestResult /\ TEST_IN_PROGRESS \in TestResult
  /\ ERROR \in TestResult /\ INFORMATIONAL \in TestResult
  /\ ERROR \in FinalResult /\ INFORMATIONAL \in FinalResult
  /\ FinalResult \subseteq TestResult
  /\ NOT_STARTED # TEST_IN_PROGRESS
  /\ NOT_STARTED \notin FinalResult /\ TEST_IN_PROGRESS \notin FinalResult
  /\ \A r \in TestResult :
       r # NOT_STARTED /\ r # TEST_IN_PROGRESS => r \in FinalResult
BY DEF TestResult, FinalResult, OpenResult, NOT_STARTED, TEST_IN_PROGRESS,
       COMPLIANT, NON_COMPLIANT, ERROR, FEATURE_NOT_DETECTED, INFORMATIONAL,
       DISABLED

\* A function on 1 .. n is a sequence of length n.
LEMMA FunctionIsSeq ==
  ASSUME NEW S, NEW n \in Nat, NEW f \in [1 .. n -> S]
  PROVE  f \in Seq(S) /\ Len(f) = n
OBVIOUS

\* What an entry stores is the result it is given, or Informational in place
\* of a final result.
LEMMA StoredProperties ==
  ASSUME NEW l, NEW r \in TestResult
  PROVE  /\ Stored(l, r) \in TestResult
         /\ r \in FinalResult => Stored(l, r) \in FinalResult
         /\ r \notin FinalResult => Stored(l, r) = r
BY ResultFacts DEF Stored, FinalResult

\* add_test_result leaves the number of entries, or creates the only one, and
\* each entry it leaves is final exactly when the result is.
LEMMA AddEntryProperties ==
  ASSUME NEW rs \in Results, NEW t \in Tests, NEW r \in TestResult
  PROVE  /\ AddEntry(rs, t, r) \in Seq(TestResult)
         /\ Len(AddEntry(rs, t, r)) =
              IF Len(rs[t]) = 0 THEN 1 ELSE Len(rs[t])
         /\ \A i \in 1 .. Len(AddEntry(rs, t, r)) :
              /\ r \in FinalResult => AddEntry(rs, t, r)[i] \in FinalResult
              /\ r \notin FinalResult => AddEntry(rs, t, r)[i] = r
<1>1. rs[t] \in Seq(TestResult)  BY DEF Results
<1>2. Len(rs[t]) \in Nat /\ (rs[t] = <<>> <=> Len(rs[t]) = 0)
  BY <1>1, EmptySeq
<1>3. CASE rs[t] = <<>>
  BY <1>2, <1>3 DEF AddEntry
<1>4. CASE rs[t] # <<>>
  <2> DEFINE f == [i \in 1 .. Len(rs[t]) |-> Stored(LevelOf(t, i), r)]
  <2>1. AddEntry(rs, t, r) = f  BY <1>4 DEF AddEntry
  <2>2. \A i \in 1 .. Len(rs[t]) : f[i] = Stored(LevelOf(t, i), r)
    OBVIOUS
  <2>3. f \in [1 .. Len(rs[t]) -> TestResult]
    BY StoredProperties
  <2>4. f \in Seq(TestResult) /\ Len(f) = Len(rs[t])
    BY <2>3, <1>2, FunctionIsSeq
  <2>5. \A i \in 1 .. Len(f) : /\ r \in FinalResult => f[i] \in FinalResult
                               /\ r \notin FinalResult => f[i] = r
    BY <2>2, <2>4, StoredProperties
  <2>6. QED  BY <2>1, <2>4, <2>5, <1>2, <1>4
<1>5. QED  BY <1>3, <1>4

\* finish keeps every entry but those in progress, which become errors.
LEMMA FinishProperties ==
  ASSUME NEW rs \in Results
  PROVE  /\ Finish(rs) \in Results
         /\ \A t \in Tests :
              /\ Len(Finish(rs)[t]) = Len(rs[t])
              /\ \A i \in 1 .. Len(rs[t]) :
                   Finish(rs)[t][i] =
                     IF rs[t][i] = TEST_IN_PROGRESS THEN ERROR ELSE rs[t][i]
<1>1. \A t \in Tests : rs[t] \in Seq(TestResult)  BY DEF Results
<1> DEFINE f(t) == [i \in 1 .. Len(rs[t]) |->
                      IF rs[t][i] = TEST_IN_PROGRESS THEN ERROR ELSE rs[t][i]]
<1>2. ASSUME NEW t \in Tests
      PROVE  f(t) \in Seq(TestResult) /\ Len(f(t)) = Len(rs[t])
  <2>1. Len(rs[t]) \in Nat  BY <1>1
  <2>2. \A i \in 1 .. Len(rs[t]) : rs[t][i] \in TestResult
    BY <1>1, ElementOfSeq
  <2>3. f(t) \in [1 .. Len(rs[t]) -> TestResult]
    BY <2>2, ResultFacts
  <2>4. QED  BY <2>1, <2>3, FunctionIsSeq
<1>3. Finish(rs) = [t \in Tests |-> f(t)]  BY DEF Finish
<1>4. \A t \in Tests : Finish(rs)[t] = f(t)  BY <1>3
<1>5. Finish(rs) \in Results  BY <1>2, <1>3 DEF Results
<1>6. \A t \in Tests : \A i \in 1 .. Len(rs[t]) :
        f(t)[i] = IF rs[t][i] = TEST_IN_PROGRESS THEN ERROR ELSE rs[t][i]
  OBVIOUS
<1> HIDE DEF f
<1>7. QED  BY <1>2, <1>4, <1>5, <1>6

\* finish changes nothing when nothing is in progress.
LEMMA FinishIdle ==
  ASSUME NEW rs \in Results,
         \A t \in Tests : \A i \in 1 .. Len(rs[t]) :
           rs[t][i] # TEST_IN_PROGRESS
  PROVE  Finish(rs) = rs
<1>1. \A t \in Tests : Finish(rs)[t] = rs[t]
  <2> TAKE t \in Tests
  <2>1. rs[t] \in Seq(TestResult) /\ Finish(rs)[t] \in Seq(TestResult)
    BY FinishProperties DEF Results
  <2>2. QED  BY <2>1, FinishProperties, SeqEqual
<1>2. Finish(rs) \in [Tests -> Seq(TestResult)]
  BY FinishProperties DEF Results
<1>3. rs \in [Tests -> Seq(TestResult)]  BY DEF Results
<1>4. QED  BY <1>1, <1>2, <1>3

\* Adding results, or error entries, gives results.
LEMMA AddTestResultsType ==
  ASSUME NEW rs \in Results, NEW ts \in SUBSET Tests,
         NEW r, \A t \in ts : r[t] \in TestResult
  PROVE  AddTestResults(rs, ts, r) \in Results
BY AddEntryProperties DEF AddTestResults, Results

LEMMA AddTestResultType ==
  ASSUME NEW rs \in Results, NEW t \in Tests, NEW r \in TestResult
  PROVE  AddTestResult(rs, t, r) \in Results
BY AddEntryProperties DEF AddTestResult, Results

LEMMA SetTestResultErrorsType ==
  ASSUME NEW rs \in Results, NEW ts
  PROVE  SetTestResultErrors(rs, ts) \in Results
BY ResultFacts DEF SetTestResultErrors, Results

\* The tests of a module are among the tests, one for each index.
LEMMA TestsOfProperties ==
  ASSUME NEW m \in Modules
  PROVE  /\ Len(ModuleTests[m]) \in Nat
         /\ \A j \in 1 .. Len(ModuleTests[m]) : ModuleTests[m][j] \in Tests
         /\ TestsOf(m) \subseteq Tests
<1>1. ModuleTests[m] \in Seq(Tests)  OBVIOUS
<1>2. Len(ModuleTests[m]) \in Nat  BY <1>1
<1>3. \A j \in 1 .. Len(ModuleTests[m]) : ModuleTests[m][j] \in Tests
  BY <1>1, ElementOfSeq
<1>4. QED  BY <1>2, <1>3 DEF TestsOf

-----------------------------------------------------------------------------
(***************************************************************************)
(* Type correctness.                                                       *)
(***************************************************************************)

\* The next module, when there is one, is a module.
LEMMA NextModuleType ==
  ASSUME TypeOK, NextModule
  PROVE  pc' \in {"module", "finish"} /\ module' \in Modules
         /\ test' \in Nat \ {0}
BY DEF TypeOK, NextModule, Goto, Modules

\* Every step keeps the types: each action's new results are results again,
\* whichever entries it adds, updates or turns into errors.
LEMMA TypeStep == TypeOK /\ [Next]_vars => TypeOK'
<1> SUFFICES ASSUME TypeOK, [Next]_vars PROVE TypeOK'
  OBVIOUS
<1> USE DEF PcValues, StopPcValues
<1>1. CASE RunTestModules
  <2>1. \A t \in Pack : [u \in Pack |-> NOT_STARTED][t] \in TestResult
    BY ResultFacts
  <2>2. AddTestResults(results, Pack, [t \in Pack |-> NOT_STARTED])
          \in Results
    BY <2>1, AddTestResultsType DEF TypeOK
  <2>3. results' \in Results
    BY <1>1, <2>2 DEF RunTestModules, TypeOK
  <2>4. QED  BY <1>1, <2>3 DEF RunTestModules, TypeOK, Goto, containerVars,
                               stopVars
<1>2. CASE EnterModule
  BY <1>2, NextModuleType DEF EnterModule, TypeOK, Goto, sessionVars,
                              containerVars, stopVars
<1>3. CASE MarkTest
  <2>1. ModuleTests[module][test] \in Tests
    BY <1>3, TestsOfProperties DEF MarkTest, TypeOK
  <2>2. results' \in Results
    BY <1>3, <2>1, ResultFacts, AddTestResultType DEF MarkTest, TypeOK
  <2>3. QED  BY <1>3, <2>2 DEF MarkTest, TypeOK, containerVars, stopVars
<1>4. CASE SetTestModulesError
  <2>1. RemainingTests \subseteq Tests
    <3>1. \A j \in test .. Len(ModuleTests[module]) :
            ModuleTests[module][j] \in Tests
      BY TestsOfProperties DEF TypeOK
    <3>2. \A m \in (module + 1) .. NumModules : m \in Modules
      BY DEF TypeOK, Modules
    <3>3. QED  BY <3>1, <3>2, TestsOfProperties DEF RemainingTests
  <2>2. results' \in Results
    BY <1>4, SetTestResultErrorsType DEF SetTestModulesError, TypeOK
  <2>3. QED
    BY <1>4, <2>1, <2>2 DEF SetTestModulesError, TypeOK, Goto,
                            containerVars, stopVars
<1>5. CASE CancelDisconnected
  BY <1>5, NextModuleType DEF CancelDisconnected, TypeOK, TestrunStatus,
                              containerVars, stopVars
<1>6. CASE AllMarked \/ PollFails \/ PollTimeout
  BY <1>6 DEF AllMarked, PollFails, PollTimeout, TypeOK, Goto, sessionVars,
              containerVars, stopVars
<1>7. CASE StartContainer \/ StartFails \/ PollEnds \/ KillModule
  <2>1. container' \subseteq Modules /\ faults' \in 0 .. MaxFaults
    BY <1>7 DEF StartContainer, StartFails, PollEnds, KillModule, DockerStop,
                Swallowed, TypeOK
  <2>2. QED
    BY <1>7, <2>1 DEF StartContainer, StartFails, PollEnds, KillModule,
       TypeOK, Goto, sessionVars, stopVars
<1>8. CASE TimeoutErrors
  <2>1. \A t \in TestsOf(module) :
          [u \in TestsOf(module) |-> ERROR][t] \in TestResult
    BY ResultFacts
  <2>2. results' \in Results
    BY <1>8, <2>1, TestsOfProperties, AddTestResultsType
    DEF TimeoutErrors, TypeOK
  <2>3. QED  BY <1>8, <2>2 DEF TimeoutErrors, TypeOK, Goto, containerVars,
                               stopVars
<1>9. CASE CheckStopped
  BY <1>9, NextModuleType DEF CheckStopped, TypeOK, Goto, sessionVars,
                              containerVars, stopVars
<1>10. CASE LoadResults
  <2>1. ASSUME NEW r \in [TestsOf(module) \cap Pack -> Verdicts]
        PROVE  AddTestResults(results, DOMAIN r, r) \in Results
    <3>1. \A t \in DOMAIN r : r[t] \in TestResult
      BY ResultFacts
    <3>2. DOMAIN r \in SUBSET Tests
      BY TestsOfProperties DEF TypeOK
    <3>3. QED  BY <3>1, <3>2, AddTestResultsType DEF TypeOK
  <2>2. results' \in Results
    BY <1>10, <2>1 DEF LoadResults, TypeOK
  <2>3. QED
    BY <1>10, <2>2, NextModuleType DEF LoadResults, TypeOK, containerVars,
                                       stopVars
<1>11. CASE FinishSession
  BY <1>11, FinishProperties DEF FinishSession, TypeOK, Goto, containerVars,
                                 stopVars
<1>12. CASE Decide
  BY <1>12 DEF Decide, TypeOK, Goto, sessionVars, containerVars, stopVars
<1>13. CASE GenerateReport
  <2>1. CalculateResult(results) \in TestrunResult
    BY DEF CalculateResult, TestrunResult
  <2>2. CalculateStatus(results) \in OutcomeStatus
    BY DEF CalculateStatus, OutcomeStatus
  <2>3. report' \subseteq Reports
    BY <1>13, <2>1, <2>2 DEF GenerateReport, TypeOK, Reports
  <2>4. QED  BY <1>13, <2>3 DEF GenerateReport, TypeOK, Goto, containerVars,
                                stopVars
<1>14. CASE PublishReport \/ ReportFails
  BY <1>14 DEF PublishReport, ReportFails, TypeOK, Goto, sessionVars,
                containerVars, stopVars
<1>15. CASE SetOutcome
  <2>1. status' \in TestrunStatus
    BY <1>15 DEF SetOutcome, TypeOK, Reports, OutcomeStatus, TestrunStatus
  <2>2. QED  BY <1>15, <2>1 DEF SetOutcome, TypeOK, Goto, containerVars,
                                stopVars
<1>16. CASE StopNetwork
  BY <1>16 DEF StopNetwork, TypeOK, Goto, sessionVars, containerVars, stopVars
<1>17. CASE AcceptStop
  BY <1>17 DEF AcceptStop, TypeOK, sessionVars, threadVars, containerVars
<1>18. CASE BeginStop
  BY <1>18 DEF BeginStop, TypeOK, threadVars, containerVars, TestrunStatus
<1>19. CASE StopFinish
  BY <1>19, FinishProperties DEF StopFinish, TypeOK, threadVars,
                                 containerVars
<1>20. CASE StopAgain
  BY <1>20 DEF StopAgain, TypeOK, threadVars, containerVars, TestrunStatus
<1>21. CASE StopOneModule
  <2>1. stopModule' \in 1 .. (NumModules + 1)
    BY <1>21 DEF StopOneModule, TypeOK, Modules
  <2>2. container' \subseteq Modules /\ faults' \in 0 .. MaxFaults
    <3>1. container \subseteq Modules /\ faults \in 0 .. MaxFaults
      BY DEF TypeOK
    <3>2. DockerStop(stopModule)  BY <1>21 DEF StopOneModule
    <3>3. QED  BY <3>1, <3>2 DEF DockerStop, Swallowed
  <2>3. QED
    BY <1>21, <2>1, <2>2 DEF StopOneModule, TypeOK, sessionVars, threadVars
<1>22. CASE AllModulesStopped
  <2>1. stopModule' \in 1 .. (NumModules + 1)
    BY <1>22 DEF AllModulesStopped
  <2>2. QED  BY <1>22, <2>1 DEF AllModulesStopped, TypeOK, sessionVars,
                                threadVars, containerVars
<1>23. CASE StopCancel
  BY <1>23 DEF StopCancel, TypeOK, threadVars, containerVars, TestrunStatus
<1>24. CASE StopTaskNetwork
  BY <1>24 DEF StopTaskNetwork, TypeOK, sessionVars, threadVars,
               containerVars
<1>25. CASE ContainerWrites
  BY <1>25 DEF ContainerWrites, TypeOK, sessionVars, threadVars, stopVars
<1>26. CASE ContainerExits
  BY <1>26 DEF ContainerExits, TypeOK, sessionVars, threadVars, stopVars
<1>27. CASE CableMoves
  BY <1>27 DEF CableMoves, TypeOK, sessionVars, threadVars, containerVars,
               stopVars
<1>28. CASE UNCHANGED vars
  BY <1>28 DEF vars, TypeOK, sessionVars, threadVars, containerVars, stopVars
<1>29. QED
  BY <1>1, <1>2, <1>3, <1>4, <1>5, <1>6, <1>7, <1>8, <1>9, <1>10, <1>11,
     <1>12, <1>13, <1>14, <1>15, <1>16, <1>17, <1>18, <1>19, <1>20, <1>21,
     <1>23, <1>24, <1>25, <1>28, <1>22, <1>26, <1>27
  DEF Next, Orchestrator, StopTask, Environment

\* The initial state has the types.
LEMMA InitType == Init => TypeOK
<1>1. NoResults \in Results  BY EmptySeq DEF NoResults, Results
<1>2. 1 \in Modules  BY DEF Modules
<1>3. 0 \in 0 .. MaxStops /\ 1 \in 1 .. (NumModules + 1)
  OBVIOUS
<1>4. IN_PROGRESS \in TestrunStatus  BY DEF TestrunStatus
<1>5. ASSUME Init
      PROVE  /\ status \in TestrunStatus
             /\ results \in Results
             /\ report \subseteq Reports
             /\ container \subseteq Modules
             /\ written \subseteq Modules
             /\ faults \in 0 .. MaxFaults
  BY <1>1, <1>4, <1>5 DEF Init
<1>6. ASSUME Init
      PROVE  /\ pc \in PcValues
             /\ module \in Modules
             /\ test \in Nat \ {0}
             /\ queued \in 0 .. MaxStops
             /\ stopPc \in StopPcValues
             /\ stopModule \in 1 .. (NumModules + 1)
  BY <1>2, <1>3, <1>6 DEF Init, PcValues, StopPcValues
<1>7. QED  BY <1>5, <1>6 DEF Init, TypeOK

\* TypeOK holds in every state of a run, whatever the modules and the pack.
THEOREM TypeCorrect == Spec => []TypeOK
BY InitType, TypeStep, PTL DEF Spec

-----------------------------------------------------------------------------
(***************************************************************************)
(* The inductive invariant.                                                *)
(***************************************************************************)

\* The status constants the invariant tells apart.
LEMMA StatusFacts ==
  /\ IN_PROGRESS \notin OutcomeStatus /\ CANCELLED \notin OutcomeStatus
  /\ STOPPING \notin OutcomeStatus
  /\ CANCELLED # IN_PROGRESS /\ STOPPING # IN_PROGRESS
  /\ STOPPING # CANCELLED
BY DEF OutcomeStatus, IN_PROGRESS, CANCELLED, STOPPING, COMPLETE, PROCEED,
       DO_NOT_PROCEED

\* What everyone but the orchestrator thread may do to what they share with
\* it: finish results, take containers away or fail to, stop and cancel.
OtherStep ==
  /\ UNCHANGED <<pc, module, test, report, published>>
  /\ results' \in {results, Finish(results)}
  /\ status' \in {status, STOPPING, CANCELLED}
  /\ container' \subseteq container
  /\ faults \in Nat /\ faults' \in Nat /\ faults' >= faults

LEMMA OtherSteps ==
  ASSUME TypeOK, AcceptStop \/ StopTask \/ Environment \/ UNCHANGED vars
  PROVE  OtherStep
<1> USE DEF OtherStep, TypeOK, sessionVars, threadVars, containerVars, stopVars
<1>1. CASE AcceptStop  BY <1>1 DEF AcceptStop
<1>2. CASE BeginStop \/ StopAgain \/ StopCancel
  BY <1>2 DEF BeginStop, StopAgain, StopCancel
<1>3. CASE StopFinish  BY <1>3 DEF StopFinish
<1>4. CASE StopOneModule
  BY <1>4 DEF StopOneModule, DockerStop, Swallowed
<1>5. CASE AllModulesStopped \/ StopTaskNetwork
  BY <1>5 DEF AllModulesStopped, StopTaskNetwork
<1>6. CASE Environment
  BY <1>6 DEF Environment, ContainerWrites, ContainerExits, CableMoves
<1>7. CASE UNCHANGED vars  BY <1>7 DEF vars
<1>8. QED  BY <1>1, <1>2, <1>3, <1>4, <1>5, <1>6, <1>7 DEF StopTask

\* A status that has left In Progress does not come back to it.
LEMMA StatusLeaves ==
  ASSUME TypeOK, [Next]_vars, status' = IN_PROGRESS
  PROVE  status = IN_PROGRESS
<1>1. CASE OtherStep
  BY <1>1, StatusFacts DEF OtherStep
<1>2. CASE SetOutcome
  BY <1>2, StatusFacts DEF SetOutcome, TypeOK, Reports
<1>3. CASE CancelDisconnected
  BY <1>3, StatusFacts DEF CancelDisconnected
<1>4. CASE Orchestrator /\ ~SetOutcome /\ ~CancelDisconnected
  BY <1>4 DEF Orchestrator, RunTestModules, EnterModule, MarkTest,
     SetTestModulesError, AllMarked, StartContainer, StartFails, PollEnds,
     PollFails,
     PollTimeout, KillModule, TimeoutErrors, CheckStopped, LoadResults,
     FinishSession, Decide, GenerateReport, PublishReport, ReportFails,
     StopNetwork,
     sessionVars
<1>5. QED  BY <1>1, <1>2, <1>3, <1>4, OtherSteps DEF Next

\* How many containers there are, with one more, one less, or fewer.
LEMMA ContainerCount ==
  ASSUME NEW C \in SUBSET Modules
  PROVE  /\ Cardinality(C) \in Nat
         /\ \A D \in SUBSET C : Cardinality(D) <= Cardinality(C)
         /\ \A m : /\ Cardinality(C \ {m}) \in Nat
                   /\ m \notin C => C \ {m} = C
                   /\ Cardinality(C) <= Cardinality(C \ {m}) + 1
         /\ \A m : /\ Cardinality(C \cup {m}) <= Cardinality(C) + 1
                   /\ Cardinality((C \cup {m}) \ {m}) <= Cardinality(C)
                   /\ Cardinality(C \cup {m}) \in Nat
<1>1. IsFiniteSet(Modules)  BY FS_Interval DEF Modules
<1>2. IsFiniteSet(C)  BY <1>1, FS_Subset
<1>3. Cardinality(C) \in Nat  BY <1>2, FS_CardinalityType
<1>4. \A D \in SUBSET C : Cardinality(D) <= Cardinality(C)
  BY <1>2, FS_Subset
<1>5. ASSUME NEW m
      PROVE  /\ Cardinality(C \ {m}) \in Nat
             /\ m \notin C => C \ {m} = C
             /\ Cardinality(C) <= Cardinality(C \ {m}) + 1
  <2>1. /\ IsFiniteSet(C \ {m})
        /\ Cardinality(C \ {m}) =
             IF m \in C THEN Cardinality(C) - 1 ELSE Cardinality(C)
    BY <1>2, FS_RemoveElement
  <2>2. Cardinality(C \ {m}) \in Nat  BY <2>1, FS_CardinalityType
  <2>3. QED  BY <1>3, <2>1, <2>2
<1>6. ASSUME NEW m
      PROVE  /\ Cardinality(C \cup {m}) <= Cardinality(C) + 1
             /\ Cardinality((C \cup {m}) \ {m}) <= Cardinality(C)
             /\ Cardinality(C \cup {m}) \in Nat
  <2>1. (C \cup {m}) \ {m} \in SUBSET C  OBVIOUS
  <2>2. Cardinality((C \cup {m}) \ {m}) <= Cardinality(C)  BY <1>4, <2>1
  <2>3. Cardinality(C \cup {m}) =
          IF m \in C THEN Cardinality(C) ELSE Cardinality(C) + 1
    BY <1>2, FS_AddElement
  <2>4. QED  BY <1>3, <2>2, <2>3
<1>7. QED  BY <1>3, <1>4, <1>5, <1>6

\* The thread starts a container only where no more run than failures left: it
\* came there through the end, the kill or the absence of the one before.
LEMMA ContainerStep ==
  ASSUME TypeOK, IInv, [Next]_vars
  PROVE  ContainerInv'
<1> USE DEF ContainerInv, OneContainer, Goto, sessionVars, threadVars,
            containerVars
<1> DEFINE Live == status' = IN_PROGRESS
           Beside(C, m) == Cardinality(C \ {m})
<1>0. Live => status = IN_PROGRESS  BY StatusLeaves
<1>1. ContainerInv  BY DEF IInv
<1>a. /\ container \in SUBSET Modules /\ module \in Modules
      /\ faults \in Nat
  BY DEF TypeOK
<1>b. /\ Cardinality(container) \in Nat
      /\ Beside(container, module) \in Nat
      /\ module \notin container => container \ {module} = container
      /\ Cardinality(container) <= Beside(container, module) + 1
      /\ Cardinality(container \cup {module}) <= Cardinality(container) + 1
      /\ Beside(container \cup {module}, module) <= Cardinality(container)
      /\ Cardinality(container \cup {module}) \in Nat
      /\ Beside(container \cup {module}, module) \in Nat
      /\ Beside(container, module) <= Cardinality(container)
  <2>1. container \cup {module} \in SUBSET Modules  BY <1>a
  <2>2. container \ {module} \in SUBSET container  OBVIOUS
  <2>3. QED  BY <1>a, <2>1, <2>2, ContainerCount
<1>2. CASE OtherStep
  <2>1. /\ container' \in SUBSET container
        /\ container' \ {module} \in SUBSET (container \ {module})
        /\ container' \in SUBSET Modules
        /\ container \ {module} \in SUBSET Modules
        /\ container' \ {module} \in SUBSET Modules
    BY <1>2, <1>a DEF OtherStep
  <2>2. /\ Cardinality(container') \in Nat
        /\ Beside(container', module) \in Nat
        /\ Cardinality(container') <= Cardinality(container)
        /\ Beside(container', module) <= Beside(container, module)
    BY <1>a, <2>1, ContainerCount
  <2>3. /\ faults' \in Nat /\ faults' >= faults
        /\ pc' = pc /\ module' = module
    BY <1>2 DEF OtherStep
  <2> HIDE DEF Beside
  <2>4. Beside(container', module') = Beside(container', module)
    BY <2>3
  <2>5. /\ Cardinality(container') <= 1 + faults'
        /\ pc' \in {"begin", "mark", "start", "timeout"} =>
             Cardinality(container') <= faults'
        /\ pc' \in {"poll", "kill"} => Beside(container', module') <= faults'
        /\ pc' \in {"module", "check_stop", "load"} /\ Live =>
             Cardinality(container') <= faults'
    BY <1>0, <1>1, <1>a, <1>b, <2>2, <2>3, <2>4 DEF Beside
  <2>6. QED  BY <2>5 DEF Beside
<1> HIDE DEF Beside
<1>3. CASE RunTestModules
  BY <1>1, <1>3 DEF RunTestModules
<1>4. CASE EnterModule
  BY <1>1, <1>4 DEF EnterModule, NextModule
<1>5. CASE MarkTest \/ AllMarked \/ SetTestModulesError
  BY <1>1, <1>5 DEF MarkTest, AllMarked, SetTestModulesError
<1>6. CASE CancelDisconnected
  BY <1>1, <1>6, StatusFacts DEF CancelDisconnected, NextModule
<1>7. CASE StartContainer \/ StartFails
  <2>1. /\ container' \in {container, container \cup {module}}
        /\ faults' = faults /\ module' = module
        /\ pc = "start" /\ pc' \in {"poll", "crashed"}
    BY <1>7 DEF StartContainer, StartFails
  <2>2. Cardinality(container) <= faults  BY <1>1, <2>1
  <2>3. /\ Cardinality(container') <= 1 + faults
        /\ Beside(container', module) <= faults
    <3>1. CASE container' = container
      BY <1>a, <1>b, <2>2, <3>1
    <3>2. CASE container' = container \cup {module}
      BY <1>a, <1>b, <2>2, <3>2
    <3>3. QED  BY <2>1, <3>1, <3>2
  <2>4. QED  BY <2>1, <2>3 DEF Beside
<1>8. CASE PollEnds
  <2>1. CASE module \notin container \/ status # IN_PROGRESS
    <3>1. module \notin container => Cardinality(container) <= faults
      BY <1>1, <1>8, <1>b DEF PollEnds, Beside
    <3>2. CASE ~Swallowed(module)
      BY <1>0, <1>1, <1>8, <2>1, <3>1, <3>2 DEF PollEnds
    <3>3. CASE Swallowed(module)
      BY <1>0, <1>1, <1>8, <1>a, <1>b, <3>3 DEF PollEnds, Swallowed
    <3>4. QED  BY <3>2, <3>3
  <2>2. CASE Swallowed(module)
    BY <1>1, <1>8, <1>a, <1>b, <2>2 DEF PollEnds, Swallowed
  <2>3. QED  BY <1>8, <2>1, <2>2 DEF PollEnds
<1>9. CASE PollFails \/ PollTimeout
  BY <1>1, <1>9 DEF PollFails, PollTimeout
<1>10. CASE KillModule
  <2>1. Beside(container, module) <= faults
    BY <1>1, <1>10 DEF KillModule, Beside
  <2>2. CASE Swallowed(module)
    BY <1>1, <1>10, <1>a, <1>b, <2>1, <2>2 DEF KillModule, Swallowed
  <2>3. CASE container' = container \ {module} /\ UNCHANGED faults
    <3>1. Cardinality(container') <= faults  BY <2>1, <2>3 DEF Beside
    <3>2. pc' = "timeout"  BY <1>10 DEF KillModule
    <3>3. Cardinality(container') \in Nat  BY <1>b, <2>3 DEF Beside
    <3>4. QED  BY <1>a, <2>3, <3>1, <3>2, <3>3
  <2>4. QED  BY <1>10, <2>2, <2>3 DEF KillModule, DockerStop
<1>11. CASE TimeoutErrors
  BY <1>1, <1>11 DEF TimeoutErrors
<1>12. CASE CheckStopped
  BY <1>1, <1>12, StatusFacts DEF CheckStopped, NextModule
<1>13. CASE LoadResults
  BY <1>1, <1>13 DEF LoadResults, NextModule
<1>14. CASE FinishSession \/ Decide \/ GenerateReport \/ PublishReport
              \/ ReportFails \/ SetOutcome \/ StopNetwork
  BY <1>1, <1>14 DEF FinishSession, Decide, GenerateReport, PublishReport,
                     ReportFails, SetOutcome, StopNetwork
<1>15. QED
  BY <1>2, <1>3, <1>4, <1>5, <1>6, <1>7, <1>8, <1>9, <1>10, <1>11, <1>12,
     <1>13, <1>14, OtherSteps DEF Next, Orchestrator

\* Finishing the session leaves nothing in progress, and the thread adds no
\* result afterwards.
LEMMA FinishStep ==
  ASSUME TypeOK, IInv, [Next]_vars
  PROVE  FinishInv'
<1> USE DEF FinishInv, PastFinish, Goto, sessionVars
<1> DEFINE Quiet(rs) == \A t \in Tests : \A i \in 1 .. Len(rs[t]) :
                          rs[t][i] # TEST_IN_PROGRESS
<1>1. FinishInv  BY DEF IInv
<1>2. Quiet(Finish(results))
  <2> SUFFICES ASSUME NEW t \in Tests, NEW i \in 1 .. Len(Finish(results)[t])
               PROVE  Finish(results)[t][i] # TEST_IN_PROGRESS
    OBVIOUS
  <2>1. results \in Results  BY DEF TypeOK
  <2>2. i \in 1 .. Len(results[t])  BY <2>1, FinishProperties
  <2>3. Finish(results)[t][i] =
          IF results[t][i] = TEST_IN_PROGRESS THEN ERROR ELSE results[t][i]
    BY <2>1, <2>2, FinishProperties
  <2>4. ERROR # TEST_IN_PROGRESS  BY ResultFacts
  <2>5. QED  BY <2>3, <2>4
<1>3. CASE OtherStep
  <2>1. Quiet(results) => Quiet(results')
    BY <1>2, <1>3 DEF OtherStep
  <2>2. QED  BY <1>1, <1>3, <2>1 DEF OtherStep
<1>4. CASE RunTestModules
  <2>1. pc = "begin" => Quiet(results)
    BY DEF IInv, ProgressInv
  <2>2. QED  BY <1>4, <2>1 DEF RunTestModules
<1>5. CASE EnterModule \/ CancelDisconnected \/ CheckStopped \/ LoadResults
  <2>1. NextModule /\ pc' = "finish" => module' = NumModules
    BY DEF NextModule, TypeOK, Modules
  <2>2. NextModule => pc' \notin PastFinish
    BY DEF NextModule
  <2>3. QED  BY <1>5, <2>1, <2>2 DEF EnterModule, CancelDisconnected,
                                     CheckStopped, LoadResults
<1>6. CASE MarkTest \/ AllMarked \/ SetTestModulesError \/ StartContainer
             \/ StartFails \/ PollEnds \/ PollFails \/ PollTimeout
             \/ KillModule
             \/ TimeoutErrors
  BY <1>6 DEF MarkTest, AllMarked, SetTestModulesError, StartContainer,
              StartFails, PollEnds, PollFails, PollTimeout, KillModule,
              TimeoutErrors
<1>7. CASE FinishSession
  BY <1>2, <1>7 DEF FinishSession
<1>8. CASE Decide \/ GenerateReport \/ PublishReport
             \/ ReportFails \/ SetOutcome \/ StopNetwork
  <2>1. results' = results /\ pc \in PastFinish /\ pc' # "finish"
    BY <1>8 DEF Decide, GenerateReport, PublishReport, ReportFails,
                SetOutcome, StopNetwork
  <2>2. QED  BY <1>1, <2>1
<1>9. QED
  BY <1>3, <1>4, <1>5, <1>6, <1>7, <1>8, OtherSteps DEF Next, Orchestrator

\* Adding results for tests that have one entry leaves them one entry; only a
\* Not Started result makes an entry Not Started.
LEMMA AddKeepsMarked ==
  ASSUME NEW rs \in Results, NEW t \in Tests, NEW r \in TestResult,
         Len(rs[t]) = 1, r # NOT_STARTED
  PROVE  /\ Len(AddEntry(rs, t, r)) = 1
         /\ AddEntry(rs, t, r)[1] # NOT_STARTED
<1>1. Len(AddEntry(rs, t, r)) = 1  BY AddEntryProperties
<1>2. AddEntry(rs, t, r)[1] # NOT_STARTED
  <2>1. 1 \in 1 .. Len(AddEntry(rs, t, r))  BY <1>1
  <2>2. CASE r \in FinalResult
    BY <2>1, <2>2, AddEntryProperties, ResultFacts
  <2>3. CASE r \notin FinalResult
    BY <2>1, <2>3, AddEntryProperties
  <2>4. QED  BY <2>2, <2>3
<1>3. QED  BY <1>1, <1>2

LEMMA FinishKeepsMarked ==
  ASSUME NEW rs \in Results, NEW t \in Tests, Len(rs[t]) = 1
  PROVE  /\ Len(Finish(rs)[t]) = 1
         /\ rs[t][1] # NOT_STARTED => Finish(rs)[t][1] # NOT_STARTED
<1>1. 1 \in 1 .. Len(rs[t])  OBVIOUS
<1>2. QED  BY <1>1, FinishProperties, ResultFacts

\* Every step of a run that is not interrupted keeps one entry per test of
\* the pack, and a test the thread goes past has been given a result.
LEMMA ProgressStep ==
  ASSUME TypeOK, IInv, [Next]_vars
  PROVE  ProgressInv'
<1> USE DEF ProgressInv, PastMarking, PastModules, PastFinish, Goto,
            sessionVars
<1> DEFINE Good(rs, t, marked) ==
             Len(rs[t]) = 1 /\ (marked => rs[t][1] # NOT_STARTED)
<1>0. status' = IN_PROGRESS => status = IN_PROGRESS  BY StatusLeaves
<1>1. ProgressInv /\ FinishInv  BY DEF IInv
<1>2. CASE OtherStep
  <2>1. Marked(0)' = Marked(0) /\ \A t : Marked(t)' = Marked(t)
    BY <1>2 DEF OtherStep, Marked
  <2>2. \A t \in Tests : Len(results[t]) = 0 => Len(results'[t]) = 0
    BY <1>2, FinishProperties DEF OtherStep, TypeOK
  <2>3. \A t \in Pack : Good(results, t, Marked(t))
                          => Good(results', t, Marked(t))
    BY <1>2, FinishKeepsMarked DEF OtherStep, TypeOK
  <2>4. QED  BY <1>0, <1>1, <1>2, <2>1, <2>2, <2>3 DEF OtherStep
<1>3. CASE RunTestModules
  <2>1. CASE status # IN_PROGRESS
    BY <1>0, <1>3, <2>1 DEF RunTestModules
  <2>2. CASE status = IN_PROGRESS
    <3>1. pc = "begin" /\ pc' = "module" /\ module' = 1 /\ test' = 1
      BY <1>1, <1>3, <2>2 DEF RunTestModules
    <3>2. ASSUME NEW t \in Pack PROVE Len(results'[t]) = 1
      <4>1. results'[t] = AddEntry(results, t, NOT_STARTED)
        BY <1>3, <2>2 DEF RunTestModules, AddTestResults
      <4>2. Len(results[t]) = 0  BY <1>1, <3>1
      <4>3. QED  BY <4>1, <4>2, AddEntryProperties, ResultFacts DEF TypeOK
    <3>3. \A t : ~Marked(t)'
      BY <3>1 DEF Marked, Modules
    <3>4. QED  BY <3>1, <3>2, <3>3
  <2>3. QED  BY <2>1, <2>2
<1>4. CASE EnterModule
  <2>1. CASE status # IN_PROGRESS
    BY <1>0, <1>4, <2>1 DEF EnterModule, NextModule
  <2>2. CASE status = IN_PROGRESS
    <3>1. pc = "module" /\ pc' = "mark" /\ test = 1 /\ results' = results
            /\ UNCHANGED <<module, test>>
      BY <1>1, <1>4, <2>2 DEF EnterModule
    <3>2. \A t : Marked(t)' => Marked(t)
      BY <3>1 DEF Marked
    <3>3. QED  BY <1>1, <2>2, <3>1, <3>2
  <2>3. QED  BY <2>1, <2>2
<1>5. CASE MarkTest
  <2> DEFINE u == ModuleTests[module][test]
  <2>1. /\ pc = "mark" /\ pc' = "mark" /\ module' = module
        /\ test' = test + 1 /\ status' = status
        /\ test \in 1 .. Len(ModuleTests[module])
    BY <1>5, TestsOfProperties DEF MarkTest, TypeOK
  <2>2. ASSUME NEW t, Marked(t)' PROVE Marked(t) \/ t = u
    <3> DEFINE At(m, j) ==
            /\ t = ModuleTests[m][j]
            /\ \/ m < module'
               \/ m = module' /\ pc' \in PastMarking
               \/ m = module' /\ pc' = "mark" /\ j < test'
               \/ pc' \in PastModules
    <3>0. PICK m \in Modules : \E j \in 1 .. Len(ModuleTests[m]) : At(m, j)
      BY <2>2 DEF Marked
    <3>1. PICK j \in 1 .. Len(ModuleTests[m]) : At(m, j)
      BY <3>0
    <3>2. m < module \/ (m = module /\ j < test + 1)
      <4>1. pc' \notin PastMarking /\ pc' \notin PastModules
        BY <2>1
      <4>2. m < module' \/ (m = module' /\ j < test')
        BY <3>1, <4>1, Zenon
      <4>3. QED  BY <2>1, <4>2
    <3>3. test \in Nat /\ j \in Nat
      BY <3>1, TestsOfProperties DEF TypeOK
    <3>4. m < module \/ (m = module /\ j < test) \/ (m = module /\ j = test)
      BY <3>2, <3>3
    <3>5. CASE m = module /\ j = test
      BY <3>1, <3>5
    <3>6. CASE m < module
      BY <3>1, <3>6 DEF Marked
    <3>7. CASE m = module /\ j < test
      BY <2>1, <3>1, <3>7 DEF Marked
    <3>8. QED  BY <3>4, <3>5, <3>6, <3>7
  <2>3. u \in Tests  BY <2>1, TestsOfProperties DEF TypeOK
  <2>4. ASSUME status = IN_PROGRESS, NEW t \in Pack
        PROVE  Good(results', t, Marked(t)')
    <3>1. Good(results, t, Marked(t))  BY <1>1, <2>1, <2>4
    <3>2. CASE t = u
      <4>1. results'[t] = AddEntry(results, t, TEST_IN_PROGRESS)
        BY <1>5, <2>3, <2>4, <3>2 DEF MarkTest, AddTestResult, TypeOK, Results
      <4>2. QED
        BY <3>1, <4>1, AddKeepsMarked, ResultFacts DEF TypeOK
    <3>3. CASE t # u
      <4>1. results'[t] = results[t]
        BY <1>5, <2>3, <3>3 DEF MarkTest, AddTestResult, TypeOK, Results
      <4>2. QED  BY <2>2, <3>1, <3>3, <4>1
    <3>4. QED  BY <3>2, <3>3
  <2>5. QED  BY <2>1, <2>4
<1>6. CASE SetTestModulesError \/ CancelDisconnected
  BY <1>6, StatusFacts DEF SetTestModulesError, CancelDisconnected,
                           NextModule
<1>7. CASE AllMarked
  <2>1. \A t : Marked(t)' => Marked(t)
    BY <1>7, TestsOfProperties DEF AllMarked, Marked, TypeOK
  <2>2. QED  BY <1>1, <1>7, <2>1 DEF AllMarked
<1>8. CASE StartContainer \/ StartFails \/ PollEnds \/ PollFails \/ PollTimeout
             \/ KillModule
  <2>1. /\ pc \in PastMarking /\ pc' \in PastMarking \cup {"crashed"}
        /\ UNCHANGED <<module, test, status, results>>
    BY <1>8 DEF StartContainer, StartFails, PollEnds, PollFails, PollTimeout,
                KillModule
  <2>2. \A t : Marked(t)' => Marked(t)
    BY <2>1 DEF Marked
  <2>3. QED  BY <1>1, <2>1, <2>2
<1>9. CASE TimeoutErrors
  <2>1. /\ pc = "timeout" /\ pc' = "check_stop" /\ status' = status
        /\ UNCHANGED <<module, test>>
    BY <1>9 DEF TimeoutErrors
  <2>2. \A t : Marked(t)' => Marked(t)
    BY <2>1 DEF Marked
  <2>3. ASSUME status = IN_PROGRESS, NEW t \in Pack
        PROVE  Good(results', t, Marked(t)')
    <3>1. Good(results, t, Marked(t))  BY <1>1, <2>1, <2>3
    <3>2. results'[t] \in {results[t], AddEntry(results, t, ERROR)}
      BY <1>9 DEF TimeoutErrors, AddTestResults
    <3>3. QED  BY <2>2, <3>1, <3>2, AddKeepsMarked, ResultFacts DEF TypeOK
  <2>4. QED  BY <2>1, <2>3
<1>10. CASE CheckStopped
  <2>1. CASE status = STOPPING
    BY <1>10, <2>1, StatusFacts DEF CheckStopped, NextModule
  <2>2. CASE status # STOPPING
    <3>1. /\ pc = "check_stop" /\ pc' = "load"
          /\ UNCHANGED <<module, test, status, results>>
      BY <1>10, <2>2 DEF CheckStopped
    <3>2. \A t : Marked(t)' => Marked(t)
      BY <3>1 DEF Marked
    <3>3. QED  BY <1>1, <3>1, <3>2
  <2>3. QED  BY <2>1, <2>2
<1>11. CASE LoadResults
  <2>1. /\ pc = "load" /\ pc' \in {"module", "finish"} /\ status' = status
        /\ pc' = "module" => module' = module + 1 /\ test' = 1
        /\ pc' = "finish" => module = NumModules /\ module' = module
    BY <1>11 DEF LoadResults, NextModule, TypeOK, Modules
  <2>2. \A t : Marked(t)' => Marked(t)
    BY <2>1 DEF Marked, TypeOK, Modules
  <2>3. ASSUME status = IN_PROGRESS, NEW t \in Pack
        PROVE  Good(results', t, Marked(t)')
    <3>1. Good(results, t, Marked(t))  BY <1>1, <2>1, <2>3
    <3>2. \/ results'[t] = results[t]
          \/ \E r \in Verdicts : results'[t] = AddEntry(results, t, r)
      BY <1>11 DEF LoadResults, AddTestResults
    <3>3. QED  BY <2>2, <3>1, <3>2, AddKeepsMarked, ResultFacts DEF TypeOK
  <2>4. QED  BY <2>1, <2>3
<1>12. CASE FinishSession
  <2>1. /\ pc = "finish" /\ pc' = "decide" /\ status' = status
        /\ UNCHANGED <<module, test>>
    BY <1>12 DEF FinishSession
  <2>2. \A t : Marked(t)' => Marked(t)
    BY <2>1 DEF Marked
  <2>3. ASSUME status = IN_PROGRESS, NEW t \in Pack
        PROVE  Good(results', t, Marked(t)')
    <3>1. Good(results, t, Marked(t))  BY <1>1, <2>1, <2>3
    <3>2. results'[t] = Finish(results)[t]  BY <1>12 DEF FinishSession
    <3>3. QED  BY <2>2, <3>1, <3>2, FinishKeepsMarked DEF TypeOK
  <2>4. QED  BY <2>1, <2>3
<1>13. CASE Decide \/ GenerateReport \/ PublishReport
             \/ ReportFails \/ SetOutcome \/ StopNetwork
  <2>1. /\ pc \in PastFinish /\ pc' \in PastFinish
        /\ UNCHANGED <<module, test, results>>
    BY <1>13 DEF Decide, GenerateReport, PublishReport, ReportFails,
                 SetOutcome, StopNetwork
  <2>2. \A t : Marked(t)' => Marked(t)
    BY <2>1 DEF Marked
  <2>3. QED  BY <1>0, <1>1, <2>1, <2>2
<1>14. QED
  BY <1>2, <1>3, <1>4, <1>5, <1>6, <1>7, <1>8, <1>9, <1>10, <1>11, <1>12,
     <1>13, OtherSteps DEF Next, Orchestrator

\* The decision to report is taken when nothing is in progress and, the status
\* being In Progress still, the run went past every test of the pack.
LEMMA AllSettled ==
  ASSUME TypeOK, IInv, pc = "decide", status = IN_PROGRESS, NEW t \in Pack
  PROVE  Len(results[t]) = 1 /\ results[t][1] \in FinalResult
<1>1. Marked(t)
  <2>1. PICK m \in Modules : t \in TestsOf(m)
    OBVIOUS
  <2>2. \E j \in 1 .. Len(ModuleTests[m]) : t = ModuleTests[m][j]
    BY <2>1 DEF TestsOf
  <2>3. QED  BY <2>2 DEF Marked, PastModules, PastFinish
<1>2. Len(results[t]) = 1 /\ results[t][1] # NOT_STARTED
  BY <1>1 DEF IInv, ProgressInv
<1>3. results[t][1] # TEST_IN_PROGRESS
  <2>1. 1 \in 1 .. Len(results[t])  BY <1>2
  <2>2. QED  BY <2>1 DEF IInv, FinishInv, PastFinish
<1>4. results[t][1] \in TestResult
  <2>1. results[t] \in Seq(TestResult)  BY DEF TypeOK, Results
  <2>2. QED  BY <1>2, <2>1, ElementOfSeq
<1>5. QED  BY <1>2, <1>3, <1>4, ResultFacts

\* A report is made of settled results, which then do not change, and its
\* status is set after it is published.
LEMMA ReportStep ==
  ASSUME TypeOK, IInv, [Next]_vars
  PROVE  ReportInv'
<1> USE DEF ReportInv, Goto, sessionVars
<1> DEFINE Settled(rs) ==
             \A t \in Pack : Len(rs[t]) = 1 /\ rs[t][1] \in FinalResult
<1>1. ReportInv /\ FinishInv  BY DEF IInv
<1>2. status \in OutcomeStatus => pc \in {"stop_network", "done"}
  BY <1>1
<1>3. CASE OtherStep
  <2>1. CASE pc \in {"report", "publish", "outcome"} \/ report # {}
    <3>1. pc \in PastFinish  BY <1>1, <2>1 DEF PastFinish
    <3>2. Finish(results) = results
      BY <1>1, <3>1, FinishIdle DEF FinishInv, TypeOK
    <3>3. results' = results  BY <1>3, <3>2 DEF OtherStep
    <3>4. QED  BY <1>1, <1>3, <3>3, StatusFacts DEF OtherStep
  <2>2. CASE ~(pc \in {"report", "publish", "outcome"} \/ report # {})
    BY <1>1, <1>3, <2>2, StatusFacts DEF OtherStep
  <2>3. QED  BY <2>1, <2>2
<1>4. CASE RunTestModules \/ EnterModule \/ CheckStopped \/ LoadResults
  BY <1>1, <1>2, <1>4 DEF RunTestModules, EnterModule, CheckStopped,
     LoadResults, NextModule
<1>5. CASE MarkTest \/ AllMarked \/ SetTestModulesError
  BY <1>1, <1>2, <1>5 DEF MarkTest, AllMarked, SetTestModulesError
<1>6. CASE CancelDisconnected
  BY <1>1, <1>6, StatusFacts DEF CancelDisconnected, NextModule
<1>7. CASE StartContainer \/ StartFails \/ PollEnds \/ PollFails \/ PollTimeout
             \/ KillModule
  BY <1>1, <1>2, <1>7 DEF StartContainer, StartFails, PollEnds, PollFails,
                          PollTimeout,
                          KillModule
<1>8. CASE TimeoutErrors \/ FinishSession
  BY <1>1, <1>2, <1>8 DEF TimeoutErrors, FinishSession
<1>9. CASE Decide
  <2>1. report = {} /\ report' = {} /\ results' = results
          /\ status' = status /\ status' \notin OutcomeStatus
    BY <1>1, <1>2, <1>9 DEF Decide
  <2>2. pc' = "report" => Settled(results)
    BY <1>9, AllSettled DEF Decide
  <2>3. pc' \in {"report", "stop_network"}
    BY <1>9 DEF Decide
  <2>4. QED  BY <2>1, <2>2, <2>3
<1>10. CASE GenerateReport
  <2>1. Settled(results)  BY <1>1, <1>10 DEF GenerateReport
  <2> DEFINE rec == [tests  |-> results,
                     result |-> CalculateResult(results),
                     status |-> CalculateStatus(results)]
  <2>2. /\ results' = results /\ status' = status /\ pc' = "publish"
        /\ report' = {rec}
    BY <1>10 DEF GenerateReport
  <2>3. rec.tests = results  OBVIOUS
  <2>4. status' \notin OutcomeStatus
    BY <1>2, <1>10, <2>2 DEF GenerateReport
  <2>5. /\ \A r, s \in report' : r = s
        /\ \A r \in report' : r.tests = results'
        /\ report' # {}
    <3> HIDE DEF rec
    <3> QED  BY <2>2, <2>3
  <2>6. QED  BY <2>1, <2>2, <2>4, <2>5
<1>11. CASE PublishReport \/ ReportFails
  BY <1>1, <1>2, <1>11 DEF PublishReport, ReportFails
<1>12. CASE SetOutcome
  BY <1>1, <1>12 DEF SetOutcome
<1>13. CASE StopNetwork
  BY <1>1, <1>13 DEF StopNetwork
<1>14. QED
  BY <1>3, <1>4, <1>5, <1>6, <1>7, <1>8, <1>9, <1>10, <1>11, <1>12, <1>13,
     OtherSteps DEF Next, Orchestrator

\* The tests of two places in the modules are the same only when the places
\* are.
LEMMA TestNamesUnique ==
  ASSUME NEW m \in Modules, NEW j \in 1 .. Len(ModuleTests[m]),
         NEW n \in Modules, NEW i \in 1 .. Len(ModuleTests[n]),
         ModuleTests[m][j] = ModuleTests[n][i]
  PROVE  m = n /\ j = i
OBVIOUS

\* An error that is added is an error in every entry.
LEMMA AddErrorProperties ==
  ASSUME NEW rs \in Results, NEW t \in Tests
  PROVE  \A i \in 1 .. Len(AddEntry(rs, t, ERROR)) : AddEntry(rs, t, ERROR)[i] = ERROR
<1>1. rs[t] \in Seq(TestResult) /\ Len(rs[t]) \in Nat  BY DEF Results
<1>2. \A l : Stored(l, ERROR) = ERROR
  BY DEF Stored, ERROR, COMPLIANT, NON_COMPLIANT, INFORMATIONAL
<1>3. CASE rs[t] = <<>>
  <2>1. AddEntry(rs, t, ERROR) = <<ERROR>>  BY <1>3 DEF AddEntry
  <2>2. QED  BY <2>1
<1>4. CASE rs[t] # <<>>
  <2> DEFINE f == [i \in 1 .. Len(rs[t]) |-> Stored(LevelOf(t, i), ERROR)]
  <2>1. AddEntry(rs, t, ERROR) = f  BY <1>4 DEF AddEntry
  <2>2. f \in [1 .. Len(rs[t]) -> {ERROR}]  BY <1>2
  <2>3. Len(f) = Len(rs[t])  BY <1>1, <2>2, FunctionIsSeq
  <2>4. QED  BY <2>1, <2>2, <2>3
<1>5. QED  BY <1>3, <1>4

\* An error entry is appended behind those that are there.
LEMMA SetErrorsProperties ==
  ASSUME NEW rs \in Results, NEW ts, NEW t \in Tests
  PROVE  LET e == SetTestResultErrors(rs, ts)[t] IN
         /\ Len(e) >= Len(rs[t])
         /\ \A i \in 1 .. Len(e) : \/ i \in 1 .. Len(rs[t]) /\ e[i] = rs[t][i]
                                   \/ e[i] = ERROR
         /\ Len(rs[t]) >= 1 => e[1] = rs[t][1]
<1>1. rs[t] \in Seq(TestResult) /\ Len(rs[t]) \in Nat  BY DEF Results
<1>2. SetTestResultErrors(rs, ts)[t] \in {rs[t], Append(rs[t], ERROR)}
  BY DEF SetTestResultErrors
<1>3. CASE SetTestResultErrors(rs, ts)[t] = rs[t]
  BY <1>1, <1>3
<1>4. CASE SetTestResultErrors(rs, ts)[t] = Append(rs[t], ERROR)
  BY <1>1, <1>4, ResultFacts
<1>5. QED  BY <1>2, <1>3, <1>4

\* No step takes an entry away.
LEMMA EntriesStay ==
  ASSUME TypeOK, [Next]_vars
  PROVE  \A t \in Tests : /\ Len(results[t]) \in Nat
                          /\ Len(results'[t]) \in Nat
                          /\ Len(results'[t]) >= Len(results[t])
<1>1. results \in Results /\ results' \in Results  BY TypeStep DEF TypeOK
<1>2. \A t \in Tests : Len(results[t]) \in Nat /\ Len(results'[t]) \in Nat
  BY <1>1 DEF Results
<1>3. \A t \in Tests : \A r \in TestResult :
        Len(AddEntry(results, t, r)) >= Len(results[t])
  BY <1>1, <1>2, AddEntryProperties
<1> SUFFICES ASSUME NEW t \in Tests PROVE Len(results'[t]) >= Len(results[t])
  BY <1>2
<1>4. CASE results' = results  BY <1>2, <1>4
<1>5. CASE OtherStep
  BY <1>1, <1>2, <1>5, FinishProperties DEF OtherStep
<1>6. CASE RunTestModules
  BY <1>2, <1>3, <1>6, ResultFacts, SMTT(30) DEF RunTestModules, AddTestResults
<1>7. CASE MarkTest
  <2>1. ModuleTests[module][test] \in Tests
    BY <1>7, TestsOfProperties DEF MarkTest, TypeOK
  <2>2. QED
    BY <1>1, <1>2, <1>3, <1>7, <2>1, ResultFacts, SMTT(30)
    DEF MarkTest, AddTestResult, Results
<1>8. CASE SetTestModulesError
  BY <1>1, <1>8, SetErrorsProperties DEF SetTestModulesError
<1>9. CASE TimeoutErrors
  BY <1>2, <1>3, <1>9, ResultFacts DEF TimeoutErrors, AddTestResults
<1>10. CASE LoadResults
  <2>1. CASE UNCHANGED results  BY <1>2, <2>1
  <2>2. CASE module \in written
    <3>1. PICK r \in [TestsOf(module) \cap Pack -> Verdicts] :
            results' = AddTestResults(results, DOMAIN r, r)
      BY <1>10, <2>2 DEF LoadResults
    <3>2. \A u \in DOMAIN r : r[u] \in TestResult  BY ResultFacts
    <3>3. QED  BY <1>2, <1>3, <3>1, <3>2 DEF AddTestResults
  <2>3. QED  BY <1>10, <2>1, <2>2 DEF LoadResults
<1>11. CASE FinishSession
  BY <1>1, <1>2, <1>11, FinishProperties DEF FinishSession
<1>12. CASE Orchestrator /\ ~(RunTestModules \/ MarkTest \/ SetTestModulesError
                             \/ TimeoutErrors \/ LoadResults \/ FinishSession)
  <2>1. results' = results
    BY <1>12 DEF Orchestrator, EnterModule, CancelDisconnected, AllMarked,
       StartContainer, StartFails, PollEnds, PollFails, PollTimeout,
       KillModule, CheckStopped,
       Decide, GenerateReport, PublishReport, ReportFails, SetOutcome, StopNetwork,
       sessionVars
  <2>2. QED  BY <1>4, <2>1
<1>13. QED
  BY <1>5, <1>6, <1>7, <1>8, <1>9, <1>10, <1>11, <1>12, OtherSteps DEF Next

\* What a result does to an entry that has none yet: it is none still only
\* when the step is not about that test.
LEMMA EntryStep ==
  ASSUME TypeOK, IInv, [Next]_vars
  PROVE  EntryInv'
<1> USE DEF Goto, sessionVars
<1> DEFINE Fresh(rs, t) == Len(rs[t]) = 0 \/ rs[t][1] = NOT_STARTED
           HasAll(rs) == \A t \in Pack : Len(rs[t]) >= 1
           AllFresh == \A m \in Modules : \A j \in 1 .. Len(ModuleTests[m]) :
                         ModuleTests[m][j] \in Pack /\ Ahead(m, j)'
                           => Fresh(results', ModuleTests[m][j])
<1>1. EntryInv /\ ProgressInv  BY DEF IInv
<1>2. results \in Results /\ results' \in Results  BY TypeStep DEF TypeOK
<1>3. HasAll(results) => HasAll(results')
  <2>1. \A t \in Pack : t \in Tests  OBVIOUS
  <2>2. \A t \in Pack : /\ Len(results[t]) \in Nat /\ Len(results'[t]) \in Nat
                        /\ Len(results'[t]) >= Len(results[t])
    BY <2>1, EntriesStay
  <2>3. QED  BY <2>2
<1>4. ASSUME pc \notin {"begin", "stop_network", "done"}
      PROVE  HasAll(results')
  BY <1>1, <1>3, <1>4 DEF EntryInv
<1>5. \A t \in Tests : Fresh(results, t) => Fresh(Finish(results), t)
  BY <1>2, FinishProperties, ResultFacts
<1>6. ASSUME \A m \in Modules : \A j \in 1 .. Len(ModuleTests[m]) :
               Ahead(m, j)' => Ahead(m, j),
             \A t \in Tests : Fresh(results, t) => Fresh(results', t)
      PROVE  AllFresh
  <2> SUFFICES ASSUME NEW m \in Modules, NEW j \in 1 .. Len(ModuleTests[m]),
                      ModuleTests[m][j] \in Pack, Ahead(m, j)'
               PROVE  Fresh(results', ModuleTests[m][j])
    OBVIOUS
  <2>1. Fresh(results, ModuleTests[m][j])
    BY <1>1, <1>6 DEF EntryInv
  <2>2. ModuleTests[m][j] \in Tests  BY TestsOfProperties
  <2>3. QED  BY <1>6, <2>1, <2>2
<1>7. AllFresh /\ (pc' \in {"begin", "stop_network", "done"} \/ HasAll(results'))
        => EntryInv'
  BY DEF EntryInv
<1>8. CASE OtherStep
  <2>1. \A m, j : Ahead(m, j)' <=> Ahead(m, j)  BY <1>8 DEF OtherStep, Ahead
  <2>2. AllFresh  BY <1>5, <1>6, <1>8, <2>1 DEF OtherStep
  <2>3. QED  BY <1>4, <1>7, <1>8, <2>2 DEF OtherStep
<1>9. CASE RunTestModules
  <2>1. pc = "begin" /\ module' = module /\ module = 1 /\ test' = test
    BY <1>1, <1>9 DEF RunTestModules, ProgressInv
  <2>2. \A t \in Tests : Len(results[t]) = 0
    BY <1>1, <2>1 DEF ProgressInv
  <2>3. CASE status = IN_PROGRESS
    <3>1. \A t \in Pack : results'[t] = AddEntry(results, t, NOT_STARTED)
      BY <1>9, <2>3 DEF RunTestModules, AddTestResults
    <3>2. \A t \in Pack : results[t] = <<>>
      BY <1>2, <2>2, EmptySeq DEF Results
    <3>3. \A t \in Pack : results'[t] = <<NOT_STARTED>>
      BY <3>1, <3>2 DEF AddEntry
    <3>4. \A t \in Pack : Len(results'[t]) = 1 /\ results'[t][1] = NOT_STARTED
      <4>1. Len(<<NOT_STARTED>>) = 1 /\ <<NOT_STARTED>>[1] = NOT_STARTED
        OBVIOUS
      <4>2. QED  BY <3>3, <4>1, Zenon
    <3>5. HasAll(results')  BY <3>4
    <3>6. AllFresh
      <4> SUFFICES ASSUME NEW m \in Modules, NEW j \in 1 .. Len(ModuleTests[m]),
                          ModuleTests[m][j] \in Pack, Ahead(m, j)'
                   PROVE  Fresh(results', ModuleTests[m][j])
        OBVIOUS
      <4>1. QED  BY <3>4
    <3>7. QED  BY <1>7, <3>5, <3>6
  <2>4. CASE status # IN_PROGRESS
    <3>1. results' = results /\ pc' = "stop_network"
      BY <1>9, <2>4 DEF RunTestModules
    <3>2. \A m, j : Ahead(m, j)' => Ahead(m, j)  BY <2>1, <3>1 DEF Ahead
    <3>3. AllFresh  BY <1>6, <3>1, <3>2
    <3>4. QED  BY <1>7, <3>1, <3>3
  <2>5. QED  BY <2>3, <2>4
<1>10. CASE EnterModule \/ CancelDisconnected \/ CheckStopped
  <2>1. results' = results /\ pc \in {"module", "disconnected", "check_stop"}
    BY <1>10 DEF EnterModule, CancelDisconnected, CheckStopped
  <2>2. ASSUME NEW m \in Modules, NEW j \in 1 .. Len(ModuleTests[m]), Ahead(m, j)'
        PROVE  Ahead(m, j)
    <3>1. CASE NextModule
      BY <2>2, <3>1 DEF NextModule, Ahead, TypeOK, Modules
    <3>2. CASE ~NextModule
      <4>1. j >= 1 /\ test = test' /\ module' = module
        BY <1>10, <3>2 DEF EnterModule, CancelDisconnected, CheckStopped
      <4>2. pc = "module" => test = 1  BY <1>1 DEF ProgressInv
      <4>3. pc' \in {"mark", "load"} /\ (pc' = "mark" => pc = "module")
        BY <1>10, <3>2 DEF EnterModule, CancelDisconnected, CheckStopped
      <4>4. QED  BY <2>2, <4>1, <4>2, <4>3 DEF Ahead
    <3>3. QED  BY <3>1, <3>2
  <2>3. AllFresh  BY <1>6, <2>1, <2>2
  <2>4. QED  BY <1>4, <1>7, <2>1, <2>3
<1>11. CASE MarkTest
  <2> DEFINE u == ModuleTests[module][test]
  <2>1. /\ pc = "mark" /\ pc' = "mark" /\ module' = module /\ test' = test + 1
        /\ test \in 1 .. Len(ModuleTests[module]) /\ module \in Modules
    BY <1>11, TestsOfProperties DEF MarkTest, TypeOK
  <2>2. \A t \in Tests : t # u => results'[t] = results[t]
    BY <1>2, <1>11 DEF MarkTest, AddTestResult, Results
  <2>3. ASSUME NEW m \in Modules, NEW j \in 1 .. Len(ModuleTests[m]),
               ModuleTests[m][j] \in Pack, Ahead(m, j)'
        PROVE  Fresh(results', ModuleTests[m][j])
    <3>1. Ahead(m, j) /\ ~(m = module /\ j = test)
      BY <2>1, <2>3 DEF Ahead, TypeOK, Modules
    <3>2. ModuleTests[m][j] # u  BY <2>1, <3>1, TestNamesUnique
    <3>3. Fresh(results, ModuleTests[m][j])  BY <1>1, <2>3, <3>1 DEF EntryInv
    <3>4. QED  BY <2>2, <2>3, <3>2, <3>3
  <2>4. AllFresh  BY <2>3
  <2>5. QED  BY <1>4, <1>7, <2>1, <2>4
<1>12. CASE SetTestModulesError
  <2>1. \A m, j : Ahead(m, j)' => Ahead(m, j)
    BY <1>12 DEF SetTestModulesError, Ahead
  <2>2. pc = "mark" /\ results' = SetTestResultErrors(results, RemainingTests)
    BY <1>12 DEF SetTestModulesError
  <2>3. \A t \in Pack : Len(results[t]) >= 1  BY <1>1, <2>2 DEF EntryInv
  <2>4. ASSUME NEW m \in Modules, NEW j \in 1 .. Len(ModuleTests[m]),
               ModuleTests[m][j] \in Pack, Ahead(m, j)'
        PROVE  Fresh(results', ModuleTests[m][j])
    <3> DEFINE t == ModuleTests[m][j]
    <3>1. t \in Tests /\ Len(results[t]) \in Nat /\ Len(results[t]) >= 1
      BY <2>3, <2>4, EntriesStay
    <3>2. Fresh(results, t)  BY <1>1, <2>1, <2>4 DEF EntryInv
    <3>3. results'[t][1] = results[t][1]
      BY <1>2, <2>2, <3>1, SetErrorsProperties
    <3>4. QED  BY <3>1, <3>2, <3>3
  <2>5. AllFresh  BY <2>4
  <2>6. QED  BY <1>4, <1>7, <2>2, <2>5
<1>13. CASE TimeoutErrors \/ LoadResults
  <2>1. /\ pc \in {"timeout", "load"}
        /\ \A m \in Modules : \A j : Ahead(m, j)' => m > module
    BY <1>13 DEF TimeoutErrors, LoadResults, NextModule, Ahead, TypeOK, Modules
  <2>2. \A t \in Tests \ TestsOf(module) : results'[t] = results[t]
    BY <1>13 DEF TimeoutErrors, LoadResults, AddTestResults
  <2>3. ASSUME NEW m \in Modules, NEW j \in 1 .. Len(ModuleTests[m]),
               ModuleTests[m][j] \in Pack, Ahead(m, j)'
        PROVE  Fresh(results', ModuleTests[m][j])
    <3>1. m > module /\ module \in Modules  BY <2>1, <2>3 DEF TypeOK
    <3>2. ModuleTests[m][j] \notin TestsOf(module)
      <4> SUFFICES ASSUME NEW i \in 1 .. Len(ModuleTests[module]),
                          ModuleTests[m][j] = ModuleTests[module][i]
                   PROVE  FALSE
        BY DEF TestsOf
      <4>1. m = module  BY <3>1, TestNamesUnique
      <4>2. QED  BY <3>1, <4>1 DEF Modules
    <3>3. Fresh(results, ModuleTests[m][j])  BY <1>1, <2>3, <3>1 DEF EntryInv, Ahead
    <3>4. ModuleTests[m][j] \in Tests  BY <2>3
    <3>5. QED  BY <2>2, <3>2, <3>3, <3>4
  <2>4. AllFresh  BY <2>3
  <2>5. QED  BY <1>4, <1>7, <2>1, <2>4
<1>14. CASE FinishSession
  <2>1. pc = "finish" /\ results' = Finish(results)  BY <1>14 DEF FinishSession
  <2>2. \A m, j : Ahead(m, j)' => Ahead(m, j)  BY <1>14 DEF FinishSession, Ahead
  <2>3. AllFresh  BY <1>5, <1>6, <2>1, <2>2
  <2>4. QED  BY <1>4, <1>7, <2>1, <2>3
<1>15. CASE AllMarked \/ StartContainer \/ StartFails \/ PollEnds
            \/ PollFails \/ PollTimeout
              \/ KillModule \/ Decide \/ GenerateReport \/ PublishReport
              \/ ReportFails \/ SetOutcome \/ StopNetwork
  <2>1. /\ results' = results /\ module' = module
        /\ pc' \notin {"begin", "module", "mark"}
        /\ pc' \in {"stop_network", "done"}
             \/ pc \notin {"begin", "stop_network", "done"}
    BY <1>15 DEF AllMarked, StartContainer, StartFails, PollEnds, PollFails,
                 PollTimeout,
       KillModule, Decide, GenerateReport, PublishReport, ReportFails, SetOutcome,
       StopNetwork
  <2>2. \A m, j : Ahead(m, j)' => Ahead(m, j)  BY <2>1 DEF Ahead
  <2>3. AllFresh  BY <1>6, <2>1, <2>2
  <2>4. QED  BY <1>4, <1>7, <2>1, <2>3
<1>16. QED
  BY <1>8, <1>9, <1>10, <1>11, <1>12, <1>13, <1>14, <1>15, OtherSteps
  DEF Next, Orchestrator

\* Only a result file gives a test of the pack another result than an error.
LEMMA EvidenceStep ==
  ASSUME TypeOK, IInv, [Next]_vars
  PROVE  EvidenceInv'
<1> USE DEF Goto, sessionVars
<1> DEFINE None == {NOT_STARTED, TEST_IN_PROGRESS, ERROR}
           Bare(rs, t) == \A i \in 1 .. Len(rs[t]) : rs[t][i] \in None
<1>1. EvidenceInv  BY DEF IInv
<1>2. results \in Results /\ results' \in Results  BY TypeStep DEF TypeOK
<1>3. written \subseteq written'
  <2>1. CASE ContainerWrites  BY <2>1 DEF ContainerWrites
  <2>2. CASE ~ContainerWrites
    <3>1. written' = written
      BY <2>2 DEF Next, Orchestrator, RunTestModules, EnterModule, MarkTest,
         SetTestModulesError, CancelDisconnected, AllMarked, StartContainer,
         StartFails, PollEnds, PollFails, PollTimeout, KillModule,
         TimeoutErrors, CheckStopped,
         LoadResults, FinishSession, Decide, GenerateReport, PublishReport,
         ReportFails, SetOutcome, StopNetwork, AcceptStop, StopTask, BeginStop,
         StopFinish, StopAgain, StopOneModule, AllModulesStopped, StopCancel,
         StopTaskNetwork, Environment, ContainerExits, CableMoves, vars,
         containerVars
    <3>2. QED  BY <3>1
  <2>3. QED  BY <2>1, <2>2
<1> SUFFICES ASSUME NEW m \in Modules, m \notin written',
                    NEW t \in TestsOf(m) \cap Pack
             PROVE  Bare(results', t)
  BY DEF EvidenceInv
<1>4. m \notin written /\ t \in Tests  BY <1>3, TestsOfProperties
<1>5. Bare(results, t)  BY <1>1, <1>4 DEF EvidenceInv
<1>6. Bare(Finish(results), t)
  BY <1>2, <1>4, <1>5, FinishProperties
<1>7. ASSUME NEW r \in {NOT_STARTED, TEST_IN_PROGRESS}
      PROVE  \A i \in 1 .. Len(AddEntry(results, t, r)) :
               AddEntry(results, t, r)[i] \in None
  <2>1. r \in TestResult /\ r \notin FinalResult  BY ResultFacts
  <2>2. results \in Results /\ t \in Tests  BY <1>2, <1>4
  <2> HIDE DEF None
  <2>3. \A i \in 1 .. Len(AddEntry(results, t, r)) :
          /\ r \in FinalResult => AddEntry(results, t, r)[i] \in FinalResult
          /\ r \notin FinalResult => AddEntry(results, t, r)[i] = r
    BY ONLY <2>1, <2>2, AddEntryProperties
  <2>4. r \in None  BY DEF None
  <2>5. QED  BY ONLY <2>1, <2>3, <2>4
<1>8. CASE OtherStep
  BY <1>5, <1>6, <1>8 DEF OtherStep
<1>9. CASE RunTestModules
  <2>1. results'[t] \in {results[t], AddEntry(results, t, NOT_STARTED)}
    BY <1>4, <1>9 DEF RunTestModules, AddTestResults
  <2>2. QED  BY <1>5, <1>7, <2>1
<1>10. CASE MarkTest
  <2>1. results'[t] \in {results[t], AddEntry(results, t, TEST_IN_PROGRESS)}
    BY <1>2, <1>4, <1>10 DEF MarkTest, AddTestResult, Results
  <2>2. QED  BY <1>5, <1>7, <2>1
<1>11. CASE SetTestModulesError
  BY <1>2, <1>4, <1>5, <1>11, SetErrorsProperties, SMTT(30) DEF SetTestModulesError
<1>12. CASE TimeoutErrors
  <2>1. results'[t] \in {results[t], AddEntry(results, t, ERROR)}
    BY <1>4, <1>12 DEF TimeoutErrors, AddTestResults
  <2>2. QED  BY <1>2, <1>4, <1>5, <2>1, AddErrorProperties
<1>13. CASE LoadResults
  <2>1. CASE UNCHANGED results  BY <1>5, <2>1
  <2>2. CASE module \in written
    <3>1. t \notin TestsOf(module)
      <4> SUFFICES ASSUME t \in TestsOf(module) PROVE FALSE
        OBVIOUS
      <4>1. PICK j \in 1 .. Len(ModuleTests[m]) : t = ModuleTests[m][j]
        BY DEF TestsOf
      <4>2. PICK i \in 1 .. Len(ModuleTests[module]) : t = ModuleTests[module][i]
        BY DEF TestsOf
      <4>3. m = module  BY <4>1, <4>2, TestNamesUnique DEF TypeOK
      <4>4. QED  BY <1>4, <2>2, <4>3
    <3>2. results'[t] = results[t]
      BY <1>4, <1>13, <2>2, <3>1 DEF LoadResults, AddTestResults
    <3>3. QED  BY <1>5, <3>2
  <2>3. QED  BY <1>13, <2>1, <2>2 DEF LoadResults
<1>14. CASE FinishSession
  BY <1>6, <1>14 DEF FinishSession
<1>15. CASE Orchestrator /\ ~(RunTestModules \/ MarkTest \/ SetTestModulesError
                             \/ TimeoutErrors \/ LoadResults \/ FinishSession)
  <2>1. results' = results
    BY <1>15 DEF Orchestrator, EnterModule, CancelDisconnected, AllMarked,
       StartContainer, StartFails, PollEnds, PollFails, PollTimeout,
       KillModule, CheckStopped,
       Decide, GenerateReport, PublishReport, ReportFails, SetOutcome, StopNetwork
  <2>2. QED  BY <1>5, <2>1
<1>16. QED
  BY <1>8, <1>9, <1>10, <1>11, <1>12, <1>13, <1>14, <1>15, OtherSteps DEF Next

\* Nobody but a disconnection cancels a run that is not stopped, and it leaves
\* no test with Not Started alone: those that were marked have been started,
\* and the rest get an error.
LEMMA AccountStep ==
  ASSUME TypeOK, IInv, [Next]_vars
  PROVE  AccountInv'
<1> USE DEF Goto, sessionVars
<1> DEFINE Started(rs) == \A t \in Pack : \E i \in 1 .. Len(rs[t]) :
                            rs[t][i] # NOT_STARTED
<1>1. AccountInv /\ ProgressInv /\ ReportInv  BY DEF IInv
<1>2. results \in Results /\ results' \in Results  BY TypeStep DEF TypeOK
<1>3. Started(results) => Started(Finish(results))
  <2> SUFFICES ASSUME Started(results), NEW t \in Pack
               PROVE  \E i \in 1 .. Len(Finish(results)[t]) :
                        Finish(results)[t][i] # NOT_STARTED
    OBVIOUS
  <2>1. PICK i \in 1 .. Len(results[t]) : results[t][i] # NOT_STARTED
    OBVIOUS
  <2>2. t \in Tests  OBVIOUS
  <2>3. /\ Len(Finish(results)[t]) = Len(results[t])
        /\ Finish(results)[t][i] =
             IF results[t][i] = TEST_IN_PROGRESS THEN ERROR ELSE results[t][i]
    BY ONLY <1>2, <2>2, i \in 1 .. Len(results[t]), FinishProperties
  <2>4. Finish(results)[t][i] # NOT_STARTED
    BY ONLY <2>1, <2>3, ResultFacts
  <2>5. QED  BY <2>3, <2>4
<1> SUFFICES ASSUME ~stopped'
             PROVE  /\ stopPc' = "idle"
                    /\ \/ status' = IN_PROGRESS
                       \/ pc' \in {"module", "finish", "decide", "stop_network", "done"}
                    /\ \/ pc' = "disconnected" \/ status' # IN_PROGRESS
                       \/ pc' \in {"stop_network", "done"}
                       => Started(results')
  BY DEF AccountInv
<1>4. CASE StopTask
  <2>1. BeginStop => stopped'  BY DEF BeginStop
  <2>2. StopTask /\ ~BeginStop => stopPc # "idle" /\ stopped' = stopped
    BY DEF StopTask, StopFinish, StopAgain, StopOneModule, AllModulesStopped,
           StopCancel, StopTaskNetwork
  <2>3. QED  BY <1>1, <1>4, <2>1, <2>2 DEF AccountInv
<1>5. CASE AcceptStop \/ Environment \/ UNCHANGED vars
  <2>1. UNCHANGED <<stopped, stopPc, status, pc, results>>
    BY <1>5 DEF AcceptStop, Environment, ContainerWrites, ContainerExits, CableMoves,
       vars, threadVars, stopVars
  <2>2. QED  BY <1>1, <2>1 DEF AccountInv
<1>6. CASE Orchestrator
  <2>1. stopped' = stopped /\ stopPc' = stopPc
    BY <1>6 DEF Orchestrator, RunTestModules, EnterModule, MarkTest,
       SetTestModulesError, CancelDisconnected, AllMarked, StartContainer,
       StartFails, PollEnds, PollFails, PollTimeout, KillModule,
       TimeoutErrors, CheckStopped,
       LoadResults, FinishSession, Decide, GenerateReport, PublishReport,
       ReportFails, SetOutcome, StopNetwork, stopVars
  <2>2. /\ ~stopped /\ stopPc' = "idle"
        /\ \/ status = IN_PROGRESS
           \/ pc \in {"module", "finish", "decide", "stop_network", "done"}
        /\ \/ pc = "disconnected" \/ status # IN_PROGRESS
           \/ pc \in {"stop_network", "done"}
           => Started(results)
    BY <1>1, <2>1 DEF AccountInv
  <2> HIDE DEF Started
  <2>3. CASE RunTestModules
    BY <2>2, <2>3 DEF RunTestModules
  <2>4. CASE EnterModule \/ CheckStopped \/ CancelDisconnected
    BY <2>2, <2>4, StatusFacts DEF EnterModule, CheckStopped, CancelDisconnected,
       NextModule
  <2>5. CASE MarkTest \/ AllMarked \/ StartContainer \/ StartFails
             \/ PollEnds \/ PollFails
               \/ PollTimeout \/ KillModule \/ TimeoutErrors
    BY <2>2, <2>5 DEF MarkTest, AllMarked, StartContainer, StartFails,
                      PollEnds, PollFails,
       PollTimeout, KillModule, TimeoutErrors
  <2>6. CASE LoadResults \/ GenerateReport \/ PublishReport \/ ReportFails
    BY <2>2, <2>6 DEF LoadResults, NextModule, GenerateReport, PublishReport,
       ReportFails
  <2>7. CASE SetTestModulesError
    <3>1. /\ pc = "mark" /\ pc' = "disconnected" /\ status' = status
          /\ status = IN_PROGRESS
          /\ results' = SetTestResultErrors(results, RemainingTests)
          /\ module \in Modules /\ test \in Nat
      BY <2>2, <2>7 DEF SetTestModulesError, TypeOK
    <3>2. ASSUME NEW t \in Pack
          PROVE  \E i \in 1 .. Len(results'[t]) : results'[t][i] # NOT_STARTED
      <4>1. results[t] \in Seq(TestResult) /\ t \in Tests  BY <1>2 DEF Results
      <4>2. CASE t \in RemainingTests
        <5>1. results'[t] = Append(results[t], ERROR)
          BY <3>1, <4>1, <4>2 DEF SetTestResultErrors
        <5>2. /\ Len(results'[t]) = Len(results[t]) + 1
              /\ results'[t][Len(results[t]) + 1] = ERROR
          BY <4>1, <5>1
        <5>3. Len(results[t]) + 1 \in 1 .. Len(results'[t])  BY <4>1, <5>2
        <5>4. QED  BY <5>2, <5>3, ResultFacts
      <4>3. CASE t \notin RemainingTests
        <5>1. PICK m \in Modules : t \in TestsOf(m)  BY <4>1
        <5>2. PICK j \in 1 .. Len(ModuleTests[m]) : t = ModuleTests[m][j]
          BY <5>1 DEF TestsOf
        <5>3. ~(m > module)
          <6> SUFFICES ASSUME m > module PROVE FALSE
            OBVIOUS
          <6>1. m \in (module + 1) .. NumModules
            BY <3>1, ModulesAssumption DEF Modules
          <6>2. t \in UNION {TestsOf(n) : n \in (module + 1) .. NumModules}
            BY ONLY <5>1, <6>1
          <6>3. QED  BY <4>3, <6>2 DEF RemainingTests
        <5>4. ~(m = module /\ j >= test)
          BY <3>1, <4>3, <5>2 DEF RemainingTests
        <5>5. m < module \/ (m = module /\ j < test)
          BY <3>1, <5>3, <5>4 DEF Modules
        <5>6. Marked(t)  BY <3>1, <5>2, <5>5 DEF Marked
        <5>7. Len(results[t]) = 1 /\ results[t][1] # NOT_STARTED
          BY <1>1, <3>1, <5>6 DEF ProgressInv
        <5>8. results'[t] = results[t]
          BY <3>1, <4>1, <4>3 DEF SetTestResultErrors
        <5>9. QED  BY <5>7, <5>8
      <4>4. QED  BY <4>2, <4>3
    <3>3. Started(results')  BY <3>2 DEF Started
    <3>4. QED  BY <2>2, <3>1, <3>3
  <2>8. CASE FinishSession
    BY <1>3, <2>2, <2>8 DEF FinishSession
  <2>9. CASE Decide
    BY <2>2, <2>9 DEF Decide
  <2>10. CASE SetOutcome
    <3>1. \A t \in Pack : Len(results[t]) = 1 /\ results[t][1] \in FinalResult
      BY <1>1, <2>10 DEF SetOutcome, ReportInv
    <3>2. Started(results)
      <4> SUFFICES ASSUME NEW t \in Pack
                   PROVE  \E i \in 1 .. Len(results[t]) : results[t][i] # NOT_STARTED
        BY DEF Started
      <4>1. 1 \in 1 .. Len(results[t]) /\ results[t][1] # NOT_STARTED
        BY <3>1, ResultFacts
      <4>2. QED  BY <4>1
    <3>3. QED  BY <2>2, <2>10, <3>2 DEF SetOutcome
  <2>11. CASE StopNetwork
    BY <2>2, <2>11 DEF StopNetwork
  <2>12. QED
    BY <1>6, <2>3, <2>4, <2>5, <2>6, <2>7, <2>8, <2>9, <2>10, <2>11
    DEF Orchestrator
<1>7. QED  BY <1>4, <1>5, <1>6 DEF Next

\* The inductive invariant holds in every state of a run: initially nothing
\* was done, and each of its parts is kept by every step.
THEOREM InductiveInvariant == Spec => [](TypeOK /\ IInv)
<1>1. Init => TypeOK /\ IInv
  <2> SUFFICES ASSUME Init PROVE IInv
    BY InitType
  <2>1. \A t \in Tests : Len(results[t]) = 0
    BY EmptySeq DEF Init, NoResults
  <2>2. ProgressInv  BY <2>1 DEF Init, ProgressInv
  <2>3. FinishInv  BY DEF Init, FinishInv, PastFinish
  <2>4. ReportInv  BY StatusFacts DEF Init, ReportInv
  <2>5. ContainerInv
    <3>1. Cardinality({}) = 0  BY FS_EmptySet
    <3>2. container = {} /\ faults = 0 /\ pc = "begin"  BY DEF Init
    <3>3. QED  BY <3>1, <3>2 DEF ContainerInv, OneContainer
  <2>6. EntryInv
    <3>1. \A m \in Modules : \A j \in 1 .. Len(ModuleTests[m]) :
            ModuleTests[m][j] \in Tests
      BY TestsOfProperties
    <3>2. QED  BY <2>1, <3>1 DEF Init, EntryInv
  <2>7. EvidenceInv
    <3>1. \A m \in Modules : \A t \in TestsOf(m) : t \in Tests
      BY TestsOfProperties
    <3>2. QED  BY <2>1, <3>1 DEF EvidenceInv
  <2>8. AccountInv  BY DEF Init, AccountInv
  <2>9. QED  BY <2>2, <2>3, <2>4, <2>5, <2>6, <2>7, <2>8 DEF IInv
<1>2. TypeOK /\ IInv /\ [Next]_vars => (TypeOK /\ IInv)'
  BY TypeStep, ProgressStep, FinishStep, ReportStep, ContainerStep, EntryStep,
     EvidenceStep, AccountStep DEF IInv
<1>3. QED  BY <1>1, <1>2, PTL DEF Spec

\* A report never shows a test of the pack that is Not Started or In
\* Progress, or twice (run_test_modules, _generate_report), for any modules,
\* any pack, and any timing of stops, timeouts and disconnections.
THEOREM ReportsAreComplete == Spec => []ReportComplete
<1>1. IInv => ReportComplete  BY DEF IInv, ReportInv, ReportComplete
<1>2. QED  BY <1>1, InductiveInvariant, PTL

\* The session's results stay the reported ones for good.
THEOREM ReportsMatchSession == Spec => []ReportMatchesSession
<1>1. IInv => ReportMatchesSession
  BY DEF IInv, ReportInv, ReportMatchesSession
<1>2. QED  BY <1>1, InductiveInvariant, PTL

\* Nothing is in progress once the session is finished.
THEOREM NothingInProgressAfterFinish == Spec => []NothingLeftInProgress
<1>1. TypeOK /\ IInv => NothingLeftInProgress
  <2> SUFFICES ASSUME TypeOK, IInv, pc \in PastFinish,
                      NEW t \in Tests, NEW i \in DOMAIN results[t]
               PROVE  results[t][i] # TEST_IN_PROGRESS
    BY DEF NothingLeftInProgress, PastFinish
  <2>1. results[t] \in Seq(TestResult)  BY DEF TypeOK, Results
  <2>2. i \in 1 .. Len(results[t])  BY <2>1
  <2>3. QED  BY <2>2 DEF IInv, FinishInv
<1>2. QED  BY <1>1, InductiveInvariant, PTL

\* Any number of modules, stops and failing Docker calls: each container up
\* beside another was left by a call whose error was swallowed.
THEOREM OneContainerAtATime == Spec => []OneContainer
<1>1. IInv => OneContainer  BY DEF IInv, ContainerInv
<1>2. QED  BY <1>1, InductiveInvariant, PTL

\* The status shows an outcome only when its report is published.
THEOREM OutcomesHaveReports == Spec => []OutcomeHasReport
<1>1. IInv => OutcomeHasReport
  BY DEF IInv, ReportInv, OutcomeHasReport
<1>2. QED  BY <1>1, InductiveInvariant, PTL

\* A test of the pack whose module left no result file is reported as an
\* error, whatever killed, crashed or stopped its container.
THEOREM ResultsHaveEvidence == Spec => []EvidenceBacked
<1>1. TypeOK /\ IInv => EvidenceBacked
  <2> SUFFICES ASSUME TypeOK, IInv, NEW r \in report, NEW m \in Modules \ written,
                      NEW t \in TestsOf(m) \cap Pack, NEW i \in DOMAIN r.tests[t]
               PROVE  r.tests[t][i] = ERROR
    BY DEF EvidenceBacked
  <2>1. /\ r.tests = results
        /\ \A u \in Pack : Len(results[u]) = 1 /\ results[u][1] \in FinalResult
    BY DEF IInv, ReportInv
  <2>2. results[t] \in Seq(TestResult)  BY DEF TypeOK, Results
  <2>3. i = 1 /\ results[t][i] \in FinalResult  BY <2>1, <2>2
  <2>4. results[t][i] \in {NOT_STARTED, TEST_IN_PROGRESS, ERROR}
    BY <2>1, <2>3 DEF IInv, EvidenceInv
  <2>5. QED  BY <2>1, <2>3, <2>4, ResultFacts
<1>2. QED  BY <1>1, InductiveInvariant, PTL

\* A run nobody stopped ends with a final result for every test of the pack,
\* wherever the device was disconnected.
THEOREM TestsAreAccounted == Spec => []EveryTestAccounted
<1>1. TypeOK /\ IInv => EveryTestAccounted
  <2> SUFFICES ASSUME TypeOK, IInv, pc = "done", ~stopped, NEW t \in Pack
               PROVE  \E i \in DOMAIN results[t] : results[t][i] \in FinalResult
    BY DEF EveryTestAccounted
  <2>1. results[t] \in Seq(TestResult) /\ t \in Tests
    BY DEF TypeOK, Results
  <2>2. PICK i \in 1 .. Len(results[t]) : results[t][i] # NOT_STARTED
    BY DEF IInv, AccountInv
  <2>3. results[t][i] # TEST_IN_PROGRESS
    BY <2>1, <2>2 DEF IInv, FinishInv, PastFinish
  <2>4. results[t][i] \in TestResult  BY <2>1, <2>2, ElementOfSeq
  <2>5. i \in DOMAIN results[t] /\ results[t][i] \in FinalResult
    BY <2>1, <2>2, <2>3, <2>4, ResultFacts
  <2>6. QED  BY <2>5
<1>2. QED  BY <1>1, InductiveInvariant, PTL

-----------------------------------------------------------------------------
(***************************************************************************)
(* The orchestrator keeps the contract of a run, RunContract: the safety   *)
(* part of what the run of MCTestOrchestrator checks on a small instance.  *)
(***************************************************************************)

\* A test is settled by its first entry.
Settled(rs, t) == Len(rs[t]) >= 1 /\ rs[t][1] \in FinalResult

LEMMA SettledProperties ==
  ASSUME NEW rs \in Results, NEW t \in Pack
  PROVE  (rs[t] # <<>> /\ rs[t][1] \in FinalResult) <=> Settled(rs, t)
<1>1. rs[t] \in Seq(TestResult)  BY DEF Results
<1>2. rs[t] = <<>> <=> Len(rs[t]) = 0  BY <1>1, EmptySeq
<1>3. Len(rs[t]) \in Nat  BY <1>1
<1>4. Len(rs[t]) >= 1 <=> rs[t] # <<>>  BY ONLY <1>2, <1>3
<1>5. QED  BY ONLY <1>4 DEF Settled

\* A final result that is added settles a test, and keeps it settled.
LEMMA AddSettles ==
  ASSUME NEW rs \in Results, NEW t \in Tests, NEW r \in FinalResult
  PROVE  Len(AddEntry(rs, t, r)) >= 1 /\ AddEntry(rs, t, r)[1] \in FinalResult
<1>1. Len(rs[t]) \in Nat  BY DEF Results
<1>2. r \in TestResult  BY ResultFacts
<1> DEFINE e == AddEntry(rs, t, r)
<1>3. Len(e) = IF Len(rs[t]) = 0 THEN 1 ELSE Len(rs[t])
  BY <1>2, AddEntryProperties
<1>4. \A i \in 1 .. Len(e) : e[i] \in FinalResult  BY <1>2, AddEntryProperties
<1> HIDE DEF e
<1>5. Len(e) >= 1 /\ 1 \in 1 .. Len(e)  BY ONLY <1>1, <1>3
<1>6. QED  BY ONLY <1>5, <1>4 DEF e

\* session.finish does not touch a final result.
LEMMA FinishSettles ==
  ASSUME NEW rs \in Results, NEW t \in Tests, Settled(rs, t)
  PROVE  Settled(Finish(rs), t)
<1>1. Len(rs[t]) \in Nat /\ Len(rs[t]) >= 1  BY DEF Results, Settled
<1>2. Len(Finish(rs)[t]) = Len(rs[t])  BY FinishProperties
<1>3. 1 \in 1 .. Len(rs[t])  BY <1>1
<1>4. Finish(rs)[t][1] = IF rs[t][1] = TEST_IN_PROGRESS THEN ERROR ELSE rs[t][1]
  BY <1>3, FinishProperties
<1>5. QED  BY <1>1, <1>2, <1>4, ResultFacts DEF Settled

\* No step takes a settled test back: the thread marks in progress only tests
\* that were never given a result, and every other result is final.
LEMMA SettledStays ==
  ASSUME TypeOK, IInv, [Next]_vars
  PROVE  \A t \in Pack : Settled(results, t) => Settled(results', t)
<1> SUFFICES ASSUME NEW t \in Pack, Settled(results, t)
             PROVE  Settled(results', t)
  OBVIOUS
<1> USE DEF Goto, sessionVars
<1>1. /\ results \in Results /\ t \in Tests
      /\ Len(results[t]) \in Nat /\ Len(results[t]) >= 1
  BY DEF TypeOK, Results, Settled
<1>2. CASE results' = results  BY <1>2 DEF Settled
<1>3. CASE OtherStep  BY <1>1, <1>3, FinishSettles DEF OtherStep, Settled
<1>4. CASE FinishSession  BY <1>1, <1>4, FinishSettles DEF FinishSession
<1>5. CASE RunTestModules
  <2>1. pc = "begin"  BY <1>5 DEF RunTestModules
  <2>2. Len(results[t]) = 0  BY <1>1, <2>1 DEF IInv, ProgressInv
  <2>3. QED  BY <1>1, <2>2
<1>6. CASE MarkTest
  <2>1. /\ module \in Modules /\ test \in 1 .. Len(ModuleTests[module])
        /\ pc = "mark" /\ Ahead(module, test)
    BY <1>6, TestsOfProperties DEF MarkTest, TypeOK, Ahead
  <2>2. t # ModuleTests[module][test]
    <3> SUFFICES ASSUME t = ModuleTests[module][test] PROVE FALSE
      OBVIOUS
    <3>1. Len(results[t]) = 0 \/ results[t][1] = NOT_STARTED
      BY <2>1 DEF IInv, EntryInv
    <3>2. QED  BY <1>1, <3>1, ResultFacts DEF Settled
  <2>3. results'[t] = results[t]
    BY <1>1, <1>6, <2>2 DEF MarkTest, AddTestResult, Results
  <2>4. QED  BY <2>3 DEF Settled
<1>7. CASE SetTestModulesError
  <2> DEFINE e == SetTestResultErrors(results, RemainingTests)[t]
  <2>1. results'[t] = e  BY <1>7 DEF SetTestModulesError
  <2>2. Len(e) >= Len(results[t]) /\ e[1] = results[t][1]
    BY <1>1, SetErrorsProperties
  <2>3. Len(e) \in Nat  BY <1>1, <2>1, EntriesStay
  <2> HIDE DEF e
  <2>4. QED  BY <1>1, <2>1, <2>2, <2>3 DEF Settled
<1>8. CASE TimeoutErrors
  <2>1. results'[t] \in {results[t], AddEntry(results, t, ERROR)}
    BY <1>1, <1>8 DEF TimeoutErrors, AddTestResults
  <2>2. /\ Len(AddEntry(results, t, ERROR)) >= 1
        /\ AddEntry(results, t, ERROR)[1] \in FinalResult
    BY <1>1, AddSettles, ResultFacts
  <2>3. QED  BY ONLY Settled(results, t), <2>1, <2>2 DEF Settled
<1>9. CASE LoadResults /\ module \in written
  <2>1. PICK r \in [TestsOf(module) \cap Pack -> Verdicts] :
          results' = AddTestResults(results, DOMAIN r, r)
    BY <1>9 DEF LoadResults
  <2>2. t \in TestsOf(module) => r[t] \in FinalResult  OBVIOUS
  <2>3. results'[t] = IF t \in TestsOf(module) THEN AddEntry(results, t, r[t])
                                               ELSE results[t]
    BY <1>1, <2>1 DEF AddTestResults
  <2>4. QED  BY <1>1, <2>2, <2>3, AddSettles DEF Settled
<1>10. CASE LoadResults /\ module \notin written
  BY <1>2, <1>10 DEF LoadResults
<1>11. CASE Orchestrator /\ ~(RunTestModules \/ MarkTest \/ SetTestModulesError
                             \/ TimeoutErrors \/ LoadResults \/ FinishSession)
  <2>1. results' = results
    BY <1>11 DEF Orchestrator, EnterModule, CancelDisconnected, AllMarked,
       StartContainer, StartFails, PollEnds, PollFails, PollTimeout,
       KillModule, CheckStopped,
       Decide, GenerateReport, PublishReport, ReportFails, SetOutcome, StopNetwork
  <2>2. QED  BY <1>2, <2>1
<1>12. QED
  BY <1>3, <1>4, <1>5, <1>6, <1>7, <1>8, <1>9, <1>10, <1>11, OtherSteps DEF Next

\* Where the thread has given the run up.
Over == {"stop_network", "done", "crashed", "failed"}

\* Once there is a report, it and the results stay.
LEMMA ReportedStays ==
  ASSUME TypeOK, IInv, [Next]_vars, report # {}
  PROVE  report' # {} /\ results' = results
<1> USE DEF Goto, sessionVars
<1>1. pc \in {"publish", "outcome", "stop_network", "done", "failed"}
  BY DEF IInv, ReportInv
<1>2. CASE OtherStep
  <2>1. \A t \in Tests : \A i \in 1 .. Len(results[t]) :
          results[t][i] # TEST_IN_PROGRESS
    BY <1>1 DEF IInv, FinishInv, PastFinish
  <2>2. Finish(results) = results  BY <2>1, FinishIdle DEF TypeOK
  <2>3. QED  BY <1>2, <2>2 DEF OtherStep
<1>3. CASE Orchestrator
  BY <1>1, <1>3 DEF Orchestrator, RunTestModules, EnterModule, MarkTest,
     SetTestModulesError, CancelDisconnected, AllMarked, StartContainer, StartFails,
     PollEnds, PollFails, PollTimeout, KillModule, TimeoutErrors,
     CheckStopped, LoadResults,
     FinishSession, Decide, GenerateReport, PublishReport, ReportFails, SetOutcome,
     StopNetwork
<1>4. QED  BY <1>2, <1>3, OtherSteps DEF Next

\* What a step does to the report and to the thread's being over.
LEMMA OutcomeStep ==
  ASSUME TypeOK, IInv, [Next]_vars, report = {}
  PROVE  \/ report' = {} /\ (pc \in Over <=> pc' \in Over)
         \/ report' = {} /\ pc \notin Over /\ pc' \in Over /\ results' = results
         \/ /\ pc = "report" /\ report' # {} /\ results' = results
<1> USE DEF Goto, sessionVars, Over
<1>1. CASE OtherStep  BY <1>1 DEF OtherStep
<1>2. CASE GenerateReport  BY <1>2 DEF GenerateReport
<1>3. CASE RunTestModules \/ StartFails \/ Decide \/ StopNetwork
  BY <1>3 DEF RunTestModules, StartFails, Decide, StopNetwork
<1>4. CASE PublishReport \/ ReportFails \/ SetOutcome
  BY <1>4 DEF PublishReport, ReportFails, SetOutcome, IInv, ReportInv
<1>5. CASE EnterModule \/ CancelDisconnected \/ CheckStopped \/ LoadResults
  BY <1>5 DEF EnterModule, CancelDisconnected, CheckStopped, LoadResults, NextModule
<1>6. CASE MarkTest \/ SetTestModulesError \/ AllMarked \/ StartContainer
  BY <1>6 DEF MarkTest, SetTestModulesError, AllMarked, StartContainer
<1>7. CASE PollEnds \/ PollFails \/ PollTimeout \/ KillModule
           \/ TimeoutErrors \/ FinishSession
  BY <1>7 DEF PollEnds, PollFails, PollTimeout, KillModule, TimeoutErrors,
              FinishSession
<1>8. QED
  BY <1>1, <1>2, <1>3, <1>4, <1>5, <1>6, <1>7, OtherSteps DEF Next, Orchestrator

\* Every step of the system is one of the contract, or leaves it alone.
LEMMA ContractStep ==
  ASSUME TypeOK, TypeOK', IInv, [Next]_vars
  PROVE  [Contract!Next]_(Contract!cvars)
<1>1. /\ SettledTests = {t \in Pack : Settled(results, t)}
      /\ SettledTests' = {t \in Pack : Settled(results', t)}
  <2>1. results \in Results /\ results' \in Results  BY DEF TypeOK
  <2>2. \A t \in Pack :
          (results[t] # <<>> /\ results[t][1] \in FinalResult) <=> Settled(results, t)
    BY <2>1, SettledProperties
  <2>3. \A t \in Pack :
          (results'[t] # <<>> /\ results'[t][1] \in FinalResult) <=> Settled(results', t)
    BY <2>1, SettledProperties
  <2>4. QED  BY <2>2, <2>3 DEF SettledTests
<1>2. SettledTests \subseteq SettledTests' /\ SettledTests' \in SUBSET Pack
  BY <1>1, SettledStays
<1>3. results' = results => SettledTests' = SettledTests  BY <1>1
<1>4. /\ Outcome = IF report # {} THEN "reported"
                   ELSE IF pc \in Over THEN "abandoned" ELSE "open"
      /\ Outcome' = IF report' # {} THEN "reported"
                    ELSE IF pc' \in Over THEN "abandoned" ELSE "open"
  BY DEF Outcome, Over
<1>5. CASE report # {}
  <2>1. Outcome' = Outcome /\ SettledTests' = SettledTests
    BY <1>3, <1>4, <1>5, ReportedStays
  <2>2. QED  BY <2>1 DEF Contract!cvars
<1>6. CASE report = {} /\ report' = {} /\ (pc \in Over <=> pc' \in Over)
  <2>1. Outcome' = Outcome /\ Outcome # "reported"  BY <1>4, <1>6
  <2>2. Contract!Settle  BY <1>2, <2>1 DEF Contract!Settle
  <2>3. QED  BY <2>2 DEF Contract!Next
<1>7. CASE /\ report = {} /\ report' = {} /\ pc \notin Over /\ pc' \in Over
           /\ results' = results
  <2>1. Outcome = "open" /\ Outcome' = "abandoned" /\ SettledTests' = SettledTests
    BY <1>3, <1>4, <1>7
  <2>2. Contract!Abandon  BY <2>1 DEF Contract!Abandon
  <2>3. QED  BY <2>2 DEF Contract!Next
<1>8. CASE report = {} /\ pc = "report" /\ report' # {} /\ results' = results
  <2>1. Outcome = "open" /\ Outcome' = "reported" /\ SettledTests' = SettledTests
    BY <1>3, <1>4, <1>8 DEF Over
  <2>2. \A t \in Pack : Len(results[t]) = 1 /\ results[t][1] \in FinalResult
    BY <1>8 DEF IInv, ReportInv
  <2>3. SettledTests = Pack  BY <1>1, <2>2 DEF Settled
  <2>4. Contract!ReportRun  BY <2>1, <2>3 DEF Contract!ReportRun
  <2>5. QED  BY <2>4 DEF Contract!Next
<1>9. QED  BY <1>5, <1>6, <1>7, <1>8, OutcomeStep

\* The run keeps its contract (run_test_modules with session.finish and the
\* stop tasks): a test of the pack that has its final result keeps a final
\* result, a report is made only when all have theirs, and nothing is settled
\* after it.
THEOREM OrchestratorKeepsContract == Spec => KeepsContract
<1>1. Init => Contract!Init
  <2> SUFFICES ASSUME Init PROVE Contract!Init
    OBVIOUS
  <2>1. \A t \in Pack : results[t] = <<>>
    BY DEF Init, NoResults
  <2>2. SettledTests = {}  BY <2>1 DEF SettledTests
  <2>3. Outcome = "open"  BY DEF Init, Outcome
  <2>4. QED  BY <2>2, <2>3 DEF Contract!Init
<1>2. TypeOK /\ TypeOK' /\ IInv /\ [Next]_vars => [Contract!Next]_(Contract!cvars)
  BY ContractStep
<1>3. QED
  BY <1>1, <1>2, InductiveInvariant, PTL DEF Spec, KeepsContract, Contract!Spec
=============================================================================
