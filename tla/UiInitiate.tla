----------------------------- MODULE UiInitiate -----------------------------
(***************************************************************************)
(* The dialog that starts a run (testrun-initiate-form and device-tests):  *)
(* the device and the test modules that are chosen in it, the request that *)
(* carries them, and what of them the server runs.                         *)
(*                                                                         *)
(* A box of the form goes by its place in the list of the modules offered, *)
(* the request and the configuration of a device by the module's name.     *)
(* The firmware is typed before the button is pressed.                     *)
(***************************************************************************)
EXTENDS Naturals, Sequences, SequencesExt, UiCalls

CONSTANTS
  Fleet,       \* the devices of the repository
  Outdated,    \* those of them that are to be set up anew
  Offered,     \* the sequence of the modules that the server offers
  Knows,       \* [Fleet -> the modules that the configuration of it names]
  MaxStarts    \* bound: dialogs opened

ASSUME UiInitiateAssumption ==
  /\ Outdated \subseteq Fleet /\ "none" \notin Fleet
  /\ Offered \in Seq(ToSet(Offered))
  /\ Knows \in [Fleet -> SUBSET ToSet(Offered)]
  /\ \A i, j \in DOMAIN Offered : Offered[i] = Offered[j] => i = j
  /\ MaxStarts \in Nat

VARIABLES
  enabledModules,  \* server: the modules enabled of each device
  busy,            \* server: a run is on
  ran,             \* server: what the last start runs; history: what the
                   \* dialog showed as chosen
  listModules,     \* AppState.devices: the modules enabled of each device
  testModules,     \* AppState.testModules
  triggered,       \* AppStore.startTestrun was called
  initiating,      \* the dialogs, the last opened first
  starting,        \* the request of a start under way
  starts           \* bound

initiateVars == <<enabledModules, busy, ran, listModules, testModules, triggered,
                  initiating, starting, starts>>

Modules == ToSet(Offered)
NoChoice == "none"
Choice == [device : Fleet, modules : SUBSET Modules]
NoRun == [device |-> NoChoice]

initiateTypeOK ==
  /\ {enabledModules, listModules} \subseteq [Fleet -> SUBSET Modules]
  /\ {busy, triggered} \subseteq BOOLEAN
  /\ ran \in {NoRun} \cup [device : Fleet, modules : SUBSET Modules, chosen : Choice]
  /\ testModules \in {<<>>, Offered}
  /\ initiating \in Seq([device : Fleet \cup {NoChoice}, offered : {<<>>, Offered},
                         boxes : Seq(BOOLEAN), sent : BOOLEAN])
  /\ starting \in {Idle, Failed} \cup
       [at : {"asked", "done"}, body : Choice, chosen : Choice]
  /\ starts \in 0 .. MaxStarts

\* The list is as old as the page: a start changes what the server keeps of a
\* device, and the interface does not ask again.
initiateInit ==
  /\ enabledModules \in [Fleet -> SUBSET Modules]
  /\ \A d \in Fleet : enabledModules[d] \subseteq Knows[d]
  /\ listModules = enabledModules
  /\ busy = FALSE /\ ran = NoRun
  /\ testModules = <<>> /\ triggered = FALSE
  /\ initiating = <<>> /\ starting = Idle /\ starts = 0

-----------------------------------------------------------------------------
(***************************************************************************)
(* The dialog.                                                             *)
(***************************************************************************)

\* A box for each module offered, checked when the device has it enabled.
fillTestModulesFormControls(offered, d) ==
  [i \in DOMAIN offered |-> offered[i] \in listModules[d]]

selected(dialog, d) ==
  [dialog EXCEPT !.device = d,
                 !.boxes = fillTestModulesFormControls(dialog.offered, d)]

\* A dialog with the modules there are by now; whilst the request for them is
\* under way there are none, and it will never have any.
NewDialog(offered) ==
  [device |-> NoChoice, offered |-> offered, boxes |-> <<>>, sent |-> FALSE]

Counted == starts < MaxStarts /\ starts' = starts + 1

\* setDevices tells the application whether there are devices, and whether
\* all of them are outdated.
hasDevices == Fleet /= {}
isAllDevicesOutdated == Fleet \subseteq Outdated

\* startTestrun, of the button of the side menu; the effect combines it with
\* the modules.
startTestrun ==
  /\ Counted /\ initiating = <<>> /\ hasDevices /\ ~isAllDevicesOutdated
  /\ triggered' = TRUE
  /\ initiating' = <<NewDialog(testModules)>>
  /\ UNCHANGED <<enabledModules, busy, ran, listModules, testModules, starting>>

\* The modules arrive: whoever started by then has a second dialog opened,
\* above the one that may be there.
getTestModules ==
  /\ testModules = <<>> /\ testModules' = Offered
  /\ initiating' = IF triggered THEN <<NewDialog(Offered)>> \o initiating
                   ELSE initiating
  /\ UNCHANGED <<enabledModules, busy, ran, listModules, triggered, starting, starts>>

\* An outdated device has no action but to be removed.
openStartTestrun ==
  /\ Counted /\ initiating = <<>>
  /\ \E d \in Fleet \ Outdated :
       initiating' = <<selected(NewDialog(testModules), d)>>
  /\ UNCHANGED <<enabledModules, busy, ran, listModules, testModules, triggered, starting>>

\* What the user does in the dialog on top.
OnTop(dialog) ==
  /\ initiating' = [initiating EXCEPT ![1] = dialog]
  /\ UNCHANGED <<enabledModules, busy, ran, listModules, testModules, triggered,
                 starting, starts>>

deviceSelected ==
  /\ initiating /= <<>> /\ Head(initiating).device = NoChoice
  /\ \E d \in Fleet \ Outdated : OnTop(selected(Head(initiating), d))

changeDevice ==
  /\ initiating /= <<>> /\ Head(initiating).device /= NoChoice
  /\ OnTop([Head(initiating) EXCEPT !.device = NoChoice])

checkModule ==
  /\ initiating /= <<>> /\ Head(initiating).device /= NoChoice
  /\ \E i \in DOMAIN Head(initiating).boxes :
       OnTop([Head(initiating) EXCEPT !.boxes[i] = ~@])

isAllTestsDisabled(dialog) == \A i \in DOMAIN dialog.boxes : ~dialog.boxes[i]

\* Mutant: the modules of the device come after those of the form.
startBodyMutant(dialog) ==
  [device |-> dialog.device, modules |-> listModules[dialog.device]]

\* The request: the device, with the modules that are checked instead of its
\* own.
startBody(dialog) ==
  [device |-> dialog.device,
   modules |-> {dialog.offered[i] : i \in {j \in DOMAIN dialog.boxes : dialog.boxes[j]}}]

\* What the user reads in the dialog: the modules whose boxes are checked.
Shown(dialog) ==
  [device |-> dialog.device,
   modules |-> {m \in Modules : \E i \in DOMAIN dialog.boxes :
                                  dialog.boxes[i] /\ dialog.offered[i] = m}]

\* startTestRun.  Bound: one request at a time, of whatever dialog.
startTestRun ==
  /\ initiating /= <<>> /\ starting = Idle
  /\ LET dialog == Head(initiating)
     IN /\ dialog.device /= NoChoice /\ ~dialog.sent
        /\ ~isAllTestsDisabled(dialog)
        /\ initiating' = [initiating EXCEPT ![1].sent = TRUE]
        /\ starting' = [at |-> "asked", body |-> startBody(dialog),
                        chosen |-> Shown(dialog)]
  /\ UNCHANGED <<enabledModules, busy, ran, listModules, testModules, triggered, starts>>

\* The Cancel button or Escape, also when the request is sent.
cancelInitiate ==
  /\ initiating /= <<>> /\ initiating' = Tail(initiating)
  /\ UNCHANGED <<enabledModules, busy, ran, listModules, testModules, triggered,
                 starting, starts>>

-----------------------------------------------------------------------------
(***************************************************************************)
(* The server, and its answer.                                             *)
(***************************************************************************)

\* start_testrun merges what is sent into the modules that the configuration
\* names: each is enabled, or not, as sent.
merged(d, modules) == [enabledModules EXCEPT ![d] = Knows[d] \cap modules]

\* _is_module_enabled: one that the configuration does not name runs.
enabledIn(d, kept) == kept[d] \cup (Modules \ Knows[d])

\* It is refused whilst a run is on, or for another reason; and it may be
\* served and the answer come too late.
serveStart ==
  /\ starting.at = "asked"
  /\ \/ starting' = Failed /\ UNCHANGED <<enabledModules, busy, ran>>
     \/ LET d == starting.body.device
        IN /\ ~busy /\ busy' = TRUE /\ d \notin Outdated
           /\ enabledModules' = merged(d, starting.body.modules)
           /\ ran' = [device |-> d, modules |-> enabledIn(d, enabledModules'),
                      chosen |-> starting.chosen]
           /\ starting' \in {[starting EXCEPT !.at = "done"], Failed}
  /\ UNCHANGED <<listModules, testModules, triggered, initiating, starts>>

\* The answer closes the dialog that asked, an error lets it ask again; one
\* that was cancelled is not there any more.
startAnswered ==
  /\ starting' = Idle
  /\ \/ /\ starting.at = "done"
        /\ LET asking == {i \in DOMAIN initiating : initiating[i].sent}
           IN \/ asking = {} /\ UNCHANGED initiating
              \/ \E i \in asking : initiating' = RemoveAt(initiating, i)
     \/ /\ starting.at = "failed"
        /\ initiating' =
             [i \in DOMAIN initiating |-> [initiating[i] EXCEPT !.sent = FALSE]]
  /\ UNCHANGED <<enabledModules, busy, ran, listModules, testModules, triggered, starts>>

runEnds ==
  /\ busy /\ busy' = FALSE
  /\ UNCHANGED <<enabledModules, ran, listModules, testModules, triggered,
                 initiating, starting, starts>>

initiateNext ==
  \/ startTestrun \/ getTestModules \/ openStartTestrun
  \/ deviceSelected \/ changeDevice \/ checkModule \/ startTestRun \/ cancelInitiate
  \/ serveStart \/ startAnswered \/ runEnds

-----------------------------------------------------------------------------
(***************************************************************************)
(* Properties.                                                             *)
(***************************************************************************)

\* A run tests the device that the dialog showed, with at least one module,
\* and of the modules that the configuration of the device names it runs
\* those whose boxes were checked: whatever the list, an earlier run or an
\* earlier choice in the dialog had enabled.
RunsAsChosen ==
  ran /= NoRun =>
    /\ ran.device = ran.chosen.device
    /\ ran.modules \cap Knows[ran.device] = ran.chosen.modules \cap Knows[ran.device]
    /\ ran.chosen.modules /= {}
=============================================================================
