----------------------------- MODULE UiDevices -----------------------------
(***************************************************************************)
(* The devices page (pages/devices): the list of devices, which the ngrx   *)
(* store keeps from page to page, the form of one device, and the calls    *)
(* that save, edit and delete devices.                                     *)
(*                                                                         *)
(* A device is its MAC address, which stands for every field that is       *)
(* compared as it is, and the answer to one question, which stands for     *)
(* those of the questionnaire.                                             *)
(***************************************************************************)
EXTENDS Naturals, Sequences, FiniteSets, SequencesExt, UiCalls

CONSTANTS
  Macs,         \* MAC addresses as typed, the empty one among them
  Lower,        \* [Macs -> the address in lower case, which the server keeps]
  Answers,      \* answers to a question that requires one
  Repositories, \* sets of devices that the server may have at first
  MaxCalls      \* bound: devices saved and deleted

NoDevice == [mac |-> "null", answer |-> Blank]
Device == [mac : Macs, answer : Answers \cup {Blank}]

ASSUME UiDevicesAssumption ==
  /\ Lower \in [Macs -> Macs] /\ \A m \in Macs : Lower[Lower[m]] = Lower[m]
  /\ Blank \in Macs /\ Blank \notin Answers /\ "null" \notin Macs
  /\ \A S \in Repositories :
       /\ IsFiniteSet(S) /\ S \subseteq Device
       /\ \A d, e \in S : Lower[d.mac] = d.mac /\ (d.mac = e.mac => d = e)
  /\ MaxCalls \in Nat

VARIABLES
  repository,      \* server: the devices it keeps
  devices,         \* AppState.devices
  selectedDevice,  \* DevicesStore.selectedDevice
  isOpenDeviceForm,
  isOpenAddDevice, \* AppState.isOpenAddDevice: the page is to open the form of
                   \* a new device
  deviceForm,      \* the form: its own `device', its values, whether the next
                   \* selection is taken as it comes (changeDevice), whether
                   \* the questionnaire is there (formIsLoaded), and the
                   \* addresses that the validator refuses
  questionnaire,   \* the request for the questionnaire
  adding, editing, deletingDevice,   \* the calls under way
  deviceDialogs,   \* the dialogs, the last opened first
  unheard,         \* history: addresses of changes whose answers were lost,
                   \* or crossed those of other calls
  calls            \* bound

pageOfDevices == <<repository, devices, selectedDevice, isOpenDeviceForm, deviceForm,
                   questionnaire, adding, editing, deletingDevice, deviceDialogs,
                   unheard, calls>>
deviceVars == <<pageOfDevices, isOpenAddDevice>>

NewForm == [device |-> NoDevice, mac |-> Blank, answer |-> Blank, changeDevice |-> FALSE,
            formIsLoaded |-> FALSE, refused |-> {}]
DeviceCall == [device : Device, was : Device \cup {NoDevice}]

deviceTypeOK ==
  /\ repository \subseteq Device
  /\ devices \in Seq(Device)
  /\ selectedDevice \in Device \cup {NoDevice}
  /\ {isOpenDeviceForm, isOpenAddDevice} \subseteq BOOLEAN
  /\ deviceForm \in [device : Device \cup {NoDevice}, mac : Macs,
                     answer : Answers \cup {Blank}, changeDevice : BOOLEAN,
                     formIsLoaded : BOOLEAN, refused : SUBSET Macs]
  /\ questionnaire \in {"idle", "asked"}
  /\ {adding, editing, deletingDevice} \subseteq
       {Idle, Failed} \cup [at : {"asked", "done"}, call : DeviceCall]
  /\ deviceDialogs \in Seq([of : {"discard", "leave", "delete", "change"},
                            device : Device \cup {NoDevice}])
  /\ unheard \subseteq Macs /\ calls \in 0 .. MaxCalls

-----------------------------------------------------------------------------
(***************************************************************************)
(* The form.                                                               *)
(***************************************************************************)

\* The questions are there once the questionnaire is: until then a device
\* made of the form has no answers, and answers are not compared.
createDeviceFromForm ==
  [mac |-> deviceForm.mac,
   answer |-> IF deviceForm.formIsLoaded THEN deviceForm.answer ELSE Blank]

\* Mutant: the answers are not compared.
compareDevicesMutant(d, f) == f.mac = d.mac

\* An answer that is empty in the form is no change.
compareDevices(d, f) == f.mac = d.mac /\ f.answer \in {d.answer, Blank}
deviceIsEmpty(f) == f.mac = Blank /\ f.answer = Blank

deviceHasNoChanges(d, f) ==
  IF d = NoDevice THEN deviceIsEmpty(f) ELSE compareDevices(d, f)

differentMACAddress(list, d) == {list[i].mac : i \in DOMAIN list} \ {d.mac}

resetDeviceForm(form) == [form EXCEPT !.mac = Blank, !.answer = Blank]

\* The values of a device; a question it has no answer to keeps the one that
\* the form shows.  With no device the form is reset.
filled(form, d) ==
  IF d = NoDevice \/ d.mac = Blank THEN resetDeviceForm(form)
  ELSE [form EXCEPT !.mac = d.mac,
                    !.answer = IF d.answer /= Blank /\ form.formIsLoaded THEN d.answer
                               ELSE form.answer]

\* The form takes a device.
taken(form, d, list) ==
  [filled(form, d) EXCEPT !.device = d, !.changeDevice = FALSE,
                          !.refused = differentMACAddress(list, d)]

\* initialDeviceEffect, when another device is selected: it is taken when
\* the form has no changes or they may go; else the device of the form is
\* selected again, and the user asked.
initialDeviceEffect(d, list) ==
  IF \/ deviceForm.changeDevice
     \/ deviceHasNoChanges(deviceForm.device, createDeviceFromForm)
  THEN /\ deviceForm' = taken(deviceForm, d, list) /\ selectedDevice' = d
       /\ UNCHANGED deviceDialogs
  ELSE /\ selectedDevice' = deviceForm.device
       /\ deviceDialogs' = <<[of |-> "change", device |-> d]>> \o deviceDialogs
       /\ UNCHANGED deviceForm

\* The validators of the form.
deviceFormValid ==
  /\ deviceForm.mac /= Blank /\ deviceForm.mac \notin deviceForm.refused
  /\ deviceForm.answer /= Blank

-----------------------------------------------------------------------------
\* The devices as they are loaded: those last modified first, which here is
\* any order.
fetchDevices == SetToSeq(repository)

deviceInit ==
  /\ repository \in Repositories
  /\ devices = fetchDevices
  /\ selectedDevice = NoDevice /\ isOpenDeviceForm = FALSE /\ deviceForm = NewForm
  /\ isOpenAddDevice = FALSE /\ questionnaire = "idle"
  /\ adding = Idle /\ editing = Idle /\ deletingDevice = Idle
  /\ deviceDialogs = <<>> /\ unheard = {} /\ calls = 0

\* openForm: a device of the list, or the button that creates one.  A form
\* that is new asks for the questionnaire, if no answer is due.
openForm(d) ==
  /\ deviceDialogs = <<>>
  /\ IF isOpenDeviceForm
     THEN /\ d /= selectedDevice /\ initialDeviceEffect(d, devices)
          /\ UNCHANGED <<isOpenDeviceForm, questionnaire>>
     ELSE /\ isOpenDeviceForm' = TRUE /\ selectedDevice' = d
          /\ deviceForm' = [NewForm EXCEPT
                              !.device = d,
                              !.mac = IF d = NoDevice THEN Blank ELSE d.mac,
                              !.refused = differentMACAddress(devices, d)]
          /\ questionnaire' = "asked"
          /\ UNCHANGED deviceDialogs
  /\ UNCHANGED <<repository, devices, adding, editing, deletingDevice, unheard, calls>>

\* AppState.isOpenAddDevice: the reducer writes it as it is told.
setIsOpenAddDevice(open) == isOpenAddDevice' = open

\* "Create new device" in the menu, on this page: the page hears of it when
\* the store was not so already.
navigateToAddDevice ==
  /\ deviceDialogs = <<>> /\ setIsOpenAddDevice(TRUE)
  /\ IF isOpenAddDevice \/ (isOpenDeviceForm /\ selectedDevice = NoDevice)
     THEN UNCHANGED pageOfDevices ELSE openForm(NoDevice)

\* What a form does of the questionnaire: it fills itself again.
questionnaireFormat(form) ==
  LET loaded == [form EXCEPT !.formIsLoaded = TRUE]
  IN IF selectedDevice = NoDevice THEN loaded ELSE filled(loaded, selectedDevice)

\* The questionnaire arrives.  (An error ends the effect for good, as if the
\* answer never came.)
getQuestionnaireFormat ==
  /\ questionnaire = "asked" /\ questionnaire' = "idle"
  /\ deviceForm' = IF isOpenDeviceForm THEN questionnaireFormat(deviceForm) ELSE deviceForm
  /\ UNCHANGED <<repository, devices, selectedDevice, isOpenDeviceForm, adding,
                 editing, deletingDevice, deviceDialogs, unheard, calls>>

\* The user types; questions are there once the questionnaire is.
typeDevice ==
  /\ isOpenDeviceForm /\ deviceDialogs = <<>>
  /\ \/ \E m \in Macs : deviceForm' = [deviceForm EXCEPT !.mac = m]
     \/ /\ deviceForm.formIsLoaded
        /\ \E a \in Answers \cup {Blank} : deviceForm' = [deviceForm EXCEPT !.answer = a]
  /\ UNCHANGED <<repository, devices, selectedDevice, isOpenDeviceForm, questionnaire,
                 adding, editing, deletingDevice, deviceDialogs, unheard, calls>>

\* The addresses that a call is about.
Addresses(call) == {Lower[d.mac] : d \in {call.device, call.was} \ {NoDevice}}

\* A call whose answer may cross that of another one.
Crossed(call, others) ==
  LET busy == {c.call : c \in others \ {Idle, Failed}}
  IN IF busy = {} THEN {} ELSE Addresses(call) \cup UNION {Addresses(b) : b \in busy}

\* The Save button of the form.  exhaustMap drops a call when one of its
\* kind is under way; whatever comes of it, what is selected next will be
\* taken.
onSaveClicked ==
  /\ isOpenDeviceForm /\ deviceDialogs = <<>>
  /\ ~deviceHasNoChanges(selectedDevice, createDeviceFromForm)
  /\ deviceForm.formIsLoaded => deviceFormValid
  /\ deviceForm' = [deviceForm EXCEPT !.changeDevice = TRUE]
  /\ LET call == [device |-> createDeviceFromForm, was |-> selectedDevice]
         asked == [at |-> "asked", call |-> call]
     IN \/ /\ selectedDevice = NoDevice /\ adding = Idle /\ adding' = asked
           /\ unheard' = unheard \cup Crossed(call, {editing, deletingDevice})
           /\ UNCHANGED editing
        \/ /\ selectedDevice /= NoDevice /\ editing = Idle /\ editing' = asked
           /\ unheard' = unheard \cup Crossed(call, {adding, deletingDevice})
           /\ UNCHANGED adding
        \/ /\ (IF selectedDevice = NoDevice THEN adding ELSE editing) /= Idle
           /\ UNCHANGED <<adding, editing, unheard>>
  /\ calls < MaxCalls /\ calls' = calls + 1
  /\ UNCHANGED <<repository, devices, selectedDevice, isOpenDeviceForm, questionnaire,
                 deletingDevice, deviceDialogs>>

-----------------------------------------------------------------------------
(***************************************************************************)
(* Dialogs.                                                                *)
(***************************************************************************)

\* The Discard button, the link to another page, and the Delete action of a
\* device, in the list or in its form.
openDeviceDialog ==
  /\ deviceDialogs = <<>>
  /\ \/ /\ isOpenDeviceForm
        /\ ~deviceHasNoChanges(selectedDevice, createDeviceFromForm)
        /\ \E of \in {"discard", "leave"} :
             deviceDialogs' = <<[of |-> of, device |-> NoDevice]>>
     \/ \E d \in ToSet(devices) \cup (IF isOpenDeviceForm THEN {selectedDevice} ELSE {}) :
          d /= NoDevice /\ deviceDialogs' = <<[of |-> "delete", device |-> d]>>
  /\ UNCHANGED <<repository, devices, selectedDevice, isOpenDeviceForm, deviceForm,
                 questionnaire, adding, editing, deletingDevice, unheard, calls>>

\* The page is left, and opened again: with the form of a new device, when
\* the menu asked for it, now or before a form last closed with the page.
\* The answers that are due will not be heard.  (A page is not left whilst
\* the server has a call yet to serve.)
leaveDevices ==
  /\ "asked" \notin {adding.at, editing.at, deletingDevice.at}
  /\ unheard' = unheard \cup UNION
       {Addresses(c.call) : c \in {c \in {adding, editing, deletingDevice} : c.at = "done"}}
  /\ \E asked \in BOOLEAN :
       setIsOpenAddDevice(asked \/ (isOpenAddDevice /\ ~isOpenDeviceForm))
  /\ selectedDevice' = NoDevice /\ isOpenDeviceForm' = isOpenAddDevice'
  /\ deviceForm' = IF isOpenDeviceForm'
                   THEN [NewForm EXCEPT !.refused = differentMACAddress(devices, NoDevice)]
                   ELSE NewForm
  /\ questionnaire' = IF isOpenDeviceForm' THEN "asked" ELSE "idle"
  /\ adding' = Idle /\ editing' = Idle /\ deletingDevice' = Idle
  /\ deviceDialogs' = <<>>
  /\ UNCHANGED <<repository, devices, calls>>

\* canDeactivate
canDeactivate ==
  /\ deviceDialogs = <<>>
  /\ isOpenDeviceForm => deviceHasNoChanges(selectedDevice, createDeviceFromForm)
  /\ leaveDevices

\* The user answers the dialog on top with no ...
cancelDialog ==
  /\ deviceDialogs /= <<>> /\ deviceDialogs' = Tail(deviceDialogs)
  /\ UNCHANGED <<repository, devices, selectedDevice, isOpenDeviceForm, deviceForm,
                 questionnaire, adding, editing, deletingDevice, unheard, calls>>

\* ... or with yes.
discard ==
  /\ Head(deviceDialogs).of = "discard" /\ deviceDialogs' = Tail(deviceDialogs)
  /\ isOpenDeviceForm' = FALSE /\ deviceForm' = NewForm /\ selectedDevice' = NoDevice
  /\ UNCHANGED <<repository, devices, questionnaire, adding, editing, deletingDevice,
                 unheard, calls>>

deleteDevice ==
  /\ Head(deviceDialogs).of = "delete" /\ deviceDialogs' = Tail(deviceDialogs)
  /\ LET call == [device |-> Head(deviceDialogs).device, was |-> NoDevice]
     IN \/ /\ deletingDevice = Idle
           /\ deletingDevice' = [at |-> "asked", call |-> call]
           /\ unheard' = unheard \cup Crossed(call, {adding, editing})
        \/ deletingDevice /= Idle /\ UNCHANGED <<deletingDevice, unheard>>
  /\ calls < MaxCalls /\ calls' = calls + 1
  /\ UNCHANGED <<repository, devices, selectedDevice, isOpenDeviceForm, deviceForm,
                 questionnaire, adding, editing>>

openCloseDialogToChangeDevice ==
  /\ Head(deviceDialogs).of = "change" /\ deviceDialogs' = Tail(deviceDialogs)
  /\ LET d == Head(deviceDialogs).device
         form == [deviceForm EXCEPT !.changeDevice = isOpenDeviceForm]
     IN selectedDevice' = d /\
        deviceForm' = IF ~isOpenDeviceForm \/ d = selectedDevice THEN form
                      ELSE taken(form, d, devices)
  /\ UNCHANGED <<repository, devices, isOpenDeviceForm, questionnaire, adding, editing,
                 deletingDevice, unheard, calls>>

confirmDialog ==
  /\ deviceDialogs /= <<>>
  /\ \/ /\ discard \/ deleteDevice \/ openCloseDialogToChangeDevice
        /\ UNCHANGED isOpenAddDevice
     \/ Head(deviceDialogs).of = "leave" /\ leaveDevices

-----------------------------------------------------------------------------
(***************************************************************************)
(* The server, which may fail to answer what it has done.                  *)
(***************************************************************************)
Kept(m) == {d \in repository : d.mac = Lower[m]}
Keeps(d) == [d EXCEPT !.mac = Lower[d.mac]]

\* What may come of a call that is allowed, or of one that is not.
Outcomes(c, allowed, after) ==
  {[repository |-> repository, call |-> Failed, unheard |-> unheard]} \cup
  IF ~allowed THEN {}
  ELSE {[repository |-> after, call |-> [c EXCEPT !.at = "done"], unheard |-> unheard],
        [repository |-> after, call |-> Failed,
         unheard |-> unheard \cup Addresses(c.call)]}

Comes(o) == repository' = o.repository /\ unheard' = o.unheard

serveDevices ==
  /\ \/ /\ adding.at = "asked"
        /\ LET d == adding.call.device
           IN \E o \in Outcomes(adding, Kept(d.mac) = {}, repository \cup {Keeps(d)}) :
                Comes(o) /\ adding' = o.call
        /\ UNCHANGED <<editing, deletingDevice>>
     \/ /\ editing.at = "asked"
        /\ LET d == editing.call.device
               old == Kept(editing.call.was.mac)
           IN \E o \in Outcomes(editing, old /= {} /\ Kept(d.mac) \subseteq old,
                                (repository \ old) \cup {Keeps(d)}) :
                Comes(o) /\ editing' = o.call
        /\ UNCHANGED <<adding, deletingDevice>>
     \/ /\ deletingDevice.at = "asked"
        /\ LET old == Kept(deletingDevice.call.device.mac)
           IN \E o \in Outcomes(deletingDevice, old /= {}, repository \ old) :
                Comes(o) /\ deletingDevice' = o.call
        /\ UNCHANGED <<adding, editing>>
  /\ UNCHANGED <<devices, selectedDevice, isOpenDeviceForm, deviceForm, questionnaire,
                 deviceDialogs, calls>>

-----------------------------------------------------------------------------
(***************************************************************************)
(* The answers.                                                            *)
(***************************************************************************)
findIndex(list, mac) ==
  LET found == {i \in DOMAIN list : list[i].mac = mac}
  IN IF found = {} THEN 0 ELSE CHOOSE i \in found : \A j \in found : i <= j

addDevice(d, list) == <<d>> \o list

\* Mutant: the device is looked for by its new address.
updateDeviceMutant(d, mac, list) ==
  LET i == findIndex(list, d.mac) IN IF i = 0 THEN list ELSE [list EXCEPT ![i] = d]

updateDevice(d, mac, list) ==
  LET i == findIndex(list, mac) IN IF i = 0 THEN list ELSE [list EXCEPT ![i] = d]

\* An index of -1 is a number as well: splice(-1, 1) removes the last.
removeDevice(d, list) ==
  LET i == findIndex(list, d.mac)
  IN IF list = <<>> THEN list ELSE RemoveAt(list, IF i = 0 THEN Len(list) ELSE i)

\* A device was saved: the list has it, and it is selected, whatever form is
\* open by now.
saved(d, list) ==
  /\ devices' = list
  /\ IF isOpenDeviceForm THEN initialDeviceEffect(d, list)
     ELSE selectedDevice' = d /\ UNCHANGED <<deviceForm, deviceDialogs>>
  /\ UNCHANGED <<isOpenDeviceForm, deletingDevice>>

deviceAnswered ==
  /\ \/ /\ adding.at = "done" /\ adding' = Idle /\ UNCHANGED editing
        /\ saved(adding.call.device, addDevice(adding.call.device, devices))
        /\ UNCHANGED unheard
     \/ /\ editing.at = "done" /\ editing' = Idle /\ UNCHANGED adding
        /\ LET c == editing.call
           IN /\ saved(c.device, updateDevice(c.device, c.was.mac, devices))
              /\ unheard' = unheard \cup
                   (IF findIndex(devices, c.was.mac) /= 0 THEN {} ELSE Addresses(c))
     \/ /\ deletingDevice.at = "done" /\ deletingDevice' = Idle
        /\ LET d == deletingDevice.call.device
           IN /\ devices' = removeDevice(d, devices)
              /\ unheard' = unheard \cup
                   (IF findIndex(devices, d.mac) /= 0 THEN {}
                    ELSE {Lower[e.mac] : e \in {d} \cup (ToSet(devices) \ ToSet(devices'))})
        /\ isOpenDeviceForm' = FALSE /\ deviceForm' = NewForm
        /\ UNCHANGED <<adding, editing, selectedDevice, deviceDialogs>>
  /\ UNCHANGED <<repository, questionnaire, calls>>

\* A call that failed changes nothing of the page.
deviceCallFailed ==
  /\ \/ adding = Failed /\ adding' = Idle /\ UNCHANGED <<editing, deletingDevice>>
     \/ editing = Failed /\ editing' = Idle /\ UNCHANGED <<adding, deletingDevice>>
     \/ deletingDevice = Failed /\ deletingDevice' = Idle /\ UNCHANGED <<adding, editing>>
  /\ UNCHANGED <<repository, devices, selectedDevice, isOpenDeviceForm, deviceForm,
                 questionnaire, deviceDialogs, unheard, calls>>

deviceNext ==
  \/ /\ \/ \E d \in ToSet(devices) \cup {NoDevice} : openForm(d)
        \/ getQuestionnaireFormat \/ typeDevice \/ onSaveClicked
        \/ openDeviceDialog \/ cancelDialog
        \/ serveDevices \/ deviceAnswered \/ deviceCallFailed
     /\ UNCHANGED isOpenAddDevice
  \/ navigateToAddDevice \/ canDeactivate \/ confirmDialog

-----------------------------------------------------------------------------
(***************************************************************************)
(* Properties.                                                             *)
(***************************************************************************)

\* The list has the devices of the server, each once whatever the case of
\* its address, but for those of a call whose answer is due or was lost.
DueOrLost ==
  unheard \cup UNION {Addresses(c.call) :
                      c \in {c \in {adding, editing, deletingDevice} : c.at = "done"}}
ListedAs(m) == {i \in DOMAIN devices : Lower[devices[i].mac] = m}
DevicesAgree ==
  \A m \in {Lower[n] : n \in Macs} \ DueOrLost :
    /\ \A i, j \in ListedAs(m) : i = j
    /\ {Keeps(devices[i]) : i \in ListedAs(m)} = Kept(m)

\* What the user typed in the form and the server does not have (an answer or
\* an address that was emptied is none) stays as it was typed, until the user
\* types again, answers a dialog, or a deletion is answered.  It may go
\* unasked in two ways more: by the questionnaire that is late, in the form of
\* a device of the list, and, once Save was clicked, by the next selection,
\* whatever came of the call.  That selection takes changeDevice with it: the
\* form is safe again.
DeviceChanges ==
  /\ isOpenDeviceForm
  /\ \/ deviceForm.mac \notin {deviceForm.device.mac, Blank}
     \/ deviceForm.formIsLoaded /\ deviceForm.answer \notin {deviceForm.device.answer, Blank}
SameDeviceForm ==
  /\ isOpenDeviceForm' /\ deviceForm'.device = deviceForm.device
  /\ deviceForm'.mac = deviceForm.mac /\ deviceForm'.answer = deviceForm.answer
FilledLate ==
  questionnaire = "asked" /\ questionnaire' = "idle" /\ deviceForm.device /= NoDevice
DeviceEditsKept ==
  [][DeviceChanges =>
       \/ SameDeviceForm \/ typeDevice
       \/ Len(deviceDialogs') < Len(deviceDialogs)
       \/ deletingDevice.at = "done" /\ deletingDevice' = Idle
       \/ FilledLate
       \/ deviceForm.changeDevice /\ ~deviceForm'.changeDevice]_deviceVars

\* Once the form that was asked for in the menu is gone, nothing asks for it
\* any more: "Create new device" opens it again, and the page by itself does
\* not (devices.component.ts).
AddDeviceOnce == isOpenAddDevice => isOpenDeviceForm
=============================================================================
