---------------------------- MODULE UiFormsProofs ----------------------------
(***************************************************************************)
(* Theorems about the pages of the user interface that hold a form: the    *)
(* devices and the risk profiles.  What a page lists is what the server    *)
(* has, whichever calls are under way; a form with unsaved changes stays   *)
(* until it is saved, discarded or its row is deleted; and the boxes of a  *)
(* question show what was saved.                                           *)
(***************************************************************************)
EXTENDS UiDevices, UiProfiles, UiQuestions, FiniteSetTheorems, SequenceTheorems,
        WellFoundedInduction, TLAPS

-----------------------------------------------------------------------------
(***************************************************************************)
(* The devices page.  An address that is neither of a call that is due nor *)
(* `unheard' is listed at most once, as the server has it.  The step that  *)
(* makes a change is not the one that lists it: between the two, the call  *)
(* says what is still listed and what the server already has (DuesOK), and *)
(* nobody else touches either unless the addresses of both calls are known *)
(* to be crossed (CrossedKnown).                                           *)
(***************************************************************************)

deviceSpec == deviceInit /\ [][deviceNext]_deviceVars

\* The rows of a list that a device of the address m is in.
RowsOf(list, m) == {i \in DOMAIN list : Lower[list[i].mac] = m}
OnceIn(list, m) == \A i, j \in RowsOf(list, m) : i = j
MadeOf(list, m) == {Keeps(list[i]) : i \in RowsOf(list, m)}
AsKept(d) == {Keeps(d)}
Replaced(list, i, d) == [list EXCEPT ![i] = d]

LEMMA ListedRows ==
  \A m : ListedAs(m) = RowsOf(devices, m)
BY DEF ListedAs, RowsOf

LEMMA LowerFacts ==
  ASSUME NEW d \in Device
  PROVE  /\ d.mac \in Macs /\ d.answer \in Answers \cup {Blank}
         /\ Lower[d.mac] \in Macs /\ Lower[Lower[d.mac]] = Lower[d.mac]
         /\ Keeps(d) \in Device /\ Keeps(d).mac = Lower[d.mac]
         /\ d # NoDevice
<1>1. d.mac \in Macs /\ d.answer \in Answers \cup {Blank}  BY DEF Device
<1>2. Lower[d.mac] \in Macs /\ Lower[Lower[d.mac]] = Lower[d.mac]
  BY <1>1, UiDevicesAssumption
<1>3. Keeps(d) \in Device /\ Keeps(d).mac = Lower[d.mac]  BY <1>2 DEF Keeps, Device
<1>4. d # NoDevice  BY <1>1, UiDevicesAssumption DEF NoDevice
<1>5. QED  BY <1>1, <1>2, <1>3, <1>4

LEMMA RowWithout ==
  ASSUME NEW s \in Seq(Device), NEW i \in DOMAIN s
  PROVE  /\ RemoveAt(s, i) \in Seq(Device) /\ Len(RemoveAt(s, i)) = Len(s) - 1
         /\ \A j \in 1 .. Len(s) - 1 :
              RemoveAt(s, i)[j] = s[IF j < i THEN j ELSE j + 1]
<1>1. i \in 1 .. Len(s) /\ Len(s) \in Nat
  OBVIOUS
<1>2. PICK front : front = SubSeq(s, 1, i - 1)
  OBVIOUS
<1>3. PICK back : back = SubSeq(s, i + 1, Len(s))
  OBVIOUS
<1>4. /\ front \in Seq(Device) /\ Len(front) = i - 1
      /\ \A j \in 1 .. i - 1 : front[j] = s[j]
  BY <1>1, <1>2, SubSeqProperties
<1>5. /\ back \in Seq(Device) /\ Len(back) = Len(s) - i
      /\ \A j \in 1 .. Len(s) - i : back[j] = s[i + j]
  BY <1>1, <1>3, SubSeqProperties
<1>6. RemoveAt(s, i) = front \o back  BY <1>2, <1>3 DEF RemoveAt
<1>7. front \in Seq(Device) /\ back \in Seq(Device)  BY <1>4, <1>5
<1>8. /\ front \o back \in Seq(Device)
      /\ Len(front \o back) = Len(front) + Len(back)
      /\ \A j \in 1 .. Len(front) + Len(back) :
           (front \o back)[j] = IF j <= Len(front) THEN front[j]
                                ELSE back[j - Len(front)]
  BY <1>7, ConcatProperties
<1>9. Len(RemoveAt(s, i)) = Len(s) - 1  BY <1>1, <1>4, <1>5, <1>6, <1>8
<1>10. ASSUME NEW j \in 1 .. Len(s) - 1
       PROVE  RemoveAt(s, i)[j] = s[IF j < i THEN j ELSE j + 1]
  <2>1. CASE j < i
    <3>1. j \in 1 .. i - 1 /\ j <= Len(front) /\ j \in 1 .. Len(front) + Len(back)
      BY <1>1, <1>4, <1>5, <2>1
    <3>2. QED  BY <1>4, <1>6, <1>8, <2>1, <3>1
  <2>2. CASE ~(j < i)
    <3>1. /\ j - Len(front) \in 1 .. Len(s) - i /\ ~(j <= Len(front))
          /\ j \in 1 .. Len(front) + Len(back) /\ i + (j - Len(front)) = j + 1
      <4>1. Len(front) = i - 1 /\ Len(back) = Len(s) - i  BY <1>4, <1>5
      <4>2. Len(s) \in Nat /\ i \in 1 .. Len(s) /\ j \in 1 .. Len(s) - 1  BY <1>1, <1>10
      <4>3. QED  BY <2>2, <4>1, <4>2, SMTT(30)
    <3>2. QED  BY <1>5, <1>6, <1>8, <2>2, <3>1
  <2>3. QED  BY <2>1, <2>2
<1>11. QED  BY <1>6, <1>8, <1>9, <1>10

\* A device comes first in the list.
LEMMA RowAdded ==
  ASSUME NEW list \in Seq(Device), NEW d \in Device, NEW m, NEW after,
         after = addDevice(d, list)
  PROVE  /\ after \in Seq(Device)
         /\ m # Lower[d.mac] /\ OnceIn(list, m) => OnceIn(after, m)
         /\ m # Lower[d.mac] => MadeOf(after, m) = MadeOf(list, m)
         /\ m = Lower[d.mac] /\ RowsOf(list, m) = {}
              => OnceIn(after, m) /\ MadeOf(after, m) = AsKept(d)
<1>1. <<d>> \in Seq(Device) /\ Len(<<d>>) = 1 /\ <<d>>[1] = d
  OBVIOUS
<1>2. after = <<d>> \o list  BY DEF addDevice
<1>3. Len(list) \in Nat /\ DOMAIN list = 1 .. Len(list)
  OBVIOUS
<1>4. /\ after \in Seq(Device) /\ DOMAIN after = 1 .. Len(list) + 1
      /\ after[1] = d /\ \A i \in 1 .. Len(list) : after[i + 1] = list[i]
  <2>1. /\ <<d>> \o list \in Seq(Device) /\ Len(<<d>> \o list) = 1 + Len(list)
        /\ \A i \in 1 .. 1 + Len(list) :
             (<<d>> \o list)[i] = IF i <= 1 THEN <<d>>[i] ELSE list[i - 1]
    BY <1>1, ConcatProperties
  <2>2. DOMAIN (<<d>> \o list) = 1 .. Len(<<d>> \o list)  BY <2>1
  <2>3. QED  BY <1>1, <1>2, <1>3, <2>1, <2>2
<1>5. \A i \in DOMAIN after : i = 1 \/ (i - 1 \in DOMAIN list /\ after[i] = list[i - 1])
  <2> SUFFICES ASSUME NEW i \in DOMAIN after, i # 1
               PROVE  i - 1 \in DOMAIN list /\ after[i] = list[i - 1]
    OBVIOUS
  <2>1. i - 1 \in 1 .. Len(list) /\ (i - 1) + 1 = i  BY <1>3, <1>4
  <2>2. after[(i - 1) + 1] = list[i - 1]  BY <1>4, <2>1
  <2>3. QED  BY <1>3, <2>1, <2>2
<1>6. \A i \in DOMAIN list : i + 1 \in DOMAIN after /\ after[i + 1] = list[i]
  BY <1>3, <1>4
<1>7. CASE m # Lower[d.mac]
  <2>1. \A i \in RowsOf(after, m) : i - 1 \in RowsOf(list, m) /\ after[i] = list[i - 1]
    BY <1>4, <1>5, <1>7 DEF RowsOf
  <2>2. \A i \in RowsOf(list, m) : i + 1 \in RowsOf(after, m) /\ after[i + 1] = list[i]
    BY <1>6 DEF RowsOf
  <2>3. OnceIn(list, m) => OnceIn(after, m)
    <3> SUFFICES ASSUME OnceIn(list, m), NEW i \in RowsOf(after, m),
                        NEW j \in RowsOf(after, m)
                 PROVE  i = j
      BY DEF OnceIn
    <3>1. i - 1 = j - 1  BY <2>1 DEF OnceIn
    <3>2. i \in 1 .. Len(list) + 1 /\ j \in 1 .. Len(list) + 1  BY <1>4 DEF RowsOf
    <3>3. QED  BY <1>3, <3>1, <3>2
  <2>4. MadeOf(after, m) = MadeOf(list, m)  BY <2>1, <2>2 DEF MadeOf
  <2>5. QED  BY <1>4, <1>7, <2>3, <2>4
<1>8. CASE m = Lower[d.mac]
  <2>1. ASSUME RowsOf(list, m) = {} PROVE RowsOf(after, m) = {1}
    <3>1. \A i \in RowsOf(after, m) : i = 1
      BY <1>5, <2>1 DEF RowsOf
    <3>2. 1 \in RowsOf(after, m)  BY <1>3, <1>4, <1>8 DEF RowsOf
    <3>3. QED  BY <3>1, <3>2
  <2>2. QED  BY <1>4, <1>8, <2>1 DEF OnceIn, MadeOf, AsKept
<1>9. QED  BY <1>7, <1>8

\* A device takes the place of another.
LEMMA RowReplaced ==
  ASSUME NEW list \in Seq(Device), NEW d \in Device, NEW m, NEW i \in DOMAIN list,
         NEW after, after = Replaced(list, i, d)
  PROVE  /\ after \in Seq(Device)
         /\ m \notin {Lower[d.mac], Lower[list[i].mac]}
              => /\ OnceIn(list, m) => OnceIn(after, m)
                 /\ MadeOf(after, m) = MadeOf(list, m)
         /\ m = Lower[d.mac] /\ RowsOf(list, m) \subseteq {i}
              => OnceIn(after, m) /\ MadeOf(after, m) = AsKept(d)
         /\ m # Lower[d.mac] /\ RowsOf(list, m) \subseteq {i}
              => RowsOf(after, m) = {}
<1>1. list \in [1 .. Len(list) -> Device] /\ Len(list) \in Nat
      /\ DOMAIN list = 1 .. Len(list)
  OBVIOUS
<1>2. after \in [1 .. Len(list) -> Device]  BY <1>1 DEF Replaced
<1>3. after \in Seq(Device) /\ DOMAIN after = DOMAIN list  BY <1>1, <1>2
<1>4. after[i] = d /\ \A j \in DOMAIN list : j # i => after[j] = list[j]
  BY <1>1 DEF Replaced
<1>5. ASSUME m \notin {Lower[d.mac], Lower[list[i].mac]}
      PROVE  /\ OnceIn(list, m) => OnceIn(after, m)
             /\ MadeOf(after, m) = MadeOf(list, m)
  <2>1. RowsOf(after, m) = RowsOf(list, m)  BY <1>3, <1>4, <1>5 DEF RowsOf
  <2>2. \A j \in RowsOf(list, m) : after[j] = list[j]  BY <1>4, <1>5 DEF RowsOf
  <2>3. MadeOf(after, m) = MadeOf(list, m)  BY <2>1, <2>2 DEF MadeOf
  <2>4. OnceIn(list, m) => OnceIn(after, m)  BY <2>1 DEF OnceIn
  <2>5. QED  BY <2>3, <2>4
<1>6. ASSUME m = Lower[d.mac], RowsOf(list, m) \subseteq {i}
      PROVE  OnceIn(after, m) /\ MadeOf(after, m) = AsKept(d)
  <2>1. RowsOf(after, m) = {i}  BY <1>3, <1>4, <1>6 DEF RowsOf
  <2>2. QED  BY <1>4, <2>1 DEF OnceIn, MadeOf, AsKept
<1>7. ASSUME m # Lower[d.mac], RowsOf(list, m) \subseteq {i}
      PROVE  RowsOf(after, m) = {}
  BY <1>3, <1>4, <1>7 DEF RowsOf
<1>8. QED  BY <1>3, <1>5, <1>6, <1>7

\* A device goes from the list.
LEMMA RowRemoved ==
  ASSUME NEW list \in Seq(Device), NEW m, NEW i \in DOMAIN list,
         NEW after, after = RemoveAt(list, i)
  PROVE  /\ after \in Seq(Device)
         /\ m # Lower[list[i].mac]
              => /\ OnceIn(list, m) => OnceIn(after, m)
                 /\ MadeOf(after, m) = MadeOf(list, m)
         /\ RowsOf(list, m) \subseteq {i} => RowsOf(after, m) = {}
<1> DEFINE old(j) == IF j < i THEN j ELSE j + 1
           new(j) == IF j < i THEN j ELSE j - 1
<1>1. /\ after \in Seq(Device) /\ Len(after) = Len(list) - 1
      /\ \A j \in 1 .. Len(list) - 1 : after[j] = list[old(j)]
  BY RowWithout
<1>2. /\ Len(list) \in Nat /\ DOMAIN list = 1 .. Len(list) /\ i \in 1 .. Len(list)
      /\ DOMAIN after = 1 .. Len(list) - 1
  BY <1>1
<1>3. \A j \in DOMAIN after : old(j) \in DOMAIN list /\ old(j) # i /\ after[j] = list[old(j)]
  BY <1>1, <1>2
<1>4. \A j \in DOMAIN list : j # i => new(j) \in DOMAIN after /\ old(new(j)) = j
  BY <1>2
<1>5. \A j, k \in DOMAIN after : old(j) = old(k) => j = k
  BY <1>2
<1>6. \A j \in DOMAIN list : j # i => after[new(j)] = list[j]
  BY <1>3, <1>4
<1> HIDE DEF old, new
<1>7. ASSUME m # Lower[list[i].mac]
      PROVE  /\ OnceIn(list, m) => OnceIn(after, m)
             /\ MadeOf(after, m) = MadeOf(list, m)
  <2>1. \A j \in RowsOf(after, m) : old(j) \in RowsOf(list, m) /\ after[j] = list[old(j)]
    BY <1>3 DEF RowsOf
  <2>2. \A j \in RowsOf(list, m) : new(j) \in RowsOf(after, m) /\ after[new(j)] = list[j]
    BY <1>4, <1>6, <1>7 DEF RowsOf
  <2>3. OnceIn(list, m) => OnceIn(after, m)
    <3> SUFFICES ASSUME OnceIn(list, m), NEW j \in RowsOf(after, m),
                        NEW k \in RowsOf(after, m)
                 PROVE  j = k
      BY DEF OnceIn
    <3>1. old(j) = old(k)  BY <2>1 DEF OnceIn
    <3>2. j \in DOMAIN after /\ k \in DOMAIN after  BY DEF RowsOf
    <3>3. QED  BY <1>5, <3>1, <3>2
  <2>4. MadeOf(after, m) = MadeOf(list, m)  BY <2>1, <2>2 DEF MadeOf
  <2>5. QED  BY <2>3, <2>4
<1>8. ASSUME RowsOf(list, m) \subseteq {i} PROVE RowsOf(after, m) = {}
  BY <1>3, <1>8 DEF RowsOf
<1>9. QED  BY <1>1, <1>7, <1>8

\* A set of numbers has a smallest one.
LEMMA SmallestOf ==
  ASSUME NEW T \in SUBSET Nat, T # {}
  PROVE  \E m \in T : \A n \in T : m <= n
<1>1. \A x, y \in Nat : y < x => <<y, x>> \in OpToRel(<, Nat)  BY DEF OpToRel
<1>2. IsWellFoundedOn(OpToRel(<, Nat), Nat)  BY NatLessThanWellFounded
<1>3. PICK R : IsWellFoundedOn(R, Nat) /\ \A x, y \in Nat : y < x => <<y, x>> \in R
  BY <1>1, <1>2
<1>4. PICK m \in T : \A n \in T : ~(<<n, m>> \in R)
  BY <1>3, WFMin
<1>5. \A n \in T : ~(n < m)  BY <1>3, <1>4
<1>6. \A n \in T : m <= n  BY <1>5
<1>7. QED  BY <1>6

\* findIndex: the place of an address as it is written, or 0.
LEMMA FoundAt ==
  ASSUME NEW list \in Seq(Device), NEW a
  PROVE  findIndex(list, a) # 0 =>
           findIndex(list, a) \in DOMAIN list /\ list[findIndex(list, a)].mac = a
<1> DEFINE found == {i \in DOMAIN list : list[i].mac = a}
<1>1. CASE found = {}  BY <1>1 DEF findIndex
<1>2. CASE found # {}
  <2>1. \E i \in found : \A j \in found : i <= j
    <3>1. found \in SUBSET Nat  OBVIOUS
    <3>2. QED  BY <1>2, <3>1, SmallestOf
  <2>2. findIndex(list, a) \in found  BY <1>2, <2>1 DEF findIndex
  <2>3. QED  BY <2>2
<1>3. QED  BY <1>1, <1>2

\* deviceTypeOK in parts, with what holds of their fields: a deletion is of a
\* device; what is added was none, what is edited was one; the form that is
\* open is that of the device that is selected.
DevForm == [device : Device \cup {NoDevice}, mac : Macs, answer : Answers \cup {Blank},
            changeDevice : BOOLEAN, formIsLoaded : BOOLEAN, refused : SUBSET Macs]
DevDialog ==
  {x \in [of : {"discard", "leave", "delete", "change"}, device : Device \cup {NoDevice}] :
     x.of = "delete" => x.device \in Device}
NewCall == [at : {"asked", "done"}, call : [device : Device, was : {NoDevice}]]
EditCall == [at : {"asked", "done"}, call : [device : Device, was : Device]]

DevicesOK ==
  /\ repository \subseteq Device /\ devices \in Seq(Device) /\ unheard \subseteq Macs
DevCallsOK ==
  /\ adding \in {Idle, Failed} \cup NewCall
  /\ editing \in {Idle, Failed} \cup EditCall
  /\ deletingDevice \in {Idle, Failed} \cup NewCall
DevFormOK ==
  /\ deviceForm \in DevForm /\ selectedDevice \in Device \cup {NoDevice}
  /\ isOpenDeviceForm \in BOOLEAN
  /\ isOpenDeviceForm => selectedDevice = deviceForm.device
DevDialogsOK == deviceDialogs \in Seq(DevDialog)
DevSwitchesOK ==
  isOpenAddDevice \in BOOLEAN /\ questionnaire \in {"idle", "asked"}
DevBoundOK == calls \in 0 .. MaxCalls

DevPageInv == DevFormOK /\ DevDialogsOK /\ DevSwitchesOK /\ DevBoundOK

LEMMA NewDevForm ==
  ASSUME NEW d \in Device \cup {NoDevice}, NEW a \in Macs, NEW r \in SUBSET Macs
  PROVE  /\ NewForm \in DevForm /\ NewForm.device = NoDevice
         /\ [NewForm EXCEPT !.refused = r] \in DevForm
         /\ [NewForm EXCEPT !.refused = r].device = NoDevice
         /\ [NewForm EXCEPT !.device = d, !.mac = a, !.refused = r] \in DevForm
         /\ [NewForm EXCEPT !.device = d, !.mac = a, !.refused = r].device = d
<1>1. Blank \in Macs  BY UiDevicesAssumption
<1>2. QED  BY <1>1 DEF NewForm, DevForm

LEMMA RefusedMacs ==
  ASSUME NEW list \in Seq(Device), NEW d
  PROVE  differentMACAddress(list, d) \subseteq Macs
<1>1. ASSUME NEW i \in DOMAIN list PROVE list[i].mac \in Macs
  <2>1. list[i] \in Device  OBVIOUS
  <2>2. QED  BY <2>1 DEF Device
<1>2. QED  BY <1>1 DEF differentMACAddress

LEMMA FilledForm ==
  ASSUME NEW f \in DevForm, NEW d \in Device \cup {NoDevice}
  PROVE  filled(f, d) \in DevForm /\ filled(f, d).device = f.device
<1>1. Blank \in Macs  BY UiDevicesAssumption
<1>2. [f EXCEPT !.mac = Blank, !.answer = Blank] \in DevForm
      /\ [f EXCEPT !.mac = Blank, !.answer = Blank].device = f.device
  BY <1>1 DEF DevForm
<1>3. CASE d = NoDevice \/ d.mac = Blank
  BY <1>2, <1>3 DEF filled, resetDeviceForm
<1>4. CASE ~(d = NoDevice \/ d.mac = Blank)
  <2> DEFINE a == IF d.answer /= Blank /\ f.formIsLoaded THEN d.answer ELSE f.answer
  <2>1. d.mac \in Macs /\ a \in Answers \cup {Blank}
    BY <1>4 DEF Device, DevForm
  <2>2. filled(f, d) = [f EXCEPT !.mac = d.mac, !.answer = a]
    BY <1>4 DEF filled
  <2> HIDE DEF a
  <2>3. [f EXCEPT !.mac = d.mac, !.answer = a] \in DevForm
        /\ [f EXCEPT !.mac = d.mac, !.answer = a].device = f.device
    BY <2>1 DEF DevForm
  <2>4. QED  BY <2>2, <2>3
<1>5. QED  BY <1>3, <1>4

LEMMA TakenForm ==
  ASSUME NEW f \in DevForm, NEW d \in Device \cup {NoDevice}, NEW list \in Seq(Device)
  PROVE  taken(f, d, list) \in DevForm /\ taken(f, d, list).device = d
<1> DEFINE g == filled(f, d)
           r == differentMACAddress(list, d)
<1>1. g \in DevForm  BY FilledForm
<1>2. r \subseteq Macs  BY RefusedMacs
<1>3. taken(f, d, list) = [g EXCEPT !.device = d, !.changeDevice = FALSE, !.refused = r]
  BY DEF taken
<1> HIDE DEF g, r
<1>4. [g EXCEPT !.device = d, !.changeDevice = FALSE, !.refused = r] \in DevForm
      /\ [g EXCEPT !.device = d, !.changeDevice = FALSE, !.refused = r].device = d
  BY <1>1, <1>2 DEF DevForm
<1>5. QED  BY <1>3, <1>4

\* A dialog on top of those there are, and without the one on top.
LEMMA DialogOnTop ==
  ASSUME NEW ds \in Seq(DevDialog), NEW x \in DevDialog
  PROVE  <<x>> \o ds \in Seq(DevDialog)
OBVIOUS

LEMMA DialogAnswered ==
  ASSUME DevDialogsOK, deviceDialogs # <<>>
  PROVE  /\ Head(deviceDialogs) \in DevDialog
         /\ Tail(deviceDialogs) \in Seq(DevDialog)
         /\ Len(Tail(deviceDialogs)) < Len(deviceDialogs)
BY DEF DevDialogsOK

LEMMA SelectionTyped ==
  ASSUME DevFormOK, DevDialogsOK, NEW d \in Device \cup {NoDevice},
         NEW list \in Seq(Device), initialDeviceEffect(d, list),
         isOpenDeviceForm' = isOpenDeviceForm
  PROVE  DevFormOK' /\ DevDialogsOK'
<1>1. CASE /\ deviceForm' = taken(deviceForm, d, list) /\ selectedDevice' = d
           /\ UNCHANGED deviceDialogs
  BY <1>1, TakenForm DEF DevFormOK, DevDialogsOK
<1>2. CASE /\ selectedDevice' = deviceForm.device
           /\ deviceDialogs' = <<[of |-> "change", device |-> d]>> \o deviceDialogs
           /\ UNCHANGED deviceForm
  <2>1. [of |-> "change", device |-> d] \in DevDialog  BY DEF DevDialog
  <2>2. DevDialogsOK'  BY <1>2, <2>1, DialogOnTop DEF DevDialogsOK
  <2>3. deviceForm.device \in Device \cup {NoDevice}  BY DEF DevFormOK, DevForm
  <2>4. DevFormOK'  BY <1>2, <2>3 DEF DevFormOK
  <2>5. QED  BY <2>2, <2>4
<1>3. QED  BY <1>1, <1>2 DEF initialDeviceEffect

LEMMA DevPageFrames ==
  /\ DevFormOK /\ UNCHANGED <<deviceForm, selectedDevice, isOpenDeviceForm>>
       => DevFormOK'
  /\ DevDialogsOK /\ UNCHANGED deviceDialogs => DevDialogsOK'
  /\ DevSwitchesOK /\ UNCHANGED <<isOpenAddDevice, questionnaire>> => DevSwitchesOK'
  /\ DevBoundOK /\ UNCHANGED calls => DevBoundOK'
BY DEF DevFormOK, DevDialogsOK, DevSwitchesOK, DevBoundOK

LEMMA OpenedForm ==
  ASSUME DevPageInv, DevicesOK, NEW d \in Device \cup {NoDevice}, openForm(d)
  PROVE  DevFormOK' /\ DevDialogsOK' /\ DevBoundOK' /\ questionnaire' \in {"idle", "asked"}
<1>0. DevFormOK /\ DevDialogsOK /\ DevSwitchesOK /\ DevBoundOK /\ devices \in Seq(Device)
  BY DEF DevPageInv, DevicesOK
<1>1. DevBoundOK'  BY <1>0, DevPageFrames DEF openForm
<1>2. CASE isOpenDeviceForm
  <2>1. initialDeviceEffect(d, devices) /\ UNCHANGED <<isOpenDeviceForm, questionnaire>>
    BY <1>2 DEF openForm
  <2>2. DevFormOK' /\ DevDialogsOK'  BY <1>0, <2>1, SelectionTyped
  <2>3. QED  BY <1>0, <1>1, <2>1, <2>2 DEF DevSwitchesOK
<1>3. CASE ~isOpenDeviceForm
  <2> DEFINE a == IF d = NoDevice THEN Blank ELSE d.mac
             r == differentMACAddress(devices, d)
  <2>1. /\ isOpenDeviceForm' = TRUE /\ selectedDevice' = d /\ questionnaire' = "asked"
        /\ deviceForm' = [NewForm EXCEPT !.device = d, !.mac = a, !.refused = r]
        /\ UNCHANGED deviceDialogs
    BY <1>3 DEF openForm
  <2>2. a \in Macs /\ r \subseteq Macs
    BY <1>0, UiDevicesAssumption, RefusedMacs, LowerFacts
  <2> HIDE DEF a, r
  <2>3. deviceForm' \in DevForm /\ deviceForm'.device = d  BY <2>1, <2>2, NewDevForm
  <2>4. DevFormOK'  BY <2>1, <2>3 DEF DevFormOK
  <2>5. DevDialogsOK'  BY <1>0, <2>1, DevPageFrames
  <2>6. QED  BY <1>1, <2>1, <2>4, <2>5
<1>4. QED  BY <1>2, <1>3

LEMMA DeviceOfForm ==
  ASSUME DevFormOK
  PROVE  createDeviceFromForm \in Device
<1>1. deviceForm.mac \in Macs /\ deviceForm.answer \in Answers \cup {Blank}
  BY DEF DevFormOK, DevForm
<1>2. QED  BY <1>1 DEF createDeviceFromForm, Device

LEMMA LeftPage ==
  ASSUME DevicesOK, DevPageInv, leaveDevices
  PROVE  DevPageInv'
<1>1. isOpenAddDevice' \in BOOLEAN /\ isOpenDeviceForm' = isOpenAddDevice'
  <2>1. PICK asked \in BOOLEAN :
          isOpenAddDevice' = (asked \/ (isOpenAddDevice /\ ~isOpenDeviceForm))
    BY DEF leaveDevices, setIsOpenAddDevice
  <2>2. (asked \/ (isOpenAddDevice /\ ~isOpenDeviceForm)) \in BOOLEAN  OBVIOUS
  <2>3. QED  BY <2>1, <2>2 DEF leaveDevices
<1>2. selectedDevice' = NoDevice /\ deviceDialogs' = <<>> /\ UNCHANGED calls
      /\ questionnaire' \in {"idle", "asked"}
  BY DEF leaveDevices
<1>3. deviceForm' \in DevForm /\ deviceForm'.device = NoDevice
  <2>1. differentMACAddress(devices, NoDevice) \subseteq Macs
    BY RefusedMacs DEF DevicesOK
  <2>2. Blank \in Macs  BY UiDevicesAssumption
  <2>3. QED  BY <2>1, <2>2, NewDevForm DEF leaveDevices
<1>4. DevFormOK'  BY <1>1, <1>2, <1>3 DEF DevFormOK
<1>5. DevDialogsOK'  BY <1>2 DEF DevDialogsOK
<1>6. DevSwitchesOK' /\ DevBoundOK'
  BY <1>1, <1>2 DEF DevSwitchesOK, DevPageInv, DevBoundOK
<1>7. QED  BY <1>4, <1>5, <1>6 DEF DevPageInv

LEMMA DevicePageSteps ==
  ASSUME DevicesOK, DevCallsOK, DevPageInv, deviceNext
  PROVE  DevPageInv'
<1>0. /\ DevFormOK /\ DevDialogsOK /\ DevSwitchesOK /\ DevBoundOK
      /\ devices \in Seq(Device)
  BY DEF DevPageInv, DevicesOK
<1>1. ASSUME NEW d \in ToSet(devices) \cup {NoDevice}, openForm(d),
             UNCHANGED isOpenAddDevice
      PROVE  DevPageInv'
  <2>1. d \in Device \cup {NoDevice}  BY <1>0 DEF ToSet
  <2>2. QED  BY <1>0, <1>1, <2>1, OpenedForm DEF DevPageInv, DevSwitchesOK
<1>2. CASE getQuestionnaireFormat /\ UNCHANGED isOpenAddDevice
  <2>1. /\ questionnaire' = "idle"
        /\ UNCHANGED <<selectedDevice, isOpenDeviceForm, deviceDialogs, calls,
                       isOpenAddDevice>>
        /\ deviceForm' = IF isOpenDeviceForm THEN questionnaireFormat(deviceForm)
                         ELSE deviceForm
    BY <1>2 DEF getQuestionnaireFormat
  <2>2. deviceForm' \in DevForm /\ deviceForm'.device = deviceForm.device
    <3> DEFINE loaded == [deviceForm EXCEPT !.formIsLoaded = TRUE]
    <3>1. loaded \in DevForm /\ loaded.device = deviceForm.device
      BY <1>0 DEF DevFormOK, DevForm
    <3>2. questionnaireFormat(deviceForm) \in {loaded, filled(loaded, selectedDevice)}
      BY DEF questionnaireFormat
    <3> HIDE DEF loaded
    <3>3. filled(loaded, selectedDevice) \in DevForm
          /\ filled(loaded, selectedDevice).device = deviceForm.device
      BY <1>0, <3>1, FilledForm DEF DevFormOK
    <3>4. deviceForm \in DevForm  BY <1>0 DEF DevFormOK
    <3>5. QED  BY <2>1, <3>1, <3>2, <3>3, <3>4
  <2>3. DevFormOK'  BY <1>0, <2>1, <2>2 DEF DevFormOK
  <2>4. DevSwitchesOK'  BY <1>0, <2>1 DEF DevSwitchesOK
  <2>5. QED  BY <1>0, <2>1, <2>3, <2>4, DevPageFrames DEF DevPageInv
<1>3. CASE typeDevice /\ UNCHANGED isOpenAddDevice
  <2>1. UNCHANGED <<selectedDevice, isOpenDeviceForm, questionnaire, deviceDialogs, calls,
                    isOpenAddDevice>>
    BY <1>3 DEF typeDevice
  <2>2. deviceForm' \in DevForm /\ deviceForm'.device = deviceForm.device
    BY <1>0, <1>3 DEF typeDevice, DevFormOK, DevForm
  <2>3. DevFormOK'  BY <1>0, <2>1, <2>2 DEF DevFormOK
  <2>4. QED  BY <1>0, <2>1, <2>3, DevPageFrames DEF DevPageInv
<1>4. CASE onSaveClicked /\ UNCHANGED isOpenAddDevice
  <2>1. UNCHANGED <<selectedDevice, isOpenDeviceForm, questionnaire, deviceDialogs,
                    isOpenAddDevice>>
    BY <1>4 DEF onSaveClicked
  <2>2. deviceForm' \in DevForm /\ deviceForm'.device = deviceForm.device
    BY <1>0, <1>4 DEF onSaveClicked, DevFormOK, DevForm
  <2>3. calls < MaxCalls /\ calls' = calls + 1  BY <1>4 DEF onSaveClicked
  <2>4. DevBoundOK'  BY <1>0, <2>3, UiDevicesAssumption DEF DevBoundOK
  <2>5. DevFormOK'  BY <1>0, <2>1, <2>2 DEF DevFormOK
  <2>6. QED  BY <1>0, <2>1, <2>4, <2>5, DevPageFrames DEF DevPageInv
<1>5. CASE openDeviceDialog /\ UNCHANGED isOpenAddDevice
  <2>1. UNCHANGED <<selectedDevice, isOpenDeviceForm, deviceForm, questionnaire, calls,
                    isOpenAddDevice>>
    BY <1>5 DEF openDeviceDialog
  <2>2. \E x \in DevDialog : deviceDialogs' = <<x>>
    <3>1. ASSUME NEW of \in {"discard", "leave"} 
          PROVE  [of |-> of, device |-> NoDevice] \in DevDialog
      BY DEF DevDialog
    <3>2. ASSUME NEW d \in ToSet(devices) \cup
                             (IF isOpenDeviceForm THEN {selectedDevice} ELSE {}),
                 d # NoDevice
          PROVE  [of |-> "delete", device |-> d] \in DevDialog
      <4>1. d \in Device  BY <1>0, <3>2 DEF ToSet, DevFormOK
      <4>2. QED  BY <4>1 DEF DevDialog
    <3>3. QED  BY <1>5, <3>1, <3>2 DEF openDeviceDialog
  <2>3. DevDialogsOK'  BY <2>2 DEF DevDialogsOK
  <2>4. QED  BY <1>0, <2>1, <2>3, DevPageFrames DEF DevPageInv
<1>6. CASE cancelDialog /\ UNCHANGED isOpenAddDevice
  <2>1. UNCHANGED <<selectedDevice, isOpenDeviceForm, deviceForm, questionnaire, calls,
                    isOpenAddDevice>>
        /\ deviceDialogs # <<>> /\ deviceDialogs' = Tail(deviceDialogs)
    BY <1>6 DEF cancelDialog
  <2>2. DevDialogsOK'  BY <1>0, <2>1, DialogAnswered DEF DevDialogsOK
  <2>3. QED  BY <1>0, <2>1, <2>2, DevPageFrames DEF DevPageInv
<1>7. CASE (serveDevices \/ deviceCallFailed) /\ UNCHANGED isOpenAddDevice
  <2>1. UNCHANGED <<selectedDevice, isOpenDeviceForm, deviceForm, questionnaire,
                    deviceDialogs, calls, isOpenAddDevice>>
    BY <1>7 DEF serveDevices, deviceCallFailed
  <2>2. QED  BY <1>0, <2>1, DevPageFrames DEF DevPageInv
<1>8. CASE deviceAnswered /\ UNCHANGED isOpenAddDevice
  <2>1. UNCHANGED <<questionnaire, calls, isOpenAddDevice>>
    BY <1>8 DEF deviceAnswered
  <2>2. ASSUME NEW d \in Device, NEW list \in Seq(Device), saved(d, list)
        PROVE  DevFormOK' /\ DevDialogsOK'
    <3>1. UNCHANGED isOpenDeviceForm  BY <2>2 DEF saved
    <3>2. CASE isOpenDeviceForm
      BY <1>0, <2>2, <3>1, <3>2, SelectionTyped DEF saved
    <3>3. CASE ~isOpenDeviceForm
      BY <1>0, <2>2, <3>1, <3>3 DEF saved, DevFormOK, DevDialogsOK
    <3>4. QED  BY <3>2, <3>3
  <2>3. CASE adding.at = "done" /\ saved(adding.call.device,
                                         addDevice(adding.call.device, devices))
    <3>1. adding.call.device \in Device
      BY <2>3 DEF DevCallsOK, NewCall, Idle, Failed
    <3>2. addDevice(adding.call.device, devices) \in Seq(Device)
      BY <1>0, <3>1, RowAdded
    <3>3. QED  BY <1>0, <2>1, <2>2, <2>3, <3>1, <3>2, DevPageFrames DEF DevPageInv
  <2>4. CASE editing.at = "done"
             /\ saved(editing.call.device,
                      updateDevice(editing.call.device, editing.call.was.mac, devices))
    <3>1. editing.call.device \in Device
      BY <2>4 DEF DevCallsOK, EditCall, Idle, Failed
    <3>2. updateDevice(editing.call.device, editing.call.was.mac, devices) \in Seq(Device)
      BY <1>0, <3>1, FoundAt, RowReplaced DEF updateDevice, Replaced
    <3>3. QED  BY <1>0, <2>1, <2>2, <2>4, <3>1, <3>2, DevPageFrames DEF DevPageInv
  <2>5. CASE /\ isOpenDeviceForm' = FALSE /\ deviceForm' = NewForm
             /\ UNCHANGED <<selectedDevice, deviceDialogs>>
    <3>1. deviceForm' \in DevForm
      BY <2>5, NewDevForm, UiDevicesAssumption
    <3>2. DevFormOK'  BY <1>0, <2>5, <3>1 DEF DevFormOK
    <3>3. QED  BY <1>0, <2>1, <2>5, <3>2, DevPageFrames DEF DevPageInv
  <2>6. QED  BY <1>8, <2>3, <2>4, <2>5 DEF deviceAnswered
<1>9. CASE navigateToAddDevice
  <2>1. isOpenAddDevice' = TRUE  BY <1>9 DEF navigateToAddDevice, setIsOpenAddDevice
  <2>2. CASE UNCHANGED pageOfDevices
    <3>1. UNCHANGED <<selectedDevice, isOpenDeviceForm, deviceForm, questionnaire,
                      deviceDialogs, calls>>
      BY <2>2 DEF pageOfDevices
    <3>2. QED
      BY <1>0, <2>1, <3>1, DevPageFrames DEF DevPageInv, DevSwitchesOK
  <2>3. CASE openForm(NoDevice)
    BY <1>0, <2>1, <2>3, OpenedForm DEF DevPageInv, DevSwitchesOK
  <2>4. QED  BY <1>9, <2>2, <2>3 DEF navigateToAddDevice
<1>10. CASE canDeactivate  BY <1>10, LeftPage DEF canDeactivate
<1>11. CASE confirmDialog
  <2>1. deviceDialogs # <<>>  BY <1>11 DEF confirmDialog
  <2>2. Tail(deviceDialogs) \in Seq(DevDialog) /\ Head(deviceDialogs) \in DevDialog
    BY <1>0, <2>1, DialogAnswered
  <2>3. CASE discard /\ UNCHANGED isOpenAddDevice
    <3>1. NewForm \in DevForm  BY NewDevForm, UiDevicesAssumption
    <3>2. DevFormOK'  BY <2>3, <3>1 DEF discard, DevFormOK
    <3>3. DevDialogsOK'  BY <2>2, <2>3 DEF discard, DevDialogsOK
    <3>4. DevSwitchesOK' /\ DevBoundOK'
      BY <1>0, <2>3, DevPageFrames DEF discard
    <3>5. QED  BY <3>2, <3>3, <3>4 DEF DevPageInv
  <2>4. CASE deleteDevice /\ UNCHANGED isOpenAddDevice
    <3>1. calls < MaxCalls /\ calls' = calls + 1  BY <2>4 DEF deleteDevice
    <3>2. DevBoundOK'  BY <1>0, <3>1, UiDevicesAssumption DEF DevBoundOK
    <3>3. DevDialogsOK'  BY <2>2, <2>4 DEF deleteDevice, DevDialogsOK
    <3>4. DevFormOK' /\ DevSwitchesOK'
      BY <1>0, <2>4, DevPageFrames DEF deleteDevice
    <3>5. QED  BY <3>2, <3>3, <3>4 DEF DevPageInv
  <2>5. CASE openCloseDialogToChangeDevice /\ UNCHANGED isOpenAddDevice
    <3> DEFINE d == Head(deviceDialogs).device
               form == [deviceForm EXCEPT !.changeDevice = isOpenDeviceForm]
    <3>1. /\ selectedDevice' = d /\ deviceDialogs' = Tail(deviceDialogs)
          /\ deviceForm' = IF ~isOpenDeviceForm \/ d = selectedDevice THEN form
                           ELSE taken(form, d, devices)
          /\ UNCHANGED <<isOpenDeviceForm, questionnaire, calls>>
      BY <2>5 DEF openCloseDialogToChangeDevice
    <3>2. d \in Device \cup {NoDevice}  BY <2>2 DEF DevDialog
    <3>3. form \in DevForm /\ form.device = deviceForm.device
      BY <1>0 DEF DevFormOK, DevForm
    <3> HIDE DEF d, form
    <3>4. taken(form, d, devices) \in DevForm /\ taken(form, d, devices).device = d
      BY <1>0, <3>2, <3>3, TakenForm
    <3>5. DevFormOK'  BY <1>0, <3>1, <3>2, <3>3, <3>4 DEF DevFormOK
    <3>6. DevDialogsOK'  BY <2>2, <3>1 DEF DevDialogsOK
    <3>7. DevSwitchesOK' /\ DevBoundOK'  BY <1>0, <2>5, <3>1, DevPageFrames
    <3>8. QED  BY <3>5, <3>6, <3>7 DEF DevPageInv
  <2>6. CASE leaveDevices  BY <2>6, LeftPage
  <2>7. QED  BY <1>11, <2>3, <2>4, <2>5, <2>6 DEF confirmDialog
<1>12. QED
  BY <1>1, <1>2, <1>3, <1>4, <1>5, <1>6, <1>7, <1>8, <1>9, <1>10, <1>11 DEF deviceNext

\* What is shared with the server.
UnderWay(c) == c \notin {Idle, Failed}
HasAt(m) == {d \in repository : d.mac = m}

CrossedKnown ==
  /\ UnderWay(adding) /\ UnderWay(editing)
       => Addresses(adding.call) \cup Addresses(editing.call) \subseteq unheard
  /\ UnderWay(adding) /\ UnderWay(deletingDevice)
       => Addresses(adding.call) \cup Addresses(deletingDevice.call) \subseteq unheard
  /\ UnderWay(editing) /\ UnderWay(deletingDevice)
       => Addresses(editing.call) \cup Addresses(deletingDevice.call) \subseteq unheard

\* What has been added is in no row; what has been edited is in the row of
\* what it was, if in any; what has been deleted is still in its row.
AddDue ==
  adding.at = "done" => \A m \in Addresses(adding.call) \ unheard :
    RowsOf(devices, m) = {} /\ HasAt(m) = {Keeps(adding.call.device)}
EditDue ==
  editing.at = "done" => \A m \in Addresses(editing.call) \ unheard :
    /\ OnceIn(devices, m)
    /\ m # Lower[editing.call.was.mac] => RowsOf(devices, m) = {}
    /\ HasAt(m) = IF m = Lower[editing.call.device.mac] THEN {Keeps(editing.call.device)}
                  ELSE {}
DeletionDue ==
  deletingDevice.at = "done" => \A m \in Addresses(deletingDevice.call) \ unheard :
    OnceIn(devices, m) /\ HasAt(m) = {}

LowerMacs == {Lower[n] : n \in Macs}
AgreeAt(m) == OnceIn(devices, m) /\ MadeOf(devices, m) = HasAt(m)
DevicesListed == \A m \in LowerMacs \ DueOrLost : AgreeAt(m)

DevServerInv ==
  /\ DevicesOK /\ DevCallsOK /\ CrossedKnown
  /\ AddDue /\ EditDue /\ DeletionDue /\ DevicesListed

LEMMA KeptIsHad == ASSUME NEW m PROVE Kept(m) = HasAt(Lower[m])
BY DEF Kept, HasAt

LEMMA ListedAgree == DevicesListed <=> DevicesAgree
<1>1. ASSUME NEW m \in LowerMacs PROVE HasAt(m) = Kept(m)
  <2>1. Lower[m] = m  BY UiDevicesAssumption DEF LowerMacs
  <2>2. QED  BY <2>1, KeptIsHad
<1>2. \A m : /\ OnceIn(devices, m) <=> \A i, j \in ListedAs(m) : i = j
             /\ MadeOf(devices, m) = {Keeps(devices[i]) : i \in ListedAs(m)}
  BY ListedRows DEF OnceIn, MadeOf
<1>3. QED  BY <1>1, <1>2 DEF DevicesListed, DevicesAgree, AgreeAt, LowerMacs

\* The addresses of the calls of the three kinds.
LEMMA CallAddresses ==
  /\ \A c \in NewCall : /\ Addresses(c.call) = {Lower[c.call.device.mac]}
                        /\ c.call.device \in Device /\ c \notin {Idle, Failed}
                        /\ c.at \in {"asked", "done"}
  /\ \A c \in EditCall : /\ Addresses(c.call) = {Lower[c.call.device.mac],
                                                 Lower[c.call.was.mac]}
                         /\ c.call.device \in Device /\ c.call.was \in Device
                         /\ c \notin {Idle, Failed}
                         /\ c.at \in {"asked", "done"}
  /\ \A c \in NewCall \cup EditCall : Addresses(c.call) \subseteq Macs
<1>1. NoDevice \notin Device  BY LowerFacts
<1>2. ASSUME NEW c \in NewCall
      PROVE  /\ Addresses(c.call) = {Lower[c.call.device.mac]}
             /\ c.call.device \in Device /\ c \notin {Idle, Failed}
             /\ Addresses(c.call) \subseteq Macs /\ c.at \in {"asked", "done"}
  <2>1. c.call.device \in Device /\ c.call.was = NoDevice /\ c.at \in {"asked", "done"}
    BY DEF NewCall
  <2>2. {c.call.device, c.call.was} \ {NoDevice} = {c.call.device}  BY <1>1, <2>1
  <2>3. Addresses(c.call) = {Lower[c.call.device.mac]}  BY <2>2 DEF Addresses
  <2>4. c \notin {Idle, Failed}  BY <2>1 DEF Idle, Failed
  <2>5. QED  BY <2>1, <2>3, <2>4, LowerFacts
<1>3. ASSUME NEW c \in EditCall
      PROVE  /\ Addresses(c.call) = {Lower[c.call.device.mac], Lower[c.call.was.mac]}
             /\ c.call.device \in Device /\ c.call.was \in Device
             /\ c \notin {Idle, Failed} /\ Addresses(c.call) \subseteq Macs
             /\ c.at \in {"asked", "done"}
  <2>1. c.call.device \in Device /\ c.call.was \in Device /\ c.at \in {"asked", "done"}
    BY DEF EditCall
  <2>2. {c.call.device, c.call.was} \ {NoDevice} = {c.call.device, c.call.was}
    BY <1>1, <2>1
  <2>3. Addresses(c.call) = {Lower[c.call.device.mac], Lower[c.call.was.mac]}
    BY <2>2 DEF Addresses
  <2>4. c \notin {Idle, Failed}  BY <2>1 DEF Idle, Failed
  <2>5. QED  BY <2>1, <2>3, <2>4, LowerFacts
<1>4. QED  BY <1>2, <1>3

\* Which calls there are, by what they are at.
LEMMA CallKinds ==
  ASSUME DevCallsOK
  PROVE  /\ adding.at \in {"asked", "done"} <=> adding \in NewCall
         /\ editing.at \in {"asked", "done"} <=> editing \in EditCall
         /\ deletingDevice.at \in {"asked", "done"} <=> deletingDevice \in NewCall
         /\ UnderWay(adding) <=> adding \in NewCall
         /\ UnderWay(editing) <=> editing \in EditCall
         /\ UnderWay(deletingDevice) <=> deletingDevice \in NewCall
<1>1. \A c \in NewCall \cup EditCall : c.at \in {"asked", "done"} /\ c \notin {Idle, Failed}
  BY CallAddresses
<1>2. Idle.at = "idle" /\ Failed.at = "failed"  BY DEF Idle, Failed
<1>3. QED  BY <1>1, <1>2 DEF DevCallsOK, UnderWay

LEMMA DueMembers ==
  \A m : m \in DueOrLost <=>
    \/ m \in unheard
    \/ adding.at = "done" /\ m \in Addresses(adding.call)
    \/ editing.at = "done" /\ m \in Addresses(editing.call)
    \/ deletingDevice.at = "done" /\ m \in Addresses(deletingDevice.call)
BY DEF DueOrLost

\* A due that nothing was done to.
LEMMA DueFrames ==
  ASSUME unheard \subseteq unheard', UNCHANGED <<devices, repository>>
  PROVE  /\ AddDue /\ (adding' = adding \/ adding'.at # "done") => AddDue'
         /\ EditDue /\ (editing' = editing \/ editing'.at # "done") => EditDue'
         /\ DeletionDue /\ (deletingDevice' = deletingDevice \/ deletingDevice'.at # "done")
              => DeletionDue'
BY DEF AddDue, EditDue, DeletionDue, HasAt, RowsOf, OnceIn, Keeps, Addresses

\* A due says nothing any more when another call is under way.
LEMMA DueCrossed ==
  ASSUME DevCallsOK, CrossedKnown, unheard \subseteq unheard'
  PROVE  /\ UNCHANGED adding /\ (UnderWay(editing) \/ UnderWay(deletingDevice)) => AddDue'
         /\ UNCHANGED editing /\ (UnderWay(adding) \/ UnderWay(deletingDevice)) => EditDue'
         /\ UNCHANGED deletingDevice /\ (UnderWay(adding) \/ UnderWay(editing))
              => DeletionDue'
<1>1. /\ adding.at = "done" => UnderWay(adding)
      /\ editing.at = "done" => UnderWay(editing)
      /\ deletingDevice.at = "done" => UnderWay(deletingDevice)
  BY CallKinds
<1>2. ASSUME UNCHANGED adding, UnderWay(editing) \/ UnderWay(deletingDevice)
      PROVE  AddDue'
  <2>1. adding'.at = "done" => Addresses(adding'.call) \subseteq unheard'
    BY <1>1, <1>2 DEF CrossedKnown
  <2>2. QED  BY <2>1 DEF AddDue, Addresses
<1>3. ASSUME UNCHANGED editing, UnderWay(adding) \/ UnderWay(deletingDevice)
      PROVE  EditDue'
  <2>1. editing'.at = "done" => Addresses(editing'.call) \subseteq unheard'
    BY <1>1, <1>3 DEF CrossedKnown
  <2>2. QED  BY <2>1 DEF EditDue, Addresses
<1>4. ASSUME UNCHANGED deletingDevice, UnderWay(adding) \/ UnderWay(editing)
      PROVE  DeletionDue'
  <2>1. deletingDevice'.at = "done" => Addresses(deletingDevice'.call) \subseteq unheard'
    BY <1>1, <1>4 DEF CrossedKnown
  <2>2. QED  BY <2>1 DEF DeletionDue, Addresses
<1>5. QED  BY <1>2, <1>3, <1>4

\* What agreed does, as long as nothing is done to it.
LEMMA ListedFrame ==
  ASSUME DevicesListed, UNCHANGED <<devices, repository>>,
         \A m : m \in DueOrLost => m \in DueOrLost'
  PROVE  DevicesListed'
BY DEF DevicesListed, AgreeAt, HasAt, RowsOf, OnceIn, MadeOf, Keeps

LEMMA ServerFrame ==
  ASSUME DevServerInv,
         UNCHANGED <<repository, devices, unheard, adding, editing, deletingDevice>>
  PROVE  DevServerInv'
<1>1. DevicesOK' /\ DevCallsOK' /\ CrossedKnown'
  BY DEF DevServerInv, DevicesOK, DevCallsOK, CrossedKnown, UnderWay, Addresses
<1>2. AddDue' /\ EditDue' /\ DeletionDue'  BY DueFrames DEF DevServerInv
<1>3. \A m : m \in DueOrLost => m \in DueOrLost'
  BY DEF DueOrLost, Addresses
<1>4. DevicesListed'  BY <1>3, ListedFrame DEF DevServerInv
<1>5. QED  BY <1>1, <1>2, <1>4 DEF DevServerInv


\* A call that is still under way is the one that was.
LEMMA CrossedFrame ==
  ASSUME CrossedKnown, unheard \subseteq unheard',
         UnderWay(adding)' => UnderWay(adding) /\ adding'.call = adding.call,
         UnderWay(editing)' => UnderWay(editing) /\ editing'.call = editing.call,
         UnderWay(deletingDevice)' => /\ UnderWay(deletingDevice)
                                      /\ deletingDevice'.call = deletingDevice.call
  PROVE  CrossedKnown'
BY DEF CrossedKnown, Addresses

\* A call that is asked for whilst others are under way.
LEMMA NewCrossed ==
  ASSUME NEW call, NEW c1, NEW c2
  PROVE  /\ UnderWay(c1) => /\ Addresses(call) \subseteq Crossed(call, {c1, c2})
                            /\ Addresses(c1.call) \subseteq Crossed(call, {c1, c2})
         /\ UnderWay(c2) => /\ Addresses(call) \subseteq Crossed(call, {c1, c2})
                            /\ Addresses(c2.call) \subseteq Crossed(call, {c1, c2})
<1> DEFINE busy == {c.call : c \in {c1, c2} \ {Idle, Failed}}
<1>1. UnderWay(c1) => c1.call \in busy  BY DEF UnderWay
<1>2. UnderWay(c2) => c2.call \in busy  BY DEF UnderWay
<1>3. busy # {} => Crossed(call, {c1, c2})
                     = Addresses(call) \cup UNION {Addresses(b) : b \in busy}
  BY DEF Crossed
<1> HIDE DEF busy
<1>4. QED  BY <1>1, <1>2, <1>3

LEMMA CrossedTyped ==
  ASSUME NEW call \in DeviceCall, NEW c1 \in {Idle, Failed} \cup NewCall \cup EditCall,
         NEW c2 \in {Idle, Failed} \cup NewCall \cup EditCall
  PROVE  Addresses(call) \subseteq Macs /\ Crossed(call, {c1, c2}) \subseteq Macs
<1>1. \A b \in DeviceCall : Addresses(b) \subseteq Macs
  <2> SUFFICES ASSUME NEW b \in DeviceCall, NEW d \in {b.device, b.was} \ {NoDevice}
               PROVE  Lower[d.mac] \in Macs
    BY DEF Addresses
  <2>1. d \in Device  BY DEF DeviceCall
  <2>2. QED  BY <2>1, LowerFacts
<1>2. \A c \in {c1, c2} \ {Idle, Failed} : c.call \in DeviceCall
  BY DEF NewCall, EditCall, DeviceCall
<1>3. \A b \in {c.call : c \in {c1, c2} \ {Idle, Failed}} : Addresses(b) \subseteq Macs
  BY <1>1, <1>2
<1>4. QED  BY <1>1, <1>3 DEF Crossed

\* Calls are asked for, fail with nothing done, or are given up.
LEMMA NothingDone ==
  ASSUME DevServerInv, DevCallsOK', CrossedKnown', UNCHANGED <<repository, devices>>,
         unheard \subseteq unheard', unheard' \subseteq Macs,
         \/ adding' = adding
         \/ /\ adding'.at # "done"
            /\ adding.at = "done" => Addresses(adding.call) \subseteq unheard',
         \/ editing' = editing
         \/ /\ editing'.at # "done"
            /\ editing.at = "done" => Addresses(editing.call) \subseteq unheard',
         \/ deletingDevice' = deletingDevice
         \/ /\ deletingDevice'.at # "done"
            /\ deletingDevice.at = "done"
                 => Addresses(deletingDevice.call) \subseteq unheard'
  PROVE  DevServerInv'
<1>1. DevicesOK'  BY DEF DevServerInv, DevicesOK
<1>2. AddDue' /\ EditDue' /\ DeletionDue'  BY DueFrames DEF DevServerInv
<1>3. ASSUME NEW m, m \in DueOrLost PROVE m \in DueOrLost'
  <2>1. \/ m \in unheard
        \/ adding.at = "done" /\ m \in Addresses(adding.call)
        \/ editing.at = "done" /\ m \in Addresses(editing.call)
        \/ deletingDevice.at = "done" /\ m \in Addresses(deletingDevice.call)
    BY <1>3, DueMembers
  <2>2. \/ m \in unheard'
        \/ adding'.at = "done" /\ m \in Addresses(adding'.call)
        \/ editing'.at = "done" /\ m \in Addresses(editing'.call)
        \/ deletingDevice'.at = "done" /\ m \in Addresses(deletingDevice'.call)
    BY <2>1
  <2>3. QED  BY <2>2 DEF DueOrLost, Addresses
<1>4. DevicesListed'  BY <1>3, ListedFrame DEF DevServerInv
<1>5. QED  BY <1>1, <1>2, <1>4 DEF DevServerInv

\* What a call that is to be served is about is listed as it is kept, unless
\* its addresses were crossed.
LEMMA AgreedBefore ==
  ASSUME DevServerInv
  PROVE  /\ adding.at = "asked" => \A m \in Addresses(adding.call) \ unheard : AgreeAt(m)
         /\ editing.at = "asked" => \A m \in Addresses(editing.call) \ unheard : AgreeAt(m)
         /\ deletingDevice.at = "asked"
              => \A m \in Addresses(deletingDevice.call) \ unheard : AgreeAt(m)
<1>1. DevCallsOK /\ CrossedKnown /\ DevicesListed  BY DEF DevServerInv
<1>2. /\ adding.at \in {"asked", "done"} => UnderWay(adding)
      /\ editing.at \in {"asked", "done"} => UnderWay(editing)
      /\ deletingDevice.at \in {"asked", "done"} => UnderWay(deletingDevice)
  BY <1>1, CallKinds
<1>3. ASSUME NEW call, NEW m \in Addresses(call), call.device \in Device,
             call.was \in Device \cup {NoDevice}
      PROVE  m \in LowerMacs
  <2>1. PICK d \in {call.device, call.was} \ {NoDevice} : m = Lower[d.mac]
    BY <1>3 DEF Addresses
  <2>2. d \in Device  BY <1>3, <2>1
  <2>3. QED  BY <2>1, <2>2, LowerFacts DEF LowerMacs
<1>4. \A c \in NewCall \cup EditCall :
        c.call.device \in Device /\ c.call.was \in Device \cup {NoDevice}
  BY DEF NewCall, EditCall
<1>5. ASSUME adding.at = "asked", NEW m \in Addresses(adding.call) \ unheard
      PROVE  AgreeAt(m)
  <2>1. m \in LowerMacs  BY <1>1, <1>3, <1>4, <1>5, CallKinds
  <2>2. m \notin DueOrLost  BY <1>1, <1>2, <1>5, DueMembers DEF CrossedKnown
  <2>3. QED  BY <1>1, <2>1, <2>2 DEF DevicesListed
<1>6. ASSUME editing.at = "asked", NEW m \in Addresses(editing.call) \ unheard
      PROVE  AgreeAt(m)
  <2>1. m \in LowerMacs  BY <1>1, <1>3, <1>4, <1>6, CallKinds
  <2>2. m \notin DueOrLost  BY <1>1, <1>2, <1>6, DueMembers DEF CrossedKnown
  <2>3. QED  BY <1>1, <2>1, <2>2 DEF DevicesListed
<1>7. ASSUME deletingDevice.at = "asked",
             NEW m \in Addresses(deletingDevice.call) \ unheard
      PROVE  AgreeAt(m)
  <2>1. m \in LowerMacs  BY <1>1, <1>3, <1>4, <1>7, CallKinds
  <2>2. m \notin DueOrLost  BY <1>1, <1>2, <1>7, DueMembers DEF CrossedKnown
  <2>3. QED  BY <1>1, <2>1, <2>2 DEF DevicesListed
<1>8. QED  BY <1>5, <1>6, <1>7

\* The server does something to the devices of some addresses, and these are
\* due, or lost.
LEMMA ServedElsewhere ==
  ASSUME DevicesListed, UNCHANGED devices, NEW A,
         \A m \in A : m \in DueOrLost', \A m : m \in DueOrLost => m \in DueOrLost',
         \A m : m \notin A => HasAt(m)' = HasAt(m)
  PROVE  DevicesListed'
<1> SUFFICES ASSUME NEW m \in LowerMacs, m \notin DueOrLost' PROVE AgreeAt(m)'
  BY DEF DevicesListed, LowerMacs
<1>1. m \notin DueOrLost /\ m \notin A
  OBVIOUS
<1>2. AgreeAt(m) /\ HasAt(m)' = HasAt(m)  BY <1>1 DEF DevicesListed
<1>3. QED  BY <1>2 DEF AgreeAt, RowsOf, OnceIn, MadeOf, Keeps


\* What the server and its answers do to the unheard addresses.
LEMMA OutcomeKinds ==
  ASSUME NEW c, NEW allowed \in BOOLEAN, NEW after, NEW o \in Outcomes(c, allowed, after)
  PROVE  \/ o.repository = repository /\ o.call = Failed /\ o.unheard = unheard
         \/ /\ allowed /\ o.repository = after
            /\ \/ o.call = [c EXCEPT !.at = "done"] /\ o.unheard = unheard
               \/ o.call = Failed /\ o.unheard = unheard \cup Addresses(c.call)
BY DEF Outcomes

LEMMA ServedCall ==
  /\ \A c \in NewCall : /\ [c EXCEPT !.at = "done"] \in NewCall
                        /\ [c EXCEPT !.at = "done"].at = "done"
                        /\ [c EXCEPT !.at = "done"].call = c.call
  /\ \A c \in EditCall : /\ [c EXCEPT !.at = "done"] \in EditCall
                         /\ [c EXCEPT !.at = "done"].at = "done"
                         /\ [c EXCEPT !.at = "done"].call = c.call
  /\ Failed.at # "done" /\ ~UnderWay(Failed) /\ Idle.at # "done" /\ ~UnderWay(Idle)
BY DEF NewCall, EditCall, Idle, Failed, UnderWay

\* An addition, and what it did, served.
LEMMA AdditionServed ==
  ASSUME DevServerInv, adding.at = "asked", UNCHANGED <<devices, editing, deletingDevice>>,
         NEW o \in Outcomes(adding, Kept(adding.call.device.mac) = {},
                            repository \cup {Keeps(adding.call.device)}),
         Comes(o), adding' = o.call
  PROVE  DevServerInv'
<1> DEFINE d == adding.call.device
<1>1. /\ DevicesOK /\ DevCallsOK /\ CrossedKnown /\ AddDue /\ EditDue /\ DeletionDue
      /\ DevicesListed
  BY DEF DevServerInv
<1>2. adding \in NewCall /\ UnderWay(adding)  BY <1>1, CallKinds
<1>3. Addresses(adding.call) = {Lower[d.mac]} /\ d \in Device
      /\ Addresses(adding.call) \subseteq Macs
  BY <1>2, CallAddresses
<1>4. CASE UNCHANGED <<repository, unheard>> /\ adding' = Failed
  <2>1. DevCallsOK'  BY <1>1, <1>4 DEF DevCallsOK
  <2>2. CrossedKnown'  BY <1>1, <1>4, ServedCall, CrossedFrame DEF UnderWay
  <2>3. unheard' \subseteq Macs  BY <1>1, <1>4 DEF DevicesOK
  <2>4. adding.at # "done" /\ adding'.at # "done"  BY <1>4, ServedCall
  <2>5. QED  BY <1>4, <2>1, <2>2, <2>3, <2>4, NothingDone
<1>5. ASSUME Kept(d.mac) = {}, repository' = repository \cup {Keeps(d)},
             \/ adding' = [adding EXCEPT !.at = "done"] /\ unheard' = unheard
             \/ adding' = Failed /\ unheard' = unheard \cup Addresses(adding.call)
      PROVE  DevServerInv'
  <2>1. adding' \in NewCall \cup {Failed} /\ (adding' # Failed => adding'.call = adding.call)
    BY <1>2, <1>5, ServedCall
  <2>2. DevCallsOK'  BY <1>1, <2>1 DEF DevCallsOK
  <2>3. DevicesOK'  BY <1>1, <1>3, <1>5, LowerFacts DEF DevicesOK
  <2>4. CrossedKnown'
    BY <1>1, <1>2, <1>5, <2>1, ServedCall, CrossedFrame DEF UnderWay
  <2>5. EditDue' /\ DeletionDue'  BY <1>1, <1>2, <1>5, DueCrossed
  <2>6. \A m : HasAt(m)' = IF m = Lower[d.mac] THEN HasAt(m) \cup {Keeps(d)} ELSE HasAt(m)
    BY <1>3, <1>5, LowerFacts DEF HasAt
  <2>7. AddDue'
    <3>1. CASE adding' = Failed  BY <3>1, ServedCall DEF AddDue
    <3>2. CASE adding' = [adding EXCEPT !.at = "done"] /\ unheard' = unheard
      <4>1. adding'.call = adding.call  BY <1>2, <3>2, ServedCall
      <4> SUFFICES ASSUME NEW m \in Addresses(adding.call) \ unheard
                   PROVE  RowsOf(devices, m) = {} /\ HasAt(m)' = {Keeps(d)}
        BY <3>2, <4>1 DEF AddDue, RowsOf, Addresses, Keeps
      <4>2. AgreeAt(m) /\ m = Lower[d.mac]  BY <1>3, AgreedBefore
      <4>3. HasAt(m) = {}  BY <1>5, <4>2, KeptIsHad
      <4>4. RowsOf(devices, m) = {}  BY <4>2, <4>3 DEF AgreeAt, MadeOf
      <4>5. QED  BY <2>6, <4>2, <4>3, <4>4
    <3>3. QED  BY <1>5, <3>1, <3>2
  <2>8. \A m \in Addresses(adding.call) : m \in DueOrLost'
    <3>1. CASE adding' = Failed /\ unheard' = unheard \cup Addresses(adding.call)
      BY <3>1 DEF DueOrLost
    <3>2. CASE adding' = [adding EXCEPT !.at = "done"]
      <4>1. adding'.at = "done" /\ adding'.call = adding.call  BY <1>2, <3>2, ServedCall
      <4>2. QED  BY <4>1 DEF DueOrLost, Addresses
    <3>3. QED  BY <1>5, <3>1, <3>2
  <2>9. \A m : m \in DueOrLost => m \in DueOrLost'
    BY <1>5, DueMembers DEF DueOrLost, Addresses
  <2>10. \A m : m \notin Addresses(adding.call) => HasAt(m)' = HasAt(m)  BY <1>3, <2>6
  <2>11. DevicesListed'  BY <1>1, <2>8, <2>9, <2>10, ServedElsewhere
  <2>12. QED  BY <2>2, <2>3, <2>4, <2>5, <2>7, <2>11 DEF DevServerInv
<1>6. \/ o.repository = repository /\ o.call = Failed /\ o.unheard = unheard
      \/ /\ Kept(d.mac) = {}
         /\ o.repository = repository \cup {Keeps(d)}
         /\ \/ o.call = [adding EXCEPT !.at = "done"] /\ o.unheard = unheard
            \/ o.call = Failed /\ o.unheard = unheard \cup Addresses(adding.call)
  <2> DEFINE ok == Kept(d.mac) = {}
             then == repository \cup {Keeps(d)}
  <2>1. ok \in BOOLEAN /\ o \in Outcomes(adding, ok, then)
    OBVIOUS
  <2> HIDE DEF ok, then
  <2>2. \/ o.repository = repository /\ o.call = Failed /\ o.unheard = unheard
        \/ /\ ok /\ o.repository = then
           /\ \/ o.call = [adding EXCEPT !.at = "done"] /\ o.unheard = unheard
              \/ o.call = Failed /\ o.unheard = unheard \cup Addresses(adding.call)
    BY <2>1, OutcomeKinds
  <2>3. QED  BY <2>2 DEF ok, then
<1>7. QED  BY <1>4, <1>5, <1>6 DEF Comes

\* An edit served: what the device was goes, what it is comes.
LEMMA EditServed ==
  ASSUME DevServerInv, editing.at = "asked", UNCHANGED <<devices, adding, deletingDevice>>,
         NEW old, old = Kept(editing.call.was.mac),
         NEW o \in Outcomes(editing, old /= {} /\ Kept(editing.call.device.mac) \subseteq old,
                            (repository \ old) \cup {Keeps(editing.call.device)}),
         Comes(o), editing' = o.call
  PROVE  DevServerInv'
<1> DEFINE d == editing.call.device
           w == editing.call.was
<1>1. /\ DevicesOK /\ DevCallsOK /\ CrossedKnown /\ AddDue /\ EditDue /\ DeletionDue
      /\ DevicesListed
  BY DEF DevServerInv
<1>2. editing \in EditCall /\ UnderWay(editing)  BY <1>1, CallKinds
<1>3. Addresses(editing.call) = {Lower[d.mac], Lower[w.mac]} /\ d \in Device
      /\ w \in Device /\ Addresses(editing.call) \subseteq Macs
  BY <1>2, CallAddresses
<1>4. CASE UNCHANGED <<repository, unheard>> /\ editing' = Failed
  <2>1. DevCallsOK'  BY <1>1, <1>4 DEF DevCallsOK
  <2>2. CrossedKnown'  BY <1>1, <1>4, ServedCall, CrossedFrame DEF UnderWay
  <2>3. unheard' \subseteq Macs  BY <1>1, <1>4 DEF DevicesOK
  <2>4. editing.at # "done" /\ editing'.at # "done"  BY <1>4, ServedCall
  <2>5. QED  BY <1>4, <2>1, <2>2, <2>3, <2>4, NothingDone
<1>5. ASSUME old # {}, Kept(d.mac) \subseteq old,
             repository' = (repository \ old) \cup {Keeps(d)},
             \/ editing' = [editing EXCEPT !.at = "done"] /\ unheard' = unheard
             \/ editing' = Failed /\ unheard' = unheard \cup Addresses(editing.call)
      PROVE  DevServerInv'
  <2>1. editing' \in EditCall \cup {Failed}
        /\ (editing' # Failed => editing'.call = editing.call)
    BY <1>2, <1>5, ServedCall
  <2>2. DevCallsOK'  BY <1>1, <2>1 DEF DevCallsOK
  <2>3. DevicesOK'  BY <1>1, <1>3, <1>5, LowerFacts DEF DevicesOK
  <2>4. CrossedKnown'
    BY <1>1, <1>2, <1>5, <2>1, ServedCall, CrossedFrame DEF UnderWay
  <2>5. AddDue' /\ DeletionDue'  BY <1>1, <1>2, <1>5, DueCrossed
  <2>6. old = HasAt(Lower[w.mac]) /\ HasAt(Lower[d.mac]) \subseteq HasAt(Lower[w.mac])
    BY <1>5, KeptIsHad
  <2>7. Keeps(d).mac = Lower[d.mac]  BY <1>3, LowerFacts
  <2>8. \A m : HasAt(m)' = IF m = Lower[d.mac] THEN {Keeps(d)}
                           ELSE IF m = Lower[w.mac] THEN {} ELSE HasAt(m)
    <3> SUFFICES ASSUME NEW m
                 PROVE  HasAt(m)' = IF m = Lower[d.mac] THEN {Keeps(d)}
                                    ELSE IF m = Lower[w.mac] THEN {} ELSE HasAt(m)
      OBVIOUS
    <3>1. HasAt(m)' = {e \in (repository \ HasAt(Lower[w.mac])) \cup {Keeps(d)} : e.mac = m}
      BY <1>5, <2>6 DEF HasAt
    <3>2. CASE m = Lower[d.mac]
      <4>1. \A e \in repository : e.mac = m => e \in HasAt(Lower[w.mac])
        BY <2>6, <3>2 DEF HasAt
      <4>2. QED  BY <2>7, <3>1, <3>2, <4>1
    <3>3. CASE m # Lower[d.mac] /\ m = Lower[w.mac]
      <4>1. \A e \in repository : e.mac = m => e \in HasAt(Lower[w.mac])
        BY <3>3 DEF HasAt
      <4>2. QED  BY <2>7, <3>1, <3>3, <4>1
    <3>4. CASE m # Lower[d.mac] /\ m # Lower[w.mac]
      <4>1. \A e \in HasAt(Lower[w.mac]) : e.mac # m  BY <3>4 DEF HasAt
      <4>2. QED  BY <2>7, <3>1, <3>4, <4>1 DEF HasAt
    <3>5. QED  BY <3>2, <3>3, <3>4
  <2>9. EditDue'
    <3>1. CASE editing' = Failed  BY <3>1, ServedCall DEF EditDue
    <3>2. CASE editing' = [editing EXCEPT !.at = "done"] /\ unheard' = unheard
      <4>1. editing'.call = editing.call  BY <1>2, <3>2, ServedCall
      <4> SUFFICES ASSUME NEW m \in Addresses(editing.call) \ unheard
                   PROVE  /\ OnceIn(devices, m)
                          /\ m # Lower[w.mac] => RowsOf(devices, m) = {}
                          /\ HasAt(m)' = IF m = Lower[d.mac] THEN {Keeps(d)} ELSE {}
        BY <3>2, <4>1 DEF EditDue, RowsOf, OnceIn, Addresses, Keeps
      <4>2. AgreeAt(m) /\ m \in {Lower[d.mac], Lower[w.mac]}  BY <1>3, AgreedBefore
      <4>3. ASSUME m # Lower[w.mac] PROVE RowsOf(devices, m) = {}
        <5>1. HasAt(m) = {}  BY <2>6, <4>2, <4>3 DEF HasAt
        <5>2. QED  BY <4>2, <5>1 DEF AgreeAt, MadeOf
      <4>4. QED  BY <2>8, <4>2, <4>3 DEF AgreeAt
    <3>3. QED  BY <1>5, <3>1, <3>2
  <2>10. \A m \in Addresses(editing.call) : m \in DueOrLost'
    <3>1. CASE editing' = Failed /\ unheard' = unheard \cup Addresses(editing.call)
      BY <3>1 DEF DueOrLost
    <3>2. CASE editing' = [editing EXCEPT !.at = "done"]
      <4>1. editing'.at = "done" /\ editing'.call = editing.call
        BY <1>2, <3>2, ServedCall
      <4>2. QED  BY <4>1 DEF DueOrLost, Addresses
    <3>3. QED  BY <1>5, <3>1, <3>2
  <2>11. \A m : m \in DueOrLost => m \in DueOrLost'
    BY <1>5, DueMembers DEF DueOrLost, Addresses
  <2>12. \A m : m \notin Addresses(editing.call) => HasAt(m)' = HasAt(m)  BY <1>3, <2>8
  <2>13. DevicesListed'  BY <1>1, <2>10, <2>11, <2>12, ServedElsewhere
  <2>14. QED  BY <2>2, <2>3, <2>4, <2>5, <2>9, <2>13 DEF DevServerInv
<1>6. \/ o.repository = repository /\ o.call = Failed /\ o.unheard = unheard
      \/ /\ old /= {} /\ Kept(d.mac) \subseteq old
         /\ o.repository = (repository \ old) \cup {Keeps(d)}
         /\ \/ o.call = [editing EXCEPT !.at = "done"] /\ o.unheard = unheard
            \/ o.call = Failed /\ o.unheard = unheard \cup Addresses(editing.call)
  <2> DEFINE ok == old /= {} /\ Kept(d.mac) \subseteq old
             then == (repository \ old) \cup {Keeps(d)}
  <2>1. ok \in BOOLEAN /\ o \in Outcomes(editing, ok, then)
    OBVIOUS
  <2> HIDE DEF ok, then
  <2>2. \/ o.repository = repository /\ o.call = Failed /\ o.unheard = unheard
        \/ /\ ok /\ o.repository = then
           /\ \/ o.call = [editing EXCEPT !.at = "done"] /\ o.unheard = unheard
              \/ o.call = Failed /\ o.unheard = unheard \cup Addresses(editing.call)
    BY <2>1, OutcomeKinds
  <2>3. QED  BY <2>2 DEF ok, then
<1>7. QED  BY <1>4, <1>5, <1>6 DEF Comes

\* A deletion served.
LEMMA DeletionServed ==
  ASSUME DevServerInv, deletingDevice.at = "asked", UNCHANGED <<devices, adding, editing>>,
         NEW old, old = Kept(deletingDevice.call.device.mac),
         NEW o \in Outcomes(deletingDevice, old /= {}, repository \ old),
         Comes(o), deletingDevice' = o.call
  PROVE  DevServerInv'
<1> DEFINE d == deletingDevice.call.device
<1>1. /\ DevicesOK /\ DevCallsOK /\ CrossedKnown /\ AddDue /\ EditDue /\ DeletionDue
      /\ DevicesListed
  BY DEF DevServerInv
<1>2. deletingDevice \in NewCall /\ UnderWay(deletingDevice)  BY <1>1, CallKinds
<1>3. Addresses(deletingDevice.call) = {Lower[d.mac]} /\ d \in Device
      /\ Addresses(deletingDevice.call) \subseteq Macs
  BY <1>2, CallAddresses
<1>4. CASE UNCHANGED <<repository, unheard>> /\ deletingDevice' = Failed
  <2>1. DevCallsOK'  BY <1>1, <1>4 DEF DevCallsOK
  <2>2. CrossedKnown'  BY <1>1, <1>4, ServedCall, CrossedFrame DEF UnderWay
  <2>3. unheard' \subseteq Macs  BY <1>1, <1>4 DEF DevicesOK
  <2>4. deletingDevice.at # "done" /\ deletingDevice'.at # "done"  BY <1>4, ServedCall
  <2>5. QED  BY <1>4, <2>1, <2>2, <2>3, <2>4, NothingDone
<1>5. ASSUME repository' = repository \ old,
             \/ deletingDevice' = [deletingDevice EXCEPT !.at = "done"]
                /\ unheard' = unheard
             \/ deletingDevice' = Failed
                /\ unheard' = unheard \cup Addresses(deletingDevice.call)
      PROVE  DevServerInv'
  <2>1. deletingDevice' \in NewCall \cup {Failed}
        /\ (deletingDevice' # Failed => deletingDevice'.call = deletingDevice.call)
    BY <1>2, <1>5, ServedCall
  <2>2. DevCallsOK'  BY <1>1, <2>1 DEF DevCallsOK
  <2>3. DevicesOK'  BY <1>1, <1>3, <1>5 DEF DevicesOK
  <2>4. CrossedKnown'
    BY <1>1, <1>2, <1>5, <2>1, ServedCall, CrossedFrame DEF UnderWay
  <2>5. AddDue' /\ EditDue'  BY <1>1, <1>2, <1>5, DueCrossed
  <2>6. \A m : HasAt(m)' = IF m = Lower[d.mac] THEN {} ELSE HasAt(m)
    BY <1>5, KeptIsHad DEF HasAt
  <2>7. DeletionDue'
    <3>1. CASE deletingDevice' = Failed  BY <3>1, ServedCall DEF DeletionDue
    <3>2. CASE deletingDevice' = [deletingDevice EXCEPT !.at = "done"] /\ unheard' = unheard
      <4>1. deletingDevice'.call = deletingDevice.call  BY <1>2, <3>2, ServedCall
      <4> SUFFICES ASSUME NEW m \in Addresses(deletingDevice.call) \ unheard
                   PROVE  OnceIn(devices, m) /\ HasAt(m)' = {}
        BY <3>2, <4>1 DEF DeletionDue, RowsOf, OnceIn, Addresses
      <4>2. AgreeAt(m) /\ m = Lower[d.mac]  BY <1>3, AgreedBefore
      <4>3. QED  BY <2>6, <4>2 DEF AgreeAt
    <3>3. QED  BY <1>5, <3>1, <3>2
  <2>8. \A m \in Addresses(deletingDevice.call) : m \in DueOrLost'
    <3>1. CASE deletingDevice' = Failed
               /\ unheard' = unheard \cup Addresses(deletingDevice.call)
      BY <3>1 DEF DueOrLost
    <3>2. CASE deletingDevice' = [deletingDevice EXCEPT !.at = "done"]
      <4>1. deletingDevice'.at = "done" /\ deletingDevice'.call = deletingDevice.call
        BY <1>2, <3>2, ServedCall
      <4>2. QED  BY <4>1 DEF DueOrLost, Addresses
    <3>3. QED  BY <1>5, <3>1, <3>2
  <2>9. \A m : m \in DueOrLost => m \in DueOrLost'
    BY <1>5, DueMembers DEF DueOrLost, Addresses
  <2>10. \A m : m \notin Addresses(deletingDevice.call) => HasAt(m)' = HasAt(m)
    BY <1>3, <2>6
  <2>11. DevicesListed'  BY <1>1, <2>8, <2>9, <2>10, ServedElsewhere
  <2>12. QED  BY <2>2, <2>3, <2>4, <2>5, <2>7, <2>11 DEF DevServerInv
<1>6. \/ o.repository = repository /\ o.call = Failed /\ o.unheard = unheard
      \/ /\ old /= {}
         /\ o.repository = repository \ old
         /\ \/ o.call = [deletingDevice EXCEPT !.at = "done"] /\ o.unheard = unheard
            \/ o.call = Failed /\ o.unheard = unheard \cup Addresses(deletingDevice.call)
  <2> DEFINE ok == old /= {}
             then == repository \ old
  <2>1. ok \in BOOLEAN /\ o \in Outcomes(deletingDevice, ok, then)
    OBVIOUS
  <2> HIDE DEF ok, then
  <2>2. \/ o.repository = repository /\ o.call = Failed /\ o.unheard = unheard
        \/ /\ ok /\ o.repository = then
           /\ \/ o.call = [deletingDevice EXCEPT !.at = "done"] /\ o.unheard = unheard
              \/ o.call = Failed /\ o.unheard = unheard \cup Addresses(deletingDevice.call)
    BY <2>1, OutcomeKinds
  <2>3. QED  BY <2>2 DEF ok, then
<1>7. QED  BY <1>4, <1>5, <1>6 DEF Comes


\* The list takes an answer: what was due agrees, what agreed does.
LEMMA AdditionAnswered ==
  ASSUME DevServerInv, adding.at = "done", adding' = Idle,
         UNCHANGED <<repository, editing, deletingDevice, unheard>>,
         devices' = addDevice(adding.call.device, devices)
  PROVE  DevServerInv'
<1> DEFINE d == adding.call.device
<1>1. /\ DevicesOK /\ DevCallsOK /\ CrossedKnown /\ AddDue /\ EditDue /\ DeletionDue
      /\ DevicesListed
  BY DEF DevServerInv
<1>2. adding \in NewCall /\ UnderWay(adding)  BY <1>1, CallKinds
<1>3. Addresses(adding.call) = {Lower[d.mac]} /\ d \in Device
  BY <1>2, CallAddresses
<1>4. DevCallsOK' /\ CrossedKnown' /\ AddDue'
  <2>1. DevCallsOK'  BY <1>1 DEF DevCallsOK
  <2>2. CrossedKnown'  BY <1>1, ServedCall, CrossedFrame DEF UnderWay
  <2>3. AddDue'  BY ServedCall DEF AddDue
  <2>4. QED  BY <2>1, <2>2, <2>3
<1>5. EditDue' /\ DeletionDue'  BY <1>1, <1>2, DueCrossed
<1>6. devices \in Seq(Device)  BY <1>1 DEF DevicesOK
<1>7. devices' \in Seq(Device)  BY <1>3, <1>6, RowAdded
<1>8. DevicesOK'  BY <1>1, <1>7 DEF DevicesOK
<1>11. ASSUME NEW m
       PROVE  /\ m # Lower[d.mac] /\ OnceIn(devices, m) => OnceIn(devices', m)
              /\ m # Lower[d.mac] => MadeOf(devices', m) = MadeOf(devices, m)
              /\ m = Lower[d.mac] /\ RowsOf(devices, m) = {}
                   => OnceIn(devices', m) /\ MadeOf(devices', m) = AsKept(d)
  <2> HIDE DEF d
  <2>1. devices' = addDevice(d, devices)  BY DEF d
  <2>2. QED  BY ONLY <1>3, <1>6, <2>1, RowAdded
<1>9. DevicesListed'
  <2> SUFFICES ASSUME NEW m \in LowerMacs, m \notin DueOrLost' PROVE AgreeAt(m)'
    BY DEF DevicesListed, LowerMacs
  <2>0. m \notin unheard
        /\ (m \in DueOrLost => m \in Addresses(adding.call))
    BY DueMembers DEF DueOrLost, Addresses
  <2>1. AgreeAt(m)' <=> OnceIn(devices', m) /\ MadeOf(devices', m) = HasAt(m)
    BY DEF AgreeAt, OnceIn, MadeOf, RowsOf, HasAt, Keeps
  <2>2. CASE m \in Addresses(adding.call)
    <3>1. m = Lower[d.mac] /\ RowsOf(devices, m) = {} /\ HasAt(m) = {Keeps(d)}
      BY <1>1, <1>3, <2>0, <2>2 DEF AddDue
    <3>2. OnceIn(devices', m) /\ MadeOf(devices', m) = {Keeps(d)}
      BY <1>11, <3>1 DEF AsKept
    <3>3. QED  BY <2>1, <3>1, <3>2
  <2>3. CASE m \notin Addresses(adding.call)
    <3>1. m # Lower[d.mac] /\ OnceIn(devices, m) /\ MadeOf(devices, m) = HasAt(m)
      BY <1>1, <1>3, <2>0, <2>3 DEF DevicesListed, AgreeAt
    <3>2. OnceIn(devices', m) /\ MadeOf(devices', m) = MadeOf(devices, m)
      BY <1>11, <3>1
    <3>3. QED  BY <2>1, <3>1, <3>2
  <2>4. QED  BY <2>2, <2>3
<1>10. QED  BY <1>4, <1>5, <1>8, <1>9 DEF DevServerInv

LEMMA EditAnswered ==
  ASSUME DevServerInv, editing.at = "done", editing' = Idle,
         UNCHANGED <<repository, adding, deletingDevice>>,
         devices' = updateDevice(editing.call.device, editing.call.was.mac, devices),
         unheard' = unheard \cup (IF findIndex(devices, editing.call.was.mac) /= 0 THEN {}
                                  ELSE Addresses(editing.call))
  PROVE  DevServerInv'
<1> DEFINE d == editing.call.device
           w == editing.call.was
           i == findIndex(devices, w.mac)
<1>1. /\ DevicesOK /\ DevCallsOK /\ CrossedKnown /\ AddDue /\ EditDue /\ DeletionDue
      /\ DevicesListed
  BY DEF DevServerInv
<1>2. editing \in EditCall /\ UnderWay(editing)  BY <1>1, CallKinds
<1>3. Addresses(editing.call) = {Lower[d.mac], Lower[w.mac]} /\ d \in Device
      /\ w \in Device /\ Addresses(editing.call) \subseteq Macs
  BY <1>2, CallAddresses
<1>4. DevCallsOK' /\ EditDue' /\ CrossedKnown'
  <2>1. DevCallsOK'  BY <1>1 DEF DevCallsOK
  <2>2. CrossedKnown'  BY <1>1, ServedCall, CrossedFrame DEF UnderWay
  <2>3. EditDue'  BY ServedCall DEF EditDue
  <2>4. QED  BY <2>1, <2>2, <2>3
<1>5. devices \in Seq(Device)  BY <1>1 DEF DevicesOK
<1>6. CASE i = 0
  <2>1. devices' = devices /\ unheard' = unheard \cup Addresses(editing.call)
    BY <1>6 DEF updateDevice
  <2>2. unheard' \subseteq Macs  BY <1>1, <1>3, <2>1 DEF DevicesOK
  <2>3. editing'.at # "done"  BY ServedCall
  <2>4. QED  BY <1>4, <2>1, <2>2, <2>3, NothingDone
<1>7. CASE i # 0
  <2>1. i \in DOMAIN devices /\ devices[i].mac = w.mac  BY <1>5, <1>7, FoundAt
  <2>2. devices' = [devices EXCEPT ![i] = d] /\ unheard' = unheard
    BY <1>7 DEF updateDevice
  <2> HIDE DEF i
  <2>3. devices' \in Seq(Device)  BY <1>3, <1>5, <2>1, <2>2, RowReplaced DEF Replaced
  <2>4. DevicesOK'  BY <1>1, <2>2, <2>3 DEF DevicesOK
  <2>8. ASSUME NEW m
        PROVE  /\ m \notin {Lower[d.mac], Lower[devices[i].mac]}
                    => /\ OnceIn(devices, m) => OnceIn(devices', m)
                       /\ MadeOf(devices', m) = MadeOf(devices, m)
               /\ m = Lower[d.mac] /\ RowsOf(devices, m) \subseteq {i}
                    => OnceIn(devices', m) /\ MadeOf(devices', m) = AsKept(d)
               /\ m # Lower[d.mac] /\ RowsOf(devices, m) \subseteq {i}
                    => RowsOf(devices', m) = {}
    <3> HIDE DEF d
    <3>1. d \in Device /\ devices' = Replaced(devices, i, d)
      BY <1>3, <2>2 DEF Replaced
    <3>2. QED  BY ONLY <1>5, <2>1, <3>1, RowReplaced
  <2>5. AddDue' /\ DeletionDue'  BY <1>1, <1>2, <2>2, DueCrossed
  <2>6. DevicesListed'
    <3> SUFFICES ASSUME NEW m \in LowerMacs, m \notin DueOrLost' PROVE AgreeAt(m)'
      BY DEF DevicesListed, LowerMacs
    <3>0. m \notin unheard /\ (m \in DueOrLost => m \in Addresses(editing.call))
      BY <2>2, DueMembers DEF DueOrLost, Addresses
    <3>1. AgreeAt(m)' <=> OnceIn(devices', m) /\ MadeOf(devices', m) = HasAt(m)
      BY DEF AgreeAt, OnceIn, MadeOf, RowsOf, HasAt, Keeps
    <3>2. CASE m \in Addresses(editing.call)
      <4>1. /\ OnceIn(devices, m)
            /\ m # Lower[w.mac] => RowsOf(devices, m) = {}
            /\ HasAt(m) = IF m = Lower[d.mac] THEN {Keeps(d)} ELSE {}
        BY <1>1, <3>0, <3>2 DEF EditDue
      <4>2. RowsOf(devices, m) \subseteq {i}
        <5>1. CASE m # Lower[w.mac]  BY <4>1, <5>1
        <5>2. CASE m = Lower[w.mac]
          <6>1. i \in RowsOf(devices, m)  BY <2>1, <5>2 DEF RowsOf
          <6>2. QED  BY <4>1, <6>1 DEF OnceIn
        <5>3. QED  BY <5>1, <5>2
      <4>3. CASE m = Lower[d.mac]
        <5>1. OnceIn(devices', m) /\ MadeOf(devices', m) = {Keeps(d)}
          BY <2>8, <4>2, <4>3 DEF AsKept
        <5>2. QED  BY <3>1, <4>1, <4>3, <5>1
      <4>4. CASE m # Lower[d.mac]
        <5>1. RowsOf(devices', m) = {}
          BY <2>8, <4>2, <4>4
        <5>2. OnceIn(devices', m) /\ MadeOf(devices', m) = {}
          BY <5>1 DEF OnceIn, MadeOf
        <5>3. QED  BY <3>1, <4>1, <4>4, <5>2
      <4>5. QED  BY <4>3, <4>4
    <3>3. CASE m \notin Addresses(editing.call)
      <4>1. m \notin {Lower[d.mac], Lower[devices[i].mac]}  BY <1>3, <2>1, <3>3
      <4>2. OnceIn(devices, m) /\ MadeOf(devices, m) = HasAt(m)
        BY <1>1, <3>0, <3>3 DEF DevicesListed, AgreeAt
      <4>3. OnceIn(devices', m) /\ MadeOf(devices', m) = MadeOf(devices, m)
        BY <2>8, <4>1, <4>2
      <4>4. QED  BY <3>1, <4>2, <4>3
    <3>4. QED  BY <3>2, <3>3
  <2>7. QED  BY <1>4, <2>4, <2>5, <2>6 DEF DevServerInv
<1>8. QED  BY <1>6, <1>7

\* With no row of that address the last one goes: what it was is unheard.
LEMMA DeletionAnswered ==
  ASSUME DevServerInv, deletingDevice.at = "done", deletingDevice' = Idle,
         UNCHANGED <<repository, adding, editing>>,
         NEW d, d = deletingDevice.call.device, devices' = removeDevice(d, devices),
         unheard' = unheard \cup
           (IF findIndex(devices, d.mac) /= 0 THEN {}
            ELSE {Lower[e.mac] : e \in {d} \cup (ToSet(devices) \ ToSet(devices'))})
  PROVE  DevServerInv'
<1> DEFINE i == findIndex(devices, d.mac)
           k == IF i = 0 THEN Len(devices) ELSE i
<1>1. /\ DevicesOK /\ DevCallsOK /\ CrossedKnown /\ AddDue /\ EditDue /\ DeletionDue
      /\ DevicesListed
  BY DEF DevServerInv
<1>2. deletingDevice \in NewCall /\ UnderWay(deletingDevice)  BY <1>1, CallKinds
<1>3. Addresses(deletingDevice.call) = {Lower[d.mac]} /\ d \in Device
      /\ Addresses(deletingDevice.call) \subseteq Macs
  BY <1>2, CallAddresses
<1>4. devices \in Seq(Device) /\ unheard \subseteq Macs  BY <1>1 DEF DevicesOK
<1>5. unheard \subseteq unheard' /\ unheard' \subseteq Macs
  <2>1. \A e \in {d} \cup ToSet(devices) : e \in Device  BY <1>3, <1>4 DEF ToSet
  <2>2. \A e \in {d} \cup ToSet(devices) : Lower[e.mac] \in Macs  BY <2>1, LowerFacts
  <2>3. QED  BY <1>4, <2>2
<1>6. DevCallsOK' /\ CrossedKnown' /\ DeletionDue'
  <2>1. DevCallsOK'  BY <1>1 DEF DevCallsOK
  <2>2. CrossedKnown'  BY <1>1, <1>5, ServedCall, CrossedFrame DEF UnderWay
  <2>3. DeletionDue'  BY ServedCall DEF DeletionDue
  <2>4. QED  BY <2>1, <2>2, <2>3
<1>7. AddDue' /\ EditDue'  BY <1>1, <1>2, <1>5, DueCrossed
<1>8. i = 0 => Addresses(deletingDevice.call) \subseteq unheard'
  BY <1>3
<1>9. CASE devices = <<>>
  <2>0. DOMAIN devices = {}  BY <1>9
  <2>1. i = 0 /\ devices' = devices
    <3>1. i # 0 => i \in DOMAIN devices  BY <1>4, FoundAt
    <3>2. removeDevice(d, devices) = devices  BY <1>9 DEF removeDevice
    <3>3. QED  BY <2>0, <3>1, <3>2
  <2>2. deletingDevice'.at # "done"  BY ServedCall
  <2>3. QED  BY <1>5, <1>6, <1>8, <2>1, <2>2, NothingDone
<1>10. CASE devices # <<>>
  <2>1. k \in DOMAIN devices /\ (i # 0 => devices[k].mac = d.mac)
    <3>1. Len(devices) \in DOMAIN devices  BY <1>4, <1>10
    <3>2. QED  BY <1>4, <3>1, FoundAt
  <2>2. devices' = RemoveAt(devices, k)  BY <1>10 DEF removeDevice
  <2>3. i = 0 => \A e \in ToSet(devices) \ ToSet(devices') : Lower[e.mac] \in unheard'
    OBVIOUS
  <2>4. i # 0 => unheard' = unheard
    OBVIOUS
  <2> HIDE DEF i, k
  <2>5. devices' \in Seq(Device)  BY <1>4, <2>1, <2>2, RowRemoved
  <2>6. DevicesOK'  BY <1>1, <1>5, <2>5 DEF DevicesOK
  <2>7. DevicesListed'
    <3> SUFFICES ASSUME NEW m \in LowerMacs, m \notin DueOrLost' PROVE AgreeAt(m)'
      BY DEF DevicesListed, LowerMacs
    <3>0. m \notin unheard' /\ m \notin unheard
          /\ (m \in DueOrLost => m \in Addresses(deletingDevice.call))
      BY <1>5, DueMembers DEF DueOrLost, Addresses
    <3>1. AgreeAt(m)' <=> OnceIn(devices', m) /\ MadeOf(devices', m) = HasAt(m)
      BY DEF AgreeAt, OnceIn, MadeOf, RowsOf, HasAt, Keeps
    <3>2. CASE m \in Addresses(deletingDevice.call)
      <4>1. i # 0 /\ m = Lower[d.mac]  BY <1>3, <1>8, <3>0, <3>2
      <4>2. OnceIn(devices, m) /\ HasAt(m) = {}
        BY <1>1, <3>0, <3>2 DEF DeletionDue
      <4>3. k \in RowsOf(devices, m)  BY <2>1, <4>1 DEF RowsOf
      <4>4. RowsOf(devices, m) \subseteq {k}  BY <4>2, <4>3 DEF OnceIn
      <4>5. RowsOf(devices', m) = {}  BY <1>4, <2>1, <2>2, <4>4, RowRemoved
      <4>6. OnceIn(devices', m) /\ MadeOf(devices', m) = {}  BY <4>5 DEF OnceIn, MadeOf
      <4>7. QED  BY <3>1, <4>2, <4>6
    <3>3. CASE m \notin Addresses(deletingDevice.call)
      <4>1. m # Lower[d.mac] /\ OnceIn(devices, m) /\ MadeOf(devices, m) = HasAt(m)
        BY <1>1, <1>3, <3>0, <3>3 DEF DevicesListed, AgreeAt
      <4>2. m # Lower[devices[k].mac]
        <5>1. CASE i # 0  BY <2>1, <4>1, <5>1
        <5>2. CASE i = 0
          <6> SUFFICES ASSUME m = Lower[devices[k].mac] PROVE FALSE
            OBVIOUS
          <6>1. k \in RowsOf(devices, m)  BY <2>1 DEF RowsOf
          <6>2. RowsOf(devices, m) \subseteq {k}  BY <4>1, <6>1 DEF OnceIn
          <6>3. RowsOf(devices', m) = {}  BY <1>4, <2>1, <2>2, <6>2, RowRemoved
          <6>4. devices[k] \in ToSet(devices)  BY <2>1 DEF ToSet
          <6>5. devices[k] \notin ToSet(devices')  BY <6>3 DEF ToSet, RowsOf
          <6>6. QED  BY <2>3, <3>0, <5>2, <6>4, <6>5
        <5>3. QED  BY <5>1, <5>2
      <4>3. OnceIn(devices', m) /\ MadeOf(devices', m) = MadeOf(devices, m)
        BY <1>4, <2>1, <2>2, <4>1, <4>2, RowRemoved
      <4>4. QED  BY <3>1, <4>1, <4>3
    <3>4. QED  BY <3>2, <3>3
  <2>8. QED  BY <1>6, <1>7, <2>6, <2>7 DEF DevServerInv
<1>11. QED  BY <1>9, <1>10


\* A call is asked for, of one kind or another.
LEMMA DeviceSaveAsked ==
  ASSUME DevServerInv, DevFormOK, onSaveClicked
  PROVE  DevServerInv'
<1> DEFINE call == [device |-> createDeviceFromForm, was |-> selectedDevice]
           asked == [at |-> "asked", call |-> call]
<1>1. /\ DevicesOK /\ DevCallsOK /\ CrossedKnown
  BY DEF DevServerInv
<1>2. call \in DeviceCall /\ createDeviceFromForm \in Device
      /\ selectedDevice \in Device \cup {NoDevice}
  BY DeviceOfForm DEF DevFormOK, DeviceCall
<1>3. UNCHANGED <<repository, devices, deletingDevice>>
  BY DEF onSaveClicked
<1>4. asked.at = "asked" /\ asked.call = call
  OBVIOUS
<1>5. CASE /\ selectedDevice = NoDevice /\ adding = Idle /\ adding' = asked
           /\ unheard' = unheard \cup Crossed(call, {editing, deletingDevice})
           /\ UNCHANGED editing
  <2>1. asked \in NewCall  BY <1>2, <1>5 DEF NewCall
  <2>2. DevCallsOK'  BY <1>1, <1>3, <1>5, <2>1 DEF DevCallsOK
  <2>3. unheard' \subseteq Macs
    <3>1. Crossed(call, {editing, deletingDevice}) \subseteq Macs
      BY <1>1, <1>2, CrossedTyped DEF DevCallsOK
    <3>2. QED  BY <1>1, <1>5, <3>1 DEF DevicesOK
  <2> HIDE DEF call, asked
  <2>4. CrossedKnown'
    <3>1. ~UnderWay(adding)  BY <1>5, ServedCall
    <3>2. /\ UnderWay(editing) => Addresses(call) \cup Addresses(editing.call) \subseteq unheard'
          /\ UnderWay(deletingDevice)
               => Addresses(call) \cup Addresses(deletingDevice.call) \subseteq unheard'
      BY <1>5, NewCrossed
    <3>3. adding'.call = call /\ UNCHANGED <<editing, deletingDevice>> /\ unheard \subseteq unheard'
      BY <1>3, <1>4, <1>5
    <3>4. QED  BY <1>1, <3>2, <3>3 DEF CrossedKnown, UnderWay, Addresses
  <2>5. adding'.at # "done" /\ adding.at # "done"  BY <1>4, <1>5, ServedCall
  <2>6. QED  BY <1>3, <1>5, <2>2, <2>3, <2>4, <2>5, NothingDone
<1>6. CASE /\ selectedDevice # NoDevice /\ editing = Idle /\ editing' = asked
           /\ unheard' = unheard \cup Crossed(call, {adding, deletingDevice})
           /\ UNCHANGED adding
  <2>1. asked \in EditCall  BY <1>2, <1>6 DEF EditCall
  <2>2. DevCallsOK'  BY <1>1, <1>3, <1>6, <2>1 DEF DevCallsOK
  <2>3. unheard' \subseteq Macs
    <3>1. Crossed(call, {adding, deletingDevice}) \subseteq Macs
      BY <1>1, <1>2, CrossedTyped DEF DevCallsOK
    <3>2. QED  BY <1>1, <1>6, <3>1 DEF DevicesOK
  <2> HIDE DEF call, asked
  <2>4. CrossedKnown'
    <3>2. /\ UnderWay(adding) => Addresses(call) \cup Addresses(adding.call) \subseteq unheard'
          /\ UnderWay(deletingDevice)
               => Addresses(call) \cup Addresses(deletingDevice.call) \subseteq unheard'
      BY <1>6, NewCrossed
    <3>3. editing'.call = call /\ UNCHANGED <<adding, deletingDevice>> /\ unheard \subseteq unheard'
      BY <1>3, <1>4, <1>6
    <3>4. QED  BY <1>1, <3>2, <3>3 DEF CrossedKnown, UnderWay, Addresses
  <2>5. editing'.at # "done" /\ editing.at # "done"  BY <1>4, <1>6, ServedCall
  <2>6. QED  BY <1>3, <1>6, <2>2, <2>3, <2>4, <2>5, NothingDone
<1>7. CASE UNCHANGED <<adding, editing, unheard>>
  BY <1>3, <1>7, ServerFrame
<1>8. QED  BY <1>5, <1>6, <1>7 DEF onSaveClicked

LEMMA DeviceDeletionAsked ==
  ASSUME DevServerInv, DevDialogsOK, deviceDialogs # <<>>, deleteDevice
  PROVE  DevServerInv'
<1> DEFINE call == [device |-> Head(deviceDialogs).device, was |-> NoDevice]
           asked == [at |-> "asked", call |-> call]
<1>1. /\ DevicesOK /\ DevCallsOK /\ CrossedKnown
  BY DEF DevServerInv
<1>2. Head(deviceDialogs).device \in Device
  <2>1. Head(deviceDialogs) \in DevDialog  BY DialogAnswered
  <2>2. Head(deviceDialogs).of = "delete"  BY DEF deleteDevice
  <2>3. QED  BY <2>1, <2>2 DEF DevDialog
<1>3. call \in DeviceCall /\ asked \in NewCall /\ asked.at = "asked" /\ asked.call = call
  BY <1>2 DEF DeviceCall, NewCall
<1>4. UNCHANGED <<repository, devices, adding, editing>>
  BY DEF deleteDevice
<1>5. CASE /\ deletingDevice = Idle /\ deletingDevice' = asked
           /\ unheard' = unheard \cup Crossed(call, {adding, editing})
  <2>2. DevCallsOK'  BY <1>1, <1>3, <1>4, <1>5 DEF DevCallsOK
  <2>3. unheard' \subseteq Macs
    <3>1. Crossed(call, {adding, editing}) \subseteq Macs
      BY <1>1, <1>3, CrossedTyped DEF DevCallsOK
    <3>2. QED  BY <1>1, <1>5, <3>1 DEF DevicesOK
  <2> HIDE DEF call, asked
  <2>4. CrossedKnown'
    <3>2. /\ UnderWay(adding) => Addresses(call) \cup Addresses(adding.call) \subseteq unheard'
          /\ UnderWay(editing) => Addresses(call) \cup Addresses(editing.call) \subseteq unheard'
      BY <1>5, NewCrossed
    <3>3. deletingDevice'.call = call /\ UNCHANGED <<adding, editing>> /\ unheard \subseteq unheard'
      BY <1>3, <1>4, <1>5
    <3>4. QED  BY <1>1, <3>2, <3>3 DEF CrossedKnown, UnderWay, Addresses
  <2>5. deletingDevice'.at # "done" /\ deletingDevice.at # "done"  BY <1>3, <1>5, ServedCall
  <2>6. QED  BY <1>4, <1>5, <2>2, <2>3, <2>4, <2>5, NothingDone
<1>6. CASE UNCHANGED <<deletingDevice, unheard>>
  BY <1>4, <1>6, ServerFrame
<1>7. QED  BY <1>5, <1>6 DEF deleteDevice

\* What comes of calls that are given up as the page is left.
LEMMA DeviceCallsGivenUp ==
  ASSUME DevServerInv, leaveDevices
  PROVE  DevServerInv'
<1>1. /\ DevicesOK /\ DevCallsOK /\ CrossedKnown
  BY DEF DevServerInv
<1>2. /\ UNCHANGED <<repository, devices>>
      /\ adding' = Idle /\ editing' = Idle /\ deletingDevice' = Idle
  BY DEF leaveDevices
<1>3. unheard' = unheard \cup UNION
        {Addresses(c.call) : c \in {c \in {adding, editing, deletingDevice} : c.at = "done"}}
  BY DEF leaveDevices
<1>4. /\ adding.at = "done" => Addresses(adding.call) \subseteq unheard'
      /\ editing.at = "done" => Addresses(editing.call) \subseteq unheard'
      /\ deletingDevice.at = "done" => Addresses(deletingDevice.call) \subseteq unheard'
  BY <1>3
<1>5. unheard' \subseteq Macs
  <2>1. /\ adding.at = "done" => Addresses(adding.call) \subseteq Macs
        /\ editing.at = "done" => Addresses(editing.call) \subseteq Macs
        /\ deletingDevice.at = "done" => Addresses(deletingDevice.call) \subseteq Macs
    BY <1>1, CallKinds, CallAddresses
  <2>2. QED  BY <1>1, <1>3, <2>1 DEF DevicesOK
<1>6. DevCallsOK' /\ CrossedKnown'
  BY <1>2, ServedCall DEF DevCallsOK, CrossedKnown
<1>7. unheard \subseteq unheard'  BY <1>3
<1>8. Idle.at # "done"  BY ServedCall
<1>9. QED  BY <1>2, <1>4, <1>5, <1>6, <1>7, <1>8, NothingDone

LEMMA DeviceServed ==
  ASSUME DevServerInv, serveDevices
  PROVE  DevServerInv'
<1>1. UNCHANGED devices  BY DEF serveDevices
<1>2. CASE /\ adding.at = "asked"
           /\ \E o \in Outcomes(adding, Kept(adding.call.device.mac) = {},
                                repository \cup {Keeps(adding.call.device)}) :
                Comes(o) /\ adding' = o.call
           /\ UNCHANGED <<editing, deletingDevice>>
  BY <1>1, <1>2, AdditionServed
<1>3. CASE /\ editing.at = "asked"
           /\ \E o \in Outcomes(editing,
                         Kept(editing.call.was.mac) /= {}
                           /\ Kept(editing.call.device.mac) \subseteq Kept(editing.call.was.mac),
                         (repository \ Kept(editing.call.was.mac))
                           \cup {Keeps(editing.call.device)}) :
                Comes(o) /\ editing' = o.call
           /\ UNCHANGED <<adding, deletingDevice>>
  BY <1>1, <1>3, EditServed
<1>4. CASE /\ deletingDevice.at = "asked"
           /\ \E o \in Outcomes(deletingDevice, Kept(deletingDevice.call.device.mac) /= {},
                                repository \ Kept(deletingDevice.call.device.mac)) :
                Comes(o) /\ deletingDevice' = o.call
           /\ UNCHANGED <<adding, editing>>
  BY <1>1, <1>4, DeletionServed
<1>5. QED  BY <1>2, <1>3, <1>4 DEF serveDevices

LEMMA DeviceAnswers ==
  ASSUME DevServerInv, deviceAnswered
  PROVE  DevServerInv'
<1>1. UNCHANGED repository  BY DEF deviceAnswered
<1>2. CASE /\ adding.at = "done" /\ adding' = Idle /\ UNCHANGED editing
           /\ saved(adding.call.device, addDevice(adding.call.device, devices))
           /\ UNCHANGED unheard
  BY <1>1, <1>2, AdditionAnswered DEF saved
<1>3. CASE /\ editing.at = "done" /\ editing' = Idle /\ UNCHANGED adding
           /\ saved(editing.call.device,
                    updateDevice(editing.call.device, editing.call.was.mac, devices))
           /\ unheard' = unheard \cup
                (IF findIndex(devices, editing.call.was.mac) /= 0 THEN {}
                 ELSE Addresses(editing.call))
  BY <1>1, <1>3, EditAnswered DEF saved
<1>4. CASE /\ deletingDevice.at = "done" /\ deletingDevice' = Idle
           /\ devices' = removeDevice(deletingDevice.call.device, devices)
           /\ unheard' = unheard \cup
                (IF findIndex(devices, deletingDevice.call.device.mac) /= 0 THEN {}
                 ELSE {Lower[e.mac] : e \in {deletingDevice.call.device}
                                            \cup (ToSet(devices) \ ToSet(devices'))})
           /\ UNCHANGED <<adding, editing>>
  BY <1>1, <1>4, DeletionAnswered
<1>5. QED  BY <1>2, <1>3, <1>4 DEF deviceAnswered

LEMMA DeviceServerSteps ==
  ASSUME DevServerInv, DevPageInv, deviceNext
  PROVE  DevServerInv'
<1>0. DevFormOK /\ DevDialogsOK /\ DevCallsOK /\ CrossedKnown /\ DevicesOK
  BY DEF DevPageInv, DevServerInv
<1>1. ASSUME NEW d, openForm(d) PROVE DevServerInv'
  BY <1>1, ServerFrame DEF openForm
<1>2. CASE getQuestionnaireFormat \/ typeDevice \/ openDeviceDialog \/ cancelDialog
  BY <1>2, ServerFrame
  DEF getQuestionnaireFormat, typeDevice, openDeviceDialog, cancelDialog
<1>3. CASE deviceCallFailed
  <2>1. UNCHANGED <<repository, devices, unheard>>  BY <1>3 DEF deviceCallFailed
  <2>2. /\ adding' = adding \/ (adding = Failed /\ adding' = Idle)
        /\ editing' = editing \/ (editing = Failed /\ editing' = Idle)
        /\ deletingDevice' = deletingDevice
             \/ (deletingDevice = Failed /\ deletingDevice' = Idle)
    BY <1>3 DEF deviceCallFailed
  <2>3. DevCallsOK' /\ CrossedKnown'
    BY <1>0, <2>1, <2>2, ServedCall, CrossedFrame DEF DevCallsOK, UnderWay
  <2>4. unheard' \subseteq Macs  BY <1>0, <2>1 DEF DevicesOK
  <2>5. QED  BY <2>1, <2>2, <2>3, <2>4, ServedCall, NothingDone
<1>4. CASE navigateToAddDevice
  <2>1. CASE UNCHANGED pageOfDevices  BY <2>1, ServerFrame DEF pageOfDevices
  <2>2. QED  BY <1>1, <1>4, <2>1 DEF navigateToAddDevice
<1>5. CASE confirmDialog
  <2>1. deviceDialogs # <<>>  BY <1>5 DEF confirmDialog
  <2>2. CASE discard \/ openCloseDialogToChangeDevice
    BY <2>2, ServerFrame DEF discard, openCloseDialogToChangeDevice
  <2>3. QED
    BY <1>0, <1>5, <2>1, <2>2, DeviceDeletionAsked, DeviceCallsGivenUp DEF confirmDialog
<1>6. QED
  BY <1>0, <1>1, <1>2, <1>3, <1>4, <1>5, DeviceSaveAsked, DeviceServed, DeviceAnswers,
     DeviceCallsGivenUp
  DEF deviceNext, canDeactivate

\* The list as it is loaded has each device of the server once.
LEMMA FetchedDevices ==
  ASSUME NEW S, IsFiniteSet(S)
  PROVE  /\ SetToSeq(S) \in Seq(S)
         /\ \A i, j \in DOMAIN SetToSeq(S) : SetToSeq(S)[i] = SetToSeq(S)[j] => i = j
         /\ \A d \in S : \E i \in DOMAIN SetToSeq(S) : SetToSeq(S)[i] = d
<1> DEFINE n == Cardinality(S)
           f == SetToSeq(S)
<1>1. n \in Nat /\ ExistsBijection(1 .. n, S)  BY FS_CardinalityType
<1>2. \E g \in [1 .. n -> S] : IsInjective(g)
  BY <1>1 DEF ExistsBijection, Bijection, Injection
<1>3. f \in [1 .. n -> S] /\ IsInjective(f)  BY <1>2 DEF SetToSeq
<1> HIDE DEF f
<1>4. f \in Injection(1 .. n, S)  BY <1>3 DEF Injection
<1>5. IsFiniteSet(1 .. n) /\ Cardinality(1 .. n) = n
  BY <1>1, FS_Interval
<1>6. f \in Surjection(1 .. n, S)  BY <1>4, <1>5, FS_Injection
<1>7. \A d \in S : \E i \in 1 .. n : f[i] = d  BY <1>6 DEF Surjection
<1>8. f \in Seq(S) /\ DOMAIN f = 1 .. n  BY <1>1, <1>3
<1>9. QED  BY <1>3, <1>7, <1>8 DEF IsInjective, f

LEMMA DevicesFetched ==
  ASSUME deviceInit
  PROVE  DevServerInv /\ DevPageInv
<1>1. /\ IsFiniteSet(repository) /\ repository \subseteq Device
      /\ \A d, e \in repository : Lower[d.mac] = d.mac /\ (d.mac = e.mac => d = e)
  BY UiDevicesAssumption DEF deviceInit
<1>2. /\ devices \in Seq(repository)
      /\ \A i, j \in DOMAIN devices : devices[i] = devices[j] => i = j
      /\ \A d \in repository : \E i \in DOMAIN devices : devices[i] = d
  BY <1>1, FetchedDevices DEF deviceInit, fetchDevices
<1>3. \A i \in DOMAIN devices : devices[i] \in repository  BY <1>2
<1>4. devices \in Seq(Device)  BY <1>1, <1>2
<1>5. DevicesOK /\ DevCallsOK /\ CrossedKnown
  BY <1>1, <1>4, ServedCall DEF deviceInit, DevicesOK, DevCallsOK, CrossedKnown
<1>6. AddDue /\ EditDue /\ DeletionDue
  BY ServedCall DEF deviceInit, AddDue, EditDue, DeletionDue
<1>7. DevicesListed
  <2> SUFFICES ASSUME NEW m \in LowerMacs PROVE AgreeAt(m)
    BY DEF DevicesListed
  <2>1. \A i \in RowsOf(devices, m) : devices[i] \in HasAt(m)
    BY <1>1, <1>3 DEF RowsOf, HasAt
  <2>2. OnceIn(devices, m)
    <3> SUFFICES ASSUME NEW i \in RowsOf(devices, m), NEW j \in RowsOf(devices, m)
                 PROVE  i = j
      BY DEF OnceIn
    <3>1. devices[i] = devices[j]  BY <1>1, <2>1 DEF HasAt
    <3>2. QED  BY <1>2, <3>1 DEF RowsOf
  <2>3. \A d \in HasAt(m) : Keeps(d) = d
    <3> SUFFICES ASSUME NEW d \in HasAt(m) PROVE Keeps(d) = d
      OBVIOUS
    <3>1. d \in Device /\ Lower[d.mac] = d.mac  BY <1>1 DEF HasAt
    <3>2. QED  BY <3>1 DEF Keeps, Device
  <2>4. \A d \in HasAt(m) : \E i \in RowsOf(devices, m) : devices[i] = d
    BY <1>1, <1>2 DEF RowsOf, HasAt
  <2>5. MadeOf(devices, m) = HasAt(m)  BY <2>1, <2>3, <2>4 DEF MadeOf
  <2>6. QED  BY <2>2, <2>5 DEF AgreeAt
<1>8. DevFormOK
  <2>1. NewForm \in DevForm /\ NewForm.device = NoDevice
    BY NewDevForm, UiDevicesAssumption
  <2>2. QED  BY <2>1 DEF deviceInit, DevFormOK
<1>9. DevDialogsOK /\ DevSwitchesOK /\ DevBoundOK
  <2>0. <<>> \in Seq(DevDialog)
    OBVIOUS
  <2>1. DevDialogsOK /\ DevSwitchesOK
    BY <2>0 DEF deviceInit, DevDialogsOK, DevSwitchesOK
  <2>2. DevBoundOK  BY UiDevicesAssumption DEF deviceInit, DevBoundOK
  <2>3. QED  BY <2>1, <2>2
<1>10. QED  BY <1>5, <1>6, <1>7, <1>8, <1>9 DEF DevServerInv, DevPageInv

\* Nothing of the page changes.
LEMMA DevicesStay ==
  ASSUME DevServerInv, DevPageInv, UNCHANGED deviceVars
  PROVE  DevServerInv' /\ DevPageInv'
<1>1. /\ UNCHANGED <<repository, devices, unheard, adding, editing, deletingDevice>>
      /\ UNCHANGED <<selectedDevice, isOpenDeviceForm, isOpenAddDevice, deviceForm>>
      /\ UNCHANGED <<questionnaire, deviceDialogs, calls>>
  BY DEF deviceVars, pageOfDevices
<1>2. DevServerInv'  BY <1>1, ServerFrame
<1>3. DevPageInv'  BY <1>1, DevPageFrames DEF DevPageInv
<1>4. QED  BY <1>2, <1>3

LEMMA DevicesInvariant == deviceSpec => [](DevServerInv /\ DevPageInv)
<1>1. deviceInit => DevServerInv /\ DevPageInv  BY DevicesFetched
<1>2. DevServerInv /\ DevPageInv /\ [deviceNext]_deviceVars => (DevServerInv /\ DevPageInv)'
  <2> SUFFICES ASSUME DevServerInv, DevPageInv, [deviceNext]_deviceVars
               PROVE  DevServerInv' /\ DevPageInv'
    OBVIOUS
  <2>1. CASE deviceNext
    <3>1. DevicesOK /\ DevCallsOK  BY DEF DevServerInv
    <3>2. QED  BY <2>1, <3>1, DeviceServerSteps, DevicePageSteps
  <2>2. CASE UNCHANGED deviceVars  BY <2>2, DevicesStay
  <2>3. QED  BY <2>1, <2>2
<1>3. QED  BY <1>1, <1>2, PTL DEF deviceSpec

\* In every state of the page, an address that no answer is due for, none was
\* lost for, and that no calls crossed for, is in the list at most once, as
\* the server keeps it: what is added, edited and deleted on the page is what
\* was, also when the user types the address in capitals.
THEOREM DevicesAreListed == deviceSpec => []DevicesAgree
<1>1. DevServerInv => DevicesAgree  BY ListedAgree DEF DevServerInv
<1>2. QED  BY <1>1, DevicesInvariant, PTL


\* When there are changes the form is not given another device.
LEMMA ChangesHold ==
  ASSUME DevFormOK, DeviceChanges
  PROVE  ~deviceHasNoChanges(deviceForm.device, createDeviceFromForm)
<1> DEFINE d == deviceForm.device
<1>1. \/ deviceForm.mac \notin {d.mac, Blank}
      \/ deviceForm.formIsLoaded /\ deviceForm.answer \notin {d.answer, Blank}
  BY DEF DeviceChanges
<1>2. /\ createDeviceFromForm.mac = deviceForm.mac
      /\ deviceForm.formIsLoaded => createDeviceFromForm.answer = deviceForm.answer
  BY DEF createDeviceFromForm
<1>3. QED
  BY <1>1, <1>2 DEF deviceHasNoChanges, deviceIsEmpty, compareDevices

\* What may come of what is typed in the form of a device.
DeviceEditFate ==
  \/ SameDeviceForm \/ typeDevice
  \/ Len(deviceDialogs') < Len(deviceDialogs)
  \/ deletingDevice.at = "done" /\ deletingDevice' = Idle
  \/ FilledLate
  \/ deviceForm.changeDevice /\ ~deviceForm'.changeDevice

LEMMA DeviceEditStep ==
  ASSUME DevServerInv, DevPageInv, deviceNext, DeviceChanges
  PROVE  DeviceEditFate
<1> DEFINE Taken == deviceForm.changeDevice /\ ~deviceForm'.changeDevice
<1>0. DevFormOK /\ DevDialogsOK /\ isOpenDeviceForm
  BY DEF DevPageInv, DeviceChanges
<1>1. deviceForm \in DevForm /\ selectedDevice \in Device \cup {NoDevice}
      /\ selectedDevice = deviceForm.device
  BY <1>0 DEF DevFormOK
<1>2. ~deviceHasNoChanges(deviceForm.device, createDeviceFromForm)
  BY <1>0, ChangesHold
<1>s. ASSUME UNCHANGED <<deviceForm, isOpenDeviceForm>> PROVE SameDeviceForm
  BY <1>0, <1>s DEF SameDeviceForm
<1>3. ASSUME NEW d \in Device \cup {NoDevice}, NEW list, initialDeviceEffect(d, list),
             UNCHANGED isOpenDeviceForm
      PROVE  SameDeviceForm \/ Taken
  <2>1. CASE deviceForm.changeDevice
    <3>1. filled(deviceForm, d) \in DevForm
      BY <1>1, FilledForm
    <3>2. ~taken(deviceForm, d, list).changeDevice
      BY <3>1 DEF taken, DevForm
    <3>3. QED  BY <1>2, <1>3, <2>1, <3>2 DEF initialDeviceEffect
  <2>2. CASE ~deviceForm.changeDevice
    BY <1>2, <1>3, <1>s, <2>2 DEF initialDeviceEffect
  <2>3. QED  BY <2>1, <2>2
<1>4. ASSUME NEW d \in Device \cup {NoDevice}, openForm(d) PROVE SameDeviceForm \/ Taken
  BY <1>0, <1>3, <1>4 DEF openForm
<1>5. CASE getQuestionnaireFormat
  <2> DEFINE loaded == [deviceForm EXCEPT !.formIsLoaded = TRUE]
  <2>1. CASE deviceForm.device /= NoDevice
    BY <1>5, <2>1 DEF getQuestionnaireFormat, FilledLate, DeviceEditFate
  <2>2. CASE deviceForm.device = NoDevice
    <3>1. deviceForm' = loaded /\ UNCHANGED isOpenDeviceForm
      BY <1>0, <1>1, <1>5, <2>2 DEF getQuestionnaireFormat, questionnaireFormat
    <3>2. loaded.device = deviceForm.device /\ loaded.mac = deviceForm.mac
          /\ loaded.answer = deviceForm.answer
      BY <1>1 DEF DevForm
    <3>3. QED  BY <1>0, <3>1, <3>2 DEF SameDeviceForm, DeviceEditFate
  <2>3. QED  BY <2>1, <2>2
<1>6. CASE onSaveClicked
  <2>1. deviceForm' = [deviceForm EXCEPT !.changeDevice = TRUE] /\ UNCHANGED isOpenDeviceForm
    BY <1>6 DEF onSaveClicked
  <2>2. QED  BY <1>0, <1>1, <2>1 DEF DevForm, SameDeviceForm, DeviceEditFate
<1>7. CASE openDeviceDialog \/ cancelDialog \/ serveDevices \/ deviceCallFailed
  BY <1>s, <1>7
  DEF openDeviceDialog, cancelDialog, serveDevices, deviceCallFailed, DeviceEditFate
<1>8. CASE deviceAnswered
  <2>0. DevCallsOK  BY DEF DevServerInv
  <2>1. ASSUME NEW d \in Device \cup {NoDevice}, NEW list, saved(d, list)
        PROVE  SameDeviceForm \/ Taken
    BY <1>0, <1>3, <2>1 DEF saved
  <2>2. adding.at = "done" => adding.call.device \in Device
    BY <2>0 DEF DevCallsOK, Idle, Failed, NewCall
  <2>3. editing.at = "done" => editing.call.device \in Device
    BY <2>0 DEF DevCallsOK, Idle, Failed, EditCall
  <2>4. QED  BY <1>8, <2>1, <2>2, <2>3 DEF deviceAnswered, DeviceEditFate
<1>9. CASE navigateToAddDevice
  <2>1. UNCHANGED pageOfDevices => SameDeviceForm  BY <1>s DEF pageOfDevices
  <2>2. QED  BY <1>4, <1>9, <2>1 DEF navigateToAddDevice, DeviceEditFate
<1>10. ~canDeactivate
  BY <1>0, <1>1, <1>2 DEF canDeactivate
<1>11. CASE confirmDialog
  <2>1. deviceDialogs # <<>> /\ deviceDialogs' \in {Tail(deviceDialogs), <<>>}
    BY <1>11 DEF confirmDialog, discard, deleteDevice, openCloseDialogToChangeDevice,
                 leaveDevices
  <2>2. Len(Tail(deviceDialogs)) < Len(deviceDialogs) /\ Len(<<>>) < Len(deviceDialogs)
    BY <1>0, <2>1, DialogAnswered DEF DevDialogsOK
  <2>3. QED  BY <2>1, <2>2 DEF DeviceEditFate
<1>12. ASSUME NEW d \in ToSet(devices) \cup {NoDevice}, openForm(d) PROVE DeviceEditFate
  <2>1. d \in Device \cup {NoDevice}
    BY <1>12 DEF DevServerInv, DevicesOK, ToSet
  <2>2. QED  BY <1>4, <1>12, <2>1 DEF DeviceEditFate
<1>13. CASE typeDevice  BY <1>13 DEF DeviceEditFate
<1>14. QED
  BY <1>5, <1>6, <1>7, <1>8, <1>9, <1>10, <1>11, <1>12, <1>13 DEF deviceNext

\* Of the form of a device: what was typed, and is not what the device has,
\* stays as typed until the user types or answers a dialog, or a deletion is
\* answered; the two ways that it may go unasked are those of the property, a
\* late questionnaire, and the next selection after Save was clicked.
THEOREM DeviceFormKept == deviceSpec => DeviceEditsKept
<1>1. DevServerInv /\ DevPageInv /\ [deviceNext]_deviceVars =>
        [DeviceChanges => DeviceEditFate]_deviceVars
  BY DeviceEditStep
<1>2. QED
  BY <1>1, DevicesInvariant, PTL DEF deviceSpec, DeviceEditsKept, DeviceEditFate

-----------------------------------------------------------------------------
(***************************************************************************)
(* The risk assessment page.  The list takes what the server keeps with    *)
(* each answer to a save; the answer to a deletion takes a row from it,    *)
(* which the server no longer has (GoneDue) unless a save was under way    *)
(* as well, and then the names of both are unlisted (NamesCrossed).        *)
(***************************************************************************)
profileSpec == profileInit /\ [][profileNext]_profileVars

\* profileTypeOK in parts, with the dialogs.
ProfShown == RiskProfile \cup {NoProfile}
ProfForm == [profile : ProfShown, name : ProfileNames \cup {Blank},
             answer : RiskAnswers \cup {Blank}, changeProfile : BOOLEAN,
             refused : SUBSET ProfileNames]
ProfDialog == [of : {"discard"}, profile : ProfShown, list : SUBSET RiskProfile]
                \cup [of : {"leave"}] \cup [of : {"change"}, profile : ProfShown]
                \cup [of : {"save"}, call : Response] \cup [of : {"delete"}, call : Deletion]

ProfListsOK ==
  storedProfiles \subseteq {p \in RiskProfile : created(p)} /\ riskProfiles \subseteq RiskProfile
ProfCallsOK ==
  /\ savingProfile \in {Idle, Failed} \cup [at : {"asked", "posted"}, call : Response]
  /\ deletingProfile \in {Idle, Failed} \cup [at : {"asked", "done"}, call : Deletion]
ProfFormOK ==
  profileForm \in ProfForm /\ selectedProfile \in ProfShown /\ isOpenProfileForm \in BOOLEAN
ProfDialogsOK == profileDialogs \in Seq(ProfDialog)

ProfPageInv == ProfListsOK /\ ProfCallsOK /\ ProfFormOK /\ ProfDialogsOK

\* Blank is none of the names, answers and statuses.
LEMMA BlankProfile ==
  /\ NoProfile \notin RiskProfile /\ NoProfile.name = Blank /\ NoProfile.answer = Blank
  /\ NoProfile.status = Blank
  /\ Blank \notin ProfileNames /\ Blank \notin RiskAnswers
<1>1. Blank \notin ProfileNames /\ Blank \notin RiskAnswers  BY UiProfilesAssumption
<1>2. QED  BY <1>1 DEF NoProfile, RiskProfile

LEMMA BlankStatus == Blank # "Valid" /\ Blank # "Draft" /\ Blank # "Copy"
BY Zenon DEF Blank

LEMMA NoneCreated == ~created(NoProfile)
BY BlankStatus, BlankProfile DEF created

LEMMA ShownTyped ==
  ASSUME NEW p \in ProfShown
  PROVE  /\ p.name \in ProfileNames \cup {Blank} /\ p.answer \in RiskAnswers \cup {Blank}
         /\ created(p) => p \in RiskProfile /\ p.name \in ProfileNames
<1>1. CASE p = NoProfile  BY <1>1, BlankProfile, NoneCreated
<1>2. CASE p \in RiskProfile  BY <1>2 DEF RiskProfile
<1>3. QED  BY <1>1, <1>2 DEF ProfShown

\* What the form refuses are names.
LEMMA RefusedNames ==
  ASSUME NEW list \in SUBSET RiskProfile, NEW p
  PROVE  differentProfileName(list, p) \subseteq ProfileNames
<1>1. \A q \in list : q.name \in ProfileNames  BY DEF RiskProfile
<1>2. QED  BY <1>1 DEF differentProfileName

LEMMA FormTakes ==
  ASSUME NEW f \in ProfForm, NEW p \in ProfShown, NEW list \in SUBSET RiskProfile
  PROVE  /\ adopted(f, p, list) \in ProfForm /\ adopted(f, p, list).profile = p
         /\ updateNameValidator(f, f.profile, list) \in ProfForm
         /\ updateNameValidator(f, f.profile, list).profile = f.profile
         /\ seenBy(f, list) \in ProfForm /\ seenBy(f, list).profile = f.profile
<1>2. adopted(f, p, list) \in ProfForm /\ adopted(f, p, list).profile = p
  <2> DEFINE s == IF p = NoProfile THEN f.refused ELSE differentProfileName(list, p)
  <2>1. s \subseteq ProfileNames  BY RefusedNames DEF ProfForm
  <2>2. adopted(f, p, list) = [profile |-> p, name |-> p.name, answer |-> p.answer,
                               changeProfile |-> FALSE, refused |-> s]
    BY DEF adopted
  <2> HIDE DEF s
  <2>3. QED  BY <2>1, <2>2, ShownTyped DEF ProfForm
<1>3. ASSUME NEW s \in SUBSET ProfileNames
      PROVE  [f EXCEPT !.refused = s] \in ProfForm
             /\ [f EXCEPT !.refused = s].profile = f.profile
  BY DEF ProfForm
<1>4. updateNameValidator(f, f.profile, list) \in ProfForm
      /\ updateNameValidator(f, f.profile, list).profile = f.profile
  BY <1>3, RefusedNames DEF updateNameValidator
<1>5. seenBy(f, list) \in ProfForm /\ seenBy(f, list).profile = f.profile
  BY <1>4 DEF seenBy
<1>6. QED  BY <1>2, <1>4, <1>5

\* Lists, but for the copies in them, are as they were.
LEMMA CopiesTyped ==
  ASSUME NEW given \in SUBSET ProfShown, NEW list \in SUBSET RiskProfile, NEW p
  PROVE  /\ setCopy(given, list) \subseteq RiskProfile
         /\ withoutCopy(p, list) \subseteq RiskProfile
         /\ \A c : removeProfile(p, c, list) \subseteq RiskProfile
<1>1. \A q \in given : q.status = "Copy" => q \in RiskProfile
  BY BlankStatus, BlankProfile DEF ProfShown
<1>2. QED  BY <1>1 DEF setCopy, withoutCopy, removeProfile

LEMMA CopiesOnly ==
  ASSUME NEW given, NEW list, NEW p, NEW q, created(q)
  PROVE  /\ q \in setCopy(given, list) <=> q \in list
         /\ q \in withoutCopy(p, list) <=> q \in list
BY DEF setCopy, withoutCopy, removeProfile, created

LEMMA ProfDialogAnswered ==
  ASSUME ProfDialogsOK, profileDialogs # <<>>
  PROVE  /\ Head(profileDialogs) \in ProfDialog
         /\ Tail(profileDialogs) \in Seq(ProfDialog)
         /\ Len(Tail(profileDialogs)) < Len(profileDialogs)
BY DEF ProfDialogsOK

LEMMA ProfDialogKinds ==
  ASSUME NEW d \in ProfDialog
  PROVE  /\ d.of = "discard" => d.profile \in ProfShown /\ d.list \subseteq RiskProfile
         /\ d.of = "change" => d.profile \in ProfShown
         /\ d.of = "save" => d.call \in Response
         /\ d.of = "delete" => d.call \in Deletion
BY DEF ProfDialog

LEMMA ProfDialogOnTop ==
  ASSUME NEW ds \in Seq(ProfDialog), NEW x \in ProfDialog
  PROVE  <<x>> \o ds \in Seq(ProfDialog) /\ <<x>> \in Seq(ProfDialog)
OBVIOUS

\* What is sent is a name of a profile.
LEMMA BuiltResponse ==
  ASSUME ProfFormOK, nameValid, NEW status \in {"Valid", "Draft"}
  PROVE  buildResponseFromForm(status) \in Response
<1> DEFINE p == profileForm.profile
           n == IF created(p) THEN p.name ELSE profileForm.name
           m == IF created(p) THEN profileForm.name ELSE Blank
<1>1. /\ p \in ProfShown /\ profileForm.name \in ProfileNames
      /\ profileForm.answer \in RiskAnswers \cup {Blank}
  BY DEF ProfFormOK, ProfForm, nameValid
<1>2. n \in ProfileNames /\ m \in ProfileNames \cup {Blank}
  BY <1>1, ShownTyped
<1>3. buildResponseFromForm(status)
        = [name |-> n, rename |-> m, status |-> status, answer |-> profileForm.answer]
  BY DEF buildResponseFromForm
<1> HIDE DEF n, m
<1>4. QED  BY <1>1, <1>2, <1>3 DEF Response


LEMMA ProfileSelected ==
  ASSUME ProfFormOK, ProfDialogsOK, NEW p \in ProfShown, NEW list \in SUBSET RiskProfile,
         setSelectedProfile(p, list), isOpenProfileForm' = isOpenProfileForm
  PROVE  ProfFormOK' /\ ProfDialogsOK' /\ riskProfiles' \subseteq RiskProfile
<1>1. /\ profileForm \in ProfForm /\ profileForm.profile \in ProfShown
      /\ isOpenProfileForm \in BOOLEAN
  BY DEF ProfFormOK, ProfForm
<1>2. CASE /\ selectedProfile' = p /\ riskProfiles' = setCopy({p}, list)
           /\ profileForm' = adopted(profileForm, p, riskProfiles')
           /\ UNCHANGED profileDialogs
  <2>1. riskProfiles' \subseteq RiskProfile  BY <1>2, CopiesTyped
  <2>2. profileForm' \in ProfForm  BY <1>1, <1>2, <2>1, FormTakes
  <2>3. QED  BY <1>1, <1>2, <2>1, <2>2 DEF ProfFormOK, ProfDialogsOK
<1>3. CASE /\ selectedProfile' = profileForm.profile
           /\ riskProfiles' = setCopy({p, profileForm.profile}, list)
           /\ profileForm' = IF profileForm.profile = NoProfile THEN profileForm
                             ELSE updateNameValidator(profileForm, profileForm.profile,
                                                      riskProfiles')
           /\ profileDialogs' = <<[of |-> "change", profile |-> p]>> \o profileDialogs
  <2>1. riskProfiles' \subseteq RiskProfile
    <3>1. {p, profileForm.profile} \subseteq ProfShown  BY <1>1
    <3>2. QED  BY <1>3, <3>1, CopiesTyped
  <2>2. profileForm' \in ProfForm  BY <1>1, <1>3, <2>1, FormTakes
  <2>3. [of |-> "change", profile |-> p] \in ProfDialog  BY DEF ProfDialog
  <2>4. profileDialogs' \in Seq(ProfDialog)
    BY <1>3, <2>3, ProfDialogOnTop DEF ProfDialogsOK
  <2>5. QED  BY <1>1, <1>3, <2>1, <2>2, <2>4 DEF ProfFormOK, ProfDialogsOK
<1>4. QED  BY <1>2, <1>3 DEF setSelectedProfile

LEMMA ProfPageFrames ==
  /\ ProfListsOK /\ UNCHANGED <<storedProfiles, riskProfiles>> => ProfListsOK'
  /\ ProfCallsOK /\ UNCHANGED <<savingProfile, deletingProfile>> => ProfCallsOK'
  /\ ProfFormOK /\ UNCHANGED <<profileForm, selectedProfile, isOpenProfileForm>>
       => ProfFormOK'
  /\ ProfDialogsOK /\ UNCHANGED profileDialogs => ProfDialogsOK'
BY DEF ProfListsOK, ProfCallsOK, ProfFormOK, ProfDialogsOK, created

LEMMA ProfileOpened ==
  ASSUME ProfPageInv, NEW p \in ProfShown, openProfile(p)
  PROVE  ProfPageInv'
<1>0. ProfListsOK /\ ProfCallsOK /\ ProfFormOK /\ ProfDialogsOK
      /\ riskProfiles \subseteq RiskProfile
  BY DEF ProfPageInv, ProfListsOK
<1>1. UNCHANGED <<storedProfiles, savingProfile, deletingProfile>>
  BY DEF openProfile
<1>2. CASE isOpenProfileForm
  <2>1. setSelectedProfile(p, riskProfiles) /\ UNCHANGED isOpenProfileForm
    BY <1>2 DEF openProfile
  <2>2. ProfFormOK' /\ ProfDialogsOK' /\ riskProfiles' \subseteq RiskProfile
    BY <1>0, <2>1, ProfileSelected
  <2>3. ProfListsOK'  BY <1>0, <1>1, <2>2 DEF ProfListsOK, created
  <2>4. QED  BY <1>0, <1>1, <2>2, <2>3, ProfPageFrames DEF ProfPageInv
<1>3. CASE ~isOpenProfileForm
  <2>1. /\ isOpenProfileForm' = TRUE /\ selectedProfile' = p
        /\ riskProfiles' = setCopy({p}, riskProfiles)
        /\ profileForm' = [adopted(NewProfileForm, p, riskProfiles') EXCEPT
                             !.refused = differentProfileName(riskProfiles', p)]
        /\ UNCHANGED profileDialogs
    BY <1>3 DEF openProfile
  <2>2. riskProfiles' \subseteq RiskProfile  BY <1>0, <2>1, CopiesTyped
  <2>3. NewProfileForm \in ProfForm
    BY DEF NewProfileForm, ProfForm, ProfShown
  <2>4. adopted(NewProfileForm, p, riskProfiles') \in ProfForm
    BY <2>2, <2>3, FormTakes
  <2>5. differentProfileName(riskProfiles', p) \subseteq ProfileNames
    BY <2>2, RefusedNames
  <2>6. profileForm' \in ProfForm  BY <2>1, <2>4, <2>5 DEF ProfForm
  <2>7. ProfFormOK'  BY <2>1, <2>6 DEF ProfFormOK
  <2>8. ProfListsOK'  BY <1>0, <1>1, <2>2 DEF ProfListsOK, created
  <2>9. QED  BY <1>0, <1>1, <2>1, <2>7, <2>8, ProfPageFrames DEF ProfPageInv
<1>4. QED  BY <1>2, <1>3

LEMMA ResponseSent ==
  ASSUME ProfCallsOK, NEW r \in Response, sendProfile(r), UNCHANGED deletingProfile
  PROVE  ProfCallsOK'
BY DEF sendProfile, ProfCallsOK

LEMMA ProfilesLeft ==
  ASSUME ProfPageInv, leaveProfiles
  PROVE  ProfPageInv'
<1>0. ProfListsOK /\ ProfCallsOK /\ ProfFormOK /\ ProfDialogsOK
      /\ riskProfiles \subseteq RiskProfile
  BY DEF ProfPageInv, ProfListsOK
<1>1. /\ selectedProfile' = NoProfile /\ isOpenProfileForm' \in BOOLEAN
      /\ profileForm' = IF isOpenProfileForm'
                        THEN [NewProfileForm EXCEPT
                                !.refused = differentProfileName(riskProfiles', NoProfile)]
                        ELSE NewProfileForm
      /\ savingProfile' = Idle /\ deletingProfile' = Idle /\ profileDialogs' = <<>>
      /\ UNCHANGED storedProfiles
  BY DEF leaveProfiles
<1>2. riskProfiles' \subseteq RiskProfile
  BY <1>0, CopiesTyped DEF leaveProfiles
<1>3. differentProfileName(riskProfiles', NoProfile) \subseteq ProfileNames
  BY <1>2, RefusedNames
<1>4. profileForm' \in ProfForm
  BY <1>1, <1>3 DEF NewProfileForm, ProfForm, ProfShown
<1>5. ProfFormOK'  BY <1>1, <1>4 DEF ProfFormOK, ProfShown
<1>6. ProfListsOK'  BY <1>0, <1>1, <1>2 DEF ProfListsOK, created
<1>7. <<>> \in Seq(ProfDialog)
  OBVIOUS
<1>8. ProfCallsOK' /\ ProfDialogsOK'  BY <1>1, <1>7 DEF ProfCallsOK, ProfDialogsOK
<1>9. QED  BY <1>5, <1>6, <1>8 DEF ProfPageInv

LEMMA UpdatedTyped ==
  ASSUME ProfListsOK, NEW r \in Response
  PROVE  updated(r) \subseteq {p \in RiskProfile : created(p)}
<1> DEFINE old == {p \in storedProfiles : p.name = r.name}
           n == IF old = {} \/ r.rename = Blank THEN r.name ELSE r.rename
           new == [name |-> n, status |-> r.status, answer |-> r.answer]
<1>1. n \in ProfileNames /\ r.status \in {"Valid", "Draft"}
      /\ r.answer \in RiskAnswers \cup {Blank}
  BY DEF Response
<1>2. updated(r) = (storedProfiles \ old) \cup {new}
  BY DEF updated
<1> HIDE DEF n, old
<1>3. new \in RiskProfile /\ created(new)  BY <1>1 DEF RiskProfile, created
<1>4. QED  BY <1>2, <1>3 DEF ProfListsOK

LEMMA ProfilePageSteps ==
  ASSUME ProfPageInv, profileNext
  PROVE  ProfPageInv'
<1>0. /\ ProfListsOK /\ ProfCallsOK /\ ProfFormOK /\ ProfDialogsOK
      /\ riskProfiles \subseteq RiskProfile
      /\ storedProfiles \subseteq {p \in RiskProfile : created(p)}
  BY DEF ProfPageInv, ProfListsOK
<1>1. CASE openProfileForm
  <2>1. \A p \in riskProfiles \cup {NoProfile} : p \in ProfShown  BY <1>0 DEF ProfShown
  <2>2. \A p \in riskProfiles : copyOf(p) \in ProfShown
    BY <1>0, UiProfilesAssumption DEF copyOf, RiskProfile, ProfShown
  <2>3. QED  BY <1>1, <2>1, <2>2, ProfileOpened DEF openProfileForm
<1>2. CASE typeProfile
  <2>1. profileForm' \in ProfForm
    BY <1>0, <1>2 DEF typeProfile, ProfFormOK, ProfForm
  <2>2. UNCHANGED <<storedProfiles, riskProfiles, selectedProfile, isOpenProfileForm,
                    savingProfile, deletingProfile, profileDialogs>>
    BY <1>2 DEF typeProfile
  <2>3. ProfFormOK'  BY <1>0, <2>1, <2>2 DEF ProfFormOK
  <2>4. QED  BY <1>0, <2>2, <2>3, ProfPageFrames DEF ProfPageInv
<1>3. CASE onSaveClick
  <2>1. UNCHANGED <<storedProfiles, riskProfiles, selectedProfile, isOpenProfileForm,
                    deletingProfile>>
        /\ profileForm' = [profileForm EXCEPT !.changeProfile = TRUE]
    BY <1>3 DEF onSaveClick
  <2>2. profileForm' \in ProfForm  BY <1>0, <2>1 DEF ProfFormOK, ProfForm
  <2>3. ProfFormOK'  BY <1>0, <2>1, <2>2 DEF ProfFormOK
  <2>4. PICK status \in (IF isSaveDisabled THEN {} ELSE {"Valid"})
                          \cup (IF isDraftDisabled THEN {} ELSE {"Draft"}) :
          LET r == buildResponseFromForm(status)
          IN \/ sendProfile(r) /\ UNCHANGED profileDialogs
             \/ /\ profileDialogs' = <<[of |-> "save", call |-> r]>>
                /\ UNCHANGED savingProfile
    BY <1>3 DEF onSaveClick
  <2>5. nameValid /\ status \in {"Valid", "Draft"}
    BY <2>4 DEF isSaveDisabled, isDraftDisabled
  <2> DEFINE r == buildResponseFromForm(status)
  <2>6. r \in Response  BY <1>0, <2>5, BuiltResponse
  <2>7. \/ sendProfile(r) /\ UNCHANGED profileDialogs
        \/ profileDialogs' = <<[of |-> "save", call |-> r]>> /\ UNCHANGED savingProfile
    BY <2>4
  <2> HIDE DEF r
  <2>8. CASE sendProfile(r) /\ UNCHANGED profileDialogs
    <3>1. ProfCallsOK'  BY <1>0, <2>1, <2>6, <2>8, ResponseSent
    <3>2. QED  BY <1>0, <2>1, <2>3, <2>8, <3>1, ProfPageFrames DEF ProfPageInv
  <2>9. CASE profileDialogs' = <<[of |-> "save", call |-> r]>> /\ UNCHANGED savingProfile
    <3>1. [of |-> "save", call |-> r] \in ProfDialog  BY <2>6 DEF ProfDialog
    <3>2. ProfDialogsOK'  BY <2>9, <3>1 DEF ProfDialogsOK
    <3>3. QED  BY <1>0, <2>1, <2>3, <2>9, <3>2, ProfPageFrames DEF ProfPageInv
  <2>10. QED  BY <2>7, <2>8, <2>9
<1>4. CASE openProfileDialog
  <2>1. UNCHANGED <<storedProfiles, riskProfiles, selectedProfile, isOpenProfileForm,
                    profileForm, savingProfile, deletingProfile>>
    BY <1>4 DEF openProfileDialog
  <2>2. \E x \in ProfDialog : profileDialogs' = <<x>>
    <3>1. [of |-> "discard", profile |-> profileForm.profile, list |-> CapturedList]
            \in ProfDialog
      <4>1. CapturedList \subseteq RiskProfile  BY <1>0 DEF CapturedList
      <4>2. profileForm.profile \in ProfShown  BY <1>0 DEF ProfFormOK, ProfForm
      <4>3. QED  BY <4>1, <4>2 DEF ProfDialog
    <3>2. [of |-> "leave"] \in ProfDialog  BY DEF ProfDialog
    <3>3. ASSUME NEW p \in riskProfiles
          PROVE  [of |-> "delete", call |-> [name |-> p.name,
                                             closes |-> selectedProfile.name = p.name]]
                   \in ProfDialog
      <4> DEFINE c == [name |-> p.name, closes |-> selectedProfile.name = p.name]
      <4>1. p.name \in ProfileNames /\ (selectedProfile.name = p.name) \in BOOLEAN
        BY <1>0 DEF RiskProfile
      <4>2. c \in Deletion  BY <4>1 DEF Deletion
      <4> HIDE DEF c
      <4>3. [of |-> "delete", call |-> c] \in ProfDialog  BY <4>2 DEF ProfDialog
      <4>4. QED  BY <4>3 DEF c
    <3>4. QED  BY <1>4, <3>1, <3>2, <3>3 DEF openProfileDialog
  <2>3. ProfDialogsOK'  BY <2>2 DEF ProfDialogsOK
  <2>4. QED  BY <1>0, <2>1, <2>3, ProfPageFrames DEF ProfPageInv
<1>5. CASE leaveUnchanged  BY <1>5, ProfilesLeft DEF leaveUnchanged
<1>6. CASE dismissProfileDialog
  <2>1. UNCHANGED <<storedProfiles, riskProfiles, selectedProfile, isOpenProfileForm,
                    profileForm, savingProfile, deletingProfile>>
        /\ profileDialogs # <<>> /\ profileDialogs' = Tail(profileDialogs)
    BY <1>6 DEF dismissProfileDialog
  <2>2. ProfDialogsOK'  BY <1>0, <2>1, ProfDialogAnswered DEF ProfDialogsOK
  <2>3. QED  BY <1>0, <2>1, <2>2, ProfPageFrames DEF ProfPageInv
<1>7. CASE confirmProfileDialog
  <2> DEFINE d == Head(profileDialogs)
  <2>1. profileDialogs # <<>>  BY <1>7 DEF confirmProfileDialog
  <2>2. d \in ProfDialog /\ Tail(profileDialogs) \in Seq(ProfDialog)
    BY <1>0, <2>1, ProfDialogAnswered
  <2>3. ASSUME profileDialogs' = Tail(profileDialogs) PROVE ProfDialogsOK'
    BY <2>2, <2>3 DEF ProfDialogsOK
  <2>4. CASE discardProfile
    <3>1. d.of = "discard" /\ profileDialogs' = Tail(profileDialogs)
          /\ UNCHANGED <<storedProfiles, savingProfile, deletingProfile>>
          /\ isOpenProfileForm' = FALSE /\ profileForm' = NewProfileForm
          /\ selectedProfile' = NoProfile
          /\ riskProfiles' \in {withoutCopy(d.profile, d.list), riskProfiles}
      BY <2>4 DEF discardProfile
    <3>2. d.list \subseteq RiskProfile  BY <2>2, <3>1, ProfDialogKinds
    <3>3. withoutCopy(d.profile, d.list) \subseteq RiskProfile  BY <3>2, CopiesTyped
    <3>4. ProfListsOK'  BY <1>0, <3>1, <3>3 DEF ProfListsOK, created
    <3>5. ProfFormOK'
      <4>1. NewProfileForm \in ProfForm  BY DEF NewProfileForm, ProfForm, ProfShown
      <4>2. QED  BY <3>1, <4>1 DEF ProfFormOK, ProfShown
    <3>6. QED  BY <1>0, <2>3, <3>1, <3>4, <3>5, ProfPageFrames DEF ProfPageInv
  <2>5. CASE openCloseDialogToChangeProfile
    <3> DEFINE p == d.profile
               list == withoutCopy(profileForm.profile, riskProfiles)
               form == [profileForm EXCEPT !.changeProfile = isOpenProfileForm]
    <3>1. d.of = "change" /\ profileDialogs' = Tail(profileDialogs)
          /\ UNCHANGED <<storedProfiles, isOpenProfileForm, savingProfile, deletingProfile>>
          /\ selectedProfile' = p
          /\ \/ riskProfiles' = setCopy({p}, list)
                /\ profileForm' = adopted(form, p, riskProfiles')
             \/ riskProfiles' = list /\ profileForm' = seenBy(form, list)
      BY <2>5 DEF openCloseDialogToChangeProfile
    <3>2. p \in ProfShown  BY <2>2, <3>1, ProfDialogKinds
    <3>3. list \subseteq RiskProfile  BY <1>0, CopiesTyped
    <3>4. form \in ProfForm  BY <1>0 DEF ProfFormOK, ProfForm
    <3> HIDE DEF p, list, form
    <3>5. riskProfiles' \subseteq RiskProfile  BY <3>1, <3>2, <3>3, CopiesTyped
    <3>6. profileForm' \in ProfForm
      <4>1. adopted(form, p, riskProfiles') \in ProfForm  BY <3>2, <3>4, <3>5, FormTakes
      <4>2. seenBy(form, list) \in ProfForm  BY <3>2, <3>3, <3>4, FormTakes
      <4>3. QED  BY <3>1, <4>1, <4>2
    <3>7. ProfFormOK'  BY <1>0, <3>1, <3>2, <3>6 DEF ProfFormOK
    <3>8. ProfListsOK'  BY <1>0, <3>1, <3>5 DEF ProfListsOK, created
    <3>9. QED  BY <1>0, <2>3, <3>1, <3>7, <3>8, ProfPageFrames DEF ProfPageInv
  <2>6. CASE saveConfirmed
    <3>1. d.of = "save" /\ profileDialogs' = Tail(profileDialogs) /\ sendProfile(d.call)
          /\ UNCHANGED <<storedProfiles, riskProfiles, selectedProfile, isOpenProfileForm,
                         profileForm, deletingProfile>>
      BY <2>6 DEF saveConfirmed
    <3>2. d.call \in Response  BY <2>2, <3>1, ProfDialogKinds
    <3>3. ProfCallsOK'  BY <1>0, <3>1, <3>2, ResponseSent
    <3>4. QED  BY <1>0, <2>3, <3>1, <3>3, ProfPageFrames DEF ProfPageInv
  <2>7. CASE deleteConfirmed
    <3>1. d.of = "delete" /\ profileDialogs' = Tail(profileDialogs)
          /\ UNCHANGED <<storedProfiles, riskProfiles, selectedProfile, isOpenProfileForm,
                         profileForm, savingProfile>>
          /\ deletingProfile' \in {deletingProfile, [at |-> "asked", call |-> d.call]}
      BY <2>7 DEF deleteConfirmed
    <3>2. d.call \in Deletion  BY <2>2, <3>1, ProfDialogKinds
    <3>3. [at |-> "asked", call |-> d.call] \in [at : {"asked", "done"}, call : Deletion]
      BY <3>2
    <3>4. ProfCallsOK'  BY <1>0, <3>1, <3>3 DEF ProfCallsOK
    <3>5. QED  BY <1>0, <2>3, <3>1, <3>4, ProfPageFrames DEF ProfPageInv
  <2>8. QED
    BY <1>7, <2>4, <2>5, <2>6, <2>7, ProfilesLeft DEF confirmProfileDialog
<1>8. CASE serveProfiles
  <2>1. UNCHANGED <<riskProfiles, selectedProfile, isOpenProfileForm, profileForm,
                    profileDialogs>>
    BY <1>8 DEF serveProfiles
  <2>2. CASE savingProfile.at = "asked" /\ UNCHANGED deletingProfile
             /\ storedProfiles' \in {storedProfiles, updated(savingProfile.call)}
             /\ savingProfile' \in {Failed, [savingProfile EXCEPT !.at = "posted"]}
    <3>1. savingProfile \in [at : {"asked", "posted"}, call : Response]
      BY <1>0, <2>2 DEF ProfCallsOK, Idle, Failed
    <3>2. [savingProfile EXCEPT !.at = "posted"] \in [at : {"asked", "posted"},
                                                      call : Response]
      BY <3>1
    <3>3. ProfCallsOK'  BY <1>0, <2>2, <3>2 DEF ProfCallsOK
    <3>4. updated(savingProfile.call) \subseteq {p \in RiskProfile : created(p)}
      BY <1>0, <3>1, UpdatedTyped
    <3>5. ProfListsOK'  BY <1>0, <2>1, <2>2, <3>4 DEF ProfListsOK, created
    <3>6. QED  BY <1>0, <2>1, <3>3, <3>5, ProfPageFrames DEF ProfPageInv
  <2>3. CASE deletingProfile.at = "asked" /\ UNCHANGED savingProfile
             /\ storedProfiles' \subseteq storedProfiles
             /\ deletingProfile' \in {Failed, [deletingProfile EXCEPT !.at = "done"]}
    <3>1. deletingProfile \in [at : {"asked", "done"}, call : Deletion]
      BY <1>0, <2>3 DEF ProfCallsOK, Idle, Failed
    <3>2. [deletingProfile EXCEPT !.at = "done"] \in [at : {"asked", "done"},
                                                      call : Deletion]
      BY <3>1
    <3>3. ProfCallsOK'  BY <1>0, <2>3, <3>2 DEF ProfCallsOK
    <3>4. ProfListsOK'  BY <1>0, <2>1, <2>3 DEF ProfListsOK, created
    <3>5. QED  BY <1>0, <2>1, <3>3, <3>4, ProfPageFrames DEF ProfPageInv
  <2>4. QED  BY <1>8, <2>2, <2>3 DEF serveProfiles
<1>9. CASE profileSaved
  <2>1. savingProfile' = Idle
        /\ UNCHANGED <<storedProfiles, isOpenProfileForm, deletingProfile>>
    BY <1>9 DEF profileSaved
  <2>2. ProfCallsOK'  BY <1>0, <2>1 DEF ProfCallsOK
  <2>3. fetchRiskProfiles \subseteq RiskProfile  BY <1>0 DEF fetchRiskProfiles
  <2>4. ProfFormOK' /\ ProfDialogsOK' /\ riskProfiles' \subseteq RiskProfile
    <3>1. ASSUME NEW p \in storedProfiles, isOpenProfileForm,
                 setSelectedProfile(p, fetchRiskProfiles)
          PROVE  ProfFormOK' /\ ProfDialogsOK' /\ riskProfiles' \subseteq RiskProfile
      <4>1. p \in ProfShown  BY <1>0 DEF ProfShown
      <4>2. QED  BY <1>0, <2>1, <2>3, <3>1, <4>1, ProfileSelected
    <3>2. ASSUME NEW p \in storedProfiles, selectedProfile' = p,
                 riskProfiles' = fetchRiskProfiles, UNCHANGED <<profileForm, profileDialogs>>
          PROVE  ProfFormOK' /\ ProfDialogsOK' /\ riskProfiles' \subseteq RiskProfile
      <4>1. p \in ProfShown  BY <1>0 DEF ProfShown
      <4>2. QED  BY <1>0, <2>1, <2>3, <3>2, <4>1 DEF ProfFormOK, ProfDialogsOK
    <3>3. CASE /\ riskProfiles' = fetchRiskProfiles
               /\ profileForm' = seenBy(profileForm, fetchRiskProfiles)
               /\ UNCHANGED <<selectedProfile, profileDialogs>>
      <4>1. profileForm \in ProfForm  BY <1>0 DEF ProfFormOK
      <4>2. NoProfile \in ProfShown  BY DEF ProfShown
      <4>3. profileForm' \in ProfForm  BY <2>3, <3>3, <4>1, <4>2, FormTakes
      <4>4. QED  BY <1>0, <2>1, <2>3, <3>3, <4>3 DEF ProfFormOK, ProfDialogsOK
    <3>4. CASE UNCHANGED <<riskProfiles, selectedProfile, profileForm, profileDialogs>>
      BY <1>0, <2>1, <3>4, ProfPageFrames
    <3>5. QED  BY <1>9, <3>1, <3>2, <3>3, <3>4 DEF profileSaved
  <2>5. ProfListsOK'  BY <1>0, <2>1, <2>4 DEF ProfListsOK, created
  <2>6. QED  BY <2>2, <2>4, <2>5 DEF ProfPageInv
<1>10. CASE profileDeleted
  <2>1. deletingProfile' = Idle
        /\ UNCHANGED <<storedProfiles, savingProfile, profileDialogs>>
        /\ riskProfiles' = removeProfile(deletingProfile.call.name, TRUE, riskProfiles)
        /\ closeFormAfterDelete(deletingProfile.call.closes)
    BY <1>10 DEF profileDeleted
  <2>2. ProfCallsOK'  BY <1>0, <2>1 DEF ProfCallsOK
  <2>3. riskProfiles' \subseteq RiskProfile  BY <1>0, <2>1, CopiesTyped
  <2>4. profileForm \in ProfForm /\ NewProfileForm \in ProfForm /\ NoProfile \in ProfShown
    BY <1>0 DEF ProfFormOK, NewProfileForm, ProfForm, ProfShown
  <2>5. seenBy(profileForm, riskProfiles') \in ProfForm  BY <2>3, <2>4, FormTakes
  <2>6. ProfFormOK'
    BY <1>0, <2>1, <2>4, <2>5 DEF ProfFormOK, closeFormAfterDelete
  <2>7. ProfListsOK'  BY <1>0, <2>1, <2>3 DEF ProfListsOK, created
  <2>8. QED  BY <1>0, <2>1, <2>2, <2>6, <2>7, ProfPageFrames DEF ProfPageInv
<1>11. CASE profileCallFailed
  <2>1. UNCHANGED <<storedProfiles, riskProfiles, selectedProfile, isOpenProfileForm,
                    profileForm, profileDialogs>>
    BY <1>11 DEF profileCallFailed
  <2>2. ProfCallsOK'  BY <1>0, <1>11 DEF profileCallFailed, ProfCallsOK
  <2>3. QED  BY <1>0, <2>1, <2>2, ProfPageFrames DEF ProfPageInv
<1>12. QED
  BY <1>1, <1>2, <1>3, <1>4, <1>5, <1>6, <1>7, <1>8, <1>9, <1>10, <1>11 DEF profileNext


\* What is shared with the server.
ProfListed(n) == {p \in riskProfiles : created(p) /\ p.name = n}
ProfStored(n) == {p \in storedProfiles : p.name = n}
ProfUnderWay(c) == c \notin {Idle, Failed}
ProfDue(n) ==
  \/ n \in unlisted
  \/ savingProfile.at = "posted" /\ n \in namesOf(savingProfile.call)
  \/ deletingProfile.at = "done" /\ n = deletingProfile.call.name

NamesCrossed ==
  ProfUnderWay(savingProfile) /\ ProfUnderWay(deletingProfile)
    => /\ namesOf(savingProfile.call) \subseteq unlisted
       /\ deletingProfile.call.name \in unlisted
GoneDue ==
  deletingProfile.at = "done" /\ deletingProfile.call.name \notin unlisted
    => ProfStored(deletingProfile.call.name) = {}
ProfilesListed == \A n \in ProfileNames : ProfDue(n) \/ ProfListed(n) = ProfStored(n)

ProfServerInv == NamesCrossed /\ GoneDue /\ ProfilesListed

LEMMA ListedProfilesAgree == ProfilesListed <=> ProfilesAgree
BY DEF ProfilesListed, ProfilesAgree, ProfDue, ProfListed, ProfStored

LEMMA ProfCallKinds ==
  ASSUME ProfCallsOK
  PROVE  /\ savingProfile.at \in {"asked", "posted"}
              => ProfUnderWay(savingProfile) /\ savingProfile.call \in Response
                 /\ savingProfile \in [at : {"asked", "posted"}, call : Response]
         /\ deletingProfile.at \in {"asked", "done"}
              => ProfUnderWay(deletingProfile) /\ deletingProfile.call \in Deletion
                 /\ deletingProfile \in [at : {"asked", "done"}, call : Deletion]
         /\ Idle.at = "idle" /\ Failed.at = "failed"
         /\ ~ProfUnderWay(Idle) /\ ~ProfUnderWay(Failed)
BY DEF ProfCallsOK, ProfUnderWay, Idle, Failed

LEMMA SelectedList ==
  ASSUME NEW p, NEW list, setSelectedProfile(p, list)
  PROVE  \A q : created(q) => (q \in riskProfiles' <=> q \in list)
<1>1. CASE riskProfiles' = setCopy({p}, list)
  BY <1>1, CopiesOnly
<1>2. CASE riskProfiles' = setCopy({p, profileForm.profile}, list)
  BY <1>2, CopiesOnly
<1>3. QED  BY <1>1, <1>2 DEF setSelectedProfile

\* Nothing is done on the server, and in the list only to names that are
\* unlisted by then.
LEMMA ProfileNothingDone ==
  ASSUME ProfServerInv, UNCHANGED storedProfiles, unlisted \subseteq unlisted',
         \A q : created(q) /\ q.name \notin unlisted'
                  => (q \in riskProfiles' <=> q \in riskProfiles),
         \/ savingProfile' = savingProfile
         \/ /\ savingProfile'.at # "posted"
            /\ savingProfile.at = "posted" => namesOf(savingProfile.call) \subseteq unlisted',
         \/ deletingProfile' = deletingProfile
         \/ /\ deletingProfile'.at # "done"
            /\ deletingProfile.at = "done" => deletingProfile.call.name \in unlisted',
         NamesCrossed'
  PROVE  ProfServerInv'
<1>1. GoneDue'  BY DEF ProfServerInv, GoneDue, ProfStored
<1>2. ProfilesListed'
  <2> SUFFICES ASSUME NEW n \in ProfileNames, ~ProfDue(n)'
               PROVE  ProfListed(n)' = ProfStored(n)'
    BY DEF ProfilesListed
  <2>1. n \notin unlisted' /\ ~ProfDue(n)
    BY DEF ProfDue, namesOf
  <2>2. ProfListed(n) = ProfStored(n)  BY <2>1 DEF ProfServerInv, ProfilesListed
  <2>3. ProfListed(n)' = ProfListed(n)
    BY <2>1 DEF ProfListed, created
  <2>4. ProfStored(n)' = ProfStored(n)  BY DEF ProfStored
  <2>5. QED  BY <2>2, <2>3, <2>4
<1>3. QED  BY <1>1, <1>2 DEF ProfServerInv

\* Nothing is done at all, but to copies.
LEMMA ProfileServerFrame ==
  ASSUME ProfServerInv,
         UNCHANGED <<storedProfiles, unlisted, savingProfile, deletingProfile>>,
         \A q : created(q) => (q \in riskProfiles' <=> q \in riskProfiles)
  PROVE  ProfServerInv'
<1>1. NamesCrossed'
  BY DEF ProfServerInv, NamesCrossed, ProfUnderWay, namesOf
<1>2. QED  BY <1>1, ProfileNothingDone

LEMMA ResponseSentOff ==
  ASSUME ProfServerInv, NEW r, sendProfile(r), UNCHANGED <<storedProfiles, deletingProfile>>,
         UNCHANGED riskProfiles
  PROVE  ProfServerInv'
<1>1. CASE /\ savingProfile = Idle /\ savingProfile' = [at |-> "asked", call |-> r]
           /\ unlisted' = unlisted \cup
                (IF deletingProfile \in {Idle, Failed} THEN {}
                 ELSE namesOf(r) \cup {deletingProfile.call.name})
  <2>1. savingProfile'.call = r /\ savingProfile'.at = "asked" /\ savingProfile.at = "idle"
    BY <1>1 DEF Idle
  <2>2. ProfUnderWay(deletingProfile)
          => namesOf(r) \subseteq unlisted' /\ deletingProfile.call.name \in unlisted'
    BY <1>1 DEF ProfUnderWay
  <2>3. NamesCrossed'  BY <2>1, <2>2 DEF NamesCrossed, ProfUnderWay, namesOf
  <2>4. QED  BY <1>1, <2>1, <2>3, ProfileNothingDone
<1>2. CASE UNCHANGED <<savingProfile, unlisted>>  BY <1>2, ProfileServerFrame
<1>3. QED  BY <1>1, <1>2 DEF sendProfile

LEMMA ProfilesGivenUp ==
  ASSUME ProfServerInv, leaveProfiles
  PROVE  ProfServerInv'
<1>1. /\ UNCHANGED storedProfiles /\ savingProfile' = Idle /\ deletingProfile' = Idle
      /\ unlisted' = unlisted
           \cup (IF savingProfile.at = "posted" THEN namesOf(savingProfile.call) ELSE {})
           \cup (IF deletingProfile.at = "done" THEN {deletingProfile.call.name} ELSE {})
      /\ riskProfiles' \in {withoutCopy(profileForm.profile, riskProfiles), riskProfiles}
  BY DEF leaveProfiles
<1>2. \A q : created(q) => (q \in riskProfiles' <=> q \in riskProfiles)
  BY <1>1, CopiesOnly
<1>3. NamesCrossed'  BY <1>1 DEF NamesCrossed, ProfUnderWay
<1>4. Idle.at # "posted" /\ Idle.at # "done"  BY DEF Idle
<1>5. QED  BY <1>1, <1>2, <1>3, <1>4, ProfileNothingDone

\* What the server does to a profile that is saved is to its names.
LEMMA UpdatedNames ==
  ASSUME NEW r \in Response, NEW n, n \notin namesOf(r)
  PROVE  {p \in updated(r) : p.name = n} = ProfStored(n)
<1> DEFINE old == {p \in storedProfiles : p.name = r.name}
           m == IF old = {} \/ r.rename = Blank THEN r.name ELSE r.rename
           new == [name |-> m, status |-> r.status, answer |-> r.answer]
<1>1. r.name # Blank  BY BlankProfile DEF Response
<1>2. m \in namesOf(r) /\ r.name \in namesOf(r)  BY <1>1 DEF namesOf
<1>3. updated(r) = (storedProfiles \ old) \cup {new}
  BY DEF updated
<1>4. new.name # n /\ \A p \in old : p.name # n  BY <1>2
<1> HIDE DEF m, old, new
<1>5. QED  BY <1>3, <1>4 DEF ProfStored

LEMMA SaveServed ==
  ASSUME ProfServerInv, ProfCallsOK, savingProfile.at = "asked",
         UNCHANGED <<deletingProfile, riskProfiles>>,
         storedProfiles' = updated(savingProfile.call),
         \/ savingProfile' = [savingProfile EXCEPT !.at = "posted"] /\ UNCHANGED unlisted
         \/ /\ savingProfile' = Failed
            /\ unlisted' = unlisted \cup namesOf(savingProfile.call)
  PROVE  ProfServerInv'
<1> DEFINE r == savingProfile.call
<1>0. NamesCrossed /\ GoneDue /\ ProfilesListed  BY DEF ProfServerInv
<1>1. ProfUnderWay(savingProfile) /\ r \in Response
      /\ savingProfile \in [at : {"asked", "posted"}, call : Response]
  BY ProfCallKinds
<1>2. savingProfile' = [savingProfile EXCEPT !.at = "posted"]
        => savingProfile'.at = "posted" /\ savingProfile'.call = r
  BY <1>1
<1>3. unlisted \subseteq unlisted'
  OBVIOUS
<1>4. NamesCrossed'
  BY <1>0, <1>1, <1>2, <1>3 DEF NamesCrossed, ProfUnderWay, namesOf
<1>5. GoneDue'
  <2>1. deletingProfile.at = "done" => deletingProfile.call.name \in unlisted
    BY <1>0, <1>1, ProfCallKinds DEF NamesCrossed
  <2>2. QED  BY <1>3, <2>1 DEF GoneDue
<1>6. ProfilesListed'
  <2> SUFFICES ASSUME NEW n \in ProfileNames, ~ProfDue(n)'
               PROVE  ProfListed(n)' = ProfStored(n)'
    BY DEF ProfilesListed
  <2>1. n \notin namesOf(r)
    <3>1. CASE savingProfile' = Failed /\ unlisted' = unlisted \cup namesOf(r)
      BY <3>1 DEF ProfDue
    <3>2. CASE savingProfile' = [savingProfile EXCEPT !.at = "posted"]
      BY <1>2, <3>2 DEF ProfDue, namesOf
    <3>3. QED  BY <3>1, <3>2
  <2>2. ~ProfDue(n)  BY <1>3 DEF ProfDue
  <2>3. ProfStored(n)' = ProfStored(n)
    BY <1>1, <2>1, UpdatedNames DEF ProfStored
  <2>4. ProfListed(n)' = ProfListed(n)  BY DEF ProfListed, created
  <2>5. QED  BY <1>0, <2>2, <2>3, <2>4 DEF ProfilesListed
<1>7. QED  BY <1>4, <1>5, <1>6 DEF ProfServerInv

LEMMA ProfileDeletionServed ==
  ASSUME ProfServerInv, ProfCallsOK, deletingProfile.at = "asked",
         UNCHANGED <<savingProfile, riskProfiles>>,
         storedProfiles' = {p \in storedProfiles : p.name /= deletingProfile.call.name},
         \/ deletingProfile' = [deletingProfile EXCEPT !.at = "done"] /\ UNCHANGED unlisted
         \/ /\ deletingProfile' = Failed
            /\ unlisted' = unlisted \cup {deletingProfile.call.name}
  PROVE  ProfServerInv'
<1> DEFINE m == deletingProfile.call.name
<1>0. NamesCrossed /\ GoneDue /\ ProfilesListed  BY DEF ProfServerInv
<1>1. ProfUnderWay(deletingProfile)
      /\ deletingProfile \in [at : {"asked", "done"}, call : Deletion]
  BY ProfCallKinds
<1>2. deletingProfile' = [deletingProfile EXCEPT !.at = "done"]
        => deletingProfile'.at = "done" /\ deletingProfile'.call = deletingProfile.call
  BY <1>1
<1>3. unlisted \subseteq unlisted'
  OBVIOUS
<1>4. NamesCrossed'
  BY <1>0, <1>1, <1>2, <1>3 DEF NamesCrossed, ProfUnderWay, namesOf
<1>5. GoneDue'
  <2>1. deletingProfile'.at = "done" => deletingProfile'.call = deletingProfile.call
    BY <1>2, ProfCallKinds
  <2>2. {p \in storedProfiles' : p.name = m} = {}
    OBVIOUS
  <2>3. QED  BY <2>1, <2>2 DEF GoneDue, ProfStored
<1>6. ProfilesListed'
  <2> SUFFICES ASSUME NEW n \in ProfileNames, ~ProfDue(n)'
               PROVE  ProfListed(n)' = ProfStored(n)'
    BY DEF ProfilesListed
  <2>1. n # m
    <3>1. CASE deletingProfile' = Failed /\ unlisted' = unlisted \cup {m}
      BY <3>1 DEF ProfDue
    <3>2. CASE deletingProfile' = [deletingProfile EXCEPT !.at = "done"]
      BY <1>2, <3>2 DEF ProfDue
    <3>3. QED  BY <3>1, <3>2
  <2>2. ~ProfDue(n)  BY <1>3 DEF ProfDue, namesOf
  <2>3. ProfStored(n)' = ProfStored(n)  BY <2>1 DEF ProfStored
  <2>4. ProfListed(n)' = ProfListed(n)  BY DEF ProfListed, created
  <2>5. QED  BY <1>0, <2>2, <2>3, <2>4 DEF ProfilesListed
<1>7. QED  BY <1>4, <1>5, <1>6 DEF ProfServerInv

LEMMA ProfileSaveAnswered ==
  ASSUME ProfServerInv, ProfPageInv, profileSaved
  PROVE  ProfServerInv'
<1>0. NamesCrossed /\ GoneDue /\ ProfilesListed /\ ProfListsOK /\ ProfCallsOK
  BY DEF ProfServerInv, ProfPageInv
<1>1. /\ savingProfile.at = "posted" /\ savingProfile' = Idle
      /\ UNCHANGED <<storedProfiles, deletingProfile>>
  BY DEF profileSaved
<1>2. NamesCrossed'  BY <1>1 DEF NamesCrossed, ProfUnderWay
<1>3. CASE UNCHANGED unlisted
           /\ \A q : created(q) => (q \in riskProfiles' <=> q \in storedProfiles)
  <2>1. \A n : ProfListed(n)' = ProfStored(n)'
    BY <1>0, <1>1, <1>3 DEF ProfListed, ProfStored, ProfListsOK, created
  <2>2. GoneDue'  BY <1>0, <1>1, <1>3 DEF GoneDue, ProfStored
  <2>3. ProfilesListed'  BY <2>1 DEF ProfilesListed
  <2>4. QED  BY <1>2, <2>2, <2>3 DEF ProfServerInv
<1>4. CASE unlisted' = unlisted \cup namesOf(savingProfile.call) /\ UNCHANGED riskProfiles
  <2>1. Idle.at # "posted"  BY DEF Idle
  <2>2. QED  BY <1>1, <1>2, <1>4, <2>1, ProfileNothingDone
<1>5. QED  BY <1>3, <1>4, SelectedList DEF profileSaved, fetchRiskProfiles

LEMMA ProfileDeletionAnswered ==
  ASSUME ProfServerInv, ProfPageInv, profileDeleted
  PROVE  ProfServerInv'
<1> DEFINE m == deletingProfile.call.name
<1>0. NamesCrossed /\ GoneDue /\ ProfilesListed  BY DEF ProfServerInv
<1>1. /\ deletingProfile.at = "done" /\ deletingProfile' = Idle
      /\ riskProfiles' = removeProfile(m, TRUE, riskProfiles)
      /\ UNCHANGED <<storedProfiles, savingProfile, unlisted>>
  BY DEF profileDeleted
<1>2. NamesCrossed' /\ GoneDue'
  BY <1>1 DEF NamesCrossed, GoneDue, ProfUnderWay, Idle
<1>3. ProfilesListed'
  <2> SUFFICES ASSUME NEW n \in ProfileNames, ~ProfDue(n)'
               PROVE  ProfListed(n)' = ProfStored(n)'
    BY DEF ProfilesListed
  <2>1. n \notin unlisted /\ ProfStored(n)' = ProfStored(n)
    BY <1>1 DEF ProfDue, ProfStored
  <2>2. \A p : created(p) => (p \in riskProfiles' <=> p \in riskProfiles /\ p.name # m)
    BY <1>1 DEF removeProfile, created
  <2>3. CASE n = m
    <3>1. ProfStored(n) = {}  BY <1>0, <1>1, <2>1, <2>3 DEF GoneDue
    <3>2. ProfListed(n)' = {}  BY <2>2, <2>3 DEF ProfListed, created
    <3>3. QED  BY <2>1, <3>1, <3>2
  <2>4. CASE n # m
    <3>1. ~ProfDue(n)  BY <1>1, <2>4 DEF ProfDue, namesOf
    <3>2. ProfListed(n)' = ProfListed(n)  BY <2>2, <2>4 DEF ProfListed, created
    <3>3. QED  BY <1>0, <2>1, <3>1, <3>2 DEF ProfilesListed
  <2>5. QED  BY <2>3, <2>4
<1>4. QED  BY <1>2, <1>3 DEF ProfServerInv

LEMMA ProfileServerSteps ==
  ASSUME ProfServerInv, ProfPageInv, profileNext
  PROVE  ProfServerInv'
<1>0. ProfCallsOK /\ NamesCrossed  BY DEF ProfPageInv, ProfServerInv
<1>1. ASSUME NEW p, openProfile(p) PROVE ProfServerInv'
  <2>1. UNCHANGED <<storedProfiles, unlisted, savingProfile, deletingProfile>>
    BY <1>1 DEF openProfile
  <2>2. \A q : created(q) => (q \in riskProfiles' <=> q \in riskProfiles)
    BY <1>1, SelectedList, CopiesOnly DEF openProfile
  <2>3. QED  BY <2>1, <2>2, ProfileServerFrame
<1>2. CASE typeProfile \/ openProfileDialog \/ dismissProfileDialog
  BY <1>2, ProfileServerFrame DEF typeProfile, openProfileDialog, dismissProfileDialog
<1>3. CASE onSaveClick
  <2>1. UNCHANGED <<storedProfiles, riskProfiles, deletingProfile>>
    BY <1>3 DEF onSaveClick
  <2>2. \/ \E r : sendProfile(r)
        \/ UNCHANGED <<savingProfile, unlisted>>
    BY <1>3 DEF onSaveClick
  <2>3. QED  BY <2>1, <2>2, ResponseSentOff, ProfileServerFrame
<1>4. CASE confirmProfileDialog
  <2>1. CASE discardProfile
    <3>1. /\ UNCHANGED <<storedProfiles, savingProfile, deletingProfile>>
          /\ unlisted' = unlisted \cup
               {p.name : p \in {q \in SymDiff(riskProfiles, riskProfiles') : created(q)}}
      BY <2>1 DEF discardProfile
    <3>2. \A q : created(q) /\ q.name \notin unlisted'
                   => (q \in riskProfiles' <=> q \in riskProfiles)
      BY <3>1 DEF SymDiff
    <3>3. unlisted \subseteq unlisted'  BY <3>1
    <3>4. NamesCrossed'
      BY <1>0, <3>1, <3>3 DEF NamesCrossed, ProfUnderWay, namesOf
    <3>5. QED  BY <3>1, <3>2, <3>3, <3>4, ProfileNothingDone
  <2>2. CASE openCloseDialogToChangeProfile
    <3>1. UNCHANGED <<storedProfiles, unlisted, savingProfile, deletingProfile>>
      BY <2>2 DEF openCloseDialogToChangeProfile
    <3>2. \A q : created(q) => (q \in riskProfiles' <=> q \in riskProfiles)
      <4> DEFINE p == Head(profileDialogs).profile
                 list == withoutCopy(profileForm.profile, riskProfiles)
      <4>1. riskProfiles' = setCopy({p}, list) \/ riskProfiles' = list
        BY <2>2 DEF openCloseDialogToChangeProfile
      <4>2. \A q : created(q) => (q \in list <=> q \in riskProfiles)  BY CopiesOnly
      <4> HIDE DEF p, list
      <4>3. \A q : created(q) => (q \in setCopy({p}, list) <=> q \in list)  BY CopiesOnly
      <4>4. QED  BY <4>1, <4>2, <4>3
    <3>3. QED  BY <3>1, <3>2, ProfileServerFrame
  <2>3. CASE saveConfirmed
    BY <2>3, ResponseSentOff DEF saveConfirmed
  <2>4. CASE deleteConfirmed
    <3> DEFINE c == Head(profileDialogs).call
    <3>1. UNCHANGED <<storedProfiles, riskProfiles, savingProfile>>
      BY <2>4 DEF deleteConfirmed
    <3>2. CASE /\ deletingProfile = Idle /\ deletingProfile' = [at |-> "asked", call |-> c]
               /\ unlisted' = unlisted \cup
                    (IF savingProfile \in {Idle, Failed} THEN {}
                     ELSE {c.name} \cup namesOf(savingProfile.call))
      <4>1. deletingProfile'.call = c /\ deletingProfile'.at = "asked"
            /\ deletingProfile.at = "idle"
        BY <3>2 DEF Idle
      <4>2. ProfUnderWay(savingProfile)
              => namesOf(savingProfile.call) \subseteq unlisted' /\ c.name \in unlisted'
        BY <3>2 DEF ProfUnderWay
      <4> HIDE DEF c
      <4>3. NamesCrossed'  BY <3>1, <4>1, <4>2 DEF NamesCrossed, ProfUnderWay, namesOf
      <4>4. unlisted \subseteq unlisted'  BY <3>2
      <4>5. QED  BY <3>1, <4>1, <4>3, <4>4, ProfileNothingDone
    <3>3. CASE UNCHANGED <<deletingProfile, unlisted>>
      BY <3>1, <3>3, ProfileServerFrame
    <3>4. QED  BY <2>4, <3>2, <3>3 DEF deleteConfirmed
  <2>5. QED
    BY <1>4, <2>1, <2>2, <2>3, <2>4, ProfilesGivenUp DEF confirmProfileDialog
<1>5. CASE serveProfiles
  <2>1. UNCHANGED riskProfiles  BY <1>5 DEF serveProfiles
  <2>2. CASE savingProfile.at = "asked" /\ UNCHANGED deletingProfile
             /\ storedProfiles' = updated(savingProfile.call)
             /\ \/ savingProfile' = [savingProfile EXCEPT !.at = "posted"]
                   /\ UNCHANGED unlisted
                \/ savingProfile' = Failed
                   /\ unlisted' = unlisted \cup namesOf(savingProfile.call)
    BY <1>0, <2>1, <2>2, SaveServed
  <2>3. CASE deletingProfile.at = "asked" /\ UNCHANGED savingProfile
             /\ storedProfiles' = {p \in storedProfiles : p.name /= deletingProfile.call.name}
             /\ \/ deletingProfile' = [deletingProfile EXCEPT !.at = "done"]
                   /\ UNCHANGED unlisted
                \/ deletingProfile' = Failed
                   /\ unlisted' = unlisted \cup {deletingProfile.call.name}
    BY <1>0, <2>1, <2>3, ProfileDeletionServed
  <2>4. CASE UNCHANGED <<storedProfiles, unlisted>>
             /\ \/ savingProfile.at = "asked" /\ savingProfile' = Failed
                   /\ UNCHANGED deletingProfile
                \/ deletingProfile.at = "asked" /\ deletingProfile' = Failed
                   /\ UNCHANGED savingProfile
    <3>1. NamesCrossed'  BY <1>0, <2>4 DEF NamesCrossed, ProfUnderWay, namesOf
    <3>2. Failed.at = "failed"  BY DEF Failed
    <3>3. QED  BY <2>1, <2>4, <3>1, <3>2, ProfileNothingDone
  <2>5. QED  BY <1>5, <2>2, <2>3, <2>4 DEF serveProfiles
<1>6. CASE profileCallFailed
  <2>1. UNCHANGED <<storedProfiles, riskProfiles, unlisted>>
        /\ \/ savingProfile = Failed /\ savingProfile' = Idle /\ UNCHANGED deletingProfile
           \/ deletingProfile = Failed /\ deletingProfile' = Idle /\ UNCHANGED savingProfile
    BY <1>6 DEF profileCallFailed
  <2>2. NamesCrossed'  BY <1>0, <2>1 DEF NamesCrossed, ProfUnderWay, namesOf
  <2>3. Idle.at = "idle" /\ Failed.at = "failed"  BY DEF Idle, Failed
  <2>4. QED  BY <2>1, <2>2, <2>3, ProfileNothingDone
<1>7. QED
  BY <1>1, <1>2, <1>3, <1>4, <1>5, <1>6, ProfilesGivenUp, ProfileSaveAnswered,
     ProfileDeletionAnswered
  DEF profileNext, openProfileForm, leaveUnchanged

LEMMA ProfilesFetched ==
  ASSUME profileInit
  PROVE  ProfServerInv /\ ProfPageInv
<1>1. storedProfiles \subseteq {p \in RiskProfile : created(p)}
      /\ riskProfiles = storedProfiles
  BY UiProfilesAssumption DEF profileInit, fetchRiskProfiles
<1>2. savingProfile = Idle /\ deletingProfile = Idle /\ profileDialogs = <<>>
      /\ selectedProfile = NoProfile /\ isOpenProfileForm = FALSE
      /\ profileForm = NewProfileForm
  BY DEF profileInit
<1>3. ProfListsOK /\ ProfCallsOK  BY <1>1, <1>2 DEF ProfListsOK, ProfCallsOK
<1>4. ProfFormOK
  BY <1>2 DEF ProfFormOK, NewProfileForm, ProfForm, ProfShown
<1>5. ProfDialogsOK
  <2>1. <<>> \in Seq(ProfDialog)
    OBVIOUS
  <2>2. QED  BY <1>2, <2>1 DEF ProfDialogsOK
<1>6. NamesCrossed /\ GoneDue
  BY <1>2 DEF NamesCrossed, GoneDue, ProfUnderWay, Idle
<1>7. ProfilesListed
  BY <1>1 DEF ProfilesListed, ProfListed, ProfStored
<1>8. QED  BY <1>3, <1>4, <1>5, <1>6, <1>7 DEF ProfServerInv, ProfPageInv

LEMMA ProfilesStay ==
  ASSUME ProfServerInv, ProfPageInv, UNCHANGED profileVars
  PROVE  ProfServerInv' /\ ProfPageInv'
<1>1. UNCHANGED <<storedProfiles, riskProfiles, unlisted, savingProfile, deletingProfile,
                  profileForm, selectedProfile, isOpenProfileForm, profileDialogs>>
  BY DEF profileVars
<1>2. ProfServerInv'  BY <1>1, ProfileServerFrame
<1>3. ProfPageInv'  BY <1>1, ProfPageFrames DEF ProfPageInv
<1>4. QED  BY <1>2, <1>3

LEMMA ProfilesInvariant == profileSpec => [](ProfServerInv /\ ProfPageInv)
<1>1. profileInit => ProfServerInv /\ ProfPageInv  BY ProfilesFetched
<1>2. ProfServerInv /\ ProfPageInv /\ [profileNext]_profileVars
        => (ProfServerInv /\ ProfPageInv)'
  BY ProfileServerSteps, ProfilePageSteps, ProfilesStay
<1>3. QED  BY <1>1, <1>2, PTL DEF profileSpec

\* In every state of the page, whatever copies are in the list, a name that
\* no answer is due for, none was lost for, and that no calls crossed for has
\* in it what the server keeps by that name.
THEOREM ProfilesAreListed == profileSpec => []ProfilesAgree
<1>1. ProfServerInv => ProfilesAgree  BY ListedProfilesAgree DEF ProfServerInv
<1>2. QED  BY <1>1, ProfilesInvariant, PTL

LEMMA ProfileChangesHold ==
  ASSUME ProfileChanges
  PROVE  ~profileHasNoChanges
BY BlankStatus, BlankProfile
DEF ProfileChanges, profileHasNoChanges, profileIsEmpty, compareProfiles, created

\* What may come of what is typed in the form of a profile.
ProfileEditFate ==
  \/ SameProfileForm \/ typeProfile
  \/ Len(profileDialogs') < Len(profileDialogs)
  \/ deletingProfile.at = "done" /\ deletingProfile' = Idle
  \/ profileForm.changeProfile /\ ~profileForm'.changeProfile

LEMMA ProfileEditStep ==
  ASSUME ProfPageInv, profileNext, ProfileChanges
  PROVE  ProfileEditFate
<1> DEFINE Taken == profileForm.changeProfile /\ ~profileForm'.changeProfile
<1>0. ProfFormOK /\ ProfDialogsOK /\ ProfListsOK /\ isOpenProfileForm /\ ~profileHasNoChanges
  BY ProfileChangesHold DEF ProfPageInv, ProfileChanges
<1>1. profileForm \in ProfForm  BY <1>0 DEF ProfFormOK
<1>s. ASSUME NEW form \in {profileForm}, NEW refused,
             profileForm' \in {form, [form EXCEPT !.refused = refused],
                               [form EXCEPT !.changeProfile = TRUE]},
             UNCHANGED isOpenProfileForm
      PROVE  SameProfileForm
  BY <1>0, <1>1, <1>s DEF ProfForm, SameProfileForm
<1>2. ASSUME NEW p, NEW list, setSelectedProfile(p, list), UNCHANGED isOpenProfileForm
      PROVE  SameProfileForm \/ Taken
  <2>1. CASE profileForm.changeProfile
    BY <1>0, <1>2, <2>1 DEF setSelectedProfile, adopted
  <2>2. CASE ~profileForm.changeProfile
    <3>1. profileForm' \in {profileForm,
            updateNameValidator(profileForm, profileForm.profile, riskProfiles')}
      BY <1>0, <1>2, <2>2 DEF setSelectedProfile
    <3>2. QED  BY <1>2, <1>s, <3>1 DEF updateNameValidator
  <2>3. QED  BY <2>1, <2>2
<1>3. CASE openProfileForm
  BY <1>0, <1>2, <1>3 DEF openProfileForm, openProfile, ProfileEditFate
<1>4. CASE onSaveClick
  BY <1>s, <1>4 DEF onSaveClick, ProfileEditFate
<1>5. CASE openProfileDialog \/ dismissProfileDialog \/ serveProfiles \/ profileCallFailed
  BY <1>s, <1>5
  DEF openProfileDialog, dismissProfileDialog, serveProfiles, profileCallFailed,
      ProfileEditFate
<1>6. ~leaveUnchanged  BY <1>0 DEF leaveUnchanged
<1>7. CASE confirmProfileDialog
  <2>1. profileDialogs # <<>> /\ profileDialogs' \in {Tail(profileDialogs), <<>>}
    BY <1>7 DEF confirmProfileDialog, discardProfile, openCloseDialogToChangeProfile,
                saveConfirmed, deleteConfirmed, leaveProfiles
  <2>2. Len(Tail(profileDialogs)) < Len(profileDialogs)
        /\ Len(<<>>) < Len(profileDialogs)
    BY <1>0, <2>1, ProfDialogAnswered DEF ProfDialogsOK
  <2>3. QED  BY <2>1, <2>2 DEF ProfileEditFate
<1>8. CASE profileSaved
  <2>1. UNCHANGED isOpenProfileForm /\
        \/ \E p, list : setSelectedProfile(p, list)
        \/ profileForm' \in {profileForm, seenBy(profileForm, fetchRiskProfiles)}
    BY <1>0, <1>8 DEF profileSaved
  <2>2. CASE \E p, list : setSelectedProfile(p, list)
    BY <1>2, <2>1, <2>2 DEF ProfileEditFate
  <2>3. CASE profileForm' \in {profileForm, seenBy(profileForm, fetchRiskProfiles)}
    BY <1>s, <2>1, <2>3 DEF seenBy, updateNameValidator, ProfileEditFate
  <2>4. QED  BY <2>1, <2>2, <2>3
<1>9. CASE profileDeleted  BY <1>9 DEF profileDeleted, ProfileEditFate
<1>10. CASE typeProfile  BY <1>10 DEF ProfileEditFate
<1>11. QED
  BY <1>3, <1>4, <1>5, <1>6, <1>7, <1>8, <1>9, <1>10 DEF profileNext

\* Of the form of a profile: what was typed, and a copy, stays as it is until
\* the user types or answers a dialog, or a deletion is answered; but once a
\* Save button was pressed the next selection may replace it unasked.
THEOREM ProfileFormKept == profileSpec => ProfileEditsKept
<1>1. ProfPageInv /\ [profileNext]_profileVars =>
        [ProfileChanges => ProfileEditFate]_profileVars
  BY ProfileEditStep
<1>2. QED
  BY <1>1, ProfilesInvariant, PTL DEF profileSpec, ProfileEditsKept, ProfileEditFate

-----------------------------------------------------------------------------
(***************************************************************************)
(* A question that has many answers.  Filling the form with an answer that *)
(* does not contradict itself shows that answer, as long as what was       *)
(* emitted last covers what is checked, or is covered by it (InStep): the  *)
(* boxes below i are those of the answer after i steps, and what the form  *)
(* may take back next is none of them.                                     *)
(***************************************************************************)

questionSpec == questionInit /\ [][questionNext]_questionVars

\* What was checked, or neither checked nor unchecked, when the group last emitted.
Earlier(q) == q.emitted \cup q.emittedUnset

InStep(q) == q.checked \subseteq Earlier(q)
             \/ (~Contradicts(q.checked) /\ Earlier(q) \subseteq q.checked)

\* What holds at first, and is kept by each step, holds at the end.
LEMMA StepByStep ==
  ASSUME NEW n \in Nat, NEW T, 0 \in T, \A i \in 1 .. n : i - 1 \in T => i \in T
  PROVE  n \in T
<1> DEFINE out == {i \in 0 .. n : i \notin T}
<1>1. CASE out = {}  BY <1>1
<1>2. CASE out # {}
  <2>1. out \in SUBSET Nat  OBVIOUS
  <2>2. PICK m \in out : \A i \in out : m <= i  BY <1>2, <2>1, SmallestOf
  <2>3. m \in 1 .. n /\ m - 1 \in 0 .. n  BY <2>2
  <2>4. m - 1 \in T  BY <2>2, <2>3
  <2>5. QED  BY <2>2, <2>3, <2>4
<1>3. QED  BY <1>1, <1>2

LEMMA BoxNumbers == Boxes \in Nat /\ NoneBox \in Box /\ Box \subseteq Nat
BY UiQuestionsAssumption DEF Box

\* The answer that is contained in one without contradiction has none.
LEMMA PartOfAnswer ==
  ASSUME NEW a, NEW b, a \subseteq b, ~Contradicts(b)
  PROVE  ~Contradicts(a)
BY DEF Contradicts

\* applyNoneLogic, by what is newly checked: None and nothing before it,
\* another box and nothing before it, or nothing.
LEMMA LogicCases ==
  ASSUME NEW q \in Group
  PROVE  LET new == q.checked \ Earlier(q)
             r == applyNoneLogic(q)
         IN \/ /\ HasNoneLogic
               /\ NoneBox \in new /\ \A d \in new : NoneBox <= d
               /\ r = Emits(q, {NoneBox}, {})
            \/ \E k \in new \ {NoneBox} : /\ HasNoneLogic
                                          /\ \A d \in new : k <= d
                                          /\ r = Emits(q, q.checked \ {NoneBox}, q.unset)
            \/ /\ new = {} \/ ~HasNoneLogic
               /\ r = Emits(q, q.checked, q.unset)
<1> DEFINE new == q.checked \ Earlier(q)
           keys == {Boxes + 1} \cup new
<1>1. new \subseteq Box /\ keys \in SUBSET Nat /\ keys # {}
  <2>1. new \subseteq Box  BY DEF Group
  <2>2. Boxes + 1 \in Nat  BY BoxNumbers
  <2>3. QED  BY <2>1, <2>2, BoxNumbers
<1>2. changedKey(q) = Min(keys)  BY DEF changedKey, Earlier
<1>3. PICK m \in keys : \A n \in keys : m <= n  BY <1>1, SmallestOf
<1>4. Min(keys) \in keys /\ \A n \in keys : Min(keys) <= n
  BY <1>3 DEF Min
<1>5. CASE new = {}
  <2>1. changedKey(q) = Boxes + 1  BY <1>2, <1>4, <1>5
  <2>2. changedKey(q) \notin Box /\ changedKey(q) # NoneBox  BY <2>1, BoxNumbers DEF Box
  <2>3. QED  BY <1>5, <2>2 DEF applyNoneLogic
<1>6. CASE new # {} /\ HasNoneLogic
  <2>1. PICK d \in new : TRUE  BY <1>6
  <2>2. changedKey(q) <= d /\ d <= Boxes
    <3>1. d \in keys /\ d \in 1 .. Boxes  BY <1>1, <2>1 DEF Box
    <3>2. changedKey(q) <= d  BY <1>2, <1>4, <3>1
    <3>3. QED  BY <3>1, <3>2
  <2>3. changedKey(q) # Boxes + 1  BY <1>1, <1>2, <1>4, <2>2, BoxNumbers
  <2>4. changedKey(q) \in new /\ \A n \in new : changedKey(q) <= n
    BY <1>2, <1>4, <2>3
  <2>5. changedKey(q) \in Box  BY <1>1, <2>4
  <2>6. CASE changedKey(q) = NoneBox
    BY <1>6, <2>4, <2>5, <2>6 DEF applyNoneLogic
  <2>7. CASE changedKey(q) # NoneBox
    <3>1. applyNoneLogic(q) = Emits(q, q.checked \ {NoneBox}, q.unset)
      BY <1>6, <2>5, <2>7 DEF applyNoneLogic
    <3>2. QED  BY <1>6, <2>4, <2>7, <3>1
  <2>8. QED  BY <2>6, <2>7
<1>7. CASE ~HasNoneLogic  BY <1>7 DEF applyNoneLogic
<1>8. QED  BY <1>5, <1>6, <1>7

\* What it emits, and that it takes back and checks nothing: what contradicts
\* itself after it was all known before, and a plain answer stays.
LEMMA LogicFacts ==
  ASSUME NEW q \in Group
  PROVE  LET r == applyNoneLogic(q)
         IN /\ r \in Group /\ Earlier(r) = q.checked \cup q.unset
            /\ r.emitted = q.checked /\ r.emittedUnset = q.unset
            /\ r.checked \subseteq q.checked /\ r.unset \subseteq q.unset
            /\ Contradicts(r.checked) =>
                 r.checked = q.checked /\ q.checked \subseteq Earlier(q)
            /\ ~Contradicts(q.checked) => r.checked = q.checked
<1> DEFINE r == applyNoneLogic(q)
           new == q.checked \ Earlier(q)
<1>0. q.checked \subseteq Box /\ q.unset \subseteq Box /\ {NoneBox} \subseteq Box
  BY BoxNumbers DEF Group
<1>1. CASE HasNoneLogic /\ NoneBox \in new /\ r = Emits(q, {NoneBox}, {})
  BY <1>0, <1>1 DEF Emits, Group, Earlier, Contradicts
<1>2. CASE \E k \in new \ {NoneBox} :
              HasNoneLogic /\ r = Emits(q, q.checked \ {NoneBox}, q.unset)
  BY <1>0, <1>2 DEF Emits, Group, Earlier, Contradicts
<1>3. CASE /\ new = {} \/ ~HasNoneLogic
           /\ r = Emits(q, q.checked, q.unset)
  BY <1>0, <1>3 DEF Emits, Group, Earlier, Contradicts
<1>4. QED  BY <1>1, <1>2, <1>3, LogicCases

\* One step of the filling.
FillStep(q, answer, i) ==
  IF i \in answer THEN Check(q, i) ELSE applyNoneLogic(Uncheck(q, i))

LEMMA Toggled ==
  ASSUME NEW q \in Group, NEW i \in Box
  PROVE  /\ Check(q, i) \in Group /\ Uncheck(q, i) \in Group
         /\ Check(q, i).checked = q.checked \cup {i}
         /\ Uncheck(q, i).checked = q.checked \ {i}
         /\ Check(q, i).unset = q.unset \ {i} /\ Uncheck(q, i).unset = q.unset \ {i}
         /\ Earlier(Check(q, i)) = Earlier(q) /\ Earlier(Uncheck(q, i)) = Earlier(q)
BY DEF Group, Check, Uncheck, Earlier

LEMMA StepTyped ==
  ASSUME NEW q \in Group, NEW answer, NEW i \in Box
  PROVE  FillStep(q, answer, i) \in Group
BY Toggled, LogicFacts DEF FillStep

\* The forms from the one that is filled to the one that is shown.
Filling(f, q, answer, n) ==
  /\ f \in [0 .. n -> Group] /\ f[0] = q
  /\ \A i \in 1 .. n : f[i] = FillStep(f[i - 1], answer, i)

LEMMA FillingExists ==
  ASSUME NEW q \in Group, NEW answer
  PROVE  \E f : Filling(f, q, answer, Boxes)
<1> DEFINE T == {n \in 0 .. Boxes : \E f : Filling(f, q, answer, n)}
<1>1. 0 \in T
  <2>1. Filling([i \in 0 .. 0 |-> q], q, answer, 0)  BY DEF Filling
  <2>2. QED  BY <2>1, BoxNumbers
<1>2. ASSUME NEW n \in 1 .. Boxes, n - 1 \in T PROVE n \in T
  <2>1. PICK f : Filling(f, q, answer, n - 1)  BY <1>2
  <2> DEFINE s == FillStep(f[n - 1], answer, n)
             g == [i \in 0 .. n |-> IF i = n THEN s ELSE f[i]]
  <2>2. n \in Nat /\ n \in Box /\ n - 1 \in 0 .. n - 1  BY BoxNumbers DEF Box
  <2>3. s \in Group  BY <2>1, <2>2, StepTyped DEF Filling
  <2> HIDE DEF s
  <2>4. \A i \in 0 .. n - 1 : g[i] = f[i] /\ f[i] \in Group
    BY <2>1, <2>2 DEF Filling
  <2>5. g \in [0 .. n -> Group]
    <3>1. \A i \in 0 .. n : i = n \/ i \in 0 .. n - 1  BY <2>2
    <3>2. \A i \in 0 .. n : (IF i = n THEN s ELSE f[i]) \in Group
      BY <2>3, <2>4, <3>1
    <3>3. QED  BY <3>2
  <2>6. g[0] = q  BY <2>1, <2>2, <2>4 DEF Filling
  <2>7. \A i \in 1 .. n : g[i] = FillStep(g[i - 1], answer, i)
    <3>1. TAKE i \in 1 .. n
    <3>2. i - 1 \in 0 .. n - 1  BY <2>2
    <3>3. CASE i = n  BY <2>2, <2>4, <3>2, <3>3 DEF s
    <3>4. CASE i # n
      <4>1. i \in 1 .. n - 1 /\ i \in 0 .. n - 1  BY <2>2, <3>4
      <4>2. f[i] = FillStep(f[i - 1], answer, i)  BY <2>1, <4>1 DEF Filling
      <4>3. QED  BY <2>4, <3>2, <4>1, <4>2
    <3>5. QED  BY <3>3, <3>4
  <2> HIDE DEF g
  <2>8. Filling(g, q, answer, n)  BY <2>5, <2>6, <2>7 DEF Filling
  <2>9. QED  BY <2>8, BoxNumbers
<1>3. Boxes \in T  BY <1>1, <1>2, BoxNumbers, StepByStep
<1>4. QED  BY <1>3

\* fillProfileForm is the last of the forms.
LEMMA FilledForms ==
  ASSUME NEW q \in Group, NEW answer
  PROVE  \E f : Filling(f, q, answer, Boxes) /\ fillProfileForm(q, answer) = f[Boxes]
<1> DEFINE Fixed(f) == f = [i \in 0 .. Boxes |->
                              IF i = 0 THEN q
                              ELSE IF i \in answer THEN Check(f[i - 1], i)
                              ELSE applyNoneLogic(Uncheck(f[i - 1], i))]
           forms == CHOOSE f : Fixed(f)
<1>1. fillProfileForm(q, answer) = forms[Boxes]  BY DEF fillProfileForm
<1>2. PICK f : Filling(f, q, answer, Boxes)  BY FillingExists
<1>3. f = [i \in 0 .. Boxes |-> f[i]]  BY <1>2 DEF Filling
<1>4. \A i \in 0 .. Boxes :
        f[i] = IF i = 0 THEN q
               ELSE IF i \in answer THEN Check(f[i - 1], i)
               ELSE applyNoneLogic(Uncheck(f[i - 1], i))
  <2>1. \A i \in 0 .. Boxes : i = 0 \/ i \in 1 .. Boxes  BY BoxNumbers
  <2>2. QED  BY <1>2, <2>1 DEF Filling, FillStep
<1>5. Fixed(f)  BY <1>3, <1>4
<1>6. Fixed(forms)
  <2> HIDE DEF Fixed
  <2>1. QED  BY <1>5
<1> HIDE DEF forms
<1>7. \A i \in 0 .. Boxes :
        forms[i] = IF i = 0 THEN q ELSE FillStep(forms[i - 1], answer, i)
  BY <1>6 DEF FillStep
<1>8. forms[0] = q /\ DOMAIN forms = 0 .. Boxes  BY <1>6, <1>7, BoxNumbers
<1>9. \A i \in 1 .. Boxes : forms[i] = FillStep(forms[i - 1], answer, i)
  <2>1. \A i \in 1 .. Boxes : i \in 0 .. Boxes /\ i # 0  BY BoxNumbers
  <2>2. QED  BY <1>7, <2>1
<1>10. \A i \in 0 .. Boxes : forms[i] \in Group
  <2> DEFINE T == {n \in 0 .. Boxes : \A i \in 0 .. n : forms[i] \in Group}
  <2>1. 0 \in T  BY <1>8, BoxNumbers
  <2>2. ASSUME NEW n \in 1 .. Boxes, n - 1 \in T PROVE n \in T
    <3>1. n \in Nat /\ n \in Box /\ n \in 0 .. Boxes /\ n - 1 \in 0 .. n - 1
      BY BoxNumbers DEF Box
    <3>2. forms[n] \in Group  BY <1>9, <2>2, <3>1, StepTyped
    <3>3. \A i \in 0 .. n : i = n \/ i \in 0 .. n - 1  BY <3>1
    <3>4. QED  BY <2>2, <3>1, <3>2, <3>3
  <2>3. Boxes \in T  BY <2>1, <2>2, BoxNumbers, StepByStep
  <2>4. QED  BY <2>3
<1>11. forms \in [0 .. Boxes -> Group]
  <2>1. forms = [i \in 0 .. Boxes |-> forms[i]]  BY <1>6
  <2>2. QED  BY <1>10, <2>1
<1>12. Filling(forms, q, answer, Boxes)  BY <1>8, <1>9, <1>11 DEF Filling
<1>13. QED  BY <1>1, <1>12

\* Whatever is filled, and with whatever answer, the form shows no other box
\* than those of the answer, and has emitted or reset no other.
LEMMA FillContained ==
  ASSUME NEW q \in Group, NEW answer \in SUBSET Box
  PROVE  LET r == fillProfileForm(q, answer)
         IN r \in Group /\ r.checked \subseteq answer /\ r.unset = {}
            /\ Earlier(r) \subseteq answer
<1>1. PICK f : Filling(f, q, answer, Boxes) /\ fillProfileForm(q, answer) = f[Boxes]
  BY FilledForms
<1> DEFINE T == {i \in 0 .. Boxes : /\ f[i].checked \cap (1 .. i) \subseteq answer
                                    /\ f[i].unset \cap (1 .. i) = {}
                                    /\ Earlier(f[i]) \subseteq answer \cup (i + 1 .. Boxes)}
<1>2. \A i \in 0 .. Boxes : f[i] \in Group  BY <1>1 DEF Filling
<1>3. \A i \in 0 .. Boxes : /\ f[i].checked \subseteq 1 .. Boxes
                            /\ f[i].unset \subseteq 1 .. Boxes
                            /\ Earlier(f[i]) \subseteq 1 .. Boxes
  BY <1>2 DEF Group, Earlier, Box
<1>4. 0 \in T
  <2>1. 0 \in 0 .. Boxes /\ 1 .. 0 = {} /\ 0 + 1 .. Boxes = 1 .. Boxes
    BY BoxNumbers
  <2>2. QED  BY <1>3, <2>1
<1>5. ASSUME NEW i \in 1 .. Boxes, i - 1 \in T PROVE i \in T
  <2> DEFINE p == f[i - 1]
  <2>1. /\ i \in Nat /\ i \in Box /\ i \in 0 .. Boxes /\ i - 1 \in 0 .. Boxes
        /\ 1 .. i = (1 .. i - 1) \cup {i}
        /\ (i - 1) + 1 .. Boxes = {i} \cup (i + 1 .. Boxes)
        /\ 1 .. Boxes = (1 .. i) \cup (i + 1 .. Boxes)
    BY BoxNumbers DEF Box
  <2>2. /\ p \in Group /\ f[i] = FillStep(p, answer, i)
        /\ p.checked \cap (1 .. i - 1) \subseteq answer
        /\ p.unset \cap (1 .. i - 1) = {}
        /\ Earlier(p) \subseteq answer \cup (i + 1 .. Boxes) \cup {i}
        /\ p.checked \subseteq 1 .. Boxes /\ p.unset \subseteq 1 .. Boxes
    BY <1>1, <1>2, <1>3, <1>5, <2>1 DEF Filling
  <2> HIDE DEF p
  <2>3. CASE i \in answer
    <3>1. f[i] = Check(p, i)  BY <2>2, <2>3 DEF FillStep
    <3>2. /\ f[i].checked = p.checked \cup {i} /\ f[i].unset = p.unset \ {i}
          /\ Earlier(f[i]) = Earlier(p)
      BY <2>1, <2>2, <3>1, Toggled
    <3>3. QED  BY <2>1, <2>2, <2>3, <3>2
  <2>4. CASE i \notin answer
    <3> DEFINE u == Uncheck(p, i)
    <3>1. f[i] = applyNoneLogic(u)  BY <2>2, <2>4 DEF FillStep
    <3>2. /\ u \in Group /\ u.checked = p.checked \ {i} /\ u.unset = p.unset \ {i}
      BY <2>1, <2>2, Toggled
    <3> HIDE DEF u
    <3>3. /\ f[i].checked \subseteq p.checked \ {i} /\ f[i].unset \subseteq p.unset \ {i}
          /\ Earlier(f[i]) = (p.checked \ {i}) \cup (p.unset \ {i})
      BY <3>1, <3>2, LogicFacts
    <3>4. QED  BY <2>1, <2>2, <3>3
  <2>5. QED  BY <2>3, <2>4
<1>6. Boxes \in T  BY <1>4, <1>5, BoxNumbers, StepByStep
<1>7. Boxes \in 0 .. Boxes /\ Boxes + 1 .. Boxes = {}  BY BoxNumbers
<1>8. QED  BY <1>1, <1>2, <1>3, <1>6, <1>7

\* An answer that does not contradict itself is shown as it is.
LEMMA FillShows ==
  ASSUME NEW q \in Group, NEW answer \in SUBSET Box, ~Contradicts(answer),
         InStep(q) \/ q.checked = answer
  PROVE  fillProfileForm(q, answer).checked = answer
<1>1. PICK f : Filling(f, q, answer, Boxes) /\ fillProfileForm(q, answer) = f[Boxes]
  BY FilledForms
<1> DEFINE Part(i) == answer \cap (1 .. i)
           Clean(i) == f[i].checked \ Earlier(f[i]) \subseteq Part(i)
           Silent(i) == /\ 1 .. i \subseteq answer
                        /\ f[i].checked = q.checked \cup (1 .. i)
                        /\ Earlier(f[i]) = Earlier(q)
                        /\ ~Contradicts(q.checked) /\ Earlier(q) \subseteq q.checked
           Shown(i) == f[i].checked = answer
           Stays(i) == /\ f[i].checked \cap (1 .. i) = Part(i)
                       /\ Clean(i) \/ Silent(i)
           T == {i \in 0 .. Boxes : Shown(i) \/ Stays(i)}
<1>2. \A i \in 0 .. Boxes : f[i] \in Group  BY <1>1 DEF Filling
<1>3. 0 \in T
  <2>1. 0 \in 0 .. Boxes /\ 1 .. 0 = {} /\ f[0] = q  BY <1>1, BoxNumbers DEF Filling
  <2>2. QED  BY <2>1 DEF InStep
<1>4. ASSUME NEW i \in 1 .. Boxes, i - 1 \in T PROVE i \in T
  <2> DEFINE p == f[i - 1]
             u == Uncheck(p, i)
             new == u.checked \ Earlier(u)
  <2>1. /\ i \in Nat /\ i \in Box /\ i \in 0 .. Boxes /\ i - 1 \in 0 .. Boxes
        /\ 1 .. i = (1 .. i - 1) \cup {i} /\ i \notin 1 .. i - 1
    BY BoxNumbers DEF Box
  <2>2. p \in Group /\ f[i] = FillStep(p, answer, i)
    BY <1>1, <1>2, <2>1 DEF Filling
  <2>3. CASE i \in answer
    <3>1. f[i].checked = p.checked \cup {i} /\ Earlier(f[i]) = Earlier(p)
      BY <2>1, <2>2, <2>3, Toggled DEF FillStep
    <3>2. CASE Shown(i - 1)  BY <2>1, <2>3, <3>1, <3>2
    <3>3. CASE Stays(i - 1)
      <4>1. f[i].checked \cap (1 .. i) = Part(i)  BY <2>1, <2>3, <3>1, <3>3
      <4>2. Clean(i - 1) => Clean(i)  BY <2>1, <2>3, <3>1
      <4>3. Silent(i - 1) => Silent(i)  BY <2>1, <2>3, <3>1
      <4>4. QED  BY <2>1, <3>3, <4>1, <4>2, <4>3
    <3>4. QED  BY <1>4, <3>2, <3>3
  <2>4. CASE i \notin answer
    <3>1. /\ u \in Group /\ u.checked = p.checked \ {i} /\ Earlier(u) = Earlier(p)
          /\ f[i] = applyNoneLogic(u)
      BY <2>1, <2>2, <2>4, Toggled DEF FillStep
    <3>2. CASE Shown(i - 1)
      <4>1. u.checked = answer  BY <2>4, <3>1, <3>2
      <4>2. f[i].checked = answer  BY <3>1, <4>1, LogicFacts
      <4>3. QED  BY <2>1, <4>2
    <3>3. CASE Stays(i - 1)
      <4>1. u.checked \cap (1 .. i) = Part(i)  BY <2>1, <2>4, <3>1, <3>3
      <4>2. /\ f[i].checked \subseteq u.checked /\ f[i].checked \subseteq Earlier(f[i])
        BY <3>1, LogicFacts
      <4>3. Clean(i)  BY <4>2
      <4>4. HasNoneLogic /\ NoneBox \in answer => answer = {NoneBox}
        BY DEF Contradicts
      <4>5. Part(i) \subseteq u.checked /\ Part(i) = Part(i - 1)  BY <2>1, <2>4, <4>1
      <4>6. Silent(i - 1) => /\ new = (q.checked \cup (1 .. i - 1)) \ ({i} \cup Earlier(q))
                             /\ Part(i) = 1 .. i - 1
        BY <2>1, <2>4, <3>1, <4>5
      <4>7. Clean(i - 1) => new \subseteq Part(i)  BY <3>1, <4>5
      <4>8. HasNoneLogic /\ NoneBox \in new /\ (\A d \in new : NoneBox <= d) =>
              Part(i) = {NoneBox} \cap (1 .. i)
        <5> SUFFICES ASSUME HasNoneLogic, NoneBox \in new,
                            \A d \in new : NoneBox <= d
                     PROVE  Part(i) = {NoneBox} \cap (1 .. i)
          OBVIOUS
        <5>1. CASE NoneBox \in Part(i)  BY <4>4, <5>1
        <5>2. CASE NoneBox \notin Part(i)
          <6>1. Silent(i - 1)  BY <3>3, <4>7, <5>2
          <6>2. NoneBox \in q.checked /\ NoneBox # i /\ NoneBox \notin Earlier(q)
            BY <4>6, <5>2, <6>1
          <6>3. q.checked = {NoneBox} /\ Earlier(q) = {}
            BY <6>1, <6>2 DEF Contradicts
          <6>4. i - 1 < 1
            <7> SUFFICES ASSUME i - 1 >= 1 PROVE FALSE
              BY <2>1
            <7>1. 1 \in 1 .. i - 1 /\ 1 # i  BY <2>1
            <7>2. NoneBox <= 1  BY <4>6, <6>1, <6>3, <7>1
            <7>3. NoneBox = 1  BY <7>2, BoxNumbers DEF Box
            <7>4. QED  BY <7>3 DEF HasNoneLogic
          <6>5. Part(i) = {} /\ 1 .. i = {i}  BY <2>1, <4>6, <6>1, <6>4
          <6>6. QED  BY <6>2, <6>5
        <5>3. QED  BY <5>1, <5>2
      <4>9. HasNoneLogic => NoneBox \notin Part(i) \/ Clean(i - 1)
        <5> SUFFICES ASSUME HasNoneLogic, NoneBox \in Part(i), Silent(i - 1)
                     PROVE  FALSE
          BY <3>3
        <5>1. Part(i) = {NoneBox}  BY <4>4
        <5>2. 1 .. i - 1 = {NoneBox}  BY <4>6, <5>1
        <5>3. 1 <= i - 1  BY <2>1, <5>2
        <5>4. 1 \in 1 .. i - 1  BY <2>1, <5>3
        <5>5. QED  BY <5>2, <5>4 DEF HasNoneLogic
      <4>10. f[i].checked \cap (1 .. i) = Part(i)
        <5>1. CASE /\ HasNoneLogic
                   /\ NoneBox \in new /\ \A d \in new : NoneBox <= d
                   /\ f[i] = Emits(u, {NoneBox}, {})
          <6>1. f[i].checked = {NoneBox}  BY <5>1 DEF Emits
          <6>2. QED  BY <4>8, <5>1, <6>1
        <5>2. CASE \E k \in new \ {NoneBox} :
                     /\ HasNoneLogic
                     /\ \A d \in new : k <= d
                     /\ f[i] = Emits(u, u.checked \ {NoneBox}, u.unset)
          <6>1. f[i].checked = u.checked \ {NoneBox}  BY <5>2 DEF Emits
          <6>2. NoneBox \notin Part(i)
            <7>1. PICK k \in new \ {NoneBox} : TRUE  BY <5>2
            <7>2. CASE Clean(i - 1)
              BY <4>4, <4>7, <5>2, <7>1, <7>2
            <7>3. QED  BY <4>9, <5>2, <7>2
          <6>3. QED  BY <4>1, <6>1, <6>2
        <5>3. CASE f[i] = Emits(u, u.checked, u.unset)
          <6>1. f[i].checked = u.checked  BY <5>3 DEF Emits
          <6>2. QED  BY <4>1, <6>1
        <5>4. QED  BY <3>1, <5>1, <5>2, <5>3, LogicCases
      <4>11. QED  BY <2>1, <4>3, <4>10
    <3>4. QED  BY <1>4, <3>2, <3>3
  <2>5. QED  BY <2>3, <2>4
<1>5. Boxes \in T  BY <1>3, <1>4, BoxNumbers, StepByStep
<1>6. f[Boxes].checked \subseteq 1 .. Boxes /\ answer \subseteq 1 .. Boxes
  BY <1>2, BoxNumbers DEF Group, Box
<1>7. QED  BY <1>1, <1>5, <1>6

\* While no saved answer contradicts itself, the form is in step, and shows
\* the answer until the user touches it.
AnswersShown ==
  (\A p \in Assessments : ~Contradicts(answers[p])) =>
    /\ InStep(question)
    /\ assessment # "new" /\ ~touched => question.checked = answers[assessment]

\* Where None is checked beside others, it or all the others had been taken
\* back before.
TakenAgain ==
  Contradicts(question.checked) =>
    NoneBox \in again \/ question.checked \ {NoneBox} \subseteq again

\* Why the form does not take back what it knew already: it has just taken it
\* back, it was filled with a contradiction, or there is none to take back.
KnownExplained ==
  \/ /\ question.checked \subseteq Earlier(question)
     /\ Earlier(question) \ question.checked \subseteq took
  \/ question.checked \subseteq again
  \/ ~Contradicts(question.checked \cup Earlier(question))

QuestionInv == questionTypeOK /\ AnswersShown /\ TakenAgain /\ KnownExplained

LEMMA QuestionAgreed == QuestionInv => QuestionsAgree
<1> SUFFICES ASSUME QuestionInv PROVE QuestionsAgree
  OBVIOUS
<1>1. Contradicts(question.checked) => again \cap question.checked # {}
  BY DEF QuestionInv, TakenAgain, Contradicts
<1>2. QED  BY <1>1 DEF QuestionInv, AnswersShown, QuestionsAgree

\* The form that is filled, from any form that is in step or shows the answer.
LEMMA FormFilled ==
  ASSUME questionTypeOK, answers' \in [Assessments -> SUBSET Box],
         NEW p \in Assessments, NEW q \in Group, Fills(q, p), touched' = FALSE,
         (\A x \in Assessments : ~Contradicts(answers'[x])) =>
           InStep(q) \/ q.checked = answers'[p]
  PROVE  /\ question' \in Group /\ question'.unset = {}
         /\ assessment' \in Assessments \cup {"new"}
         /\ took' = {} /\ again' \in SUBSET Box
         /\ (AnswersShown /\ TakenAgain /\ KnownExplained)'
<1> DEFINE a == answers'[p]
<1>0. a \in SUBSET Box  OBVIOUS
<1>1. /\ question' = fillProfileForm(q, a) /\ assessment' = p /\ took' = {}
      /\ again' = IF Contradicts(a) THEN question'.checked ELSE {}
  BY DEF Fills
<1>2. /\ question' \in Group /\ question'.checked \subseteq a
      /\ question'.unset = {} /\ Earlier(question') \subseteq a
  BY <1>0, <1>1, FillContained
<1>3. ~Contradicts(a) /\ (InStep(q) \/ q.checked = a) => question'.checked = a
  BY <1>0, <1>1, FillShows
<1> HIDE DEF a
<1>4. again' \in SUBSET Box  BY <1>0, <1>1, <1>2
<1>5. (~Contradicts(a) => InStep(question'))
        \/ ~(\A x \in Assessments : ~Contradicts(answers'[x]))
  BY <1>2, <1>3 DEF InStep, a
<1>6. AnswersShown'
  BY <1>1, <1>3, <1>5 DEF AnswersShown, a
<1>7. CASE Contradicts(a)
  <2>1. again' = question'.checked  BY <1>1, <1>7
  <2>2. TakenAgain' /\ KnownExplained'
    BY <2>1 DEF TakenAgain, KnownExplained, Contradicts
  <2>3. QED  BY <1>1, <1>2, <1>4, <1>6, <2>2
<1>8. CASE ~Contradicts(a)
  <2>1. ~Contradicts(question'.checked)  BY <1>2, <1>8, PartOfAnswer
  <2>2. question'.checked \cup Earlier(question') \subseteq a  BY <1>2
  <2>3. ~Contradicts(question'.checked \cup Earlier(question'))
    BY <1>8, <2>2, PartOfAnswer
  <2>4. TakenAgain' /\ KnownExplained'
    BY <2>1, <2>3 DEF TakenAgain, KnownExplained
  <2>5. QED  BY <1>1, <1>2, <1>4, <1>6, <2>4
<1>9. QED  BY <1>7, <1>8

LEMMA NewGroup ==
  /\ getMultiSelectGroup \in Group /\ InStep(getMultiSelectGroup)
  /\ getMultiSelectGroup.checked = {} /\ Earlier(getMultiSelectGroup) = {}
  /\ getMultiSelectGroup.unset = {}
BY DEF getMultiSelectGroup, Group, InStep, Earlier

LEMMA NothingChecked == ~Contradicts({})
BY DEF Contradicts

LEMMA QuestionsStart == questionInit => QuestionInv
<1> SUFFICES ASSUME questionInit PROVE QuestionInv
  OBVIOUS
<1>1. questionTypeOK
  <2>1. 0 \in 0 .. MaxTimers /\ 0 \in 0 .. MaxAnswers  BY UiQuestionsAssumption
  <2>2. QED  BY <2>1, NewGroup DEF questionInit, questionTypeOK
<1>2. AnswersShown  BY NewGroup DEF questionInit, AnswersShown
<1>3. TakenAgain  BY NewGroup, NothingChecked DEF questionInit, TakenAgain
<1>4. KnownExplained  BY NewGroup DEF questionInit, KnownExplained
<1>5. QED  BY <1>1, <1>2, <1>3, <1>4 DEF QuestionInv

LEMMA PageOpenedAnew == QuestionInv /\ openAnew => QuestionInv'
<1> SUFFICES ASSUME QuestionInv, openAnew PROVE QuestionInv'
  OBVIOUS
<1>1. /\ questionTypeOK /\ timers' = 1 /\ touched' = FALSE
      /\ answers' = answers /\ resaved' = resaved /\ timers' \in 0 .. MaxTimers
  BY UiQuestionsAssumption DEF QuestionInv, openAnew
<1>2. CASE /\ question' = getMultiSelectGroup /\ assessment' = "new"
           /\ took' = {} /\ again' = {}
  <2>1. questionTypeOK'  BY <1>1, <1>2, NewGroup DEF questionTypeOK
  <2>2. AnswersShown'  BY <1>2, NewGroup DEF AnswersShown
  <2>3. TakenAgain' /\ KnownExplained'
    BY <1>2, NewGroup, NothingChecked DEF TakenAgain, KnownExplained
  <2>4. QED  BY <2>1, <2>2, <2>3 DEF QuestionInv
<1>3. CASE \E p \in Assessments : Fills(getMultiSelectGroup, p)
  <2>1. PICK p \in Assessments : Fills(getMultiSelectGroup, p)  BY <1>3
  <2>2. answers' \in [Assessments -> SUBSET Box]  BY <1>1 DEF questionTypeOK
  <2>3. /\ question' \in Group /\ question'.unset = {}
        /\ assessment' \in Assessments \cup {"new"}
        /\ took' = {} /\ again' \in SUBSET Box
        /\ (AnswersShown /\ TakenAgain /\ KnownExplained)'
    BY <1>1, <2>1, <2>2, NewGroup, FormFilled
  <2>4. questionTypeOK'  BY <1>1, <2>3 DEF questionTypeOK
  <2>5. QED  BY <2>3, <2>4 DEF QuestionInv
<1>4. QED  BY <1>2, <1>3 DEF openAnew

\* A selection of a profile that fills the form of the one before.
LEMMA ProfileSelectedNext == QuestionInv /\ selectProfile => QuestionInv'
<1> SUFFICES ASSUME QuestionInv, selectProfile PROVE QuestionInv'
  OBVIOUS
<1>1. /\ questionTypeOK /\ AnswersShown /\ touched' = FALSE /\ timers' \in 0 .. MaxTimers
      /\ answers' = answers /\ resaved' = resaved
  BY UiQuestionsAssumption DEF QuestionInv, selectProfile, Selects, questionTypeOK
<1>2. PICK p \in Assessments : Fills(question, p)  BY DEF selectProfile
<1>3. answers' \in [Assessments -> SUBSET Box] /\ question \in Group
  BY <1>1 DEF questionTypeOK
<1>4. (\A x \in Assessments : ~Contradicts(answers'[x])) => InStep(question)
  BY <1>1 DEF AnswersShown
<1>5. /\ question' \in Group /\ question'.unset = {}
      /\ assessment' \in Assessments \cup {"new"}
      /\ took' = {} /\ again' \in SUBSET Box
      /\ (AnswersShown /\ TakenAgain /\ KnownExplained)'
  BY <1>1, <1>2, <1>3, <1>4, FormFilled
<1>6. questionTypeOK'  BY <1>1, <1>5 DEF questionTypeOK
<1>7. QED  BY <1>5, <1>6 DEF QuestionInv

\* What is saved is what is shown, and is shown again.
LEMMA AnswersSaved == QuestionInv /\ saveAnswers => QuestionInv'
<1> SUFFICES ASSUME QuestionInv, saveAnswers PROVE QuestionInv'
  OBVIOUS
<1>1. /\ questionTypeOK /\ touched' = FALSE /\ timers' \in 0 .. MaxTimers
      /\ resaved' \in 0 .. MaxAnswers /\ assessment \in Assessments
      /\ answers' = [answers EXCEPT ![assessment] = question.checked]
      /\ Fills(question, assessment)
  BY UiQuestionsAssumption DEF QuestionInv, saveAnswers, Selects, questionTypeOK
<1>2. /\ question \in Group /\ question.checked \in SUBSET Box
      /\ answers \in [Assessments -> SUBSET Box]
  BY <1>1 DEF questionTypeOK, Group
<1>3. /\ answers' \in [Assessments -> SUBSET Box]
      /\ question.checked = answers'[assessment]
  BY <1>1, <1>2
<1>5. /\ question' \in Group /\ question'.unset = {}
      /\ assessment' \in Assessments \cup {"new"}
      /\ took' = {} /\ again' \in SUBSET Box
      /\ (AnswersShown /\ TakenAgain /\ KnownExplained)'
  BY <1>1, <1>2, <1>3, FormFilled
<1>6. questionTypeOK'  BY <1>1, <1>3, <1>5 DEF questionTypeOK
<1>7. QED  BY <1>5, <1>6 DEF QuestionInv

LEMMA NoneSelected == QuestionInv /\ selectNone => QuestionInv'
<1> SUFFICES ASSUME QuestionInv, selectNone PROVE QuestionInv'
  OBVIOUS
<1> DEFINE q == [question EXCEPT !.checked = {}, !.unset = Box]
<1>1. /\ questionTypeOK /\ touched' = FALSE /\ timers' \in 0 .. MaxTimers
      /\ answers' = answers /\ resaved' = resaved /\ assessment' = "new"
      /\ took' = Box /\ again' = {} /\ question' = applyNoneLogic(q)
  BY UiQuestionsAssumption
  DEF QuestionInv, selectNone, Selects, questionTypeOK, resetForm
<1>2. q \in Group /\ q.checked = {} /\ q.unset = Box
  BY <1>1 DEF questionTypeOK, Group
<1> HIDE DEF q
<1>3. question' \in Group /\ question'.checked = {} /\ Earlier(question') = Box
  <2>1. /\ question' \in Group /\ question'.checked \subseteq q.checked
        /\ question'.unset \subseteq q.unset
        /\ Earlier(question') = q.checked \cup q.unset
    BY <1>1, <1>2, LogicFacts
  <2>2. QED  BY <1>2, <2>1
<1>4. questionTypeOK'  BY <1>1, <1>3 DEF questionTypeOK
<1>5. AnswersShown'  BY <1>1, <1>3 DEF AnswersShown, InStep
<1>6. TakenAgain' /\ KnownExplained'
  BY <1>1, <1>3, NothingChecked DEF TakenAgain, KnownExplained
<1>7. QED  BY <1>4, <1>5, <1>6 DEF QuestionInv

LEMMA FormEnabled == QuestionInv /\ enableForm => QuestionInv'
<1> SUFFICES ASSUME QuestionInv, enableForm PROVE QuestionInv'
  OBVIOUS
<1>1. /\ questionTypeOK /\ timers' \in 0 .. MaxTimers
      /\ question' = applyNoneLogic(question)
      /\ took' = question.unset \cup (question.checked \ question'.checked)
      /\ again' = again \cap question'.checked
      /\ answers' = answers /\ assessment' = assessment
      /\ touched' = touched /\ resaved' = resaved
  BY UiQuestionsAssumption DEF QuestionInv, enableForm, questionTypeOK
<1>2. /\ question \in Group /\ question.checked \in SUBSET Box
      /\ question.unset \in SUBSET Box /\ question.checked \cap question.unset = {}
      /\ again \in SUBSET Box
  BY <1>1 DEF questionTypeOK, Group
<1>3. /\ question' \in Group /\ Earlier(question') = question.checked \cup question.unset
      /\ question'.checked \subseteq question.checked
      /\ question'.unset \subseteq question.unset
      /\ Contradicts(question'.checked) => question'.checked = question.checked
      /\ ~Contradicts(question.checked) => question'.checked = question.checked
  BY <1>1, <1>2, LogicFacts
<1>4. questionTypeOK'  BY <1>1, <1>2, <1>3 DEF questionTypeOK
<1>5. AnswersShown'
  <2>1. SUFFICES ASSUME \A p \in Assessments : ~Contradicts(answers[p])
                 PROVE  /\ InStep(question')
                        /\ assessment # "new" /\ ~touched =>
                             question'.checked = answers[assessment]
    BY <1>1 DEF AnswersShown
  <2>2. InStep(question')  BY <1>3 DEF InStep
  <2>3. assessment # "new" /\ ~touched =>
          question.checked = answers[assessment] /\ assessment \in Assessments
    BY <1>1, <2>1 DEF QuestionInv, AnswersShown, questionTypeOK
  <2>4. QED  BY <1>3, <2>1, <2>2, <2>3
<1>6. TakenAgain'
  <2>1. SUFFICES ASSUME Contradicts(question'.checked)
                 PROVE  NoneBox \in again' \/ question'.checked \ {NoneBox} \subseteq again'
    BY DEF TakenAgain
  <2>2. question'.checked = question.checked /\ NoneBox \in question.checked
    BY <1>3, <2>1 DEF Contradicts
  <2>3. QED  BY <1>1, <2>1, <2>2 DEF QuestionInv, TakenAgain
<1>7. KnownExplained'  BY <1>1, <1>3 DEF KnownExplained
<1>8. QED  BY <1>4, <1>5, <1>6, <1>7 DEF QuestionInv

LEMMA BoxChecked == QuestionInv /\ checkBox => QuestionInv'
<1> SUFFICES ASSUME QuestionInv, checkBox PROVE QuestionInv'
  OBVIOUS
<1>1. PICK i \in Box :
        LET toggled == IF i \in question.checked THEN Uncheck(question, i)
                       ELSE Check(question, i)
        IN /\ question' = applyNoneLogic(toggled)
           /\ touched' = TRUE
           /\ took' = toggled.unset \cup (toggled.checked \ question'.checked)
           /\ again' = (again \cup (took \cap {i})) \cap question'.checked
           /\ UNCHANGED <<answers, assessment, timers, resaved>>
  BY DEF checkBox
<1> DEFINE t == IF i \in question.checked THEN Uncheck(question, i)
                ELSE Check(question, i)
<1>2. /\ questionTypeOK
      /\ question' = applyNoneLogic(t) /\ touched' = TRUE
      /\ took' = t.unset \cup (t.checked \ question'.checked)
      /\ again' = (again \cup (took \cap {i})) \cap question'.checked
      /\ answers' = answers /\ assessment' = assessment
      /\ timers' = timers /\ resaved' = resaved
  BY <1>1 DEF QuestionInv
<1>3. /\ question \in Group /\ question.checked \in SUBSET Box
      /\ question.unset \in SUBSET Box /\ question.checked \cap question.unset = {}
      /\ again \in SUBSET Box /\ took \in SUBSET Box
  BY <1>2 DEF questionTypeOK, Group
<1>4. /\ t \in Group /\ t.unset = question.unset \ {i} /\ Earlier(t) = Earlier(question)
      /\ t.checked = IF i \in question.checked THEN question.checked \ {i}
                     ELSE question.checked \cup {i}
  BY <1>3, Toggled
<1> HIDE DEF t
<1>5. /\ question' \in Group /\ Earlier(question') = t.checked \cup t.unset
      /\ question'.checked \subseteq t.checked /\ question'.unset \subseteq t.unset
      /\ Contradicts(question'.checked) =>
           question'.checked = t.checked /\ t.checked \subseteq Earlier(question)
  BY <1>2, <1>4, LogicFacts
<1>6. t.checked \in SUBSET Box /\ t.unset \in SUBSET Box /\ t.checked \cap t.unset = {}
  BY <1>3, <1>4
<1>7. questionTypeOK'  BY <1>2, <1>3, <1>5, <1>6 DEF questionTypeOK
<1>8. AnswersShown'  BY <1>2, <1>5 DEF AnswersShown, InStep
<1>9. KnownExplained'  BY <1>2, <1>5 DEF KnownExplained
<1>10. TakenAgain'
  <2> SUFFICES ASSUME Contradicts(question'.checked)
               PROVE  NoneBox \in again' \/ question'.checked \ {NoneBox} \subseteq again'
    BY DEF TakenAgain
  <2> DEFINE c == question.checked
             d == question'.checked
  <2>1. /\ d = t.checked /\ d \subseteq Earlier(question)
        /\ NoneBox \in d /\ d # {NoneBox}
    BY <1>5 DEF Contradicts
  <2>2. again' = (again \cup (took \cap {i})) \cap d  BY <1>2
  <2>3. CASE i \in c
    <3>1. d = c \ {i} /\ Contradicts(c)  BY <1>4, <2>1, <2>3 DEF Contradicts
    <3>2. NoneBox \in again \/ c \ {NoneBox} \subseteq again
      BY <3>1 DEF QuestionInv, TakenAgain
    <3>3. QED  BY <2>1, <2>2, <3>1, <3>2
  <2>4. CASE i \notin c
    <3>1. d = c \cup {i} /\ i \in Earlier(question) \ c  BY <1>4, <2>1, <2>4
    <3>2. CASE Earlier(question) \ c \subseteq took
      <4>1. i \in again'  BY <2>2, <3>1, <3>2
      <4>2. CASE Contradicts(c)
        <5>1. NoneBox \in again \/ c \ {NoneBox} \subseteq again
          BY <4>2 DEF QuestionInv, TakenAgain
        <5>2. QED  BY <2>1, <2>2, <3>1, <4>1, <5>1
      <4>3. CASE ~Contradicts(c)
        <5>1. NoneBox \notin c \/ c = {NoneBox}  BY <4>3 DEF Contradicts
        <5>2. QED  BY <2>1, <3>1, <4>1, <5>1
      <4>4. QED  BY <4>2, <4>3
    <3>3. CASE c \subseteq again  BY <2>1, <2>2, <3>1, <3>3
    <3>4. CASE ~Contradicts(c \cup Earlier(question))
      <4>1. d \subseteq c \cup Earlier(question)  BY <2>1
      <4>2. QED  BY <3>4, <4>1, PartOfAnswer
    <3>5. QED  BY <3>2, <3>3, <3>4 DEF QuestionInv, KnownExplained
  <2>5. QED  BY <2>3, <2>4
<1>11. QED  BY <1>7, <1>8, <1>9, <1>10 DEF QuestionInv

\* Of the boxes of a question (dynamic-form): a saved answer is shown until the
\* user touches it, and None, where it is not the first option, is checked
\* beside another box only after one of the two was taken back before.
THEOREM AnswersAgree == questionSpec => []QuestionsAgree
<1>1. QuestionInv /\ [questionNext]_questionVars => QuestionInv'
  <2> SUFFICES ASSUME QuestionInv, [questionNext]_questionVars PROVE QuestionInv'
    OBVIOUS
  <2>1. CASE UNCHANGED questionVars
    BY <2>1 DEF questionVars, QuestionInv, questionTypeOK, AnswersShown, TakenAgain,
       KnownExplained
  <2>2. CASE questionNext
    BY <2>2, PageOpenedAnew, ProfileSelectedNext, AnswersSaved, NoneSelected,
       FormEnabled, BoxChecked DEF questionNext
  <2>3. QED  BY <2>1, <2>2
<1>2. QED
  BY <1>1, QuestionsStart, QuestionAgreed, PTL DEF questionSpec
==============================================================================
