----------------------------- MODULE UiProfiles -----------------------------
(***************************************************************************)
(* The risk assessment page (pages/risk-assessment): the list of risk      *)
(* profiles, which the ngrx store keeps from page to page, the form of one *)
(* profile, the copies that are listed before they are saved, and the      *)
(* calls that save and delete profiles.                                    *)
(*                                                                         *)
(* A profile is its name, its status and the answer to one question, which *)
(* stands for the questionnaire.  A copy is a profile that has not been    *)
(* created on the server.                                                  *)
(***************************************************************************)
EXTENDS Naturals, Sequences, FiniteSetsExt, UiCalls

CONSTANTS
  ProfileNames,     \* names, in lower case
  CopyName,         \* [ProfileNames -> the name of a copy, cut at its length]
  RiskAnswers,      \* answers to a question that requires one
  StoredProfiles,   \* what the server may have at first
  MaxSavings        \* bound: profiles saved and deleted

VARIABLES
  storedProfiles,    \* server: the profiles it keeps
  riskProfiles,      \* AppState.riskProfiles, in no order
  selectedProfile,   \* RiskAssessmentStore.selectedProfile
  isOpenProfileForm,
  profileForm,       \* the form: its own `profile', its values, whether the
                     \* next selection is taken as it comes (changeProfile), and
                     \* the names that the validator refuses
  savingProfile, deletingProfile,   \* the calls under way
  profileDialogs,    \* the dialogs, the last opened first
  unlisted,          \* history: names of changes whose answers were lost, or
                     \* crossed, and what an old list was put over
  savings            \* bound

profileVars == <<storedProfiles, riskProfiles, selectedProfile, isOpenProfileForm,
                 profileForm, savingProfile, deletingProfile, profileDialogs,
                 unlisted, savings>>

NoProfile == [name |-> Blank, status |-> Blank, answer |-> Blank]
RiskProfile == [name : ProfileNames, status : {"Valid", "Draft", "Copy"},
                answer : RiskAnswers \cup {Blank}]
created(p) == p.status \in {"Valid", "Draft"}
NewProfileForm == [profile |-> NoProfile, name |-> Blank, answer |-> Blank,
                   changeProfile |-> FALSE, refused |-> {}]

\* What is sent to save a profile, and what to delete one.
Response == [name : ProfileNames, rename : ProfileNames \cup {Blank},
             status : {"Valid", "Draft"}, answer : RiskAnswers \cup {Blank}]
Deletion == [name : ProfileNames, closes : BOOLEAN]

ASSUME UiProfilesAssumption ==
  /\ CopyName \in [ProfileNames -> ProfileNames] /\ Blank \notin ProfileNames \cup RiskAnswers
  /\ \A S \in StoredProfiles : S \subseteq {p \in RiskProfile : created(p)}

profileTypeOK ==
  /\ storedProfiles \subseteq {p \in RiskProfile : created(p)}
  /\ riskProfiles \subseteq RiskProfile
  /\ {selectedProfile, profileForm.profile} \subseteq RiskProfile \cup {NoProfile}
  /\ isOpenProfileForm \in BOOLEAN
  /\ profileForm \in [profile : {profileForm.profile}, name : ProfileNames \cup {Blank},
                      answer : RiskAnswers \cup {Blank}, changeProfile : BOOLEAN,
                      refused : SUBSET ProfileNames]
  /\ savingProfile \in {Idle, Failed} \cup [at : {"asked", "posted"}, call : Response]
  /\ deletingProfile \in {Idle, Failed} \cup [at : {"asked", "done"}, call : Deletion]
  /\ unlisted \subseteq ProfileNames /\ savings \in 0 .. MaxSavings

-----------------------------------------------------------------------------
(***************************************************************************)
(* The form.                                                               *)
(***************************************************************************)

\* Mutant: the answers are not compared.
compareProfilesMutant(p, form) == created(p) /\ form.name \in {p.name, Blank}

\* An empty name is no change of it; a copy is a change by itself.
compareProfiles(p, form) ==
  created(p) /\ form.name \in {p.name, Blank} /\ form.answer = p.answer
profileIsEmpty(form) == form.name = Blank /\ form.answer = Blank

profileHasNoChanges ==
  IF profileForm.profile = NoProfile THEN profileIsEmpty(profileForm)
  ELSE compareProfiles(profileForm.profile, profileForm)

\* The names that a form of p refuses.
differentProfileName(list, p) ==
  {q.name : q \in list \ {p}} \ (IF created(p) THEN {p.name} ELSE {})

\* updateNameValidator: the names are those of the list by now.
updateNameValidator(form, p, list) ==
  [form EXCEPT !.refused = differentProfileName(list, p)]

\* The form takes a profile.  When there is none, the validator stays as it
\* was for the one before.
adopted(form, p, list) ==
  [profile |-> p, name |-> p.name, answer |-> p.answer, changeProfile |-> FALSE,
   refused |-> IF p = NoProfile THEN form.refused ELSE differentProfileName(list, p)]

\* The copies among the profiles that the form was given are listed.
setCopy(given, list) == list \cup {p \in given : p.status = "Copy"}

\* The setter of selectedProfile, when another one is selected: it is taken
\* when the form has no changes or they may go; else that of the form is
\* selected again, and the user asked.
setSelectedProfile(p, list) ==
  IF profileForm.changeProfile \/ profileHasNoChanges
  THEN /\ selectedProfile' = p /\ riskProfiles' = setCopy({p}, list)
       /\ profileForm' = adopted(profileForm, p, riskProfiles')
       /\ UNCHANGED profileDialogs
  ELSE /\ selectedProfile' = profileForm.profile
       /\ riskProfiles' = setCopy({p, profileForm.profile}, list)
       /\ profileForm' = IF profileForm.profile = NoProfile THEN profileForm
                         ELSE updateNameValidator(profileForm, profileForm.profile,
                                                  riskProfiles')
       /\ profileDialogs' = <<[of |-> "change", profile |-> p]>> \o profileDialogs

\* The setter of profiles: a form that has one looks at the new list.
seenBy(form, list) ==
  IF form.profile = NoProfile THEN form
  ELSE updateNameValidator(form, form.profile, list)

nameValid == profileForm.name /= Blank /\ profileForm.name \notin profileForm.refused
isSaveDisabled ==
  \/ ~nameValid \/ profileForm.answer = Blank
  \/ profileHasNoChanges /\ profileForm.profile.status /= "Draft"
isDraftDisabled == ~nameValid \/ profileHasNoChanges

\* A form with changes is one that was typed in, or shows a copy.
isDiscardDisabled == profileHasNoChanges

-----------------------------------------------------------------------------
\* onFetchRiskProfiles: the list is what the server keeps as it answers.
fetchRiskProfiles == storedProfiles

profileInit ==
  /\ storedProfiles \in StoredProfiles /\ riskProfiles = fetchRiskProfiles
  /\ selectedProfile = NoProfile /\ isOpenProfileForm = FALSE
  /\ profileForm = NewProfileForm
  /\ savingProfile = Idle /\ deletingProfile = Idle
  /\ profileDialogs = <<>> /\ unlisted = {} /\ savings = 0

\* openForm, in a form that is there or in a new one.
openProfile(p) ==
  /\ profileDialogs = <<>>
  /\ IF isOpenProfileForm
     THEN /\ p /= selectedProfile /\ setSelectedProfile(p, riskProfiles)
          /\ UNCHANGED isOpenProfileForm
     ELSE /\ isOpenProfileForm' = TRUE /\ selectedProfile' = p
          /\ riskProfiles' = setCopy({p}, riskProfiles)
          /\ profileForm' = [adopted(NewProfileForm, p, riskProfiles') EXCEPT
                               !.refused = differentProfileName(riskProfiles', p)]
          /\ UNCHANGED profileDialogs
  /\ UNCHANGED <<storedProfiles, savingProfile, deletingProfile, unlisted, savings>>

\* getCopyOfProfile
copyOf(p) == [p EXCEPT !.name = CopyName[p.name], !.status = "Copy"]

\* A profile of the list, the button that creates one, or the Copy action.
\* (A copy of what the form shows a copy of already is left out.)
openProfileForm ==
  \/ \E p \in riskProfiles \cup {NoProfile} : openProfile(p)
  \/ \E p \in riskProfiles :
       created(p) /\ copyOf(p) /= selectedProfile /\ openProfile(copyOf(p))

typeProfile ==
  /\ isOpenProfileForm /\ profileDialogs = <<>>
  /\ \/ \E n \in ProfileNames \cup {Blank} : profileForm' = [profileForm EXCEPT !.name = n]
     \/ \E a \in RiskAnswers \cup {Blank} : profileForm' = [profileForm EXCEPT !.answer = a]
  /\ UNCHANGED <<storedProfiles, riskProfiles, selectedProfile, isOpenProfileForm,
                 savingProfile, deletingProfile, profileDialogs, unlisted, savings>>

-----------------------------------------------------------------------------
(***************************************************************************)
(* Saving and deleting.                                                    *)
(***************************************************************************)
buildResponseFromForm(status) ==
  LET p == profileForm.profile
  IN [name |-> IF created(p) THEN p.name ELSE profileForm.name,
      rename |-> IF created(p) THEN profileForm.name ELSE Blank,
      status |-> status, answer |-> profileForm.answer]

namesOf(r) == {r.name, r.rename} \ {Blank}

\* exhaustMap drops what is sent whilst a call of its kind is under way.
sendProfile(r) ==
  \/ /\ savingProfile = Idle /\ savingProfile' = [at |-> "asked", call |-> r]
     /\ unlisted' = unlisted \cup
          (IF deletingProfile \in {Idle, Failed} THEN {}
           ELSE namesOf(r) \cup {deletingProfile.call.name})
  \/ savingProfile /= Idle /\ UNCHANGED <<savingProfile, unlisted>>

\* saveProfileClicked compares what is sent with what is selected.
sameAsSelected(r) ==
  /\ r.name = selectedProfile.name /\ r.rename \in {Blank, r.name}
  /\ r.status = selectedProfile.status /\ r.answer = selectedProfile.answer

\* The buttons Save and Save Draft.  Changes to a profile are confirmed
\* first; but as soon as the button is pressed the next selection is taken as
\* it comes.
onSaveClick ==
  /\ isOpenProfileForm /\ profileDialogs = <<>> /\ savings < MaxSavings
  /\ \E status \in (IF isSaveDisabled THEN {} ELSE {"Valid"})
                     \cup (IF isDraftDisabled THEN {} ELSE {"Draft"}) :
       LET r == buildResponseFromForm(status)
       IN \/ /\ ~created(selectedProfile) \/ sameAsSelected(r)
             /\ sendProfile(r) /\ savings' = savings + 1 /\ UNCHANGED profileDialogs
          \/ /\ created(selectedProfile) /\ ~sameAsSelected(r)
             /\ profileDialogs' = <<[of |-> "save", call |-> r]>>
             /\ UNCHANGED <<savingProfile, unlisted, savings>>
  /\ profileForm' = [profileForm EXCEPT !.changeProfile = TRUE]
  /\ UNCHANGED <<storedProfiles, riskProfiles, selectedProfile, isOpenProfileForm,
                 deletingProfile>>

\* The dialogs of the Discard button and of the Delete action, and the one
\* when the page is left.  Two of them keep what there was when they opened:
\* the list that a copy will be taken from, and the profile that is selected.
CapturedList == IF profileForm.profile.status = "Copy" THEN riskProfiles ELSE {}
openProfileDialog ==
  /\ profileDialogs = <<>>
  /\ \/ /\ isOpenProfileForm /\ ~isDiscardDisabled
        /\ profileDialogs' = <<[of |-> "discard", profile |-> profileForm.profile,
                                list |-> CapturedList]>>
     \/ /\ isOpenProfileForm /\ ~profileHasNoChanges
        /\ profileDialogs' = <<[of |-> "leave"]>>
     \/ \E p \in riskProfiles :
          /\ created(p)
          /\ profileDialogs' =
               <<[of |-> "delete", call |-> [name |-> p.name,
                                            closes |-> selectedProfile.name = p.name]]>>
  /\ UNCHANGED <<storedProfiles, riskProfiles, selectedProfile, isOpenProfileForm,
                 profileForm, savingProfile, deletingProfile, unlisted, savings>>

\* Mutant: the row is looked for by its name only.
removeProfileMutant(n, c, list) == {p \in list : p.name /= n}

removeProfile(n, c, list) == {p \in list : ~(p.name = n /\ created(p) = c)}

\* deleteCopy of a profile, if it is a copy.
withoutCopy(p, list) ==
  IF p.status = "Copy" THEN removeProfile(p.name, FALSE, list) ELSE list

\* The page is left and opened again, as the devices page is.
leaveProfiles ==
  /\ "asked" \notin {savingProfile.at, deletingProfile.at}
  /\ unlisted' = unlisted
       \cup (IF savingProfile.at = "posted" THEN namesOf(savingProfile.call) ELSE {})
       \cup (IF deletingProfile.at = "done" THEN {deletingProfile.call.name} ELSE {})
  /\ riskProfiles' = IF isOpenProfileForm THEN withoutCopy(profileForm.profile, riskProfiles)
                     ELSE riskProfiles
  /\ selectedProfile' = NoProfile /\ isOpenProfileForm' \in BOOLEAN
  /\ profileForm' = IF isOpenProfileForm'
                    THEN [NewProfileForm EXCEPT
                            !.refused = differentProfileName(riskProfiles', NoProfile)]
                    ELSE NewProfileForm
  /\ savingProfile' = Idle /\ deletingProfile' = Idle /\ profileDialogs' = <<>>
  /\ UNCHANGED <<storedProfiles, savings>>

leaveUnchanged ==
  profileDialogs = <<>> /\ (isOpenProfileForm => profileHasNoChanges) /\ leaveProfiles

-----------------------------------------------------------------------------
(***************************************************************************)
(* The user answers the dialog on top: no, or yes.                         *)
(***************************************************************************)
dismissProfileDialog ==
  /\ profileDialogs /= <<>> /\ profileDialogs' = Tail(profileDialogs)
  /\ UNCHANGED <<storedProfiles, riskProfiles, selectedProfile, isOpenProfileForm,
                 profileForm, savingProfile, deletingProfile, unlisted, savings>>

\* A copy is taken from the list of the time the dialog opened.
discardProfile ==
  /\ Head(profileDialogs).of = "discard" /\ profileDialogs' = Tail(profileDialogs)
  /\ LET d == Head(profileDialogs)
         list == withoutCopy(d.profile, d.list)
     IN /\ riskProfiles' = IF d.profile.status = "Copy" THEN list ELSE riskProfiles
        /\ unlisted' = unlisted \cup
             {p.name : p \in {q \in SymDiff(riskProfiles, riskProfiles') : created(q)}}
  /\ isOpenProfileForm' = FALSE /\ profileForm' = NewProfileForm
  /\ selectedProfile' = NoProfile
  /\ UNCHANGED <<storedProfiles, savingProfile, deletingProfile, savings>>

openCloseDialogToChangeProfile ==
  /\ Head(profileDialogs).of = "change" /\ profileDialogs' = Tail(profileDialogs)
  /\ LET p == Head(profileDialogs).profile
         list == withoutCopy(profileForm.profile, riskProfiles)
         form == [profileForm EXCEPT !.changeProfile = isOpenProfileForm]
     IN /\ selectedProfile' = p
        /\ IF isOpenProfileForm /\ p /= selectedProfile
           THEN /\ riskProfiles' = setCopy({p}, list)
                /\ profileForm' = adopted(form, p, riskProfiles')
           ELSE riskProfiles' = list /\ profileForm' = seenBy(form, list)
  /\ UNCHANGED <<storedProfiles, isOpenProfileForm, savingProfile, deletingProfile,
                 unlisted, savings>>

saveConfirmed ==
  /\ Head(profileDialogs).of = "save" /\ profileDialogs' = Tail(profileDialogs)
  /\ sendProfile(Head(profileDialogs).call)
  /\ UNCHANGED <<storedProfiles, riskProfiles, selectedProfile, isOpenProfileForm,
                 profileForm, deletingProfile>>

deleteConfirmed ==
  /\ Head(profileDialogs).of = "delete" /\ profileDialogs' = Tail(profileDialogs)
  /\ LET c == Head(profileDialogs).call
     IN \/ /\ deletingProfile = Idle
           /\ deletingProfile' = [at |-> "asked", call |-> c]
           /\ unlisted' = unlisted \cup
                (IF savingProfile \in {Idle, Failed} THEN {}
                 ELSE {c.name} \cup namesOf(savingProfile.call))
        \/ deletingProfile /= Idle /\ UNCHANGED <<deletingProfile, unlisted>>
  /\ UNCHANGED <<storedProfiles, riskProfiles, selectedProfile, isOpenProfileForm,
                 profileForm, savingProfile>>

confirmProfileDialog ==
  /\ profileDialogs /= <<>>
  /\ \/ discardProfile \/ openCloseDialogToChangeProfile
     \/ Head(profileDialogs).of = "leave" /\ leaveProfiles
     \/ /\ savings < MaxSavings /\ savings' = savings + 1
        /\ saveConfirmed \/ deleteConfirmed

-----------------------------------------------------------------------------
(***************************************************************************)
(* The server, which may fail to answer what it has done, and its answers. *)
(***************************************************************************)

\* update_profile: the profile of that name is replaced, and renamed; when
\* there is none it is created, by that name.
updated(r) ==
  LET old == {p \in storedProfiles : p.name = r.name}
  IN (storedProfiles \ old) \cup
       {[name |-> IF old = {} \/ r.rename = Blank THEN r.name ELSE r.rename,
         status |-> r.status, answer |-> r.answer]}

serveProfiles ==
  /\ \/ /\ savingProfile.at = "asked"
        /\ \/ /\ storedProfiles' = updated(savingProfile.call)
              /\ savingProfile' = [savingProfile EXCEPT !.at = "posted"]
              /\ UNCHANGED unlisted
           \/ /\ savingProfile' = Failed
              /\ \/ UNCHANGED <<storedProfiles, unlisted>>
                 \/ /\ storedProfiles' = updated(savingProfile.call)
                    /\ unlisted' = unlisted \cup namesOf(savingProfile.call)
        /\ UNCHANGED deletingProfile
     \/ /\ deletingProfile.at = "asked"
        /\ LET n == deletingProfile.call.name
               left == {p \in storedProfiles : p.name /= n}
           IN \/ /\ left /= storedProfiles /\ storedProfiles' = left
                 /\ deletingProfile' = [deletingProfile EXCEPT !.at = "done"]
                 /\ UNCHANGED unlisted
              \/ /\ deletingProfile' = Failed
                 /\ \/ UNCHANGED <<storedProfiles, unlisted>>
                    \/ storedProfiles' = left /\ unlisted' = unlisted \cup {n}
        /\ UNCHANGED savingProfile
  /\ UNCHANGED <<riskProfiles, selectedProfile, isOpenProfileForm, profileForm,
                 profileDialogs, savings>>

\* A profile was saved: the profiles are asked for, and what was saved is
\* selected, whatever form is open by now.  (The list is read as it is shown:
\* one that is older has crossed a deletion.)
profileSaved ==
  /\ savingProfile.at = "posted" /\ savingProfile' = Idle
  /\ LET found == {p \in storedProfiles : p.name \in namesOf(savingProfile.call)}
     IN \/ \E p \in found :
             /\ UNCHANGED unlisted
             /\ IF isOpenProfileForm THEN setSelectedProfile(p, fetchRiskProfiles)
                ELSE /\ selectedProfile' = p /\ riskProfiles' = fetchRiskProfiles
                     /\ UNCHANGED <<profileForm, profileDialogs>>
        \/ /\ found = {} /\ riskProfiles' = fetchRiskProfiles
           /\ profileForm' = seenBy(profileForm, fetchRiskProfiles)
           /\ UNCHANGED <<selectedProfile, profileDialogs, unlisted>>
        \/ /\ unlisted' = unlisted \cup namesOf(savingProfile.call)
           /\ UNCHANGED <<riskProfiles, selectedProfile, profileForm, profileDialogs>>
  /\ UNCHANGED <<storedProfiles, isOpenProfileForm, deletingProfile, savings>>

\* The form closes when it showed that profile as the deletion was chosen.
closeFormAfterDelete(closes) ==
  IF closes
  THEN /\ isOpenProfileForm' = FALSE /\ selectedProfile' = NoProfile
       /\ profileForm' = NewProfileForm
  ELSE /\ profileForm' = seenBy(profileForm, riskProfiles')
       /\ UNCHANGED <<isOpenProfileForm, selectedProfile>>

profileDeleted ==
  /\ deletingProfile.at = "done" /\ deletingProfile' = Idle
  /\ LET c == deletingProfile.call
     IN /\ riskProfiles' = removeProfile(c.name, TRUE, riskProfiles)
        /\ closeFormAfterDelete(c.closes)
  /\ UNCHANGED <<storedProfiles, savingProfile, profileDialogs, unlisted, savings>>

profileCallFailed ==
  /\ \/ savingProfile = Failed /\ savingProfile' = Idle /\ UNCHANGED deletingProfile
     \/ deletingProfile = Failed /\ deletingProfile' = Idle /\ UNCHANGED savingProfile
  /\ UNCHANGED <<storedProfiles, riskProfiles, selectedProfile, isOpenProfileForm,
                 profileForm, profileDialogs, unlisted, savings>>

profileNext ==
  \/ openProfileForm \/ typeProfile \/ onSaveClick \/ openProfileDialog
  \/ leaveUnchanged \/ dismissProfileDialog \/ confirmProfileDialog
  \/ serveProfiles \/ profileSaved \/ profileDeleted \/ profileCallFailed

-----------------------------------------------------------------------------
(***************************************************************************)
(* Properties.                                                             *)
(***************************************************************************)

\* But for the copies, the list has the profiles of the server, except those
\* of a call whose answer is due or was lost.
ProfilesAgree ==
  LET due == (IF savingProfile.at = "posted" THEN namesOf(savingProfile.call) ELSE {})
             \cup (IF deletingProfile.at = "done" THEN {deletingProfile.call.name} ELSE {})
  IN \A n \in ProfileNames \ (unlisted \cup due) :
       {p \in riskProfiles : created(p) /\ p.name = n} = {p \in storedProfiles : p.name = n}

\* What the user typed in the form and the server does not have (a name that
\* was emptied is none), and a copy, stay until the user types again, answers a
\* dialog, or a deletion is answered; but once a Save button was pressed the
\* next selection replaces them unasked, whatever came of the call, and takes
\* changeProfile with it: the form is safe again.
ProfileChanges ==
  /\ isOpenProfileForm
  /\ \/ profileForm.profile.status = "Copy"
     \/ profileForm.name \notin {profileForm.profile.name, Blank}
     \/ profileForm.answer /= profileForm.profile.answer
SameProfileForm ==
  /\ isOpenProfileForm' /\ profileForm'.profile = profileForm.profile
  /\ profileForm'.name = profileForm.name /\ profileForm'.answer = profileForm.answer
ProfileEditsKept ==
  [][ProfileChanges =>
       \/ SameProfileForm \/ typeProfile
       \/ Len(profileDialogs') < Len(profileDialogs)
       \/ deletingProfile.at = "done" /\ deletingProfile' = Idle
       \/ profileForm.changeProfile /\ ~profileForm'.changeProfile]_profileVars

\* The form says of a name that it "is already used for another profile"
\* (profile-form.component.html).  What is saved as a new profile leaves the
\* profiles there are as they are ...
OthersKept ==
  [][savingProfile.at = "asked" /\ savingProfile.call.rename = Blank
       => storedProfiles \subseteq storedProfiles']_storedProfiles

\* The setter says "prevent select profile before user confirmation"
\* (profile-form.component.ts).  With no call under way, changes leave the
\* form only when the user says so.
ChangeConfirmed ==
  [][ProfileChanges /\ savingProfile = Idle /\ deletingProfile = Idle =>
       \/ SameProfileForm \/ typeProfile
       \/ Len(profileDialogs') < Len(profileDialogs)]_profileVars
=============================================================================
