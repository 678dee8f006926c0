------------------------------- MODULE UiPages -------------------------------
(***************************************************************************)
(* The pages of the user interface (app-routing.module.ts).  The router    *)
(* shows one of them at a time, and the others are gone: a behaviour is    *)
(* that of one page, a dialog or a part of one, and the variables of the   *)
(* others stay as they are.                                                *)
(***************************************************************************)
EXTENDS UiCertificates, UiReports, UiSettings, UiDevices, UiProfiles, UiInitiate,
        UiQuestions

VARIABLE page   \* the page that is shown

pageVars == <<page, certVars, reportVars, settingVars, deviceVars, profileVars,
              initiateVars, questionVars>>

Pages == {"certificates", "reports", "settings", "devices", "profiles", "initiate",
          "questions"}

Init ==
  /\ page \in Pages
  /\ certInit /\ reportInit /\ settingInit /\ deviceInit /\ profileInit
  /\ initiateInit /\ questionInit

Next ==
  /\ UNCHANGED page
  /\ \/ /\ page = "certificates" /\ certNext
        /\ UNCHANGED <<reportVars, settingVars, deviceVars, profileVars, initiateVars,
                       questionVars>>
     \/ /\ page = "reports" /\ reportNext
        /\ UNCHANGED <<certVars, settingVars, deviceVars, profileVars, initiateVars,
                       questionVars>>
     \/ /\ page = "settings" /\ settingNext
        /\ UNCHANGED <<certVars, reportVars, deviceVars, profileVars, initiateVars,
                       questionVars>>
     \/ /\ page = "devices" /\ deviceNext
        /\ UNCHANGED <<certVars, reportVars, settingVars, profileVars, initiateVars,
                       questionVars>>
     \/ /\ page = "profiles" /\ profileNext
        /\ UNCHANGED <<certVars, reportVars, settingVars, deviceVars, initiateVars,
                       questionVars>>
     \/ /\ page = "initiate" /\ initiateNext
        /\ UNCHANGED <<certVars, reportVars, settingVars, deviceVars, profileVars,
                       questionVars>>
     \/ /\ page = "questions" /\ questionNext
        /\ UNCHANGED <<certVars, reportVars, settingVars, deviceVars, profileVars,
                       initiateVars>>

Spec == Init /\ [][Next]_pageVars

\* The variables of the page that is shown keep to their types.
TypeOK ==
  /\ page = "certificates" => certTypeOK
  /\ page = "reports" => reportTypeOK
  /\ page = "settings" => settingTypeOK
  /\ page = "devices" => deviceTypeOK
  /\ page = "profiles" => profileTypeOK
  /\ page = "initiate" => initiateTypeOK
  /\ page = "questions" => questionTypeOK

\* What is typed in the form of a device, or of a profile, and not saved stays
\* until the user types again or answers a dialog, or a deletion is answered.
\* The code lets it go unasked in two cases, which are named: a questionnaire
\* that is late fills the form of a device of the list, and after a click on
\* Save nothing protects the form from the next selection.
EditsKept == DeviceEditsKept /\ ProfileEditsKept
=============================================================================
