---------------------------- MODULE ProfileStore ----------------------------
(***************************************************************************)
(* The risk profiles the server keeps: the list of them in the session,    *)
(* and a file for each in local/risk_profiles, from which the session      *)
(* loads the list when it starts.                                          *)
(*                                                                         *)
(* The handlers that save and delete profiles run one at a time.  Names    *)
(* are compared without regard to their case, and files are named as the   *)
(* name is spelt.  A file can fail to be opened, written or removed, and   *)
(* the process can end between any two of these.                           *)
(*                                                                         *)
(* What is saved is the number of the save.                                *)
(***************************************************************************)
EXTENDS Naturals, Sequences, FiniteSets

CONSTANTS
  Spellings, \* names, as they are spelt
  Lower,     \* [Spellings -> the name in lower case]
  MaxSaves   \* bound: profiles saved

Keys == {Lower[n] : n \in Spellings}

\* What is sent of a new name when there is none.
Same == "same"

ASSUME ProfileAssumption ==
  /\ IsFiniteSet(Spellings)
  /\ Spellings \subseteq STRING /\ Same \notin Spellings
  /\ Lower \in [Spellings -> STRING]
  /\ MaxSaves \in Nat

VARIABLES
  running,  \* the server runs
  profiles, \* Session._profiles
  files,    \* [Spellings -> the save in the file of that name]
  saving,   \* what update_profile is at
  saves,    \* saves so far
  answered, \* history: [Keys -> the save of the name that was answered last,
            \* no rename or deletion of it having been answered since]
  lost,     \* history: keys of which a save failed or was cut off between the
            \* removal or emptying of a file and the writing of it
  odd       \* history: keys of which list and files may differ

answerVars == <<answered, lost>>
profileVars == <<running, profiles, files, saving, saves, answerVars, odd>>

\* No file, and one that was opened and not written.
Missing == 0
Torn == MaxSaves + 1
Saves == 1 .. MaxSaves

Profile == [name : Spellings, save : Saves]
NotSaving == [at |-> "idle"]
Saving ==
  {NotSaving} \cup [at : {"remove", "open", "write"}, removed : BOOLEAN,
                   old : Spellings, profile : Profile]

ProfileTypeOK ==
  /\ running \in BOOLEAN
  /\ profiles \in Seq(Profile)
  /\ files \in [Spellings -> 0 .. MaxSaves + 1]
  /\ saving \in Saving
  /\ saves \in 0 .. MaxSaves
  /\ answered \in [Keys -> 0 .. MaxSaves]
  /\ lost \subseteq Keys /\ odd \subseteq Keys

ListedProfiles == {profiles[i] : i \in DOMAIN profiles}
FilesOf(k) == {n \in Spellings : Lower[n] = k /\ files[n] # Missing}

ProfileInit ==
  /\ running = FALSE /\ profiles = <<>>
  /\ files = [n \in Spellings |-> Missing]
  /\ saving = NotSaving /\ saves = 0
  /\ answered = [k \in Keys |-> 0] /\ lost = {} /\ odd = {}

-----------------------------------------------------------------------------
(***************************************************************************)
(* Loading, and the end of the process.                                    *)
(***************************************************************************)

\* _load_profiles.  A file that is no JSON ends it: the files that come after
\* it in the directory are not loaded.
LoadProfiles ==
  /\ ~running /\ running' = TRUE
  /\ LET good == {n \in Spellings : files[n] \in Saves}
         torn == {n \in Spellings : files[n] = Torn}
     IN  \E loaded \in SUBSET good :
           /\ torn = {} => loaded = good
           /\ profiles' \in
                {s \in [1 .. Cardinality(loaded) ->
                          {[name |-> n, save |-> files[n]] : n \in loaded}] :
                   \A n \in loaded : \E i \in DOMAIN s : s[i].name = n}
           /\ odd' = {Lower[n] : n \in (good \cup torn) \ loaded}
  /\ UNCHANGED <<files, saving, saves, answerVars>>

\* What the save has taken from the disk by now, and not put back.
Exposed ==
  IF saving = NotSaving THEN {}
  ELSE {k \in Keys :
          \/ saving.removed /\ k = Lower[saving.old]
          \/ saving.at = "write" /\ k = Lower[saving.profile.name]}

CrashSaving ==
  /\ running /\ running' = FALSE
  /\ profiles' = <<>> /\ saving' = NotSaving
  /\ lost' = lost \cup Exposed
  /\ UNCHANGED <<files, saves, answered, odd>>

-----------------------------------------------------------------------------
(***************************************************************************)
(* update_profile.                                                         *)
(***************************************************************************)
First(n, i) ==
  /\ i \in DOMAIN profiles /\ Lower[profiles[i].name] = Lower[n]
  /\ \A j \in 1 .. i - 1 : Lower[profiles[j].name] # Lower[n]

NoneOf(n) == \A p \in ListedProfiles : Lower[p.name] # Lower[n]

\* No profile has the name.  A "rename" that is sent is not looked at.
CreateProfile(n) ==
  /\ running /\ saving = NotSaving /\ saves < MaxSaves
  /\ NoneOf(n)
  /\ LET profile == [name |-> n, save |-> saves + 1]
     IN  /\ profiles' = Append(profiles, profile)
         /\ saving' = [at |-> "open", removed |-> FALSE, old |-> n,
                        profile |-> profile]
  /\ saves' = saves + 1
  /\ UNCHANGED <<running, files, answerVars, odd>>

\* History: the profile is saved under another spelling than its own, so that
\* its file stays or is not found, or under the name of another profile.
Strays(i, n, name) ==
  (IF profiles[i].name # n THEN {Lower[n]} ELSE {})
    \cup (IF \E j \in DOMAIN profiles \ {i} : profiles[j].name = name
          THEN {Lower[name]} ELSE {})

\* The list is changed first.  With "rename" the file is removed, of the name
\* as it was sent, even when the new name is the old one.
UpdateProfile(n, rename) ==
  /\ running /\ saving = NotSaving /\ saves < MaxSaves
  /\ \E i \in DOMAIN profiles :
       LET name == IF rename = Same THEN n ELSE rename
           profile == [name |-> name, save |-> saves + 1]
       IN  /\ First(n, i)
           /\ profiles' = [profiles EXCEPT ![i] = profile]
           /\ saving' = [at |-> IF rename = Same THEN "open" ELSE "remove",
                         removed |-> FALSE, old |-> n, profile |-> profile]
           /\ odd' = odd \cup Strays(i, n, name)
  /\ saves' = saves + 1
  /\ UNCHANGED <<running, files, answerVars>>

RemoveOriginal ==
  /\ saving.at = "remove" /\ files[saving.old] # Missing
  /\ files' = [files EXCEPT ![saving.old] = Missing]
  /\ saving' = [saving EXCEPT !.at = "open", !.removed = TRUE]
  /\ UNCHANGED <<running, profiles, saves, answerVars, odd>>

OpenProfile ==
  /\ saving.at = "open"
  /\ files' = [files EXCEPT ![saving.profile.name] = Torn]
  /\ saving' = [saving EXCEPT !.at = "write"]
  /\ UNCHANGED <<running, profiles, saves, answerVars, odd>>

\* History: a save is answered, and with it the rename it made.
Answer ==
  LET key == Lower[saving.profile.name]
  IN  /\ answered' = [k \in Keys |->
                        IF k = key THEN saving.profile.save
                        ELSE IF k \in Exposed THEN 0 ELSE answered[k]]
      /\ lost' = lost \ {key}

\* Mutant: the original file is removed when the other one is written.
WriteProfileMutant ==
  /\ saving.at = "write"
  /\ files' = [files EXCEPT ![saving.profile.name] = saving.profile.save,
                            ![saving.old] = Missing]
  /\ saving' = NotSaving
  /\ Answer
  /\ UNCHANGED <<running, profiles, saves, odd>>

WriteProfile ==
  /\ saving.at = "write"
  /\ files' = [files EXCEPT ![saving.profile.name] = saving.profile.save]
  /\ saving' = NotSaving
  /\ Answer
  /\ UNCHANGED <<running, profiles, saves, odd>>

\* A file that is to be removed is missing, or what is asked of a file fails:
\* the list stays changed.
SaveFails ==
  /\ saving # NotSaving
  /\ saving' = NotSaving
  /\ odd' = odd \cup {Lower[saving.old], Lower[saving.profile.name]}
  /\ lost' = lost \cup Exposed
  /\ UNCHANGED <<running, profiles, files, saves, answered>>

-----------------------------------------------------------------------------
WithoutProfile(i) == SubSeq(profiles, 1, i - 1)
                       \o SubSeq(profiles, i + 1, Len(profiles))

\* Mutant: the profile is taken off the list though its file is not removed.
DeleteFailsMutant(n) ==
  /\ running /\ saving = NotSaving
  /\ \E i \in DOMAIN profiles : First(n, i) /\ profiles' = WithoutProfile(i)
  /\ UNCHANGED <<running, files, saving, saves, answerVars, odd>>

\* delete_profile: nothing is deleted when the file cannot be removed.
DeleteFails(n) ==
  /\ running /\ saving = NotSaving
  /\ \E i \in DOMAIN profiles : First(n, i)
  /\ UNCHANGED profileVars

DeleteProfile(n) ==
  /\ running /\ saving = NotSaving
  /\ \E i \in DOMAIN profiles :
       /\ First(n, i) /\ files[profiles[i].name] # Missing
       /\ files' = [files EXCEPT ![profiles[i].name] = Missing]
       /\ profiles' = WithoutProfile(i)
  /\ answered' = [answered EXCEPT ![Lower[n]] = 0]
  /\ UNCHANGED <<running, saving, saves, lost, odd>>

-----------------------------------------------------------------------------
SaveProfile ==
  \/ \E n \in Spellings : CreateProfile(n)
  \/ \E n \in Spellings, rename \in Spellings \cup {Same} :
       UpdateProfile(n, rename)
  \/ RemoveOriginal \/ OpenProfile \/ WriteProfile \/ SaveFails

RemoveProfile == \E n \in Spellings : DeleteProfile(n) \/ DeleteFails(n)

ProfileNext == LoadProfiles \/ CrashSaving \/ SaveProfile \/ RemoveProfile

ProfileSpec == ProfileInit /\ [][ProfileNext]_profileVars

-----------------------------------------------------------------------------
(***************************************************************************)
(* Properties.                                                             *)
(***************************************************************************)

\* What was answered last of a name is in a file of that name, until a rename
\* of it is answered or it is deleted: whatever is saved, renamed, refused or
\* deleted meanwhile under this or any other name and spelling, wherever a
\* save fails and wherever the process ends.  A file is taken from the disk
\* before it is written again, and that is the only way to lose what was
\* answered: such a save in progress is exempt, and such a one that failed or
\* was cut off, until the name is saved again.
AnsweredKept ==
  \A k \in Keys \ (lost \cup Exposed) :
    answered[k] # 0 => \E n \in FilesOf(k) : files[n] = answered[k]

\* At rest the profiles of a name are its files, but where a save failed, a
\* name was spelt otherwise or was that of another profile, or the file was
\* not loaded.
MemoryOnDisk ==
  running /\ saving = NotSaving
  => \A k \in Keys \ odd :
       {p \in ListedProfiles : Lower[p.name] = k}
         = {[name |-> n, save |-> files[n]] : n \in FilesOf(k)}

\* "Load existing profiles": a profile whose file is a valid one is loaded.
ExistingLoaded ==
  [][LoadProfiles =>
       \A n \in Spellings : files[n] \in Saves
         => \E i \in DOMAIN profiles' : profiles'[i].name = n]_profileVars
=============================================================================
