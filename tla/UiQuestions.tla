---------------------------- MODULE UiQuestions ----------------------------
(***************************************************************************)
(* A question of a risk profile that has many answers (dynamic-form in     *)
(* profile-form): its check boxes, of which one says "None of the above".  *)
(*                                                                         *)
(* The form listens to its own changes: when None is checked it takes the  *)
(* other boxes back, and None when another is checked.  What it does then  *)
(* is silent, and so is a box that is checked from a saved answer: the     *)
(* value that the next change is compared with is the last one that was    *)
(* emitted, not the last there was.                                        *)
(***************************************************************************)
EXTENDS Naturals, FiniteSetsExt

CONSTANTS
  Boxes,        \* the number of boxes
  NoneBox,      \* the place of the one that says None
  Assessments,  \* the profiles that are saved
  MaxTimers,    \* bound: selections of the last 100 ms
  MaxAnswers    \* bound: profiles that are saved again

ASSUME UiQuestionsAssumption ==
  /\ Boxes \in Nat /\ NoneBox \in 1 .. Boxes
  /\ "new" \notin Assessments
  /\ MaxTimers \in Nat \ {0} /\ MaxAnswers \in Nat

VARIABLES
  answers,     \* [Assessments -> the boxes of the saved answer]
  assessment,  \* the profile that the form shows, or "new"
  question,    \* the group of the boxes, and its value as last emitted
  timers,      \* selections that have yet to enable the form
  touched,     \* history: the user has checked or unchecked a box since
  took,        \* history: what the form changed of itself in the last step,
               \* and what nobody has set since a reset
  again,       \* history: boxes that were checked when the form had just taken
               \* them back or reset them, or with an answer of that kind
  resaved      \* bound

questionVars == <<answers, assessment, question, timers, touched, took, again, resaved>>

Box == 1 .. Boxes

\* The boxes that are checked and those that were reset, and what of them was
\* emitted last; any other is unchecked.
Group == [checked : SUBSET Box, unset : SUBSET Box,
          emitted : SUBSET Box, emittedUnset : SUBSET Box]

\* createProfileForm attaches the logic of None if its index is truthy: a None
\* that is the first option, of index 0, is a box like the others.
HasNoneLogic == NoneBox /= 1

\* None, and another box, where the form is to take one of them back.
Contradicts(answer) ==
  HasNoneLogic /\ NoneBox \in answer /\ answer /= {NoneBox}

questionTypeOK ==
  /\ answers \in [Assessments -> SUBSET Box]
  /\ assessment \in Assessments \cup {"new"}
  /\ question \in Group /\ question.checked \cap question.unset = {}
  /\ timers \in 0 .. MaxTimers /\ touched \in BOOLEAN
  /\ {took, again} \subseteq SUBSET Box
  /\ resaved \in 0 .. MaxAnswers

-----------------------------------------------------------------------------
(***************************************************************************)
(* The form.                                                               *)
(***************************************************************************)
Emits(q, checked, unset) ==
  [checked |-> checked, unset |-> unset,
   emitted |-> q.checked, emittedUnset |-> q.unset]

\* The first box that is checked now and was unchecked when the value was last
\* emitted; one that was reset was neither.
changedKey(q) == Min({Boxes + 1} \cup (q.checked \ (q.emitted \cup q.emittedUnset)))

\* Mutant: None stays where another box is checked.
applyNoneLogicMutant(q) ==
  IF changedKey(q) = NoneBox THEN Emits(q, {NoneBox}, {})
  ELSE Emits(q, q.checked, q.unset)

\* The group emits its value: the box that was checked takes back None, or
\* None the others, if the form listens.
applyNoneLogic(q) ==
  IF ~HasNoneLogic \/ changedKey(q) \notin Box
  THEN Emits(q, q.checked, q.unset)
  ELSE IF changedKey(q) = NoneBox THEN Emits(q, {NoneBox}, {})
  ELSE Emits(q, q.checked \ {NoneBox}, q.unset)

Check(q, i) == [q EXCEPT !.checked = @ \cup {i}, !.unset = @ \ {i}]
Uncheck(q, i) == [q EXCEPT !.checked = @ \ {i}, !.unset = @ \ {i}]

\* fillProfileForm: a box that is to be checked is so silently, the others
\* emit, one after the other.
fillProfileForm(q, answer) ==
  LET filled[i \in 0 .. Boxes] ==
        IF i = 0 THEN q
        ELSE IF i \in answer THEN Check(filled[i - 1], i)
        ELSE applyNoneLogic(Uncheck(filled[i - 1], i))
  IN filled[Boxes]

\* A form that is new has its boxes unchecked.
getMultiSelectGroup ==
  [checked |-> {}, unset |-> {}, emitted |-> {}, emittedUnset |-> {}]

\* The form without a profile: no box is checked or unchecked.
resetForm(q) == applyNoneLogic([q EXCEPT !.checked = {}, !.unset = Box])

Fills(q, p) ==
  /\ question' = fillProfileForm(q, answers'[p]) /\ assessment' = p
  /\ again' = IF Contradicts(answers'[p]) THEN question'.checked ELSE {}
  /\ took' = {}

\* Each selection enables the form 100 ms later.
Selects == timers < MaxTimers /\ timers' = timers + 1 /\ touched' = FALSE

questionInit ==
  /\ answers \in [Assessments -> SUBSET Box]
  /\ assessment = "new" /\ question = getMultiSelectGroup
  /\ timers = 0 /\ touched = FALSE /\ took = {} /\ again = {} /\ resaved = 0

\* The page is opened anew, with a profile or without; the timers of the last
\* one are of a form that is gone.
openAnew ==
  /\ timers' = 1 /\ touched' = FALSE /\ UNCHANGED <<answers, resaved>>
  /\ \/ /\ question' = getMultiSelectGroup /\ assessment' = "new"
        /\ took' = {} /\ again' = {}
     \/ \E p \in Assessments : Fills(getMultiSelectGroup, p)

\* Another profile is selected, its changes being saved or given up.
selectProfile ==
  /\ Selects /\ UNCHANGED <<answers, resaved>>
  /\ \E p \in Assessments \ {assessment} : Fills(question, p)

\* The button that creates a profile, from the form of another.
selectNone ==
  /\ assessment /= "new" /\ Selects /\ UNCHANGED <<answers, resaved>>
  /\ question' = resetForm(question) /\ assessment' = "new"
  /\ took' = Box /\ again' = {}

\* The timer enables the form, and every group of it emits.
enableForm ==
  /\ timers > 0 /\ timers' = timers - 1
  /\ question' = applyNoneLogic(question)
  /\ took' = question.unset \cup (question.checked \ question'.checked)
  /\ again' = again \cap question'.checked
  /\ UNCHANGED <<answers, assessment, touched, resaved>>

checkBox ==
  \E i \in Box :
    LET toggled == IF i \in question.checked THEN Uncheck(question, i)
                   ELSE Check(question, i)
    IN /\ question' = applyNoneLogic(toggled)
       /\ touched' = TRUE
       /\ took' = toggled.unset \cup (toggled.checked \ question'.checked)
       /\ again' = (again \cup (took \cap {i})) \cap question'.checked
       /\ UNCHANGED <<answers, assessment, timers, resaved>>

\* A profile is saved, and shown as it is saved.
saveAnswers ==
  /\ assessment /= "new" /\ resaved < MaxAnswers /\ resaved' = resaved + 1 /\ Selects
  /\ answers' = [answers EXCEPT ![assessment] = question.checked]
  /\ Fills(question, assessment)

questionNext ==
  \/ openAnew \/ selectProfile \/ selectNone
  \/ enableForm \/ checkBox \/ saveAnswers

-----------------------------------------------------------------------------
(***************************************************************************)
(* Properties.                                                             *)
(***************************************************************************)

\* The form listens to what it does itself, and compares with a value that may
\* be old.  A saved answer is shown as it is until the user touches it, whatever
\* was shown before and however many timers are due, as long as no answer that
\* is saved contradicts itself.  None is checked beside another box only where
\* one of the two was checked right after the form had taken it back or reset
\* it, or was loaded so; a None that is the first option is not exclusive at all
\* (Contradicts).
QuestionsAgree ==
  /\ assessment /= "new" /\ ~touched /\ (\A p \in Assessments : ~Contradicts(answers[p]))
       => question.checked = answers[assessment]
  /\ Contradicts(question.checked) => again \cap question.checked /= {}
=============================================================================
