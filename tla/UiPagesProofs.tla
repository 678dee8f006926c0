--------------------------- MODULE UiPagesProofs ---------------------------
(***************************************************************************)
(* Theorems about the pages of the user interface, first of each page by   *)
(* itself (those of the forms are in UiFormsProofs), then of UiPages, for  *)
(* any values of the constants.                                            *)
(***************************************************************************)
EXTENDS UiPages, UiFormsProofs

-----------------------------------------------------------------------------
(***************************************************************************)
(* The certificates page.  An answer that is on its way tells the truth of *)
(* every name that has not changed since it was made, and so the page      *)
(* shows the truth of every name but those of `stale', which grows with    *)
(* each change and shrinks with each answer.                               *)
(***************************************************************************)

certSpec == certInit /\ [][certNext]_certVars

\* A list tells the truth, but for the names that changed since it was made.
Current(S, since) ==
  \A n \in CertNames \ since : n \in Named(S) <=> n \in Named(stored)

AnswersCurrent ==
  /\ listing.at = "answered" => Current(listing.certs, missed["list"])
  /\ uploading.at = "answered" => Current(uploading.certs, missed["upload"])
  /\ deleting.at = "done" /\ deleting.name \notin missed["deletion"] =>
       deleting.name \notin Named(stored)

CertInv == certTypeOK /\ AnswersCurrent /\ CertificatesAgree

RowType == [name : Files, uploading : {TRUE}]
             \cup [name : CertNames, uploading : {FALSE}]

\* A list shows the names it was made of, and no other.
LEMMA ListedNames ==
  ASSUME NEW S \in SUBSET Files
  PROVE  /\ \A n : Row(n, FALSE) \in Listed(S) <=> n \in Named(S)
         /\ Listed(S) \subseteq RowType
         /\ Named(S) \subseteq CertNames
<1>1. Named(S) \subseteq CertNames
  BY DEF Named, CertNames
<1>2. \A n : Row(n, FALSE) \in Listed(S) <=> n \in Named(S)
  BY DEF Listed, Row
<1>3. \A n \in CertNames : Row(n, FALSE) \in RowType
  BY DEF Row, RowType
<1> QED
  BY <1>1, <1>2, <1>3 DEF Listed

\* Of the rows of a name those of another are left.
LEMMA RowsLeft ==
  ASSUME NEW S, NEW n
  PROVE  /\ \A m : Row(m, FALSE) \in removeCertificate(S, n)
                     <=> Row(m, FALSE) \in S /\ m # n
         /\ removeCertificate(S, n) \subseteq S
BY DEF removeCertificate, Row

\* What a request is at, and what it carries then.
LEMMA CertCalls ==
  ASSUME certTypeOK
  PROVE  /\ listing.at = "answered" => listing.certs \in SUBSET Files
         /\ uploading.at # "idle" => uploading.file \in Files
         /\ uploading.at = "answered" => uploading.certs \in SUBSET Files
         /\ deleting.at \in {"asked", "done"} =>
              /\ deleting.name \in CertNames /\ deleting # Failed
              /\ deleting \in [at : {"asked", "done"}, name : CertNames]
         /\ listing # Failed => listing.at # "failed"
BY DEF certTypeOK, Idle, Asked, Failed

\* A change is missed by every answer that is on its way.
LEMMA ChangesMissed ==
  ASSUME certTypeOK, NEW n \in CertNames, Changes(n)
  PROVE  /\ missed' \in [CertAnswers -> SUBSET CertNames]
         /\ stale' \subseteq CertNames /\ hidden' \subseteq CertNames
         /\ listing.at = "answered" => missed'["list"] = missed["list"] \cup {n}
         /\ uploading.at = "answered" =>
              missed'["upload"] = missed["upload"] \cup {n}
         /\ deleting.at = "done" =>
              missed'["deletion"] = missed["deletion"] \cup {n}
BY DEF Changes, OnItsWay, CertAnswers, certTypeOK

\* An answer is over: the others have missed what they have missed.
LEMMA OverOne ==
  ASSUME certTypeOK, NEW a \in CertAnswers, Over(a)
  PROVE  /\ missed' \in [CertAnswers -> SUBSET CertNames]
         /\ \A b \in CertAnswers \ {a} : missed'[b] = missed[b]
BY DEF Over, certTypeOK

LEMMA CertInitInv == certInit => CertInv
<1> SUFFICES ASSUME certInit PROVE CertInv
  OBVIOUS
<1>1. certTypeOK
  BY DEF certInit, certTypeOK, Idle, Asked
<1>2. AnswersCurrent
  BY DEF certInit, AnswersCurrent, Idle, Asked
<1>3. CertificatesAgree
  BY DEF certInit, CertificatesAgree
<1> QED
  BY <1>1, <1>2, <1>3 DEF CertInv

\* One name changes on the server, and all others are as they were.
LEMMA ChangeAgrees ==
  ASSUME CertInv, NEW n \in CertNames, Changes(n),
         \A m : m # n => (m \in Named(stored') <=> m \in Named(stored)),
         listing' = listing, rows' = rows,
         \/ uploading' = uploading
         \/ uploading'.at \in {"stored", "refused"},
         \/ deleting' = deleting
         \/ deleting'.at = "failed"
         \/ deleting'.name = n /\ n \notin Named(stored')
  PROVE  AnswersCurrent' /\ CertificatesAgree'
<1>1. certTypeOK /\ AnswersCurrent /\ CertificatesAgree
  BY DEF CertInv
<1>2. Named(stored)' = Named(stored')
  BY DEF Named
<1>3. listing'.at = "answered" => Current(listing.certs, missed["list"])'
  BY <1>1, <1>2, ChangesMissed DEF AnswersCurrent, Current, Named
<1>4. uploading'.at = "answered" => Current(uploading.certs, missed["upload"])'
  BY <1>1, <1>2, ChangesMissed DEF AnswersCurrent, Current, Named
<1>5. deleting'.at = "done" /\ deleting'.name \notin missed'["deletion"] =>
        deleting'.name \notin Named(stored')
  BY <1>1, <1>2, ChangesMissed DEF AnswersCurrent
<1>6. CertificatesAgree'
  BY <1>1, <1>2 DEF CertificatesAgree, Changes
<1> QED
  BY <1>2, <1>3, <1>4, <1>5, <1>6 DEF AnswersCurrent

\* Every step of the server and of the page keeps the two lists in step.
LEMMA CertNextInv == CertInv /\ [certNext]_certVars => CertInv'
<1> SUFFICES ASSUME CertInv, [certNext]_certVars PROVE CertInv'
  OBVIOUS
<1> USE DEF RowType
<1>t. certTypeOK /\ AnswersCurrent /\ CertificatesAgree
  BY DEF CertInv
<1>a. "list" \in CertAnswers /\ "upload" \in CertAnswers /\ "deletion" \in CertAnswers
  BY DEF CertAnswers
<1>1. CASE ServeUpload
  <2> DEFINE n == CommonName[uploading.file]
  <2>1. uploading.at = "posted" /\ uploading.file \in Files /\ n \in CertNames
    BY <1>1, <1>t, CertCalls DEF ServeUpload, CertNames
  <2>2. uploading' \in [at : {"posted", "refused", "stored", "asked"}, file : Files]
        /\ uploading'.at \in {"stored", "refused"}
    BY <1>1, <1>t, <2>1 DEF ServeUpload, certTypeOK, Idle
  <2>3. CASE UNCHANGED <<stored, historyVars>>
    <3>1. certTypeOK'
      BY <1>1, <1>t, <2>2, <2>3 DEF ServeUpload, certTypeOK, historyVars
    <3>2. AnswersCurrent' /\ CertificatesAgree'
      BY <1>1, <1>t, <2>2, <2>3
      DEF ServeUpload, AnswersCurrent, Current, CertificatesAgree, Named, historyVars
    <3> QED
      BY <3>1, <3>2 DEF CertInv
  <2>4. CASE stored' = stored \cup {uploading.file} /\ Changes(n)
    <3>1. certTypeOK'
      BY <1>1, <1>t, <2>1, <2>2, <2>4, ChangesMissed DEF ServeUpload, certTypeOK
    <3>2. \A m : m # n => (m \in Named(stored') <=> m \in Named(stored))
      BY <2>4 DEF Named
    <3> HIDE DEF n
    <3>3. AnswersCurrent' /\ CertificatesAgree'
      BY <1>1, <2>1, <2>2, <2>4, <3>2, ChangeAgrees DEF ServeUpload
    <3> QED
      BY <3>1, <3>3 DEF CertInv
  <2> QED
    BY <1>1, <2>3, <2>4 DEF ServeUpload
<1>2. CASE ServeDelete
  <2> DEFINE n == deleting.name
             gone == {f \in stored : CommonName[f] = n}
  <2>1. deleting.at = "asked" /\ n \in CertNames
        /\ deleting \in [at : {"asked", "done"}, name : CertNames]
    BY <1>2, <1>t, CertCalls DEF ServeDelete
  <2>2. CASE UNCHANGED <<stored, historyVars>> /\ deleting' = Failed
    <3>1. certTypeOK'
      BY <1>2, <1>t, <2>2 DEF ServeDelete, certTypeOK, historyVars
    <3>2. AnswersCurrent' /\ CertificatesAgree'
      BY <1>2, <1>t, <2>2
      DEF ServeDelete, AnswersCurrent, Current, CertificatesAgree, Named, Failed,
          historyVars
    <3> QED
      BY <3>1, <3>2 DEF CertInv
  <2>3. CASE /\ stored' = stored \ gone /\ Changes(n)
             /\ deleting' \in {[deleting EXCEPT !.at = "done"], Failed}
    <3>0. \/ deleting' = Failed
          \/ /\ deleting' \in [at : {"asked", "done"}, name : CertNames]
             /\ deleting'.name = n
      BY <2>1, <2>3
    <3>1. certTypeOK'
      BY <1>2, <1>t, <2>1, <2>3, <3>0, ChangesMissed DEF ServeDelete, certTypeOK
    <3>2. /\ \A m : m # n => (m \in Named(stored') <=> m \in Named(stored))
          /\ n \notin Named(stored')
      BY <2>3 DEF Named
    <3>3. UNCHANGED <<rows, listing, uploading>>
      BY <1>2 DEF ServeDelete
    <3>4. deleting'.at = "failed" \/ deleting'.name = n
      BY <3>0 DEF Failed
    <3> HIDE DEF n
    <3>5. AnswersCurrent' /\ CertificatesAgree'
      BY <2>1, <2>3, <3>2, <3>3, <3>4, ChangeAgrees
    <3> QED
      BY <3>1, <3>5 DEF CertInv
  <2> QED
    BY <1>2, <2>2, <2>3 DEF ServeDelete
<1>3. CASE ServeList
  <2>1. UNCHANGED <<stored, rows, deleting, removing, stale, missed, hidden>>
    BY <1>3 DEF ServeList, historyVars
  <2>2. \/ /\ listing' \in {[at |-> "answered", certs |-> stored], Failed}
           /\ uploading' = uploading
        \/ /\ uploading.at = "asked" /\ listing' = listing
           /\ uploading' \in {[at |-> "answered", file |-> uploading.file,
                               certs |-> stored],
                              [at |-> "refused", file |-> uploading.file]}
    BY <1>3 DEF ServeList
  <2>3. certTypeOK'
    <3>1. uploading.at = "asked" => uploading.file \in Files
      BY <1>t, CertCalls
    <3>2. CASE uploading' = uploading
      <4>1. [at |-> "answered", certs |-> stored] \in
              [at : {"answered"}, certs : SUBSET Files]
        BY <1>t DEF certTypeOK
      <4>2. listing' \in {Idle, Asked, Failed}
                         \cup [at : {"answered"}, certs : SUBSET Files]
        BY <1>t, <2>2, <4>1 DEF certTypeOK
      <4> QED
        BY <1>t, <2>1, <3>2, <4>2 DEF certTypeOK
    <3>3. CASE listing' = listing /\ uploading.at = "asked"
      <4>1. uploading' \in [at : {"posted", "refused", "stored", "asked"}, file : Files]
                \cup [at : {"answered"}, file : Files, certs : SUBSET Files]
        BY <1>t, <2>2, <3>1, <3>3 DEF certTypeOK, Idle, Asked, Failed
      <4> QED
        BY <1>t, <2>1, <3>3, <4>1 DEF certTypeOK
    <3> QED
      BY <2>2, <3>2, <3>3
  <2>4. \A since : Current(stored, since)' /\ Named(stored)' = Named(stored)
    BY <2>1 DEF Current, Named
  <2>5. AnswersCurrent'
    BY <1>t, <2>1, <2>2, <2>4 DEF AnswersCurrent, Current, Failed
  <2>6. CertificatesAgree'
    BY <1>t, <2>1, <2>4 DEF CertificatesAgree
  <2> QED
    BY <2>3, <2>5, <2>6 DEF CertInv
<1>4. CASE getCertificates
  <2>1. UNCHANGED <<stored, uploading, deleting, removing>> /\ listing' = Idle
    BY <1>4 DEF getCertificates
  <2>2. /\ missed'["upload"] = missed["upload"]
        /\ missed'["deletion"] = missed["deletion"]
        /\ missed' \in [CertAnswers -> SUBSET CertNames]
    BY <1>4, <1>t, <1>a, OverOne DEF getCertificates, Shows, certTypeOK
  <2>3. AnswersCurrent'
    BY <1>t, <2>1, <2>2 DEF AnswersCurrent, Current, Named, Idle
  <2>4. CASE listing.at = "answered" /\ Shows(listing.certs, "list")
    <3>1. listing.certs \in SUBSET Files /\ missed["list"] \subseteq CertNames
      BY <1>t, <1>a, <2>4, CertCalls DEF certTypeOK
    <3>2. certTypeOK'
      BY <1>t, <2>1, <2>2, <2>4, <3>1, ListedNames DEF certTypeOK, Shows
    <3>3. CertificatesAgree'
      BY <1>t, <2>1, <2>4, <3>1, ListedNames
      DEF CertificatesAgree, AnswersCurrent, Current, Shows, Named
    <3> QED
      BY <2>3, <3>2, <3>3 DEF CertInv
  <2>5. CASE rows' = {} /\ stale' = CertNames /\ hidden' = {}
    <3>1. certTypeOK'
      BY <1>t, <2>1, <2>2, <2>5 DEF certTypeOK
    <3>2. CertificatesAgree'
      BY <2>5 DEF CertificatesAgree
    <3> QED
      BY <2>3, <3>1, <3>2 DEF CertInv
  <2> QED
    BY <1>4, <2>4, <2>5 DEF getCertificates
<1>5. CASE Deleted
  <2>1. UNCHANGED <<stored, listing, uploading, removing>> /\ deleting' = Idle
    BY <1>5 DEF Deleted
  <2>2. CASE UNCHANGED <<rows, historyVars>>
    <3>1. certTypeOK'
      BY <1>t, <2>1, <2>2 DEF certTypeOK, historyVars
    <3>2. AnswersCurrent' /\ CertificatesAgree'
      BY <1>t, <2>1, <2>2
      DEF AnswersCurrent, Current, CertificatesAgree, Named, Idle, historyVars
    <3> QED
      BY <3>1, <3>2 DEF CertInv
  <2>3. CASE /\ deleting.at = "done"
             /\ rows' = removeCertificate(rows, deleting.name)
             /\ HeardDeleted(deleting.name)
    <3>1. deleting.name \in CertNames
      BY <1>t, <2>3, CertCalls
    <3>2. /\ missed'["list"] = missed["list"]
          /\ missed'["upload"] = missed["upload"]
          /\ missed' \in [CertAnswers -> SUBSET CertNames]
      BY <1>t, <1>a, <2>3, OverOne DEF HeardDeleted
    <3>3. certTypeOK'
      BY <1>t, <2>1, <2>3, <3>1, <3>2, RowsLeft DEF certTypeOK, HeardDeleted
    <3>4. AnswersCurrent'
      BY <1>t, <2>1, <3>2 DEF AnswersCurrent, Current, Named, Idle
    <3>5. CertificatesAgree'
      <4> SUFFICES ASSUME NEW n \in CertNames, n \notin stale'
                   PROVE  n \in Named(stored) <=>
                            Row(n, FALSE) \in rows' \/ n \in hidden'
        BY <2>1 DEF CertificatesAgree, Named
      <4>1. CASE n = deleting.name
        BY <1>t, <2>3, <4>1, RowsLeft DEF AnswersCurrent, HeardDeleted
      <4>2. CASE n # deleting.name
        <5>1. n \notin stale /\ (n \in hidden' <=> n \in hidden)
          BY <2>3, <4>2 DEF HeardDeleted
        <5> QED
          BY <1>t, <2>3, <4>2, <5>1, RowsLeft DEF CertificatesAgree
      <4> QED
        BY <4>1, <4>2
    <3> QED
      BY <3>3, <3>4, <3>5 DEF CertInv
  <2> QED
    <3>1. deleting # Failed => deleting.at # "failed"
      BY <1>t DEF certTypeOK, Idle, Failed
    <3> QED
      BY <1>5, <2>2, <2>3, <3>1 DEF Deleted
<1>6. CASE deleteCertificate
  <2>1. UNCHANGED <<stored, rows, listing, uploading, stale, hidden>>
    BY <1>6 DEF deleteCertificate
  <2>2. /\ missed'["list"] = missed["list"]
        /\ missed'["upload"] = missed["upload"]
        /\ missed' \in [CertAnswers -> SUBSET CertNames]
    BY <1>6, <1>t, <1>a, OverOne DEF deleteCertificate, certTypeOK
  <2>3. removing' \in CertNames \cup {NoName}
    BY <1>6, <1>t DEF deleteCertificate, certTypeOK
  <2>4. \/ deleting' = deleting /\ missed' = missed
        \/ /\ deleting' \in [at : {"asked", "done"}, name : CertNames]
           /\ deleting'.at = "asked"
    BY <1>6, <1>t DEF deleteCertificate, certTypeOK
  <2>5. certTypeOK'
    BY <1>t, <2>1, <2>2, <2>3, <2>4 DEF certTypeOK
  <2>6. AnswersCurrent' /\ CertificatesAgree'
    BY <1>t, <2>1, <2>2, <2>4 DEF AnswersCurrent, Current, CertificatesAgree, Named
  <2> QED
    BY <2>5, <2>6 DEF CertInv
<1>7. CASE Uploaded
  <2>1. UNCHANGED <<stored, listing, deleting, removing>>
    BY <1>7 DEF Uploaded
  <2>2. CASE uploading.at = "stored"
    <3>0. /\ uploading' = [uploading EXCEPT !.at = "asked"]
          /\ UNCHANGED <<rows, stale, missed, hidden>>
      BY <1>7, <2>2 DEF Uploaded, historyVars
    <3>1. certTypeOK' /\ uploading'.at = "asked"
      <4>1. uploading \in [at : {"posted", "refused", "stored", "asked"}, file : Files]
        BY <1>t, <2>2 DEF certTypeOK, Idle
      <4> QED
        BY <1>t, <2>1, <3>0, <4>1 DEF certTypeOK
    <3>2. AnswersCurrent' /\ CertificatesAgree'
      BY <1>t, <2>1, <3>0, <3>1
      DEF AnswersCurrent, Current, CertificatesAgree, Named
    <3> QED
      BY <3>1, <3>2 DEF CertInv
  <2>3. CASE uploading.at = "answered"
    <3> DEFINE S == uploading.certs
               f == uploading.file
    <3>0. S \in SUBSET Files /\ f \in Files /\ missed["upload"] \subseteq CertNames
      BY <1>t, <1>a, <2>3, CertCalls DEF certTypeOK
    <3>1. /\ uploading' = Idle /\ stale' = missed["upload"] /\ Over("upload")
          /\ \/ rows' = Listed(S) /\ hidden' = {}
             \/ /\ rows' = removeCertificate(Listed(S), f)
                /\ hidden' = {f} \cap Named(S)
      BY <1>7, <2>3 DEF Uploaded, Shows
    <3>2. /\ missed'["list"] = missed["list"]
          /\ missed'["deletion"] = missed["deletion"]
          /\ missed' \in [CertAnswers -> SUBSET CertNames]
      BY <1>t, <1>a, <3>1, OverOne
    <3>3. Named(S) \subseteq CertNames /\ rows' \subseteq Listed(S)
          /\ Listed(S) \subseteq RowType
      BY <3>0, <3>1, ListedNames, RowsLeft
    <3>4. certTypeOK'
      BY <1>t, <2>1, <3>0, <3>1, <3>2, <3>3 DEF certTypeOK
    <3>5. AnswersCurrent'
      BY <1>t, <2>1, <3>1, <3>2 DEF AnswersCurrent, Current, Named, Idle
    <3>6. CertificatesAgree'
      <4> SUFFICES ASSUME NEW n \in CertNames, n \notin missed["upload"]
                   PROVE  n \in Named(stored) <=>
                            Row(n, FALSE) \in rows' \/ n \in hidden'
        BY <2>1, <3>1 DEF CertificatesAgree, Named
      <4>1. n \in Named(S) <=> n \in Named(stored)
        BY <1>t, <2>3 DEF AnswersCurrent, Current
      <4>2. Row(n, FALSE) \in Listed(S) <=> n \in Named(S)
        BY <3>0, ListedNames
      <4> QED
        BY <3>1, <4>1, <4>2, RowsLeft
    <3> QED
      BY <3>4, <3>5, <3>6 DEF CertInv
  <2>4. CASE uploading.at = "refused"
    <3> DEFINE f == uploading.file
    <3>0. f \in Files
      BY <1>t, <2>4, CertCalls
    <3>1. /\ uploading' = Idle /\ UNCHANGED <<stale, missed>>
          /\ rows' = removeCertificate(rows, f)
          /\ hidden' = hidden \cup {n \in {f} : Row(n, FALSE) \in rows}
      BY <1>7, <2>4 DEF Uploaded
    <3>2. \A n : Row(n, FALSE) \in rows => n \in CertNames
      BY <1>t DEF certTypeOK, Row
    <3>3. certTypeOK'
      BY <1>t, <2>1, <3>1, <3>2, RowsLeft DEF certTypeOK
    <3>4. AnswersCurrent'
      BY <1>t, <2>1, <3>1 DEF AnswersCurrent, Current, Named, Idle
    <3>5. CertificatesAgree'
      <4> SUFFICES ASSUME NEW n \in CertNames, n \notin stale
                   PROVE  n \in Named(stored) <=>
                            Row(n, FALSE) \in rows' \/ n \in hidden'
        BY <2>1, <3>1 DEF CertificatesAgree, Named
      <4> QED
        BY <1>t, <3>1, RowsLeft DEF CertificatesAgree
    <3> QED
      BY <3>3, <3>4, <3>5 DEF CertInv
  <2> QED
    BY <1>7, <2>2, <2>3, <2>4 DEF Uploaded
<1>8. CASE Reopen
  <2>1. certTypeOK'
    BY <1>8, <1>t DEF Reopen, certTypeOK
  <2>2. AnswersCurrent' /\ CertificatesAgree'
    BY <1>8 DEF Reopen, AnswersCurrent, CertificatesAgree, Idle, Asked
  <2> QED
    BY <2>1, <2>2 DEF CertInv
<1>9. ASSUME NEW f \in Files, uploadCertificate(f) PROVE CertInv'
  <2>1. UNCHANGED <<stored, listing, deleting, removing, stale, hidden>>
    BY <1>9 DEF uploadCertificate
  <2>2. \/ uploading' = Idle /\ rows' = rows
        \/ uploading' = [at |-> "posted", file |-> f] /\ rows' = rows \cup {Row(f, TRUE)}
    BY <1>9 DEF uploadCertificate, addCertificate
  <2>3. /\ missed'["list"] = missed["list"]
        /\ missed'["deletion"] = missed["deletion"]
        /\ missed' \in [CertAnswers -> SUBSET CertNames]
    BY <1>9, <1>t, <1>a, OverOne DEF uploadCertificate
  <2>4. rows' \subseteq RowType /\ uploading'.at # "answered"
        /\ \A n : Row(n, FALSE) \in rows' <=> Row(n, FALSE) \in rows
    <3>1. Row(f, TRUE) \in RowType /\ \A n : Row(n, FALSE) # Row(f, TRUE)
      BY <1>9 DEF Row
    <3>2. rows \subseteq RowType
      BY <1>t DEF certTypeOK
    <3>3. uploading'.at # "answered"
      <4>1. uploading' \in {[at |-> "idle"], [at |-> "posted", file |-> f]}
        BY <1>9 DEF uploadCertificate, Idle
      <4> QED
        BY <4>1
    <3> HIDE DEF RowType
    <3> QED
      BY <2>2, <3>1, <3>2, <3>3
  <2>5. certTypeOK'
    <3>1. uploading' \in {Idle} \cup [at : {"posted", "refused", "stored", "asked"},
                                     file : Files]
      <4>1. [at |-> "posted", file |-> f] \in
              [at : {"posted", "refused", "stored", "asked"}, file : Files]
        BY <1>9
      <4> QED
        BY <2>2, <4>1
    <3> QED
      BY <1>t, <2>1, <2>3, <2>4, <3>1 DEF certTypeOK
  <2>6. AnswersCurrent' /\ CertificatesAgree'
    BY <1>t, <2>1, <2>3, <2>4 DEF AnswersCurrent, Current, CertificatesAgree, Named
  <2> QED
    BY <2>5, <2>6 DEF CertInv
<1>10. CASE UNCHANGED certVars
  BY <1>10, <1>t
  DEF certVars, historyVars, CertInv, certTypeOK, AnswersCurrent, Current,
      CertificatesAgree, Named
<1> QED
  BY <1>1, <1>2, <1>3, <1>4, <1>5, <1>6, <1>7, <1>8, <1>9, <1>10 DEF certNext

\* The page lists what the server keeps, for every name of which it has heard
\* the latest, but for a row that a failed upload took off because its file had
\* that name (certificates.store.ts).
THEOREM CertificatesListed == certSpec => []CertificatesAgree
<1>1. CertInv => CertificatesAgree
  BY DEF CertInv
<1> QED
  BY CertInitInv, CertNextInv, <1>1, PTL DEF certSpec

-----------------------------------------------------------------------------
(***************************************************************************)
(* The general settings.  A save that is under way carries two different   *)
(* ports, if any, which is why the server may take it at any moment, heard *)
(* or not; and the form either has changes, or waits for an answer that    *)
(* will fill it anew, or shows the configuration of the store.             *)
(***************************************************************************)

settingSpec == settingInit /\ [][settingNext]_settingVars

\* One port is not configured for both sides.
Apart(c) == c.device_intf = c.internet_intf => c.device_intf = NoPort

\* settingTypeOK in parts, one for each group of variables.
Body == [at : {"asked", "done"}, body : SystemConfig]
ConfigsOK == config \in SystemConfig /\ systemConfig \in SystemConfig
PortsOK ==
  /\ present \subseteq Ports /\ interfaces \subseteq Ports /\ options \subseteq Ports
  /\ adapters \in {Idle} \cup [at : {"sent"}, added : SUBSET Ports,
                                removed : SUBSET Ports]
CallsOK ==
  /\ getConfig \in {Idle, Asked} \cup [at : {"answered"}, body : SystemConfig]
  /\ getPorts \in {Idle, Asked} \cup [at : {"answered"}, body : SUBSET Ports]
SwitchesOK ==
  /\ single_intf \in BOOLEAN /\ isOpen \in BOOLEAN /\ dirty \in BOOLEAN
  /\ inProgress \in BOOLEAN /\ isSubmitting \in BOOLEAN /\ dead \in BOOLEAN
FormOK == form \in SystemConfig
EventsOK == events \in 0 .. MaxEvents

SaveOK ==
  /\ posting \in {Idle, Failed} \cup Body
  /\ posting \in Body => Apart(posting.body)
  /\ Apart(config)
FormFollows == isOpen /\ ~dirty /\ posting = Idle /\ ~dead => FormShows(form, systemConfig)

SettingInv ==
  /\ ConfigsOK /\ PortsOK /\ CallsOK /\ SwitchesOK /\ FormOK /\ EventsOK
  /\ SaveOK /\ FormFollows

LEMMA InvTypes == SettingInv => settingTypeOK /\ SettingsSound
<1> SUFFICES ASSUME SettingInv PROVE settingTypeOK /\ SettingsSound
  OBVIOUS
<1>1. settingTypeOK
  BY DEF SettingInv, ConfigsOK, PortsOK, CallsOK, SwitchesOK, FormOK, EventsOK, SaveOK,
         Body, settingTypeOK
<1>2. SettingsSound
  BY DEF SettingInv, SaveOK, FormFollows, Apart, SettingsSound
<1>3. QED  BY <1>1, <1>2

\* The kinds of a save that is under way.
LEMMA PostingKinds ==
  ASSUME posting \in {Idle, Failed} \cup Body
  PROVE  /\ posting.at \in {"asked", "done"} <=> posting \in Body
         /\ posting.at = "failed" <=> posting = Failed
         /\ posting \in Body => posting.body \in SystemConfig
         /\ posting \in Body => posting \notin {Idle, Failed}
BY DEF Idle, Failed, Body

\* The form that setDefaultFormValues makes shows the configuration.
LEMMA DefaultsShow ==
  ASSUME NEW c \in SystemConfig, NEW known \in SUBSET Ports, form \in SystemConfig
  PROVE  /\ setDefaultFormValues(c, known) \in SystemConfig
         /\ FormShows(setDefaultFormValues(c, known), c)
         /\ [setDefaultFormValues(c, known) EXCEPT !.internet_intf = NoPort]
              \in SystemConfig
         /\ FormShows([setDefaultFormValues(c, known) EXCEPT !.internet_intf = NoPort], c)
<1> DEFINE f == setDefaultFormValues(c, known)
<1>1. /\ c.device_intf \in Ports \cup {NoPort} /\ c.internet_intf \in Ports \cup {NoPort}
      /\ c.log_level \in Levels /\ form.internet_intf \in Ports \cup {NoPort}
  BY DEF SystemConfig
<1>2. /\ f.device_intf \in {c.device_intf, NoPort}
      /\ f.internet_intf \in Ports \cup {NoPort}
      /\ single_intf \/ f.internet_intf \in {c.internet_intf, NoPort}
      /\ f.log_level = c.log_level
  BY <1>1 DEF setDefaultFormValues, setDefaultValue
<1>3. f = [device_intf |-> f.device_intf, internet_intf |-> f.internet_intf,
           log_level |-> f.log_level]
  BY DEF setDefaultFormValues
<1> HIDE DEF f
<1>4. f \in SystemConfig  BY <1>1, <1>2, <1>3 DEF SystemConfig
<1>5. [f EXCEPT !.internet_intf = NoPort] \in SystemConfig  BY <1>4 DEF SystemConfig
<1>6. /\ [f EXCEPT !.internet_intf = NoPort].device_intf = f.device_intf
      /\ [f EXCEPT !.internet_intf = NoPort].internet_intf = NoPort
      /\ [f EXCEPT !.internet_intf = NoPort].log_level = f.log_level
  BY <1>4 DEF SystemConfig
<1>7. QED  BY <1>2, <1>4, <1>5, <1>6 DEF FormShows, f

LEMMA InitSetting == settingInit => SettingInv
<1> SUFFICES ASSUME settingInit PROVE SettingInv
  OBVIOUS
<1>1. config \in SystemConfig /\ Apart(config)
  BY UiSettingsAssumption DEF settingInit, Apart, EmptyConfig
<1>2. EmptyConfig \in SystemConfig
  BY UiSettingsAssumption DEF EmptyConfig, SystemConfig
<1>3. 0 \in 0 .. MaxEvents  BY UiSettingsAssumption
<1>4. Idle \notin Body  BY DEF Idle, Body
<1>5. QED
  BY <1>1, <1>2, <1>3, <1>4
  DEF settingInit, SettingInv, ConfigsOK, PortsOK, CallsOK, SwitchesOK, FormOK,
      EventsOK, SaveOK, FormFollows

\* What a step leaves alone keeps its part of the invariant.
LEMMA SettingFrames ==
  /\ ConfigsOK /\ UNCHANGED <<config, systemConfig>> => ConfigsOK'
  /\ PortsOK /\ UNCHANGED <<present, interfaces, options, adapters>> => PortsOK'
  /\ CallsOK /\ UNCHANGED <<getConfig, getPorts>> => CallsOK'
  /\ FormOK /\ UNCHANGED form => FormOK'
  /\ SaveOK /\ UNCHANGED <<posting, config>> => SaveOK'
BY DEF ConfigsOK, PortsOK, CallsOK, FormOK, SaveOK

LEMMA EventsStep == EventsOK /\ settingNext => EventsOK'
<1> SUFFICES ASSUME EventsOK, settingNext PROVE EventsOK'
  OBVIOUS
<1>1. MaxEvents \in Nat  BY UiSettingsAssumption
<1>2. (events < MaxEvents /\ events' = events + 1) \/ events' = events
  BY DEF settingNext
<1>3. QED  BY <1>1, <1>2 DEF EventsOK

LEMMA NextSetting == SettingInv /\ [settingNext]_settingVars => SettingInv'
<1> SUFFICES ASSUME SettingInv, [settingNext]_settingVars PROVE SettingInv'
  OBVIOUS
<1>0. /\ ConfigsOK /\ PortsOK /\ CallsOK /\ SwitchesOK /\ FormOK /\ EventsOK
      /\ SaveOK /\ FormFollows
  BY DEF SettingInv
<1>e. settingNext => EventsOK'  BY <1>0, EventsStep
<1>1. CASE settingNext /\ ngOnInit
  <2>1. UNCHANGED <<config, present, single_intf, adapters, systemConfig, interfaces,
                    posting>>
    BY <1>1 DEF ngOnInit, serverSettings
  <2>2. /\ options' = {} /\ getConfig' = Asked /\ getPorts' = Asked /\ isOpen' = TRUE
        /\ dirty' = FALSE /\ isSubmitting' = FALSE /\ inProgress' \in BOOLEAN
        /\ dead' = FALSE
    BY <1>1 DEF ngOnInit
  <2>3. form' \in SystemConfig /\ FormShows(form', systemConfig)
    BY <1>0, <1>1, DefaultsShow DEF ngOnInit, ConfigsOK, FormOK
  <2>4. ConfigsOK' /\ SaveOK'  BY <1>0, <2>1, SettingFrames
  <2>5. PortsOK'  BY <1>0, <2>1, <2>2 DEF PortsOK
  <2>6. CallsOK'  BY <2>2 DEF CallsOK
  <2>7. SwitchesOK'  BY <1>0, <2>1, <2>2 DEF SwitchesOK
  <2>8. FormFollows'  BY <2>1, <2>3 DEF FormFollows, FormShows
  <2>9. QED
    BY <1>1, <1>e, <2>3, <2>4, <2>5, <2>6, <2>7, <2>8 DEF SettingInv, FormOK
<1>2. CASE settingNext /\ reloadSetting
  <2>1. UNCHANGED <<config, present, single_intf, adapters, systemConfig, interfaces,
                    isOpen, options, dirty, inProgress, posting, dead>>
    BY <1>2 DEF reloadSetting, serverSettings, saveSettings
  <2>2. getConfig' = Asked /\ getPorts' = Asked /\ isSubmitting' = FALSE
    BY <1>2 DEF reloadSetting
  <2>3. form' \in SystemConfig /\ FormShows(form', systemConfig)
    BY <1>0, <1>2, DefaultsShow DEF reloadSetting, ConfigsOK, FormOK, PortsOK
  <2>4. ConfigsOK' /\ SaveOK' /\ PortsOK'  BY <1>0, <2>1, SettingFrames
  <2>5. CallsOK'  BY <2>2 DEF CallsOK
  <2>6. SwitchesOK'  BY <1>0, <2>1, <2>2 DEF SwitchesOK
  <2>7. FormFollows'  BY <2>1, <2>3 DEF FormFollows, FormShows
  <2>8. QED
    BY <1>2, <1>e, <2>3, <2>4, <2>5, <2>6, <2>7 DEF SettingInv, FormOK
<1>3. CASE settingNext /\ statusChanges
  <2>1. UNCHANGED <<config, present, single_intf, adapters, systemConfig, interfaces,
                    getConfig, getPorts, isOpen, options, form, dirty, isSubmitting,
                    posting, dead>>
    BY <1>3 DEF statusChanges, serverSettings, storeSettings, saveSettings
  <2>2. inProgress' \in BOOLEAN  BY <1>3 DEF statusChanges
  <2>3. ConfigsOK' /\ SaveOK' /\ PortsOK' /\ CallsOK' /\ FormOK'
    BY <1>0, <2>1, SettingFrames
  <2>4. SwitchesOK'  BY <1>0, <2>1, <2>2 DEF SwitchesOK
  <2>5. FormFollows'  BY <1>0, <2>1 DEF FormFollows, FormShows
  <2>6. QED  BY <1>3, <1>e, <2>3, <2>4, <2>5 DEF SettingInv
<1>4. CASE settingNext /\ saveSetting
  <2>1. UNCHANGED <<config, present, single_intf, adapters, systemConfig, interfaces,
                    getConfig, getPorts, isOpen, options, form, inProgress, dead>>
    BY <1>4 DEF saveSetting, serverSettings, storeSettings
  <2>2. ConfigsOK' /\ PortsOK' /\ CallsOK' /\ FormOK'
    BY <1>0, <2>1, SettingFrames
  <2>3. dirty' \in BOOLEAN /\ isSubmitting' \in BOOLEAN
    BY <1>0, <1>4 DEF saveSetting, SwitchesOK
  <2>4. SwitchesOK'  BY <1>0, <2>1, <2>3 DEF SwitchesOK
  <2>5. CASE onlyDifferentSetting(form)
    <3>1. dirty' = TRUE /\ UNCHANGED posting
      BY <1>0, <1>4, <2>5 DEF saveSetting, SwitchesOK
    <3>2. SaveOK' /\ FormFollows'  BY <1>0, <2>1, <3>1, SettingFrames DEF FormFollows
    <3>3. QED  BY <1>4, <1>e, <2>2, <2>4, <3>2 DEF SettingInv
  <2>6. CASE ~onlyDifferentSetting(form) /\ posting = Idle /\ ~dead
    <3>1. posting' = [at |-> "asked", body |-> settingData]
      BY <1>4, <2>6 DEF saveSetting
    <3>2. settingData \in SystemConfig
      BY <1>0 DEF settingData, FormOK, SystemConfig
    <3>3. Apart(settingData)
      BY <1>0, <2>6 DEF settingData, FormOK, SystemConfig, onlyDifferentSetting, Apart
    <3>4. posting' \in Body /\ posting'.body = settingData
      BY <3>1, <3>2 DEF Body
    <3>5. posting' # Idle  BY <3>1 DEF Idle
    <3>6. SaveOK'  BY <1>0, <2>1, <3>3, <3>4 DEF SaveOK, Apart
    <3>7. FormFollows'  BY <3>5 DEF FormFollows
    <3>8. QED  BY <1>4, <1>e, <2>2, <2>4, <3>6, <3>7 DEF SettingInv
  <2>7. CASE ~onlyDifferentSetting(form) /\ ~(posting = Idle /\ ~dead)
    <3>1. UNCHANGED posting  BY <1>4, <2>7 DEF saveSetting
    <3>2. SaveOK'  BY <1>0, <2>1, <3>1, SettingFrames
    <3>3. FormFollows'  BY <1>0, <2>1, <2>7, <3>1 DEF FormFollows, SwitchesOK
    <3>4. QED  BY <1>4, <1>e, <2>2, <2>4, <3>2, <3>3 DEF SettingInv
  <2>8. QED  BY <2>5, <2>6, <2>7
<1>5. CASE settingNext /\ plugAdapter
  <2>1. UNCHANGED <<config, single_intf, systemConfig, interfaces, getConfig, getPorts,
                    isOpen, options, form, dirty, inProgress, isSubmitting, posting, dead>>
    BY <1>5 DEF plugAdapter, storeSettings, pageSettings, saveSettings
  <2>2. ConfigsOK' /\ CallsOK' /\ FormOK' /\ SaveOK'  BY <1>0, <2>1, SettingFrames
  <2>3. SwitchesOK' /\ FormFollows'  BY <1>0, <2>1 DEF SwitchesOK, FormFollows, FormShows
  <2>4. present' \subseteq Ports
    BY <1>0, <1>5 DEF plugAdapter, PortsOK
  <2>5. adapters' \in [at : {"sent"}, added : SUBSET Ports, removed : SUBSET Ports]
    <3>1. adapters' = [at |-> "sent", added |-> present' \ present,
                       removed |-> present \ present']
      BY <1>5 DEF plugAdapter
    <3>2. (present' \ present) \subseteq Ports /\ (present \ present') \subseteq Ports
      BY <1>0, <2>4 DEF PortsOK
    <3>3. QED  BY <3>1, <3>2
  <2>6. PortsOK'  BY <1>0, <2>1, <2>4, <2>5 DEF PortsOK
  <2>7. QED  BY <1>5, <1>e, <2>2, <2>3, <2>6 DEF SettingInv
<1>6. CASE settingNext /\ leaveSettings
  <2>1. UNCHANGED <<present, single_intf, adapters, systemConfig, interfaces, getConfig,
                    getPorts>>
    BY <1>6 DEF leaveSettings, storeSettings
  <2>2. /\ isOpen' = FALSE /\ posting' = Idle /\ dirty' = FALSE /\ form' = EmptyConfig
        /\ options' = {} /\ isSubmitting' = FALSE /\ inProgress' = FALSE /\ dead' = FALSE
    BY <1>6 DEF leaveSettings
  <2>3. config' \in SystemConfig /\ Apart(config')
    BY <1>0, <1>6, PostingKinds DEF leaveSettings, SaveOK, ConfigsOK
  <2>4. EmptyConfig \in SystemConfig
    BY UiSettingsAssumption DEF EmptyConfig, SystemConfig
  <2>5. ConfigsOK' /\ CallsOK' /\ FormOK'
    BY <1>0, <2>1, <2>2, <2>3, <2>4, SettingFrames DEF ConfigsOK, FormOK
  <2>6. PortsOK' /\ SwitchesOK' /\ FormFollows'
    BY <1>0, <2>1, <2>2 DEF PortsOK, SwitchesOK, FormFollows
  <2>7. SaveOK'
    <3>1. Idle \notin Body  BY DEF Idle, Body
    <3>2. QED  BY <2>2, <2>3, <3>1 DEF SaveOK, Apart
  <2>8. QED  BY <1>6, <1>e, <2>5, <2>6, <2>7 DEF SettingInv
<1>7. CASE settingNext /\ choose
  <2>1. UNCHANGED <<config, present, single_intf, adapters, systemConfig, interfaces,
                    getConfig, getPorts, isOpen, options, inProgress, posting, dead>>
    BY <1>7 DEF choose, serverSettings, storeSettings, saveSettings
  <2>2. dirty' = TRUE /\ isSubmitting' = FALSE  BY <1>7 DEF choose
  <2>3. form' \in SystemConfig
    BY <1>0, <1>7 DEF choose, FormOK, PortsOK, SystemConfig
  <2>4. ConfigsOK' /\ PortsOK' /\ CallsOK' /\ SaveOK'  BY <1>0, <2>1, SettingFrames
  <2>5. SwitchesOK' /\ FormFollows'  BY <1>0, <2>1, <2>2 DEF SwitchesOK, FormFollows
  <2>6. QED  BY <1>7, <1>e, <2>3, <2>4, <2>5 DEF SettingInv, FormOK
<1>8. CASE settingNext /\ servePost
  <2>1. UNCHANGED <<present, single_intf, adapters, systemConfig, interfaces, getConfig,
                    getPorts, isOpen, options, form, dirty, inProgress, isSubmitting, dead>>
    BY <1>8 DEF servePost, storeSettings, pageSettings
  <2>2. posting \in Body /\ posting.body \in SystemConfig /\ Apart(posting.body)
    BY <1>0, <1>8, PostingKinds DEF servePost, SaveOK
  <2>3. config' \in {config, posting.body}  BY <1>8 DEF servePost
  <2>4. posting' = Failed \/ posting' = [posting EXCEPT !.at = "done"]
    BY <1>8 DEF servePost
  <2>5. [posting EXCEPT !.at = "done"] \in Body
        /\ [posting EXCEPT !.at = "done"].body = posting.body
    BY <2>2 DEF Body
  <2>6. Failed \notin Body /\ Failed # Idle /\ Idle \notin Body  BY DEF Failed, Idle, Body
  <2>7. ConfigsOK'  BY <1>0, <2>1, <2>2, <2>3 DEF ConfigsOK
  <2>8. SaveOK'  BY <1>0, <2>2, <2>3, <2>4, <2>5, <2>6 DEF SaveOK, Apart
  <2>9. posting' # Idle  BY <2>4, <2>5, <2>6
  <2>10. PortsOK' /\ CallsOK' /\ FormOK'  BY <1>0, <2>1, SettingFrames
  <2>11. SwitchesOK' /\ FormFollows'  BY <1>0, <2>1, <2>9 DEF SwitchesOK, FormFollows
  <2>12. QED  BY <1>8, <1>e, <2>7, <2>8, <2>10, <2>11 DEF SettingInv
<1>9. CASE settingNext /\ updateSystemConfig
  <2>1. UNCHANGED <<config, present, single_intf, adapters, interfaces, getConfig,
                    getPorts, isOpen, options, dirty, inProgress>>
    BY <1>9 DEF updateSystemConfig, serverSettings
  <2>2. posting' = Idle  BY <1>9 DEF updateSystemConfig
  <2>3. SaveOK'
    <3>1. Idle \notin Body  BY DEF Idle, Body
    <3>2. QED  BY <1>0, <2>1, <2>2, <3>1 DEF SaveOK, Apart
  <2>4. PortsOK' /\ CallsOK'  BY <1>0, <2>1, SettingFrames
  <2>5. CASE posting.at = "done"
    <3>1. posting.body \in SystemConfig
      BY <1>0, <2>5, PostingKinds DEF SaveOK
    <3>2. fetchSystemConfigSuccess(posting.body) /\ UNCHANGED dead
      BY <1>9, <2>5 DEF updateSystemConfig
    <3>3. systemConfig' = posting.body /\ isSubmitting' \in BOOLEAN
      BY <3>2 DEF fetchSystemConfigSuccess
    <3>4. form' \in SystemConfig /\ (isOpen => FormShows(form', posting.body))
      BY <1>0, <3>1, <3>2, DefaultsShow DEF fetchSystemConfigSuccess, FormOK, PortsOK
    <3>5. ConfigsOK' /\ FormOK'  BY <1>0, <2>1, <3>1, <3>3, <3>4 DEF ConfigsOK, FormOK
    <3>6. SwitchesOK'  BY <1>0, <2>1, <3>2, <3>3 DEF SwitchesOK
    <3>7. FormFollows'  BY <2>1, <3>3, <3>4 DEF FormFollows, FormShows
    <3>8. QED  BY <1>9, <1>e, <2>3, <2>4, <3>5, <3>6, <3>7 DEF SettingInv
  <2>6. CASE posting.at # "done"
    <3>1. dead' = TRUE /\ UNCHANGED <<systemConfig, form, isSubmitting>>
      BY <1>9, <2>6 DEF updateSystemConfig
    <3>2. ConfigsOK' /\ FormOK'  BY <1>0, <2>1, <3>1, SettingFrames
    <3>3. SwitchesOK' /\ FormFollows'  BY <1>0, <2>1, <3>1 DEF SwitchesOK, FormFollows
    <3>4. QED  BY <1>9, <1>e, <2>3, <2>4, <3>2, <3>3 DEF SettingInv
  <2>7. QED  BY <2>5, <2>6
<1>10. CASE settingNext /\ serveSettings
  <2>1. UNCHANGED <<config, present, single_intf, adapters, systemConfig, interfaces,
                    isOpen, options, form, dirty, inProgress, isSubmitting, posting, dead>>
    BY <1>10 DEF serveSettings, serverSettings, pageSettings, saveSettings
  <2>2. CallsOK'
    <3>1. [at |-> "answered", body |-> config] \in [at : {"answered"}, body : SystemConfig]
      BY <1>0 DEF ConfigsOK
    <3>2. [at |-> "answered", body |-> present] \in [at : {"answered"}, body : SUBSET Ports]
      BY <1>0 DEF PortsOK
    <3>3. QED  BY <1>0, <1>10, <3>1, <3>2 DEF serveSettings, CallsOK
  <2>3. ConfigsOK' /\ PortsOK' /\ FormOK' /\ SaveOK'  BY <1>0, <2>1, SettingFrames
  <2>4. SwitchesOK' /\ FormFollows'  BY <1>0, <2>1 DEF SwitchesOK, FormFollows, FormShows
  <2>5. QED  BY <1>10, <1>e, <2>2, <2>3, <2>4 DEF SettingInv
<1>11. CASE settingNext /\ configFetched
  <2>1. UNCHANGED <<config, present, single_intf, adapters, interfaces, getPorts, isOpen,
                    options, dirty, inProgress, posting, dead>>
    BY <1>11 DEF configFetched, serverSettings, saveSettings
  <2>2. getConfig' = Idle  BY <1>11 DEF configFetched
  <2>3. getConfig.body \in SystemConfig
    BY <1>0, <1>11 DEF configFetched, CallsOK, Idle, Asked
  <2>4. fetchSystemConfigSuccess(getConfig.body)  BY <1>11 DEF configFetched
  <2>5. systemConfig' = getConfig.body /\ isSubmitting' \in BOOLEAN
    BY <2>4 DEF fetchSystemConfigSuccess
  <2>6. form' \in SystemConfig /\ (isOpen => FormShows(form', getConfig.body))
    BY <1>0, <2>3, <2>4, DefaultsShow DEF fetchSystemConfigSuccess, FormOK, PortsOK
  <2>7. ConfigsOK' /\ FormOK'  BY <1>0, <2>1, <2>3, <2>5, <2>6 DEF ConfigsOK, FormOK
  <2>8. PortsOK' /\ SaveOK'  BY <1>0, <2>1, SettingFrames
  <2>9. CallsOK'  BY <1>0, <2>1, <2>2 DEF CallsOK
  <2>10. SwitchesOK'  BY <1>0, <2>1, <2>5 DEF SwitchesOK
  <2>11. FormFollows'  BY <2>1, <2>5, <2>6 DEF FormFollows, FormShows
  <2>12. QED  BY <1>11, <1>e, <2>7, <2>8, <2>9, <2>10, <2>11 DEF SettingInv
<1>12. CASE settingNext /\ (interfacesFetched \/ adaptersUpdate)
  <2>1. UNCHANGED <<config, present, single_intf, systemConfig, getConfig, isOpen, form,
                    dirty, inProgress, isSubmitting, posting, dead>>
    BY <1>12 DEF interfacesFetched, adaptersUpdate, serverSettings, saveSettings
  <2>2. ConfigsOK' /\ FormOK' /\ SaveOK'  BY <1>0, <2>1, SettingFrames
  <2>3. SwitchesOK' /\ FormFollows'  BY <1>0, <2>1 DEF SwitchesOK, FormFollows, FormShows
  <2>4. CallsOK'
    BY <1>0, <1>12, <2>1 DEF interfacesFetched, adaptersUpdate, CallsOK
  <2>5. PortsOK'
    <3>1. CASE interfacesFetched
      <4>1. getPorts.body \subseteq Ports
        BY <1>0, <3>1 DEF interfacesFetched, CallsOK, Idle, Asked
      <4>2. UNCHANGED <<present, adapters>>
        BY <3>1 DEF interfacesFetched, serverSettings
      <4>3. QED
        BY <1>0, <3>1, <4>1, <4>2 DEF interfacesFetched, fetchInterfacesSuccess, PortsOK
    <3>2. CASE adaptersUpdate
      <4>1. adapters.added \subseteq Ports
        BY <1>0, <3>2 DEF adaptersUpdate, PortsOK
      <4>2. ((interfaces \cup adapters.added) \ adapters.removed) \subseteq Ports
        BY <1>0, <4>1 DEF PortsOK
      <4>3. adapters' = Idle /\ UNCHANGED present  BY <3>2 DEF adaptersUpdate
      <4>4. interfaces' \subseteq Ports /\ options' \subseteq Ports
        BY <1>0, <3>2, <4>2 DEF adaptersUpdate, fetchInterfacesSuccess, PortsOK
      <4>5. QED  BY <1>0, <4>3, <4>4 DEF PortsOK
    <3>3. QED  BY <1>12, <3>1, <3>2
  <2>6. QED  BY <1>12, <1>e, <2>2, <2>3, <2>4, <2>5 DEF SettingInv
<1>13. CASE UNCHANGED settingVars
  <2>1. UNCHANGED <<config, present, single_intf, adapters, systemConfig, interfaces,
                    getConfig, getPorts, isOpen, options, form, dirty, inProgress,
                    isSubmitting, posting, dead, events>>
    BY <1>13 DEF settingVars, serverSettings, storeSettings, pageSettings, saveSettings
  <2>2. ConfigsOK' /\ PortsOK' /\ CallsOK' /\ FormOK' /\ SaveOK'
    BY <1>0, <2>1, SettingFrames
  <2>3. SwitchesOK' /\ FormFollows' /\ EventsOK'
    BY <1>0, <2>1 DEF SwitchesOK, FormFollows, FormShows, EventsOK
  <2>4. QED  BY <2>2, <2>3 DEF SettingInv
<1>14. QED
  BY <1>1, <1>2, <1>3, <1>4, <1>5, <1>6, <1>7, <1>8, <1>9, <1>10, <1>11, <1>12, <1>13
  DEF settingNext

\* No order of choices, saves that are lost or left, adapters and answers
\* configures one port for both sides, and a form with nothing to save shows
\* the configuration of the store (general-settings.component.ts).
THEOREM SettingsAreSound == settingSpec => [](settingTypeOK /\ SettingsSound)
BY InitSetting, NextSetting, InvTypes, PTL DEF settingSpec

-----------------------------------------------------------------------------
(***************************************************************************)
(* The reports page.  A report outside of `untold' is in the list exactly  *)
(* when the server has it.  A deletion that the server has made, and whose *)
(* answer is on its way, is of a report that the server does not have:     *)
(* that is why the answer may take it out of any list there is by then.    *)
(***************************************************************************)

reportSpec == reportInit /\ [][reportNext]_reportVars

\* A range of dates that a filter goes by has both its ends, or no start.
RangeEnded(d) == d.start # NoDay => d.end # NoDay

ListsOK ==
  /\ kept \subseteq Reports /\ history \subseteq Reports /\ untold \subseteq Reports
  /\ fetching \in {Idle, Asked} \cup [at : {"answered"}, list : SUBSET Reports]
DialogsOK ==
  /\ asking \in Reports \cup {Nothing}
  /\ activeFilter \in FilterName \cup {Nothing} /\ range \in DateRange
FiltersOK ==
  /\ filter \in Filters /\ tableFilter = filter
  /\ noFilter = (filter = NoFilters) /\ RangeEnded(filter.dateRange)
Deleting == [at : {"asked", "done"}, report : Reports]
DeletionOK ==
  /\ deletingRow \in {Idle, Failed} \cup Deleting
  /\ deletingRow \in Deleting /\ deletingRow.at = "done"
       => deletingRow.report \notin kept
HistoryAgrees == \A r \in Reports \ untold : r \in history <=> r \in kept

ReportsInv == ListsOK /\ DialogsOK /\ FiltersOK /\ DeletionOK /\ HistoryAgrees

\* Of two sets, what is in one and not in the other.
LEMMA Differs ==
  ASSUME NEW A, NEW B, NEW n
  PROVE  n \notin SymDiff(A, B) <=> (n \in A <=> n \in B)
BY DEF SymDiff

\* A row passes the filters as the code has them exactly when it passes each
\* filter that is chosen.
LEMMA FilterPasses ==
  ASSUME NEW r \in Reports, NEW f \in Filters, RangeEnded(f.dateRange)
  PROVE  customFilterPredicate(Shape[r], f) <=> Passes(r, f)
<1>1. Shape[r].started \in Nat
  <2>1. Shape[r] \in TestrunReport  BY UiReportsAssumption
  <2>2. Shape[r].started \in Days \cup {NoDay}  BY <2>1 DEF TestrunReport
  <2>3. QED  BY <2>2 DEF Days, NoDay
<1>2. f.dateRange.start \in Nat /\ f.dateRange.end \in Nat
  BY UiReportsAssumption DEF Filters, DateRange, Days, NoDay
<1>3. filterStartedDateRange(Shape[r].started, f.dateRange)
        <=> Within(Shape[r].started, f.dateRange)
  BY <1>1, <1>2 DEF filterStartedDateRange, Within, RangeEnded, NoDay
<1>4. formateData(Shape[r]).testResult = getTestResult(Shape[r])
  BY DEF formateData
<1>5. (\A k \in {"deviceInfo", "deviceFirmware"} :
         f[k] = AnyText \/ Shape[r][k] \in Part[f[k]])
        <=> /\ filterStringData(Shape[r].deviceInfo, f.deviceInfo)
            /\ filterStringData(Shape[r].deviceFirmware, f.deviceFirmware)
  BY DEF filterStringData
<1>6. QED  BY <1>3, <1>4, <1>5 DEF customFilterPredicate, Passes

LEMMA ReportsInvAgree == ReportsInv => ReportsAgree
<1> SUFFICES ASSUME ReportsInv PROVE ReportsAgree
  OBVIOUS
<1>1. ASSUME NEW r \in Reports \ untold
      PROVE  r \in filteredData <=> r \in kept /\ Passes(r, filter)
  <2>1. customFilterPredicate(Shape[r], filter) <=> Passes(r, filter)
    BY FilterPasses DEF ReportsInv, FiltersOK
  <2>2. r \in filteredData <=> r \in history /\ customFilterPredicate(Shape[r], filter)
    BY DEF filteredData, ReportsInv, FiltersOK
  <2>3. r \in history <=> r \in kept  BY DEF ReportsInv, HistoryAgrees
  <2>4. QED  BY <2>1, <2>2, <2>3
<1>2. noFilter => filter = NoFilters  BY DEF ReportsInv, FiltersOK
<1>3. QED  BY <1>1, <1>2 DEF ReportsAgree

LEMMA DeletionKinds ==
  ASSUME deletingRow \in {Idle, Failed} \cup Deleting
  PROVE  /\ deletingRow.at \in {"asked", "done"} <=> deletingRow \in Deleting
         /\ deletingRow.at = "failed" <=> deletingRow = Failed
         /\ deletingRow \in Deleting <=> deletingRow \notin {Idle, Failed}
         /\ deletingRow \in Deleting => deletingRow.report \in Reports
BY DEF Idle, Failed, Deleting

LEMMA NoFiltersOK ==
  NoFilters \in Filters /\ RangeEnded(NoFilters.dateRange) /\ NoRange \in DateRange
<1>1. NoRange \in DateRange  BY DEF NoRange, DateRange
<1>2. NoFilters \in Filters  BY <1>1 DEF NoFilters, Filters
<1>3. RangeEnded(NoFilters.dateRange)  BY DEF NoFilters, NoRange, RangeEnded
<1>4. QED  BY <1>1, <1>2, <1>3

LEMMA EndedRange ==
  ASSUME NEW d \in DateRange
  PROVE  Ended(d) \in DateRange /\ RangeEnded(Ended(d))
<1>1. Today \in Nat  BY UiReportsAssumption
<1>2. d.start \in Days \cup {NoDay} /\ d.end \in Days \cup {NoDay}  BY DEF DateRange
<1>3. CASE d.start # NoDay /\ d.end = NoDay
  <2>1. Today \in Days /\ Today # NoDay  BY <1>1, <1>2, <1>3 DEF Days, NoDay
  <2>2. Ended(d) = [d EXCEPT !.end = Today]  BY <1>3 DEF Ended
  <2>3. Ended(d) \in DateRange /\ Ended(d).end = Today
    BY <2>1, <2>2 DEF DateRange
  <2>4. QED  BY <2>1, <2>3 DEF RangeEnded
<1>4. CASE ~(d.start # NoDay /\ d.end = NoDay)
  BY <1>4 DEF Ended, RangeEnded
<1>5. QED  BY <1>3, <1>4

\* Choosing a value for one of the filters, or clearing it.
LEMMA FilterChosen ==
  ASSUME FiltersOK, NEW k \in {"deviceInfo", "deviceFirmware", "results", "dateRange"},
         NEW v,
         k \in {"deviceInfo", "deviceFirmware"} => v \in Texts \cup {AnyText},
         k = "results" => v \subseteq resultList,
         k = "dateRange" => v \in DateRange /\ RangeEnded(v)
  PROVE  /\ [filter EXCEPT ![k] = v] \in Filters
         /\ RangeEnded([filter EXCEPT ![k] = v].dateRange)
<1>1. filter \in Filters /\ RangeEnded(filter.dateRange)  BY DEF FiltersOK
<1>2. CASE k = "deviceInfo"  BY <1>1, <1>2 DEF Filters
<1>3. CASE k = "deviceFirmware"  BY <1>1, <1>3 DEF Filters
<1>4. CASE k = "results"  BY <1>1, <1>4 DEF Filters
<1>5. CASE k = "dateRange"  BY <1>1, <1>5 DEF Filters
<1>6. QED  BY <1>2, <1>3, <1>4, <1>5

LEMMA FiltersUpdated ==
  ASSUME NEW f \in Filters, RangeEnded(f.dateRange), updateFilters(f)
  PROVE  FiltersOK'
BY DEF updateFilters, isFiltersEmpty, FiltersOK, RangeEnded

LEMMA DialogFrame ==
  DialogsOK /\ UNCHANGED <<asking, activeFilter, range>> => DialogsOK'
BY DEF DialogsOK

LEMMA FilterFrame ==
  FiltersOK /\ UNCHANGED <<filter, tableFilter, noFilter>> => FiltersOK'
BY DEF FiltersOK

\* The list is shown anew with the filters there are, or stays.
LEMMA FiltersStay ==
  ASSUME FiltersOK, \/ updateFilters(filter)
                    \/ UNCHANGED <<filter, tableFilter, noFilter>>
  PROVE  FiltersOK'
BY FiltersUpdated, FilterFrame DEF FiltersOK

LEMMA InitReports == reportInit => ReportsInv
<1> SUFFICES ASSUME reportInit PROVE ReportsInv
  OBVIOUS
<1>1. untold = SymDiff(kept, history) /\ kept \subseteq Reports /\ history \subseteq Reports
  BY DEF reportInit
<1>2. ListsOK  BY <1>1 DEF reportInit, ListsOK, SymDiff
<1>3. DialogsOK  BY NoFiltersOK DEF reportInit, DialogsOK
<1>4. FiltersOK  BY NoFiltersOK DEF reportInit, FiltersOK
<1>5. DeletionOK  BY DEF reportInit, DeletionOK, Deleting, Idle
<1>6. HistoryAgrees  BY <1>1, Differs DEF HistoryAgrees
<1>7. QED  BY <1>2, <1>3, <1>4, <1>5, <1>6 DEF ReportsInv

LEMMA NextReports == ReportsInv /\ [reportNext]_reportVars => ReportsInv'
<1> SUFFICES ASSUME ReportsInv, [reportNext]_reportVars PROVE ReportsInv'
  OBVIOUS
<1>0. ListsOK /\ DialogsOK /\ FiltersOK /\ DeletionOK /\ HistoryAgrees
  BY DEF ReportsInv
<1>k. /\ deletingRow \in {Idle, Failed} \cup Deleting
      /\ deletingRow.at \in {"asked", "done"} <=> deletingRow \in Deleting
      /\ deletingRow \in Deleting <=> deletingRow \notin {Idle, Failed}
      /\ deletingRow \in Deleting => deletingRow.report \in Reports
  BY <1>0, DeletionKinds DEF DeletionOK
<1>1. CASE ServerRuns
  <2>1. UNCHANGED <<history, fetching, deletingRow, asking, filter, tableFilter,
                    noFilter, activeFilter, range>>
    BY <1>1 DEF ServerRuns
  <2>2. PICK r \in kept \cup (Reports \ Known) :
          kept' = SymDiff(kept, {r}) /\ untold' = untold \cup {r}
    BY <1>1 DEF ServerRuns
  <2>3. r \in Reports  BY <1>0, <2>2 DEF ListsOK
  <2>4. ListsOK'  BY <1>0, <2>1, <2>2, <2>3 DEF ListsOK, SymDiff
  <2>5. HistoryAgrees'  BY <1>0, <2>1, <2>2 DEF HistoryAgrees, SymDiff
  <2>6. DeletionOK'
    <3>1. deletingRow \in Deleting /\ deletingRow.at = "done"
            => deletingRow.report \notin kept'
      <4> SUFFICES ASSUME deletingRow \in Deleting, deletingRow.at = "done"
                   PROVE  deletingRow.report \notin kept'
        OBVIOUS
      <4>1. deletingRow.report \notin kept  BY <1>0 DEF DeletionOK
      <4>2. deletingRow.report \in Known  BY <1>k DEF Known
      <4>3. deletingRow.report # r  BY <2>2, <4>1, <4>2
      <4>4. QED  BY <2>2, <4>1, <4>3 DEF SymDiff
    <3>2. QED  BY <1>k, <2>1, <3>1 DEF DeletionOK, Deleting
  <2>7. QED
    BY <1>0, <2>1, <2>4, <2>5, <2>6, DialogFrame, FilterFrame DEF ReportsInv
<1>2. CASE ServeReports \/ fetchReports
  <2>1. UNCHANGED <<kept, history, deletingRow, asking, filter, tableFilter, noFilter,
                    activeFilter, range, untold>>
    BY <1>2 DEF ServeReports, fetchReports
  <2>2. fetching' \in {Asked} \cup [at : {"answered"}, list : SUBSET Reports]
    <3>1. CASE fetchReports  BY <3>1 DEF fetchReports
    <3>2. CASE ServeReports
      <4>1. PICK l \in {kept, {}} : fetching' = [at |-> "answered", list |-> l]
        BY <3>2 DEF ServeReports
      <4>2. l \subseteq Reports  BY <1>0, <4>1 DEF ListsOK
      <4>3. QED  BY <4>1, <4>2
    <3>3. QED  BY <1>2, <3>1, <3>2
  <2>3. ListsOK'  BY <1>0, <2>1, <2>2 DEF ListsOK
  <2>4. DeletionOK' /\ HistoryAgrees'
    BY <1>0, <2>1 DEF DeletionOK, Deleting, HistoryAgrees
  <2>5. QED  BY <1>0, <2>1, <2>3, <2>4, DialogFrame, FilterFrame DEF ReportsInv
<1>3. CASE ServeDeletion
  <2>1. UNCHANGED <<history, fetching, asking, filter, tableFilter, noFilter,
                    activeFilter, range>>
    BY <1>3 DEF ServeDeletion
  <2>2. deletingRow \in Deleting /\ deletingRow.report \in Reports
    BY <1>3, <1>k DEF ServeDeletion
  <2>3. Failed \notin Deleting  BY DEF Failed, Deleting
  <2>4. CASE /\ kept' = kept \ {deletingRow.report}
             /\ untold' = untold \cup {deletingRow.report}
             /\ deletingRow' \in {[deletingRow EXCEPT !.at = "done"], Failed}
    <3>1. /\ [deletingRow EXCEPT !.at = "done"] \in Deleting
          /\ [deletingRow EXCEPT !.at = "done"].report = deletingRow.report
      BY <2>2 DEF Deleting
    <3>2. DeletionOK'  BY <2>3, <2>4, <3>1 DEF DeletionOK
    <3>3. ListsOK'  BY <1>0, <2>1, <2>2, <2>4 DEF ListsOK
    <3>4. HistoryAgrees'  BY <1>0, <2>1, <2>4 DEF HistoryAgrees
    <3>5. QED
      BY <1>0, <2>1, <3>2, <3>3, <3>4, DialogFrame, FilterFrame DEF ReportsInv
  <2>5. CASE deletingRow' = Failed /\ UNCHANGED <<kept, untold>>
    <3>1. DeletionOK'  BY <2>3, <2>5 DEF DeletionOK
    <3>2. ListsOK' /\ HistoryAgrees'  BY <1>0, <2>1, <2>5 DEF ListsOK, HistoryAgrees
    <3>3. QED  BY <1>0, <2>1, <3>1, <3>2, DialogFrame, FilterFrame DEF ReportsInv
  <2>6. QED  BY <1>3, <2>4, <2>5 DEF ServeDeletion
<1>4. CASE ReportsFetched
  <2>1. UNCHANGED <<kept, deletingRow, asking, activeFilter, range>>
    BY <1>4 DEF ReportsFetched
  <2>2. /\ fetching' = Idle /\ history' = fetching.list /\ updateFilters(filter)
        /\ untold' = SymDiff(kept, fetching.list)
    BY <1>4 DEF ReportsFetched, getReports
  <2>3. fetching.list \subseteq Reports
    BY <1>0, <1>4 DEF ReportsFetched, ListsOK, Idle, Asked
  <2>4. ListsOK'  BY <1>0, <2>1, <2>2, <2>3 DEF ListsOK, SymDiff
  <2>5. HistoryAgrees'
    <3>1. \A r : r \notin untold' => (r \in kept <=> r \in history')
      BY <2>2, Differs
    <3>2. QED  BY <2>1, <3>1 DEF HistoryAgrees
  <2>6. DeletionOK'  BY <1>0, <2>1 DEF DeletionOK, Deleting
  <2>7. FiltersOK'  BY <1>0, <2>2, FiltersStay
  <2>8. QED  BY <1>0, <2>1, <2>4, <2>5, <2>6, <2>7, DialogFrame DEF ReportsInv
<1>5. CASE ReportDeleted
  <2>1. UNCHANGED <<kept, fetching, asking, activeFilter, range>> /\ deletingRow' = Idle
    BY <1>5 DEF ReportDeleted
  <2>2. DeletionOK'  BY <2>1 DEF DeletionOK, Deleting, Idle
  <2>3. CASE deletingRow = Failed
    <3>1. UNCHANGED <<history, filter, tableFilter, noFilter, untold>>
      BY <1>5, <2>3 DEF ReportDeleted
    <3>2. ListsOK' /\ HistoryAgrees'  BY <1>0, <2>1, <3>1 DEF ListsOK, HistoryAgrees
    <3>3. QED  BY <1>0, <2>1, <2>2, <3>1, <3>2, DialogFrame, FilterFrame DEF ReportsInv
  <2>4. CASE deletingRow # Failed
    <3>1. /\ removeReport(deletingRow.report, history)
          /\ untold' = untold \ ({deletingRow.report} \ kept)
      BY <1>5, <2>4 DEF ReportDeleted
    <3>2. deletingRow \in Deleting /\ deletingRow.at = "done"
      BY <1>5, <1>k, <2>4 DEF ReportDeleted, Idle, Failed
    <3>3. deletingRow.report \notin kept  BY <1>0, <3>2 DEF DeletionOK
    <3>4. history' = history \ {deletingRow.report}
      BY <3>1 DEF removeReport, getReports
    <3>5. FiltersOK'
      BY <1>0, <3>1, FiltersStay DEF removeReport, getReports
    <3>6. ListsOK'  BY <1>0, <2>1, <3>1, <3>4 DEF ListsOK
    <3>7. HistoryAgrees'  BY <1>0, <2>1, <3>1, <3>3, <3>4 DEF HistoryAgrees
    <3>8. QED  BY <1>0, <2>1, <2>2, <3>5, <3>6, <3>7, DialogFrame DEF ReportsInv
  <2>5. QED  BY <2>3, <2>4
<1>6. CASE deleteReport
  <2>1. UNCHANGED <<kept, history, fetching, filter, tableFilter, noFilter,
                    activeFilter, range, untold>>
    BY <1>6 DEF deleteReport
  <2>2. asking' \in Reports \cup {Nothing}
    BY <1>0, <1>6 DEF deleteReport, ListsOK, filteredData
  <2>3. deletingRow' = deletingRow
          \/ (asking # Nothing /\ deletingRow' = [at |-> "asked", report |-> asking])
    BY <1>6 DEF deleteReport
  <2>4. DeletionOK'
    <3>1. CASE deletingRow' = deletingRow
      BY <1>0, <2>1, <3>1 DEF DeletionOK, Deleting
    <3>2. CASE asking # Nothing /\ deletingRow' = [at |-> "asked", report |-> asking]
      <4>1. asking \in Reports  BY <1>0, <3>2 DEF DialogsOK
      <4>2. deletingRow' \in Deleting /\ deletingRow'.at = "asked"
        BY <3>2, <4>1 DEF Deleting
      <4>3. QED  BY <4>2 DEF DeletionOK
    <3>3. QED  BY <2>3, <3>1, <3>2
  <2>5. ListsOK' /\ HistoryAgrees' /\ DialogsOK'
    BY <1>0, <2>1, <2>2 DEF ListsOK, HistoryAgrees, DialogsOK
  <2>6. QED  BY <1>0, <2>1, <2>4, <2>5, FilterFrame DEF ReportsInv
<1>7. CASE openFilter \/ chooseDates
  <2>1. UNCHANGED <<kept, history, fetching, deletingRow, asking, filter, tableFilter,
                    noFilter, untold>>
    BY <1>7 DEF openFilter, chooseDates
  <2>2. activeFilter' \in FilterName \cup {Nothing}
    BY <1>0, <1>7 DEF openFilter, chooseDates, DialogsOK
  <2>3. range' \in DateRange
    <3>1. CASE openFilter  BY <3>1, NoFiltersOK DEF openFilter
    <3>2. ASSUME NEW d \in Days, selectedChange(d) PROVE range' \in DateRange
      <4>1. range.start \in Days \cup {NoDay} /\ d \in Days \cup {NoDay}
        BY <1>0 DEF DialogsOK, DateRange
      <4> DEFINE S == {range.start, d}
      <4>2. \A x, y \in S : x \in Nat /\ y \in Nat
        BY <4>1, UiReportsAssumption DEF Days, NoDay
      <4>3. \E x \in S : \A y \in S : x =< y  BY <4>2
      <4>4. \E x \in S : \A y \in S : x >= y  BY <4>2
      <4>5. Min(S) \in S /\ Max(S) \in S  BY <4>3, <4>4 DEF Min, Max
      <4>6. {Min(S), Max(S), d, NoDay} \subseteq Days \cup {NoDay}  BY <4>1, <4>5
      <4>7. QED  BY <3>2, <4>6 DEF selectedChange, DateRange
    <3>3. CASE chooseDates  BY <3>2, <3>3 DEF chooseDates
    <3>4. QED  BY <1>7, <3>1, <3>3
  <2>4. DialogsOK'  BY <1>0, <2>1, <2>2, <2>3 DEF DialogsOK
  <2>5. ListsOK' /\ HistoryAgrees' /\ DeletionOK'
    BY <1>0, <2>1 DEF ListsOK, HistoryAgrees, DeletionOK, Deleting
  <2>6. QED  BY <1>0, <2>1, <2>4, <2>5, FilterFrame DEF ReportsInv
<1>8. CASE closeFilter \/ clearFilter
  <2>1. UNCHANGED <<kept, history, fetching, deletingRow, asking, untold>>
    BY <1>8 DEF closeFilter, clearFilter
  <2>2. DialogsOK'
    BY <1>0, <1>8, <2>1, NoFiltersOK DEF closeFilter, clearFilter, DialogsOK
  <2>3. ListsOK' /\ HistoryAgrees' /\ DeletionOK'
    BY <1>0, <2>1 DEF ListsOK, HistoryAgrees, DeletionOK, Deleting
  <2>4. FiltersOK'
    <3>1. DOMAIN filter = {"deviceInfo", "deviceFirmware", "results", "dateRange"}
      BY <1>0 DEF FiltersOK, Filters
    <3>2. CASE UNCHANGED <<filter, tableFilter, noFilter>>
      BY <1>0, <3>2, FilterFrame
    <3>3. CASE updateFilters(NoFilters)  BY <3>3, NoFiltersOK, FiltersUpdated
    <3>4. ASSUME NEW k \in DOMAIN filter,
                 updateFilters([filter EXCEPT ![k] = NoFilters[k]])
          PROVE  FiltersOK'
      <4>1. /\ k \in {"deviceInfo", "deviceFirmware"} => NoFilters[k] \in Texts \cup {AnyText}
            /\ k = "results" => NoFilters[k] \subseteq resultList
            /\ k = "dateRange" => NoFilters[k] \in DateRange /\ RangeEnded(NoFilters[k])
        BY NoFiltersOK DEF NoFilters, RangeEnded, NoRange
      <4>2. QED  BY <1>0, <3>1, <3>4, <4>1, FilterChosen, FiltersUpdated
    <3>5. ASSUME NEW v, activeFilter = "results", v \in ResultChoices \cup {{}},
                 updateFilters([filter EXCEPT ![Chip(activeFilter)] = v])
          PROVE  FiltersOK'
      <4>1. Chip(activeFilter) = "results"  BY <3>5 DEF Chip
      <4>2. v \subseteq resultList  BY <3>5, UiReportsAssumption
      <4>3. QED  BY <1>0, <3>5, <4>1, <4>2, FilterChosen, FiltersUpdated
    <3>6. ASSUME NEW v, activeFilter = "started", v = Ended(range),
                 updateFilters([filter EXCEPT ![Chip(activeFilter)] = v])
          PROVE  FiltersOK'
      <4>1. Chip(activeFilter) = "dateRange"  BY <3>6 DEF Chip
      <4>2. v \in DateRange /\ RangeEnded(v)  BY <1>0, <3>6, EndedRange DEF DialogsOK
      <4>3. QED  BY <1>0, <3>6, <4>1, <4>2, FilterChosen, FiltersUpdated
    <3>7. ASSUME NEW v, activeFilter \in {"deviceInfo", "deviceFirmware"},
                 v \in Searches \cup {AnyText},
                 updateFilters([filter EXCEPT ![Chip(activeFilter)] = v])
          PROVE  FiltersOK'
      <4>1. Chip(activeFilter) = activeFilter  BY <3>7 DEF Chip
      <4>2. v \in Texts \cup {AnyText}  BY <3>7, UiReportsAssumption
      <4>3. QED  BY <1>0, <3>7, <4>1, <4>2, FilterChosen, FiltersUpdated
    <3>8. CASE clearFilter  BY <3>3, <3>4, <3>8 DEF clearFilter
    <3>9. CASE closeFilter
      <4>1. activeFilter \in FilterName
        BY <1>0, <3>9 DEF closeFilter, DialogsOK
      <4>2. CASE activeFilter = "results"
        BY <3>2, <3>5, <3>9, <4>2 DEF closeFilter
      <4>3. CASE activeFilter = "started"
        BY <3>2, <3>6, <3>9, <4>3 DEF closeFilter
      <4>4. CASE activeFilter \in {"deviceInfo", "deviceFirmware"}
        <5>1. activeFilter # "results" /\ activeFilter # "started"  BY <4>4
        <5>2. (CASE activeFilter = "results" -> ResultChoices \cup {{}}
                 [] activeFilter = "started" -> {Ended(range)}
                 [] OTHER -> Searches \cup {AnyText}) = Searches \cup {AnyText}
          BY <5>1
        <5>3. \/ UNCHANGED <<filter, tableFilter, noFilter>>
              \/ \E v \in Searches \cup {AnyText} :
                   updateFilters([filter EXCEPT ![Chip(activeFilter)] = v])
          BY <3>9, <5>2 DEF closeFilter
        <5>4. ASSUME NEW v \in Searches \cup {AnyText},
                     updateFilters([filter EXCEPT ![Chip(activeFilter)] = v])
              PROVE  FiltersOK'
          BY ONLY <3>7, <4>4, <5>4
        <5>5. QED  BY <3>2, <5>3, <5>4
      <4>5. QED  BY <4>1, <4>2, <4>3, <4>4 DEF FilterName
    <3>10. QED  BY <1>8, <3>8, <3>9
  <2>5. QED  BY <2>2, <2>3, <2>4 DEF ReportsInv
<1>9. CASE UNCHANGED reportVars
  <2>1. UNCHANGED <<kept, history, fetching, deletingRow, asking, filter, tableFilter,
                    noFilter, activeFilter, range, untold>>
    BY <1>9 DEF reportVars
  <2>2. ListsOK' /\ HistoryAgrees' /\ DeletionOK'
    BY <1>0, <2>1 DEF ListsOK, HistoryAgrees, DeletionOK, Deleting
  <2>3. QED  BY <1>0, <2>1, <2>2, DialogFrame, FilterFrame DEF ReportsInv
<1>10. QED
  BY <1>1, <1>2, <1>3, <1>4, <1>5, <1>6, <1>7, <1>8, <1>9 DEF reportNext

\* The table shows the reports of the server that pass the filters of the
\* chips, whatever lists, deletions and runs cross each other, for any
\* reports, texts and days (reports.store.ts, reports.component.ts).
THEOREM ReportsShown == reportSpec => []ReportsAgree
BY InitReports, NextReports, ReportsInvAgree, PTL DEF reportSpec

-----------------------------------------------------------------------------
(***************************************************************************)
(* The dialog that starts a run, for any devices, any modules offered and  *)
(* any that the configurations name.                                       *)
(***************************************************************************)

USE UiInitiateAssumption

initiateSpec == initiateInit /\ [][initiateNext]_initiateVars

\* A dialog has no box beyond the modules it was opened with, also when it
\* was opened before there were any, or the device was given up.
Fields ==
  [device : Fleet \cup {NoChoice}, offered : {<<>>, Offered}, boxes : Seq(BOOLEAN),
   sent : BOOLEAN]
Dialog == {d \in Fields : Len(d.boxes) <= Len(d.offered)}

\* A request carries what its dialog showed.
Request ==
  {r \in [at : {"asked", "done"}, body : Choice, chosen : Choice] :
     r.body = r.chosen /\ r.chosen.modules # {}}

DialogsInv ==
  /\ enabledModules \in [Fleet -> SUBSET Modules]
  /\ listModules \in [Fleet -> SUBSET Modules]
  /\ testModules \in {<<>>, Offered}
  /\ initiating \in Seq(Dialog)
  /\ starting \in {Idle, Failed} \cup Request
FlagsInv == busy \in BOOLEAN /\ triggered \in BOOLEAN /\ starts \in 0 .. MaxStarts
Run == [device : Fleet, modules : SUBSET Modules, chosen : Choice]
RanInv == ran \in {NoRun} \cup Run /\ RunsAsChosen

InitiateInv == DialogsInv /\ FlagsInv /\ RanInv

LEMMA OfferedFacts ==
  /\ DOMAIN Offered = 1 .. Len(Offered) /\ Len(Offered) \in Nat
  /\ \A i \in 1 .. Len(Offered) : Offered[i] \in Modules
BY DEF Modules

LEMMA DialogFacts ==
  ASSUME NEW d \in Dialog
  PROVE  /\ d.device \in Fleet \cup {NoChoice} /\ d.offered \in {<<>>, Offered}
         /\ d.boxes \in Seq(BOOLEAN) /\ d.sent \in BOOLEAN
         /\ Len(d.boxes) <= Len(d.offered)
BY DEF Dialog, Fields

\* A sequence of dialogs with one of them changed.
LEMMA DialogsExcept ==
  ASSUME NEW ds \in Seq(Dialog), NEW i \in 1 .. Len(ds), NEW d \in Dialog
  PROVE  [ds EXCEPT ![i] = d] \in Seq(Dialog)
<1>1. ds \in [1 .. Len(ds) -> Dialog] /\ Len(ds) \in Nat  OBVIOUS
<1>2. [ds EXCEPT ![i] = d] \in [1 .. Len(ds) -> Dialog]  BY <1>1
<1>3. QED  BY <1>1, <1>2

LEMMA DialogSent ==
  ASSUME NEW d \in Dialog, NEW s \in BOOLEAN
  PROVE  [d EXCEPT !.sent = s] \in Dialog
<1> DEFINE e == [d EXCEPT !.sent = s]
<1>1. e \in Fields  BY DEF Dialog, Fields
<1>2. e.boxes = d.boxes /\ e.offered = d.offered  BY DEF Dialog, Fields
<1> HIDE DEF e
<1>3. e \in Dialog  BY <1>1, <1>2, DialogFacts DEF Dialog
<1>4. QED  BY <1>3 DEF e

LEMMA DialogBoxes ==
  ASSUME NEW d \in Dialog, NEW b \in Seq(BOOLEAN), Len(b) <= Len(d.offered),
         NEW v \in Fleet \cup {NoChoice}
  PROVE  [d EXCEPT !.device = v, !.boxes = b] \in Dialog
<1> DEFINE e == [d EXCEPT !.device = v, !.boxes = b]
<1>1. e \in Fields  BY DEF Dialog, Fields
<1>2. e.boxes = b /\ e.offered = d.offered  BY DEF Dialog, Fields
<1> HIDE DEF e
<1>3. e \in Dialog  BY <1>1, <1>2 DEF Dialog
<1>4. QED  BY <1>3 DEF e

LEMMA NewDialogType ==
  ASSUME NEW offered \in {<<>>, Offered}
  PROVE  NewDialog(offered) \in Dialog
<1>1. <<>> \in Seq(BOOLEAN) /\ Len(<<>>) = 0  OBVIOUS
<1>2. Len(offered) >= 0  BY OfferedFacts
<1>3. QED  BY <1>1, <1>2 DEF NewDialog, Dialog, Fields

\* The boxes of a device are one for each module of the dialog.
LEMMA SelectedType ==
  ASSUME DialogsInv, NEW dialog \in Dialog, NEW d \in Fleet
  PROVE  selected(dialog, d) \in Dialog
<1> DEFINE boxes == fillTestModulesFormControls(dialog.offered, d)
<1>1. DOMAIN dialog.offered = 1 .. Len(dialog.offered) /\ Len(dialog.offered) \in Nat
  BY OfferedFacts DEF Dialog
<1>2. boxes \in [1 .. Len(dialog.offered) -> BOOLEAN]
  BY <1>1 DEF fillTestModulesFormControls
<1>3. boxes \in Seq(BOOLEAN) /\ Len(boxes) = Len(dialog.offered)
  BY <1>1, <1>2
<1> HIDE DEF boxes
<1>4. selected(dialog, d) = [dialog EXCEPT !.device = d, !.boxes = boxes]
  BY DEF selected, boxes
<1>5. Len(boxes) <= Len(dialog.offered)  BY <1>1, <1>3
<1>6. [dialog EXCEPT !.device = d, !.boxes = boxes] \in Dialog
  BY ONLY dialog \in Dialog, d \in Fleet, <1>3, <1>5, DialogBoxes
<1>7. QED  BY <1>4, <1>6

\* The request asks for what the dialog shows: each box that is checked
\* stands for the module at its place.
LEMMA RequestType ==
  ASSUME NEW dialog \in Dialog, dialog.device # NoChoice, ~isAllTestsDisabled(dialog)
  PROVE  [at |-> "asked", body |-> startBody(dialog), chosen |-> Shown(dialog)]
           \in Request
<1> DEFINE Checked == {i \in DOMAIN dialog.boxes : dialog.boxes[i]}
<1>1. /\ dialog.boxes \in Seq(BOOLEAN) /\ Len(dialog.boxes) \in Nat
      /\ DOMAIN dialog.boxes = 1 .. Len(dialog.boxes)
      /\ Len(dialog.boxes) <= Len(dialog.offered)
      /\ dialog.offered \in {<<>>, Offered}
  BY DialogFacts
<1>2. \A i \in Checked : dialog.offered[i] \in Modules
  BY <1>1, OfferedFacts
<1>3. {dialog.offered[i] : i \in Checked}
        = {m \in Modules : \E i \in DOMAIN dialog.boxes :
                             dialog.boxes[i] /\ dialog.offered[i] = m}
  BY <1>2
<1>4. startBody(dialog) = Shown(dialog)
  BY <1>3 DEF startBody, Shown
<1>5. Shown(dialog) \in Choice
  BY DialogFacts DEF Shown, Choice
<1>6. Shown(dialog).modules # {}
  <2>1. PICK i \in DOMAIN dialog.boxes : dialog.boxes[i]
    BY DEF isAllTestsDisabled
  <2>2. dialog.offered[i] \in Shown(dialog).modules
    BY <1>2, <2>1 DEF Shown
  <2>3. QED  BY <2>2
<1>7. QED  BY <1>4, <1>5, <1>6 DEF Request

\* What a user does in the dialog on top leaves it a dialog.
LEMMA OnTopType ==
  ASSUME InitiateInv, NEW dialog \in Dialog, initiating # <<>>, OnTop(dialog)
  PROVE  InitiateInv'
<1>1. initiating' \in Seq(Dialog)
  BY DEF InitiateInv, DialogsInv, OnTop
<1>2. QED
  BY <1>1 DEF InitiateInv, DialogsInv, FlagsInv, RanInv, RunsAsChosen, OnTop

\* The server runs, of what the configuration names, what it is asked.
LEMMA ServeRuns ==
  ASSUME DialogsInv, NEW r \in Request, NEW now, NEW d, d = r.body.device,
         now = merged(d, r.body.modules)
  PROVE  /\ now \in [Fleet -> SUBSET Modules]
         /\ enabledIn(d, now) \subseteq Modules
         /\ enabledIn(d, now) \cap Knows[d] = r.chosen.modules \cap Knows[d]
<1>1. d \in Fleet /\ r.body = r.chosen /\ r.body.modules \subseteq Modules
  BY DEF Request, Choice
<1>2. Knows[d] \subseteq Modules  BY <1>1 DEF Modules
<1>3. now \in [Fleet -> SUBSET Modules] /\ now[d] = Knows[d] \cap r.body.modules
  BY <1>1, <1>2 DEF merged, DialogsInv
<1>4. QED  BY <1>1, <1>2, <1>3 DEF enabledIn

LEMMA NextInitiate == InitiateInv /\ [initiateNext]_initiateVars => InitiateInv'
<1> SUFFICES ASSUME InitiateInv, [initiateNext]_initiateVars PROVE InitiateInv'
  OBVIOUS
<1>0. DialogsInv /\ FlagsInv /\ RanInv  BY DEF InitiateInv
<1>1. CASE startTestrun \/ openStartTestrun
  <2>1. PICK dialog \in Dialog : initiating' = <<dialog>>
    <3>1. NewDialog(testModules) \in Dialog  BY <1>0, NewDialogType DEF DialogsInv
    <3>2. QED
      BY <1>0, <1>1, <3>1, SelectedType DEF startTestrun, openStartTestrun
  <2>2. initiating' \in Seq(Dialog)  BY <2>1
  <2>3. triggered' \in BOOLEAN
    BY <1>0, <1>1 DEF startTestrun, openStartTestrun, FlagsInv
  <2>4. starts' \in 0 .. MaxStarts
    BY <1>0, <1>1 DEF startTestrun, openStartTestrun, Counted, FlagsInv
  <2>5. UNCHANGED <<enabledModules, busy, ran, listModules, testModules, starting>>
    BY <1>1 DEF startTestrun, openStartTestrun
  <2>6. QED
    BY <1>0, <2>2, <2>3, <2>4, <2>5
    DEF InitiateInv, DialogsInv, FlagsInv, RanInv, RunsAsChosen
<1>2. CASE getTestModules
  <2>1. <<NewDialog(Offered)>> \in Seq(Dialog)  BY NewDialogType
  <2>2. initiating' \in Seq(Dialog)
    BY <1>0, <1>2, <2>1 DEF getTestModules, DialogsInv
  <2>3. QED
    BY <1>0, <1>2, <2>2
    DEF getTestModules, InitiateInv, DialogsInv, FlagsInv, RanInv, RunsAsChosen
<1>3. CASE deviceSelected \/ changeDevice \/ checkModule
  <2>1. initiating # <<>> /\ Head(initiating) \in Dialog
    BY <1>0, <1>3 DEF deviceSelected, changeDevice, checkModule, DialogsInv
  <2> DEFINE top == Head(initiating)
  <2>2. PICK dialog \in Dialog : OnTop(dialog)
    <3>1. CASE deviceSelected
      BY <1>0, <2>1, <3>1, SelectedType DEF deviceSelected
    <3>2. CASE changeDevice
      <4>1. [top EXCEPT !.device = NoChoice]
              = [top EXCEPT !.device = NoChoice, !.boxes = top.boxes]
        BY <2>1 DEF Dialog, Fields
      <4>2. [top EXCEPT !.device = NoChoice] \in Dialog
        BY <2>1, <4>1, DialogFacts, DialogBoxes
      <4>3. QED  BY <3>2, <4>2 DEF changeDevice
    <3>3. CASE checkModule
      <4>1. PICK i \in DOMAIN top.boxes : OnTop([top EXCEPT !.boxes[i] = ~@])
        BY <3>3 DEF checkModule
      <4> DEFINE b == [top.boxes EXCEPT ![i] = ~top.boxes[i]]
      <4>2. top.boxes \in [1 .. Len(top.boxes) -> BOOLEAN] /\ Len(top.boxes) \in Nat
            /\ DOMAIN top.boxes = 1 .. Len(top.boxes)
        BY <2>1, DialogFacts
      <4>3. b \in [1 .. Len(top.boxes) -> BOOLEAN]
        <5>1. (~top.boxes[i]) \in BOOLEAN  OBVIOUS
        <5>2. QED  BY <4>2, <5>1
      <4>4. b \in Seq(BOOLEAN) /\ Len(b) = Len(top.boxes)  BY <4>2, <4>3
      <4>5. [top EXCEPT !.boxes[i] = ~@] = [top EXCEPT !.device = top.device, !.boxes = b]
        BY <2>1 DEF Dialog, Fields
      <4> HIDE DEF b
      <4>6. top.device \in Fleet \cup {NoChoice} /\ Len(b) <= Len(top.offered)
        BY <2>1, <4>4, DialogFacts
      <4>7. [top EXCEPT !.boxes[i] = ~@] \in Dialog
        BY <2>1, <4>4, <4>5, <4>6, DialogBoxes
      <4>8. QED  BY <4>1, <4>7
    <3>4. QED  BY <1>3, <3>1, <3>2, <3>3
  <2>3. QED  BY <2>1, <2>2, OnTopType
<1>4. CASE startTestRun
  <2>1. Head(initiating) \in Dialog  BY <1>0, <1>4 DEF startTestRun, DialogsInv
  <2>2. starting' \in Request
    BY <1>4, <2>1, RequestType DEF startTestRun
  <2>3. initiating' \in Seq(Dialog)
    <3>1. [Head(initiating) EXCEPT !.sent = TRUE] \in Dialog  BY <2>1, DialogSent
    <3>2. initiating' = [initiating EXCEPT ![1] = [Head(initiating) EXCEPT !.sent = TRUE]]
      BY <1>0, <1>4 DEF startTestRun, DialogsInv
    <3>3. initiating \in Seq(Dialog) /\ 1 \in 1 .. Len(initiating)
      BY <1>0, <1>4 DEF startTestRun, DialogsInv
    <3>4. QED  BY <3>1, <3>2, <3>3, DialogsExcept
  <2>4. QED
    BY <1>0, <1>4, <2>2, <2>3
    DEF startTestRun, InitiateInv, DialogsInv, FlagsInv, RanInv, RunsAsChosen
<1>5. CASE cancelInitiate
  <2>1. initiating' \in Seq(Dialog)
    BY <1>0, <1>5 DEF cancelInitiate, DialogsInv
  <2>2. QED
    BY <1>0, <1>5, <2>1
    DEF cancelInitiate, InitiateInv, DialogsInv, FlagsInv, RanInv, RunsAsChosen
<1>6. CASE serveStart
  <2>1. UNCHANGED <<listModules, testModules, triggered, initiating, starts>>
    BY <1>6 DEF serveStart
  <2>2. CASE starting' = Failed /\ UNCHANGED <<enabledModules, busy, ran>>
    BY <1>0, <2>1, <2>2
    DEF InitiateInv, DialogsInv, FlagsInv, RanInv, RunsAsChosen
  <2>3. CASE ~(starting' = Failed /\ UNCHANGED <<enabledModules, busy, ran>>)
    <3>1. starting \in Request
      BY <1>0, <1>6 DEF serveStart, DialogsInv, Idle, Failed
    <3> DEFINE d == starting.body.device
    <3>2. /\ busy' = TRUE /\ enabledModules' = merged(d, starting.body.modules)
          /\ ran' = [device |-> d, modules |-> enabledIn(d, enabledModules'),
                     chosen |-> starting.chosen]
          /\ starting' \in {[starting EXCEPT !.at = "done"], Failed}
      BY <1>6, <2>3 DEF serveStart
    <3>3. /\ enabledModules' \in [Fleet -> SUBSET Modules]
          /\ enabledIn(d, enabledModules') \subseteq Modules
          /\ enabledIn(d, enabledModules') \cap Knows[d]
               = starting.chosen.modules \cap Knows[d]
      BY <1>0, <3>1, <3>2, ServeRuns
    <3>4. /\ d \in Fleet /\ starting.chosen \in Choice
          /\ starting.chosen.device = d /\ starting.chosen.modules # {}
      BY <3>1 DEF Request, Choice
    <3>5. [starting EXCEPT !.at = "done"] \in Request  BY <3>1 DEF Request
    <3>6. ran' \in Run  BY <3>2, <3>3, <3>4 DEF Run
    <3>7. RunsAsChosen'  BY <3>2, <3>3, <3>4 DEF RunsAsChosen
    <3>8. QED
      BY <1>0, <2>1, <3>2, <3>3, <3>5, <3>6, <3>7
      DEF InitiateInv, DialogsInv, FlagsInv, RanInv
  <2>4. QED  BY <2>2, <2>3
<1>7. CASE startAnswered
  <2>1. initiating' \in Seq(Dialog)
    <3>0. initiating \in Seq(Dialog)  BY <1>0 DEF DialogsInv
    <3>1. ASSUME NEW i \in DOMAIN initiating, initiating' = RemoveAt(initiating, i)
          PROVE  initiating' \in Seq(Dialog)
      <4>1. i \in 1 .. Len(initiating) /\ Len(initiating) \in Nat  BY <3>0, <3>1
      <4>2. /\ SubSeq(initiating, 1, i - 1) \in Seq(Dialog)
            /\ SubSeq(initiating, i + 1, Len(initiating)) \in Seq(Dialog)
        BY <3>0, <4>1
      <4>3. QED  BY <3>1, <4>2 DEF RemoveAt
    <3>2. CASE initiating' = [i \in DOMAIN initiating |->
                                [initiating[i] EXCEPT !.sent = FALSE]]
      <4>1. DOMAIN initiating = 1 .. Len(initiating) /\ Len(initiating) \in Nat
        BY <1>0 DEF DialogsInv
      <4>2. \A i \in 1 .. Len(initiating) :
              [initiating[i] EXCEPT !.sent = FALSE] \in Dialog
        <5> SUFFICES ASSUME NEW i \in 1 .. Len(initiating)
                     PROVE  [initiating[i] EXCEPT !.sent = FALSE] \in Dialog
          OBVIOUS
        <5>1. initiating[i] \in Dialog  BY <3>0
        <5>2. QED  BY <5>1, DialogSent
      <4>3. QED  BY <3>2, <4>1, <4>2
    <3>3. QED  BY <1>7, <3>0, <3>1, <3>2 DEF startAnswered
  <2>2. QED
    BY <1>0, <1>7, <2>1
    DEF startAnswered, InitiateInv, DialogsInv, FlagsInv, RanInv, RunsAsChosen
<1>8. CASE runEnds
  BY <1>0, <1>8 DEF runEnds, InitiateInv, DialogsInv, FlagsInv, RanInv, RunsAsChosen
<1>9. CASE UNCHANGED initiateVars
  BY <1>0, <1>9
  DEF initiateVars, InitiateInv, DialogsInv, FlagsInv, RanInv, RunsAsChosen
<1>10. QED
  BY <1>1, <1>2, <1>3, <1>4, <1>5, <1>6, <1>7, <1>8, <1>9 DEF initiateNext

LEMMA InitInitiate == initiateInit => InitiateInv
<1> SUFFICES ASSUME initiateInit PROVE InitiateInv
  OBVIOUS
<1>1. DialogsInv
  <2>1. initiating \in Seq(Dialog)  BY DEF initiateInit
  <2>2. QED  BY <2>1 DEF initiateInit, DialogsInv
<1>2. busy = FALSE /\ triggered = FALSE /\ starts \in 0 .. MaxStarts
  BY DEF initiateInit
<1>3. RanInv  BY DEF initiateInit, RanInv, RunsAsChosen
<1>4. QED  BY <1>1, <1>2, <1>3 DEF InitiateInv, FlagsInv

\* A run is of the device and of the modules that its dialog showed as chosen
\* (startTestRun, start_testrun), wherever they stand in the list, whatever
\* the list of the devices says by then, however many dialogs were opened.
THEOREM RunsWhatWasChosen == initiateSpec => []RunsAsChosen
<1>1. InitiateInv => RunsAsChosen  BY DEF InitiateInv, RanInv
<1>2. QED  BY <1>1, InitInitiate, NextInitiate, PTL DEF initiateSpec

-----------------------------------------------------------------------------
(***************************************************************************)
(* All pages.  The page that is shown takes a step of its own, and the     *)
(* others take none: each of them keeps its specification.                 *)
(***************************************************************************)

EveryNext ==
  /\ [certNext]_certVars /\ [reportNext]_reportVars /\ [settingNext]_settingVars
  /\ [deviceNext]_deviceVars /\ [profileNext]_profileVars
  /\ [initiateNext]_initiateVars /\ [questionNext]_questionVars

LEMMA PagesApart == [Next]_pageVars => EveryNext
<1> SUFFICES ASSUME [Next]_pageVars PROVE EveryNext
  OBVIOUS
<1>1. CASE UNCHANGED pageVars  BY <1>1 DEF pageVars, EveryNext
<1>2. CASE Next  BY <1>2 DEF Next, EveryNext
<1>3. QED  BY <1>1, <1>2

LEMMA EveryPage ==
  Spec => /\ certSpec /\ reportSpec /\ settingSpec /\ deviceSpec /\ profileSpec
          /\ initiateSpec /\ questionSpec
<1>1. Init => /\ certInit /\ reportInit /\ settingInit /\ deviceInit /\ profileInit
              /\ initiateInit /\ questionInit
  BY DEF Init
<1>2. [Next]_pageVars =>
        /\ [certNext]_certVars /\ [reportNext]_reportVars /\ [settingNext]_settingVars
        /\ [deviceNext]_deviceVars /\ [profileNext]_profileVars
        /\ [initiateNext]_initiateVars /\ [questionNext]_questionVars
  BY PagesApart DEF EveryNext
<1>3. QED
  BY <1>1, <1>2, PTL DEF Spec, certSpec, reportSpec, settingSpec, deviceSpec, profileSpec,
     initiateSpec, questionSpec

PagesAgree ==
  /\ CertificatesAgree /\ ReportsAgree /\ SettingsSound /\ DevicesAgree
  /\ ProfilesAgree /\ RunsAsChosen /\ QuestionsAgree

\* Of whichever page is shown (the routes of app-routing): its list is what the
\* server has where the page was told, up to the calls under way, its form what
\* it was made of, and a run starts as it was chosen.
THEOREM PagesKeepUp == Spec => []PagesAgree
<1>1. Spec => /\ []CertificatesAgree /\ []ReportsAgree
              /\ [](settingTypeOK /\ SettingsSound) /\ []DevicesAgree
              /\ []ProfilesAgree /\ []RunsAsChosen /\ []QuestionsAgree
  BY EveryPage, CertificatesListed, ReportsShown, SettingsAreSound, DevicesAreListed,
     ProfilesAreListed, RunsWhatWasChosen, AnswersAgree
<1>2. QED  BY <1>1, PTL DEF PagesAgree

\* Of both forms (devices.component, risk-assessment.component): what is typed
\* and not saved stays until the user types or answers a dialog, or a deletion
\* is answered; a late questionnaire, and the first selection after a click on
\* Save, are the ways the code lets it go unasked.
THEOREM EditsAreKept == Spec => EditsKept
BY EveryPage, DeviceFormKept, ProfileFormKept DEF EditsKept
=============================================================================
