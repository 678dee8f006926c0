--------------------------- MODULE UiCertificates ---------------------------
(***************************************************************************)
(* The certificates page (pages/certificates): the list it shows, and its  *)
(* three effects.  Each is a switchMap, so that a new request of a kind    *)
(* gives up on the one under way, whose answer nobody will hear.           *)
(*                                                                         *)
(* A certificate is listed by its common name; one that is being uploaded  *)
(* is listed by the name of its file.                                      *)
(***************************************************************************)
EXTENDS FiniteSets, UiCalls

CONSTANTS
  Files,       \* the files that may be chosen
  CommonName,  \* [Files -> the common name in the certificate]
  Defects      \* [Files -> what is wrong with its name, extension or size]

VARIABLES
  stored,        \* server: the files of the certificates it keeps
  rows,          \* CertificatesStore.certificates
  listing,       \* getCertificates: what the request is at
  uploading,     \* uploadCertificate
  deleting,      \* deleteCertificate
  removing,      \* the certificate the dialog of a deletion is about
  stale,         \* history: names of which the page has not heard the latest
  missed,        \* history: [CertAnswers -> names that changed since the answer
                 \* that is on its way was made]
  hidden         \* history: names taken off the list by an upload that failed,
                 \* because its file had that name

historyVars == <<stale, missed, hidden>>
certVars == <<stored, rows, listing, uploading, deleting, removing, historyVars>>

CertNames == {CommonName[f] : f \in Files}
Row(n, u) == [name |-> n, uploading |-> u]
Named(S) == {CommonName[f] : f \in S}
Listed(S) == {Row(n, FALSE) : n \in Named(S)}

NoName == "none"

\* The answers that tell the page what there is.
CertAnswers == {"list", "upload", "deletion"}

certTypeOK ==
  /\ stored \subseteq Files
  /\ rows \subseteq [name : Files, uploading : {TRUE}]
                     \cup [name : CertNames, uploading : {FALSE}]
  /\ listing \in {Idle, Asked, Failed}
                   \cup [at : {"answered"}, certs : SUBSET Files]
  /\ uploading \in {Idle} \cup [at : {"posted", "refused", "stored", "asked"},
                                file : Files]
                     \cup [at : {"answered"}, file : Files, certs : SUBSET Files]
  /\ deleting \in {Idle, Failed} \cup [at : {"asked", "done"}, name : CertNames]
  /\ removing \in CertNames \cup {NoName}
  /\ stale \subseteq CertNames /\ hidden \subseteq CertNames
  /\ missed \in [CertAnswers -> SUBSET CertNames]

\* onInit asks for the list.
certInit ==
  /\ stored \in {S \in SUBSET Files : Cardinality(Named(S)) = Cardinality(S)}
  /\ rows = {} /\ listing = Asked
  /\ uploading = Idle /\ deleting = Idle /\ removing = NoName
  /\ stale = CertNames /\ hidden = {}
  /\ missed = [a \in CertAnswers |-> {}]

-----------------------------------------------------------------------------
(***************************************************************************)
(* The server.                                                             *)
(***************************************************************************)
OnItsWay(a) ==
  CASE a = "list"     -> listing.at = "answered"
    [] a = "upload"   -> uploading.at = "answered"
    [] a = "deletion" -> deleting.at = "done"

\* History: the certificate of this name is stored or removed, which no answer
\* that was made before says.
Changes(n) ==
  /\ stale' = stale \cup {n}
  /\ missed' = [a \in CertAnswers |-> IF OnItsWay(a) THEN missed[a] \cup {n} ELSE {}]
  /\ UNCHANGED hidden

Refuses(f) == f \in stored \/ CommonName[f] \in Named(stored)

\* What the server makes of the upload and of the deletion under way; the
\* answer may be lost on its way back.
ServeUpload ==
  /\ uploading.at = "posted"
  /\ \/ /\ ~Refuses(uploading.file)
        /\ stored' = stored \cup {uploading.file}
        /\ \/ uploading' = [uploading EXCEPT !.at = "stored"]
           \/ uploading' = [uploading EXCEPT !.at = "refused"]
        /\ Changes(CommonName[uploading.file])
     \/ /\ uploading' = [uploading EXCEPT !.at = "refused"]
        /\ UNCHANGED <<stored, historyVars>>
  /\ UNCHANGED <<rows, listing, deleting, removing>>

ServeDelete ==
  /\ deleting.at = "asked"
  /\ LET gone == {f \in stored : CommonName[f] = deleting.name}
     IN \/ /\ gone /= {} /\ stored' = stored \ gone
           /\ Changes(deleting.name)
           /\ deleting' \in {[deleting EXCEPT !.at = "done"], Failed}
        \/ /\ deleting' = Failed
           /\ UNCHANGED <<stored, historyVars>>
  /\ UNCHANGED <<rows, listing, uploading, removing>>

\* GET /system/config/certs, for the list and for an upload.
ServeList ==
  /\ \/ /\ listing = Asked
        /\ listing' \in {[at |-> "answered", certs |-> stored], Failed}
        /\ UNCHANGED uploading
     \/ /\ uploading.at = "asked"
        /\ uploading' \in {[at |-> "answered", file |-> uploading.file,
                            certs |-> stored],
                           [at |-> "refused", file |-> uploading.file]}
        /\ UNCHANGED listing
  /\ UNCHANGED <<stored, rows, deleting, removing, historyVars>>

-----------------------------------------------------------------------------
(***************************************************************************)
(* The page.                                                               *)
(***************************************************************************)
removeCertificate(S, n) == {r \in S : r.name /= n}
addCertificate(f) == rows' = rows \cup {Row(f, TRUE)}

\* History: an answer is not on its way any more, heard or given up.
Over(a) == missed' = [missed EXCEPT ![a] = {}]

\* A list is shown, whenever it was made.
Shows(S, a) ==
  /\ rows' = Listed(S)
  /\ stale' = missed[a] /\ hidden' = {} /\ Over(a)

\* Without an answer the list is empty, whatever there is.
getCertificates ==
  /\ listing.at \in {"answered", "failed"} /\ listing' = Idle
  /\ \/ listing.at = "answered" /\ Shows(listing.certs, "list")
     \/ /\ listing.at = "failed" /\ rows' = {}
        /\ stale' = CertNames /\ hidden' = {} /\ UNCHANGED missed
  /\ UNCHANGED <<stored, uploading, deleting, removing>>

\* History: the page has been told of a deletion.  When the name has changed
\* since then, what it was told is not the latest.
HeardDeleted(n) ==
  /\ stale' = IF n \in missed["deletion"] THEN stale \cup {n} ELSE stale \ {n}
  /\ hidden' = hidden \ {n} /\ Over("deletion")

\* Mutant: the certificate is left in the list.
DeletedMutant ==
  /\ deleting.at \in {"done", "failed"} /\ deleting' = Idle
  /\ rows' = rows
  /\ IF deleting = Failed THEN UNCHANGED historyVars ELSE HeardDeleted(deleting.name)
  /\ UNCHANGED <<stored, listing, uploading, removing>>

\* The answer to a deletion.
Deleted ==
  /\ deleting.at \in {"done", "failed"} /\ deleting' = Idle
  /\ IF deleting = Failed THEN UNCHANGED <<rows, historyVars>>
     ELSE /\ rows' = removeCertificate(rows, deleting.name)
          /\ HeardDeleted(deleting.name)
  /\ UNCHANGED <<stored, listing, uploading, removing>>

\* The dialog asks; a confirmed deletion gives up on the last.  The button
\* of a certificate that is being uploaded is disabled.
deleteCertificate ==
  /\ \/ /\ removing = NoName
        /\ \E r \in rows : ~r.uploading /\ removing' = r.name
        /\ UNCHANGED <<deleting, missed>>
     \/ /\ removing /= NoName /\ removing' = NoName
        /\ \/ UNCHANGED <<deleting, missed>>
           \/ deleting' = [at |-> "asked", name |-> removing] /\ Over("deletion")
  /\ UNCHANGED <<stored, rows, listing, uploading, stale, hidden>>

getValidationErrors(f) == Defects[f]

\* A file is chosen: the upload under way is given up in any case, and its
\* row stays.
uploadCertificate(f) ==
  /\ removing = NoName
  /\ IF getValidationErrors(f) /= {} THEN uploading' = Idle /\ UNCHANGED rows
     ELSE /\ addCertificate(f)
          /\ uploading' = [at |-> "posted", file |-> f]
  /\ Over("upload")
  /\ UNCHANGED <<stored, listing, deleting, removing, stale, hidden>>

\* The answer to an upload: the list is asked for, and shown; the message
\* names the certificate that is new in it, and when there is none (as when
\* its common name is the name of its file) that is an error.  After an
\* error the row named like the file is removed.
Uploaded ==
  /\ \/ /\ uploading.at = "stored"
        /\ uploading' = [uploading EXCEPT !.at = "asked"]
        /\ UNCHANGED <<rows, historyVars>>
     \/ /\ uploading.at = "answered" /\ uploading' = Idle
        /\ LET certs == uploading.certs
               new == {n \in Named(certs) : \A r \in rows : r.name /= n}
           IN \/ new /= {} /\ Shows(certs, "upload")
              \/ /\ new = {}
                 /\ rows' = removeCertificate(Listed(certs), uploading.file)
                 /\ hidden' = {uploading.file} \cap Named(certs)
                 /\ stale' = missed["upload"] /\ Over("upload")
     \/ /\ uploading.at = "refused" /\ uploading' = Idle
        /\ rows' = removeCertificate(rows, uploading.file)
        /\ hidden' = hidden \cup {n \in {uploading.file} : Row(n, FALSE) \in rows}
        /\ UNCHANGED <<stale, missed>>
  /\ UNCHANGED <<stored, listing, deleting, removing>>

\* The page is left and opened again, once nothing is on its way to the
\* server; answers are not heard.
Reopen ==
  /\ uploading.at /= "posted" /\ deleting.at /= "asked"
  /\ rows' = {} /\ listing' = Asked
  /\ stale' = CertNames /\ hidden' = {} /\ missed' = [a \in CertAnswers |-> {}]
  /\ uploading' = Idle /\ deleting' = Idle /\ removing' = NoName
  /\ UNCHANGED stored

certNext ==
  \/ ServeUpload \/ ServeDelete \/ ServeList
  \/ getCertificates \/ Deleted \/ deleteCertificate \/ Uploaded \/ Reopen
  \/ \E f \in Files : uploadCertificate(f)

-----------------------------------------------------------------------------
(***************************************************************************)
(* Properties.                                                             *)
(***************************************************************************)

\* The page lists the certificates that the server keeps, whatever uploads,
\* deletions and lists cross each other, for every name of which it has heard
\* the latest: no answer about it was lost or given up, none is still to come,
\* and none that came was made before the name changed again.  There is one
\* exception, and it is a fault: an upload that fails takes the row with the
\* name of its file off the list, also when that is a certificate that is
\* stored, and when the upload succeeded and was listed by that very name.
CertificatesAgree ==
  \A n \in CertNames \ stale :
    n \in Named(stored) <=> Row(n, FALSE) \in rows \/ n \in hidden
=============================================================================
