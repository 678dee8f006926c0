-------------------------- MODULE CertificateStore --------------------------
(***************************************************************************)
(* The certificates the server keeps: files of local/root_certs, and the   *)
(* list of them in the session.                                            *)
(*                                                                         *)
(* The handlers that upload and delete are coroutines of the event loop,   *)
(* one of which is at work at a time (a certificate is small, so that      *)
(* reading what was uploaded does not give way).  The handler of the list  *)
(* is a function that the server runs in a thread: it loads the files      *)
(* again, at any time, and several times at once.  All of them share the   *)
(* list, of which a load makes a new one and then appends to it.           *)
(*                                                                         *)
(* A certificate is its common name; the file of one that is being written *)
(* is Empty, as is that of one that could not be.                          *)
(***************************************************************************)
EXTENDS Naturals, Sequences, FiniteSets

CONSTANTS
  Files,    \* names of files
  Names,    \* common names
  Loaders   \* bound: the threads that may load at once

NoFile == "none"
Empty == "empty"

ASSUME CertificateAssumption ==
  Names \cap {NoFile, Empty} = {} /\ IsFiniteSet(Files)

VARIABLES
  disk,     \* [Files -> the certificate in it]
  certs,    \* Session._certs
  handler,  \* the handler that is at work on the event loop
  thread,   \* [Loaders -> what the thread is at]
  touched,  \* history: files that changed and which the list may be wrong of
  since,    \* history: [Loaders -> the files changed since it began]
  crossed   \* history: a load began whilst another was under way

certVars == <<disk, certs, handler, thread, touched, since, crossed>>

Contents == Names \cup {NoFile, Empty}
Certificate == [file : Files, name : Names]

\* What is at work: what it does next, for what, and whether what it read of
\* the list was unsure, the list being loaded or the file changed since.
Idle == [at |-> "idle"]
Handler ==
  {Idle} \cup [at : {"check", "open", "write", "remove", "unlist"},
               cert : Certificate, unsure : BOOLEAN]
Loader ==
  {Idle} \cup [at : {"list"}]
         \cup [at : {"read"}, todo : SUBSET Files]
         \cup [at : {"append"}, todo : SUBSET Files, cert : Certificate]

CertTypeOK ==
  /\ disk \in [Files -> Contents]
  /\ certs \in Seq(Certificate)
  /\ handler \in Handler
  /\ thread \in [Loaders -> Loader]
  /\ touched \subseteq Files
  /\ since \in [Loaders -> SUBSET Files]
  /\ crossed \in BOOLEAN

Loading == {l \in Loaders : thread[l] # Idle}
ListedCerts == {certs[i] : i \in DOMAIN certs}

\* The session loads the files before the server starts.
CertInit ==
  /\ disk \in [Files -> Names \cup {NoFile}]
  /\ LET S == {c \in Certificate : disk[c.file] = c.name}
     IN  certs \in {s \in [1 .. Cardinality(S) -> S] :
                      \A c \in S : \E i \in DOMAIN s : s[i] = c}
  /\ handler = Idle
  /\ thread = [l \in Loaders |-> Idle]
  /\ touched = {} /\ since = [l \in Loaders |-> {}] /\ crossed = FALSE

\* A file changes.
Change(f, content) ==
  /\ disk' = [disk EXCEPT ![f] = content]
  /\ touched' = touched \cup {f}
  /\ since' = [l \in Loaders |-> since[l] \cup {f}]

-----------------------------------------------------------------------------
(***************************************************************************)
(* upload_cert, of the API and of the session.                             *)
(***************************************************************************)

Unlisted(n) == \A c \in ListedCerts : c.name # n

\* History: the list is being made, or lacks a certificate of that name.
OutOfDate(n) == Loading # {} \/ \E f \in touched : disk[f] = n

\* check_cert_file_name: a file of that name is refused.
UploadCert(c) ==
  /\ handler = Idle /\ disk[c.file] = NoFile
  /\ handler' = [at |-> "check", cert |-> c, unsure |-> FALSE]
  /\ UNCHANGED <<disk, certs, thread, touched, since, crossed>>

\* Mutant: common names are not compared.
CheckNameMutant ==
  /\ handler.at = "check"
  /\ handler' = [handler EXCEPT !.at = "open",
                                !.unsure = OutOfDate(handler.cert.name)]
  /\ UNCHANGED <<disk, certs, thread, touched, since, crossed>>

CheckName ==
  /\ handler.at = "check"
  /\ handler' = IF Unlisted(handler.cert.name)
                THEN [handler EXCEPT !.at = "open",
                                      !.unsure = OutOfDate(handler.cert.name)]
                ELSE Idle
  /\ UNCHANGED <<disk, certs, thread, touched, since, crossed>>

OpenFile ==
  /\ handler.at = "open"
  /\ Change(handler.cert.file, Empty)
  /\ handler' = [handler EXCEPT !.at = "write"]
  /\ UNCHANGED <<certs, thread, crossed>>

\* The list is left as it is: it has the certificate when it is loaded again.
WriteFile ==
  /\ handler.at = "write"
  /\ Change(handler.cert.file, handler.cert.name)
  /\ handler' = Idle
  /\ UNCHANGED <<certs, thread, crossed>>

\* The file cannot be opened or written, or is no certificate.
UploadFails ==
  /\ handler.at \in {"check", "open", "write"}
  /\ handler' = Idle
  /\ UNCHANGED <<disk, certs, thread, touched, since, crossed>>

-----------------------------------------------------------------------------
(***************************************************************************)
(* delete_cert, of the API and of the session.                             *)
(***************************************************************************)

\* The first that is listed by that name.
DeleteCert(n) ==
  /\ handler = Idle
  /\ \E i \in DOMAIN certs :
       /\ certs[i].name = n /\ \A j \in 1 .. i - 1 : certs[j].name # n
       /\ handler' = [at |-> "remove", cert |-> certs[i],
                      unsure |-> certs[i].file \in touched]
  /\ UNCHANGED <<disk, certs, thread, touched, since, crossed>>

RemoveFile ==
  /\ handler.at = "remove" /\ disk[handler.cert.file] # NoFile
  /\ Change(handler.cert.file, NoFile)
  /\ handler' = [handler EXCEPT !.at = "unlist"]
  /\ UNCHANGED <<certs, thread, crossed>>

\* There is no file, or it cannot be removed: its entry is left.  The handler
\* of the API does not look at what it is told, and answers that all is well.
RemoveFails ==
  /\ handler.at = "remove"
  /\ handler' = Idle
  /\ UNCHANGED <<disk, certs, thread, touched, since, crossed>>

WithoutCert(i) == SubSeq(certs, 1, i - 1) \o SubSeq(certs, i + 1, Len(certs))

\* History: without a load under way the list is up to date of the file.
Caught == IF Loading = {} /\ ~crossed THEN touched \ {handler.cert.file}
                                      ELSE touched

\* Mutant: what has been removed stays listed.
UnlistCertMutant ==
  /\ handler.at = "unlist"
  /\ touched' = Caught
  /\ handler' = Idle
  /\ UNCHANGED <<disk, certs, thread, since, crossed>>

\* The first that is listed of that file, in the list that is the session's by
\* now.
UnlistCert ==
  /\ handler.at = "unlist"
  /\ IF \A c \in ListedCerts : c.file # handler.cert.file
     THEN UNCHANGED certs
     ELSE \E i \in DOMAIN certs :
            /\ certs[i].file = handler.cert.file
            /\ \A j \in 1 .. i - 1 : certs[j].file # handler.cert.file
            /\ certs' = WithoutCert(i)
  /\ touched' = Caught
  /\ handler' = Idle
  /\ UNCHANGED <<disk, thread, since, crossed>>

-----------------------------------------------------------------------------
(***************************************************************************)
(* get_certs: load_certs in a thread.                                      *)
(***************************************************************************)

\* Mutant: the list is kept.
BeginLoadMutant(l) ==
  /\ thread[l] = Idle
  /\ thread' = [thread EXCEPT ![l] = [at |-> "list"]]
  /\ crossed' = (Loading # {}) /\ since' = [since EXCEPT ![l] = {}]
  /\ UNCHANGED <<disk, certs, handler, touched>>

BeginLoad(l) ==
  /\ thread[l] = Idle
  /\ certs' = <<>>
  /\ thread' = [thread EXCEPT ![l] = [at |-> "list"]]
  /\ crossed' = (Loading # {}) /\ since' = [since EXCEPT ![l] = {}]
  /\ UNCHANGED <<disk, handler, touched>>

ListFiles(l) ==
  /\ thread[l].at = "list"
  /\ LET found == {f \in Files : disk[f] # NoFile}
     IN  thread' = [thread EXCEPT ![l] = [at |-> "read", todo |-> found]]
  /\ UNCHANGED <<disk, certs, handler, touched, since, crossed>>

\* In any order.  What is not there any more or is no certificate is left out.
ReadFile(l) ==
  /\ thread[l].at = "read"
  /\ \E f \in thread[l].todo :
       LET todo == thread[l].todo \ {f}
       IN  thread' = [thread EXCEPT ![l] =
             IF disk[f] \in Names
             THEN [at |-> "append", todo |-> todo,
                   cert |-> [file |-> f, name |-> disk[f]]]
             ELSE [at |-> "read", todo |-> todo]]
  /\ UNCHANGED <<disk, certs, handler, touched, since, crossed>>

\* self._certs is by now what the last load to begin made of it.
AppendCert(l) ==
  /\ thread[l].at = "append"
  /\ certs' = Append(certs, thread[l].cert)
  /\ thread' = [thread EXCEPT ![l] = [at |-> "read", todo |-> thread[l].todo]]
  /\ UNCHANGED <<disk, handler, touched, since, crossed>>

EndLoad(l) ==
  /\ thread[l].at = "read" /\ thread[l].todo = {}
  /\ thread' = [thread EXCEPT ![l] = Idle]
  /\ touched' = IF crossed THEN touched ELSE touched \cap since[l]
  /\ UNCHANGED <<disk, certs, handler, since, crossed>>

-----------------------------------------------------------------------------
HandleCert ==
  \/ \E c \in Certificate : UploadCert(c)
  \/ CheckName \/ OpenFile \/ WriteFile \/ UploadFails
  \/ \E n \in Names : DeleteCert(n)
  \/ RemoveFile \/ RemoveFails \/ UnlistCert

Load(l) ==
  \/ BeginLoad(l) \/ ListFiles(l) \/ ReadFile(l) \/ AppendCert(l) \/ EndLoad(l)

CertNext == HandleCert \/ \E l \in Loaders : Load(l)

CertSpec == CertInit /\ [][CertNext]_certVars

-----------------------------------------------------------------------------
(***************************************************************************)
(* Properties.                                                             *)
(***************************************************************************)

\* At rest the list is that of the files, each of them once, but for those
\* that were uploaded since the last load or changed during it: a deletion at
\* other times needs no load, and a load is not confused by other files.
ListFollowsDisk ==
  handler = Idle /\ Loading = {} /\ ~crossed
  => \A f \in Files \ touched :
       Cardinality({i \in DOMAIN certs : certs[i].file = f})
         = IF disk[f] \in Names THEN 1 ELSE 0

\* A deletion removes the certificate that it names, whatever loads cross,
\* unless it was found in a list that was out of date of the file by then.
DeletesNamed ==
  [][\A f \in Files : disk[f] \in Names /\ disk'[f] = NoFile
       => disk[f] = handler.cert.name \/ handler.unsure]_certVars

\* A certificate is not stored beside one of its name, unless the names were
\* compared in the midst of a load, or the list lacked one by then.
StoredApart ==
  [][\A f, g \in Files :
       f # g /\ disk[g] \in Names /\ disk'[f] = disk[g]
         => disk[f] = disk[g] \/ handler.unsure]_certVars

\* "Check if any existing certificates have the same common name": an
\* upload never stores a certificate beside one of its name.
CommonNamesDiffer ==
  [][\A f, g \in Files :
       f # g /\ disk[g] \in Names /\ disk'[f] = disk[g]
         => disk[f] = disk[g]]_certVars

\* "Successfully deleted the certificate": there is no such file then.
DeletedWhenSaid ==
  [][handler.at \in {"remove", "unlist"} /\ handler' = Idle
     => disk[handler.cert.file] = NoFile]_certVars
=============================================================================
