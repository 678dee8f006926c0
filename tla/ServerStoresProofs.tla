------------------------- MODULE ServerStoresProofs -------------------------
(***************************************************************************)
(* Theorems about what the server keeps in memory and on disk, for any     *)
(* bounds: the certificates (CertificateStore), for any files, names and   *)
(* number of threads that load, and the risk profiles (ProfileStore), for  *)
(* any names and saves.                                                    *)
(***************************************************************************)
EXTENDS CertificateStore, ProfileStore, FiniteSetTheorems, FunctionTheorems,
        SequenceTheorems, TLAPS

-----------------------------------------------------------------------------
(***************************************************************************)
(* Lists.                                                                  *)
(***************************************************************************)

\* A list without one of its entries.
Without(s, i) == SubSeq(s, 1, i - 1) \o SubSeq(s, i + 1, Len(s))

LEMMA WithoutOne ==
  ASSUME NEW S, NEW s \in Seq(S), NEW i \in DOMAIN s
  PROVE  /\ Without(s, i) \in Seq(S)
         /\ Len(Without(s, i)) = Len(s) - 1
         /\ \A j \in DOMAIN Without(s, i) :
              Without(s, i)[j] = s[IF j < i THEN j ELSE j + 1]
<1>1. i \in 1 .. Len(s) /\ Len(s) \in Nat
  OBVIOUS
<1>front. PICK front : front = SubSeq(s, 1, i - 1)
  OBVIOUS
<1>back. PICK back : back = SubSeq(s, i + 1, Len(s))
  OBVIOUS
<1>2. /\ front \in Seq(S) /\ Len(front) = i - 1
      /\ \A j \in 1 .. i - 1 : front[j] = s[j]
  BY <1>1, <1>front, SubSeqProperties
<1>3. /\ back \in Seq(S) /\ Len(back) = Len(s) - i
      /\ \A j \in 1 .. Len(s) - i : back[j] = s[i + j]
  BY <1>1, <1>back, SubSeqProperties
<1>join. Without(s, i) = front \o back
  BY <1>front, <1>back DEF Without
<1>types. front \in Seq(S) /\ back \in Seq(S)
  BY <1>2, <1>3
<1>concat. /\ front \o back \in Seq(S)
           /\ Len(front \o back) = Len(front) + Len(back)
           /\ \A j \in 1 .. Len(front) + Len(back) :
                (front \o back)[j] = IF j <= Len(front) THEN front[j]
                                                     ELSE back[j - Len(front)]
  BY <1>types, ConcatProperties, Zenon
<1>4. /\ Without(s, i) \in Seq(S)
      /\ Len(Without(s, i)) = Len(front) + Len(back)
      /\ \A j \in 1 .. Len(front) + Len(back) :
           Without(s, i)[j] = IF j <= Len(front) THEN front[j]
                                              ELSE back[j - Len(front)]
  BY <1>join, <1>concat, Zenon
<1>5. Len(Without(s, i)) = Len(s) - 1
  BY <1>1, <1>2, <1>3, <1>4
<1>6. DOMAIN Without(s, i) = 1 .. Len(s) - 1
  BY <1>4, <1>5
<1>7. ASSUME NEW j \in 1 .. Len(s) - 1
      PROVE  Without(s, i)[j] = s[IF j < i THEN j ELSE j + 1]
  <2>1. CASE j < i
    <3>1. j \in 1 .. i - 1 /\ j <= Len(front) /\ j \in 1 .. Len(front) + Len(back)
      BY <1>1, <1>2, <1>3, <2>1
    <3>2. Without(s, i)[j] = front[j]
      BY <1>4, <3>1
    <3>3. front[j] = s[j]
      BY <1>2, <3>1
    <3> QED
      BY <2>1, <3>2, <3>3
  <2>2. CASE ~(j < i)
    <3>1. /\ j - Len(front) \in 1 .. Len(s) - i
          /\ i + (j - Len(front)) = j + 1
      BY <1>1, <1>2, <2>2
    <3>2. j \in 1 .. Len(front) + Len(back) /\ ~(j <= Len(front))
      BY <1>1, <1>2, <1>3, <2>2
    <3>3. Without(s, i)[j] = back[j - Len(front)]
      BY <1>4, <3>2
    <3>4. back[j - Len(front)] = s[j + 1]
      BY <1>3, <3>1
    <3> QED
      BY <2>2, <3>3, <3>4
  <2> QED
    BY <2>1, <2>2
<1> QED
  BY <1>4, <1>5, <1>6, <1>7

LEMMA OthersStay ==
  ASSUME NEW S, NEW s \in Seq(S), NEW i \in DOMAIN s
  PROVE  \A j \in DOMAIN s \ {i} :
           \E k \in DOMAIN Without(s, i) : Without(s, i)[k] = s[j]
<1>1. /\ DOMAIN s = 1 .. Len(s) /\ DOMAIN Without(s, i) = 1 .. Len(s) - 1
      /\ Len(s) \in Nat
      /\ \A j \in DOMAIN Without(s, i) :
           Without(s, i)[j] = s[IF j < i THEN j ELSE j + 1]
  BY WithoutOne
<1> SUFFICES ASSUME NEW j \in DOMAIN s \ {i}
             PROVE  \E k \in DOMAIN Without(s, i) : Without(s, i)[k] = s[j]
  OBVIOUS
<1>2. CASE j < i
  <2>1. j \in DOMAIN Without(s, i) /\ Without(s, i)[j] = s[j]
    BY <1>1, <1>2
  <2> QED
    BY <2>1
<1>3. CASE ~(j < i)
  <2>1. j - 1 \in DOMAIN Without(s, i) /\ ~(j - 1 < i) /\ (j - 1) + 1 = j
    BY <1>1, <1>3
  <2>2. Without(s, i)[j - 1] = s[j]
    BY <1>1, <2>1
  <2> QED
    BY <2>1, <2>2
<1> QED
  BY <1>2, <1>3

\* As many places as members, each of them listed: each of them once.
LEMMA ListedOnce ==
  ASSUME NEW S, IsFiniteSet(S), NEW s \in [1 .. Cardinality(S) -> S],
         \A c \in S : \E i \in DOMAIN s : s[i] = c
  PROVE  /\ s \in Seq(S) /\ Cardinality(S) \in Nat
         /\ \A i, j \in DOMAIN s : s[i] = s[j] => i = j
<1> DEFINE n == Cardinality(S)
<1>1. n \in Nat
  BY FS_CardinalityType
<1>2. s \in Surjection(1 .. n, S)
  BY Fun_IsSurj
<1>3. IsFiniteSet(1 .. n) /\ Cardinality(1 .. n) = n
  BY <1>1, FS_Interval
<1>4. s \in Injection(1 .. n, S)
  BY <1>2, <1>3, FS_SurjSameCardinalityImpliesInj
<1>5. \A i, j \in 1 .. n : s[i] = s[j] => i = j
  BY <1>4, Fun_InjectionProperties
<1> QED
  BY <1>1, <1>5, SeqDef

-----------------------------------------------------------------------------
(***************************************************************************)
(* Certificates: types.                                                    *)
(***************************************************************************)

\* What a handler and a load have at each of their steps.
LEMMA HandlerSteps ==
  ASSUME NEW h \in Handler, h.at # "idle"
  PROVE  /\ h # Idle
         /\ h \in [at : {"check", "open", "write", "remove", "unlist"},
                   cert : Certificate, unsure : BOOLEAN]
         /\ h.cert \in Certificate /\ h.cert.file \in Files
         /\ h.cert.name \in Names /\ h.unsure \in BOOLEAN
BY DEF Handler, Idle, Certificate

LEMMA LoaderSteps ==
  ASSUME NEW x \in Loader
  PROVE  /\ x.at \in {"list", "read", "append"} <=> x # Idle
         /\ x.at \in {"read", "append"} => x.todo \subseteq Files
         /\ x.at = "append" => x.cert \in Certificate
BY DEF Loader, Idle

\* The list without one of its certificates.
LEMMA WithoutCertOne ==
  ASSUME certs \in Seq(Certificate), NEW i \in DOMAIN certs
  PROVE  /\ WithoutCert(i) \in Seq(Certificate)
         /\ Len(WithoutCert(i)) = Len(certs) - 1
         /\ \A j \in DOMAIN WithoutCert(i) :
              WithoutCert(i)[j] = certs[IF j < i THEN j ELSE j + 1]
         /\ \A j \in DOMAIN certs \ {i} :
              \E k \in DOMAIN WithoutCert(i) : WithoutCert(i)[k] = certs[j]
<1>1. WithoutCert(i) = Without(certs, i)
  BY DEF WithoutCert, Without
<1> QED
  BY <1>1, WithoutOne, OthersStay

\* The list is of the files, each of them once, when the session starts.
LEMMA InitList ==
  ASSUME CertInit
  PROVE  /\ certs \in Seq(Certificate)
         /\ \A c \in ListedCerts : disk[c.file] = c.name
         /\ \A i, j \in DOMAIN certs : certs[i].file = certs[j].file => i = j
<1> DEFINE S == {c \in Certificate : disk[c.file] = c.name}
           F == {f \in Files : disk[f] \in Names}
           n == Cardinality(S)
<1>1. IsFiniteSet(S)
  <2> DEFINE g == [f \in F |-> [file |-> f, name |-> disk[f]]]
  <2>1. g \in [F -> S]
    BY DEF Certificate
  <2>2. \A c \in S : \E f \in F : g[f] = c
    <3> SUFFICES ASSUME NEW c \in S PROVE \E f \in F : g[f] = c
      OBVIOUS
    <3>1. c.file \in F /\ c = [file |-> c.file, name |-> disk[c.file]]
      BY DEF Certificate
    <3> QED
      BY <3>1
  <2>3. g \in Surjection(F, S)
    BY <2>1, <2>2, Fun_IsSurj
  <2>4. IsFiniteSet(F)
    BY CertificateAssumption, FS_Subset
  <2> QED
    BY <2>3, <2>4, FS_Surjection
<1>2. certs \in [1 .. n -> S] /\ \A c \in S : \E i \in DOMAIN certs : certs[i] = c
  BY DEF CertInit
<1>3. /\ certs \in Seq(S) /\ n \in Nat
      /\ \A i, j \in DOMAIN certs : certs[i] = certs[j] => i = j
  BY <1>1, <1>2, ListedOnce
<1>4. \A i, j \in DOMAIN certs :
        certs[i].file = certs[j].file => certs[i] = certs[j]
  BY <1>2 DEF Certificate
<1> QED
  BY <1>2, <1>3, <1>4 DEF ListedCerts

LEMMA CertTypeNext == CertTypeOK /\ [CertNext]_certVars => CertTypeOK'
<1> SUFFICES ASSUME CertTypeOK, [CertNext]_certVars PROVE CertTypeOK'
  OBVIOUS
<1>1. ASSUME NEW c \in Certificate, UploadCert(c) PROVE CertTypeOK'
  BY <1>1 DEF UploadCert, CertTypeOK, Handler
<1>2. CASE CheckName
  <2>1. OutOfDate(handler.cert.name) \in BOOLEAN
    BY DEF OutOfDate
  <2> QED
    BY <1>2, <2>1, HandlerSteps DEF CheckName, CertTypeOK, Handler, Idle
<1>3. CASE OpenFile \/ WriteFile \/ RemoveFile
  BY <1>3, HandlerSteps
  DEF OpenFile, WriteFile, RemoveFile, Change, Contents, CertTypeOK, Handler
<1>4. CASE UploadFails \/ RemoveFails \/ UNCHANGED certVars
  BY <1>4 DEF UploadFails, RemoveFails, certVars, CertTypeOK, Handler
<1>5. ASSUME NEW n \in Names, DeleteCert(n) PROVE CertTypeOK'
  <2>1. PICK i \in DOMAIN certs :
          handler' = [at |-> "remove", cert |-> certs[i],
                      unsure |-> certs[i].file \in touched]
    BY <1>5 DEF DeleteCert
  <2>2. certs[i] \in Certificate
    BY DEF CertTypeOK
  <2> QED
    BY <1>5, <2>1, <2>2 DEF DeleteCert, CertTypeOK, Handler
<1>6. CASE UnlistCert
  <2>1. certs' \in Seq(Certificate)
    BY <1>6, WithoutCertOne DEF UnlistCert, CertTypeOK
  <2> QED
    BY <1>6, <2>1 DEF UnlistCert, Caught, CertTypeOK, Handler
<1>7. ASSUME NEW l \in Loaders, Load(l) PROVE CertTypeOK'
  <2>1. CASE BeginLoad(l)
    BY <2>1 DEF BeginLoad, CertTypeOK, Loader
  <2>2. CASE ListFiles(l)
    BY <2>2 DEF ListFiles, CertTypeOK, Loader
  <2>3. CASE ReadFile(l)
    BY <2>3, LoaderSteps DEF ReadFile, CertTypeOK, Loader, Certificate
  <2>4. CASE AppendCert(l)
    BY <2>4, LoaderSteps DEF AppendCert, CertTypeOK, Loader
  <2>5. CASE EndLoad(l)
    BY <2>5 DEF EndLoad, CertTypeOK, Loader
  <2> QED
    BY <1>7, <2>1, <2>2, <2>3, <2>4, <2>5 DEF Load
<1> QED
  BY <1>1, <1>2, <1>3, <1>4, <1>5, <1>6, <1>7 DEF CertNext, HandleCert

\* Every variable keeps its type: what is listed are certificates of files, and
\* nothing that could not be read.
THEOREM CertsTypeCorrect == CertSpec => []CertTypeOK
<1>1. CertInit => CertTypeOK
  <2> SUFFICES ASSUME CertInit PROVE CertTypeOK
    OBVIOUS
  <2>1. certs \in Seq(Certificate)
    BY InitList
  <2>2. disk \in [Files -> Contents] /\ handler \in Handler
    BY DEF CertInit, Contents, Handler
  <2>3. thread \in [Loaders -> Loader] /\ since \in [Loaders -> SUBSET Files]
    BY DEF CertInit, Loader
  <2>4. touched \subseteq Files /\ crossed \in BOOLEAN
    BY DEF CertInit
  <2> QED
    BY <2>1, <2>2, <2>3, <2>4 DEF CertTypeOK
<1> QED
  BY <1>1, CertTypeNext, PTL DEF CertSpec

-----------------------------------------------------------------------------
(***************************************************************************)
(* Certificates: what is listed is there.                                  *)
(***************************************************************************)

\* What is listed of a file that has not changed is what is in it; of one that
\* has not changed during a load alone, too.
Agrees(c) == disk[c.file] = c.name
ListedInv ==
  \A c \in ListedCerts :
    /\ c.file \notin touched => Agrees(c)
    /\ ~crossed => \A l \in Loading : c.file \notin since[l] => Agrees(c)

\* What a load is about to list is what is in the file, if that has not
\* changed since the load began.
PendingInv ==
  \A l \in Loaders :
    thread[l].at = "append" /\ thread[l].cert.file \notin since[l]
    => Agrees(thread[l].cert)

\* Loads that do not cross are one at a time, and what changes during a load
\* is not forgotten before its end.
AloneInv ==
  /\ ~crossed => \A l, m \in Loading : l = m
  /\ \A l \in Loading : since[l] \subseteq touched

\* Without crossing loads each file is listed once.
OnceInv ==
  ~crossed =>
    /\ \A i, j \in DOMAIN certs : certs[i].file = certs[j].file => i = j
    /\ \A l \in Loaders :
         /\ thread[l].at = "list" => certs = <<>>
         /\ thread[l].at \in {"read", "append"} =>
              \A c \in ListedCerts : c.file \notin thread[l].todo
         /\ thread[l].at = "append" =>
              /\ thread[l].cert.file \notin thread[l].todo
              /\ \A c \in ListedCerts : c.file # thread[l].cert.file

\* What a deletion is sure of.
FoundInv ==
  /\ handler.at = "remove" => handler.unsure \/ Agrees(handler.cert)
  /\ handler.at = "unlist" => disk[handler.cert.file] = NoFile

CertInv == ListedInv /\ PendingInv /\ AloneInv /\ OnceInv /\ FoundInv

\* What the list is after an entry is appended, or taken off.
LEMMA ListedAppended ==
  ASSUME certs \in Seq(Certificate), NEW c \in Certificate,
         certs' = Append(certs, c)
  PROVE  /\ ListedCerts' = ListedCerts \cup {c}
         /\ DOMAIN certs' = DOMAIN certs \cup {Len(certs) + 1}
         /\ \A i \in DOMAIN certs : certs'[i] = certs[i]
         /\ certs'[Len(certs) + 1] = c
<1>1. /\ DOMAIN certs' = 1 .. Len(certs) + 1 /\ DOMAIN certs = 1 .. Len(certs)
      /\ \A i \in DOMAIN certs : certs'[i] = certs[i]
      /\ certs'[Len(certs) + 1] = c
      /\ Len(certs) \in Nat
  OBVIOUS
<1> QED
  BY <1>1 DEF ListedCerts

LEMMA ListedWithout ==
  ASSUME certs \in Seq(Certificate), NEW i \in DOMAIN certs,
         certs' = WithoutCert(i)
  PROVE  /\ ListedCerts' \subseteq ListedCerts
         /\ (\A j, k \in DOMAIN certs : certs[j].file = certs[k].file => j = k)
            => /\ \A j, k \in DOMAIN certs' :
                    certs'[j].file = certs'[k].file => j = k
               /\ \A c \in ListedCerts' : c.file # certs[i].file
<1> DEFINE to(j) == IF j < i THEN j ELSE j + 1
<1>1. /\ DOMAIN certs = 1 .. Len(certs) /\ DOMAIN certs' = 1 .. Len(certs) - 1
      /\ Len(certs) \in Nat
      /\ \A j \in DOMAIN certs' : certs'[j] = certs[to(j)]
  BY WithoutCertOne
<1>2. \A j \in DOMAIN certs' : to(j) \in DOMAIN certs /\ to(j) # i
  BY <1>1
<1>3. \A j, k \in DOMAIN certs' : to(j) = to(k) => j = k
  BY <1>1
<1> HIDE DEF to
<1> QED
  BY <1>1, <1>2, <1>3 DEF ListedCerts

\* A file that changes has changed since every load began.
LEMMA ChangeKeeps ==
  ASSUME CertTypeOK, CertInv, NEW f \in Files, NEW content \in Contents,
         Change(f, content), UNCHANGED <<certs, thread, crossed>>
  PROVE  ListedInv' /\ PendingInv' /\ AloneInv' /\ OnceInv'
<1>1. /\ \A g \in Files \ {f} : disk'[g] = disk[g]
      /\ touched' = touched \cup {f}
      /\ \A l \in Loaders : since'[l] = since[l] \cup {f}
      /\ ListedCerts' = ListedCerts /\ Loading' = Loading
  BY DEF Change, ListedCerts, Loading, CertTypeOK
<1>2. \A c \in ListedCerts : c.file \in Files
  <2>1. \A i \in DOMAIN certs : certs[i] \in Certificate
    BY DEF CertTypeOK
  <2> QED
    BY <2>1 DEF ListedCerts, Certificate
<1>3. ListedInv'
  BY <1>1, <1>2 DEF CertInv, ListedInv, Agrees, Loading
<1>4. PendingInv'
  <2>1. \A l \in Loaders :
          thread[l].at = "append" => thread[l].cert.file \in Files
    BY LoaderSteps DEF CertTypeOK, Certificate
  <2> QED
    BY <1>1, <2>1 DEF CertInv, PendingInv, Agrees
<1>5. AloneInv'
  BY <1>1 DEF CertInv, AloneInv, Loading
<1>6. OnceInv'
  BY <1>1 DEF CertInv, OnceInv
<1> QED
  BY <1>3, <1>4, <1>5, <1>6

LEMMA HandleKeeps == CertTypeOK /\ CertInv /\ HandleCert => CertInv'
<1> SUFFICES ASSUME CertTypeOK, CertInv, HandleCert PROVE CertInv'
  OBVIOUS
<1> DEFINE Rest == ListedInv /\ PendingInv /\ AloneInv /\ OnceInv
<1>1. UNCHANGED <<disk, certs, thread, touched, since, crossed>> => Rest'
  BY DEF CertInv, ListedInv, PendingInv, AloneInv, OnceInv, Agrees,
         ListedCerts, Loading
<1>2. ASSUME NEW c \in Certificate, UploadCert(c) PROVE CertInv'
  BY <1>1, <1>2 DEF UploadCert, CertInv, FoundInv
<1>3. CASE CheckName
  <2>1. handler'.at \in {"idle", "open"}
    BY <1>3, HandlerSteps DEF CheckName, Idle, CertTypeOK
  <2> QED
    BY <1>1, <1>3, <2>1 DEF CheckName, CertInv, FoundInv
<1>4. CASE OpenFile
  <2>1. handler.cert.file \in Files /\ handler'.at = "write"
    BY <1>4, HandlerSteps DEF OpenFile, CertTypeOK
  <2>2. Rest'
    BY <1>4, <2>1, ChangeKeeps DEF OpenFile, Contents
  <2> QED
    BY <2>1, <2>2 DEF CertInv, FoundInv
<1>5. CASE WriteFile
  <2>1. /\ handler.cert.file \in Files /\ handler.cert.name \in Contents
        /\ handler'.at = "idle"
    BY <1>5, HandlerSteps DEF WriteFile, CertTypeOK, Contents, Idle
  <2>2. Rest'
    BY <1>5, <2>1, ChangeKeeps DEF WriteFile
  <2> QED
    BY <2>1, <2>2 DEF CertInv, FoundInv
<1>6. CASE UploadFails \/ RemoveFails
  <2>1. handler'.at = "idle"
    BY <1>6 DEF UploadFails, RemoveFails, Idle
  <2> QED
    BY <1>1, <1>6, <2>1 DEF UploadFails, RemoveFails, CertInv, FoundInv
<1>7. ASSUME NEW n \in Names, DeleteCert(n) PROVE CertInv'
  <2>1. PICK i \in DOMAIN certs :
          /\ certs[i].name = n
          /\ handler' = [at |-> "remove", cert |-> certs[i],
                         unsure |-> certs[i].file \in touched]
    BY <1>7 DEF DeleteCert
  <2>2. certs[i] \in ListedCerts
    BY DEF ListedCerts
  <2>3. certs[i].file \in touched \/ Agrees(certs[i])
    BY <2>2 DEF CertInv, ListedInv
  <2>4. UNCHANGED <<disk, certs, thread, touched, since, crossed>>
    BY <1>7 DEF DeleteCert
  <2>5. FoundInv'
    BY <2>1, <2>3, <2>4 DEF FoundInv, Agrees
  <2> QED
    BY <1>1, <2>4, <2>5 DEF CertInv
<1>8. CASE RemoveFile
  <2>1. /\ handler.cert.file \in Files /\ handler'.at = "unlist"
        /\ handler'.cert = handler.cert
    BY <1>8, HandlerSteps DEF RemoveFile, CertTypeOK
  <2>2. Rest'
    BY <1>8, <2>1, ChangeKeeps DEF RemoveFile, Contents
  <2>3. disk'[handler.cert.file] = NoFile
    BY <1>8, <2>1 DEF RemoveFile, Change, CertTypeOK
  <2> QED
    BY <2>1, <2>2, <2>3 DEF CertInv, FoundInv
<1>9. CASE UnlistCert
  <2>1. /\ UNCHANGED <<disk, thread, since, crossed>> /\ handler'.at = "idle"
        /\ touched' = Caught /\ Loading' = Loading
    BY <1>9 DEF UnlistCert, Idle, Loading
  <2>2. /\ ListedCerts' \subseteq ListedCerts
        /\ ~crossed =>
             /\ \A j, k \in DOMAIN certs' :
                  certs'[j].file = certs'[k].file => j = k
             /\ \A c \in ListedCerts' : c.file # handler.cert.file
    <3>1. ~crossed => \A j, k \in DOMAIN certs :
                        certs[j].file = certs[k].file => j = k
      BY DEF CertInv, OnceInv
    <3>2. CASE \A c \in ListedCerts : c.file # handler.cert.file
      BY <1>9, <3>1, <3>2 DEF UnlistCert, ListedCerts
    <3>3. CASE ~(\A c \in ListedCerts : c.file # handler.cert.file)
      <4>1. PICK i \in DOMAIN certs :
              certs[i].file = handler.cert.file /\ certs' = WithoutCert(i)
        BY <1>9, <3>3 DEF UnlistCert
      <4>2. certs \in Seq(Certificate)
        BY DEF CertTypeOK
      <4> QED
        BY <3>1, <4>1, <4>2, ListedWithout
    <3> QED
      BY <3>2, <3>3
  <2>3. ListedInv'
    <3>1. \A c \in ListedCerts' :
            c.file \notin touched' => c.file \notin touched
      BY <2>1, <2>2 DEF Caught
    <3> QED
      BY <2>1, <2>2, <3>1 DEF CertInv, ListedInv, Agrees, Loading
  <2>4. PendingInv'
    BY <2>1 DEF CertInv, PendingInv, Agrees
  <2>5. AloneInv'
    BY <2>1 DEF CertInv, AloneInv, Caught
  <2>6. OnceInv'
    <3>1. \A l \in Loaders : thread[l].at = "list" /\ ~crossed => certs' = <<>>
      <4> SUFFICES ASSUME NEW l \in Loaders, thread[l].at = "list", ~crossed
                   PROVE  certs' = <<>>
        OBVIOUS
      <4>1. certs = <<>>
        BY DEF CertInv, OnceInv
      <4> QED
        BY <1>9, <4>1 DEF UnlistCert, ListedCerts
    <3> QED
      BY <2>1, <2>2, <3>1 DEF CertInv, OnceInv
  <2> QED
    BY <2>1, <2>3, <2>4, <2>5, <2>6 DEF CertInv, FoundInv
<1> QED
  BY <1>2, <1>3, <1>4, <1>5, <1>6, <1>7, <1>8, <1>9 DEF HandleCert

LEMMA LoadKeeps == ASSUME CertTypeOK, CertInv, NEW l \in Loaders, Load(l)
                   PROVE  CertInv'
<1>1. handler' = handler /\ disk' = disk /\ FoundInv'
  BY DEF Load, BeginLoad, ListFiles, ReadFile, AppendCert, EndLoad, CertInv,
         FoundInv, Agrees
<1>2. \A m \in Loaders \ {l} : thread'[m] = thread[m]
  BY DEF Load, BeginLoad, ListFiles, ReadFile, AppendCert, EndLoad, CertTypeOK
<1>3. CASE BeginLoad(l)
  <2>1. /\ ListedCerts' = {} /\ certs' = <<>> /\ touched' = touched
        /\ crossed' = (Loading # {})
        /\ l \notin Loading /\ Loading' = Loading \cup {l}
        /\ thread'[l].at = "list" /\ since'[l] = {}
        /\ \A m \in Loaders \ {l} : since'[m] = since[m]
    BY <1>2, <1>3 DEF BeginLoad, ListedCerts, Loading, CertTypeOK, Idle
  <2>2. \A m \in Loaders : m # l /\ Loading = {} => thread'[m].at = "idle"
    BY <1>2 DEF Loading, Idle
  <2>3. PendingInv'
    BY <1>1, <1>2, <2>1 DEF CertInv, PendingInv, Agrees
  <2>4. AloneInv'
    BY <2>1 DEF CertInv, AloneInv, Loading
  <2>5. ListedInv'
    BY <2>1 DEF ListedInv
  <2>6. OnceInv'
    <3>1. DOMAIN certs' = {}
      BY <2>1
    <3>2. \A m \in Loaders : ~crossed' =>
            thread'[m].at = IF m = l THEN "list" ELSE "idle"
      BY <2>1, <2>2
    <3> QED
      BY <2>1, <3>1, <3>2 DEF OnceInv
  <2> QED
    BY <1>1, <2>3, <2>4, <2>5, <2>6 DEF CertInv
<1>4. CASE ListFiles(l)
  <2>1. /\ UNCHANGED <<certs, touched, since, crossed>>
        /\ ListedCerts' = ListedCerts
        /\ thread[l].at = "list" /\ thread'[l].at = "read"
        /\ Loading' = Loading
    <3>1. /\ UNCHANGED <<certs, touched, since, crossed>>
          /\ ListedCerts' = ListedCerts
      BY <1>4 DEF ListFiles, ListedCerts
    <3>2. thread[l].at = "list" /\ thread'[l].at = "read"
      BY <1>4 DEF ListFiles, CertTypeOK
    <3>3. thread[l] # Idle /\ thread'[l] # Idle
      BY <3>2 DEF Idle
    <3> QED
      BY <1>2, <3>1, <3>2, <3>3 DEF Loading
  <2>2. PendingInv'
    BY <1>1, <1>2, <2>1 DEF CertInv, PendingInv, Agrees
  <2>3. ListedInv' /\ AloneInv'
    BY <1>1, <2>1 DEF CertInv, ListedInv, AloneInv, Agrees
  <2>4. OnceInv'
    <3>1. ~crossed => certs = <<>> /\ ListedCerts = {}
      BY <2>1 DEF CertInv, OnceInv, ListedCerts
    <3> QED
      BY <1>2, <2>1, <3>1 DEF CertInv, OnceInv
  <2> QED
    BY <1>1, <2>2, <2>3, <2>4 DEF CertInv
<1>5. CASE ReadFile(l)
  <2>1. PICK f \in thread[l].todo :
          thread'[l] = IF disk[f] \in Names
                       THEN [at |-> "append", todo |-> thread[l].todo \ {f},
                             cert |-> [file |-> f, name |-> disk[f]]]
                       ELSE [at |-> "read", todo |-> thread[l].todo \ {f}]
    BY <1>5 DEF ReadFile, CertTypeOK
  <2>2. /\ UNCHANGED <<certs, touched, since, crossed>>
        /\ ListedCerts' = ListedCerts
        /\ thread[l].at = "read"
    BY <1>5 DEF ReadFile, ListedCerts
  <2>3. /\ thread'[l].at \in {"read", "append"}
        /\ thread'[l].todo = thread[l].todo \ {f}
        /\ thread'[l].at = "append" =>
             thread'[l].cert = [file |-> f, name |-> disk[f]]
    BY <2>1
  <2>4. Loading' = Loading
    BY <1>2, <2>2, <2>3 DEF Loading, Idle
  <2>5. PendingInv'
    BY <1>1, <1>2, <2>2, <2>3 DEF CertInv, PendingInv, Agrees
  <2>6. ListedInv' /\ AloneInv'
    BY <1>1, <2>2, <2>4 DEF CertInv, ListedInv, AloneInv, Agrees
  <2>7. OnceInv'
    BY <1>2, <2>2, <2>3 DEF CertInv, OnceInv
  <2> QED
    BY <1>1, <2>5, <2>6, <2>7 DEF CertInv
<1>6. CASE AppendCert(l)
  <2> DEFINE c == thread[l].cert
  <2>1. /\ UNCHANGED <<touched, since, crossed>>
        /\ thread[l].at = "append" /\ certs' = Append(certs, c)
        /\ thread'[l] = [at |-> "read", todo |-> thread[l].todo]
    BY <1>6 DEF AppendCert, CertTypeOK
  <2>2. c \in Certificate /\ certs \in Seq(Certificate)
    BY <2>1, LoaderSteps DEF CertTypeOK
  <2>3. /\ ListedCerts' = ListedCerts \cup {c}
        /\ DOMAIN certs' = DOMAIN certs \cup {Len(certs) + 1}
        /\ \A i \in DOMAIN certs :
             certs'[i] = certs[i] /\ certs[i] \in ListedCerts
        /\ certs'[Len(certs) + 1] = c
    BY <2>1, <2>2, ListedAppended DEF ListedCerts
  <2>4. Loading' = Loading /\ l \in Loading
    BY <1>2, <2>1 DEF Loading, Idle
  <2>5. PendingInv'
    BY <1>1, <1>2, <2>1 DEF CertInv, PendingInv, Agrees
  <2>6. AloneInv'
    BY <2>1, <2>4 DEF CertInv, AloneInv
  <2>7. ListedInv'
    <3>1. c.file \notin since[l] => Agrees(c)
      BY <2>1 DEF CertInv, PendingInv
    <3>2. since[l] \subseteq touched
      BY <2>4 DEF CertInv, AloneInv
    <3>3. ~crossed => \A m \in Loading : m = l
      BY <2>4 DEF CertInv, AloneInv
    <3> QED
      BY <1>1, <2>1, <2>3, <2>4, <3>1, <3>2, <3>3
      DEF CertInv, ListedInv, Agrees
  <2>8. OnceInv'
    <3> SUFFICES ASSUME ~crossed PROVE OnceInv'
      BY <2>1 DEF OnceInv
    <3>1. /\ c.file \notin thread[l].todo
          /\ \A d \in ListedCerts :
               d.file # c.file /\ d.file \notin thread[l].todo
          /\ \A i, j \in DOMAIN certs : certs[i].file = certs[j].file => i = j
      BY <2>1 DEF CertInv, OnceInv
    <3>2. \A m \in Loaders \ {l} : thread[m].at = "idle"
      <4>1. \A m \in Loaders \ {l} : m \notin Loading
        BY <2>4 DEF CertInv, AloneInv
      <4> QED
        BY <4>1 DEF Loading, Idle
    <3>3. \A i, j \in DOMAIN certs' : certs'[i].file = certs'[j].file => i = j
      BY <2>3, <3>1
    <3> QED
      BY <1>2, <2>1, <2>3, <3>1, <3>2, <3>3 DEF OnceInv
  <2> QED
    BY <1>1, <2>5, <2>6, <2>7, <2>8 DEF CertInv
<1>7. CASE EndLoad(l)
  <2>1. /\ UNCHANGED <<certs, since, crossed>> /\ ListedCerts' = ListedCerts
        /\ thread'[l] = Idle /\ thread[l].at = "read"
        /\ touched' = IF crossed THEN touched ELSE touched \cap since[l]
    BY <1>7 DEF EndLoad, ListedCerts, CertTypeOK
  <2>2. l \in Loading /\ Loading' = Loading \ {l}
    BY <1>2, <2>1 DEF Loading, Idle
  <2>3. ~crossed => Loading' = {}
    BY <2>2 DEF CertInv, AloneInv
  <2>4. PendingInv'
    BY <1>1, <1>2, <2>1 DEF CertInv, PendingInv, Agrees, Idle
  <2>5. AloneInv'
    BY <2>1, <2>2, <2>3 DEF CertInv, AloneInv
  <2>6. ListedInv'
    BY <1>1, <2>1, <2>2, <2>3 DEF CertInv, ListedInv, Agrees
  <2>7. OnceInv'
    BY <1>2, <2>1 DEF CertInv, OnceInv, Idle
  <2> QED
    BY <1>1, <2>4, <2>5, <2>6, <2>7 DEF CertInv
<1> QED
  BY <1>3, <1>4, <1>5, <1>6, <1>7 DEF Load

LEMMA CertInvariant == CertSpec => [](CertTypeOK /\ CertInv)
<1>1. CertInit => CertInv
  <2> SUFFICES ASSUME CertInit PROVE CertInv
    OBVIOUS
  <2>1. Loading = {} /\ \A l \in Loaders : thread[l].at = "idle"
    BY DEF CertInit, Loading, Idle
  <2>2. handler.at = "idle" /\ ~crossed
    BY DEF CertInit, Idle
  <2> QED
    BY <2>1, <2>2, InitList
    DEF CertInv, ListedInv, PendingInv, AloneInv, OnceInv, FoundInv, Agrees
<1>2. CertTypeOK /\ CertInv /\ [CertNext]_certVars => CertInv'
  <2> SUFFICES ASSUME CertTypeOK, CertInv, [CertNext]_certVars PROVE CertInv'
    OBVIOUS
  <2>1. CASE UNCHANGED certVars
    BY <2>1 DEF certVars, CertInv, ListedInv, PendingInv, AloneInv, OnceInv,
                FoundInv, Agrees, ListedCerts, Loading
  <2> QED
    BY <2>1, HandleKeeps, LoadKeeps DEF CertNext
<1> QED
  BY <1>1, <1>2, CertsTypeCorrect, PTL DEF CertSpec

\* A deletion removes the certificate it names unless its entry was out of
\* date: what a thread lists of a file is what it holds, for any number of
\* threads that load whilst files are uploaded and deleted.
THEOREM DeletionsFindTheirFile == CertSpec => DeletesNamed
<1>1. CertTypeOK /\ CertInv /\ [CertNext]_certVars
        => \A f \in Files : disk[f] \in Names /\ disk'[f] = NoFile
             => disk[f] = handler.cert.name \/ handler.unsure
  <2> SUFFICES ASSUME CertTypeOK, CertInv, [CertNext]_certVars,
                      NEW f \in Files, disk[f] \in Names, disk'[f] = NoFile
               PROVE  disk[f] = handler.cert.name \/ handler.unsure
    OBVIOUS
  <2>1. disk'[f] # disk[f] /\ NoFile \notin Names
    BY CertificateAssumption
  <2>2. CASE RemoveFile
    <3>1. f = handler.cert.file
      BY <2>1, <2>2 DEF RemoveFile, Change, CertTypeOK
    <3> QED
      BY <2>2, <3>1 DEF RemoveFile, CertInv, FoundInv, Agrees
  <2>3. ~OpenFile /\ ~WriteFile
    <3>1. handler.at = "write" => handler.cert.name \in Names
      BY HandlerSteps DEF CertTypeOK
    <3> QED
      BY <2>1, <3>1 DEF OpenFile, WriteFile, Change, CertTypeOK, Empty, NoFile
  <2>4. CASE UNCHANGED disk
    BY <2>1, <2>4
  <2> QED
    BY <2>2, <2>3, <2>4
    DEF CertNext, HandleCert, Load, certVars, UploadCert, CheckName,
        UploadFails, DeleteCert, RemoveFails, UnlistCert, BeginLoad, ListFiles,
        ReadFile, AppendCert, EndLoad
<1> QED
  BY <1>1, CertInvariant, PTL DEF CertSpec, DeletesNamed

-----------------------------------------------------------------------------
(***************************************************************************)
(* Certificates: what is there is listed.                                  *)
(***************************************************************************)

\* What a load has not read yet, or is about to list.
ListedFile(f) == \E c \in ListedCerts : c.file = f
Found(l, f) ==
  \/ ListedFile(f)
  \/ thread[l].at \in {"read", "append"} /\ f \in thread[l].todo
  \/ thread[l].at = "append" /\ thread[l].cert.file = f

\* A load lists every file that has not changed since it began, if no other
\* has begun a new list meanwhile.
Completes(l) ==
  thread[l].at # "list" =>
    \A f \in Files \ since[l] : disk[f] \in Names => Found(l, f)

\* Unless one of the loads does, the list is complete already.
CompleteInv ==
  /\ \/ \E l \in Loading : Completes(l)
     \/ \A f \in Files \ touched : disk[f] \in Names => ListedFile(f)
  /\ ~crossed => \A l \in Loading : Completes(l)

\* No other file has the name of which an upload is sure.
SureInv ==
  handler.at \in {"open", "write"} /\ ~handler.unsure =>
    \A g \in Files \ {handler.cert.file} : disk[g] # handler.cert.name

\* Taking off an entry leaves the others.
LEMMA OthersListed ==
  ASSUME certs \in Seq(Certificate), NEW i \in DOMAIN certs,
         certs' = WithoutCert(i)
  PROVE  ListedCerts \subseteq ListedCerts' \cup {certs[i]}
BY WithoutCertOne DEF ListedCerts

\* What changes has changed since every load began.
LEMMA ChangeCompletes ==
  ASSUME CertTypeOK, CompleteInv, NEW f \in Files, NEW content,
         Change(f, content), UNCHANGED <<certs, thread, crossed>>
  PROVE  CompleteInv'
<1>1. /\ \A g \in Files \ {f} : disk'[g] = disk[g]
      /\ touched' = touched \cup {f}
      /\ \A l \in Loaders : since'[l] = since[l] \cup {f}
      /\ \A g : ListedFile(g)' <=> ListedFile(g)
      /\ Loading' = Loading
  BY DEF Change, ListedFile, ListedCerts, Loading, CertTypeOK
<1>2. \A l \in Loading : Completes(l) => Completes(l)'
  BY <1>1 DEF Completes, Found, Loading
<1> QED
  BY <1>1, <1>2 DEF CompleteInv

LEMMA HandleCompletes ==
  ASSUME CertTypeOK, CertInv, CompleteInv, SureInv, HandleCert
  PROVE  CompleteInv' /\ SureInv'
<1>1. UNCHANGED <<disk, certs, thread, touched, since, crossed>>
        => CompleteInv'
  BY DEF CompleteInv, Completes, Found, ListedFile, ListedCerts, Loading
<1>2. CASE CheckName
  <2> DEFINE n == handler.cert.name
  <2>1. CompleteInv' /\ disk' = disk
    BY <1>1, <1>2 DEF CheckName
  <2>2. CASE Unlisted(n) /\ ~OutOfDate(n)
    <3>1. /\ handler \in Handler /\ handler.at = "check" /\ n \in Names
      BY <1>2, HandlerSteps DEF CheckName, CertTypeOK
    <3>2. handler'.cert = handler.cert
      BY <1>2, <2>2, <3>1, HandlerSteps DEF CheckName
    <3>3. ASSUME NEW g \in Files, disk[g] = n PROVE FALSE
      <4>1. g \notin touched /\ Loading = {}
        BY <2>2, <3>3 DEF OutOfDate
      <4>2. PICK c \in ListedCerts : c.file = g
        BY <3>1, <3>3, <4>1 DEF CompleteInv, ListedFile
      <4>3. c.name = n
        BY <3>3, <4>1, <4>2 DEF CertInv, ListedInv, Agrees
      <4> QED
        BY <2>2, <4>2, <4>3 DEF Unlisted
    <3> QED
      BY <2>1, <3>2, <3>3 DEF SureInv
  <2>3. CASE ~Unlisted(n) \/ OutOfDate(n)
    <3>1. handler'.at = "idle" \/ handler'.unsure
      BY <1>2, <2>3, HandlerSteps DEF CheckName, Idle, CertTypeOK, OutOfDate
    <3> QED
      BY <2>1, <3>1 DEF SureInv
  <2> QED
    BY <2>2, <2>3
<1>3. CASE OpenFile \/ WriteFile \/ RemoveFile
  <2>1. /\ handler.cert.file \in Files /\ handler \in Handler
        /\ handler.at \in {"open", "write", "remove"}
    BY <1>3, HandlerSteps DEF OpenFile, WriteFile, RemoveFile, CertTypeOK
  <2>2. PICK content : Change(handler.cert.file, content)
    BY <1>3 DEF OpenFile, WriteFile, RemoveFile
  <2>3. CompleteInv'
    BY <1>3, <2>1, <2>2, ChangeCompletes DEF OpenFile, WriteFile, RemoveFile
  <2>4. \/ handler'.at \in {"idle", "unlist"}
        \/ /\ handler.at = "open" /\ handler'.cert = handler.cert
           /\ handler'.unsure = handler.unsure
    BY <1>3, <2>1, HandlerSteps DEF OpenFile, WriteFile, RemoveFile, Idle
  <2>5. \A g \in Files \ {handler.cert.file} : disk'[g] = disk[g]
    BY <2>2 DEF Change, CertTypeOK
  <2> QED
    BY <2>3, <2>4, <2>5 DEF SureInv
<1>4. CASE UploadFails \/ RemoveFails
  BY <1>1, <1>4 DEF UploadFails, RemoveFails, Idle, SureInv
<1>5. ASSUME NEW c \in Certificate, UploadCert(c) PROVE CompleteInv' /\ SureInv'
  BY <1>1, <1>5 DEF UploadCert, SureInv
<1>6. ASSUME NEW n \in Names, DeleteCert(n) PROVE CompleteInv' /\ SureInv'
  <2>1. handler'.at = "remove"
    BY <1>6 DEF DeleteCert
  <2> QED
    BY <1>1, <1>6, <2>1 DEF DeleteCert, SureInv
<1>7. CASE UnlistCert
  <2> DEFINE g == handler.cert.file
  <2>1. /\ UNCHANGED <<disk, thread, since, crossed>> /\ Loading' = Loading
        /\ touched' \in {touched, touched \ {g}} /\ handler'.at = "idle"
    BY <1>7 DEF UnlistCert, Caught, Loading, Idle
  <2>2. disk[g] \notin Names
    BY <1>7, CertificateAssumption DEF UnlistCert, CertInv, FoundInv
  <2>3. \A f \in Files \ {g} : ListedFile(f) => ListedFile(f)'
    <3>1. CASE \A c \in ListedCerts : c.file # g
      BY <1>7, <3>1 DEF UnlistCert, ListedFile, ListedCerts
    <3>2. CASE ~(\A c \in ListedCerts : c.file # g)
      <4>1. PICK i \in DOMAIN certs :
              certs[i].file = g /\ certs' = WithoutCert(i)
        BY <1>7, <3>2 DEF UnlistCert
      <4>2. ListedCerts \subseteq ListedCerts' \cup {certs[i]}
        BY <4>1, OthersListed DEF CertTypeOK
      <4> QED
        BY <4>1, <4>2 DEF ListedFile
    <3> QED
      BY <3>1, <3>2
  <2>4. \A l \in Loading : Completes(l) => Completes(l)'
    BY <2>1, <2>2, <2>3 DEF Completes, Found
  <2> QED
    BY <2>1, <2>2, <2>3, <2>4 DEF CompleteInv, SureInv
<1> QED
  BY <1>2, <1>3, <1>4, <1>5, <1>6, <1>7 DEF HandleCert

LEMMA LoadCompletes ==
  ASSUME CertTypeOK, CertInv, CompleteInv, NEW l \in Loaders, Load(l)
  PROVE  CompleteInv'
<1>1. disk' = disk
  BY DEF Load, BeginLoad, ListFiles, ReadFile, AppendCert, EndLoad
<1>2. \A m \in Loaders \ {l} : thread'[m] = thread[m]
  BY DEF Load, BeginLoad, ListFiles, ReadFile, AppendCert, EndLoad, CertTypeOK
<1>3. CASE BeginLoad(l)
  <2>1. /\ crossed' = (Loading # {}) /\ Loading' = Loading \cup {l}
        /\ thread'[l].at = "list"
    BY <1>2, <1>3 DEF BeginLoad, Loading, CertTypeOK, Idle
  <2>2. Completes(l)'
    BY <2>1 DEF Completes
  <2> QED
    BY <2>1, <2>2 DEF CompleteInv
<1>4. CASE ListFiles(l) \/ ReadFile(l) \/ AppendCert(l)
  <2>1. /\ UNCHANGED <<touched, since, crossed>>
        /\ thread'[l] # Idle /\ thread[l] # Idle
    BY <1>4 DEF ListFiles, ReadFile, AppendCert, CertTypeOK, Idle
  <2>2. Loading' = Loading
    BY <1>2, <2>1 DEF Loading
  <2>3. \A f : ListedFile(f) => ListedFile(f)'
    <3>1. CASE AppendCert(l)
      BY <3>1, ListedAppended, LoaderSteps
      DEF AppendCert, ListedFile, CertTypeOK
    <3>2. CASE ListFiles(l) \/ ReadFile(l)
      BY <3>2 DEF ListFiles, ReadFile, ListedFile, ListedCerts
    <3> QED
      BY <1>4, <3>1, <3>2
  <2>4. Completes(l) => Completes(l)'
    <3>1. CASE ListFiles(l)
      <4>1. thread'[l] = [at |-> "read", todo |-> {f \in Files : disk[f] # NoFile}]
        BY <3>1 DEF ListFiles, CertTypeOK
      <4> QED
        BY <1>1, <4>1, CertificateAssumption DEF Completes, Found
    <3>2. CASE ReadFile(l)
      <4>1. PICK f \in thread[l].todo :
              thread'[l] = IF disk[f] \in Names
                           THEN [at |-> "append", todo |-> thread[l].todo \ {f},
                                 cert |-> [file |-> f, name |-> disk[f]]]
                           ELSE [at |-> "read", todo |-> thread[l].todo \ {f}]
        BY <3>2 DEF ReadFile, CertTypeOK
      <4>2. /\ thread[l].at = "read" /\ thread'[l].at \in {"read", "append"}
            /\ thread'[l].todo = thread[l].todo \ {f}
            /\ disk[f] \in Names =>
                 thread'[l].at = "append" /\ thread'[l].cert.file = f
        BY <3>2, <4>1 DEF ReadFile
      <4> QED
        BY <1>1, <2>1, <2>3, <4>2 DEF Completes, Found
    <3>3. CASE AppendCert(l)
      <4>1. /\ thread[l].at = "append" /\ thread'[l].at = "read"
            /\ thread'[l].todo = thread[l].todo
        BY <3>3 DEF AppendCert, CertTypeOK
      <4>2. thread[l].cert \in ListedCerts'
        <5>1. thread[l].cert \in Certificate /\ certs \in Seq(Certificate)
          BY <4>1, LoaderSteps DEF CertTypeOK
        <5> QED
          BY <3>3, <5>1, ListedAppended DEF AppendCert
      <4>3. \A f : thread[l].cert.file = f => ListedFile(f)'
        BY <4>2 DEF ListedFile
      <4> QED
        BY <1>1, <2>1, <2>3, <4>1, <4>3 DEF Completes, Found
    <3> QED
      BY <1>4, <3>1, <3>2, <3>3
  <2>5. \A m \in Loading : Completes(m) => Completes(m)'
    BY <1>1, <1>2, <2>1, <2>3, <2>4 DEF Completes, Found, Loading
  <2> QED
    BY <1>1, <2>1, <2>2, <2>3, <2>5 DEF CompleteInv
<1>5. CASE EndLoad(l)
  <2>1. /\ UNCHANGED <<certs, since, crossed>> /\ ListedCerts' = ListedCerts
        /\ thread'[l] = Idle /\ thread[l].at = "read" /\ thread[l].todo = {}
        /\ touched' = IF crossed THEN touched ELSE touched \cap since[l]
    BY <1>5 DEF EndLoad, ListedCerts, CertTypeOK
  <2>2. l \in Loading /\ Loading' = Loading \ {l}
    BY <1>2, <2>1 DEF Loading, Idle
  <2>3. \A f : ListedFile(f)' <=> ListedFile(f)
    BY <2>1 DEF ListedFile
  <2>4. \A m \in Loading' : Completes(m)' <=> Completes(m)
    BY <1>1, <1>2, <2>1, <2>2, <2>3 DEF Completes, Found, Loading
  <2>5. Completes(l) =>
          \A f \in Files \ since[l] : disk[f] \in Names => ListedFile(f)
    BY <2>1 DEF Completes, Found
  <2>6. since[l] \subseteq touched
    BY <2>2 DEF CertInv, AloneInv
  <2>7. \/ \E m \in Loading' : Completes(m)'
        \/ \A f \in Files \ touched' : disk'[f] \in Names => ListedFile(f)'
    <3>1. CASE crossed
      BY <1>1, <2>1, <2>2, <2>3, <2>4, <2>5, <2>6, <3>1 DEF CompleteInv
    <3>2. CASE ~crossed
      <4>1. Completes(l)
        BY <2>2, <3>2 DEF CompleteInv
      <4> QED
        BY <1>1, <2>1, <2>3, <2>5, <2>6, <3>2, <4>1
    <3> QED
      BY <3>1, <3>2
  <2> QED
    BY <2>1, <2>2, <2>4, <2>7 DEF CompleteInv
<1> QED
  BY <1>3, <1>4, <1>5 DEF Load

LEMMA CompleteInvariant ==
  CertSpec => [](CertTypeOK /\ CertInv /\ CompleteInv /\ SureInv)
<1>1. CertInit => CompleteInv /\ SureInv
  <2> SUFFICES ASSUME CertInit PROVE CompleteInv /\ SureInv
    OBVIOUS
  <2>1. Loading = {} /\ handler.at = "idle"
    BY DEF CertInit, Loading, Idle
  <2>2. ASSUME NEW f \in Files, disk[f] \in Names PROVE ListedFile(f)
    <3>1. [file |-> f, name |-> disk[f]]
            \in {c \in Certificate : disk[c.file] = c.name}
      BY <2>2 DEF Certificate
    <3>2. PICK i \in DOMAIN certs : certs[i] = [file |-> f, name |-> disk[f]]
      BY <3>1 DEF CertInit
    <3> QED
      BY <3>2 DEF ListedFile, ListedCerts
  <2> QED
    BY <2>1, <2>2 DEF CompleteInv, SureInv
<1>2. CertTypeOK /\ CertInv /\ CompleteInv /\ SureInv /\ [CertNext]_certVars
        => CompleteInv' /\ SureInv'
  <2> SUFFICES ASSUME CertTypeOK, CertInv, CompleteInv, SureInv,
                      [CertNext]_certVars
               PROVE  CompleteInv' /\ SureInv'
    OBVIOUS
  <2>1. CASE UNCHANGED certVars
    BY <2>1 DEF certVars, CompleteInv, Completes, Found, ListedFile,
                ListedCerts, Loading, SureInv
  <2>2. ASSUME NEW l \in Loaders, Load(l) PROVE SureInv'
    BY <2>2 DEF Load, BeginLoad, ListFiles, ReadFile, AppendCert, EndLoad,
                SureInv
  <2> QED
    BY <2>1, <2>2, HandleCompletes, LoadCompletes DEF CertNext
<1> QED
  BY <1>1, <1>2, CertInvariant, PTL DEF CertSpec

\* The list follows the files: whatever is uploaded and deleted meanwhile, for
\* any number of threads, what no change has touched is listed once, and what
\* is not there is not listed.
THEOREM CertsFollowDisk == CertSpec => []ListFollowsDisk
<1>1. CertTypeOK /\ CertInv /\ CompleteInv => ListFollowsDisk
  <2> SUFFICES ASSUME CertTypeOK, CertInv, CompleteInv, Loading = {}, ~crossed,
                      NEW f \in Files \ touched
               PROVE  Cardinality({i \in DOMAIN certs : certs[i].file = f})
                        = IF disk[f] \in Names THEN 1 ELSE 0
    BY DEF ListFollowsDisk
  <2> DEFINE I == {i \in DOMAIN certs : certs[i].file = f}
  <2>1. \A i, j \in I : i = j
    BY DEF CertInv, OnceInv
  <2>2. CASE disk[f] \in Names
    <3>1. PICK i \in I : TRUE
      BY <2>2 DEF CompleteInv, ListedFile, ListedCerts
    <3>2. I = {i}
      BY <2>1, <3>1
    <3> QED
      BY <2>2, <3>2, FS_Singleton
  <2>3. CASE disk[f] \notin Names
    <3>1. ASSUME NEW i \in I PROVE FALSE
      <4>1. certs[i] \in ListedCerts /\ certs[i] \in Certificate
        BY DEF ListedCerts, CertTypeOK
      <4>2. disk[f] = certs[i].name
        BY <4>1 DEF CertInv, ListedInv, Agrees
      <4> QED
        BY <2>3, <4>1, <4>2 DEF Certificate
    <3>2. I = {}
      BY <3>1
    <3> QED
      BY <2>3, <3>2, FS_EmptySet
  <2> QED
    BY <2>2, <2>3
<1> QED
  BY <1>1, CompleteInvariant, PTL

\* An upload that is sure of the names stores a certificate beside none of its
\* name, whatever was loaded between its check and its writing.
THEOREM UploadsStoredApart == CertSpec => StoredApart
<1>1. CertTypeOK /\ SureInv /\ [CertNext]_certVars
        => \A f, g \in Files :
             f # g /\ disk[g] \in Names /\ disk'[f] = disk[g]
               => disk[f] = disk[g] \/ handler.unsure
  <2> SUFFICES ASSUME CertTypeOK, SureInv, [CertNext]_certVars,
                      NEW f \in Files, NEW g \in Files, f # g,
                      disk[g] \in Names, disk'[f] = disk[g], disk[f] # disk[g]
               PROVE  handler.unsure
    OBVIOUS
  <2>1. CASE WriteFile
    <3>1. f = handler.cert.file /\ disk'[f] = handler.cert.name
      BY <2>1 DEF WriteFile, Change, CertTypeOK
    <3>2. handler.unsure \in BOOLEAN
      BY <2>1, HandlerSteps DEF WriteFile, CertTypeOK
    <3> QED
      BY <2>1, <3>1, <3>2 DEF WriteFile, SureInv
  <2>2. CASE OpenFile \/ RemoveFile
    BY <2>2, CertificateAssumption DEF OpenFile, RemoveFile, Change, CertTypeOK
  <2>3. CASE UNCHANGED disk
    BY <2>3
  <2> QED
    BY <2>1, <2>2, <2>3
    DEF CertNext, HandleCert, Load, certVars, UploadCert, CheckName,
        UploadFails, DeleteCert, RemoveFails, UnlistCert, BeginLoad, ListFiles,
        ReadFile, AppendCert, EndLoad
<1> QED
  BY <1>1, CompleteInvariant, PTL DEF CertSpec, StoredApart

-----------------------------------------------------------------------------
(***************************************************************************)
(* Risk profiles: types.                                                   *)
(***************************************************************************)

\* What a handler that saves has at each of its steps.
LEMMA SavingSteps ==
  ASSUME NEW s \in Saving, s.at # "idle"
  PROVE  /\ s # NotSaving
         /\ s \in [at : {"remove", "open", "write"}, removed : BOOLEAN,
                   old : Spellings, profile : Profile]
         /\ s.at \in {"remove", "open", "write"} /\ s.old \in Spellings
         /\ s.profile \in Profile
         /\ s.profile.name \in Spellings /\ s.profile.save \in Saves
BY DEF Saving, NotSaving, Profile

LEMMA WithoutProfileOne ==
  ASSUME profiles \in Seq(Profile), NEW i \in DOMAIN profiles
  PROVE  /\ WithoutProfile(i) \in Seq(Profile)
         /\ Len(WithoutProfile(i)) = Len(profiles) - 1
         /\ \A j \in DOMAIN WithoutProfile(i) :
              WithoutProfile(i)[j] = profiles[IF j < i THEN j ELSE j + 1]
         /\ \A j \in DOMAIN profiles \ {i} :
              \E k \in DOMAIN WithoutProfile(i) :
                WithoutProfile(i)[k] = profiles[j]
<1>1. WithoutProfile(i) = Without(profiles, i)
  BY DEF WithoutProfile, Without
<1> QED
  BY <1>1, WithoutOne, OthersStay

\* What is loaded is what is in the files, each of them once.
LEMMA LoadedList ==
  ASSUME NEW loaded \in SUBSET {n \in Spellings : files[n] \in Saves},
         NEW s \in [1 .. Cardinality(loaded) ->
                      {[name |-> n, save |-> files[n]] : n \in loaded}],
         \A n \in loaded : \E i \in DOMAIN s : s[i].name = n
  PROVE  /\ s \in Seq(Profile)
         /\ \A i, j \in DOMAIN s : s[i].name = s[j].name => i = j
         /\ \A i \in DOMAIN s :
              s[i].name \in loaded /\ s[i].save = files[s[i].name]
<1> DEFINE n == Cardinality(loaded)
           names == [i \in 1 .. n |-> s[i].name]
<1>1. IsFiniteSet(loaded)
  BY ProfileAssumption, FS_Subset
<1>2. ASSUME NEW i \in 1 .. n
      PROVE  /\ s[i] \in Profile /\ s[i].name \in loaded
             /\ s[i].save = files[s[i].name]
  <2>1. PICK m \in loaded : s[i] = [name |-> m, save |-> files[m]]
    OBVIOUS
  <2> QED
    BY <2>1 DEF Profile
<1>3. names \in [1 .. n -> loaded]
  BY <1>2
<1>4. \A m \in loaded : \E i \in DOMAIN names : names[i] = m
  OBVIOUS
<1>5. Cardinality(loaded) \in Nat
      /\ \A i, j \in DOMAIN names : names[i] = names[j] => i = j
  <2> HIDE DEF names
  <2> QED
    BY <1>1, <1>3, <1>4, ListedOnce
<1>6. s \in Seq(Profile)
  BY <1>2, <1>5, SeqDef
<1> QED
  BY <1>2, <1>5, <1>6

LEMMA ProfileTypeNext ==
  ProfileTypeOK /\ [ProfileNext]_profileVars => ProfileTypeOK'
<1> SUFFICES ASSUME ProfileTypeOK, [ProfileNext]_profileVars
             PROVE  ProfileTypeOK'
  OBVIOUS
<1>0. MaxSaves \in Nat /\ \A n \in Spellings : Lower[n] \in Keys
  BY ProfileAssumption DEF Keys
<1>1. CASE LoadProfiles
  <2>1. profiles' \in Seq(Profile)
    BY <1>1, LoadedList DEF LoadProfiles
  <2>2. odd' \subseteq Keys
    BY <1>0, <1>1 DEF LoadProfiles
  <2> QED
    BY <1>1, <2>1, <2>2 DEF LoadProfiles, ProfileTypeOK, answerVars
<1>2. CASE CrashSaving
  <2>1. profiles' \in Seq(Profile)
    BY <1>2, EmptySeq DEF CrashSaving
  <2> QED
    BY <1>2, <2>1 DEF CrashSaving, ProfileTypeOK, Saving, Exposed
<1>3. ASSUME NEW n \in Spellings, CreateProfile(n) PROVE ProfileTypeOK'
  <2> DEFINE profile == [name |-> n, save |-> saves + 1]
  <2>1. saves + 1 \in Saves /\ saves + 1 \in 0 .. MaxSaves
    BY <1>0, <1>3 DEF CreateProfile, Saves, ProfileTypeOK
  <2>2. profile \in Profile
    BY <2>1 DEF Profile
  <2>3. /\ profiles' = Append(profiles, profile)
        /\ saving' = [at |-> "open", removed |-> FALSE, old |-> n,
                      profile |-> profile]
        /\ saves' = saves + 1 /\ UNCHANGED <<running, files, answerVars, odd>>
    BY <1>3 DEF CreateProfile
  <2>4. profiles' \in Seq(Profile) /\ saving' \in Saving
    BY <2>2, <2>3 DEF ProfileTypeOK, Saving
  <2> QED
    BY <2>1, <2>3, <2>4 DEF ProfileTypeOK, answerVars
<1>4. ASSUME NEW n \in Spellings, NEW rename \in Spellings \cup {Same},
             UpdateProfile(n, rename)
      PROVE  ProfileTypeOK'
  <2> DEFINE name == IF rename = Same THEN n ELSE rename
             profile == [name |-> name, save |-> saves + 1]
  <2>0. saves < MaxSaves /\ saves \in 0 .. MaxSaves
    BY <1>4 DEF UpdateProfile, ProfileTypeOK
  <2>1. saves + 1 \in Saves /\ saves + 1 \in 0 .. MaxSaves
    BY <1>0, <2>0 DEF Saves
  <2>2. profile \in Profile /\ name \in Spellings
    BY <2>1 DEF Profile
  <2>3. PICK i \in DOMAIN profiles :
          /\ profiles' = [profiles EXCEPT ![i] = profile]
          /\ saving' = [at |-> IF rename = Same THEN "open" ELSE "remove",
                        removed |-> FALSE, old |-> n, profile |-> profile]
          /\ odd' = odd \cup Strays(i, n, name)
    BY <1>4 DEF UpdateProfile
  <2>4. saves' = saves + 1 /\ UNCHANGED <<running, files, answerVars>>
    BY <1>4 DEF UpdateProfile
  <2>5. profiles' \in Seq(Profile)
    <3>1. profiles \in Seq(Profile) /\ i \in 1 .. Len(profiles)
      BY DEF ProfileTypeOK
    <3> HIDE DEF profile
    <3> QED
      BY <2>2, <2>3, <3>1, ExceptSeq
  <2>6. saving' \in Saving
    BY <2>2, <2>3 DEF Saving
  <2>7. odd' \subseteq Keys
    BY <1>0, <2>2, <2>3 DEF Strays, ProfileTypeOK
  <2> QED
    BY <2>1, <2>4, <2>5, <2>6, <2>7 DEF ProfileTypeOK, answerVars
<1>5. CASE RemoveOriginal \/ OpenProfile \/ WriteProfile
  <2>1. /\ saving.old \in Spellings /\ saving.profile.name \in Spellings
        /\ saving.profile.save \in Saves /\ saving \in Saving
    BY <1>5, SavingSteps
    DEF RemoveOriginal, OpenProfile, WriteProfile, ProfileTypeOK
  <2>2. saving' \in Saving
    BY <1>5, SavingSteps
    DEF RemoveOriginal, OpenProfile, WriteProfile, ProfileTypeOK, Saving
  <2>3. files' \in [Spellings -> 0 .. MaxSaves + 1]
    <3>1. /\ files \in [Spellings -> 0 .. MaxSaves + 1]
          /\ \E n \in Spellings, v \in {Missing, Torn, saving.profile.save} :
               files' = [files EXCEPT ![n] = v]
      BY <1>5, <2>1 DEF RemoveOriginal, OpenProfile, WriteProfile, ProfileTypeOK
    <3>2. {Missing, Torn, saving.profile.save} \subseteq 0 .. MaxSaves + 1
      BY <1>0, <2>1 DEF Missing, Torn, Saves
    <3> QED
      BY <3>1, <3>2
  <2>4. answered' \in [Keys -> 0 .. MaxSaves] /\ lost' \subseteq Keys
    <3>1. CASE RemoveOriginal \/ OpenProfile
      BY <3>1 DEF RemoveOriginal, OpenProfile, ProfileTypeOK, answerVars
    <3>2. CASE WriteProfile
      <4>1. saving.profile.save \in 0 .. MaxSaves /\ 0 \in 0 .. MaxSaves
        BY <1>0, <2>1 DEF Saves
      <4> QED
        BY <3>2, <4>1 DEF WriteProfile, Answer, ProfileTypeOK
    <3> QED
      BY <1>5, <3>1, <3>2
  <2> QED
    BY <1>5, <2>2, <2>3, <2>4
    DEF RemoveOriginal, OpenProfile, WriteProfile, ProfileTypeOK
<1>6. CASE SaveFails
  <2>1. saving.old \in Spellings /\ saving.profile.name \in Spellings
    BY <1>6 DEF SaveFails, ProfileTypeOK, Saving, Profile
  <2> QED
    BY <1>0, <1>6, <2>1 DEF SaveFails, ProfileTypeOK, Saving, Exposed
<1>7. ASSUME NEW n \in Spellings, DeleteProfile(n) PROVE ProfileTypeOK'
  <2>1. PICK i \in DOMAIN profiles :
          /\ files' = [files EXCEPT ![profiles[i].name] = Missing]
          /\ answered' = [answered EXCEPT ![Lower[n]] = 0]
          /\ profiles' = WithoutProfile(i)
    BY <1>7 DEF DeleteProfile
  <2>2. profiles' \in Seq(Profile)
    BY <2>1, WithoutProfileOne DEF ProfileTypeOK
  <2>3. 0 \in 0 .. MaxSaves /\ 0 \in 0 .. MaxSaves + 1
    BY <1>0
  <2>4. /\ files' \in [Spellings -> 0 .. MaxSaves + 1]
        /\ answered' \in [Keys -> 0 .. MaxSaves]
    BY <2>1, <2>3 DEF ProfileTypeOK, Missing
  <2> QED
    BY <1>7, <2>2, <2>3, <2>4 DEF DeleteProfile, ProfileTypeOK
<1>8. ASSUME NEW n \in Spellings, DeleteFails(n) PROVE ProfileTypeOK'
  BY <1>8 DEF DeleteFails, profileVars, answerVars, ProfileTypeOK
<1>9. CASE UNCHANGED profileVars
  BY <1>9 DEF profileVars, answerVars, ProfileTypeOK
<1> QED
  BY <1>1, <1>2, <1>3, <1>4, <1>5, <1>6, <1>7, <1>8, <1>9
  DEF ProfileNext, SaveProfile, RemoveProfile

LEMMA ProfileTypeInit == ProfileInit => ProfileTypeOK
<1> SUFFICES ASSUME ProfileInit PROVE ProfileTypeOK
  OBVIOUS
<1>0. MaxSaves \in Nat
  BY ProfileAssumption
<1>1. 0 \in 0 .. MaxSaves /\ 0 \in 0 .. MaxSaves + 1
  BY <1>0
<1>2. profiles \in Seq(Profile)
  BY EmptySeq DEF ProfileInit
<1> QED
  BY <1>1, <1>2 DEF ProfileInit, ProfileTypeOK, Saving, Missing

\* Every variable keeps its type: the list has profiles only, whatever is in
\* the files it is loaded from.
THEOREM ProfilesTypeCorrect == ProfileSpec => []ProfileTypeOK
BY ProfileTypeInit, ProfileTypeNext, PTL DEF ProfileSpec

-----------------------------------------------------------------------------
(***************************************************************************)
(* Risk profiles: what was answered is kept.                                *)
(***************************************************************************)

\* What was answered is of a name, and in a file of that name.
AnsweredIn(k) == \E n \in FilesOf(k) : files[n] = answered[k]

\* A file that changes is of one name, and those of the other names stay.
LEMMA OtherFiles ==
  ASSUME NEW f \in Spellings, NEW v, ProfileTypeOK,
         files' = [files EXCEPT ![f] = v],
         NEW k \in Keys, k # Lower[f], answered'[k] = answered[k],
         AnsweredIn(k)
  PROVE  AnsweredIn(k)'
<1>1. PICK n \in FilesOf(k) : files[n] = answered[k]
  BY DEF AnsweredIn
<1>2. n \in Spellings /\ Lower[n] = k /\ n # f
  BY <1>1 DEF FilesOf
<1>3. files'[n] = files[n] /\ n \in FilesOf(k)'
  BY <1>1, <1>2 DEF FilesOf, ProfileTypeOK
<1> QED
  BY <1>1, <1>3 DEF AnsweredIn

\* What was answered last of a name stays on disk, whatever fails and wherever
\* the process ends, but where a file was taken from the disk and not written.
THEOREM AnswersAreKept == ProfileSpec => []AnsweredKept
<1>1. ProfileInit => AnsweredKept
  BY DEF ProfileInit, AnsweredKept
<1>2. ASSUME ProfileTypeOK, AnsweredKept, [ProfileNext]_profileVars
      PROVE  AnsweredKept'
  <2> SUFFICES ASSUME NEW k \in Keys, k \notin lost', k \notin Exposed',
                      answered'[k] # 0
               PROVE  AnsweredIn(k)'
    BY DEF AnsweredKept, AnsweredIn
  <2>0. k \notin lost \cup Exposed /\ answered[k] # 0 => AnsweredIn(k)
    BY <1>2 DEF AnsweredKept, AnsweredIn
  <2>1. CASE /\ UNCHANGED <<files, answered>>
             /\ lost \cup Exposed \subseteq lost' \cup Exposed'
    BY <2>0, <2>1 DEF AnsweredIn, FilesOf
  <2>2. CASE LoadProfiles \/ CrashSaving \/ SaveFails
    BY <2>1, <2>2
    DEF LoadProfiles, CrashSaving, SaveFails, Exposed, answerVars
  <2>3. CASE \E n \in Spellings :
               \/ CreateProfile(n) \/ DeleteFails(n)
               \/ \E rename \in Spellings \cup {Same} :
                    UpdateProfile(n, rename)
    BY <2>1, <2>3
    DEF CreateProfile, UpdateProfile, DeleteFails, Exposed, answerVars,
        profileVars
  <2>4. CASE UNCHANGED profileVars
    BY <2>1, <2>4 DEF profileVars, answerVars, Exposed
  <2>5. CASE RemoveOriginal \/ OpenProfile
    <3> DEFINE f == IF saving.at = "remove" THEN saving.old
                                            ELSE saving.profile.name
    <3>1. /\ saving \in Saving /\ saving # NotSaving
          /\ saving.at \in {"remove", "open"} /\ f \in Spellings
      BY <1>2, <2>5, SavingSteps
      DEF RemoveOriginal, OpenProfile, ProfileTypeOK
    <3>2. /\ \E v : files' = [files EXCEPT ![f] = v]
          /\ UNCHANGED <<answered, lost>>
      BY <2>5 DEF RemoveOriginal, OpenProfile, answerVars
    <3>3. saving' # NotSaving /\ Lower[f] \in Exposed'
      <4>1. Lower[f] \in Keys
        BY <3>1 DEF Keys
      <4>2. /\ saving' # NotSaving
            /\ \/ saving'.removed /\ saving'.old = f
               \/ saving'.at = "write" /\ saving'.profile.name = f
        <5>1. saving \in [at : {"remove", "open", "write"}, removed : BOOLEAN,
                         old : Spellings, profile : Profile]
          BY <3>1, SavingSteps DEF NotSaving, Saving
        <5> QED
          BY <2>5, <5>1 DEF RemoveOriginal, OpenProfile, NotSaving
      <4>3. Exposed' = {key \in Keys :
                 \/ saving'.removed /\ key = Lower[saving'.old]
                 \/ saving'.at = "write" /\ key = Lower[saving'.profile.name]}
        BY <4>2 DEF Exposed
      <4> HIDE DEF f
      <4> QED
        BY <4>1, <4>2, <4>3
    <3>4. Exposed \subseteq Exposed'
      BY <1>2, <2>5, <3>1, <3>3, SavingSteps
      DEF RemoveOriginal, OpenProfile, Exposed, Saving, NotSaving, Profile
    <3> QED
      BY <1>2, <2>0, <3>1, <3>2, <3>3, <3>4, OtherFiles
  <2>6. CASE WriteProfile
    <3> DEFINE f == saving.profile.name
    <3>1. /\ f \in Spellings /\ saving.profile.save \in Saves
          /\ files' = [files EXCEPT ![f] = saving.profile.save]
      BY <1>2, <2>6, SavingSteps DEF WriteProfile, ProfileTypeOK
    <3>2. CASE k = Lower[f]
      <4>1. files'[f] = saving.profile.save /\ saving.profile.save # Missing
        BY <1>2, <3>1 DEF ProfileTypeOK, Saves, Missing
      <4>2. answered'[k] = saving.profile.save
        BY <2>6, <3>2 DEF WriteProfile, Answer
      <4>3. f \in FilesOf(k)'
        BY <3>1, <3>2, <4>1 DEF FilesOf
      <4> QED
        BY <4>1, <4>2, <4>3 DEF AnsweredIn
    <3>3. CASE k # Lower[f]
      <4>1. k \notin Exposed /\ k \notin lost /\ answered'[k] = answered[k]
        BY <2>6, <3>3 DEF WriteProfile, Answer
      <4> QED
        BY <1>2, <2>0, <3>1, <3>3, <4>1, OtherFiles
    <3> QED
      BY <3>2, <3>3
  <2>7. ASSUME NEW n \in Spellings, DeleteProfile(n) PROVE AnsweredIn(k)'
    <3>1. PICK i \in DOMAIN profiles :
            /\ First(n, i)
            /\ files' = [files EXCEPT ![profiles[i].name] = Missing]
            /\ answered' = [answered EXCEPT ![Lower[n]] = 0]
      BY <2>7 DEF DeleteProfile
    <3>2. profiles[i].name \in Spellings /\ Lower[profiles[i].name] = Lower[n]
      <4>1. profiles[i] \in Profile
        BY <1>2 DEF ProfileTypeOK
      <4> QED
        BY <3>1, <4>1 DEF First, Profile
    <3>3. UNCHANGED <<lost, saving>>
      BY <2>7 DEF DeleteProfile
    <3>4. k # Lower[n] /\ answered'[k] = answered[k]
      BY <1>2, <3>1 DEF ProfileTypeOK
    <3> QED
      BY <1>2, <2>0, <3>1, <3>2, <3>3, <3>4, OtherFiles DEF Exposed
  <2> QED
    BY <1>2, <2>2, <2>3, <2>4, <2>5, <2>6, <2>7
    DEF ProfileNext, SaveProfile, RemoveProfile
<1> QED
  BY <1>1, <1>2, ProfilesTypeCorrect, PTL DEF ProfileSpec

-----------------------------------------------------------------------------
(***************************************************************************)
(* Risk profiles: the list is that of the files.                           *)
(***************************************************************************)

\* The files as they will be when what is being saved is.
Intended ==
  IF saving.at = "remove"
  THEN [files EXCEPT ![saving.old] = Missing,
                     ![saving.profile.name] = saving.profile.save]
  ELSE IF saving.at \in {"open", "write"}
  THEN [files EXCEPT ![saving.profile.name] = saving.profile.save]
  ELSE files

\* A profile is listed that has been, or is being, saved, and no other.
Stored(n) ==
  /\ Intended[n] # Torn
  /\ \A s \in Saves :
       [name |-> n, save |-> s] \in ListedProfiles <=> Intended[n] = s

StoredInv ==
  running =>
    /\ \A n \in Spellings : Lower[n] \notin odd => Stored(n)
    /\ \A i, j \in DOMAIN profiles :
         /\ profiles[i].name = profiles[j].name
         /\ Lower[profiles[i].name] \notin odd
         => i = j

\* Nothing is saved while the server does not run.
OffInv == ~running => saving = NotSaving

LEMMA OffNext == OffInv /\ [ProfileNext]_profileVars => OffInv'
<1> SUFFICES ASSUME OffInv, [ProfileNext]_profileVars
             PROVE  OffInv'
  OBVIOUS
<1>1. CASE LoadProfiles \/ CrashSaving
  BY <1>1 DEF OffInv, LoadProfiles, CrashSaving
<1>2. CASE UNCHANGED profileVars
  BY <1>2 DEF OffInv, profileVars
<1>3. ASSUME NEW n \in Spellings, CreateProfile(n) PROVE OffInv'
  BY <1>3 DEF OffInv, CreateProfile
<1>4. ASSUME NEW n \in Spellings, NEW rename \in Spellings \cup {Same},
             UpdateProfile(n, rename)
      PROVE  OffInv'
  BY <1>4 DEF OffInv, UpdateProfile
<1>5. CASE RemoveOriginal \/ OpenProfile \/ WriteProfile \/ SaveFails
  <2>1. saving # NotSaving
    BY <1>5
    DEF RemoveOriginal, OpenProfile, WriteProfile, SaveFails, NotSaving
  <2>2. running' = running
    BY <1>5 DEF RemoveOriginal, OpenProfile, WriteProfile, SaveFails
  <2> QED
    BY <2>1, <2>2 DEF OffInv
<1>6. ASSUME NEW n \in Spellings, DeleteProfile(n) \/ DeleteFails(n)
      PROVE  OffInv'
  BY <1>6 DEF OffInv, DeleteProfile, DeleteFails, profileVars
<1> QED
  BY <1>1, <1>2, <1>3, <1>4, <1>5, <1>6
  DEF ProfileNext, SaveProfile, RemoveProfile

\* The list as it is loaded.
LEMMA LoadStores ==
  ASSUME ProfileTypeOK, OffInv, LoadProfiles
  PROVE  StoredInv'
<1> DEFINE good == {n \in Spellings : files[n] \in Saves}
           torn == {n \in Spellings : files[n] = Torn}
<1>1. PICK loaded \in SUBSET good :
        /\ profiles' \in
             [1 .. Cardinality(loaded) ->
                {[name |-> n, save |-> files[n]] : n \in loaded}]
        /\ \A n \in loaded : \E i \in DOMAIN profiles' : profiles'[i].name = n
        /\ odd' = {Lower[n] : n \in (good \cup torn) \ loaded}
  BY DEF LoadProfiles
<1>2. /\ profiles' \in Seq(Profile)
      /\ \A i, j \in DOMAIN profiles' :
           profiles'[i].name = profiles'[j].name => i = j
      /\ \A i \in DOMAIN profiles' :
           /\ profiles'[i].name \in loaded
           /\ profiles'[i].save = files[profiles'[i].name]
  BY <1>1, LoadedList
<1>3. files' = files /\ saving' = NotSaving
  BY DEF LoadProfiles, OffInv
<1>4. Intended' = files
  BY <1>3 DEF Intended, NotSaving
<1>5. ASSUME NEW n \in Spellings, Lower[n] \notin odd' PROVE Stored(n)'
  <2>1. files[n] \in Saves \/ files[n] = Torn => n \in loaded
    BY <1>1, <1>5
  <2>2. n \in loaded => files[n] \in Saves
    OBVIOUS
  <2>3. Torn \notin Saves
    BY ProfileAssumption DEF Torn, Saves
  <2>4. ASSUME NEW s \in Saves
        PROVE  [name |-> n, save |-> s] \in ListedProfiles' <=> files[n] = s
    <3>1. ASSUME [name |-> n, save |-> s] \in ListedProfiles'
          PROVE  files[n] = s
      <4>1. PICK i \in DOMAIN profiles' :
              profiles'[i] = [name |-> n, save |-> s]
        BY <3>1 DEF ListedProfiles
      <4> QED
        BY <1>2, <4>1
    <3>2. ASSUME files[n] = s
          PROVE  [name |-> n, save |-> s] \in ListedProfiles'
      <4>1. PICK i \in DOMAIN profiles' : profiles'[i].name = n
        BY <1>1, <2>1, <3>2
      <4>2. profiles'[i].save = s /\ profiles'[i] \in Profile
        BY <1>2, <3>2, <4>1
      <4>3. profiles'[i] = [name |-> n, save |-> s]
        BY <4>1, <4>2 DEF Profile
      <4> QED
        BY <4>3 DEF ListedProfiles
    <3> QED
      BY <3>1, <3>2
  <2> QED
    BY <1>4, <2>1, <2>2, <2>3, <2>4 DEF Stored
<1> QED
  BY <1>2, <1>5 DEF StoredInv

LEMMA CreateStores ==
  ASSUME ProfileTypeOK, StoredInv, NEW n \in Spellings, CreateProfile(n)
  PROVE  StoredInv'
<1> DEFINE profile == [name |-> n, save |-> saves + 1]
<1>1. /\ running /\ running' /\ saving = NotSaving /\ files' = files
      /\ odd' = odd /\ profiles' = Append(profiles, profile)
      /\ saving' = [at |-> "open", removed |-> FALSE, old |-> n,
                    profile |-> profile]
  BY DEF CreateProfile
<1>2. saves + 1 \in Saves /\ profile \in Profile
  <2>1. saves < MaxSaves /\ saves \in 0 .. MaxSaves
    BY DEF CreateProfile, ProfileTypeOK
  <2>2. saves + 1 \in Saves
    BY <2>1, ProfileAssumption DEF Saves
  <2> QED
    BY <2>2 DEF Profile
<1>3. /\ DOMAIN profiles' = DOMAIN profiles \cup {Len(profiles) + 1}
      /\ \A i \in DOMAIN profiles :
           profiles'[i] = profiles[i] /\ i # Len(profiles) + 1
      /\ profiles'[Len(profiles) + 1] = profile
  BY <1>1, <1>2 DEF ProfileTypeOK
<1>4. ListedProfiles' = ListedProfiles \cup {profile}
  BY <1>3 DEF ListedProfiles
<1>5. Intended = files /\ Intended' = [files EXCEPT ![n] = saves + 1]
  BY <1>1 DEF Intended, NotSaving
<1>6. \A p \in ListedProfiles : Lower[p.name] # Lower[n] /\ p.name # n
  BY DEF CreateProfile, NoneOf
<1>7. ASSUME NEW m \in Spellings, Lower[m] \notin odd PROVE Stored(m)'
  <2>1. Stored(m)
    BY <1>1, <1>7 DEF StoredInv
  <2>2. CASE m = n
    <3>1. Intended'[m] = saves + 1 /\ saves + 1 # Torn
      BY <1>2, <1>5, <2>2, ProfileAssumption
      DEF ProfileTypeOK, Saves, Torn
    <3>2. \A s : [name |-> m, save |-> s] \in ListedProfiles' <=> s = saves + 1
      BY <1>4, <1>6, <2>2
    <3> QED
      BY <3>1, <3>2 DEF Stored
  <2>3. CASE m # n
    <3>1. Intended'[m] = Intended[m]
      BY <1>5, <2>3 DEF ProfileTypeOK
    <3>2. \A s : [name |-> m, save |-> s] \in ListedProfiles'
                   <=> [name |-> m, save |-> s] \in ListedProfiles
      BY <1>4, <2>3
    <3> QED
      BY <2>1, <3>1, <3>2 DEF Stored
  <2> QED
    BY <2>2, <2>3
<1>8. ASSUME NEW i \in DOMAIN profiles', NEW j \in DOMAIN profiles',
             profiles'[i].name = profiles'[j].name,
             Lower[profiles'[i].name] \notin odd
      PROVE  i = j
  <2>1. \A k \in DOMAIN profiles : profiles[k].name # n
    BY <1>6 DEF ListedProfiles
  <2> QED
    BY <1>1, <1>3, <1>8, <2>1 DEF StoredInv
<1> QED
  BY <1>1, <1>7, <1>8 DEF StoredInv

LEMMA UpdateStores ==
  ASSUME ProfileTypeOK, StoredInv, NEW n \in Spellings,
         NEW rename \in Spellings \cup {Same}, UpdateProfile(n, rename)
  PROVE  StoredInv'
<1> DEFINE name == IF rename = Same THEN n ELSE rename
           profile == [name |-> name, save |-> saves + 1]
<1>1. PICK i \in DOMAIN profiles :
        /\ First(n, i)
        /\ profiles' = [profiles EXCEPT ![i] = profile]
        /\ saving' = [at |-> IF rename = Same THEN "open" ELSE "remove",
                      removed |-> FALSE, old |-> n, profile |-> profile]
        /\ odd' = odd \cup Strays(i, n, name)
  BY DEF UpdateProfile
<1>2. /\ running /\ running' /\ saving = NotSaving /\ files' = files
      /\ saves < MaxSaves /\ saves \in 0 .. MaxSaves
  BY DEF UpdateProfile, ProfileTypeOK
<1>0. MaxSaves \in Nat
  BY ProfileAssumption
<1>3. saves + 1 \in Saves /\ saves + 1 # Torn /\ name \in Spellings
  BY <1>0, <1>2 DEF Saves, Torn
<1>4. /\ DOMAIN profiles' = DOMAIN profiles /\ profiles'[i] = profile
      /\ \A j \in DOMAIN profiles \ {i} : profiles'[j] = profiles[j]
  <2>1. profiles \in Seq(Profile)
    BY DEF ProfileTypeOK
  <2> QED
    BY <1>1, <2>1
<1>5. Intended = files
  BY <1>2 DEF Intended, NotSaving
<1>6. /\ Intended'[name] = saves + 1
      /\ \A m \in Spellings \ {name} :
           Intended'[m] = IF m = n THEN Missing ELSE files[m]
  <2>1. files \in [Spellings -> 0 .. MaxSaves + 1]
    BY DEF ProfileTypeOK
  <2>2. saving'.old = n /\ saving'.profile.name = name
        /\ saving'.profile.save = saves + 1
    BY <1>1
  <2>3. saving'.at = IF rename = Same THEN "open" ELSE "remove"
    BY <1>1
  <2> HIDE DEF name
  <2>4. Intended' = IF rename = Same THEN [files EXCEPT ![name] = saves + 1]
                    ELSE [files EXCEPT ![n] = Missing, ![name] = saves + 1]
    BY <1>2, <2>2, <2>3 DEF Intended
  <2>5. rename = Same => name = n
    BY DEF name
  <2> QED
    BY <1>3, <2>1, <2>4, <2>5
<1>7. /\ profiles[i].name # n => Lower[n] \in odd'
      /\ \A j \in DOMAIN profiles \ {i} :
           profiles[j].name = name => Lower[name] \in odd'
      /\ odd \subseteq odd' /\ Lower[profiles[i].name] = Lower[n]
  BY <1>1 DEF Strays, First
<1> HIDE DEF name
<1>8. ASSUME NEW m \in Spellings, Lower[m] \notin odd' PROVE Stored(m)'
  <2>1. Stored(m)
    BY <1>2, <1>7, <1>8 DEF StoredInv
  <2>2. \A s : [name |-> m, save |-> s] \in ListedProfiles'
                 <=> \/ m = name /\ s = saves + 1
                     \/ \E j \in DOMAIN profiles \ {i} :
                          profiles[j] = [name |-> m, save |-> s]
    BY <1>4 DEF ListedProfiles
  <2>3. CASE m = name
    <3>1. \A j \in DOMAIN profiles \ {i} : profiles[j].name # m
      BY <1>7, <1>8, <2>3
    <3> QED
      BY <1>3, <1>6, <2>2, <2>3, <3>1 DEF Stored
  <2>4. CASE m # name /\ m = n
    <3>1. profiles[i].name = m
      BY <1>7, <1>8, <2>4
    <3>2. \A j \in DOMAIN profiles \ {i} : profiles[j].name # m
      BY <1>2, <1>7, <1>8, <3>1 DEF StoredInv
    <3>3. Intended'[m] = 0 /\ 0 \notin Saves /\ Torn # 0
      BY <1>0, <1>6, <2>4 DEF Missing, Saves, Torn
    <3> QED
      BY <2>2, <2>4, <3>2, <3>3 DEF Stored
  <2>5. CASE m # name /\ m # n
    <3>1. profiles[i].name # m
      BY <1>7, <1>8, <2>5
    <3>2. \A s : [name |-> m, save |-> s] \in ListedProfiles'
                   <=> [name |-> m, save |-> s] \in ListedProfiles
      BY <2>2, <2>5, <3>1 DEF ListedProfiles
    <3> QED
      BY <1>5, <1>6, <2>1, <2>5, <3>2 DEF Stored
  <2> QED
    BY <2>3, <2>4, <2>5
<1>9. ASSUME NEW j \in DOMAIN profiles', NEW k \in DOMAIN profiles',
             profiles'[j].name = profiles'[k].name,
             Lower[profiles'[j].name] \notin odd'
      PROVE  j = k
  <2>1. profiles'[i].name = name
    BY <1>4
  <2>2. CASE j # i /\ k # i
    BY <1>2, <1>4, <1>7, <1>9, <2>2 DEF StoredInv
  <2>3. CASE j = i \/ k = i
    BY <1>4, <1>7, <1>9, <2>1, <2>3
  <2> QED
    BY <2>2, <2>3
<1> QED
  BY <1>2, <1>8, <1>9 DEF StoredInv

LEMMA SaveStores ==
  ASSUME ProfileTypeOK, StoredInv,
         RemoveOriginal \/ OpenProfile \/ WriteProfile \/ SaveFails
  PROVE  StoredInv'
<1> DEFINE name == saving.profile.name
           save == saving.profile.save
<1>1. /\ saving.at \in {"remove", "open", "write"} /\ saving \in Saving
      /\ saving.old \in Spellings /\ name \in Spellings
      /\ files \in [Spellings -> 0 .. MaxSaves + 1]
      /\ UNCHANGED <<running, profiles>>
  BY SavingSteps
  DEF RemoveOriginal, OpenProfile, WriteProfile, SaveFails, ProfileTypeOK,
      Saving, NotSaving
<1>2. ListedProfiles' = ListedProfiles
  BY <1>1 DEF ListedProfiles
<1>3. \A m \in Spellings : Lower[m] \notin odd' =>
        Lower[m] \notin odd /\ Intended'[m] = Intended[m]
  <2>1. CASE RemoveOriginal
    <3>1. saving'.at = "open" /\ saving'.profile = saving.profile
      BY <1>1, <2>1, SavingSteps DEF RemoveOriginal
    <3>2. files' = [files EXCEPT ![saving.old] = Missing]
          /\ saving.at = "remove" /\ odd' = odd
      BY <2>1 DEF RemoveOriginal
    <3>3. Intended = [files EXCEPT ![saving.old] = Missing, ![name] = save]
      BY <3>2 DEF Intended
    <3>4. Intended' = [files' EXCEPT ![name] = save]
      BY <3>1 DEF Intended
    <3> QED
      BY <1>1, <3>2, <3>3, <3>4
  <2>2. CASE OpenProfile
    <3>1. saving'.at = "write" /\ saving'.profile = saving.profile
      BY <1>1, <2>2, SavingSteps DEF OpenProfile
    <3>2. files' = [files EXCEPT ![name] = Torn] /\ saving.at = "open"
          /\ odd' = odd
      BY <2>2 DEF OpenProfile
    <3>3. Intended = [files EXCEPT ![name] = save]
      BY <3>2 DEF Intended
    <3>4. Intended' = [files' EXCEPT ![name] = save]
      BY <3>1 DEF Intended
    <3> QED
      BY <1>1, <3>2, <3>3, <3>4
  <2>3. CASE WriteProfile
    <3>1. /\ saving'.at = "idle" /\ saving.at = "write" /\ odd' = odd
          /\ files' = [files EXCEPT ![name] = save]
      BY <2>3 DEF WriteProfile, NotSaving
    <3> QED
      BY <1>1, <3>1 DEF Intended
  <2>4. CASE SaveFails
    <3>1. /\ saving'.at = "idle" /\ files' = files
          /\ odd' = odd \cup {Lower[saving.old], Lower[name]}
      BY <2>4 DEF SaveFails, NotSaving
    <3>2. \A m \in Spellings : m \notin {saving.old, name} =>
            Intended[m] = files[m]
      BY <1>1 DEF Intended
    <3>3. Intended' = files
      BY <3>1 DEF Intended
    <3> QED
      BY <3>1, <3>2, <3>3
  <2> QED
    BY <2>1, <2>2, <2>3, <2>4
<1>4. odd \subseteq odd'
  BY DEF RemoveOriginal, OpenProfile, WriteProfile, SaveFails
<1>5. \A m \in Spellings : Lower[m] \notin odd' /\ Stored(m) => Stored(m)'
  BY <1>2, <1>3 DEF Stored
<1> QED
  BY <1>1, <1>3, <1>4, <1>5 DEF StoredInv

LEMMA DeleteStores ==
  ASSUME ProfileTypeOK, StoredInv, NEW n \in Spellings, DeleteProfile(n)
  PROVE  StoredInv'
<1>1. PICK i \in DOMAIN profiles :
        /\ files' = [files EXCEPT ![profiles[i].name] = Missing]
        /\ profiles' = WithoutProfile(i)
  BY DEF DeleteProfile
<1> DEFINE q == profiles[i].name
           to(j) == IF j < i THEN j ELSE j + 1
<1>2. /\ running /\ running' /\ odd' = odd
      /\ saving = NotSaving /\ saving' = NotSaving
  BY DEF DeleteProfile
<1>3. Intended = files /\ Intended' = files'
  BY <1>2 DEF Intended, NotSaving
<1>4. /\ profiles \in Seq(Profile) /\ DOMAIN profiles = 1 .. Len(profiles)
      /\ DOMAIN profiles' = 1 .. Len(profiles) - 1 /\ Len(profiles) \in Nat
      /\ \A j \in DOMAIN profiles' : profiles'[j] = profiles[to(j)]
      /\ \A j \in DOMAIN profiles \ {i} :
           \E k \in DOMAIN profiles' : profiles'[k] = profiles[j]
  BY <1>1, WithoutProfileOne DEF ProfileTypeOK
<1>5. /\ \A j \in DOMAIN profiles' : to(j) \in DOMAIN profiles \ {i}
      /\ \A j, k \in DOMAIN profiles' : to(j) = to(k) => j = k
  BY <1>4
<1> HIDE DEF to
<1>6. \A p : p \in ListedProfiles' <=>
               \E j \in DOMAIN profiles \ {i} : profiles[j] = p
  BY <1>4, <1>5 DEF ListedProfiles
<1>7. ASSUME NEW m \in Spellings, Lower[m] \notin odd PROVE Stored(m)'
  <2>1. Stored(m) /\ files \in [Spellings -> 0 .. MaxSaves + 1]
    BY <1>2, <1>7 DEF StoredInv, ProfileTypeOK
  <2>2. CASE m = q
    <3>1. \A j \in DOMAIN profiles \ {i} : profiles[j].name # m
      BY <1>2, <1>7, <2>2 DEF StoredInv
    <3>2. Intended'[m] = 0 /\ 0 \notin Saves /\ Torn # 0
      BY <1>1, <1>3, <2>1, <2>2, ProfileAssumption DEF Missing, Saves, Torn
    <3>3. \A s : [name |-> m, save |-> s] \notin ListedProfiles'
      BY <1>6, <3>1
    <3> QED
      BY <3>2, <3>3 DEF Stored
  <2>3. CASE m # q
    <3>1. Intended'[m] = Intended[m]
      BY <1>1, <1>3, <2>1, <2>3
    <3>2. \A s : [name |-> m, save |-> s] \in ListedProfiles'
                   <=> [name |-> m, save |-> s] \in ListedProfiles
      BY <1>6, <2>3 DEF ListedProfiles
    <3> QED
      BY <2>1, <3>1, <3>2 DEF Stored
  <2> QED
    BY <2>2, <2>3
<1>8. ASSUME NEW j \in DOMAIN profiles', NEW k \in DOMAIN profiles',
             profiles'[j].name = profiles'[k].name,
             Lower[profiles'[j].name] \notin odd
      PROVE  j = k
  <2>1. profiles'[j] = profiles[to(j)] /\ profiles'[k] = profiles[to(k)]
    BY <1>4
  <2>2. to(j) \in DOMAIN profiles /\ to(k) \in DOMAIN profiles
    BY <1>5
  <2>3. to(j) = to(k)
    BY <1>2, <1>8, <2>1, <2>2 DEF StoredInv
  <2> QED
    BY <1>5, <2>3
<1> QED
  BY <1>2, <1>7, <1>8 DEF StoredInv

\* The list that is in memory is that of the files, and is loaded again when
\* the process ends: only a save that failed, a name that is spelt otherwise
\* or is that of another profile, and what was not loaded are exceptions.
THEOREM ProfilesOnDisk == ProfileSpec => []MemoryOnDisk
<1>1. ProfileInit => ProfileTypeOK /\ OffInv /\ StoredInv
  BY ProfileTypeInit DEF ProfileInit, OffInv, StoredInv
<1>2. ProfileTypeOK /\ OffInv /\ StoredInv /\ [ProfileNext]_profileVars
        => StoredInv'
  <2> SUFFICES ASSUME ProfileTypeOK, OffInv, StoredInv,
                      [ProfileNext]_profileVars
               PROVE  StoredInv'
    OBVIOUS
  <2>1. CASE CrashSaving
    BY <2>1 DEF CrashSaving, StoredInv
  <2>2. CASE UNCHANGED profileVars
    <3>1. /\ running' = running /\ profiles' = profiles /\ files' = files
          /\ saving' = saving /\ odd' = odd
      BY <2>2 DEF profileVars
    <3>2. Intended' = Intended /\ ListedProfiles' = ListedProfiles
      BY <3>1 DEF Intended, ListedProfiles
    <3>3. \A n : Stored(n)' <=> Stored(n)
      BY <3>2 DEF Stored
    <3> QED
      BY <3>1, <3>3 DEF StoredInv
  <2> QED
    BY <2>1, <2>2, LoadStores, CreateStores, UpdateStores, SaveStores,
       DeleteStores
    DEF ProfileNext, SaveProfile, RemoveProfile, DeleteFails
<1>3. ProfileTypeOK /\ StoredInv => MemoryOnDisk
  <2> SUFFICES ASSUME ProfileTypeOK, StoredInv, running, saving = NotSaving,
                      NEW k \in Keys \ odd
               PROVE  {p \in ListedProfiles : Lower[p.name] = k}
                        = {[name |-> n, save |-> files[n]] : n \in FilesOf(k)}
    BY DEF MemoryOnDisk
  <2>1. Intended = files
    BY DEF Intended, NotSaving
  <2>2. ASSUME NEW p \in ListedProfiles, Lower[p.name] = k
        PROVE  p \in {[name |-> n, save |-> files[n]] : n \in FilesOf(k)}
    <3>1. p \in Profile
      BY DEF ProfileTypeOK, ListedProfiles
    <3>2. /\ p = [name |-> p.name, save |-> p.save]
          /\ p.name \in Spellings /\ p.save \in Saves
      BY <3>1 DEF Profile
    <3>3. files[p.name] = p.save
      BY <2>1, <2>2, <3>2 DEF StoredInv, Stored
    <3>4. p.save # Missing
      BY <3>2, ProfileAssumption DEF Saves, Missing
    <3> QED
      BY <2>2, <3>2, <3>3, <3>4 DEF FilesOf
  <2>3. ASSUME NEW n \in FilesOf(k)
        PROVE  /\ [name |-> n, save |-> files[n]] \in ListedProfiles
               /\ Lower[n] = k
    <3>1. n \in Spellings /\ Lower[n] = k /\ files[n] # Missing
      BY DEF FilesOf
    <3>2. Stored(n) /\ files[n] \in 0 .. MaxSaves + 1
      BY <3>1 DEF StoredInv, ProfileTypeOK
    <3>3. files[n] \in Saves
      BY <2>1, <3>1, <3>2, ProfileAssumption DEF Stored, Missing, Torn, Saves
    <3> QED
      BY <2>1, <3>1, <3>2, <3>3 DEF Stored
  <2> QED
    BY <2>2, <2>3
<1> QED
  BY <1>1, <1>2, <1>3, OffNext, ProfileTypeNext, PTL DEF ProfileSpec
=============================================================================
