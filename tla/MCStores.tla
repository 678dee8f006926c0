------------------------------ MODULE MCStores ------------------------------
(***************************************************************************)
(* What the server keeps in memory and on disk, for TLC: the reports of a  *)
(* device, the certificates and the risk profiles.  These share no state,  *)
(* so that a behaviour of the server is one of each, side by side: here    *)
(* one of them moves, and the variables of the others stay as they are.    *)
(***************************************************************************)
EXTENDS DeviceReports, CertificateStore, ProfileStore

\* Two spellings of a name and another name.
MCSpellings == {"a", "A", "b"}
MCLower == [n \in MCSpellings |-> IF n = "b" THEN "b" ELSE "a"]

VARIABLE store   \* the one that moves

storeVars == <<store, vars, certVars, profileVars>>

\* A store that does not move has nothing in it.
StoresInit ==
  /\ store \in {"reports", "certificates", "profiles"}
  /\ Init /\ ProfileInit
  /\ CertInit /\ (store # "certificates" => certs = <<>>)

StoresNext ==
  /\ UNCHANGED store
  /\ \/ store = "reports" /\ Next /\ UNCHANGED <<certVars, profileVars>>
     \/ store = "certificates" /\ CertNext /\ UNCHANGED <<vars, profileVars>>
     \/ store = "profiles" /\ ProfileNext /\ UNCHANGED <<vars, certVars>>

StoresSpec == StoresInit /\ [][StoresNext]_storeVars
=============================================================================
