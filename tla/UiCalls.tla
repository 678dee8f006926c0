------------------------------ MODULE UiCalls ------------------------------
(***************************************************************************)
(* What the pages of the user interface have in common: a request to the   *)
(* server is a record that says what it is at, and what it carries.        *)
(***************************************************************************)
Idle == [at |-> "idle"]
Asked == [at |-> "asked"]
Failed == [at |-> "failed"]

\* A field of a form or of a record with nothing in it.
Blank == ""
=============================================================================
