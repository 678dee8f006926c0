---------------------------- MODULE MCLifecycle ----------------------------
(***************************************************************************)
(* Instances of Lifecycle for TLC: the session of one device, and that of  *)
(* two registered devices on the same network.                             *)
(***************************************************************************)
EXTENDS Lifecycle

CONSTANTS d1, d2

OneDevice == {d1}
TwoDevices == {d1, d2}
=============================================================================
