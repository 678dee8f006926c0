------------------------- MODULE MCTestOrchestrator -------------------------
(***************************************************************************)
(* An instance of TestOrchestrator for TLC: two modules of two tests each. *)
(* The first module's second test is outside of the pack, so that tests    *)
(* are marked, skipped and cut off by a disconnection in the middle.       *)
(***************************************************************************)
EXTENDS TestOrchestrator

MCTests == {"dhcp", "ipv6", "tls", "ntp"}
MCModuleTests == <<<<"dhcp", "ipv6">>, <<"tls", "ntp">>>>
MCPack == {"dhcp", "tls", "ntp"}
MCLevel == [dhcp |-> "Required", tls |-> "Required if Applicable",
            ntp  |-> "Informational"]
MCGate == {"dhcp", "tls"}
MCVerdicts == {COMPLIANT, NON_COMPLIANT}
=============================================================================
