---------------------------- MODULE MCDhcpTests ----------------------------
(***************************************************************************)
(* An instance of DhcpTests for TLC: the six tests in the order of the     *)
(* module's configuration, and two ranges.                                 *)
(***************************************************************************)
EXTENDS DhcpTests

MCDhcpOrder ==
  <<"subnets", "subnets", "disconnect", "disconnect_ip_change", "ip_change",
    "failover">>
MCDhcpRanges == <<"private", "shared">>
=============================================================================
