------------------------------ MODULE MC_IcnMn ------------------------------
(***************************************************************************)
(* Instantiates IcnMn for TLC: four clusters of one client/NAP pair each.  *)
(*  1. management_if eth0 and data_if eth1, both on the host: s1 and s2;   *)
(*  2. data_if only: management_if falls back to it, one switch;           *)
(*  3. no switch_type: construct_clusters never builds its command and     *)
(*     gives the cluster up;                                               *)
(*  4. a management_if its host does not have: icn_mn exits in checkIntf.  *)
(* Whether the host's interfaces carry an address is left open (Init).     *)
(***************************************************************************)
EXTENDS IcnMn

MCPairs == <<1, 1, 1, 1>>
MCClusterOctet == <<2, 3, 4, 5>>
MCSwitchType == <<"ovs", "linux", Unset, "ovs">>
MCManagementIf == <<"eth0", Unset, "eth0", "eth2">>
MCDataIf == <<"eth1", "eth0", "eth1", "eth0">>
MCHostIfaces == <<{"eth0", "eth1"}, {"eth0"}, {"eth0", "eth1"}, {"eth0"}>>

=============================================================================
