----------------------------- MODULE MC_Testbed -----------------------------
(***************************************************************************)
(* Instantiates Testbed for TLC: two clusters of two client/NAP pairs on  *)
(* hosts with different last octets, a NAP configuration with two NAPs     *)
(* per cluster, and an ICN template of two hosts and a mininet switch     *)
(* after them: the configuration files agree, so what can still break the  *)
(* agreement is the deployment itself.                                     *)
(***************************************************************************)
EXTENDS Testbed

MCPairs == <<2, 2>>
MCClusterOctet == <<2, 3>>
MCSwitchType == <<"ovs", "ovs">>
MCTemplateKinds == <<"host", "host", "mnswitch">>

\* The host side is not modelled here: one state per host.
MCHostInit == {[c \in DOMAIN MCPairs |-> Unset]}

=============================================================================
