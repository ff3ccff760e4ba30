---------------------------- MODULE MC_MnClusters ----------------------------
(***************************************************************************)
(* Instantiates MnClusters for TLC: two clusters, the first with two       *)
(* client/NAP pairs, so that a skipped cluster shifts the next one's       *)
(* addresses by an amount other than its own size.                        *)
(***************************************************************************)
EXTENDS MnClusters

MCPairs == <<2, 1>>
MCClusterOctet == <<2, 3>>
MCSwitchType == <<"ovs", "ovs">>

\* The host side is not modelled here: one state per host.
MCHostInit == {[c \in DOMAIN MCPairs |-> Unset]}

=============================================================================
