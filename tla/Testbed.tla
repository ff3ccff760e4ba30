------------------------------- MODULE Testbed -------------------------------
(***************************************************************************)
(* The testbed as its four pieces build it, composed on the one thing they *)
(* share: the address plan.  Every piece walks it from its own copy of     *)
(* MANAGEMENT_NET and DATA_NET (the same networks, in every configuration  *)
(* file), in pairs of two addresses, one pair per client/NAP:              *)
(*                                                                         *)
(*  - MnClusters.construct_clusters hands every cluster host the offset    *)
(*    its mininet starts at, and write_ip_lists writes the end point and   *)
(*    NAP lists (the MnClusters module, whose behaviour this extends);     *)
(*  - icn_mn.py, run on the cluster host, puts client i at that offset     *)
(*    plus 2(i-1) on the management network (DAGTopo) and on the data      *)
(*    network (start_network), and NAP i at the next address;              *)
(*  - IPoverICNCluster.write_nap_config writes NAP i of cluster c a        *)
(*    config whose nodeId is the label of the pair's management address,  *)
(*    and whose networkAddress is the pair's data address;                 *)
(*  - ICNetwork places the ICN node of host r of cluster c at the pair's   *)
(*    management address (testbed_ip, label).                              *)
(*                                                                         *)
(* An address is its offset from the network's first address.  The data   *)
(* plan moves in step with the management plan in every piece (the same   *)
(* statement in construct_clusters, the same +1/+1 in start_network and    *)
(* +2 in write_nap_config), so a pair's data offset equals its management  *)
(* offset and is not kept apart.  Labels are a function of the address,    *)
(* so two pieces agree on a label when they agree on the address.          *)
(***************************************************************************)
EXTENDS MnClusters

CONSTANTS
  NUMBER_NAPS,    \* NUMBER_NAPS of the NAP configuration file
  TemplateKinds   \* the kinds of the ICN cluster_topology, in order:
                  \* "host", "mnswitch", "sdnphys" or "other"

ASSUME NUMBER_NAPS \in Nat \ {0}

-----------------------------------------------------------------------------
(***************************************************************************)
(* icn_mn.py on cluster host c, started with --mn and --dn at offset l.    *)
(***************************************************************************)
\* DAGTopo: client i at the running management address, then +1 for the
\* NAP and +1 for the next pair; start_network does the same on --dn.
ClientAddr(l, i) == l + 2 * (i - 1)
NapAddr(l, i) == ClientAddr(l, i) + 1

\* start_network: client i's data address on --dn; the NAP, the client's
\* default gateway, takes the next one.
ClientDataAddr(d, i) == d + 2 * (i - 1)

\* write_ip_lists: the end point and NAP entries of pair i in the files
\* that cluster w's lists were written to.
ListedEndpoint(w, i) == IpListStart(w) + 2 * (i - 1)
ListedNap(w, i) == ListedEndpoint(w, i) + 1

(***************************************************************************)
(* IPoverICNCluster.write_nap_config: one running management_ip and        *)
(* data_ip over all clusters, +2 after every NAP, NUMBER_NAPS NAPs in      *)
(* every cluster.                                                          *)
(***************************************************************************)
\* A mutation of NapConfigAddr: the step of write_ip_lists, one address per
\* NAP.
NapConfigAddrOneStep(c, i) == (c - 1) * NUMBER_NAPS + (i - 1)

NapConfigAddr(c, i) == 2 * ((c - 1) * NUMBER_NAPS + (i - 1))

(***************************************************************************)
(* ICNetwork: __init__ gives cluster c the start_ip after the hosts of the *)
(* clusters before it, two addresses per host; update_clusters then walks  *)
(* the template of every cluster but the first with a cursor that moves   *)
(* two addresses for every node.  The first cluster keeps the template's   *)
(* own addresses, authored on the same plan.                               *)
(***************************************************************************)
IsHost(k) == TemplateKinds[k] = "host"
IcnHosts == Cardinality({k \in DOMAIN TemplateKinds : IsHost(k)})

\* The position in the template of its r-th host.
HostPosition(r) ==
  CHOOSE k \in DOMAIN TemplateKinds :
    IsHost(k) /\ Cardinality({j \in 1..k : IsHost(j)}) = r

IcnHostAddr(c, r) ==
  IF c = 1 THEN 2 * (r - 1)
  ELSE (c - 1) * IcnHosts * 2 + 2 * (HostPosition(r) - 1)

-----------------------------------------------------------------------------
(***************************************************************************)
(* Properties.                                                             *)
(***************************************************************************)
\* Once -m has run, every mininet a cluster host runs and the three
\* configurations written for that cluster describe the same pairs: the
\* end point and NAP lists in the files named for the cluster hold the
\* addresses icn_mn gave its clients and NAPs; the NAP configs (as many as
\* the cluster has NAPs) carry the nodeId and networkAddress of the pair
\* they are delivered to; and the ICN node of every host sits on the pair's
\* management address.  A skipped cluster, a shared file label or
\* different per-cluster counts in the three configurations break it.
TestbedPlansAgree ==
  phase = "done" =>
    \A c \in Clusters : \A l \in launched[c] :
      LET w == iplists[ClusterOctet[c]]
      IN  /\ Pairs[w] = Pairs[c] /\ NUMBER_NAPS = Pairs[c] /\ IcnHosts = Pairs[c]
          /\ \A i \in 1..Pairs[c] :
               /\ ListedEndpoint(w, i) = ClientAddr(l, i)
               /\ ListedNap(w, i) = NapAddr(l, i)
               /\ NapConfigAddr(c, i) = ClientAddr(l, i)      \* nodeId
               /\ NapConfigAddr(c, i) = ClientDataAddr(l, i)  \* networkAddress
               /\ IcnHostAddr(c, i) = ClientAddr(l, i)

=============================================================================
