---------------------------- MODULE MC_ICNetwork ----------------------------
(***************************************************************************)
(* Instantiates ICNetwork for TLC.  The configuration file deploy.py -i    *)
(* reads is enumerated: every template of up to MaxNodes nodes with kinds  *)
(* from TemplateKinds and links drawn from the node pairs, written the way *)
(* the template is authored for the first cluster, which update_clusters   *)
(* leaves as it is:                                                        *)
(*   - the r-th mininet host at start_ip + 2(r-1), labelled from it;       *)
(*   - a mininet switch at the first cluster_ip, labelled from word 3;     *)
(*   - a physical or other node at its own address with a label of its own;*)
(*   - a physical SDN node's connections on port PortBase, a connection    *)
(*     towards it with dst_pt PortBase, every other end an interface.      *)
(***************************************************************************)
EXTENDS ICNetwork

CONSTANTS
  MaxNodes,           \* template size bound
  TemplateKinds,      \* node kinds a template may use
  Symmetric,          \* every link declared at both ends
  Connected,          \* every node but a physical SDN node has a connection
  NumClustersMC,      \* number of entries of 'clusters'
  FirstClusterOctet,  \* last octet of the first cluster_ip; the next +1 ...
  ManagementLo,       \* the two low octets of MANAGEMENT_NET's address
  PortBase,           \* the src_pt a physical SDN node is declared with
  MaxMnSwitches       \* mininet switches a template may declare

MCClusterIPs == [c \in 1..NumClustersMC |-> <<"cluster", FirstClusterOctet + c - 1>>]
MCManagementNet == <<"management", ManagementLo>>

AuthoredIp(kinds, k) ==
  CASE kinds[k] = Host     -> AddrPlus(MCManagementNet,
                                2 * (Cardinality({x \in 1..k : kinds[x] = Host}) - 1))
    [] kinds[k] = MnSwitch -> MCClusterIPs[1]
    [] OTHER               -> <<"physical", k>>

AuthoredLabel(kinds, k) ==
  CASE kinds[k] = Host     -> ip_to_label(AuthoredIp(kinds, k), <<2, 3>>)
    [] kinds[k] = MnSwitch -> ip_to_label(MCClusterIPs[1], <<3>>)
    [] OTHER               -> 90000000 + k

AuthoredConn(kinds, k, b) ==
  [from  |-> AuthoredLabel(kinds, k),
   to    |-> AuthoredLabel(kinds, b),
   home  |-> 1,
   peer  |-> b,
   srcIf |-> kinds[k] # SdnPhys,
   srcPt |-> IF kinds[k] = SdnPhys THEN PortBase ELSE NoPort,
   dstIf |-> kinds[b] # SdnPhys,
   dstPt |-> IF kinds[b] = SdnPhys THEN PortBase ELSE NoPort]

AuthoredTemplate(kinds, links) ==
  [k \in DOMAIN kinds |->
     LET targets == SetToSortSeq({b \in DOMAIN kinds : <<k, b>> \in links}, <)
     IN  [kind  |-> kinds[k],
          label |-> AuthoredLabel(kinds, k),
          ip    |-> AuthoredIp(kinds, k),
          conns |-> [m \in DOMAIN targets |-> AuthoredConn(kinds, k, targets[m])]]]

Links(n) ==
  {l \in SUBSET {e \in (1..n) \X (1..n) : e[1] # e[2]} :
     Symmetric => \A e \in l : <<e[2], e[1]>> \in l}

\* A physical SDN node may be declared without connections: update_clusters
\* then raises on it (UpdateCrash).
Covered(kinds, links) ==
  \A a \in DOMAIN kinds : kinds[a] # SdnPhys => \E e \in links : e[1] = a

Kindings(n) ==
  {kinds \in [1..n -> TemplateKinds] :
     Cardinality({k \in 1..n : kinds[k] = MnSwitch}) <= MaxMnSwitches}

MCTopologies ==
  UNION {{AuthoredTemplate(p[1], p[2]) :
            p \in {q \in Kindings(n) \X Links(n) : Connected => Covered(q[1], q[2])}} :
           n \in 1..MaxNodes}

=============================================================================
