------------------------------ MODULE ICNetwork ------------------------------
(***************************************************************************)
(* The ICN topology generator of src/deployment/mininet/ICN.py: class     *)
(* ICNetwork, driven by deploy.py -i as                                    *)
(*                                                                         *)
(*   ICNetwork(conf) ; update_clusters() ; merge_clusters_to_network() ;   *)
(*   write_network_config()                                                *)
(*                                                                         *)
(* The constructor copies the shared node template (cluster_topology) into *)
(* one fragment per cluster and gives each fragment a start address.       *)
(* update_clusters relabels the nodes of every fragment but the first, one *)
(* loop iteration per step, and rewrites the reverse references of their   *)
(* neighbours.  merge_clusters_to_network collapses same-label nodes of    *)
(* different fragments, one iteration of its innermost loop per step, with *)
(* the Python list iterator modelled as an index that deletion does not    *)
(* move.  write_network_config renders the merged graph as the token       *)
(* stream of mn_icn.cfg.                                                   *)
(*                                                                         *)
(* Addresses are pairs <<net, lo>>: lo holds the two low octets (words 2   *)
(* and 3 of netaddr), the only ones ip_to_label reads and the only ones a  *)
(* cursor of a /16 or smaller block moves.  A label, the zero-padded       *)
(* 8-character string, is represented by the number it spells: for the at *)
(* most 6 digits two IPv4 words produce, two padded labels are equal iff   *)
(* those numbers are.                                                      *)
(***************************************************************************)
EXTENDS Integers, Sequences, FiniteSets, SequencesExt

CONSTANTS
  Topologies,     \* the candidate 'cluster_topology' template lists
  ClusterIPs,     \* the 'cluster_ip' of every entry of 'clusters', in order
  ManagementNet,  \* IPNetwork(MANAGEMENT_NET).ip, the first start_ip
  NoPort          \* model value: the connection has no src_pt / dst_pt

\* Node kinds, after the platform / operating_system tests of the code.
Host     == "host"      \* platform 'mininet', os Linux or Darwin
MnSwitch == "mnswitch"  \* platform 'mininet', os 'ovs'
SdnPhys  == "sdnphys"   \* platform other than 'mininet', os 'ovs'
Other    == "other"     \* anything else: left untouched by update_clusters
Kinds == {Host, MnSwitch, SdnPhys, Other}

NumClusters == Len(ClusterIPs)

ASSUME NumClusters >= 1
ASSUME \A t \in Topologies : Len(t) >= 1

VARIABLES
  phase,     \* "load", "update", "merge", "write", "done" or "crashed"
  topology,  \* the template list read from the configuration file
  clusters,  \* self.clusters: one ICNCluster record per cluster
  ucur,      \* update_clusters loop state: cluster i, node n, cursor ip
  mpos,      \* merge loop state <<i, n, j, k>>: the four nested iterators
  out        \* the tokens written to mn_icn.cfg

vars == <<phase, topology, clusters, ucur, mpos, out>>

-----------------------------------------------------------------------------
(***************************************************************************)
(* AddressPlanner: ip_to_label and address arithmetic.                     *)
(***************************************************************************)
AddrPlus(a, k) == <<a[1], a[2] + k>>

\* ip.words[w] for the two low words.
Word(a, w) == IF w = 2 THEN a[2] \div 256 ELSE a[2] % 256

RECURSIVE NumDigits(_)
NumDigits(x) == IF x < 10 THEN 1 ELSE 1 + NumDigits(x \div 10)

\* The number spelt by the decimal text of a followed by that of b.
Concat(a, b) == a * 10^NumDigits(b) + b

\* ip_to_label(ip, words): the decimal words concatenated and zero-padded.
ip_to_label(a, words) ==
  FoldLeft(LAMBDA acc, w : Concat(acc, Word(a, w)), 0, words)

-----------------------------------------------------------------------------
(***************************************************************************)
(* ICNetwork.__init__: one fragment per cluster, each a fresh copy of the  *)
(* template whose connections take the node's label as from_node; the      *)
(* start_ip advances by two addresses per mininet host of the template.    *)
(***************************************************************************)
\* tid (the template entry) and, on a connection, home (the cluster of the
\* copy that owns it) and peer (the template entry it was declared towards)
\* are model-only: they name the Python objects, the code never reads them.
NewNode(t, k, c) ==
  [tid   |-> k,
   kind  |-> t[k].kind,
   label |-> t[k].label,
   ip    |-> t[k].ip,
   conns |-> [m \in DOMAIN t[k].conns |-> [t[k].conns[m] EXCEPT !.from = t[k].label, !.home = c]]]

HostCount(t) == Cardinality({k \in DOMAIN t : t[k].kind = Host})

NewCluster(t, c) ==
  [clusterIp |-> ClusterIPs[c],
   startIp   |-> AddrPlus(ManagementNet, (c - 1) * HostCount(t) * 2),
   hosts     |-> HostCount(t),
   nodes     |-> [k \in DOMAIN t |-> NewNode(t, k, c)]]

\* The position of the four nested merge iterators, moved past the ends of
\* the lists they have exhausted.
RECURSIVE MergeNorm(_, _)
MergeNorm(p, cl) ==
  LET i == p[1]  n == p[2]  j == p[3]  k == p[4]
  IN  CASE i > Len(cl)             -> p
        [] n > Len(cl[i].nodes)    -> MergeNorm(<<i + 1, 1, 1, 1>>, cl)
        [] j > Len(cl)             -> MergeNorm(<<i, n + 1, 1, 1>>, cl)
        [] k > Len(cl[j].nodes)    -> MergeNorm(<<i, n, j + 1, 1>>, cl)
        [] OTHER                   -> p

\* The update loop starts at the second cluster, at its start_ip.
UpdateStart(cl, i) ==
  [i |-> i, n |-> 1, ip |-> IF i <= Len(cl) THEN cl[i].startIp ELSE ManagementNet]

Load ==
  /\ phase = "load"
  /\ clusters' = [c \in 1..NumClusters |-> NewCluster(topology, c)]
  /\ ucur' = UpdateStart(clusters', 2)
  /\ phase' = IF NumClusters >= 2 THEN "update" ELSE "merge"
  /\ mpos' = MergeNorm(<<1, 1, 1, 1>>, clusters')
  /\ UNCHANGED <<topology, out>>

-----------------------------------------------------------------------------
(***************************************************************************)
(* update_clusters: one step per iteration of 'for node in nodes'.         *)
(***************************************************************************)
\* A mutation of SdnSrcPort: the 1-based cluster index used as the offset.
SdnSrcPortOffByOne(node, i) == node.conns[1].srcPt + i

\* The port of a physical SDN node in cluster i (Python index i - 1).
SdnSrcPort(node, i) == node.conns[1].srcPt + (i - 1)

NewIp(node, cl, ip) ==
  CASE node.kind = Host     -> ip
    [] node.kind = MnSwitch -> cl.clusterIp
    [] OTHER                -> node.ip

NewLabel(node, cl, ip) ==
  CASE node.kind = Host     -> ip_to_label(ip, <<2, 3>>)
    [] node.kind = MnSwitch -> ip_to_label(cl.clusterIp, <<3>>)
    [] OTHER                -> node.label

\* A mutation of FixAdjacent: reverse references renamed, dst_pt not set.
FixAdjacentNoPort(adj, old, new, toNodes, sdn, pt) ==
  LET Rename(c) == IF c.to = old THEN [c EXCEPT !.to = new] ELSE c
  IN  IF adj.label \in toNodes
      THEN [adj EXCEPT !.conns = [m \in DOMAIN @ |-> Rename(@[m])]]
      ELSE adj

\* A mutation of FixAdjacent: the reverse-reference pass left out.
FixAdjacentNone(adj, old, new, toNodes, sdn, pt) == adj

\* 'for adj_node in nodes': a neighbour whose current label is among the
\* node's to_nodes has its references to the node's old label renamed, and
\* takes the node's port as dst_pt when the node is a physical SDN node.
FixAdjacent(adj, old, new, toNodes, sdn, pt) ==
  LET Rename(c) ==
        IF c.to = old
        THEN [c EXCEPT !.to = new, !.dstPt = IF sdn THEN pt ELSE @]
        ELSE c
  IN  IF adj.label \in toNodes
      THEN [adj EXCEPT !.conns = [m \in DOMAIN @ |-> Rename(@[m])]]
      ELSE adj

\* The loop body for node n of cluster i with cursor ip.
UpdatedNodes(cl, i, n, ip) ==
  LET node == cl[i].nodes[n]
      sdn  == node.kind = SdnPhys
      pt   == IF sdn THEN SdnSrcPort(node, i) ELSE NoPort
      new  == NewLabel(node, cl[i], ip)
      self == [node EXCEPT
                 !.ip    = NewIp(node, cl[i], ip),
                 !.label = new,
                 !.conns = [m \in DOMAIN @ |->
                              [@[m] EXCEPT !.from  = new,
                                           !.srcPt = IF sdn THEN pt ELSE @]]]
      toNodes == {self.conns[m].to : m \in DOMAIN self.conns}
      nodes1  == [cl[i].nodes EXCEPT ![n] = self]
  IN  [m \in DOMAIN nodes1 |->
         FixAdjacent(nodes1[m], node.label, new, toNodes, sdn, pt)]

\* int(node.connections[0].src_pt) raises on a physical SDN node without
\* connections (IndexError) or without src_pt (AttributeError).
CrashesOn(node) ==
  /\ node.kind = SdnPhys
  /\ IF Len(node.conns) = 0 THEN TRUE ELSE node.conns[1].srcPt = NoPort

UpdateNode ==
  /\ phase = "update"
  /\ LET i == ucur.i
         n == ucur.n
     IN  /\ ~CrashesOn(clusters[i].nodes[n])
         /\ clusters' = [clusters EXCEPT ![i].nodes = UpdatedNodes(clusters, i, n, ucur.ip)]
         \* 'ip = ip + 2' runs for every node, whatever its kind.
         /\ IF n < Len(clusters[i].nodes)
            THEN /\ ucur' = [ucur EXCEPT !.n = n + 1, !.ip = AddrPlus(ucur.ip, 2)]
                 /\ phase' = "update"
            ELSE /\ ucur' = UpdateStart(clusters, i + 1)
                 /\ phase' = IF i < NumClusters THEN "update" ELSE "merge"
  /\ mpos' = MergeNorm(<<1, 1, 1, 1>>, clusters')
  /\ UNCHANGED <<topology, out>>

\* The exception is not caught by update_clusters nor by deploy.main.
UpdateCrash ==
  /\ phase = "update"
  /\ CrashesOn(clusters[ucur.i].nodes[ucur.n])
  /\ phase' = "crashed"
  /\ UNCHANGED <<topology, clusters, ucur, mpos, out>>

-----------------------------------------------------------------------------
(***************************************************************************)
(* merge_clusters_to_network: one step per innermost iteration.  The four  *)
(* 'for' loops each read the current length of their list, and a list     *)
(* iterator's index moves on by one even when the element it returned was *)
(* deleted, so the element after a deleted one is never compared.         *)
(***************************************************************************)
\* A mutation of MergeMatch: the 'i != j' test dropped.
MergeMatchSameCluster(cl, i, n, j, k) ==
  cl[i].nodes[n].label = cl[j].nodes[k].label

\* 'if i != j and node.label == other_node.label'
MergeMatch(cl, i, n, j, k) ==
  i # j /\ cl[i].nodes[n].label = cl[j].nodes[k].label

\* A mutation of Absorb: the duplicate's connections taken, the copy kept.
AbsorbNoDelete(cl, i, n, j, k) ==
  [cl EXCEPT ![i].nodes[n].conns = @ \o cl[j].nodes[k].conns]

\* 'node.connections.extend(other_node.connections)' then the deletion.
Absorb(cl, i, n, j, k) ==
  LET ext == [cl EXCEPT ![i].nodes[n].conns = @ \o cl[j].nodes[k].conns]
  IN  [ext EXCEPT ![j].nodes = RemoveAt(@, k)]

MergeStep ==
  /\ phase = "merge"
  /\ mpos[1] <= NumClusters
  /\ LET i == mpos[1]  n == mpos[2]  j == mpos[3]  k == mpos[4]
         cl1 == IF MergeMatch(clusters, i, n, j, k)
                THEN Absorb(clusters, i, n, j, k)
                ELSE clusters
     IN  /\ clusters' = cl1
         /\ mpos' = MergeNorm(<<i, n, j, k + 1>>, cl1)
  /\ phase' = IF mpos'[1] > NumClusters THEN "write" ELSE "merge"
  /\ UNCHANGED <<topology, ucur, out>>


-----------------------------------------------------------------------------
(***************************************************************************)
(* write_network_config: the file as a stream of tokens, a bracket or a    *)
(* key with its value.  The global parameters, running_mode, role, name,   *)
(* promisc and the ovs-only node fields are left out: no property reads    *)
(* them and none of them writes a bracket.                                 *)
(***************************************************************************)
Tok(key, val) == [key |-> key, val |-> val]
Br(b) == Tok(b, 0)

ConnTokens(c) ==
  << Tok("to", c.to),
     IF c.srcIf THEN Tok("src_if", 0) ELSE Tok("src_pt", c.srcPt),
     IF c.dstIf THEN Tok("dst_if", 0) ELSE Tok("dst_pt", c.dstPt) >>

\* A mutation of ConnClose: 'connection_counter < number_connections' as
\* the test for a connection that is not the last.
ConnCloseOffByOne(m, cs) ==
  IF m < Len(cs) + 1 THEN <<Br("}"), Br(","), Br("{")>>
                     ELSE <<Br("}"), Br(")"), Br("}")>>

\* What follows connection m: '}, {' or, after the last, '} ); }'.
ConnClose(m, cs) ==
  IF m < Len(cs) THEN <<Br("}"), Br(","), Br("{")>>
                 ELSE <<Br("}"), Br(")"), Br("}")>>

\* A node opens '{' and 'connections = ( {' whatever its connections; only
\* the last connection closes them.
NodeTokens(nd, first) ==
  (IF first THEN <<>> ELSE <<Br(",")>>)
  \o << Br("{"), Tok("testbed_ip", nd.ip), Tok("label", nd.label),
        Tok("connections", 0), Br("("), Br("{") >>
  \o FlattenSeq([m \in DOMAIN nd.conns |->
                   ConnTokens(nd.conns[m]) \o ConnClose(m, nd.conns)])

\* The nodes of all clusters in cluster order, then node order.
AllNodes(cl) == FlattenSeq([c \in DOMAIN cl |-> cl[c].nodes])

Render(cl) ==
  LET ns == AllNodes(cl)
  IN  << Tok("network", 0), Br("{"), Tok("nodes", 0), Br("(") >>
      \o FlattenSeq([m \in DOMAIN ns |-> NodeTokens(ns[m], m = 1)])
      \o << Br(")"), Br("}") >>

Write ==
  /\ phase = "write"
  /\ out' = Render(clusters)
  /\ phase' = "done"
  /\ UNCHANGED <<topology, clusters, ucur, mpos>>

-----------------------------------------------------------------------------
Init ==
  /\ phase = "load"
  /\ topology \in Topologies
  /\ clusters = <<>>
  /\ ucur = UpdateStart(<<>>, 2)
  /\ mpos = <<1, 1, 1, 1>>
  /\ out = <<>>

\* The tool has exited, normally or on an uncaught exception.
Terminated ==
  /\ phase \in {"done", "crashed"}
  /\ UNCHANGED vars

Next ==
  \/ Load
  \/ UpdateNode
  \/ UpdateCrash
  \/ MergeStep
  \/ Write
  \/ Terminated

Spec == Init /\ [][Next]_vars

-----------------------------------------------------------------------------
(***************************************************************************)
(* Properties.                                                             *)
(***************************************************************************)
Phases == {"load", "update", "merge", "write", "done", "crashed"}

\* The ports a template declares, shifted by a Python cluster index.
TemplatePorts ==
  LET declared == UNION {{c.srcPt : c \in Range(topology[k].conns)} : k \in DOMAIN topology}
  IN  {p + d : p \in declared \ {NoPort}, d \in 0..NumClusters - 1}

Conn == [from : Nat, to : Nat, srcIf : BOOLEAN, dstIf : BOOLEAN,
         home : 1..NumClusters, peer : DOMAIN topology,
         srcPt : TemplatePorts \cup {NoPort}, dstPt : TemplatePorts \cup {NoPort}]

TypeOK ==
  /\ phase \in Phases
  /\ \A c \in DOMAIN clusters :
       /\ clusters[c].hosts \in Nat
       /\ \A m \in DOMAIN clusters[c].nodes :
            LET nd == clusters[c].nodes[m]
            IN  /\ nd.kind \in Kinds
                /\ nd.label \in 0..99999999
                /\ \A x \in DOMAIN nd.conns : nd.conns[x] \in Conn
  /\ ucur.i \in 2..NumClusters + 1
  /\ \A x \in 1..4 : mpos[x] \in 1..NumClusters + 1

\* The brackets of a token stream from position i on close in the order
\* they were opened, given the brackets still open.
RECURSIVE NestedFrom(_, _, _)
NestedFrom(s, i, open) ==
  IF i > Len(s) THEN open = <<>>
  ELSE LET b == s[i].key
       IN  CASE b \in {"{", "("} -> NestedFrom(s, i + 1, <<b>> \o open)
             [] b = "}" -> open # <<>> /\ Head(open) = "{" /\ NestedFrom(s, i + 1, Tail(open))
             [] b = ")" -> open # <<>> /\ Head(open) = "(" /\ NestedFrom(s, i + 1, Tail(open))
             [] OTHER   -> NestedFrom(s, i + 1, open)

Written(key) == {out[x].val : x \in {y \in DOMAIN out : out[y].key = key}}

\* The mn_icn.cfg that write_network_config leaves is well nested: every
\* '{' and '(' it opens for a node and its connection list is closed, in
\* order, so the downstream parser can read it.
WrittenConfigWellFormed ==
  phase = "done" => NestedFrom(out, 1, <<>>)

\* Every label is written for exactly one node: after update_clusters and
\* merge_clusters_to_network no two nodes of the file share a label.
WrittenLabelsUnique ==
  phase = "done" =>
    \A x, y \in DOMAIN out :
      x # y /\ out[x].key = "label" /\ out[y].key = "label" => out[x].val # out[y].val

\* Nodes update_clusters leaves alone: one physical node all clusters share.
Shared == {SdnPhys, Other}

\* Every connection of the merged graph names, by its 'to' label, exactly
\* one node, and that node is the copy of the template node it was declared
\* towards that lives in the connection's own cluster, or the one shared
\* copy: the reverse-reference rewrite of update_clusters leaves no stale
\* label and no link is rewired to another cluster's copy.
ConnectionsReachIntendedPeer ==
  phase = "done" =>
    \A c \in DOMAIN clusters : \A m \in DOMAIN clusters[c].nodes :
      \A cn \in Range(clusters[c].nodes[m].conns) :
        LET named == {<<c2, m2>> \in UNION {{c2} \X DOMAIN clusters[c2].nodes : c2 \in DOMAIN clusters} :
                        clusters[c2].nodes[m2].label = cn.to}
        IN  /\ Cardinality(named) = 1
            /\ \A <<c2, m2>> \in named :
                 /\ clusters[c2].nodes[m2].tid = cn.peer
                 /\ clusters[c2].nodes[m2].kind \in Shared \/ c2 = cn.home

\* A connection towards a physical SDN node carries as dst_pt the src_pt
\* that node uses on its connection back, the port update_clusters derives
\* for the cluster: both ends of the link agree on the port.
ReciprocalPorts ==
  phase = "done" =>
    LET ns == AllNodes(clusters)
    IN  \A x \in DOMAIN ns : \A c \in Range(ns[x].conns) :
          c.dstPt # NoPort =>
            \E y \in DOMAIN ns :
              /\ ns[y].label = c.to
              /\ \E d \in Range(ns[y].conns) : d.to = ns[x].label /\ d.srcPt = c.dstPt

Present(cl, c, t) == \E m \in DOMAIN cl[c].nodes : cl[c].nodes[m].tid = t
KindOf(t) == topology[t].kind

\* merge_clusters_to_network only removes a node from a cluster when it is
\* a copy of a node every cluster shares (a physical or other node that
\* update_clusters leaves alone) and a copy of it stays in another cluster;
\* it never folds a mininet host or switch into a different node whose
\* label happens to be equal.
MergeOnlySharedNode ==
  [][phase = "merge" =>
       \A c \in DOMAIN clusters : \A t \in DOMAIN topology :
         Present(clusters, c, t) /\ ~Present(clusters', c, t) =>
           /\ KindOf(t) \in Shared
           /\ \E c2 \in DOMAIN clusters' \ {c} : Present(clusters', c2, t)]_vars

\* The r-th mininet host of the template.
HostOrdinal(t) == Cardinality({k \in 1..t : topology[k].kind = Host})

\* The addresses update_clusters gives the mininet hosts of a cluster are
\* the ones the constructor reserved for it, two per host from start_ip,
\* the plan write_ip_lists and write_nap_config also follow.
HostAddressesFollowPlan ==
  phase \in {"merge", "write", "done"} =>
    \A c \in DOMAIN clusters : \A m \in DOMAIN clusters[c].nodes :
      LET nd == clusters[c].nodes[m]
      IN  nd.kind = Host =>
            nd.ip = AddrPlus(clusters[c].startIp, 2 * (HostOrdinal(nd.tid) - 1))

=============================================================================
