----------------------------- MODULE MnClusters -----------------------------
(***************************************************************************)
(* The mininet deployment of src/deployment/mininet/MnCluster.py, class    *)
(* MnClusters, driven by deploy.py -m as                                   *)
(*                                                                         *)
(*   MnClusters(conf) ; construct_clusters() ; write_ip_lists()            *)
(*                                                                         *)
(* construct_clusters first runs clean_clusters (one ssh attempt per       *)
(* cluster, failures ignored), then for every cluster tries up to five     *)
(* times to ssh in, start icn_mn.py in a screen with the cluster's         *)
(* management network, and advance that network by two addresses per      *)
(* client/NAP pair.  write_ip_lists then writes the addresses of every     *)
(* cluster's end points and NAPs, walking the management network from its *)
(* start whatever construct_clusters did.                                  *)
(*                                                                         *)
(* An ssh session is unreliable: the connection may be refused, or lost    *)
(* after the command was sent and before the try block ends (stderr.read, *)
(* close).  MaxFailures bounds the failures of a whole run.  A management  *)
(* network is its address offset from MANAGEMENT_NET; the data network     *)
(* moves in the same statement by the same amount and is not repeated.    *)
(***************************************************************************)
EXTENDS Integers, Sequences, FiniteSets

CONSTANTS
  Pairs,           \* number_pairs of every entry of 'clusters', in order
  ClusterOctet,    \* the last word of every entry's cluster_ip
  HasExternalNet,  \* the configuration sets EXTERNAL_NET
  SwitchType,      \* the switch_type of every entry, Unset where missing
  MaxFailures,     \* ssh failures the environment may cause in one run
  MaxAttempts,     \* the 'attempts < 6' bound of construct_clusters: 5
  HostInit         \* the states the cluster hosts may be in when deploy.py
                   \* starts (IcnMn gives them content)

Clusters == DOMAIN Pairs
NumClusters == Len(Pairs)

ASSUME NumClusters >= 1 /\ \A c \in Clusters : Pairs[c] \in Nat \ {0}
ASSUME DOMAIN ClusterOctet = Clusters /\ DOMAIN SwitchType = Clusters

\* An optional field the entry leaves out.
Unset == "unset"

\* write_ip_lists names a cluster's two files 'nap-<label>' and
\* 'endpoint-<label>', label = ip_to_label(cluster_ip, words=[3]).
Files == {ClusterOctet[c] : c \in Clusters}

VARIABLES
  phase,     \* "clean", "construct", "iplists" or "done"
  ci,        \* the cluster the current loop is at
  attempts,  \* construct_clusters' attempt counter for cluster ci
  mgmt,      \* cluster_management_net: offset of its first address
  running,   \* mininet instances running on every cluster host
  launched,  \* the management offsets every cluster was launched with
  failed,    \* ssh attempts of construct_clusters that failed, per cluster
  failures,  \* ssh failures so far in the run
  iplists,   \* for every file label, the cluster whose lists the files
             \* hold, 0 while not written
  hosts      \* what runs on the cluster hosts, beyond the count 'running':
             \* the deployment's own steps leave it alone

vars == <<phase, ci, attempts, mgmt, running, launched, failed, failures, iplists, hosts>>

-----------------------------------------------------------------------------
\* 'IPAddress(int(cluster_management_net.ip) + (cluster.number_pairs * 2))'
NextManagementNet(m, c) == m + Pairs[c] * 2

\* MnCluster.__init__ logs 'default to OVS' for a missing switch_type but
\* sets no attribute.
SwitchTypeSet(c) == SwitchType[c] # Unset

\* The command string formats self.external_net and cluster.switch_type;
\* either attribute missing raises AttributeError inside the try block.
CommandBuilds == HasExternalNet /\ SwitchTypeSet(ci)

\* Mutations of GivenUp: 'attempts < 2', 'attempts < 7' as the loop condition.
GivenUpFirst(a) == a >= 2
GivenUpLate(a) == a > MaxAttempts + 1

\* 'while not successful_connection and attempts < 6' has ended.
GivenUp(a) == a > MaxAttempts

CanFail == failures < MaxFailures

\* The loop moves to the next cluster, or past the last one.
NextCluster ==
  IF ci < NumClusters
  THEN /\ ci' = ci + 1
       /\ attempts' = 1
       /\ UNCHANGED phase
  ELSE /\ phase' = "iplists"
       /\ UNCHANGED <<ci, attempts>>

-----------------------------------------------------------------------------
(***************************************************************************)
(* clean_clusters, one step per cluster.                                   *)
(***************************************************************************)
CleanStep(ok) ==
  LET done == ci = NumClusters
  IN  /\ phase = "clean"
      /\ ok \/ CanFail
      /\ running' = IF ok THEN [running EXCEPT ![ci] = 0] ELSE running
      /\ failures' = IF ok THEN failures ELSE failures + 1
      /\ phase' = IF done THEN "construct" ELSE "clean"
      /\ ci' = IF done THEN 1 ELSE ci + 1
      /\ attempts' = 1
      /\ UNCHANGED <<mgmt, launched, failed, iplists, hosts>>

(***************************************************************************)
(* construct_clusters, one step per attempt.                               *)
(***************************************************************************)
\* remote_host.connect raises: attempts += 1.
ConnectRefused ==
  /\ phase = "construct"
  /\ ~GivenUp(attempts)
  /\ CanFail
  /\ attempts' = attempts + 1
  /\ failed' = [failed EXCEPT ![ci] = @ + 1]
  /\ failures' = failures + 1
  /\ UNCHANGED <<phase, ci, mgmt, running, launched, iplists, hosts>>

\* Connected, but building the command raises: attempts += 1.
CommandFails ==
  /\ phase = "construct"
  /\ ~GivenUp(attempts)
  /\ ~CommandBuilds
  /\ attempts' = attempts + 1
  /\ UNCHANGED <<phase, ci, mgmt, running, launched, failed, failures, iplists, hosts>>

\* A mutation of LostAfterLaunch: the networks advanced before the point
\* where the session is lost, so a retry advances them again.
LostAfterLaunchAdvancing ==
  /\ phase = "construct"
  /\ ~GivenUp(attempts)
  /\ CommandBuilds
  /\ CanFail
  /\ running' = [running EXCEPT ![ci] = @ + 1]
  /\ launched' = [launched EXCEPT ![ci] = @ \cup {mgmt}]
  /\ mgmt' = NextManagementNet(mgmt, ci)
  /\ attempts' = attempts + 1
  /\ failed' = [failed EXCEPT ![ci] = @ + 1]
  /\ failures' = failures + 1
  /\ UNCHANGED <<phase, ci, iplists, hosts>>

\* exec_command started mininet, then the session was lost before
\* successful_connection was set: attempts += 1 and the loop tries again.
LostAfterLaunch ==
  /\ phase = "construct"
  /\ ~GivenUp(attempts)
  /\ CommandBuilds
  /\ CanFail
  /\ running' = [running EXCEPT ![ci] = @ + 1]
  /\ launched' = [launched EXCEPT ![ci] = @ \cup {mgmt}]
  /\ attempts' = attempts + 1
  /\ failed' = [failed EXCEPT ![ci] = @ + 1]
  /\ failures' = failures + 1
  /\ UNCHANGED <<phase, ci, mgmt, iplists, hosts>>

\* The whole try block ran: mininet started on host ci, which moves to
\* 'started', the networks advanced.
LaunchStarting(started) ==
  /\ phase = "construct"
  /\ ~GivenUp(attempts)
  /\ CommandBuilds
  /\ running' = [running EXCEPT ![ci] = @ + 1]
  /\ launched' = [launched EXCEPT ![ci] = @ \cup {mgmt}]
  /\ mgmt' = NextManagementNet(mgmt, ci)
  /\ NextCluster
  /\ hosts' = started
  /\ UNCHANGED <<failed, failures, iplists>>

Launch == LaunchStarting(hosts)

\* Five attempts failed: the cluster is skipped, the networks not advanced.
GiveUp ==
  /\ phase = "construct"
  /\ GivenUp(attempts)
  /\ NextCluster
  /\ UNCHANGED <<mgmt, running, launched, failed, failures, iplists, hosts>>

(***************************************************************************)
(* write_ip_lists: end point 2k and NAP 2k+1 of every cluster, the         *)
(* management address carried on from cluster to cluster.  The files are  *)
(* opened with "w", so of two clusters with one label the later one's      *)
(* lists are what remains.                                                 *)
(***************************************************************************)
\* The address write_ip_lists is at when it reaches cluster c: each pair
\* writes the end point, steps by one, writes the NAP, steps by one.
RECURSIVE IpListStart(_)
IpListStart(c) == IF c = 1 THEN 0 ELSE IpListStart(c - 1) + Pairs[c - 1] * (1 + 1)

WriteIpLists ==
  /\ phase = "iplists"
  /\ iplists' = [o \in Files |->
                  CHOOSE c \in Clusters :
                    /\ ClusterOctet[c] = o
                    /\ \A d \in Clusters : ClusterOctet[d] = o => d <= c]
  /\ phase' = "done"
  /\ UNCHANGED <<ci, attempts, mgmt, running, launched, failed, failures, hosts>>

-----------------------------------------------------------------------------
\* A previous deployment may still be running on any cluster host.
Init ==
  /\ phase = "clean"
  /\ ci = 1
  /\ attempts = 1
  /\ mgmt = 0
  /\ running \in [Clusters -> {0, 1}]
  /\ launched = [c \in Clusters |-> {}]
  /\ failed = [c \in Clusters |-> 0]
  /\ failures = 0
  /\ iplists = [o \in Files |-> 0]
  /\ hosts \in HostInit

Terminated ==
  /\ phase = "done"
  /\ UNCHANGED vars

Next ==
  \/ CleanStep(TRUE)
  \/ CleanStep(FALSE)
  \/ ConnectRefused
  \/ CommandFails
  \/ LostAfterLaunch
  \/ Launch
  \/ GiveUp
  \/ WriteIpLists
  \/ Terminated

Spec == Init /\ [][Next]_vars

-----------------------------------------------------------------------------
(***************************************************************************)
(* Properties.                                                             *)
(***************************************************************************)
TypeOK ==
  /\ phase \in {"clean", "construct", "iplists", "done"}
  /\ ci \in Clusters
  /\ attempts \in 1..MaxAttempts + 1
  /\ mgmt \in 0..IpListStart(NumClusters) + Pairs[NumClusters] * 2
  /\ running \in [Clusters -> Nat]
  /\ failed \in [Clusters -> 0..MaxAttempts]
  /\ failures \in 0..MaxFailures
  /\ iplists \in [Files -> {0} \cup Clusters]

\* construct_clusters leaves a cluster without a running mininet only when
\* five ssh attempts to its host have failed.
DeployedUnlessUnreachable ==
  phase = "done" => \A c \in Clusters : running[c] >= 1 \/ failed[c] >= MaxAttempts

\* No cluster host ends up running two mininet instances at once: clean
\* and construct never leave an old instance beside a new one, and a retry
\* does not start a second one.
AtMostOneMininet ==
  \A c \in Clusters : running[c] <= 1

=============================================================================
