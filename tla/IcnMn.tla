-------------------------------- MODULE IcnMn --------------------------------
(***************************************************************************)
(* The mininet network on a cluster host, src/deployment/mininet/icn_mn.py, *)
(* composed with the deployment that starts it (MnClusters, deploy.py -m). *)
(*                                                                         *)
(* construct_clusters starts 'icn_mn.py -s <switch_type> --mi <if> --di    *)
(* <if> ...' in a detached screen and moves on; the process then runs on   *)
(* its own: it builds the DAG topology (switch s1, and s2 when the data    *)
(* interface differs from the management one), takes the IP address off   *)
(* the management interface and bridges that interface to s1, bridges the *)
(* data interface to s2, starts the network and gives the management       *)
(* address to s1, serves the CLI until it is told to exit, stops the       *)
(* network and gives the addresses back to the interfaces.                 *)
(*                                                                         *)
(* A host may still run the icn_mn of a previous deployment: clean_clusters *)
(* only types 'exit' into its screen and moves on, so the old process      *)
(* stops while the new one starts, and both work on the host's interfaces. *)
(* The host is the environment: which interfaces it has, whether they     *)
(* carry an address, and whether an old icn_mn serves its CLI when deploy  *)
(* starts (MnClusters' HostInit).  ssh is taken to be reliable here        *)
(* (MaxFailures = 0): the retries and their consequences are the subject  *)
(* of MnClusters' own runs, and without them a host runs one icn_mn at a   *)
(* time.  The pairs' addresses (Testbed), routes, ovs port settings and   *)
(* the CLI's commands are not modelled.                                    *)
(***************************************************************************)
EXTENDS MnClusters

CONSTANTS
  ManagementIf,  \* management_if of every cluster entry, Unset if missing
  DataIf,        \* data_if of every cluster entry, Unset if missing
  HostIfaces     \* the network interfaces every cluster host has

ASSUME MaxFailures = 0
ASSUME \A c \in Clusters : ManagementIf[c] # Unset \/ DataIf[c] # Unset

(***************************************************************************)
(* hosts[c], the host side of cluster c: the icn_mn process of the         *)
(* previous deployment and the one this deployment starts (p), and the     *)
(* host's interfaces, which both share: where the management address is    *)
(* ("mi", "s1" or "none"), whether the data interface has its address      *)
(* ("di" or "none"), and env, whether they carried an address before any   *)
(* icn_mn ran.  A process is its position, the switches DAGTopo built, the *)
(* (interface, switch) bridges, and whether checkIntf found an address on  *)
(* the management and data interfaces.                                     *)
(***************************************************************************)
Gens == {"prev", "new"}
Switches == {"s1", "s2"}
Ifaces == UNION {HostIfaces[c] : c \in Clusters}
Pcs == {"idle", "build", "bridge_mgmt", "bridge_data", "start", "cli",
        "stopping", "done", "exited"}
Quiet == {"idle", "done", "exited"}

-----------------------------------------------------------------------------
(***************************************************************************)
(* The interfaces construct_clusters passes, after MnCluster.__init__'s    *)
(* fallbacks: a missing management_if is the data_if, a missing data_if    *)
(* the management_if.  parse_required's own fallbacks never apply, since   *)
(* both options are always given.                                          *)
(***************************************************************************)
MgmtIfOf(c) == IF ManagementIf[c] # Unset THEN ManagementIf[c] ELSE DataIf[c]
DataIfOf(c) == IF DataIf[c] # Unset THEN DataIf[c] ELSE ManagementIf[c]

\* DAGTopo: s1, and s2 if '--di' != '--mi'.
TopoSwitches(c) == {"s1"} \cup (IF DataIfOf(c) # MgmtIfOf(c) THEN {"s2"} ELSE {})

\* The switch the NAPs' ICN links go to: DAGTopo links every NAP to s2 when
\* there is one; otherwise the NAPs' only switch is s1.
IcnSwitch(c, g) == IF "s2" \in hosts[c].p[g].switches THEN "s2" ELSE "s1"

\* checkIntf: 'ip link show' lists the interface, or checkIntf exit(1)s.
IntfExists(c, i) == i \in HostIfaces[c]

Step(c, g, from, to) ==
  /\ hosts[c].p[g].pc = from
  /\ hosts' = [hosts EXCEPT ![c].p[g].pc = to]

DeployVars == <<phase, ci, attempts, mgmt, launched, failed, failures, iplists>>

\* clean_clusters with ssh reliable: cmd_exit types 'exit' into the 'mnet'
\* screen and the loop moves on at once; an old CLI returns, and nothing
\* waits for its mininet to stop.
CleanExit ==
  /\ phase = "clean"
  /\ hosts' = [hosts EXCEPT ![ci].p["prev"].pc = IF @ = "cli" THEN "stopping" ELSE @]
  /\ phase' = IF ci = NumClusters THEN "construct" ELSE "clean"
  /\ ci' = IF ci = NumClusters THEN 1 ELSE ci + 1
  /\ attempts' = 1
  /\ UNCHANGED <<mgmt, running, launched, failed, failures, iplists>>

\* construct_clusters' try block: the screen is started, then the networks
\* advance (MnClusters' Launch).
LaunchIcnMn == LaunchStarting([hosts EXCEPT ![ci].p["new"].pc = "build"])

\* main, parse_required and start_network up to Mininet(topo, controller).
BuildNetwork(c, g) ==
  /\ hosts[c].p[g].pc = "build"
  /\ hosts' = [hosts EXCEPT ![c].p[g].pc = "bridge_mgmt",
                            ![c].p[g].switches = TopoSwitches(c)]
  /\ UNCHANGED <<DeployVars, running>>

\* A mutation of BridgeManagement: checkIntf waits for a missing interface
\* to appear instead of exiting.
BridgeManagementWaiting(c, g) ==
  /\ hosts[c].p[g].pc = "bridge_mgmt"
  /\ IF ~IntfExists(c, MgmtIfOf(c))
     THEN UNCHANGED <<hosts, running>>
     ELSE /\ hosts' = [hosts EXCEPT ![c].p[g].pc = "bridge_data",
                                    ![c].p[g].mgmtIp = (hosts[c].addr = "mi"),
                                    ![c].p[g].bridged = @ \cup {<<MgmtIfOf(c), "s1">>},
                                    ![c].addr = IF @ = "mi" THEN "none" ELSE @]
          /\ UNCHANGED running
  /\ UNCHANGED DeployVars

\* checkIntf(management_if) exits if the interface does not exist, else
\* returns the address the interface has, if any; only a found address is
\* removed ('ifconfig <mi> 0.0.0.0'), and the interface is bridged to s1.
BridgeManagement(c, g) ==
  /\ hosts[c].p[g].pc = "bridge_mgmt"
  /\ IF ~IntfExists(c, MgmtIfOf(c))
     THEN /\ Step(c, g, "bridge_mgmt", "exited")
          /\ running' = [running EXCEPT ![c] = @ - 1]
     ELSE /\ hosts' = [hosts EXCEPT ![c].p[g].pc = "bridge_data",
                                    ![c].p[g].mgmtIp = (hosts[c].addr = "mi"),
                                    ![c].p[g].bridged = @ \cup {<<MgmtIfOf(c), "s1">>},
                                    ![c].addr = IF @ = "mi" THEN "none" ELSE @]
          /\ UNCHANGED running
  /\ UNCHANGED DeployVars

\* A mutation of BridgeData: the data interface bridged to net.switches[0].
BridgeDataFirstSwitch(c, g) ==
  /\ hosts[c].p[g].pc = "bridge_data"
  /\ IF "s2" \in hosts[c].p[g].switches /\ IntfExists(c, DataIfOf(c))
     THEN hosts' = [hosts EXCEPT ![c].p[g].pc = "start",
                                 ![c].p[g].dataIp = (hosts[c].daddr = "di"),
                                 ![c].p[g].bridged = @ \cup {<<DataIfOf(c), "s1">>},
                                 ![c].daddr = "none"]
     ELSE Step(c, g, "bridge_data", "start")
  /\ UNCHANGED <<DeployVars, running>>

\* 'data_sw = net.switches[1]' raises IndexError without s2, and
\* checkIntf(data_if) exit(1)s for a missing interface; the bare 'except:'
\* catches both (SystemExit included) and the network goes on without a
\* bridged data interface.
BridgeData(c, g) ==
  /\ hosts[c].p[g].pc = "bridge_data"
  /\ IF "s2" \in hosts[c].p[g].switches /\ IntfExists(c, DataIfOf(c))
     THEN hosts' = [hosts EXCEPT ![c].p[g].pc = "start",
                                 ![c].p[g].dataIp = (hosts[c].daddr = "di"),
                                 ![c].p[g].bridged = @ \cup {<<DataIfOf(c), "s2">>},
                                 ![c].daddr = "none"]
     ELSE Step(c, g, "bridge_data", "start")
  /\ UNCHANGED <<DeployVars, running>>

\* A mutation of StartNetwork: the management address is not given to s1.
StartNetworkNoS1Address(c, g) ==
  /\ Step(c, g, "start", "cli")
  /\ UNCHANGED <<DeployVars, running>>

\* ovs port settings, host addresses and routes, net.start(), then
\* 'ifconfig s1 <management_if_ip>' if checkIntf had found one.
StartNetwork(c, g) ==
  /\ hosts[c].p[g].pc = "start"
  /\ hosts' = [hosts EXCEPT ![c].p[g].pc = "cli",
                            ![c].addr = IF hosts[c].p[g].mgmtIp THEN "s1" ELSE @]
  /\ UNCHANGED <<DeployVars, running>>

\* The CLI returns: someone typed 'exit' into the screen.
CliExit(c, g) ==
  /\ Step(c, g, "cli", "stopping")
  /\ UNCHANGED <<DeployVars, running>>

\* net.stop() deletes the switches, s1 and with it an address on s1 (the
\* switch names are the same in every deployment); then the saved
\* addresses go back to the interfaces, the data one inside a bare try.
StopNetwork(c, g) ==
  /\ hosts[c].p[g].pc = "stopping"
  /\ LET q == hosts[c].p[g]
         stripped == IF hosts[c].addr = "s1" THEN "none" ELSE hosts[c].addr
     IN  hosts' = [hosts EXCEPT ![c].p[g].pc = "done", ![c].p[g].switches = {},
                                ![c].p[g].bridged = {},
                                ![c].addr = IF q.mgmtIp THEN "mi" ELSE stripped,
                                ![c].daddr = IF q.dataIp THEN "di" ELSE @]
  /\ running' = [running EXCEPT ![c] = @ - 1]
  /\ UNCHANGED DeployVars

-----------------------------------------------------------------------------
Idle == [pc |-> "idle", switches |-> {}, bridged |-> {}, mgmtIp |-> FALSE, dataIp |-> FALSE]

\* The processes of host c with no previous deployment, or with its icn_mn
\* serving the CLI after the steps above.
Previous(c, e, old) ==
  IF ~old THEN [g \in Gens |-> Idle]
  ELSE [g \in Gens |-> IF g = "new" THEN Idle ELSE
          [pc |-> "cli", switches |-> TopoSwitches(c), mgmtIp |-> e.mgmt, dataIp |-> e.data,
           bridged |-> {<<MgmtIfOf(c), "s1">>} \cup
              (IF "s2" \in TopoSwitches(c) /\ IntfExists(c, DataIfOf(c))
               THEN {<<DataIfOf(c), "s2">>} ELSE {})]]

Host(c, e, old) ==
  [p |-> Previous(c, e, old), env |-> e,
   addr |-> IF ~e.mgmt THEN "none" ELSE IF old THEN "s1" ELSE "mi",
   daddr |-> IF e.data /\ ~(old /\ <<DataIfOf(c), "s2">> \in Previous(c, e, old)["prev"].bridged)
             THEN "di" ELSE "none"]

\* Interface addresses: a data interface that is the management interface
\* has the management interface's address.
Envs == {e \in [Clusters -> [mgmt : BOOLEAN, data : BOOLEAN]] :
           \A c \in Clusters : e[c].data => DataIfOf(c) # MgmtIfOf(c)}

\* The cluster hosts run no icn_mn when deploy.py starts.
IdleHosts == {[c \in Clusters |-> Host(c, e[c], FALSE)] : e \in Envs}

\* A host whose management interface exists may still run the icn_mn of a
\* previous deployment.
PreviousHosts ==
  {[c \in Clusters |-> Host(c, e[c], old[c])] :
     e \in Envs, old \in {o \in [Clusters -> BOOLEAN] :
                            \A c \in Clusters : o[c] => IntfExists(c, MgmtIfOf(c))}}

DeployInit ==
  /\ Init
  /\ running = [c \in Clusters |-> IF hosts[c].p["prev"].pc = "cli" THEN 1 ELSE 0]

DeployTerminated ==
  /\ phase = "done"
  /\ \A c \in Clusters, g \in Gens : hosts[c].p[g].pc \in Quiet
  /\ UNCHANGED vars

\* MnClusters' Next with clean's exit and the launch that start and stop
\* icn_mn; with MaxFailures = 0 the failing ssh steps are disabled.
DeployNext ==
  \/ CleanExit
  \/ ConnectRefused
  \/ CommandFails
  \/ LostAfterLaunch
  \/ GiveUp
  \/ WriteIpLists
  \/ LaunchIcnMn
  \/ \E c \in Clusters, g \in Gens :
       \/ BuildNetwork(c, g) \/ BridgeManagement(c, g) \/ BridgeData(c, g)
       \/ StartNetwork(c, g) \/ CliExit(c, g) \/ StopNetwork(c, g)
  \/ DeployTerminated

(***************************************************************************)
(* deploy.py runs its loops to the end, and icn_mn runs unattended up to   *)
(* its CLI and from the CLI's return to its end: their steps are weakly    *)
(* fair.  The CLI's return waits for someone to type 'exit' and is not.    *)
(***************************************************************************)
Fairness ==
  /\ WF_vars(CleanExit \/ CommandFails \/ GiveUp \/ WriteIpLists \/ LaunchIcnMn)
  /\ \A c \in Clusters, g \in Gens :
       WF_vars(BuildNetwork(c, g) \/ BridgeManagement(c, g) \/ BridgeData(c, g)
                 \/ StartNetwork(c, g) \/ StopNetwork(c, g))

DeploySpec == DeployInit /\ [][DeployNext]_vars

FairDeploySpec == DeploySpec /\ Fairness

-----------------------------------------------------------------------------
(***************************************************************************)
(* Properties.                                                             *)
(***************************************************************************)
Proc == [pc : Pcs, switches : SUBSET Switches, bridged : SUBSET (Ifaces \X Switches),
         mgmtIp : BOOLEAN, dataIp : BOOLEAN]

DeployTypeOK ==
  /\ TypeOK
  /\ hosts \in [Clusters -> [p : [Gens -> Proc], env : [mgmt : BOOLEAN, data : BOOLEAN],
                             addr : {"mi", "s1", "none"}, daddr : {"di", "none"}]]

\* While a cluster's mininet serves its CLI, the switch its NAPs send ICN
\* traffic to is bridged to the cluster's data interface: through s2 when
\* management_if and data_if differ, through s1 when they are one.
NapsReachDataInterface ==
  \A c \in Clusters, g \in Gens :
    hosts[c].p[g].pc = "cli" => <<DataIfOf(c), IcnSwitch(c, g)>> \in hosts[c].p[g].bridged

\* A host whose management interface had an address keeps it reachable:
\* on s1 while an icn_mn serves the CLI, and back on the interface once
\* every icn_mn has stopped or exited; the data interface gets its address
\* back too.
ManagementAddressKept ==
  \A c \in Clusters : LET h == hosts[c] IN
    /\ \A g \in Gens : h.env.mgmt /\ h.p[g].pc = "cli" => h.addr = "s1"
    /\ (\A g \in Gens : h.p[g].pc \in Quiet) =>
         /\ h.env.mgmt => h.addr = "mi"
         /\ h.env.data => h.daddr = "di"

\* Every icn_mn deploy.py starts, or whose CLI returns, comes to rest: it
\* reaches its CLI, or exits in checkIntf, or, once its CLI has returned,
\* stops and gives the host its addresses back.
IcnMnSettles ==
  \A c \in Clusters, g \in Gens :
    hosts[c].p[g].pc \notin Quiet \cup {"cli"} ~> hosts[c].p[g].pc \in Quiet \cup {"cli"}

=============================================================================
