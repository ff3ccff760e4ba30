# TLA+ models of the POINT mininet deployment tool

These modules model `src/deployment/mininet/`, the tool that sets up an emulated
ICN (Blackadder) testbed across several mininet cluster hosts. `deploy.py`
runs up to four independent jobs, one for each command-line flag:

| flag | job | source | module |
|---|---|---|---|
| `-c` | `MnClusters.clean_clusters`: stop mininet on every cluster host over ssh | `MnCluster.py` | `MnClusters` (`CleanStep`) |
| `-m` | `construct_clusters` (clean, then start `icn_mn.py` in a screen on every host, with retries), then `write_ip_lists` | `MnCluster.py` | `MnClusters` |
| `-i` | `ICNetwork`: copy a one-cluster ICN template (`cluster_topology`) for every cluster, re-address and relabel the copies (`update_clusters`), merge nodes the clusters share (`merge_clusters_to_network`), and write `mn_icn.cfg` (`write_network_config`) | `ICN.py` | `ICNetwork` |
| `-n` | write one NAP config and one HTTP proxy config per cluster and NAP, and deliver each over ssh/sftp (`sftp_conf`, `rsa_auth`) | `IPoverICN.py` | `IPoverICN`, refining `Delivery` |

The jobs do not talk to each other at run time. They agree only through the
configuration: each one recomputes the same address plan from
`MANAGEMENT_NET`. Cluster c's block starts where cluster c-1's block ends, and
every client/NAP pair takes two addresses. The plan lives in three places:
- `ICN.py:182` sizes a block from the template's hosts;
- `MnCluster.py:155` sizes it from `number_pairs`;
- `IPoverICN.py:115` sizes it from `NUMBER_NAPS`.

The mininet topology itself (`icn_mn.py`, `DAGTopo` and `start_network`) runs
on the cluster host. It puts client i at the address `construct_clusters` passes,
plus 2(i-1), and NAP i at the next address. It does the same on the data network.
The `Testbed` module composes the four plans. The `IcnMn` module models the
`icn_mn.py` process itself, composed with the `-m` job that starts it.

The deployment is single-threaded. What is hard to test is:
- iteration that mutates the list it walks;
- relabelling order;
- the ssh environment: refused connections, sessions lost after the command ran, retries, and exceptions that abort a step halfway;
- keeping the address plan consistent between the pieces.

## Modules

### `ICNetwork` (with `MC_ICNetwork`)

**State**
- `phase`: load, update, merge, write, then done or crashed.
- `topology`: the template.
- `clusters`: `self.clusters`. Each node is a record with its kind, label, address and connections.
- `ucur`: the position of the `update_clusters` loops (cluster, node, address cursor).
- `mpos`: the four nested iterators of `merge_clusters_to_network`.
- `out`: `mn_icn.cfg` as a token stream, one token per key or bracket.

**Actions**
- `Load` is `ICNetwork.__init__`.
- `UpdateNode` is one iteration of the node loop of `update_clusters`, including the connection update and the adjacency fix-up.
- `UpdateCrash` is the same iteration on a physical SDN node with no connections or no `src_pt`. `int(None)` or `connections[0]` raises, and `deploy.main` does not catch it.
- `MergeStep` is one iteration of the innermost merge loop. A deletion leaves the Python list iterator's index in place, so the iterator skips the element that followed.
- `Write` is `write_network_config`.

**Abstractions**
- An address is `<<network, low two octets>>`.
- `ip_to_label` concatenates the decimal words of the address, as the code does. It is a fold of a digit-count `Concat` over the words.
- The ghost fields `tid`, `home` and `peer` record which template node a copy comes from, its cluster, and the node a connection was meant to reach. Properties need them to tell nodes apart when labels collide.

**The MC module**
- It enumerates every template of up to `MaxNodes` = 3 nodes over the four node kinds (mininet host, mininet ovs switch, physical SDN node, other), with any set of links between them.
- Each template is authored the way the first cluster's copy is expected to look, which `update_clusters` leaves alone.

### `MnClusters` (with `MC_MnClusters`)

**State**
- `running[c]`: the mininet instances on host c.
- `launched[c]`: the management offsets host c was launched with.
- `mgmt`: `cluster_management_net`.
- The position and `attempts` of the loops, and `iplists` (what `write_ip_lists` writes).
- `hosts`: what runs on the hosts beyond the count. `MnClusters`' own runs give it one state per host (`MCHostInit`). `IcnMn` gives it content.

**Actions**
- `CleanStep(ok)`: one `clean_clusters` iteration.
- `ConnectRefused`: `connect` raises.
- `CommandFails`: building the command raises `AttributeError`, because `EXTERNAL_NET` or the cluster's `switch_type` is missing. `SwitchType` gives each cluster's `switch_type`, or `Unset`: `MnCluster.__init__` logs "default to OVS" for a missing one but sets no attribute.
- `LostAfterLaunch`: `exec_command` ran, then the session failed inside the try block.
- `Launch`: the whole try block ran.
- `GiveUp`: the `attempts < 6` loop ended without success.
- `WriteIpLists`.

The data network advances in the same statement and by the same amount as the management network, so it is not repeated.

`write_ip_lists` names the two files of a cluster after the last word of its `cluster_ip` (`ClusterOctet`). `iplists` maps each file label to the cluster whose lists the file holds, so a later cluster with the same label overwrites an earlier one's lists.

### `Testbed` (with `MC_Testbed`)

`Testbed` extends `MnClusters` with the address plans of the other three pieces, written as operators over a pair's offset:
- `ClientAddr`, `NapAddr`, `ClientDataAddr`: `DAGTopo` and `start_network` in `icn_mn.py`, on a host launched at offset l;
- `ListedEndpoint`, `ListedNap`: the entries of the files `write_ip_lists` wrote;
- `NapConfigAddr`: the running `management_ip`/`data_ip` of `write_nap_config`. It gives both the `nodeId` label and the `networkAddress` of NAP i of cluster c;
- `IcnHostAddr`: the `testbed_ip` `ICNetwork` gives host r of cluster c. That is the cluster's `start_ip` plus the `update_clusters` cursor, which moves for every template node.

The four configuration files are assumed to name the same `MANAGEMENT_NET` and `DATA_NET`.

`TestbedPlansAgree` says that after `-m` every running mininet and the three configurations written for its cluster describe the same pairs. The property checks three things:
- the counts agree;
- the ip lists hold the addresses of the pairs;
- each NAP config and each ICN host sits on the address of its pair.

Besides the skipped cluster of `mn_drift`, each of the following breaks the property. This was checked by editing `MC_Testbed`:
- two clusters with the same last octet;
- a template with a switch before its hosts;
- clusters of different sizes. `write_nap_config` has one `NUMBER_NAPS` for all clusters.

### `IcnMn` (with `MC_IcnMn`)

`IcnMn` extends `MnClusters` with the `icn_mn.py` process that `construct_clusters` starts on every cluster host. The process runs detached in a screen; its steps interleave with the deployment's loop and with the other hosts' processes.

A host may still run the icn_mn of a previous deployment. `clean_clusters` only types `exit` into its screen (`exec_command`, then `close`), and `construct_clusters` starts the new icn_mn at once. So each host has two process generations: `"prev"`, the previous deployment's, and `"new"`, the one this run starts.

**State**

`hosts[c]` is host c's side. `MnClusters` declares the variable, and its own steps leave it alone. It is a record:
- `p[g]`: the process of generation g. This is its position `pc`, the `switches` `DAGTopo` built, the (interface, switch) pairs it `bridged`, and whether `checkIntf` found an address on the management and data interfaces (`mgmtIp`, `dataIp`);
- `addr`: where the host's management address is. That is on the interface, on `s1`, or nowhere. Both generations share it;
- `daddr`: whether the data interface has its address;
- `env`: whether the interfaces carried an address before any icn_mn ran.

The initial hosts are given to `MnClusters` as its constant `HostInit`:
- `IdleHosts`: no icn_mn runs.
- `PreviousHosts`: any host whose management interface exists may have its previous icn_mn serving the CLI, in the state the steps below leave it in.

A data interface that is the management interface has no address of its own.

**Actions**
- `CleanExit` is `clean_clusters` with reliable ssh. An old icn_mn's CLI returns, and the loop moves on.
- `LaunchIcnMn` is `MnClusters.LaunchStarting`, with the new process started. `MnClusters.Launch` is the same step with the hosts left as they are.
- `BuildNetwork` is `DAGTopo` and `Mininet(...)`. `TopoSwitches` builds `s1`, and `s2` only when `--di` differs from `--mi`. `MgmtIfOf` and `DataIfOf` give `--mi` and `--di` after `MnCluster.__init__`'s fallbacks.
- `BridgeManagement`: `checkIntf(--mi)` exits if the interface is missing. Otherwise it returns the interface's address, if there is one. Only a found address is removed, and the interface is bridged to `s1`.
- `BridgeData`: bridges `--di` to `s2` when there is an `s2` and the interface exists. Otherwise the bare `except:` swallows the `IndexError`, or `checkIntf`'s `SystemExit`, and the network goes on.
- `StartNetwork`: `net.start()`, then the management address goes to `s1` if `checkIntf` found one.
- `CliExit`: someone types `exit`.
- `StopNetwork`: `net.stop()` deletes the switches. That includes `s1`, whose name every deployment shares, and the address on it. Then the saved addresses go back to the interfaces.
- The other `MnClusters` actions leave the processes alone.

**Properties**
- `NapsReachDataInterface`: while a CLI runs, the switch its NAPs are linked to is bridged to the cluster's data interface. That is `s2` when the interfaces differ, and `s1` when they are one.
- `ManagementAddressKept`: a host whose management interface had an address has it on `s1` while an icn_mn serves the CLI. Once every icn_mn has stopped or exited, the address is back on the interface. The data interface also gets its address back.
- `IcnMnSettles` is a liveness property under `FairDeploySpec`. Every icn_mn that is started, or whose CLI returns, comes to rest: at its CLI, exited, or stopped.

`ssh` is reliable in this composition (`MaxFailures` = 0). Retries that start a second instance are the subject of the `MnClusters` runs.

### `Delivery` and `IPoverICN` (with `MC_IPoverICN`)

**`Delivery`** is the abstract promise of spec.md section 4.5:
- files are delivered one at a time, in order;
- each delivery ends in success or in a failure that does not stop the run;
- success is possible only for a host that can be reached and that accepts a credential;
- every run ends. This is weak fairness on `Deliver`.

**`IPoverICN`** models the `write_nap_config` and `write_httpproxy_config` loops, plus `sftp_conf` step by step:
- `MkdirOk`, `MkdirFails`, `MkdirGiveUp`: the mkdir retry loop;
- `TransportFails`, `TransportOpens`;
- `Auth`: `rsa_auth`, then the password fallback;
- `Put`.

The environment:
- `Reachable`: the set of reachable hosts, a constant;
- `MaxFailures`: a bound on transient failures;
- `creds`: whether `id_rsa` loads and which credentials the hosts accept, chosen in `Init`.

`ImplementsDelivery` is `Delivery!Spec` under the mapping:
- `cursor <- fi`
- `results <- result`
- `possible <- PossibleFiles`

## Runs

Each passing run finishes within a minute. Between them, the passing runs fire every action. Every property of a passing run has a mutant in PROJECT.json, and TLC finds that mutant's violation under the run's own cfg.

| run | cfg | result | what it shows |
|---|---|---|---|
| icn_pipeline | `MC_ICNetwork.cfg` | pass, 6,392 states | For every symmetric template of up to 3 nodes and 2 clusters, the ICN job satisfies all six properties below. It either writes a well-formed `mn_icn.cfg` or stops at an unconnected physical SDN node.<br>- `WrittenConfigWellFormed`: balanced brackets, and every node has a connection list.<br>- `WrittenLabelsUnique`.<br>- `ConnectionsReachIntendedPeer`: each `to` label names exactly one node, the intended copy.<br>- `ReciprocalPorts`: the `dst_pt` of a link into a physical SDN node equals that node's `src_pt`.<br>- `MergeOnlySharedNode`: an action property; merge deletes only a physical or other node that another cluster still has.<br>- `TypeOK`. |
| icn_plan | `MC_ICNetwork_plan.cfg` | violation | `HostAddressesFollowPlan`: template [other, host]. The cursor moves two addresses for the `other` node as well, so the host gets an address outside its cluster's block. |
| icn_collision | `..._collision.cfg` (`MANAGEMENT_NET` low octets 0) | violation | `MergeOnlySharedNode`: the host of cluster 2 gets label 00000002, the same as the mininet switch of cluster `x.x.x.2`. Merge deletes the switch as if it were a shared node. |
| icn_oneway | `..._oneway.cfg` (asymmetric links) | violation | `ConnectionsReachIntendedPeer`: a link declared only at the far end keeps the template label, and ends up pointing at cluster 1's copy. |
| icn_isolated | `..._isolated.cfg` (unconnected nodes) | violation | `WrittenConfigWellFormed`: a node with no connections leaves `connections = ( {` and its node block open. |
| mn_deploy | `MC_Testbed.cfg` | pass, 649 states | Two clusters of two pairs, with up to four ssh failures, including refused connections and sessions lost after the launch. `DeployedUnlessUnreachable` holds: a cluster is left without mininet only after five failed attempts. `TestbedPlansAgree` holds: the ip lists, NAP configs and ICN hosts name the addresses icn_mn gives every pair. `TypeOK` holds. |
| host_deploy | `MC_IcnMn.cfg` | pass, 83,072 states | `-m` composed with the icn_mn processes it starts on four hosts: separate interfaces (`s1` and `s2`), a `data_if` the management interface falls back to (one switch), a cluster without `switch_type` that is given up after five attempts, and a host without its management interface, where icn_mn exits in `checkIntf`. Every address setup is included. `NapsReachDataInterface`, `ManagementAddressKept` and `DeployTypeOK` hold. Under the fairness below, `IcnMnSettles` holds. About 90 s. |
| host_redeploy | `MC_IcnMn_redeploy.cfg` | violation | `ManagementAddressKept`, on hosts that may still run the previous deployment's icn_mn. Clean types `exit`, and the new icn_mn starts while the old one is stopping. The new `checkIntf` finds the management address on the old `s1`, so it records none and never moves it. The old `net.stop()` then puts the address back on `eth0`, which the new `s1` has bridged. The new CLI runs without the address on `s1`. |
| mn_drift | `MC_Testbed_drift.cfg` | violation | `TestbedPlansAgree`: five failures skip cluster 1, so cluster 2's mininet starts on cluster 1's addresses. Its ip lists, NAP configs and ICN hosts still name the planned addresses. |
| mn_twice | `..._twice.cfg` | violation | `AtMostOneMininet`: one failed clean ssh, or a session lost after `exec_command`, leaves two `mnet` screens on one host. |
| delivery | `MC_IPoverICN.cfg` | pass, 4,496 states | `ImplementsDelivery` and `TypeOK`, with one unreachable host, five transient failures and every credential setup. |
| delivery_credentials | `..._credentials.cfg` | violation | `DeliveredWhenPossible`: every host is reachable and there are no transient failures, yet a host that accepts the password, or an agent key when `id_rsa` is missing, gets no file. `auth_password(self.user)` has no password argument, and `rsa_id` is unbound. |

Two more observations are kept as notes rather than runs:
- With three clusters and template [host, other, host], two hosts of different clusters get one address and are merged. This is a consequence of the cursor overrun that `icn_plan` shows.
- Two mininet switches in one template always share a label (ICN.py:209). The runs therefore bound templates to one mininet switch (`MaxMnSwitches = 1`); the hazard list records this.

## Bounds and why they are enough

**ICN**
- Templates have up to 3 nodes over all four kinds, with all link sets.
- There are 2 clusters.
- This covers every branch of `update_clusters`, the skip after a deletion in merge, and every relation a link can have: declared at both ends, at one end, or not at all.
- The cursor, label and merge bugs all show up with 2 clusters and 2 or 3 nodes.

**MnClusters and Testbed**
- `MnClusters` runs use two clusters with 2 and 1 pairs.
- `Testbed` runs use two clusters with 2 pairs each, because the NAP configuration has a single `NUMBER_NAPS`.
- Either way, a shift by one cluster's block is visible.
- `MaxFailures` = 5 lets one host exhaust its five attempts. That is what `mn_drift` needs.
- `mn_deploy` allows 4 failures, so every cluster is deployed and the agreement is checked on a complete deployment. Every failure path except `GiveUp` and `CommandFails` still fires; `host_deploy` fires those two.

**IcnMn**
- Four clusters of one pair each, one for each configuration the process distinguishes: two interfaces, one interface, no `switch_type`, and a missing management interface. Pairs do not matter to the bridging and addresses.
- Each host's interfaces may or may not carry an address at the start (`env`).
- Three processes run at once, so every interleaving of their steps with each other and with the deployment loop is explored.
- In `host_redeploy`, up to three hosts also run an old icn_mn. The race needs one host: its old process stopping while its new one bridges.
- A host that lacks its `data_if` makes `NapsReachDataInterface` fail at the first CLI state. This was checked by editing `MC_IcnMn`. All run slots are taken, so it is recorded as a hazard with that property rather than as a run.

**Delivery**
- Two clusters with one NAP, so four files.
- One host is unreachable, so the give-up path and the exception path are both taken.

## Fairness

`IPoverICN` assumes weak fairness on `Next`. The loops run in one thread. Every step the model takes either completes or raises: `connect` and `Transport` fail with an exception instead of blocking forever. So a run that can take a step takes it.

`IcnMn`'s `FairDeploySpec` assumes weak fairness on two groups of steps:
- the deployment's steps (`CleanExit`, `CommandFails`, `GiveUp`, `LaunchIcnMn`, `WriteIpLists`). `deploy.py` is one thread that runs its loops to the end;
- each process's steps except `CliExit`. icn_mn runs unattended from its start to its CLI, and from the CLI's return to its end.

`CliExit` is not fair. The CLI returns only when someone types `exit`, so an icn_mn may serve its CLI forever. This follows the learntla advice that a user's actions are not guaranteed.

`ICNetwork` and `MnClusters` state only safety properties and assume no fairness.

## Not modelled

- **The CoAP demo and the SDN demo scripts.** They are fixed mininet scripts with no logic beyond I/O.
- **Parts of `icn_mn.py`.** The ovs port setup, routes, hosts' addresses and the CLI's commands are shell I/O. `parse_required`'s fallbacks cannot be reached from `construct_clusters`, which always passes `--mi` and `--di`. Pairing client i with `net.hosts[i + number_pairs]` relies on mininet listing hosts in natural name order, so every client comes before every NAP. That pairing holds and is not modelled.
- **Failures inside icn_mn.** An exception between the stripping of the management address and its restoration, or a killed screen, leaves the host without its management address. The model's process leaves only through `checkIntf`'s exit and the CLI. This is recorded as a hazard.
- **Mininet's own handling of two networks with the same switch names.** A new `s1` created while the old one still exists is mininet's business, outside this repository. The model keeps only what `net.stop()` does to `s1`'s address.
- **`MnClusters.__init__` dropping every cluster entry after one that fails to parse.** This is recorded as a hazard.
- **Configuration parsing.** This includes the `except Exceptions` NameError in `IPoverICNCluster.__init__`, which is recorded as a hazard.
- **File contents of the NAP and proxy configs.**
- **Whether closing the ssh channel right after `exec_command('mkdir ...')` can abort the mkdir.**

## What remains

- **The `IPoverICNCluster` constructor's fallbacks, including `except Exceptions`, and `MnClusters.__init__`'s.** They would need a configuration model and a violation run each. The project uses all twelve runs the tooling allows, so they are hazards.
- **Failures inside icn_mn between stripping and restoring the host's addresses.**
- **The CoAP and SDN demo scripts.** They are straight-line scripts that build one fixed topology, so there is no behaviour to check beyond their I/O.
