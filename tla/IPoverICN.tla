------------------------------ MODULE IPoverICN ------------------------------
(***************************************************************************)
(* Delivery of the NAP and HTTP proxy configuration files, class           *)
(* IPoverICNCluster of src/deployment/mininet/IPoverICN.py, driven by      *)
(* deploy.py -n as write_nap_config() ; write_httpproxy_config().          *)
(*                                                                         *)
(* Both loops write one file per cluster and NAP and hand it to sftp_conf, *)
(* which                                                                   *)
(*   1. tries up to five times to ssh in and run 'mkdir <dir>';            *)
(*   2. whatever that loop did, opens a Transport to port 22;              *)
(*   3. authenticates with rsa_auth (agent keys and ~/.ssh/id_rsa), then,  *)
(*      if that failed, with auth_password(self.user);                     *)
(*   4. puts the file, returning -1 if the SFTP session or the put fails.  *)
(* An exception out of sftp_conf is caught by the loop, which logs it and  *)
(* moves on to the next file.  The file contents and the local write are   *)
(* not modelled; a file is its directory and its cluster.                 *)
(*                                                                         *)
(* The hosts are the environment: a cluster host is reachable or not, and  *)
(* a reachable one may still fail a connection transiently, at most        *)
(* MaxFailures times in a run.  Whether id_rsa loads and which           *)
(* credentials the hosts accept is chosen in Init and fixed for a run.     *)
(***************************************************************************)
EXTENDS Integers, Sequences, FiniteSets

CONSTANTS
  NumClusters,       \* entries of 'clusters' in the NAP configuration
  NUMBER_NAPS,       \* NAPs per cluster
  Reachable,         \* cluster hosts that accept connections
  MaxFailures,       \* transient connection failures in one run
  MaxAttempts        \* the 'attempts < 6' bound of sftp_conf: 5

Clusters == 1..NumClusters
NumFiles == 2 * NumClusters * NUMBER_NAPS

ASSUME Reachable \subseteq Clusters /\ NUMBER_NAPS \in Nat \ {0}

\* write_nap_config writes the nap files cluster by cluster, NAP by NAP;
\* write_httpproxy_config then does the same for the proxy files.
FileOf(f) ==
  LET j == (f - 1) % (NumClusters * NUMBER_NAPS)
  IN  [dir     |-> IF f <= NumClusters * NUMBER_NAPS THEN "nap" ELSE "httpproxy",
       cluster |-> j \div NUMBER_NAPS + 1]

VARIABLES
  fi,        \* the file the loops are delivering
  step,      \* where sftp_conf is: "mkdir", "connect", "auth" or "put"
  attempts,  \* sftp_conf's attempt counter
  failures,  \* transient connection failures so far
  dirs,      \* <<cluster, dir>> pairs whose remote directory exists
  result,    \* "pending", "ok" or "failed" for every file
  creds      \* keyFile: ~/.ssh/id_rsa under ROOT_DIR loads as an RSA key;
             \* agent, file, password: the hosts accept a key the ssh agent
             \* holds, the id_rsa key, the user's password

vars == <<fi, step, attempts, failures, dirs, result, creds>>

Credentials == [keyFile : BOOLEAN, agent : BOOLEAN, file : BOOLEAN, password : BOOLEAN]

Host == FileOf(fi).cluster
Dir == FileOf(fi).dir

\* A connection to the current host fails: always if it is unreachable,
\* otherwise only while the environment may still fail it.
ConnectionMayFail == Host \notin Reachable \/ failures < MaxFailures
ConnectionMaySucceed == Host \in Reachable
Failing == IF Host \in Reachable THEN failures + 1 ELSE failures

\* The current file's delivery ends with outcome r; the loop moves on.
Finish(r) ==
  /\ result' = [result EXCEPT ![fi] = r]
  /\ fi' = fi + 1
  /\ step' = "mkdir"
  /\ attempts' = 1

-----------------------------------------------------------------------------
\* ssh.connect and exec_command('mkdir ' + remote_path) succeed.
MkdirOk ==
  /\ fi <= NumFiles /\ step = "mkdir"
  /\ attempts <= MaxAttempts
  /\ ConnectionMaySucceed
  /\ dirs' = dirs \cup {<<Host, Dir>>}
  /\ step' = "connect"
  /\ UNCHANGED <<fi, attempts, failures, result, creds>>

\* A mutation of MkdirFails: the loop without its 'attempts < 6' bound.
MkdirFailsUnbounded ==
  /\ fi <= NumFiles /\ step = "mkdir"
  /\ ConnectionMayFail
  /\ attempts' = attempts + 1
  /\ failures' = Failing
  /\ UNCHANGED <<fi, step, dirs, result, creds>>

\* A mutation of MkdirFails: the failed attempt is not counted.
MkdirFailsUncounted ==
  /\ fi <= NumFiles /\ step = "mkdir"
  /\ attempts <= MaxAttempts
  /\ ConnectionMayFail
  /\ failures' = Failing
  /\ UNCHANGED <<fi, step, attempts, dirs, result, creds>>

\* The ssh session raises: attempts += 1.
MkdirFails ==
  /\ fi <= NumFiles /\ step = "mkdir"
  /\ attempts <= MaxAttempts
  /\ ConnectionMayFail
  /\ attempts' = attempts + 1
  /\ failures' = Failing
  /\ UNCHANGED <<fi, step, dirs, result, creds>>

\* Five attempts failed; sftp_conf goes on to the transfer regardless.
MkdirGiveUp ==
  /\ fi <= NumFiles /\ step = "mkdir"
  /\ attempts > MaxAttempts
  /\ step' = "connect"
  /\ UNCHANGED <<fi, attempts, failures, dirs, result, creds>>

\* paramiko.Transport / start_client: an exception reaches the loop.
TransportFails ==
  /\ fi <= NumFiles /\ step = "connect"
  /\ ConnectionMayFail
  /\ failures' = Failing
  /\ Finish("failed")
  /\ UNCHANGED <<dirs, creds>>

TransportOpens ==
  /\ fi <= NumFiles /\ step = "connect"
  /\ ConnectionMaySucceed
  /\ step' = "auth"
  /\ UNCHANGED <<fi, attempts, failures, dirs, result, creds>>

(***************************************************************************)
(* rsa_auth: loading id_rsa fails with rsa_id unbound, and the next        *)
(* statement, 'agent.get_keys() + (rsa_id, )', raises before any key is    *)
(* tried; otherwise every key is offered in turn.                          *)
(***************************************************************************)
RsaAuth ==
  CASE ~creds.keyFile             -> "raised"
    [] creds.agent \/ creds.file    -> "authenticated"
    [] OTHER                        -> "rejected"

\* A mutation of Authenticate: the is_authenticated check dropped.
AuthenticateUnchecked ==
  IF RsaAuth = "raised" THEN "raised" ELSE "authenticated"

\* 'if not trans.is_authenticated(): trans.auth_password(self.user)': the
\* call passes no password and raises TypeError whatever the host accepts.
Authenticate ==
  IF RsaAuth = "rejected" THEN "raised" ELSE RsaAuth

Auth ==
  /\ fi <= NumFiles /\ step = "auth"
  /\ IF Authenticate = "authenticated"
     THEN /\ step' = "put"
          /\ UNCHANGED <<fi, attempts, result>>
     ELSE Finish("failed")
  /\ UNCHANGED <<failures, dirs, creds>>

\* SFTPClient.from_transport and put: -1 if the remote directory is missing.
Put ==
  /\ fi <= NumFiles /\ step = "put"
  /\ Finish(IF <<Host, Dir>> \in dirs THEN "ok" ELSE "failed")
  /\ UNCHANGED <<failures, dirs, creds>>

-----------------------------------------------------------------------------
Init ==
  /\ fi = 1
  /\ step = "mkdir"
  /\ attempts = 1
  /\ failures = 0
  /\ dirs = {}
  /\ result = [f \in 1..NumFiles |-> "pending"]
  /\ creds \in Credentials

Terminated ==
  /\ fi > NumFiles
  /\ UNCHANGED vars

Next ==
  \/ MkdirOk \/ MkdirFails \/ MkdirGiveUp
  \/ TransportFails \/ TransportOpens
  \/ Auth \/ Put
  \/ Terminated

\* One thread runs the loops and nothing it waits on blocks forever.
Spec == Init /\ [][Next]_vars /\ WF_vars(Next)

-----------------------------------------------------------------------------
(***************************************************************************)
(* Properties.                                                             *)
(***************************************************************************)
\* A host can take the file: it is reachable and accepts a credential.
CredentialAccepted ==
  creds.agent \/ (creds.keyFile /\ creds.file) \/ creds.password
PossibleFiles ==
  {f \in 1..NumFiles : FileOf(f).cluster \in Reachable /\ CredentialAccepted}

TypeOK ==
  /\ fi \in 1..NumFiles + 1
  /\ step \in {"mkdir", "connect", "auth", "put"}
  /\ attempts \in 1..MaxAttempts + 1
  /\ failures \in 0..MaxFailures
  /\ dirs \subseteq Clusters \X {"nap", "httpproxy"}
  /\ result \in [1..NumFiles -> {"pending", "ok", "failed"}]
  /\ creds \in Credentials

\* The loops of write_nap_config and write_httpproxy_config, with the
\* retries and exceptions of sftp_conf, implement the delivery promise:
\* every file delivered once, in order, in success only to a host that can
\* take it, and every run ending.
D == INSTANCE Delivery WITH cursor <- fi, results <- result, possible <- PossibleFiles
ImplementsDelivery == D!Spec

\* With no transient failures, a file fails only where the host cannot be
\* reached or accepts none of the credentials: public key first, password
\* as the fallback.
DeliveredWhenPossible ==
  MaxFailures = 0 => \A f \in 1..NumFiles : result[f] = "failed" => f \notin PossibleFiles

=============================================================================
