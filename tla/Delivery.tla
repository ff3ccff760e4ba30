------------------------------ MODULE Delivery ------------------------------
(***************************************************************************)
(* What remote delivery of generated configuration files promises (the     *)
(* RemoteDeliveryAdapter of spec.md section 4.5): the files are delivered  *)
(* one at a time in the order they are generated; each delivery ends in    *)
(* success or in a reported failure that never stops the run; a file      *)
(* arrives only on a host that could be reached and that accepted one of   *)
(* the credentials tried.                                                  *)
(***************************************************************************)
EXTENDS Naturals

CONSTANT NumFiles   \* files generated, in generation order 1..NumFiles

VARIABLES
  cursor,     \* the file being delivered
  results,    \* "pending", "ok" or "failed" for every file
  possible    \* the environment: files whose host can be reached and
              \* authenticated to, fixed for the run

vars == <<cursor, results, possible>>

Init ==
  /\ cursor = 1
  /\ results = [f \in 1..NumFiles |-> "pending"]
  /\ possible \subseteq 1..NumFiles

\* One file's delivery ends, in success only where success is possible.
Deliver ==
  /\ cursor <= NumFiles
  /\ \E r \in {"ok", "failed"} :
       /\ r = "ok" => cursor \in possible
       /\ results' = [results EXCEPT ![cursor] = r]
  /\ cursor' = cursor + 1
  /\ UNCHANGED possible

\* A run delivers every file it generates: the loop always moves on.
Spec == Init /\ [][Deliver]_vars /\ WF_vars(Deliver)

=============================================================================
