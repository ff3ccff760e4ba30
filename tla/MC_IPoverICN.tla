---------------------------- MODULE MC_IPoverICN ----------------------------
(***************************************************************************)
(* Instantiates IPoverICN for TLC: two clusters of one NAP, the second     *)
(* host unreachable unless a configuration says otherwise.                 *)
(***************************************************************************)
EXTENDS IPoverICN

MCReachable == {1}
MCAllReachable == Clusters

=============================================================================
