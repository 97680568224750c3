----------------------------- MODULE MCMonitoring -----------------------------
(* Small instances of Monitoring for TLC. *)
EXTENDS Monitoring, TLC

Symmetry == Permutations(Requests)
=============================================================================
