------------------------------ MODULE MCMetrics ------------------------------
(* A small instance of Metrics.  Query ids are alike. *)
EXTENDS Metrics, TLC

Alike == Permutations(Ids)
=============================================================================
