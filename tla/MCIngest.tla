------------------------------ MODULE MCIngest ------------------------------
(***************************************************************************)
(* A small instance of Ingest.  Requests to one endpoint are alike.        *)
(***************************************************************************)
EXTENDS Ingest, TLC

Alike == Permutations(Events \ Direct) \cup Permutations(Direct)
=============================================================================
