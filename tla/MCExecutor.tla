----------------------------- MODULE MCExecutor -----------------------------
(***************************************************************************)
(* A small instance of Executor.  A row is a number.  From the beginning   *)
(* the batches of two pass row 2, which does not scan; from row 2 the      *)
(* first holds 3 and 5, whose cursor does not parse, and row 6 waits.      *)
(***************************************************************************)
EXTENDS Executor

MCRows == 1..6

(* Increasing values; row 1 lies at the starting position "BEGINNING". *)
Increasing == [r \in MCRows |-> r - 1]
=============================================================================
