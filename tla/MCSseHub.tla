------------------------------ MODULE MCSseHub ------------------------------
(***************************************************************************)
(* A small instance of SseHub: two streams of one query, one of events.    *)
(***************************************************************************)
EXTENDS SseHub

CONSTANTS q1, e1

MCViewOf == [v \in Viewers |-> IF v = e1 THEN None ELSE q1]
=============================================================================
