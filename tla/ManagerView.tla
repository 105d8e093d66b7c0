---------------------------- MODULE ManagerView ----------------------------
(***************************************************************************)
(* What the rest of the server sees of the query manager: the queries      *)
(* List would return, and whether its lock keeps a reader waiting.  The    *)
(* lock's holder may itself wait, to report a failure to some client, for  *)
(* as long as no client takes it.  QueryManager implements this.           *)
(***************************************************************************)
EXTENDS FiniteSets

CONSTANTS Ids  \* query ids

VARIABLES
  busy,   \* Manager.mu: "free", "held", or "reporting" while its holder waits
  listed  \* the ids in Manager.queries

view == <<busy, listed>>

ViewInit == busy = "free" /\ listed = {}

Acquire == busy = "free" /\ busy' = "held" /\ UNCHANGED listed

Report   == busy = "held" /\ busy' = "reporting" /\ UNCHANGED listed
Reported == busy = "reporting" /\ busy' = "held" /\ UNCHANGED listed

(* Register or Unregister returns, with its change made or refused. *)
LetGo ==
  /\ busy = "held"
  /\ busy' = "free"
  /\ \/ \E id \in Ids \ listed : listed' = listed \cup {id}
     \/ \E id \in listed : listed' = listed \ {id}
     \/ UNCHANGED listed

ViewNext == Acquire \/ Report \/ Reported \/ LetGo

(* Its holder lets go of the lock, or comes to wait for a client. *)
ViewFair == WF_view(LetGo \/ Report)

ViewSpec == ViewInit /\ [][ViewNext]_view /\ ViewFair
=============================================================================
