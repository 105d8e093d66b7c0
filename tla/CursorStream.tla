---------------------------- MODULE CursorStream ----------------------------
(***************************************************************************)
(* What a registered query promises the reader of its stream, seen from    *)
(* outside: a subscription to an append-only log.  The rows that concern   *)
(* the subscription are handed over in cursor order, and none is ever      *)
(* overtaken by a later one.  Rows may be handed over again: the promise   *)
(* is "at least once".  Module Executor is shown to implement this.        *)
(***************************************************************************)
EXTENDS Integers

CONSTANTS
  Rows,         \* the rows that may ever be appended
  CursorOf,     \* CursorOf[r]: the position of row r
  Deliverable   \* the rows the subscription is about

VARIABLES
  log,     \* the rows appended so far
  phase,   \* "idle" before the subscription opens, then "open", then "closed"
  floor,   \* the position the subscription starts after
  handed   \* the rows handed over so far

vars == <<log, phase, floor, handed>>

(* The rows the subscription still has to hand over. *)
Due == {r \in log \cap Deliverable : CursorOf[r] > floor} \ handed

Init ==
  /\ log \subseteq Rows
  /\ phase = "idle"
  /\ floor \in Int
  /\ handed = {}

Append(r) ==
  /\ r \in Rows \ log
  /\ \A s \in log : CursorOf[s] < CursorOf[r]
  /\ log' = log \cup {r}
  /\ UNCHANGED <<phase, floor, handed>>

Open ==
  /\ phase = "idle"
  /\ phase' = "open"
  /\ floor' \in Int
  /\ UNCHANGED <<log, handed>>

(* Hand over S: every row still due afterwards lies above all of S. *)
HandOver(S) ==
  /\ phase = "open"
  /\ S \subseteq log \cap Deliverable
  /\ \A r \in S : /\ CursorOf[r] > floor
                  /\ \A d \in Due \ S : CursorOf[r] < CursorOf[d]
  /\ handed' = handed \cup S
  /\ UNCHANGED <<log, phase, floor>>

Close ==
  /\ phase # "closed"
  /\ phase' = "closed"
  /\ UNCHANGED <<log, floor, handed>>

Next ==
  \/ \E r \in Rows : Append(r)
  \/ Open
  \/ \E S \in SUBSET Rows : HandOver(S)
  \/ Close

Spec == Init /\ [][Next]_vars
=============================================================================
