---------------------------- MODULE SseHubProofs ----------------------------
(***************************************************************************)
(* Proofs about SseHub, for any number of queries and viewers.  The map a  *)
(* viewer is in and the place its handler has reached say the same thing;  *)
(* nothing the loop or the manager does changes either.                    *)
(***************************************************************************)
EXTENDS SseHub, TLAPS

(* Where a handler's subscriber is in a map. *)
Inside == {"list", "watch", "leaving"}

(* A subscriber is in the map of its own query, exactly while inside. *)
PlaceIsMap ==
  \A v \in Viewers, t \in Ids \cup {None} :
    v \in hub[t] <=> t = ViewOf[v] /\ phase[v] \in Inside

HInv == HubTypeOK /\ PlaceIsMap
-----------------------------------------------------------------------------
(* A step of the loop, of the manager or of the runtime leaves the         *)
(* handlers and their maps alone.                                          *)
LEMMA LoopKeepsMaps == Manage \/ Loop \/ Collide => UNCHANGED hubVars
BY DEF Manage, Loop, LoopTick, LoopList, Lookup, Visit, WalkDone, LoopDone, Collide, hubVars

(* A viewer's step that is not into or out of a map keeps all maps. *)
LEMMA OtherViewing ==
  ASSUME NEW v \in Viewers, HInv,
         Enter(v) \/ EventTick(v) \/ Listed(v) \/ HangUp(v) \/ Leave(v)
  PROVE  PlaceIsMap'
<1>1. hub' = hub
  BY DEF Enter, EventTick, Listed, HangUp, Leave, hubVars
<1>2. \/ UNCHANGED phase
      \/ \E s \in {"entering", "list", "watch", "leaving"} :
           /\ phase' = [phase EXCEPT ![v] = s]
           /\ phase[v] \in Inside <=> s \in Inside
  BY DEF Enter, EventTick, Listed, HangUp, Leave, Inside
<1> QED
  BY <1>1, <1>2 DEF HInv, HubTypeOK, PlaceIsMap

(* Entering and leaving change the viewer's own map and its place at once. *)
LEMMA InAndOut ==
  ASSUME NEW v \in Viewers, HInv, Entered(v) \/ Gone(v)
  PROVE  PlaceIsMap'
<1>1. ViewOf[v] \in Ids \cup {None}
  BY HubAssumption
<1>2. CASE Entered(v)
  <2>1. hub' = [hub EXCEPT ![ViewOf[v]] = hub[ViewOf[v]] \cup {v}]
    BY <1>2 DEF Entered, MapWith
  <2>2. \E s \in {"watch", "list"} : phase' = [phase EXCEPT ![v] = s]
    BY <1>2 DEF Entered
  <2> QED
    BY <1>1, <2>1, <2>2 DEF HInv, HubTypeOK, PlaceIsMap, Inside
<1>3. CASE Gone(v)
  <2>1. hub' = [hub EXCEPT ![ViewOf[v]] = hub[ViewOf[v]] \ {v}]
    BY <1>3 DEF Gone, MapWithout
  <2>2. phase' = [phase EXCEPT ![v] = "done"]
    BY <1>3 DEF Gone
  <2> QED
    BY <1>1, <2>1, <2>2 DEF HInv, HubTypeOK, PlaceIsMap, Inside
<1> QED
  BY <1>2, <1>3

(* Every step keeps places and maps in agreement. *)
LEMMA PlaceStep == HInv /\ [Next]_vars => PlaceIsMap'
<1> SUFFICES ASSUME HInv, [Next]_vars PROVE PlaceIsMap'
  OBVIOUS
<1>1. CASE \E v \in Viewers : Viewing(v)
  BY <1>1, OtherViewing, InAndOut DEF Viewing
<1>2. CASE Manage \/ Loop \/ Collide \/ UNCHANGED vars
  <2>1. UNCHANGED hubVars
    BY <1>2, LoopKeepsMaps DEF vars
  <2> QED
    BY <2>1 DEF HInv, PlaceIsMap, hubVars
<1> QED
  BY <1>1, <1>2 DEF Next
-----------------------------------------------------------------------------
(* The loop reads the manager's queries, which are ids. *)
ListedIds == listed \subseteq Ids

(* A full channel takes no more pings, and the walk sees only viewers. *)
LEMMA HubTypeStep == HInv /\ ListedIds /\ [Next]_vars => HubTypeOK'
<1> SUFFICES ASSUME HInv, ListedIds, [Next]_vars PROVE HubTypeOK'
  OBVIOUS
<1> USE DEF HInv, hubVars, loopVars
<1>1. ASSUME NEW v \in Viewers, Viewing(v) PROVE HubTypeOK'
  <2>1. ViewOf[v] \in Ids \cup {None}
    BY HubAssumption
  <2>2. CASE Entered(v)
    <3>1. hub' \in [Ids \cup {None} -> SUBSET Viewers]
      BY <2>1, <2>2 DEF HubTypeOK, Entered, MapWith
    <3>2. ahead' \in SUBSET Viewers
      BY <2>2 DEF HubTypeOK, Entered
    <3>3. phase' \in [Viewers -> {"new", "entering", "list", "watch", "leaving", "done"}]
      BY <2>2 DEF HubTypeOK, Entered
    <3> QED
      BY <2>2, <3>1, <3>2, <3>3 DEF HubTypeOK, Entered, Alive
  <2>3. CASE Gone(v)
    BY <2>1, <2>3 DEF HubTypeOK, Gone, Alive, MapWithout
  <2>4. CASE Enter(v) \/ EventTick(v) \/ Listed(v) \/ HangUp(v) \/ Leave(v)
    BY <2>4 DEF HubTypeOK, Enter, EventTick, Listed, HangUp, Leave, Alive
  <2> QED
    BY <1>1, <2>2, <2>3, <2>4 DEF Viewing
<1>2. CASE LoopTick \/ LoopList \/ WalkDone \/ LoopDone
  BY <1>2, HubAssumption DEF ListedIds, HubTypeOK, LoopTick, LoopList, WalkDone, LoopDone, Alive
<1>3. ASSUME NEW id \in Ids, Lookup(id) PROVE HubTypeOK'
  BY <1>3 DEF HubTypeOK, Lookup, Alive
<1>4. ASSUME NEW v \in Viewers, Visit(v) PROVE HubTypeOK'
  <2>1. pending' \in [Viewers -> 0..ChanSize]
    BY <1>4, HubAssumption DEF HubTypeOK, Visit, Ping
  <2> QED
    BY <1>4, <2>1 DEF HubTypeOK, Visit, Alive
<1>5. CASE Manage \/ Collide \/ UNCHANGED vars
  BY <1>5 DEF HubTypeOK, Manage, Collide, Alive, vars
<1> QED
  BY <1>1, <1>2, <1>3, <1>4, <1>5 DEF Next, Loop

(* The manager registers ids only. *)
LEMMA ListedStep == ListedIds /\ [Next]_vars => ListedIds'
<1> SUFFICES ASSUME ListedIds, [Next]_vars PROVE ListedIds'
  OBVIOUS
<1>1. CASE Manage
  BY <1>1 DEF ListedIds, Manage, ViewNext, Acquire, Report, Reported, LetGo
<1>2. CASE UNCHANGED view
  BY <1>2 DEF ListedIds, view
<1>3. ASSUME NEW v \in Viewers, Viewing(v) PROVE UNCHANGED view
  BY <1>3 DEF Viewing, Enter, Entered, EventTick, Listed, HangUp, Leave, Gone
<1>4. CASE Loop \/ Collide
  BY <1>2, <1>4 DEF Loop, LoopTick, LoopList, Lookup, Visit, WalkDone, LoopDone, Collide
<1> QED
  BY <1>1, <1>2, <1>3, <1>4 DEF Next, vars

(* Nobody is there at first. *)
LEMMA InitHInv == Init => HInv /\ ListedIds
<1> SUFFICES ASSUME Init PROVE HInv /\ ListedIds
  OBVIOUS
<1>1. HubTypeOK
  <2>1. pending \in [Viewers -> 0..ChanSize]
    BY HubAssumption DEF Init
  <2>2. hub \in [Ids \cup {None} -> SUBSET Viewers]
    BY DEF Init
  <2>3. crashed \in BOOLEAN
    BY DEF Init
  <2> QED
    BY <2>1, <2>2, <2>3 DEF Init, HubTypeOK
<1>2. PlaceIsMap
  BY DEF Init, PlaceIsMap, Inside
<1>3. ListedIds
  BY DEF Init, ViewInit, ListedIds
<1> QED
  BY <1>1, <1>2, <1>3 DEF HInv
-----------------------------------------------------------------------------
(* The invariant behind both theorems. *)
LEMMA HubInvariance == Spec => [](HInv /\ ListedIds)
<1>1. HInv /\ ListedIds /\ [Next]_vars => (HInv /\ ListedIds)'
  BY PlaceStep, HubTypeStep, ListedStep DEF HInv
<1> QED
  BY <1>1, InitHInv, PTL DEF Spec

(* Every variable of the hub stays in its domain: no subscriber's channel  *)
(* is ever pinged beyond its room, and the loop walks only what it looked  *)
(* up.                                                                     *)
THEOREM HubTypeCorrect == Spec => []HubTypeOK
BY HubInvariance, PTL DEF HInv

(* An open stream is in its query's map and in no other, however requests  *)
(* for the same query enter and leave around it.                           *)
THEOREM OpenStreamIsListed == Spec => []ViewerListed
<1>1. HInv => ViewerListed
  BY DEF HInv, PlaceIsMap, ViewerListed, Inside
<1> QED
  BY <1>1, HubInvariance, PTL
-----------------------------------------------------------------------------
(***************************************************************************)
(* querySubMu and eventSubMu do their work among the handlers: of those    *)
(* that share one only one writes at a time, so that no two writes ever    *)
(* meet.  Only the walk of broadcastLoop, which has let go of the lock,    *)
(* can meet one (NeverCrashes).                                            *)
(***************************************************************************)
Sharing(v, w) == ViewOf[v] = None <=> ViewOf[w] = None

WritersExclude == \A v, w \in Viewers : Writing(v) /\ Writing(w) /\ Sharing(v, w) => v = w

(* A handler begins to write only where nobody does. *)
LEMMA WriterStep ==
  ASSUME HInv, WritersExclude, [Next]_vars
  PROVE  WritersExclude'
<1>1. ASSUME NEW v \in Viewers, Viewing(v) PROVE WritersExclude'
  <2>1. \A w \in Viewers \ {v} : phase'[w] = phase[w]
    BY <1>1 DEF HInv, HubTypeOK, Viewing, Enter, Entered, EventTick, Listed, HangUp, Leave, Gone,
                hubVars
  <2>2. Writing(v)' => SubMuFree(ViewOf[v])
    BY <1>1 DEF HInv, HubTypeOK, Writing, Viewing, Enter, Entered, EventTick, Listed, HangUp,
                Leave, Gone, hubVars
  <2>3. \A w \in Viewers \ {v} : Writing(w)' <=> Writing(w)
    BY <2>1 DEF Writing
  <2>4. ASSUME NEW w \in Viewers \ {v}, Writing(v)', Writing(w)', Sharing(v, w) PROVE FALSE
    BY <2>2, <2>3, <2>4 DEF SubMuFree, Sharing
  <2> QED
    BY <2>3, <2>4 DEF WritersExclude, Sharing
<1>2. CASE Manage \/ Loop \/ Collide \/ UNCHANGED vars
  <2>1. UNCHANGED hubVars
    BY <1>2, LoopKeepsMaps DEF vars
  <2> QED
    BY <2>1 DEF WritersExclude, Writing, Sharing, hubVars
<1> QED
  BY <1>1, <1>2 DEF Next

(* Two requests never write to one map at once, whatever they are for.     *)
THEOREM WritersAreAlone == Spec => []WritersExclude
<1>1. Init => WritersExclude
  BY DEF Init, WritersExclude, Writing
<1> QED
  BY <1>1, WriterStep, HubInvariance, PTL DEF Spec
=============================================================================
