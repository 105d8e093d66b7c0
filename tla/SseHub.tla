------------------------------- MODULE SseHub -------------------------------
(***************************************************************************)
(* The streams a browser opens (internal/httpapi/handler.go), beside the   *)
(* query manager as module ManagerView shows it.  Each request puts a      *)
(* subscriber into a map while it lasts; every tick, broadcastLoop lists   *)
(* the queries and pings the subscribers of each.                          *)
(*                                                                         *)
(* broadcastLoop releases the lock before it walks a query's map.  When a  *)
(* handler is writing to the map it walks, the Go runtime may notice and   *)
(* end the process ("concurrent map iteration and map write").             *)
(*                                                                         *)
(* FreshMap, BlockingPing and ForgetNothing are faulty versions of what    *)
(* follows them, used by nothing.                                          *)
(***************************************************************************)
EXTENDS ManagerView, Integers

CONSTANTS
  None,     \* no query id
  Viewers,  \* the requests for /stream/queries/{id} and /stream/events
  ViewOf,   \* the query id of each; None for /stream/events
  ChanSize  \* the room of a subscriber's channel, which nobody reads

ASSUME HubAssumption ==
  /\ None \notin Ids
  /\ ViewOf \in [Viewers -> Ids \cup {None}]
  /\ ChanSize \in Nat

VARIABLES
  phase,    \* where each viewer's handler is
  left,     \* the viewers whose client has hung up
  hub,      \* querySubs by id; eventSubs under None
  pending,  \* the pings in each subscriber's channel
  loop,     \* broadcastLoop: "tick", "listing" or "pinging"
  todo,     \* the ids it has still to serve
  at,       \* the id whose map it walks, or None
  ahead,    \* the subscribers the walk has still to come to
  crashed   \* the runtime has ended the process

hubVars  == <<phase, left, hub>>
loopVars == <<pending, loop, todo, at, ahead>>
vars     == <<view, hubVars, loopVars, crashed>>

Init ==
  /\ ViewInit
  /\ phase = [v \in Viewers |-> "new"]
  /\ left = {}
  /\ hub = [t \in Ids \cup {None} |-> {}]
  /\ pending = [v \in Viewers |-> 0]
  /\ loop = "tick"
  /\ todo = {}
  /\ at = None
  /\ ahead = {}
  /\ crashed = FALSE

(* The streams of events. *)
Feeds == {v \in Viewers : ViewOf[v] = None}

Alive == ~crashed /\ UNCHANGED crashed

(* List waits for a writer that holds Manager.mu. *)
CanList == busy = "free"

(* querySubMu and eventSubMu are held while a map is written. *)
Writing(v)   == phase[v] \in {"entering", "leaving"}
SubMuFree(t) == ~\E v \in Viewers : Writing(v) /\ (ViewOf[v] = None <=> t = None)
-----------------------------------------------------------------------------
(* streamQuery and streamEvents.  The subscriber is put into the map ...   *)
Enter(v) ==
  /\ Alive
  /\ phase[v] = "new"
  /\ SubMuFree(ViewOf[v])
  /\ phase' = [phase EXCEPT ![v] = "entering"]
  /\ UNCHANGED <<view, left, hub, loopVars>>

FreshMap(v) == {v}
MapWith(v)  == hub[ViewOf[v]] \cup {v}

(* ... which a walk of the same map may or may not come to see.            *)
Entered(v) ==
  /\ Alive
  /\ phase[v] = "entering"
  /\ hub' = [hub EXCEPT ![ViewOf[v]] = MapWith(v)]
  /\ phase' = [phase EXCEPT ![v] = IF v \in Feeds THEN "watch" ELSE "list"]
  /\ ahead' \in IF at # None /\ at = ViewOf[v] THEN {ahead, ahead \cup {v}} ELSE {ahead}
  /\ UNCHANGED <<view, left, pending, loop, todo, at>>

(* A query's handler lists once, for the first frame; that of the events   *)
(* at every tick, for a rate made from the number of queries.              *)
EventTick(v) ==
  /\ Alive
  /\ phase[v] = "watch"
  /\ v \in Feeds
  /\ phase' = [phase EXCEPT ![v] = "list"]
  /\ UNCHANGED <<view, left, hub, loopVars>>

Listed(v) ==
  /\ Alive
  /\ phase[v] = "list"
  /\ CanList
  /\ phase' = [phase EXCEPT ![v] = "watch"]
  /\ UNCHANGED <<view, left, hub, loopVars>>

(* The client may hang up at any moment; only the select sees it. *)
HangUp(v) ==
  /\ Alive
  /\ phase[v] \in {"list", "watch"}
  /\ v \notin left
  /\ left' = left \cup {v}
  /\ UNCHANGED <<view, phase, hub, loopVars>>

Leave(v) ==
  /\ Alive
  /\ phase[v] = "watch"
  /\ v \in left
  /\ SubMuFree(ViewOf[v])
  /\ phase' = [phase EXCEPT ![v] = "leaving"]
  /\ UNCHANGED <<view, left, hub, loopVars>>

ForgetNothing(v) == hub[ViewOf[v]]
MapWithout(v)    == hub[ViewOf[v]] \ {v}

Gone(v) ==
  /\ Alive
  /\ phase[v] = "leaving"
  /\ hub' = [hub EXCEPT ![ViewOf[v]] = MapWithout(v)]
  /\ phase' = [phase EXCEPT ![v] = "done"]
  /\ UNCHANGED <<view, left, loopVars>>
-----------------------------------------------------------------------------
(* broadcastLoop. *)
LoopTick ==
  /\ Alive
  /\ loop = "tick"
  /\ loop' = "listing"
  /\ UNCHANGED <<view, hubVars, pending, todo, at, ahead>>

LoopList ==
  /\ Alive
  /\ loop = "listing"
  /\ CanList
  /\ loop' = "pinging"
  /\ todo' = listed
  /\ UNCHANGED <<view, hubVars, pending, at, ahead>>

(* A query nobody has ever watched has no map. *)
HasMap(id) == \E v \in Viewers : ViewOf[v] = id /\ phase[v] # "new"

Lookup(id) ==
  /\ Alive
  /\ loop = "pinging"
  /\ at = None
  /\ id \in todo
  /\ SubMuFree(id)
  /\ todo' = todo \ {id}
  /\ at' = IF HasMap(id) THEN id ELSE None
  /\ ahead' = hub[id]
  /\ UNCHANGED <<view, hubVars, pending, loop>>

(* A full channel drops the ping. *)
BlockingPing(v) == pending[v] < ChanSize /\ pending' = [pending EXCEPT ![v] = @ + 1]
Ping(v)         == pending' = IF pending[v] < ChanSize
                              THEN [pending EXCEPT ![v] = @ + 1] ELSE pending

Visit(v) ==
  /\ Alive
  /\ at # None
  /\ v \in ahead \cap hub[at]
  /\ ahead' = ahead \ {v}
  /\ Ping(v)
  /\ UNCHANGED <<view, hubVars, loop, todo, at>>

WalkDone ==
  /\ Alive
  /\ at # None
  /\ ahead \cap hub[at] = {}
  /\ at' = None
  /\ ahead' = {}
  /\ UNCHANGED <<view, hubVars, pending, loop, todo>>

LoopDone ==
  /\ Alive
  /\ loop = "pinging"
  /\ at = None
  /\ todo = {}
  /\ loop' = "tick"
  /\ UNCHANGED <<view, hubVars, pending, todo, at, ahead>>

(* The walk's next step finds the map being written. *)
Collide ==
  /\ ~crashed
  /\ at # None
  /\ \E v \in Viewers : ViewOf[v] = at /\ Writing(v)
  /\ crashed' = TRUE
  /\ UNCHANGED <<view, hubVars, loopVars>>

(* The manager goes on beside all this. *)
Manage == ViewNext /\ Alive /\ UNCHANGED <<hubVars, loopVars>>

Viewing(v) ==
  Enter(v) \/ Entered(v) \/ EventTick(v) \/ Listed(v) \/ HangUp(v) \/ Leave(v) \/ Gone(v)

Loop ==
  \/ LoopTick
  \/ LoopList
  \/ \E id \in Ids : Lookup(id)
  \/ \E v \in Viewers : Visit(v)
  \/ WalkDone
  \/ LoopDone

Next ==
  \/ Manage
  \/ \E v \in Viewers : Viewing(v)
  \/ Loop
  \/ Collide

Spec == Init /\ [][Next]_vars

(***************************************************************************)
(* Handlers and the loop run, and the manager is as fair as ManagerView    *)
(* says.  The manager takes its lock again and again; a reader that waits  *)
(* for an RWMutex gets it when the writer before it lets go, and a select  *)
(* with a tick and a hang-up both ready picks at random: strong fairness.  *)
(* Nobody has to open a stream or hang up.                                 *)
(***************************************************************************)
FairSpec ==
  /\ Spec
  /\ WF_vars(Manage /\ (LetGo \/ Report))
  /\ \A v \in Viewers : /\ WF_vars(Entered(v) \/ Leave(v) \/ Gone(v))
                        /\ SF_vars(Listed(v))
  /\ \A v \in Feeds : SF_vars(Leave(v))
  /\ WF_vars(Loop)
  /\ SF_vars(LoopList)
-----------------------------------------------------------------------------
(* Every variable stays in its domain, and the loop walks only what it     *)
(* has looked up.                                                          *)
HubTypeOK ==
  /\ phase \in [Viewers -> {"new", "entering", "list", "watch", "leaving", "done"}]
  /\ left \in SUBSET Viewers
  /\ hub \in [Ids \cup {None} -> SUBSET Viewers]
  /\ pending \in [Viewers -> 0..ChanSize]
  /\ loop \in {"tick", "listing", "pinging"}
  /\ todo \in SUBSET Ids
  /\ at \in Ids \cup {None}
  /\ ahead \in SUBSET Viewers
  /\ crashed \in BOOLEAN
  /\ at # None => loop = "pinging"

(* A stream that is open is in the map of its query and in no other,       *)
(* whoever enters or leaves beside it, so that the loop finds it.          *)
ViewerListed ==
  \A v \in Viewers, t \in Ids \cup {None} :
    phase[v] \in {"list", "watch"} => (v \in hub[t] <=> t = ViewOf[v])

Excused == crashed \/ busy = "reporting"

(* A client that hangs up is forgotten, unless the manager's lock is held  *)
(* by a registration that waits to report its failure.                     *)
ViewerForgotten ==
  \A v \in Viewers : v \in left ~> (v \notin hub[ViewOf[v]] \/ Excused)

(* broadcastLoop and the streams come back from the manager's lock, and    *)
(* the loop from subscribers who do not listen, with the same exception.   *)
HubAnswers ==
  /\ []<>(loop = "tick" \/ Excused)
  /\ \A v \in Viewers : phase[v] = "list" ~> (phase[v] # "list" \/ Excused)

(* The process lives on: what "queries run continuously until explicitly   *)
(* unregistered" asks of the HTTP side.                                    *)
NeverCrashes == ~crashed
=============================================================================
