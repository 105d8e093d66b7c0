---------------------------- MODULE QuicDelivery ----------------------------
(***************************************************************************)
(* Sending over the sessions of SessionRegistry: the transport every query *)
(* executor calls (cmd/main.go, sender.SendToQuery) and what a Session     *)
(* does for it (internal/quic/server.go).  A sender takes a snapshot of    *)
(* the sessions and offers its message to one after the other, in no       *)
(* order, until one takes it.  A session writes to the query's stream,     *)
(* opening it first if there is none; both wait for the client.  Senders   *)
(* are the goroutines that send: an executor sends for its own query, a    *)
(* registration for any, an unregistered executor and its successor for    *)
(* the same one.                                                           *)
(*                                                                         *)
(* A client that stays may still stop a stream it is sent (STOP_SENDING).  *)
(* The session does not learn of it but by the error of a write, and keeps *)
(* the dead stream for the query.                                          *)
(*                                                                         *)
(* FirstErrorEnds, NeverFound, CountTwice and WaitOnDead are faulty        *)
(* versions of what follows them, used by nothing.                         *)
(***************************************************************************)
EXTENDS SessionRegistry

LOCAL INSTANCE FiniteSetsExt

CONSTANTS
  Senders,     \* the goroutines that send
  Queries,     \* query ids
  QueriesOf,   \* QueriesOf[s]: those sender s sends for
  MaxStreams,  \* Session.maxStreams
  PeerLimit,   \* PeerLimit[c]: how many streams client c ever lets us open
  Readers,     \* the clients that keep reading their streams
  Stoppers     \* the clients that may stop a stream

ASSUME DeliveryAssumption ==
  /\ IsFiniteSet(Senders)
  /\ QueriesOf \in [Senders -> SUBSET Queries]
  /\ MaxStreams \in Nat
  /\ PeerLimit \in [Conns -> Nat]
  /\ Readers \subseteq Conns
  /\ Stoppers \subseteq Conns

VARIABLES
  pc,             \* where each sender is; "idle" between sends
  query,          \* the query it is sending for
  todo,           \* the sessions it has not tried yet
  at,             \* the session it is trying
  seen,           \* history: the sessions it started with
  streams,        \* Session.streams: the queries with a stream
  opened,         \* how many streams were opened on c for q
  stopped,        \* the queries a stream of which client c has stopped
  activeStreams   \* Session.activeStreams

sendVars   == <<pc, query, todo, at, seen>>
streamVars == <<streams, opened, stopped, activeStreams>>
deliveryVars == <<registryVars, sendVars, streamVars>>

InSession == {"lookup", "open", "add", "await", "store", "write"}

Init ==
  /\ RegistryInit
  /\ pc = [s \in Senders |-> "idle"]
  /\ query = [s \in Senders |-> None]
  /\ todo = [s \in Senders |-> {}]
  /\ at = [s \in Senders |-> None]
  /\ seen = [s \in Senders |-> {}]
  /\ streams = [c \in Conns |-> {}]
  /\ opened = [c \in Conns |-> [q \in Queries |-> 0]]
  /\ stopped = [c \in Conns |-> {}]
  /\ activeStreams = [c \in Conns |-> 0]

GoTo(s, label) == pc' = [pc EXCEPT ![s] = label]

(* The call is over, and the snapshot it worked on is gone. *)
Return(s) ==
  /\ GoTo(s, "idle")
  /\ query' = [query EXCEPT ![s] = None]
  /\ todo' = [todo EXCEPT ![s] = {}]
  /\ at' = [at EXCEPT ![s] = None]
  /\ seen' = [seen EXCEPT ![s] = {}]

-----------------------------------------------------------------------------
(* GetSessions. *)
Listed == {sessions[a] : a \in Addrs} \ {None}

Send(s, q) ==
  /\ pc[s] = "idle"
  /\ GoTo(s, "pick")
  /\ query' = [query EXCEPT ![s] = q]
  /\ todo' = [todo EXCEPT ![s] = Listed]
  /\ seen' = [seen EXCEPT ![s] = Listed]
  /\ UNCHANGED <<registryVars, at, streamVars>>

(* No session took it: "no sessions available". *)
GiveUp(s) ==
  /\ pc[s] = "pick"
  /\ todo[s] = {}
  /\ Return(s)
  /\ UNCHANGED <<registryVars, streamVars>>

(* Session.SendToQuery returned an error: the loop goes on. *)
FirstErrorEnds(s) == Return(s)
Refused(s) ==
  /\ GoTo(s, "pick")
  /\ at' = [at EXCEPT ![s] = None]
  /\ UNCHANGED <<query, todo, seen>>

MoveOn(s, label) == GoTo(s, label) /\ UNCHANGED <<query, todo, at, seen>>

CanOpenStream(c) == activeStreams[c] < MaxStreams

(* The loop's next session: SendToQuery asks it for room even if the query *)
(* already has its stream there.                                           *)
Try(s) ==
  /\ pc[s] = "pick"
  /\ \E c \in todo[s] :
       /\ todo' = [todo EXCEPT ![s] = @ \ {c}]
       /\ IF CanOpenStream(c)
          THEN GoTo(s, "lookup") /\ at' = [at EXCEPT ![s] = c]
          ELSE UNCHANGED <<pc, at>>
  /\ UNCHANGED <<registryVars, query, seen, streamVars>>

NeverFound(s) == FALSE
HasStream(s)  == query[s] \in streams[at[s]]

Lookup(s) ==
  /\ pc[s] = "lookup"
  /\ MoveOn(s, IF HasStream(s) THEN "write" ELSE "open")
  /\ UNCHANGED <<registryVars, streamVars>>

(* OpenStreamSync checks the limit again, then counts, then waits for the  *)
(* client to allow one more stream or for the connection to end.           *)
Open(s) ==
  /\ pc[s] = "open"
  /\ IF CanOpenStream(at[s]) THEN MoveOn(s, "add") ELSE Refused(s)
  /\ UNCHANGED <<registryVars, streamVars>>

CountTwice(c) == activeStreams[c] + 2
CountOne(c)   == activeStreams[c] + 1

Add(s) ==
  /\ pc[s] = "add"
  /\ MoveOn(s, "await")
  /\ activeStreams' = [activeStreams EXCEPT ![at[s]] = CountOne(at[s])]
  /\ UNCHANGED <<registryVars, streams, opened, stopped>>

(* The streams opened on c so far. *)
OpenedOn(c) == MapThenSumSet(LAMBDA q : opened[c][q], Queries)

Opened(s) ==
  /\ pc[s] = "await"
  /\ at[s] \in alive
  /\ OpenedOn(at[s]) < PeerLimit[at[s]]
  /\ MoveOn(s, "store")
  /\ opened' = [opened EXCEPT ![at[s]][query[s]] = @ + 1]
  /\ UNCHANGED <<registryVars, streams, stopped, activeStreams>>

Store(s) ==
  /\ pc[s] = "store"
  /\ MoveOn(s, "write")
  /\ streams' = [streams EXCEPT ![at[s]] = @ \cup {query[s]}]
  /\ UNCHANGED <<registryVars, opened, stopped, activeStreams>>

(* A client stops a stream the query has on its session. *)
StopStream(c, q) ==
  /\ c \in Stoppers \cap alive
  /\ q \in streams[c] \ stopped[c]
  /\ stopped' = [stopped EXCEPT ![c] = @ \cup {q}]
  /\ UNCHANGED <<registryVars, sendVars, streams, opened, activeStreams>>

(* What s writes to may be a stopped stream; it is, if the query has never *)
(* had another one there.                                                  *)
MayBeStopped(s) == query[s] \in stopped[at[s]]
IsStopped(s)    == MayBeStopped(s) /\ opened[at[s]][query[s]] <= 1

(* stream.Write returns once flow control lets the data go. *)
Written(s) ==
  /\ pc[s] = "write"
  /\ at[s] \in alive
  /\ ~IsStopped(s)
  /\ Return(s)
  /\ UNCHANGED <<registryVars, streamVars>>

(* The connection ended under OpenStreamSync or Write, or the stream that  *)
(* is written to was stopped.  What was counted stays counted, and what    *)
(* was stored stays stored.                                                *)
WaitOnDead(s) == FALSE
Broken(s) ==
  \/ pc[s] \in {"await", "write"} /\ at[s] \notin alive
  \/ pc[s] = "write" /\ MayBeStopped(s)

Fail(s) ==
  /\ Broken(s)
  /\ Refused(s)
  /\ UNCHANGED <<registryVars, streamVars>>

SenderStep(s) ==
  \/ GiveUp(s)
  \/ Try(s)
  \/ Lookup(s)
  \/ Open(s)
  \/ Add(s)
  \/ Opened(s)
  \/ Store(s)
  \/ Written(s)
  \/ Fail(s)

Next ==
  \/ RegistryNext /\ UNCHANGED <<sendVars, streamVars>>
  \/ \E s \in Senders : SenderStep(s) \/ \E q \in QueriesOf[s] : Send(s, q)
  \/ \E c \in Conns, q \in Queries : StopStream(c, q)

Spec == Init /\ [][Next]_deliveryVars

(* A goroutine in a send keeps going, except that a client who neither     *)
(* keeps reading nor stops the stream may let it wait.                     *)
Unwritten(s) == pc[s] = "write" /\ at[s] \in alive \ Readers /\ ~IsStopped(s)

FairSpec ==
  Spec /\ \A s \in Senders : WF_deliveryVars(~Unwritten(s) /\ SenderStep(s))
-----------------------------------------------------------------------------
(* Every variable stays in its domain; the sessions a sender has left to   *)
(* try, and the one it is inside, are from its snapshot.                   *)
DeliveryTypeOK ==
  /\ pc \in [Senders -> {"idle", "pick"} \cup InSession]
  /\ query \in [Senders -> Queries \cup {None}]
  /\ todo \in [Senders -> SUBSET Conns]
  /\ at \in [Senders -> Conns \cup {None}]
  /\ seen \in [Senders -> SUBSET Conns]
  /\ streams \in [Conns -> SUBSET Queries]
  /\ opened \in [Conns -> [Queries -> Nat]]
  /\ stopped \in [Conns -> SUBSET Queries]
  /\ activeStreams \in [Conns -> Nat]
  /\ \A s \in Senders : /\ todo[s] \subseteq seen[s]
                        /\ pc[s] \in InSession => at[s] \in seen[s] \ todo[s]

(* The limit on streams is checked before it is counted, and senders do    *)
(* both at once; but each can overshoot it by no more than its own stream. *)
StreamOvershootBounded ==
  \A c \in Conns : activeStreams[c] < MaxStreams + Cardinality(Senders) \/ activeStreams[c] = 0

(* A query opens its stream on a session once; senders racing for the same *)
(* query may each open one, and no more than one.                          *)
StreamsPerQueryBounded ==
  \A c \in Conns, q \in Queries :
    opened[c][q] <= Cardinality({s \in Senders : q \in QueriesOf[s]})

(* A send returns without having written only if every session it knew has *)
(* died, is at its limit, or is one whose client has stopped a stream of   *)
(* this query, which is then lost to the query for good.                   *)
FailureJustified ==
  [][\A s \in Senders :
       pc[s] # "idle" /\ pc'[s] = "idle" =>
         \/ pc[s] = "write" /\ at[s] \in alive
         \/ \A c \in seen[s] \cap alive :
              activeStreams[c] >= MaxStreams \/ query[s] \in stopped[c]]_deliveryVars

(* The client a sender is waiting for, if it is waiting for one. *)
WaitsForClient(s) ==
  /\ at[s] \in alive
  /\ \/ pc[s] = "await" /\ OpenedOn(at[s]) >= PeerLimit[at[s]]
     \/ Unwritten(s)

(* A send, and with it the poll or the registration that makes it, returns *)
(* unless a live client keeps it from opening or writing.                  *)
SendReturns ==
  \A s \in Senders : []<>(pc[s] = "idle" \/ WaitsForClient(s))
=============================================================================
