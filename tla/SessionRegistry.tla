-------------------------- MODULE SessionRegistry --------------------------
(***************************************************************************)
(* The QUIC server's connections (internal/quic/server.go): the accept     *)
(* loop admits a connection against MaxClients, counts it, enters it in    *)
(* the sessions map under its remote address and starts its Run goroutine; *)
(* Run, when the connection is lost, removes the session again.  Two       *)
(* connections may come from one address: a client socket can carry        *)
(* several, and a port is reused while the old connection times out.       *)
(*                                                                         *)
(* The streams clients open are left out: Run stores them under keys no    *)
(* sender uses and, since no onData is ever set, does nothing with them.   *)
(*                                                                         *)
(* CanAcceptOneMore, CanAcceptOneLess, AcceptingMany, KeepEntry and        *)
(* RemoveLate are faulty versions of what follows them, used by nothing.   *)
(***************************************************************************)
EXTENDS Integers, FiniteSets

CONSTANTS
  Conns,       \* the connections that may ever be dialled
  Addrs,       \* remote addresses
  AddrOf,      \* AddrOf[c]: the address of connection c, its session's ID
  MaxClients,  \* Server.maxClients
  None         \* no session

ASSUME RegistryAssumption ==
  /\ IsFiniteSet(Conns)
  /\ AddrOf \in [Conns -> Addrs]
  /\ MaxClients \in Nat
  /\ None \notin Conns

VARIABLES
  stage,          \* how far the server is with each connection
  alive,          \* the connections that are up
  sessions,       \* Server.sessions, by address
  activeClients,  \* Server.activeClients
  crossed         \* history: the connections whose session overlapped with
                  \* another one of the same address

registryVars == <<stage, alive, sessions, activeClients, crossed>>

Stages == {"undialled", "queued", "refused", "admitted", "running", "leaving", "left"}

At(S) == {c \in Conns : stage[c] \in S}

(* Connections the server has taken on and not seen end. *)
Live     == At({"admitted", "running"})
Departed == At({"left"})

RegistryInit ==
  /\ stage = [c \in Conns |-> "undialled"]
  /\ alive = {}
  /\ sessions = [a \in Addrs |-> None]
  /\ activeClients = 0
  /\ crossed = {}
-----------------------------------------------------------------------------
Dial(c) ==
  /\ stage[c] = "undialled"
  /\ stage' = [stage EXCEPT ![c] = "queued"]
  /\ alive' = alive \cup {c}
  /\ UNCHANGED <<sessions, activeClients, crossed>>

(* The connection ends: closed by the client, or timed out. *)
Drop(c) ==
  /\ c \in alive
  /\ alive' = alive \ {c}
  /\ UNCHANGED <<stage, sessions, activeClients, crossed>>

CanAcceptOneMore == activeClients <= MaxClients
CanAcceptOneLess == activeClients < MaxClients - 1
CanAccept        == activeClients < MaxClients

(* The accept loop takes one connection at a time. *)
AcceptingMany(c) == stage[c] = "queued"
Accepting(c) == stage[c] = "queued" /\ At({"admitted"}) = {}

Refuse(c) ==
  /\ Accepting(c)
  /\ ~CanAccept
  /\ stage' = [stage EXCEPT ![c] = "refused"]
  /\ alive' = alive \ {c}
  /\ UNCHANGED <<sessions, activeClients, crossed>>

(* Admitted and counted, but not yet in the map. *)
Admit(c) ==
  /\ Accepting(c)
  /\ CanAccept
  /\ stage' = [stage EXCEPT ![c] = "admitted"]
  /\ activeClients' = activeClients + 1
  /\ UNCHANGED <<alive, sessions, crossed>>

SameAddress(c) == {d \in At({"running"}) : AddrOf[d] = AddrOf[c]}

(* The session enters the map, over any other of its address, and runs. *)
Publish(c) ==
  /\ stage[c] = "admitted"
  /\ stage' = [stage EXCEPT ![c] = "running"]
  /\ sessions' = [sessions EXCEPT ![AddrOf[c]] = c]
  /\ crossed' = IF SameAddress(c) = {} THEN crossed
                ELSE crossed \cup SameAddress(c) \cup {c}
  /\ UNCHANGED <<alive, activeClients>>

(* Run's AcceptStream failed: RemoveSession deletes whatever session its   *)
(* address has and takes the connection off the count ...                  *)
KeepEntry(c)   == sessions
DeleteEntry(c) == [sessions EXCEPT ![AddrOf[c]] = None]

Leave(c) ==
  /\ stage[c] = "running"
  /\ c \notin alive
  /\ stage' = [stage EXCEPT ![c] = "leaving"]
  /\ sessions' = DeleteEntry(c)
  /\ activeClients' = activeClients - 1
  /\ UNCHANGED <<alive, crossed>>

(* ... and the deferred function takes it off once more. *)
RemoveLate(c) ==
  /\ stage[c] = "leaving"
  /\ stage' = [stage EXCEPT ![c] = "left"]
  /\ sessions' = DeleteEntry(c)
  /\ activeClients' = activeClients - 1
  /\ UNCHANGED <<alive, crossed>>

CountAgain(c) ==
  /\ stage[c] = "leaving"
  /\ stage' = [stage EXCEPT ![c] = "left"]
  /\ activeClients' = activeClients - 1
  /\ UNCHANGED <<alive, sessions, crossed>>

RegistryNext ==
  \E c \in Conns :
    \/ Dial(c)
    \/ Drop(c)
    \/ Refuse(c)
    \/ Admit(c)
    \/ Publish(c)
    \/ Leave(c)
    \/ CountAgain(c)

RegistrySpec == RegistryInit /\ [][RegistryNext]_registryVars

(* The goroutines are scheduled; nobody has to dial or hang up. *)
FairRegistrySpec ==
  /\ RegistrySpec
  /\ \A c \in Conns :
       WF_registryVars(Refuse(c) \/ Admit(c) \/ Publish(c) \/ Leave(c) \/ CountAgain(c))
-----------------------------------------------------------------------------
(* Every variable stays in its domain, and only one connection at a time   *)
(* is between the count and the map.                                       *)
RegistryTypeOK ==
  /\ stage \in [Conns -> Stages]
  /\ alive \in SUBSET Conns
  /\ sessions \in [Addrs -> Conns \cup {None}]
  /\ activeClients \in Int
  /\ crossed \in SUBSET Conns
  /\ \A c, d \in At({"admitted"}) : c = d

(* A session in the map is one whose Run goroutine is still there to       *)
(* remove it, under its own address: no lost connection stays listed.      *)
EntryIsRunning ==
  \A a \in Addrs :
    sessions[a] # None => stage[sessions[a]] = "running" /\ AddrOf[sessions[a]] = a

(* A running session can be found by the senders unless its address was    *)
(* shared: RemoveSession deletes by address, and may hit another session.  *)
SessionReachable ==
  \A c \in At({"running"}) \ crossed : sessions[AddrOf[c]] = c

(* The limit on clients is exceeded by no more than one client for each    *)
(* that left, although every departure is counted twice.                   *)
OvershootBounded == Cardinality(Live) <= MaxClients + Cardinality(Departed)

(* A connection is refused only when MaxClients connections are live: the  *)
(* count may run low, never high.                                          *)
NoFalseRefusal ==
  [][\A c \in Conns :
       stage[c] = "queued" /\ stage'[c] = "refused"
         => Cardinality(Live) >= MaxClients]_registryVars

(* A lost connection is forgotten, and nobody waits for ever to be taken   *)
(* on or refused.                                                          *)
LostSessionForgotten ==
  /\ \A c \in Conns :
       stage[c] = "running" /\ c \notin alive ~> \A a \in Addrs : sessions[a] # c
  /\ \A c \in Conns : stage[c] = "queued" ~> stage[c] # "queued"
=============================================================================
