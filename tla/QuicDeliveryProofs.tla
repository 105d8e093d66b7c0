------------------------- MODULE QuicDeliveryProofs -------------------------
(***************************************************************************)
(* Proofs about QuicDelivery, for any number of senders, sessions, queries *)
(* and streams.  The bounds hold because a sender does one thing at a      *)
(* time: between the check of a limit and the count, and between the       *)
(* lookup of a stream and its storage, there are at most as many streams   *)
(* as senders.                                                             *)
(***************************************************************************)
EXTENDS QuicDelivery, SessionRegistryProofs

(* A sender sends for one of its own queries, over sessions that have been *)
(* dialled.                                                                *)
OwnQuery    == \A s \in Senders : pc[s] # "idle" => query[s] \in QueriesOf[s]
SeenDialled == \A s \in Senders : \A c \in seen[s] : stage[c] # "undialled"

(* A session with no room, or one that has lost this sender's query. *)
Useless(s, c) == activeStreams[c] >= MaxStreams \/ query[s] \in stopped[c]

(* A session a sender has left behind is dead or of no use to it. *)
TriedInVain ==
  \A s \in Senders : pc[s] # "idle" =>
    \A c \in (seen[s] \ todo[s]) \cap alive :
      (pc[s] \in InSession /\ c = at[s]) \/ Useless(s, c)

(* The senders between the check of the limit and the count. *)
Adding(c) == {s \in Senders : pc[s] = "add" /\ at[s] = c}

Overshoot ==
  \A c \in Conns :
    \/ activeStreams[c] = 0 /\ Adding(c) = {}
    \/ activeStreams[c] + Cardinality(Adding(c)) < MaxStreams + Cardinality(Senders)

(* The senders that did not find a stream and have not opened one, and     *)
(* those that have opened one and not stored it.                           *)
Opening(c, q) == {s \in Senders : pc[s] \in {"open", "add", "await"} /\ at[s] = c /\ query[s] = q}
Storing(c, q) == {s \in Senders : pc[s] = "store" /\ at[s] = c /\ query[s] = q}
SendersOf(q)  == {s \in Senders : q \in QueriesOf[s]}

OpenedOnce ==
  \A c \in Conns, q \in Queries :
    /\ q \notin streams[c] => opened[c][q] = Cardinality(Storing(c, q))
    /\ opened[c][q] + Cardinality(Opening(c, q)) <= Cardinality(SendersOf(q))

QInv ==
  /\ DeliveryTypeOK
  /\ OwnQuery
  /\ SeenDialled
  /\ TriedInVain
  /\ Overshoot
  /\ OpenedOnce
-----------------------------------------------------------------------------
(* There are finitely many senders anywhere. *)
LEMMA SendersFinite ==
  ASSUME NEW S \in SUBSET Senders
  PROVE  /\ IsFiniteSet(S)
         /\ Cardinality(S) \in Nat
         /\ Cardinality(S) <= Cardinality(Senders)
BY DeliveryAssumption, FS_Subset, FS_CardinalityType

(* The registry does not know of the senders, and goes on as it would      *)
(* without them.                                                           *)
LEMMA RegistryGoesOn == [Next]_deliveryVars => [RegistryNext]_registryVars
BY DEF Next, SenderStep, Send, GiveUp, Try, Lookup, Open, Add, Opened, Store, Written, Fail,
       StopStream, deliveryVars

(* So what SessionRegistryProofs shows holds with the senders too. *)
THEOREM SendersLeaveRegistry == Spec => RegistrySpec
<1>1. Init => RegistryInit
  BY DEF Init
<1> QED
  BY <1>1, RegistryGoesOn, PTL DEF Spec, RegistrySpec

(* What a snapshot holds has been dialled. *)
LEMMA ListedDialled == RInv => \A c \in Listed : c \in Conns /\ stage[c] # "undialled"
BY DEF RInv, RegistryTypeOK, EntryIsRunning, Listed

(* A connection is dialled once: what has been dialled does not come back. *)
LEMMA DialledOnce ==
  ASSUME RegistryTypeOK, [RegistryNext]_registryVars
  PROVE  \A c \in Conns : stage[c] # "undialled" =>
           stage'[c] # "undialled" /\ (c \in alive' => c \in alive)
<1> SUFFICES ASSUME NEW c \in Conns, stage[c] # "undialled"
             PROVE  stage'[c] # "undialled" /\ (c \in alive' => c \in alive)
  OBVIOUS
<1>1. ASSUME NEW d \in Conns,
             Dial(d) \/ Drop(d) \/ Refuse(d) \/ Admit(d) \/ Publish(d) \/ Leave(d) \/ CountAgain(d)
      PROVE  stage'[c] # "undialled" /\ (c \in alive' => c \in alive)
  BY <1>1 DEF Dial, Drop, Refuse, Admit, Publish, Leave, CountAgain, RegistryTypeOK
<1>2. CASE UNCHANGED registryVars
  BY <1>2 DEF registryVars
<1> QED
  BY <1>1, <1>2 DEF RegistryNext
-----------------------------------------------------------------------------
(* A sender's step is its own. *)
LEMMA StepIsLocal ==
  ASSUME DeliveryTypeOK, NEW s \in Senders,
         SenderStep(s) \/ \E q \in QueriesOf[s] : Send(s, q)
  PROVE  /\ UNCHANGED registryVars
         /\ \A t \in Senders \ {s} : /\ pc'[t] = pc[t] /\ query'[t] = query[t]
                                     /\ todo'[t] = todo[t] /\ at'[t] = at[t]
                                     /\ seen'[t] = seen[t]
<1> USE DEF GoTo, MoveOn, Refused, Return, streamVars, DeliveryTypeOK
<1>1. CASE GiveUp(s)
  BY <1>1 DEF GiveUp
<1>2. CASE Try(s)
  BY <1>2 DEF Try
<1>3. CASE Lookup(s)
  BY <1>3 DEF Lookup
<1>4. CASE Open(s)
  BY <1>4 DEF Open
<1>5. CASE Add(s) \/ Opened(s) \/ Store(s)
  BY <1>5 DEF Add, Opened, Store
<1>6. CASE Written(s) \/ Fail(s)
  BY <1>6 DEF Written, Fail
<1>7. CASE \E q \in QueriesOf[s] : Send(s, q)
  BY <1>7 DEF Send
<1> QED
  BY <1>1, <1>2, <1>3, <1>4, <1>5, <1>6, <1>7 DEF SenderStep

(* A sender's snapshot is of connections, and it is inside one of them. *)
LEMMA SnapshotFacts ==
  ASSUME DeliveryTypeOK, NEW s \in Senders
  PROVE  /\ seen[s] \subseteq Conns /\ todo[s] \subseteq seen[s]
         /\ pc[s] \in InSession => at[s] \in seen[s] \ todo[s] /\ at[s] \in Conns
<1>1. seen[s] \subseteq Conns
  BY DEF DeliveryTypeOK
<1>2. todo[s] \subseteq seen[s]
  BY DEF DeliveryTypeOK
<1>3. pc[s] \in InSession => at[s] \in seen[s] \ todo[s]
  BY DEF DeliveryTypeOK
<1> QED
  BY <1>1, <1>2, <1>3

(* A step within a session's SendToQuery: the label changes, or the        *)
(* session is left with an error, or the send is over.                     *)
LEMMA InsideStep ==
  ASSUME DeliveryTypeOK, NEW s \in Senders, pc[s] \in InSession, SenderStep(s)
  PROVE  /\ \/ /\ at'[s] = at[s] /\ todo'[s] = todo[s] /\ seen'[s] = seen[s]
               /\ query'[s] = query[s]
               /\ <<pc[s], pc'[s]>> \in {<<"lookup", "write">>, <<"lookup", "open">>,
                                          <<"open", "add">>, <<"add", "await">>,
                                          <<"await", "store">>, <<"store", "write">>}
            \/ /\ todo'[s] = todo[s] /\ seen'[s] = seen[s] /\ query'[s] = query[s]
               /\ pc'[s] = "pick" /\ at'[s] = None
               /\ at[s] \notin alive \/ Useless(s, at[s])
            \/ /\ pc[s] = "write" /\ pc'[s] = "idle" /\ at[s] \in alive
               /\ query'[s] = None /\ todo'[s] = {} /\ at'[s] = None /\ seen'[s] = {}
<1> USE DEF GoTo, MoveOn, Refused, Return, DeliveryTypeOK, InSession
<1>1. CASE GiveUp(s) \/ Try(s)
  BY <1>1 DEF GiveUp, Try
<1>2. CASE Lookup(s)
  BY <1>2 DEF Lookup
<1>3. CASE Open(s)
  <2>1. at[s] \in Conns
    BY <1>3, SnapshotFacts
  <2>2. activeStreams[at[s]] \in Nat
    BY <2>1
  <2> QED
    BY <1>3, <2>2, DeliveryAssumption DEF Open, CanOpenStream, Useless
<1>4. CASE Add(s)
  BY <1>4 DEF Add
<1>5. CASE Opened(s)
  BY <1>5 DEF Opened
<1>6. CASE Store(s)
  BY <1>6 DEF Store
<1>7. CASE Written(s)
  BY <1>7 DEF Written
<1>8. CASE Fail(s)
  BY <1>8 DEF Fail, Broken, MayBeStopped, Useless
<1> QED
  BY <1>1, <1>2, <1>3, <1>4, <1>5, <1>6, <1>7, <1>8 DEF SenderStep

(* Where a sender is, as a session and a query. *)
LEMMA InsideFacts ==
  ASSUME QInv, NEW s \in Senders, pc[s] \in InSession
  PROVE  at[s] \in Conns /\ at[s] \in seen[s] \ todo[s] /\ query[s] \in Queries
<1>1. pc[s] # "idle" /\ QueriesOf[s] \subseteq Queries
  BY DeliveryAssumption DEF InSession
<1>2. query[s] \in Queries
  BY <1>1 DEF QInv, OwnQuery
<1> QED
  BY <1>2, SnapshotFacts DEF QInv

(* Every step keeps every variable in its domain. *)
LEMMA SenderTypeStep ==
  ASSUME QInv, RInv, NEW s \in Senders, SenderStep(s) \/ \E q \in QueriesOf[s] : Send(s, q)
  PROVE  DeliveryTypeOK'
<1> USE DEF GoTo, MoveOn, Refused, Return, streamVars, InSession
<1>0. DeliveryTypeOK
  BY DEF QInv
<1>1. CASE GiveUp(s) \/ Written(s)
  <2>1. UNCHANGED <<streams, opened, stopped, activeStreams>>
    BY <1>1 DEF GiveUp, Written
  <2>2. /\ pc' = [pc EXCEPT ![s] = "idle"] /\ query' = [query EXCEPT ![s] = None]
        /\ todo' = [todo EXCEPT ![s] = {}] /\ at' = [at EXCEPT ![s] = None]
        /\ seen' = [seen EXCEPT ![s] = {}]
    BY <1>1 DEF GiveUp, Written
  <2> QED
    BY <1>0, <2>1, <2>2 DEF DeliveryTypeOK
<1>9. CASE Fail(s)
  <2>1. UNCHANGED <<streams, opened, stopped, activeStreams, query, todo, seen>>
    BY <1>9 DEF Fail
  <2>2. pc' = [pc EXCEPT ![s] = "pick"] /\ at' = [at EXCEPT ![s] = None]
    BY <1>9 DEF Fail
  <2> QED
    BY <1>0, <2>1, <2>2 DEF DeliveryTypeOK
<1>2. CASE Try(s)
  <2>1. PICK d \in todo[s] :
          /\ todo' = [todo EXCEPT ![s] = todo[s] \ {d}]
          /\ \/ pc' = [pc EXCEPT ![s] = "lookup"] /\ at' = [at EXCEPT ![s] = d]
             \/ UNCHANGED <<pc, at>>
    BY <1>2 DEF Try
  <2>2. UNCHANGED <<query, seen, streams, opened, stopped, activeStreams>> /\ pc[s] = "pick"
    BY <1>2 DEF Try
  <2>3. d \in Conns /\ todo' \in [Senders -> SUBSET Conns]
    BY <1>0, <2>1, SnapshotFacts DEF DeliveryTypeOK
  <2>4. /\ pc' \in [Senders -> {"idle", "pick"} \cup InSession]
        /\ at' \in [Senders -> Conns \cup {None}]
    <3>1. /\ pc \in [Senders -> {"idle", "pick"} \cup InSession]
          /\ at \in [Senders -> Conns \cup {None}]
      BY <1>0 DEF DeliveryTypeOK
    <3>2. CASE UNCHANGED <<pc, at>>
      BY <3>1, <3>2
    <3>3. CASE pc' = [pc EXCEPT ![s] = "lookup"] /\ at' = [at EXCEPT ![s] = d]
      BY <2>3, <3>1, <3>3
    <3> QED
      BY <2>1, <3>2, <3>3
  <2>5. ASSUME NEW t \in Senders
        PROVE  /\ todo'[t] \subseteq seen'[t]
               /\ pc'[t] \in InSession => at'[t] \in seen'[t] \ todo'[t]
    <3>1. CASE t # s
      <4>1. todo'[t] = todo[t] /\ seen'[t] = seen[t] /\ pc'[t] = pc[t] /\ at'[t] = at[t]
        BY <1>0, <2>1, <2>2, <3>1 DEF DeliveryTypeOK
      <4> QED
        BY <1>0, <4>1, SnapshotFacts
    <3>2. CASE t = s
      <4>1. todo'[s] = todo[s] \ {d} /\ seen'[s] = seen[s] /\ d \in seen[s]
        BY <1>0, <2>1, <2>2, SnapshotFacts DEF DeliveryTypeOK
      <4>2. pc'[s] \in InSession => at'[s] = d
        BY <1>0, <2>1, <2>2 DEF DeliveryTypeOK
      <4> QED
        BY <1>0, <3>2, <4>1, <4>2, SnapshotFacts
    <3> QED
      BY <3>1, <3>2
  <2> QED
    BY <1>0, <2>2, <2>3, <2>4, <2>5 DEF DeliveryTypeOK
<1>3. CASE Lookup(s)
  BY <1>0, <1>3 DEF Lookup, DeliveryTypeOK
<1>4. CASE Open(s)
  BY <1>0, <1>4 DEF Open, DeliveryTypeOK
<1>5. CASE Add(s)
  BY <1>0, <1>5, InsideFacts DEF Add, CountOne, DeliveryTypeOK
<1>6. CASE Opened(s)
  <2>1. at[s] \in Conns /\ query[s] \in Queries
    BY <1>6, InsideFacts DEF Opened
  <2> DEFINE row == [opened[at[s]] EXCEPT ![query[s]] = opened[at[s]][query[s]] + 1]
  <2>2. opened' = [opened EXCEPT ![at[s]] = row]
    BY <1>6 DEF Opened
  <2>3. opened' \in [Conns -> [Queries -> Nat]]
    <3>1. opened \in [Conns -> [Queries -> Nat]]
      BY <1>0 DEF DeliveryTypeOK
    <3>2. row \in [Queries -> Nat]
      BY <2>1, <3>1
    <3> HIDE DEF row
    <3> QED
      BY <2>1, <2>2, <3>1, <3>2
  <2> QED
    BY <1>0, <1>6, <2>3 DEF Opened, DeliveryTypeOK
<1>7. CASE Store(s)
  <2>1. at[s] \in Conns /\ query[s] \in Queries
    BY <1>7, InsideFacts DEF Store
  <2> QED
    BY <1>0, <1>7, <2>1 DEF Store, DeliveryTypeOK
<1>8. CASE \E q \in QueriesOf[s] : Send(s, q)
  <2>1. QueriesOf[s] \subseteq Queries
    BY DeliveryAssumption
  <2>2. Listed \subseteq Conns
    BY ListedDialled
  <2> QED
    BY <1>0, <1>8, <2>1, <2>2 DEF Send, DeliveryTypeOK
<1> QED
  BY <1>1, <1>2, <1>3, <1>4, <1>5, <1>6, <1>7, <1>8, <1>9 DEF SenderStep

(* Senders stay with their queries and with sessions that were dialled. *)
LEMMA OwnStep ==
  ASSUME QInv, RInv, NEW s \in Senders, SenderStep(s) \/ \E q \in QueriesOf[s] : Send(s, q)
  PROVE  OwnQuery' /\ SeenDialled'
<1> USE DEF GoTo
<1>0. DeliveryTypeOK /\ OwnQuery /\ SeenDialled
  BY DEF QInv
<1>1. stage' = stage /\ \A t \in Senders \ {s} :
        pc'[t] = pc[t] /\ query'[t] = query[t] /\ seen'[t] = seen[t]
  BY <1>0, StepIsLocal DEF registryVars
<1>2. \/ pc'[s] = "idle" /\ seen'[s] = {}
      \/ pc[s] # "idle" /\ query'[s] = query[s] /\ seen'[s] = seen[s]
      \/ query'[s] \in QueriesOf[s] /\ seen'[s] = Listed
  <2>1. CASE pc[s] \in InSession /\ SenderStep(s)
    <3>1. pc[s] # "idle"
      BY <2>1 DEF InSession
    <3> QED
      BY <1>0, <2>1, <3>1, InsideStep
  <2>2. CASE GiveUp(s)
    BY <1>0, <2>2 DEF GiveUp, Return, DeliveryTypeOK
  <2>3. CASE Try(s)
    BY <2>3 DEF Try
  <2>4. CASE \E q \in QueriesOf[s] : Send(s, q)
    BY <1>0, <2>4 DEF Send, DeliveryTypeOK
  <2>5. SenderStep(s) /\ pc[s] \notin InSession => GiveUp(s) \/ Try(s)
    BY DEF SenderStep, Lookup, Open, Add, Opened, Store, Written, Fail, Broken, InSession
  <2> QED
    BY <2>1, <2>2, <2>3, <2>4, <2>5
<1>3. OwnQuery'
  BY <1>0, <1>1, <1>2 DEF OwnQuery
<1>4. SeenDialled'
  <2>1. \A c \in seen'[s] : stage[c] # "undialled"
    BY <1>0, <1>2, ListedDialled DEF SeenDialled
  <2> QED
    BY <1>0, <1>1, <2>1 DEF SeenDialled
<1> QED
  BY <1>3, <1>4

(* The steps outside a session. *)
LEMMA OutsideStep ==
  ASSUME NEW s \in Senders, SenderStep(s), pc[s] \notin InSession
  PROVE  GiveUp(s) \/ Try(s)
BY DEF SenderStep, Lookup, Open, Add, Opened, Store, Written, Fail, Broken, InSession

(* It is the clients that stop streams. *)
LEMMA SendersStopNothing ==
  ASSUME NEW s \in Senders, SenderStep(s) \/ \E q \in QueriesOf[s] : Send(s, q)
  PROVE  stopped' = stopped
BY DEF SenderStep, Send, GiveUp, Try, Lookup, Open, Add, Opened, Store, Written, Fail, streamVars

(* Limits that are reached stay reached. *)
LEMMA CountsGrow ==
  ASSUME QInv, NEW s \in Senders, SenderStep(s) \/ \E q \in QueriesOf[s] : Send(s, q)
  PROVE  \A c \in Conns : activeStreams[c] >= MaxStreams => activeStreams'[c] >= MaxStreams
<1>0. activeStreams \in [Conns -> Nat] /\ MaxStreams \in Nat
  BY DeliveryAssumption DEF QInv, DeliveryTypeOK
<1>1. CASE Add(s)
  <2>1. activeStreams' = [activeStreams EXCEPT ![at[s]] = activeStreams[at[s]] + 1]
    BY <1>1 DEF Add, CountOne
  <2> QED
    BY <1>0, <2>1
<1>2. CASE ~Add(s)
  <2>1. activeStreams' = activeStreams
    BY <1>2 DEF SenderStep, Send, GiveUp, Try, Lookup, Open, Opened, Store, Written, Fail, streamVars
  <2> QED
    BY <1>0, <2>1
<1> QED
  BY <1>1, <1>2

(* What a sender leaves behind it has tried in vain. *)
LEMMA TriedStep ==
  ASSUME QInv, NEW s \in Senders, SenderStep(s) \/ \E q \in QueriesOf[s] : Send(s, q)
  PROVE  TriedInVain'
<1>0. DeliveryTypeOK /\ TriedInVain
  BY DEF QInv
<1>1. alive' = alive /\ stopped' = stopped /\ \A t \in Senders \ {s} :
        /\ pc'[t] = pc[t] /\ todo'[t] = todo[t] /\ at'[t] = at[t] /\ seen'[t] = seen[t]
        /\ query'[t] = query[t]
  BY <1>0, StepIsLocal, SendersStopNothing DEF registryVars
<1>t. \A t \in Senders : seen[t] \subseteq Conns
  BY <1>0 DEF DeliveryTypeOK
<1>2. ASSUME NEW t \in Senders \ {s}, pc'[t] # "idle", NEW c \in (seen'[t] \ todo'[t]) \cap alive'
      PROVE  (pc'[t] \in InSession /\ c = at'[t]) \/ Useless(t, c)'
  BY <1>0, <1>1, <1>2, <1>t, CountsGrow DEF TriedInVain, Useless
<1>3. ASSUME pc'[s] # "idle", NEW c \in (seen'[s] \ todo'[s]) \cap alive'
      PROVE  (pc'[s] \in InSession /\ c = at'[s]) \/ Useless(s, c)'
  <2>1. CASE pc[s] \in InSession /\ SenderStep(s)
    <3>1. pc[s] # "idle"
      BY <2>1 DEF InSession
    <3>2. /\ todo'[s] = todo[s] /\ seen'[s] = seen[s] /\ query'[s] = query[s]
          /\ \/ at'[s] = at[s] /\ pc'[s] \in InSession
             \/ at[s] \notin alive \/ Useless(s, at[s])
      BY <1>0, <1>3, <2>1, InsideStep DEF InSession
    <3>3. c = at[s] \/ Useless(s, c)
      BY <1>0, <1>1, <1>3, <3>1, <3>2 DEF TriedInVain
    <3> QED
      BY <1>1, <1>3, <1>t, <3>2, <3>3, CountsGrow DEF Useless
  <2>2. CASE GiveUp(s)
    BY <1>0, <1>3, <2>2 DEF GiveUp, Return, GoTo, DeliveryTypeOK
  <2>3. CASE Try(s)
    <3>1. PICK d \in todo[s] :
            /\ todo' = [todo EXCEPT ![s] = @ \ {d}]
            /\ IF CanOpenStream(d)
               THEN GoTo(s, "lookup") /\ at' = [at EXCEPT ![s] = d]
               ELSE UNCHANGED <<pc, at>>
      BY <2>3 DEF Try
    <3>2. /\ seen' = seen /\ activeStreams' = activeStreams /\ query' = query
          /\ pc[s] = "pick"
      BY <2>3 DEF Try, streamVars
    <3>3. todo'[s] = todo[s] \ {d} /\ d \in Conns
      BY <1>0, <3>1 DEF DeliveryTypeOK
    <3>4. c # d => Useless(s, c)
      BY <1>0, <1>1, <1>3, <3>2, <3>3 DEF TriedInVain, InSession
    <3>5. CASE CanOpenStream(d)
      <4>1. pc'[s] = "lookup" /\ at'[s] = d
        BY <1>0, <3>1, <3>5 DEF GoTo, DeliveryTypeOK
      <4> QED
        BY <1>1, <3>2, <3>4, <4>1 DEF InSession, Useless
    <3>6. CASE ~CanOpenStream(d)
      <4>1. activeStreams[d] \in Nat
        BY <1>0, <3>3 DEF DeliveryTypeOK
      <4>2. activeStreams[d] >= MaxStreams
        BY <3>6, <4>1, DeliveryAssumption DEF CanOpenStream
      <4> QED
        BY <1>1, <3>2, <3>4, <4>2 DEF Useless
    <3> QED
      BY <3>5, <3>6
  <2>4. CASE \E q \in QueriesOf[s] : Send(s, q)
    BY <1>0, <1>3, <2>4 DEF Send, DeliveryTypeOK
  <2> QED
    BY <2>1, <2>2, <2>3, <2>4, OutsideStep
<1> QED
  BY <1>2, <1>3 DEF TriedInVain
-----------------------------------------------------------------------------
(* At most one stream for each sender comes between check and count. *)
LEMMA OvershootStep ==
  ASSUME QInv, NEW s \in Senders, SenderStep(s) \/ \E q \in QueriesOf[s] : Send(s, q)
  PROVE  Overshoot'
<1> SUFFICES ASSUME NEW c \in Conns
             PROVE  \/ activeStreams'[c] = 0 /\ Adding(c)' = {}
                    \/ activeStreams'[c] + Cardinality(Adding(c)')
                         < MaxStreams + Cardinality(Senders)
  BY DEF Overshoot
<1> DEFINE A == Adding(c)
<1>0. DeliveryTypeOK /\ activeStreams \in [Conns -> Nat] /\ activeStreams[c] \in Nat
      /\ MaxStreams \in Nat
  BY DeliveryAssumption DEF QInv, DeliveryTypeOK
<1>1. \/ activeStreams[c] = 0 /\ A = {}
      \/ activeStreams[c] + Cardinality(A) < MaxStreams + Cardinality(Senders)
  BY DEF QInv, Overshoot
<1>c. \A S \in SUBSET Senders : Cardinality(S) \in Nat /\ Cardinality(S) <= Cardinality(Senders)
  BY SendersFinite
<1>l. \A t \in Senders \ {s} : pc'[t] = pc[t] /\ at'[t] = at[t]
  BY <1>0, StepIsLocal
<1>2. ASSUME activeStreams'[c] = activeStreams[c], Adding(c)' \subseteq A
      PROVE  \/ activeStreams'[c] = 0 /\ Adding(c)' = {}
             \/ activeStreams'[c] + Cardinality(Adding(c)') < MaxStreams + Cardinality(Senders)
  <2>1. IsFiniteSet(A) /\ Cardinality(A) \in Nat /\ A \subseteq Senders
    BY SendersFinite DEF Adding
  <2>2. Cardinality(Adding(c)') <= Cardinality(A) /\ Cardinality(Adding(c)') \in Nat
    BY <1>2, <1>c, <2>1, FS_Subset
  <2>3. Cardinality(Senders) \in Nat
    BY <1>c
  <2> HIDE DEF A
  <2> QED
    BY <1>0, <1>1, <1>2, <2>1, <2>2, <2>3
<1>3. CASE pc'[s] # "add" /\ ~Add(s)
  <2>1. activeStreams' = activeStreams
    BY <1>3 DEF SenderStep, Send, GiveUp, Try, Lookup, Open, Opened, Store, Written, Fail, streamVars
  <2>2. Adding(c)' \subseteq A
    BY <1>3, <1>l DEF Adding
  <2> QED
    BY <1>2, <2>1, <2>2
<1>4. CASE Add(s)
  <2>1. pc[s] = "add" /\ pc'[s] = "await" /\ at'[s] = at[s] /\ at[s] \in Conns
    BY <1>0, <1>4, InsideFacts DEF Add, MoveOn, GoTo, DeliveryTypeOK, InSession
  <2>2. activeStreams' = [activeStreams EXCEPT ![at[s]] = activeStreams[at[s]] + 1]
    BY <1>4 DEF Add, CountOne
  <2>3. Adding(c)' = A \ {s}
    BY <1>l, <2>1 DEF Adding
  <2>4. CASE at[s] # c
    BY <1>0, <1>2, <2>1, <2>2, <2>3, <2>4
  <2>5. CASE at[s] = c
    <3>1. s \in A /\ IsFiniteSet(A)
      BY <2>1, <2>5, SendersFinite DEF Adding
    <3>2. Cardinality(A \ {s}) = Cardinality(A) - 1
      BY <3>1, FS_RemoveElement
    <3>3. activeStreams'[c] = activeStreams[c] + 1
      BY <1>0, <2>2, <2>5
    <3>4. Cardinality(A) \in Nat /\ Cardinality(Senders) \in Nat
      BY <1>c DEF Adding
    <3> HIDE DEF A
    <3> QED
      BY <1>0, <1>1, <2>3, <3>1, <3>2, <3>3, <3>4
  <2> QED
    BY <2>4, <2>5
<1>5. CASE pc'[s] = "add" /\ ~Add(s)
  <2>1. CASE pc[s] \in InSession /\ SenderStep(s)
    <3>1. pc[s] = "open" /\ at'[s] = at[s]
      BY <1>0, <1>5, <2>1, InsideStep
    <3>2. Open(s)
      BY <2>1, <3>1 DEF SenderStep, GiveUp, Try, Lookup, Add, Opened, Store, Written, Fail, Broken
    <3>3. CanOpenStream(at[s]) /\ activeStreams' = activeStreams
      BY <1>0, <1>5, <3>2 DEF Open, Refused, GoTo, streamVars, DeliveryTypeOK
    <3>4. CASE at[s] # c
      <4>1. Adding(c)' \subseteq A
        BY <1>l, <3>1, <3>4 DEF Adding
      <4> QED
        BY <1>2, <3>3, <4>1
    <3>5. CASE at[s] = c
      <4>1. activeStreams'[c] < MaxStreams
        BY <3>3, <3>5 DEF CanOpenStream
      <4>2. Cardinality(Adding(c)') \in Nat /\ Cardinality(Adding(c)') <= Cardinality(Senders)
            /\ Cardinality(Senders) \in Nat
        <5>1. Adding(c)' \in SUBSET Senders
          BY DEF Adding
        <5> QED
          BY <1>c, <5>1
      <4> QED
        BY <1>0, <3>3, <4>1, <4>2
    <3> QED
      BY <3>4, <3>5
  <2>2. ~GiveUp(s) /\ ~Try(s) /\ \A q \in QueriesOf[s] : ~Send(s, q)
    BY <1>0, <1>5 DEF GiveUp, Try, Send, Return, GoTo, DeliveryTypeOK
  <2> QED
    BY <2>1, <2>2, OutsideStep
<1> QED
  BY <1>3, <1>4, <1>5

(* A query's stream is opened by senders that found none, and found by     *)
(* everyone once it is stored.                                             *)
LEMMA OpenedStep ==
  ASSUME QInv, NEW s \in Senders, SenderStep(s) \/ \E q \in QueriesOf[s] : Send(s, q)
  PROVE  OpenedOnce'
<1> SUFFICES ASSUME NEW c \in Conns, NEW q \in Queries
             PROVE  /\ q \notin streams'[c] => opened'[c][q] = Cardinality(Storing(c, q)')
                    /\ opened'[c][q] + Cardinality(Opening(c, q)') <= Cardinality(SendersOf(q))
  BY DEF OpenedOnce, SendersOf
<1> DEFINE W == Opening(c, q)
           S == Storing(c, q)
<1>0. DeliveryTypeOK
  BY DEF QInv
<1>n. opened[c][q] \in Nat
  BY <1>0 DEF DeliveryTypeOK
<1>1. /\ q \notin streams[c] => opened[c][q] = Cardinality(S)
      /\ opened[c][q] + Cardinality(W) <= Cardinality(SendersOf(q))
  BY DEF QInv, OpenedOnce
<1>f. /\ IsFiniteSet(W) /\ Cardinality(W) \in Nat
      /\ IsFiniteSet(S) /\ Cardinality(S) \in Nat
      /\ IsFiniteSet(SendersOf(q)) /\ Cardinality(SendersOf(q)) \in Nat
  BY SendersFinite DEF Opening, Storing, SendersOf
<1>l. \A t \in Senders \ {s} : pc'[t] = pc[t] /\ at'[t] = at[t] /\ query'[t] = query[t]
  BY <1>0, StepIsLocal
<1>2. ASSUME streams'[c] = streams[c], opened'[c][q] = opened[c][q],
             Storing(c, q)' = S, Opening(c, q)' \subseteq W
      PROVE  /\ q \notin streams'[c] => opened'[c][q] = Cardinality(Storing(c, q)')
             /\ opened'[c][q] + Cardinality(Opening(c, q)') <= Cardinality(SendersOf(q))
  <2>1. Cardinality(Opening(c, q)') <= Cardinality(W) /\ Cardinality(Opening(c, q)') \in Nat
    BY <1>2, <1>f, FS_Subset, FS_CardinalityType
  <2> HIDE DEF W, S
  <2> QED
    BY <1>1, <1>2, <1>f, <1>n, <2>1
<1>3. ASSUME ~Opened(s), ~Store(s)
      PROVE  UNCHANGED <<streams, opened>>
  BY <1>3 DEF SenderStep, Send, GiveUp, Try, Lookup, Open, Add, Written, Fail, streamVars
<1>4. CASE pc[s] \notin InSession
  <2>1. pc'[s] \in {"idle", "pick", "lookup"}
    BY <1>0, <1>4, OutsideStep DEF GiveUp, Try, Send, Return, GoTo, DeliveryTypeOK, InSession
  <2>2. Storing(c, q)' = S /\ Opening(c, q)' = W
    BY <1>4, <1>l, <2>1 DEF Storing, Opening, InSession
  <2>3. ~Opened(s) /\ ~Store(s)
    BY <1>4 DEF Opened, Store, InSession
  <2> QED
    BY <1>2, <1>3, <2>2, <2>3
<1> SUFFICES ASSUME pc[s] \in InSession, SenderStep(s)
             PROVE  /\ q \notin streams'[c] => opened'[c][q] = Cardinality(Storing(c, q)')
                    /\ opened'[c][q] + Cardinality(Opening(c, q)') <= Cardinality(SendersOf(q))
  BY <1>4 DEF Send, InSession
<1>5. at[s] \in Conns /\ query[s] \in Queries /\ query[s] \in QueriesOf[s]
  BY InsideFacts DEF QInv, OwnQuery, InSession
<1>6. CASE ~Opened(s) /\ ~Store(s) /\ ~(pc[s] = "lookup" /\ pc'[s] = "open")
  <2>1. /\ pc'[s] # "store" /\ pc[s] # "store"
        /\ pc'[s] \in {"open", "add", "await"} =>
             pc[s] \in {"open", "add", "await"} /\ at'[s] = at[s] /\ query'[s] = query[s]
    <3>1. pc[s] # "store"
      BY <1>6 DEF SenderStep, GiveUp, Try, Lookup, Open, Add, Written, Fail, Broken
    <3>2. ~(pc[s] = "await" /\ pc'[s] = "store")
      <4>1. pc[s] = "await" => Fail(s)
        BY <1>6 DEF SenderStep, GiveUp, Try, Lookup, Open, Add, Written
      <4> QED
        BY <1>0, <4>1 DEF Fail, Refused, GoTo, DeliveryTypeOK
    <3> QED
      BY <1>0, <1>6, <3>1, <3>2, InsideStep
  <2>2. Storing(c, q)' = S
    BY <1>l, <2>1 DEF Storing
  <2>3. Opening(c, q)' \subseteq W
    BY <1>l, <2>1 DEF Opening
  <2> QED
    BY <1>2, <1>3, <1>6, <2>2, <2>3
<1>7. CASE pc[s] = "lookup" /\ pc'[s] = "open"
  <2>1. Lookup(s)
    BY <1>7 DEF SenderStep, GiveUp, Try, Open, Add, Opened, Store, Written, Fail, Broken
  <2>2. /\ UNCHANGED <<streams, opened, at, query>>
        /\ query[s] \notin streams[at[s]]
    BY <1>0, <1>7, <2>1 DEF Lookup, MoveOn, GoTo, HasStream, streamVars, DeliveryTypeOK
  <2>3. Storing(c, q)' = S
    BY <1>7, <1>l, <2>2 DEF Storing
  <2>4. CASE at[s] = c /\ query[s] = q
    <3>1. Opening(c, q)' = W \cup {s} /\ s \notin W /\ s \notin S
      BY <1>7, <1>l, <2>2, <2>4 DEF Opening, Storing
    <3>2. Cardinality(W \cup {s}) = Cardinality(W) + 1 /\ IsFiniteSet(W \cup {s})
      BY <1>f, <3>1, FS_AddElement
    <3>3. S \cap (W \cup {s}) = {}
      BY <3>1 DEF Opening, Storing
    <3>4. Cardinality(S \cup (W \cup {s})) = Cardinality(S) + (Cardinality(W) + 1)
      <4>1. Cardinality(S \cup (W \cup {s}))
              = Cardinality(S) + Cardinality(W \cup {s}) - Cardinality(S \cap (W \cup {s}))
        BY <1>f, <3>2, FS_Union
      <4>2. Cardinality(S \cap (W \cup {s})) = 0
        BY <3>3, FS_EmptySet
      <4> HIDE DEF W, S
      <4> QED
        BY <1>f, <3>2, <4>1, <4>2
    <3>5. S \cup (W \cup {s}) \subseteq SendersOf(q)
      <4>1. \A t \in S \cup W : t \in Senders /\ pc[t] # "idle" /\ query[t] = q
        BY DEF Opening, Storing
      <4>2. \A t \in S \cup W : t \in SendersOf(q)
        BY <4>1 DEF QInv, OwnQuery, SendersOf
      <4>3. s \in SendersOf(q)
        BY <1>5, <2>4 DEF SendersOf
      <4> QED
        BY <4>2, <4>3
    <3>6. Cardinality(S) + (Cardinality(W) + 1) <= Cardinality(SendersOf(q))
      BY <1>f, <3>4, <3>5, FS_Subset
    <3>7. opened[c][q] = Cardinality(S)
      BY <1>1, <2>2, <2>4
    <3> HIDE DEF W, S
    <3> QED
      BY <1>f, <2>2, <2>3, <3>1, <3>2, <3>6, <3>7
  <2>5. CASE ~(at[s] = c /\ query[s] = q)
    <3>1. Opening(c, q)' = W
      BY <1>7, <1>l, <2>2, <2>5 DEF Opening
    <3> QED
      BY <1>2, <2>2, <2>3, <3>1
  <2> QED
    BY <2>4, <2>5
<1>8. CASE Opened(s)
  <2>1. /\ pc[s] = "await" /\ pc'[s] = "store" /\ UNCHANGED <<streams, at, query>>
    BY <1>0, <1>8 DEF Opened, MoveOn, GoTo, DeliveryTypeOK
  <2>2. opened'[c][q] = IF at[s] = c /\ query[s] = q THEN opened[c][q] + 1 ELSE opened[c][q]
    <3> DEFINE row == [opened[at[s]] EXCEPT ![query[s]] = opened[at[s]][query[s]] + 1]
    <3>1. opened' = [opened EXCEPT ![at[s]] = row]
      BY <1>8 DEF Opened
    <3>2. opened \in [Conns -> [Queries -> Nat]]
      BY <1>0 DEF DeliveryTypeOK
    <3>3. row[q] = IF query[s] = q THEN opened[at[s]][q] + 1 ELSE opened[at[s]][q]
      BY <1>5, <3>2
    <3>4. opened'[c] = IF at[s] = c THEN row ELSE opened[c]
      <4> HIDE DEF row
      <4> QED
        BY <1>5, <3>1, <3>2
    <3> HIDE DEF row
    <3> QED
      BY <3>3, <3>4
  <2>3. CASE at[s] = c /\ query[s] = q
    <3>1. /\ Opening(c, q)' = W \ {s} /\ s \in W
          /\ Storing(c, q)' = S \cup {s} /\ s \notin S
      BY <1>l, <2>1, <2>3 DEF Opening, Storing
    <3>2. Cardinality(W \ {s}) = Cardinality(W) - 1 /\ Cardinality(S \cup {s}) = Cardinality(S) + 1
      BY <1>f, <3>1, FS_AddElement, FS_RemoveElement
    <3> HIDE DEF W, S
    <3> QED
      BY <1>1, <1>f, <1>n, <2>1, <2>2, <2>3, <3>1, <3>2
  <2>4. CASE ~(at[s] = c /\ query[s] = q)
    <3>1. Opening(c, q)' = W /\ Storing(c, q)' = S
      BY <1>l, <2>1, <2>4 DEF Opening, Storing
    <3>2. opened'[c][q] = opened[c][q]
      BY <2>2, <2>4
    <3> QED
      BY <1>2, <2>1, <3>1, <3>2
  <2> QED
    BY <2>3, <2>4
<1>9. CASE Store(s)
  <2>1. /\ pc[s] = "store" /\ pc'[s] = "write" /\ UNCHANGED <<opened, at, query>>
        /\ streams' = [streams EXCEPT ![at[s]] = streams[at[s]] \cup {query[s]}]
    BY <1>0, <1>9 DEF Store, MoveOn, GoTo, DeliveryTypeOK
  <2>2. streams'[c] = IF at[s] = c THEN streams[c] \cup {query[s]} ELSE streams[c]
    BY <1>0, <1>5, <2>1 DEF DeliveryTypeOK
  <2>3. Opening(c, q)' = W
    BY <1>l, <2>1 DEF Opening
  <2>4. ~(at[s] = c /\ query[s] = q) => Storing(c, q)' = S
    BY <1>l, <2>1 DEF Storing
  <2>5. at[s] = c /\ query[s] = q => q \in streams'[c]
    BY <2>2
  <2>6. q \in streams[c] => q \in streams'[c]
    BY <2>2
  <2> HIDE DEF W, S
  <2> QED
    BY <1>1, <2>1, <2>3, <2>4, <2>5, <2>6
<1> QED
  BY <1>6, <1>7, <1>8, <1>9
-----------------------------------------------------------------------------
LEMMA InitQInv == Init => QInv
<1> SUFFICES ASSUME Init PROVE QInv
  OBVIOUS
<1>1. DeliveryTypeOK
  BY DEF Init, DeliveryTypeOK, InSession
<1>2. OwnQuery /\ SeenDialled /\ TriedInVain
  BY DEF Init, OwnQuery, SeenDialled, TriedInVain
<1>3. Overshoot
  BY DEF Init, Overshoot, Adding
<1>4. OpenedOnce
  <2> SUFFICES ASSUME NEW c \in Conns, NEW q \in Queries
               PROVE  /\ opened[c][q] = Cardinality(Storing(c, q))
                      /\ opened[c][q] + Cardinality(Opening(c, q)) <= Cardinality(SendersOf(q))
    BY DEF OpenedOnce
  <2>1. Storing(c, q) = {} /\ Opening(c, q) = {}
    BY DEF Init, Storing, Opening
  <2>2. opened[c][q] = 0
    BY DEF Init
  <2>3. Cardinality(SendersOf(q)) \in Nat
    BY SendersFinite DEF SendersOf
  <2>4. Cardinality(Storing(c, q)) = 0 /\ Cardinality(Opening(c, q)) = 0
    BY <2>1, FS_EmptySet
  <2> QED
    BY <2>2, <2>3, <2>4
<1> QED
  BY <1>1, <1>2, <1>3, <1>4 DEF QInv

(* A step of the registry leaves the senders to what they know: a session  *)
(* they tried may die, and none comes back.                                *)
LEMMA RegistryKeepsQInv ==
  ASSUME QInv, RInv, [RegistryNext]_registryVars, UNCHANGED <<sendVars, streamVars>>
  PROVE  QInv'
<1> USE DEF sendVars, streamVars
<1>0. RegistryTypeOK /\ \A s \in Senders : seen[s] \subseteq Conns
  BY DEF RInv, QInv, DeliveryTypeOK
<1>1. DeliveryTypeOK'
  BY DEF QInv, DeliveryTypeOK
<1>2. OwnQuery'
  BY DEF QInv, OwnQuery
<1>3. SeenDialled'
  BY <1>0, DialledOnce DEF QInv, SeenDialled
<1>4. TriedInVain'
  BY <1>0, DialledOnce DEF QInv, SeenDialled, TriedInVain, Useless
<1>5. Overshoot'
  BY DEF QInv, Overshoot, Adding
<1>6. OpenedOnce'
  BY DEF QInv, OpenedOnce, Storing, Opening, SendersOf
<1> QED
  BY <1>1, <1>2, <1>3, <1>4, <1>5, <1>6 DEF QInv

(* A client that stops a stream takes a session away from a query, and     *)
(* changes nothing else.                                                   *)
LEMMA StopKeepsQInv ==
  ASSUME QInv, NEW c \in Conns, NEW q \in Queries, StopStream(c, q)
  PROVE  QInv'
<1> USE DEF sendVars, registryVars
<1>1. /\ stopped' = [stopped EXCEPT ![c] = stopped[c] \cup {q}]
      /\ UNCHANGED <<registryVars, sendVars, streams, opened, activeStreams>>
  BY DEF StopStream
<1>2. stopped \in [Conns -> SUBSET Queries]
  BY DEF QInv, DeliveryTypeOK
<1>3. DeliveryTypeOK'
  BY <1>1, <1>2 DEF QInv, DeliveryTypeOK
<1>4. OwnQuery' /\ SeenDialled'
  BY <1>1 DEF QInv, OwnQuery, SeenDialled
<1>5. TriedInVain'
  <2>1. \A d \in Conns : stopped[d] \subseteq stopped'[d]
    BY <1>1, <1>2
  <2>2. \A s \in Senders : seen[s] \subseteq Conns
    BY DEF QInv, DeliveryTypeOK
  <2> QED
    BY <1>1, <2>1, <2>2 DEF QInv, TriedInVain, Useless
<1>6. Overshoot'
  BY <1>1 DEF QInv, Overshoot, Adding
<1>7. OpenedOnce'
  BY <1>1 DEF QInv, OpenedOnce, Storing, Opening, SendersOf
<1> QED
  BY <1>3, <1>4, <1>5, <1>6, <1>7 DEF QInv

THEOREM QuicInvariance == Spec => [](QInv /\ RInv)
<1>1. QInv /\ RInv /\ [Next]_deliveryVars => QInv'
  <2> SUFFICES ASSUME QInv, RInv, [Next]_deliveryVars
               PROVE  QInv'
    OBVIOUS
  <2>1. CASE RegistryNext /\ UNCHANGED <<sendVars, streamVars>>
    BY <2>1, RegistryKeepsQInv
  <2>2. CASE UNCHANGED deliveryVars
    BY <2>2, RegistryKeepsQInv DEF deliveryVars
  <2>3. ASSUME NEW s \in Senders, SenderStep(s) \/ \E q \in QueriesOf[s] : Send(s, q)
        PROVE  QInv'
    BY <2>3, SenderTypeStep, OwnStep, TriedStep, OvershootStep, OpenedStep DEF QInv
  <2>4. CASE \E c \in Conns, q \in Queries : StopStream(c, q)
    BY <2>4, StopKeepsQInv
  <2> QED
    BY <2>1, <2>2, <2>3, <2>4 DEF Next
<1>2. Spec => []RInv
  BY SendersLeaveRegistry, RegistryInvariance, PTL
<1> QED
  BY <1>1, <1>2, InitQInv, PTL DEF Spec

(* Every variable stays in its domain, and a sender inside its snapshot.   *)
THEOREM QuicTypeCorrect == Spec => []DeliveryTypeOK
<1>1. QInv => DeliveryTypeOK
  BY DEF QInv
<1> QED
  BY <1>1, QuicInvariance, PTL

(* Whatever the number of senders, OpenStreamSync's unsynchronised check   *)
(* lets the streams of a session pass maxStreams by fewer than there are.  *)
THEOREM OvershootIsOneEach == Spec => []StreamOvershootBounded
<1>1. QInv => StreamOvershootBounded
  <2> SUFFICES ASSUME QInv, NEW c \in Conns
               PROVE  \/ activeStreams[c] < MaxStreams + Cardinality(Senders)
                      \/ activeStreams[c] = 0
    BY DEF StreamOvershootBounded
  <2>1. \/ activeStreams[c] = 0
        \/ activeStreams[c] + Cardinality(Adding(c)) < MaxStreams + Cardinality(Senders)
    BY DEF QInv, Overshoot
  <2>2. Cardinality(Adding(c)) \in Nat /\ Cardinality(Senders) \in Nat
    BY SendersFinite DEF Adding
  <2>3. activeStreams[c] \in Nat /\ MaxStreams \in Nat
    BY DeliveryAssumption DEF QInv, DeliveryTypeOK
  <2> QED
    BY <2>1, <2>2, <2>3
<1> QED
  BY <1>1, QuicInvariance, PTL

(* A query's streams on a session are at most as many as the senders that  *)
(* send for it.                                                            *)
THEOREM RacersOpenOneEach == Spec => []StreamsPerQueryBounded
<1>1. QInv => StreamsPerQueryBounded
  <2> SUFFICES ASSUME QInv, NEW c \in Conns, NEW q \in Queries
               PROVE  opened[c][q] <= Cardinality(SendersOf(q))
    BY DEF StreamsPerQueryBounded, SendersOf
  <2>1. opened[c][q] + Cardinality(Opening(c, q)) <= Cardinality(SendersOf(q))
    BY DEF QInv, OpenedOnce
  <2>2. Cardinality(Opening(c, q)) \in Nat /\ Cardinality(SendersOf(q)) \in Nat
    BY SendersFinite DEF Opening, SendersOf
  <2>3. opened[c][q] \in Nat
    BY DEF QInv, DeliveryTypeOK
  <2> QED
    BY <2>1, <2>2, <2>3
<1> QED
  BY <1>1, QuicInvariance, PTL

(* A send fails only over sessions that died, are at their limit, or whose *)
(* client stopped a stream of its query: a session it passed over for one  *)
(* of these reasons never becomes useful again, so that they still hold    *)
(* when it returns.                                                        *)
THEOREM FailureIsJustified == Spec => FailureJustified
<1> DEFINE Justified ==
      \A s \in Senders :
        pc[s] # "idle" /\ pc'[s] = "idle" =>
          \/ pc[s] = "write" /\ at[s] \in alive
          \/ \A c \in seen[s] \cap alive : Useless(s, c)
<1>1. QInv /\ [Next]_deliveryVars => Justified
  <2> SUFFICES ASSUME QInv, [Next]_deliveryVars, NEW s \in Senders,
                      pc[s] # "idle", pc'[s] = "idle"
               PROVE  \/ pc[s] = "write" /\ at[s] \in alive
                      \/ \A c \in seen[s] \cap alive : Useless(s, c)
    OBVIOUS
  <2>0. DeliveryTypeOK
    BY DEF QInv
  <2>1. PICK t \in Senders : SenderStep(t) \/ \E q \in QueriesOf[t] : Send(t, q)
    BY DEF Next, StopStream, deliveryVars, sendVars
  <2>2. t = s
    BY <2>0, <2>1, StepIsLocal
  <2>3. SenderStep(s)
    BY <2>1, <2>2 DEF Send
  <2>4. CASE pc[s] \in InSession
    BY <2>0, <2>3, <2>4, InsideStep DEF InSession
  <2>5. CASE GiveUp(s)
    <3>1. pc[s] = "pick" /\ todo[s] = {}
      BY <2>5 DEF GiveUp
    <3> QED
      BY <3>1 DEF QInv, TriedInVain, InSession
  <2>6. CASE Try(s)
    BY <2>0, <2>6 DEF Try, GoTo, DeliveryTypeOK
  <2> QED
    BY <2>3, <2>4, <2>5, <2>6, OutsideStep
<1>2. Justified =>
        \A s \in Senders :
          pc[s] # "idle" /\ pc'[s] = "idle" =>
            \/ pc[s] = "write" /\ at[s] \in alive
            \/ \A c \in seen[s] \cap alive :
                 activeStreams[c] >= MaxStreams \/ query[s] \in stopped[c]
  BY DEF Useless
<1> HIDE DEF Justified
<1> QED
  BY <1>1, <1>2, QuicInvariance, PTL DEF Spec, FailureJustified
=============================================================================
