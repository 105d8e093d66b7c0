---------------------------- MODULE IngestProofs ----------------------------
(***************************************************************************)
(* Proofs about Ingest, for any number of requests and any batch size.     *)
(* An event moves from the buffer to one goroutine's transaction and from  *)
(* there to the table or to nothing; the sets it can be in stay disjoint   *)
(* because Take empties the buffer as it fills the transaction.            *)
(***************************************************************************)
EXTENDS Ingest, FiniteSetTheorems, SequenceTheorems, TLAPS

InBuffer == {buffer[i] : i \in DOMAIN buffer}

NoRepeat == \A i, j \in DOMAIN buffer : buffer[i] = buffer[j] => i = j

(* Only a goroutine in its transaction holds events. *)
IdleHoldsNone == \A a \in Actors : pc[a] # "insert" => batch[a] = <<>>

(* The sets an event can be in are disjoint ... *)
Disjoint ==
  /\ \A a \in Actors : Held(a) \cap (InBuffer \cup table \cup dropped) = {}
  /\ \A a, b \in Actors : a # b => Held(a) \cap Held(b) = {}
  /\ InBuffer \cap (table \cup dropped) = {}
  /\ table \cap dropped = {}

(* ... and hold all that were accepted. *)
Somewhere(e) == e \in InBuffer \cup table \cup dropped \cup UNION {Held(a) : a \in Actors}
Covered      == \A e \in Events : pc[e] = "new" <=> ~Somewhere(e)

(* A direct request keeps to its own event. *)
DirectHolds == \A e \in Direct : pc[e] # "flush" /\ (pc[e] = "insert" => e \in Held(e))

PlaceInv == NoRepeat /\ IdleHoldsNone /\ Disjoint /\ Covered

IngestInv == IngestTypeOK /\ PlaceInv /\ DirectHolds /\ DirectAckIsStored
-----------------------------------------------------------------------------
(* The buffer and each transaction are sequences of events. *)
LEMMA SequenceFacts ==
  ASSUME IngestTypeOK
  PROVE  /\ Len(buffer) \in Nat /\ DOMAIN buffer = 1..Len(buffer)
         /\ \A i \in DOMAIN buffer : buffer[i] \in Events \ Direct
         /\ \A a \in Actors : /\ Len(batch[a]) \in Nat /\ DOMAIN batch[a] = 1..Len(batch[a])
                              /\ \A i \in DOMAIN batch[a] : batch[a][i] \in Events
<1>1. buffer \in Seq(Events \ Direct)
  BY DEF IngestTypeOK
<1>2. \A a \in Actors : batch[a] \in Seq(Events)
  BY DEF IngestTypeOK
<1> QED
  BY <1>1, <1>2, LenProperties, ElementOfSeq

LEMMA HeldEvents ==
  ASSUME IngestTypeOK
  PROVE  /\ InBuffer \subseteq Events \ Direct
         /\ \A a \in Actors : Drawn(a) \subseteq Held(a) /\ Held(a) \subseteq Events
<1>1. InBuffer \subseteq Events \ Direct
  BY SequenceFacts DEF InBuffer
<1>2. ASSUME NEW a \in Actors PROVE Drawn(a) \subseteq Held(a) /\ Held(a) \subseteq Events
  <2>1. done[a] \in Nat /\ done[a] <= Len(batch[a])
    BY DEF IngestTypeOK
  <2>2. 1..done[a] \subseteq DOMAIN batch[a]
    BY <2>1, SequenceFacts
  <2> QED
    BY <2>2, SequenceFacts DEF Drawn, Held
<1> QED
  BY <1>1, <1>2

(* Post puts its event behind the others. *)
LEMMA PostEffect ==
  ASSUME IngestTypeOK, NEW e \in Events, Post(e)
  PROVE  /\ buffer' \in Seq(Events \ Direct)
         /\ Len(buffer') = Len(buffer) + 1
         /\ DOMAIN buffer' = DOMAIN buffer \cup {Len(buffer) + 1}
         /\ \A i \in DOMAIN buffer : i <= Len(buffer) /\ buffer'[i] = buffer[i]
         /\ buffer'[Len(buffer) + 1] = e
         /\ InBuffer' = InBuffer \cup {e}
<1> DEFINE S == Events \ Direct
           u == Append(buffer, e)
<1>1. buffer \in Seq(S) /\ e \in S /\ buffer' = u
  BY DEF IngestTypeOK, Post
<1>2. /\ u \in Seq(S) /\ Len(u) = Len(buffer) + 1
      /\ \A i \in 1..Len(buffer) : u[i] = buffer[i]
      /\ u[Len(buffer) + 1] = e
  <2> HIDE DEF S
  <2> QED
    BY <1>1, AppendProperties
<1> HIDE DEF S, u
<1>3. DOMAIN u = 1..Len(u)
  BY <1>2, LenProperties
<1>4. Len(buffer) \in Nat /\ DOMAIN buffer = 1..Len(buffer)
  BY SequenceFacts
<1>5. DOMAIN u = DOMAIN buffer \cup {Len(buffer) + 1}
  BY <1>2, <1>3, <1>4
<1>6. \A i \in DOMAIN buffer : i <= Len(buffer) /\ u[i] = buffer[i]
  BY <1>2, <1>4
<1>7. InBuffer' = InBuffer \cup {e}
  BY <1>1, <1>2, <1>5, <1>6 DEF InBuffer
<1> QED
  BY <1>1, <1>2, <1>5, <1>6, <1>7 DEF S
-----------------------------------------------------------------------------
(* Every step keeps every variable in its domain. *)
LEMMA IngestTypeStep == IngestInv /\ [Next]_vars => IngestTypeOK'
<1> SUFFICES ASSUME IngestInv, [Next]_vars PROVE IngestTypeOK'
  OBVIOUS
<1> USE DEF GoTo, bufVars, txVars, idVars
<1>0. IngestTypeOK /\ IdleHoldsNone
  BY DEF IngestInv, PlaceInv
<1>1. /\ <<>> \in Seq(Events \ Direct) /\ <<>> \in Seq(Events) /\ Len(<<>>) = 0
      /\ Events \subseteq Actors
  BY EmptySeq DEF Actors
<1>2. ASSUME NEW e \in Events, Post(e) PROVE IngestTypeOK'
  BY <1>0, <1>1, <1>2, PostEffect DEF Post, IngestTypeOK
<1>3. ASSUME NEW e \in Events, PostDirect(e) PROVE IngestTypeOK'
  <2>1. <<e>> \in Seq(Events) /\ Len(<<e>>) = 1
    OBVIOUS
  <2>2. batch' \in [Actors -> Seq(Events)] /\ batch' = [batch EXCEPT ![e] = <<e>>]
    BY <1>0, <1>3, <2>1 DEF PostDirect, IngestTypeOK
  <2>3. done[e] = 0
    BY <1>0, <1>1, <1>3 DEF PostDirect, IngestTypeOK, IdleHoldsNone
  <2>4. done' \in [Actors -> Nat] /\ \A a \in Actors : done'[a] <= Len(batch'[a])
    BY <1>0, <1>1, <1>3, <2>1, <2>2, <2>3 DEF PostDirect, IngestTypeOK
  <2> QED
    BY <1>0, <1>1, <1>3, <2>2, <2>4 DEF PostDirect, IngestTypeOK
<1>4. ASSUME NEW a \in Actors, Take(a) PROVE IngestTypeOK'
  <2>1. buffer \in Seq(Events) /\ Len(buffer) \in Nat
    BY <1>0, SeqMonotonic, SequenceFacts DEF IngestTypeOK
  <2>2. batch' = [batch EXCEPT ![a] = buffer] /\ batch' \in [Actors -> Seq(Events)]
    BY <1>0, <1>4, <2>1 DEF Take, IngestTypeOK
  <2>3. done[a] = 0
    BY <1>0, <1>1, <1>4 DEF Take, IngestTypeOK, IdleHoldsNone
  <2>4. done' \in [Actors -> Nat] /\ \A b \in Actors : done'[b] <= Len(batch'[b])
    BY <1>0, <1>4, <2>1, <2>2, <2>3 DEF Take, IngestTypeOK
  <2>5. pc' \in [Actors -> {"new", "flush", "insert", "log", "replied", "refused", "exiting"}]
    BY <1>0, <1>4 DEF Take, IngestTypeOK, Resume
  <2> QED
    BY <1>0, <1>1, <1>4, <2>2, <2>4, <2>5 DEF Take, IngestTypeOK, NewBuffer
<1>5. ASSUME NEW a \in Actors, Insert(a) PROVE IngestTypeOK'
  <2>1. Len(batch[a]) \in Nat /\ DOMAIN batch[a] = 1..Len(batch[a])
    BY <1>0, SequenceFacts
  <2>2. done[a] \in Nat /\ done[a] < Len(batch[a]) /\ done' = [done EXCEPT ![a] = done[a] + 1]
    BY <1>0, <1>5, <2>1 DEF Insert, IngestTypeOK
  <2>3. batch[a][done'[a]] \in Events
    BY <1>0, <2>1, <2>2, SequenceFacts DEF IngestTypeOK
  <2>4. crossed' \in SUBSET SUBSET Events
    <3>1. \A b \in Actors : Drawn(b) \subseteq Events
      BY <1>0, HeldEvents
    <3>2. UNION {Drawn(b) : b \in Actors \ {a}} \subseteq Events
      BY <3>1
    <3>3. \A f \in Events : {batch[a][done'[a]], f} \in SUBSET Events
      BY <2>3
    <3>4. crossed' = crossed \cup
            {{batch[a][done'[a]], f} : f \in UNION {Drawn(b) : b \in Actors \ {a}}}
      BY <1>5 DEF Insert
    <3>5. ASSUME NEW x \in crossed' PROVE x \in SUBSET Events
      <4>1. CASE x \in crossed
        BY <1>0, <4>1 DEF IngestTypeOK
      <4>2. ASSUME NEW f \in UNION {Drawn(b) : b \in Actors \ {a}},
                   x = {batch[a][done'[a]], f}
            PROVE  x \in SUBSET Events
        BY <3>2, <3>3, <4>2
      <4> QED
        BY <3>4, <3>5, <4>1, <4>2
    <3> QED
      BY <3>5
  <2>5. done' \in [Actors -> Nat] /\ \A b \in Actors : done'[b] <= Len(batch'[b])
    BY <1>0, <1>5, <2>1, <2>2 DEF Insert, IngestTypeOK
  <2>6. nextId' \in Nat \ {0} /\ idOf' \in [Events -> Nat]
    BY <1>0, <1>5 DEF Insert, IngestTypeOK
  <2> QED
    BY <1>0, <1>5, <2>4, <2>5, <2>6 DEF Insert, IngestTypeOK
<1>6. ASSUME NEW a \in Actors, Close(a)
      PROVE  /\ batch' \in [Actors -> Seq(Events)] /\ done' \in [Actors -> Nat]
             /\ \A b \in Actors : done'[b] <= Len(batch'[b])
  BY <1>0, <1>1, <1>6 DEF Close, IngestTypeOK
<1>7. ASSUME NEW a \in Actors, Commit(a) PROVE IngestTypeOK'
  <2>1. Held(a) \subseteq Events
    BY <1>0, HeldEvents
  <2> QED
    BY <1>0, <1>6, <1>7, <2>1 DEF Commit, IngestTypeOK, Resume
<1>8. ASSUME NEW a \in Actors, InsertFails(a) PROVE IngestTypeOK'
  <2>1. Held(a) \subseteq Events
    BY <1>0, HeldEvents
  <2>2. idOf' \in [Events -> Nat]
    BY <1>0, <1>8 DEF InsertFails, IngestTypeOK
  <2>3. pc' \in [Actors -> {"new", "flush", "insert", "log", "replied", "refused", "exiting"}]
    BY <1>0, <1>8 DEF InsertFails, IngestTypeOK, AfterError, Resume
  <2> QED
    BY <1>0, <1>6, <1>8, <2>1, <2>2, <2>3 DEF InsertFails, IngestTypeOK, AfterRollback
<1>9. ASSUME NEW a \in Actors, Log(a) PROVE IngestTypeOK'
  BY <1>0, <1>9 DEF Log, IngestTypeOK
<1>10. CASE Age \/ Interrupt \/ Exit \/ Quit \/ UNCHANGED vars
  BY <1>0, <1>10 DEF Age, Interrupt, Exit, Quit, vars, IngestTypeOK, Actors
<1> QED
  BY <1>2, <1>3, <1>4, <1>5, <1>7, <1>8, <1>9, <1>10 DEF Next, Step
-----------------------------------------------------------------------------
(* What each step does to the transactions and the buffer, as sets.  A     *)
(* transaction is filled once and emptied at its end.                      *)
LEMMA FillEffect ==
  ASSUME IngestTypeOK, NEW a \in Actors, NEW s, batch' = [batch EXCEPT ![a] = s]
  PROVE  /\ Held(a)' = {s[i] : i \in DOMAIN s}
         /\ \A b \in Actors \ {a} : Held(b)' = Held(b)
<1>1. batch'[a] = s /\ \A b \in Actors \ {a} : batch'[b] = batch[b]
  BY DEF IngestTypeOK
<1> QED
  BY <1>1 DEF Held

LEMMA CloseEffect ==
  ASSUME IngestTypeOK, NEW a \in Actors, Close(a)
  PROVE  /\ Held(a)' = {}
         /\ \A b \in Actors \ {a} : Held(b)' = Held(b)
         /\ batch'[a] = <<>> /\ \A b \in Actors \ {a} : batch'[b] = batch[b]
<1>1. batch' = [batch EXCEPT ![a] = <<>>]
  BY DEF Close
<1>2. batch'[a] = <<>> /\ \A b \in Actors \ {a} : batch'[b] = batch[b]
  BY <1>1 DEF IngestTypeOK
<1>3. {<<>>[i] : i \in DOMAIN <<>>} = {}
  OBVIOUS
<1> QED
  BY <1>1, <1>2, <1>3, FillEffect

(* Whoever is not in its transaction holds nothing. *)
LEMMA IdleHolds ==
  ASSUME IngestTypeOK, IdleHoldsNone, NEW a \in Actors, pc[a] # "insert"
  PROVE  Held(a) = {} /\ Drawn(a) = {}
<1>1. batch[a] = <<>>
  BY DEF IdleHoldsNone
<1>2. Held(a) = {}
  BY <1>1 DEF Held
<1> QED
  BY <1>2, HeldEvents

(* No step but Post, PostDirect, Take, Commit and InsertFails moves an     *)
(* event.                                                                  *)
Moves ==
  \/ \E e \in Events : Post(e) \/ PostDirect(e)
  \/ \E a \in Actors : Take(a) \/ Commit(a) \/ InsertFails(a)

LEMMA OtherSteps ==
  ASSUME IngestTypeOK, [Next]_vars, ~Moves
  PROVE  /\ UNCHANGED <<buffer, batch, table, dropped>>
         /\ UNCHANGED pc \/ (pc[Signal] = "new" /\ pc' = [pc EXCEPT ![Signal] = "flush"])
              \/ \E e \in Actors : pc[e] = "log" /\ pc' = [pc EXCEPT ![e] = "replied"]
<1> USE DEF GoTo, bufVars, txVars, idVars
<1>1. ASSUME NEW a \in Actors, Insert(a) \/ Log(a)
      PROVE  /\ UNCHANGED <<buffer, batch, table, dropped>>
             /\ UNCHANGED pc \/ \E e \in Actors : pc[e] = "log" /\ pc' = [pc EXCEPT ![e] = "replied"]
  BY <1>1 DEF Insert, Log
<1>2. CASE Age \/ Interrupt \/ Exit \/ Quit \/ UNCHANGED vars
  BY <1>2 DEF Age, Interrupt, Exit, Quit, vars
<1> QED
  BY <1>1, <1>2 DEF Next, Step, Moves

(* Each event stays in one of the disjoint sets. *)
LEMMA PlaceStep == IngestInv /\ [Next]_vars => PlaceInv'
<1> SUFFICES ASSUME IngestInv, [Next]_vars PROVE PlaceInv'
  OBVIOUS
<1> USE DEF GoTo, Somewhere
<1>0. IngestTypeOK /\ NoRepeat /\ IdleHoldsNone /\ Disjoint /\ Covered
  BY DEF IngestInv, PlaceInv
<1>h. /\ InBuffer \subseteq Events /\ \A a \in Actors : Held(a) \subseteq Events
      /\ table \subseteq Events /\ dropped \subseteq Events
      /\ Events \subseteq Actors /\ Signal \in Actors /\ Signal \notin Events
  BY <1>0, HeldEvents, IngestAssumption DEF IngestTypeOK, Actors
<1>p. ASSUME NEW a \in Actors, NEW l, l # "new", pc' = [pc EXCEPT ![a] = l]
      PROVE  \A b \in Actors : pc'[b] = IF b = a THEN l ELSE pc[b]
  BY <1>0, <1>p DEF IngestTypeOK
<1>1. ASSUME NEW e \in Events, Post(e) PROVE PlaceInv'
  <2>1. e \notin InBuffer \cup table \cup dropped \cup UNION {Held(a) : a \in Actors}
    BY <1>0, <1>1 DEF Post, Covered
  <2>2. UNCHANGED <<batch, table, dropped>> /\ InBuffer' = InBuffer \cup {e}
    BY <1>0, <1>1, PostEffect DEF Post, txVars
  <2>3. \A a \in Actors : Held(a)' = Held(a)
    BY <2>2 DEF Held
  <2>4. PICK l \in {"flush", "log"} : pc' = [pc EXCEPT ![e] = l]
    BY <1>1 DEF Post
  <2>5. \A b \in Actors : pc'[b] = IF b = e THEN l ELSE pc[b]
    BY <1>h, <1>p, <2>4
  <2>6. pc[e] = "new"
    BY <1>1 DEF Post
  <2>7. NoRepeat'
    <3>1. \A i \in DOMAIN buffer : buffer[i] # e
      BY <2>1 DEF InBuffer
    <3> QED
      BY <1>0, <1>1, <3>1, PostEffect DEF NoRepeat
  <2>8. IdleHoldsNone'
    BY <1>0, <1>h, <2>2, <2>5, <2>6 DEF IdleHoldsNone
  <2>9. Disjoint'
    BY <1>0, <2>1, <2>2, <2>3 DEF Disjoint
  <2>10. Covered'
    BY <1>0, <1>h, <2>2, <2>3, <2>4, <2>5 DEF Covered
  <2> QED
    BY <2>7, <2>8, <2>9, <2>10 DEF PlaceInv
<1>2. ASSUME NEW e \in Events, PostDirect(e) PROVE PlaceInv'
  <2>1. e \notin InBuffer \cup table \cup dropped \cup UNION {Held(a) : a \in Actors}
    BY <1>0, <1>2 DEF PostDirect, Covered
  <2>2. UNCHANGED <<buffer, table, dropped>> /\ batch' = [batch EXCEPT ![e] = <<e>>]
    BY <1>2 DEF PostDirect, bufVars
  <2>3. Held(e)' = {e} /\ \A a \in Actors \ {e} : Held(a)' = Held(a)
    <3> DEFINE s == <<e>>
    <3>1. {s[i] : i \in DOMAIN s} = {e}
      OBVIOUS
    <3>2. batch' = [batch EXCEPT ![e] = s]
      BY <2>2
    <3> HIDE DEF s
    <3>3. e \in Actors
      BY <1>h
    <3>4. Held(e)' = {s[i] : i \in DOMAIN s} /\ \A a \in Actors \ {e} : Held(a)' = Held(a)
      BY <1>0, <3>2, <3>3, FillEffect
    <3> QED
      BY <3>1, <3>4
  <2>4. \A b \in Actors : pc'[b] = IF b = e THEN "insert" ELSE pc[b]
    BY <1>2, <1>h, <1>p DEF PostDirect
  <2>5. Held(e) = {}
    BY <1>0, <1>2, <1>h, IdleHolds DEF PostDirect
  <2>6. NoRepeat' /\ InBuffer' = InBuffer
    BY <1>0, <2>2 DEF NoRepeat, InBuffer
  <2>7. IdleHoldsNone'
    BY <1>0, <2>2, <2>4 DEF IdleHoldsNone, IngestTypeOK
  <2>8. Disjoint'
    BY <1>0, <1>h, <2>1, <2>2, <2>3, <2>6 DEF Disjoint
  <2>9. Covered'
    BY <1>0, <1>h, <2>2, <2>3, <2>4, <2>5, <2>6 DEF Covered
  <2> QED
    BY <2>6, <2>7, <2>8, <2>9 DEF PlaceInv
<1>3. ASSUME NEW a \in Actors, Take(a) PROVE PlaceInv'
  <2>1. /\ UNCHANGED <<table, dropped>> /\ buffer' = <<>>
        /\ batch' = [batch EXCEPT ![a] = buffer] /\ pc[a] = "flush"
    BY <1>3 DEF Take, NewBuffer
  <2>2. PICK l : /\ pc' = [pc EXCEPT ![a] = l]
                 /\ l \in {"insert", "log", "exiting"} /\ (l = "insert" \/ buffer = <<>>)
    BY <1>3 DEF Take, Resume
  <2>3. \A b \in Actors : pc'[b] = IF b = a THEN l ELSE pc[b]
    BY <1>p, <2>2
  <2>4. Held(a)' = InBuffer /\ \A b \in Actors \ {a} : Held(b)' = Held(b)
    BY <1>0, <2>1, FillEffect DEF InBuffer
  <2>5. Held(a) = {}
    BY <1>0, <2>1, IdleHolds
  <2>6. NoRepeat' /\ InBuffer' = {}
    BY <2>1 DEF NoRepeat, InBuffer
  <2>7. IdleHoldsNone'
    BY <1>0, <2>1, <2>2, <2>3 DEF IdleHoldsNone, IngestTypeOK
  <2>8. Disjoint'
    BY <1>0, <2>1, <2>4, <2>6 DEF Disjoint
  <2>9. Covered'
    BY <1>0, <1>h, <2>1, <2>2, <2>3, <2>4, <2>5, <2>6 DEF Covered
  <2> QED
    BY <2>6, <2>7, <2>8, <2>9 DEF PlaceInv
<1>4. ASSUME NEW a \in Actors, Commit(a) \/ InsertFails(a) PROVE PlaceInv'
  <2>1. UNCHANGED buffer /\ Close(a) /\ pc[a] = "insert"
    BY <1>4 DEF Commit, InsertFails, bufVars
  <2>2. PICK l \in {"log", "exiting", "refused"} : pc' = [pc EXCEPT ![a] = l]
    BY <1>4 DEF Commit, InsertFails, AfterError, Resume
  <2>3. \A b \in Actors : pc'[b] = IF b = a THEN l ELSE pc[b]
    BY <1>p, <2>2
  <2>4. \/ table' = table \cup Held(a) /\ dropped' = dropped
        \/ table' = table /\ dropped' = dropped \cup Held(a)
    BY <1>4 DEF Commit, InsertFails
  <2>5. /\ Held(a)' = {} /\ \A b \in Actors \ {a} : Held(b)' = Held(b)
        /\ batch'[a] = <<>> /\ \A b \in Actors \ {a} : batch'[b] = batch[b]
    BY <1>0, <2>1, CloseEffect
  <2>6. NoRepeat' /\ InBuffer' = InBuffer
    BY <1>0, <2>1 DEF NoRepeat, InBuffer
  <2>7. IdleHoldsNone'
    BY <1>0, <2>3, <2>5 DEF IdleHoldsNone
  <2>8. Disjoint'
    BY <1>0, <2>4, <2>5, <2>6 DEF Disjoint
  <2>9. Covered'
    BY <1>0, <1>h, <2>1, <2>2, <2>3, <2>4, <2>5, <2>6 DEF Covered
  <2> QED
    BY <2>6, <2>7, <2>8, <2>9 DEF PlaceInv
<1>5. CASE ~Moves
  <2>1. UNCHANGED <<buffer, batch, table, dropped>>
    BY <1>0, <1>5, OtherSteps
  <2>2. \A b \in Actors : (pc'[b] = "insert" <=> pc[b] = "insert")
    BY <1>0, <1>5, <1>h, OtherSteps DEF IngestTypeOK
  <2>3. \A b \in Events : (pc'[b] = "new" <=> pc[b] = "new")
    BY <1>0, <1>5, <1>h, OtherSteps DEF IngestTypeOK
  <2>4. InBuffer' = InBuffer /\ \A a \in Actors : Held(a)' = Held(a)
    BY <2>1 DEF InBuffer, Held
  <2> QED
    BY <1>0, <2>1, <2>2, <2>3, <2>4
    DEF PlaceInv, NoRepeat, IdleHoldsNone, Disjoint, Covered
<1> QED
  BY <1>1, <1>2, <1>3, <1>4, <1>5 DEF Moves

(* A direct request is answered only once its event is in the table. *)
LEMMA DirectStep == IngestInv /\ [Next]_vars => DirectHolds' /\ DirectAckIsStored'
<1> SUFFICES ASSUME IngestInv, [Next]_vars, NEW e \in Direct
             PROVE  /\ pc'[e] # "flush" /\ (pc'[e] = "insert" => e \in Held(e)')
                    /\ pc'[e] \in {"log", "replied"} => e \in table'
  BY DEF DirectHolds, DirectAckIsStored
<1> USE DEF GoTo
<1>0. IngestTypeOK /\ pc[e] # "flush" /\ (pc[e] = "insert" => e \in Held(e))
      /\ (pc[e] \in {"log", "replied"} => e \in table)
      /\ e \in Events /\ e \in Actors /\ e # Signal
  BY IngestAssumption DEF IngestInv, DirectHolds, DirectAckIsStored, Actors
<1>p. ASSUME NEW a \in Actors, NEW l, pc' = [pc EXCEPT ![a] = l]
      PROVE  pc'[e] = IF a = e THEN l ELSE pc[e]
  BY <1>0, <1>p DEF IngestTypeOK
<1>1. ASSUME NEW a \in Events, Post(a)
      PROVE  pc'[e] = pc[e] /\ table' = table /\ Held(e)' = Held(e)
  <2>1. a # e /\ UNCHANGED <<batch, table>> /\ a \in Actors
    BY <1>1 DEF Post, txVars, Actors
  <2> QED
    BY <1>1, <1>p, <2>1 DEF Post, Held
<1>2. ASSUME NEW a \in Events, PostDirect(a)
      PROVE  /\ pc'[e] = IF a = e THEN "insert" ELSE pc[e]
             /\ table' = table
             /\ a = e => e \in Held(e)'
             /\ a # e => Held(e)' = Held(e)
  <2> DEFINE s == <<a>>
  <2>1. batch' = [batch EXCEPT ![a] = s] /\ table' = table /\ a \in Actors
        /\ pc' = [pc EXCEPT ![a] = "insert"]
    BY <1>2 DEF PostDirect, Actors
  <2>2. a \in {s[i] : i \in DOMAIN s}
    OBVIOUS
  <2> HIDE DEF s
  <2>3. Held(a)' = {s[i] : i \in DOMAIN s} /\ \A b \in Actors \ {a} : Held(b)' = Held(b)
    BY <1>0, <2>1, FillEffect
  <2> QED
    BY <1>0, <1>p, <2>1, <2>2, <2>3
<1>3. ASSUME NEW a \in Actors, Take(a)
      PROVE  pc'[e] = pc[e] /\ table' = table /\ Held(e)' = Held(e)
  <2>1. a # e /\ table' = table /\ batch' = [batch EXCEPT ![a] = buffer]
    BY <1>0, <1>3 DEF Take
  <2>2. Held(e)' = Held(e)
    BY <1>0, <2>1, FillEffect
  <2> QED
    BY <1>3, <1>p, <2>1, <2>2 DEF Take
<1>4. ASSUME NEW a \in Actors, Commit(a) \/ InsertFails(a)
      PROVE  IF a = e THEN pc'[e] = "refused" \/ (pc'[e] = "log" /\ e \in table')
             ELSE pc'[e] = pc[e] /\ table \subseteq table' /\ Held(e)' = Held(e)
  <2>1. Close(a) /\ table \subseteq table' /\ pc[a] = "insert"
    BY <1>4 DEF Commit, InsertFails
  <2>2. a # e => Held(e)' = Held(e)
    BY <1>0, <2>1, CloseEffect
  <2>3. CASE Commit(a)
    <3>1. pc' = [pc EXCEPT ![a] = Resume(a)] /\ table' = table \cup Held(a)
      BY <2>3 DEF Commit
    <3>2. CASE a = e
      <4>1. pc' = [pc EXCEPT ![a] = "log"]
        BY <1>0, <3>1, <3>2 DEF Resume
      <4>2. e \in table'
        BY <1>0, <2>1, <3>1, <3>2
      <4> QED
        BY <1>p, <3>2, <4>1, <4>2
    <3>3. CASE a # e
      <4>1. pc'[e] = pc[e]
        BY <1>p, <3>1, <3>3
      <4> QED
        BY <2>1, <2>2, <3>3, <4>1
    <3> QED
      BY <3>2, <3>3
  <2>4. CASE InsertFails(a)
    <3>1. pc' = [pc EXCEPT ![a] = AfterError(a)]
      BY <2>4 DEF InsertFails
    <3>2. CASE a = e
      <4>1. pc' = [pc EXCEPT ![a] = "refused"]
        BY <3>1, <3>2 DEF AfterError
      <4> QED
        BY <1>p, <3>2, <4>1
    <3>3. CASE a # e
      <4>1. pc'[e] = pc[e]
        BY <1>p, <3>1, <3>3
      <4> QED
        BY <2>1, <2>2, <3>3, <4>1
    <3> QED
      BY <3>2, <3>3
  <2> QED
    BY <1>4, <2>3, <2>4
<1>5. CASE ~Moves
  <2>1. UNCHANGED <<batch, table>>
    BY <1>0, <1>5, OtherSteps
  <2>2. pc'[e] = pc[e] \/ (pc[e] = "log" /\ pc'[e] = "replied")
    <3>1. UNCHANGED pc => pc'[e] = pc[e]
      OBVIOUS
    <3>2. pc' = [pc EXCEPT ![Signal] = "flush"] => pc'[e] = pc[e]
      BY <1>0, <1>p DEF Actors
    <3>3. ASSUME NEW f \in Actors, pc[f] = "log", pc' = [pc EXCEPT ![f] = "replied"]
          PROVE  pc'[e] = pc[e] \/ (pc[e] = "log" /\ pc'[e] = "replied")
      BY <1>p, <3>3
    <3> QED
      BY <1>0, <1>5, <3>1, <3>2, <3>3, OtherSteps
  <2> QED
    BY <1>0, <2>1, <2>2 DEF Held
<1>6. CASE \E a \in Events : Post(a) \/ PostDirect(a)
  BY <1>0, <1>1, <1>2, <1>6
<1>7. CASE \E a \in Actors : Take(a) \/ Commit(a) \/ InsertFails(a)
  BY <1>0, <1>3, <1>4, <1>7
<1> QED
  BY <1>5, <1>6, <1>7 DEF Moves

(* Nothing has come at first. *)
LEMMA InitIngestInv == Init => IngestInv
<1> SUFFICES ASSUME Init PROVE IngestInv
  OBVIOUS
<1>1. IngestTypeOK
  <2>1. <<>> \in Seq(Events \ Direct) /\ <<>> \in Seq(Events) /\ Len(<<>>) = 0
    BY EmptySeq
  <2>2. up \in BOOLEAN /\ aged \in BOOLEAN
    BY DEF Init
  <2>3. batch \in [Actors -> Seq(Events)] /\ \A a \in Actors : done[a] <= Len(batch[a])
    BY <2>1 DEF Init
  <2>4. /\ done \in [Actors -> Nat] /\ idOf \in [Events -> Nat] /\ nextId \in Nat \ {0}
        /\ pc \in [Actors -> {"new", "flush", "insert", "log", "replied", "refused", "exiting"}]
    BY DEF Init
  <2> QED
    BY <2>1, <2>2, <2>3, <2>4 DEF Init, IngestTypeOK
<1>2. buffer = <<>> /\ \A a \in Actors : batch[a] = <<>> /\ pc[a] = "new"
  BY DEF Init
<1>3. InBuffer = {} /\ \A a \in Actors : Held(a) = {}
  BY <1>2 DEF InBuffer, Held
<1>4. Events \subseteq Actors /\ Direct \subseteq Events
  BY IngestAssumption DEF Actors
<1>5. PlaceInv
  BY <1>2, <1>3, <1>4 DEF Init, PlaceInv, NoRepeat, IdleHoldsNone, Disjoint, Covered, Somewhere
<1>6. DirectHolds /\ DirectAckIsStored
  BY <1>2, <1>4 DEF DirectHolds, DirectAckIsStored
<1> QED
  BY <1>1, <1>5, <1>6 DEF IngestInv

(* The invariant. *)
THEOREM IngestInvariance == Spec => []IngestInv
<1>1. IngestInv /\ [Next]_vars => IngestInv'
  BY IngestTypeStep, PlaceStep, DirectStep DEF IngestInv
<1> QED
  BY <1>1, InitIngestInv, PTL DEF Spec

(* Every variable stays in its domain. *)
THEOREM IngestTypeCorrect == Spec => []IngestTypeOK
BY IngestInvariance, PTL DEF IngestInv

(* The table endpoint says 200 only for a row that is there. *)
THEOREM DirectAckIsTrue == Spec => []DirectAckIsStored
BY IngestInvariance, PTL DEF IngestInv
-----------------------------------------------------------------------------
(* An accepted event has one place, any other none. *)
LEMMA OnePlace == IngestInv => ExactlyOnePlace
<1> SUFFICES ASSUME IngestInv, NEW e \in Events
             PROVE  Cardinality(Places(e)) = IF pc[e] = "new" THEN 0 ELSE 1
  BY DEF ExactlyOnePlace
<1> DEFINE B == {<<"buffer", i>> : i \in {i \in DOMAIN buffer : buffer[i] = e}}
           X == {<<"batch", a>> : a \in {a \in Actors : e \in Held(a)}}
           T == {<<"table", 0>> : x \in {e} \cap table}
           D == {<<"dropped", 0>> : x \in {e} \cap dropped}
<1>0. NoRepeat /\ Disjoint /\ Covered
  BY DEF IngestInv, PlaceInv
<1>1. e \notin InBuffer => B = {}
  BY DEF InBuffer
<1>2. (\A a \in Actors : e \notin Held(a)) => X = {}
  OBVIOUS
<1>3. (e \notin table => T = {}) /\ (e \in table => T = {<<"table", 0>>})
  OBVIOUS
<1>4. (e \notin dropped => D = {}) /\ (e \in dropped => D = {<<"dropped", 0>>})
  OBVIOUS
<1>5. Places(e) = B \cup X \cup T \cup D
  BY DEF Places
<1>6. CASE e \in InBuffer
  <2>1. PICK i \in DOMAIN buffer : buffer[i] = e
    BY <1>6 DEF InBuffer
  <2>2. {j \in DOMAIN buffer : buffer[j] = e} = {i}
    BY <1>0, <2>1 DEF NoRepeat
  <2>3. B = {<<"buffer", i>>}
    BY <2>2
  <2>4. pc[e] # "new" /\ e \notin table /\ e \notin dropped /\ \A a \in Actors : e \notin Held(a)
    BY <1>0, <1>6 DEF Disjoint, Covered, Somewhere
  <2> HIDE DEF B, X, T, D
  <2>5. Places(e) = {<<"buffer", i>>}
    BY <1>2, <1>3, <1>4, <1>5, <2>3, <2>4
  <2> QED
    BY <2>4, <2>5, FS_Singleton
<1>7. ASSUME NEW a \in Actors, e \in Held(a)
      PROVE  pc[e] # "new" /\ Cardinality(Places(e)) = 1
  <2>1. {b \in Actors : e \in Held(b)} = {a}
    BY <1>0, <1>7 DEF Disjoint
  <2>2. X = {<<"batch", a>>}
    BY <2>1
  <2>3. pc[e] # "new" /\ e \notin table /\ e \notin dropped /\ e \notin InBuffer
    BY <1>0, <1>7 DEF Disjoint, Covered, Somewhere
  <2> HIDE DEF B, X, T, D
  <2>4. Places(e) = {<<"batch", a>>}
    BY <1>1, <1>3, <1>4, <1>5, <2>2, <2>3
  <2> QED
    BY <2>3, <2>4, FS_Singleton
<1>8. CASE e \in table \cup dropped
  <2>1. /\ pc[e] # "new" /\ e \notin InBuffer /\ \A a \in Actors : e \notin Held(a)
        /\ ~(e \in table /\ e \in dropped)
    BY <1>0, <1>8 DEF Disjoint, Covered, Somewhere
  <2> HIDE DEF B, X, T, D
  <2>2. Places(e) = {<<"table", 0>>} \/ Places(e) = {<<"dropped", 0>>}
    BY <1>1, <1>2, <1>3, <1>4, <1>5, <1>8, <2>1
  <2> QED
    BY <2>1, <2>2, FS_Singleton
<1>9. CASE ~Somewhere(e)
  <2>1. /\ pc[e] = "new" /\ e \notin InBuffer /\ \A a \in Actors : e \notin Held(a)
        /\ e \notin table /\ e \notin dropped
    BY <1>0, <1>9 DEF Covered, Somewhere
  <2> HIDE DEF B, X, T, D
  <2>2. Places(e) = {}
    BY <1>1, <1>2, <1>3, <1>4, <1>5, <2>1
  <2> QED
    BY <2>1, <2>2, FS_EmptySet
<1> QED
  BY <1>6, <1>7, <1>8, <1>9 DEF Somewhere

(* Posts and flushes that overlap neither lose nor copy an event. *)
THEOREM EveryEventOnce == Spec => []ExactlyOnePlace
BY IngestInvariance, OnePlace, PTL
-----------------------------------------------------------------------------
(* Between two transactions that have both drawn, the rows are crossed;    *)
(* between one that has and the table, the table's rows drew first, or     *)
(* their transactions overlapped.                                          *)
DrawnBefore ==
  /\ \A e \in Events : idOf[e] < nextId
  /\ \A a, b \in Actors : a # b => \A e \in Drawn(a), f \in Drawn(b) : {e, f} \in crossed
  /\ \A a \in Actors : \A e \in Drawn(a), f \in table :
       idOf[f] < idOf[e] \/ {e, f} \in crossed

(* What Insert adds to what is drawn. *)
LEMMA InsertEffect ==
  ASSUME IngestTypeOK, NEW a \in Actors, Insert(a)
  PROVE  \E e \in Held(a) :
           /\ Drawn(a)' = Drawn(a) \cup {e}
           /\ \A b \in Actors \ {a} : Drawn(b)' = Drawn(b)
           /\ \A f \in Events : idOf'[f] = IF f = e THEN nextId ELSE idOf[f]
           /\ nextId' = nextId + 1
           /\ table' = table
           /\ crossed \subseteq crossed'
           /\ \A b \in Actors \ {a} : \A f \in Drawn(b) : {e, f} \in crossed'
<1> DEFINE n == done[a] + 1
           e == batch[a][n]
<1>1. Len(batch[a]) \in Nat /\ DOMAIN batch[a] = 1..Len(batch[a])
  BY SequenceFacts
<1>2. done[a] \in Nat /\ done[a] < Len(batch[a]) /\ done' = [done EXCEPT ![a] = n]
  BY DEF Insert, IngestTypeOK
<1>3. n \in DOMAIN batch[a]
  BY <1>1, <1>2
<1>4. e \in Held(a) /\ e \in Events
  BY <1>3, SequenceFacts DEF Held
<1>5. done'[a] = n /\ \A b \in Actors \ {a} : done'[b] = done[b]
  BY <1>2 DEF IngestTypeOK
<1>6. /\ batch' = batch /\ table' = table /\ nextId' = nextId + 1
      /\ idOf' = [idOf EXCEPT ![e] = nextId]
      /\ crossed' = crossed \cup {{e, f} : f \in UNION {Drawn(b) : b \in Actors \ {a}}}
  BY <1>5 DEF Insert
<1>7. Drawn(a)' = Drawn(a) \cup {e}
  <2>1. 1..n = (1..done[a]) \cup {n}
    BY <1>2
  <2> QED
    BY <1>5, <1>6, <2>1 DEF Drawn
<1>8. \A b \in Actors \ {a} : Drawn(b)' = Drawn(b)
  BY <1>5, <1>6 DEF Drawn
<1>9. \A f \in Events : idOf'[f] = IF f = e THEN nextId ELSE idOf[f]
  BY <1>6 DEF IngestTypeOK
<1>10. \A b \in Actors \ {a} : \A f \in Drawn(b) : {e, f} \in crossed'
  BY <1>6
<1> QED
  BY <1>4, <1>6, <1>7, <1>8, <1>9, <1>10

(* The end of a transaction leaves what the others have drawn. *)
LEMMA CloseDrawn ==
  ASSUME IngestTypeOK, NEW a \in Actors, Close(a)
  PROVE  Drawn(a)' = {} /\ \A b \in Actors \ {a} : Drawn(b)' = Drawn(b)
<1>1. batch' = [batch EXCEPT ![a] = <<>>] /\ done' = [done EXCEPT ![a] = 0]
  BY DEF Close
<1>2. done'[a] = 0 /\ \A b \in Actors \ {a} : done'[b] = done[b] /\ batch'[b] = batch[b]
  BY <1>1 DEF IngestTypeOK
<1> QED
  BY <1>2 DEF Drawn

(* A transaction that commits has drawn an id for each of its rows. *)
LEMMA CommitDrawn ==
  ASSUME IngestTypeOK, NEW a \in Actors, Commit(a)
  PROVE  Held(a) = Drawn(a) /\ table' = table \cup Drawn(a)
<1>1. done[a] = Len(batch[a]) /\ table' = table \cup Held(a)
  BY DEF Commit
<1>2. DOMAIN batch[a] = 1..Len(batch[a])
  BY SequenceFacts
<1> QED
  BY <1>1, <1>2 DEF Held, Drawn

(* A goroutine that fills its transaction has drawn nothing for it yet. *)
LEMMA FillDrawn ==
  ASSUME IngestTypeOK, IdleHoldsNone, NEW a \in Actors, NEW s, pc[a] # "insert",
         batch' = [batch EXCEPT ![a] = s], done' = done
  PROVE  Drawn(a)' = {} /\ \A b \in Actors \ {a} : Drawn(b)' = Drawn(b)
<1>1. done[a] = 0
  BY EmptySeq DEF IdleHoldsNone, IngestTypeOK
<1>2. Drawn(a)' = {}
  BY <1>1 DEF Drawn
<1>3. \A b \in Actors \ {a} : Drawn(b)' = Drawn(b)
  BY DEF Drawn, IngestTypeOK
<1> QED
  BY <1>2, <1>3

LEMMA DrawnStep ==
  ASSUME IngestInv, DrawnBefore, [Next]_vars
  PROVE  DrawnBefore'
<1> USE DEF bufVars, txVars, idVars
<1>0. IngestTypeOK /\ IdleHoldsNone /\ Disjoint
  BY DEF IngestInv, PlaceInv
<1>h. /\ \A a \in Actors : Drawn(a) \subseteq Held(a) /\ Held(a) \subseteq Events
      /\ table \subseteq Events /\ idOf \in [Events -> Nat] /\ nextId \in Nat
  BY <1>0, HeldEvents DEF IngestTypeOK
<1>1. ASSUME UNCHANGED <<idOf, nextId, crossed, table>>,
             \A a \in Actors : Drawn(a)' \subseteq Drawn(a)
      PROVE  DrawnBefore'
  BY <1>1 DEF DrawnBefore
<1>2. ASSUME NEW a \in Actors, Insert(a) PROVE DrawnBefore'
  <2>1. PICK e \in Held(a) :
           /\ Drawn(a)' = Drawn(a) \cup {e}
           /\ \A b \in Actors \ {a} : Drawn(b)' = Drawn(b)
           /\ \A f \in Events : idOf'[f] = IF f = e THEN nextId ELSE idOf[f]
           /\ nextId' = nextId + 1
           /\ table' = table
           /\ crossed \subseteq crossed'
           /\ \A b \in Actors \ {a} : \A f \in Drawn(b) : {e, f} \in crossed'
    BY <1>0, <1>2, InsertEffect
  <2>2. \A f \in Events : idOf'[f] < nextId'
    BY <1>h, <2>1 DEF DrawnBefore
  <2>3. ASSUME NEW b \in Actors, NEW c \in Actors, b # c, NEW g \in Drawn(b)', NEW f \in Drawn(c)'
        PROVE  {g, f} \in crossed'
    <3>1. CASE b # a /\ c # a
      BY <2>1, <2>3, <3>1 DEF DrawnBefore
    <3>2. CASE b = a
      BY <2>1, <2>3, <3>2 DEF DrawnBefore
    <3>3. CASE c = a
      <4>1. {g, f} = {f, g}
        OBVIOUS
      <4>2. {f, g} \in crossed'
        BY <2>1, <2>3, <3>3, <4>1 DEF DrawnBefore
      <4> QED
        BY <4>1, <4>2
    <3> QED
      BY <3>1, <3>2, <3>3
  <2>4. ASSUME NEW b \in Actors, NEW g \in Drawn(b)', NEW f \in table'
        PROVE  idOf'[f] < idOf'[g] \/ {g, f} \in crossed'
    <3>1. f \in table /\ f \in Events /\ f # e
      BY <1>0, <1>h, <2>1 DEF Disjoint
    <3>2. CASE g = e
      BY <1>h, <2>1, <3>1, <3>2 DEF DrawnBefore
    <3>3. CASE g # e
      <4>1. g \in Drawn(b) /\ g \in Events
        BY <1>h, <2>1, <2>4, <3>3
      <4> QED
        BY <2>1, <3>1, <3>3, <4>1 DEF DrawnBefore
    <3> QED
      BY <3>2, <3>3
  <2> QED
    BY <2>2, <2>3, <2>4 DEF DrawnBefore
<1>3. ASSUME NEW a \in Actors, Commit(a) PROVE DrawnBefore'
  <2>1. Drawn(a)' = {} /\ \A b \in Actors \ {a} : Drawn(b)' = Drawn(b)
    BY <1>0, <1>3, CloseDrawn DEF Commit
  <2>2. table' = table \cup Drawn(a) /\ UNCHANGED <<idOf, nextId, crossed>>
    BY <1>0, <1>3, CommitDrawn DEF Commit
  <2> QED
    BY <2>1, <2>2 DEF DrawnBefore
<1>4. ASSUME NEW a \in Actors, InsertFails(a) PROVE DrawnBefore'
  <2>1. Drawn(a)' = {} /\ \A b \in Actors \ {a} : Drawn(b)' = Drawn(b)
    BY <1>0, <1>4, CloseDrawn DEF InsertFails
  <2>2. /\ UNCHANGED <<table, crossed, nextId>>
        /\ \A e \in Events : idOf'[e] = IF e \in Held(a) THEN 0 ELSE idOf[e]
    BY <1>4 DEF InsertFails, AfterRollback
  <2>3. \A e \in Events : idOf'[e] < nextId'
    <3>1. 0 < nextId
      BY <1>0 DEF IngestTypeOK
    <3>2. \A e \in Events : idOf[e] < nextId
      BY DEF DrawnBefore
    <3> QED
      BY <2>2, <3>1, <3>2
  <2>4. ASSUME NEW b \in Actors, NEW e \in Drawn(b)' PROVE e \in Drawn(b) /\ idOf'[e] = idOf[e]
    <3>1. b # a /\ e \in Drawn(b)
      BY <2>1, <2>4
    <3> QED
      BY <1>0, <1>h, <2>2, <3>1 DEF Disjoint
  <2>5. \A f \in table : idOf'[f] = idOf[f]
    BY <1>0, <1>h, <2>2 DEF Disjoint
  <2> QED
    BY <2>2, <2>3, <2>4, <2>5 DEF DrawnBefore
<1>5. ASSUME NEW a \in Actors, NEW s, pc[a] # "insert",
             batch' = [batch EXCEPT ![a] = s], done' = done,
             UNCHANGED <<idOf, nextId, crossed, table>>
      PROVE  DrawnBefore'
  <2>1. Drawn(a)' = {} /\ \A b \in Actors \ {a} : Drawn(b)' = Drawn(b)
    BY <1>0, <1>5, FillDrawn
  <2> QED
    BY <1>1, <1>5, <2>1
<1>6. ASSUME NEW a \in Actors, Take(a) PROVE DrawnBefore'
  BY <1>5, <1>6 DEF Take
<1>7. ASSUME NEW e \in Events, PostDirect(e) PROVE DrawnBefore'
  <2>1. e \in Actors /\ pc[e] # "insert"
    BY <1>7 DEF Actors, PostDirect
  <2>2. batch' = [batch EXCEPT ![e] = <<e>>] /\ done' = done
        /\ UNCHANGED <<idOf, nextId, crossed, table>>
    BY <1>7 DEF PostDirect
  <2> QED
    BY <1>5, <2>1, <2>2
<1>8. ASSUME UNCHANGED <<batch, done, idOf, nextId, crossed, table>> PROVE DrawnBefore'
  BY <1>1, <1>8 DEF Drawn
<1>9. ASSUME NEW e \in Events, Post(e) PROVE DrawnBefore'
  BY <1>8, <1>9 DEF Post
<1>10. ASSUME NEW a \in Actors, Log(a) PROVE DrawnBefore'
  BY <1>8, <1>10 DEF Log
<1>11. CASE Age \/ Interrupt \/ Exit \/ Quit \/ UNCHANGED vars
  BY <1>8, <1>11 DEF Age, Interrupt, Exit, Quit, vars
<1> QED
  BY <1>2, <1>3, <1>4, <1>6, <1>7, <1>9, <1>10, <1>11 DEF Next, Step

(* Rows are seen in the order of their ids if their transactions do not    *)
(* overlap, whatever failed before.                                        *)
THEOREM DisorderIsOverlap == Spec => DisorderNeedsOverlap
<1>1. Init => DrawnBefore
  BY DEF Init, DrawnBefore, Drawn
<1>2. IngestInv /\ DrawnBefore /\ [Next]_vars => DrawnBefore'
  BY DrawnStep
<1>3. IngestInv /\ DrawnBefore /\ [Next]_vars =>
        [\A e \in table' \ table, f \in table : idOf[f] < idOf[e] \/ {e, f} \in crossed]_vars
  <2> SUFFICES ASSUME IngestInv, DrawnBefore, [Next]_vars,
                      NEW e \in table' \ table, NEW f \in table
               PROVE  idOf[f] < idOf[e] \/ {e, f} \in crossed
    OBVIOUS
  <2>1. PICK a \in Actors : Commit(a)
    BY OtherSteps
    DEF IngestInv, Moves, Post, PostDirect, Take, InsertFails
  <2>2. e \in Drawn(a)
    BY <2>1, CommitDrawn DEF IngestInv
  <2> QED
    BY <2>2 DEF DrawnBefore
<1> QED
  BY <1>1, <1>2, <1>3, IngestInvariance, PTL DEF Spec, DisorderNeedsOverlap
-----------------------------------------------------------------------------
(***************************************************************************)
(* The sequence gives every committed row an id of its own, above zero,    *)
(* although failed transactions clear theirs: with DisorderNeedsOverlap,   *)
(* what module Executor calls a strict order, for transactions that do not *)
(* overlap.                                                                *)
(***************************************************************************)
IdsDistinct == \A e, f \in table : idOf[e] > 0 /\ (idOf[e] = idOf[f] => e = f)

IdsDrawn ==
  /\ \A e \in Events : idOf[e] < nextId
  /\ \A e, f \in Events : idOf[e] = idOf[f] => e = f \/ idOf[e] = 0
  /\ \A e \in table : idOf[e] > 0
  /\ \A a \in Actors : \A e \in Drawn(a) : idOf[e] > 0

LEMMA IdsStep ==
  ASSUME IngestInv, IdsDrawn, [Next]_vars
  PROVE  IdsDrawn'
<1> USE DEF bufVars, txVars, idVars
<1>0. IngestTypeOK /\ IdleHoldsNone /\ Disjoint
  BY DEF IngestInv, PlaceInv
<1>h. /\ \A a \in Actors : Drawn(a) \subseteq Held(a) /\ Held(a) \subseteq Events
      /\ table \subseteq Events /\ idOf \in [Events -> Nat] /\ nextId \in Nat /\ nextId > 0
  BY <1>0, HeldEvents DEF IngestTypeOK
<1>1. ASSUME UNCHANGED <<idOf, nextId, table>>,
             \A a \in Actors : Drawn(a)' \subseteq Drawn(a)
      PROVE  IdsDrawn'
  BY <1>1 DEF IdsDrawn
<1>2. ASSUME NEW a \in Actors, Insert(a) PROVE IdsDrawn'
  <2>1. PICK e \in Held(a) :
           /\ Drawn(a)' = Drawn(a) \cup {e}
           /\ \A b \in Actors \ {a} : Drawn(b)' = Drawn(b)
           /\ \A f \in Events : idOf'[f] = IF f = e THEN nextId ELSE idOf[f]
           /\ nextId' = nextId + 1
           /\ table' = table
    BY <1>0, <1>2, InsertEffect
  <2>2. e \in Events /\ \A f \in Events : idOf[f] < nextId /\ idOf[f] \in Nat
    BY <1>h DEF IdsDrawn
  <2>3. \A f \in Events : idOf'[f] < nextId'
    BY <1>h, <2>1, <2>2
  <2>4. \A f, g \in Events : idOf'[f] = idOf'[g] => f = g \/ idOf'[f] = 0
    <3> SUFFICES ASSUME NEW f \in Events, NEW g \in Events, idOf'[f] = idOf'[g]
                 PROVE  f = g \/ idOf'[f] = 0
      OBVIOUS
    <3>1. idOf[f] # nextId /\ idOf[g] # nextId
      BY <1>h, <2>2
    <3> QED
      BY <2>1, <3>1 DEF IdsDrawn
  <2>5. \A f \in Events : idOf[f] > 0 => idOf'[f] > 0
    BY <1>h, <2>1
  <2>6. \A f \in table' : idOf'[f] > 0
    BY <1>h, <2>1, <2>5 DEF IdsDrawn
  <2>7. ASSUME NEW b \in Actors, NEW f \in Drawn(b)' PROVE idOf'[f] > 0
    <3>1. CASE f = e
      BY <1>h, <2>1, <2>2, <3>1
    <3>2. CASE f # e
      <4>1. f \in Drawn(b) /\ f \in Events
        BY <1>h, <2>1, <2>7, <3>2
      <4> QED
        BY <2>5, <4>1 DEF IdsDrawn
    <3> QED
      BY <3>1, <3>2
  <2> QED
    BY <2>3, <2>4, <2>6, <2>7 DEF IdsDrawn
<1>3. ASSUME NEW a \in Actors, Commit(a) PROVE IdsDrawn'
  <2>1. Drawn(a)' = {} /\ \A b \in Actors \ {a} : Drawn(b)' = Drawn(b)
    BY <1>0, <1>3, CloseDrawn DEF Commit
  <2>2. table' = table \cup Drawn(a) /\ UNCHANGED <<idOf, nextId>>
    BY <1>0, <1>3, CommitDrawn DEF Commit
  <2> QED
    BY <2>1, <2>2 DEF IdsDrawn
<1>4. ASSUME NEW a \in Actors, InsertFails(a) PROVE IdsDrawn'
  <2>1. Drawn(a)' = {} /\ \A b \in Actors \ {a} : Drawn(b)' = Drawn(b)
    BY <1>0, <1>4, CloseDrawn DEF InsertFails
  <2>2. /\ UNCHANGED <<table, nextId>>
        /\ \A e \in Events : idOf'[e] = IF e \in Held(a) THEN 0 ELSE idOf[e]
    BY <1>4 DEF InsertFails, AfterRollback
  <2>3. /\ \A e \in Events : idOf'[e] < nextId'
        /\ \A e, f \in Events : idOf'[e] = idOf'[f] => e = f \/ idOf'[e] = 0
    <3>1. \A e, f \in Events : idOf[e] < nextId /\ (idOf[e] = idOf[f] => e = f \/ idOf[e] = 0)
      BY DEF IdsDrawn
    <3> QED
      BY <1>h, <2>2, <3>1
  <2>4. ASSUME NEW b \in Actors, NEW e \in Drawn(b)' PROVE e \in Drawn(b) /\ idOf'[e] = idOf[e]
    <3>1. b # a /\ e \in Drawn(b)
      BY <2>1, <2>4
    <3> QED
      BY <1>0, <1>h, <2>2, <3>1 DEF Disjoint
  <2>5. \A f \in table : idOf'[f] = idOf[f]
    BY <1>0, <1>h, <2>2 DEF Disjoint
  <2> QED
    BY <2>2, <2>3, <2>4, <2>5 DEF IdsDrawn
<1>5. ASSUME NEW a \in Actors, NEW s, pc[a] # "insert",
             batch' = [batch EXCEPT ![a] = s], done' = done,
             UNCHANGED <<idOf, nextId, table>>
      PROVE  IdsDrawn'
  <2>1. Drawn(a)' = {} /\ \A b \in Actors \ {a} : Drawn(b)' = Drawn(b)
    BY <1>0, <1>5, FillDrawn
  <2> QED
    BY <1>1, <1>5, <2>1
<1>6. ASSUME NEW a \in Actors, Take(a) PROVE IdsDrawn'
  BY <1>5, <1>6 DEF Take
<1>7. ASSUME NEW e \in Events, PostDirect(e) PROVE IdsDrawn'
  <2>1. e \in Actors /\ pc[e] # "insert"
    BY <1>7 DEF Actors, PostDirect
  <2>2. batch' = [batch EXCEPT ![e] = <<e>>] /\ done' = done /\ UNCHANGED <<idOf, nextId, table>>
    BY <1>7 DEF PostDirect
  <2> QED
    BY <1>5, <2>1, <2>2
<1>8. ASSUME UNCHANGED <<batch, done, idOf, nextId, table>> PROVE IdsDrawn'
  BY <1>1, <1>8 DEF Drawn
<1>9. ASSUME NEW e \in Events, Post(e) PROVE IdsDrawn'
  BY <1>8, <1>9 DEF Post
<1>10. ASSUME NEW a \in Actors, Log(a) PROVE IdsDrawn'
  BY <1>8, <1>10 DEF Log
<1>11. CASE Age \/ Interrupt \/ Exit \/ Quit \/ UNCHANGED vars
  BY <1>8, <1>11 DEF Age, Interrupt, Exit, Quit, vars
<1> QED
  BY <1>2, <1>3, <1>4, <1>6, <1>7, <1>9, <1>10, <1>11 DEF Next, Step

(* No two rows a query can see share an id, whatever failed in between.    *)
THEOREM IdsAreDistinct == Spec => []IdsDistinct
<1>1. Init => IdsDrawn
  BY DEF Init, IdsDrawn, Drawn
<1>2. IngestInv /\ IdsDrawn /\ [Next]_vars => IdsDrawn'
  BY IdsStep
<1>3. IngestInv /\ IdsDrawn => IdsDistinct
  BY DEF IngestInv, IngestTypeOK, IdsDrawn, IdsDistinct
<1> QED
  BY <1>1, <1>2, <1>3, IngestInvariance, PTL DEF Spec
-----------------------------------------------------------------------------
(* Each handler that found the buffer full or more is still to empty it.   *)
Flushing == {a \in Actors : pc[a] = "flush"}

(* A goroutine that comes to flush is one more. *)
LEMMA OneMoreFlushing ==
  ASSUME IngestTypeOK, NEW a \in Actors, pc[a] # "flush", pc' = [pc EXCEPT ![a] = "flush"]
  PROVE  /\ Cardinality(Flushing) \in Nat
         /\ Cardinality(Flushing') = Cardinality(Flushing) + 1
<1>1. IsFiniteSet(Flushing)
  <2>1. IsFiniteSet(Actors)
    BY IngestAssumption, FS_AddElement DEF Actors
  <2> QED
    BY <2>1, FS_Subset DEF Flushing
<1>2. Flushing' = Flushing \cup {a} /\ a \notin Flushing
  BY DEF Flushing, IngestTypeOK
<1> QED
  BY <1>1, <1>2, FS_AddElement, FS_CardinalityType

(* The buffer is over its limit by at most the handlers about to flush. *)
LEMMA BufferStep ==
  ASSUME IngestTypeOK, BufferBounded, [Next]_vars
  PROVE  BufferBounded'
<1> USE DEF GoTo, bufVars
<1>b. Len(buffer) \in Nat /\ BatchSize \in Nat /\ BatchSize > 0
  BY SequenceFacts, IngestAssumption
<1>f. Cardinality(Flushing) \in Nat /\ Cardinality(Flushing') \in Nat
  <2>1. IsFiniteSet(Actors)
    BY IngestAssumption, FS_AddElement DEF Actors
  <2>2. IsFiniteSet(Flushing) /\ IsFiniteSet(Flushing')
    BY <2>1, FS_Subset DEF Flushing
  <2> QED
    BY <2>2, FS_CardinalityType
<1>0. Len(buffer) < BatchSize + Cardinality(Flushing)
  BY DEF BufferBounded, Flushing
<1> SUFFICES Len(buffer') < BatchSize + Cardinality(Flushing')
  BY DEF BufferBounded, Flushing
<1>1. ASSUME NEW e \in Events, Post(e)
      PROVE  Len(buffer') < BatchSize + Cardinality(Flushing')
  <2>1. Len(buffer') = Len(buffer) + 1 /\ e \in Actors /\ pc[e] = "new"
    BY <1>1, PostEffect DEF Post, Actors
  <2>2. CASE ShouldFlush(buffer')
    <3>1. pc' = [pc EXCEPT ![e] = "flush"]
      BY <1>1, <2>2 DEF Post
    <3>2. Cardinality(Flushing') = Cardinality(Flushing) + 1
      BY <2>1, <3>1, OneMoreFlushing
    <3> QED
      BY <1>0, <1>b, <1>f, <2>1, <3>2
  <2>3. CASE ~ShouldFlush(buffer')
    <3>1. ~(Len(buffer') >= BatchSize)
      BY <2>3 DEF ShouldFlush
    <3> QED
      BY <1>b, <1>f, <2>1, <3>1
  <2> QED
    BY <2>2, <2>3
<1>2. ASSUME NEW a \in Actors, Take(a)
      PROVE  Len(buffer') < BatchSize + Cardinality(Flushing')
  <2>1. buffer' = <<>>
    BY <1>2 DEF Take, NewBuffer
  <2>2. Len(buffer') = 0
    BY <2>1
  <2> QED
    BY <1>b, <1>f, <2>2
<1>3. ASSUME buffer' = buffer, Flushing' = Flushing
      PROVE  Len(buffer') < BatchSize + Cardinality(Flushing')
  BY <1>0, <1>3
<1>4. ASSUME NEW e \in Events, PostDirect(e) PROVE buffer' = buffer /\ Flushing' = Flushing
  BY <1>4 DEF PostDirect, Flushing, IngestTypeOK, Actors
<1>5. ASSUME NEW a \in Actors, Insert(a) \/ Log(a) PROVE buffer' = buffer /\ Flushing' = Flushing
  BY <1>5 DEF Insert, Log, Flushing, IngestTypeOK
<1>6. ASSUME NEW a \in Actors, Commit(a) \/ InsertFails(a)
      PROVE  buffer' = buffer /\ Flushing' = Flushing
  <2>1. PICK l \in {"exiting", "log", "refused"} : pc' = [pc EXCEPT ![a] = l]
    BY <1>6 DEF Commit, InsertFails, AfterError, Resume
  <2>2. buffer' = buffer /\ pc[a] = "insert"
    BY <1>6 DEF Commit, InsertFails
  <2> QED
    BY <2>1, <2>2 DEF Flushing, IngestTypeOK
<1>7. CASE Interrupt
  <2>1. buffer' = buffer /\ Cardinality(Flushing') = Cardinality(Flushing) + 1
    BY <1>7, OneMoreFlushing DEF Interrupt, Actors
  <2> QED
    BY <1>0, <1>b, <1>f, <2>1
<1>8. CASE Age \/ Exit \/ Quit \/ UNCHANGED vars
  BY <1>3, <1>8 DEF Age, Exit, Quit, vars, Flushing
<1> QED
  BY <1>1, <1>2, <1>3, <1>4, <1>5, <1>6, <1>7, <1>8 DEF Next, Step

(* However many handlers fill the buffer at once, it grows past its limit  *)
(* by no more than their number.                                           *)
THEOREM BufferIsBounded == Spec => []BufferBounded
<1>1. Init => BufferBounded
  <2> SUFFICES ASSUME Init PROVE BufferBounded
    OBVIOUS
  <2>1. Len(buffer) = 0
    BY DEF Init
  <2>2. Flushing = {}
    BY DEF Init, Flushing
  <2>3. Cardinality(Flushing) = 0
    BY <2>2, FS_EmptySet
  <2> QED
    BY <2>1, <2>3, IngestAssumption DEF BufferBounded, Flushing
<1>2. IngestTypeOK /\ BufferBounded /\ [Next]_vars => BufferBounded'
  BY BufferStep
<1> QED
  BY <1>1, <1>2, IngestTypeCorrect, PTL DEF Spec
=============================================================================
