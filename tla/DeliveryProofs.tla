--------------------------- MODULE DeliveryProofs ---------------------------
(***************************************************************************)
(* Proofs about Delivery, for any clients, connections and windows.  What  *)
(* ExecutorProofs shows of the executor holds here too, since every step   *)
(* is one of the executor's or leaves it alone.  The rest ties what is on  *)
(* the connections to what the executor believes: all it counts as         *)
(* accepted was written somewhere, and all that was written is accepted,   *)
(* being written, or stuck on a connection that broke.                     *)
(***************************************************************************)
EXTENDS Delivery, ExecutorProofs, SequenceTheorems

(* What was accepted was written; so is the batch under way. *)
Vouched ==
  /\ accepted \subseteq Reached
  /\ onTo # None => conn[onTo] # "new" /\ batch \subseteq WrittenTo(onTo)

(* Where the rows written to a connection come from. *)
Traced ==
  \A c \in Conns : \A r \in WrittenTo(c) :
    \/ r \in accepted
    \/ onTo = c /\ r \in batch
    \/ conn[c] = "gone" /\ r \in redo

(* The cursor goes up along a connection. *)
InOrderOn(c) ==
  /\ \A i, j \in DOMAIN wire[c] : i < j =>
       \A r \in wire[c][i], s \in wire[c][j] : CursorOf[r] <= CursorOf[s]
  /\ \A r \in got[c], s \in OnWire(c) : CursorOf[r] <= CursorOf[s]

Ascending == Unkept \/ \A c \in Conns : conn[c] # "gone" => InOrderOn(c)

DInv == ChannelTypeOK /\ Vouched /\ Traced /\ Ascending /\ DuplicateNeedsBrokenWrite
-----------------------------------------------------------------------------
(* Every step is one of the executor's or leaves it alone. *)
LEMMA StepOfExecutor == [DeliveryNext]_dvars => [Next]_vars
<1> SUFFICES ASSUME [DeliveryNext]_dvars PROVE [Next]_vars
  OBVIOUS
<1>1. CASE ExecutorStep
  BY <1>1 DEF ExecutorStep, Next, Start, Exit
<1>2. ASSUME NEW c \in Conns, Connect(c) \/ Drop(c) \/ Receive(c) \/ Write(c)
      PROVE  UNCHANGED vars
  BY <1>2 DEF Connect, Drop, Receive, Write
<1>3. CASE Written \/ NoTaker
  BY <1>3 DEF Written, NoTaker, Next
<1>4. CASE WriteFails \/ UNCHANGED dvars
  BY <1>4 DEF WriteFails, dvars
<1> QED
  BY <1>1, <1>2, <1>3, <1>4 DEF DeliveryNext

(* So Delivery is the executor with its transport spelled out. *)
THEOREM DeliveryRefinesExecutor == DeliverySpec => Spec
<1>1. DeliveryInit => Init
  BY DEF DeliveryInit
<1> QED
  BY <1>1, StepOfExecutor, PTL DEF DeliverySpec, Spec

(* The executor's invariants, with the one about resending. *)
LEMMA ResendInvariance == Spec => []RInv
<1>1. Init => RInv
  BY InitIInv DEF Init, RInv, Above, ResendNeedsParseFailure
<1>2. RInv /\ [Next]_vars /\ IInv' => RInv'
  BY ResendStep DEF RInv
<1> QED
  BY <1>1, <1>2, Invariance, PTL DEF Spec

LEMMA ExecutorInvariance == DeliverySpec => []RInv
BY DeliveryRefinesExecutor, ResendInvariance, PTL

(* What the executor does between sends touches neither what was accepted  *)
(* nor, while a send is under way, the batch.                              *)
LEMMA ExecutorKeeps ==
  ASSUME ExecutorStep
  PROVE  /\ UNCHANGED <<conn, wire, got, redo, onTo, accepted>>
         /\ pc = "send" => pc' = "send" /\ UNCHANGED <<batch, todo>>
         /\ pc # "send" => todo' = todo \/ (pc' = "send" /\ todo' = Open)
BY DEF ExecutorStep, netVars, Commit, Start, StartBeginning, StartNow, StartFails, Launch, Told,
       Telling, PollFetch, PollFails, Scan, Advance, Cancel, Stop, Exit, RunCancelled, RunStopped,
       sentVars
-----------------------------------------------------------------------------
LEMMA OnWireAt ==
  ASSUME NEW c
  PROVE  \A r : r \in OnWire(c) <=> \E i \in DOMAIN wire[c] : r \in wire[c][i]
BY DEF OnWire

(* The client takes the oldest batch from the wire. *)
LEMMA ReceiveEffect ==
  ASSUME ChannelTypeOK, NEW c \in Conns, Receive(c)
  PROVE  /\ wire' \in [Conns -> Seq(SUBSET Rows)]
         /\ got' = [got EXCEPT ![c] = got[c] \cup wire[c][1]]
         /\ 1 \in DOMAIN wire[c] /\ wire[c][1] \in SUBSET Rows
         /\ \A d \in Conns \ {c} : wire'[d] = wire[d]
         /\ \A k \in DOMAIN wire'[c] :
              k \in Int /\ k + 1 # 1 /\ k + 1 \in DOMAIN wire[c] /\ wire'[c][k] = wire[c][k + 1]
         /\ \A k \in DOMAIN wire[c] \ {1} :
              k - 1 \in DOMAIN wire'[c] /\ wire'[c][k - 1] = wire[c][k]
<1> DEFINE w == wire[c]
           u == SubSeq(w, 2, Len(w))
<1>1. w \in Seq(SUBSET Rows)
  BY DEF ChannelTypeOK
<1>2. Len(w) \in Nat /\ DOMAIN w = 1..Len(w)
  BY <1>1, LenProperties
<1>3. 1 \in DOMAIN w
  BY DEF Receive, Readable
<1>4. w[1] \in SUBSET Rows
  BY <1>1, <1>2, <1>3, ElementOfSeq
<1>5. u \in Seq(SUBSET Rows) /\ Len(u) = Len(w) - 1 /\ \A k \in 1..Len(u) : u[k] = w[k + 1]
  <2>1. \A i \in 2..Len(w) : w[i] \in SUBSET Rows
    BY <1>1, <1>2, ElementOfSeq
  <2> HIDE DEF w
  <2> QED
    BY <1>2, <1>3, <2>1, SubSeqProperties
<1>6. DOMAIN u = 1..Len(u)
  BY <1>5, LenProperties
<1>7. SubSeq(w, 1, 0) \o u = u
  BY <1>5, SubSeqEmpty, ConcatEmptySeq
<1>8. wire' = [wire EXCEPT ![c] = u]
  <2>1. wire' = [wire EXCEPT ![c] = SubSeq(w, 1, 1 - 1) \o SubSeq(w, 1 + 1, Len(w))]
    BY DEF Receive, Readable
  <2>2. 1 - 1 = 0 /\ 1 + 1 = 2
    OBVIOUS
  <2> QED
    BY <1>7, <2>1, <2>2
<1>9. got' = [got EXCEPT ![c] = got[c] \cup w[1]]
  BY DEF Receive, Readable
<1>10. wire' \in [Conns -> Seq(SUBSET Rows)] /\ wire'[c] = u /\ \A d \in Conns \ {c} : wire'[d] = wire[d]
  <2> HIDE DEF u
  <2> QED
    BY <1>5, <1>8 DEF ChannelTypeOK
<1> HIDE DEF w, u
<1>11. \A k \in DOMAIN u : k \in Int /\ k + 1 # 1 /\ k + 1 \in DOMAIN w /\ u[k] = w[k + 1]
  BY <1>2, <1>5, <1>6
<1>12. \A k \in DOMAIN w \ {1} : k - 1 \in DOMAIN u /\ u[k - 1] = w[k]
  <2> SUFFICES ASSUME NEW k \in DOMAIN w \ {1} PROVE k - 1 \in DOMAIN u /\ u[k - 1] = w[k]
    OBVIOUS
  <2>1. k - 1 \in 1..Len(u) /\ (k - 1) + 1 = k
    BY <1>2, <1>5
  <2> QED
    BY <1>5, <1>6, <2>1
<1> QED
  BY <1>3, <1>4, <1>9, <1>10, <1>11, <1>12 DEF w

(* Reading moves rows from the wire to the client, and no others. *)
LEMMA ReceiveKeeps ==
  ASSUME ChannelTypeOK, NEW c \in Conns, Receive(c)
  PROVE  /\ \A d \in Conns : WrittenTo(d)' = WrittenTo(d)
         /\ OnWire(c)' \subseteq OnWire(c)
<1>1. \A r : r \in OnWire(c)' <=> \E i \in DOMAIN wire'[c] : r \in wire'[c][i]
  BY DEF OnWire
<1>2. OnWire(c)' \subseteq OnWire(c)
  BY <1>1, ReceiveEffect, OnWireAt
<1>3. OnWire(c) = wire[c][1] \cup OnWire(c)'
  BY <1>1, <1>2, ReceiveEffect, OnWireAt
<1>4. got'[c] = got[c] \cup wire[c][1]
  BY ReceiveEffect DEF ChannelTypeOK
<1>5. ASSUME NEW d \in Conns, d # c PROVE WrittenTo(d)' = WrittenTo(d)
  <2>1. got'[d] = got[d] /\ wire'[d] = wire[d]
    BY <1>5, ReceiveEffect DEF ChannelTypeOK
  <2> QED
    BY <2>1 DEF WrittenTo, OnWire
<1> QED
  BY <1>2, <1>3, <1>4, <1>5 DEF WrittenTo

(* A write puts the batch behind what is on the wire. *)
LEMMA WriteEffect ==
  ASSUME ChannelTypeOK, batch \in SUBSET Rows, NEW c \in Conns, Write(c)
  PROVE  /\ wire' \in [Conns -> Seq(SUBSET Rows)]
         /\ \A d \in Conns \ {c} : wire'[d] = wire[d]
         /\ DOMAIN wire'[c] = DOMAIN wire[c] \cup {Len(wire[c]) + 1}
         /\ \A k \in DOMAIN wire[c] : k <= Len(wire[c]) /\ wire'[c][k] = wire[c][k]
         /\ wire'[c][Len(wire[c]) + 1] = batch
         /\ Len(wire[c]) \in Nat /\ DOMAIN wire[c] \subseteq Int
<1> DEFINE w == wire[c]
           u == Append(w, batch)
<1>1. w \in Seq(SUBSET Rows)
  BY DEF ChannelTypeOK
<1>2. Len(w) \in Nat /\ DOMAIN w = 1..Len(w)
  BY <1>1, LenProperties
<1>3. /\ u \in Seq(SUBSET Rows) /\ Len(u) = Len(w) + 1
      /\ \A i \in 1..Len(w) : u[i] = w[i]
      /\ u[Len(w) + 1] = batch
  BY <1>1, AppendProperties
<1>4. DOMAIN u = 1..Len(u)
  BY <1>3, LenProperties
<1>5. wire' = [wire EXCEPT ![c] = u]
  BY DEF Write
<1> HIDE DEF u
<1>6. wire' \in [Conns -> Seq(SUBSET Rows)] /\ wire'[c] = u /\ \A d \in Conns \ {c} : wire'[d] = wire[d]
  BY <1>3, <1>5 DEF ChannelTypeOK
<1> HIDE DEF w
<1>7. DOMAIN u = DOMAIN w \cup {Len(w) + 1}
  BY <1>2, <1>3, <1>4
<1>8. \A k \in DOMAIN w : k <= Len(w) /\ u[k] = w[k]
  BY <1>2, <1>3
<1> QED
  BY <1>2, <1>3, <1>6, <1>7, <1>8 DEF w

(* So its rows are written to the connection, and no others to any. *)
LEMMA WriteAdds ==
  ASSUME ChannelTypeOK, batch \in SUBSET Rows, NEW c \in Conns, Write(c)
  PROVE  /\ OnWire(c)' = OnWire(c) \cup batch
         /\ WrittenTo(c)' = WrittenTo(c) \cup batch
         /\ \A d \in Conns \ {c} : OnWire(d)' = OnWire(d) /\ WrittenTo(d)' = WrittenTo(d)
<1>1. \A r : r \in OnWire(c)' <=> \E i \in DOMAIN wire'[c] : r \in wire'[c][i]
  BY DEF OnWire
<1>2. OnWire(c)' = OnWire(c) \cup batch
  BY <1>1, WriteEffect, OnWireAt
<1>3. got' = got
  BY DEF Write
<1>4. \A d \in Conns \ {c} : OnWire(d)' = OnWire(d)
  BY WriteEffect DEF OnWire
<1> QED
  BY <1>2, <1>3, <1>4 DEF WrittenTo
-----------------------------------------------------------------------------
(* Every step keeps every variable in its domain. *)
LEMMA ChannelStep ==
  ASSUME ChannelTypeOK, TypeOK, [DeliveryNext]_dvars
  PROVE  ChannelTypeOK'
<1> USE DEF ChannelTypeOK, netVars, trying
<1>1. CASE ExecutorStep
  <2>1. Open \in SUBSET Conns
    BY DEF Open
  <2> QED
    BY <1>1, <2>1, ExecutorKeeps
<1>2. ASSUME NEW c \in Conns, Connect(c) \/ Drop(c) PROVE ChannelTypeOK'
  BY <1>2 DEF Connect, Drop, vars
<1>3. ASSUME NEW c \in Conns, Receive(c) PROVE ChannelTypeOK'
  <2>1. UNCHANGED <<pc, conn, redo, todo, onTo>>
    BY <1>3 DEF Receive, vars
  <2>2. wire' \in [Conns -> Seq(SUBSET Rows)]
    BY <1>3, ReceiveEffect
  <2>3. got' \in [Conns -> SUBSET Rows]
    <3>1. got' = [got EXCEPT ![c] = got[c] \cup wire[c][1]] /\ wire[c][1] \in SUBSET Rows
      BY <1>3, ReceiveEffect
    <3> QED
      BY <3>1
  <2> QED
    BY <2>1, <2>2, <2>3
<1>4. ASSUME NEW c \in Conns, Write(c) PROVE ChannelTypeOK'
  <2>1. pc' = "send" /\ UNCHANGED <<conn, got, redo>> /\ onTo' = c /\ todo' \in SUBSET Conns
    BY <1>4 DEF Write, vars
  <2>2. batch \in SUBSET Rows
    BY DEF TypeOK
  <2> QED
    BY <1>4, <2>1, <2>2, WriteEffect
<1>5. CASE Written \/ NoTaker
  BY <1>5 DEF Written, NoTaker, SendOk, SendFails
<1>6. CASE WriteFails
  <2>1. redo' \in SUBSET Rows
    BY <1>6 DEF WriteFails, TypeOK
  <2> QED
    BY <1>6, <2>1 DEF WriteFails, vars
<1>7. CASE UNCHANGED dvars
  BY <1>7 DEF dvars, vars
<1> QED
  BY <1>1, <1>2, <1>3, <1>4, <1>5, <1>6, <1>7 DEF DeliveryNext

(* Accepted rows stay accepted, so a cursor that did not parse stays so.   *)
LEMMA UnkeptStays ==
  ASSUME [DeliveryNext]_dvars
  PROVE  accepted \subseteq accepted' /\ (Unkept => Unkept')
<1>1. accepted \subseteq accepted'
  <2>1. CASE ExecutorStep
    BY <2>1, ExecutorKeeps
  <2>2. ASSUME NEW c \in Conns, Connect(c) \/ Drop(c) \/ Receive(c) \/ Write(c)
        PROVE  accepted' = accepted
    BY <2>2 DEF Connect, Drop, Receive, Write, vars
  <2>3. CASE Written \/ NoTaker \/ WriteFails \/ UNCHANGED dvars
    BY <2>3 DEF Written, NoTaker, WriteFails, SendOk, SendFails, sentVars, dvars, vars
  <2> QED
    BY <2>1, <2>2, <2>3 DEF DeliveryNext
<1> QED
  BY <1>1 DEF Unkept, Parses

(* While a batch is sent, its rows lie above every row that was accepted,  *)
(* if cursors parse.                                                       *)
LEMMA BatchIsNew ==
  ASSUME RInv, pc = "send", ~Unkept
  PROVE  \A a \in accepted, b \in batch : CursorOf[a] < CursorOf[b]
<1> SUFFICES ASSUME NEW a \in accepted, NEW b \in batch
             PROVE  CursorOf[a] < CursorOf[b]
  OBVIOUS
<1>1. CursorOf[a] \in Int /\ CursorOf[b] \in Int /\ cursor \in Int
  BY ExecutorAssumption DEF RInv, IInv, TypeOK
<1>2. ~(CursorOf[a] > cursor)
  BY DEF RInv, Above
<1>3. CursorOf[b] > cursor
  BY DEF RInv, IInv, Held
<1> QED
  BY <1>1, <1>2, <1>3

(* A row of the batch has then been written to no connection that lives.   *)
LEMMA BatchIsUnwritten ==
  ASSUME RInv, Traced, pc = "send", onTo = None, ~Unkept,
         NEW c \in Conns, NEW r \in WrittenTo(c)
  PROVE  \/ conn[c] = "gone" /\ r \in redo
         \/ \A b \in batch : CursorOf[r] < CursorOf[b]
<1>1. onTo # c
  BY DeliveryAssumption
<1> QED
  BY <1>1, BatchIsNew DEF Traced
-----------------------------------------------------------------------------
(* Nothing is accepted that was not written. *)
LEMMA VouchedStep ==
  ASSUME DInv, RInv, [DeliveryNext]_dvars
  PROVE  Vouched'
<1>0. ChannelTypeOK /\ Vouched /\ batch \in SUBSET Rows
  BY DEF DInv, RInv, IInv, TypeOK
<1>1. ASSUME UNCHANGED <<accepted, batch, onTo>>,
             \A c \in Conns : WrittenTo(c) \subseteq WrittenTo(c)',
             onTo # None => conn'[onTo] # "new"
      PROVE  Vouched'
  BY <1>0, <1>1 DEF Vouched, Reached, ChannelTypeOK
<1>2. CASE ExecutorStep
  <2>1. UNCHANGED <<conn, wire, got, onTo, accepted>>
    BY <1>2, ExecutorKeeps
  <2>2. \A c \in Conns : WrittenTo(c)' = WrittenTo(c)
    BY <2>1 DEF WrittenTo, OnWire
  <2>3. onTo # None => batch' = batch
    BY <1>0, <1>2, ExecutorKeeps DEF ChannelTypeOK
  <2> QED
    BY <1>0, <2>1, <2>2, <2>3 DEF Vouched, Reached, ChannelTypeOK
<1>3. ASSUME NEW c \in Conns, Connect(c) \/ Drop(c) PROVE Vouched'
  <2>1. UNCHANGED <<accepted, batch, onTo, wire, got>>
    BY <1>3 DEF Connect, Drop, vars, trying
  <2>2. \A d \in Conns : WrittenTo(d)' = WrittenTo(d)
    BY <2>1 DEF WrittenTo, OnWire
  <2>3. conn' = [conn EXCEPT ![c] = "open"] \/ conn' = [conn EXCEPT ![c] = "gone"]
    BY <1>3 DEF Connect, Drop
  <2>4. onTo # None => conn'[onTo] # "new"
    BY <1>0, <2>3 DEF Vouched, ChannelTypeOK
  <2> QED
    BY <1>1, <2>1, <2>2, <2>4
<1>4. ASSUME NEW c \in Conns, Receive(c) PROVE Vouched'
  BY <1>0, <1>1, <1>4, ReceiveKeeps DEF Receive, vars, trying, Vouched
<1>5. ASSUME NEW c \in Conns, Write(c) PROVE Vouched'
  <2>1. /\ WrittenTo(c)' = WrittenTo(c) \cup batch
        /\ \A d \in Conns \ {c} : WrittenTo(d)' = WrittenTo(d)
    BY <1>0, <1>5, WriteAdds
  <2>2. UNCHANGED <<accepted, batch, conn>> /\ onTo' = c /\ conn[c] = "open"
    BY <1>5 DEF Write, vars, Open
  <2> QED
    BY <1>0, <2>1, <2>2 DEF Vouched, Reached
<1>6. CASE Written
  <2>1. UNCHANGED <<wire, got, conn>> /\ onTo' = None /\ onTo \in Conns
        /\ accepted' = accepted \cup batch
    BY <1>0, <1>6 DEF Written, SendOk, netVars, ChannelTypeOK
  <2>2. \A d \in Conns : WrittenTo(d)' = WrittenTo(d)
    BY <2>1 DEF WrittenTo, OnWire
  <2>3. batch \subseteq WrittenTo(onTo)
    BY <1>0, <1>6 DEF Written, Vouched
  <2> QED
    BY <1>0, <2>1, <2>2, <2>3 DEF Vouched, Reached
<1>7. CASE WriteFails \/ NoTaker \/ UNCHANGED dvars
  <2>1. /\ UNCHANGED <<wire, got, conn, accepted>>
        /\ onTo' = None \/ UNCHANGED <<onTo, batch>>
    BY <1>7 DEF WriteFails, NoTaker, SendFails, sentVars, netVars, vars, dvars, trying
  <2>2. \A d \in Conns : WrittenTo(d)' = WrittenTo(d)
    BY <2>1 DEF WrittenTo, OnWire
  <2> QED
    BY <1>0, <2>1, <2>2 DEF Vouched, Reached, ChannelTypeOK
<1> QED
  BY <1>2, <1>3, <1>4, <1>5, <1>6, <1>7 DEF DeliveryNext

(* Every written row is accepted, under way, or lost in a broken write. *)
LEMMA TracedStep ==
  ASSUME DInv, RInv, [DeliveryNext]_dvars
  PROVE  Traced'
<1>0. ChannelTypeOK /\ Vouched /\ Traced /\ batch \in SUBSET Rows
  BY DEF DInv, RInv, IInv, TypeOK
<1>1. ASSUME UNCHANGED <<wire, got>>
      PROVE  \A d \in Conns : WrittenTo(d)' = WrittenTo(d)
  BY <1>1 DEF WrittenTo, OnWire
<1>2. CASE ExecutorStep
  <2>1. UNCHANGED <<conn, wire, got, redo, onTo, accepted>>
    BY <1>2, ExecutorKeeps
  <2>2. onTo # None => batch' = batch
    BY <1>0, <1>2, ExecutorKeeps DEF ChannelTypeOK
  <2> QED
    BY <1>0, <1>1, <2>1, <2>2, DeliveryAssumption DEF Traced
<1>3. ASSUME NEW c \in Conns, Connect(c) \/ Drop(c) PROVE Traced'
  <2>1. UNCHANGED <<accepted, batch, onTo, wire, got, redo>>
    BY <1>3 DEF Connect, Drop, vars, trying
  <2>2. \A d \in Conns : conn[d] = "gone" => conn'[d] = "gone"
    BY <1>0, <1>3 DEF Connect, Drop, ChannelTypeOK
  <2> QED
    BY <1>0, <1>1, <2>1, <2>2 DEF Traced
<1>4. ASSUME NEW c \in Conns, Receive(c) PROVE Traced'
  BY <1>0, <1>4, ReceiveKeeps DEF Receive, vars, trying, Traced
<1>5. ASSUME NEW c \in Conns, Write(c) PROVE Traced'
  <2>1. /\ WrittenTo(c)' = WrittenTo(c) \cup batch
        /\ \A d \in Conns \ {c} : WrittenTo(d)' = WrittenTo(d)
    BY <1>0, <1>5, WriteAdds
  <2>2. UNCHANGED <<accepted, batch, conn, redo>> /\ onTo' = c /\ onTo = None
    BY <1>5 DEF Write, vars
  <2> QED
    BY <1>0, <2>1, <2>2, DeliveryAssumption DEF Traced
<1>6. CASE Written
  <2>1. UNCHANGED <<wire, got, conn, redo>> /\ accepted' = accepted \cup batch
    BY <1>6 DEF Written, SendOk, netVars
  <2> QED
    BY <1>0, <1>1, <2>1 DEF Traced
<1>7. CASE WriteFails
  <2>1. /\ UNCHANGED <<wire, got, conn, accepted>>
        /\ redo' = redo \cup batch
        /\ onTo \in Conns => conn[onTo] # "open"
    BY <1>7 DEF WriteFails, vars, Open
  <2>2. onTo \in Conns => conn[onTo] = "gone"
    BY <1>0, <2>1, DeliveryAssumption DEF Vouched, ChannelTypeOK
  <2> QED
    BY <1>0, <1>1, <2>1, <2>2 DEF Traced
<1>8. CASE NoTaker
  <2>1. UNCHANGED <<wire, got, conn, redo, accepted>> /\ onTo = None
    BY <1>8 DEF NoTaker, SendFails, sentVars, netVars
  <2> QED
    BY <1>0, <1>1, <2>1, DeliveryAssumption DEF Traced
<1>9. CASE UNCHANGED dvars
  <2>1. UNCHANGED <<wire, got, conn, redo, accepted, batch, onTo>>
    BY <1>9 DEF dvars, vars, netVars, trying
  <2> QED
    BY <1>0, <1>1, <2>1 DEF Traced
<1> QED
  BY <1>2, <1>3, <1>4, <1>5, <1>6, <1>7, <1>8, <1>9 DEF DeliveryNext

(* A step other than a read or a write leaves the connections' contents. *)
LEMMA Untouched ==
  ASSUME [DeliveryNext]_dvars, \A c \in Conns : ~Receive(c) /\ ~Write(c)
  PROVE  UNCHANGED <<wire, got>> /\ redo \subseteq redo'
<1>1. CASE ExecutorStep
  BY <1>1, ExecutorKeeps
<1>2. CASE \E c \in Conns : Connect(c) \/ Drop(c)
  BY <1>2 DEF Connect, Drop
<1>3. CASE Written \/ WriteFails \/ NoTaker \/ UNCHANGED dvars
  BY <1>3 DEF Written, WriteFails, NoTaker, dvars, netVars
<1> QED
  BY <1>1, <1>2, <1>3 DEF DeliveryNext

(* A connection that is gone stays gone. *)
LEMMA GoneStays ==
  ASSUME ChannelTypeOK, [DeliveryNext]_dvars, NEW c \in Conns, conn[c] = "gone"
  PROVE  conn'[c] = "gone"
<1>1. CASE ExecutorStep
  BY <1>1, ExecutorKeeps
<1>2. ASSUME NEW d \in Conns, Connect(d) \/ Drop(d) \/ Receive(d) \/ Write(d)
      PROVE  conn'[c] = "gone"
  BY <1>2 DEF Connect, Drop, Receive, Write, ChannelTypeOK
<1>3. CASE Written \/ WriteFails \/ NoTaker \/ UNCHANGED dvars
  BY <1>3 DEF Written, WriteFails, NoTaker, dvars, netVars
<1> QED
  BY <1>1, <1>2, <1>3 DEF DeliveryNext

(* The cursor keeps going up along every connection that lives. *)
LEMMA AscendingStep ==
  ASSUME DInv, RInv, [DeliveryNext]_dvars
  PROVE  Ascending'
<1>0. ChannelTypeOK /\ Traced /\ Ascending /\ batch \in SUBSET Rows
  BY DEF DInv, RInv, IInv, TypeOK
<1>1. CASE Unkept
  BY <1>1, UnkeptStays DEF Ascending
<1> SUFFICES ASSUME ~Unkept, NEW d \in Conns, conn'[d] # "gone"
             PROVE  InOrderOn(d)'
  BY <1>1 DEF Ascending
<1>2. InOrderOn(d)
  BY <1>0, GoneStays DEF Ascending
<1>3. ASSUME UNCHANGED <<wire[d], got[d]>> PROVE InOrderOn(d)'
  BY <1>2, <1>3 DEF InOrderOn, OnWire
<1>4. CASE Receive(d)
  <2>1. ASSUME NEW i \in DOMAIN wire'[d], NEW j \in DOMAIN wire'[d], i < j,
               NEW r \in wire'[d][i], NEW s \in wire'[d][j]
        PROVE  CursorOf[r] <= CursorOf[s]
    <3>1. /\ i + 1 \in DOMAIN wire[d] /\ r \in wire[d][i + 1]
          /\ j + 1 \in DOMAIN wire[d] /\ s \in wire[d][j + 1]
          /\ i \in Int /\ j \in Int
      BY <1>0, <1>4, <2>1, ReceiveEffect
    <3>2. i + 1 < j + 1
      BY <2>1, <3>1
    <3> QED
      BY <1>2, <3>1, <3>2 DEF InOrderOn
  <2>2. ASSUME NEW r \in got'[d], NEW s \in OnWire(d)' PROVE CursorOf[r] <= CursorOf[s]
    <3>1. got'[d] = got[d] \cup wire[d][1]
      BY <1>0, <1>4, ReceiveEffect DEF ChannelTypeOK
    <3>2. PICK k \in DOMAIN wire'[d] : s \in wire'[d][k]
      BY <2>2 DEF OnWire
    <3>3. k \in Int /\ k + 1 \in DOMAIN wire[d] /\ s \in wire[d][k + 1]
      BY <1>0, <1>4, <3>2, ReceiveEffect
    <3>4. CASE r \in got[d]
      BY <1>0, <1>2, <1>4, <2>2, <3>4, ReceiveKeeps DEF InOrderOn
    <3>5. CASE r \in wire[d][1]
      <4>1. 1 \in DOMAIN wire[d] /\ DOMAIN wire[d] = 1..Len(wire[d]) /\ k + 1 # 1
        BY <1>0, <1>4, <3>2, ReceiveEffect, LenProperties DEF ChannelTypeOK
      <4>2. 1 < k + 1
        <5>1. \A n \in DOMAIN wire[d] : n \in Int /\ 1 <= n
          BY <4>1
        <5> QED
          BY <3>3, <4>1, <5>1
      <4> QED
        BY <1>2, <3>3, <3>5, <4>1, <4>2 DEF InOrderOn
    <3> QED
      BY <2>2, <3>1, <3>4, <3>5
  <2> QED
    BY <2>1, <2>2 DEF InOrderOn
<1>5. CASE Write(d)
  <2>1. pc = "send" /\ onTo = None /\ got' = got /\ conn' = conn
    BY <1>5 DEF Write
  <2>2. \A r \in WrittenTo(d), b \in batch : CursorOf[r] < CursorOf[b]
    BY <1>0, <2>1, BatchIsUnwritten
  <2>3. \A r \in Rows : CursorOf[r] \in Int
    BY CursorType
  <2>4. WrittenTo(d) \subseteq Rows
    <3>1. \A i \in DOMAIN wire[d] : wire[d][i] \in SUBSET Rows
      <4>1. wire[d] \in Seq(SUBSET Rows)
        BY <1>0 DEF ChannelTypeOK
      <4> QED
        BY <4>1, LenProperties, ElementOfSeq
    <3>2. got[d] \subseteq Rows
      BY <1>0 DEF ChannelTypeOK
    <3> QED
      BY <3>1, <3>2 DEF WrittenTo, OnWire
  <2>5. \A r \in WrittenTo(d), b \in batch : CursorOf[r] <= CursorOf[b]
    BY <1>0, <2>2, <2>3, <2>4
  <2>6. ASSUME NEW i \in DOMAIN wire'[d], NEW j \in DOMAIN wire'[d], i < j,
               NEW r \in wire'[d][i], NEW s \in wire'[d][j]
        PROVE  CursorOf[r] <= CursorOf[s]
    <3>1. i \in DOMAIN wire[d] /\ r \in wire[d][i]
      BY <1>0, <1>5, <2>6, WriteEffect
    <3>2. CASE j \in DOMAIN wire[d]
      BY <1>0, <1>2, <1>5, <2>6, <3>1, <3>2, WriteEffect DEF InOrderOn
    <3>3. CASE j = Len(wire[d]) + 1
      <4>1. s \in batch
        BY <1>0, <1>5, <2>6, <3>3, WriteEffect
      <4>2. r \in WrittenTo(d)
        BY <3>1 DEF WrittenTo, OnWire
      <4> QED
        BY <2>5, <4>1, <4>2
    <3> QED
      BY <1>0, <1>5, <3>2, <3>3, WriteEffect
  <2>7. ASSUME NEW r \in got'[d], NEW s \in OnWire(d)' PROVE CursorOf[r] <= CursorOf[s]
    BY <1>0, <1>2, <1>5, <2>1, <2>5, <2>7, WriteAdds DEF InOrderOn, WrittenTo
  <2> QED
    BY <2>6, <2>7 DEF InOrderOn
<1>6. ASSUME NEW c \in Conns, c # d, Receive(c) \/ Write(c) PROVE UNCHANGED <<wire[d], got[d]>>
  BY <1>0, <1>6, ReceiveEffect, WriteEffect DEF ChannelTypeOK, Write
<1>7. CASE \A c \in Conns : ~Receive(c) /\ ~Write(c)
  BY <1>3, <1>7, Untouched
<1> QED
  BY <1>3, <1>4, <1>5, <1>6, <1>7

(* No row is written again, unless its write broke or a cursor was not     *)
(* kept.                                                                   *)
LEMMA TwiceStep ==
  ASSUME DInv, RInv, [DeliveryNext]_dvars
  PROVE  DuplicateNeedsBrokenWrite'
<1>0. ChannelTypeOK /\ Traced /\ batch \in SUBSET Rows /\ DuplicateNeedsBrokenWrite
  BY DEF DInv, RInv, IInv, TypeOK
<1>1. CASE Unkept
  BY <1>1, UnkeptStays DEF DuplicateNeedsBrokenWrite, Unkept
<1> SUFFICES ASSUME ~Unkept, NEW r \in Rows, Twice(r)' PROVE r \in redo'
  BY <1>1 DEF DuplicateNeedsBrokenWrite
<1>2. Twice(r) => r \in redo
  BY DEF DuplicateNeedsBrokenWrite, DInv, Unkept
<1>3. CASE \A c \in Conns : ~Receive(c) /\ ~Write(c)
  <2>1. UNCHANGED <<wire, got>> /\ redo \subseteq redo'
    BY <1>3, Untouched
  <2> QED
    BY <1>2, <2>1 DEF Twice, WrittenTo, OnWire
<1>4. ASSUME NEW c \in Conns, Receive(c) PROVE r \in redo'
  <2>0. redo' = redo
    BY <1>4 DEF Receive
  <2>1. CASE \E d, e \in Conns : d # e /\ r \in WrittenTo(d)' \cap WrittenTo(e)'
    BY <1>0, <1>2, <1>4, <2>0, <2>1, ReceiveKeeps DEF Twice
  <2>2. ASSUME NEW d \in Conns, d # c,
               \/ r \in got'[d] \cap OnWire(d)'
               \/ \E i, j \in DOMAIN wire'[d] : i # j /\ r \in wire'[d][i] \cap wire'[d][j]
        PROVE  r \in redo'
    <3>1. UNCHANGED <<wire[d], got[d]>>
      BY <1>0, <1>4, <2>2, ReceiveEffect DEF ChannelTypeOK
    <3>2. OnWire(d)' = OnWire(d)
      BY <3>1 DEF OnWire
    <3> QED
      BY <1>2, <2>0, <2>2, <3>1, <3>2 DEF Twice
  <2>3. CASE r \in got'[c] \cap OnWire(c)'
    <3>1. PICK k \in DOMAIN wire'[c] : r \in wire'[c][k]
      BY <2>3 DEF OnWire
    <3>2. k + 1 # 1 /\ k + 1 \in DOMAIN wire[c] /\ r \in wire[c][k + 1] /\ 1 \in DOMAIN wire[c]
      BY <1>0, <1>4, <3>1, ReceiveEffect
    <3>3. r \in got[c] \/ r \in wire[c][1]
      BY <1>0, <1>4, <2>3, ReceiveEffect DEF ChannelTypeOK
    <3>4. r \in OnWire(c)
      BY <3>2, OnWireAt
    <3> QED
      BY <1>2, <2>0, <3>2, <3>3, <3>4 DEF Twice
  <2>4. ASSUME NEW i \in DOMAIN wire'[c], NEW j \in DOMAIN wire'[c], i # j,
               r \in wire'[c][i] \cap wire'[c][j]
        PROVE  r \in redo'
    <3>1. /\ i \in Int /\ i + 1 \in DOMAIN wire[c] /\ r \in wire[c][i + 1]
          /\ j \in Int /\ j + 1 \in DOMAIN wire[c] /\ r \in wire[c][j + 1]
      BY <1>0, <1>4, <2>4, ReceiveEffect
    <3>2. i + 1 # j + 1
      BY <2>4, <3>1
    <3> QED
      BY <1>2, <2>0, <3>1, <3>2 DEF Twice
  <2> QED
    BY <2>1, <2>2, <2>3, <2>4 DEF Twice
<1>5. ASSUME NEW c \in Conns, Write(c) PROVE r \in redo'
  <2>1. pc = "send" /\ onTo = None /\ got' = got /\ redo' = redo
    BY <1>5 DEF Write
  <2>2. CASE r \notin batch
    <3>1. \A d \in Conns : /\ r \in WrittenTo(d)' => r \in WrittenTo(d)
                           /\ r \in OnWire(d)' => r \in OnWire(d)
      BY <1>0, <1>5, <2>2, WriteAdds
    <3>2. ASSUME NEW d \in Conns, NEW i \in DOMAIN wire'[d], r \in wire'[d][i]
          PROVE  i \in DOMAIN wire[d] /\ r \in wire[d][i]
      BY <1>0, <1>5, <2>2, <3>2, WriteEffect
    <3>3. Twice(r)
      BY <2>1, <3>1, <3>2 DEF Twice
    <3> QED
      BY <1>2, <2>1, <3>3
  <2>3. CASE r \in batch
    <3>1. \A d \in Conns : r \in WrittenTo(d) => r \in redo
      <4>1. CursorOf[r] \in Int
        BY CursorType
      <4>2. ~(CursorOf[r] < CursorOf[r])
        BY <4>1
      <4> QED
        BY <1>0, <2>1, <2>3, <4>2, BatchIsUnwritten
    <3> SUFFICES ASSUME \A d \in Conns : r \notin WrittenTo(d) PROVE FALSE
      BY <2>1, <3>1
    <3>2. \A d \in Conns : r \notin got[d] /\ r \notin OnWire(d)
      BY DEF WrittenTo
    <3>3. \A d \in Conns \ {c} : r \notin WrittenTo(d)'
      BY <1>0, <1>5, WriteAdds
    <3>4. \A d \in Conns : \A i \in DOMAIN wire'[d] :
            r \in wire'[d][i] => d = c /\ i = Len(wire[c]) + 1
      BY <1>0, <1>5, <3>2, OnWireAt, WriteEffect
    <3> QED
      BY <2>1, <3>2, <3>3, <3>4 DEF Twice
  <2> QED
    BY <2>2, <2>3
<1> QED
  BY <1>3, <1>4, <1>5
-----------------------------------------------------------------------------
(* Nothing is open, written or accepted at first. *)
LEMMA InitDInv == DeliveryInit => DInv
<1> SUFFICES ASSUME DeliveryInit PROVE DInv
  OBVIOUS
<1>1. \A c \in Conns : wire[c] = <<>> /\ got[c] = {} /\ DOMAIN wire[c] = {}
  BY DEF DeliveryInit
<1>2. \A c \in Conns : OnWire(c) = {} /\ WrittenTo(c) = {}
  BY <1>1 DEF OnWire, WrittenTo
<1>3. ChannelTypeOK
  <2>1. <<>> \in Seq(SUBSET Rows)
    BY EmptySeq
  <2> QED
    BY <2>1 DEF DeliveryInit, ChannelTypeOK
<1>4. Vouched /\ Traced
  BY <1>2 DEF DeliveryInit, Init, Vouched, Traced
<1>5. Ascending /\ DuplicateNeedsBrokenWrite
  BY <1>1, <1>2 DEF Ascending, InOrderOn, DuplicateNeedsBrokenWrite, Twice
<1> QED
  BY <1>3, <1>4, <1>5 DEF DInv

(* The invariant of the composition. *)
THEOREM DeliveryInvariance == DeliverySpec => [](DInv /\ RInv)
<1>1. DInv /\ RInv /\ [DeliveryNext]_dvars => DInv'
  <2> SUFFICES ASSUME DInv, RInv, [DeliveryNext]_dvars PROVE DInv'
    OBVIOUS
  <2>1. ChannelTypeOK'
    BY ChannelStep DEF DInv, RInv, IInv
  <2> QED
    BY <2>1, VouchedStep, TracedStep, AscendingStep, TwiceStep DEF DInv
<1> QED
  BY <1>1, InitDInv, ExecutorInvariance, PTL DEF DeliverySpec

(* From the table to the clients, a row the cursor passed was read, is on  *)
(* its way, or went down with a connection, or else was tied or late.      *)
THEOREM NothingElseIsLost == DeliverySpec => []EndToEnd
<1>1. DInv /\ RInv => EndToEnd
  BY DEF DInv, Vouched, RInv, IInv, LossNeedsTieOrLateCommit, EndToEnd
<1> QED
  BY <1>1, DeliveryInvariance, PTL

(* Clients get a row twice only by a write that broke after it was         *)
(* buffered, or by a cursor value that does not parse.                     *)
THEOREM TwiceIsBrokenWrite == DeliverySpec => []DuplicateNeedsBrokenWrite
BY DeliveryInvariance, PTL DEF DInv

(* What a client reads goes up in the cursor column. *)
THEOREM ClientsReadForward == DeliverySpec => ReadsForward
<1> DEFINE Forward == \A c \in Conns : \A r \in got'[c] \ got[c], s \in got[c] :
                        CursorOf[s] <= CursorOf[r] \/ \E a \in accepted : ~Parses(a)
<1>1. DInv /\ [DeliveryNext]_dvars => [Forward]_dvars
  <2> SUFFICES ASSUME DInv, [DeliveryNext]_dvars, NEW c \in Conns,
                      NEW r \in got'[c] \ got[c], NEW s \in got[c]
               PROVE  CursorOf[s] <= CursorOf[r] \/ Unkept
    BY DEF Unkept
  <2>1. ChannelTypeOK /\ Ascending
    BY DEF DInv
  <2>2. Receive(c)
    <3>1. ASSUME NEW d \in Conns, d # c, Receive(d) PROVE got'[c] = got[c]
      BY <2>1, <3>1, ReceiveEffect DEF ChannelTypeOK
    <3>2. ASSUME NEW d \in Conns, Write(d) PROVE got' = got
      BY <3>2 DEF Write
    <3> QED
      BY <3>1, <3>2, Untouched
  <2>3. conn[c] = "open"
    BY <2>2 DEF Receive
  <2>4. r \in OnWire(c)
    <3>1. r \in wire[c][1] /\ 1 \in DOMAIN wire[c]
      BY <2>1, <2>2, ReceiveEffect DEF ChannelTypeOK
    <3> QED
      BY <3>1, OnWireAt
  <2> QED
    BY <2>1, <2>3, <2>4 DEF Ascending, InOrderOn
<1> QED
  BY <1>1, DeliveryInvariance, PTL DEF DeliverySpec, ReadsForward
-----------------------------------------------------------------------------
(***************************************************************************)
(* "Both ensure rows are delivered exactly once" (docs/queries.md), seen   *)
(* from the clients: each row the cursor has passed was written to one,    *)
(* and a row is written twice only if a write of it broke.                 *)
(***************************************************************************)
OnceToClients ==
  /\ Passed \cap Deliverable \subseteq Reached
  /\ \A r \in Rows : Twice(r) => r \in redo

(* What it takes for that: rows committed in strict order of their cursor  *)
(* values, and cursor values that all parse.  Sends that fail, sessions    *)
(* that refuse and clients that come and go take nothing from it.          *)
THEOREM OnceToClientsIfStrict ==
  Order = "strict" /\ Unparsable = {} /\ DeliverySpec => []OnceToClients
<1> SUFFICES ASSUME Order = "strict", Unparsable = {} PROVE DeliverySpec => []OnceToClients
  OBVIOUS
<1>1. Spec => []NoGap
  BY AtLeastOnce
<1>2. NoGap /\ DInv => OnceToClients
  BY DEF NoGap, DInv, Vouched, DuplicateNeedsBrokenWrite, Parses, OnceToClients
<1> QED
  BY <1>1, <1>2, DeliveryRefinesExecutor, DeliveryInvariance, PTL
=============================================================================
