------------------------------ MODULE Delivery ------------------------------
(***************************************************************************)
(* From the table to the clients: an Executor, the sender of cmd/main.go   *)
(* that tries the sessions one after another, and the connections that     *)
(* carry what the sender writes.  A write returns when the connection has  *)
(* buffered the batch, not when the client has read it; a connection may   *)
(* drop at any moment, with batches still on their way, or its client may  *)
(* stop this query's stream, to which the session will go on writing.      *)
(*                                                                         *)
(* Which session refuses a batch and why is QuicDelivery's subject: here   *)
(* any may.  Error frames, which carry no rows, are left out.              *)
(*                                                                         *)
(* OwnStreams, SendToEvery and NoTakerIgnored are faulty versions of what  *)
(* follows them, used by nothing.                                          *)
(***************************************************************************)
EXTENDS Executor, Sequences

CONSTANTS
  Conns,  \* the connections clients may make, a new one at every reconnect
  None,   \* no connection
  Window  \* bound: the batches a connection can hold unread

ASSUME DeliveryAssumption == None \notin Conns /\ Window \in Nat

VARIABLES
  conn,  \* "new", "open", or "gone": dropped, or the query's stream stopped
  wire,  \* wire[c]: the batches written to c and not read, oldest first
  got,   \* got[c]: the rows the client of c has read
  todo,  \* the sessions sender.SendToQuery has not tried yet
  onTo,  \* the connection it is writing to
  redo   \* history: the rows of writes that broke

netVars == <<conn, wire, got, redo>>
trying  == <<todo, onTo>>
dvars   == <<vars, netVars, trying>>

Open    == {c \in Conns : conn[c] = "open"}
OnWire(c) == UNION {wire[c][i] : i \in DOMAIN wire[c]}

DeliveryInit ==
  /\ Init
  /\ conn = [c \in Conns |-> "new"]
  /\ wire = [c \in Conns |-> <<>>]
  /\ got = [c \in Conns |-> {}]
  /\ todo = {}
  /\ onTo = None
  /\ redo = {}
-----------------------------------------------------------------------------
(* Clients come and go; what is on the way to a client that goes is lost.  *)
(* To this query it is the same when the client stays but stops its stream *)
(* (STOP_SENDING): every later write to that stream fails.                 *)
Connect(c) ==
  /\ conn[c] = "new"
  /\ conn' = [conn EXCEPT ![c] = "open"]
  /\ UNCHANGED <<vars, wire, got, redo, trying>>

Drop(c) ==
  /\ conn[c] = "open"
  /\ conn' = [conn EXCEPT ![c] = "gone"]
  /\ UNCHANGED <<vars, wire, got, redo, trying>>

(* A session keeps one stream for a query, so its batches come in order.   *)
OwnStreams(c) == DOMAIN wire[c]
Readable(c)   == DOMAIN wire[c] \cap {1}

Receive(c) ==
  /\ conn[c] = "open"
  /\ \E i \in Readable(c) :
       /\ got' = [got EXCEPT ![c] = @ \cup wire[c][i]]
       /\ wire' = [wire EXCEPT ![c] = SubSeq(@, 1, i - 1) \o SubSeq(@, i + 1, Len(@))]
  /\ UNCHANGED <<vars, conn, redo, trying>>
-----------------------------------------------------------------------------
(* Every step of the executor but the two ends of its send; with a batch   *)
(* to send, the sender takes a snapshot of the sessions.                   *)
ExecutorStep ==
  /\ \/ \E r \in Rows : Commit(r)
     \/ Start
     \/ Told
     \/ PollFetch
     \/ PollFails
     \/ Scan
     \/ Advance
     \/ Cancel
     \/ Stop
     \/ Exit
  /\ todo' = IF pc = "scan" /\ pc' = "send" THEN Open ELSE todo
  /\ UNCHANGED <<netVars, onTo>>

(* Some sessions refuse; the next one's stream.Write is under way, and     *)
(* from now on its client may read the batch.                              *)
Write(c) ==
  /\ pc = "send"
  /\ onTo = None
  /\ c \in todo \cap Open
  /\ Len(wire[c]) < Window
  /\ wire' = [wire EXCEPT ![c] = Append(@, batch)]
  /\ onTo' = c
  /\ todo' \in SUBSET (todo \ {c})
  /\ UNCHANGED <<vars, conn, got, redo>>

(* It returns: the first session that takes a batch ends the loop.         *)
SendToEvery ==
  /\ onTo # None
  /\ onTo' = None
  /\ \/ todo = {} /\ SendOk
     \/ todo # {} /\ UNCHANGED vars
  /\ UNCHANGED <<netVars, todo>>

Written ==
  /\ onTo # None
  /\ SendOk
  /\ onTo' = None
  /\ todo' = {}
  /\ UNCHANGED netVars

(* It fails, as it does once the connection or the stream has gone: to the *)
(* next session.                                                           *)
WriteFails ==
  /\ onTo \notin Open \cup {None}
  /\ onTo' = None
  /\ redo' = redo \cup batch
  /\ UNCHANGED <<vars, conn, wire, got, todo>>

(* All that are left refuse: SendToQuery returns an error to poll. *)
NoTakerIgnored ==
  /\ onTo = None
  /\ SendErrorIgnored
  /\ todo' = {}
  /\ UNCHANGED <<netVars, onTo>>

NoTaker ==
  /\ onTo = None
  /\ SendFails
  /\ todo' = {}
  /\ UNCHANGED <<netVars, onTo>>

DeliveryNext ==
  \/ ExecutorStep
  \/ \E c \in Conns : Connect(c) \/ Drop(c) \/ Receive(c) \/ Write(c)
  \/ Written
  \/ WriteFails
  \/ NoTaker

DeliverySpec == DeliveryInit /\ [][DeliveryNext]_dvars
-----------------------------------------------------------------------------
(* Every variable stays in its domain; there are sessions left to try, or  *)
(* one being written to, only while a batch is being sent.                 *)
ChannelTypeOK ==
  /\ conn \in [Conns -> {"new", "open", "gone"}]
  /\ wire \in [Conns -> Seq(SUBSET Rows)]
  /\ got \in [Conns -> SUBSET Rows]
  /\ todo \in SUBSET Conns
  /\ onTo \in Conns \cup {None}
  /\ redo \in SUBSET Rows
  /\ pc # "send" => todo = {} /\ onTo = None

(* The rows written to a connection: read, on their way, or lost with it. *)
WrittenTo(c) == got[c] \cup OnWire(c)
Reached == UNION {WrittenTo(c) : c \in Conns}

(***************************************************************************)
(* What the cursor vouches for, from the table to the clients: each row it *)
(* passed has been read by a client, is on its way to one, or was written  *)
(* to a connection that has gone.  The only other ways to miss a row are   *)
(* those of LossNeedsTieOrLateCommit; a send that some or all sessions     *)
(* refuse, or a write that breaks under way, is none.                      *)
(***************************************************************************)
EndToEnd ==
  \A r \in (Passed \cap Deliverable) \ Reached : Tied(r) \/ r \in late

(***************************************************************************)
(* Of several clients one receives a batch, once.  A row is written twice, *)
(* to one connection or to two, only if a write of it broke or the cursor  *)
(* of an accepted row did not parse.                                       *)
(***************************************************************************)
Twice(r) ==
  \/ \E c, d \in Conns : c # d /\ r \in WrittenTo(c) \cap WrittenTo(d)
  \/ \E c \in Conns : \/ r \in got[c] \cap OnWire(c)
                      \/ \E i, j \in DOMAIN wire[c] : i # j /\ r \in wire[c][i] \cap wire[c][j]

DuplicateNeedsBrokenWrite ==
  \A r \in Rows : Twice(r) => r \in redo \/ \E a \in accepted : ~Parses(a)

(***************************************************************************)
(* A client reads forward: no row comes to it after one with a greater     *)
(* cursor, whatever was committed late, refused or cut by LIMIT, unless    *)
(* the cursor of an accepted row did not parse.                            *)
(***************************************************************************)
ReadsForward ==
  [][\A c \in Conns : \A r \in got'[c] \ got[c], s \in got[c] :
       CursorOf[s] <= CursorOf[r] \/ \E a \in accepted : ~Parses(a)]_dvars

(* README.md: "If connection drops after delivery, cursor is not advanced; *)
(* rows are re-sent on reconnect".  A row accepted by a connection that    *)
(* has dropped, and read by nobody, is one the next poll will fetch.       *)
ResentOnReconnect ==
  \A r \in accepted :
    \/ \E c \in Conns : r \in got[c]
    \/ \E c \in Open : r \in OnWire(c)
    \/ cursor < CursorOf[r]
=============================================================================
