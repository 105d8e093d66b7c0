------------------------------- MODULE Ingest -------------------------------
(***************************************************************************)
(* How rows get into a table (internal/duckdb/ingest.go and client.go).    *)
(* POST /ingest appends an event to a shared buffer; the request that      *)
(* fills the buffer, or finds it old enough, takes all of it and inserts   *)
(* it in one transaction, its own event among others'.  There is no timer: *)
(* only a request, or the signal handler of cmd/main.go, flushes.  POST    *)
(* /ingest/events inserts at once.  Row ids come from a sequence, drawn as *)
(* each row is inserted; rows are seen by queries when the transaction     *)
(* commits.                                                                *)
(*                                                                         *)
(* A request is an event that has a handler; its text does not matter, and *)
(* neither does the copy each handler writes to ingestion_events, beyond   *)
(* the time it takes.                                                      *)
(*                                                                         *)
(* OnlyWhenAged, KeepBuffer, GiveBack and AckRefused are faulty versions   *)
(* of what follows them, used by nothing.                                  *)
(***************************************************************************)
EXTENDS Integers, FiniteSets, Sequences

CONSTANTS
  Events,     \* the requests that may ever come, one event each
  Direct,     \* those posted to /ingest/events
  BatchSize,  \* cfg.BatchSize
  Signal      \* the goroutine that waits for SIGINT and SIGTERM

ASSUME IngestAssumption ==
  /\ IsFiniteSet(Events)
  /\ Direct \subseteq Events
  /\ BatchSize \in Nat \ {0}
  /\ Signal \notin Events

Actors == Events \cup {Signal}

VARIABLES
  up,       \* the process runs
  buffer,   \* IngestHandler.buffer
  aged,     \* BatchTimeout has passed since lastFlush
  pc,       \* where each goroutine is
  batch,    \* the events its transaction inserts
  done,     \* how many of them it has inserted
  nextId,   \* the sequence behind the id column
  idOf,     \* the id each event drew, 0 for none
  table,    \* the committed events
  dropped,  \* history: the events of transactions that failed
  crossed   \* history: pairs of events, one drew its id while the other had
            \* drawn one and was not committed

bufVars  == <<buffer, aged>>
txVars   == <<batch, done>>
idVars   == <<nextId, idOf, crossed>>
vars     == <<up, bufVars, pc, txVars, idVars, table, dropped>>

Init ==
  /\ up = TRUE
  /\ buffer = <<>>
  /\ aged = FALSE
  /\ pc = [a \in Actors |-> "new"]
  /\ batch = [a \in Actors |-> <<>>]
  /\ done = [a \in Actors |-> 0]
  /\ nextId = 1
  /\ idOf = [e \in Events |-> 0]
  /\ table = {}
  /\ dropped = {}
  /\ crossed = {}

GoTo(a, label) == pc' = [pc EXCEPT ![a] = label]

(* Where a goroutine goes after its flush or insertion; the signal handler *)
(* goes on to close the server and exit.                                   *)
Resume(a) == IF a = Signal THEN "exiting" ELSE "log"
-----------------------------------------------------------------------------
(* Handle, the default endpoint: append and decide under the lock. *)
OnlyWhenAged(b) == aged
ShouldFlush(b)  == Len(b) >= BatchSize \/ aged

Post(e) ==
  /\ up
  /\ pc[e] = "new"
  /\ e \notin Direct
  /\ buffer' = Append(buffer, e)
  /\ GoTo(e, IF ShouldFlush(buffer') THEN "flush" ELSE "log")
  /\ UNCHANGED <<up, aged, txVars, idVars, table, dropped>>

(* flush: take the buffer, whatever is in it by now. *)
KeepBuffer == buffer
NewBuffer  == <<>>

Take(a) ==
  /\ up
  /\ pc[a] = "flush"
  /\ batch' = [batch EXCEPT ![a] = buffer]
  /\ buffer' = NewBuffer
  /\ aged' = FALSE
  /\ GoTo(a, IF buffer = <<>> THEN Resume(a) ELSE "insert")
  /\ UNCHANGED <<up, done, idVars, table, dropped>>

(* Handle, the table endpoint: a transaction of its own. *)
PostDirect(e) ==
  /\ up
  /\ pc[e] = "new"
  /\ e \in Direct
  /\ batch' = [batch EXCEPT ![e] = <<e>>]
  /\ GoTo(e, "insert")
  /\ UNCHANGED <<up, bufVars, done, idVars, table, dropped>>

(* The events of a's transaction, and those it has inserted. *)
Held(a)  == {batch[a][i] : i \in DOMAIN batch[a]}
Drawn(a) == {batch[a][i] : i \in 1..done[a]}

(* One INSERT of the transaction; its DEFAULT draws the next id. *)
Insert(a) ==
  /\ up
  /\ pc[a] = "insert"
  /\ done[a] < Len(batch[a])
  /\ done' = [done EXCEPT ![a] = @ + 1]
  /\ idOf' = [idOf EXCEPT ![batch[a][done'[a]]] = nextId]
  /\ nextId' = nextId + 1
  /\ crossed' = crossed \cup
       {{batch[a][done'[a]], f} : f \in UNION {Drawn(b) : b \in Actors \ {a}}}
  /\ UNCHANGED <<up, bufVars, pc, batch, table, dropped>>

Close(a) ==
  /\ batch' = [batch EXCEPT ![a] = <<>>]
  /\ done' = [done EXCEPT ![a] = 0]

Commit(a) ==
  /\ up
  /\ pc[a] = "insert"
  /\ done[a] = Len(batch[a])
  /\ table' = table \cup Held(a)
  /\ Close(a)
  /\ GoTo(a, Resume(a))
  /\ UNCHANGED <<up, bufVars, idVars, dropped>>

(* The transaction fails, by an error or its timeout, and is rolled back.  *)
(* flush reports it to the terminal only; the table endpoint refuses.  The *)
(* sequence keeps the ids drawn.                                           *)
GiveBack(a)      == nextId - done[a]
AfterRollback(a) == nextId

AckRefused(a) == Resume(a)
AfterError(a) == IF a \in Direct THEN "refused" ELSE Resume(a)

InsertFails(a) ==
  /\ up
  /\ pc[a] = "insert"
  /\ dropped' = dropped \cup Held(a)
  /\ idOf' = [e \in Events |-> IF e \in Held(a) THEN 0 ELSE idOf[e]]
  /\ nextId' = AfterRollback(a)
  /\ Close(a)
  /\ GoTo(a, AfterError(a))
  /\ UNCHANGED <<up, bufVars, crossed, table>>

(* LogIngestionEvent, whose failure changes nothing, then 200 OK. *)
Log(e) ==
  /\ up
  /\ pc[e] = "log"
  /\ GoTo(e, "replied")
  /\ UNCHANGED <<up, bufVars, txVars, idVars, table, dropped>>
-----------------------------------------------------------------------------
(* BatchTimeout passes. *)
Age ==
  /\ up
  /\ ~aged
  /\ aged' = TRUE
  /\ UNCHANGED <<up, buffer, pc, txVars, idVars, table, dropped>>

(* A signal: cancel(), after which main may return, then Flush(). *)
Interrupt ==
  /\ up
  /\ pc[Signal] = "new"
  /\ GoTo(Signal, "flush")
  /\ UNCHANGED <<up, bufVars, txVars, idVars, table, dropped>>

(* QUIT at the prompt ends the process as it stands; nothing is flushed. *)
Quit ==
  /\ up
  /\ up' = FALSE
  /\ UNCHANGED <<bufVars, pc, txVars, idVars, table, dropped>>

(* main returns, or os.Exit: open transactions are lost. *)
Exit ==
  /\ up
  /\ pc[Signal] # "new"
  /\ up' = FALSE
  /\ UNCHANGED <<bufVars, pc, txVars, idVars, table, dropped>>

Step(a) ==
  \/ Take(a)
  \/ Insert(a)
  \/ Commit(a)
  \/ InsertFails(a)
  \/ Log(a)

Next ==
  \/ \E e \in Events : Post(e) \/ PostDirect(e)
  \/ \E a \in Actors : Step(a)
  \/ Age
  \/ Interrupt
  \/ Exit
  \/ Quit

Spec == Init /\ [][Next]_vars
-----------------------------------------------------------------------------
(* Every variable stays in its domain. *)
IngestTypeOK ==
  /\ up \in BOOLEAN /\ aged \in BOOLEAN
  /\ buffer \in Seq(Events \ Direct)
  /\ pc \in [Actors -> {"new", "flush", "insert", "log", "replied", "refused", "exiting"}]
  /\ batch \in [Actors -> Seq(Events)]
  /\ done \in [Actors -> Nat]
  /\ \A a \in Actors : done[a] <= Len(batch[a])
  /\ nextId \in Nat \ {0}
  /\ idOf \in [Events -> Nat]
  /\ crossed \in SUBSET SUBSET Events
  /\ table \in SUBSET Events
  /\ dropped \in SUBSET Events

(* The places an event can be. *)
Places(e) ==
  {<<"buffer", i>> : i \in {i \in DOMAIN buffer : buffer[i] = e}}
    \cup {<<"batch", a>> : a \in {a \in Actors : e \in Held(a)}}
    \cup {<<"table", 0>> : x \in {e} \cap table}
    \cup {<<"dropped", 0>> : x \in {e} \cap dropped}

(* Concurrent posts and flushes neither lose nor duplicate an event: from  *)
(* the moment it is accepted it is in exactly one place, and the only way  *)
(* out, other than the table, is a failed transaction.                     *)
ExactlyOnePlace ==
  \A e \in Events : Cardinality(Places(e)) = IF pc[e] = "new" THEN 0 ELSE 1

(* The buffer is over its limit by at most the handlers about to flush.    *)
BufferBounded ==
  Len(buffer) < BatchSize + Cardinality({a \in Actors : pc[a] = "flush"})

(* The table endpoint does not say 200 for a row that is not there.        *)
DirectAckIsStored == \A e \in Direct : pc[e] \in {"log", "replied"} => e \in table

(* Rows become visible in the order of their ids, which a cursor needs, if *)
(* their transactions do not overlap, whatever failed in between.          *)
DisorderNeedsOverlap ==
  [][\A e \in table' \ table, f \in table :
       idOf[f] < idOf[e] \/ {e, f} \in crossed]_vars
=============================================================================
