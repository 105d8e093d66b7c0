------------------------------ MODULE Executor ------------------------------
(***************************************************************************)
(* One streaming query: an Executor polling its table with a cursor        *)
(* (internal/query/executor.go).  The goroutine started by Start selects   *)
(* between the query's context, its stop channel and a ticker; each tick   *)
(* fetches the next batch of rows above the cursor, scans it, hands it to  *)
(* the transport and, only then, advances the cursor.  Rows are committed  *)
(* to the table and Manager.Unregister stops the query in between.         *)
(*                                                                         *)
(* Batches are not all it sends: a failure and the end are told in frames  *)
(* without rows, through the same SendToQuery, which waits for as long as  *)
(* a client that is there does not read.  The goroutine is then "telling". *)
(*                                                                         *)
(* The operators SilentSkip, Unordered, FromCursor, SendErrorIgnored,      *)
(* SendErrorEndsRun, ResetCursor, SentAnyway and IgnoreContext are faulty  *)
(* versions of what follows them; no specification uses them.              *)
(*                                                                         *)
(* Rows are abstract: a row has a cursor value, matches the WHERE clause   *)
(* or not, can be scanned into []byte columns or not.  Rows whose cursor   *)
(* is NULL are left out: neither "cursor > ?" nor MAX sees them.           *)
(***************************************************************************)
EXTENDS Integers, FiniteSets

CONSTANTS
  Rows,         \* the rows that may ever be committed to the table
  CursorOf,     \* CursorOf[r]: the value of row r in the cursor column
  Matching,     \* the rows that satisfy the plan's BaseWhereSQL
  Unscannable,  \* the rows rows.Scan refuses (a column it cannot convert)
  Unparsable,   \* the cursor values for which parseCursorValue returns nil
  Minimal,      \* int64(0), or the zero time for a TIMESTAMP cursor
  BatchSize,    \* plan.BatchSize
  Order,        \* how commits are ordered along the cursor column, below
  MaxErrors     \* bound: the errors counter saturates here

ASSUME ExecutorAssumption ==
  /\ IsFiniteSet(Rows)
  /\ CursorOf \in [Rows -> Int]
  /\ Matching \subseteq Rows
  /\ Unscannable \subseteq Rows
  /\ Unparsable \subseteq Int
  /\ Minimal \in Int
  /\ BatchSize \in Nat \ {0}
  /\ Order \in {"strict", "monotone", "arbitrary"}
  /\ MaxErrors \in Nat

VARIABLES
  table,       \* the committed rows of the query's table
  plan,        \* the StreamPlan: start mode, and does the projection
               \* contain the cursor column
  pc,          \* where Start and run are
  running,     \* Executor.running
  cursor,      \* StreamState.CursorValue
  rowsSent,    \* StreamState.RowsSent
  batch,       \* the rows the current poll holds
  ctxDone,     \* the query's context is cancelled
  stopClosed,  \* stopCh is closed
  errors,      \* the errors this query added to metrics, up to MaxErrors
  floor,       \* history: the cursor value Start chose
  accepted,    \* history: the rows the transport accepted
  resent,      \* history: the rows it accepted more than once
  late         \* history: the rows committed behind the reading position

dbVars    == <<table, late>>
stateVars == <<cursor, rowsSent, floor>>
sentVars  == <<accepted, resent>>
stopVars  == <<ctxDone, stopClosed>>
vars == <<table, plan, pc, running, cursor, rowsSent, batch,
          ctxDone, stopClosed, errors, floor, accepted, resent, late>>

(* The rows the query is to stream. *)
Deliverable == Matching \ Unscannable

Exited  == {"ended"}
Polling == {"scan", "send", "advance"}

(* Handing over a frame without rows: that Start, a poll or a send failed, *)
(* that the context is cancelled, that the query is completed.             *)
Telling == {"failing", "report", "unsent", "cancelled", "completed"}

Highest(r, S) == r \in S /\ \A s \in S : CursorOf[s] <= CursorOf[r]
Parses(r)     == CursorOf[r] \notin Unparsable

(* An error is counted, up to the bound. *)
Count(n) == errors' = IF errors + n < MaxErrors THEN errors + n ELSE MaxErrors
-----------------------------------------------------------------------------
(* The table starts with any rows whose order is allowed. *)
Ordered(S) ==
  Order = "strict" => \A r, s \in S : CursorOf[r] = CursorOf[s] => r = s

Init ==
  /\ table \in {S \in SUBSET Rows : Ordered(S)}
  /\ plan \in [mode : {"BEGINNING", "NOW"}, projected : BOOLEAN]
  /\ pc = "new"
  /\ running = FALSE
  /\ cursor = Minimal
  /\ rowsSent = 0
  /\ batch = {}
  /\ ctxDone = FALSE
  /\ stopClosed = FALSE
  /\ errors = 0
  /\ floor = Minimal
  /\ accepted = {}
  /\ resent = {}
  /\ late = {}

(***************************************************************************)
(* A transaction commits one more row.  "strict": above every committed    *)
(* row, what the documentation asks of an id column; "monotone": at or     *)
(* above, what it asks of a TIMESTAMP column; "arbitrary": ids drawn by    *)
(* concurrent transactions become visible in any order.                    *)
(***************************************************************************)
InOrder(r) ==
  CASE Order = "strict"   -> \A s \in table : CursorOf[s] < CursorOf[r]
    [] Order = "monotone" -> \A s \in table : CursorOf[s] <= CursorOf[r]
    [] OTHER              -> TRUE

Behind(r) ==
  /\ CursorOf[r] > floor
  /\ \/ CursorOf[r] <= cursor
     \/ \E b \in batch : CursorOf[r] <= CursorOf[b]

Commit(r) ==
  /\ r \in Rows \ table
  /\ InOrder(r)
  /\ table' = table \cup {r}
  /\ late' = IF Behind(r) THEN late \cup {r} ELSE late
  /\ UNCHANGED <<plan, pc, running, stateVars, batch, stopVars, errors, sentVars>>
-----------------------------------------------------------------------------
(* Start and initializeStreamState.  Manager.Register calls Start once and *)
(* publishes the executor when it returns: nobody else sees it meanwhile.  *)
Launch(start) ==
  /\ pc = "new"
  /\ pc' = "select"
  /\ running' = TRUE
  /\ cursor' = start
  /\ floor' = start
  /\ UNCHANGED <<dbVars, plan, rowsSent, batch, stopVars, errors, sentVars>>

StartBeginning == plan.mode = "BEGINNING" /\ Launch(Minimal)

(* SELECT MAX(cursor) ignores the WHERE clause; no value, or one that does *)
(* not parse, means the beginning.                                         *)
StartNow ==
  /\ plan.mode = "NOW"
  /\ \/ table = {} /\ Launch(Minimal)
     \/ \E r \in table : /\ Highest(r, table)
                         /\ Launch(IF Parses(r) THEN CursorOf[r] ELSE Minimal)

(* getMaxCursor fails: an error is sent and no goroutine is started. *)
StartFails ==
  /\ pc = "new"
  /\ plan.mode = "NOW"
  /\ pc' = "failing"
  /\ UNCHANGED <<dbVars, plan, running, stateVars, batch, stopVars, errors, sentVars>>

(* A frame without rows has been taken, or refused by every session, which *)
(* comes to the same: sendError drops the error of its SendToQuery.  Only  *)
(* then is a failure counted, and that of a batch's send once more by poll.*)
Told ==
  /\ pc \in Telling
  /\ pc' = CASE pc = "failing" -> "failed"
            [] pc \in {"report", "unsent"} -> "select"
            [] OTHER -> "ended"
  /\ Count(CASE pc = "completed" -> 0 [] pc = "unsent" -> 2 [] OTHER -> 1)
  /\ UNCHANGED <<dbVars, plan, running, stateVars, batch, stopVars, sentVars>>
-----------------------------------------------------------------------------
(* What BuildStreamingSQL asks for: the BatchSize lowest rows that match   *)
(* and lie above the cursor, equal cursor values in any order.             *)
FromCursor == {r \in table \cap Matching : CursorOf[r] >= cursor}
Candidates == {r \in table \cap Matching : CursorOf[r] > cursor}

Unordered(B, S) == B \subseteq S
LowestOf(B, S) ==
  /\ B \subseteq S
  /\ \A r \in B, s \in S \ B : CursorOf[r] <= CursorOf[s]

Limited(B, S) ==
  Cardinality(B) = IF Cardinality(S) < BatchSize THEN Cardinality(S) ELSE BatchSize

(* A tick whose query finds rows; one that finds none changes nothing. *)
PollFetch ==
  /\ pc = "select"
  /\ plan.projected
  /\ ~ctxDone
  /\ \E B \in SUBSET Candidates :
       /\ B # {}
       /\ LowestOf(B, Candidates)
       /\ Limited(B, Candidates)
       /\ batch' = B
  /\ pc' = "scan"
  /\ UNCHANGED <<dbVars, plan, running, stateVars, stopVars, errors, sentVars>>

(* A tick whose poll reports an error: the database fails, as it does once *)
(* the context is cancelled, or the cursor column is not in the result.    *)
PollFails ==
  /\ pc = "select"
  /\ pc' = "report"
  /\ UNCHANGED <<dbVars, plan, running, stateVars, batch, stopVars, errors, sentVars>>

(* Each row that does not scan is reported, and each report may wait. *)
SilentSkip(P) == 0
ScanErrors(P) == Cardinality(P \cap Unscannable)

(* The rows.Next loop.  A cancelled context or an error of the driver ends *)
(* it early, which nothing notices: rows.Err is never asked.  A row that   *)
(* does not scan is skipped.                                               *)
Scan ==
  /\ pc = "scan"
  /\ \E P \in SUBSET batch :
       /\ LowestOf(P, batch)
       /\ batch' = P \ Unscannable
       /\ \E closed \in {0, 1} :   \* Scan after the context closed rows
            /\ closed = 1 => ctxDone /\ P # batch
            /\ Count(ScanErrors(P) + closed)
  /\ pc' = IF batch' = {} THEN "select" ELSE "send"
  /\ UNCHANGED <<dbVars, plan, running, stateVars, stopVars, sentVars>>

(* SendToQuery returned nil: some session's stream took the batch. *)
SendOk ==
  /\ pc = "send"
  /\ pc' = "advance"
  /\ accepted' = accepted \cup batch
  /\ resent' = resent \cup (batch \cap accepted)
  /\ UNCHANGED <<dbVars, plan, running, stateVars, batch, stopVars, errors>>

(* SendToQuery failed: the batch is given up and an error is to be sent. *)
SendErrorIgnored ==
  /\ pc = "send"
  /\ pc' = "advance"
  /\ UNCHANGED <<dbVars, plan, running, stateVars, batch, stopVars, errors, sentVars>>

SendErrorEndsRun ==
  /\ pc = "send"
  /\ pc' = "failed"
  /\ batch' = {}
  /\ UNCHANGED <<dbVars, plan, running, stateVars, stopVars, errors, sentVars>>

SendFails ==
  /\ pc = "send"
  /\ pc' = "unsent"
  /\ batch' = {}
  /\ UNCHANGED <<dbVars, plan, running, stateVars, stopVars, errors, sentVars>>

(* maxCursor is the cursor of the last row scanned, or nil: then neither   *)
(* the cursor nor the count moves, and the batch will be fetched again.    *)
ResetCursor(r) == IF Parses(r) THEN CursorOf[r] ELSE Minimal
NextCursor(r)  == IF Parses(r) THEN CursorOf[r] ELSE cursor

SentAnyway(r) == rowsSent + Cardinality(batch)
NextSent(r)   == IF Parses(r) THEN rowsSent + Cardinality(batch) ELSE rowsSent

Advance ==
  /\ pc = "advance"
  /\ \E r \in batch :
       /\ Highest(r, batch)
       /\ cursor' = NextCursor(r)
       /\ rowsSent' = NextSent(r)
  /\ pc' = "select"
  /\ batch' = {}
  /\ UNCHANGED <<dbVars, plan, running, floor, stopVars, errors, sentVars>>
-----------------------------------------------------------------------------
(* Manager.Unregister calls q.Cancel() and then Executor.Stop(). *)
Cancel ==
  /\ pc \notin {"new", "failing"}
  /\ ~ctxDone
  /\ ctxDone' = TRUE
  /\ UNCHANGED <<dbVars, plan, pc, running, stateVars, batch, stopClosed, errors, sentVars>>

Stop ==
  /\ ctxDone
  /\ running
  /\ running' = FALSE
  /\ stopClosed' = TRUE
  /\ UNCHANGED <<dbVars, plan, pc, stateVars, batch, ctxDone, errors, sentVars>>

(* The select takes any ready case; run returns once it has told the end. *)
IgnoreContext ==
  /\ pc = "select"
  /\ ctxDone
  /\ pc' = "report"
  /\ UNCHANGED <<dbVars, plan, running, stateVars, batch, stopVars, errors, sentVars>>

RunCancelled ==
  /\ pc = "select"
  /\ ctxDone
  /\ pc' = "cancelled"
  /\ UNCHANGED <<dbVars, plan, running, stateVars, batch, stopVars, errors, sentVars>>

RunStopped ==
  /\ pc = "select"
  /\ stopClosed
  /\ pc' = "completed"
  /\ UNCHANGED <<dbVars, plan, running, stateVars, batch, stopVars, errors, sentVars>>
-----------------------------------------------------------------------------
Start == StartBeginning \/ StartNow \/ StartFails
Exit  == RunCancelled \/ RunStopped

Next ==
  \/ \E r \in Rows : Commit(r)
  \/ StartBeginning
  \/ StartNow
  \/ StartFails
  \/ Told
  \/ PollFetch
  \/ PollFails
  \/ Scan
  \/ SendOk
  \/ SendFails
  \/ Advance
  \/ Cancel
  \/ Stop
  \/ RunCancelled
  \/ RunStopped

Spec == Init /\ [][Next]_vars

(***************************************************************************)
(* The goroutine is scheduled and its ticker keeps firing; the database    *)
(* may fail again and again but not for ever; a select with several ready  *)
(* cases picks uniformly, so an exit that stays ready is begun.  Nothing   *)
(* is assumed of what waits for a client: Scan, which may have a row to    *)
(* report, the two ends of a send, and Told.  Nothing obliges rows to      *)
(* arrive or the query to be stopped.                                      *)
(***************************************************************************)
FairSpec ==
  /\ Spec
  /\ SF_vars(PollFetch)
  /\ WF_vars(Advance)
  /\ SF_vars(Exit)
-----------------------------------------------------------------------------
(* Every variable stays in its domain; a batch is held exactly while a     *)
(* poll is under way; the cursor never lies below the one Start chose.     *)
TypeOK ==
  /\ table \subseteq Rows
  /\ plan \in [mode : {"BEGINNING", "NOW"}, projected : BOOLEAN]
  /\ pc \in {"new", "select", "failed"} \cup Polling \cup Telling \cup Exited
  /\ running \in BOOLEAN
  /\ cursor \in Int
  /\ floor \in Int
  /\ rowsSent \in Nat
  /\ batch \in SUBSET Rows
  /\ batch # {} <=> pc \in Polling
  /\ cursor >= floor
  /\ ctxDone \in BOOLEAN
  /\ stopClosed \in BOOLEAN
  /\ errors \in 0..MaxErrors
  /\ accepted \in SUBSET Rows
  /\ resent \in SUBSET Rows
  /\ late \in SUBSET Rows

(* The rows the cursor has passed. *)
Passed == {r \in table : floor < CursorOf[r] /\ CursorOf[r] <= cursor}
Tied(r) == \E s \in table : s # r /\ CursorOf[s] = CursorOf[r]

(***************************************************************************)
(* At least once.  The cursor, which is all a query remembers, passes no   *)
(* row that was never handed to the transport: not when a send fails, not  *)
(* when a scan fails or is cut short, not when rows are committed between  *)
(* the fetch and the advance.  Needs rows committed in strict order.       *)
(***************************************************************************)
NoGap == Passed \cap Deliverable \subseteq accepted

(***************************************************************************)
(* The same without any assumption on the order: a row the cursor passed   *)
(* unsent shares its cursor value with another row, so that LIMIT could    *)
(* cut between them, or was committed behind the reading position.         *)
(***************************************************************************)
LossNeedsTieOrLateCommit ==
  \A r \in (Passed \cap Deliverable) \ accepted : Tied(r) \/ r \in late

(* RowsSent, which getQueryState reports, counts each row the cursor       *)
(* passed once, however often it was sent.                                 *)
RowsSentExact == rowsSent = Cardinality(accepted \cap Passed)

(* A row that does not scan is dropped for good, but never in silence:     *)
(* each one the cursor passed added an error to the metrics.               *)
SkipsReported ==
  errors = MaxErrors \/ errors >= Cardinality(Passed \cap Matching \cap Unscannable)

(* A failed send repeats nothing: a row is accepted twice only if the      *)
(* cursor of some accepted row did not parse and so could not be kept.     *)
ResendNeedsParseFailure ==
  resent # {} => \E r \in accepted : ~Parses(r)

(* The cursor moves only to the value of a row the transport accepted, so  *)
(* the value bound to "cursor > ?" is always one the stream has shown.     *)
CursorIsEvidence ==
  cursor # floor => \E r \in accepted : CursorOf[r] = cursor

(* Once started, no poll moves the cursor back. *)
CursorNeverRetreats == [][pc # "new" => cursor' >= cursor]_vars

(* Where run is in its loop. *)
Serving == {"select", "report", "unsent"} \cup Polling

(* The executor implements the subscription of CursorStream. *)
Promise ==
  INSTANCE CursorStream WITH
    log    <- table,
    handed <- accepted,
    phase  <- IF pc = "new" THEN "idle"
              ELSE IF pc \in Serving THEN "open"
              ELSE "closed"

ImplementsCursorStream == Promise!Spec

(* A query from the beginning owes every row above the least cursor value. *)
Owed(r) ==
  /\ pc \in Serving
  /\ plan.projected
  /\ r \in table \cap Deliverable
  /\ CursorOf[r] > IF plan.mode = "NOW" THEN floor ELSE Minimal

(* The clients and the driver serve the query: what it hands over is taken *)
(* or refused, a batch not refused for ever, and from some time on no loop *)
(* over the rows of a batch is cut short.                                  *)
Served ==
  /\ <>[][Scan => batch' = batch \ Unscannable]_vars
  /\ WF_vars(Scan)
  /\ SF_vars(SendOk)
  /\ WF_vars(Told)

(* Before r there is a whole batch that the cursor cannot pass: of its     *)
(* rows none scans, or the last that does has a cursor that does not parse.*)
(* Every poll fetches it again.                                            *)
Stuck(r) ==
  \E B \in SUBSET (Candidates \ {r}) :
    /\ Cardinality(B) = BatchSize
    /\ LowestOf(B, Candidates)
    /\ \A b \in B : Highest(b, B \ Unscannable) => ~Parses(b)

(***************************************************************************)
(* A committed row above the starting position reaches the transport,      *)
(* whatever fails on the way, if the query is served and not cancelled.    *)
(* Only a batch the cursor cannot pass stops it, and then for good.        *)
(***************************************************************************)
RowsDelivered ==
  Served => \A r \in Rows : Owed(r) ~> (r \in accepted \/ ctxDone \/ Stuck(r))

(***************************************************************************)
(* A cancelled query's goroutine ends, unless it comes to one send that    *)
(* never returns: a batch, the report of a failure, or its own last frame. *)
(***************************************************************************)
ExitsAfterCancel ==
  <>ctxDone =>
    \/ <>(pc \in Exited \cup {"failed"})
    \/ \E p \in {"scan", "send"} \cup Telling : <>[](pc = p)
=============================================================================
