--------------------------- MODULE ExecutorProofs ---------------------------
(***************************************************************************)
(* Proofs about Executor, for every table, WHERE clause, batch size and    *)
(* order of commits.  The cursor is all the executor remembers, so the     *)
(* invariant says what the cursor is worth: every deliverable row at or    *)
(* below it was accepted, unless it was tied or came late.  To carry that  *)
(* over an Advance it also says what a batch is worth while a poll holds   *)
(* it: no deliverable row between the cursor and the batch is missing.     *)
(***************************************************************************)
EXTENDS Executor, FiniteSetTheorems, TLAPS

(* What the executor has accepted and holds are committed rows. *)
Held ==
  /\ accepted \subseteq table \cap Deliverable
  /\ \A r \in accepted : CursorOf[r] > floor
  /\ batch \subseteq table \cap Matching
  /\ \A b \in batch : CursorOf[b] > cursor
  /\ pc \in {"send", "advance"} => batch \subseteq Deliverable
  /\ pc = "advance" => batch \subseteq accepted
  /\ pc = "new" => accepted = {} /\ cursor = floor

(* The rows a poll reads past on its way to b. *)
Skipped(b) ==
  {s \in (table \cap Deliverable) \ batch :
     cursor < CursorOf[s] /\ CursorOf[s] <= CursorOf[b]}

NoHole == \A b \in batch : \A s \in Skipped(b) : Tied(s) \/ s \in late

IInv ==
  /\ TypeOK
  /\ Held
  /\ NoHole
  /\ LossNeedsTieOrLateCommit
  /\ CursorIsEvidence
-----------------------------------------------------------------------------
(* The initial states satisfy the invariant: nothing is held or passed. *)
LEMMA InitIInv == Init => IInv
<1> SUFFICES ASSUME Init PROVE IInv
  OBVIOUS
<1>1. TypeOK
  <2>1. table \subseteq Rows
    BY DEF Init
  <2>2. plan \in [mode : {"BEGINNING", "NOW"}, projected : BOOLEAN]
    BY DEF Init
  <2>3. running \in BOOLEAN /\ ctxDone \in BOOLEAN /\ stopClosed \in BOOLEAN
    BY Zenon DEF Init
  <2>4. cursor \in Int /\ floor \in Int /\ cursor >= floor
    BY ExecutorAssumption DEF Init
  <2>5. rowsSent \in Nat /\ errors \in 0..MaxErrors
    BY ExecutorAssumption DEF Init
  <2>6. batch # {} <=> pc \in Polling
    BY DEF Init, Polling
  <2> QED
    BY <2>1, <2>2, <2>3, <2>4, <2>5, <2>6 DEF Init, TypeOK
<1>2. Held /\ NoHole
  BY DEF Init, Held, NoHole, Polling
<1>3. Passed = {}
  BY ExecutorAssumption DEF Init, Passed
<1>4. LossNeedsTieOrLateCommit /\ CursorIsEvidence
  BY <1>3 DEF Init, LossNeedsTieOrLateCommit, CursorIsEvidence
<1> QED
  BY <1>1, <1>2, <1>4 DEF IInv

(* The saturating error counter stays within its bound. *)
LEMMA CountType ==
  ASSUME TypeOK, NEW n \in Nat, Count(n)
  PROVE  errors' \in 0..MaxErrors
BY ExecutorAssumption DEF TypeOK, Count

(* The rows a poll holds are finitely many. *)
LEMMA BatchFinite ==
  ASSUME TypeOK, NEW S \in SUBSET batch
  PROVE  Cardinality(S) \in Nat
<1>1. IsFiniteSet(S)
  BY ExecutorAssumption, FS_Subset DEF TypeOK
<1> QED
  BY <1>1, FS_CardinalityType

(* What Scan adds to the error counter. *)
LEMMA ScanType ==
  ASSUME TypeOK, Scan
  PROVE  errors' \in 0..MaxErrors
<1>1. PICK P \in SUBSET batch, closed \in {0, 1} : Count(ScanErrors(P) + closed)
  BY DEF Scan
<1>2. ScanErrors(P) + closed \in Nat
  BY BatchFinite DEF ScanErrors
<1> QED
  BY <1>1, <1>2, CountType

(* What a frame without rows adds to it. *)
LEMMA ToldCounts ==
  ASSUME Told
  PROVE  \E n \in Nat : Count(n)
<1>1. Count(CASE pc = "completed" -> 0 [] pc = "unsent" -> 2 [] OTHER -> 1)
  BY DEF Told
<1>2. (CASE pc = "completed" -> 0 [] pc = "unsent" -> 2 [] OTHER -> 1) \in Nat
  OBVIOUS
<1> QED
  BY <1>1, <1>2

(* The cursor values of committed rows are integers. *)
LEMMA CursorType == \A r \in Rows : CursorOf[r] \in Int
BY ExecutorAssumption

(* Every step keeps every variable in its domain. *)
LEMMA TypeOKStep == IInv /\ [Next]_vars => TypeOK'
<1> SUFFICES ASSUME IInv, [Next]_vars PROVE TypeOK'
  OBVIOUS
<1> USE DEF dbVars, stateVars, sentVars, stopVars
<1>0. TypeOK /\ Held
  BY DEF IInv
<1>1. ASSUME NEW r \in Rows, Commit(r) PROVE TypeOK'
  BY <1>0, <1>1 DEF TypeOK, Commit
<1>2. ASSUME NEW v \in Int, Launch(v) PROVE TypeOK'
  BY <1>0, <1>2 DEF TypeOK, Launch, Polling
<1>3. CASE StartBeginning
  BY <1>2, <1>3, ExecutorAssumption DEF StartBeginning
<1>4. CASE StartNow
  <2>1. \E v \in Int : Launch(v)
    BY <1>0, <1>4, ExecutorAssumption DEF StartNow, TypeOK, Highest
  <2> QED
    BY <1>2, <2>1
<1>5. CASE StartFails
  BY <1>0, <1>5 DEF TypeOK, StartFails, Polling, Telling
<1>6. CASE PollFetch
  BY <1>0, <1>6 DEF TypeOK, PollFetch, Polling, Candidates
<1>7. CASE PollFails
  BY <1>0, <1>7 DEF TypeOK, PollFails, Polling, Telling
<1>8. CASE Scan
  BY <1>0, <1>8, ScanType DEF TypeOK, Scan, Polling
<1>9. CASE SendOk
  BY <1>0, <1>9 DEF TypeOK, SendOk, Polling
<1>10. CASE SendFails
  BY <1>0, <1>10 DEF TypeOK, SendFails, Polling, Telling
<1>11. CASE Advance
  <2>1. PICK r \in batch : Highest(r, batch) /\ cursor' = NextCursor(r) /\ rowsSent' = NextSent(r)
    BY <1>11 DEF Advance
  <2>2. cursor' \in Int /\ cursor' >= floor
    BY <1>0, <2>1, ExecutorAssumption DEF TypeOK, Held, NextCursor
  <2>3. rowsSent' \in Nat
    BY <1>0, <2>1, BatchFinite DEF TypeOK, NextSent
  <2> QED
    BY <1>0, <1>11, <2>2, <2>3 DEF TypeOK, Advance, Polling
<1>12. CASE Cancel
  BY <1>0, <1>12 DEF TypeOK, Cancel
<1>13. CASE Stop
  BY <1>0, <1>13 DEF TypeOK, Stop
<1>14. CASE RunCancelled
  BY <1>0, <1>14 DEF TypeOK, RunCancelled, Polling, Telling
<1>15. CASE RunStopped
  BY <1>0, <1>15 DEF TypeOK, RunStopped, Polling, Telling
<1>16. CASE UNCHANGED vars
  BY <1>0, <1>16 DEF TypeOK, vars
<1>17. CASE Told
  <2>1. errors' \in 0..MaxErrors
    BY <1>0, <1>17, ToldCounts, CountType
  <2> QED
    BY <1>0, <1>17, <2>1 DEF TypeOK, Told, Polling, Telling, Exited
<1> QED
  BY <1>1, <1>3, <1>4, <1>5, <1>6, <1>7, <1>8, <1>9, <1>10, <1>11, <1>12,
     <1>13, <1>14, <1>15, <1>16, <1>17 DEF Next
-----------------------------------------------------------------------------
(* No step but Advance moves the cursor of a started query, and only       *)
(* Launch moves that of a new one, to the floor.                           *)
LEMMA CursorStep ==
  ASSUME IInv, [Next]_vars
  PROVE  \/ cursor' = cursor /\ floor' = floor
         \/ \E v \in Int : Launch(v)
         \/ Advance
<1> USE DEF dbVars, stateVars, sentVars, stopVars
<1>1. ASSUME StartNow PROVE \E v \in Int : Launch(v)
  BY <1>1, ExecutorAssumption DEF IInv, StartNow, TypeOK, Highest
<1>2. ASSUME StartBeginning PROVE \E v \in Int : Launch(v)
  BY <1>2, ExecutorAssumption DEF StartBeginning
<1> QED
  BY <1>1, <1>2 DEF Next, Commit, StartFails, Told, PollFetch, PollFails, Scan, SendOk,
     SendFails, Cancel, Stop, RunCancelled, RunStopped, vars

(* What Advance does, in terms of the batch it retires. *)
LEMMA AdvanceStep ==
  ASSUME IInv, Advance
  PROVE  \E r \in batch :
           /\ r \in accepted
           /\ \A s \in batch : CursorOf[s] <= CursorOf[r]
           /\ cursor' = IF Parses(r) THEN CursorOf[r] ELSE cursor
           /\ cursor' >= cursor
BY ExecutorAssumption DEF IInv, TypeOK, Held, Advance, Highest, NextCursor

(* The rows accepted and held stay committed rows, held ones above the     *)
(* cursor and accepted ones above the floor.                               *)
LEMMA HeldStep == IInv /\ [Next]_vars => Held'
<1> SUFFICES ASSUME IInv, [Next]_vars PROVE Held'
  OBVIOUS
<1> USE DEF dbVars, stateVars, sentVars, stopVars
<1>0. TypeOK /\ Held
  BY DEF IInv
<1>1. ASSUME NEW r \in Rows, Commit(r) PROVE Held'
  BY <1>0, <1>1 DEF Held, Commit
<1>2. ASSUME NEW v \in Int, Launch(v) PROVE Held'
  BY <1>0, <1>2 DEF TypeOK, Held, Launch, Polling
<1>3. CASE StartBeginning
  BY <1>2, <1>3, ExecutorAssumption DEF StartBeginning
<1>4. CASE StartNow
  <2>1. \E v \in Int : Launch(v)
    BY <1>0, <1>4, ExecutorAssumption DEF StartNow, TypeOK, Highest
  <2> QED
    BY <1>2, <2>1
<1>5. CASE StartFails
  BY <1>0, <1>5 DEF Held, StartFails
<1>6. CASE PollFetch
  BY <1>0, <1>6 DEF Held, PollFetch, Candidates
<1>7. CASE PollFails
  BY <1>0, <1>7 DEF Held, PollFails
<1>8. CASE Scan
  BY <1>0, <1>8 DEF Held, Scan, Deliverable
<1>9. CASE SendOk
  BY <1>0, <1>9, ExecutorAssumption DEF TypeOK, Held, SendOk
<1>10. CASE SendFails
  BY <1>0, <1>10 DEF Held, SendFails
<1>11. CASE Advance
  BY <1>0, <1>11 DEF Held, Advance
<1>12. CASE Cancel
  BY <1>0, <1>12 DEF Held, Cancel
<1>13. CASE Stop
  BY <1>0, <1>13 DEF Held, Stop
<1>14. CASE RunCancelled
  BY <1>0, <1>14 DEF Held, RunCancelled
<1>15. CASE RunStopped
  BY <1>0, <1>15 DEF Held, RunStopped
<1>16. CASE UNCHANGED vars
  BY <1>0, <1>16 DEF Held, vars
<1>17. CASE Told
  BY <1>0, <1>17 DEF Held, Told
<1> QED
  BY <1>1, <1>3, <1>4, <1>5, <1>6, <1>7, <1>8, <1>9, <1>10, <1>11, <1>12,
     <1>13, <1>14, <1>15, <1>16, <1>17 DEF Next

(* The batch misses no deliverable row below one of its rows, ties and     *)
(* late commits apart: the query's ORDER BY fills it from below, a cut     *)
(* scan keeps a prefix, and a row committed meanwhile is late.             *)
LEMMA NoHoleStep == IInv /\ [Next]_vars => NoHole'
<1> SUFFICES ASSUME IInv, [Next]_vars,
                    NEW b \in batch', NEW s \in Skipped(b)'
             PROVE  (Tied(s) \/ s \in late)'
  BY DEF NoHole
<1> USE DEF dbVars, stateVars, sentVars, stopVars
<1>0. /\ TypeOK /\ Held /\ NoHole
      /\ b \in Rows /\ s \in Rows
      /\ CursorOf[b] \in Int /\ CursorOf[s] \in Int
  BY TypeOKStep, ExecutorAssumption DEF IInv, TypeOK, Skipped
<1>1. ASSUME NEW r \in Rows, Commit(r) PROVE (Tied(s) \/ s \in late)'
  <2>1. CASE s = r
    BY <1>0, <1>1, <2>1 DEF TypeOK, Commit, Behind, Skipped
  <2>2. CASE s # r
    <3>1. s \in Skipped(b)
      BY <1>1, <2>2 DEF Commit, Skipped
    <3>2. Tied(s) \/ s \in late
      BY <1>0, <1>1, <3>1 DEF NoHole, Commit
    <3> QED
      BY <1>1, <3>2 DEF Commit, Tied
  <2> QED
    BY <2>1, <2>2
<1>2. CASE PollFetch
  <2>1. s \in Candidates \ batch'
    BY <1>0, <1>2 DEF PollFetch, Skipped, Candidates, Deliverable
  <2>2. CursorOf[b] <= CursorOf[s] /\ b # s /\ b \in table'
    BY <1>0, <1>2, <2>1 DEF PollFetch, LowestOf, Candidates
  <2>3. CursorOf[b] = CursorOf[s]
    BY <1>0, <2>2 DEF Skipped
  <2> QED
    BY <2>2, <2>3 DEF Tied
<1>3. CASE Scan
  <2>1. PICK P \in SUBSET batch : LowestOf(P, batch) /\ batch' = P \ Unscannable
    BY <1>3 DEF Scan
  <2>2. b \in P /\ table' = table /\ late' = late /\ cursor' = cursor
    BY <1>3, <2>1 DEF Scan
  <2>3. CASE s \in batch
    <3>1. s \notin P
      BY <2>1, <2>3 DEF Skipped, Deliverable
    <3>2. CursorOf[b] = CursorOf[s] /\ b # s
      BY <1>0, <2>1, <2>2, <2>3, <3>1 DEF LowestOf, Skipped
    <3> QED
      BY <1>0, <2>2, <3>2 DEF Tied, Held
  <2>4. CASE s \notin batch
    BY <1>0, <2>2, <2>4 DEF NoHole, Skipped, Tied
  <2> QED
    BY <2>3, <2>4
<1>4. CASE \/ StartBeginning \/ StartNow \/ StartFails \/ SendFails \/ Advance
  BY <1>0, <1>4 DEF StartBeginning, StartNow, StartFails, Launch, SendFails, Advance,
                    TypeOK, Polling
<1>5. CASE \/ Told \/ PollFails \/ SendOk \/ Cancel \/ Stop \/ RunCancelled
           \/ RunStopped \/ UNCHANGED vars
  <2>1. UNCHANGED <<table, batch, cursor, late>>
    BY <1>5 DEF Told, PollFails, SendOk, Cancel, Stop, RunCancelled, RunStopped, vars
  <2> QED
    BY <1>0, <2>1 DEF NoHole, Skipped, Tied
<1> QED
  BY <1>1, <1>2, <1>3, <1>4, <1>5 DEF Next

(* A deliverable row the cursor passes unsent is tied or late.  Only       *)
(* Advance passes rows; what it passes was in the batch, accepted before,  *)
(* or missing from the batch, where NoHole speaks.                         *)
LEMMA GapStep == IInv /\ [Next]_vars => LossNeedsTieOrLateCommit'
<1> SUFFICES ASSUME IInv, [Next]_vars,
                    NEW s \in ((Passed \cap Deliverable) \ accepted)'
             PROVE  (Tied(s) \/ s \in late)'
  BY DEF LossNeedsTieOrLateCommit
<1> USE DEF dbVars, stateVars, sentVars, stopVars
<1>0. /\ TypeOK /\ Held /\ NoHole /\ LossNeedsTieOrLateCommit
      /\ s \in Rows /\ CursorOf[s] \in Int
  BY TypeOKStep, ExecutorAssumption DEF IInv, TypeOK, Passed
<1>1. ASSUME NEW r \in Rows, Commit(r) PROVE (Tied(s) \/ s \in late)'
  <2>1. CASE s = r
    BY <1>0, <1>1, <2>1 DEF Commit, Behind, Passed
  <2>2. CASE s # r
    <3>1. s \in (Passed \cap Deliverable) \ accepted
      BY <1>1, <2>2 DEF Commit, Passed
    <3>2. Tied(s) \/ s \in late
      BY <1>0, <3>1 DEF LossNeedsTieOrLateCommit
    <3> QED
      BY <1>1, <3>2 DEF Commit, Tied
  <2> QED
    BY <2>1, <2>2
<1>2. ASSUME NEW v \in Int, Launch(v) PROVE FALSE
  BY <1>0, <1>2 DEF Launch, Passed
<1>3. CASE StartBeginning
  BY <1>2, <1>3, ExecutorAssumption DEF StartBeginning
<1>4. CASE StartNow
  BY <1>0, <1>2, <1>4, ExecutorAssumption DEF StartNow, TypeOK, Highest
<1>5. CASE Advance
  <2>1. PICK r \in batch : /\ r \in accepted
                           /\ cursor' = IF Parses(r) THEN CursorOf[r] ELSE cursor
    BY <1>5, AdvanceStep
  <2>2. /\ UNCHANGED <<table, floor, accepted, late>>
        /\ batch \subseteq accepted
    BY <1>0, <1>5 DEF Advance, Held
  <2>3. CASE CursorOf[s] <= cursor
    BY <1>0, <2>2, <2>3 DEF LossNeedsTieOrLateCommit, Passed, Tied
  <2>4. CASE ~(CursorOf[s] <= cursor)
    <3>1. s \in Skipped(r)
      BY <1>0, <2>1, <2>2, <2>4 DEF Passed, Skipped, TypeOK
    <3>2. Tied(s) \/ s \in late
      BY <1>0, <2>1, <3>1 DEF NoHole
    <3> QED
      BY <2>2, <3>2 DEF Tied
  <2> QED
    BY <2>3, <2>4
<1>6. CASE \/ StartFails \/ Told \/ PollFetch \/ PollFails \/ Scan \/ SendOk
           \/ SendFails \/ Cancel \/ Stop \/ RunCancelled \/ RunStopped \/ UNCHANGED vars
  <2>1. UNCHANGED <<table, floor, cursor, late>> /\ accepted \subseteq accepted'
    BY <1>6 DEF StartFails, Told, PollFetch, PollFails, Scan, SendOk, SendFails,
                Cancel, Stop, RunCancelled, RunStopped, vars
  <2> QED
    BY <1>0, <2>1 DEF LossNeedsTieOrLateCommit, Passed, Tied
<1> QED
  BY <1>1, <1>3, <1>4, <1>5, <1>6 DEF Next

(* The cursor is the floor or the value of an accepted row. *)
LEMMA EvidenceStep == IInv /\ [Next]_vars => CursorIsEvidence'
<1> SUFFICES ASSUME IInv, [Next]_vars PROVE CursorIsEvidence'
  OBVIOUS
<1> USE DEF dbVars, stateVars, sentVars, stopVars
<1>1. accepted \subseteq accepted'
  BY DEF Next, Commit, StartBeginning, StartNow, Launch, StartFails, Told,
     PollFetch, PollFails, Scan, SendOk, SendFails, Advance, Cancel, Stop, RunCancelled,
     RunStopped, vars
<1>2. CASE cursor' = cursor /\ floor' = floor
  BY <1>1, <1>2 DEF IInv, CursorIsEvidence
<1>3. ASSUME NEW v \in Int, Launch(v) PROVE CursorIsEvidence'
  BY <1>3 DEF Launch, CursorIsEvidence
<1>4. CASE Advance
  <2>1. floor' = floor
    BY <1>4 DEF Advance
  <2> QED
    BY <1>1, <1>4, <2>1, AdvanceStep DEF IInv, CursorIsEvidence
<1> QED
  BY <1>2, <1>3, <1>4, CursorStep

(* The invariant is inductive. *)
THEOREM Invariance == Spec => []IInv
<1>1. IInv /\ [Next]_vars => IInv'
  BY TypeOKStep, HeldStep, NoHoleStep, GapStep, EvidenceStep DEF IInv
<1> QED
  BY InitIInv, <1>1, PTL DEF Spec

(* Type correctness: every variable of the executor stays in its domain,   *)
(* whatever fails and however rows are committed.                          *)
THEOREM TypeCorrect == Spec => []TypeOK
BY Invariance, PTL DEF IInv

(* The cursor passes a deliverable row unsent only where LIMIT can cut     *)
(* between equal cursor values or the row was committed behind the cursor. *)
THEOREM LossIsTieOrLate == Spec => []LossNeedsTieOrLateCommit
BY Invariance, PTL DEF IInv

(* Every cursor value a poll binds is the starting one or an accepted      *)
(* row's.                                                                  *)
THEOREM CursorEvidence == Spec => []CursorIsEvidence
BY Invariance, PTL DEF IInv

(* No step of a started query moves its cursor back. *)
THEOREM CursorMonotone == Spec => CursorNeverRetreats
<1>1. IInv /\ [Next]_vars => [pc # "new" => cursor' >= cursor]_vars
  <2> SUFFICES ASSUME IInv, [Next]_vars, pc # "new"
               PROVE  cursor' >= cursor
    OBVIOUS
  <2>1. cursor \in Int
    BY DEF IInv, TypeOK
  <2>2. \A v \in Int : ~Launch(v)
    BY DEF Launch
  <2> QED
    BY <2>1, <2>2, CursorStep, AdvanceStep
<1> QED
  BY <1>1, Invariance, PTL DEF Spec, CursorNeverRetreats
-----------------------------------------------------------------------------
(* With rows committed in strict order nothing is tied and nothing late.   *)
NoTie   == \A r, s \in table : CursorOf[r] = CursorOf[s] => r = s
SInv    == IInv /\ NoTie /\ late = {}

(* A row committed above every row so far is behind nobody: the cursor is  *)
(* the floor or the value of a committed row, and a batch is committed.    *)
LEMMA CommitNotBehind ==
  ASSUME IInv, Order = "strict", NEW r \in Rows, Commit(r)
  PROVE  ~Behind(r)
<1>1. \A s \in table : CursorOf[s] < CursorOf[r]
  BY DEF Commit, InOrder
<1>2. ASSUME CursorOf[r] > floor PROVE ~(CursorOf[r] <= cursor)
  <2>1. CASE cursor = floor
    BY <1>2, <2>1, ExecutorAssumption DEF IInv, TypeOK
  <2>2. CASE cursor # floor
    BY <1>1, <2>2, ExecutorAssumption DEF IInv, CursorIsEvidence, Held, TypeOK
  <2> QED
    BY <2>1, <2>2
<1>3. \A b \in batch : ~(CursorOf[r] <= CursorOf[b])
  BY <1>1, ExecutorAssumption DEF IInv, Held, TypeOK
<1> QED
  BY <1>2, <1>3 DEF Behind

LEMMA StrictStep ==
  ASSUME Order = "strict", SInv, [Next]_vars
  PROVE  NoTie' /\ late' = {}
<1> USE DEF dbVars, stateVars, sentVars, stopVars
<1>1. ASSUME NEW r \in Rows, Commit(r) PROVE NoTie' /\ late' = {}
  <2>1. late' = {}
    BY <1>1, CommitNotBehind DEF SInv, Commit
  <2>2. NoTie'
    BY <1>1, ExecutorAssumption DEF SInv, IInv, TypeOK, NoTie, Commit, InOrder
  <2> QED
    BY <2>1, <2>2
<1>2. ASSUME UNCHANGED dbVars PROVE NoTie' /\ late' = {}
  BY <1>2 DEF SInv, NoTie
<1> QED
  BY <1>1, <1>2 DEF Next, StartBeginning, StartNow, Launch, StartFails, Told,
     PollFetch, PollFails, Scan, SendOk, SendFails, Advance, Cancel, Stop, RunCancelled,
     RunStopped, vars

LEMMA StrictInvariance == Order = "strict" /\ Spec => []SInv
<1>1. Order = "strict" /\ Init => NoTie /\ late = {}
  BY DEF Init, Ordered, NoTie
<1>2. SInv /\ [Next]_vars /\ Order = "strict" => NoTie' /\ late' = {}
  BY StrictStep
<1> SUFFICES ASSUME Order = "strict" PROVE Spec => []SInv
  OBVIOUS
<1>3. SInv /\ [Next]_vars /\ IInv' => SInv'
  BY <1>2 DEF SInv
<1>4. Init => SInv
  BY <1>1, InitIInv DEF SInv
<1> QED
  BY <1>3, <1>4, Invariance, PTL DEF Spec

(* In such a state the cursor has passed no deliverable row unsent. *)
LEMMA StrictNoGap == SInv => NoGap
BY DEF SInv, NoTie, NoGap, IInv, LossNeedsTieOrLateCommit, Tied, Passed

(* At least once, for rows committed in strict order of their cursor       *)
(* values: whatever fails, the cursor passes no deliverable row unsent.    *)
THEOREM AtLeastOnce == Order = "strict" /\ Spec => []NoGap
BY StrictInvariance, StrictNoGap, PTL
-----------------------------------------------------------------------------
(***************************************************************************)
(* What increasing timestamps are worth (docs/queries.md asks no more of a *)
(* TIMESTAMP cursor): a row the cursor passed unsent carries the cursor    *)
(* value of another.  A row that comes late can then only be one that ties *)
(* with a row already read.                                                *)
(***************************************************************************)
LossNeedsTie == \A r \in (Passed \cap Deliverable) \ accepted : Tied(r)

LateIsTied == \A r \in late : Tied(r)

LEMMA MonotoneStep ==
  ASSUME Order = "monotone", IInv, LateIsTied, [Next]_vars
  PROVE  LateIsTied'
<1> USE DEF dbVars, stateVars, sentVars, stopVars
<1>0. TypeOK /\ Held /\ CursorIsEvidence
  BY DEF IInv
<1>1. ASSUME NEW r \in Rows, Commit(r) PROVE LateIsTied'
  <2>1. r \notin table /\ table' = table \cup {r} /\ CursorOf[r] \in Int
    BY <1>1, ExecutorAssumption DEF Commit
  <2>2. \A s \in table : CursorOf[s] \in Int /\ CursorOf[s] <= CursorOf[r]
    BY <1>0, <1>1, ExecutorAssumption DEF Commit, InOrder, TypeOK
  <2>3. ASSUME Behind(r) PROVE Tied(r)'
    <3>1. CASE CursorOf[r] <= cursor
      <4>1. cursor # floor
        BY <1>0, <2>1, <2>3, <3>1 DEF Behind, TypeOK
      <4>2. PICK a \in accepted : CursorOf[a] = cursor
        BY <1>0, <4>1 DEF CursorIsEvidence
      <4>3. a \in table /\ CursorOf[a] = CursorOf[r]
        BY <1>0, <2>1, <2>2, <3>1, <4>2 DEF Held
      <4> QED
        BY <2>1, <4>3 DEF Tied
    <3>2. CASE ~(CursorOf[r] <= cursor)
      <4>1. PICK b \in batch : CursorOf[r] <= CursorOf[b]
        BY <2>3, <3>2 DEF Behind
      <4>2. b \in table /\ CursorOf[b] = CursorOf[r]
        BY <1>0, <2>1, <2>2, <4>1 DEF Held
      <4> QED
        BY <2>1, <4>2 DEF Tied
    <3> QED
      BY <3>1, <3>2
  <2>4. \A s \in late : Tied(s)'
    BY <2>1 DEF LateIsTied, Tied
  <2>5. late' = IF Behind(r) THEN late \cup {r} ELSE late
    BY <1>1 DEF Commit
  <2> QED
    BY <2>3, <2>4, <2>5 DEF LateIsTied
<1>2. ASSUME UNCHANGED dbVars PROVE LateIsTied'
  BY <1>2 DEF LateIsTied, Tied
<1> QED
  BY <1>1, <1>2 DEF Next, StartBeginning, StartNow, Launch, StartFails, Told,
     PollFetch, PollFails, Scan, SendOk, SendFails, Advance, Cancel, Stop, RunCancelled,
     RunStopped, vars

(* With rows committed at or above every row so far, the cursor passes a   *)
(* deliverable row unsent only where LIMIT or a later commit divides rows  *)
(* of one cursor value.                                                    *)
THEOREM LossIsTie == Order = "monotone" /\ Spec => []LossNeedsTie
<1> SUFFICES ASSUME Order = "monotone" PROVE Spec => []LossNeedsTie
  OBVIOUS
<1>1. Init => LateIsTied
  BY DEF Init, LateIsTied
<1>2. IInv /\ LateIsTied /\ [Next]_vars => LateIsTied'
  BY MonotoneStep
<1>3. IInv /\ LateIsTied => LossNeedsTie
  BY DEF IInv, LossNeedsTieOrLateCommit, LateIsTied, LossNeedsTie
<1> QED
  BY <1>1, <1>2, <1>3, Invariance, PTL DEF Spec
-----------------------------------------------------------------------------
(* The rows RowsSent is about are finitely many. *)
LEMMA CountedFinite ==
  ASSUME TypeOK, NEW S \in SUBSET Rows
  PROVE  IsFiniteSet(S) /\ Cardinality(S) \in Nat
<1>1. IsFiniteSet(S)
  BY ExecutorAssumption, FS_Subset
<1> QED
  BY <1>1, FS_CardinalityType

(* An Advance whose cursor parses passes its batch and no other row that   *)
(* was ever accepted.                                                      *)
LEMMA AdvancePasses ==
  ASSUME SInv, NEW r \in batch, Highest(r, batch), pc = "advance",
         cursor' = CursorOf[r], UNCHANGED <<table, floor, accepted>>
  PROVE  /\ (accepted \cap Passed)' = (accepted \cap Passed) \cup batch
         /\ (accepted \cap Passed) \cap batch = {}
<1>0. /\ TypeOK /\ Held /\ NoHole
      /\ cursor \in Int /\ floor \in Int /\ cursor >= floor
      /\ batch \subseteq table /\ batch \subseteq accepted
      /\ accepted \subseteq table \cap Deliverable
  BY DEF SInv, IInv, TypeOK, Held
<1>1. \A s \in table : CursorOf[s] \in Int
  BY <1>0, ExecutorAssumption DEF TypeOK
<1>2. \A b \in batch : CursorOf[b] > cursor /\ CursorOf[b] <= CursorOf[r]
  BY <1>0 DEF Held, Highest
<1>3. ASSUME NEW a \in accepted, CursorOf[a] > cursor, CursorOf[a] <= CursorOf[r]
      PROVE  a \in batch
  <2>1. a \notin Skipped(r)
    BY <1>0 DEF NoHole, SInv, NoTie, Tied
  <2> QED
    BY <1>0, <1>1, <1>3, <2>1 DEF Skipped
<1>4. accepted \cap Passed = {a \in accepted : floor < CursorOf[a] /\ CursorOf[a] <= cursor}
  BY <1>0 DEF Passed
<1>5. (accepted \cap Passed)' =
        {a \in accepted : floor < CursorOf[a] /\ CursorOf[a] <= CursorOf[r]}
  BY <1>0 DEF Passed
<1>6. (accepted \cap Passed)' = (accepted \cap Passed) \cup batch
  <2>1. ASSUME NEW a \in accepted
        PROVE  floor < CursorOf[a] /\ CursorOf[a] <= CursorOf[r]
                 <=> (floor < CursorOf[a] /\ CursorOf[a] <= cursor) \/ a \in batch
    BY <1>0, <1>1, <1>2, <1>3
  <2> QED
    BY <1>0, <1>4, <1>5, <2>1
<1>7. (accepted \cap Passed) \cap batch = {}
  BY <1>0, <1>1, <1>2, <1>4
<1> QED
  BY <1>6, <1>7

LEMMA SentStep ==
  ASSUME Order = "strict", SInv, RowsSentExact, [Next]_vars
  PROVE  RowsSentExact'
<1> USE DEF dbVars, stateVars, sentVars, stopVars
<1>0. TypeOK /\ Held
  BY DEF SInv, IInv
<1>1. ASSUME UNCHANGED <<rowsSent, accepted, cursor, floor>>, table \subseteq table'
      PROVE  RowsSentExact'
  <2>1. (accepted \cap Passed)' = accepted \cap Passed
    BY <1>0, <1>1 DEF Passed, Held
  <2> QED
    BY <1>1, <2>1 DEF RowsSentExact
<1>2. ASSUME NEW v \in Int, Launch(v) PROVE RowsSentExact'
  BY <1>0, <1>2 DEF Launch, Held, RowsSentExact
<1>3. CASE StartBeginning
  BY <1>2, <1>3, ExecutorAssumption DEF StartBeginning
<1>4. CASE StartNow
  BY <1>0, <1>2, <1>4, ExecutorAssumption DEF StartNow, TypeOK, Highest
<1>5. CASE SendOk
  <2>1. \A b \in batch : CursorOf[b] > cursor /\ CursorOf[b] \in Int /\ cursor \in Int
    BY <1>0, ExecutorAssumption DEF Held, TypeOK
  <2>2. (accepted \cap Passed)' = accepted \cap Passed
    BY <1>5, <2>1 DEF SendOk, Passed
  <2> QED
    BY <1>5, <2>2 DEF SendOk, RowsSentExact
<1>6. CASE Advance
  <2>1. PICK r \in batch : /\ Highest(r, batch)
                           /\ cursor' = NextCursor(r)
                           /\ rowsSent' = NextSent(r)
    BY <1>6 DEF Advance
  <2>2. CASE ~Parses(r)
    BY <1>1, <1>6, <2>1, <2>2 DEF Advance, NextCursor, NextSent
  <2>3. CASE Parses(r)
    <3>1. /\ (accepted \cap Passed)' = (accepted \cap Passed) \cup batch
          /\ (accepted \cap Passed) \cap batch = {}
      BY <1>6, <2>1, <2>3, AdvancePasses DEF Advance, NextCursor
    <3>2. /\ IsFiniteSet(accepted \cap Passed) /\ IsFiniteSet(batch)
          /\ Cardinality(accepted \cap Passed) \in Nat /\ Cardinality(batch) \in Nat
      BY <1>0, CountedFinite DEF TypeOK
    <3>3. Cardinality((accepted \cap Passed) \cup batch) =
            Cardinality(accepted \cap Passed) + Cardinality(batch)
      <4>1. Cardinality((accepted \cap Passed) \cup batch) =
              Cardinality(accepted \cap Passed) + Cardinality(batch)
                - Cardinality((accepted \cap Passed) \cap batch)
        BY <3>2, FS_Union
      <4>2. Cardinality((accepted \cap Passed) \cap batch) = 0
        BY <3>1, FS_EmptySet
      <4> QED
        BY <3>2, <4>1, <4>2
    <3> QED
      BY <2>1, <2>3, <3>1, <3>3 DEF RowsSentExact, NextSent
  <2> QED
    BY <2>2, <2>3
<1>7. CASE \E r \in Rows : Commit(r)
  BY <1>1, <1>7 DEF Commit
<1>8. CASE \/ StartFails \/ Told \/ PollFetch \/ PollFails \/ Scan \/ SendFails
           \/ Cancel \/ Stop \/ RunCancelled \/ RunStopped \/ UNCHANGED vars
  BY <1>1, <1>8 DEF StartFails, Told, PollFetch, PollFails, Scan, SendFails, Cancel, Stop,
     RunCancelled, RunStopped, vars
<1> QED
  BY <1>3, <1>4, <1>5, <1>6, <1>7, <1>8 DEF Next

(* RowsSent, the number the metrics report for a query, is the number of   *)
(* rows the cursor has passed and the transport has taken, each once.      *)
THEOREM CountIsExact == Order = "strict" /\ Spec => []RowsSentExact
<1> SUFFICES ASSUME Order = "strict" PROVE Spec => []RowsSentExact
  OBVIOUS
<1>1. Init => RowsSentExact
  BY FS_EmptySet DEF Init, RowsSentExact
<1>2. SInv /\ RowsSentExact /\ [Next]_vars => RowsSentExact'
  BY SentStep
<1> QED
  BY <1>1, <1>2, StrictInvariance, PTL DEF Spec
-----------------------------------------------------------------------------
(* Delivery as the outside sees it: every batch handed over is the lowest  *)
(* part of what is still due, the step CursorStream calls HandOver.        *)
LEMMA SendIsHandOver ==
  ASSUME SInv, SendOk
  PROVE  Promise!HandOver(batch)
<1>0. TypeOK /\ Held /\ NoHole /\ NoGap
  BY StrictNoGap DEF SInv, IInv
<1>1. /\ batch \subseteq table \cap Deliverable
      /\ \A r \in batch : CursorOf[r] > floor
  BY <1>0, ExecutorAssumption DEF SendOk, Held, TypeOK
<1>2. ASSUME NEW r \in batch, NEW d \in Promise!Due \ batch
      PROVE  CursorOf[r] < CursorOf[d]
  <2>1. /\ d \in (table \cap Deliverable) \ (batch \cup accepted)
        /\ CursorOf[d] > floor
        /\ CursorOf[d] \in Int /\ CursorOf[r] \in Int
    BY <1>0, <1>2, ExecutorAssumption DEF Promise!Due, TypeOK
  <2>2. CursorOf[d] > cursor
    BY <1>0, <2>1 DEF NoGap, Passed, TypeOK
  <2>3. ~Tied(d) /\ d \notin late
    BY <2>1 DEF SInv, NoTie, Tied
  <2>4. d \notin Skipped(r)
    BY <1>0, <1>2, <2>3 DEF NoHole
  <2> QED
    BY <2>1, <2>2, <2>4, <1>0 DEF Skipped, TypeOK
<1>3. UNCHANGED <<table, floor>> /\ accepted' = accepted \cup batch
  BY DEF SendOk, dbVars, stateVars
<1>4. pc = "send" /\ pc' = "advance"
  BY DEF SendOk
<1> QED
  BY <1>1, <1>2, <1>3, <1>4 DEF Promise!HandOver, Serving, Polling

(* The executor implements the subscription CursorStream describes.        *)
THEOREM Refinement == Order = "strict" /\ Spec => ImplementsCursorStream
<1> SUFFICES ASSUME Order = "strict" PROVE Spec => ImplementsCursorStream
  OBVIOUS
<1> USE DEF dbVars, stateVars, sentVars, stopVars, Serving, Polling
<1>1. Init => Promise!Init
  BY ExecutorAssumption DEF Init, Promise!Init
<1>2. SInv /\ [Next]_vars => [Promise!Next]_(Promise!vars)
  <2> SUFFICES ASSUME SInv, [Next]_vars PROVE [Promise!Next]_(Promise!vars)
    OBVIOUS
  <2>0. TypeOK
    BY DEF SInv, IInv
  <2>1. ASSUME NEW r \in Rows, Commit(r) PROVE Promise!Append(r)
    BY <2>1 DEF Commit, InOrder, Promise!Append
  <2>2. ASSUME NEW v \in Int, Launch(v) PROVE Promise!Open
    BY <2>2 DEF Launch, Promise!Open
  <2>3. CASE StartBeginning
    BY <2>2, <2>3, ExecutorAssumption DEF StartBeginning, Promise!Next
  <2>4. CASE StartNow
    BY <2>0, <2>2, <2>4, ExecutorAssumption DEF StartNow, Promise!Next, TypeOK, Highest
  <2>5. CASE StartFails
    BY <2>5 DEF StartFails, Promise!Next, Promise!Close
  <2>6. CASE SendOk
    BY <2>0, <2>6, SendIsHandOver DEF TypeOK, Promise!Next
  <2>7. CASE RunCancelled \/ RunStopped
    BY <2>7 DEF RunCancelled, RunStopped, Promise!Next, Promise!Close
  <2>8. CASE \/ Told \/ PollFetch \/ PollFails \/ Scan \/ SendFails \/ Advance \/ Cancel
             \/ Stop \/ UNCHANGED vars
    BY <2>8 DEF Told, Telling, PollFetch, PollFails, Scan, SendFails, Advance, Cancel,
                Stop, vars, Promise!vars
  <2> QED
    BY <2>1, <2>3, <2>4, <2>5, <2>6, <2>7, <2>8 DEF Next, Promise!Next
<1> QED
  BY <1>1, <1>2, StrictInvariance, PTL DEF Spec, ImplementsCursorStream, Promise!Spec
-----------------------------------------------------------------------------
(* Why a row is ever sent again: an accepted row above the cursor belongs  *)
(* to the batch about to be retired, or a cursor value did not parse.      *)
Unkept == \E u \in accepted : ~Parses(u)
Above  == \A r \in accepted :
            CursorOf[r] > cursor => (pc = "advance" /\ r \in batch) \/ Unkept

RInv == IInv /\ Above /\ ResendNeedsParseFailure

LEMMA ResendStep ==
  ASSUME RInv, [Next]_vars
  PROVE  Above' /\ ResendNeedsParseFailure'
<1> USE DEF dbVars, stateVars, sentVars, stopVars
<1>0. TypeOK /\ Held /\ Above /\ ResendNeedsParseFailure
  BY DEF RInv, IInv
<1>1. ASSUME NEW v \in Int, Launch(v) PROVE Above' /\ ResendNeedsParseFailure'
  BY <1>0, <1>1 DEF Launch, Held, Above, ResendNeedsParseFailure
<1>2. CASE StartBeginning
  BY <1>1, <1>2, ExecutorAssumption DEF StartBeginning
<1>3. CASE StartNow
  BY <1>0, <1>1, <1>3, ExecutorAssumption DEF StartNow, TypeOK, Highest
<1>4. CASE SendOk
  <2>1. batch \cap accepted # {} => Unkept
    BY <1>0, <1>4 DEF SendOk, Held, Above
  <2>2. Unkept => Unkept'
    BY <1>4 DEF SendOk, Unkept, Parses
  <2>3. resent' # {} => Unkept'
    BY <1>0, <1>4, <2>1, <2>2 DEF SendOk, ResendNeedsParseFailure, Unkept
  <2>4. Above'
    BY <1>0, <1>4, <2>2 DEF SendOk, Above
  <2> QED
    BY <2>3, <2>4 DEF ResendNeedsParseFailure, Unkept
<1>5. CASE Advance
  <2>1. PICK r \in batch : /\ r \in accepted
                           /\ \A s \in batch : CursorOf[s] <= CursorOf[r]
                           /\ cursor' = IF Parses(r) THEN CursorOf[r] ELSE cursor
                           /\ cursor' >= cursor
    BY <1>0, <1>5, AdvanceStep DEF RInv
  <2>2. UNCHANGED <<accepted, resent>>
    BY <1>5 DEF Advance
  <2>3. Unkept' = Unkept
    BY <2>2 DEF Unkept, Parses
  <2>4. ASSUME ~Parses(r) PROVE Above'
    BY <2>1, <2>3, <2>4 DEF Above, Unkept
  <2>5. ASSUME Parses(r) PROVE Above'
    <3> SUFFICES ASSUME NEW a \in accepted, CursorOf[a] > cursor' PROVE Unkept
      BY <2>2, <2>3 DEF Above
    <3>1. CursorOf[a] \in Int /\ CursorOf[r] \in Int /\ cursor \in Int
      BY <1>0, ExecutorAssumption DEF TypeOK
    <3>2. a \notin batch /\ CursorOf[a] > cursor
      BY <2>1, <2>5, <3>1
    <3> QED
      BY <1>0, <3>2 DEF Above
  <2>6. ResendNeedsParseFailure'
    BY <1>0, <2>2, <2>3 DEF ResendNeedsParseFailure, Unkept
  <2> QED
    BY <2>4, <2>5, <2>6
<1>6. ASSUME UNCHANGED <<accepted, resent, cursor>>, pc # "advance"
      PROVE  Above' /\ ResendNeedsParseFailure'
  BY <1>0, <1>6 DEF Above, ResendNeedsParseFailure, Unkept, Parses
<1>7. ASSUME UNCHANGED <<accepted, resent, cursor, pc, batch>>
      PROVE  Above' /\ ResendNeedsParseFailure'
  BY <1>0, <1>7 DEF Above, ResendNeedsParseFailure, Unkept, Parses
<1>8. CASE \E r \in Rows : Commit(r)
  BY <1>7, <1>8 DEF Commit
<1>9. CASE \/ StartFails \/ Told \/ PollFetch \/ PollFails \/ Scan \/ SendFails
           \/ RunCancelled \/ RunStopped
  BY <1>6, <1>9 DEF StartFails, Told, Telling, PollFetch, PollFails, Scan, SendFails,
     RunCancelled, RunStopped
<1>10. CASE Cancel \/ Stop \/ UNCHANGED vars
  BY <1>7, <1>10 DEF Cancel, Stop, vars
<1> QED
  BY <1>2, <1>3, <1>4, <1>5, <1>8, <1>9, <1>10 DEF Next

(* A row goes out twice only after some accepted row's cursor value failed *)
(* to parse: failed sends, failed scans and cancellation repeat nothing.   *)
THEOREM ResendIsParseFailure == Spec => []ResendNeedsParseFailure
<1>1. Init => Above /\ ResendNeedsParseFailure
  BY DEF Init, Above, ResendNeedsParseFailure
<1>2. RInv /\ [Next]_vars /\ IInv' => RInv'
  BY ResendStep DEF RInv
<1>3. Init => RInv
  BY <1>1, InitIInv DEF RInv
<1> QED
  BY <1>2, <1>3, Invariance, PTL DEF Spec, RInv

(* "Both ensure rows are delivered exactly once" (docs/queries.md): each   *)
(* deliverable row the cursor has passed was accepted, and no row was      *)
(* accepted twice.                                                         *)
ExactlyOnce == NoGap /\ resent = {}

(* What it takes for that: rows committed in strict order of their cursor  *)
(* values, and cursor values that all parse.                               *)
THEOREM OnceIfStrict == Order = "strict" /\ Unparsable = {} /\ Spec => []ExactlyOnce
<1> SUFFICES ASSUME Order = "strict", Unparsable = {} PROVE Spec => []ExactlyOnce
  OBVIOUS
<1>1. ResendNeedsParseFailure => resent = {}
  BY DEF ResendNeedsParseFailure, Parses
<1>2. Spec => []NoGap
  BY AtLeastOnce
<1> QED
  BY <1>1, <1>2, ResendIsParseFailure, PTL DEF ExactlyOnce
-----------------------------------------------------------------------------
(* The rows that do not scan and that the cursor has passed, or will pass  *)
(* if it advances over the batch as it is.                                 *)
Dropped ==
  {s \in table \cap Matching \cap Unscannable :
     /\ floor < CursorOf[s]
     /\ \/ CursorOf[s] <= cursor
        \/ pc \in {"send", "advance"} /\ \E b \in batch : CursorOf[s] <= CursorOf[b]}

Reported == errors = MaxErrors \/ errors >= Cardinality(Dropped)

(* Until it has scanned its rows a poll misses none below one of them.     *)
Whole ==
  pc = "scan" =>
    \A b \in batch : \A s \in table \cap Matching :
      cursor < CursorOf[s] /\ CursorOf[s] <= CursorOf[b] => s \in batch

(* An error count only grows, to its bound. *)
LEMMA CountGrows ==
  ASSUME TypeOK, NEW n \in Nat, Count(n)
  PROVE  errors' = MaxErrors \/ errors' = errors + n
BY DEF Count

(* A step that drops nothing new loses no report. *)
LEMMA NothingNewDropped ==
  ASSUME TypeOK, Reported, Dropped' \subseteq Dropped,
         errors' = errors \/ \E n \in Nat : Count(n)
  PROVE  Reported'
<1>1. /\ IsFiniteSet(Dropped) /\ Cardinality(Dropped) \in Nat
      /\ Cardinality(Dropped') \in Nat /\ Cardinality(Dropped') <= Cardinality(Dropped)
  <2>1. IsFiniteSet(Dropped)
    BY CountedFinite DEF Dropped, TypeOK
  <2> QED
    BY <2>1, FS_Subset, FS_CardinalityType
<1>2. errors' = MaxErrors \/ errors' >= errors \/ errors' = errors
  BY CountGrows, ExecutorAssumption DEF TypeOK
<1>3. MaxErrors \in Nat /\ errors \in 0..MaxErrors /\ errors' \in 0..MaxErrors
  BY CountType, ExecutorAssumption DEF TypeOK
<1> QED
  BY <1>1, <1>2, <1>3 DEF Reported

(* A poll fetches from below and leaves nothing out; what is committed     *)
(* meanwhile comes above it.                                               *)
LEMMA WholeStep ==
  ASSUME Order = "strict", SInv, Whole, [Next]_vars
  PROVE  Whole'
<1> USE DEF dbVars, stateVars, sentVars, stopVars
<1>0. TypeOK /\ Held /\ NoTie /\ \A s \in table : CursorOf[s] \in Int
  BY ExecutorAssumption DEF SInv, IInv, TypeOK
<1>1. ASSUME NEW r \in Rows, Commit(r) PROVE Whole'
  <2>1. \A b \in batch : ~(CursorOf[r] <= CursorOf[b])
    BY <1>0, <1>1, ExecutorAssumption DEF Commit, InOrder, Held
  <2> QED
    BY <1>1, <2>1 DEF Commit, Whole
<1>2. CASE PollFetch
  <2>1. PICK B \in SUBSET Candidates : LowestOf(B, Candidates) /\ batch' = B
    BY <1>2 DEF PollFetch
  <2>2. ASSUME NEW b \in B, NEW s \in Candidates, CursorOf[s] <= CursorOf[b]
        PROVE  s \in B
    BY <1>0, <2>1, <2>2 DEF LowestOf, Candidates, NoTie
  <2> QED
    BY <1>2, <2>1, <2>2 DEF PollFetch, Whole, Candidates
<1>3. CASE UNCHANGED vars
  BY <1>3 DEF Whole, vars
<1>4. CASE Cancel \/ Stop
  BY <1>4 DEF Cancel, Stop, Whole
<1>5. CASE pc' # "scan"
  BY <1>5 DEF Whole
<1>6. \/ pc' # "scan" \/ PollFetch \/ Cancel \/ Stop \/ UNCHANGED vars
      \/ \E r \in Rows : Commit(r)
  BY DEF Next, StartBeginning, StartNow, Launch, StartFails, Told, PollFails, Scan,
     SendOk, SendFails, Advance, RunCancelled, RunStopped
<1> QED
  BY <1>1, <1>2, <1>3, <1>4, <1>5, <1>6

(* Scan reports each row it drops, and drops none but those it reports.    *)
LEMMA ScanReports ==
  ASSUME SInv, Whole, Reported, Scan
  PROVE  Reported'
<1>0. TypeOK /\ Held /\ NoTie /\ \A s \in table : CursorOf[s] \in Int
  BY ExecutorAssumption DEF SInv, IInv, TypeOK
<1>1. PICK P \in SUBSET batch, closed \in {0, 1} :
        /\ LowestOf(P, batch) /\ batch' = P \ Unscannable
        /\ Count(ScanErrors(P) + closed)
  BY DEF Scan
<1>2. pc = "scan" /\ UNCHANGED <<table, cursor, floor>>
  BY DEF Scan, dbVars, stateVars
<1> DEFINE D == P \cap Unscannable
<1>3. Dropped' \subseteq Dropped \cup D
  <2> SUFFICES ASSUME NEW s \in Dropped', ~(CursorOf[s] <= cursor) PROVE s \in D
    BY <1>2 DEF Dropped
  <2>1. PICK b \in P \ Unscannable : CursorOf[s] <= CursorOf[b]
    BY <1>1, <1>2 DEF Dropped
  <2>2. s \in table \cap Matching /\ s \in Unscannable /\ b \in table /\ cursor \in Int
    BY <1>0, <1>1, <1>2 DEF Dropped, Held, TypeOK
  <2>3. s \in batch
    BY <1>0, <1>1, <1>2, <2>1, <2>2 DEF Whole
  <2>4. s \in P
    BY <1>0, <1>1, <2>1, <2>2, <2>3 DEF LowestOf, NoTie
  <2> QED
    BY <2>2, <2>4
<1>4. /\ Cardinality(Dropped) \in Nat /\ Cardinality(D) \in Nat /\ Cardinality(Dropped') \in Nat
      /\ Cardinality(Dropped') <= Cardinality(Dropped) + Cardinality(D)
  <2>1. /\ IsFiniteSet(Dropped) /\ Cardinality(Dropped) \in Nat
        /\ IsFiniteSet(D) /\ Cardinality(D) \in Nat
        /\ Cardinality(Dropped \cap D) \in Nat
    BY <1>0, CountedFinite DEF Dropped, TypeOK
  <2>2. /\ Cardinality(Dropped \cup D)
             = Cardinality(Dropped) + Cardinality(D) - Cardinality(Dropped \cap D)
        /\ IsFiniteSet(Dropped \cup D)
    BY <2>1, FS_Union
  <2>3. Cardinality(Dropped') <= Cardinality(Dropped \cup D) /\ Cardinality(Dropped') \in Nat
    BY <1>3, <2>2, FS_Subset, FS_CardinalityType
  <2> HIDE DEF D
  <2> QED
    BY <2>1, <2>2, <2>3
<1>5. errors' = MaxErrors \/ errors' = errors + (Cardinality(D) + closed)
  <2>1. Cardinality(D) + closed \in Nat
    BY <1>4
  <2> QED
    BY <1>0, <1>1, <2>1, CountGrows DEF ScanErrors
<1>6. errors \in 0..MaxErrors /\ errors' \in 0..MaxErrors
  <2>1. Cardinality(D) + closed \in Nat
    BY <1>4
  <2> QED
    BY <1>0, <1>1, <2>1, CountType DEF ScanErrors, TypeOK
<1> HIDE DEF D
<1>7. MaxErrors \in Nat /\ closed \in Nat
  BY ExecutorAssumption
<1> QED
  BY <1>4, <1>5, <1>6, <1>7 DEF Reported

LEMMA ReportedStep ==
  ASSUME Order = "strict", SInv, Whole, Reported, [Next]_vars
  PROVE  Reported'
<1> USE DEF dbVars, stateVars, sentVars, stopVars
<1>0. /\ TypeOK /\ Held /\ cursor \in Int /\ floor \in Int
      /\ \A s \in table : CursorOf[s] \in Int
  BY ExecutorAssumption DEF SInv, IInv, TypeOK
<1>1. ASSUME NEW r \in Rows, Commit(r) PROVE Reported'
  <2>1. ~Behind(r)
    BY <1>1, CommitNotBehind DEF SInv
  <2>2. Dropped' \subseteq Dropped
    BY <1>1, <2>1 DEF Commit, Behind, Dropped
  <2> QED
    BY <1>0, <1>1, <2>2, NothingNewDropped DEF Commit
<1>2. ASSUME NEW v \in Int, Launch(v) PROVE Reported'
  <2>1. Dropped' \subseteq Dropped
    BY <1>0, <1>2 DEF Launch, Dropped
  <2> QED
    BY <1>0, <1>2, <2>1, NothingNewDropped DEF Launch
<1>3. CASE StartBeginning \/ StartNow
  BY <1>0, <1>2, <1>3, ExecutorAssumption DEF StartBeginning, StartNow, TypeOK, Highest
<1>4. CASE Scan
  BY <1>4, ScanReports
<1>5. CASE Advance
  <2>1. Dropped' \subseteq Dropped
    BY <1>0, <1>5 DEF Advance, NextCursor, Dropped
  <2> QED
    BY <1>0, <1>5, <2>1, NothingNewDropped DEF Advance
<1>6. CASE Told
  <2>1. Dropped' \subseteq Dropped
    BY <1>6 DEF Told, Telling, Dropped
  <2> QED
    BY <1>0, <1>6, <2>1, ToldCounts, NothingNewDropped
<1>7. CASE \/ StartFails \/ PollFetch \/ PollFails \/ SendOk \/ SendFails \/ Cancel
           \/ Stop \/ RunCancelled \/ RunStopped \/ UNCHANGED vars
  <2>1. Dropped' \subseteq Dropped /\ errors' = errors
    BY <1>7 DEF StartFails, PollFetch, PollFails, SendOk, SendFails, Cancel, Stop,
                RunCancelled, RunStopped, vars, Dropped
  <2> QED
    BY <1>0, <2>1, NothingNewDropped
<1> QED
  BY <1>1, <1>3, <1>4, <1>5, <1>6, <1>7 DEF Next

(* No row that does not scan goes by in silence: errors counts as many as  *)
(* the cursor has passed, up to its bound.                                 *)
THEOREM NoSilentSkip == Order = "strict" /\ Spec => []SkipsReported
<1> SUFFICES ASSUME Order = "strict" PROVE Spec => []SkipsReported
  OBVIOUS
<1>1. Init => Whole /\ Reported
  <2> SUFFICES ASSUME Init PROVE Whole /\ Reported
    OBVIOUS
  <2>1. Whole
    BY DEF Init, Whole
  <2>2. Dropped = {}
    BY ExecutorAssumption DEF Init, Dropped
  <2> QED
    BY <2>1, <2>2, FS_EmptySet DEF Init, Reported
<1>2. SInv /\ Whole /\ Reported /\ [Next]_vars => Whole' /\ Reported'
  BY WholeStep, ReportedStep
<1>3. SInv /\ Reported => SkipsReported
  <2> SUFFICES ASSUME SInv, Reported PROVE SkipsReported
    OBVIOUS
  <2> DEFINE Silent == Passed \cap Matching \cap Unscannable
  <2>0. TypeOK
    BY DEF SInv, IInv
  <2>1. Silent \subseteq Dropped
    BY DEF Passed, Dropped
  <2>2. IsFiniteSet(Dropped) /\ Cardinality(Dropped) \in Nat
    BY <2>0, CountedFinite DEF Dropped, TypeOK
  <2>3. Cardinality(Silent) <= Cardinality(Dropped) /\ Cardinality(Silent) \in Nat
    BY <2>1, <2>2, FS_Subset, FS_CardinalityType
  <2>4. errors \in Int
    BY <2>0, ExecutorAssumption DEF TypeOK
  <2> QED
    BY <2>2, <2>3, <2>4 DEF Reported, SkipsReported
<1> QED
  BY <1>1, <1>2, <1>3, StrictInvariance, PTL DEF Spec
-----------------------------------------------------------------------------
(***************************************************************************)
(* What the manager relies on: an executor lives as Incarnation says,      *)
(* whatever its polls and its transport do.  QueryManagerProofs shows the  *)
(* same of each executor the manager makes.                                *)
(***************************************************************************)
Life ==
  INSTANCE Incarnation WITH
    place     <- CASE pc = "new" -> "starting"
                   [] pc \in {"failing", "failed"} -> "failed"
                   [] pc \in Polling -> "holding"
                   [] pc \in {"report", "unsent"} -> "telling"
                   [] pc \in {"cancelled", "completed"} -> "leaving"
                   [] OTHER -> pc,
    cancelled <- ctxDone,
    stopped   <- stopClosed

LivesAsManaged == Life!LifeSpec

(* Only what Start set going is running. *)
RunningStarted == running => pc \notin {"new", "failing", "failed"}

(* Nothing but Start leaves "new", and a failed Start leads nowhere. *)
LEMMA RunningStep ==
  ASSUME RunningStarted, [Next]_vars
  PROVE  RunningStarted'
BY DEF RunningStarted, Next, Commit, StartBeginning, StartNow, Launch, StartFails, Told,
   Telling, PollFetch, PollFails, Scan, SendOk, SendFails, Advance, Cancel, Stop,
   RunCancelled, RunStopped, stopVars, vars

(* An executor fetches nothing once it is cancelled, holds one batch at a  *)
(* time, and leaves only if it was told to.                                *)
THEOREM ExecutorIsIncarnation == Spec => LivesAsManaged
<1> USE DEF dbVars, stateVars, sentVars, stopVars, Polling, Exited
<1>1. Init => Life!Born /\ RunningStarted
  BY Zenon DEF Init, Life!Born, RunningStarted
<1>2. TypeOK /\ RunningStarted /\ [Next]_vars => [Life!Live]_(Life!life)
  <2> SUFFICES ASSUME TypeOK, RunningStarted, [Next]_vars PROVE [Life!Live]_(Life!life)
    OBVIOUS
  <2>1. CASE StartBeginning \/ StartNow
    BY <2>1 DEF StartBeginning, StartNow, Launch, Life!Live, Life!Starts, Life!Move
  <2>2. CASE StartFails
    BY <2>2 DEF StartFails, Life!Live, Life!Fails, Life!Move
  <2>3. CASE PollFetch
    BY <2>3 DEF PollFetch, Life!Live, Life!Fetches, Life!Move
  <2>4. CASE Scan
    BY <2>4 DEF Scan, Life!Live, Life!Settles, Life!Move, Life!life
  <2>5. CASE Advance
    BY <2>5 DEF Advance, Life!Live, Life!Settles, Life!Move
  <2>6. CASE PollFails
    BY <2>6 DEF PollFails, Life!Live, Life!Errs, Life!Move
  <2>10. CASE SendFails
    BY <2>10 DEF SendFails, Life!Live, Life!Unsent, Life!Move
  <2>11. CASE RunCancelled \/ RunStopped
    BY <2>11 DEF RunCancelled, RunStopped, Life!Live, Life!Leaves, Life!Move
  <2>12. CASE Told
    <3>1. \/ pc = "failing" /\ pc' = "failed"
          \/ pc \in {"report", "unsent"} /\ pc' = "select"
          \/ pc \in {"cancelled", "completed"} /\ pc' = "ended"
      BY <2>12 DEF Told, Telling
    <3>2. UNCHANGED <<ctxDone, stopClosed>>
      BY <2>12 DEF Told
    <3> QED
      BY <3>1, <3>2 DEF Life!Live, Life!Told, Life!Ends, Life!Move, Life!life
  <2>7. CASE Cancel
    BY <2>7 DEF TypeOK, Telling, Cancel, Life!Live, Life!IsCancelled
  <2>8. CASE Stop
    BY <2>8 DEF TypeOK, Telling, RunningStarted, Stop, Life!Live, Life!IsStopped
  <2>9. CASE \/ \E r \in Rows : Commit(r)
             \/ SendOk \/ UNCHANGED vars
    BY <2>9 DEF Commit, SendOk, vars, Life!life
  <2> QED
    BY <2>1, <2>2, <2>3, <2>4, <2>5, <2>6, <2>7, <2>8, <2>9, <2>10, <2>11, <2>12 DEF Next
<1> QED
  BY <1>1, <1>2, RunningStep, TypeCorrect, PTL DEF Spec, LivesAsManaged, Life!LifeSpec
=============================================================================
