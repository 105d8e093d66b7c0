---------------------------- MODULE QueryManager ----------------------------
(***************************************************************************)
(* The registry of streaming queries (internal/query/manager.go).  HTTP    *)
(* handlers and the REPL call Register and Unregister, which hold one lock *)
(* from end to end: Register even while the plan is compiled and the       *)
(* executor started.  Executors run beside them.  Every registration makes *)
(* a new executor; an incarnation is one of these, and a query id that is  *)
(* unregistered and registered again has several.                          *)
(*                                                                         *)
(* Module Executor has an executor's inside; here it fetches a batch and   *)
(* sends it, tells of a failure, leaves and ends.  All it sends goes to    *)
(* the stream of its query id, and may wait there for a client.            *)
(*                                                                         *)
(* Unlimited, KeepLock, ForgetCancel, FetchAnyway and StopOnly are faulty  *)
(* versions of what follows them, used by nothing.                         *)
(***************************************************************************)
EXTENDS Integers, FiniteSets

CONSTANTS
  Ids,         \* query ids
  Callers,     \* the goroutines that register and unregister
  MaxQueries,  \* Manager.maxQueries
  MaxRegs,     \* bound: how many executors are ever made
  None         \* no caller, no id, no incarnation

ASSUME ManagerAssumption ==
  /\ IsFiniteSet(Ids)
  /\ MaxQueries \in Nat
  /\ MaxRegs \in Nat
  /\ None \notin Ids \cup Callers \cup (1..MaxRegs)

Incs == 1..MaxRegs

VARIABLES
  lock,          \* the caller that holds Manager.mu
  pc,            \* where it is
  want,          \* the query id it is about
  queries,       \* Manager.queries: the incarnation each id has
  made,          \* how many executors have been made
  idOf,          \* the query id of each incarnation
  exec,          \* where each incarnation's goroutine is
  cancelled,     \* the incarnations whose context is cancelled
  stopped,       \* the incarnations whose stopCh is closed
  registered,    \* metrics: queries registered
  unregistered,  \* metrics: queries unregistered
  extra          \* history: batches an incarnation sent once cancelled

callVars == <<lock, pc, want>>
execVars == <<exec, extra>>
ctlVars  == <<cancelled, stopped>>
regVars  == <<queries, made, idOf, registered, unregistered>>
vars     == <<callVars, execVars, ctlVars, regVars>>

Running == {"select", "holding", "telling"}

Init ==
  /\ lock = None
  /\ pc = "idle"
  /\ want = None
  /\ queries = [id \in Ids |-> None]
  /\ made = 0
  /\ idOf = [i \in Incs |-> None]
  /\ exec = [i \in Incs |-> "none"]
  /\ cancelled = {}
  /\ stopped = {}
  /\ registered = 0
  /\ unregistered = 0
  /\ extra = [i \in Incs |-> 0]

Registered == {id \in Ids : queries[id] # None}

Release == lock' = None /\ pc' = "idle" /\ want' = None
-----------------------------------------------------------------------------
(* Register.  At the limit, or with the id taken, it returns at once and   *)
(* changes nothing.                                                        *)
Unlimited == TRUE
HasRoom   == Cardinality(Registered) < MaxQueries

Register(k, id) ==
  /\ lock = None
  /\ HasRoom
  /\ queries[id] = None
  /\ made < MaxRegs
  /\ lock' = k
  /\ pc' = "compiling"
  /\ want' = id
  /\ UNCHANGED <<execVars, ctlVars, regVars>>

CompileFails ==
  /\ pc = "compiling"
  /\ Release
  /\ UNCHANGED <<execVars, ctlVars, regVars>>

(* The plan is compiled; a new executor starts and looks for its cursor. *)
StartExecutor ==
  /\ pc = "compiling"
  /\ pc' = "starting"
  /\ made' = made + 1
  /\ idOf' = [idOf EXCEPT ![made + 1] = want]
  /\ exec' = [exec EXCEPT ![made + 1] = "starting"]
  /\ UNCHANGED <<lock, want, extra, ctlVars, queries, registered, unregistered>>

Started ==
  /\ pc = "starting"
  /\ pc' = "publishing"
  /\ exec' = [exec EXCEPT ![made] = "select"]
  /\ UNCHANGED <<lock, want, extra, ctlVars, regVars>>

(* initializeStreamState failed: Start sends an error, waiting for some    *)
(* client to take it, and returns without a goroutine.  Register does not  *)
(* learn of it.                                                            *)
InitFails ==
  /\ pc = "starting"
  /\ pc' = "reporting"
  /\ exec' = [exec EXCEPT ![made] = "failed"]
  /\ UNCHANGED <<lock, want, extra, ctlVars, regVars>>

Reported ==
  /\ pc = "reporting"
  /\ pc' = "publishing"
  /\ UNCHANGED <<lock, want, execVars, ctlVars, regVars>>

KeepLock == pc' = "idle" /\ UNCHANGED <<lock, want>>
Return   == Release

Publish ==
  /\ pc = "publishing"
  /\ queries' = [queries EXCEPT ![want] = made]
  /\ registered' = registered + 1
  /\ Return
  /\ UNCHANGED <<execVars, ctlVars, made, idOf, unregistered>>
-----------------------------------------------------------------------------
(* Unregister: cancel the context, then close stopCh and forget the query. *)
ForgetCancel(i)  == UNCHANGED cancelled
CancelContext(i) == cancelled' = cancelled \cup {i}

Unregister(k, id) ==
  /\ lock = None
  /\ queries[id] # None
  /\ lock' = k
  /\ pc' = "stopping"
  /\ want' = id
  /\ CancelContext(queries[id])
  /\ UNCHANGED <<execVars, stopped, regVars>>

(* Stop does nothing to an executor that never ran. *)
StopAndForget ==
  /\ pc = "stopping"
  /\ stopped' = IF exec[queries[want]] = "failed" THEN stopped
                ELSE stopped \cup {queries[want]}
  /\ queries' = [queries EXCEPT ![want] = None]
  /\ unregistered' = unregistered + 1
  /\ Release
  /\ UNCHANGED <<execVars, cancelled, made, idOf, registered>>
-----------------------------------------------------------------------------
(* A poll finds rows; with the context cancelled the database refuses. *)
FetchAnyway(i) == exec[i] = "select"
MayFetch(i)    == exec[i] = "select" /\ i \notin cancelled

Fetch(i) ==
  /\ MayFetch(i)
  /\ exec' = [exec EXCEPT ![i] = "holding"]
  /\ UNCHANGED <<callVars, ctlVars, regVars, extra>>

(* The batch goes out, if there is a row in it that scans. *)
SendBatch(i) ==
  /\ exec[i] = "holding"
  /\ exec' = [exec EXCEPT ![i] = "select"]
  /\ extra' = IF i \in cancelled /\ extra[i] < 2
              THEN [extra EXCEPT ![i] = @ + 1] ELSE extra
  /\ UNCHANGED <<callVars, ctlVars, regVars>>

(* A poll fails, as it does with the context cancelled, or no session      *)
(* takes its batch: either way it sends an error.                          *)
Fail(i) ==
  /\ exec[i] \in {"select", "holding"}
  /\ exec' = [exec EXCEPT ![i] = "telling"]
  /\ UNCHANGED <<callVars, ctlVars, regVars, extra>>

(* The select takes ctx.Done or stopCh, and a last frame is sent. *)
StopOnly(i) == exec[i] = "select" /\ i \in stopped \ cancelled
MayLeave(i) == exec[i] = "select" /\ i \in cancelled \cup stopped

Leave(i) ==
  /\ MayLeave(i)
  /\ exec' = [exec EXCEPT ![i] = "leaving"]
  /\ UNCHANGED <<callVars, ctlVars, regVars, extra>>

(* The error or the last frame has been taken, or refused by all. *)
Told(i) ==
  /\ exec[i] \in {"telling", "leaving"}
  /\ exec' = [exec EXCEPT ![i] = IF @ = "leaving" THEN "ended" ELSE "select"]
  /\ UNCHANGED <<callVars, ctlVars, regVars, extra>>

Next ==
  \/ \E k \in Callers, id \in Ids : Register(k, id) \/ Unregister(k, id)
  \/ CompileFails
  \/ StartExecutor
  \/ Started
  \/ InitFails
  \/ Reported
  \/ Publish
  \/ StopAndForget
  \/ \E i \in Incs : Fetch(i) \/ SendBatch(i) \/ Fail(i) \/ Leave(i) \/ Told(i)

Spec == Init /\ [][Next]_vars

(* The lock holder and the executors are scheduled, the database answers,  *)
(* and an exit that stays ready is begun.  Sending is up to the clients:   *)
(* nothing is assumed of Reported, SendBatch, Fail and Told.               *)
Fairness ==
  /\ WF_vars(CompileFails \/ StartExecutor)
  /\ WF_vars(Started \/ InitFails)
  /\ WF_vars(Publish)
  /\ WF_vars(StopAndForget)
  /\ \A i \in Incs : SF_vars(Leave(i))

FairSpec == Spec /\ Fairness
-----------------------------------------------------------------------------
(* Every variable stays in its domain, and the lock is held exactly while  *)
(* a caller is inside.                                                     *)
ManagerTypeOK ==
  /\ lock \in Callers \cup {None}
  /\ pc \in {"idle", "compiling", "starting", "reporting", "publishing", "stopping"}
  /\ want \in Ids \cup {None}
  /\ queries \in [Ids -> Incs \cup {None}]
  /\ made \in 0..MaxRegs
  /\ idOf \in [Incs -> Ids \cup {None}]
  /\ exec \in [Incs -> {"none", "starting", "failed", "leaving", "ended"} \cup Running]
  /\ cancelled \in SUBSET Incs
  /\ stopped \in SUBSET Incs
  /\ registered \in Nat
  /\ unregistered \in Nat
  /\ extra \in [Incs -> 0..2]
  /\ lock = None <=> pc = "idle"
  /\ lock = None <=> want = None

(* The executors nobody has told to stop. *)
Uncancelled == {i \in Incs : exec[i] \in Running /\ i \notin cancelled}

(* No goroutine is out of reach: one that is not cancelled is the one its  *)
(* query id leads to, so that Unregister will find it, or is about to be.  *)
(* In particular no id ever has two.                                       *)
NoOrphan ==
  \A i \in Uncancelled :
    queries[idOf[i]] = i \/ (pc = "publishing" /\ i = made)

(* The limit on queries limits the goroutines, not just the table.         *)
CapacityRespected == Cardinality(Uncancelled) <= MaxQueries

(* Unregistering a query that is polling lets one batch through, the one   *)
(* already fetched, and no other.                                          *)
AtMostOneBatchAfterCancel == \A i \in Incs : extra[i] <= 1

(* A cancelled executor ends, unless one send of its own never returns:    *)
(* that of a batch, of an error, or of its last frame.                     *)
CancelledEnds ==
  \A i \in Incs :
    <>(i \in cancelled) =>
      \/ <>(exec[i] \in {"ended", "failed"})
      \/ \E p \in {"holding", "telling", "leaving"} : <>[](exec[i] = p)

(* To the rest of the server the manager is what ManagerView says: a lock  *)
(* that is held for one change of the table and then let go, or kept while *)
(* a failure waits for a client.                                           *)
View ==
  INSTANCE ManagerView WITH
    busy   <- IF lock = None THEN "free"
              ELSE IF pc = "reporting" THEN "reporting" ELSE "held",
    listed <- Registered

ImplementsManagerView == View!ViewSpec

(* What "queries run continuously until explicitly unregistered" means: a  *)
(* registered query has a goroutine that polls.                            *)
RegisteredMeansRunning ==
  lock = None => \A id \in Registered : exec[queries[id]] \in Running
=============================================================================
