------------------------- MODULE QueryManagerProofs -------------------------
(***************************************************************************)
(* Proofs about QueryManager and Metrics, for any number of ids, callers   *)
(* and executors.  The invariant follows an executor from Register, which  *)
(* makes it under the lock and publishes it at the end, to Unregister,     *)
(* which cancels it before it forgets it: at each moment the lock holder's *)
(* place says which executor is in between.  For Metrics, the two counters *)
(* and the table agree after every step of the manager, so that each       *)
(* reading can be compared with the counters as they are now, whatever has *)
(* happened since it was taken.                                            *)
(***************************************************************************)
EXTENDS Metrics, FiniteSetTheorems, TLAPS

Making == {"starting", "reporting", "publishing"}

(* Executors are made one after the other. *)
MadeInOrder ==
  \A i \in Incs : /\ exec[i] = "none" <=> i > made
                  /\ i <= made => idOf[i] \in Ids
                  /\ i > made => i \notin cancelled /\ extra[i] = 0
                  /\ exec[i] = "starting" => pc = "starting" /\ i = made

(* An entry leads to the id's own executor, told to stop only while its    *)
(* Unregister is under way.                                                *)
EntriesSound ==
  \A id \in Ids :
    queries[id] # None =>
      /\ queries[id] \in 1..made
      /\ idOf[queries[id]] = id
      /\ queries[id] \in cancelled => pc = "stopping" /\ want = id

(* What the lock holder is about. *)
HolderSound ==
  /\ pc = "compiling" => queries[want] = None /\ made < MaxRegs
  /\ pc \in Making =>
       /\ made >= 1
       /\ idOf[made] = want
       /\ queries[want] = None
       /\ made \notin cancelled
  /\ pc = "starting" => exec[made] = "starting"
  /\ pc = "reporting" => exec[made] = "failed"
  /\ pc = "stopping" => queries[want] # None /\ queries[want] \in cancelled

(* The table is within its limit, with a place for the query in the making. *)
WithinLimit ==
  /\ Cardinality(Registered) <= MaxQueries
  /\ pc \in {"compiling"} \cup Making => Cardinality(Registered) < MaxQueries

(* An executor that sent its batch after its end was called holds no other. *)
LastBatch ==
  \A i \in Incs : extra[i] <= 1 /\ (extra[i] = 1 => i \in cancelled /\ exec[i] # "holding")

MInv ==
  /\ ManagerTypeOK
  /\ MadeInOrder
  /\ EntriesSound
  /\ HolderSound
  /\ WithinLimit
  /\ stopped \subseteq cancelled
  /\ LastBatch
  /\ NoOrphan
-----------------------------------------------------------------------------
(* Nobody is inside, and nothing has been made, at first. *)
LEMMA InitMInv == Init => MInv
<1> SUFFICES ASSUME Init PROVE MInv
  OBVIOUS
<1>1. ManagerTypeOK
  BY ManagerAssumption DEF Init, ManagerTypeOK, Running, Incs
<1>2. MadeInOrder /\ EntriesSound /\ HolderSound /\ LastBatch
  BY ManagerAssumption DEF Init, MadeInOrder, EntriesSound, HolderSound, LastBatch, Making, Incs
<1>3. WithinLimit
  <2>1. Registered = {}
    BY DEF Init, Registered
  <2> QED
    BY <2>1, FS_EmptySet, ManagerAssumption DEF Init, WithinLimit, Making
<1>4. stopped \subseteq cancelled /\ NoOrphan
  BY DEF Init, NoOrphan, Uncancelled, Running
<1> QED
  BY <1>1, <1>2, <1>3, <1>4 DEF MInv

(* Every step keeps every variable in its domain. *)
LEMMA TypeStep == MInv /\ [Next]_vars => ManagerTypeOK'
<1> SUFFICES ASSUME MInv, [Next]_vars PROVE ManagerTypeOK'
  OBVIOUS
<1>0. ManagerTypeOK /\ HolderSound /\ MadeInOrder /\ EntriesSound /\ LastBatch
  BY DEF MInv
<1> USE ManagerAssumption
        DEF ManagerTypeOK, Running, Incs, callVars, execVars, ctlVars, regVars
<1>1. ASSUME NEW k \in Callers, NEW id \in Ids, Register(k, id) PROVE ManagerTypeOK'
  BY <1>0, <1>1 DEF Register
<1>2. ASSUME NEW k \in Callers, NEW id \in Ids, Unregister(k, id) PROVE ManagerTypeOK'
  BY <1>0, <1>2 DEF Unregister, CancelContext
<1>3. CASE CompileFails
  BY <1>0, <1>3 DEF CompileFails, Release
<1>4. CASE StartExecutor
  <2>1. made + 1 \in Incs /\ want \in Ids
    BY <1>0, <1>4 DEF StartExecutor, HolderSound
  <2>2. /\ idOf' \in [Incs -> Ids \cup {None}]
        /\ exec' \in [Incs -> {"none", "starting", "failed", "leaving", "ended"} \cup Running]
    BY <1>0, <1>4, <2>1 DEF StartExecutor
  <2>3. made' \in 0..MaxRegs
    BY <1>0, <1>4, <2>1 DEF StartExecutor
  <2> QED
    BY <1>0, <1>4, <2>2, <2>3 DEF StartExecutor
<1>5. CASE Started
  BY <1>0, <1>5 DEF Started
<1>6. CASE InitFails
  BY <1>0, <1>6 DEF InitFails
<1>7. CASE Reported
  BY <1>0, <1>7 DEF Reported
<1>8. CASE Publish
  <2>1. made \in Incs /\ want \in Ids
    BY <1>0, <1>8 DEF Publish, HolderSound, Making
  <2>2. queries' \in [Ids -> Incs \cup {None}]
    BY <1>0, <1>8, <2>1 DEF Publish
  <2> QED
    BY <1>0, <1>8, <2>2 DEF Publish, Return, Release
<1>9. CASE StopAndForget
  <2>1. want \in Ids /\ queries[want] \in Incs
    BY <1>0, <1>9 DEF StopAndForget, HolderSound
  <2>2. stopped' \in SUBSET Incs
    BY <1>0, <1>9, <2>1 DEF StopAndForget
  <2>3. queries' \in [Ids -> Incs \cup {None}]
    BY <1>0, <1>9, <2>1 DEF StopAndForget
  <2> QED
    BY <1>0, <1>9, <2>2, <2>3 DEF StopAndForget, Release
<1>10. ASSUME NEW i \in Incs, Fetch(i) PROVE ManagerTypeOK'
  BY <1>0, <1>10 DEF Fetch, MayFetch
<1>11. ASSUME NEW i \in Incs, SendBatch(i) PROVE ManagerTypeOK'
  <2>1. exec' \in [Incs -> {"none", "starting", "failed", "leaving", "ended"} \cup Running]
    BY <1>0, <1>11 DEF SendBatch
  <2>2. extra' \in [Incs -> 0..2]
    BY <1>0, <1>11 DEF SendBatch
  <2> QED
    BY <1>0, <1>11, <2>1, <2>2 DEF SendBatch
<1>12. ASSUME NEW i \in Incs, Fail(i) \/ Leave(i) \/ Told(i) PROVE ManagerTypeOK'
  <2>1. CASE Fail(i) \/ Leave(i)
    BY <1>0, <2>1 DEF Fail, Leave, MayLeave
  <2>2. CASE Told(i)
    <3>1. exec' \in [Incs -> {"none", "starting", "failed", "leaving", "ended"} \cup Running]
      BY <1>0, <2>2 DEF Told
    <3> QED
      BY <1>0, <2>2, <3>1 DEF Told
  <2> QED
    BY <1>12, <2>1, <2>2
<1>13. CASE UNCHANGED vars
  BY <1>0, <1>13 DEF vars
<1> QED
  BY <1>1, <1>2, <1>3, <1>4, <1>5, <1>6, <1>7, <1>8, <1>9, <1>10, <1>11, <1>12, <1>13 DEF Next

(* Executors are made in order; only Unregister cancels one.  *)
LEMMA MadeStep == MInv /\ [Next]_vars => MadeInOrder'
<1> SUFFICES ASSUME MInv, [Next]_vars PROVE MadeInOrder'
  OBVIOUS
<1>0. ManagerTypeOK /\ MadeInOrder /\ HolderSound /\ EntriesSound
  BY DEF MInv
<1> USE ManagerAssumption
        DEF ManagerTypeOK, Incs, Running, Making, MadeInOrder, HolderSound, EntriesSound,
            callVars, execVars, ctlVars, regVars
<1>1. ASSUME NEW k \in Callers, NEW id \in Ids, Register(k, id) PROVE MadeInOrder'
  BY <1>0, <1>1 DEF Register
<1>2. ASSUME NEW k \in Callers, NEW id \in Ids, Unregister(k, id) PROVE MadeInOrder'
  BY <1>0, <1>2 DEF Unregister, CancelContext
<1>3. CASE CompileFails
  BY <1>0, <1>3 DEF CompileFails, Release
<1>4. CASE StartExecutor
  BY <1>0, <1>4 DEF StartExecutor
<1>5. CASE Started
  BY <1>0, <1>5 DEF Started
<1>6. CASE InitFails
  BY <1>0, <1>6 DEF InitFails
<1>7. CASE Reported
  BY <1>0, <1>7 DEF Reported
<1>8. CASE Publish
  BY <1>0, <1>8 DEF Publish, Return, Release
<1>9. CASE StopAndForget
  BY <1>0, <1>9 DEF StopAndForget, Release
<1>10. ASSUME NEW i \in Incs, Fetch(i) PROVE MadeInOrder'
  BY <1>0, <1>10 DEF Fetch, MayFetch
<1>11. ASSUME NEW i \in Incs, SendBatch(i) PROVE MadeInOrder'
  BY <1>0, <1>11 DEF SendBatch
<1>12. ASSUME NEW i \in Incs, Fail(i) \/ Leave(i) \/ Told(i) PROVE MadeInOrder'
  BY <1>0, <1>12 DEF Fail, Leave, MayLeave, Told
<1>13. CASE UNCHANGED vars
  BY <1>0, <1>13 DEF vars
<1> QED
  BY <1>1, <1>2, <1>3, <1>4, <1>5, <1>6, <1>7, <1>8, <1>9, <1>10, <1>11, <1>12, <1>13 DEF Next

(* Publish enters the executor just made, StopAndForget takes the one      *)
(* cancelled out, and no other step writes the table.                      *)
LEMMA EntriesStep == MInv /\ [Next]_vars => EntriesSound'
<1> SUFFICES ASSUME MInv, [Next]_vars PROVE EntriesSound'
  OBVIOUS
<1>0. ManagerTypeOK /\ MadeInOrder /\ HolderSound /\ EntriesSound
  BY DEF MInv
<1> USE ManagerAssumption
        DEF ManagerTypeOK, Incs, Running, Making, MadeInOrder, HolderSound, EntriesSound,
            callVars, execVars, ctlVars, regVars
<1>1. ASSUME NEW k \in Callers, NEW id \in Ids, Register(k, id) PROVE EntriesSound'
  BY <1>0, <1>1 DEF Register
<1>2. ASSUME NEW k \in Callers, NEW id \in Ids, Unregister(k, id) PROVE EntriesSound'
  BY <1>0, <1>2 DEF Unregister, CancelContext
<1>3. CASE CompileFails
  BY <1>0, <1>3 DEF CompileFails, Release
<1>4. CASE StartExecutor
  BY <1>0, <1>4 DEF StartExecutor
<1>5. CASE Started
  BY <1>0, <1>5 DEF Started
<1>6. CASE InitFails
  BY <1>0, <1>6 DEF InitFails
<1>7. CASE Reported
  BY <1>0, <1>7 DEF Reported
<1>8. CASE Publish
  BY <1>0, <1>8 DEF Publish, Return, Release
<1>9. CASE StopAndForget
  BY <1>0, <1>9 DEF StopAndForget, Release
<1>10. ASSUME NEW i \in Incs, Fetch(i) PROVE EntriesSound'
  BY <1>0, <1>10 DEF Fetch, MayFetch
<1>11. ASSUME NEW i \in Incs, SendBatch(i) PROVE EntriesSound'
  BY <1>0, <1>11 DEF SendBatch
<1>12. ASSUME NEW i \in Incs, Fail(i) \/ Leave(i) \/ Told(i) PROVE EntriesSound'
  BY <1>0, <1>12 DEF Fail, Leave, MayLeave, Told
<1>13. CASE UNCHANGED vars
  BY <1>0, <1>13 DEF vars
<1> QED
  BY <1>1, <1>2, <1>3, <1>4, <1>5, <1>6, <1>7, <1>8, <1>9, <1>10, <1>11, <1>12, <1>13 DEF Next

(* The lock holder's steps follow one another; nobody else's disturb them. *)
LEMMA HolderStep == MInv /\ [Next]_vars => HolderSound'
<1> SUFFICES ASSUME MInv, [Next]_vars PROVE HolderSound'
  OBVIOUS
<1>0. ManagerTypeOK /\ MadeInOrder /\ HolderSound /\ EntriesSound
  BY DEF MInv
<1> USE ManagerAssumption
        DEF ManagerTypeOK, Incs, Running, Making, MadeInOrder, HolderSound, EntriesSound,
            callVars, execVars, ctlVars, regVars
<1>1. ASSUME NEW k \in Callers, NEW id \in Ids, Register(k, id) PROVE HolderSound'
  BY <1>0, <1>1 DEF Register
<1>2. ASSUME NEW k \in Callers, NEW id \in Ids, Unregister(k, id) PROVE HolderSound'
  BY <1>0, <1>2 DEF Unregister, CancelContext
<1>3. CASE CompileFails
  BY <1>0, <1>3 DEF CompileFails, Release
<1>4. CASE StartExecutor
  BY <1>0, <1>4 DEF StartExecutor
<1>5. CASE Started
  BY <1>0, <1>5 DEF Started
<1>6. CASE InitFails
  BY <1>0, <1>6 DEF InitFails
<1>7. CASE Reported
  BY <1>0, <1>7 DEF Reported
<1>8. CASE Publish
  BY <1>0, <1>8 DEF Publish, Return, Release
<1>9. CASE StopAndForget
  BY <1>0, <1>9 DEF StopAndForget, Release
<1>10. ASSUME NEW i \in Incs, Fetch(i) PROVE HolderSound'
  BY <1>0, <1>10 DEF Fetch, MayFetch
<1>11. ASSUME NEW i \in Incs, SendBatch(i) PROVE HolderSound'
  BY <1>0, <1>11 DEF SendBatch
<1>12. ASSUME NEW i \in Incs, Fail(i) \/ Leave(i) \/ Told(i) PROVE HolderSound'
  BY <1>0, <1>12 DEF Fail, Leave, MayLeave, Told
<1>13. CASE UNCHANGED vars
  BY <1>0, <1>13 DEF vars
<1> QED
  BY <1>1, <1>2, <1>3, <1>4, <1>5, <1>6, <1>7, <1>8, <1>9, <1>10, <1>11, <1>12, <1>13 DEF Next

(* No executor fetches after its end was called. *)
LEMMA BatchStep == MInv /\ [Next]_vars => stopped' \subseteq cancelled' /\ LastBatch'
<1> SUFFICES ASSUME MInv, [Next]_vars PROVE stopped' \subseteq cancelled' /\ LastBatch'
  OBVIOUS
<1>0. ManagerTypeOK /\ MadeInOrder /\ HolderSound /\ EntriesSound /\ LastBatch /\ stopped \subseteq cancelled
  BY DEF MInv
<1> USE ManagerAssumption
        DEF ManagerTypeOK, Incs, Running, Making, MadeInOrder, HolderSound, EntriesSound, LastBatch,
            callVars, execVars, ctlVars, regVars
<1>1. ASSUME NEW k \in Callers, NEW id \in Ids, Register(k, id) PROVE stopped' \subseteq cancelled' /\ LastBatch'
  BY <1>0, <1>1 DEF Register
<1>2. ASSUME NEW k \in Callers, NEW id \in Ids, Unregister(k, id) PROVE stopped' \subseteq cancelled' /\ LastBatch'
  BY <1>0, <1>2 DEF Unregister, CancelContext
<1>3. CASE CompileFails
  BY <1>0, <1>3 DEF CompileFails, Release
<1>4. CASE StartExecutor
  BY <1>0, <1>4 DEF StartExecutor
<1>5. CASE Started
  BY <1>0, <1>5 DEF Started
<1>6. CASE InitFails
  BY <1>0, <1>6 DEF InitFails
<1>7. CASE Reported
  BY <1>0, <1>7 DEF Reported
<1>8. CASE Publish
  BY <1>0, <1>8 DEF Publish, Return, Release
<1>9. CASE StopAndForget
  BY <1>0, <1>9 DEF StopAndForget, Release
<1>10. ASSUME NEW i \in Incs, Fetch(i) PROVE stopped' \subseteq cancelled' /\ LastBatch'
  BY <1>0, <1>10 DEF Fetch, MayFetch
<1>11. ASSUME NEW i \in Incs, SendBatch(i) PROVE stopped' \subseteq cancelled' /\ LastBatch'
  BY <1>0, <1>11 DEF SendBatch
<1>12. ASSUME NEW i \in Incs, Fail(i) \/ Leave(i) \/ Told(i) PROVE stopped' \subseteq cancelled' /\ LastBatch'
  BY <1>0, <1>12 DEF Fail, Leave, MayLeave, Told
<1>13. CASE UNCHANGED vars
  BY <1>0, <1>13 DEF vars
<1> QED
  BY <1>1, <1>2, <1>3, <1>4, <1>5, <1>6, <1>7, <1>8, <1>9, <1>10, <1>11, <1>12, <1>13 DEF Next

(* No executor is forgotten before it is cancelled. *)
LEMMA OrphanStep == MInv /\ [Next]_vars => NoOrphan'
<1> SUFFICES ASSUME MInv, [Next]_vars PROVE NoOrphan'
  OBVIOUS
<1>0. ManagerTypeOK /\ MadeInOrder /\ HolderSound /\ EntriesSound /\ NoOrphan
  BY DEF MInv
<1> USE ManagerAssumption
        DEF ManagerTypeOK, Incs, Running, Making, MadeInOrder, HolderSound, EntriesSound, NoOrphan, Uncancelled,
            callVars, execVars, ctlVars, regVars
<1>1. ASSUME NEW k \in Callers, NEW id \in Ids, Register(k, id) PROVE NoOrphan'
  BY <1>0, <1>1 DEF Register
<1>2. ASSUME NEW k \in Callers, NEW id \in Ids, Unregister(k, id) PROVE NoOrphan'
  BY <1>0, <1>2 DEF Unregister, CancelContext
<1>3. CASE CompileFails
  BY <1>0, <1>3 DEF CompileFails, Release
<1>4. CASE StartExecutor
  BY <1>0, <1>4 DEF StartExecutor
<1>5. CASE Started
  BY <1>0, <1>5 DEF Started
<1>6. CASE InitFails
  BY <1>0, <1>6 DEF InitFails
<1>7. CASE Reported
  BY <1>0, <1>7 DEF Reported
<1>8. CASE Publish
  BY <1>0, <1>8 DEF Publish, Return, Release
<1>9. CASE StopAndForget
  BY <1>0, <1>9 DEF StopAndForget, Release
<1>10. ASSUME NEW i \in Incs, Fetch(i) PROVE NoOrphan'
  BY <1>0, <1>10 DEF Fetch, MayFetch
<1>11. ASSUME NEW i \in Incs, SendBatch(i) PROVE NoOrphan'
  BY <1>0, <1>11 DEF SendBatch
<1>12. ASSUME NEW i \in Incs, Fail(i) \/ Leave(i) \/ Told(i) PROVE NoOrphan'
  BY <1>0, <1>12 DEF Fail, Leave, MayLeave, Told
<1>13. CASE UNCHANGED vars
  BY <1>0, <1>13 DEF vars
<1> QED
  BY <1>1, <1>2, <1>3, <1>4, <1>5, <1>6, <1>7, <1>8, <1>9, <1>10, <1>11, <1>12, <1>13 DEF Next

(* There are finitely many registered queries. *)
LEMMA RegisteredFinite ==
  IsFiniteSet(Registered) /\ Cardinality(Registered) \in Nat
<1>1. IsFiniteSet(Registered)
  BY ManagerAssumption, FS_Subset DEF Registered
<1> QED
  BY <1>1, FS_CardinalityType

(* Register looks for room and keeps it, for it keeps the lock; Publish    *)
(* takes it; nothing else makes the table larger.                          *)
LEMMA LimitStep == MInv /\ [Next]_vars => WithinLimit'
<1> SUFFICES ASSUME MInv, [Next]_vars PROVE WithinLimit'
  OBVIOUS
<1>0. ManagerTypeOK /\ WithinLimit
  BY DEF MInv
<1> USE DEF Making, callVars, execVars, ctlVars, regVars
<1>1. ASSUME queries' = queries,
             pc' \in {"compiling"} \cup Making => pc \in {"compiling"} \cup Making
      PROVE  WithinLimit'
  <2>1. Registered' = Registered
    BY <1>1 DEF Registered
  <2> QED
    BY <1>0, <1>1, <2>1 DEF WithinLimit
<1>2. ASSUME NEW k \in Callers, NEW id \in Ids, Register(k, id) PROVE WithinLimit'
  <2>1. Registered' = Registered
    BY <1>2 DEF Register, Registered
  <2>2. Cardinality(Registered) < MaxQueries
    BY <1>2 DEF Register, HasRoom
  <2> QED
    BY <1>0, <2>1, <2>2 DEF WithinLimit
<1>3. ASSUME NEW k \in Callers, NEW id \in Ids, Unregister(k, id) PROVE WithinLimit'
  BY <1>1, <1>3 DEF Unregister
<1>4. CASE CompileFails
  BY <1>1, <1>4 DEF CompileFails, Release
<1>5. CASE StartExecutor
  BY <1>1, <1>5 DEF StartExecutor
<1>6. CASE Started
  BY <1>1, <1>6 DEF Started
<1>7. CASE InitFails
  BY <1>1, <1>7 DEF InitFails
<1>8. CASE Reported
  BY <1>1, <1>8 DEF Reported
<1>9. CASE Publish
  <2>1. pc' = "idle"
    BY <1>9 DEF Publish, Return, Release
  <2>2. want \in Ids /\ made # None
    BY <1>0, <1>9, ManagerAssumption DEF Publish, ManagerTypeOK, MInv, HolderSound
  <2>3. Registered' = Registered \cup {want}
    BY <1>0, <1>9, <2>2 DEF Publish, Registered, ManagerTypeOK
  <2>4. Cardinality(Registered') <= Cardinality(Registered) + 1
    BY <2>3, RegisteredFinite, FS_AddElement
  <2>5. Cardinality(Registered') \in Nat
    BY <2>3, RegisteredFinite, FS_AddElement
  <2>6. Cardinality(Registered) < MaxQueries
    BY <1>0, <1>9 DEF Publish, WithinLimit
  <2>7. Cardinality(Registered') <= MaxQueries
    BY <2>4, <2>5, <2>6, RegisteredFinite, ManagerAssumption
  <2> QED
    BY <2>1, <2>7 DEF WithinLimit
<1>10. CASE StopAndForget
  <2>1. pc' = "idle"
    BY <1>10 DEF StopAndForget, Release
  <2>2. Registered' \subseteq Registered
    BY <1>0, <1>10 DEF StopAndForget, Registered, ManagerTypeOK
  <2>3. Cardinality(Registered') <= Cardinality(Registered)
    BY <2>2, RegisteredFinite, FS_Subset
  <2>4. Cardinality(Registered') \in Nat
    BY <2>2, RegisteredFinite, FS_Subset, FS_CardinalityType
  <2>5. Cardinality(Registered') <= MaxQueries
    BY <1>0, <2>3, <2>4, RegisteredFinite, ManagerAssumption DEF WithinLimit
  <2> QED
    BY <2>1, <2>5 DEF WithinLimit
<1>11. ASSUME NEW i \in Incs, Fetch(i) PROVE WithinLimit'
  BY <1>1, <1>11 DEF Fetch
<1>12. ASSUME NEW i \in Incs, SendBatch(i) PROVE WithinLimit'
  BY <1>1, <1>12 DEF SendBatch
<1>13. ASSUME NEW i \in Incs, Fail(i) \/ Leave(i) \/ Told(i) PROVE WithinLimit'
  BY <1>1, <1>13 DEF Fail, Leave, Told
<1>14. CASE UNCHANGED vars
  BY <1>1, <1>14 DEF vars
<1> QED
  BY <1>2, <1>3, <1>4, <1>5, <1>6, <1>7, <1>8, <1>9, <1>10, <1>11, <1>12, <1>13, <1>14
  DEF Next
-----------------------------------------------------------------------------
(* The invariant of the manager and its executors. *)
THEOREM ManagerInvariance == Spec => []MInv
<1>1. MInv /\ [Next]_vars => MInv'
  BY TypeStep, MadeStep, EntriesStep, HolderStep, BatchStep, OrphanStep, LimitStep DEF MInv
<1> QED
  BY <1>1, InitMInv, PTL DEF Spec

(* Every reachable state of the manager is well typed, and the lock is     *)
(* held exactly while a caller is inside.                                  *)
THEOREM ManagerTypeCorrect == Spec => []ManagerTypeOK
<1>1. MInv => ManagerTypeOK
  BY DEF MInv
<1> QED
  BY <1>1, ManagerInvariance, PTL

(* Register and Unregister lose no goroutine, whatever fails between them. *)
THEOREM NoneOrphaned == Spec => []NoOrphan
<1>1. MInv => NoOrphan
  BY DEF MInv
<1> QED
  BY <1>1, ManagerInvariance, PTL

(* A query that is unregistered while it polls sends one more batch.       *)
THEOREM OneLastBatch == Spec => []AtMostOneBatchAfterCancel
<1>1. MInv => AtMostOneBatchAfterCancel
  BY DEF MInv, LastBatch, AtMostOneBatchAfterCancel
<1> QED
  BY <1>1, ManagerInvariance, PTL

(* Each goroutine nobody has told to stop has a query id to itself: that   *)
(* of its entry, or that of the query about to be published.               *)
LEMMA GoroutinesFitIds ==
  ASSUME MInv
  PROVE  Cardinality(Uncancelled) <= MaxQueries
<1> DEFINE Room == Registered \cup (IF pc = "publishing" THEN {want} ELSE {})
           f == [i \in Uncancelled |-> idOf[i]]
<1>1. f \in Injection(Uncancelled, Room)
  <2>1. ASSUME NEW i \in Uncancelled
        PROVE  /\ idOf[i] \in Room
               /\ queries[idOf[i]] = i \/ (pc = "publishing" /\ i = made /\ idOf[i] = want)
    <3>1. i \in Incs /\ i # None /\ idOf[i] \in Ids
      BY <2>1, ManagerAssumption DEF MInv, MadeInOrder, ManagerTypeOK, Uncancelled, Running, Incs
    <3>2. queries[idOf[i]] = i \/ (pc = "publishing" /\ i = made /\ idOf[i] = want)
      BY <2>1 DEF MInv, NoOrphan, HolderSound, Making
    <3> QED
      BY <3>1, <3>2 DEF Registered
  <2>2. ASSUME NEW i \in Uncancelled, NEW j \in Uncancelled, idOf[i] = idOf[j]
        PROVE  i = j
    <3>1. made \in Incs \/ pc # "publishing"
      BY ManagerAssumption DEF MInv, ManagerTypeOK, HolderSound, Making, Incs
    <3>2. pc = "publishing" => queries[want] = None
      BY DEF MInv, HolderSound, Making
    <3>3. i # None /\ j # None
      BY ManagerAssumption DEF Uncancelled, Incs
    <3> QED
      BY <2>1, <2>2, <3>1, <3>2, <3>3
  <2> QED
    BY <2>1, <2>2 DEF Injection, IsInjective
<1>2. /\ IsFiniteSet(Room) /\ Cardinality(Room) \in Nat
      /\ Cardinality(Room) <= MaxQueries
  <2>1. CASE pc = "publishing"
    <3>1. Cardinality(Registered) < MaxQueries
      BY <2>1 DEF MInv, WithinLimit, Making
    <3>2. Room = Registered \cup {want}
      BY <2>1
    <3>3. /\ IsFiniteSet(Room)
          /\ \/ Cardinality(Room) = Cardinality(Registered)
             \/ Cardinality(Room) = Cardinality(Registered) + 1
      BY <3>2, RegisteredFinite, FS_AddElement
    <3> QED
      BY <3>1, <3>3, RegisteredFinite, ManagerAssumption
  <2>2. CASE pc # "publishing"
    BY <2>2, RegisteredFinite DEF MInv, WithinLimit
  <2> QED
    BY <2>1, <2>2
<1>3. IsFiniteSet(Uncancelled) /\ Cardinality(Uncancelled) <= Cardinality(Room)
  BY <1>1, <1>2, FS_Injection
<1>4. Cardinality(Uncancelled) \in Nat
  BY <1>3, FS_CardinalityType
<1> QED
  BY <1>2, <1>3, <1>4, ManagerAssumption

(* MaxQueries bounds the goroutines as well as the table.                  *)
THEOREM CapacityIsRespected == Spec => []CapacityRespected
<1>1. MInv => CapacityRespected
  BY GoroutinesFitIds DEF CapacityRespected
<1> QED
  BY <1>1, ManagerInvariance, PTL
-----------------------------------------------------------------------------
(* What the rest of the server sees of the lock. *)
LEMMA Busy ==
  ASSUME ManagerTypeOK
  PROVE  /\ pc = "idle" <=> View!view = <<"free", Registered>>
         /\ pc = "reporting" <=> View!view = <<"reporting", Registered>>
         /\ pc \notin {"idle", "reporting"} <=> View!view = <<"held", Registered>>
BY DEF ManagerTypeOK, View!view

(* Beyond the lock, every step is one of ManagerView's or none at all: the *)
(* table changes only when a holder lets go, and then by one query.        *)
THEOREM ManagerIsWhatItLooks == Spec => View!ViewInit /\ [][View!ViewNext]_(View!view)
<1>1. Init => View!ViewInit
  BY DEF Init, View!ViewInit, Registered
<1>2. MInv /\ MInv' /\ [Next]_vars => [View!ViewNext]_(View!view)
  <2> SUFFICES ASSUME MInv, MInv', [Next]_vars, UNCHANGED View!view => FALSE
               PROVE  View!ViewNext
    OBVIOUS
  <2>0. ManagerTypeOK /\ ManagerTypeOK' /\ HolderSound
    BY DEF MInv
  <2> USE DEF callVars, execVars, ctlVars, regVars, View!view, View!ViewNext
  <2>1. queries' = queries => Registered' = Registered
    BY DEF Registered
  <2>2. ASSUME NEW k \in Callers, NEW id \in Ids, Register(k, id) \/ Unregister(k, id)
        PROVE  View!Acquire
    BY <2>0, <2>1, <2>2, ManagerAssumption DEF Register, Unregister, View!Acquire, ManagerTypeOK
  <2>3. CASE CompileFails
    BY <2>0, <2>1, <2>3 DEF CompileFails, Release, View!LetGo, ManagerTypeOK
  <2>4. CASE StartExecutor \/ Started
    BY <2>0, <2>1, <2>4 DEF StartExecutor, Started
  <2>5. CASE InitFails
    BY <2>0, <2>1, <2>5 DEF InitFails, View!Report, ManagerTypeOK
  <2>6. CASE Reported
    BY <2>0, <2>1, <2>6 DEF Reported, View!Reported, ManagerTypeOK
  <2>7. CASE Publish
    <3>1. want \in Ids /\ made # None /\ queries[want] = None
      BY <2>0, <2>7, ManagerAssumption DEF Publish, ManagerTypeOK, HolderSound, Making
    <3>2. Registered' = Registered \cup {want} /\ want \in Ids \ Registered
      BY <2>0, <2>7, <3>1 DEF Publish, Registered, ManagerTypeOK
    <3> QED
      BY <2>0, <2>7, <3>2 DEF Publish, Return, Release, View!LetGo, ManagerTypeOK
  <2>8. CASE StopAndForget
    <3>1. want \in Ids /\ queries[want] # None
      BY <2>0, <2>8 DEF StopAndForget, ManagerTypeOK, HolderSound
    <3>2. Registered' = Registered \ {want} /\ want \in Registered
      BY <2>0, <2>8, <3>1 DEF StopAndForget, Registered, ManagerTypeOK
    <3> QED
      BY <2>0, <2>8, <3>2 DEF StopAndForget, Release, View!LetGo, ManagerTypeOK
  <2>9. ASSUME NEW i \in Incs, Fetch(i) \/ SendBatch(i) \/ Fail(i) \/ Leave(i) \/ Told(i)
        PROVE  FALSE
    BY <2>1, <2>9 DEF Fetch, SendBatch, Fail, Leave, Told
  <2> QED
    BY <2>1, <2>2, <2>3, <2>4, <2>5, <2>6, <2>7, <2>8, <2>9 DEF Next, vars
<1> QED
  BY <1>1, <1>2, ManagerInvariance, PTL DEF Spec
-----------------------------------------------------------------------------
(* An executor that has ended was cancelled. *)
EndedTold == \A i \in Incs : exec[i] \in {"leaving", "ended"} => i \in cancelled

LEMMA EndedStep ==
  ASSUME MInv, EndedTold, [Next]_vars
  PROVE  EndedTold'
<1>0. ManagerTypeOK /\ MadeInOrder /\ HolderSound /\ stopped \subseteq cancelled
  BY DEF MInv
<1> USE ManagerAssumption
        DEF ManagerTypeOK, Incs, Running, Making, HolderSound, EndedTold,
            callVars, execVars, ctlVars, regVars
<1>1. ASSUME UNCHANGED exec, cancelled \subseteq cancelled' PROVE EndedTold'
  BY <1>1
<1>2. CASE \E k \in Callers, id \in Ids : Register(k, id) \/ Unregister(k, id)
  BY <1>1, <1>2 DEF Register, Unregister, CancelContext
<1>3. CASE CompileFails \/ Reported \/ Publish \/ StopAndForget \/ UNCHANGED vars
  BY <1>1, <1>3 DEF CompileFails, Reported, Publish, StopAndForget, vars
<1>4. CASE StartExecutor \/ Started \/ InitFails
  BY <1>0, <1>4 DEF StartExecutor, Started, InitFails
<1>5. ASSUME NEW i \in Incs, Fetch(i) \/ SendBatch(i) \/ Fail(i) \/ Leave(i) \/ Told(i) PROVE EndedTold'
  BY <1>0, <1>5 DEF Fetch, SendBatch, Fail, Leave, Told, MayFetch, MayLeave
<1> QED
  BY <1>2, <1>3, <1>4, <1>5 DEF Next

LEMMA EndedInvariance == Spec => [](MInv /\ EndedTold)
<1>1. Init => EndedTold
  BY DEF Init, EndedTold
<1> QED
  BY <1>1, EndedStep, ManagerInvariance, PTL DEF Spec

(***************************************************************************)
(* "Queries run continuously until explicitly unregistered": with the lock *)
(* free a registered query has a goroutine that polls, unless its executor *)
(* failed to start.  That exception is the only one: no failure, no race   *)
(* with Unregister and no second registration of the id leaves a query in  *)
(* the table whose goroutine has ended.                                    *)
(***************************************************************************)
RunsUnlessFailed ==
  lock = None => \A id \in Registered : exec[queries[id]] \in Running \cup {"failed"}

(* The table has no other dead entry than an executor that never started. *)
THEOREM RegisteredRuns == Spec => []RunsUnlessFailed
<1>1. MInv /\ EndedTold => RunsUnlessFailed
  <2> SUFFICES ASSUME MInv, EndedTold, lock = None, NEW id \in Registered
               PROVE  exec[queries[id]] \in Running \cup {"failed"}
    BY DEF RunsUnlessFailed
  <2> DEFINE i == queries[id]
  <2>1. ManagerTypeOK /\ MadeInOrder /\ EntriesSound
    BY DEF MInv
  <2>2. pc = "idle" /\ id \in Ids /\ i # None
    BY <2>1 DEF ManagerTypeOK, Registered
  <2>3. i \in Incs /\ i \in 1..made /\ i \notin cancelled
    BY <2>1, <2>2, ManagerAssumption DEF EntriesSound, ManagerTypeOK, Incs
  <2>4. ~(i > made) /\ made \in Nat
    BY <2>1, <2>3, ManagerAssumption DEF ManagerTypeOK
  <2>5. exec[i] # "none" /\ exec[i] # "starting" /\ exec[i] \notin {"leaving", "ended"}
    BY <2>1, <2>2, <2>3, <2>4 DEF MadeInOrder, EndedTold
  <2>6. exec[i] \in {"none", "starting", "failed", "leaving", "ended"} \cup Running
    BY <2>1, <2>3 DEF ManagerTypeOK
  <2> QED
    BY <2>5, <2>6
<1> QED
  BY <1>1, EndedInvariance, PTL
-----------------------------------------------------------------------------
(* The life of incarnation i, in the terms of module Incarnation. *)
Life(i) ==
  INSTANCE Incarnation WITH
    place     <- IF exec[i] = "none" THEN "starting" ELSE exec[i],
    cancelled <- i \in cancelled,
    stopped   <- i \in stopped

(* Every executor the manager makes, however often it makes one for an id, *)
(* lives as Incarnation says: what the manager assumes of executors is     *)
(* what ExecutorIsIncarnation shows of one.                                *)
THEOREM IncarnationsLive == Spec => \A i \in Incs : Life(i)!LifeSpec
<1> SUFFICES ASSUME NEW i \in Incs PROVE Spec => Life(i)!LifeSpec
  OBVIOUS
<1>1. Init => Life(i)!Born
  BY DEF Init, Life!Born
<1>2. MInv /\ [Next]_vars => [Life(i)!Live]_(Life(i)!life)
  <2> SUFFICES ASSUME MInv, [Next]_vars PROVE [Life(i)!Live]_(Life(i)!life)
    OBVIOUS
  <2>0. ManagerTypeOK /\ MadeInOrder /\ EntriesSound /\ HolderSound
    BY DEF MInv
  <2> USE ManagerAssumption
          DEF ManagerTypeOK, Incs, Running, Making, callVars, execVars, ctlVars, regVars,
              Life!life, Life!Live, Life!Move
  <2>1. ASSUME NEW k \in Callers, NEW id \in Ids, Register(k, id)
        PROVE  UNCHANGED Life(i)!life
    BY <2>1 DEF Register
  <2>2. ASSUME NEW k \in Callers, NEW id \in Ids, Unregister(k, id)
        PROVE  [Life(i)!Live]_(Life(i)!life)
    <3>1. exec[queries[id]] \notin {"none", "starting"} /\ UNCHANGED <<exec, stopped>>
      BY <2>0, <2>2 DEF Unregister, EntriesSound, MadeInOrder
    <3>2. cancelled' = cancelled \cup {queries[id]}
      BY <2>2 DEF Unregister, CancelContext
    <3> QED
      BY <3>1, <3>2 DEF Life!IsCancelled
  <2>3. CASE CompileFails \/ Reported \/ Publish \/ UNCHANGED vars
    BY <2>3 DEF CompileFails, Reported, Publish, vars
  <2>4. CASE StartExecutor
    <3>1. exec[made + 1] = "none" /\ made + 1 \in Incs
      BY <2>0, <2>4 DEF StartExecutor, HolderSound, MadeInOrder
    <3> QED
      BY <2>0, <2>4, <3>1 DEF StartExecutor
  <2>5. CASE Started
    BY <2>0, <2>5 DEF Started, HolderSound, Life!Starts
  <2>6. CASE InitFails
    BY <2>0, <2>6 DEF InitFails, HolderSound, Life!Fails
  <2>7. CASE StopAndForget
    <3>1. queries[want] \in cancelled /\ exec[queries[want]] \notin {"none", "starting"}
      BY <2>0, <2>7 DEF StopAndForget, EntriesSound, HolderSound, MadeInOrder
    <3>2. /\ stopped' = IF exec[queries[want]] = "failed" THEN stopped
                       ELSE stopped \cup {queries[want]}
          /\ UNCHANGED <<exec, cancelled>>
      BY <2>7 DEF StopAndForget
    <3> QED
      BY <3>1, <3>2 DEF Life!IsStopped
  <2>8. ASSUME NEW j \in Incs, Fetch(j) PROVE [Life(i)!Live]_(Life(i)!life)
    BY <2>0, <2>8 DEF Fetch, MayFetch, Life!Fetches
  <2>9. ASSUME NEW j \in Incs, SendBatch(j) PROVE [Life(i)!Live]_(Life(i)!life)
    BY <2>0, <2>9 DEF SendBatch, Life!Settles
  <2>10. ASSUME NEW j \in Incs, Fail(j) PROVE [Life(i)!Live]_(Life(i)!life)
    BY <2>0, <2>10 DEF Fail, Life!Errs, Life!Unsent
  <2>11. ASSUME NEW j \in Incs, Leave(j) PROVE [Life(i)!Live]_(Life(i)!life)
    BY <2>0, <2>11 DEF Leave, MayLeave, Life!Leaves
  <2>12. ASSUME NEW j \in Incs, Told(j) PROVE [Life(i)!Live]_(Life(i)!life)
    BY <2>0, <2>12 DEF Told, Life!Told, Life!Ends
  <2> QED
    BY <2>1, <2>2, <2>3, <2>4, <2>5, <2>6, <2>7, <2>8, <2>9, <2>10, <2>11, <2>12 DEF Next
<1> QED
  BY <1>1, <1>2, ManagerInvariance, PTL DEF Spec, Life!LifeSpec
-----------------------------------------------------------------------------
(* The table is what has been registered and not unregistered. *)
CountersExact == registered - unregistered = Cardinality(Registered)

Failed == {i \in Incs : exec[i] = "failed"}

Meanwhile == Moves - scrape.moves

Scrapes ==
  [step : {"idle", "in", "counted", "listed", "full"},
   moves : Nat, in : Nat, out : Nat, active : Nat, states : Nat]

(* What the counters were when they were read: they have only grown since. *)
ReadingsPast ==
  /\ scrape \in Scrapes
  /\ scrape.step # "idle" =>
       scrape.in <= registered /\ scrape.moves - scrape.in <= unregistered
  /\ scrape.step \in {"counted", "listed", "full"} =>
       scrape.moves - scrape.in <= scrape.out /\ scrape.out <= unregistered
  /\ scrape.step \in {"listed", "full"} =>
       scrape.in - unregistered <= scrape.active /\ scrape.active <= registered - scrape.out
  /\ scrape.step = "full" =>
       Apart(scrape.active, scrape.states, Meanwhile + Cardinality(Failed))

SInv == CountersExact /\ ReadingsPast
-----------------------------------------------------------------------------
LEMMA FailedFinite == IsFiniteSet(Failed) /\ Cardinality(Failed) \in Nat
<1>1. IsFiniteSet(Incs)
  BY ManagerAssumption, FS_Interval DEF Incs
<1>2. Failed \subseteq Incs
  BY DEF Failed
<1> QED
  BY <1>1, <1>2, FS_Subset, FS_CardinalityType

(* No two entries lead to one executor, so the queries without a state are *)
(* no more than the executors that failed.                                 *)
LEMMA StatelessFailed ==
  ASSUME MInv
  PROVE  /\ Cardinality(Stateful) \in Nat
         /\ Cardinality(Stateful) <= Cardinality(Registered)
         /\ Cardinality(Registered) - Cardinality(Stateful) <= Cardinality(Failed)
<1> DEFINE Rest == Registered \ Stateful
           f    == [id \in Rest |-> queries[id]]
<1>1. f \in Injection(Rest, Failed)
  <2>1. \A id \in Rest : queries[id] \in Failed /\ idOf[queries[id]] = id
    BY DEF MInv, EntriesSound, ManagerTypeOK, Registered, Stateful, Failed, Incs
  <2> QED
    BY <2>1 DEF Injection, IsInjective
<1>2. IsFiniteSet(Rest) /\ Cardinality(Rest) <= Cardinality(Failed)
  BY <1>1, FailedFinite, FS_Injection
<1>3. /\ IsFiniteSet(Stateful) /\ Cardinality(Stateful) \in Nat
      /\ Cardinality(Stateful) <= Cardinality(Registered)
  <2>1. Stateful \subseteq Registered
    BY DEF Stateful
  <2> QED
    BY <2>1, RegisteredFinite, FS_Subset, FS_CardinalityType
<1>4. Cardinality(Registered) = Cardinality(Stateful) + Cardinality(Rest)
  <2>1. Registered = Stateful \cup Rest /\ Stateful \cap Rest = {}
    BY DEF Stateful
  <2>2. Cardinality(Stateful \cap Rest) = 0
    BY <2>1, FS_EmptySet
  <2>3. Cardinality(Stateful \cup Rest)
          = Cardinality(Stateful) + Cardinality(Rest) - Cardinality(Stateful \cap Rest)
    BY <1>2, <1>3, FS_Union
  <2>4. Cardinality(Rest) \in Nat
    BY <1>2, FS_CardinalityType
  <2> HIDE DEF Rest
  <2> QED
    BY <1>3, <2>1, <2>2, <2>3, <2>4
<1>5. Cardinality(Rest) \in Nat
  BY <1>2, FS_CardinalityType
<1> HIDE DEF Rest
<1> QED
  BY <1>2, <1>3, <1>4, <1>5, FailedFinite, RegisteredFinite
-----------------------------------------------------------------------------
(* Publish and StopAndForget change the table and their counter together;  *)
(* no other step touches either.                                           *)
LEMMA CountersStep ==
  ASSUME MInv, CountersExact, [Next]_vars
  PROVE  CountersExact' /\ registered' >= registered /\ unregistered' >= unregistered
<1>0. /\ ManagerTypeOK /\ HolderSound
      /\ registered \in Nat /\ unregistered \in Nat
  BY DEF MInv, ManagerTypeOK
<1> USE DEF callVars, execVars, ctlVars, regVars
<1>1. CASE Publish
  <2>1. want \in Ids /\ made # None /\ queries[want] = None
    BY <1>0, <1>1, ManagerAssumption DEF Publish, ManagerTypeOK, HolderSound, Making
  <2>2. Registered' = Registered \cup {want} /\ want \notin Registered
    BY <1>0, <1>1, <2>1 DEF Publish, Registered, ManagerTypeOK
  <2>3. Cardinality(Registered') = Cardinality(Registered) + 1
    BY <2>2, RegisteredFinite, FS_AddElement
  <2>4. registered' = registered + 1 /\ unregistered' = unregistered
    BY <1>1 DEF Publish
  <2> QED
    BY <1>0, <2>3, <2>4, RegisteredFinite DEF CountersExact
<1>2. CASE StopAndForget
  <2>1. want \in Ids /\ queries[want] # None
    BY <1>0, <1>2 DEF StopAndForget, ManagerTypeOK, HolderSound
  <2>2. Registered' = Registered \ {want} /\ want \in Registered
    BY <1>0, <1>2, <2>1 DEF StopAndForget, Registered, ManagerTypeOK
  <2>3. Cardinality(Registered') = Cardinality(Registered) - 1
    BY <2>2, RegisteredFinite, FS_RemoveElement
  <2>4. unregistered' = unregistered + 1 /\ registered' = registered
    BY <1>2 DEF StopAndForget
  <2> QED
    BY <1>0, <2>3, <2>4, RegisteredFinite DEF CountersExact
<1>3. CASE ~Publish /\ ~StopAndForget
  <2>1. UNCHANGED <<queries, registered, unregistered>>
    BY <1>3 DEF Next, vars, Register, Unregister, CompileFails, StartExecutor, Started,
                InitFails, Reported, Fetch, SendBatch, Fail, Leave, Told
  <2> QED
    BY <1>0, <2>1 DEF CountersExact, Registered
<1> QED
  BY <1>1, <1>2, <1>3

(* An executor that failed to start stays as it is. *)
LEMMA FailedStay == ASSUME MInv, [Next]_vars PROVE Failed \subseteq Failed'
<1> SUFFICES ASSUME NEW i \in Incs, exec[i] = "failed" PROVE exec'[i] = "failed"
  BY DEF Failed
<1>0. ManagerTypeOK /\ MadeInOrder /\ HolderSound
  BY DEF MInv
<1> USE DEF callVars, execVars, ctlVars, regVars, ManagerTypeOK
<1>1. CASE StartExecutor
  <2>1. exec' = [exec EXCEPT ![made + 1] = "starting"] /\ made \in Nat
    BY <1>0, <1>1 DEF StartExecutor
  <2>2. i # made + 1
    BY <1>0, <2>1 DEF MadeInOrder, Incs
  <2> QED
    BY <1>0, <2>1, <2>2
<1>2. CASE Started \/ InitFails
  BY <1>0, <1>2 DEF Started, InitFails, HolderSound
<1>3. ASSUME NEW j \in Incs, Fetch(j) \/ SendBatch(j) \/ Fail(j) \/ Leave(j) \/ Told(j) PROVE exec'[i] = "failed"
  BY <1>0, <1>3 DEF Fetch, MayFetch, SendBatch, Fail, Leave, MayLeave, Told
<1>4. CASE UNCHANGED exec
  BY <1>4
<1>5. \/ StartExecutor \/ Started \/ InitFails \/ UNCHANGED exec
      \/ \E j \in Incs : Fetch(j) \/ SendBatch(j) \/ Fail(j) \/ Leave(j) \/ Told(j)
  BY DEF Next, vars, Register, Unregister, CompileFails, Reported, Publish, StopAndForget
<1> QED
  BY <1>1, <1>2, <1>3, <1>4, <1>5

(* The manager goes on: its counters and its failures grow. *)
LEMMA ManagerKeepsReadings ==
  ASSUME MInv, SInv, [Next]_vars, UNCHANGED scrape
  PROVE  SInv'
<1>1. /\ CountersExact' /\ registered' >= registered /\ unregistered' >= unregistered
      /\ registered \in Nat /\ unregistered \in Nat
      /\ registered' \in Nat /\ unregistered' \in Nat
  <2>1. ManagerTypeOK'
    BY TypeStep
  <2> QED
    BY <2>1, CountersStep DEF SInv, MInv, ManagerTypeOK
<1>2. /\ Cardinality(Failed) \in Nat /\ Cardinality(Failed') \in Nat
      /\ Cardinality(Failed) <= Cardinality(Failed')
  <2>1. IsFiniteSet(Failed')
    <3>1. IsFiniteSet(Incs) /\ Failed' \subseteq Incs
      BY ManagerAssumption, FS_Interval DEF Incs, Failed
    <3> QED
      BY <3>1, FS_Subset
  <2> QED
    BY <2>1, FailedFinite, FailedStay, FS_Subset, FS_CardinalityType
<1>3. ReadingsPast'
  <2>1. scrape' = scrape
    OBVIOUS
  <2> QED
    BY <1>1, <1>2, <2>1 DEF SInv, ReadingsPast, Scrapes, Apart, Meanwhile, Moves
<1> QED
  BY <1>1, <1>3 DEF SInv
-----------------------------------------------------------------------------
LEMMA InitSInv == MetricsInit => SInv
<1> SUFFICES ASSUME MetricsInit PROVE SInv
  OBVIOUS
<1>1. Registered = {} /\ registered = 0 /\ unregistered = 0
  BY DEF MetricsInit, Init, Registered
<1>2. CountersExact
  BY <1>1, FS_EmptySet DEF CountersExact
<1>3. ReadingsPast
  BY DEF MetricsInit, NoReadings, ReadingsPast, Scrapes
<1> QED
  BY <1>2, <1>3 DEF SInv

(* Each reading is compared with the counters at its own moment.           *)
LEMMA ScrapeStep ==
  ASSUME MInv, SInv, UNCHANGED vars,
         ScrapeRegistered \/ ScrapeUnregistered \/ ScrapeList \/ ScrapeStates \/ Answer
  PROVE  SInv'
<1>0. /\ registered \in Nat /\ unregistered \in Nat
      /\ Cardinality(Registered) \in Nat
      /\ CountersExact /\ ReadingsPast
      /\ Cardinality(Failed) \in Nat
  BY RegisteredFinite, FailedFinite DEF MInv, ManagerTypeOK, SInv
<1>1. /\ registered' = registered /\ unregistered' = unregistered
      /\ Registered' = Registered /\ Failed' = Failed
  BY DEF vars, regVars, execVars, Registered, Failed
<1>2. CountersExact'
  BY <1>0, <1>1 DEF CountersExact
<1> SUFFICES ReadingsPast'
  BY <1>2 DEF SInv
<1> USE DEF ReadingsPast, Moves
<1>3. CASE ScrapeRegistered
  <2>1. /\ scrape'.step = "in" /\ scrape'.moves = registered + unregistered
        /\ scrape'.in = registered
        /\ scrape' \in Scrapes
    <3>1. registered + unregistered \in Nat
      BY <1>0
    <3>2. scrape' = [scrape EXCEPT !.step = "in", !.moves = registered + unregistered,
                                   !.in = registered]
      BY <1>3 DEF ScrapeRegistered
    <3> QED
      BY <1>0, <3>1, <3>2 DEF Scrapes
  <2> QED
    BY <1>0, <1>1, <2>1
<1>4. CASE ScrapeUnregistered
  <2>1. /\ scrape'.step = "counted" /\ scrape.step = "in"
        /\ scrape'.moves = scrape.moves /\ scrape'.in = scrape.in
        /\ scrape'.out = unregistered
        /\ scrape' \in Scrapes
    BY <1>0, <1>4 DEF ScrapeUnregistered, Scrapes
  <2> QED
    BY <1>0, <1>1, <2>1
<1>5. CASE ScrapeList
  <2>1. /\ scrape'.step = "listed" /\ scrape.step = "counted"
        /\ scrape'.moves = scrape.moves /\ scrape'.in = scrape.in
        /\ scrape'.out = scrape.out /\ scrape'.active = Cardinality(Registered)
        /\ scrape' \in Scrapes
    BY <1>0, <1>5 DEF ScrapeList, CountListed, Scrapes
  <2>2. scrape.moves \in Nat /\ scrape.in \in Nat /\ scrape.out \in Nat
    BY <1>0 DEF Scrapes
  <2> QED
    BY <1>0, <1>1, <2>1, <2>2 DEF CountersExact
<1>6. CASE ScrapeStates
  <2>1. /\ Cardinality(Stateful) \in Nat
        /\ Cardinality(Stateful) <= Cardinality(Registered)
        /\ Cardinality(Registered) - Cardinality(Stateful) <= Cardinality(Failed)
    BY StatelessFailed
  <2>2. /\ scrape'.step = "full" /\ scrape.step = "listed"
        /\ scrape'.moves = scrape.moves /\ scrape'.in = scrape.in
        /\ scrape'.out = scrape.out /\ scrape'.active = scrape.active
        /\ scrape'.states = Cardinality(Stateful)
        /\ scrape' \in Scrapes
    BY <1>0, <1>6, <2>1 DEF ScrapeStates, Scrapes
  <2>3. /\ scrape.moves \in Nat /\ scrape.in \in Nat
        /\ scrape.out \in Nat /\ scrape.active \in Nat
    BY <1>0 DEF Scrapes
  <2>4. Apart(scrape'.active, scrape'.states, Meanwhile' + Cardinality(Failed'))
    BY <1>0, <1>1, <2>1, <2>2, <2>3 DEF CountersExact, Apart, Meanwhile
  <2> QED
    BY <1>0, <1>1, <2>2, <2>4
<1>7. CASE Answer
  <2>1. scrape'.step = "idle" /\ scrape' \in Scrapes
    BY <1>7 DEF Answer, NoReadings, Scrapes
  <2> QED
    BY <2>1
<1> QED
  BY <1>3, <1>4, <1>5, <1>6, <1>7
-----------------------------------------------------------------------------
(* The manager does not notice that it is read. *)
THEOREM MetricsRefinesManager == MetricsSpec => Spec
<1>1. MetricsInit => Init
  BY DEF MetricsInit
<1>2. [MetricsNext]_mvars => [Next]_vars
  BY DEF MetricsNext, mvars, ScrapeRegistered, ScrapeUnregistered, ScrapeList, ScrapeStates, Answer
<1> QED
  BY <1>1, <1>2, PTL DEF MetricsSpec, Spec

(* The readings of a scrape disagree by no more than what was registered,  *)
(* unregistered or failed meanwhile.                                       *)
THEOREM ReadingsAreExplained == MetricsSpec => []MetricsExplained
<1>1. MetricsSpec => []MInv
  BY MetricsRefinesManager, ManagerInvariance, PTL
<1>2. MInv /\ SInv /\ [MetricsNext]_mvars => SInv'
  BY ManagerKeepsReadings, ScrapeStep
  DEF MetricsNext, mvars, ScrapeRegistered, ScrapeUnregistered, ScrapeList, ScrapeStates, Answer
<1>3. MInv /\ SInv => MetricsExplained
  <2> SUFFICES ASSUME MInv, SInv, scrape.step = "full"
               PROVE  /\ Apart(scrape.active, scrape.in - scrape.out, Meanwhile)
                      /\ Apart(scrape.active, scrape.states, Meanwhile + Cardinality(Failed))
    BY DEF MetricsExplained, Meanwhile, Failed
  <2>1. registered \in Nat /\ unregistered \in Nat
    BY DEF MInv, ManagerTypeOK
  <2> QED
    BY <2>1 DEF SInv, ReadingsPast, Scrapes, Apart, Meanwhile, Moves
<1> QED
  BY <1>1, <1>2, <1>3, InitSInv, PTL DEF MetricsSpec
=============================================================================
