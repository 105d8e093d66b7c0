----------------------- MODULE SessionRegistryProofs -----------------------
(***************************************************************************)
(* Proofs about SessionRegistry, for any number of connections, addresses  *)
(* and clients allowed.  Two facts carry them.  The count is exact in its  *)
(* own way: every live connection adds one and every departed one takes    *)
(* one off.  And of two running connections with one address both are      *)
(* known to have crossed.                                                  *)
(***************************************************************************)
EXTENDS SessionRegistry, FiniteSetTheorems, TLAPS

(* What a connection adds to the count, by its stage. *)
Weight(x) ==
  IF x \in {"admitted", "running"} THEN 1 ELSE IF x = "left" THEN -1 ELSE 0

CountExact == activeClients = Cardinality(Live) - Cardinality(Departed)

CrossingKnown ==
  \A c, d \in At({"running"}) :
    c # d /\ AddrOf[c] = AddrOf[d] => c \in crossed /\ d \in crossed

RInv ==
  /\ RegistryTypeOK
  /\ EntryIsRunning
  /\ SessionReachable
  /\ CrossingKnown
  /\ CountExact
  /\ activeClients <= MaxClients
-----------------------------------------------------------------------------
(* A connection that moves joins the stages that have its new one.         *)
LEMMA Move ==
  ASSUME stage \in [Conns -> Stages], NEW c \in Conns, NEW x \in Stages,
         stage' = [stage EXCEPT ![c] = x], NEW S \in SUBSET Stages
  PROVE  At(S)' = IF x \in S THEN At(S) \cup {c} ELSE At(S) \ {c}
BY DEF At

(* There are finitely many connections in any stage. *)
LEMMA AtFinite ==
  ASSUME NEW S
  PROVE  IsFiniteSet(At(S)) /\ Cardinality(At(S)) \in Nat
<1>1. IsFiniteSet(At(S))
  BY RegistryAssumption, FS_Subset DEF At
<1> QED
  BY <1>1, FS_CardinalityType

(* What a move does to the number of connections in some stages. *)
LEMMA MoveCount ==
  ASSUME stage \in [Conns -> Stages], NEW c \in Conns, NEW x \in Stages,
         stage' = [stage EXCEPT ![c] = x], NEW S \in SUBSET Stages
  PROVE  Cardinality(At(S)') =
           Cardinality(At(S)) + (IF x \in S THEN 1 ELSE 0)
                              - (IF stage[c] \in S THEN 1 ELSE 0)
<1>1. At(S)' = IF x \in S THEN At(S) \cup {c} ELSE At(S) \ {c}
  BY Move
<1>2. c \in At(S) <=> stage[c] \in S
  BY DEF At
<1>3. IsFiniteSet(At(S)) /\ Cardinality(At(S)) \in Nat
  BY AtFinite
<1>4. CASE x \in S
  <2>1. Cardinality(At(S) \cup {c}) =
          IF c \in At(S) THEN Cardinality(At(S)) ELSE Cardinality(At(S)) + 1
    BY <1>3, FS_AddElement
  <2> QED
    BY <1>1, <1>2, <1>3, <1>4, <2>1
<1>5. CASE x \notin S
  <2>1. Cardinality(At(S) \ {c}) =
          IF c \in At(S) THEN Cardinality(At(S)) - 1 ELSE Cardinality(At(S))
    BY <1>3, FS_RemoveElement
  <2> QED
    BY <1>1, <1>2, <1>3, <1>5, <2>1
<1> QED
  BY <1>4, <1>5

(* The sets the count is about: a move, as seen by the count. *)
LEMMA MoveBalance ==
  ASSUME stage \in [Conns -> Stages], NEW c \in Conns, NEW x \in Stages,
         stage' = [stage EXCEPT ![c] = x], CountExact
  PROVE  Cardinality(Live)' - Cardinality(Departed)' =
           activeClients + Weight(x) - Weight(stage[c])
<1> DEFINE L == {"admitted", "running"}
           D == {"left"}
<1>1. L \in SUBSET Stages /\ D \in SUBSET Stages
  BY DEF Stages
<1>2. Cardinality(At(L)') = Cardinality(At(L)) + (IF x \in L THEN 1 ELSE 0)
                                               - (IF stage[c] \in L THEN 1 ELSE 0)
  BY <1>1, MoveCount
<1>3. Cardinality(At(D)') = Cardinality(At(D)) + (IF x \in D THEN 1 ELSE 0)
                                               - (IF stage[c] \in D THEN 1 ELSE 0)
  BY <1>1, MoveCount
<1>4. Cardinality(At(L)) \in Nat /\ Cardinality(At(D)) \in Nat
  BY AtFinite
<1>5. activeClients = Cardinality(At(L)) - Cardinality(At(D))
  BY DEF CountExact, Live, Departed
<1>6. Cardinality(Live)' = Cardinality(At(L)') /\ Cardinality(Departed)' = Cardinality(At(D)')
  BY DEF Live, Departed
<1> QED
  BY <1>2, <1>3, <1>4, <1>5, <1>6 DEF Weight
-----------------------------------------------------------------------------
(* Nothing is dialled, listed or counted at first. *)
LEMMA InitRInv == RegistryInit => RInv
<1> SUFFICES ASSUME RegistryInit PROVE RInv
  OBVIOUS
<1>1. \A S : "undialled" \notin S => At(S) = {}
  BY DEF RegistryInit, At
<1>2. RegistryTypeOK
  BY <1>1, RegistryAssumption DEF RegistryInit, RegistryTypeOK, Stages
<1>3. EntryIsRunning
  BY DEF RegistryInit, EntryIsRunning
<1>4. SessionReachable /\ CrossingKnown
  BY <1>1 DEF SessionReachable, CrossingKnown
<1>5. CountExact /\ activeClients <= MaxClients
  BY <1>1, FS_EmptySet, RegistryAssumption DEF RegistryInit, CountExact, Live, Departed
<1> QED
  BY <1>2, <1>3, <1>4, <1>5 DEF RInv

(* What Publish, Leave and the rest do to the stages, in one place: the    *)
(* connection moves and the others stay.                                   *)
LEMMA Stays ==
  ASSUME stage \in [Conns -> Stages], NEW c \in Conns, NEW x \in Stages,
         stage' = [stage EXCEPT ![c] = x]
  PROVE  /\ stage' \in [Conns -> Stages]
         /\ stage'[c] = x
         /\ \A d \in Conns \ {c} : stage'[d] = stage[d]
OBVIOUS

(* A connection's step keeps the count exact. *)
LEMMA CountStep ==
  ASSUME RInv, NEW c \in Conns, NEW x \in Stages,
         stage' = [stage EXCEPT ![c] = x],
         activeClients' = activeClients + Weight(x) - Weight(stage[c])
  PROVE  CountExact'
<1>1. stage \in [Conns -> Stages] /\ CountExact
  BY DEF RInv, RegistryTypeOK
<1>2. Cardinality(Live)' - Cardinality(Departed)' =
        activeClients + Weight(x) - Weight(stage[c])
  BY <1>1, MoveBalance
<1> QED
  BY <1>2 DEF CountExact

(* Types, and that at most one connection is admitted and unpublished. *)
LEMMA TypeStep == RInv /\ RegistryNext => RegistryTypeOK'
<1> SUFFICES ASSUME RInv, NEW c \in Conns,
                    \/ Dial(c)
                    \/ Drop(c)
                    \/ Refuse(c)
                    \/ Admit(c)
                    \/ Publish(c)
                    \/ Leave(c)
                    \/ CountAgain(c)
             PROVE  RegistryTypeOK'
  BY DEF RegistryNext
<1>0. RegistryTypeOK
  BY DEF RInv
<1> USE DEF RegistryTypeOK, Stages, At
<1>1. CASE Dial(c)
  BY <1>0, <1>1 DEF Dial
<1>2. CASE Drop(c)
  BY <1>0, <1>2 DEF Drop
<1>3. CASE Refuse(c)
  BY <1>0, <1>3 DEF Refuse
<1>4. CASE Admit(c)
  BY <1>0, <1>4 DEF Admit, Accepting
<1>5. CASE Publish(c)
  <2>1. /\ stage' \in [Conns -> Stages]
        /\ \A d, e \in At({"admitted"})' : d = e
    BY <1>0, <1>5 DEF Publish
  <2>2. sessions' \in [Addrs -> Conns \cup {None}]
    BY <1>0, <1>5, RegistryAssumption DEF Publish
  <2>3. crossed' \in SUBSET Conns
    BY <1>0, <1>5 DEF Publish, SameAddress
  <2> QED
    BY <1>0, <1>5, <2>1, <2>2, <2>3 DEF Publish
<1>6. CASE Leave(c)
  <2>1. /\ stage' \in [Conns -> Stages]
        /\ \A d, e \in At({"admitted"})' : d = e
    BY <1>0, <1>6 DEF Leave
  <2>2. sessions' \in [Addrs -> Conns \cup {None}]
    BY <1>0, <1>6, RegistryAssumption DEF Leave, DeleteEntry
  <2> QED
    BY <1>0, <1>6, <2>1, <2>2 DEF Leave
<1>7. CASE CountAgain(c)
  BY <1>0, <1>7 DEF CountAgain
<1> QED
  BY <1>1, <1>2, <1>3, <1>4, <1>5, <1>6, <1>7

(* No step changes which entries lead to running sessions, except the      *)
(* two that write the map: Publish, which enters one, and Leave, which     *)
(* takes out whatever its address has.                                     *)
LEMMA MapStep ==
  RInv /\ RegistryNext => EntryIsRunning' /\ SessionReachable' /\ CrossingKnown'
<1> SUFFICES ASSUME RInv, NEW c \in Conns,
                    \/ Dial(c)
                    \/ Drop(c)
                    \/ Refuse(c)
                    \/ Admit(c)
                    \/ Publish(c)
                    \/ Leave(c)
                    \/ CountAgain(c)
             PROVE  EntryIsRunning' /\ SessionReachable' /\ CrossingKnown'
  BY DEF RegistryNext
<1>0. /\ RegistryTypeOK /\ stage \in [Conns -> Stages]
      /\ sessions \in [Addrs -> Conns \cup {None}]
      /\ EntryIsRunning /\ SessionReachable /\ CrossingKnown
  BY DEF RInv, RegistryTypeOK
<1> USE DEF EntryIsRunning, SessionReachable, CrossingKnown, At, Stages
<1>1. ASSUME UNCHANGED <<sessions, crossed>>, NEW x \in Stages, x # "running",
             stage[c] # "running", stage' = [stage EXCEPT ![c] = x]
      PROVE  EntryIsRunning' /\ SessionReachable' /\ CrossingKnown'
  <2>1. \A d \in Conns : stage'[d] = "running" <=> stage[d] = "running"
    BY <1>0, <1>1
  <2> QED
    BY <1>0, <1>1, <2>1
<1>2. CASE Dial(c)
  BY <1>1, <1>2 DEF Dial
<1>3. CASE Drop(c)
  BY <1>0, <1>3 DEF Drop
<1>4. CASE Refuse(c)
  BY <1>1, <1>4 DEF Refuse, Accepting
<1>5. CASE Admit(c)
  BY <1>1, <1>5 DEF Admit, Accepting
<1>6. CASE Publish(c)
  <2>1. \A d \in Conns : stage'[d] = "running" <=> stage[d] = "running" \/ d = c
    BY <1>0, <1>6 DEF Publish
  <2>2. \A a \in Addrs : sessions'[a] = IF a = AddrOf[c] THEN c ELSE sessions[a]
    BY <1>0, <1>6, RegistryAssumption DEF Publish
  <2>3. /\ stage[c] = "admitted"
        /\ crossed' = IF SameAddress(c) = {} THEN crossed
                      ELSE crossed \cup SameAddress(c) \cup {c}
    BY <1>6 DEF Publish
  <2>4. EntryIsRunning'
    BY <1>0, <2>1, <2>2, RegistryAssumption
  <2>5. CrossingKnown'
    BY <1>0, <2>1, <2>3 DEF SameAddress
  <2>6. SessionReachable'
    BY <1>0, <2>1, <2>2, <2>3, RegistryAssumption DEF SameAddress
  <2> QED
    BY <2>4, <2>5, <2>6
<1>7. CASE Leave(c)
  <2>1. \A d \in Conns : stage'[d] = "running" <=> stage[d] = "running" /\ d # c
    BY <1>0, <1>7 DEF Leave
  <2>2. \A a \in Addrs : sessions'[a] = IF a = AddrOf[c] THEN None ELSE sessions[a]
    BY <1>0, <1>7, RegistryAssumption DEF Leave, DeleteEntry
  <2>3. stage[c] = "running" /\ crossed' = crossed
    BY <1>7 DEF Leave
  <2>4. EntryIsRunning'
    BY <1>0, <2>1, <2>2, RegistryAssumption
  <2>5. CrossingKnown'
    BY <1>0, <2>1, <2>3
  <2>6. SessionReachable'
    BY <1>0, <2>1, <2>2, <2>3, RegistryAssumption
  <2> QED
    BY <2>4, <2>5, <2>6
<1>8. CASE CountAgain(c)
  BY <1>1, <1>8 DEF CountAgain
<1> QED
  BY <1>2, <1>3, <1>4, <1>5, <1>6, <1>7, <1>8
(* Admit adds one, if there was room; Leave and CountAgain each take one   *)
(* off; no other step moves a connection between stages of other weight.   *)
LEMMA CountKept == RInv /\ RegistryNext => CountExact' /\ activeClients' <= MaxClients
<1> SUFFICES ASSUME RInv, NEW c \in Conns,
                    \/ Dial(c)
                    \/ Drop(c)
                    \/ Refuse(c)
                    \/ Admit(c)
                    \/ Publish(c)
                    \/ Leave(c)
                    \/ CountAgain(c)
             PROVE  CountExact' /\ activeClients' <= MaxClients
  BY DEF RegistryNext
<1>0. activeClients \in Int /\ activeClients <= MaxClients /\ MaxClients \in Nat
  BY RegistryAssumption DEF RInv, RegistryTypeOK
<1>1. CASE Dial(c)
  <2>1. /\ "queued" \in Stages /\ stage' = [stage EXCEPT ![c] = "queued"]
        /\ activeClients' = activeClients + Weight("queued") - Weight(stage[c])
    BY <1>0, <1>1 DEF Dial, Weight, Stages
  <2>2. activeClients' <= MaxClients
    BY <1>0, <1>1 DEF Dial
  <2> QED
    BY <2>1, <2>2, CountStep
<1>2. CASE Drop(c)
  BY <1>0, <1>2 DEF Drop, RInv, CountExact, Live, Departed, At
<1>3. CASE Refuse(c)
  <2>1. /\ "refused" \in Stages /\ stage' = [stage EXCEPT ![c] = "refused"]
        /\ activeClients' = activeClients + Weight("refused") - Weight(stage[c])
    BY <1>0, <1>3 DEF Refuse, Accepting, Weight, Stages
  <2>2. activeClients' <= MaxClients
    BY <1>0, <1>3 DEF Refuse, Accepting
  <2> QED
    BY <2>1, <2>2, CountStep
<1>4. CASE Admit(c)
  <2>1. /\ "admitted" \in Stages /\ stage' = [stage EXCEPT ![c] = "admitted"]
        /\ activeClients' = activeClients + Weight("admitted") - Weight(stage[c])
    BY <1>0, <1>4 DEF Admit, Accepting, Weight, Stages
  <2>2. activeClients' <= MaxClients
    BY <1>0, <1>4 DEF Admit, Accepting, CanAccept
  <2> QED
    BY <2>1, <2>2, CountStep
<1>5. CASE Publish(c)
  <2>1. /\ "running" \in Stages /\ stage' = [stage EXCEPT ![c] = "running"]
        /\ activeClients' = activeClients + Weight("running") - Weight(stage[c])
    BY <1>0, <1>5 DEF Publish, Weight, Stages
  <2>2. activeClients' <= MaxClients
    BY <1>0, <1>5 DEF Publish
  <2> QED
    BY <2>1, <2>2, CountStep
<1>6. CASE Leave(c)
  <2>1. /\ "leaving" \in Stages /\ stage' = [stage EXCEPT ![c] = "leaving"]
        /\ activeClients' = activeClients + Weight("leaving") - Weight(stage[c])
    BY <1>0, <1>6 DEF Leave, Weight, Stages
  <2>2. activeClients' <= MaxClients
    BY <1>0, <1>6 DEF Leave
  <2> QED
    BY <2>1, <2>2, CountStep
<1>7. CASE CountAgain(c)
  <2>1. /\ "left" \in Stages /\ stage' = [stage EXCEPT ![c] = "left"]
        /\ activeClients' = activeClients + Weight("left") - Weight(stage[c])
    BY <1>0, <1>7 DEF CountAgain, Weight, Stages
  <2>2. activeClients' <= MaxClients
    BY <1>0, <1>7 DEF CountAgain
  <2> QED
    BY <2>1, <2>2, CountStep
<1> QED
  BY <1>1, <1>2, <1>3, <1>4, <1>5, <1>6, <1>7

(* A step that changes nothing keeps everything. *)
LEMMA StutterStep == RInv /\ UNCHANGED registryVars => RInv'
BY DEF registryVars, RInv, RegistryTypeOK, EntryIsRunning, SessionReachable,
       CrossingKnown, CountExact, Live, Departed, At

(* The invariant of the accept loop and the sessions' goroutines. *)
THEOREM RegistryInvariance == RegistrySpec => []RInv
<1>1. RInv /\ [RegistryNext]_registryVars => RInv'
  BY TypeStep, MapStep, CountKept, StutterStep DEF RInv
<1> QED
  BY <1>1, InitRInv, PTL DEF RegistrySpec

(* Every reachable state of the registry is well typed. *)
THEOREM RegistryTypeCorrect == RegistrySpec => []RegistryTypeOK
<1>1. RInv => RegistryTypeOK
  BY DEF RInv
<1> QED
  BY <1>1, RegistryInvariance, PTL

(* RemoveSession leaves no lost connection behind: an entry of the map is  *)
(* a session whose Run goroutine is there, under its own address.          *)
THEOREM ListedIsRunning == RegistrySpec => []EntryIsRunning
<1>1. RInv => EntryIsRunning
  BY DEF RInv
<1> QED
  BY <1>1, RegistryInvariance, PTL

(* RemoveSession takes out no session but its own, except among sessions   *)
(* that overlapped with another of the same address.                       *)
THEOREM RunningIsReachable == RegistrySpec => []SessionReachable
<1>1. RInv => SessionReachable
  BY DEF RInv
<1> QED
  BY <1>1, RegistryInvariance, PTL

(* The price of subtracting a departure twice: one client over the limit   *)
(* for each that left, and never more.                                     *)
THEOREM OvershootIsBounded == RegistrySpec => []OvershootBounded
<1>1. RInv => OvershootBounded
  BY AtFinite, RegistryAssumption
  DEF RInv, RegistryTypeOK, CountExact, OvershootBounded, Live, Departed
<1> QED
  BY <1>1, RegistryInvariance, PTL

(* The reading active_clients is exact in its own way: it is off by one    *)
(* for each client that has left, for good.                                *)
THEOREM CountDrifts == RegistrySpec => []CountExact
<1>1. RInv => CountExact
  BY DEF RInv
<1> QED
  BY <1>1, RegistryInvariance, PTL

(* Of sessions no two of which ever had one address none has overlapped.   *)
NoneCrossed == crossed = {}

(* Every session that runs is the one its address leads to.                *)
AllReachable == \A c \in At({"running"}) : sessions[AddrOf[c]] = c

(* If no two connections come from one address, every session that runs    *)
(* can be found by the senders.                                            *)
THEOREM ReachableIfApart ==
  ASSUME \A c, d \in Conns : AddrOf[c] = AddrOf[d] => c = d
  PROVE  RegistrySpec => []AllReachable
<1>1. RegistryInit => NoneCrossed
  BY DEF RegistryInit, NoneCrossed
<1>2. NoneCrossed /\ RInv /\ [RegistryNext]_registryVars => NoneCrossed'
  <2> SUFFICES ASSUME NoneCrossed, RInv, [RegistryNext]_registryVars PROVE NoneCrossed'
    OBVIOUS
  <2>1. ASSUME NEW c \in Conns, Publish(c) PROVE NoneCrossed'
    BY <2>1 DEF Publish, SameAddress, At, NoneCrossed
  <2> QED
    BY <2>1 DEF RegistryNext, Dial, Drop, Refuse, Admit, Leave, CountAgain, registryVars,
                NoneCrossed
<1>3. NoneCrossed /\ RInv => AllReachable
  BY DEF RInv, SessionReachable, NoneCrossed, AllReachable
<1> QED
  BY <1>1, <1>2, <1>3, RegistryInvariance, PTL DEF RegistrySpec

(* CanAccept refuses a connection only if MaxClients of them are live.     *)
THEOREM RefusalIsJustified == RegistrySpec => NoFalseRefusal
<1> DEFINE Justified ==
      \A c \in Conns :
        stage[c] = "queued" /\ stage'[c] = "refused" => Cardinality(Live) >= MaxClients
<1>1. RInv /\ [RegistryNext]_registryVars => Justified
  <2> SUFFICES ASSUME RInv, [RegistryNext]_registryVars, NEW c \in Conns,
                      stage[c] = "queued", stage'[c] = "refused"
               PROVE  Cardinality(Live) >= MaxClients
    OBVIOUS
  <2>1. PICK d \in Conns : \/ Dial(d) \/ Drop(d) \/ Refuse(d) \/ Admit(d)
                           \/ Publish(d) \/ Leave(d) \/ CountAgain(d)
    BY DEF RegistryNext, registryVars
  <2>2. ~CanAccept
    BY <2>1 DEF RInv, RegistryTypeOK, Dial, Drop, Refuse, Admit, Publish, Leave, CountAgain
  <2> QED
    BY <2>2, AtFinite, RegistryAssumption
    DEF CanAccept, RInv, RegistryTypeOK, CountExact, Live, Departed
<1> QED
  BY <1>1, RegistryInvariance, PTL DEF RegistrySpec, NoFalseRefusal
=============================================================================
