------------------------- MODULE RegistrationProofs -------------------------
(***************************************************************************)
(* Proofs about Registration, for every set of requests that follow the    *)
(* grammar of Statement: projections, sources and conditions of any words  *)
(* and any length.  What the program makes of a text is decided by where   *)
(* its searches stop, so the proof says first where that is (Least,        *)
(* Finds), then what is cut out there, then what the plan holds.           *)
(***************************************************************************)
EXTENDS Registration, SequenceTheorems, FiniteSetTheorems, WellFoundedInduction, TLAPS

Below == OpToRel(<, Nat)

LEMMA BelowIs == Below = {p \in Nat \X Nat : p[1] < p[2]}
BY DEF Below, OpToRel

LEMMA BelowFounded == IsWellFoundedOn(Below, Nat)
BY NatLessThanWellFounded, Zenon DEF Below

(* A set of numbers has a least one, and Min finds it. *)
LEMMA MinLeast ==
  ASSUME NEW S, S \subseteq Nat, S # {}
  PROVE  Min(S) \in S /\ \A y \in S : Min(S) <= y
<1>1. PICK x \in S : \A y \in S : ~(<<y, x>> \in Below)
  BY BelowFounded, WFMin
<1>2. \A y \in S : y \in Nat /\ x \in Nat /\ ~(y < x)
  BY <1>1, BelowIs
<1>3. \A y \in S : x <= y
  BY <1>2
<1> QED
  BY <1>3 DEF Min

LEMMA MinIs ==
  ASSUME NEW S, S \subseteq Nat, NEW m \in S, \A y \in S : m <= y
  PROVE  Min(S) = m
<1>1. Min(S) \in Nat /\ m \in Nat /\ Min(S) <= m /\ m <= Min(S)
  BY MinLeast
<1> QED
  BY <1>1
-----------------------------------------------------------------------------
(* Places counted from one and from another place. *)
LEMMA Room ==
  ASSUME NEW f \in Nat, NEW n \in Nat, 0 < f, f < n
  PROVE  f \in 1..(n - 1) /\ f \in 1..n /\ f + 1 \in 1..n /\ (f + 1) + 1 = f + 2
OBVIOUS

LEMMA Shift ==
  ASSUME NEW m \in Nat, NEW h \in Nat, NEW n \in Nat, h <= n, NEW j \in Nat, m < j, j <= h
  PROVE  j - m \in 1..(n - m) /\ m + (j - m) = j
OBVIOUS

LEMMA Back ==
  ASSUME NEW m \in Nat, NEW n \in Nat, NEW k \in 1..(n - m)
  PROVE  m + k \in 1..n /\ m + k \in Nat /\ m < m + k /\ m + k <= n
OBVIOUS

Mark == [gap : Gaps, word : STRING]

LEMMA TextIs ==
  ASSUME NEW t \in Texts
  PROVE  /\ t \in Seq(Mark) /\ Len(t) \in Nat /\ DOMAIN t = 1..Len(t)
         /\ \A i \in 1..Len(t) : t[i] \in Mark /\ t[i].gap \in Gaps /\ t[i].word \in STRING
<1>1. t \in Seq(Mark)
  BY DEF Texts, Mark
<1>2. Len(t) \in Nat /\ DOMAIN t = 1..Len(t)
  BY <1>1, LenProperties
<1>3. \A i \in 1..Len(t) : t[i] \in Mark
  BY <1>1, ElementOfSeq
<1> QED
  BY <1>1, <1>2, <1>3 DEF Mark

(* A piece of a text is a text. *)
LEMMA Piece ==
  ASSUME NEW t \in Texts, NEW i \in Nat \ {0}, NEW j \in Int, j <= Len(t)
  PROVE  /\ SubSeq(t, i, j) \in Texts
         /\ Len(SubSeq(t, i, j)) = IF i <= j THEN j - i + 1 ELSE 0
         /\ DOMAIN SubSeq(t, i, j) = 1..(j - i + 1)
         /\ \A k \in 1..(j - i + 1) : SubSeq(t, i, j)[k] = t[i + k - 1]
<1>1. \A k \in i..j : t[k] \in Mark
  BY TextIs
<1>2. /\ SubSeq(t, i, j) \in Seq(Mark)
      /\ Len(SubSeq(t, i, j)) = IF i <= j THEN j - i + 1 ELSE 0
      /\ \A k \in 1..(j - i + 1) : SubSeq(t, i, j)[k] = t[i + k - 1]
  BY <1>1, SubSeqProperties
<1>3. DOMAIN SubSeq(t, i, j) = 1..Len(SubSeq(t, i, j))
  BY <1>2, LenProperties
<1> QED
  BY <1>2, <1>3 DEF Texts, Mark

LEMMA Prefix ==
  ASSUME NEW t \in Texts, NEW j \in Nat, j <= Len(t)
  PROVE  /\ SubSeq(t, 1, j) \in Texts /\ Len(SubSeq(t, 1, j)) = j
         /\ DOMAIN SubSeq(t, 1, j) = 1..j
         /\ \A k \in 1..j : SubSeq(t, 1, j)[k] = t[k] /\ k \in 1..Len(t)
<1>1. 1 \in Nat \ {0} /\ j \in Int /\ j - 1 + 1 = j /\ (j < 1 => j = 0)
  OBVIOUS
<1>2. \A k \in 1..j : 1 + k - 1 = k /\ k \in 1..Len(t)
  BY TextIs
<1>3. /\ SubSeq(t, 1, j) \in Texts
      /\ Len(SubSeq(t, 1, j)) = IF 1 <= j THEN j - 1 + 1 ELSE 0
      /\ DOMAIN SubSeq(t, 1, j) = 1..(j - 1 + 1)
      /\ \A k \in 1..(j - 1 + 1) : SubSeq(t, 1, j)[k] = t[1 + k - 1]
  BY <1>1, Piece
<1> QED
  BY <1>1, <1>2, <1>3

(* In capitals, a text says FROM where it did in either case. *)
LEMMA UpperIs ==
  ASSUME NEW t \in Texts
  PROVE  /\ Len(Upper(t)) = Len(t)
         /\ \A i \in 1..Len(t) :
              /\ Upper(t)[i].gap = t[i].gap
              /\ Upper(t)[i].word = IF t[i].word = "from" THEN "FROM" ELSE t[i].word
<1> DEFINE S == {Upper(t)[i] : i \in 1..Len(t)}
<1>1. Upper(t) = [i \in 1..Len(t) |-> Upper(t)[i]]
  BY TextIs DEF Upper
<1>2. Upper(t) \in Seq(S)
  BY <1>1, TextIs, IsASeq
<1>3. DOMAIN Upper(t) = 1..Len(t) /\ DOMAIN Upper(t) = 1..Len(Upper(t)) /\ Len(Upper(t)) \in Nat
  BY <1>1, <1>2, LenProperties
<1>4. Len(Upper(t)) = Len(t)
  BY <1>3, TextIs
<1>5. ASSUME NEW i \in 1..Len(t)
      PROVE  /\ Upper(t)[i].gap = t[i].gap
             /\ Upper(t)[i].word = IF t[i].word = "from" THEN "FROM" ELSE t[i].word
  BY TextIs DEF Upper
<1> QED
  BY <1>4, <1>5

LEMMA FindsIs ==
  ASSUME NEW t \in Texts, NEW w, NEW gaps
  PROVE  /\ Finds(t, w, gaps) \subseteq Nat
         /\ \A i : i \in Finds(t, w, gaps) <=>
              /\ i \in 1..(Len(t) - 1)
              /\ t[i].word = w /\ t[i].gap \in gaps /\ t[i + 1].gap \in gaps
BY TextIs DEF Finds

LEMMA FromsIs ==
  ASSUME NEW t \in Texts
  PROVE  /\ Froms(t) \subseteq Nat
         /\ \A i : i \in Froms(t) <=>
              /\ i \in 1..(Len(t) - 1) /\ SaysFrom(t, i)
              /\ t[i].gap \in AnyGap /\ t[i + 1].gap \in AnyGap
<1>1. ASSUME NEW i
      PROVE  i \in Froms(t) <=>
               /\ i \in 1..(Len(t) - 1) /\ SaysFrom(t, i)
               /\ t[i].gap \in AnyGap /\ t[i + 1].gap \in AnyGap
  <2>1. i \in Froms(t) <=>
          /\ i \in 1..(Len(t) - 1)
          /\ Upper(t)[i].word = "FROM" /\ Upper(t)[i].gap \in AnyGap
          /\ Upper(t)[i + 1].gap \in AnyGap
    BY UpperIs DEF Froms, Finds
  <2>2. i \in 1..(Len(t) - 1) => i \in 1..Len(t) /\ i + 1 \in 1..Len(t)
    BY TextIs
  <2> QED
    BY <2>1, <2>2, UpperIs DEF SaysFrom
<1> QED
  BY <1>1, TextIs
-----------------------------------------------------------------------------
(* What is left of a request's text when it has been read: all of it, or   *)
(* what stands in front of WITH CURSOR and FROM NOW.                       *)
Last(t)    == t[Len(t)].word
KeptLen(r) == IF r.front = "http" \/ Last(r.text) = "BEGINNING"
              THEN Len(r.text) ELSE OrderEnd(r.text)
Kept(r)    == SubSeq(r.text, 1, KeptLen(r))
HintOf(r)  == IF r.front = "http" THEN r.hint
              ELSE IF Last(r.text) = "BEGINNING" THEN NoHint ELSE Given(r)
ModeOf(r)  == IF (r.front = "http" /\ r.mode = "NOW") \/ SaysNow(r.text)
              THEN "NOW" ELSE "BEGINNING"

(* Where the parts of a request are. *)
LEMMA Places ==
  ASSUME NEW r, Grammatical(r)
  PROVE  /\ r.text \in Texts
         /\ r.at.from \in Nat /\ r.at.source \in Nat /\ r.at.where \in Nat
         /\ 2 < r.at.from /\ r.at.from < r.at.source /\ r.at.source <= r.at.where
         /\ r.at.where <= OrderEnd(r.text)
         /\ Len(r.text) \in Nat /\ OrderEnd(r.text) \in Nat /\ Body(r.text) \in Nat
         /\ Body(r.text) = IF HasStart(r.text) THEN Len(r.text) - 2 ELSE Len(r.text)
         /\ OrderEnd(r.text) = IF HasCursor(r.text) THEN Body(r.text) - 2 ELSE Body(r.text)
         /\ OrderEnd(r.text) <= Body(r.text) /\ Body(r.text) <= Len(r.text)
         /\ KeptLen(r) \in r.at.where..Len(r.text)
<1>1. Ordering(r)
  BY DEF Grammatical
<1>2. /\ r.text \in Texts
      /\ r.at.from \in Nat /\ r.at.source \in Nat /\ r.at.where \in Nat
      /\ 2 < r.at.from /\ r.at.from < r.at.source /\ r.at.source <= r.at.where
      /\ r.at.where <= OrderEnd(r.text)
  BY <1>1 DEF Ordering
<1>3. Len(r.text) \in Nat
  BY <1>2, TextIs
<1>4. Body(r.text) = IF HasStart(r.text) THEN Len(r.text) - 2 ELSE Len(r.text)
  BY DEF Body
<1>5. OrderEnd(r.text) = IF HasCursor(r.text) THEN Body(r.text) - 2 ELSE Body(r.text)
  BY DEF OrderEnd
<1>6. /\ OrderEnd(r.text) \in Int /\ Body(r.text) \in Int
      /\ OrderEnd(r.text) <= Body(r.text) /\ Body(r.text) <= Len(r.text)
  BY <1>3, <1>4, <1>5
<1>7. OrderEnd(r.text) \in Nat /\ Body(r.text) \in Nat
  BY <1>2, <1>6
<1>8. KeptLen(r) \in r.at.where..Len(r.text)
  BY <1>2, <1>3, <1>6 DEF KeptLen
<1> QED
  BY <1>2, <1>3, <1>4, <1>5, <1>6, <1>7, <1>8

(* What is kept has every word where the text has it. *)
LEMMA KeptIs ==
  ASSUME NEW r, Grammatical(r)
  PROVE  /\ Kept(r) \in Texts
         /\ Len(Kept(r)) = KeptLen(r)
         /\ DOMAIN Kept(r) = 1..KeptLen(r)
         /\ \A i \in 1..KeptLen(r) : Kept(r)[i] = r.text[i] /\ i \in 1..Len(r.text)
<1>1. r.text \in Texts /\ KeptLen(r) \in Nat /\ KeptLen(r) <= Len(r.text)
  BY Places
<1> QED
  BY <1>1, Prefix DEF Kept

LEMMA ClosingIs ==
  ASSUME NEW r, Grammatical(r)
  PROVE  /\ r.at.where < OrderEnd(r.text) =>
              r.text[r.at.where + 1].word \in {"ORDER BY", "GROUP BY"}
         /\ HasCursor(r.text) =>
              r.front = "repl" /\ r.text[Body(r.text)].word \notin Unsupported
         /\ HasStart(r.text) => SaysFrom(r.text, Len(r.text) - 1)
         /\ \A i \in 1..Len(r.text) :
              /\ r.text[i].word = "WITH CURSOR" => i = Body(r.text) - 1
              /\ r.at.where < i => r.text[i].word # "SELECT"
<1>1. DOMAIN r.text = 1..Len(r.text)
  BY Places, TextIs
<1>2. Closing(r)
  BY DEF Grammatical
<1> QED
  BY <1>1, <1>2 DEF Closing

(* What is dropped is a cursor clause and FROM NOW, which nothing forbids. *)
LEMMA Dropped ==
  ASSUME NEW r, Grammatical(r), NEW i \in (KeptLen(r) + 1)..Len(r.text)
  PROVE  r.text[i].word \notin Unsupported
<1> DEFINE t == r.text
<1>1. /\ KeptLen(r) = OrderEnd(t) /\ Last(t) # "BEGINNING"
      /\ OrderEnd(t) \in Nat /\ Body(t) \in Nat /\ Len(t) \in Nat
      /\ Body(t) = IF HasStart(t) THEN Len(t) - 2 ELSE Len(t)
      /\ OrderEnd(t) = IF HasCursor(t) THEN Body(t) - 2 ELSE Body(t)
  BY Places DEF KeptLen
<1>2. \/ HasCursor(t) /\ i = Body(t) - 1
      \/ HasCursor(t) /\ i = Body(t)
      \/ HasStart(t) /\ i = Len(t) - 1
      \/ HasStart(t) /\ i = Len(t)
  BY <1>1
<1> QED
  BY <1>1, <1>2, ClosingIs DEF HasCursor, HasStart, SaysFrom, Unsupported, Last
-----------------------------------------------------------------------------
(* The two front ends keep just that. *)
LEMMA HttpKeeps ==
  ASSUME NEW r, Grammatical(r), r.front = "http"
  PROVE  r.text = Kept(r)
<1>1. KeptLen(r) = Len(r.text)
  BY DEF KeptLen
<1>2. /\ r.text \in Seq(Mark) /\ Kept(r) \in Seq(Mark) /\ Len(Kept(r)) = Len(r.text)
      /\ \A i \in 1..Len(r.text) : r.text[i] = Kept(r)[i]
  BY <1>1, Places, KeptIs, TextIs
<1> QED
  BY <1>2, SeqEqual

LEMMA ReplKeeps ==
  ASSUME NEW r, Grammatical(r), r.front = "repl"
  PROVE  LET t == WithoutNow(r.text)
         IN  /\ NamesCursor(t) => Shorter(t, 2) = Kept(r) /\ t[Len(t)].word = HintOf(r)
             /\ ~NamesCursor(t) => t = Kept(r) /\ HintOf(r) = NoHint
<1> SUFFICES ASSUME NEW x, x = r.text, NEW n, n = Len(x), NEW t, t = WithoutNow(x)
             PROVE  /\ NamesCursor(t) => Shorter(t, 2) = Kept(r) /\ t[Len(t)].word = HintOf(r)
                    /\ ~NamesCursor(t) => t = Kept(r) /\ HintOf(r) = NoHint
  OBVIOUS
<1>a. /\ x \in Texts /\ n \in Nat /\ 3 < n /\ x \in Seq(Mark) /\ 3 < OrderEnd(x)
      /\ Body(x) \in Nat /\ OrderEnd(x) \in Nat
  <2>1. /\ x \in Texts /\ n \in Nat /\ OrderEnd(x) \in Nat /\ Body(x) \in Nat
        /\ 3 < OrderEnd(x) /\ OrderEnd(x) <= n
    BY Places
  <2> QED
    BY <2>1, TextIs
<1>b. /\ \A i \in 1..n : x[i].word = "WITH CURSOR" => i = Body(x) - 1
      /\ HasStart(x) => SaysFrom(x, n - 1)
  BY ClosingIs
<1>c. /\ Body(x) = IF HasStart(x) THEN n - 2 ELSE n
      /\ OrderEnd(x) = IF HasCursor(x) THEN Body(x) - 2 ELSE Body(x)
  BY Places
<1>1. EndsWith(x, <<"FROM", "NOW">>) <=> Last(x) = "NOW"
  <2>1. ASSUME NEW ws, ws = <<"FROM", "NOW">>
        PROVE  EndsWith(x, ws) <=>
                 Upper(x)[n - 1].word = "FROM" /\ Upper(x)[n].word = "NOW"
    <3>1. Len(ws) = 2 /\ DOMAIN ws = 1..2 /\ ws[1] = "FROM" /\ ws[2] = "NOW"
      BY <2>1
    <3>2. n - 2 + 1 = n - 1 /\ n - 2 + 2 = n /\ n > 2 /\ 1..2 = {1, 2}
      BY <1>a
    <3> QED
      BY <3>1, <3>2 DEF EndsWith
  <2>2. EndsWith(x, <<"FROM", "NOW">>) <=>
          Upper(x)[n - 1].word = "FROM" /\ Upper(x)[n].word = "NOW"
    BY <2>1
  <2>3. n - 1 \in 1..n /\ n \in 1..n
    BY <1>a
  <2>4. Upper(x)[n].word = "NOW" <=> Last(x) = "NOW"
    BY <1>a, <1>b, <1>c, <2>3, UpperIs DEF Last
  <2>5. Last(x) = "NOW" => Upper(x)[n - 1].word = "FROM"
    BY <1>a, <1>b, <1>c, <2>3, UpperIs DEF Last, HasStart, SaysFrom
  <2> QED
    BY <1>a, <1>b, <1>c, <2>2, <2>4, <2>5
<1>2. /\ t = SubSeq(x, 1, IF Last(x) = "NOW" THEN n - 2 ELSE n)
      /\ Len(t) = IF Last(x) = "NOW" THEN n - 2 ELSE n
      /\ \A i \in 1..Len(t) : t[i] = x[i] /\ i \in 1..n
      /\ t \in Texts
  <2>1. CASE Last(x) = "NOW"
    <3>1. t = SubSeq(x, 1, n - 2)
      BY <1>1, <2>1 DEF WithoutNow, Shorter
    <3>2. n - 2 \in Nat /\ n - 2 <= Len(x)
      BY <1>a
    <3> QED
      BY <1>a, <2>1, <3>1, <3>2, Prefix
  <2>2. CASE Last(x) # "NOW"
    <3>1. t = x
      BY <1>1, <2>2 DEF WithoutNow
    <3>2. x = SubSeq(x, 1, n)
      BY <1>a, <1>b, <1>c, SubSeqFull
    <3> QED
      BY <1>a, <1>b, <1>c, <2>2, <3>1, <3>2
  <2> QED
    BY <2>1, <2>2
<1>3. CASE Last(x) = "BEGINNING"
  <2>1. t[Len(t) - 1].word # "WITH CURSOR"
    <3>1. SaysFrom(x, n - 1) /\ Len(t) = n /\ n - 1 \in 1..n
      <4>1. HasStart(x) /\ Len(t) = n
        BY <1>2, <1>3 DEF HasStart, Last
      <4>2. n - 1 \in 1..n
        BY <1>a
      <4> QED
        BY <1>b, <4>1, <4>2
    <3>2. t[n - 1] = x[n - 1]
      BY <1>2, <3>1
    <3> QED
      BY <3>1, <3>2 DEF SaysFrom
  <2>2. ~NamesCursor(t) /\ KeptLen(r) = n /\ HintOf(r) = NoHint
    BY <1>3, <2>1 DEF NamesCursor, KeptLen, HintOf
  <2> QED
    BY <1>2, <1>3, <2>2 DEF Kept
<1>4. CASE Last(x) # "BEGINNING"
  <2>1. Len(t) = Body(x) /\ KeptLen(r) = OrderEnd(x) /\ HintOf(r) = Given(r)
    BY <1>a, <1>b, <1>c, <1>2, <1>4 DEF KeptLen, HasStart, Last, HintOf
  <2>2. Body(x) \in 1..n /\ Body(x) - 1 \in 1..n /\ 2 < Body(x)
    <3>1. OrderEnd(x) <= Body(x) /\ Body(x) <= n
      BY <1>a, <1>c
    <3> QED
      BY <1>a, <3>1
  <2>3. NamesCursor(t) <=> HasCursor(x)
    <3>1. Len(t) > 2 /\ t[Len(t) - 1] = x[Body(x) - 1]
      BY <1>2, <2>1, <2>2
    <3> QED
      BY <3>1 DEF NamesCursor, HasCursor
  <2>4. t = SubSeq(x, 1, Body(x))
    BY <1>a, <1>b, <1>c, <1>2, <1>4 DEF HasStart, Last
  <2>5. CASE HasCursor(x)
    <3>1. Shorter(t, 2) \in Texts /\ Kept(r) \in Texts /\ Len(Shorter(t, 2)) = KeptLen(r)
          /\ \A k \in 1..KeptLen(r) : Shorter(t, 2)[k] = t[k] /\ k \in 1..Len(t)
      <4>1. KeptLen(r) = Len(t) - 2 /\ Len(t) \in Nat /\ 2 < Len(t)
        BY <1>a, <1>c, <2>1, <2>2, <2>5
      <4>2. Shorter(t, 2) = SubSeq(t, 1, KeptLen(r)) /\ t \in Texts
        BY <1>2, <4>1 DEF Shorter
      <4>3. KeptLen(r) \in Nat /\ KeptLen(r) <= Len(t)
        BY <4>1
      <4>4. /\ Shorter(t, 2) \in Texts /\ Len(Shorter(t, 2)) = KeptLen(r)
            /\ \A k \in 1..KeptLen(r) : Shorter(t, 2)[k] = t[k] /\ k \in 1..Len(t)
        <5>1. ASSUME NEW j, j = KeptLen(r), NEW p, p = SubSeq(t, 1, j)
              PROVE  /\ p \in Texts /\ Len(p) = j
                     /\ \A k \in 1..j : p[k] = t[k] /\ k \in 1..Len(t)
          BY <4>2, <4>3, <5>1, Prefix
        <5> QED
          BY <4>2, <5>1
      <4> QED
        BY <4>4, KeptIs
    <3>2. \A k \in 1..KeptLen(r) : Shorter(t, 2)[k] = Kept(r)[k]
      BY <1>2, <3>1, KeptIs
    <3>3. Shorter(t, 2) = Kept(r)
      BY <3>1, <3>2, KeptIs, TextIs, SeqEqual
    <3>4. t[Len(t)].word = HintOf(r)
      BY <1>2, <2>1, <2>2, <2>5 DEF Given
    <3> QED
      BY <2>3, <2>5, <3>3, <3>4
  <2>6. CASE ~HasCursor(x)
    <3>1. OrderEnd(x) = Body(x) /\ Given(r) = NoHint
      BY <1>a, <1>b, <1>c, <2>6 DEF Given
    <3> QED
      BY <2>1, <2>3, <2>4, <2>6, <3>1 DEF Kept
  <2> QED
    BY <2>5, <2>6
<1> QED
  BY <1>3, <1>4
-----------------------------------------------------------------------------
(* How far a request is says what has been found out about it. *)
PlanIs(p, t) ==
  /\ p.table = TableOf(t) /\ p.projection = Projection(t)
  /\ p.cut = Cut(t) /\ p.where = WhereOf(t)

NoCursor(p, t) ==
  p = [ table |-> TableOf(t), projection |-> Projection(t), cut |-> Cut(t),
        where |-> WhereOf(t), cursor |-> "" ]

Parsed == {"parsed"} \cup Compiled

StepInv ==
  /\ request \in Requests
  /\ step # "received" =>
       sql = Kept(request) /\ hint = HintOf(request) /\ mode = ModeOf(request)
  /\ step \in {"received", "read", "valid"} => plan = NoPlan
  /\ step \in {"valid"} \cup Parsed => Allowed(sql)
  /\ step \in Parsed => Parses(sql)
  /\ step = "panicked" => NoRoom(sql)
  /\ step = "parsed" => NoCursor(plan, sql)
  /\ step \in Compiled =>
       /\ PlanIs(plan, sql) /\ plan.cursor = Found
       /\ plan.table \in Tables /\ Found # "" /\ request.schema[Found] \in Ordered
  /\ step = "refused" =>
       ~Allowed(sql) \/ ~Parses(sql) \/ (NoCursor(plan, sql) /\ ~Resolves)
  /\ step = "failing" => plan.cut \/ ~ProjectionWorks \/ ~WhereWorks

LEMMA StepInvInit == Init => StepInv
BY DEF Init, StepInv, Parsed, Compiled

LEMMA StepInvStep == StepInv /\ [Next]_vars => StepInv'
<1> SUFFICES ASSUME StepInv, [Next]_vars PROVE StepInv'
  OBVIOUS
<1> USE DEF Go, Parsed, Compiled
<1>1. CASE ReadHttp
  <2>1. /\ step' = "read" /\ request' = request /\ plan' = plan /\ step = "received"
        /\ sql' = request.text /\ hint' = request.hint /\ request.front = "http"
        /\ mode' = IF request.mode = "NOW" \/ SaysNow(request.text) THEN "NOW" ELSE "BEGINNING"
    BY <1>1 DEF ReadHttp
  <2>2. Grammatical(request) /\ request \in Requests /\ plan = NoPlan
    BY <2>1, RegistrationAssumption DEF StepInv
  <2>3. sql' = Kept(request) /\ hint' = HintOf(request) /\ mode' = ModeOf(request)
    BY <2>1, <2>2, HttpKeeps DEF HintOf, ModeOf
  <2> QED
    BY <2>1, <2>2, <2>3 DEF StepInv
<1>2. CASE ReadRepl
  <2> DEFINE t == WithoutNow(request.text)
  <2>1. /\ step' = "read" /\ request' = request /\ plan' = plan /\ step = "received"
        /\ NamesCursor(t) => sql' = Shorter(t, 2) /\ hint' = t[Len(t)].word
        /\ ~NamesCursor(t) => sql' = t /\ hint' = NoHint
        /\ mode' = (IF SaysNow(request.text) THEN "NOW" ELSE "BEGINNING")
        /\ request.front = "repl"
    BY <1>2 DEF ReadRepl
  <2>2. Grammatical(request) /\ request \in Requests /\ plan = NoPlan
    BY <2>1, RegistrationAssumption DEF StepInv
  <2>3. /\ NamesCursor(t) => Shorter(t, 2) = Kept(request) /\ t[Len(t)].word = HintOf(request)
        /\ ~NamesCursor(t) => t = Kept(request) /\ HintOf(request) = NoHint
    BY <2>1, <2>2, ReplKeeps
  <2> HIDE DEF t
  <2>4. sql' = Kept(request) /\ hint' = HintOf(request) /\ mode' = ModeOf(request)
    BY <2>1, <2>3 DEF ModeOf
  <2> QED
    BY <2>1, <2>2, <2>4 DEF StepInv
<1>3. CASE ValidateSQL
  BY <1>3 DEF ValidateSQL, Refused, StepInv
<1>4. CASE ParseSQL
  <2>1. CASE ~Parses(sql) /\ Refused
    BY <1>4, <2>1 DEF ParseSQL, Refused, StepInv
  <2>3. CASE NoRoom(sql)
    BY <1>4, <2>3 DEF ParseSQL, StepInv
  <2>2. CASE ~NoRoom(sql) /\ Parses(sql) /\ ~Refused
    <3>1. NoCursor(plan', sql)
      BY <1>4, <2>2 DEF ParseSQL, NoCursor
    <3> QED
      BY <1>4, <2>2, <3>1 DEF ParseSQL, StepInv
  <2> QED
    BY <1>4, <2>1, <2>2, <2>3 DEF ParseSQL, Refused
<1>5. CASE Resolve
  <2>1. CASE ~Resolves /\ Refused
    <3>1. Resolves' = Resolves
      BY <2>1 DEF Refused, Resolves, Found
    <3> QED
      BY <1>5, <2>1, <3>1 DEF Resolve, Refused, StepInv
  <2>2. CASE Resolves /\ ~Refused
    <3>1. PlanIs(plan', sql) /\ plan'.cursor = Found /\ plan'.table = plan.table
      <4>1. NoCursor(plan, sql) /\ plan' = [plan EXCEPT !.cursor = Found]
        BY <1>5, <2>2 DEF Resolve, StepInv
      <4> QED
        BY <4>1 DEF NoCursor, PlanIs
    <3>2. Found' = Found
      BY <1>5, <2>2 DEF Resolve, Found
    <3> QED
      BY <1>5, <2>2, <3>1, <3>2 DEF Resolve, Resolves, StepInv
  <2> QED
    BY <1>5, <2>1, <2>2 DEF Resolve, Refused
<1>6. CASE DatabaseFails
  BY <1>6 DEF DatabaseFails, StepInv
<1>7. CASE FirstPoll
  <2>1. /\ UNCHANGED <<request, sql, hint, mode, plan>> /\ Found' = Found
        /\ ProjectionWorks' = ProjectionWorks /\ WhereWorks' = WhereWorks
    BY <1>7 DEF FirstPoll, Found, ProjectionWorks, WhereWorks
  <2>2. PICK listed \in IF plan.cut THEN BOOLEAN ELSE {ProjectionWorks} :
          step = "registered" /\ step' = IF listed /\ WhereWorks THEN "streaming" ELSE "failing"
    BY <1>7 DEF FirstPoll
  <2>3. step' = "failing" => plan.cut \/ ~ProjectionWorks \/ ~WhereWorks
    <3>1. CASE plan.cut
      BY <3>1
    <3>2. CASE ~plan.cut
      <4>1. listed = ProjectionWorks
        BY <3>2, Zenon
      <4> QED
        BY <2>2, <4>1, Zenon
    <3> QED
      BY <3>1, <3>2
  <2>4. step = "registered" /\ step' \in {"streaming", "failing"}
    BY <2>2
  <2> QED
    BY <2>1, <2>3, <2>4 DEF StepInv
<1>8. CASE UNCHANGED vars
  BY <1>8 DEF vars, StepInv, Found, Resolves, ProjectionWorks, WhereWorks
<1> QED
  BY <1>1, <1>2, <1>3, <1>4, <1>5, <1>6, <1>7, <1>8 DEF Next
-----------------------------------------------------------------------------
(* The statement's own FROM is found, and is where the search stops if it  *)
(* is the first.                                                           *)
LEMMA FromFound ==
  ASSUME NEW r, Grammatical(r)
  PROVE  r.at.from \in Froms(Kept(r)) /\ r.at.from \in 1..(KeptLen(r) - 1)
<1>1. /\ r.at.from \in 1..(KeptLen(r) - 1) /\ r.at.from + 1 \in 1..KeptLen(r)
      /\ r.at.from \in 1..KeptLen(r)
  <2>1. r.at.from \in Nat /\ KeptLen(r) \in Nat /\ 0 < r.at.from /\ r.at.from < KeptLen(r)
    BY Places
  <2> QED
    BY <2>1, Room
<1>2. /\ SaysFrom(r.text, r.at.from)
      /\ r.text[r.at.from].gap # "none" /\ r.text[r.at.from + 1].gap # "none"
  BY DEF Grammatical, Ordering
<1>3. /\ Kept(r)[r.at.from] = r.text[r.at.from]
      /\ Kept(r)[r.at.from + 1] = r.text[r.at.from + 1]
      /\ Kept(r) \in Texts /\ Len(Kept(r)) = KeptLen(r)
  BY <1>1, KeptIs
<1>4. /\ SaysFrom(Kept(r), r.at.from)
      /\ Kept(r)[r.at.from].gap \in AnyGap /\ Kept(r)[r.at.from + 1].gap \in AnyGap
  BY <1>1, <1>2, <1>3, TextIs DEF SaysFrom, AnyGap, Gaps
<1> QED
  BY <1>1, <1>3, <1>4, FromsIs

LEMMA FirstIsMin ==
  ASSUME NEW r, Grammatical(r)
  PROVE  /\ Min(Froms(Kept(r))) \in Froms(Kept(r))
         /\ Min(Froms(Kept(r))) \in 1..r.at.from
         /\ First(r, r.at.from) => Min(Froms(Kept(r))) = r.at.from
<1> DEFINE m == Min(Froms(Kept(r)))
<1>1. Froms(Kept(r)) \subseteq Nat /\ r.at.from \in Froms(Kept(r)) /\ r.at.from \in Nat
  BY FromFound, KeptIs, FromsIs, Places
<1>2. m \in Froms(Kept(r)) /\ m <= r.at.from
  BY <1>1, MinLeast
<1> HIDE DEF m
<1>3. m \in 1..(KeptLen(r) - 1) /\ SaysFrom(Kept(r), m)
  BY <1>2, KeptIs, FromsIs
<1>4. m \in 1..r.at.from
  BY <1>1, <1>2, <1>3
<1>5. ASSUME First(r, r.at.from) PROVE m = r.at.from
  <2>1. m \in 1..KeptLen(r)
    BY <1>3, Places
  <2>2. SaysFrom(r.text, m)
    BY <1>3, <2>1, KeptIs DEF SaysFrom
  <2>3. m \notin 1..(r.at.from - 1)
    BY <1>5, <2>2 DEF First
  <2> QED
    BY <1>1, <1>4, <2>3
<1> QED
  BY <1>2, <1>4, <1>5 DEF m

(* What hasSubqueries looks at, as places of the text. *)
LEMMA AfterIs ==
  ASSUME NEW t \in Texts, NEW m \in Nat, m <= Len(t)
  PROVE  /\ After(t, m) \in Texts /\ Len(After(t, m)) = Len(t) - m
         /\ DOMAIN After(t, m) = 1..(Len(t) - m)
         /\ \A k \in 1..(Len(t) - m) : After(t, m)[k] = t[m + k] /\ m + k \in 1..Len(t)
<1>1. ASSUME NEW n, n = Len(t), NEW i, i = m + 1, NEW p, p = SubSeq(t, i, n)
      PROVE  /\ p \in Texts /\ Len(p) = n - m /\ DOMAIN p = 1..(n - m)
             /\ \A k \in 1..(n - m) : p[k] = t[m + k] /\ m + k \in 1..n
  <2>1. n \in Nat /\ m <= n
    BY <1>1, TextIs
  <2>2. i \in Nat \ {0} /\ n \in Int /\ n - i + 1 = n - m /\ (~(i <= n) => n - m = 0)
    BY <1>1, <2>1
  <2>3. \A k \in 1..(n - m) : i + k - 1 = m + k /\ m + k \in 1..n
    BY <1>1, <2>1
  <2>4. /\ p \in Texts /\ Len(p) = IF i <= n THEN n - i + 1 ELSE 0
        /\ DOMAIN p = 1..(n - i + 1) /\ \A k \in 1..(n - i + 1) : p[k] = t[i + k - 1]
    BY <1>1, <2>1, <2>2, Piece
  <2> QED
    BY <2>2, <2>3, <2>4
<1> QED
  BY <1>1 DEF After

LEMMA KeptAfter ==
  ASSUME NEW r, Grammatical(r), NEW m \in Nat, m <= KeptLen(r)
  PROVE  /\ After(Kept(r), m) \in Texts /\ Len(After(Kept(r), m)) = KeptLen(r) - m
         /\ DOMAIN After(Kept(r), m) = 1..(KeptLen(r) - m)
         /\ \A k \in 1..(KeptLen(r) - m) :
              After(Kept(r), m)[k] = r.text[m + k] /\ m + k \in 1..KeptLen(r)
<1>1. Kept(r) \in Texts /\ Len(Kept(r)) = KeptLen(r)
  BY KeptIs
<1>2. ASSUME NEW s, s = Kept(r), NEW n, n = KeptLen(r)
      PROVE  /\ After(s, m) \in Texts /\ Len(After(s, m)) = n - m
             /\ DOMAIN After(s, m) = 1..(n - m)
             /\ \A k \in 1..(n - m) : After(s, m)[k] = s[m + k] /\ m + k \in 1..n
  BY <1>1, <1>2, AfterIs
<1>3. \A j \in 1..KeptLen(r) : Kept(r)[j] = r.text[j]
  BY KeptIs
<1> QED
  BY <1>2, <1>3

LEMMA NoneDeep ==
  ASSUME NEW t, NEW i \in Nat, \A j \in 1..(i - 1) : t[j].word \notin {"(", ")"}
  PROVE  Depth(t, i) = 0
<1>1. {j \in 1..(i - 1) : t[j].word = "("} = {} /\ {j \in 1..(i - 1) : t[j].word = ")"} = {}
  OBVIOUS
<1>2. Cardinality({}) = 0
  BY FS_EmptySet
<1>3. Depth(t, i) = Cardinality({}) - Cardinality({})
  BY <1>1 DEF Depth
<1>4. \A c : c = 0 => c - c = 0
  OBVIOUS
<1> QED
  BY <1>2, <1>3, <1>4
-----------------------------------------------------------------------------
(* A subquery that cannot be missed is not let through. *)
LEMMA BehindFrom ==
  ASSUME NEW r, Grammatical(r), First(r, r.at.from),
         NEW i \in Subqueries(r.text), r.at.from < i,
         \A j \in (r.at.from + 1)..(i - 1) : r.text[j].word \notin {"(", ")"}
  PROVE  HasSubqueries(Kept(r))
<1> DEFINE s == Kept(r)
           f == r.at.from
           a == After(s, f)
           parens == {k \in DOMAIN a : a[k].word = "("}
<1>1. /\ i \in Nat /\ f \in Nat /\ f < i /\ i + 1 \in 1..KeptLen(r) /\ f \in 1..KeptLen(r)
      /\ KeptLen(r) \in Nat
      /\ r.text[i].word = "(" /\ r.text[i + 1].word = "SELECT"
  <2>1. /\ i \in 1..(Len(r.text) - 1) /\ r.text[i].word = "(" /\ r.text[i + 1].word = "SELECT"
    BY DEF Subqueries
  <2>2. /\ Len(r.text) \in Nat /\ r.at.where \in Nat /\ f \in Nat /\ 2 < f
        /\ KeptLen(r) \in r.at.where..Len(r.text) /\ f < r.at.where
    BY Places
  <2>3. i + 1 \in 1..Len(r.text)
    BY <2>1, <2>2
  <2>4. ~(r.at.where < i + 1)
    BY <2>1, <2>3, ClosingIs
  <2>5. i + 1 <= KeptLen(r)
    BY <2>1, <2>2, <2>4
  <2> QED
    BY <2>1, <2>2, <2>5
<1>2. Min(Froms(s)) = f /\ f \in Froms(s)
  BY FirstIsMin, FromFound
<1>3. /\ a \in Texts /\ Len(a) = KeptLen(r) - f /\ DOMAIN a = 1..(KeptLen(r) - f)
      /\ \A k \in 1..(KeptLen(r) - f) : a[k] = r.text[f + k]
  <2>1. r.at.from \in Nat /\ r.at.from <= KeptLen(r)
    BY <1>1
  <2> QED
    BY <2>1, KeptAfter
<1> DEFINE m == i - f
<1>4. m \in 1..(KeptLen(r) - f) /\ m + 1 \in 1..(KeptLen(r) - f) /\ f + m = i /\ f + (m + 1) = i + 1
      /\ m \in Nat
  BY <1>1
<1>5. \A k \in 1..(m - 1) : f + k \in (f + 1)..(i - 1) /\ k \in 1..(KeptLen(r) - f)
  BY <1>1
<1> HIDE DEF s, f, m, a
<1>6. \A k \in 1..(m - 1) : a[k].word \notin {"(", ")"}
  BY <1>3, <1>5 DEF f
<1>7. a[m].word = "(" /\ a[m + 1].word = "SELECT"
  BY <1>1, <1>3, <1>4
<1>8. Min(parens) = m /\ m \in parens
  <2>1. parens \subseteq Nat
    BY <1>3
  <2>2. m \in parens
    BY <1>3, <1>4, <1>7
  <2>3. \A k \in parens : m <= k
    BY <1>3, <1>4, <1>6
  <2> HIDE DEF parens
  <2> QED
    BY <2>1, <2>2, <2>3, MinIs
<1>9. Depth(a, m) = 0
  BY <1>4, <1>6, NoneDeep
<1>10. m < Len(a)
  BY <1>1, <1>3, <1>4
<1>11. Froms(s) # {} /\ m \in parens /\ Depth(a, m) >= 0
  BY <1>2, <1>8, <1>9
<1>12. a = After(s, Min(Froms(s)))
  BY <1>2 DEF a
<1> QED
  BY <1>7, <1>8, <1>10, <1>11, <1>12 DEF HasSubqueries, Froms, s, BeginsWith

(* One that ends the table's name is taken for a table without a name. *)
LEMMA ReachedRefused ==
  ASSUME NEW r, Grammatical(r), Reached(r), Allowed(Kept(r)), Parses(Kept(r))
  PROVE  TableOf(Kept(r)) \notin Tables
<1>0. r.at.from \in Nat /\ KeptLen(r) \in Nat /\ r.at.from < KeptLen(r)
  BY Places
<1>1. ~HasSubqueries(Kept(r))
  BY DEF Allowed
<1>2. PICK i \in 2..(r.at.from - 2) :
        First(r, i) /\ r.text[i].word = "FROM" /\ Between(r, i) /\ r.text[i + 2].gap = "none"
  BY <1>1, BehindFrom DEF Reached
<1>3. /\ i \in 1..(KeptLen(r) - 1) /\ i + 1 < KeptLen(r) /\ KeptLen(r) \in Nat /\ i \in Nat
      /\ i \in 1..KeptLen(r) /\ i + 1 \in 1..KeptLen(r) /\ (i + 1) + 1 \in 1..KeptLen(r)
      /\ (i + 1) + 1 = i + 2
  <2>1. i \in Nat /\ 0 < i /\ i + 1 \in Nat /\ 0 < i + 1 /\ i < KeptLen(r) /\ i + 1 < KeptLen(r)
    BY <1>0
  <2> QED
    BY <1>0, <2>1, Room
<1>4. i \in InPlace(Kept(r))
  <2>1. Kept(r)[i] = r.text[i] /\ Kept(r)[i + 1] = r.text[i + 1]
    BY <1>3, KeptIs
  <2>2. i \in 1..(Len(Kept(r)) - 1) /\ Kept(r) \in Texts
    BY <1>3, KeptIs
  <2> QED
    BY <1>2, <2>1, <2>2, FindsIs DEF InPlace, Between
<1>5. \A j \in InPlace(Kept(r)) : i <= j
  <2>1. ASSUME NEW j \in InPlace(Kept(r)) PROVE i <= j
    <3>1. j \in 1..KeptLen(r) /\ Kept(r)[j].word = "FROM"
      BY <1>3, KeptIs, FindsIs DEF InPlace
    <3>2. SaysFrom(r.text, j)
      BY <3>1, KeptIs DEF SaysFrom
    <3> QED
      BY <1>2, <1>3, <3>1, <3>2 DEF First
  <2> QED
    BY <2>1
<1>6. Min(InPlace(Kept(r))) = i
  <2>1. InPlace(Kept(r)) \subseteq Nat
    BY KeptIs, FindsIs DEF InPlace
  <2> QED
    BY <1>4, <1>5, <2>1, MinIs
<1>7. TableOf(Kept(r)) = ""
  <2>1. i + 1 < Len(Kept(r)) /\ Kept(r)[(i + 1) + 1].gap = "none"
    BY <1>2, <1>3, KeptIs
  <2> QED
    BY <1>6, <2>1 DEF TableOf
<1> QED
  BY <1>7, RegistrationAssumption

LEMMA NoSubquery ==
  ASSUME NEW r, Grammatical(r), HasSubqueries(Kept(r))
  PROVE  Lookalike(r)
<1> SUFFICES ASSUME NEW m, m = Min(Froms(Kept(r))), NEW a, a = After(Kept(r), m),
                    NEW p, p = {i \in DOMAIN a : a[i].word = "("}, NEW n, n = KeptLen(r)
             PROVE  Lookalike(r)
  OBVIOUS
<1>1. m \in 1..n /\ n \in Nat /\ Len(r.text) \in Nat /\ n <= Len(r.text)
  <2>1. m \in 1..r.at.from /\ r.at.from \in 1..(n - 1) /\ n \in Nat
    BY FirstIsMin, FromFound, Places
  <2> QED
    BY <2>1, Places
<1>2. /\ Len(a) = n - m /\ DOMAIN a = 1..(n - m)
      /\ \A k \in 1..(n - m) : a[k] = r.text[m + k]
  BY <1>1, KeptAfter
<1>3. p # {} /\ Min(p) < Len(a) /\ BeginsWith(a[Min(p) + 1].word, "SELECT")
  BY DEF HasSubqueries, Froms
<1>4. Min(p) \in p
  <2>1. p \subseteq 1..(n - m)
    BY <1>2
  <2>2. p \subseteq Nat
    BY <1>1, <2>1
  <2> QED
    BY <2>2, <1>3, MinLeast
<1>5. ASSUME NEW k, k = Min(p) PROVE Lookalike(r)
  <2>1. k \in 1..(n - m) /\ a[k].word = "(" /\ k < n - m
    BY <1>2, <1>3, <1>4, <1>5
  <2>2. k + 1 \in 1..(n - m) /\ m + k \in 1..(Len(r.text) - 1) /\ m + (k + 1) = (m + k) + 1
    BY <1>1, <2>1
  <2>3. r.text[m + k].word = "(" /\ BeginsWith(r.text[(m + k) + 1].word, "SELECT")
    BY <1>2, <1>3, <1>5, <2>1, <2>2
  <2> QED
    BY <2>2, <2>3 DEF Lookalike
<1> QED
  BY <1>5

(* The words that may appear nowhere. *)
LEMMA AllowedWords ==
  ASSUME NEW r, Grammatical(r)
  PROVE  /\ Allowed(Kept(r)) => Constructs(r) \cap Unsupported = {}
         /\ Words(r.text) \cap Unsupported = {} /\ ~Lookalike(r) => Allowed(Kept(r))
<1>1. /\ Forbidden = Unsupported /\ "two tables" \notin Unsupported
      /\ "subquery" \notin Unsupported /\ "aggregate" \notin Unsupported
  BY DEF Forbidden, Unsupported
<1>2. ASSUME Allowed(Kept(r)), NEW i \in DOMAIN r.text PROVE r.text[i].word \notin Unsupported
  <2>1. i \in 1..Len(r.text) /\ KeptLen(r) \in Nat /\ Len(r.text) \in Nat
    BY Places, TextIs
  <2>2. CASE i \in 1..KeptLen(r)
    <3>1. r.text[i].word \in Words(Kept(r))
      BY <2>2, KeptIs DEF Words
    <3> QED
      BY <1>1, <1>2, <3>1 DEF Allowed
  <2>3. CASE i \in (KeptLen(r) + 1)..Len(r.text)
    BY <2>3, Dropped
  <2> QED
    BY <2>1, <2>2, <2>3
<1>3. ASSUME Words(r.text) \cap Unsupported = {}, ~Lookalike(r) PROVE Allowed(Kept(r))
  <2>2. Words(Kept(r)) \subseteq Words(r.text)
    BY KeptIs, Places, TextIs DEF Words
  <2> QED
    BY <1>1, <1>3, <2>2, NoSubquery DEF Allowed
<1>4. Allowed(Kept(r)) => Spoken(r.text) \cap Unsupported = {}
  BY <1>2 DEF Spoken
<1> QED
  BY <1>1, <1>3, <1>4 DEF Constructs

-----------------------------------------------------------------------------
(* A statement without a subquery: its keywords are at their own places.   *)
LEMMA LexicalIs ==
  ASSUME NEW r, Grammatical(r), Subqueries(r.text) = {}
  PROVE  /\ \A i \in 1..Len(r.text) : r.text[i].word = "WHERE" => i = r.at.source + 1
         /\ r.text[r.at.from + 1].word # "("
         /\ \A i \in (r.at.from + 2)..r.at.source :
              r.text[i].gap # "none" \/ r.text[i].word = ","
         /\ First(r, r.at.from) => Depth(Projected(r), r.at.from - 1) = 0
         /\ Condition(Filter(r))
<1>1. DOMAIN r.text = 1..Len(r.text)
  BY Places, TextIs
<1>2. Lexical(r)
  BY DEF Grammatical
<1> QED
  BY <1>1, <1>2 DEF Lexical

LEMMA FirstFrom ==
  ASSUME NEW r, Grammatical(r), ~FromInProjection(r)
  PROVE  First(r, r.at.from)
<1> SUFFICES ASSUME NEW j \in 1..(r.at.from - 1), SaysFrom(r.text, j) PROVE FALSE
  BY DEF First
<1>1. /\ r.at.from \in Nat /\ Len(r.text) \in Nat /\ r.at.from < Len(r.text)
      /\ HasStart(r.text) => r.at.from < Len(r.text) - 1
  <2>1. /\ r.at.from \in Nat /\ Len(r.text) \in Nat /\ r.at.from < OrderEnd(r.text)
        /\ OrderEnd(r.text) \in Nat /\ Body(r.text) \in Nat
        /\ OrderEnd(r.text) <= Body(r.text) /\ Body(r.text) <= Len(r.text)
        /\ HasStart(r.text) => Body(r.text) = Len(r.text) - 2
    <3>1. /\ r.at.from < r.at.source /\ r.at.source <= r.at.where
          /\ r.at.where <= OrderEnd(r.text)
          /\ r.at.source \in Nat /\ r.at.where \in Nat
      BY Places
    <3> QED
      BY <3>1, Places
  <2> QED
    BY <2>1
<1>2. /\ j \in 1..Len(r.text) /\ j # r.at.from /\ j < r.at.from
      /\ ~(HasStart(r.text) /\ j = Len(r.text) - 1)
  BY <1>1
<1>3. j \in Inside(r)
  BY <1>2, Places, TextIs DEF Inside
<1> QED
  BY <1>2, <1>3 DEF FromInProjection

(* What is searched for a second table: the source, and no more when FROM  *)
(* is the first.                                                           *)
LEMMA SectionIs ==
  ASSUME NEW r, Grammatical(r), Subqueries(r.text) = {},
         NEW m, m = Min(Froms(Kept(r))), NEW q, q = FromSection(Kept(r))
  PROVE  \E e \in Nat :
           /\ r.at.source <= e /\ e <= KeptLen(r)
           /\ DOMAIN q = 1..(e - m) /\ q \in Texts
           /\ \A k \in 1..(e - m) : q[k] = r.text[m + k]
           /\ m = r.at.from /\ r.at.source < r.at.where => e = r.at.source
<1> SUFFICES ASSUME NEW n, n = KeptLen(r), NEW a, a = After(Kept(r), m),
                    NEW w, w = Finds(a, "WHERE", AnyGap)
             PROVE  \E e \in Nat :
                      /\ r.at.source <= e /\ e <= n
                      /\ DOMAIN q = 1..(e - m) /\ q \in Texts
                      /\ \A k \in 1..(e - m) : q[k] = r.text[m + k]
                      /\ m = r.at.from /\ r.at.source < r.at.where => e = r.at.source
  OBVIOUS
<1>1. /\ r.at.from \in Nat /\ r.at.source \in Nat /\ r.at.where \in Nat /\ n \in Nat
      /\ m \in 1..r.at.from /\ r.at.from < r.at.source /\ r.at.source <= n
      /\ r.at.source <= r.at.where /\ r.at.where <= n /\ n <= Len(r.text) /\ Len(r.text) \in Nat
  BY Places, FirstIsMin
<1>2. /\ a \in Texts /\ Len(a) = n - m /\ DOMAIN a = 1..(n - m)
      /\ \A k \in 1..(n - m) : a[k] = r.text[m + k] /\ m + k \in 1..n
  <2>1. m \in Nat /\ m <= n
    BY <1>1
  <2> QED
    BY <2>1, KeptAfter
<1>3. q = IF w = {} THEN a ELSE SubSeq(a, 1, Min(w) - 1)
  BY DEF FromSection
<1>4. ASSUME m = r.at.from, r.at.source < r.at.where PROVE w # {}
  <2>1. ASSUME NEW k, k = r.at.source + 1 - m PROVE k \in w
    <3>1. /\ r.text[r.at.source + 1].word = "WHERE"
          /\ \A i \in {r.at.source + 1, r.at.source + 2} \cap 1..Len(r.text) :
               r.text[i].gap # "none"
      BY <1>4 DEF Grammatical, Ordering
    <3>5. r.at.source + 2 <= r.at.where
      BY <1>4 DEF Grammatical, Ordering
    <3>2. /\ k \in 1..((n - m) - 1) /\ k \in 1..(n - m) /\ k + 1 \in 1..(n - m)
          /\ m + k = r.at.source + 1 /\ m + (k + 1) = r.at.source + 2
          /\ r.at.source + 1 \in 1..Len(r.text) /\ r.at.source + 2 \in 1..Len(r.text)
      <4>1. ASSUME NEW c \in Nat, NEW l \in Nat, m \in Nat, n \in Nat, m < c, c + 2 <= n, n <= l,
                   k = c + 1 - m
            PROVE  /\ k \in 1..((n - m) - 1) /\ k \in 1..(n - m) /\ k + 1 \in 1..(n - m)
                   /\ m + k = c + 1 /\ m + (k + 1) = c + 2 /\ c + 1 \in 1..l /\ c + 2 \in 1..l
        BY <4>1
      <4>2. m < r.at.source /\ r.at.source + 2 <= n /\ m \in Nat
        BY <1>1, <3>5
      <4> QED
        BY <1>1, <2>1, <4>1, <4>2
    <3>3. a[k] = r.text[r.at.source + 1] /\ a[k + 1] = r.text[r.at.source + 2]
      BY <1>2, <3>2
    <3>4. a[k].gap \in AnyGap /\ a[k + 1].gap \in AnyGap
      <4>1. a[k].gap \in Gaps /\ a[k + 1].gap \in Gaps
        BY <1>2, <3>2, TextIs
      <4> QED
        BY <3>1, <3>2, <3>3, <4>1 DEF AnyGap, Gaps
    <3> QED
      <4>1. k \in 1..(Len(a) - 1) /\ a \in Texts /\ a[k].word = "WHERE"
        BY <1>2, <3>1, <3>2, <3>3
      <4> QED
        BY <3>4, <4>1, FindsIs
  <2> QED
    BY <2>1
<1>5. CASE w = {}
  <2>1. m + 1 \in Nat /\ n \in Nat /\ r.at.source <= n /\ n <= n
    BY <1>1
  <2> QED
    BY <1>2, <1>3, <1>4, <1>5, <2>1
<1>6. CASE w # {}
  <2> SUFFICES ASSUME NEW k, k = Min(w)
               PROVE  /\ DOMAIN q = 1..(r.at.source - m) /\ q \in Texts
                      /\ \A i \in 1..(r.at.source - m) : q[i] = r.text[m + i]
    <3>1. r.at.source \in Nat /\ r.at.source <= r.at.source /\ r.at.source <= n
      BY <1>1
    <3> QED
      BY <3>1
  <2>1. k \in w
    BY <1>2, <1>6, FindsIs, MinLeast
  <2>2. k \in 1..((n - m) - 1) /\ a[k].word = "WHERE"
    BY <1>2, <2>1, FindsIs
  <2>3. m + k = r.at.source + 1
    <3>1. k \in 1..(n - m) /\ m + k \in 1..Len(r.text)
      <4>1. m \in Nat /\ n \in Nat /\ n <= Len(r.text) /\ Len(r.text) \in Nat
        BY <1>1
      <4>2. k \in 1..(n - m)
        BY <2>2, <4>1
      <4>3. m + k \in 1..n
        BY <4>1, <4>2, Back
      <4> QED
        BY <4>1, <4>2, <4>3
    <3> QED
      BY <1>2, <2>2, <3>1, LexicalIs
  <2>4. k - 1 \in Nat /\ k - 1 <= Len(a) /\ k - 1 = r.at.source - m
    <3>1. Len(a) = n - m /\ k \in 1..((n - m) - 1)
      BY <1>2, <2>2
    <3>2. ASSUME NEW c \in Nat, m \in Nat, n \in Nat, k \in 1..((n - m) - 1), m + k = c + 1
          PROVE  k - 1 \in Nat /\ k - 1 <= n - m /\ k - 1 = c - m
      BY <3>2
    <3>3. m \in Nat /\ n \in Nat /\ r.at.source \in Nat
      BY <1>1
    <3>4. k - 1 \in Nat /\ k - 1 <= n - m /\ k - 1 = r.at.source - m
      BY <2>3, <3>1, <3>2, <3>3
    <3> QED
      BY <3>1, <3>4
  <2>5. /\ SubSeq(a, 1, k - 1) \in Texts /\ DOMAIN SubSeq(a, 1, k - 1) = 1..(k - 1)
        /\ \A i \in 1..(k - 1) : SubSeq(a, 1, k - 1)[i] = a[i]
    BY <1>2, <2>4, Prefix
  <2>6. \A i \in 1..(k - 1) : i \in 1..(n - m)
    BY <1>1, <2>2
  <2> QED
    BY <1>2, <1>3, <1>6, <2>4, <2>5, <2>6
<1> QED
  BY <1>5, <1>6

(* A second table is found, and nothing else is taken for one. *)
NotBehind(r, w) == \A i \in 1..Len(r.text) : r.at.where < i => r.text[i].word # w

LEMMA PartHas ==
  ASSUME NEW t \in Texts, NEW i \in Nat \ {0}, NEW c \in Nat, c <= Len(t), NEW w
  PROVE  w \in Words(SubSeq(t, i, c)) <=> \E j \in i..c : t[j].word = w
<1> SUFFICES ASSUME NEW p, p = SubSeq(t, i, c)
             PROVE  w \in Words(p) <=> \E j \in i..c : t[j].word = w
  OBVIOUS
<1>1. DOMAIN p = 1..(c - i + 1) /\ \A k \in 1..(c - i + 1) : p[k] = t[i + k - 1]
  BY Piece
<1>2. ASSUME w \in Words(p) PROVE \E j \in i..c : t[j].word = w
  <2>1. PICK k \in 1..(c - i + 1) : t[i + k - 1].word = w
    BY <1>1, <1>2 DEF Words
  <2>2. i + k - 1 \in i..c
    OBVIOUS
  <2> QED
    BY <2>1, <2>2
<1>3. ASSUME NEW j \in i..c, t[j].word = w PROVE w \in Words(p)
  <2>1. ASSUME NEW k, k = j - i + 1 PROVE k \in 1..(c - i + 1) /\ i + k - 1 = j
    BY <2>1
  <2> QED
    BY <1>1, <1>3, <2>1 DEF Words
<1> QED
  BY <1>2, <1>3

(* A word of the source is in the part searched, and of no other part but  *)
(* what is behind the condition.                                           *)
LEMMA SourceSearched ==
  ASSUME NEW r, Grammatical(r), Subqueries(r.text) = {}, NEW w, w \in Words(Source(r))
  PROVE  w \in Words(FromSection(Kept(r)))
<1>0. r.at.from \in Nat /\ r.at.source \in Nat /\ Min(Froms(Kept(r))) \in 1..r.at.from
  BY Places, FirstIsMin
<1> SUFFICES ASSUME NEW f \in Nat, f = r.at.from, NEW c \in Nat, c = r.at.source,
                    NEW m \in 1..f, m = Min(Froms(Kept(r))), NEW q, q = FromSection(Kept(r))
             PROVE  w \in Words(q)
  BY <1>0
<1>1. PICK e \in Nat : c <= e /\ DOMAIN q = 1..(e - m) /\ \A k \in 1..(e - m) : q[k] = r.text[m + k]
  BY SectionIs
<1>2. c <= Len(r.text) /\ r.text \in Texts
  BY Places
<1>3. PICK j \in (f + 1)..c : r.text[j].word = w
  <2>1. ASSUME NEW t \in Texts, t = r.text, NEW i \in Nat \ {0}, i = f + 1
        PROVE  \E j \in i..c : t[j].word = w
    <3>1. w \in Words(SubSeq(t, i, c)) /\ c <= Len(t)
      BY <1>2, <2>1 DEF Source, Part
    <3> QED
      BY <3>1, PartHas
  <2>2. f + 1 \in Nat \ {0}
    OBVIOUS
  <2> QED
    BY <1>2, <2>1, <2>2
<1>4. ASSUME NEW k, k = j - m PROVE k \in 1..(e - m) /\ m + k = j
  <2>1. c <= e
    BY <1>1
  <2> QED
    BY <1>3, <1>4, <2>1
<1> QED
  BY <1>1, <1>3, <1>4 DEF Words

LEMMA SearchedIsSource ==
  ASSUME NEW r, Grammatical(r), Subqueries(r.text) = {}, First(r, r.at.from),
         NEW w, w \notin Words(Source(r)), r.at.source < r.at.where \/ NotBehind(r, w)
  PROVE  /\ w \notin Words(FromSection(Kept(r)))
         /\ Head(FromSection(Kept(r))) = r.text[r.at.from + 1]
<1>0. /\ r.at.from \in Nat /\ r.at.source \in Nat /\ r.at.where \in Nat
      /\ KeptLen(r) \in Nat /\ Len(r.text) \in Nat /\ r.text \in Texts
  BY Places
<1> SUFFICES ASSUME NEW f \in Nat, f = r.at.from, NEW c \in Nat, c = r.at.source,
                    NEW h \in Nat, h = r.at.where, NEW n \in Nat, n = KeptLen(r),
                    NEW t \in Texts, t = r.text, NEW l \in Nat, l = Len(t),
                    NEW q, q = FromSection(Kept(r))
             PROVE  w \notin Words(q) /\ Head(q) = t[f + 1]
  BY <1>0
<1>1. f = Min(Froms(Kept(r)))
  BY FirstIsMin
<1>2. PICK e \in Nat :
        /\ c <= e /\ e <= n
        /\ DOMAIN q = 1..(e - f) /\ q \in Texts /\ \A k \in 1..(e - f) : q[k] = t[f + k]
        /\ c < h => e = c
  <2>1. ASSUME NEW m, m = Min(Froms(Kept(r)))
        PROVE  \E e \in Nat :
                 /\ c <= e /\ e <= n
                 /\ DOMAIN q = 1..(e - m) /\ q \in Texts
                 /\ \A k \in 1..(e - m) : q[k] = t[m + k]
                 /\ m = f /\ c < h => e = c
    BY <2>1, SectionIs
  <2> QED
    BY <1>1, <2>1
<1>3. f < c /\ c <= h /\ n <= l /\ f + 1 \in Nat \ {0}
  BY Places
<1>4. c <= e /\ e <= n /\ (c < h => e = c)
  BY <1>2
<1>5. ASSUME NEW k \in 1..(e - f) PROVE t[f + k].word # w
  <2>0. f + k \in Nat /\ f + k <= e /\ f < f + k
    BY Back
  <2>1. f + k \in 1..l
    <3>1. ASSUME NEW j \in Nat, j <= e, f < j PROVE j \in 1..l
      BY <1>3, <1>4, <3>1
    <3> QED
      BY <2>0, <3>1
  <2>2. CASE h < f + k
    <3>1. ~(c < h)
      <4>1. ASSUME NEW j \in Nat, j <= e, h < j PROVE ~(c < h)
        BY <1>3, <1>4, <4>1
      <4> QED
        BY <2>0, <2>2, <4>1
    <3>2. NotBehind(r, w)
      BY <3>1
    <3> QED
      BY <2>1, <2>2, <3>2 DEF NotBehind
  <2>3. CASE f + k <= h
    <3>1. f + k <= c /\ c <= l
      <4>1. ASSUME NEW j \in Nat, j <= e, j <= h PROVE j <= c /\ c <= l
        BY <1>3, <1>4, <4>1
      <4> QED
        BY <2>0, <2>3, <4>1
    <3>2. ASSUME NEW i \in Nat \ {0}, i = f + 1, NEW j \in i..c PROVE t[j].word # w
      <4>1. w \notin Words(SubSeq(t, i, c)) /\ c <= Len(t)
        BY <3>1, <3>2 DEF Source, Part
      <4> QED
        BY <4>1, PartHas
    <3>3. f + k \in (f + 1)..c
      BY <2>0, <3>1
    <3> QED
      BY <1>3, <3>2, <3>3
  <2>4. h < f + k \/ f + k <= h
    <3>1. \A j \in Nat : h < j \/ j <= h
      OBVIOUS
    <3> QED
      BY <2>0, <3>1
  <2> QED
    BY <2>2, <2>3, <2>4
<1>6. w \notin Words(q)
  <2>1. DOMAIN q = 1..(e - f) /\ \A k \in 1..(e - f) : q[k].word # w
    BY <1>2, <1>5
  <2> QED
    BY <2>1, Zenon DEF Words
<1>7. Head(q) = t[f + 1]
  <2>1. 1 \in 1..(e - f)
    BY <1>3, <1>4
  <2>2. q[1] = t[f + 1]
    BY <1>2, <2>1
  <2>3. Head(q) = q[1]
    <3>1. q \in Seq(Mark) /\ Len(q) \in Nat /\ 1 \in 1..Len(q) /\ Len(q) \in 1..Len(q)
      BY <1>2, <2>1, TextIs
    <3>2. SubSeq(q, 1, Len(q)) = q
      BY <3>1, SubSeqFull
    <3>3. Head(SubSeq(q, 1, Len(q))) = q[1]
      BY <3>1, HeadTailOfSubSeq
    <3> QED
      BY <3>2, <3>3
  <2> QED
    BY <2>2, <2>3
<1> QED
  BY <1>6, <1>7

(* A second table is found, and nothing else is taken for one. *)
LEMMA SingleTableIs ==
  ASSUME NEW r, Grammatical(r), Subqueries(r.text) = {}
  PROVE  /\ SingleTable(Kept(r)) => "," \notin Words(Source(r))
         /\ First(r, r.at.from) /\ "," \notin Words(Source(r)) /\ ~ListBehind(r) =>
              SingleTable(Kept(r))
<1>1. SingleTable(Kept(r)) => "," \notin Words(Source(r))
  BY SourceSearched DEF SingleTable
<1>2. ASSUME First(r, r.at.from), "," \notin Words(Source(r)), ~ListBehind(r)
      PROVE  SingleTable(Kept(r))
  <2>1. r.at.source < r.at.where \/ NotBehind(r, ",")
    <3>1. r.at.source < r.at.where \/ r.at.source = r.at.where
      BY Places
    <3>2. DOMAIN r.text = 1..Len(r.text)
      BY Places, TextIs
    <3> QED
      BY <1>2, <3>1, <3>2, Zenon DEF NotBehind, ListBehind
  <2>2. /\ "," \notin Words(FromSection(Kept(r)))
        /\ Head(FromSection(Kept(r))) = r.text[r.at.from + 1]
    BY <1>2, <2>1, SearchedIsSource, Zenon
  <2>3. r.text[r.at.from + 1].word # "("
    BY LexicalIs, Zenon
  <2> QED
    BY <2>2, <2>3, Zenon DEF SingleTable
<1> QED
  BY <1>1, <1>2

(* The table is the one meant when FROM is in capitals between spaces and  *)
(* the first; a start clause never gives one.                              *)
LEMMA TableIs ==
  ASSUME NEW r, Grammatical(r), FromPlain(r),
         \A i \in Inside(r) : r.text[i].word # "FROM" \/ r.at.from < i
  PROVE  /\ InPlace(Kept(r)) # {}
         /\ TableOf(Kept(r)) =
              IF r.at.from + 1 < KeptLen(r) /\ r.text[r.at.from + 2].gap = "none"
              THEN "" ELSE MeantTable(r)
<1>1. /\ r.at.from \in Nat /\ r.at.from \in 1..(KeptLen(r) - 1) /\ KeptLen(r) \in Nat
      /\ r.at.from \in 1..KeptLen(r) /\ r.at.from + 1 \in 1..KeptLen(r)
  BY Places
<1>2. r.at.from \in InPlace(Kept(r))
  <2>1. /\ Kept(r)[r.at.from] = r.text[r.at.from]
        /\ Kept(r)[r.at.from + 1] = r.text[r.at.from + 1]
        /\ Kept(r) \in Texts /\ Len(Kept(r)) = KeptLen(r)
    BY <1>1, KeptIs
  <2>2. /\ r.at.from \in 1..(Len(Kept(r)) - 1) /\ Kept(r)[r.at.from].word = "FROM"
        /\ Kept(r)[r.at.from].gap \in Spaces /\ Kept(r)[r.at.from + 1].gap \in Spaces
    BY <1>1, <2>1 DEF FromPlain, Between
  <2>3. r.at.from \in Finds(Kept(r), "FROM", Spaces)
    BY <2>1, <2>2, FindsIs
  <2> QED
    BY <2>3 DEF InPlace
<1>3. InPlace(Kept(r)) \subseteq Nat
  BY KeptIs, FindsIs DEF InPlace
<1>4. ASSUME NEW j \in InPlace(Kept(r)) PROVE r.at.from <= j
  <2>1. j \in 1..(KeptLen(r) - 1) /\ Kept(r)[j].word = "FROM"
    BY <1>4, KeptIs, FindsIs DEF InPlace
  <2>2. j \in 1..KeptLen(r) /\ j \in Nat
    BY <1>1, <2>1
  <2>3. r.text[j].word = "FROM" /\ j \in DOMAIN r.text
    BY <2>1, <2>2, KeptIs, TextIs, Places
  <2>4. j = r.at.from \/ j \in Inside(r) \/ (HasStart(r.text) /\ j = Len(r.text) - 1)
    BY <2>3 DEF Inside, SaysFrom
  <2>5. CASE HasStart(r.text) /\ j = Len(r.text) - 1
    <3>1. /\ r.at.from < OrderEnd(r.text) /\ OrderEnd(r.text) \in Nat /\ Body(r.text) \in Nat
          /\ OrderEnd(r.text) <= Body(r.text) /\ Body(r.text) = Len(r.text) - 2
          /\ Len(r.text) \in Nat
      BY <2>5, Places
    <3> QED
      BY <1>1, <2>5, <3>1
  <2> QED
    BY <1>1, <2>2, <2>3, <2>4, <2>5
<1>5. Min(InPlace(Kept(r))) = r.at.from
  <2>1. ASSUME NEW S, S = InPlace(Kept(r)), NEW f, f = r.at.from PROVE Min(S) = f
    BY <1>2, <1>3, <1>4, <2>1, MinIs
  <2> QED
    BY <2>1
<1>6. /\ Kept(r)[r.at.from + 1] = r.text[r.at.from + 1] /\ Len(Kept(r)) = KeptLen(r)
      /\ r.at.from + 1 < KeptLen(r) =>
           Kept(r)[(r.at.from + 1) + 1] = r.text[r.at.from + 2]
  <2>1. r.at.from + 1 < KeptLen(r) =>
          (r.at.from + 1) + 1 = r.at.from + 2 /\ r.at.from + 2 \in 1..KeptLen(r)
    BY <1>1
  <2> QED
    BY <1>1, <2>1, KeptIs
<1> QED
  BY <1>2, <1>5, <1>6 DEF TableOf, MeantTable

-----------------------------------------------------------------------------
(* The condition.  WHERE stands at one place, if it stands at all.         *)
LEMMA NoWhere ==
  ASSUME NEW r, Grammatical(r), r.at.source = r.at.where,
         r.at.source + 1 \in 1..Len(r.text)
  PROVE  r.text[r.at.source + 1].word # "WHERE"
<1>1. CASE r.at.where < OrderEnd(r.text)
  <2>1. r.text[r.at.where + 1].word \in {"ORDER BY", "GROUP BY"}
    BY <1>1, ClosingIs, Zenon
  <2> QED
    BY <2>1, Zenon
<1>2. CASE r.at.where = OrderEnd(r.text)
  <2>1. CASE HasCursor(r.text)
    <3>1. r.at.source + 1 = Body(r.text) - 1
      BY <1>2, <2>1, Places
    <3>2. r.text[Body(r.text) - 1].word = "WITH CURSOR"
      BY <2>1, Zenon DEF HasCursor
    <3> QED
      BY <3>1, <3>2, Zenon
  <2>2. CASE ~HasCursor(r.text) /\ HasStart(r.text)
    <3>1. r.at.source + 1 = Len(r.text) - 1
      BY <1>2, <2>2, Places
    <3>2. SaysFrom(r.text, Len(r.text) - 1)
      BY <2>2, ClosingIs, Zenon
    <3> QED
      BY <3>1, <3>2 DEF SaysFrom
  <2>3. CASE ~HasCursor(r.text) /\ ~HasStart(r.text)
    <3>1. r.at.source = Len(r.text) /\ Len(r.text) \in Nat
      BY <1>2, <2>3, Places
    <3> QED
      BY <3>1
  <2> QED
    BY <2>1, <2>2, <2>3
<1>3. r.at.where \in Nat /\ OrderEnd(r.text) \in Nat /\ r.at.where <= OrderEnd(r.text)
  BY Places
<1> QED
  BY <1>1, <1>2, <1>3

LEMMA OneWhere ==
  ASSUME NEW r, Grammatical(r), Subqueries(r.text) = {}, NEW gaps,
         NEW i \in Finds(Kept(r), "WHERE", gaps)
  PROVE  /\ r.at.source < r.at.where /\ i = r.at.source + 1
         /\ Min(Finds(Kept(r), "WHERE", gaps)) = i
<1>0. /\ KeptLen(r) \in Nat /\ Len(r.text) \in Nat /\ KeptLen(r) <= Len(r.text)
      /\ r.at.source \in Nat /\ r.at.where \in Nat /\ r.at.source <= r.at.where
  BY Places
<1>1. ASSUME NEW j \in Finds(Kept(r), "WHERE", gaps)
      PROVE  j \in 1..Len(r.text) /\ r.text[j].word = "WHERE"
  <2>1. j \in 1..(KeptLen(r) - 1) /\ Kept(r)[j].word = "WHERE"
    BY KeptIs, FindsIs
  <2>2. j \in 1..KeptLen(r) /\ j \in 1..Len(r.text)
    BY <1>0, <2>1
  <2> QED
    BY <2>1, <2>2, KeptIs
<1>2. \A j \in Finds(Kept(r), "WHERE", gaps) : j = r.at.source + 1
  BY <1>1, LexicalIs, Zenon
<1>3. Finds(Kept(r), "WHERE", gaps) = {i}
  BY <1>2
<1>4. Min(Finds(Kept(r), "WHERE", gaps)) = i
  <2>1. Finds(Kept(r), "WHERE", gaps) \subseteq Nat /\ Finds(Kept(r), "WHERE", gaps) # {}
    BY KeptIs, FindsIs
  <2> QED
    BY <1>3, <2>1, MinLeast
<1>5. r.at.source # r.at.where
  BY <1>1, <1>2, NoWhere
<1> QED
  BY <1>0, <1>2, <1>4, <1>5

LEMMA WhereIs ==
  ASSUME NEW r, Grammatical(r), Subqueries(r.text) = {}
  PROVE  \/ WhereOf(Kept(r)) = <<>>
         \/ r.at.source < r.at.where /\ WhereOf(Kept(r)) = After(Kept(r), r.at.source + 1)
<1> SUFFICES ASSUME NEW w, w = Finds(Kept(r), "WHERE", Spaces), w # {}
             PROVE  r.at.source < r.at.where /\ Min(w) = r.at.source + 1
  BY DEF WhereOf
<1> QED
  BY OneWhere

(* A filter between spaces is kept. *)
LEMMA EndHas ==
  ASSUME NEW t \in Texts, NEW u \in Texts, NEW n \in Nat, n <= Len(t), Len(u) = n,
         \A k \in 1..n : u[k] = t[k], NEW m \in Nat, m <= n, NEW h \in Nat, h <= n,
         NEW i \in Nat \ {0}, i = m + 1
  PROVE  Words(SubSeq(t, i, h)) \subseteq Words(After(u, m))
<1> SUFFICES ASSUME NEW w \in Words(SubSeq(t, i, h)), NEW a, a = After(u, m)
             PROVE  w \in Words(a)
  OBVIOUS
<1>1. PICK j \in i..h : t[j].word = w
  <2>1. h <= Len(t)
    BY TextIs
  <2> QED
    BY <2>1, PartHas
<1>2. DOMAIN a = 1..(n - m) /\ \A k \in 1..(n - m) : a[k] = u[m + k] /\ m + k \in 1..n
  <2>1. m <= Len(u)
    OBVIOUS
  <2> QED
    BY <2>1, AfterIs
<1>3. j - m \in 1..(n - m) /\ m + (j - m) = j
  <2>1. j \in Nat /\ m < j /\ j <= h
    OBVIOUS
  <2> QED
    BY <2>1, Shift
<1>4. a[j - m] = t[j]
  BY <1>2, <1>3
<1> QED
  BY <1>1, <1>2, <1>3, <1>4 DEF Words

LEMMA FilterKept ==
  ASSUME NEW r, Grammatical(r), Subqueries(r.text) = {}, WherePlain(r), r.at.source < r.at.where
  PROVE  Words(Filter(r)) \subseteq Words(WhereOf(Kept(r)))
<1>1. /\ r.at.source \in Nat /\ r.at.where \in Nat /\ KeptLen(r) \in Nat
      /\ r.text \in Texts /\ r.at.where <= KeptLen(r) /\ KeptLen(r) <= Len(r.text)
  BY Places
<1>2. r.at.source + 2 <= r.at.where
  BY DEF Grammatical, Ordering
<1>3. /\ r.at.source + 1 \in 1..(KeptLen(r) - 1) /\ r.at.source + 1 \in 1..KeptLen(r)
      /\ (r.at.source + 1) + 1 \in 1..KeptLen(r) /\ r.at.source + 1 \in Nat
      /\ (r.at.source + 1) + 1 \in Nat \ {0} /\ (r.at.source + 1) + 1 = r.at.source + 2
      /\ r.at.source + 1 <= KeptLen(r)
  <2>1. r.at.source + 1 \in Nat /\ 0 < r.at.source + 1 /\ r.at.source + 1 < KeptLen(r)
    BY <1>1, <1>2
  <2>2. (r.at.source + 1) + 1 \in Nat \ {0} /\ (r.at.source + 1) + 1 = r.at.source + 2
    BY <1>1
  <2> QED
    BY <1>1, <2>1, <2>2, Room
<1>4. r.at.source + 1 \in Finds(Kept(r), "WHERE", Spaces)
  <2>1. r.text[r.at.source + 1].word = "WHERE"
    BY DEF Grammatical, Ordering
  <2>2. Between(r, r.at.source + 1)
    BY DEF WherePlain
  <2>3. /\ Kept(r)[r.at.source + 1] = r.text[r.at.source + 1]
        /\ Kept(r)[(r.at.source + 1) + 1] = r.text[(r.at.source + 1) + 1]
        /\ Kept(r) \in Texts /\ r.at.source + 1 \in 1..(Len(Kept(r)) - 1)
    BY <1>3, KeptIs
  <2> QED
    BY <2>1, <2>2, <2>3, FindsIs DEF Between
<1>5. WhereOf(Kept(r)) = After(Kept(r), r.at.source + 1)
  BY <1>4, OneWhere DEF WhereOf
<1>6. ASSUME NEW m \in Nat, m = r.at.source + 1, NEW i \in Nat \ {0}, i = m + 1,
             NEW u \in Texts, u = Kept(r), NEW t \in Texts, t = r.text,
             NEW h \in Nat, h = r.at.where, NEW n \in Nat, n = KeptLen(r)
      PROVE  Words(SubSeq(t, i, h)) \subseteq Words(After(u, m))
  <2>1. n <= Len(t) /\ h <= n /\ m <= n /\ i = m + 1
    BY <1>1, <1>3, <1>6
  <2>2. Len(u) = n /\ \A k \in 1..n : u[k] = t[k]
    BY <1>6, KeptIs
  <2> QED
    BY <2>1, <2>2, EndHas
<1>7. /\ Kept(r) \in Texts /\ r.text \in Texts /\ r.at.where \in Nat /\ KeptLen(r) \in Nat
      /\ r.at.source + 1 \in Nat /\ (r.at.source + 1) + 1 \in Nat \ {0}
      /\ (r.at.source + 1) + 1 = r.at.source + 2
  BY <1>1, <1>3, KeptIs
<1>8. Words(SubSeq(r.text, r.at.source + 2, r.at.where))
        \subseteq Words(After(Kept(r), r.at.source + 1))
  BY <1>6, <1>7
<1> QED
  BY <1>5, <1>8, Zenon DEF Filter, Part

(* Without a clause behind it, the filter is all that is kept. *)
LEMMA TailTaken ==
  ASSUME NEW r, Grammatical(r), ~HasTail(r)
  PROVE  KeptLen(r) = r.at.where
<1>0. /\ r.at.where \in Nat /\ OrderEnd(r.text) \in Nat /\ Body(r.text) \in Nat /\ Len(r.text) \in Nat
      /\ r.at.where <= OrderEnd(r.text) /\ OrderEnd(r.text) <= Body(r.text)
      /\ Body(r.text) = IF HasStart(r.text) THEN Len(r.text) - 2 ELSE Len(r.text)
      /\ OrderEnd(r.text) = IF HasCursor(r.text) THEN Body(r.text) - 2 ELSE Body(r.text)
  BY Places
<1>1. r.at.where = OrderEnd(r.text)
  <2>1. CASE r.at.where < OrderEnd(r.text)
    <3>1. r.at.where + 1 \in (r.at.where + 1)..Len(r.text)
      BY <1>0, <2>1
    <3>2. r.text[r.at.where + 1].word \in {"ORDER BY", "GROUP BY"}
      BY <2>1, ClosingIs, Zenon
    <3> QED
      BY <3>1, <3>2, Zenon DEF HasTail
  <2> QED
    BY <1>0, <2>1
<1>2. HasStart(r.text) => Len(r.text) \in (r.at.where + 1)..Len(r.text)
  BY <1>0
<1>3. Last(r.text) # "BEGINNING"
  BY <1>2, Zenon DEF HasTail, Last, HasStart
<1>4. r.front = "http" => ~HasStart(r.text) /\ ~HasCursor(r.text)
  <2>1. r.front = "http" => ~HasCursor(r.text)
    BY ClosingIs, Zenon
  <2>2. r.front = "http" => ~HasStart(r.text)
    BY <1>2, Zenon DEF HasTail, HasStart
  <2> QED
    BY <2>1, <2>2
<1> QED
  BY <1>0, <1>1, <1>3, <1>4 DEF KeptLen

LEMMA EndIs ==
  ASSUME NEW t \in Texts, NEW u \in Texts, NEW h \in Nat, h <= Len(t), Len(u) = h,
         \A k \in 1..h : u[k] = t[k], NEW m \in Nat, m < h
  PROVE  After(u, m) = SubSeq(t, m + 1, h)
<1>1. m <= Len(u) /\ m + 1 \in Nat \ {0}
  OBVIOUS
<1> SUFFICES ASSUME NEW a, a = After(u, m), NEW i \in Nat \ {0}, i = m + 1,
                    NEW p, p = SubSeq(t, i, h)
             PROVE  a = p
  BY <1>1
<1>2. a \in Texts /\ Len(a) = h - m /\ \A k \in 1..(h - m) : a[k] = u[m + k] /\ m + k \in 1..h
  BY <1>1, AfterIs
<1>3. p \in Texts /\ Len(p) = h - m /\ \A k \in 1..(h - m) : p[k] = t[m + k]
  <2>1. /\ p \in Texts /\ Len(p) = IF i <= h THEN h - i + 1 ELSE 0
        /\ \A k \in 1..(h - i + 1) : p[k] = t[i + k - 1]
    <3>1. h \in Int
      OBVIOUS
    <3> QED
      BY <3>1, Piece
  <2>2. i <= h /\ h - i + 1 = h - m
    OBVIOUS
  <2>3. ASSUME NEW k \in 1..(h - m) PROVE i + k - 1 = m + k
    OBVIOUS
  <2> QED
    BY <2>1, <2>2, <2>3
<1>4. \A k \in 1..(h - m) : a[k] = p[k]
  BY <1>2, <1>3
<1>5. a \in Seq(Mark) /\ p \in Seq(Mark) /\ Len(a) = Len(p)
  BY <1>2, <1>3, TextIs
<1> QED
  BY <1>2, <1>4, <1>5, SeqEqual

LEMMA FilterIs ==
  ASSUME NEW r, Grammatical(r), ~HasTail(r), r.at.source < r.at.where
  PROVE  After(Kept(r), r.at.source + 1) = Filter(r)
<1>1. /\ r.at.source \in Nat /\ r.at.where \in Nat /\ r.text \in Texts
      /\ r.at.where <= Len(r.text) /\ KeptLen(r) = r.at.where
  BY Places, TailTaken
<1>2. r.at.source + 1 < r.at.where
  <2>1. r.at.source + 2 <= r.at.where
    BY DEF Grammatical, Ordering
  <2> QED
    BY <1>1, <2>1
<1>3. /\ Kept(r) \in Texts /\ Len(Kept(r)) = r.at.where
      /\ \A k \in 1..r.at.where : Kept(r)[k] = r.text[k]
  BY <1>1, KeptIs
<1>4. r.at.source + 1 \in Nat /\ (r.at.source + 1) + 1 = r.at.source + 2
  BY <1>1
<1>5. \A m \in Nat : m < r.at.where => After(Kept(r), m) = SubSeq(r.text, m + 1, r.at.where)
  BY <1>1, <1>3, EndIs
<1>6. After(Kept(r), r.at.source + 1) = SubSeq(r.text, (r.at.source + 1) + 1, r.at.where)
  BY <1>2, <1>4, <1>5
<1>7. After(Kept(r), r.at.source + 1) = SubSeq(r.text, r.at.source + 2, r.at.where)
  BY <1>4, <1>6
<1> QED
  BY <1>7, Zenon DEF Filter, Part

-----------------------------------------------------------------------------
(* The cursor column and the start mode. *)
LEMMA HintIs ==
  ASSUME NEW r, Grammatical(r), HintOf(r) # Given(r)
  PROVE  {"WITH CURSOR", "BEGINNING"} \subseteq Words(Kept(r))
<1>1. r.front # "http" /\ Last(r.text) = "BEGINNING" /\ HasCursor(r.text)
  BY Zenon DEF HintOf, Given
<1>2. KeptLen(r) = Len(r.text) /\ HasStart(r.text)
  BY <1>1, Zenon DEF KeptLen, HasStart, Last
<1>3. Body(r.text) - 1 \in 1..KeptLen(r) /\ Len(r.text) \in 1..KeptLen(r)
  <2>1. /\ Body(r.text) \in Nat /\ Len(r.text) \in Nat /\ Body(r.text) <= Len(r.text)
        /\ r.at.where <= OrderEnd(r.text) /\ OrderEnd(r.text) = Body(r.text) - 2
        /\ r.at.where \in Nat /\ r.at.source <= r.at.where /\ r.at.from < r.at.source
        /\ r.at.source \in Nat /\ r.at.from \in Nat /\ 2 < r.at.from
    BY <1>1, Places
  <2>2. 2 < OrderEnd(r.text)
    BY <2>1
  <2> QED
    BY <1>2, <2>1, <2>2
<1>4. /\ Kept(r)[Body(r.text) - 1].word = "WITH CURSOR" /\ Kept(r)[Len(r.text)].word = "BEGINNING"
      /\ Body(r.text) - 1 \in DOMAIN Kept(r) /\ Len(r.text) \in DOMAIN Kept(r)
  <2>1. /\ Kept(r)[Body(r.text) - 1] = r.text[Body(r.text) - 1]
        /\ Kept(r)[Len(r.text)] = r.text[Len(r.text)]
        /\ Body(r.text) - 1 \in DOMAIN Kept(r) /\ Len(r.text) \in DOMAIN Kept(r)
    BY <1>3, KeptIs
  <2> QED
    BY <1>1, <2>1, Zenon DEF HasCursor, Last
<1>5. "WITH CURSOR" \in Words(Kept(r)) /\ "BEGINNING" \in Words(Kept(r))
  BY <1>4, Zenon DEF Words
<1> QED
  BY <1>5, Zenon

LEMMA CursorIs ==
  ASSUME NEW r, Grammatical(r), NEW c, c = CursorOf(DOMAIN r.schema, Given(r))
  PROVE  /\ c # "" /\ r.schema[c] \in Ordered => c = MeantCursor(r)
         /\ c = MeantCursor(r) /\ c # "" => r.schema[c] \in Ordered
         /\ c # MeantCursor(r) /\ MeantCursor(r) # "" =>
              Given(r) = NoHint /\ MeantCursor(r) = "created_at" /\ "id" \in DOMAIN r.schema
<1>1. "" \notin DOMAIN r.schema
  BY Zenon DEF Grammatical
<1>2. Ordered = Increasing
  BY Zenon DEF Ordered, Increasing
<1>3. CASE Given(r) # NoHint
  <2>1. c = IF Given(r) \in DOMAIN r.schema THEN Given(r) ELSE ""
    BY <1>3, Zenon DEF CursorOf
  <2>2. MeantCursor(r) = IF Fits(r, Given(r)) THEN Given(r) ELSE ""
    BY <1>3, Zenon DEF MeantCursor
  <2> QED
    BY <1>1, <1>2, <2>1, <2>2, Zenon DEF Fits
<1>4. CASE Given(r) = NoHint
  <2>1. c = IF "id" \in DOMAIN r.schema THEN "id"
            ELSE IF "created_at" \in DOMAIN r.schema THEN "created_at" ELSE ""
    BY <1>4, Zenon DEF CursorOf
  <2>2. MeantCursor(r) = IF Fits(r, "id") THEN "id"
                         ELSE IF Fits(r, "created_at") THEN "created_at" ELSE ""
    BY <1>4, Zenon DEF MeantCursor
  <2> QED
    BY <1>1, <1>2, <1>4, <2>1, <2>2, Zenon DEF Fits
<1> QED
  BY <1>3, <1>4

(* FROM NOW is found where it is the start clause, if one space is in it,  *)
(* and nowhere else but in the statement itself.                           *)
LEMMA NowFound ==
  ASSUME NEW r, Grammatical(r), Last(r.text) = "NOW", r.text[Len(r.text)].gap = "one"
  PROVE  SaysNow(r.text)
<1> SUFFICES ASSUME NEW t \in Texts, t = r.text, NEW n \in Nat, n = Len(t), 1 < n
             PROVE  SaysNow(t)
  <2>1. r.text \in Texts /\ Len(r.text) \in Nat /\ 1 < Len(r.text)
    <3>1. /\ Len(r.text) \in Nat /\ KeptLen(r) \in Nat /\ KeptLen(r) <= Len(r.text)
          /\ r.at.from \in 1..(KeptLen(r) - 1) /\ r.at.from \in Nat
      BY Places, FromFound
    <3>2. 1 < Len(r.text)
      BY <3>1
    <3> QED
      BY <3>1, <3>2, Places
  <2> QED
    BY <2>1
<1>1. SaysFrom(t, n - 1) /\ t[n].word = "NOW" /\ t[n].gap = "one"
  BY ClosingIs DEF HasStart, Last
<1>2. n - 1 \in 1..(n - 1) /\ n - 1 \in 1..n /\ (n - 1) + 1 = n
  OBVIOUS
<1>3. Upper(t)[n - 1].word = "FROM"
  BY <1>1, <1>2, UpperIs DEF SaysFrom
<1>4. ASSUME NEW i, i = n - 1 PROVE SaysNow(t)
  <2>1. i \in 1..(Len(t) - 1) /\ Upper(t)[i].word = "FROM" /\ t[i + 1] = t[n]
    BY <1>2, <1>3, <1>4
  <2> QED
    BY <1>1, <2>1 DEF SaysNow, EndsIn, BeginsWith
<1> QED
  BY <1>4

LEMMA NowSaid ==
  ASSUME NEW r, Grammatical(r), SaysNow(r.text), Last(r.text) # "NOW"
  PROVE  SaysNow(Part(r, 1, Body(r.text)))
<1> SUFFICES ASSUME NEW t \in Texts, t = r.text, NEW n \in Nat, n = Len(t),
                    NEW b \in Nat, b = Body(t), b <= n, NEW p, p = SubSeq(t, 1, b)
             PROVE  SaysNow(p)
  <2>1. /\ r.text \in Texts /\ Len(r.text) \in Nat /\ Body(r.text) \in Nat
        /\ Body(r.text) <= Len(r.text)
    BY Places
  <2> QED
    BY <2>1 DEF Part
<1>1. PICK i \in 1..(n - 1) :
        /\ EndsIn(Upper(t)[i].word, "FROM")
        /\ t[i + 1].gap = "one" /\ BeginsWith(t[i + 1].word, "NOW")
  BY DEF SaysNow
<1>2. p \in Texts /\ Len(p) = b /\ \A k \in 1..b : p[k] = t[k] /\ k \in 1..n
  BY Prefix
<1>3. i + 1 <= b
  <2> SUFFICES ASSUME b < i + 1 PROVE FALSE
    OBVIOUS
  <2>1. b = IF HasStart(t) THEN n - 2 ELSE n
    BY DEF Body
  <2>2. HasStart(t) /\ i \in {n - 2, n - 1}
    BY <2>1
  <2>3. t[n].word = "BEGINNING" /\ SaysFrom(t, n - 1)
    BY <2>2, ClosingIs DEF HasStart, Last
  <2>4. (n - 2) + 1 = n - 1 /\ (n - 1) + 1 = n
    OBVIOUS
  <2>5. t[i + 1].word \in {"FROM", "from", "BEGINNING"}
    BY <2>2, <2>3, <2>4 DEF SaysFrom
  <2> QED
    BY <1>1, <2>5, StatementAssumption DEF BeginsWith
<1>4. /\ i \in 1..(b - 1) /\ i \in 1..b /\ i \in 1..n /\ i + 1 \in 1..b
  BY <1>3
<1>5. Upper(p)[i].word = Upper(t)[i].word
  <2>1. Upper(p)[i].word = IF p[i].word = "from" THEN "FROM" ELSE p[i].word
    BY <1>2, <1>4, UpperIs
  <2>2. Upper(t)[i].word = IF t[i].word = "from" THEN "FROM" ELSE t[i].word
    BY <1>4, UpperIs
  <2>3. p[i] = t[i]
    BY <1>2, <1>4
  <2> QED
    BY <2>1, <2>2, <2>3
<1>6. p[i + 1] = t[i + 1] /\ i \in 1..(Len(p) - 1)
  BY <1>2, <1>4
<1> QED
  BY <1>1, <1>5, <1>6 DEF SaysNow
-----------------------------------------------------------------------------
(* The word behind the first SELECT is where the projection begins, if     *)
(* white space is in front of it.                                          *)
LEMMA SelectFirst ==
  ASSUME NEW r, Grammatical(r), ~Glued(r)
  PROVE  1 \in Selects(Kept(r)) /\ Min(Selects(Kept(r))) = 1
<1>1. /\ Kept(r) \in Texts /\ Len(Kept(r)) = KeptLen(r) /\ KeptLen(r) \in Nat /\ 2 < KeptLen(r)
      /\ Kept(r)[1] = r.text[1] /\ Kept(r)[2] = r.text[2]
  <2>1. KeptLen(r) \in Nat /\ 2 < KeptLen(r)
    <3>1. r.at.from \in Nat /\ 2 < r.at.from /\ KeptLen(r) \in Nat /\ r.at.from \in 1..(KeptLen(r) - 1)
      BY Places, FromFound
    <3> QED
      BY <3>1
  <2>2. 1 \in 1..KeptLen(r) /\ 2 \in 1..KeptLen(r)
    BY <2>1
  <2> QED
    BY <2>1, <2>2, KeptIs
<1>2. r.text[1].word = "SELECT" /\ r.text[2].gap # "none"
  BY DEF Grammatical, Ordering, Glued
<1>3. Kept(r)[1 + 1].gap \in AnyGap
  <2>1. 2 \in 1..Len(Kept(r)) /\ 1 + 1 = 2
    BY <1>1
  <2>2. Kept(r)[2].gap \in Gaps
    BY <1>1, <2>1, TextIs
  <2> QED
    BY <1>1, <1>2, <2>1, <2>2 DEF AnyGap, Gaps
<1>4. 1 \in Selects(Kept(r))
  BY <1>1, <1>2, <1>3 DEF Selects, EndsIn
<1>5. Selects(Kept(r)) \subseteq Nat /\ \A y \in Selects(Kept(r)) : 1 <= y
  BY <1>1 DEF Selects
<1> QED
  BY <1>4, <1>5, MinIs

(* Only then is there no room between SELECT and FROM. *)
LEMMA Roomless ==
  ASSUME NEW r, Grammatical(r), NoRoom(Kept(r))
  PROVE  /\ Glued(r)
         /\ \E i \in DOMAIN r.text : i # 1 /\ EndsIn(r.text[i].word, "SELECT")
<1>0. /\ Kept(r) \in Texts /\ Len(Kept(r)) = KeptLen(r) /\ KeptLen(r) \in Nat
      /\ \A i \in 1..KeptLen(r) : Kept(r)[i] = r.text[i] /\ i \in 1..Len(r.text)
      /\ DOMAIN r.text = 1..Len(r.text)
  BY KeptIs, Places, TextIs
<1>1. Glued(r)
  <2> SUFFICES ASSUME ~Glued(r) PROVE FALSE
    OBVIOUS
  <2>1. Min(Selects(Kept(r))) = 1
    BY SelectFirst
  <2>2. PICK m \in Froms(Kept(r)) : m = Min(Froms(Kept(r)))
    BY FirstIsMin
  <2>3. m \in 1..KeptLen(r) /\ SaysFrom(Kept(r), m) /\ m <= 2
    <3>1. m \in 1..(KeptLen(r) - 1) /\ SaysFrom(Kept(r), m)
      BY <1>0, FromsIs
    <3>2. m <= 1 + 1
      BY <2>1, <2>2 DEF NoRoom
    <3> QED
      BY <1>0, <3>1, <3>2
  <2>4. SaysFrom(r.text, m) /\ m \in {1, 2}
    BY <1>0, <2>3 DEF SaysFrom
  <2>5. r.text[1].word = "SELECT" /\ ~SaysFrom(r.text, 2)
    BY DEF Grammatical, Ordering
  <2> QED
    BY <2>4, <2>5 DEF SaysFrom
<1>2. PICK i \in 1..(KeptLen(r) - 1) :
        EndsIn(Kept(r)[i].word, "SELECT") /\ Kept(r)[i + 1].gap \in AnyGap
  BY <1>0 DEF NoRoom, Selects
<1>3. i \in 1..KeptLen(r) /\ i + 1 \in 1..KeptLen(r)
  BY <1>0
<1>4. i # 1
  <2> SUFFICES ASSUME i = 1 PROVE FALSE
    OBVIOUS
  <2>1. i + 1 = 2
    OBVIOUS
  <2>2. Kept(r)[2] = r.text[2]
    BY <1>0, <1>3, <2>1
  <2>3. r.text[2].gap \in AnyGap
    BY <1>2, <2>1, <2>2
  <2> QED
    BY <1>1, <2>3 DEF Glued, AnyGap
<1> QED
  BY <1>0, <1>1, <1>2, <1>3, <1>4
-----------------------------------------------------------------------------
(***************************************************************************)
(* The verdict.  A request that follows the grammar and has none of the    *)
(* excuses passes both checks of its text; one that passes has nothing the *)
(* documents forbid but a subquery the search does not reach.              *)
(***************************************************************************)
LEMMA Accepted ==
  ASSUME NEW r, Grammatical(r), Allowed(Kept(r)), Parses(Kept(r)), TableOf(Kept(r)) \in Tables
  PROVE  /\ Constructs(r) \cap Unsupported = {}
         /\ Constructs(r) \subseteq {"aggregate"} \/ Hidden(r)
         /\ ~Hidden(r) => Subqueries(r.text) = {}
<1>1. ~Reached(r)
  BY ReachedRefused
<1>2. Constructs(r) \cap Unsupported = {}
  BY AllowedWords
<1>3. CASE Subqueries(r.text) # {}
  BY <1>1, <1>2, <1>3, Zenon DEF Hidden
<1>4. CASE Subqueries(r.text) = {}
  <2>1. "," \notin Words(Source(r))
    BY <1>4, SingleTableIs, Zenon DEF Parses
  <2>2. /\ Constructs(r) \subseteq (Spoken(r.text) \cap Unsupported) \cup {"aggregate"}
        /\ Spoken(r.text) \cap Unsupported \subseteq Constructs(r)
    BY <1>4, <2>1, Zenon DEF Constructs
  <2>3. Constructs(r) \subseteq {"aggregate"}
    BY <1>2, <2>2, Zenon
  <2> QED
    BY <1>2, <1>4, <2>3, Zenon
<1> QED
  BY <1>3, <1>4

LEMMA Understood ==
  ASSUME NEW r, Grammatical(r), Constructs(r) \subseteq {"aggregate"},
         Words(r.text) \cap Unsupported = {}, ~Lookalike(r), ~Glued(r), ~ListBehind(r),
         FromPlain(r), ~FromInProjection(r)
  PROVE  Allowed(Kept(r)) /\ Parses(Kept(r)) /\ TableOf(Kept(r)) = MeantTable(r)
<1>1. /\ Allowed(Kept(r)) /\ Subqueries(r.text) = {} /\ "," \notin Words(Source(r))
  <2>1. "two tables" \notin Constructs(r) /\ "subquery" \notin Constructs(r)
    BY Zenon
  <2>2. Subqueries(r.text) = {} /\ "," \notin Words(Source(r))
    BY <2>1, Zenon DEF Constructs
  <2> QED
    BY <2>2, AllowedWords, Zenon
<1>2. First(r, r.at.from)
  BY FirstFrom
<1>3. SingleTable(Kept(r))
  BY <1>1, <1>2, SingleTableIs, Zenon
<1>4. /\ InPlace(Kept(r)) # {}
      /\ TableOf(Kept(r)) =
           IF r.at.from + 1 < KeptLen(r) /\ r.text[r.at.from + 2].gap = "none"
           THEN "" ELSE MeantTable(r)
  <2>1. \A i \in Inside(r) : r.text[i].word # "FROM" \/ r.at.from < i
    <3>1. \A i \in Inside(r) : i \in Nat /\ i # r.at.from /\ ~(i < r.at.from)
      BY Places, TextIs DEF FromInProjection, Inside
    <3>2. r.at.from \in Nat
      BY Places
    <3> QED
      BY <3>1, <3>2
  <2> QED
    BY <2>1, TableIs
<1>5. Froms(Kept(r)) # {} /\ Selects(Kept(r)) # {}
  BY FromFound, SelectFirst
<1>6. ASSUME r.at.from + 1 < KeptLen(r) PROVE r.text[r.at.from + 2].gap # "none"
  <2>1. /\ r.at.from \in Nat /\ r.at.source \in Nat /\ r.at.from < r.at.source
        /\ KeptLen(r) \in Nat /\ KeptLen(r) <= Len(r.text) /\ r.at.source <= Len(r.text)
        /\ Len(r.text) \in Nat /\ r.text \in Texts
    BY Places
  <2>2. CASE r.at.source = r.at.from + 1
    <3>1. r.at.from + 2 = r.at.source + 1 /\ r.at.from + 2 \in 1..Len(r.text)
      BY <1>6, <2>1, <2>2
    <3> QED
      BY <3>1 DEF Grammatical, Ordering
  <2>3. CASE r.at.from + 2 <= r.at.source
    <3>1. r.at.from + 2 \in (r.at.from + 2)..r.at.source
      BY <2>1, <2>3
    <3>2. r.text[r.at.from + 2].word # ","
      <4>1. ASSUME NEW t \in Texts, t = r.text, NEW i \in Nat \ {0}, i = r.at.from + 1,
                   NEW c \in Nat, c = r.at.source, NEW w, w \notin Words(SubSeq(t, i, c)),
                   NEW j, j = r.at.from + 2
            PROVE  t[j].word # w
        <5>1. j \in i..c /\ c <= Len(t)
          BY <2>1, <2>3, <4>1
        <5> QED
          BY <4>1, <5>1, PartHas
      <4>2. r.at.from + 1 \in Nat \ {0}
        BY <2>1
      <4>3. "," \notin Words(SubSeq(r.text, r.at.from + 1, r.at.source))
        BY <1>1, Zenon DEF Source, Part
      <4> QED
        BY <2>1, <4>1, <4>2, <4>3, Zenon
    <3>3. r.text[r.at.from + 2].gap # "none" \/ r.text[r.at.from + 2].word = ","
      BY <1>1, <3>1, LexicalIs, Zenon
    <3> QED
      BY <3>2, <3>3, Zenon
  <2> QED
    BY <2>1, <2>2, <2>3
<1> QED
  BY <1>1, <1>3, <1>4, <1>5, <1>6, Zenon DEF Parses

-----------------------------------------------------------------------------
(* No other FROM in capitals: the table is the one meant, or is none. *)
LEMMA OnlyTable ==
  ASSUME NEW r, Grammatical(r), Parses(Kept(r)), TableOf(Kept(r)) \in Tables,
         \A i \in Inside(r) : r.text[i].word # "FROM"
  PROVE  TableOf(Kept(r)) = MeantTable(r)
<1>0. /\ r.at.from \in Nat /\ r.at.from \in 1..(KeptLen(r) - 1) /\ KeptLen(r) \in Nat
      /\ KeptLen(r) <= Len(r.text) /\ Len(r.text) \in Nat /\ Kept(r) \in Texts
      /\ Len(Kept(r)) = KeptLen(r)
  BY Places, FromFound, KeptIs
<1>1. CASE FromPlain(r)
  <2>1. TableOf(Kept(r)) \in {"", MeantTable(r)}
    BY <1>1, TableIs
  <2> QED
    BY <2>1, RegistrationAssumption, Zenon
<1>2. CASE ~FromPlain(r)
  <2>1. ASSUME NEW j \in InPlace(Kept(r))
        PROVE  j \in Nat /\ j + 1 = Len(r.text) /\ KeptLen(r) = Len(r.text) /\ HasStart(r.text)
    <3>1. /\ j \in 1..(KeptLen(r) - 1) /\ Kept(r)[j].word = "FROM"
          /\ Kept(r)[j].gap \in Spaces /\ Kept(r)[j + 1].gap \in Spaces
      BY <1>0, FindsIs DEF InPlace
    <3>2. j \in 1..KeptLen(r) /\ j + 1 \in 1..KeptLen(r) /\ j \in 1..Len(r.text)
      BY <1>0, <3>1
    <3>3. r.text[j] = Kept(r)[j] /\ r.text[j + 1] = Kept(r)[j + 1] /\ j \in DOMAIN r.text
      BY <3>2, KeptIs, TextIs, Places
    <3>4. j # r.at.from
      BY <1>2, <3>1, <3>3 DEF FromPlain, Between
    <3>5. SaysFrom(r.text, j)
      BY <3>1, <3>3 DEF SaysFrom
    <3>6. HasStart(r.text) /\ j = Len(r.text) - 1
      BY <3>1, <3>3, <3>4, <3>5 DEF Inside
    <3> QED
      BY <1>0, <3>1, <3>6
  <2>2. Min(InPlace(Kept(r))) \in InPlace(Kept(r))
    <3>1. InPlace(Kept(r)) # {} /\ InPlace(Kept(r)) \subseteq Nat
      BY <1>0, FindsIs DEF Parses, InPlace
    <3> QED
      BY <3>1, MinLeast
  <2>3. ASSUME NEW i, i = Min(InPlace(Kept(r))) + 1
        PROVE  i = Len(Kept(r)) /\ i = Len(r.text) /\ HasStart(r.text) /\ i \in 1..KeptLen(r)
    BY <1>0, <2>1, <2>2, <2>3
  <2>4. TableOf(Kept(r)) = Kept(r)[Len(r.text)].word
    <3>1. ASSUME NEW i, i = Min(InPlace(Kept(r))) + 1 PROVE ~(i < Len(Kept(r)))
      BY <1>0, <2>3, <3>1
    <3> QED
      BY <2>3, <3>1 DEF TableOf
  <2>5. Kept(r)[Len(r.text)].word \in {"NOW", "BEGINNING"}
    <3>1. Len(r.text) \in 1..KeptLen(r) /\ HasStart(r.text)
      BY <2>3
    <3> QED
      BY <3>1, KeptIs DEF HasStart
  <2> QED
    BY <2>4, <2>5, RegistrationAssumption, Zenon
<1> QED
  BY <1>1, <1>2

LEMMA NoFilter ==
  ASSUME NEW r, Grammatical(r), ~(r.at.source < r.at.where)
  PROVE  Words(Filter(r)) = {}
<1>1. /\ r.at.source \in Nat /\ r.at.where \in Nat /\ r.at.source <= r.at.where
      /\ r.text \in Texts /\ r.at.where <= Len(r.text)
  BY Places
<1>2. ASSUME NEW t \in Texts, t = r.text, NEW h \in Nat, h = r.at.where,
             NEW i \in Nat \ {0}, i = r.at.source + 2, NEW w
      PROVE  w \notin Words(SubSeq(t, i, h))
  <2>1. h <= Len(t) /\ h < i
    BY <1>1, <1>2
  <2> QED
    BY <2>1, PartHas
<1>3. r.at.source + 2 \in Nat \ {0}
  BY <1>1
<1> QED
  BY <1>1, <1>2, <1>3 DEF Filter, Part

-----------------------------------------------------------------------------
(* What a request has gone through holds of every reachable state. *)
THEOREM StepsAreRight == Spec => []StepInv
<1>1. Init => StepInv
  BY StepInvInit
<1>2. StepInv /\ [Next]_vars => StepInv'
  BY StepInvStep
<1> QED
  BY <1>1, <1>2, PTL DEF Spec

(* A statement that runs was accepted by every check. *)
LEMMA CompiledIs ==
  ASSUME StepInv, step \in Compiled
  PROVE  /\ request \in Requests /\ Grammatical(request) /\ sql = Kept(request)
         /\ hint = HintOf(request) /\ mode = ModeOf(request)
         /\ Allowed(Kept(request)) /\ Parses(Kept(request))
         /\ PlanIs(plan, Kept(request)) /\ TableOf(Kept(request)) \in Tables
         /\ plan.cursor = Found /\ Found # "" /\ request.schema[Found] \in Ordered
<1>1. step # "received"
  BY Zenon DEF Compiled
<1>2. sql = Kept(request) /\ hint = HintOf(request) /\ mode = ModeOf(request)
  BY <1>1, Zenon DEF StepInv
<1>3. request \in Requests /\ Grammatical(request)
  BY RegistrationAssumption, Zenon DEF StepInv
<1>4. Allowed(sql) /\ Parses(sql) /\ PlanIs(plan, sql) /\ plan.table \in Tables
  BY Zenon DEF StepInv, Parsed
<1>5. plan.cursor = Found /\ Found # "" /\ request.schema[Found] \in Ordered
  BY Zenon DEF StepInv
<1> QED
  BY <1>2, <1>3, <1>4, <1>5, Zenon DEF PlanIs

(***************************************************************************)
(* VerdictRight, for every set of requests that follow the grammar and     *)
(* every set of tables: what the documents forbid is refused but for a     *)
(* subquery out of the search's reach, and every refusal has one of the    *)
(* named reasons (validateSQL, parseSQL, determineCursorColumn).           *)
(***************************************************************************)
THEOREM VerdictIsRight == Spec => []VerdictRight
<1>1. ASSUME StepInv PROVE VerdictRight
  <2>1. ASSUME step \in Compiled
        PROVE  /\ Constructs(request) \cap Unsupported = {}
               /\ Constructs(request) \subseteq {"aggregate"} \/ Hidden(request)
    BY <1>1, <2>1, CompiledIs, Accepted
  <2>3. ASSUME step = "panicked"
        PROVE  /\ Glued(request)
               /\ \E i \in DOMAIN request.text :
                    i # 1 /\ EndsIn(request.text[i].word, "SELECT")
    <3>1. Grammatical(request) /\ NoRoom(Kept(request))
      BY <1>1, <2>3, RegistrationAssumption, Zenon DEF StepInv
    <3> QED
      BY <3>1, Roomless, Zenon
  <2>2. ASSUME step = "refused", Constructs(request) \subseteq {"aggregate"},
               Words(request.text) \cap Unsupported = {}, ~Lookalike(request),
               ~Glued(request), ~ListBehind(request),
               FromPlain(request), ~FromInProjection(request),
               MeantTable(request) \in Tables, MeantCursor(request) # "", ~CursorLost,
               ~(hint = NoHint /\ MeantCursor(request) = "created_at" /\ "id" \in DOMAIN request.schema)
        PROVE  FALSE
    <3>1. request \in Requests /\ Grammatical(request)
      BY <1>1, RegistrationAssumption, Zenon DEF StepInv
    <3>2. sql = Kept(request) /\ hint = HintOf(request)
      BY <1>1, <2>2, Zenon DEF StepInv
    <3>3. Allowed(sql) /\ Parses(sql) /\ TableOf(sql) = MeantTable(request)
      BY <2>2, <3>1, <3>2, Understood, Zenon
    <3>4. NoCursor(plan, sql) /\ ~Resolves
      BY <1>1, <2>2, <3>3, Zenon DEF StepInv
    <3>5. plan.table \in Tables
      BY <2>2, <3>3, <3>4 DEF NoCursor
    <3>6. hint = Given(request)
      BY <2>2, <3>1, <3>2, HintIs, Zenon DEF CursorLost
    <3>7. Found = CursorOf(DOMAIN request.schema, Given(request))
      BY <3>6, Zenon DEF Found
    <3>8. Found = MeantCursor(request)
      BY <2>2, <3>1, <3>6, <3>7, CursorIs, Zenon
    <3>9. request.schema[Found] \in Ordered
      BY <2>2, <3>1, <3>7, <3>8, CursorIs, Zenon
    <3> QED
      BY <2>2, <3>4, <3>5, <3>8, <3>9, Zenon DEF Resolves
  <2> QED
    BY <2>1, <2>2, <2>3, Zenon DEF VerdictRight
<1> QED
  BY <1>1, StepsAreRight, PTL

(* Laid out without extra space, what is cut out is what was projected. *)
LEMMA NotCut ==
  ASSUME NEW r, Grammatical(r), First(r, r.at.from), ~Wide(r), ~Glued(r)
  PROVE  ~Cut(Kept(r)) /\ Projection(Kept(r)) = Projected(r)
<1>1. /\ r.at.from \in Nat /\ 2 < r.at.from /\ r.at.from <= KeptLen(r) /\ KeptLen(r) \in Nat
      /\ KeptLen(r) <= Len(r.text) /\ r.text \in Texts
  BY Places, FromFound
<1>2. Min(Froms(Kept(r))) = r.at.from /\ Min(Selects(Kept(r))) + 1 = 2
  <2>1. \A m : m = 1 => m + 1 = 2
    OBVIOUS
  <2> QED
    BY <2>1, FirstIsMin, SelectFirst
<1>3. /\ Kept(r) \in Texts /\ Len(Kept(r)) = KeptLen(r)
      /\ \A k \in 1..KeptLen(r) : Kept(r)[k] = r.text[k]
  BY KeptIs
<1>4. ~Cut(Kept(r))
  <2>1. 1 \in 1..KeptLen(r) /\ \A i \in 2..(r.at.from - 1) : i \in 1..KeptLen(r)
    BY <1>1
  <2>2. /\ Kept(r)[1] = r.text[1]
        /\ \A i \in 2..(r.at.from - 1) : Kept(r)[i] = r.text[i]
    BY <1>3, <2>1
  <2> QED
    BY <1>2, <2>2, Zenon DEF Cut, Wide
<1>5. ASSUME NEW u \in Texts, NEW t \in Texts, NEW n \in Nat, Len(u) = n, n <= Len(t),
             \A k \in 1..n : u[k] = t[k], NEW c \in Nat, c <= n
      PROVE  SubSeq(u, 2, c) = SubSeq(t, 2, c)
  <2> SUFFICES ASSUME NEW p, p = SubSeq(u, 2, c), NEW q, q = SubSeq(t, 2, c) PROVE p = q
    OBVIOUS
  <2>1. c \in Int /\ c <= Len(u) /\ c <= Len(t) /\ 2 \in Nat \ {0}
    BY <1>5, TextIs
  <2>2. /\ p \in Texts /\ Len(p) = (IF 2 <= c THEN c - 2 + 1 ELSE 0)
        /\ \A k \in 1..(c - 2 + 1) : p[k] = u[2 + k - 1]
    BY <2>1, Piece
  <2>3. /\ q \in Texts /\ Len(q) = (IF 2 <= c THEN c - 2 + 1 ELSE 0)
        /\ \A k \in 1..(c - 2 + 1) : q[k] = t[2 + k - 1]
    BY <2>1, Piece
  <2>4. \A k \in 1..(c - 2 + 1) : 2 + k - 1 \in 1..n
    BY <1>5
  <2>5. \A k \in 1..(c - 2 + 1) : p[k] = q[k]
    BY <1>5, <2>2, <2>3, <2>4
  <2>6. \A k \in 1..Len(p) : k \in 1..(c - 2 + 1)
    BY <2>2
  <2>7. p \in Seq(Mark) /\ q \in Seq(Mark) /\ Len(p) = Len(q)
    BY <2>2, <2>3, TextIs
  <2> QED
    BY <2>5, <2>6, <2>7, SeqEqual
<1>6. r.at.from - 1 \in Nat /\ r.at.from - 1 <= KeptLen(r)
  BY <1>1
<1>7. SubSeq(Kept(r), 2, r.at.from - 1) = SubSeq(r.text, 2, r.at.from - 1)
  <2>1. \A c \in Nat : c <= KeptLen(r) => SubSeq(Kept(r), 2, c) = SubSeq(r.text, 2, c)
    BY <1>1, <1>3, <1>5
  <2> QED
    BY <1>6, <2>1
<1> QED
  BY <1>2, <1>4, <1>7, Zenon DEF Projection, Projected, Part

(***************************************************************************)
(* PlanFaithful, as generally: the plan's table, cursor, start mode and    *)
(* filter are those the author meant, but for the named layouts            *)
(* (parseSQL, determineCursorColumn, the REPL's pattern).                  *)
(***************************************************************************)
THEOREM PlanIsFaithful == Spec => []PlanFaithful
<1>1. ASSUME StepInv PROVE PlanFaithful
  <2> SUFFICES ASSUME step \in Compiled, ~Hidden(request)
      PROVE  /\ plan.table # MeantTable(request) =>
                  \E i \in Inside(request) : request.text[i].word = "FROM"
             /\ plan.cursor # MeantCursor(request) => CursorLost
             /\ mode = "BEGINNING" /\ MeantMode(request) = "NOW" =>
                  request.text[Len(request.text)].gap # "one"
             /\ mode = "NOW" /\ MeantMode(request) = "BEGINNING" =>
                  SaysNow(Part(request, 1, Body(request.text)))
             /\ plan.cut \/ plan.projection # Projected(request) =>
                  Wide(request) \/ FromInProjection(request) \/ Glued(request)
             /\ ~(Words(Filter(request)) \subseteq Words(plan.where)) => ~WherePlain(request)
    BY Zenon DEF PlanFaithful
  <2>1. /\ Grammatical(request) /\ sql = Kept(request) /\ hint = HintOf(request)
        /\ mode = ModeOf(request) /\ Parses(Kept(request)) /\ PlanIs(plan, Kept(request))
        /\ TableOf(Kept(request)) \in Tables
        /\ plan.cursor = Found /\ Found # "" /\ request.schema[Found] \in Ordered
    BY <1>1, CompiledIs
  <2>2. Subqueries(request.text) = {}
    BY <1>1, CompiledIs, Accepted
  <2>3. ASSUME \A i \in Inside(request) : request.text[i].word # "FROM"
        PROVE  plan.table = MeantTable(request)
    <3>1. TableOf(Kept(request)) = MeantTable(request)
      BY <2>1, <2>3, OnlyTable
    <3> QED
      BY <2>1, <3>1, Zenon DEF PlanIs
  <2>4. ASSUME ~CursorLost PROVE plan.cursor = MeantCursor(request)
    <3>1. hint = Given(request)
      BY <2>1, <2>4, HintIs, Zenon DEF CursorLost
    <3>2. Found = CursorOf(DOMAIN request.schema, Given(request))
      BY <3>1, Zenon DEF Found
    <3> QED
      BY <2>1, <3>2, CursorIs, Zenon
  <2>5. /\ mode = "BEGINNING" /\ MeantMode(request) = "NOW" =>
             request.text[Len(request.text)].gap # "one"
        /\ mode = "NOW" /\ MeantMode(request) = "BEGINNING" =>
             SaysNow(Part(request, 1, Body(request.text)))
    <3>1. Last(request.text) = "NOW" /\ request.text[Len(request.text)].gap = "one" =>
            SaysNow(request.text)
      BY <2>1, NowFound, Zenon
    <3>2. SaysNow(request.text) /\ Last(request.text) # "NOW" =>
            SaysNow(Part(request, 1, Body(request.text)))
      BY <2>1, NowSaid, Zenon
    <3>3. request.front = "repl" => request.mode # "NOW"
      BY <2>1, Zenon DEF Grammatical
    <3>4. request.front \in {"http", "repl"}
      BY <2>1, Zenon DEF Grammatical
    <3>5. mode = "BEGINNING" => ~SaysNow(request.text) /\ request.mode # "NOW"
      BY <2>1, <3>3, <3>4 DEF ModeOf
    <3>6. mode = "NOW" => SaysNow(request.text) \/ request.mode = "NOW"
      BY <2>1 DEF ModeOf
    <3>7. MeantMode(request) = "NOW" <=> Last(request.text) = "NOW" \/ request.mode = "NOW"
      BY DEF MeantMode, Last
    <3> QED
      BY <3>1, <3>2, <3>5, <3>6, <3>7
  <2>7. ASSUME ~Wide(request), ~FromInProjection(request), ~Glued(request)
        PROVE  ~plan.cut /\ plan.projection = Projected(request)
    BY <2>1, <2>7, FirstFrom, NotCut, Zenon DEF PlanIs
  <2>6. ASSUME WherePlain(request) PROVE Words(Filter(request)) \subseteq Words(plan.where)
    <3>1. CASE request.at.source < request.at.where
      <4>1. Words(Filter(request)) \subseteq Words(WhereOf(Kept(request)))
        BY <2>1, <2>2, <2>6, <3>1, FilterKept
      <4> QED
        BY <2>1, <4>1, Zenon DEF PlanIs
    <3>2. CASE ~(request.at.source < request.at.where)
      <4>1. Words(Filter(request)) = {}
        BY <2>1, <3>2, NoFilter
      <4> QED
        BY <4>1, Zenon
    <3> QED
      BY <3>1, <3>2
  <2> QED
    BY <2>3, <2>4, <2>5, <2>6, <2>7, Zenon
<1> QED
  BY <1>1, StepsAreRight, PTL

-----------------------------------------------------------------------------
LEMMA ProjectedLen ==
  ASSUME NEW r, Grammatical(r)
  PROVE  Len(Projected(r)) + 1 = r.at.from - 1
<1>0. r.at.from \in Nat /\ 2 < r.at.from /\ r.at.from <= Len(r.text) /\ Len(r.text) \in Nat
  <2>1. /\ r.at.from \in Nat /\ r.at.source \in Nat /\ r.at.where \in Nat /\ Len(r.text) \in Nat
        /\ r.at.from < r.at.source /\ r.at.source <= r.at.where /\ 2 < r.at.from
        /\ KeptLen(r) \in r.at.where..Len(r.text)
    BY Places
  <2> QED
    BY <2>1
<1>1. ASSUME NEW t \in Texts, t = r.text, NEW c \in Nat, c = r.at.from - 1
      PROVE  Len(SubSeq(t, 2, c)) + 1 = c
  <2>1. c \in Int /\ c <= Len(t) /\ 2 \in Nat \ {0} /\ 2 <= c
    BY <1>0, <1>1
  <2>2. Len(SubSeq(t, 2, c)) = c - 2 + 1
    BY <2>1, Piece
  <2> QED
    BY <2>2
<1>2. r.at.from - 1 \in Nat /\ r.text \in Texts
  BY Places
<1> QED
  BY <1>1, <1>2 DEF Projected, Part

LEMMA EmptyCondition == Condition(<<>>) /\ Words(<<>>) = {}
<1>1. DOMAIN <<>> = {} /\ Len(<<>>) = 0
  OBVIOUS
<1>2. ASSUME NEW t, t = <<>> PROVE Depth(t, 1) = 0
  BY NoneDeep
<1>3. Len(<<>>) + 1 = 1
  BY <1>1
<1> QED
  BY <1>1, <1>2, <1>3 DEF Condition, Words

(***************************************************************************)
(* PollFailureExplained, as generally: a registered query whose first poll *)
(* fails has words the database cannot bind, does not select its cursor    *)
(* column, or has one of the named layouts (BuildStreamingSQL and the      *)
(* executor), whatever the database makes of a projection that was cut.    *)
(***************************************************************************)
THEOREM FailingPollsExplained == Spec => []PollFailureExplained
<1>1. ASSUME StepInv PROVE PollFailureExplained
  <2> SUFFICES ASSUME step = "failing", ~Hidden(request), ~Wide(request), ~Glued(request),
                      (Words(Projected(request)) \cup Words(Filter(request)))
                        \cap request.unbound = {},
                      {"*", plan.cursor} \cap Columns(Projected(request)) # {},
                      ~FromInProjection(request),
                      ~(request.at.source < request.at.where /\ HasTail(request))
               PROVE  FALSE
    BY Zenon DEF PollFailureExplained
  <2>1. step \in Compiled
    BY Zenon DEF Compiled
  <2>2. Grammatical(request) /\ PlanIs(plan, Kept(request)) /\ Subqueries(request.text) = {}
    BY <1>1, <2>1, CompiledIs, Accepted, Zenon
  <2>3. First(request, request.at.from)
    BY <2>2, FirstFrom, Zenon
  <2>4. ~plan.cut /\ plan.projection = Projected(request)
    BY <2>2, <2>3, NotCut, Zenon DEF PlanIs
  <2>5. ProjectionWorks
    <3>1. Len(Projected(request)) + 1 = request.at.from - 1
      BY <2>2, ProjectedLen, Zenon
    <3>2. Depth(Projected(request), request.at.from - 1) = 0
      BY <2>2, <2>3, LexicalIs, Zenon
    <3>3. Words(plan.projection) \cap request.unbound = {}
      BY <2>4, Zenon
    <3> QED
      BY <2>4, <3>1, <3>2, <3>3, Zenon DEF ProjectionWorks
  <2>6. WhereWorks
    <3>1. plan.where = WhereOf(Kept(request))
      BY <2>2, Zenon DEF PlanIs
    <3>2. CASE WhereOf(Kept(request)) = <<>>
      <4>1. Condition(plan.where) /\ Words(plan.where) = {}
        BY <3>1, <3>2, EmptyCondition, Zenon
      <4> QED
        BY <4>1, Zenon DEF WhereWorks
    <3>3. CASE /\ request.at.source < request.at.where
               /\ WhereOf(Kept(request)) = After(Kept(request), request.at.source + 1)
      <4>1. plan.where = Filter(request)
        BY <2>2, <3>1, <3>3, FilterIs, Zenon
      <4>2. Condition(plan.where)
        BY <2>2, <4>1, LexicalIs, Zenon
      <4>3. Words(plan.where) \cap request.unbound = {}
        BY <4>1, Zenon
      <4> QED
        BY <4>2, <4>3, Zenon DEF WhereWorks
    <3> QED
      BY <2>2, <3>2, <3>3, WhereIs, Zenon
  <2> QED
    BY <1>1, <2>4, <2>5, <2>6, Zenon DEF StepInv
<1> QED
  BY <1>1, StepsAreRight, PTL
=============================================================================
