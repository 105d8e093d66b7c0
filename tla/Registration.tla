---------------------------- MODULE Registration ----------------------------
(***************************************************************************)
(* From a submitted statement to a streaming query: the REPL's pattern     *)
(* (internal/repl/repl.go), the POST handler (internal/httpapi), and       *)
(* CompileStreamPlan with its string searches (internal/query/             *)
(* streamplan.go), up to the first poll of the plan.                       *)
(*                                                                         *)
(* Texts, and what was meant by a request, are described in Statement.     *)
(*                                                                         *)
(* KeepNow, DistinctForgotten and CreatedAtFirst are faulty versions of    *)
(* what follows them, used by nothing.                                     *)
(***************************************************************************)
EXTENDS Statement

CONSTANTS
  Requests,  \* what may be submitted
  Tables     \* the tables of the database

(* Statements follow the grammar; no table has the name of a start mode,   *)
(* or none.                                                                *)
ASSUME RegistrationAssumption ==
  /\ \A r \in Requests : Grammatical(r)
  /\ Tables \subseteq STRING \ {"", "NOW", "BEGINNING"}

VARIABLES
  step,     \* how far the request is
  request,  \* the request
  sql,      \* the statement handed to Manager.Register
  hint,     \* cursorColumnHint
  mode,     \* the start mode
  plan      \* the StreamPlan, as far as it is compiled

vars == <<step, request, sql, hint, mode, plan>>

NoPlan == [table |-> "", projection |-> <<>>, cut |-> FALSE, where |-> <<>>, cursor |-> ""]

Init ==
  /\ step = "received"
  /\ request \in Requests
  /\ sql = <<>>
  /\ hint = NoHint
  /\ mode = "BEGINNING"
  /\ plan = NoPlan

Go(to)  == step' = to /\ UNCHANGED request
Refused == Go("refused") /\ UNCHANGED <<sql, hint, mode, plan>>
-----------------------------------------------------------------------------
(* What a search for " w " finds, in the text as it stands or with all     *)
(* white space collapsed.                                                  *)
AnyGap == {"one", "wide", "line"}

Upper(t) ==
  [i \in DOMAIN t |->
     [gap |-> t[i].gap, word |-> IF t[i].word = "from" THEN "FROM" ELSE t[i].word]]

Finds(t, w, gaps) ==
  {i \in 1..(Len(t) - 1) : t[i].word = w /\ t[i].gap \in gaps /\ t[i + 1].gap \in gaps}

(* "FROM NOW" stands in the text, with one space and in any case, be it as *)
(* the end of one word and the beginning of the next.                      *)
SaysNow(t) ==
  \E i \in 1..(Len(t) - 1) :
    /\ EndsIn(Upper(t)[i].word, "FROM")
    /\ t[i + 1].gap = "one" /\ BeginsWith(t[i + 1].word, "NOW")
-----------------------------------------------------------------------------
(* registerQuery takes the statement as it comes. *)
ReadHttp ==
  /\ step = "received"
  /\ request.front = "http"
  /\ sql' = request.text
  /\ hint' = request.hint
  /\ mode' = IF request.mode = "NOW" \/ SaysNow(request.text) THEN "NOW" ELSE "BEGINNING"
  /\ Go("read")
  /\ UNCHANGED plan

(* registerRe takes FROM NOW off the end, then WITH CURSOR and its column; *)
(* the mode is looked for in the whole line.                               *)
EndsWith(t, ws) ==
  /\ Len(t) > Len(ws)
  /\ \A k \in DOMAIN ws : Upper(t)[Len(t) - Len(ws) + k].word = ws[k]

Shorter(t, n) == SubSeq(t, 1, Len(t) - n)

KeepNow(t)    == t
WithoutNow(t) == IF EndsWith(t, <<"FROM", "NOW">>) THEN Shorter(t, 2) ELSE t

NamesCursor(t) == Len(t) > 2 /\ t[Len(t) - 1].word = "WITH CURSOR"

ReadRepl ==
  /\ step = "received"
  /\ request.front = "repl"
  /\ LET t == WithoutNow(request.text)
     IN  IF NamesCursor(t)
         THEN sql' = Shorter(t, 2) /\ hint' = t[Len(t)].word
         ELSE sql' = t /\ hint' = NoHint
  /\ mode' = IF SaysNow(request.text) THEN "NOW" ELSE "BEGINNING"
  /\ Go("read")
  /\ UNCHANGED plan
-----------------------------------------------------------------------------
(* validateSQL: words that may appear nowhere, and hasSubqueries, which    *)
(* for each parenthesis that opens after FROM looks behind the first one.  *)
Forbidden == {"JOIN", "GROUP BY", "DISTINCT", "OVER"}

HasSubqueries(t) ==
  LET froms  == Finds(Upper(t), "FROM", AnyGap)
      s      == After(t, Min(froms))
      parens == {i \in DOMAIN s : s[i].word = "("}
  IN  /\ froms # {}
      /\ \E i \in parens : Depth(s, i) >= 0
      /\ Min(parens) < Len(s) /\ BeginsWith(s[Min(parens) + 1].word, "SELECT")

DistinctForgotten(t) == Words(t) \cap (Forbidden \ {"DISTINCT"}) = {} /\ ~HasSubqueries(t)
Allowed(t)           == Words(t) \cap Forbidden = {} /\ ~HasSubqueries(t)

ValidateSQL ==
  /\ step = "read"
  /\ \/ ~Allowed(sql) /\ Refused
     \/ Allowed(sql) /\ Go("valid") /\ UNCHANGED <<sql, hint, mode, plan>>

(* parseSQL.  The projection stands between the first "SELECT " and the    *)
(* first FROM; it is cut out of the text at places counted in the          *)
(* collapsed text: white space before it that was collapsed shifts it.     *)
(* With no room between the two the slice panics.                          *)
Froms(t)      == Finds(Upper(t), "FROM", AnyGap)
Selects(t)    == {i \in 1..(Len(t) - 1) : EndsIn(t[i].word, "SELECT") /\ t[i + 1].gap \in AnyGap}
NoRoom(t)     == Froms(t) # {} /\ Selects(t) # {} /\ Min(Froms(t)) <= Min(Selects(t)) + 1
Projection(t) == SubSeq(t, Min(Selects(t)) + 1, Min(Froms(t)) - 1)
Cut(t) == \/ t[1].gap # "none"
          \/ \E i \in 2..(Min(Froms(t)) - 1) : t[i].gap = "wide"

FromSection(t) ==
  LET s == After(t, Min(Froms(t)))
      w == Finds(s, "WHERE", AnyGap)
  IN  IF w = {} THEN s ELSE SubSeq(s, 1, Min(w) - 1)

SingleTable(t) ==
  "," \notin Words(FromSection(t)) /\ Head(FromSection(t)).word # "("

(* The table is the next field after a FROM in capitals and spaces; the    *)
(* condition is all that follows a WHERE between spaces.                   *)
InPlace(t) == Finds(t, "FROM", Spaces)
TableOf(t) ==
  LET i == Min(InPlace(t)) + 1
  IN  IF i < Len(t) /\ t[i + 1].gap = "none" THEN "" ELSE t[i].word

WhereOf(t) ==
  LET w == Finds(t, "WHERE", Spaces) IN IF w = {} THEN <<>> ELSE After(t, Min(w))

Parses(t) == Froms(t) # {} /\ Selects(t) # {} /\ InPlace(t) # {} /\ SingleTable(t)

ParseSQL ==
  /\ step = "valid"
  /\ \/ NoRoom(sql) /\ Go("panicked") /\ UNCHANGED <<sql, hint, mode, plan>>
     \/ ~NoRoom(sql) /\ ~Parses(sql) /\ Refused
     \/ /\ ~NoRoom(sql) /\ Parses(sql)
        /\ plan' = [ table |-> TableOf(sql), projection |-> Projection(sql), cut |-> Cut(sql),
                     where |-> WhereOf(sql), cursor |-> "" ]
        /\ Go("parsed")
        /\ UNCHANGED <<sql, hint, mode>>
-----------------------------------------------------------------------------
(* determineCursorColumn, and the check of its type that comes after. *)
CreatedAtFirst(columns, given) ==
  IF given # NoHint THEN IF given \in columns THEN given ELSE ""
  ELSE IF "created_at" \in columns THEN "created_at"
  ELSE IF "id" \in columns THEN "id" ELSE ""

CursorOf(columns, given) ==
  IF given # NoHint THEN IF given \in columns THEN given ELSE ""
  ELSE IF "id" \in columns THEN "id"
  ELSE IF "created_at" \in columns THEN "created_at" ELSE ""

Ordered == {"BIGINT", "TIMESTAMP"}
Found   == CursorOf(DOMAIN request.schema, hint)
Resolves ==
  plan.table \in Tables /\ Found # "" /\ request.schema[Found] \in Ordered

Resolve ==
  /\ step = "parsed"
  /\ \/ ~Resolves /\ Refused
     \/ /\ Resolves
        /\ plan' = [plan EXCEPT !.cursor = Found]
        /\ Go("registered")
        /\ UNCHANGED <<sql, hint, mode>>

(* The database fails while the table is looked up or described. *)
DatabaseFails ==
  /\ step = "parsed"
  /\ Go("failed")
  /\ UNCHANGED <<sql, hint, mode, plan>>

(***************************************************************************)
(* The first poll of BuildStreamingSQL's statement, whose words no one has *)
(* looked at before.  The database refuses those it cannot bind, a         *)
(* projection that is not whole, and a condition with another clause       *)
(* behind it; the executor refuses a result without the cursor column.     *)
(* What is left of a projection that was cut may be one or not.            *)
(***************************************************************************)
ProjectionWorks ==
  /\ Words(plan.projection) \cap request.unbound = {}
  /\ Depth(plan.projection, Len(plan.projection) + 1) = 0
  /\ {"*", plan.cursor} \cap Columns(plan.projection) # {}

WhereWorks == Words(plan.where) \cap request.unbound = {} /\ Condition(plan.where)

FirstPoll ==
  /\ step = "registered"
  /\ \E listed \in IF plan.cut THEN BOOLEAN ELSE {ProjectionWorks} :
       Go(IF listed /\ WhereWorks THEN "streaming" ELSE "failing")
  /\ UNCHANGED <<sql, hint, mode, plan>>

Next ==
  \/ ReadHttp
  \/ ReadRepl
  \/ ValidateSQL
  \/ ParseSQL
  \/ Resolve
  \/ DatabaseFails
  \/ FirstPoll

Spec == Init /\ [][Next]_vars
-----------------------------------------------------------------------------
Compiled == {"registered", "streaming", "failing"}

(* WITH CURSOR in front of FROM BEGINNING: the pattern finds neither. *)
CursorLost == {"WITH CURSOR", "BEGINNING"} \subseteq Words(sql)

(***************************************************************************)
(* The verdict is right.  What the documents forbid is refused, except an  *)
(* aggregate, and a subquery the search for one does not reach, which      *)
(* hides what follows it from the search for a second table.  What they    *)
(* allow is refused only for a keyword in quotes, a word in a parenthesis  *)
(* that begins like SELECT, no space behind SELECT, a FROM that is not in  *)
(* capitals between spaces or not the first, a list in ORDER BY, an        *)
(* unknown table, a lost cursor column, or because an id that is no BIGINT *)
(* hides created_at.  The compiler panics only for want of that space,     *)
(* with another word that ends in SELECT further on.                       *)
(***************************************************************************)
VerdictRight ==
  /\ step \in Compiled =>
       /\ Constructs(request) \cap Unsupported = {}
       /\ Constructs(request) \subseteq {"aggregate"} \/ Hidden(request)
  /\ step = "panicked" =>
       /\ Glued(request)
       /\ \E i \in DOMAIN request.text : i # 1 /\ EndsIn(request.text[i].word, "SELECT")
  /\ step = "refused" =>
       \/ ~(Constructs(request) \subseteq {"aggregate"})
       \/ Words(request.text) \cap Unsupported # {} \/ Lookalike(request)
       \/ Glued(request) \/ ListBehind(request)
       \/ ~FromPlain(request) \/ FromInProjection(request)
       \/ MeantTable(request) \notin Tables
       \/ MeantCursor(request) = "" \/ CursorLost
       \/ hint = NoHint /\ MeantCursor(request) = "created_at" /\ "id" \in DOMAIN request.schema

(***************************************************************************)
(* The plan is what was meant: its table, its cursor, its start mode, its  *)
(* projection and its filter.  A table is mistaken only for another FROM   *)
(* in capitals, the cursor column lost only in front of FROM BEGINNING.    *)
(* NOW is missed only when FROM NOW is not written with one space, and     *)
(* taken for BEGINNING's place only when the statement says FROM NOW for   *)
(* something else: a call of NOW(), a name that begins so, a quotation.    *)
(* The projection is another only for extra white space, a FROM of its     *)
(* own, or no space behind SELECT; the filter is lost, silently, only when *)
(* WHERE begins or ends a line.                                            *)
(***************************************************************************)
PlanFaithful ==
  step \in Compiled /\ ~Hidden(request) =>
    /\ plan.table # MeantTable(request) => \E i \in Inside(request) : request.text[i].word = "FROM"
    /\ plan.cursor # MeantCursor(request) => CursorLost
    /\ mode = "BEGINNING" /\ MeantMode(request) = "NOW" =>
         request.text[Len(request.text)].gap # "one"
    /\ mode = "NOW" /\ MeantMode(request) = "BEGINNING" =>
         SaysNow(Part(request, 1, Body(request.text)))
    /\ plan.cut \/ plan.projection # Projected(request) =>
         Wide(request) \/ FromInProjection(request) \/ Glued(request)
    /\ ~(Words(Filter(request)) \subseteq Words(plan.where)) => ~WherePlain(request)

(***************************************************************************)
(* A query that passed registration and fails at every poll is one the     *)
(* database cannot bind, does not select its cursor column, was laid out   *)
(* with extra white space or with none behind SELECT, uses FROM in its     *)
(* projection, or has a clause behind its condition.                       *)
(***************************************************************************)
PollFailureExplained ==
  step = "failing" /\ ~Hidden(request) =>
    \/ (Words(Projected(request)) \cup Words(Filter(request))) \cap request.unbound # {}
    \/ {"*", plan.cursor} \cap Columns(Projected(request)) = {}
    \/ Wide(request) \/ Glued(request)
    \/ FromInProjection(request)
    \/ request.at.source < request.at.where /\ HasTail(request)
=============================================================================
