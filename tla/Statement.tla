----------------------------- MODULE Statement -----------------------------
(***************************************************************************)
(* What a client asks for, as the documents describe it: the grammar of    *)
(* docs/queries.md:36-40 with the layouts it leaves open, and what the     *)
(* author of a statement means by it.  It is what Registration is compared *)
(* with; of the program's own there is only Depth, by which it looks for   *)
(* subqueries, and Condition, what it takes a WHERE clause to be.          *)
(*                                                                         *)
(* A text is a sequence of words, each with the gap before it: none, one   *)
(* space, several spaces, or a line break.  The words are keywords, names, *)
(* punctuation, and whole expressions without parentheses.  Keywords are   *)
(* written in capitals, but for "from": its case is the only one a search  *)
(* distinguishes.                                                          *)
(***************************************************************************)
EXTENDS Sequences, FiniteSetsExt

CONSTANTS
  NoHint,     \* no cursor column given
  BeginLike,  \* <<w, k>>: the word w begins with the keyword k, nowcast with NOW
  EndLike     \* <<w, k>>: the word w ends in it, valid_from in FROM

ASSUME StatementAssumption ==
  \A w \in {"FROM", "from", "BEGINNING"} : <<w, "NOW">> \notin BeginLike

Gaps   == {"none", "one", "wide", "line"}
Spaces == {"one", "wide"}
Texts  == Seq([gap : Gaps, word : STRING])

Words(t)    == {t[i].word : i \in DOMAIN t}
After(t, i) == SubSeq(t, i + 1, Len(t))

SaysFrom(t, i) == t[i].word \in {"FROM", "from"}

BeginsWith(w, k) == w = k \/ <<w, k>> \in BeginLike
EndsIn(w, k)     == w = k \/ <<w, k>> \in EndLike

(* How many parentheses are open in front of word i. *)
Depth(t, i) ==
  Cardinality({j \in 1..(i - 1) : t[j].word = "("})
    - Cardinality({j \in 1..(i - 1) : t[j].word = ")"})

(* Word i stands in quotes. *)
Quoted(t, i) == Cardinality({j \in 1..(i - 1) : t[j].word = "'"}) % 2 = 1

(* A condition, and nothing behind it. *)
Clauses == {"FROM", "from", "ORDER BY", "WITH CURSOR"}
Condition(t) ==
  /\ \A i \in DOMAIN t : t[i].word \in Clauses => Depth(t, i) > 0 \/ Quoted(t, i)
  /\ Depth(t, Len(t) + 1) = 0

(* What the columns of a select list are called.  An item is called by its *)
(* last word, its name or its alias; one that ends in a parenthesis has no *)
(* name to rely on.                                                        *)
Columns(t) ==
  {t[i].word : i \in {j \in DOMAIN t :
                        /\ Depth(t, j) = 0
                        /\ j = Len(t) \/ t[j + 1].word = ","}}

Subqueries(t) == {i \in 1..(Len(t) - 1) : t[i].word = "(" /\ t[i + 1].word = "SELECT"}
-----------------------------------------------------------------------------
(***************************************************************************)
(* A request is a record [front, text, at, mode, hint, schema, unbound].   *)
(* Its text is SELECT, a projection, FROM at at.from, a source up to       *)
(* at.source, a WHERE and its condition up to at.where (at.source, if      *)
(* there is none), ORDER BY or GROUP BY, WITH CURSOR with its column, and  *)
(* FROM NOW or FROM BEGINNING; all are optional from WHERE on.  Unbound    *)
(* are the words that make no sense to the database over the bare table:   *)
(* unknown columns, comparisons of unlike types, names of an alias, a "?"  *)
(* that is one placeholder more than the program fills.                    *)
(***************************************************************************)
Part(r, i, j)  == SubSeq(r.text, i, j)
Projected(r)   == Part(r, 2, r.at.from - 1)
Source(r)      == Part(r, r.at.from + 1, r.at.source)
Filter(r)      == Part(r, r.at.source + 2, r.at.where)

HasStart(t)  == t[Len(t)].word \in {"NOW", "BEGINNING"}
Body(t)      == IF HasStart(t) THEN Len(t) - 2 ELSE Len(t)
HasCursor(t) == t[Body(t) - 1].word = "WITH CURSOR"
OrderEnd(t)  == IF HasCursor(t) THEN Body(t) - 2 ELSE Body(t)

(* The table, the cursor, the mode, and what the documents forbid. *)
MeantTable(r) == r.text[r.at.from + 1].word

Increasing == {"BIGINT", "TIMESTAMP"}
Fits(r, c) == c \in DOMAIN r.schema /\ r.schema[c] \in Increasing

Given(r) ==
  IF r.front = "http" THEN r.hint
  ELSE IF HasCursor(r.text) THEN r.text[Body(r.text)].word ELSE NoHint

MeantCursor(r) ==
  IF Given(r) # NoHint THEN IF Fits(r, Given(r)) THEN Given(r) ELSE ""
  ELSE IF Fits(r, "id") THEN "id"
  ELSE IF Fits(r, "created_at") THEN "created_at" ELSE ""

MeantMode(r) ==
  IF r.text[Len(r.text)].word = "NOW" \/ r.mode = "NOW" THEN "NOW" ELSE "BEGINNING"

Unsupported == {"JOIN", "GROUP BY", "DISTINCT", "OVER"}
Aggregates  == {"COUNT", "SUM", "AVG", "MIN", "MAX"}

Spoken(t)     == {t[i].word : i \in {j \in DOMAIN t : ~Quoted(t, j)}}
Aggregated(r) ==
  \E i \in 2..(r.at.from - 2) : r.text[i].word \in Aggregates /\ r.text[i + 1].word = "("

Constructs(r) ==
  (Spoken(r.text) \cap Unsupported)
    \cup (IF "," \in Words(Source(r)) THEN {"two tables"} ELSE {})
    \cup (IF Subqueries(r.text) # {} THEN {"subquery"} ELSE {})
    \cup (IF Aggregated(r) THEN {"aggregate"} ELSE {})
-----------------------------------------------------------------------------
(* How it is laid out. *)
Inside(r) ==
  {i \in DOMAIN r.text :
     SaysFrom(r.text, i) /\ i # r.at.from /\ ~(HasStart(r.text) /\ i = Len(r.text) - 1)}
FromInProjection(r) == \E i \in Inside(r) : i < r.at.from

Between(r, i) == r.text[i].gap \in Spaces /\ r.text[i + 1].gap \in Spaces
FromPlain(r)  == r.text[r.at.from].word = "FROM" /\ Between(r, r.at.from)
WherePlain(r) == r.at.source < r.at.where => Between(r, r.at.source + 1)
Glued(r)      == r.text[2].gap = "none"
Wide(r) ==
  r.text[1].gap # "none" \/ \E i \in 2..(r.at.from - 1) : r.text[i].gap = "wide"

(* A list in ORDER BY with no WHERE in front of it, and a parenthesis with *)
(* a word behind it that begins like SELECT.                               *)
ListBehind(r) ==
  /\ r.at.source = r.at.where
  /\ \E i \in DOMAIN r.text : r.at.where < i /\ r.text[i].word = ","
Lookalike(r) ==
  \E i \in 1..(Len(r.text) - 1) :
    r.text[i].word = "(" /\ BeginsWith(r.text[i + 1].word, "SELECT")

(* A clause stands behind the condition that the REPL does not take off. *)
HasTail(r) ==
  \E i \in (r.at.where + 1)..Len(r.text) :
    \/ r.text[i].word \in {"ORDER BY", "GROUP BY", "BEGINNING"}
    \/ r.front = "http" /\ r.text[i].word = "NOW"

(***************************************************************************)
(* A subquery that cannot be missed: it is behind the first parenthesis    *)
(* behind FROM; or it is in the projection, with the first FROM of the     *)
(* text, in capitals between spaces, and a table in front of a             *)
(* parenthesis.                                                            *)
(***************************************************************************)
First(r, i) == \A j \in 1..(i - 1) : ~SaysFrom(r.text, j)

Reached(r) ==
  \/ /\ First(r, r.at.from)
     /\ \E i \in Subqueries(r.text) :
          /\ r.at.from < i
          /\ \A j \in (r.at.from + 1)..(i - 1) : r.text[j].word \notin {"(", ")"}
  \/ \E i \in 2..(r.at.from - 2) :
       /\ First(r, i)
       /\ r.text[i].word = "FROM" /\ Between(r, i)
       /\ r.text[i + 2].gap = "none"

Hidden(r) == Subqueries(r.text) # {} /\ ~Reached(r)
-----------------------------------------------------------------------------
(* The parts follow one another, and white space stands between them.      *)
Ordering(r) ==
  /\ r.text \in Texts
  /\ r.at \in [from : Nat, source : Nat, where : Nat]
  /\ 2 < r.at.from /\ r.at.from < r.at.source
  /\ r.at.source <= r.at.where /\ r.at.where <= OrderEnd(r.text)
  /\ r.text[1].word = "SELECT" /\ ~SaysFrom(r.text, 2)
  /\ SaysFrom(r.text, r.at.from)
  /\ r.at.source < r.at.where =>
       r.at.source + 2 <= r.at.where /\ r.text[r.at.source + 1].word = "WHERE"
  /\ \A i \in {r.at.from, r.at.from + 1} \cup (OrderEnd(r.text) + 1)..Len(r.text) :
       r.text[i].gap # "none"
  /\ \A i \in {r.at.source + 1, r.at.source + 2, r.at.where + 1} \cap 1..Len(r.text) :
       r.text[i].gap # "none"

(* Behind the condition; a statement sent by HTTP has no WITH CURSOR. *)
Closing(r) ==
  LET t == r.text IN
  /\ r.at.where < OrderEnd(t) => t[r.at.where + 1].word \in {"ORDER BY", "GROUP BY"}
  /\ HasCursor(t) => r.front = "repl" /\ t[Body(t)].word \notin Unsupported
  /\ HasStart(t) => SaysFrom(t, Len(t) - 1)
  /\ \A i \in DOMAIN t :
       /\ t[i].word = "WITH CURSOR" => i = Body(t) - 1
       /\ r.at.where < i => t[i].word # "SELECT"

(* A keyword stands at its own place, unless parentheses or quotes are     *)
(* around it; quotes are around words only.                                *)
Lexical(r) ==
  LET t == r.text IN
  /\ \A i \in DOMAIN t :
       /\ t[i].word = "WHERE" => i = r.at.source + 1
       /\ Quoted(t, i) => t[i].word \notin {"(", ")", ","}
  /\ t[r.at.from + 1].word # "("
  /\ \A i \in (r.at.from + 2)..r.at.source : t[i].gap # "none" \/ t[i].word = ","
  /\ First(r, r.at.from) => Depth(Projected(r), r.at.from - 1) = 0
  /\ Condition(Filter(r))

Grammatical(r) ==
  /\ r.front \in {"http", "repl"}
  /\ r.front = "repl" => r.mode # "NOW"
  /\ DOMAIN r.schema \subseteq STRING \ {""}
  /\ r.unbound \subseteq STRING
  /\ Ordering(r)
  /\ Closing(r)
  /\ Subqueries(r.text) = {} => Lexical(r)
=============================================================================
