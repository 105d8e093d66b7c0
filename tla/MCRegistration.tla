--------------------------- MODULE MCRegistration ---------------------------
(***************************************************************************)
(* Statements put together from a small choice of each part.               *)
(***************************************************************************)
EXTENDS Registration

W(gap, word) == [gap |-> gap, word |-> word]
Plain(words) == [i \in DOMAIN words |-> W("one", words[i])]
Under(word)  == W("none", word)

Inner(words)  == <<W("one", "("), Under("SELECT")>> \o Plain(words) \o <<Under(")")>>
Simple        == Inner(<<"x", "FROM", "u">>)
Nested        == Inner(<<"x", "FROM", "u", "WHERE", "y > 1">>)
Extract(from) == <<W("one", "EXTRACT"), Under("("), Under("year"), W("one", from),
                   W("one", "created_at"), Under(")")>>
Two(gap)      == <<W("one", "id"), Under(","), W(gap, "data")>>

Glue(word)    == <<Under(word)>>
Quote(words)  == <<W("one", "'"), Under(words[1])>> \o Plain(Tail(words)) \o <<Under("'")>>
Call(f, args) == <<W("one", f), Under("(")>> \o args \o <<Under(")")>>
Hour          == Call("EXTRACT", <<Under("hour"), W("one", "FROM")>> \o Call("NOW", <<>>))

(* Of each part the usual forms, and others: a plain one of each; what the *)
(* documents forbid; what the searches mistake.                            *)
Leads   == {"none", "wide"}
FromWords  == {W("one", "FROM"), W("one", "from"), W("line", "FROM")}

UsualHeads == {Plain(<<"*">>), Two("one")}
Heads ==
  UsualHeads \cup
  { Two("wide"), Plain(<<"data">>), Plain(<<"data", "AS", "id">>), Plain(<<"unknown", "id">>),
    Call("COUNT", Glue("*")), Call("MAX", Glue("id")), Call("MAX", Glue("id")) \o Plain(<<"id">>),
    Plain(<<"DISTINCT", "*">>), Plain(<<"rank", "OVER", "w">>), Simple, Nested,
    Extract("FROM"), Extract("from") \o <<Under(",")>> \o Plain(<<"id">>),
    <<W("one", "id"), Under(",")>> \o Extract("from"),
    Glue("*"), Glue("*") \o <<Under(",")>> \o Plain(<<"preselect", "x">>),
    Two("one") \o <<Under(",")>> \o Plain(<<"valid_from", "nowadays">>) }

UsualSources == {Plain(<<"t">>), Plain(<<"t", "e">>)}
Sources ==
  UsualSources \cup
  { <<W("one", "t"), Under(","), W("one", "u")>>, Plain(<<"t", "JOIN", "u">>),
    Plain(<<"unknown">>), Plain(<<"nowcast">>), Simple }

Where(gap, c) == <<W(gap, "WHERE")>> \o c
UsualConditions == {<<>>, Where("one", Plain(<<"data > 1">>))}
OneLine ==
  UsualConditions
    \cup { Where("one", c) :
             c \in { Plain(<<"alias.data > 1">>), Plain(<<"data ? 'error'">>),
                     Plain(<<"data =">>) \o Quote(<<"JOIN", "us">>),
                     Plain(<<"data =">>) \o Quote(<<"from", "NOW", "on">>),
                     <<W("one", "("), Under("selected > 1"), Under(")")>>,
                     Plain(<<"created_at >">>) \o Call("NOW", <<>>) \o Plain(<<"- 1">>),
                     Plain(<<"created_at >">>) \o Hour,
                     Plain(<<"x", "IN">>) \o Simple,
                     Plain(<<"(", "y > 1", ")", "AND", "x", "IN">>) \o Nested } }
Conditions == OneLine \cup {Where("line", Tail(c)) : c \in OneLine \ {<<>>}}

Orders == {<<>>, Plain(<<"GROUP BY", "id">>), Plain(<<"ORDER BY", "id">>),
           Plain(<<"ORDER BY", "id">>) \o <<Under(",")>> \o Plain(<<"data">>)}
Starts ==
  { <<>>, Plain(<<"FROM", "NOW">>), Plain(<<"FROM", "BEGINNING">>),
    <<W("one", "FROM"), W("wide", "NOW")>> }
UsualTails == {<<<<>>, <<>>>>, <<<<>>, Plain(<<"FROM", "NOW">>)>>}
Tails      == Orders \X Starts

Usual == [id |-> "BIGINT", data |-> "JSON", created_at |-> "TIMESTAMP"]
Schemas ==
  { Usual,
    [id |-> "VARCHAR", data |-> "JSON", created_at |-> "TIMESTAMP"],
    [data |-> "JSON", created_at |-> "TIMESTAMP"],
    [data |-> "JSON", seq |-> "BIGINT"] }
Hints == {NoHint, "created_at", "seq"}

(* A request from its parts. *)
Ask(front, lead, head, from, source, cond, tail, field, given, schema) ==
  LET cursor == IF front = "repl" /\ given # NoHint
                THEN Plain(<<"WITH CURSOR", given>>) ELSE <<>>
      f == 2 + Len(head)
  IN  [ front   |-> front,
        text    |-> <<W(lead, "SELECT")>> \o head \o <<from>> \o source \o cond
                      \o tail[1] \o cursor \o tail[2],
        at      |-> [ from |-> f, source |-> f + Len(source),
                      where |-> f + Len(source) + Len(cond) ],
        mode    |-> field,
        hint    |-> IF front = "http" THEN given ELSE NoHint,
        schema  |-> schema,
        unbound |-> {"alias.data > 1", "data ? 'error'", "unknown"} ]

(* Every layout of which at most two parts are not usual, over the usual   *)
(* table.  A line break cannot reach the REPL, nor can white space in      *)
(* front.                                                                  *)
Parts == Leads \X Heads \X FromWords \X Sources \X Conditions \X Tails
Odd(p) ==
  {k \in 1..6 :
     p[k] \notin << {"none"}, UsualHeads, {W("one", "FROM")}, UsualSources, UsualConditions,
                   UsualTails >>[k]}

Layouts ==
  UNION { {Ask("http", p[1], p[2], p[3], p[4], p[5], p[6], "", NoHint, Usual)}
            \cup (IF p[1] = "none" /\ p[3].gap = "one" /\ p[5] \in OneLine
                  THEN {Ask("repl", "none", p[2], p[3], p[4], p[5], p[6], "", given, Usual) :
                          given \in {NoHint, "created_at"}}
                  ELSE {}) :
          p \in {q \in Parts : Cardinality(Odd(q)) <= 2} }

(* Every table and option, for statements laid out as in the documents. *)
Options ==
  { Ask(front, "none", h, W("one", "FROM"), s, c, t, field, given, schema) :
      front \in {"http", "repl"}, h \in UsualHeads, s \in UsualSources,
      c \in UsualConditions, t \in {q \in Tails : q[1] = <<>>}, field \in {"", "NOW"},
      given \in Hints, schema \in Schemas }

MCRequests == Layouts \cup {r \in Options : r.front = "repl" => r.mode = ""}

MCBeginLike == {<<"nowcast", "NOW">>, <<"nowadays", "NOW">>, <<"selected > 1", "SELECT">>}
MCEndLike   == {<<"valid_from", "FROM">>, <<"preselect", "SELECT">>}
=============================================================================
