------------------------- MODULE MCSessionRegistry -------------------------
(* Four connections; the first and the third come from one address. *)
EXTENDS SessionRegistry

CONSTANTS c1, c2, c3, c4, a1, a2, a3

MCConns  == {c1, c2, c3, c4}
MCAddrs  == {a1, a2, a3}
MCAddrOf == [c \in MCConns |-> CASE c = c2 -> a2 [] c = c4 -> a3 [] OTHER -> a1]
=============================================================================
