--------------------------- MODULE MCQuicDelivery ---------------------------
(* Two clients.  The first allows any stream, need not keep reading it and *)
(* may stop it; the second allows none.  One sender sends for one query,   *)
(* the other for both.                                                     *)
EXTENDS QuicDelivery, TLC

CONSTANTS c1, c2, a1, a2, q1, q2, s1, s2

MCAddrOf    == c1 :> a1 @@ c2 :> a2
MCQueriesOf == s1 :> {q1} @@ s2 :> {q1, q2}
MCPeerLimit == c1 :> 9 @@ c2 :> 0
=============================================================================
