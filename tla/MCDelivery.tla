----------------------------- MODULE MCDelivery -----------------------------
(***************************************************************************)
(* A small instance of Delivery.  Two of the four rows share a cursor      *)
(* value and are alike otherwise; that of the first does not parse.        *)
(* Clients are alike.                                                      *)
(***************************************************************************)
EXTENDS Delivery, TLC

CONSTANTS first, twin1, twin2, last

MCRows == {first, twin1, twin2, last}

WithTie == [r \in MCRows |-> IF r = first THEN 1 ELSE IF r = last THEN 3 ELSE 2]

Alike == Permutations(Conns) \cup Permutations({twin1, twin2})
=============================================================================
