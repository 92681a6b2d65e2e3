----------------------------- MODULE MCCatalogue -----------------------------
(* Two workers, two listed products, of which the provider withdraws one   *)
(* and raises the other.                                                   *)
EXTENDS Catalogue, TLC

MCAt == [c \in Clients |-> CHOOSE w \in Workers : TRUE]
E(price) == [price |-> price, active |-> TRUE]
MCListings == {("p1" :> E(1)) @@ ("p2" :> E(1)), ("p1" :> E(2)) @@ ("p2" :> None)}
=============================================================================
