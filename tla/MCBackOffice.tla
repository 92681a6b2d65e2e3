----------------------------- MODULE MCBackOffice ----------------------------
(* Two requests of each kind in the back office.                           *)
EXTENDS BackOffice, TLC

MCAmount == (1 :> 1) @@ (2 :> 3)
MCCurrencyOf == (1 :> "USD") @@ (2 :> "USD")
Body(method, cur, ids, amount, key) ==
    [method |-> method, currency |-> cur, ids |-> ids, amount |-> amount, key |-> key]

\* An amount, a selection under the same key, an amount out of reach, an external payout,
\* a wrong currency.
MCBodies ==
    {Body("WALLET_CREDIT", "USD", {}, 1, "k"),
     Body("WALLET_CREDIT", "USD", {2}, 0, "k"),
     Body("WALLET_CREDIT", "USD", {}, 2, None),
     Body("MANUAL_EXTERNAL", "USD", {1, 2}, 0, None),
     Body("MANUAL_EXTERNAL", "EUR", {1}, 0, None)}

\* Two payloads under one key, and one without a key.
MCTargetBodies ==
    {[details |-> d, method |-> "m1", key |-> "k"] : d \in {"a", "b"}}
    \cup {[details |-> "a", method |-> "m2", key |-> None]}

\* Another price, other methods, an inactive app without a receiving account.
MCAppDocs ==
    {[active |-> TRUE, price |-> 1, account |-> "acc", methods |-> {"m1", "m2"}],
     [active |-> TRUE, price |-> 2, account |-> "acc", methods |-> {"m1"}],
     [active |-> FALSE, price |-> 1, account |-> None, methods |-> {"m2"}]}

\* A foreign balance that a charge brings into debt, and a small one in USD.
MCWallets == {[currency |-> "SAR", balance |-> 0], [currency |-> "USD", balance |-> 1]}

MCOwnerOf == ("x1" :> "v1") @@ ("x2" :> "v1") @@ ("y" :> "v2")
MCOffer(v, p, s) == [supplier |-> v, stock |-> p, semantics |-> s, automatic |-> TRUE]

\* One offer, a second one to be added, and a product linked to the other provider.
MCOpeningOffers == {("o1" :> MCOffer("v1", "x1", "PER_UNIT")) @@ ("o2" :> None)}
MCOfferBodies == {MCOffer("v2", "y", "FIXED_OFFER")}
MCOpeningSold ==
    {[mode |-> mode, automatic |-> TRUE, supplier |-> "v2", stock |-> "y"] :
        mode \in {"LEGACY", "MULTI_PROVIDER"}}

\* A dearer product that turns out to be sold per unit.
MCEntries == {[active |-> TRUE, amount |-> TRUE, price |-> 2, fresh |-> TRUE]}

OfficeSymmetry ==
    Permutations(Clients) \cup Permutations(Reviews) \cup Permutations(Editors)
=============================================================================
