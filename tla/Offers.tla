-------------------------------- MODULE Offers --------------------------------
(***************************************************************************)
(* One product and the offers of several providers for it: the             *)
(* administrators who map, edit and remove offers (productProviderOffer.   *)
(* service.js), the choice of the cheapest offer for an order              *)
(* (providerOfferRouting.service.js, order.service.js), and the placement  *)
(* of the order with what was chosen, or, for a product in LEGACY mode,    *)
(* with the product's own provider (orderFulfillment.service.js).          *)
(*                                                                         *)
(* A document of a provider's catalogue that is inactive stands for one    *)
(* whose quantity range or price is out of question too; an offer in a     *)
(* currency other than USD is like one that needs a quote.  Which of the   *)
(* equally cheap offers wins is left open.                                 *)
(***************************************************************************)
EXTENDS Documents, Integers

CONSTANTS
    Checkouts,      \* the orders of the product
    Quantities,     \* they may ask for
    Suppliers,      \* the Provider documents
    Stock,          \* the ProviderProduct documents, which are never deleted
    OwnerOf,        \* the provider of each
    Entries,        \* what a synchronisation may make of one
    OfferIds,
    OpeningOffers,  \* the offers at the start
    OpeningSold,    \* the product at the start
    OfferBodies,    \* offers administrators add
    MaxSyncs        \* bound on the changes a synchronisation makes

ASSUME OffersAssumption ==
    /\ OwnerOf \in [Stock -> Suppliers]
    /\ Quantities \subseteq Nat \ {0} /\ MaxSyncs \in Nat
    /\ None \notin Stock \cup Suppliers \cup OfferIds

VARIABLES
    supplier,       \* "active", "inactive" or "deleted"
    listed,         \* the ProviderProduct documents
    offer,          \* the ProductProviderOffer documents, or None
    sold,           \* the Product document
    checkout,       \* what each order is doing
    desk,           \* what each administrator is doing
    syncs

offersVars == <<supplier, listed, offer, sold, checkout, desk, syncs>>

-----------------------------------------------------------------------------

Semantics == {"FIXED_OFFER", "PER_UNIT", "QUOTE_REQUIRED"}

\* `amount` is the catalogue's word for a price per unit; `fresh`: synchronised within
\* the offer's maximum age.
ASSUME EntriesAssumption ==
    Entries \subseteq [active : BOOLEAN, amount : BOOLEAN, price : Nat \ {0}, fresh : {TRUE}]

\* `automatic` is enabled and allowAutomaticRouting.
OfferDoc == [supplier : Suppliers, stock : Stock, semantics : Semantics, automatic : BOOLEAN]

SoldDoc ==
    [mode : {"LEGACY", "MULTI_PROVIDER"}, automatic : BOOLEAN,
     supplier : Suppliers \cup {None}, stock : Stock \cup {None}]

ASSUME OpeningsAssumption ==
    /\ OpeningOffers \subseteq [OfferIds -> OfferDoc \cup {None}]
    /\ OpeningSold \subseteq SoldDoc /\ OfferBodies \subseteq OfferDoc

\* What buildRoutingSnapshot returns.
Snapshot ==
    [offer : OfferIds, supplier : Suppliers, stock : Stock, cost : Nat, price : Nat,
     perUnit : BOOLEAN]

ASSUME SnapshotsAssumption == None \notin Snapshot

NewCheckout ==
    [pc |-> "new", mode |-> None, quantity |-> 0, adapter |-> None, offers |-> None,
     suppliers |-> None, stock |-> None, choice |-> None, sent |-> None]

NewDesk == [pc |-> "new", offer |-> None, copy |-> None, edited |-> None]

OffersInit ==
    /\ supplier = [v \in Suppliers |-> "active"]
    /\ listed = [p \in Stock |-> [active |-> TRUE, amount |-> FALSE, price |-> 1, fresh |-> TRUE]]
    /\ offer \in OpeningOffers
    /\ sold \in OpeningSold
    /\ checkout = [b \in Checkouts |-> NewCheckout]
    /\ desk = [r \in Reviews |-> NewDesk]
    /\ syncs = 0

DesksStay == UNCHANGED <<supplier, listed, offer, sold, desk, syncs>>
CheckoutsStay == UNCHANGED <<supplier, listed, checkout, syncs>>

-----------------------------------------------------------------------------
(* What may be mapped and what may be routed.                              *)

\* A fixed total for what the provider sells per unit.
hasPriceSemanticsMismatch(entry, semantics) == entry.amount /\ semantics = "FIXED_OFFER"

\* assertRelation and assertPriceSemantics.
Related(doc) ==
    /\ supplier[doc.supplier] # "deleted" /\ OwnerOf[doc.stock] = doc.supplier
    /\ ~hasPriceSemanticsMismatch(listed[doc.stock], doc.semantics)

\* The schema's hook, on the document as the request is about to save it.
validateRoutingMetadata(doc) ==
    /\ doc.automatic => doc.semantics # "QUOTE_REQUIRED"
    /\ OwnerOf[doc.stock] = doc.supplier
    /\ ~hasPriceSemanticsMismatch(listed[doc.stock], doc.semantics)

\* getComparableProviderCost finds nothing against the offer, as read.
Comparable(d, status, entry) ==
    /\ d.automatic /\ status = "active"
    /\ OwnerOf[d.stock] = d.supplier
    /\ ~hasPriceSemanticsMismatch(entry, d.semantics)
    /\ entry.active /\ entry.fresh
    /\ d.semantics # "QUOTE_REQUIRED"

SupplierCost(semantics, entry, quantity) ==
    IF semantics = "PER_UNIT" THEN entry.price * quantity ELSE entry.price

-----------------------------------------------------------------------------
(* Orders.                                                                 *)

\* The adapter is resolved before the transaction, for a LEGACY product only.
ResolveAdapter(b, quantity) ==
    /\ checkout[b].pc = "new"
    /\ checkout' = [checkout EXCEPT ![b] =
          [@ EXCEPT !.pc = "load", !.quantity = quantity,
                    !.adapter = IF sold.automatic /\ sold.mode = "LEGACY" /\ sold.supplier # None
                                   /\ supplier[sold.supplier] = "active"
                                THEN sold.supplier ELSE None]]
    /\ DesksStay

\* In a transaction everything is read from one snapshot, without one in turn.
LoadProduct(b, session) ==
    /\ checkout[b].pc = "load"
    /\ checkout' = [checkout EXCEPT ![b] =
          IF ~sold.automatic THEN [@ EXCEPT !.pc = "manual", !.mode = sold.mode]
          ELSE IF sold.mode = "LEGACY" THEN [@ EXCEPT !.pc = "insert", !.mode = "LEGACY"]
          ELSE IF session
          THEN [@ EXCEPT !.pc = "select", !.mode = "MULTI_PROVIDER", !.offers = offer,
                         !.suppliers = supplier, !.stock = listed]
          ELSE [@ EXCEPT !.pc = "find", !.mode = "MULTI_PROVIDER"]]
    /\ DesksStay

FindOffers(b) ==
    /\ checkout[b].pc = "find"
    /\ checkout' = [checkout EXCEPT ![b].pc = "populate", ![b].offers = offer]
    /\ DesksStay

\* populate() asks for the providers and their products side by side.
PopulateProviders(b) ==
    /\ checkout[b].pc = "populate" /\ checkout[b].suppliers = None
    /\ checkout' = [checkout EXCEPT ![b].suppliers = supplier,
                          ![b].pc = IF checkout[b].stock # None THEN "select" ELSE @]
    /\ DesksStay

PopulateProducts(b) ==
    /\ checkout[b].pc = "populate" /\ checkout[b].stock = None
    /\ checkout' = [checkout EXCEPT ![b].stock = listed,
                          ![b].pc = IF checkout[b].suppliers # None THEN "select" ELSE @]
    /\ DesksStay

Candidate(b, o) ==
    LET d == checkout[b].offers[o] IN
    d # None /\ Comparable(d, checkout[b].suppliers[d.supplier], checkout[b].stock[d.stock])

\* buildRoutingSnapshot, with the catalogue's price and its unit as they were read.
RoutingSnapshot(b, o) ==
    LET d == checkout[b].offers[o]
        entry == checkout[b].stock[d.stock]
    IN [offer |-> o, supplier |-> d.supplier, stock |-> d.stock,
        cost |-> SupplierCost(d.semantics, entry, checkout[b].quantity),
        price |-> entry.price, perUnit |-> entry.amount]

\* One of the cheapest candidates, or the order is refused.
selectProviderOfferForOrder(b) ==
    LET snapshots == {RoutingSnapshot(b, o) : o \in {q \in OfferIds : Candidate(b, q)}}
        Goes(pc, choice) ==
            checkout' = [checkout EXCEPT ![b] =
               [@ EXCEPT !.pc = pc, !.choice = choice, !.offers = None, !.suppliers = None,
                         !.stock = None]]
    IN
    /\ checkout[b].pc = "select"
    /\ \/ snapshots = {} /\ Goes("refused", None)
       \/ \E s \in snapshots :
             (\A other \in snapshots : s.cost <= other.cost) /\ Goes("insert", s)
    /\ DesksStay

\* The debit and the insert, which OrderCreation models, succeed or not.
InsertOrder(b) ==
    /\ checkout[b].pc = "insert"
    /\ \E pc \in {"placed", "refused"} : checkout' = [checkout EXCEPT ![b].pc = pc]
    /\ DesksStay

\* Mutant: a routed order asks the product for its provider like any other.
DispatchSupplierOfProduct(b) ==
    IF checkout[b].adapter # None THEN checkout[b].adapter ELSE sold.supplier

\* The provider of the snapshot; for other orders the adapter that was handed over, or else
\* the product's provider of today.
DispatchSupplier(b) ==
    IF checkout[b].choice # None THEN checkout[b].choice.supplier
    ELSE IF checkout[b].adapter # None THEN checkout[b].adapter
    ELSE sold.supplier

\* executeOrder resolves the adapter; one that was handed over is not looked up again.
ResolveProvider(b) ==
    LET v == DispatchSupplier(b) IN
    /\ checkout[b].pc = "placed"
    /\ checkout' = [checkout EXCEPT ![b] =
          IF (checkout[b].choice = None /\ checkout[b].adapter # None)
             \/ (v # None /\ supplier[v] = "active")
          THEN [@ EXCEPT !.pc = "dispatch", !.adapter = v]
          ELSE [@ EXCEPT !.pc = "failed"]]
    /\ DesksStay

\* The external product is the snapshot's, or the product's of this moment.
Dispatch(b) ==
    /\ checkout[b].pc = "dispatch"
    /\ \E pc \in {"sent", "failed"} :
          checkout' = [checkout EXCEPT ![b] =
             [@ EXCEPT !.pc = pc,
                       !.sent = [supplier |-> checkout[b].adapter,
                                 stock |-> IF checkout[b].choice # None
                                           THEN checkout[b].choice.stock ELSE sold.stock]]]
    /\ DesksStay

\* An administrator's retry of a FAILED order.  A LEGACY order has no product id of its
\* own and is refused.
retryOrder(b) ==
    LET v == DispatchSupplier(b) IN
    /\ checkout[b].pc = "failed" /\ checkout[b].choice # None
    /\ v # None /\ supplier[v] = "active"
    /\ checkout' = [checkout EXCEPT ![b] =
          [@ EXCEPT !.pc = "sent",
                    !.sent = [supplier |-> v, stock |-> checkout[b].choice.stock]]]
    /\ DesksStay

CheckoutStep(b) ==
    \/ \E quantity \in Quantities : ResolveAdapter(b, quantity)
    \/ \E session \in BOOLEAN : LoadProduct(b, session)
    \/ FindOffers(b) \/ PopulateProviders(b) \/ PopulateProducts(b)
    \/ selectProviderOfferForOrder(b) \/ InsertOrder(b)
    \/ ResolveProvider(b) \/ Dispatch(b) \/ retryOrder(b)

-----------------------------------------------------------------------------
(* Administrators.                                                         *)

DeskGoes(r, pc) == desk' = [desk EXCEPT ![r].pc = pc]
DeskEnds(r) == desk' = [desk EXCEPT ![r] = [NewDesk EXCEPT !.pc = "done"]]

BeginCreateOffer(r, o, doc) ==
    /\ desk[r].pc = "new" /\ offer[o] = None
    /\ desk' = [desk EXCEPT ![r] =
          [@ EXCEPT !.pc = "check", !.offer = o, !.edited = doc]]
    /\ UNCHANGED <<offer, sold>> /\ CheckoutsStay

\* Some of the fields, whether or not they go together.
OfferEdits(copy) ==
    {[copy EXCEPT !.stock = p] : p \in Stock}
    \cup {[copy EXCEPT !.stock = p, !.supplier = OwnerOf[p]] : p \in Stock}
    \cup {[copy EXCEPT !.semantics = s] : s \in Semantics}
    \cup {[copy EXCEPT !.automatic = ~@]}

BeginUpdateOffer(r, o) ==
    /\ desk[r].pc = "new" /\ offer[o] # None
    /\ \E edited \in OfferEdits(offer[o]) \ {offer[o]} :
          desk' = [desk EXCEPT ![r] = [pc |-> "check", offer |-> o, copy |-> offer[o],
                                       edited |-> edited]]
    /\ UNCHANGED <<offer, sold>> /\ CheckoutsStay

CheckOffer(r) ==
    /\ desk[r].pc = "check"
    /\ IF Related(desk[r].edited) THEN DeskGoes(r, "validate") ELSE DeskEnds(r)
    /\ UNCHANGED <<offer, sold>> /\ CheckoutsStay

ValidateOffer(r) ==
    /\ desk[r].pc = "validate"
    /\ IF validateRoutingMetadata(desk[r].edited) THEN DeskGoes(r, "save") ELSE DeskEnds(r)
    /\ UNCHANGED <<offer, sold>> /\ CheckoutsStay

\* Insert or save() under the unique index, which admits one offer of each document; an
\* offer removed meanwhile is not found.
SaveOffer(r) ==
    LET o == desk[r].offer
        new == IF desk[r].copy = None THEN desk[r].edited
               ELSE Saved(offer[o], desk[r].copy, desk[r].edited)
    IN
    /\ desk[r].pc = "save"
    /\ IF /\ desk[r].copy # None => offer[o] # None
          /\ desk[r].copy = None => offer[o] = None
          /\ \A q \in OfferIds \ {o} : offer[q] # None =>
                offer[q].stock # new.stock \/ offer[q].supplier # new.supplier
       THEN offer' = [offer EXCEPT ![o] = new] ELSE UNCHANGED offer
    /\ DeskEnds(r)
    /\ UNCHANGED sold /\ CheckoutsStay

\* An offer that orders name is kept, as far as they are in the collection.
BeginRemoveOffer(r, o) ==
    /\ desk[r].pc = "new" /\ offer[o] # None
    /\ IF \E b \in Checkouts : /\ checkout[b].choice # None /\ checkout[b].choice.offer = o
                               /\ checkout[b].pc \notin {"insert", "refused"}
       THEN DeskEnds(r)
       ELSE desk' = [desk EXCEPT ![r].pc = "remove", ![r].offer = o]
    /\ UNCHANGED <<offer, sold>> /\ CheckoutsStay

removeOffer(r) ==
    /\ desk[r].pc = "remove"
    /\ offer' = [offer EXCEPT ![desk[r].offer] = None]
    /\ DeskEnds(r)
    /\ UNCHANGED sold /\ CheckoutsStay

\* updateProduct: the routing mode, or the link to a provider's product.
SoldEdits ==
    {[sold EXCEPT !.mode = m] : m \in {"LEGACY", "MULTI_PROVIDER"}}
    \cup {[sold EXCEPT !.stock = p, !.supplier = OwnerOf[p]] : p \in Stock}

BeginUpdateProduct(r) ==
    /\ desk[r].pc = "new"
    /\ \E edited \in SoldEdits \ {sold} :
          desk' = [desk EXCEPT ![r] =
             [@ EXCEPT !.pc = IF edited.automatic /\ edited.mode = "MULTI_PROVIDER"
                              THEN "config" ELSE "product",
                       !.copy = sold, !.edited = edited]]
    /\ UNCHANGED <<offer, sold>> /\ CheckoutsStay

assertAutomaticMultiProviderConfiguration(r) ==
    /\ desk[r].pc = "config"
    /\ IF \E o \in OfferIds : /\ offer[o] # None /\ offer[o].automatic
                              /\ offer[o].semantics # "QUOTE_REQUIRED"
       THEN DeskGoes(r, "product") ELSE DeskEnds(r)
    /\ UNCHANGED <<offer, sold>> /\ CheckoutsStay

SaveProduct(r) ==
    /\ desk[r].pc = "product"
    /\ sold' = Saved(sold, desk[r].copy, desk[r].edited)
    /\ DeskEnds(r)
    /\ UNCHANGED offer /\ CheckoutsStay

\* deleteProvider detaches the product, deletes the provider later, and leaves the offers.
DetachProvider(r, v) ==
    /\ desk[r].pc = "new" /\ supplier[v] # "deleted"
    /\ sold' = IF sold.supplier = v \/ (sold.stock # None /\ OwnerOf[sold.stock] = v)
               THEN [sold EXCEPT !.supplier = None, !.stock = None, !.automatic = FALSE]
               ELSE sold
    /\ desk' = [desk EXCEPT ![r].pc = "provider", ![r].offer = v]
    /\ UNCHANGED offer /\ CheckoutsStay

DeleteProvider(r) ==
    /\ desk[r].pc = "provider"
    /\ supplier' = [supplier EXCEPT ![desk[r].offer] = "deleted"]
    /\ DeskEnds(r)
    /\ UNCHANGED <<listed, offer, sold, checkout, syncs>>

\* isActive, by updateProvider.
updateProvider(r, v) ==
    /\ desk[r].pc = "new" /\ supplier[v] # "deleted"
    /\ supplier' = [supplier EXCEPT ![v] = IF @ = "active" THEN "inactive" ELSE "active"]
    /\ DeskEnds(r)
    /\ UNCHANGED <<listed, offer, sold, checkout, syncs>>

DeskStep(r) ==
    \/ \E o \in OfferIds :
          \/ \E doc \in OfferBodies : BeginCreateOffer(r, o, doc)
          \/ BeginUpdateOffer(r, o) \/ BeginRemoveOffer(r, o)
    \/ CheckOffer(r) \/ ValidateOffer(r) \/ SaveOffer(r) \/ removeOffer(r)
    \/ BeginUpdateProduct(r) \/ assertAutomaticMultiProviderConfiguration(r) \/ SaveProduct(r)
    \/ \E v \in Suppliers : DetachProvider(r, v) \/ updateProvider(r, v)
    \/ DeleteProvider(r)

-----------------------------------------------------------------------------
(* The synchronisation, which never writes an offer, and the clock.        *)

upsertProviderProduct(p) ==
    /\ syncs < MaxSyncs /\ syncs' = syncs + 1
    /\ \E entry \in Entries : listed' = [listed EXCEPT ![p] = entry]
    /\ UNCHANGED <<supplier, offer, sold, checkout, desk>>

PriceGetsOld(p) ==
    /\ syncs < MaxSyncs /\ syncs' = syncs + 1
    /\ listed[p].fresh
    /\ listed' = [listed EXCEPT ![p].fresh = FALSE]
    /\ UNCHANGED <<supplier, offer, sold, checkout, desk>>

OffersNext ==
    \/ \E b \in Checkouts : CheckoutStep(b)
    \/ \E r \in Reviews : DeskStep(r)
    \/ \E p \in Stock : upsertProviderProduct(p) \/ PriceGetsOld(p)

OffersSpec == OffersInit /\ [][OffersNext]_offersVars

-----------------------------------------------------------------------------
(* Properties.                                                             *)

\* The schemas of productProviderOffer.model.js and of the routing snapshots.
OffersTypeOK ==
    /\ supplier \in [Suppliers -> {"active", "inactive", "deleted"}]
    /\ offer \in [OfferIds -> OfferDoc \cup {None}]
    /\ sold \in SoldDoc
    /\ \A b \in Checkouts :
          checkout[b].choice # None => checkout[b].mode = "MULTI_PROVIDER"

\* An order taken while its product was routed over offers is only ever sent to the provider
\* that was chosen for it, for the product of this provider it was costed at, and a
\* price per unit was multiplied: whatever administrators make meanwhile of the offer, the
\* product or its mode, in two overlapping saves that neither would have been allowed
\* alone, after a synchronisation that changed the unit, at once or by a retry (executeOrder,
\* retryOrder, getComparableProviderCost).
SentAsRouted ==
    \A b \in Checkouts :
        checkout[b].mode = "MULTI_PROVIDER" /\ checkout[b].sent # None =>
            LET choice == checkout[b].choice IN
            /\ choice # None
            /\ checkout[b].sent = [supplier |-> choice.supplier, stock |-> choice.stock]
            /\ OwnerOf[choice.stock] = choice.supplier
            /\ choice.perUnit => choice.cost = choice.price * checkout[b].quantity

\* An order is sent to the provider whose product it asks for, in LEGACY mode too.  An order
\* whose product is linked elsewhere between the resolution of the adapter and the
\* dispatch breaks this (README): no run checks it.
SentTogether ==
    \A b \in Checkouts :
        LET sent == checkout[b].sent IN
        sent # None /\ sent.stock # None => OwnerOf[sent.stock] = sent.supplier

\* "This offer has historical routed orders and cannot be removed": an order that is inserted
\* between the look for orders and the deletion breaks this (README): no run checks it.
HistoryHasOffer ==
    \A b \in Checkouts :
        checkout[b].pc \in {"placed", "dispatch", "sent", "failed"} /\ checkout[b].choice # None =>
            offer[checkout[b].choice.offer] # None
=============================================================================
