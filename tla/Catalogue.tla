------------------------------ MODULE Catalogue ------------------------------
(***************************************************************************)
(* The catalogue of one provider.  Every worker's cron copies the listing  *)
(* into ProviderProduct documents and prices from there into the products  *)
(* that track them (providerProductSync.service.js), under a lock of its   *)
(* own process; an order first compares its product's price with the live  *)
(* one, of which each worker caches a copy (providerPriceCache.js);        *)
(* administrators publish, edit and relink products and delete the         *)
(* provider.  All work on copies of what they read.                        *)
(*                                                                         *)
(* A ProviderProduct is named by its externalProductId.  The markup is     *)
(* fixed, so a price stands for the provider's price it is computed from;  *)
(* Own is one an administrator has set.                                    *)
(***************************************************************************)
EXTENDS Documents, Integers

CONSTANTS
    Ids,            \* externalProductIds
    Products,
    Workers,        \* processes of the cluster
    At,             \* the worker that serves each customer
    Prices,
    Listings,       \* what the provider may list: [Ids -> [price, active] or None]
    Own,
    MaxDisturbances \* changes of the listing and failing operations, together

Entry == [price : Prices, active : BOOLEAN]

ASSUME CatalogueAssumption ==
    /\ At \in [Clients -> Workers] /\ Prices \subseteq Nat /\ Own \notin Prices
    /\ Listings \subseteq [Ids -> Entry \cup {None}]
    /\ MaxDisturbances \in Nat

VARIABLES
    listing,        \* at the provider
    provider,       \* the state of its Provider document
    doc,            \* the ProviderProduct documents
    product,        \* the Product documents
    sync,           \* each worker's run of _performSync
    cache,          \* each worker's _cache
    pending,        \* each worker's _pending: the answer on its way
    sale,           \* the customers' orders, as far as the live price check
    edit,           \* the administrators' requests
    disturbances

catalogueVars ==
    <<listing, provider, doc, product, sync, cache, pending, sale, edit, disturbances>>

ProductDoc ==
    [link : Ids \cup {None}, mode : {"sync", "manual"},
     cost : Prices \cup {None},         \* providerPrice
     base : Prices \cup {Own}]          \* basePrice and finalPrice

ProductCopy == [link : Ids, cost : Prices \cup {None}]      \* what an order keeps of it

\* Nothing that may be absent is null when it is there.
ASSUME ListingsAssumption ==
    None \notin Listings \cup Entry \cup ProductDoc \cup ProductCopy \cup Ids \cup Prices

Idle == [pc |-> "idle", dtos |-> None, todo |-> {}, seen |-> {}, at |-> None, found |-> {}]
NoSale == [pc |-> "idle", product |-> None, copy |-> None, live |-> None]

Priced(p, price) == [p EXCEPT !.cost = price, !.base = price]

Listed(dtos) == {id \in Ids : dtos[id] # None}

Tracking(id) ==
    Priced([link |-> id, mode |-> "sync", cost |-> None, base |-> Own], doc[id].price)

CatalogueInit ==
    /\ listing \in Listings
    /\ provider = "active"
    /\ doc = listing
    /\ product \in {[q \in Products |-> None]} \cup {[q \in Products |-> Tracking(id)] :
                                                          id \in Listed(doc)}
    /\ sync = [w \in Workers |-> Idle]
    /\ cache = [w \in Workers |-> None]
    /\ pending = [w \in Workers |-> None]
    /\ sale = [c \in Clients |-> NoSale]
    /\ edit = [r \in Reviews |-> [pc |-> "new", product |-> None, copy |-> None,
                                  edited |-> None]]
    /\ disturbances = 0

Disturbed == disturbances < MaxDisturbances /\ disturbances' = disturbances + 1

-----------------------------------------------------------------------------
(* The provider.                                                           *)

ProviderChanges ==
    /\ Disturbed
    /\ listing' \in Listings \ {listing}
    /\ UNCHANGED <<provider, doc, product, sync, cache, pending, sale, edit>>

-----------------------------------------------------------------------------
(* syncProviderProducts.                                                   *)

OthersThanSync == <<listing, provider, cache, pending, sale, edit>>

\* The worker's lock is free.  An empty listing is taken for an outage: nothing is done.
fetchProducts(w) ==
    /\ sync[w].pc = "idle" /\ provider = "active" /\ Listed(listing) # {}
    /\ sync' = [sync EXCEPT ![w] = [Idle EXCEPT !.pc = "upsert", !.dtos = listing,
                                                !.todo = Listed(listing)]]
    /\ UNCHANGED <<doc, product, disturbances>> /\ UNCHANGED OthersThanSync

\* The upserts run ten at a time, in any order; one that fails is only counted.
_upsertOne(w, id) ==
    /\ sync[w].pc = "upsert" /\ id \in sync[w].todo
    /\ \/ /\ doc' = [doc EXCEPT ![id] = sync[w].dtos[id]]
          /\ sync' = [sync EXCEPT ![w].todo = @ \ {id}, ![w].seen = @ \cup {id}]
          /\ UNCHANGED disturbances
       \/ /\ Disturbed
          /\ sync' = [sync EXCEPT ![w].todo = @ \ {id}]
          /\ UNCHANGED doc
    /\ UNCHANGED product /\ UNCHANGED OthersThanSync

\* Mutant: nothing is deactivated.
MissingNever(w) == {}

\* What the provider no longer lists, and what could not be written.
Missing(w) == {id \in Ids : doc[id] # None /\ id \notin sync[w].seen}

\* The run of a worker that has these ids left to price.
Pricing(w, todo) ==
    IF todo = {} THEN Idle
    ELSE [sync[w] EXCEPT !.pc = "find", !.todo = todo, !.seen = {}, !.at = None, !.found = {}]

deactivate(w) ==
    /\ sync[w].pc = "upsert" /\ sync[w].todo = {}
    /\ \/ doc' = [id \in Ids |-> IF id \in Missing(w) THEN [doc[id] EXCEPT !.active = FALSE]
                                 ELSE doc[id]] /\ UNCHANGED disturbances
       \/ Disturbed /\ UNCHANGED doc
    /\ sync' = [sync EXCEPT ![w] = Pricing(w, sync[w].seen)]
    /\ UNCHANGED product /\ UNCHANGED OthersThanSync

Tracks(q, id) == product[q] # None /\ product[q].link = id /\ product[q].mode = "sync"

\* One after the other, in the order of the listing.
findProducts(w) ==
    /\ sync[w].pc = "find"
    /\ LET id == CHOOSE i \in sync[w].todo : TRUE
           found == {q \in Products : Tracks(q, id)} IN
       \/ /\ sync' = [sync EXCEPT ![w] =
                IF found = {} THEN Pricing(w, @.todo \ {id})
                ELSE [@ EXCEPT !.pc = "price", !.at = id, !.found = found]]
          /\ UNCHANGED disturbances
       \/ Disturbed /\ sync' = [sync EXCEPT ![w] = Pricing(w, @.todo \ {id})]
    /\ UNCHANGED <<doc, product>> /\ UNCHANGED OthersThanSync

\* By id: whatever the product has become since it was found.
writePrice(w, q) ==
    /\ sync[w].pc = "price" /\ q \in sync[w].found
    /\ LET left == sync[w].found \ {q}
           next == Pricing(w, sync[w].todo \ {sync[w].at}) IN
       \/ /\ product' = [product EXCEPT ![q] = Priced(@, sync[w].dtos[sync[w].at].price)]
          /\ sync' = [sync EXCEPT ![w] = IF left = {} THEN next ELSE [@ EXCEPT !.found = left]]
          /\ UNCHANGED disturbances
       \/ /\ Disturbed
          /\ sync' = [sync EXCEPT ![w] = next]
          /\ UNCHANGED product
    /\ UNCHANGED doc /\ UNCHANGED OthersThanSync

_performSync(w) ==
    \/ fetchProducts(w)
    \/ \E id \in Ids : _upsertOne(w, id)
    \/ deactivate(w)
    \/ findProducts(w)
    \/ \E q \in Products : writePrice(w, q)

-----------------------------------------------------------------------------
(* An order and the live price of its product.                             *)

OthersThanSale == <<listing, provider, doc, sync, edit>>

\* Without a provider to ask, or a price to compare, the order goes on.
BeginOrder(c) ==
    /\ sale[c].pc \in {"idle", "sold"}
    /\ \E q \in {r \in Products : product[r] # None} :
          sale' = [sale EXCEPT ![c] =
              IF provider = "active" /\ product[q].link # None
              THEN [pc |-> "asks", product |-> q, live |-> None,
                    copy |-> [link |-> product[q].link, cost |-> product[q].cost]]
              ELSE [NoSale EXCEPT !.pc = "sold"]]
    /\ UNCHANGED <<product, cache, pending, disturbances>> /\ UNCHANGED OthersThanSale

\* Mutant: the cache only is cleared, the product keeps its price.
OutcomeUpdatesNothing(c, prices) ==
    LET entry == prices[sale[c].copy.link] IN
    IF entry # None /\ sale[c].copy.cost # None /\ entry.price > sale[c].copy.cost
    THEN NoSale ELSE [NoSale EXCEPT !.pc = "sold"]

\* What becomes of the order, given the provider's prices: it goes on, or is refused and
\* the product updated.
Outcome(c, prices) ==
    LET entry == prices[sale[c].copy.link] IN
    IF entry # None /\ sale[c].copy.cost # None /\ entry.price > sale[c].copy.cost
    THEN [sale[c] EXCEPT !.pc = "raises", !.copy = None, !.live = entry.price]
    ELSE [NoSale EXCEPT !.pc = "sold"]

Refused(c, prices) == Outcome(c, prices).pc # "sold"

hitCache(c) ==
    LET w == At[c] IN
    /\ sale[c].pc = "asks" /\ cache[w] # None
    /\ sale' = [sale EXCEPT ![c] = Outcome(c, cache[w])]
    /\ cache' = IF Refused(c, cache[w]) THEN [cache EXCEPT ![w] = None] ELSE cache   \* invalidate
    /\ UNCHANGED <<product, pending, disturbances>> /\ UNCHANGED OthersThanSale

\* One fetch serves all orders of the worker that wait for it.
missCache(c) ==
    LET w == At[c] IN
    /\ sale[c].pc = "asks" /\ cache[w] = None
    /\ pending' = IF pending[w] = None THEN [pending EXCEPT ![w] = listing] ELSE pending
    /\ sale' = [sale EXCEPT ![c].pc = "waits"]
    /\ UNCHANGED <<product, cache, disturbances>> /\ UNCHANGED OthersThanSale

Waiting(w) == {c \in Clients : At[c] = w /\ sale[c].pc = "waits"}

\* The prices are cached, then seen by those who wait, before anything else runs; or the
\* fetch fails, and the orders go on.
_fetchAndCache(w) ==
    /\ pending[w] # None
    /\ pending' = [pending EXCEPT ![w] = None]
    /\ \/ /\ sale' = [c \in Clients |->
                IF c \in Waiting(w) THEN Outcome(c, pending[w]) ELSE sale[c]]
          /\ cache' = [cache EXCEPT ![w] =
                IF \E c \in Waiting(w) : Refused(c, pending[w]) THEN None ELSE pending[w]]
          /\ UNCHANGED disturbances
       \/ /\ Disturbed
          /\ sale' = [c \in Clients |->
                IF c \in Waiting(w) THEN [NoSale EXCEPT !.pc = "sold"] ELSE sale[c]]
          /\ UNCHANGED cache
    /\ UNCHANGED product /\ UNCHANGED OthersThanSale

CacheExpires(w) ==
    /\ cache[w] # None
    /\ cache' = [cache EXCEPT ![w] = None]
    /\ UNCHANGED <<product, pending, sale, disturbances>> /\ UNCHANGED OthersThanSale

\* Not awaited, and a failure is swallowed.
_autoUpdateProductPrice(c) ==
    /\ sale[c].pc = "raises"
    /\ \/ /\ product' = [product EXCEPT ![sale[c].product] = Priced(@, sale[c].live)]
          /\ UNCHANGED disturbances
       \/ Disturbed /\ UNCHANGED product
    /\ sale' = [sale EXCEPT ![c] = NoSale]
    /\ UNCHANGED <<cache, pending>> /\ UNCHANGED OthersThanSale

-----------------------------------------------------------------------------
(* Administrators.                                                         *)

OthersThanEdit == <<listing, doc, sync, cache, pending, sale, disturbances>>

EditGoes(r, pc, q, copy, edited) ==
    edit' = [edit EXCEPT ![r] = [pc |-> pc, product |-> q, copy |-> copy, edited |-> edited]]

EditEnds(r) == EditGoes(r, "done", None, None, None)

\* Whether the listed product is published is checked before the document is created.
BeginPublish(r, id, mode) ==
    /\ edit[r].pc = "new" /\ provider = "active"
    /\ doc[id] # None /\ doc[id].active
    /\ \A q \in Products : product[q] # None => product[q].link # id
    /\ EditGoes(r, "create", None, None,
                [link |-> id, mode |-> mode, cost |-> doc[id].price, base |-> doc[id].price])
    /\ UNCHANGED <<provider, product>> /\ UNCHANGED OthersThanEdit

publishFromProviderProduct(r) ==
    /\ edit[r].pc = "create"
    /\ \E q \in Products :
          /\ product[q] = None
          /\ product' = [product EXCEPT ![q] = edit[r].edited]
    /\ EditEnds(r)
    /\ UNCHANGED provider /\ UNCHANGED OthersThanEdit

\* Mutant: the new link's price is left to the next order.
RelinkedUnpriced(p, id) == [p EXCEPT !.link = id, !.cost = None]

Relinked(p, id) == Priced([p EXCEPT !.link = id], doc[id].price)

\* A price of his own, tracking the provider's, a price computed once, another link.
Edits(p) ==
    {[p EXCEPT !.mode = "manual", !.base = Own]}
    \cup {Priced([p EXCEPT !.mode = m], doc[p.link].price) :
            m \in IF p.link = None THEN {} ELSE {"sync", "manual"}}
    \cup {Relinked(p, id) : id \in {i \in Ids : doc[i] # None /\ i # p.link}}

BeginUpdate(r, q) ==
    /\ edit[r].pc = "new" /\ product[q] # None
    /\ \E edited \in Edits(product[q]) : EditGoes(r, "save", q, product[q], edited)
    /\ UNCHANGED <<provider, product>> /\ UNCHANGED OthersThanEdit

updateProduct(r) ==
    /\ edit[r].pc = "save"
    /\ product' = [product EXCEPT ![edit[r].product] = Saved(@, edit[r].copy, edit[r].edited)]
    /\ EditEnds(r)
    /\ UNCHANGED provider /\ UNCHANGED OthersThanEdit

toggleProvider(r) ==
    /\ edit[r].pc = "new" /\ provider # "deleted"
    /\ provider' = IF provider = "active" THEN "inactive" ELSE "active"
    /\ EditEnds(r)
    /\ UNCHANGED product /\ UNCHANGED OthersThanEdit

\* The products are detached, then the provider is deleted.
Detach(r) ==
    /\ edit[r].pc = "new" /\ provider # "deleted"
    /\ product' = [q \in Products |->
          IF product[q] # None /\ product[q].link # None
          THEN [product[q] EXCEPT !.link = None, !.mode = "manual", !.cost = None]
          ELSE product[q]]
    /\ EditGoes(r, "delete", None, None, None)
    /\ UNCHANGED provider /\ UNCHANGED OthersThanEdit

deleteProvider(r) ==
    /\ edit[r].pc = "delete"
    /\ provider' = "deleted"
    /\ EditEnds(r)
    /\ UNCHANGED product /\ UNCHANGED OthersThanEdit

EditContinues(r) == publishFromProviderProduct(r) \/ updateProduct(r) \/ deleteProvider(r)

-----------------------------------------------------------------------------

OrderStep(c) == BeginOrder(c) \/ hitCache(c) \/ missCache(c) \/ _autoUpdateProductPrice(c)

CatalogueNext ==
    \/ ProviderChanges
    \/ \E w \in Workers : _performSync(w) \/ _fetchAndCache(w) \/ CacheExpires(w)
    \/ \E c \in Clients : OrderStep(c)
    \/ \E r \in Reviews :
          \/ EditContinues(r)
          \/ \E id \in Ids, mode \in {"sync", "manual"} : BeginPublish(r, id, mode)
          \/ \E q \in Products : BeginUpdate(r, q)
          \/ toggleProvider(r)
          \/ Detach(r)

\* The crons run for ever, what a process has begun it ends, entries of a cache expire,
\* and a customer keeps ordering.
CatalogueSpec ==
    /\ CatalogueInit /\ [][CatalogueNext]_catalogueVars
    /\ \A w \in Workers : /\ WF_catalogueVars(_performSync(w))
                          /\ WF_catalogueVars(_fetchAndCache(w))
                          /\ WF_catalogueVars(CacheExpires(w))
    /\ \A c \in Clients : WF_catalogueVars(OrderStep(c))
    /\ \A r \in Reviews : WF_catalogueVars(EditContinues(r))

-----------------------------------------------------------------------------
(* Properties.                                                             *)

\* An administrator deletes the provider or has deleted it.
Deleting == provider = "deleted" \/ \E r \in Reviews : edit[r].pc = "delete"

\* Every document fits its schema: a product that is linked has its provider's price and
\* one that tracks it is linked, unless the provider is deleted beside another
\* administrator's save (README); and nobody waits for a fetch that is not under way.
CatalogueTypeOK ==
    /\ doc \in [Ids -> Entry \cup {None}]
    /\ product \in [Products -> ProductDoc \cup {None}]
    /\ ~Deleting \/ (\A r, s \in Reviews : r = s) =>
          \A q \in Products : product[q] # None =>
             /\ product[q].mode = "sync" => product[q].link # None
             /\ product[q].link # None => product[q].cost # None
    /\ \A w \in Workers : Waiting(w) # {} <=> pending[w] # None

Follows ==
    /\ \A id \in Ids : IF listing[id] = None THEN doc[id] = None \/ ~doc[id].active
                       ELSE doc[id] = listing[id]
    /\ \A q \in Products, id \in Listed(listing) :
          Tracks(q, id) => product[q] = Priced(product[q], listing[id].price)

\* The catalogue converges: once the provider and its failures have settled, the active
\* documents are what it lists, and the products that track it carry its prices, although
\* the workers' runs overlap and write what they fetched long ago (_performSync), orders
\* write prices out of old caches (_autoUpdateProductPrice), and administrators save
\* what they read before.
CatalogueConverges == <>[](provider = "active" /\ Listed(listing) # {} => Follows)

\* A customer who reviews the new price and orders again gets through: no order is refused
\* for a raised price for ever (PROVIDER_PRICE_INCREASED).
OrdersGoThrough ==
    \A c \in Clients : []<>(sale[c].pc = "sold" \/ \A q \in Products : product[q] = None)

\* "failed upserts should not contribute to the 'seen' set, which could incorrectly
\* deactivate products that simply had a transient error": a run deactivates nothing it
\* has just fetched as active.
ListedStaysActive ==
    [][\A w \in Workers, id \in Ids :
          /\ doc[id] # None /\ doc'[id] # None /\ doc[id].active /\ ~doc'[id].active
          /\ sync[w].pc = "upsert" /\ sync[w] # sync'[w]
          => sync[w].dtos[id] = None \/ ~sync[w].dtos[id].active]_catalogueVars
=============================================================================
