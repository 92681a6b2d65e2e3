--------------------------- MODULE CatalogueProofs ---------------------------
(***************************************************************************)
(* The documents of the catalogue, for any number of workers, customers    *)
(* and administrators and any disturbances.  Every process writes what it  *)
(* read long ago, so the invariant says what such a copy still has in      *)
(* common with the documents: what was listed has a price, a document or a *)
(* product that was found is never lost, and until somebody deletes the    *)
(* provider every product, and everything about to be saved, is linked and *)
(* priced.                                                                 *)
(***************************************************************************)
EXTENDS Catalogue, TLAPS

-----------------------------------------------------------------------------
(* The invariant.                                                          *)

Run ==
    [pc : {"idle", "upsert", "find", "price"}, dtos : Listings \cup {None}, todo : SUBSET Ids,
     seen : SUBSET Ids, at : Ids \cup {None}, found : SUBSET Products]

Order ==
    [pc : {"idle", "asks", "waits", "raises", "sold"}, product : Products \cup {None},
     copy : ProductCopy \cup {None}, live : Prices \cup {None}]

Request ==
    [pc : {"new", "create", "save", "delete", "done"}, product : Products \cup {None},
     copy : ProductDoc \cup {None}, edited : ProductDoc \cup {None}]

\* The document a product is linked to exists.
Linkable(p) == p.link # None => doc[p.link] # None

Whole(p) == p.link # None /\ p.cost # None

Coherent(p) == (p.mode = "sync" => p.link # None) /\ (p.link # None => p.cost # None)

DocsRight ==
    /\ listing \in Listings /\ provider \in {"active", "inactive", "deleted"}
    /\ doc \in [Ids -> Entry \cup {None}]
    /\ product \in [Products -> ProductDoc \cup {None}]
    /\ \A q \in Products : product[q] # None => Linkable(product[q])
    /\ cache \in [Workers -> Listings \cup {None}]

SyncRight(w) ==
    /\ sync[w].pc # "idle" =>
           /\ sync[w].dtos \in Listings
           /\ sync[w].todo \subseteq Listed(sync[w].dtos)
           /\ sync[w].seen \subseteq Listed(sync[w].dtos)
    /\ sync[w].pc = "find" => sync[w].todo # {}
    /\ sync[w].pc = "price" => sync[w].at \in sync[w].todo
    /\ \A q \in sync[w].found : product[q] # None

SaleRight(c) ==
    /\ sale[c].pc \in {"asks", "waits"} => sale[c].copy # None
    /\ sale[c].pc \in {"asks", "waits", "raises"} =>
           sale[c].product \in Products /\ product[sale[c].product] # None
    /\ sale[c].pc = "raises" => sale[c].live \in Prices

EditRight(r) ==
    /\ edit[r].pc \in {"create", "save"} =>
           edit[r].edited \in ProductDoc /\ Linkable(edit[r].edited)
    /\ edit[r].pc = "save" =>
           /\ edit[r].product \in Products /\ product[edit[r].product] # None
           /\ edit[r].copy \in ProductDoc

WaitersRight ==
    /\ pending \in [Workers -> Listings \cup {None}]
    /\ \A w \in Workers : pending[w] # None <=> \E c \in Clients : At[c] = w /\ sale[c].pc = "waits"

\* Only who deletes the provider takes a link away; if he is the only administrator nobody
\* saves after him.
Linked ==
    /\ ~Deleting =>
           /\ \A q \in Products : product[q] # None => Whole(product[q])
           /\ \A r \in Reviews : edit[r].pc \in {"create", "save"} => Whole(edit[r].edited)
    /\ Deleting /\ (\A r, s \in Reviews : r = s) =>
           /\ \A q \in Products : product[q] # None => Coherent(product[q])
           /\ \A r \in Reviews : edit[r].pc \in {"delete", "done"}

CatalogueInv ==
    /\ DocsRight
    /\ sync \in [Workers -> Run] /\ \A w \in Workers : SyncRight(w)
    /\ sale \in [Clients -> Order] /\ \A c \in Clients : SaleRight(c)
    /\ edit \in [Reviews -> Request] /\ \A r \in Reviews : EditRight(r)
    /\ WaitersRight /\ Linked

LEMMA PricedRight ==
  ASSUME NEW p \in ProductDoc, NEW price \in Prices
  PROVE  /\ Priced(p, price) \in ProductDoc /\ Priced(p, price) # None
         /\ Priced(p, price).link = p.link /\ Priced(p, price).mode = p.mode
         /\ Priced(p, price).cost = price /\ price # None
<1>1. Priced(p, price) = [p EXCEPT !.cost = price, !.base = price]
  BY DEF Priced
<1>2. Priced(p, price) \in ProductDoc
  BY <1>1 DEF ProductDoc
<1>3. Priced(p, price) # None /\ price # None
  BY <1>2, ListingsAssumption
<1>4. /\ Priced(p, price).link = p.link /\ Priced(p, price).mode = p.mode
      /\ Priced(p, price).cost = price
  BY <1>1 DEF ProductDoc
<1> QED
  BY <1>2, <1>3, <1>4

LEMMA ListedEntry ==
  ASSUME NEW dtos \in Listings, NEW id \in Listed(dtos)
  PROVE  id \in Ids /\ dtos[id] \in Entry /\ dtos[id].price \in Prices
<1>1. dtos \in [Ids -> Entry \cup {None}]
  BY CatalogueAssumption
<1>2. id \in Ids /\ dtos[id] \in Entry
  BY <1>1 DEF Listed
<1> QED
  BY <1>2 DEF Entry

LEMMA CatalogueInitInv == CatalogueInit => CatalogueInv
<1> SUFFICES ASSUME CatalogueInit PROVE CatalogueInv
  OBVIOUS
<1>1. /\ listing \in Listings /\ doc = listing /\ doc \in [Ids -> Entry \cup {None}]
      /\ provider = "active"
  BY CatalogueAssumption DEF CatalogueInit
<1>2. ASSUME NEW id \in Listed(doc)
      PROVE  /\ Tracking(id) \in ProductDoc /\ Tracking(id) # None
             /\ Whole(Tracking(id)) /\ Linkable(Tracking(id))
  <2> DEFINE p == [link |-> id, mode |-> "sync", cost |-> None, base |-> Own]
  <2>1. id \in Ids /\ doc[id].price \in Prices /\ doc[id] # None
    BY <1>1, ListedEntry DEF Listed
  <2>2. p \in ProductDoc /\ p.link = id
    BY <2>1 DEF ProductDoc
  <2>3. Tracking(id) = Priced(p, doc[id].price)
    BY DEF Tracking
  <2> HIDE DEF p
  <2>4. id # None
    BY <2>1, ListingsAssumption
  <2> QED
    BY <2>1, <2>2, <2>3, <2>4, PricedRight DEF Whole, Linkable
<1>3. /\ product \in [Products -> ProductDoc \cup {None}]
      /\ \A q \in Products : product[q] # None => Whole(product[q]) /\ Linkable(product[q])
  <2>1. CASE product = [q \in Products |-> None]
    BY <2>1
  <2>2. ASSUME NEW id \in Listed(doc), product = [q \in Products |-> Tracking(id)]
        PROVE  /\ product \in [Products -> ProductDoc \cup {None}]
               /\ \A q \in Products : product[q] # None =>
                      Whole(product[q]) /\ Linkable(product[q])
    BY <1>2, <2>2
  <2> QED
    BY <2>1, <2>2 DEF CatalogueInit
<1>4. /\ sync \in [Workers -> Run]
      /\ \A w \in Workers : sync[w].pc = "idle" /\ sync[w].found = {}
  BY DEF CatalogueInit, Idle, Run
<1>5. sale \in [Clients -> Order] /\ \A c \in Clients : sale[c].pc = "idle"
  BY DEF CatalogueInit, NoSale, Order
<1>6. edit \in [Reviews -> Request] /\ \A r \in Reviews : edit[r].pc = "new"
  BY DEF CatalogueInit, Request
<1>7. DocsRight
  BY <1>1, <1>3 DEF CatalogueInit, DocsRight
<1>8. WaitersRight
  BY <1>5 DEF CatalogueInit, WaitersRight
<1>9. ~Deleting
  BY <1>1, <1>6 DEF Deleting
<1>10. Linked
  BY <1>3, <1>6, <1>9 DEF Linked
<1> QED
  BY <1>4, <1>5, <1>6, <1>7, <1>8, <1>10 DEF CatalogueInv, SyncRight, SaleRight, EditRight

-----------------------------------------------------------------------------
(* What a step of each kind leaves as it was.                              *)

\* What was found is not lost.
Kept ==
    /\ \A q \in Products : product[q] # None => product'[q] # None
    /\ \A id \in Ids : doc[id] # None => doc'[id] # None

LEMMA KeptStays ==
  ASSUME UNCHANGED <<product, doc>>
  PROVE  Kept
BY DEF Kept

LEMMA LinkedStays ==
  ASSUME Linked, UNCHANGED <<provider, edit, product>>
  PROVE  Linked'
BY DEF Linked, Deleting

LEMMA DocsStay ==
  ASSUME DocsRight, UNCHANGED <<listing, provider, doc, product, cache>>
  PROVE  DocsRight'
BY DEF DocsRight, Linkable

LEMMA OthersStay ==
  ASSUME CatalogueInv, Kept
  PROVE  /\ \A w \in Workers : sync'[w] = sync[w] => SyncRight(w)'
         /\ \A c \in Clients : sale'[c] = sale[c] => SaleRight(c)'
         /\ \A r \in Reviews : edit'[r] = edit[r] => EditRight(r)'
<1>1. ASSUME NEW w \in Workers, sync'[w] = sync[w] PROVE SyncRight(w)'
  <2>1. SyncRight(w) /\ sync[w].found \subseteq Products
    BY DEF CatalogueInv, Run
  <2> QED
    BY <1>1, <2>1 DEF SyncRight, Kept
<1>2. ASSUME NEW c \in Clients, sale'[c] = sale[c] PROVE SaleRight(c)'
  <2>1. SaleRight(c)
    BY DEF CatalogueInv
  <2> QED
    BY <1>2, <2>1 DEF SaleRight, Kept
<1>3. ASSUME NEW r \in Reviews, edit'[r] = edit[r] PROVE EditRight(r)'
  <2>1. EditRight(r)
    BY DEF CatalogueInv
  <2>2. edit[r].pc \in {"create", "save"} => edit[r].edited.link \in Ids \cup {None}
    BY <2>1 DEF EditRight, ProductDoc
  <2> QED
    BY <1>3, <2>1, <2>2 DEF EditRight, Linkable, Kept
<1> QED
  BY <1>1, <1>2, <1>3

\* A worker's run.
LEMMA SyncMoves ==
  ASSUME CatalogueInv, NEW w \in Workers, NEW k \in Run, sync' = [sync EXCEPT ![w] = k],
         SyncRight(w)', DocsRight', Kept, Linked', UNCHANGED <<pending, sale, edit>>
  PROVE  CatalogueInv'
<1>1. sync' \in [Workers -> Run] /\ \A v \in Workers \ {w} : sync'[v] = sync[v]
  BY DEF CatalogueInv
<1>2. \A v \in Workers : SyncRight(v)'
  BY <1>1, OthersStay
<1>3. /\ \A c \in Clients : SaleRight(c)'
      /\ \A r \in Reviews : EditRight(r)'
  BY OthersStay
<1>4. WaitersRight'
  BY DEF CatalogueInv, WaitersRight
<1> QED
  BY <1>1, <1>2, <1>3, <1>4 DEF CatalogueInv

\* A product takes the price of a listing.
LEMMA PriceWritten ==
  ASSUME CatalogueInv, NEW q \in Products, product[q] # None, NEW price \in Prices,
         product' = [product EXCEPT ![q] = Priced(product[q], price)],
         UNCHANGED <<listing, provider, doc, cache, edit>>
  PROVE  DocsRight' /\ Kept /\ Linked'
<1>1. product[q] \in ProductDoc
  BY DEF CatalogueInv, DocsRight
<1> PICK p \in ProductDoc : /\ p = Priced(product[q], price) /\ p # None /\ p.cost # None
                            /\ p.link = product[q].link /\ p.mode = product[q].mode
  BY <1>1, PricedRight
<1>2. /\ product' \in [Products -> ProductDoc \cup {None}] /\ product'[q] = p
      /\ \A o \in Products \ {q} : product'[o] = product[o]
  BY DEF CatalogueInv, DocsRight
<1>3. Kept
  BY <1>2 DEF Kept
<1>4. DocsRight'
  BY <1>2 DEF CatalogueInv, DocsRight, Linkable
<1>5. Linked'
  <2>1. Deleting' <=> Deleting
    BY DEF Deleting
  <2>2. \A o \in Products : product[o] # None /\ Whole(product[o]) => Whole(product'[o])
    BY <1>2 DEF Whole
  <2>3. \A o \in Products : product[o] # None /\ Coherent(product[o]) => Coherent(product'[o])
    BY <1>2 DEF Coherent
  <2>4. \A o \in Products : product'[o] # None => product[o] # None
    BY <1>2
  <2> QED
    BY <2>1, <2>2, <2>3, <2>4 DEF CatalogueInv, Linked
<1> QED
  BY <1>3, <1>4, <1>5

-----------------------------------------------------------------------------
(* The synchronisation.                                                    *)

\* The documents change, the products do not.
LEMMA DocsWritten ==
  ASSUME CatalogueInv, doc' \in [Ids -> Entry \cup {None}],
         \A id \in Ids : doc[id] # None => doc'[id] # None,
         UNCHANGED <<listing, provider, product, cache, edit>>
  PROVE  DocsRight' /\ Kept /\ Linked'
<1>1. \A q \in Products : product[q] # None => product[q].link \in Ids \cup {None}
  BY DEF CatalogueInv, DocsRight, ProductDoc
<1>2. DocsRight'
  BY <1>1 DEF CatalogueInv, DocsRight, Linkable
<1> QED
  BY <1>2, LinkedStays DEF Kept, CatalogueInv

\* A worker's run when it goes on to the next of these ids.
LEMMA PricingRight ==
  ASSUME CatalogueInv, NEW w \in Workers, sync[w].pc # "idle",
         NEW todo \in SUBSET Listed(sync[w].dtos)
  PROVE  /\ Pricing(w, todo) \in Run
         /\ sync' = [sync EXCEPT ![w] = Pricing(w, todo)] => SyncRight(w)'
<1>1. sync[w] \in Run /\ sync[w].dtos \in Listings /\ sync \in [Workers -> Run]
  BY DEF CatalogueInv, SyncRight
<1>2. todo \in SUBSET Ids
  BY DEF Listed
<1>3. CASE todo = {}
  <2>1. Pricing(w, todo) = Idle
    BY <1>3 DEF Pricing
  <2>2. Idle \in Run
    BY DEF Idle, Run
  <2>3. sync' = [sync EXCEPT ![w] = Idle] => SyncRight(w)'
    BY <1>1 DEF SyncRight, Idle
  <2> QED
    BY <2>1, <2>2, <2>3
<1>4. CASE todo # {}
  <2> DEFINE k == [sync[w] EXCEPT !.pc = "find", !.todo = todo, !.seen = {}, !.at = None,
                                  !.found = {}]
  <2>1. Pricing(w, todo) = k
    BY <1>4 DEF Pricing
  <2>2. /\ k \in Run /\ k.pc = "find" /\ k.dtos = sync[w].dtos /\ k.todo = todo
        /\ k.seen = {} /\ k.found = {}
    BY <1>1, <1>2 DEF Run
  <2> HIDE DEF k
  <2>3. ASSUME sync' = [sync EXCEPT ![w] = k] PROVE SyncRight(w)'
    <3>1. sync'[w] = k
      BY <1>1, <2>3
    <3> QED
      BY <1>1, <1>4, <2>2, <3>1 DEF SyncRight
  <2> QED
    BY <2>1, <2>2, <2>3
<1> QED
  BY <1>3, <1>4

LEMMA FetchStep ==
  ASSUME CatalogueInv, NEW w \in Workers, fetchProducts(w)
  PROVE  CatalogueInv'
<1> DEFINE k == [Idle EXCEPT !.pc = "upsert", !.dtos = listing, !.todo = Listed(listing)]
<1>1. sync' = [sync EXCEPT ![w] = k] /\ UNCHANGED <<doc, product>> /\ UNCHANGED OthersThanSync
  BY DEF fetchProducts
<1>2. listing \in Listings /\ sync \in [Workers -> Run]
  BY DEF CatalogueInv, DocsRight
<1>3. /\ k \in Run /\ k.pc = "upsert" /\ k.dtos = listing /\ k.todo = Listed(listing)
      /\ k.seen = {} /\ k.found = {}
  BY <1>2 DEF Run, Idle, Listed
<1> HIDE DEF k
<1>4. sync'[w] = k
  BY <1>1, <1>2
<1>5. SyncRight(w)'
  <2>1. Listed(listing) = Listed(k.dtos)
    BY <1>3
  <2> QED
    BY <1>2, <1>3, <1>4, <2>1 DEF SyncRight, Listed
<1>6. DocsRight' /\ Kept /\ Linked'
  BY <1>1, KeptStays, DocsStay, LinkedStays DEF CatalogueInv, OthersThanSync
<1> QED
  BY <1>1, <1>3, <1>5, <1>6, SyncMoves DEF OthersThanSync

LEMMA UpsertStep ==
  ASSUME CatalogueInv, NEW w \in Workers, NEW id \in Ids, _upsertOne(w, id)
  PROVE  CatalogueInv'
<1>1. /\ sync[w] \in Run /\ sync[w].pc = "upsert" /\ id \in sync[w].todo
      /\ SyncRight(w) /\ sync \in [Workers -> Run]
      /\ UNCHANGED product /\ UNCHANGED OthersThanSync
  BY DEF CatalogueInv, _upsertOne
<1>2. /\ sync[w].dtos \in Listings /\ id \in Listed(sync[w].dtos)
      /\ sync[w].todo \subseteq Listed(sync[w].dtos)
      /\ sync[w].seen \subseteq Listed(sync[w].dtos)
      /\ \A q \in sync[w].found : product[q] # None
  BY <1>1 DEF SyncRight
<1>3. PICK k \in Run :
         /\ sync' = [sync EXCEPT ![w] = k]
         /\ k.pc = "upsert" /\ k.dtos = sync[w].dtos /\ k.found = sync[w].found
         /\ k.todo \subseteq Listed(k.dtos) /\ k.seen \subseteq Listed(k.dtos)
  <2> DEFINE k1 == [sync[w] EXCEPT !.todo = @ \ {id}, !.seen = @ \cup {id}]
             k2 == [sync[w] EXCEPT !.todo = @ \ {id}]
  <2>1. /\ k1 \in Run /\ k1.pc = "upsert" /\ k1.dtos = sync[w].dtos
        /\ k1.found = sync[w].found /\ k1.todo = sync[w].todo \ {id}
        /\ k1.seen = sync[w].seen \cup {id}
    BY <1>1 DEF Run
  <2>2. /\ k2 \in Run /\ k2.pc = "upsert" /\ k2.dtos = sync[w].dtos
        /\ k2.found = sync[w].found /\ k2.todo = sync[w].todo \ {id}
        /\ k2.seen = sync[w].seen
    BY <1>1 DEF Run
  <2>3. sync' = [sync EXCEPT ![w] = k1] \/ sync' = [sync EXCEPT ![w] = k2]
    BY <1>1 DEF _upsertOne
  <2> HIDE DEF k1, k2
  <2>4. k1.todo \subseteq Listed(k1.dtos) /\ k1.seen \subseteq Listed(k1.dtos)
    BY <1>2, <2>1
  <2>5. k2.todo \subseteq Listed(k2.dtos) /\ k2.seen \subseteq Listed(k2.dtos)
    BY <1>2, <2>2
  <2> QED
    BY <2>1, <2>2, <2>3, <2>4, <2>5
<1>4. sync'[w] = k
  BY <1>1, <1>3
<1>5. SyncRight(w)'
  BY <1>1, <1>2, <1>3, <1>4 DEF SyncRight
<1>6. DocsRight' /\ Kept /\ Linked'
  <2>1. CASE UNCHANGED doc
    BY <1>1, <2>1, KeptStays, DocsStay, LinkedStays DEF CatalogueInv, OthersThanSync
  <2>2. CASE doc' = [doc EXCEPT ![id] = sync[w].dtos[id]]
    <3>1. sync[w].dtos[id] \in Entry /\ sync[w].dtos[id] # None
      BY <1>2, ListedEntry DEF Listed
    <3>2. doc \in [Ids -> Entry \cup {None}]
      BY DEF CatalogueInv, DocsRight
    <3>3. /\ doc' \in [Ids -> Entry \cup {None}]
          /\ \A i \in Ids : doc[i] # None => doc'[i] # None
      BY <2>2, <3>1, <3>2
    <3> QED
      BY <1>1, <3>3, DocsWritten DEF OthersThanSync
  <2> QED
    BY <2>1, <2>2 DEF _upsertOne
<1> QED
  BY <1>1, <1>3, <1>5, <1>6, SyncMoves DEF OthersThanSync

LEMMA DeactivateStep ==
  ASSUME CatalogueInv, NEW w \in Workers, deactivate(w)
  PROVE  CatalogueInv'
<1>1. /\ sync[w].pc = "upsert" /\ SyncRight(w)
      /\ sync' = [sync EXCEPT ![w] = Pricing(w, sync[w].seen)]
      /\ UNCHANGED product /\ UNCHANGED OthersThanSync
  BY DEF CatalogueInv, deactivate
<1>2. sync[w].seen \in SUBSET Listed(sync[w].dtos)
  BY <1>1 DEF SyncRight
<1>3. Pricing(w, sync[w].seen) \in Run /\ SyncRight(w)'
  BY <1>1, <1>2, PricingRight
<1>4. DocsRight' /\ Kept /\ Linked'
  <2>1. CASE UNCHANGED doc
    BY <1>1, <2>1, KeptStays, DocsStay, LinkedStays DEF CatalogueInv, OthersThanSync
  <2>2. CASE doc' = [id \in Ids |-> IF id \in Missing(w) THEN [doc[id] EXCEPT !.active = FALSE]
                                    ELSE doc[id]]
    <3>1. doc \in [Ids -> Entry \cup {None}]
      BY DEF CatalogueInv, DocsRight
    <3>2. ASSUME NEW id \in Ids, doc[id] # None
          PROVE  [doc[id] EXCEPT !.active = FALSE] \in Entry
      BY <3>1, <3>2 DEF Entry
    <3>3. \A id \in Ids : id \in Missing(w) => doc[id] # None
      BY DEF Missing
    <3>4. \A e \in Entry : e # None
      BY ListingsAssumption
    <3>5. \A id \in Ids : /\ doc'[id] \in Entry \cup {None}
                          /\ doc[id] # None => doc'[id] # None
      BY <2>2, <3>1, <3>2, <3>3, <3>4
    <3>6. doc' \in [Ids -> Entry \cup {None}]
      BY <2>2, <3>5
    <3> QED
      BY <1>1, <3>5, <3>6, DocsWritten DEF OthersThanSync
  <2> QED
    BY <2>1, <2>2 DEF deactivate
<1> QED
  BY <1>1, <1>3, <1>4, SyncMoves DEF OthersThanSync

LEMMA FindStep ==
  ASSUME CatalogueInv, NEW w \in Workers, findProducts(w)
  PROVE  CatalogueInv'
<1> DEFINE id == CHOOSE i \in sync[w].todo : TRUE
           found == {q \in Products : Tracks(q, id)}
           k == [sync[w] EXCEPT !.pc = "price", !.at = id, !.found = found]
<1>1. /\ sync[w] \in Run /\ sync[w].pc = "find" /\ SyncRight(w) /\ sync \in [Workers -> Run]
      /\ UNCHANGED <<doc, product>> /\ UNCHANGED OthersThanSync
  BY DEF CatalogueInv, findProducts
<1>2. /\ sync[w].dtos \in Listings /\ sync[w].todo \subseteq Listed(sync[w].dtos)
      /\ sync[w].seen \subseteq Listed(sync[w].dtos) /\ sync[w].todo # {}
  BY <1>1 DEF SyncRight
<1>3. id \in sync[w].todo /\ id \in Ids
  BY <1>2 DEF Listed
<1>4. \A q \in found : product[q] # None
  BY DEF Tracks
<1>5. /\ k \in Run /\ k.pc = "price" /\ k.dtos = sync[w].dtos /\ k.todo = sync[w].todo
      /\ k.seen = sync[w].seen /\ k.at = id /\ k.found = found
  BY <1>1, <1>3 DEF Run
<1>6. sync' = [sync EXCEPT ![w] = Pricing(w, sync[w].todo \ {id})]
      \/ sync' = [sync EXCEPT ![w] = k]
  BY <1>1 DEF findProducts
<1>7. DocsRight' /\ Kept /\ Linked'
  BY <1>1, KeptStays, DocsStay, LinkedStays DEF CatalogueInv, OthersThanSync
<1> HIDE DEF id, found, k
<1>8. CASE sync' = [sync EXCEPT ![w] = Pricing(w, sync[w].todo \ {id})]
  <2>1. sync[w].todo \ {id} \in SUBSET Listed(sync[w].dtos) /\ sync[w].pc # "idle"
    BY <1>1, <1>2
  <2>2. Pricing(w, sync[w].todo \ {id}) \in Run /\ SyncRight(w)'
    BY <1>8, <2>1, PricingRight
  <2> QED
    BY <1>1, <1>7, <1>8, <2>2, SyncMoves DEF OthersThanSync
<1>9. CASE sync' = [sync EXCEPT ![w] = k]
  <2>1. sync'[w] = k
    BY <1>1, <1>9
  <2>2. SyncRight(w)'
    BY <1>1, <1>2, <1>3, <1>4, <1>5, <2>1 DEF SyncRight
  <2> QED
    BY <1>1, <1>5, <1>7, <1>9, <2>2, SyncMoves DEF OthersThanSync
<1> QED
  BY <1>6, <1>8, <1>9

LEMMA WriteStep ==
  ASSUME CatalogueInv, NEW w \in Workers, NEW q \in Products, writePrice(w, q)
  PROVE  CatalogueInv'
<1> DEFINE left == sync[w].found \ {q}
           rest == sync[w].todo \ {sync[w].at}
           k == [sync[w] EXCEPT !.found = left]
<1>1. /\ sync[w] \in Run /\ sync[w].pc = "price" /\ q \in sync[w].found
      /\ SyncRight(w) /\ sync \in [Workers -> Run]
      /\ UNCHANGED doc /\ UNCHANGED OthersThanSync
  BY DEF CatalogueInv, writePrice
<1>2. /\ sync[w].dtos \in Listings /\ sync[w].todo \subseteq Listed(sync[w].dtos)
      /\ sync[w].seen \subseteq Listed(sync[w].dtos) /\ sync[w].at \in sync[w].todo
      /\ \A o \in sync[w].found : product[o] # None
  BY <1>1 DEF SyncRight
<1>3. /\ k \in Run /\ k.pc = "price" /\ k.dtos = sync[w].dtos /\ k.todo = sync[w].todo
      /\ k.seen = sync[w].seen /\ k.at = sync[w].at /\ k.found = left
  BY <1>1 DEF Run
<1>4. sync' = [sync EXCEPT ![w] = Pricing(w, rest)] \/ sync' = [sync EXCEPT ![w] = k]
  BY <1>1 DEF writePrice
<1>5. DocsRight' /\ Kept /\ Linked'
  <2>1. CASE UNCHANGED product
    BY <1>1, <2>1, KeptStays, DocsStay, LinkedStays DEF CatalogueInv, OthersThanSync
  <2>2. CASE product' = [product EXCEPT ![q] = Priced(@, sync[w].dtos[sync[w].at].price)]
    <3>1. sync[w].dtos[sync[w].at].price \in Prices
      BY <1>2, ListedEntry
    <3>2. product[q] # None
      BY <1>1, <1>2
    <3>3. product' = [product EXCEPT ![q] =
                         Priced(product[q], sync[w].dtos[sync[w].at].price)]
      BY <2>2
    <3> QED
      BY <1>1, <3>1, <3>2, <3>3, PriceWritten DEF OthersThanSync
  <2> QED
    BY <2>1, <2>2 DEF writePrice
<1>6. CASE sync' = [sync EXCEPT ![w] = Pricing(w, rest)]
  <2>1. rest \in SUBSET Listed(sync[w].dtos) /\ sync[w].pc # "idle"
    BY <1>1, <1>2
  <2> HIDE DEF rest
  <2>2. Pricing(w, rest) \in Run /\ SyncRight(w)'
    BY <1>6, <2>1, PricingRight
  <2> QED
    BY <1>1, <1>5, <1>6, <2>2, SyncMoves DEF OthersThanSync
<1>7. CASE sync' = [sync EXCEPT ![w] = k]
  <2> HIDE DEF k
  <2>1. sync'[w] = k
    BY <1>1, <1>7
  <2>2. \A o \in left : product'[o] # None
    BY <1>1, <1>2, <1>5 DEF Kept, Run
  <2>3. SyncRight(w)'
    BY <1>1, <1>2, <1>3, <2>1, <2>2 DEF SyncRight
  <2> QED
    BY <1>1, <1>3, <1>5, <1>7, <2>3, SyncMoves DEF OthersThanSync
<1> QED
  BY <1>4, <1>6, <1>7

-----------------------------------------------------------------------------
(* The orders.                                                             *)

LEMMA OutcomeRight ==
  ASSUME CatalogueInv, NEW c \in Clients, sale[c].pc \in {"asks", "waits"},
         NEW prices \in Listings
  PROVE  /\ Outcome(c, prices) \in Order
         /\ Outcome(c, prices).pc \notin {"asks", "waits"}
         /\ Outcome(c, prices).pc = "raises" =>
               /\ Outcome(c, prices).product \in Products
               /\ product[Outcome(c, prices).product] # None
               /\ Outcome(c, prices).live \in Prices
<1>1. sale[c] \in Order /\ SaleRight(c)
  BY DEF CatalogueInv
<1>2. /\ sale[c].copy # None /\ sale[c].product \in Products
      /\ product[sale[c].product] # None
  BY <1>1 DEF SaleRight
<1>3. sale[c].copy.link \in Ids
  BY <1>1, <1>2 DEF Order, ProductCopy
<1> DEFINE entry == prices[sale[c].copy.link]
           k == [sale[c] EXCEPT !.pc = "raises", !.copy = None, !.live = entry.price]
           sold == [NoSale EXCEPT !.pc = "sold"]
<1>4. entry # None => entry.price \in Prices
  BY <1>3, ListedEntry DEF Listed
<1>5. Outcome(c, prices) = sold \/ (entry # None /\ Outcome(c, prices) = k)
  BY DEF Outcome
<1>6. sold \in Order /\ sold.pc = "sold"
  BY DEF Order, NoSale
<1> HIDE DEF entry, sold
<1>7. CASE entry # None /\ Outcome(c, prices) = k
  <2>1. k \in Order /\ k.pc = "raises" /\ k.product = sale[c].product /\ k.live = entry.price
    BY <1>1, <1>4, <1>7 DEF Order
  <2> QED
    BY <1>2, <1>4, <1>7, <2>1
<1> QED
  BY <1>5, <1>6, <1>7

\* Orders change, the documents do not.
LEMMA SalesMove ==
  ASSUME CatalogueInv, sale' \in [Clients -> Order],
         \A c \in Clients : sale'[c] = sale[c] \/ SaleRight(c)',
         cache' \in [Workers -> Listings \cup {None}], WaitersRight',
         UNCHANGED product, UNCHANGED OthersThanSale
  PROVE  CatalogueInv'
<1>1. Kept /\ Linked'
  BY KeptStays, LinkedStays DEF CatalogueInv, OthersThanSale
<1>2. DocsRight'
  BY DEF CatalogueInv, DocsRight, Linkable, OthersThanSale
<1>3. /\ \A w \in Workers : SyncRight(w)'
      /\ \A c \in Clients : SaleRight(c)'
      /\ \A r \in Reviews : EditRight(r)'
  BY <1>1, OthersStay DEF OthersThanSale
<1> QED
  BY <1>1, <1>2, <1>3 DEF CatalogueInv, OthersThanSale

\* A customer who neither waits nor begins to changes nothing for the fetch.
LEMMA WaitersStay ==
  ASSUME CatalogueInv, NEW c \in Clients, NEW k \in Order,
         sale' = [sale EXCEPT ![c] = k], sale[c].pc # "waits", k.pc # "waits",
         UNCHANGED pending
  PROVE  WaitersRight'
<1>1. /\ sale \in [Clients -> Order] /\ pending \in [Workers -> Listings \cup {None}]
      /\ \A w \in Workers : pending[w] # None
             <=> \E d \in Clients : At[d] = w /\ sale[d].pc = "waits"
  BY DEF CatalogueInv, WaitersRight
<1>2. sale'[c] = k /\ \A d \in Clients \ {c} : sale'[d] = sale[d]
  BY <1>1
<1>3. \A d \in Clients : sale'[d].pc = "waits" <=> sale[d].pc = "waits"
  BY <1>2
<1> QED
  BY <1>1, <1>3 DEF WaitersRight

LEMMA BeginOrderStep ==
  ASSUME CatalogueInv, NEW c \in Clients, BeginOrder(c)
  PROVE  CatalogueInv'
<1>1. /\ sale[c].pc # "waits" /\ sale \in [Clients -> Order]
      /\ cache \in [Workers -> Listings \cup {None}]
      /\ UNCHANGED <<product, cache, pending>> /\ UNCHANGED OthersThanSale
  BY DEF CatalogueInv, DocsRight, BeginOrder
<1> PICK q \in {r \in Products : product[r] # None} :
          sale' = [sale EXCEPT ![c] =
              IF provider = "active" /\ product[q].link # None
              THEN [pc |-> "asks", product |-> q, live |-> None,
                    copy |-> [link |-> product[q].link, cost |-> product[q].cost]]
              ELSE [NoSale EXCEPT !.pc = "sold"]]
  BY DEF BeginOrder
<1>2. product[q] \in ProductDoc /\ product[q] # None
  BY DEF CatalogueInv, DocsRight
<1>3. PICK k \in Order :
        /\ sale' = [sale EXCEPT ![c] = k]
        /\ \/ k.pc = "sold"
           \/ k.pc = "asks" /\ k.product = q /\ k.copy # None
  <2>1. CASE provider = "active" /\ product[q].link # None
    <3> DEFINE copy == [link |-> product[q].link, cost |-> product[q].cost]
               k == [pc |-> "asks", product |-> q, copy |-> copy, live |-> None]
    <3>1. copy \in ProductCopy
      BY <1>2, <2>1 DEF ProductDoc, ProductCopy
    <3>2. k \in Order /\ k.pc = "asks" /\ k.product = q /\ k.copy = copy
      BY <3>1 DEF Order
    <3>3. copy # None
      BY <3>1, ListingsAssumption
    <3>4. sale' = [sale EXCEPT ![c] = k]
      BY <2>1
    <3> QED
      BY <3>2, <3>3, <3>4
  <2>2. CASE ~(provider = "active" /\ product[q].link # None)
    <3> DEFINE k == [NoSale EXCEPT !.pc = "sold"]
    <3>1. k \in Order /\ k.pc = "sold"
      BY DEF Order, NoSale
    <3>2. sale' = [sale EXCEPT ![c] = k]
      BY <2>2
    <3> QED
      BY <3>1, <3>2
  <2> QED
    BY <2>1, <2>2
<1>4. sale' \in [Clients -> Order] /\ sale'[c] = k /\ \A d \in Clients \ {c} : sale'[d] = sale[d]
  BY <1>1, <1>3
<1>5. SaleRight(c)'
  BY <1>1, <1>2, <1>3, <1>4 DEF SaleRight
<1>6. WaitersRight'
  BY <1>1, <1>3, WaitersStay
<1> QED
  BY <1>1, <1>4, <1>5, <1>6, SalesMove

LEMMA HitStep ==
  ASSUME CatalogueInv, NEW c \in Clients, hitCache(c)
  PROVE  CatalogueInv'
<1> DEFINE k == Outcome(c, cache[At[c]])
<1>1. /\ sale[c].pc = "asks" /\ sale \in [Clients -> Order]
      /\ cache \in [Workers -> Listings \cup {None}]
      /\ UNCHANGED <<product, pending>> /\ UNCHANGED OthersThanSale
  BY DEF CatalogueInv, DocsRight, hitCache
<1>2. At[c] \in Workers /\ cache[At[c]] \in Listings /\ sale' = [sale EXCEPT ![c] = k]
  BY <1>1, CatalogueAssumption DEF hitCache
<1>3. /\ k \in Order /\ k.pc \notin {"asks", "waits"}
      /\ k.pc = "raises" =>
            k.product \in Products /\ product[k.product] # None /\ k.live \in Prices
  BY <1>1, <1>2, OutcomeRight
<1> HIDE DEF k
<1>4. sale' \in [Clients -> Order] /\ sale'[c] = k /\ \A d \in Clients \ {c} : sale'[d] = sale[d]
  BY <1>1, <1>2, <1>3
<1>5. SaleRight(c)'
  BY <1>1, <1>3, <1>4 DEF SaleRight
<1>6. WaitersRight'
  BY <1>1, <1>2, <1>3, WaitersStay
<1>7. cache' \in [Workers -> Listings \cup {None}]
  BY <1>1 DEF hitCache
<1> QED
  BY <1>1, <1>4, <1>5, <1>6, <1>7, SalesMove

LEMMA MissStep ==
  ASSUME CatalogueInv, NEW c \in Clients, missCache(c)
  PROVE  CatalogueInv'
<1> DEFINE k == [sale[c] EXCEPT !.pc = "waits"]
<1>1. /\ sale[c].pc = "asks" /\ sale \in [Clients -> Order] /\ SaleRight(c)
      /\ cache \in [Workers -> Listings \cup {None}] /\ listing \in Listings
      /\ UNCHANGED <<product, cache>> /\ UNCHANGED OthersThanSale
  BY DEF CatalogueInv, DocsRight, missCache
<1>2. /\ At[c] \in Workers /\ sale' = [sale EXCEPT ![c] = k]
      /\ pending' = IF pending[At[c]] = None THEN [pending EXCEPT ![At[c]] = listing]
                    ELSE pending
  BY CatalogueAssumption DEF missCache
<1>3. k \in Order /\ k.pc = "waits" /\ k.product = sale[c].product /\ k.copy = sale[c].copy
  BY <1>1 DEF Order
<1> HIDE DEF k
<1>4. sale' \in [Clients -> Order] /\ sale'[c] = k /\ \A d \in Clients \ {c} : sale'[d] = sale[d]
  BY <1>1, <1>2, <1>3
<1>5. SaleRight(c)'
  BY <1>1, <1>3, <1>4 DEF SaleRight
<1>6. WaitersRight'
  <2>1. /\ pending \in [Workers -> Listings \cup {None}]
        /\ \A w \in Workers : pending[w] # None
               <=> \E d \in Clients : At[d] = w /\ sale[d].pc = "waits"
    BY DEF CatalogueInv, WaitersRight
  <2>2. listing # None
    BY <1>1, ListingsAssumption
  <2>3. /\ pending' \in [Workers -> Listings \cup {None}] /\ pending'[At[c]] # None
        /\ \A w \in Workers \ {At[c]} : pending'[w] = pending[w]
    BY <1>1, <1>2, <2>1, <2>2
  <2>4. ASSUME NEW w \in Workers
        PROVE  pending'[w] # None <=> \E d \in Clients : At[d] = w /\ sale'[d].pc = "waits"
    <3>1. CASE w = At[c]
      BY <1>3, <1>4, <2>3, <3>1
    <3>2. CASE w # At[c]
      BY <1>4, <2>1, <2>3, <3>2
    <3> QED
      BY <3>1, <3>2
  <2> QED
    BY <2>3, <2>4 DEF WaitersRight
<1> QED
  BY <1>1, <1>4, <1>5, <1>6, SalesMove

LEMMA FetchAndCacheStep ==
  ASSUME CatalogueInv, NEW w \in Workers, _fetchAndCache(w)
  PROVE  CatalogueInv'
<1>1. /\ sale \in [Clients -> Order] /\ cache \in [Workers -> Listings \cup {None}]
      /\ pending \in [Workers -> Listings \cup {None}] /\ pending[w] # None
      /\ pending' = [pending EXCEPT ![w] = None]
      /\ UNCHANGED product /\ UNCHANGED OthersThanSale
  BY DEF CatalogueInv, DocsRight, WaitersRight, _fetchAndCache
<1>2. pending[w] \in Listings
  BY <1>1
<1>3. ASSUME NEW c \in Clients
      PROVE  /\ sale'[c] \in Order
             /\ c \notin Waiting(w) => sale'[c] = sale[c]
             /\ c \in Waiting(w) =>
                   /\ sale'[c].pc \notin {"asks", "waits"}
                   /\ sale'[c].pc = "raises" =>
                         /\ sale'[c].product \in Products /\ product[sale'[c].product] # None
                         /\ sale'[c].live \in Prices
  <2> DEFINE sold == [NoSale EXCEPT !.pc = "sold"]
  <2>1. sold \in Order /\ sold.pc = "sold"
    BY DEF Order, NoSale
  <2> HIDE DEF sold
  <2>2. CASE c \notin Waiting(w)
    BY <1>1, <2>2 DEF _fetchAndCache
  <2>3. CASE c \in Waiting(w)
    <3>1. sale[c].pc \in {"asks", "waits"}
      BY <2>3 DEF Waiting
    <3>2. sale'[c] = Outcome(c, pending[w]) \/ sale'[c] = sold
      BY <2>3 DEF _fetchAndCache, sold
    <3>3. CASE sale'[c] = sold
      BY <2>1, <2>3, <3>3
    <3>4. CASE sale'[c] = Outcome(c, pending[w])
      BY <1>2, <2>3, <3>1, <3>4, OutcomeRight
    <3> QED
      BY <3>2, <3>3, <3>4
  <2> QED
    BY <2>2, <2>3
<1>4. sale' \in [Clients -> Order]
  BY <1>3 DEF _fetchAndCache
<1>5. \A c \in Clients : sale'[c] = sale[c] \/ SaleRight(c)'
  BY <1>1, <1>3 DEF SaleRight
<1>6. cache' \in [Workers -> Listings \cup {None}]
  BY <1>1, <1>2 DEF _fetchAndCache
<1>7. WaitersRight'
  <2>1. /\ pending' \in [Workers -> Listings \cup {None}] /\ pending'[w] = None
        /\ \A v \in Workers \ {w} : pending'[v] = pending[v]
    BY <1>1
  <2>2. \A c \in Clients : At[c] = w => sale'[c].pc # "waits"
    BY <1>3 DEF Waiting
  <2>3. \A c \in Clients : At[c] # w => sale'[c] = sale[c]
    BY <1>3 DEF Waiting
  <2>4. ASSUME NEW v \in Workers
        PROVE  pending'[v] # None <=> \E c \in Clients : At[c] = v /\ sale'[c].pc = "waits"
    <3>1. CASE v = w
      BY <2>1, <2>2, <3>1
    <3>2. CASE v # w
      BY <2>1, <2>3, <3>2 DEF CatalogueInv, WaitersRight
    <3> QED
      BY <3>1, <3>2
  <2> QED
    BY <2>1, <2>4 DEF WaitersRight
<1> QED
  BY <1>1, <1>4, <1>5, <1>6, <1>7, SalesMove

LEMMA ExpireStep ==
  ASSUME CatalogueInv, NEW w \in Workers, CacheExpires(w)
  PROVE  CatalogueInv'
<1>1. /\ cache' = [cache EXCEPT ![w] = None] /\ UNCHANGED <<product, pending, sale>>
      /\ UNCHANGED OthersThanSale
  BY DEF CacheExpires
<1>2. cache' \in [Workers -> Listings \cup {None}] /\ WaitersRight'
  BY <1>1 DEF CatalogueInv, DocsRight, WaitersRight
<1> QED
  BY <1>1, <1>2, SalesMove DEF CatalogueInv

LEMMA AutoUpdateStep ==
  ASSUME CatalogueInv, NEW c \in Clients, _autoUpdateProductPrice(c)
  PROVE  CatalogueInv'
<1>1. /\ sale[c].pc = "raises" /\ sale \in [Clients -> Order] /\ SaleRight(c)
      /\ sale' = [sale EXCEPT ![c] = NoSale]
      /\ UNCHANGED <<cache, pending>> /\ UNCHANGED OthersThanSale
  BY DEF CatalogueInv, _autoUpdateProductPrice
<1>2. DocsRight' /\ Kept /\ Linked'
  <2>1. CASE UNCHANGED product
    BY <1>1, <2>1, KeptStays, DocsStay, LinkedStays DEF CatalogueInv, OthersThanSale
  <2>2. CASE product' = [product EXCEPT ![sale[c].product] = Priced(@, sale[c].live)]
    <3>1. /\ sale[c].product \in Products /\ product[sale[c].product] # None
          /\ sale[c].live \in Prices
      BY <1>1 DEF SaleRight
    <3> DEFINE q == sale[c].product
    <3>2. product' = [product EXCEPT ![q] = Priced(product[q], sale[c].live)]
      BY <2>2
    <3> HIDE DEF q
    <3>3. q \in Products /\ product[q] # None
      BY <3>1 DEF q
    <3> QED
      BY <1>1, <3>1, <3>2, <3>3, PriceWritten DEF OthersThanSale
  <2> QED
    BY <2>1, <2>2 DEF _autoUpdateProductPrice
<1>3. NoSale \in Order /\ NoSale.pc = "idle"
  BY DEF NoSale, Order
<1>4. /\ sale' \in [Clients -> Order] /\ sale'[c].pc = "idle"
      /\ \A d \in Clients \ {c} : sale'[d] = sale[d]
  BY <1>1, <1>3
<1>5. SaleRight(c)'
  BY <1>4 DEF SaleRight
<1>6. /\ \A w \in Workers : SyncRight(w)'
      /\ \A d \in Clients : SaleRight(d)'
      /\ \A r \in Reviews : EditRight(r)'
  BY <1>1, <1>2, <1>4, <1>5, OthersStay DEF OthersThanSale
<1>7. WaitersRight'
  BY <1>1, <1>3, WaitersStay
<1> QED
  BY <1>1, <1>2, <1>4, <1>6, <1>7 DEF CatalogueInv, OthersThanSale

-----------------------------------------------------------------------------
(* The administrators.                                                     *)

\* An administrator's request, whatever it writes.
LEMMA EditMoves ==
  ASSUME CatalogueInv, NEW r \in Reviews, NEW k \in Request, edit' = [edit EXCEPT ![r] = k],
         EditRight(r)', DocsRight', Kept, Linked', UNCHANGED <<sync, pending, sale>>
  PROVE  CatalogueInv'
<1>1. edit' \in [Reviews -> Request] /\ \A s \in Reviews \ {r} : edit'[s] = edit[s]
  BY DEF CatalogueInv
<1>2. \A s \in Reviews : EditRight(s)'
  BY <1>1, OthersStay
<1>3. /\ \A w \in Workers : SyncRight(w)'
      /\ \A c \in Clients : SaleRight(c)'
  BY OthersStay
<1>4. WaitersRight'
  BY DEF CatalogueInv, WaitersRight
<1> QED
  BY <1>1, <1>2, <1>3, <1>4 DEF CatalogueInv

\* Nobody but him who deletes the provider begins or ends doing so.
LEMMA DeletingStays ==
  ASSUME CatalogueInv, NEW r \in Reviews, NEW k \in Request, edit' = [edit EXCEPT ![r] = k],
         edit[r].pc # "delete", k.pc # "delete", provider' = "deleted" <=> provider = "deleted"
  PROVE  Deleting' <=> Deleting
<1>1. edit'[r] = k /\ \A s \in Reviews \ {r} : edit'[s] = edit[s]
  BY DEF CatalogueInv
<1>2. \A s \in Reviews : edit'[s].pc = "delete" <=> edit[s].pc = "delete"
  BY <1>1
<1> QED
  BY <1>2 DEF Deleting

\* A request goes on beside nobody, or beside nobody who deletes the provider.
LEMMA LinkedMoves ==
  ASSUME CatalogueInv, NEW r \in Reviews, NEW k \in Request, edit' = [edit EXCEPT ![r] = k],
         edit[r].pc \in {"new", "create", "save"}, k.pc # "delete",
         provider' = "deleted" <=> provider = "deleted",
         ~Deleting => /\ k.pc \in {"create", "save"} => Whole(k.edited)
                      /\ \A q \in Products : product'[q] # None => Whole(product'[q])
  PROVE  Linked'
<1>1. edit'[r] = k /\ \A s \in Reviews \ {r} : edit'[s] = edit[s]
  BY DEF CatalogueInv
<1>2. Deleting' <=> Deleting
  BY DeletingStays
<1>3. Linked
  BY DEF CatalogueInv
<1>4. CASE ~Deleting
  <2>1. \A s \in Reviews : edit'[s].pc \in {"create", "save"} => Whole(edit'[s].edited)
    BY <1>1, <1>3, <1>4 DEF Linked
  <2> QED
    BY <1>2, <1>4, <2>1 DEF Linked, Whole
<1>5. CASE Deleting
  <2>1. ~(\A s, t \in Reviews : s = t)
    BY <1>3, <1>5 DEF Linked
  <2> QED
    BY <1>2, <1>5, <2>1 DEF Linked
<1> QED
  BY <1>4, <1>5

LEMMA EditsRight ==
  ASSUME DocsRight, NEW p \in ProductDoc, Linkable(p), NEW e \in Edits(p)
  PROVE  e \in ProductDoc /\ Linkable(e) /\ (Whole(p) => Whole(e))
<1>1. doc \in [Ids -> Entry \cup {None}] /\ p.link \in Ids \cup {None}
  BY DEF DocsRight, ProductDoc
<1>2. \A id \in Ids : doc[id] # None => doc[id].price \in Prices
  BY <1>1 DEF Entry
<1>3. CASE e = [p EXCEPT !.mode = "manual", !.base = Own]
  <2>1. e \in ProductDoc /\ e.link = p.link /\ e.cost = p.cost
    BY <1>3 DEF ProductDoc
  <2> QED
    BY <2>1 DEF Linkable, Whole
<1>4. ASSUME p.link # None, NEW m \in {"sync", "manual"},
             e = Priced([p EXCEPT !.mode = m], doc[p.link].price)
      PROVE  e \in ProductDoc /\ Linkable(e) /\ Whole(e)
  <2> DEFINE n == [p EXCEPT !.mode = m]
  <2>1. n \in ProductDoc /\ n.link = p.link
    BY DEF ProductDoc
  <2>2. doc[p.link].price \in Prices
    BY <1>1, <1>2, <1>4 DEF Linkable
  <2>3. e = Priced(n, doc[p.link].price)
    BY <1>4
  <2> HIDE DEF n
  <2>4. e \in ProductDoc /\ e.link = p.link /\ e.cost # None
    BY <2>1, <2>2, <2>3, PricedRight
  <2> QED
    BY <1>4, <2>4 DEF Linkable, Whole
<1>5. ASSUME NEW id \in Ids, doc[id] # None, e = Relinked(p, id)
      PROVE  e \in ProductDoc /\ Linkable(e) /\ Whole(e)
  <2> DEFINE n == [p EXCEPT !.link = id]
  <2>1. n \in ProductDoc /\ n.link = id
    BY DEF ProductDoc
  <2>2. doc[id].price \in Prices
    BY <1>2, <1>5
  <2>3. e = Priced(n, doc[id].price)
    BY <1>5 DEF Relinked
  <2> HIDE DEF n
  <2>4. e \in ProductDoc /\ e.link = id /\ e.cost # None
    BY <2>1, <2>2, <2>3, PricedRight
  <2>5. id # None
    BY ListingsAssumption
  <2> QED
    BY <1>5, <2>4, <2>5 DEF Linkable, Whole
<1>6. \/ e = [p EXCEPT !.mode = "manual", !.base = Own]
      \/ p.link # None /\ \E m \in {"sync", "manual"} :
             e = Priced([p EXCEPT !.mode = m], doc[p.link].price)
      \/ \E id \in Ids : doc[id] # None /\ e = Relinked(p, id)
  BY DEF Edits
<1> QED
  BY <1>3, <1>4, <1>5, <1>6

\* What is saved has the links and prices of the two documents it is made of.
LEMMA SavedProduct ==
  ASSUME NEW now \in ProductDoc, NEW copy \in ProductDoc, NEW edited \in ProductDoc
  PROVE  /\ Saved(now, copy, edited) \in ProductDoc
         /\ Linkable(now) /\ Linkable(edited) => Linkable(Saved(now, copy, edited))
         /\ Whole(now) /\ Whole(edited) => Whole(Saved(now, copy, edited))
<1> DEFINE n == Saved(now, copy, edited)
<1>1. DOMAIN now = {"link", "mode", "cost", "base"}
  BY DEF ProductDoc
<1>2. n = [link |-> n.link, mode |-> n.mode, cost |-> n.cost, base |-> n.base]
  BY <1>1 DEF Saved
<1>3. /\ n.link \in {now.link, edited.link} /\ n.mode \in {now.mode, edited.mode}
      /\ n.cost \in {now.cost, edited.cost} /\ n.base \in {now.base, edited.base}
  BY <1>1 DEF Saved
<1> HIDE DEF n
<1>4. /\ n.link \in Ids \cup {None} /\ n.mode \in {"sync", "manual"}
      /\ n.cost \in Prices \cup {None} /\ n.base \in Prices \cup {Own}
  BY <1>3 DEF ProductDoc
<1>5. n \in ProductDoc
  BY <1>2, <1>4 DEF ProductDoc
<1>6. Linkable(now) /\ Linkable(edited) => Linkable(n)
  BY <1>3 DEF Linkable
<1>7. Whole(now) /\ Whole(edited) => Whole(n)
  BY <1>3 DEF Whole
<1> QED
  BY <1>5, <1>6, <1>7 DEF n

\* One product is written, with a document that fits.
LEMMA ProductWritten ==
  ASSUME DocsRight, NEW q \in Products, NEW p \in ProductDoc, Linkable(p),
         product' = [product EXCEPT ![q] = p], UNCHANGED <<listing, provider, doc, cache>>
  PROVE  DocsRight' /\ Kept
<1>1. /\ product' \in [Products -> ProductDoc \cup {None}] /\ product'[q] = p
      /\ \A o \in Products \ {q} : product'[o] = product[o]
  BY DEF DocsRight
<1>2. p # None
  BY ListingsAssumption
<1> QED
  BY <1>1, <1>2 DEF DocsRight, Kept, Linkable

LEMMA EndRight ==
  ASSUME CatalogueInv, NEW r \in Reviews, EditEnds(r)
  PROVE  \E k \in Request : edit' = [edit EXCEPT ![r] = k] /\ k.pc = "done" /\ EditRight(r)'
<1> DEFINE k == [pc |-> "done", product |-> None, copy |-> None, edited |-> None]
<1>1. edit' = [edit EXCEPT ![r] = k]
  BY DEF EditEnds, EditGoes
<1>2. k \in Request /\ k.pc = "done"
  BY DEF Request
<1> HIDE DEF k
<1>3. edit'[r] = k
  BY <1>1 DEF CatalogueInv
<1> QED
  BY <1>1, <1>2, <1>3 DEF EditRight

LEMMA BeginPublishStep ==
  ASSUME CatalogueInv, NEW r \in Reviews, NEW id \in Ids, NEW mode \in {"sync", "manual"},
         BeginPublish(r, id, mode)
  PROVE  CatalogueInv'
<1> DEFINE p == [link |-> id, mode |-> mode, cost |-> doc[id].price, base |-> doc[id].price]
           k == [pc |-> "create", product |-> None, copy |-> None, edited |-> p]
<1>1. /\ edit[r].pc = "new" /\ doc[id] # None /\ edit' = [edit EXCEPT ![r] = k]
      /\ UNCHANGED <<provider, product>> /\ UNCHANGED OthersThanEdit
      /\ edit \in [Reviews -> Request] /\ DocsRight
  BY DEF CatalogueInv, BeginPublish, EditGoes
<1>2. doc[id].price \in Prices
  BY <1>1 DEF DocsRight, Entry
<1>3. p \in ProductDoc /\ p.link = id /\ p.cost = doc[id].price
  BY <1>2 DEF ProductDoc
<1>4. Linkable(p) /\ Whole(p)
  BY <1>1, <1>2, <1>3, ListingsAssumption DEF Linkable, Whole
<1> HIDE DEF p
<1>5. k \in Request /\ k.pc = "create" /\ k.edited = p
  BY <1>3 DEF Request
<1> HIDE DEF k
<1>6. edit'[r] = k
  BY <1>1
<1>7. EditRight(r)'
  BY <1>1, <1>3, <1>4, <1>5, <1>6 DEF EditRight, Linkable, OthersThanEdit
<1>8. DocsRight' /\ Kept
  BY <1>1, DocsStay, KeptStays DEF OthersThanEdit
<1>9. ~Deleting => \A q \in Products : product'[q] # None => Whole(product'[q])
  BY <1>1 DEF CatalogueInv, Linked
<1>10. Linked'
  BY <1>1, <1>4, <1>5, <1>9, LinkedMoves
<1> QED
  BY <1>1, <1>5, <1>7, <1>8, <1>10, EditMoves DEF OthersThanEdit

LEMMA PublishStep ==
  ASSUME CatalogueInv, NEW r \in Reviews, publishFromProviderProduct(r)
  PROVE  CatalogueInv'
<1>1. /\ edit[r].pc = "create" /\ EditRight(r) /\ EditEnds(r) /\ DocsRight /\ Linked
      /\ UNCHANGED provider /\ UNCHANGED OthersThanEdit
  BY DEF CatalogueInv, publishFromProviderProduct
<1> PICK q \in Products : product' = [product EXCEPT ![q] = edit[r].edited]
  BY DEF publishFromProviderProduct
<1> PICK k \in Request : edit' = [edit EXCEPT ![r] = k] /\ k.pc = "done" /\ EditRight(r)'
  BY <1>1, EndRight
<1>2. edit[r].edited \in ProductDoc /\ Linkable(edit[r].edited)
  BY <1>1 DEF EditRight
<1>3. DocsRight' /\ Kept
  BY <1>1, <1>2, ProductWritten DEF OthersThanEdit
<1>4. ~Deleting => \A o \in Products : product'[o] # None => Whole(product'[o])
  BY <1>1 DEF Linked, DocsRight
<1>5. Linked'
  BY <1>1, <1>4, LinkedMoves
<1> QED
  BY <1>1, <1>3, <1>5, EditMoves DEF OthersThanEdit

LEMMA BeginUpdateStep ==
  ASSUME CatalogueInv, NEW r \in Reviews, NEW q \in Products, BeginUpdate(r, q)
  PROVE  CatalogueInv'
<1>1. /\ edit[r].pc = "new" /\ product[q] # None /\ DocsRight /\ Linked
      /\ UNCHANGED <<provider, product>> /\ UNCHANGED OthersThanEdit
      /\ edit \in [Reviews -> Request]
  BY DEF CatalogueInv, BeginUpdate
<1> PICK e \in Edits(product[q]) : EditGoes(r, "save", q, product[q], e)
  BY DEF BeginUpdate
<1>2. product[q] \in ProductDoc /\ Linkable(product[q])
  BY <1>1 DEF DocsRight
<1>3. e \in ProductDoc /\ Linkable(e) /\ (Whole(product[q]) => Whole(e))
  BY <1>1, <1>2, EditsRight
<1> DEFINE k == [pc |-> "save", product |-> q, copy |-> product[q], edited |-> e]
<1>4. edit' = [edit EXCEPT ![r] = k]
  BY DEF EditGoes
<1>5. k \in Request /\ k.pc = "save" /\ k.product = q /\ k.copy = product[q] /\ k.edited = e
  BY <1>2, <1>3 DEF Request
<1> HIDE DEF k
<1>6. edit'[r] = k
  BY <1>1, <1>4
<1>7. EditRight(r)'
  BY <1>1, <1>2, <1>3, <1>5, <1>6 DEF EditRight, Linkable, OthersThanEdit
<1>8. DocsRight' /\ Kept
  BY <1>1, DocsStay, KeptStays DEF OthersThanEdit
<1>9. ~Deleting => /\ Whole(e)
                   /\ \A o \in Products : product'[o] # None => Whole(product'[o])
  BY <1>1, <1>3 DEF Linked
<1>10. Linked'
  BY <1>1, <1>4, <1>5, <1>9, LinkedMoves
<1> QED
  BY <1>1, <1>4, <1>5, <1>7, <1>8, <1>10, EditMoves DEF OthersThanEdit

LEMMA UpdateStep ==
  ASSUME CatalogueInv, NEW r \in Reviews, updateProduct(r)
  PROVE  CatalogueInv'
<1> DEFINE q == edit[r].product
           p == Saved(product[q], edit[r].copy, edit[r].edited)
<1>1. /\ edit[r].pc = "save" /\ EditRight(r) /\ EditEnds(r) /\ DocsRight /\ Linked
      /\ product' = [product EXCEPT ![q] = p]
      /\ UNCHANGED provider /\ UNCHANGED OthersThanEdit
  BY DEF CatalogueInv, updateProduct
<1> PICK k \in Request : edit' = [edit EXCEPT ![r] = k] /\ k.pc = "done" /\ EditRight(r)'
  BY <1>1, EndRight
<1>2. /\ q \in Products /\ product[q] # None /\ edit[r].copy \in ProductDoc
      /\ edit[r].edited \in ProductDoc /\ Linkable(edit[r].edited)
  BY <1>1 DEF EditRight
<1>3. product[q] \in ProductDoc /\ Linkable(product[q])
  BY <1>1, <1>2 DEF DocsRight
<1>4. /\ p \in ProductDoc /\ Linkable(p)
      /\ Whole(product[q]) /\ Whole(edit[r].edited) => Whole(p)
  BY <1>2, <1>3, SavedProduct
<1> HIDE DEF p, q
<1>5. DocsRight' /\ Kept
  BY <1>1, <1>2, <1>4, ProductWritten DEF OthersThanEdit
<1>6. ~Deleting => \A o \in Products : product'[o] # None => Whole(product'[o])
  BY <1>1, <1>2, <1>4 DEF Linked, DocsRight
<1>7. Linked'
  BY <1>1, <1>6, LinkedMoves
<1> QED
  BY <1>1, <1>5, <1>7, EditMoves DEF OthersThanEdit

LEMMA ToggleStep ==
  ASSUME CatalogueInv, NEW r \in Reviews, toggleProvider(r)
  PROVE  CatalogueInv'
<1>1. /\ edit[r].pc = "new" /\ EditEnds(r) /\ DocsRight /\ Linked
      /\ provider # "deleted" /\ provider' \in {"active", "inactive"}
      /\ UNCHANGED product /\ UNCHANGED OthersThanEdit
  BY DEF CatalogueInv, toggleProvider
<1> PICK k \in Request : edit' = [edit EXCEPT ![r] = k] /\ k.pc = "done" /\ EditRight(r)'
  BY <1>1, EndRight
<1>2. DocsRight' /\ Kept
  BY <1>1, KeptStays DEF DocsRight, Linkable, OthersThanEdit
<1>3. ~Deleting => \A q \in Products : product'[q] # None => Whole(product'[q])
  BY <1>1 DEF Linked
<1>4. Linked'
  BY <1>1, <1>3, LinkedMoves
<1> QED
  BY <1>1, <1>2, <1>4, EditMoves DEF OthersThanEdit

LEMMA DetachStep ==
  ASSUME CatalogueInv, NEW r \in Reviews, Detach(r)
  PROVE  CatalogueInv'
<1> DEFINE k == [pc |-> "delete", product |-> None, copy |-> None, edited |-> None]
<1>1. /\ edit[r].pc = "new" /\ DocsRight /\ Linked /\ edit' = [edit EXCEPT ![r] = k]
      /\ edit \in [Reviews -> Request]
      /\ UNCHANGED provider /\ UNCHANGED OthersThanEdit
  BY DEF CatalogueInv, Detach, EditGoes
<1>2. k \in Request /\ k.pc = "delete"
  BY DEF Request
<1> HIDE DEF k
<1>3. edit'[r] = k /\ EditRight(r)'
  BY <1>1, <1>2 DEF EditRight
<1>4. ASSUME NEW q \in Products
      PROVE  /\ product'[q] \in ProductDoc \cup {None}
             /\ product[q] # None => product'[q] # None
             /\ product'[q] # None => product'[q].link = None
             /\ product'[q] # None /\ Whole(product[q]) => product'[q].mode = "manual"
  <2>1. product[q] \in ProductDoc \cup {None}
    BY <1>1 DEF DocsRight
  <2>2. CASE product[q] # None /\ product[q].link # None
    <3> DEFINE p == [product[q] EXCEPT !.link = None, !.mode = "manual", !.cost = None]
    <3>1. p \in ProductDoc /\ p.link = None /\ p.mode = "manual"
      BY <2>1, <2>2 DEF ProductDoc
    <3>2. product'[q] = p
      BY <2>2 DEF Detach
    <3> HIDE DEF p
    <3>3. p # None
      BY <3>1, ListingsAssumption
    <3> QED
      BY <3>1, <3>2, <3>3
  <2>3. CASE ~(product[q] # None /\ product[q].link # None)
    <3>1. product'[q] = product[q]
      BY <2>3 DEF Detach
    <3> QED
      BY <2>1, <2>3, <3>1 DEF Whole
  <2> QED
    BY <2>2, <2>3
<1>5. product' \in [Products -> ProductDoc \cup {None}]
  BY <1>4 DEF Detach
<1>6. DocsRight' /\ Kept
  BY <1>1, <1>4, <1>5 DEF DocsRight, Linkable, Kept, OthersThanEdit
<1>7. Linked'
  <2>1. Deleting'
    BY <1>2, <1>3 DEF Deleting
  <2>2. ASSUME \A s, t \in Reviews : s = t
        PROVE  /\ \A q \in Products : product'[q] # None => Coherent(product'[q])
               /\ \A s \in Reviews : edit'[s].pc \in {"delete", "done"}
    <3>1. ~Deleting
      BY <1>1, <2>2 DEF Linked
    <3>2. ASSUME NEW q \in Products, product'[q] # None
          PROVE  Coherent(product'[q])
      <4>1. product[q] # None
        BY <3>2 DEF Detach
      <4>2. Whole(product[q])
        BY <1>1, <3>1, <4>1 DEF Linked
      <4> QED
        BY <1>4, <3>2, <4>2 DEF Coherent
    <3> QED
      BY <1>2, <1>3, <2>2, <3>2
  <2> QED
    BY <2>1, <2>2 DEF Linked
<1> QED
  BY <1>1, <1>2, <1>3, <1>6, <1>7, EditMoves DEF OthersThanEdit

LEMMA DeleteStep ==
  ASSUME CatalogueInv, NEW r \in Reviews, deleteProvider(r)
  PROVE  CatalogueInv'
<1>1. /\ edit[r].pc = "delete" /\ EditEnds(r) /\ DocsRight /\ Linked
      /\ provider' = "deleted" /\ edit \in [Reviews -> Request]
      /\ UNCHANGED product /\ UNCHANGED OthersThanEdit
  BY DEF CatalogueInv, deleteProvider
<1> PICK k \in Request : edit' = [edit EXCEPT ![r] = k] /\ k.pc = "done" /\ EditRight(r)'
  BY <1>1, EndRight
<1>2. DocsRight' /\ Kept
  BY <1>1, KeptStays DEF DocsRight, Linkable, OthersThanEdit
<1>3. Linked'
  <2>1. Deleting /\ Deleting'
    BY <1>1 DEF Deleting
  <2>2. ASSUME \A s, t \in Reviews : s = t
        PROVE  \A s \in Reviews : edit'[s].pc \in {"delete", "done"}
    BY <1>1, <2>2
  <2>3. \A q \in Products : Coherent(product[q]) => Coherent(product'[q])
    BY <1>1
  <2> QED
    BY <1>1, <2>1, <2>2, <2>3 DEF Linked
<1> QED
  BY <1>1, <1>2, <1>3, EditMoves DEF OthersThanEdit

-----------------------------------------------------------------------------
(* The theorem.                                                            *)

LEMMA ProviderStep ==
  ASSUME CatalogueInv, ProviderChanges
  PROVE  CatalogueInv'
<1>1. /\ listing' \in Listings
      /\ UNCHANGED <<provider, doc, product, sync, cache, pending, sale, edit>>
  BY DEF ProviderChanges
<1>2. DocsRight' /\ Kept /\ Linked'
  BY <1>1, KeptStays, LinkedStays DEF CatalogueInv, DocsRight, Linkable
<1>3. /\ \A w \in Workers : SyncRight(w)'
      /\ \A c \in Clients : SaleRight(c)'
      /\ \A r \in Reviews : EditRight(r)'
  BY <1>1, <1>2, OthersStay
<1>4. WaitersRight'
  BY <1>1 DEF CatalogueInv, WaitersRight
<1> QED
  BY <1>1, <1>2, <1>3, <1>4 DEF CatalogueInv

LEMMA CatalogueStep == CatalogueInv /\ [CatalogueNext]_catalogueVars => CatalogueInv'
<1> SUFFICES ASSUME CatalogueInv, [CatalogueNext]_catalogueVars PROVE CatalogueInv'
  OBVIOUS
<1>1. CASE ProviderChanges
  BY <1>1, ProviderStep
<1>2. ASSUME NEW w \in Workers, _performSync(w) PROVE CatalogueInv'
  BY <1>2, FetchStep, UpsertStep, DeactivateStep, FindStep, WriteStep DEF _performSync
<1>3. ASSUME NEW w \in Workers, _fetchAndCache(w) \/ CacheExpires(w) PROVE CatalogueInv'
  BY <1>3, FetchAndCacheStep, ExpireStep
<1>4. ASSUME NEW c \in Clients, OrderStep(c) PROVE CatalogueInv'
  BY <1>4, BeginOrderStep, HitStep, MissStep, AutoUpdateStep DEF OrderStep
<1>5. ASSUME NEW r \in Reviews, EditContinues(r) PROVE CatalogueInv'
  BY <1>5, PublishStep, UpdateStep, DeleteStep DEF EditContinues
<1>6. ASSUME NEW r \in Reviews,
             \/ \E id \in Ids, mode \in {"sync", "manual"} : BeginPublish(r, id, mode)
             \/ \E q \in Products : BeginUpdate(r, q)
             \/ toggleProvider(r)
             \/ Detach(r)
      PROVE  CatalogueInv'
  BY <1>6, BeginPublishStep, BeginUpdateStep, ToggleStep, DetachStep
<1>7. CASE UNCHANGED catalogueVars
  <2>1. UNCHANGED <<listing, provider, doc, product, sync, cache, pending, sale, edit>>
    BY <1>7 DEF catalogueVars
  <2>2. DocsRight' /\ Kept /\ Linked'
    BY <2>1, DocsStay, KeptStays, LinkedStays DEF CatalogueInv
  <2>3. /\ \A w \in Workers : SyncRight(w)'
        /\ \A c \in Clients : SaleRight(c)'
        /\ \A r \in Reviews : EditRight(r)'
    BY <2>1, <2>2, OthersStay
  <2> QED
    BY <2>1, <2>2, <2>3 DEF CatalogueInv, WaitersRight
<1> QED
  BY <1>1, <1>2, <1>3, <1>4, <1>5, <1>6, <1>7 DEF CatalogueNext

LEMMA CatalogueInvSays == CatalogueInv => CatalogueTypeOK
<1> SUFFICES ASSUME CatalogueInv PROVE CatalogueTypeOK
  OBVIOUS
<1>1. ASSUME ~Deleting \/ (\A r, s \in Reviews : r = s), NEW q \in Products, product[q] # None
      PROVE  Coherent(product[q])
  <2>1. CASE ~Deleting
    BY <1>1, <2>1 DEF CatalogueInv, Linked, Whole, Coherent
  <2>2. CASE Deleting
    BY <1>1, <2>2 DEF CatalogueInv, Linked
  <2> QED
    BY <2>1, <2>2
<1>2. \A w \in Workers : Waiting(w) # {} <=> pending[w] # None
  BY DEF CatalogueInv, WaitersRight, Waiting
<1>3. doc \in [Ids -> Entry \cup {None}] /\ product \in [Products -> ProductDoc \cup {None}]
  BY DEF CatalogueInv, DocsRight
<1> QED
  BY <1>1, <1>2, <1>3 DEF CatalogueTypeOK, Coherent

\* The documents fit their schemas and a product that follows the provider is linked and
\* priced, however many workers, customers and administrators write what they read long
\* ago; and whoever waits for the provider's prices waits for a fetch that is under way.
THEOREM CatalogueTypeCorrect == CatalogueSpec => []CatalogueTypeOK
<1>1. CatalogueInit => CatalogueInv
  BY CatalogueInitInv
<1>2. CatalogueInv /\ [CatalogueNext]_catalogueVars => CatalogueInv'
  BY CatalogueStep
<1>3. CatalogueInv => CatalogueTypeOK
  BY CatalogueInvSays
<1> QED
  BY <1>1, <1>2, <1>3, PTL DEF CatalogueSpec
=============================================================================
