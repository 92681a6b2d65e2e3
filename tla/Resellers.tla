------------------------------ MODULE Resellers ------------------------------
(***************************************************************************)
(* The client-compatible API (clientCompat.service.js): resellers' systems *)
(* know products, categories and orders by short ids, which documents from *)
(* before the API get when they are first shown.                           *)
(*                                                                         *)
(* Several calls may show one document first.  Products and categories     *)
(* take the next number of a counter, orders a random id; a category is    *)
(* treated as a product is.  createOrder is used by its promise: one order *)
(* under one order_uuid.  A list of orders is one call for each.           *)
(***************************************************************************)
EXTENDS Documents, Integers

CONSTANTS
    Goods,          \* products
    Uuids,          \* order_uuids of one reseller
    OrderIds,       \* compatOrderIds
    Attempts        \* of ensureCompatOrderId

ASSUME ResellersAssumption ==
    /\ Attempts \in Nat \ {0} /\ Goods \cap Uuids = {}
    /\ None \notin OrderIds \cup Nat /\ OrderIds \cap Nat = {}       \* "ID_..." strings

VARIABLES
    good,           \* the Product documents
    sequence,       \* the Counter
    placed,         \* the orders under each order_uuid
    call,           \* calls of the API
    told            \* history: the ids resellers were told, as <<thing, id>>

resellerVars == <<good, sequence, placed, call, told>>

-----------------------------------------------------------------------------

NewCall ==
    [pc |-> "new", seen |-> <<>>, good |-> None, uuid |-> None, id |-> None, attempt |-> 0]

ResellersInit ==
    /\ good \in [Goods -> {[made |-> made, live |-> made, id |-> None] : made \in BOOLEAN}]
    /\ sequence = 0
    /\ placed = [u \in Uuids |-> [made |-> FALSE, id |-> None]]
    /\ call = [t \in Clients |-> NewCall]
    /\ told = {}

CallGoes(t, pc) == call' = [call EXCEPT ![t].pc = pc]

CallEnds(t) == call' = [call EXCEPT ![t] = [NewCall EXCEPT !.pc = "done"]]

-----------------------------------------------------------------------------
(* Products.                                                               *)

\* A new product takes its number before it is saved.
createProduct(g) ==
    /\ ~good[g].made
    /\ sequence' = sequence + 1
    /\ good' = [good EXCEPT ![g] = [made |-> TRUE, live |-> TRUE, id |-> sequence']]
    /\ UNCHANGED <<placed, call, told>>

toggleProduct(g) ==
    /\ good[g].made
    /\ good' = [good EXCEPT ![g].live = ~@]
    /\ UNCHANGED <<sequence, placed, call, told>>

listProducts(t) ==
    /\ call[t].pc = "new"
    /\ call' = [call EXCEPT ![t] =
          [@ EXCEPT !.pc = "ensure", !.seen = [g \in {h \in Goods : good[h].live} |-> good[g].id]]]
    /\ UNCHANGED <<good, sequence, placed, told>>

\* ensureCompatIds: the next number for a product whose copy has none ...
getNextSequence(t, g) ==
    /\ call[t].pc = "ensure"
    /\ g \in DOMAIN call[t].seen /\ call[t].seen[g] = None
    /\ sequence' = sequence + 1
    /\ call' = [call EXCEPT ![t] = [@ EXCEPT !.pc = "assign", !.good = g, !.id = sequence']]
    /\ UNCHANGED <<good, placed, told>>

\* Mutant: the update does not ask whether there is an id.
WithOrWithoutId(doc) == TRUE

WithoutId(doc) == doc.id = None

\* ... is written if the product still has none, or else its own is read.
ensureProductCompatId(t) ==
    LET g == call[t].good
        assigned == WithoutId(good[g])
    IN
    /\ call[t].pc = "assign"
    /\ good' = IF assigned THEN [good EXCEPT ![g].id = call[t].id] ELSE good
    /\ call' = IF assigned
               THEN [call EXCEPT ![t].pc = "ensure", ![t].seen[g] = call[t].id]
               ELSE [call EXCEPT ![t].pc = "reread"]
    /\ UNCHANGED <<sequence, placed, told>>

ReadProductId(t) ==
    LET g == call[t].good IN
    /\ call[t].pc = "reread"
    /\ call' = [call EXCEPT ![t].pc = "ensure", ![t].seen[g] = good[g].id]
    /\ UNCHANGED <<good, sequence, placed, told>>

mapProducts(t) ==
    LET seen == call[t].seen IN
    /\ call[t].pc = "ensure"
    /\ \A g \in DOMAIN seen : seen[g] # None
    /\ told' = told \cup {<<g, seen[g]>> : g \in DOMAIN seen}
    /\ CallEnds(t)
    /\ UNCHANGED <<good, sequence, placed>>

-----------------------------------------------------------------------------
(* Orders.                                                                 *)

\* createCompatOrder: the product under the id must be there and on sale.
findProductByCompatId(t, g, u) ==
    /\ call[t].pc = "new"
    /\ good[g].id # None
    /\ IF good[g].live THEN call' = [call EXCEPT ![t].pc = "create", ![t].uuid = u]
       ELSE CallEnds(t)
    /\ UNCHANGED <<good, sequence, placed, told>>

\* The order under the uuid, a new one, or a refusal; its copy has its id or None.
createOrder(t) ==
    LET u == call[t].uuid IN
    /\ call[t].pc = "create"
    /\ \/ /\ placed' = [placed EXCEPT ![u].made = TRUE]
          /\ call' = [call EXCEPT ![t].pc = "tag", ![t].id = placed[u].id]
       \/ /\ ~placed[u].made
          /\ CallEnds(t) /\ UNCHANGED placed
    /\ UNCHANGED <<good, sequence, told>>

listOrders(t, u) ==
    /\ call[t].pc = "new"
    /\ IF placed[u].made
       THEN call' = [call EXCEPT ![t] = [@ EXCEPT !.pc = "tag", !.uuid = u, !.id = placed[u].id]]
       ELSE CallEnds(t)
    /\ UNCHANGED <<good, sequence, placed, told>>

\* A random id: written, found taken by another order, or not needed any more.
ensureCompatOrderId(t, id) ==
    LET u == call[t].uuid
        taken == \E v \in Uuids \ {u} : placed[v].id = id
    IN
    /\ call[t].pc = "tag" /\ call[t].id = None
    /\ IF ~WithoutId(placed[u])
       THEN CallGoes(t, "retag") /\ UNCHANGED placed
       ELSE IF taken
       THEN /\ IF call[t].attempt + 1 = Attempts THEN CallEnds(t)
               ELSE call' = [call EXCEPT ![t].attempt = @ + 1]
            /\ UNCHANGED placed
       ELSE /\ placed' = [placed EXCEPT ![u].id = id]
            /\ call' = [call EXCEPT ![t].id = id]
    /\ UNCHANGED <<good, sequence, told>>

ReadOrderId(t) ==
    /\ call[t].pc = "retag"
    /\ call' = [call EXCEPT ![t].pc = "tag", ![t].id = placed[call[t].uuid].id]
    /\ UNCHANGED <<good, sequence, placed, told>>

mapOrder(t) ==
    /\ call[t].pc = "tag" /\ call[t].id # None
    /\ told' = told \cup {<<call[t].uuid, call[t].id>>}
    /\ CallEnds(t)
    /\ UNCHANGED <<good, sequence, placed>>

-----------------------------------------------------------------------------

ResellersNext ==
    \/ \E g \in Goods : createProduct(g) \/ toggleProduct(g)
    \/ \E t \in Clients :
          \/ listProducts(t)
          \/ \E g \in Goods : getNextSequence(t, g)
          \/ ensureProductCompatId(t)
          \/ ReadProductId(t)
          \/ mapProducts(t)
          \/ \E g \in Goods, u \in Uuids : findProductByCompatId(t, g, u)
          \/ createOrder(t)
          \/ \E u \in Uuids : listOrders(t, u)
          \/ \E id \in OrderIds : ensureCompatOrderId(t, id)
          \/ ReadOrderId(t)
          \/ mapOrder(t)

ResellersSpec == ResellersInit /\ [][ResellersNext]_resellerVars

-----------------------------------------------------------------------------
(* Properties.                                                             *)

\* The type invariant: documents with an id of their kind, a counter no id is ahead of.
ResellersTypeOK ==
    /\ good \in [Goods -> [made : BOOLEAN, live : BOOLEAN, id : Nat \cup {None}]]
    /\ \A g \in Goods : good[g].id # None => good[g].made /\ good[g].id <= sequence
    /\ placed \in [Uuids -> [made : BOOLEAN, id : OrderIds \cup {None}]]

\* Whatever calls show a document first at once, every reseller is told the same id of
\* it, the one it keeps, and no id is ever told of two documents.
IdsAreForGood ==
    /\ \A p, q \in told : p[2] = q[2] => p[1] = q[1]
    /\ \A p \in told : p[2] = IF p[1] \in Goods THEN good[p[1]].id ELSE placed[p[1]].id
=============================================================================
