---------------------------- MODULE OrderCreation ----------------------------
(***************************************************************************)
(* createOrder and _attemptCreateOrder (order.service.js): concurrent      *)
(* requests of one user, some of them resubmissions under one idempotency  *)
(* key.  Every request pays and inserts its order, in one transaction when *)
(* the deployment has them and as two operations with a compensation when  *)
(* it does not, and retries itself when a transaction is unsupported, hits *)
(* a write conflict, or draws an order number that was taken meanwhile.    *)
(*                                                                         *)
(* `funds` is what the user may still spend: balance plus credit limit, or *)
(* the rest of the quota.  The two billing branches have the same steps.   *)
(* Validation, routing and pricing are the choice to refuse.  An attempt   *)
(* never runs out of order numbers: the limit of twenty draws needs more   *)
(* competitors than an instance has.                                       *)
(***************************************************************************)
EXTENDS Integers, FiniteSets

CONSTANTS
    Requests,       \* the user's requests, each sent once
    Keys,           \* idempotency keys they may carry
    NoKey,          \* no idempotency key: stored as null
    Numbers,        \* public order numbers
    NoNumber,
    Price,          \* what each order costs
    Opening,        \* the user's funds
    FaultSets       \* the combinations of faults to look at

FaultKinds ==
    {"crash",           \* the process dies
     "db_error",        \* a database call throws and has no effect
     "unknown_commit"}  \* a transaction commits but the commit call throws

ASSUME KeysAssumption == NoKey \notin Keys
ASSUME NumbersAssumption == NoNumber \notin Numbers
ASSUME FaultsAssumption == FaultSets \subseteq SUBSET FaultKinds
ASSUME FundsAssumption == Price \in Nat \ {0} /\ Opening \in Nat

VARIABLES
    wanted,         \* shouldUseOrderTransactions(): a setting or the topology
    supported,      \* whether the server can run transactions at all
    faults,         \* what may go wrong in this run
    funds,          \* what the user may still spend
    created,        \* the requests whose order is in the collection
    request         \* what each request is doing

environment == <<wanted, supported, faults>>
vars == <<wanted, supported, faults, funds, created, request>>

-----------------------------------------------------------------------------

Answers == {"none", "created", "existing", "duplicate", "refused", "failed"}

Request ==
    [pc : {"new", "number", "attempt", "taken", "giveBack", "committed", "done"},
     key : Keys \cup {NoKey},
     number : Numbers \cup {NoNumber},
     forceStandalone : BOOLEAN,
     isRetry : BOOLEAN,
     answer : Answers]      \* in "giveBack": the answer to come, or none

NewRequest ==
    [pc |-> "new", key |-> NoKey, number |-> NoNumber,
     forceStandalone |-> FALSE, isRetry |-> FALSE, answer |-> "none"]

Init ==
    /\ wanted \in BOOLEAN
    /\ supported \in BOOLEAN
    /\ faults \in FaultSets
    /\ funds = Opening
    /\ created = {}
    /\ request = [r \in Requests |-> NewRequest]

At(r, pc) == request[r].pc = pc
Goto(r, pc) == request' = [request EXCEPT ![r].pc = pc]

\* The end of a request; what its attempts carried is gone.
End(r, answer, number) ==
    request' = [request EXCEPT ![r] =
                  [NewRequest EXCEPT !.pc = "done", !.answer = answer,
                                     !.key = request[r].key, !.number = number]]

Done(r, answer) ==
    End(r, answer, IF r \in created THEN request[r].number ELSE NoNumber)

\* Another attempt, which draws another number.
Again(r, forced, retry) ==
    request' = [request EXCEPT ![r].pc = "number", ![r].number = NoNumber,
                               ![r].forceStandalone = @ \/ forced, ![r].isRetry = @ \/ retry]

\* A session was opened for this attempt.
InSession(r) == wanted /\ ~request[r].forceStandalone

\* The unique indexes.  The compound (userId, idempotencyKey) index is sparse,
\* but userId is always there, so it also holds the orders without a key.
KeyTaken(r) == \E q \in created : request[q].key = request[r].key
NumberTaken(r) == \E q \in created : request[q].number = request[r].number

\* The order a request with a key finds under it.
Existing(r) == request[r].key # NoKey /\ KeyTaken(r)

\* What the insert's duplicate-key error is turned into.
DuplicateAnswer(r) == IF request[r].key # NoKey THEN "existing" ELSE "duplicate"

-----------------------------------------------------------------------------
(* Both paths.                                                             *)

\* The lookup before anything else.
Submit(r, key) ==
    LET known == key # NoKey /\ \E q \in created : request[q].key = key IN
    /\ At(r, "new")
    /\ request' = [request EXCEPT ![r] =
                     [@ EXCEPT !.key = key,
                               !.pc = IF known THEN "done" ELSE "number",
                               !.answer = IF known THEN "existing" ELSE "none"]]
    /\ UNCHANGED <<environment, funds, created>>

\* A number no order has at this moment; the search is given up when all the
\* candidates are taken.
generateUniqueOrderNumber(r) ==
    LET free == {n \in Numbers : \A q \in created : request[q].number # n} IN
    /\ At(r, "number")
    /\ \/ \E number \in free :
             request' = [request EXCEPT ![r] =
                           [@ EXCEPT !.pc = "attempt", !.number = number]]
       \/ free = {} /\ Done(r, "refused")
    /\ UNCHANGED <<environment, funds, created>>

\* Product, quantity, fields, route, price or funds do not allow the order, or
\* a call before the debit fails.
Refuse(r) ==
    /\ At(r, "attempt")
    /\ InSession(r) => supported
    /\ Done(r, "refused")
    /\ UNCHANGED <<environment, funds, created>>

-----------------------------------------------------------------------------
(* With a session: debit and insert commit together or not at all.         *)

InTxn(r) == At(r, "attempt") /\ InSession(r)

\* The first operation of a transaction on a standalone server.
TxnUnsupported(r) ==
    /\ InTxn(r)
    /\ ~supported
    /\ Again(r, TRUE, TRUE)
    /\ UNCHANGED <<environment, funds, created>>

TxnCommit(r) ==
    /\ InTxn(r)
    /\ supported
    /\ funds >= Price
    /\ ~KeyTaken(r) /\ ~NumberTaken(r)
    /\ funds' = funds - Price
    /\ created' = created \cup {r}
    /\ \/ Goto(r, "committed")
       \/ "unknown_commit" \in faults /\ End(r, "failed", request[r].number)
    /\ UNCHANGED environment

\* The session is aborted, and the attempt starts again with another number.
TxnDuplicateNumber(r) ==
    /\ InTxn(r)
    /\ supported
    /\ funds >= Price
    /\ NumberTaken(r)
    /\ Again(r, FALSE, FALSE)
    /\ UNCHANGED <<environment, funds, created>>

TxnDuplicateKey(r) ==
    /\ InTxn(r)
    /\ supported
    /\ funds >= Price
    /\ KeyTaken(r)
    /\ Done(r, DuplicateAnswer(r))
    /\ UNCHANGED <<environment, funds, created>>

\* Mutant: the retried attempt retries again.
TxnConflictForever(r) ==
    /\ InTxn(r)
    /\ supported
    /\ Again(r, FALSE, TRUE)
    /\ UNCHANGED <<environment, funds, created>>

\* A write conflict, or a lock timeout: tried once more.
TxnConflict(r) ==
    /\ InTxn(r)
    /\ supported
    /\ IF request[r].isRetry THEN Done(r, "failed") ELSE Again(r, FALSE, TRUE)
    /\ UNCHANGED <<environment, funds, created>>

-----------------------------------------------------------------------------
(* Without one: debit, insert, and a compensation when the insert fails.   *)

\* Mutant: the debit does not look at the funds.
TakeUnchecked(r) ==
    /\ At(r, "attempt")
    /\ ~InSession(r)
    /\ funds' = funds - Price
    /\ Goto(r, "taken")
    /\ UNCHANGED <<environment, created>>

\* The debit; when only its ledger record fails, nothing gives it back.
Take(r) ==
    /\ At(r, "attempt")
    /\ ~InSession(r)
    /\ funds >= Price
    /\ funds' = funds - Price
    /\ \/ Goto(r, "taken")
       \/ "db_error" \in faults /\ Done(r, "failed")
    /\ UNCHANGED <<environment, created>>

\* The compensation that is due once the insert has failed.
ThenGiveBack(r, answer) ==
    /\ request' = [request EXCEPT ![r] = [@ EXCEPT !.pc = "giveBack", !.answer = answer]]
    /\ UNCHANGED <<environment, funds, created>>

\* Mutant: any duplicate-key error is taken for the idempotency key's.
CreateAnyDuplicate(r) ==
    /\ At(r, "taken")
    /\ \/ /\ ~KeyTaken(r) /\ ~NumberTaken(r)
          /\ created' = created \cup {r}
          /\ Goto(r, "committed")
          /\ UNCHANGED <<environment, funds>>
       \/ /\ KeyTaken(r) \/ NumberTaken(r)
          /\ ThenGiveBack(r, DuplicateAnswer(r))
       \/ "db_error" \in faults /\ ThenGiveBack(r, "failed")

\* Mutant: a duplicate number starts again without compensation.
CreateKeepsCharge(r) ==
    /\ At(r, "taken")
    /\ \/ /\ ~KeyTaken(r) /\ ~NumberTaken(r)
          /\ created' = created \cup {r}
          /\ Goto(r, "committed")
          /\ UNCHANGED <<environment, funds>>
       \/ /\ NumberTaken(r)
          /\ Again(r, FALSE, FALSE)
          /\ UNCHANGED <<environment, funds, created>>
       \/ KeyTaken(r) /\ ThenGiveBack(r, DuplicateAnswer(r))
       \/ "db_error" \in faults /\ ThenGiveBack(r, "failed")

Create(r) ==
    /\ At(r, "taken")
    /\ \/ /\ ~KeyTaken(r) /\ ~NumberTaken(r)
          /\ created' = created \cup {r}
          /\ Goto(r, "committed")
          /\ UNCHANGED <<environment, funds>>
       \/ NumberTaken(r) /\ ThenGiveBack(r, "none")
       \/ KeyTaken(r) /\ ThenGiveBack(r, DuplicateAnswer(r))
       \/ "db_error" \in faults /\ ThenGiveBack(r, "failed")

\* Mutant: the outer catch compensates what the insert's catch compensated.
GiveBackTwice(r) ==
    /\ At(r, "giveBack")
    /\ funds' = funds + 2 * Price
    /\ IF request[r].answer = "none" THEN Again(r, FALSE, FALSE)
       ELSE Done(r, request[r].answer)
    /\ UNCHANGED <<environment, created>>

\* The compensation; its failure is only logged.
GiveBack(r) ==
    /\ At(r, "giveBack")
    /\ \/ funds' = funds + Price
       \/ "db_error" \in faults /\ UNCHANGED funds
    /\ IF request[r].answer = "none" THEN Again(r, FALSE, FALSE)
       ELSE Done(r, request[r].answer)
    /\ UNCHANGED <<environment, created>>

-----------------------------------------------------------------------------
(* After the commit.                                                       *)

\* The executor is started and the order returned; or populating the order
\* fails, and the request fails with the order in place.
Answer(r) ==
    /\ At(r, "committed")
    /\ \/ Done(r, "created")
       \/ "db_error" \in faults /\ Done(r, "failed")
    /\ UNCHANGED <<environment, funds, created>>

Crash(r) ==
    /\ "crash" \in faults
    /\ ~At(r, "new") /\ ~At(r, "done")
    /\ Done(r, "none")
    /\ UNCHANGED <<environment, funds, created>>

-----------------------------------------------------------------------------

Attempt(r) ==
    \/ generateUniqueOrderNumber(r)
    \/ Refuse(r)
    \/ TxnUnsupported(r) \/ TxnCommit(r)
    \/ TxnDuplicateNumber(r) \/ TxnDuplicateKey(r) \/ TxnConflict(r)
    \/ Take(r) \/ Create(r) \/ GiveBack(r)
    \/ Answer(r)

Next ==
    \E r \in Requests :
        \/ \E key \in Keys \cup {NoKey} : Submit(r, key)
        \/ Attempt(r)
        \/ Crash(r)

Spec == Init /\ [][Next]_vars

\* The event loop runs what each request awaits.
FairSpec == Spec /\ \A r \in Requests : WF_vars(Attempt(r))

-----------------------------------------------------------------------------
(* Properties.                                                             *)

\* The type invariant: requests as _attemptCreateOrder carries them, and no
\* order without a number.
CreationTypeOK ==
    /\ wanted \in BOOLEAN /\ supported \in BOOLEAN /\ faults \in FaultSets
    /\ funds \in Nat
    /\ created \subseteq Requests
    /\ request \in [Requests -> Request]
    /\ \A r \in created : request[r].number \in Numbers

\* The requests that have paid and neither have an order nor were compensated.
Pending == {r \in Requests : At(r, "taken") \/ At(r, "giveBack")}

\* Whatever fails, the user has paid for every order there is, and for every
\* order being inserted.
NoFreeOrder ==
    funds + Price * Cardinality(created \cup Pending) <= Opening

\* Where transactions work, or nothing fails, the user pays for no more than
\* that: neither a retry, a resubmission nor a lost insert costs anything.
ChargedForOrdersOnly ==
    (wanted /\ supported) \/ faults = {} =>
        funds + Price * Cardinality(created \cup Pending) = Opening

\* The answer tells the truth: an order was created, or exists under the
\* request's key, or, unless a call failed after it was stored, does not exist.
AnswerIsTruth ==
    \A r \in Requests :
        At(r, "done") =>
            CASE request[r].answer = "created" -> r \in created
              [] request[r].answer = "existing" -> r \notin created /\ Existing(r)
              [] request[r].answer \in {"refused", "duplicate"} -> r \notin created
              [] request[r].answer = "failed" ->
                    r \in created => faults \cap {"db_error", "unknown_commit"} # {}
              [] OTHER -> "crash" \in faults

\* A request that was sent is answered, however it retries itself.
Answered == \A r \in Requests : ~At(r, "new") ~> At(r, "done")

\* docs/order-system.md: without a key, idempotency is not enforced.  The index of
\* order.model.js breaks this (README): no run checks it.
NoKeyNotEnforced ==
    \A r \in Requests :
        request[r].key = NoKey => request[r].answer # "duplicate"
=============================================================================
