------------------------------- MODULE Payouts -------------------------------
(***************************************************************************)
(* Payouts of one referrer's commissions (referralPayout.service.js).      *)
(*                                                                         *)
(* Every operation is one MongoDB transaction: it reads from the snapshot  *)
(* taken when it began and commits when none of the documents it writes    *)
(* changed since; otherwise withTransaction runs it again on a new         *)
(* snapshot.  What it only reads may be out of date by the commit.         *)
(*                                                                         *)
(* A payout is named by the request that created it.  Commissions are      *)
(* numbered by age.  Amounts have more decimals than the wallet: Cent of   *)
(* their units make the wallet's smallest one.                             *)
(***************************************************************************)
EXTENDS Documents, Integers, FiniteSets, FiniteSetsExt

CONSTANTS
    Commissions,    \* a set of numbers, the oldest first
    Amount,         \* [Commissions -> units]
    CurrencyOf,     \* [Commissions -> Currencies]
    Currencies,
    Cent,
    Bodies          \* what requests for a payout may ask for

Methods == {"WALLET_CREDIT", "MANUAL_EXTERNAL"}

ASSUME CommissionsAssumption == Commissions \subseteq Nat
ASSUME AmountAssumption ==
    /\ Amount \in [Commissions -> Nat \ {0}] /\ CurrencyOf \in [Commissions -> Currencies]
    /\ Currencies # {}
ASSUME CentAssumption == Cent \in Nat \ {0}
ASSUME BodiesAssumption ==
    \A b \in Bodies :
        /\ b # None /\ DOMAIN b = {"method", "currency", "ids", "amount", "key"}
        /\ b.method \in Methods /\ b.currency \in Currencies
        /\ b.ids \subseteq Commissions /\ IsFiniteSet(b.ids) /\ b.amount \in Nat

VARIABLES
    earned,         \* the ReferralCommission documents
    payout,         \* the ReferralPayout documents
    referrer,       \* the referrer's User document
    paidIn,         \* the wallet transaction under each payout's sourceKey
    task            \* the requests and the snapshots of their transactions

payoutVars == <<earned, payout, referrer, paidIn, task>>

-----------------------------------------------------------------------------

Earning == [status : {"AVAILABLE", "LOCKED", "PAID"}, payout : Clients \cup {None}]

PayoutDoc ==
    [status : {"absent", "PENDING", "PAID", "REJECTED"},
     body : Bodies \cup {None},             \* method, currency, key, fingerprint
     ids : SUBSET Commissions,
     amount : Nat]

NoPayout == [status |-> "absent", body |-> None, ids |-> {}, amount |-> 0]

Referrer == [payable : BOOLEAN, currency : Currencies]

Snap == [earned : [Commissions -> Earning], payout : [Clients -> PayoutDoc],
         referrer : Referrer]

ReviewOps == {"reject", "pay", "mark"}

ASSUME ReviewOpsAssumption == None \notin ReviewOps

Task ==
    [pc : {"new", "open", "done"},
     body : Bodies \cup {None}, op : ReviewOps \cup {None},
     payout : Clients \cup {None},          \* the one reviewed, or the answer
     snap : Snap \cup {None}]

NewTask == [pc |-> "new", body |-> None, op |-> None, payout |-> None, snap |-> None]

PayoutInit ==
    /\ earned = [c \in Commissions |-> [status |-> "AVAILABLE", payout |-> None]]
    /\ payout = [p \in Clients |-> NoPayout]
    /\ referrer = [payable |-> TRUE, currency |-> CHOOSE c \in Currencies : TRUE]
    /\ paidIn = [p \in Clients |-> 0]
    /\ task = [t \in Clients \cup Reviews |-> NewTask]

Total(ids) == MapThenSumSet(LAMBDA c : Amount[c], ids)

Now == [earned |-> earned, payout |-> payout, referrer |-> referrer]

Answer(t, p) ==
    task' = [task EXCEPT ![t] = [@ EXCEPT !.pc = "done", !.payout = p, !.snap = None]]

\* The transaction begins again.
Retry(t) ==
    /\ task' = [task EXCEPT ![t].snap = Now]
    /\ UNCHANGED <<earned, payout, referrer, paidIn>>

-----------------------------------------------------------------------------
(* createReferralPayout.                                                   *)

BeginPayout(t, body) ==
    /\ task[t].pc = "new"
    /\ task' = [task EXCEPT ![t] = [@ EXCEPT !.pc = "open", !.body = body, !.snap = Now]]
    /\ UNCHANGED <<earned, payout, referrer, paidIn>>

\* The payout under the request's key in the given documents.
Existing(t, docs) ==
    {p \in Clients : /\ task[t].body.key # None
                     /\ docs[p].status # "absent"
                     /\ docs[p].body.key = task[t].body.key}

\* A request for an amount takes the oldest commissions, whole ones only, while
\* they do not exceed it, and is refused when they do not reach it.
resolveAmountOnlyCommissionIds(body, docs) ==
    LET available == {c \in Commissions : docs[c].status = "AVAILABLE"
                                           /\ CurrencyOf[c] = body.currency}
        oldest(c) == {x \in available : x <= c}
    IN UNION {oldest(c) : c \in {x \in available : Total(oldest(x)) = body.amount}}

CommissionIds(t) ==
    LET body == task[t].body IN
    IF body.ids = {} /\ body.amount > 0
    THEN resolveAmountOnlyCommissionIds(body, task[t].snap.earned)
    ELSE body.ids

PayableUser(t, method, inCurrency) ==
    LET user == task[t].snap.referrer IN
    user.payable /\ (method = "WALLET_CREDIT" => user.currency = inCurrency)

\* Mutant: a request that names and reaches no commission is not refused.
ValidateAnyNumber(t) ==
    \A c \in CommissionIds(t) :
        /\ task[t].snap.earned[c] = [status |-> "AVAILABLE", payout |-> None]
        /\ CurrencyOf[c] = task[t].body.currency

loadAndValidateCommissions(t) ==
    /\ CommissionIds(t) # {}
    /\ \A c \in CommissionIds(t) :
          /\ task[t].snap.earned[c] = [status |-> "AVAILABLE", payout |-> None]
          /\ CurrencyOf[c] = task[t].body.currency

\* Mutant: the commissions are claimed as the snapshot shows them.
UnchangedAtReading(t, ids) == \A c \in ids : task[t].snap.earned[c] \in Earning

\* The documents the transaction writes are as its snapshot shows them.
UnchangedSince(t, ids) == \A c \in ids : earned[c] = task[t].snap.earned[c]

Set(ids, value) == [c \in Commissions |-> IF c \in ids THEN value ELSE earned[c]]

\* assertIdempotentReplayMatches: the stored payout, if it is of the same payload.
AnswerExisting(t, docs) ==
    \E p \in Existing(t, docs) :
        Answer(t, IF docs[p].body = task[t].body THEN p ELSE None)

\* Mutant: the unique index on user and key is missing.
KeyIsFree(t) == TRUE

KeyIsUnique(t) == Existing(t, payout) = {}

createReferralPayout(t) ==
    LET body == task[t].body
        ids == CommissionIds(t)
        valid == PayableUser(t, body.method, body.currency) /\ loadAndValidateCommissions(t)
        replay == Existing(t, task[t].snap.payout) # {}
    IN
    /\ task[t].pc = "open" /\ t \in Clients
    /\ \/ /\ PayableUser(t, body.method, body.currency) /\ replay
          /\ AnswerExisting(t, task[t].snap.payout)
          /\ UNCHANGED <<earned, payout, referrer, paidIn>>
       \/ /\ ~(PayableUser(t, body.method, body.currency) /\ replay) /\ ~valid
          /\ Answer(t, None)
          /\ UNCHANGED <<earned, payout, referrer, paidIn>>
       \/ /\ valid /\ ~replay /\ UnchangedSince(t, ids) /\ KeyIsUnique(t)
          /\ earned' = Set(ids, [status |-> "LOCKED", payout |-> t])
          /\ payout' = [payout EXCEPT ![t] = [status |-> "PENDING", body |-> body,
                                              ids |-> ids, amount |-> Total(ids)]]
          /\ Answer(t, t)
          /\ UNCHANGED <<referrer, paidIn>>
       \/ \* a duplicate key: the payout is looked up once more
          /\ valid /\ ~replay /\ UnchangedSince(t, ids) /\ ~KeyIsUnique(t)
          /\ AnswerExisting(t, payout)
          /\ UNCHANGED <<earned, payout, referrer, paidIn>>
       \/ valid /\ ~replay /\ ~UnchangedSince(t, ids) /\ Retry(t)

-----------------------------------------------------------------------------
(* Reviews.                                                                *)

BeginReview(t, op, p) ==
    /\ task[t].pc = "new" /\ payout[p].status # "absent"
    /\ task' = [task EXCEPT ![t] = [@ EXCEPT !.pc = "open", !.op = op, !.payout = p,
                                             !.snap = Now]]
    /\ UNCHANGED <<earned, payout, referrer, paidIn>>

\* The wallet keeps cents, rounded half up.
Rounded(amount) == (2 * amount + Cent) \div (2 * Cent)

\* The filter of every review.
IsPending(doc) == doc.status = "PENDING"

assertPayoutCommissionsLocked(docs, ids, p) ==
    \A c \in ids : docs[c] = [status |-> "LOCKED", payout |-> p]

\* What each review demands beyond a pending payout with locked commissions.
Reviewable(t) ==
    LET doc == task[t].snap.payout[task[t].payout] IN
    /\ IsPending(doc)
    /\ assertPayoutCommissionsLocked(task[t].snap.earned, doc.ids, task[t].payout)
    /\ task[t].op = "pay" =>
          /\ doc.body.method = "WALLET_CREDIT"
          /\ PayableUser(t, doc.body.method, doc.body.currency)
          /\ Rounded(doc.amount) > 0
    /\ task[t].op = "mark" => doc.body.method = "MANUAL_EXTERNAL"

\* The user document is written by the wallet credit only.
NoConflict(t) ==
    LET p == task[t].payout IN
    /\ payout[p] = task[t].snap.payout[p]
    /\ UnchangedSince(t, payout[p].ids)
    /\ task[t].op = "pay" => referrer = task[t].snap.referrer

Commits(t, op) ==
    task[t].pc = "open" /\ task[t].op = op /\ Reviewable(t) /\ NoConflict(t)

rejectReferralPayout(t) ==
    LET p == task[t].payout IN
    /\ Commits(t, "reject")
    /\ payout' = [payout EXCEPT ![p].status = "REJECTED"]
    /\ earned' = Set(payout[p].ids, [status |-> "AVAILABLE", payout |-> None])
    /\ Answer(t, p)
    /\ UNCHANGED <<referrer, paidIn>>

payWalletReferralPayout(t) ==
    LET p == task[t].payout IN
    /\ Commits(t, "pay")
    /\ paidIn' = [paidIn EXCEPT ![p] = @ + Rounded(payout[p].amount)]
    /\ payout' = [payout EXCEPT ![p].status = "PAID"]
    /\ earned' = Set(payout[p].ids, [status |-> "PAID", payout |-> p])
    /\ Answer(t, p)
    /\ UNCHANGED referrer

markManualReferralPayoutPaid(t) ==
    LET p == task[t].payout IN
    /\ Commits(t, "mark")
    /\ payout' = [payout EXCEPT ![p].status = "PAID"]
    /\ earned' = Set(payout[p].ids, [status |-> "PAID", payout |-> p])
    /\ Answer(t, p)
    /\ UNCHANGED <<referrer, paidIn>>

\* throwReviewedConflict and the other errors, or the write conflict.
ReviewEndsOtherwise(t) ==
    /\ task[t].pc = "open" /\ t \in Reviews
    /\ IF Reviewable(t)
       THEN ~NoConflict(t) /\ Retry(t)
       ELSE Answer(t, None) /\ UNCHANGED <<earned, payout, referrer, paidIn>>

-----------------------------------------------------------------------------

\* The referrer is deactivated, deleted or active again, or changes currency.
ReferrerDocChanges ==
    /\ referrer' \in Referrer \ {referrer}
    /\ UNCHANGED <<earned, payout, paidIn, task>>

TaskStep(t) ==
    \/ createReferralPayout(t)
    \/ rejectReferralPayout(t)
    \/ payWalletReferralPayout(t)
    \/ markManualReferralPayoutPaid(t)
    \/ ReviewEndsOtherwise(t)

PayoutNext ==
    \/ \E t \in Clients, body \in Bodies : BeginPayout(t, body)
    \/ \E t \in Reviews, op \in ReviewOps, p \in Clients : BeginReview(t, op, p)
    \/ \E t \in Clients \cup Reviews : TaskStep(t)
    \/ ReferrerDocChanges

PayoutSpec == PayoutInit /\ [][PayoutNext]_payoutVars

-----------------------------------------------------------------------------
(* auditReferralPayouts: the counts of the script as sets.                  *)

lockedMissingPayout ==
    {c \in Commissions : earned[c].status = "LOCKED" /\ earned[c].payout = None}

Made == {p \in Clients : payout[p].status # "absent"}

countPayoutCommissionStateMismatch(status, expected) ==
    {p \in Made : /\ payout[p].status = status
                  /\ \E c \in payout[p].ids : earned[c] # [status |-> expected, payout |-> p]}

\* The script also counts a rejected payout when a later one locked its commissions.
rejectedStillLocked ==
    {p \in Made : /\ payout[p].status = "REJECTED"
                  /\ \E c \in payout[p].ids : earned[c].payout = p}

countPayoutAmountMismatches == {p \in Made : payout[p].amount # Total(payout[p].ids)}

countPayoutCurrencyMismatches ==
    {p \in Made : \E c \in payout[p].ids : CurrencyOf[c] # payout[p].body.currency}

-----------------------------------------------------------------------------
(* Properties.                                                             *)

\* The type invariant: documents fit the schemas of referralPayout.model.js, where a
\* payout has at least one commission and an amount.
PayoutTypeOK ==
    /\ earned \in [Commissions -> Earning]
    /\ payout \in [Clients -> PayoutDoc]
    /\ referrer \in Referrer
    /\ paidIn \in [Clients -> Nat]
    /\ task \in [Clients \cup Reviews -> Task]
    /\ \A p \in Made : payout[p].body # None /\ payout[p].ids # {} /\ payout[p].amount > 0

\* auditReferralPayouts stays clean in every state that concurrent requests, reviews
\* and retried transactions go through: a pending payout has locked its commissions
\* and a paid one has paid them, a commission is locked by a pending payout that
\* lists it and by no rejected one, the amounts and the currencies agree, and the
\* wallet received each payout once if it is paid there and nothing otherwise.
AuditIsClean ==
    /\ lockedMissingPayout = {} /\ rejectedStillLocked = {}
    /\ countPayoutCommissionStateMismatch("PENDING", "LOCKED") = {}
    /\ countPayoutCommissionStateMismatch("PAID", "PAID") = {}
    /\ countPayoutAmountMismatches = {} /\ countPayoutCurrencyMismatches = {}
    /\ \A c \in Commissions : earned[c].status = "LOCKED" =>
          /\ payout[earned[c].payout].status = "PENDING"
          /\ c \in payout[earned[c].payout].ids
    /\ \A p \in Clients :
          paidIn[p] = IF payout[p].status = "PAID" /\ payout[p].body.method = "WALLET_CREDIT"
                      THEN Rounded(payout[p].amount) ELSE 0

\* Requests under one key create one payout between them, also when they began
\* before any of them committed, and a request is answered with a payout of its own
\* payload or not at all.
OneKeyOnePayout ==
    /\ \A p, q \in Made :
          payout[p].body.key = payout[q].body.key /\ payout[p].body.key # None => p = q
    /\ \A t \in Clients :
          task[t].pc = "done" /\ task[t].payout # None =>
              payout[task[t].payout].body = task[t].body
=============================================================================
