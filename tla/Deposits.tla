------------------------------ MODULE Deposits -------------------------------
(***************************************************************************)
(* Deposit requests of one referred user (deposit.service.js) and the      *)
(* commission each of them earns its referrer (referralCommission.         *)
(* service.js), under concurrent administrators.                           *)
(*                                                                         *)
(* approveDeposit is one transaction: the compare-and-swap of the status,  *)
(* the wallet credit and the commission commit together, and a transient   *)
(* error or an unknown commit is retried by withTransaction, so the whole  *)
(* of it is one step.  The edit of a pending deposit is a read and a later *)
(* save, and a reconciliation of commissions is a read and up to four      *)
(* writes of their own.                                                    *)
(*                                                                         *)
(* A deposit is in the wallet's currency or in one other.  `credited` is   *)
(* what the CREDIT transactions that name the deposit add up to.  A        *)
(* commission is its financial snapshot: the amount and the percentage it  *)
(* was computed from, which is what a replay is compared with.             *)
(***************************************************************************)
EXTENDS Integers

CONSTANTS
    Deposits,
    Events,         \* payment events that may approve a deposit by themselves
    Admins,         \* administrators' requests, each of which runs once
    Ops,            \* what they may ask for
    Amounts,
    Percents,       \* commission percentages a referrer may be given
    FromRate,       \* units of the other currency per US dollar
    ToRate,         \* units of the wallet's currency per US dollar
    Foreign,        \* whether a deposit may be in the other currency
    Openings,       \* the referral at the start
    CanCrash,       \* whether a process may die between two writes
    None

AdminOps == {"edit", "reconcile", "replay"}

ASSUME OpsAssumption == Ops \subseteq AdminOps /\ None \notin AdminOps
ASSUME AmountsAssumption == Amounts \subseteq Nat \ {0}
ASSUME PercentsAssumption == Percents \subseteq 0 .. 50
ASSUME RatesAssumption == FromRate \in Nat \ {0} /\ ToRate \in Nat \ {0}
ASSUME EventsAssumption == "ADMIN" \notin Events /\ None \notin Events
ASSUME CrashAssumption == CanCrash \in BOOLEAN /\ Foreign \subseteq BOOLEAN

VARIABLES
    deposit,        \* the DepositRequest documents
    credited,       \* what was added to the wallet under each deposit's reference
    commission,     \* the ReferralCommission of each deposit
    referral,       \* what the eligibility of a commission is read from
    admin           \* what each request is doing

money == <<credited, commission>>
depositVars == <<deposit, credited, commission, referral, admin>>

-----------------------------------------------------------------------------

Marks == {"NOT_APPLICABLE", "PENDING", "PROCESSED", "FAILED"}

\* "absent": not requested yet.
DepositDoc ==
    [status : {"absent", "PENDING", "APPROVED", "REJECTED"},
     amount : Amounts \cup {0},
     foreign : BOOLEAN,             \* not in the wallet's currency
     reviewer : Events \cup {"ADMIN", None},
     inWindow : BOOLEAN,            \* reviewedAt is within the referral's days
     mark : Marks,                  \* referralCommissionProcessingStatus
     linked : BOOLEAN]              \* referralCommissionId is set

Absent ==
    [status |-> "absent", amount |-> 0, foreign |-> FALSE, reviewer |-> None,
     inWindow |-> FALSE, mark |-> "NOT_APPLICABLE", linked |-> FALSE]

Snapshot == [amount : Amounts, percent : Percents \ {0}]
NoCommission == [amount |-> 0, percent |-> 0]

Referral ==
    [open : BOOLEAN,        \* eligibleUntil has not passed, nothing stopped it
     referrer : BOOLEAN,    \* there is one, active and not deleted
     percent : Percents,
     rates : BOOLEAN]       \* both currencies are configured and active

ASSUME OpeningsAssumption == Openings \subseteq Referral

Request ==
    [pc : {"new", "save", "mark", "evaluate", "create", "outcome", "done", "dead"},
     op : Ops \cup {None},
     deposit : Deposits \cup {None},
     read : Amounts \cup {0},               \* the amount in the request's copy
     new : Amounts \cup {0},                \* the amount an edit asks for
     snapshot : Snapshot \cup {NoCommission},
     mark : Marks]                          \* the outcome about to be marked

NewRequest ==
    [pc |-> "new", op |-> None, deposit |-> None, read |-> 0, new |-> 0,
     snapshot |-> NoCommission, mark |-> "NOT_APPLICABLE"]

DepositInit ==
    /\ deposit = [d \in Deposits |-> Absent]
    /\ credited = [d \in Deposits |-> 0]
    /\ commission = [d \in Deposits |-> NoCommission]
    /\ referral \in Openings
    /\ admin = [a \in Admins |-> NewRequest]

-----------------------------------------------------------------------------
(* Requests and reviews.                                                   *)

\* The receipt, the currency and the user are checked before.
createDepositRequest(d, amount, foreign) ==
    /\ deposit[d].status = "absent"
    /\ deposit' = [deposit EXCEPT ![d] =
                     [Absent EXCEPT !.status = "PENDING", !.amount = amount,
                                    !.foreign = foreign]]
    /\ UNCHANGED <<money, referral, admin>>

\* The wallet credit: through US dollars when the currencies differ.
Credit(amount, foreign) ==
    IF foreign THEN (amount * ToRate) \div FromRate ELSE amount

\* Mutant: the referral's window is forgotten.
OutcomeAtAnyTime(inWindow) ==
    IF ~referral.referrer \/ referral.percent = 0 THEN "NOT_APPLICABLE"
    ELSE IF referral.rates THEN "PROCESSED" ELSE "FAILED"

\* evaluateReferralEligibility, the percentage and the exchange rates: what
\* becomes of the commission of a deposit reviewed in the window or after it.
Outcome(inWindow) ==
    IF ~inWindow \/ ~referral.referrer \/ referral.percent = 0 THEN "NOT_APPLICABLE"
    ELSE IF referral.rates THEN "PROCESSED" ELSE "FAILED"

\* Mutant: only a rejected deposit is refused.
ReviewableUnlessRejected(d) == deposit[d].status \in {"PENDING", "APPROVED"}

\* The filter of the compare-and-swap; the read before it only words the error.
Reviewable(d) == deposit[d].status = "PENDING"

\* processDepositReferralCommission within the approval.
CommissionAfter(d, amount) ==
    IF Outcome(referral.open) # "PROCESSED" THEN commission
    ELSE [commission EXCEPT ![d] = [amount |-> amount, percent |-> referral.percent]]

Approved(d, reviewer, amount, foreign) ==
    LET mark == Outcome(referral.open) IN
    [deposit EXCEPT ![d] =
        [@ EXCEPT !.status = "APPROVED", !.amount = amount, !.foreign = foreign,
                  !.reviewer = reviewer, !.inWindow = referral.open,
                  !.mark = mark, !.linked = mark = "PROCESSED"]]

\* The transaction.  `amount` and `foreign` are the document's own, or what the
\* administrator overrides them with.
approveDeposit(d, reviewer, amount, foreign) ==
    /\ Reviewable(d)
    /\ credited' = [credited EXCEPT ![d] = @ + Credit(amount, foreign)]
    /\ commission' = CommissionAfter(d, amount)
    /\ deposit' = Approved(d, reviewer, amount, foreign)
    /\ UNCHANGED <<referral, admin>>

rejectDeposit(d) ==
    /\ Reviewable(d)
    /\ deposit' = [deposit EXCEPT ![d] =
                     [@ EXCEPT !.status = "REJECTED", !.reviewer = "ADMIN"]]
    /\ UNCHANGED <<money, referral, admin>>

-----------------------------------------------------------------------------
(* updatePendingDeposit: the status is checked on a copy, the copy saved.  *)

EditRead(a, d, amount) ==
    /\ admin[a].pc = "new" /\ "edit" \in Ops
    /\ deposit[d].status = "PENDING"
    /\ admin' = [admin EXCEPT ![a] =
                   [@ EXCEPT !.pc = "save", !.op = "edit", !.deposit = d,
                             !.read = deposit[d].amount, !.new = amount]]
    /\ UNCHANGED <<deposit, money, referral>>

\* save() writes the paths that differ from the copy, whatever the status.
EditSave(a) ==
    LET d == admin[a].deposit IN
    /\ admin[a].pc = "save"
    /\ deposit' = IF admin[a].new = admin[a].read THEN deposit
                  ELSE [deposit EXCEPT ![d].amount = admin[a].new]
    /\ admin' = [admin EXCEPT ![a].pc = "done"]
    /\ UNCHANGED <<money, referral>>

-----------------------------------------------------------------------------
(* reconcileReferralCommissions, one deposit of the cursor: processDeposit-*)
(* ReferralCommission without a session, write by write.                   *)

\* Approved deposits whose commission failed; "replay" is the script's --all.
ReconcileFind(a, d, op) ==
    /\ admin[a].pc = "new" /\ op \in Ops \cap {"reconcile", "replay"}
    /\ deposit[d].status = "APPROVED"
    /\ op = "reconcile" => deposit[d].mark = "FAILED"
    /\ admin' = [admin EXCEPT ![a] =
                   [@ EXCEPT !.pc = "mark", !.op = op, !.deposit = d,
                             !.read = deposit[d].amount]]
    /\ UNCHANGED <<deposit, money, referral>>

\* markDepositCommission: the commission's id is kept only when it is given.
Mark(d, mark) ==
    deposit' = [deposit EXCEPT ![d] = [@ EXCEPT !.mark = mark, !.linked = mark = "PROCESSED"]]

ReconcileMark(a) ==
    /\ admin[a].pc = "mark"
    /\ Mark(admin[a].deposit, "PENDING")
    /\ admin' = [admin EXCEPT ![a].pc = "evaluate"]
    /\ UNCHANGED <<money, referral>>

\* Mutant: a missing exchange rate is thrown to the caller.
NextAfterThrowing(mark) ==
    CASE mark = "PROCESSED" -> "create" [] mark = "FAILED" -> "done" [] OTHER -> "outcome"

\* Mutant: the commission is left to the transaction of the approval.
NextWithoutCreation(mark) == "outcome"

NextAfter(mark) == IF mark = "PROCESSED" THEN "create" ELSE "outcome"

ReconcileEvaluate(a) ==
    LET mark == Outcome(deposit[admin[a].deposit].inWindow) IN
    /\ admin[a].pc = "evaluate"
    /\ admin' = [admin EXCEPT ![a] =
                   [@ EXCEPT !.pc = NextAfter(mark), !.mark = mark,
                             !.snapshot = IF mark = "PROCESSED"
                                          THEN [amount |-> admin[a].read,
                                                percent |-> referral.percent]
                                          ELSE NoCommission]]
    /\ UNCHANGED <<deposit, money, referral>>

\* The insert; under the unique key an existing commission is accepted when its
\* snapshot is the same, and a conflict otherwise.
createCommissionRecord(a) ==
    LET d == admin[a].deposit
        fresh == commission[d] = NoCommission
    IN
    /\ admin[a].pc = "create"
    /\ commission' = IF fresh THEN [commission EXCEPT ![d] = admin[a].snapshot] ELSE commission
    /\ admin' = [admin EXCEPT ![a] =
                   [@ EXCEPT !.pc = "outcome",
                             !.mark = IF fresh \/ commission[d] = admin[a].snapshot
                                      THEN "PROCESSED" ELSE "FAILED"]]
    /\ UNCHANGED <<deposit, credited, referral>>

ReconcileOutcome(a) ==
    /\ admin[a].pc = "outcome"
    /\ Mark(admin[a].deposit, admin[a].mark)
    /\ admin' = [admin EXCEPT ![a].pc = "done"]
    /\ UNCHANGED <<money, referral>>

AdminStep(a) ==
    \/ EditSave(a)
    \/ ReconcileMark(a) \/ ReconcileEvaluate(a)
    \/ createCommissionRecord(a) \/ ReconcileOutcome(a)

AdminDies(a) ==
    /\ CanCrash
    /\ admin[a].pc \notin {"new", "done", "dead"}
    /\ admin' = [admin EXCEPT ![a].pc = "dead"]
    /\ UNCHANGED <<deposit, money, referral>>

-----------------------------------------------------------------------------
(* What the commission depends on.                                         *)

\* The thirty days are over, or the referred user becomes a reseller.
ReferralEnds ==
    /\ referral.open
    /\ referral' = [referral EXCEPT !.open = FALSE]
    /\ UNCHANGED <<deposit, money, admin>>

setReferralCommissionOverride(percent) ==
    /\ percent # referral.percent
    /\ referral' = [referral EXCEPT !.percent = percent]
    /\ UNCHANGED <<deposit, money, admin>>

\* The referrer is suspended, deleted or active again; a currency is activated,
\* deactivated or removed.
ReferrerChanges ==
    /\ referral' = [referral EXCEPT !.referrer = ~@]
    /\ UNCHANGED <<deposit, money, admin>>

RatesChange ==
    /\ referral' = [referral EXCEPT !.rates = ~@]
    /\ UNCHANGED <<deposit, money, admin>>

-----------------------------------------------------------------------------

ReviewStep(d) ==
    \/ \E amount \in Amounts, foreign \in Foreign : approveDeposit(d, "ADMIN", amount, foreign)
    \/ rejectDeposit(d)

EnvironmentStep ==
    \/ ReferralEnds
    \/ \E percent \in Percents : setReferralCommissionOverride(percent)
    \/ ReferrerChanges
    \/ RatesChange

RequestStep ==
    \/ \E d \in Deposits :
          \/ \E amount \in Amounts, foreign \in Foreign : createDepositRequest(d, amount, foreign)
          \/ ReviewStep(d)
    \/ \E a \in Admins :
          \/ \E d \in Deposits, amount \in Amounts : EditRead(a, d, amount)
          \/ \E d \in Deposits, op \in Ops : ReconcileFind(a, d, op)
          \/ AdminStep(a)
          \/ AdminDies(a)

DepositNext == RequestStep \/ EnvironmentStep

DepositSpec == DepositInit /\ [][DepositNext]_depositVars

\* The event loop runs what each request awaits.
FairDepositSpec == DepositSpec /\ \A a \in Admins : WF_depositVars(AdminStep(a))

-----------------------------------------------------------------------------
(* Properties.                                                             *)

\* The type invariant: documents fit the schemas of deposit.model.js and
\* referralCommission.model.js.
DepositTypeOK ==
    /\ deposit \in [Deposits -> DepositDoc]
    /\ credited \in [Deposits -> Nat]
    /\ commission \in [Deposits -> Snapshot \cup {NoCommission}]
    /\ referral \in Referral
    /\ admin \in [Admins -> Request]

\* Nobody has asked for one of the operations in `ops`.
NoneAsked(ops) == \A a \in Admins : admin[a].op \notin ops

\* What the deposit, read today, would have added to the wallet.
Due(d) ==
    IF deposit[d].status = "APPROVED"
    THEN Credit(deposit[d].amount, deposit[d].foreign)
    ELSE 0

\* However approvals, rejections and reconciliations race, an approved deposit
\* was credited once, with its own amount, and no other deposit at all; pending
\* deposits must not be edited meanwhile.
CreditedOnce == NoneAsked({"edit"}) => \A d \in Deposits : credited[d] = Due(d)

\* updatePendingDeposit "strictly rejects updates if the deposit is NOT in
\* PENDING status": then the same holds with edits.  An edit that saves after an
\* approval breaks this (README): no run checks it.
CreditExplained == \A d \in Deposits : credited[d] = Due(d)

\* A commission, whether created with the approval or by any reconciliation,
\* is one for a deposit approved within the referral's window, and computed
\* from the approved amount unless pending deposits were edited.
CommissionBacked ==
    \A d \in Deposits :
        commission[d] # NoCommission =>
            /\ deposit[d].status = "APPROVED" /\ deposit[d].inWindow
            /\ NoneAsked({"edit"}) => commission[d].amount = deposit[d].amount

\* A deposit that says its commission was processed has one, through crashes
\* and overlapping reconciliations.
ProcessedHasCommission ==
    \A d \in Deposits :
        deposit[d].mark = "PROCESSED" => commission[d] # NoCommission

\* No deposit is left in the transient PENDING mark, which the filter of the
\* reconciliation does not select, unless a process died.
MarkSettles ==
    \A d \in Deposits :
        deposit[d].mark = "PENDING" ~>
            \/ deposit[d].mark # "PENDING"
            \/ \E a \in Admins : admin[a].pc = "dead"

\* referral-commission-engine.md calls --all an idempotent replay: it leaves a
\* deposit whose commission exists marked as processed.  A replay after a change of the
\* percentage breaks this (README): no run checks it.
CommissionIsMarked ==
    (\A a \in Admins : admin[a].pc \in {"new", "done"}) =>
        \A d \in Deposits :
            commission[d] # NoCommission => deposit[d].mark = "PROCESSED"
=============================================================================
