------------------------------- MODULE Wallet --------------------------------
(***************************************************************************)
(* One user's wallet and its ledger (wallet.service.js,                    *)
(* admin.wallet.service.js, and the credit limit of admin.users.service.js *)
(* and user.service.js), under concurrent requests.                        *)
(*                                                                         *)
(* Two kinds of writers share the document.  Order debits, refunds and     *)
(* deposit credits are one aggregation-pipeline update.  Administrators'   *)
(* adjustments read the user, compute in the process, and write the result *)
(* back with $set, unconditionally.  Every writer then inserts a           *)
(* WalletTransaction: in the same transaction when the caller has a        *)
(* session, in an operation of its own otherwise.                          *)
(*                                                                         *)
(* Amounts are in the smallest unit, so the code's rounding to two digits  *)
(* is exact except in the percentages of the debt adjustments.  The user   *)
(* stays ACTIVE.                                                           *)
(***************************************************************************)
EXTENDS Integers

CONSTANTS
    Requests,       \* concurrent requests, each of which runs once
    Ops,            \* the operations they may be
    Amounts,        \* the amounts they move
    Limits,         \* credit limits an administrator may set
    Targets,        \* balances an administrator may set
    Percents,       \* percentages of the debt adjustments
    OpeningBalance,
    OpeningLimit,
    NoOp

AtomicOps == {"debit", "refund", "credit"}
AdjustOps == {"add", "deduct", "forcedDebit", "set", "inflate", "deflate"}

\* The operations that may take a balance below the credit limit on purpose.
Overrides == {"forcedDebit", "set", "inflate"}

AllOps == AtomicOps \cup AdjustOps \cup {"limit"}

ASSUME OpsAssumption == Ops \subseteq AllOps /\ NoOp \notin AllOps
ASSUME AmountsAssumption == Amounts \subseteq Nat \ {0}
ASSUME LimitsAssumption == Limits \subseteq Nat /\ OpeningLimit \in Nat
ASSUME BalanceAssumption ==
    /\ OpeningBalance \in Int /\ Targets \subseteq Int
    /\ OpeningBalance >= -OpeningLimit
ASSUME PercentsAssumption == Percents \subseteq 1 .. 100

VARIABLES
    user,           \* the wallet fields of the user document
    recorded,       \* the balance the WalletTransactions add up to
    request         \* what each request is doing

vars == <<user, recorded, request>>

-----------------------------------------------------------------------------

Wallet == [balance : Int, creditLimit : Nat, creditUsed : Int]

Request ==
    [pc : {"new", "write", "record", "done", "dead"},
     op : Ops \cup {NoOp},
     delta : Int,           \* what the request adds to the balance
     read : Wallet]         \* the user as an adjustment read it

\* Mutant: the sign of the balance is not looked at.
recalculateCreditUsedUnsigned(balance, limit) ==
    IF limit <= 0 THEN 0 ELSE IF -balance <= limit THEN -balance ELSE limit

recalculateCreditUsed(balance, limit) ==
    IF balance >= 0 \/ limit <= 0 THEN 0
    ELSE IF -balance <= limit THEN -balance ELSE limit

\* The user document with a new balance, the mirror recomputed for `limit`.
WithBalance(doc, balance, limit) ==
    [balance |-> balance, creditLimit |-> doc.creditLimit,
     creditUsed |-> recalculateCreditUsed(balance, limit)]

Init ==
    /\ user = [balance |-> OpeningBalance, creditLimit |-> OpeningLimit,
               creditUsed |-> recalculateCreditUsed(OpeningBalance, OpeningLimit)]
    /\ recorded = OpeningBalance
    /\ request = [r \in Requests |->
                    [pc |-> "new", op |-> NoOp, delta |-> 0, read |-> user]]

Become(r, pc, op, delta) ==
    request' = [request EXCEPT ![r] = [@ EXCEPT !.pc = pc, !.op = op, !.delta = delta]]

-----------------------------------------------------------------------------
(* The atomic operations, with a session or without one.                   *)

\* Mutant: with a session, nothing is recorded.
MoveUnrecorded(r, op, delta) ==
    /\ request[r].pc = "new"
    /\ op \in Ops
    /\ user' = WithBalance(user, user.balance + delta, user.creditLimit)
    /\ Become(r, "done", op, delta) /\ UNCHANGED recorded

Move(r, op, delta) ==
    /\ request[r].pc = "new"
    /\ op \in Ops
    /\ user' = WithBalance(user, user.balance + delta, user.creditLimit)
    /\ \/ Become(r, "done", op, delta) /\ recorded' = recorded + delta
       \/ Become(r, "record", op, delta) /\ UNCHANGED recorded

\* Mutant: the balance is compared without the debt it may already carry.
debitWalletIgnoringDebt(r, amount) ==
    /\ user.creditLimit + (IF user.balance > 0 THEN user.balance ELSE 0) >= amount
    /\ Move(r, "debit", -amount)

debitWalletAtomic(r, amount) ==
    /\ user.balance + user.creditLimit >= amount
    /\ Move(r, "debit", -amount)

refundWalletAtomic(r, amount) == Move(r, "refund", amount)

creditWalletDirect(r, amount) == Move(r, "credit", amount)

-----------------------------------------------------------------------------
(* The adjustments: read ...                                               *)

Read(r, op, delta) ==
    /\ request[r].pc = "new"
    /\ op \in Ops
    /\ request' = [request EXCEPT ![r] =
                     [pc |-> "write", op |-> op, delta |-> delta, read |-> user]]
    /\ UNCHANGED <<user, recorded>>

addFunds(r, amount) == Read(r, "add", amount)

deductFunds(r, amount) ==
    /\ amount <= user.balance + user.creditLimit
    /\ Read(r, "deduct", -amount)

forcedDebitWallet(r, amount) == Read(r, "forcedDebit", -amount)

setBalance(r, target) == Read(r, "set", target - user.balance)

\* A percentage of the debt, rounded half up.
Adjustment(percent) == ((-user.balance) * percent + 50) \div 100

adjustNegativeBalancesForInflation(r, percent) ==
    /\ user.balance < 0
    /\ Adjustment(percent) >= 1
    /\ Read(r, "inflate", -Adjustment(percent))

adjustNegativeBalancesForDeflation(r, percent) ==
    /\ user.balance < 0
    /\ Adjustment(percent) >= 1
    /\ Read(r, "deflate", Adjustment(percent))

(* ... and write, whatever the stored balance is by then.                  *)

\* Mutant: only the balance is written.
WriteBalanceOnly(r) ==
    LET read == request[r].read
        delta == request[r].delta
    IN
    /\ request[r].pc = "write"
    /\ request[r].op \in AdjustOps
    /\ user' = [user EXCEPT !.balance = read.balance + delta]
    /\ Become(r, "record", request[r].op, delta)
    /\ UNCHANGED recorded

Write(r) ==
    LET read == request[r].read
        delta == request[r].delta
    IN
    /\ request[r].pc = "write"
    /\ request[r].op \in AdjustOps
    /\ user' = WithBalance(user, read.balance + delta, read.creditLimit)
    /\ Become(r, "record", request[r].op, delta)
    /\ UNCHANGED recorded

\* The insert of the WalletTransaction; an amount of zero fails its schema.
Record(r) ==
    /\ request[r].pc = "record"
    /\ recorded' = recorded + request[r].delta
    /\ Become(r, "done", request[r].op, request[r].delta)
    /\ UNCHANGED user

-----------------------------------------------------------------------------
(* The credit limit: read, then save the fields that differ from the copy. *)

LimitRead(r, limit) == Read(r, "limit", limit)

updateUserCreditLimit(r) ==
    LET read == request[r].read
        limit == request[r].delta
        used == recalculateCreditUsed(read.balance, limit)
    IN
    /\ request[r].pc = "write"
    /\ request[r].op = "limit"
    /\ user' = [user EXCEPT
                  !.creditLimit = IF limit # read.creditLimit THEN limit ELSE @,
                  !.creditUsed = IF used # read.creditUsed THEN used ELSE @]
    /\ Become(r, "done", "limit", limit)
    /\ UNCHANGED recorded

-----------------------------------------------------------------------------

\* The process dies between two of a request's operations.
Crash(r) ==
    /\ request[r].pc \in {"write", "record"}
    /\ request' = [request EXCEPT ![r].pc = "dead"]
    /\ UNCHANGED <<user, recorded>>

Next ==
    \E r \in Requests :
        \/ \E amount \in Amounts :
              \/ debitWalletAtomic(r, amount)
              \/ refundWalletAtomic(r, amount)
              \/ creditWalletDirect(r, amount)
              \/ addFunds(r, amount)
              \/ deductFunds(r, amount)
              \/ forcedDebitWallet(r, amount)
        \/ \E target \in Targets : setBalance(r, target)
        \/ \E percent \in Percents :
              \/ adjustNegativeBalancesForInflation(r, percent)
              \/ adjustNegativeBalancesForDeflation(r, percent)
        \/ \E limit \in Limits : LimitRead(r, limit)
        \/ Write(r)
        \/ updateUserCreditLimit(r)
        \/ Record(r)
        \/ Crash(r)

Spec == Init /\ [][Next]_vars

-----------------------------------------------------------------------------
(* Properties.                                                             *)

\* The type invariant: the schema of user.model.js, creditUsed never negative.
WalletTypeOK ==
    /\ user \in Wallet /\ user.creditUsed >= 0
    /\ recorded \in Int
    /\ request \in [Requests -> Request]

\* Nobody has asked for one of the operations in `ops`.
NoneOf(ops) == \A r \in Requests : request[r].op \notin ops

\* creditUsed mirrors the balance after every mix of atomic updates and stale
\* adjustments, as long as the credit limit is not changed under them.
MirrorsBalance ==
    NoneOf({"limit"}) =>
        user.creditUsed = recalculateCreditUsed(user.balance, user.creditLimit)

\* The credit limit bounds the debt however debits, refunds, credits and stale
\* adjustments interleave, unless an administrator overrides it or changes the
\* limit itself.
WithinCredit ==
    NoneOf(Overrides \cup {"limit"}) => user.balance >= -user.creditLimit

\* Every request is over, and none of them died half-way.
Settled == \A r \in Requests : request[r].pc \in {"new", "done"}

\* Orders, refunds and deposits, each one update and one record, leave a ledger
\* that adds up to the balance, however they interleave.
AtomicOpsLedger ==
    Settled /\ NoneOf(AdjustOps) => user.balance = recorded

\* admin.wallet.service.js calls the adjustments' writes atomic: then the same
\* holds with them.  Two overlapping adjustments break this (README): no run checks it.
LedgerExplainsBalance == Settled => user.balance = recorded
=============================================================================
