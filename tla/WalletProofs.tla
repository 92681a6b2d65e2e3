---------------------------- MODULE WalletProofs -----------------------------
(***************************************************************************)
(* The wallet's invariants, for every set of requests, amounts, limits,    *)
(* targets and percentages.                                                *)
(***************************************************************************)
EXTENDS Wallet, SumTheorems, TLAPS

\* A request without an operation has not begun.
Fresh == \A r \in Requests : request[r].pc = "new" => request[r].op = NoOp

\* What a request will write as a credit limit is one.
LimitsWritten ==
    \A r \in Requests :
        request[r].pc = "write" /\ request[r].op = "limit" => request[r].delta \in Nat

\* Without a change of the limit, adjustments compute with the current limit.
LimitUnchanged ==
    NoneOf({"limit"}) =>
        \A r \in Requests :
            request[r].pc = "write" => request[r].read.creditLimit = user.creditLimit

\* Without overrides, what an adjustment is about to write is within the limit.
WritesWithinCredit ==
    NoneOf(Overrides \cup {"limit"}) =>
        \A r \in Requests :
            request[r].pc = "write" =>
                request[r].read.balance + request[r].delta >= -request[r].read.creditLimit

IInv ==
    /\ WalletTypeOK /\ Fresh /\ LimitsWritten
    /\ MirrorsBalance /\ LimitUnchanged
    /\ WithinCredit /\ WritesWithinCredit

USE DEF AtomicOps, AdjustOps, Overrides, AllOps

LEMMA MirrorType ==
    ASSUME NEW balance \in Int, NEW limit \in Nat
    PROVE  recalculateCreditUsed(balance, limit) \in Nat
BY DEF recalculateCreditUsed

\* What an update does to the user document.
LEMMA NewBalance ==
    ASSUME NEW doc \in Wallet, NEW balance \in Int, NEW limit \in Nat
    PROVE  LET new == WithBalance(doc, balance, limit) IN
           /\ new \in Wallet
           /\ new.balance = balance
           /\ new.creditLimit = doc.creditLimit
           /\ new.creditUsed = recalculateCreditUsed(balance, limit)
           /\ new.creditUsed >= 0
<1>1. recalculateCreditUsed(balance, limit) \in Nat
  BY MirrorType
<1> QED BY <1>1 DEF WithBalance, Wallet

\* One request moves on; the others are as they were.
LEMMA OneMoves ==
    ASSUME WalletTypeOK, NEW r \in Requests, NEW req \in Request,
           request' = [request EXCEPT ![r] = req]
    PROVE  /\ request' \in [Requests -> Request]
           /\ request'[r] = req
           /\ \A q \in Requests : q # r => request'[q] = request[q]
BY DEF WalletTypeOK

\* An operation once chosen stays: what nobody asks for now, nobody asked for.
LEMMA NoneBefore ==
    ASSUME IInv, NEW r \in Requests, NEW req \in Request,
           request' = [request EXCEPT ![r] = req],
           request[r].op = NoOp \/ req.op = request[r].op,
           NEW ops \in SUBSET AllOps, NoneOf(ops)'
    PROVE  NoneOf(ops) /\ req.op \notin ops
<1>1. request'[r] = req /\ \A q \in Requests : q # r => request'[q] = request[q]
  BY OneMoves DEF IInv
<1>2. req.op \notin ops
  BY <1>1 DEF NoneOf
<1>3. \A q \in Requests : request[q].op \notin ops
  BY <1>1, <1>2, OpsAssumption DEF NoneOf
<1> QED BY <1>2, <1>3 DEF NoneOf

\* A step that leaves the user alone keeps the invariant when the request that
\* moves keeps its own share of it.
LEMMA QuietStep ==
    ASSUME IInv, NEW r \in Requests, NEW req \in Request,
           request' = [request EXCEPT ![r] = req],
           user' = user, recorded' \in Int,
           request[r].op = NoOp \/ req.op = request[r].op,
           req.pc # "new",
           req.pc = "write" =>
               /\ req.op = "limit" => req.delta \in Nat
               /\ req.read.creditLimit = user.creditLimit
               /\ /\ NoneOf(Overrides \cup {"limit"})
                  /\ req.op \notin Overrides \cup {"limit"}
                  => req.read.balance + req.delta >= -req.read.creditLimit
    PROVE  IInv'
<1>1. /\ request' \in [Requests -> Request]
      /\ request'[r] = req
      /\ \A q \in Requests : q # r => request'[q] = request[q]
  BY OneMoves DEF IInv
<1>2. NoneOf({"limit"})' => NoneOf({"limit"}) /\ req.op # "limit"
  <2> SUFFICES ASSUME NoneOf({"limit"})' PROVE NoneOf({"limit"}) /\ req.op \notin {"limit"}
    OBVIOUS
  <2> QED BY NoneBefore
<1>3. NoneOf(Overrides \cup {"limit"})' =>
          NoneOf(Overrides \cup {"limit"}) /\ req.op \notin Overrides \cup {"limit"}
  <2> DEFINE ops == Overrides \cup {"limit"}
  <2> SUFFICES ASSUME NoneOf(ops)' PROVE NoneOf(ops) /\ req.op \notin ops
    OBVIOUS
  <2> HIDE DEF ops
  <2>1. ops \in SUBSET AllOps
    BY DEF ops
  <2> QED BY <2>1, NoneBefore
<1>4. WalletTypeOK'
  BY <1>1 DEF IInv, WalletTypeOK
<1>5. Fresh'
  BY <1>1 DEF IInv, Fresh
<1>6. LimitsWritten'
  BY <1>1 DEF IInv, LimitsWritten
<1>7. MirrorsBalance'
  BY <1>2 DEF IInv, MirrorsBalance
<1>8. LimitUnchanged'
  BY <1>1, <1>2 DEF IInv, LimitUnchanged
<1>9. WithinCredit'
  BY <1>3 DEF IInv, WithinCredit
<1>10. WritesWithinCredit'
  BY <1>1, <1>3 DEF IInv, WritesWithinCredit
<1> QED BY <1>4, <1>5, <1>6, <1>7, <1>8, <1>9, <1>10 DEF IInv

\* A new balance keeps the invariant when its mirror is computed for the limit
\* and the request that writes it stays within its own operation's bounds.
LEMMA BalanceStep ==
    ASSUME IInv, NEW r \in Requests, NEW req \in Request,
           request' = [request EXCEPT ![r] = req],
           NEW balance \in Int, NEW limit \in Nat,
           user' = WithBalance(user, balance, limit), recorded' \in Int,
           request[r].op = NoOp \/ req.op = request[r].op,
           req.pc \notin {"new", "write"},
           NoneOf({"limit"}) /\ req.op # "limit" => limit = user.creditLimit,
           NoneOf(Overrides \cup {"limit"}) /\ req.op \notin Overrides \cup {"limit"}
               => balance >= -user.creditLimit
    PROVE  IInv'
<1>0. user \in Wallet
  BY DEF IInv, WalletTypeOK
<1>1. /\ request' \in [Requests -> Request]
      /\ request'[r] = req
      /\ \A q \in Requests : q # r => request'[q] = request[q]
  BY OneMoves DEF IInv
<1>2. NoneOf({"limit"})' => NoneOf({"limit"}) /\ req.op # "limit"
  <2> SUFFICES ASSUME NoneOf({"limit"})' PROVE NoneOf({"limit"}) /\ req.op \notin {"limit"}
    OBVIOUS
  <2> QED BY NoneBefore
<1>3. NoneOf(Overrides \cup {"limit"})' =>
          NoneOf(Overrides \cup {"limit"}) /\ req.op \notin Overrides \cup {"limit"}
  <2> DEFINE ops == Overrides \cup {"limit"}
  <2> SUFFICES ASSUME NoneOf(ops)' PROVE NoneOf(ops) /\ req.op \notin ops
    OBVIOUS
  <2> HIDE DEF ops
  <2>1. ops \in SUBSET AllOps
    BY DEF ops
  <2> QED BY <2>1, NoneBefore
<1>4. /\ user' \in Wallet /\ user'.balance = balance
      /\ user'.creditLimit = user.creditLimit
      /\ user'.creditUsed = recalculateCreditUsed(balance, limit)
      /\ user'.creditUsed >= 0
  BY <1>0, NewBalance
<1>5. WalletTypeOK'
  BY <1>1, <1>4 DEF WalletTypeOK
<1>6. Fresh'
  BY <1>1 DEF IInv, Fresh
<1>7. LimitsWritten'
  BY <1>1 DEF IInv, LimitsWritten
<1>8. MirrorsBalance'
  BY <1>2, <1>4 DEF MirrorsBalance
<1>9. LimitUnchanged'
  BY <1>1, <1>2, <1>4 DEF IInv, LimitUnchanged
<1>10. WithinCredit'
  BY <1>3, <1>4 DEF WithinCredit
<1>11. WritesWithinCredit'
  BY <1>1, <1>3 DEF IInv, WritesWithinCredit
<1> QED BY <1>5, <1>6, <1>7, <1>8, <1>9, <1>10, <1>11 DEF IInv

-----------------------------------------------------------------------------
(* The operations.                                                         *)

LEMMA MoveInv ==
    ASSUME IInv, NEW r \in Requests, NEW op \in AtomicOps, NEW delta \in Int,
           op = "debit" => user.balance + delta >= -user.creditLimit,
           op # "debit" => delta >= 0,
           Move(r, op, delta)
    PROVE  IInv'
<1>1. /\ user \in Wallet /\ recorded \in Int /\ request[r] \in Request
      /\ request[r].op = NoOp
      /\ op \in Ops
  BY DEF IInv, WalletTypeOK, Fresh, Move
<1> DEFINE req(pc) == [request[r] EXCEPT !.pc = pc, !.op = op, !.delta = delta]
<1>2. \A pc \in {"done", "record"} :
          req(pc) \in Request /\ req(pc).op = op /\ req(pc).pc = pc
  BY <1>1 DEF Request
<1>3. PICK pc \in {"done", "record"} :
          request' = [request EXCEPT ![r] = req(pc)] /\ recorded' \in Int
  BY <1>1 DEF Move, Become
<1>4. /\ user' = WithBalance(user, user.balance + delta, user.creditLimit)
      /\ user.balance + delta \in Int /\ user.creditLimit \in Nat
  BY <1>1 DEF Move, Wallet
<1>5. NoneOf(Overrides \cup {"limit"}) => user.balance + delta >= -user.creditLimit
  BY <1>1 DEF IInv, WithinCredit, Wallet
<1> HIDE DEF req
<1> QED BY <1>1, <1>2, <1>3, <1>4, <1>5, BalanceStep

LEMMA ReadInv ==
    ASSUME IInv, NEW r \in Requests, NEW op \in AllOps, NEW delta \in Int,
           op = "limit" => delta \in Nat,
           op \in {"add", "deflate"} => delta >= 0,
           op = "deduct" => user.balance + delta >= -user.creditLimit,
           op \notin AtomicOps,
           Read(r, op, delta)
    PROVE  IInv'
<1>1. /\ user \in Wallet /\ recorded \in Int
      /\ request[r].op = NoOp
      /\ op \in Ops
      /\ user' = user /\ recorded' = recorded
  BY DEF IInv, WalletTypeOK, Fresh, Read
<1> DEFINE req == [pc |-> "write", op |-> op, delta |-> delta, read |-> user]
<1>2. req \in Request
  BY <1>1 DEF Request
<1>3. request' = [request EXCEPT ![r] = req]
  BY DEF Read
<1>4. NoneOf(Overrides \cup {"limit"}) /\ op \notin Overrides \cup {"limit"}
          => user.balance + delta >= -user.creditLimit
  BY <1>1 DEF IInv, WithinCredit, Wallet
<1>5. /\ req.pc = "write" /\ req.op = op /\ req.delta = delta /\ req.read = user
  OBVIOUS
<1> HIDE DEF req
<1> QED BY <1>1, <1>2, <1>3, <1>4, <1>5, QuietStep

LEMMA WriteInv ==
    ASSUME IInv, NEW r \in Requests, Write(r)
    PROVE  IInv'
<1>1. /\ user \in Wallet /\ recorded' = recorded /\ recorded \in Int
      /\ request[r] \in Request /\ request[r].pc = "write"
      /\ request[r].op \in AdjustOps
  BY DEF IInv, WalletTypeOK, Write
<1> DEFINE read == request[r].read
           balance == read.balance + request[r].delta
           req == [request[r] EXCEPT !.pc = "record", !.op = request[r].op,
                                     !.delta = request[r].delta]
<1>2. req \in Request /\ req.op = request[r].op /\ req.pc = "record"
  BY <1>1 DEF Request
<1>3. request' = [request EXCEPT ![r] = req]
  BY DEF Write, Become
<1>4. /\ user' = WithBalance(user, balance, read.creditLimit)
      /\ balance \in Int /\ read.creditLimit \in Nat
  BY <1>1 DEF Write, Request, Wallet
<1>5. NoneOf({"limit"}) => read.creditLimit = user.creditLimit
  BY <1>1 DEF IInv, LimitUnchanged
<1>6. NoneOf(Overrides \cup {"limit"}) => balance >= -user.creditLimit
  <2>1. NoneOf(Overrides \cup {"limit"}) => NoneOf({"limit"})
    BY DEF NoneOf
  <2> QED BY <1>1, <1>5, <2>1 DEF IInv, WritesWithinCredit
<1> HIDE DEF req, balance, read
<1> QED BY <1>1, <1>2, <1>3, <1>4, <1>5, <1>6, BalanceStep

LEMMA RecordInv ==
    ASSUME IInv, NEW r \in Requests, Record(r)
    PROVE  IInv'
<1>1. /\ recorded' \in Int /\ user' = user
      /\ request[r] \in Request
  BY DEF IInv, WalletTypeOK, Record, Request
<1> DEFINE req == [request[r] EXCEPT !.pc = "done", !.op = request[r].op,
                                     !.delta = request[r].delta]
<1>2. req \in Request /\ req.op = request[r].op /\ req.pc = "done"
  BY <1>1 DEF Request
<1>3. request' = [request EXCEPT ![r] = req]
  BY DEF Record, Become
<1> HIDE DEF req
<1> QED BY <1>1, <1>2, <1>3, QuietStep

LEMMA CrashInv ==
    ASSUME IInv, NEW r \in Requests, Crash(r)
    PROVE  IInv'
<1>1. /\ recorded' \in Int /\ user' = user
      /\ request[r] \in Request
  BY DEF IInv, WalletTypeOK, Crash
<1> DEFINE req == [request[r] EXCEPT !.pc = "dead"]
<1>2. req \in Request /\ req.op = request[r].op /\ req.pc = "dead"
  BY <1>1 DEF Request
<1>3. request' = [request EXCEPT ![r] = req]
  BY DEF Crash
<1> HIDE DEF req
<1> QED BY <1>1, <1>2, <1>3, QuietStep

\* A change of the limit takes the conditional invariants out of force.
LEMMA LimitInv ==
    ASSUME IInv, NEW r \in Requests, updateUserCreditLimit(r)
    PROVE  IInv'
<1> DEFINE read == request[r].read
           limit == request[r].delta
           used == recalculateCreditUsed(read.balance, limit)
           req == [request[r] EXCEPT !.pc = "done", !.op = "limit", !.delta = limit]
<1>1. /\ user \in Wallet /\ user.creditUsed >= 0
      /\ recorded' = recorded /\ recorded \in Int
      /\ request[r] \in Request /\ request[r].op = "limit" /\ limit \in Nat
  BY DEF IInv, WalletTypeOK, LimitsWritten, updateUserCreditLimit
<1>2. req \in Request /\ req.op = "limit" /\ req.pc = "done"
  BY <1>1 DEF Request
<1>3. request' = [request EXCEPT ![r] = req]
  BY DEF updateUserCreditLimit, Become
<1>4. used \in Nat
  BY <1>1, MirrorType DEF Request, Wallet
<1>5. user' \in Wallet /\ user'.creditUsed >= 0
  <2> DEFINE newLimit == IF limit # read.creditLimit THEN limit ELSE user.creditLimit
             newUsed == IF used # read.creditUsed THEN used ELSE user.creditUsed
  <2>1. user' = [user EXCEPT !.creditLimit = newLimit, !.creditUsed = newUsed]
    BY DEF updateUserCreditLimit
  <2>2. newLimit \in Nat /\ newUsed \in Nat
    BY <1>1, <1>4 DEF Wallet
  <2> HIDE DEF newLimit, newUsed
  <2>3. user' = [balance |-> user.balance, creditLimit |-> newLimit,
                 creditUsed |-> newUsed]
    BY <1>1, <2>1 DEF Wallet
  <2> QED BY <1>1, <2>2, <2>3 DEF Wallet
<1> HIDE DEF req, used, limit, read
<1>6. /\ request' \in [Requests -> Request]
      /\ request'[r] = req
      /\ \A q \in Requests : q # r => request'[q] = request[q]
  BY <1>2, <1>3, OneMoves DEF IInv
<1>7. ~NoneOf({"limit"})' /\ ~NoneOf(Overrides \cup {"limit"})'
  BY <1>2, <1>6 DEF NoneOf
<1>8. WalletTypeOK'
  BY <1>1, <1>5, <1>6 DEF WalletTypeOK
<1>9. Fresh' /\ LimitsWritten'
  BY <1>2, <1>6 DEF IInv, Fresh, LimitsWritten
<1>10. MirrorsBalance' /\ LimitUnchanged' /\ WithinCredit' /\ WritesWithinCredit'
  BY <1>7 DEF MirrorsBalance, LimitUnchanged, WithinCredit, WritesWithinCredit
<1> QED BY <1>8, <1>9, <1>10 DEF IInv

-----------------------------------------------------------------------------
(* The theorems.                                                           *)

LEMMA InitInv == Init => IInv
<1> SUFFICES ASSUME Init PROVE IInv
  OBVIOUS
<1> USE BalanceAssumption, LimitsAssumption, OpsAssumption
<1> DEFINE used == recalculateCreditUsed(OpeningBalance, OpeningLimit)
<1>1. used \in Nat
  BY MirrorType
<1>2. user = [balance |-> OpeningBalance, creditLimit |-> OpeningLimit,
              creditUsed |-> used]
  BY DEF Init
<1>3. \A r \in Requests :
          request[r] = [pc |-> "new", op |-> NoOp, delta |-> 0, read |-> user]
  BY DEF Init
<1> HIDE DEF used
<1>4. user \in Wallet /\ user.creditUsed >= 0 /\ user.balance >= -user.creditLimit
  BY <1>1, <1>2 DEF Wallet
<1>5. WalletTypeOK
  BY <1>4 DEF Init, WalletTypeOK, Request
<1>6. Fresh /\ LimitsWritten /\ LimitUnchanged /\ WritesWithinCredit
  BY <1>3 DEF Fresh, LimitsWritten, LimitUnchanged, WritesWithinCredit
<1>7. MirrorsBalance /\ WithinCredit
  BY <1>2, <1>4 DEF MirrorsBalance, WithinCredit, used
<1> QED BY <1>5, <1>6, <1>7 DEF IInv

LEMMA DebtAdjustment ==
    ASSUME user \in Wallet, NEW percent \in Percents
    PROVE  Adjustment(percent) \in Int
BY PercentsAssumption DEF Adjustment, Wallet

LEMMA NextInv == IInv /\ [Next]_vars => IInv'
<1> SUFFICES ASSUME IInv, [Next]_vars PROVE IInv'
  OBVIOUS
<1>1. user \in Wallet /\ user.balance \in Int /\ user.creditLimit \in Nat
  BY DEF IInv, WalletTypeOK, Wallet
<1>2. CASE UNCHANGED vars
  BY <1>2 DEF vars, IInv, WalletTypeOK, Fresh, LimitsWritten, MirrorsBalance,
              LimitUnchanged, WithinCredit, WritesWithinCredit, NoneOf
<1>3. ASSUME NEW r \in Requests, NEW amount \in Amounts,
             \/ debitWalletAtomic(r, amount) \/ refundWalletAtomic(r, amount)
             \/ creditWalletDirect(r, amount)
      PROVE  IInv'
  <2>1. amount \in Nat /\ -amount \in Int
    BY AmountsAssumption
  <2>2. CASE debitWalletAtomic(r, amount)
    <3>1. user.balance + (-amount) >= -user.creditLimit
      BY <1>1, <2>1, <2>2 DEF debitWalletAtomic
    <3> QED BY <2>1, <2>2, <3>1, MoveInv DEF debitWalletAtomic
  <2>3. CASE refundWalletAtomic(r, amount)
    BY <2>1, <2>3, MoveInv DEF refundWalletAtomic
  <2>4. CASE creditWalletDirect(r, amount)
    BY <2>1, <2>4, MoveInv DEF creditWalletDirect
  <2> QED BY <1>3, <2>2, <2>3, <2>4
<1>4. ASSUME NEW r \in Requests, NEW amount \in Amounts,
             \/ addFunds(r, amount) \/ deductFunds(r, amount)
             \/ forcedDebitWallet(r, amount)
      PROVE  IInv'
  <2>1. amount \in Nat /\ -amount \in Int
    BY AmountsAssumption
  <2>2. CASE addFunds(r, amount)
    BY <2>1, <2>2, ReadInv DEF addFunds
  <2>3. CASE deductFunds(r, amount)
    <3>1. user.balance + (-amount) >= -user.creditLimit
      BY <1>1, <2>1, <2>3 DEF deductFunds
    <3> QED BY <2>1, <2>3, <3>1, ReadInv DEF deductFunds
  <2>4. CASE forcedDebitWallet(r, amount)
    BY <2>1, <2>4, ReadInv DEF forcedDebitWallet
  <2> QED BY <1>4, <2>2, <2>3, <2>4
<1>5. ASSUME NEW r \in Requests, NEW target \in Targets, setBalance(r, target)
      PROVE  IInv'
  <2>1. target - user.balance \in Int
    BY <1>1, BalanceAssumption
  <2> QED BY <1>5, <2>1, ReadInv DEF setBalance
<1>6. ASSUME NEW r \in Requests, NEW percent \in Percents,
             \/ adjustNegativeBalancesForInflation(r, percent)
             \/ adjustNegativeBalancesForDeflation(r, percent)
      PROVE  IInv'
  <2>1. Adjustment(percent) \in Int /\ Adjustment(percent) >= 1
    BY <1>1, <1>6, DebtAdjustment
       DEF adjustNegativeBalancesForInflation, adjustNegativeBalancesForDeflation
  <2>2. -Adjustment(percent) \in Int
    BY <2>1
  <2>3. CASE adjustNegativeBalancesForInflation(r, percent)
    BY <2>2, <2>3, ReadInv DEF adjustNegativeBalancesForInflation
  <2>4. CASE adjustNegativeBalancesForDeflation(r, percent)
    BY <2>1, <2>4, ReadInv DEF adjustNegativeBalancesForDeflation
  <2> QED BY <1>6, <2>3, <2>4
<1>7. ASSUME NEW r \in Requests, NEW limit \in Limits, LimitRead(r, limit)
      PROVE  IInv'
  <2>1. limit \in Nat /\ limit \in Int
    BY LimitsAssumption
  <2> QED BY <1>7, <2>1, ReadInv DEF LimitRead
<1> QED BY <1>2, <1>3, <1>4, <1>5, <1>6, <1>7, WriteInv, LimitInv, RecordInv, CrashInv
        DEF Next

\* Whatever the requests and their interleaving, the user document fits its
\* schema and creditUsed is never negative.
THEOREM WalletTypeCorrect == Spec => []WalletTypeOK
<1>1. IInv => WalletTypeOK
  BY DEF IInv
<1> QED BY <1>1, InitInv, NextInv, PTL DEF Spec

\* creditUsed mirrors the balance for every number of concurrent orders,
\* refunds, deposits and stale adjustments, while the limit is not changed.
THEOREM MirrorCorrect == Spec => []MirrorsBalance
<1>1. IInv => MirrorsBalance
  BY DEF IInv
<1> QED BY <1>1, InitInv, NextInv, PTL DEF Spec

\* No interleaving of debits, refunds, credits and the adjustments that respect
\* it takes a balance below the credit limit, although an adjustment writes a
\* balance that another request may have changed since it was read.
THEOREM CreditSafety == Spec => []WithinCredit
<1>1. IInv => WithinCredit
  BY DEF IInv
<1> QED BY <1>1, InitInv, NextInv, PTL DEF Spec
-----------------------------------------------------------------------------
(* The ledger.  What the balance is ahead of it is what the requests that  *)
(* have moved the balance and have not recorded it, dead ones included,    *)
(* add up to.                                                              *)

Deltas == [r \in Requests |-> request[r].delta]

Unrecorded ==
    {r \in Requests : request[r].op \in AtomicOps /\ request[r].pc \in {"record", "dead"}}

\* What one request has moved and not recorded.
Owed(req) ==
    IF req.op \in AtomicOps /\ req.pc \in {"record", "dead"} THEN req.delta ELSE 0

\* An atomic operation begins by moving the balance, and nothing but a movement is recorded.
Movements ==
    \A r \in Requests :
        /\ request[r].op \in AtomicOps => request[r].pc \in {"record", "done", "dead"}
        /\ request[r].pc = "record" => request[r].op \in AtomicOps \cup AdjustOps

Books == NoneOf(AdjustOps) => user.balance = recorded + Sum(Deltas, Unrecorded)

LInv == IInv /\ Movements /\ Books

\* The others' movements add up to what they did before.
LEMMA OthersUnrecorded ==
    ASSUME IInv, IsFiniteSet(Requests), NEW r \in Requests, NEW req \in Request,
           request' = [request EXCEPT ![r] = req]
    PROVE  /\ Unrecorded' \ {r} = Unrecorded \ {r}
           /\ Sum(Deltas', Unrecorded' \ {r}) = Sum(Deltas, Unrecorded \ {r})
<1>1. /\ request'[r] = req
      /\ \A q \in Requests : q # r => request'[q] = request[q]
  BY OneMoves DEF IInv
<1>2. Unrecorded' \ {r} = Unrecorded \ {r}
  BY <1>1 DEF Unrecorded
<1>3. \A q \in Unrecorded \ {r} : Deltas'[q] = Deltas[q]
  BY <1>1 DEF Deltas, Unrecorded
<1>4. IsFiniteSet(Unrecorded \ {r})
  BY FS_Subset DEF Unrecorded
<1>5. Sum(Deltas', Unrecorded \ {r}) = Sum(Deltas, Unrecorded \ {r})
  BY <1>3, <1>4, SumOfSame
<1> QED
  BY <1>2, <1>5

\* A step keeps the books when it moves the balance, the ledger and the request's own
\* unrecorded movement together.
LEMMA BooksStep ==
    ASSUME LInv, IInv', IsFiniteSet(Requests), NEW r \in Requests, NEW req \in Request,
           request' = [request EXCEPT ![r] = req],
           request[r].op = NoOp \/ req.op = request[r].op,
           req.op \in AtomicOps => req.pc \in {"record", "done", "dead"},
           req.pc = "record" => req.op \in AtomicOps \cup AdjustOps,
           req.op \notin AdjustOps =>
               user'.balance - recorded' - Owed(req) = user.balance - recorded - Owed(request[r])
    PROVE  LInv'
<1>1. /\ request'[r] = req
      /\ \A q \in Requests : q # r => request'[q] = request[q]
  BY OneMoves DEF LInv, IInv
<1>2. Movements'
  BY <1>1 DEF LInv, Movements
<1>3. ASSUME NoneOf(AdjustOps)'
      PROVE  user'.balance = recorded' + Sum(Deltas', Unrecorded')
  <2> DEFINE ops == AdjustOps
  <2>1. NoneOf(ops) /\ req.op \notin ops
    <3>1. ops \in SUBSET AllOps /\ NoneOf(ops)'
      BY <1>3
    <3> HIDE DEF ops
    <3> QED BY <3>1, NoneBefore DEF LInv
  <2>2. user.balance = recorded + Sum(Deltas, Unrecorded)
    BY <2>1 DEF LInv, Books
  <2> DEFINE old == Sum(Deltas, Unrecorded)
             new == Sum(Deltas', Unrecorded')
             rest == Sum(Deltas, Unrecorded \ {r})
  <2>3. /\ IsFiniteSet(Unrecorded) /\ IsFiniteSet(Unrecorded') /\ IsFiniteSet(Unrecorded \ {r})
        /\ \A q \in Requests : Deltas[q] = request[q].delta /\ Deltas[q] \in Int
        /\ \A q \in Requests : Deltas'[q] = request'[q].delta /\ Deltas'[q] \in Int
    BY FS_Subset DEF Unrecorded, Deltas, LInv, IInv, WalletTypeOK, Request
  <2>4. rest = Sum(Deltas', Unrecorded' \ {r}) /\ rest \in Int
    <3>1. rest \in Int
      BY <2>3, SumIsInt DEF Unrecorded
    <3> QED BY <3>1, OthersUnrecorded DEF LInv
  <2> DEFINE before == Owed(request[r])
             after == Owed(req)
  <2>5. old = before + rest
    <3>1. CASE r \in Unrecorded
      <4>1. old = request[r].delta + rest
        BY <2>3, <3>1, SumWithout DEF Unrecorded
      <4>2. before = request[r].delta
        BY <3>1 DEF Owed, Unrecorded
      <4> QED BY <4>1, <4>2
    <3>2. CASE r \notin Unrecorded
      <4>1. Unrecorded \ {r} = Unrecorded
        BY <3>2
      <4>2. before = 0
        BY <3>2 DEF Owed, Unrecorded
      <4>3. rest = old
        BY <4>1
      <4> HIDE DEF old, rest
      <4> QED BY <2>4, <4>2, <4>3
    <3> QED BY <3>1, <3>2
  <2>6. new = after + rest
    <3>1. r \in Unrecorded' <=> req.op \in AtomicOps /\ req.pc \in {"record", "dead"}
      BY <1>1 DEF Unrecorded
    <3>2. CASE r \in Unrecorded'
      <4>1. \A q \in Unrecorded' : Deltas'[q] \in Int
        BY <2>3 DEF Unrecorded
      <4>2. new = req.delta + Sum(Deltas', Unrecorded' \ {r})
        BY <1>1, <2>3, <3>2, <4>1, SumWithout
      <4>3. after = req.delta
        BY <3>1, <3>2 DEF Owed
      <4> QED BY <2>4, <4>2, <4>3
    <3>3. CASE r \notin Unrecorded'
      <4>1. Unrecorded' \ {r} = Unrecorded'
        BY <3>3
      <4>2. after = 0
        BY <3>1, <3>3 DEF Owed
      <4>3. rest = new
        BY <2>4, <4>1
      <4> HIDE DEF new, rest
      <4> QED BY <2>4, <4>2, <4>3
    <3> QED BY <3>2, <3>3
  <2>7. before \in Int /\ after \in Int
    BY DEF Owed, LInv, IInv, WalletTypeOK, Request
  <2> HIDE DEF old, new, rest, before, after
  <2>8. user'.balance - recorded' - after = user.balance - recorded - before
    BY <2>1 DEF before, after
  <2>9. user.balance \in Int /\ user'.balance \in Int /\ recorded \in Int /\ recorded' \in Int
    BY DEF LInv, IInv, WalletTypeOK, Wallet
  <2>10. user.balance = recorded + old
    BY <2>2 DEF old
  <2>11. user'.balance = recorded' + new
    BY <2>4, <2>5, <2>6, <2>7, <2>8, <2>9, <2>10
  <2> QED BY <2>11 DEF new
<1> QED BY <1>2, <1>3 DEF LInv, Books

LEMMA BooksInit == ASSUME Init, IsFiniteSet(Requests) PROVE LInv
<1>1. IInv
  BY InitInv
<1>2. Movements
  BY OpsAssumption DEF Init, Movements
<1>3. Unrecorded = {}
  BY DEF Init, Unrecorded
<1>4. user.balance = recorded + 0
  BY BalanceAssumption DEF Init
<1> QED BY <1>1, <1>2, <1>3, <1>4, SumOfNothing DEF LInv, Books

LEMMA MoveBooks ==
    ASSUME LInv, IInv', IsFiniteSet(Requests), NEW r \in Requests, NEW op \in AtomicOps,
           NEW delta \in Int, Move(r, op, delta)
    PROVE  LInv'
<1>1. /\ user \in Wallet /\ recorded \in Int /\ request[r] \in Request
      /\ request[r].op = NoOp /\ op \in Ops
  BY OpsAssumption DEF LInv, IInv, WalletTypeOK, Fresh, Move
<1>2. user'.balance = user.balance + delta /\ user.balance \in Int
  BY <1>1 DEF Move, WithBalance, Wallet
<1> DEFINE req(pc) == [request[r] EXCEPT !.pc = pc, !.op = op, !.delta = delta]
<1>3. \A pc \in {"done", "record"} :
          req(pc) \in Request /\ req(pc).op = op /\ req(pc).pc = pc /\ req(pc).delta = delta
  BY <1>1 DEF Request
<1>4. CASE Become(r, "done", op, delta) /\ recorded' = recorded + delta
  <2>1. request' = [request EXCEPT ![r] = req("done")]
    BY <1>4 DEF Become
  <2>2. user'.balance - recorded' - Owed(req("done")) = user.balance - recorded - Owed(request[r])
    BY <1>1, <1>2, <1>3, <1>4, OpsAssumption DEF Owed
  <2> HIDE DEF req
  <2> QED BY <1>1, <1>3, <2>1, <2>2, BooksStep
<1>5. CASE Become(r, "record", op, delta) /\ UNCHANGED recorded
  <2>1. request' = [request EXCEPT ![r] = req("record")]
    BY <1>5 DEF Become
  <2>2. user'.balance - recorded' - Owed(req("record"))
        = user.balance - recorded - Owed(request[r])
    BY <1>1, <1>2, <1>3, <1>5, OpsAssumption DEF Owed
  <2> HIDE DEF req
  <2> QED BY <1>1, <1>3, <2>1, <2>2, BooksStep
<1> QED BY <1>4, <1>5 DEF Move

LEMMA ReadBooks ==
    ASSUME LInv, IInv', IsFiniteSet(Requests), NEW r \in Requests, NEW op \in AllOps,
           NEW delta \in Int, op \notin AtomicOps, Read(r, op, delta)
    PROVE  LInv'
<1>1. /\ user \in Wallet /\ recorded \in Int
      /\ request[r].op = NoOp /\ op \in Ops
      /\ user' = user /\ recorded' = recorded
  BY OpsAssumption DEF LInv, IInv, WalletTypeOK, Fresh, Read
<1> DEFINE req == [pc |-> "write", op |-> op, delta |-> delta, read |-> user]
<1>2. req \in Request /\ req.pc = "write" /\ req.op = op
  BY <1>1 DEF Request
<1>3. request' = [request EXCEPT ![r] = req]
  BY DEF Read
<1> HIDE DEF req
<1>4. user'.balance - recorded' - Owed(req) = user.balance - recorded - Owed(request[r])
  BY <1>1, <1>2, OpsAssumption DEF Owed
<1> QED BY <1>1, <1>2, <1>3, <1>4, BooksStep

\* The steps of a request that has begun.
LEMMA ProgressBooks ==
    ASSUME LInv, IInv', IsFiniteSet(Requests), NEW r \in Requests,
           Write(r) \/ updateUserCreditLimit(r) \/ Record(r) \/ Crash(r)
    PROVE  LInv'
<1>1. /\ user \in Wallet /\ recorded \in Int /\ request[r] \in Request
      /\ user.balance \in Int /\ request[r].delta \in Int
      /\ request[r].op \in AtomicOps => request[r].pc \in {"record", "done", "dead"}
      /\ request[r].pc = "record" => request[r].op \in AtomicOps \cup AdjustOps
  BY DEF LInv, IInv, WalletTypeOK, Wallet, Request, Movements
<1> DEFINE req(pc) == [request[r] EXCEPT !.pc = pc, !.op = request[r].op,
                                         !.delta = request[r].delta]
<1>2. \A pc \in {"record", "done", "dead"} :
          /\ req(pc) \in Request /\ req(pc).op = request[r].op /\ req(pc).pc = pc
          /\ req(pc).delta = request[r].delta
  BY <1>1 DEF Request
<1>3. CASE Write(r)
  <2>1. request' = [request EXCEPT ![r] = req("record")] /\ request[r].op \in AdjustOps
    BY <1>3 DEF Write, Become
  <2> HIDE DEF req
  <2> QED BY <1>1, <1>2, <2>1, BooksStep
<1>4. CASE updateUserCreditLimit(r)
  <2>1. request' = [request EXCEPT ![r] = req("done")] /\ request[r].op = "limit"
        /\ recorded' = recorded /\ user'.balance = user.balance
    BY <1>1, <1>4 DEF updateUserCreditLimit, Become, Wallet
  <2>2. user'.balance - recorded' - Owed(req("done")) = user.balance - recorded - Owed(request[r])
    BY <1>2, <2>1 DEF Owed
  <2> HIDE DEF req
  <2> QED BY <1>1, <1>2, <2>1, <2>2, BooksStep
<1>5. CASE Record(r)
  <2>1. request' = [request EXCEPT ![r] = req("done")] /\ request[r].pc = "record"
        /\ recorded' = recorded + request[r].delta /\ user' = user
    BY <1>5 DEF Record, Become
  <2>2. request[r].op \in AtomicOps =>
            user'.balance - recorded' - Owed(req("done"))
            = user.balance - recorded - Owed(request[r])
    <3>1. CASE request[r].op \in AtomicOps
      <4>1. Owed(req("done")) = 0 /\ Owed(request[r]) = request[r].delta
        BY <1>2, <2>1, <3>1 DEF Owed
      <4> QED BY <1>1, <2>1, <4>1
    <3> QED BY <3>1
  <2>3. request[r].op \in AtomicOps \cup AdjustOps
    BY <1>1, <2>1
  <2> HIDE DEF req
  <2> QED BY <1>1, <1>2, <2>1, <2>2, <2>3, BooksStep
<1>6. CASE Crash(r)
  <2>1. request' = [request EXCEPT ![r] = req("dead")]
        /\ request[r].pc \in {"write", "record"} /\ recorded' = recorded /\ user' = user
    BY <1>1, <1>6 DEF Crash, Request
  <2>2. Owed(req("dead")) = Owed(request[r])
    BY <1>1, <1>2, <2>1 DEF Owed
  <2> HIDE DEF req
  <2> QED BY <1>1, <1>2, <2>1, <2>2, BooksStep
<1> QED BY <1>3, <1>4, <1>5, <1>6

LEMMA BooksNext == ASSUME LInv, [Next]_vars, IsFiniteSet(Requests) PROVE LInv'
<1>1. IInv' /\ user \in Wallet /\ user.balance \in Int
  BY NextInv DEF LInv, IInv, WalletTypeOK, Wallet
<1>2. CASE UNCHANGED vars
  <2>1. Deltas' = Deltas /\ Unrecorded' = Unrecorded
    BY <1>2 DEF vars, Deltas, Unrecorded
  <2> QED BY <1>1, <1>2, <2>1 DEF vars, LInv, Movements, Books, NoneOf
<1>3. ASSUME NEW r \in Requests, NEW amount \in Amounts,
             \/ debitWalletAtomic(r, amount) \/ refundWalletAtomic(r, amount)
             \/ creditWalletDirect(r, amount)
      PROVE  LInv'
  <2>1. amount \in Int /\ -amount \in Int
    BY AmountsAssumption
  <2> QED BY <1>1, <1>3, <2>1, MoveBooks
          DEF debitWalletAtomic, refundWalletAtomic, creditWalletDirect
<1>4. ASSUME NEW r \in Requests, NEW amount \in Amounts,
             addFunds(r, amount) \/ deductFunds(r, amount) \/ forcedDebitWallet(r, amount)
      PROVE  LInv'
  <2>1. amount \in Int /\ -amount \in Int
    BY AmountsAssumption
  <2> QED BY <1>1, <1>4, <2>1, ReadBooks DEF addFunds, deductFunds, forcedDebitWallet
<1>5. ASSUME NEW r \in Requests, NEW target \in Targets, setBalance(r, target)
      PROVE  LInv'
  <2>1. target - user.balance \in Int
    BY <1>1, BalanceAssumption
  <2> QED BY <1>1, <1>5, <2>1, ReadBooks DEF setBalance
<1>6. ASSUME NEW r \in Requests, NEW percent \in Percents,
             \/ adjustNegativeBalancesForInflation(r, percent)
             \/ adjustNegativeBalancesForDeflation(r, percent)
      PROVE  LInv'
  <2>1. Adjustment(percent) \in Int /\ -Adjustment(percent) \in Int
    BY <1>1, DebtAdjustment
  <2> QED BY <1>1, <1>6, <2>1, ReadBooks
          DEF adjustNegativeBalancesForInflation, adjustNegativeBalancesForDeflation
<1>7. ASSUME NEW r \in Requests, NEW limit \in Limits, LimitRead(r, limit)
      PROVE  LInv'
  <2>1. limit \in Int
    BY LimitsAssumption
  <2> QED BY <1>1, <1>7, <2>1, ReadBooks DEF LimitRead
<1> QED BY <1>1, <1>2, <1>3, <1>4, <1>5, <1>6, <1>7, ProgressBooks DEF Next

\* Once the requests are over, none of which died between its movement and its record,
\* the ledger of any number of orders, refunds and deposits adds up to the balance.
THEOREM LedgerSafety ==
    ASSUME IsFiniteSet(Requests)
    PROVE  Spec => []AtomicOpsLedger
<1>1. Init => LInv
  BY BooksInit
<1>2. LInv /\ [Next]_vars => LInv'
  BY BooksNext
<1>3. LInv => AtomicOpsLedger
  <2> SUFFICES ASSUME LInv, Settled, NoneOf(AdjustOps) PROVE user.balance = recorded
    BY DEF AtomicOpsLedger
  <2>1. Unrecorded = {}
    BY DEF Settled, Unrecorded
  <2>2. user.balance = recorded + 0 /\ recorded \in Int
    BY <2>1, SumOfNothing DEF LInv, Books, IInv, WalletTypeOK
  <2> QED BY <2>2
<1> QED BY <1>1, <1>2, <1>3, PTL DEF Spec
=============================================================================
