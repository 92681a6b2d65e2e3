---------------------------- MODULE OrderRefunds ----------------------------
(***************************************************************************)
(* The persisted order, the money (or quota) the user has given up for it, *)
(* and the two subroutines that give it back.                              *)
(*                                                                         *)
(* Every process that works on an order is a task with a program counter:  *)
(* the fire-and-forget executor of one order (identified with the order),  *)
(* the fulfilment cron of one PM2 worker, or an administrator's request.   *)
(* One action is one database operation, one MongoDB transaction or one    *)
(* exchange with the provider: between two of them every other task may    *)
(* run, and a worker may die.                                              *)
(*                                                                         *)
(* A snapshot transaction reads the order and writes it, so a concurrent   *)
(* change of the order makes it abort: it is one atomic action that may    *)
(* also end with nothing written.                                          *)
(***************************************************************************)
EXTENDS StatusMapper, Integers, Sequences

CONSTANTS
    Orders,         \* the order documents, each one charged when it was created
    ManualOrders,   \* those of execution type 'manual': no provider is involved
    QuotaOrders,    \* those of quantity_only groups: paid in quota units
    Workers,        \* PM2 cluster workers, each one running the fulfilment cron
    Admins,         \* concurrent administrator requests
    Quantity,       \* order.quantity
    Charge,         \* order.chargedAmount = order.walletDeducted
    Replies,        \* the raw statuses a provider reports in this instance
    Faults,         \* what may go wrong around the platform, see FaultKinds
    None            \* no order

FaultKinds ==
    {"crash",           \* a worker process dies and loses its tasks
     "db_error",        \* a database call of the executor throws
     "txn_abort",       \* a refund transaction aborts (write conflict, outage)
     "unknown_commit",  \* a refund transaction commits but the commit call throws
     "timeout",         \* a placement call throws, whatever the provider did
     "swallow",         \* an adapter reports such a throw as a plain rejection
     "offline",         \* a provider is inactive, or a status check fails
     "no_remains"}      \* a partial delivery is reported without its remains

ASSUME OrdersAssumption ==
    /\ ManualOrders \subseteq Orders
    /\ QuotaOrders \subseteq Orders
    /\ None \notin Orders
    /\ Orders \cap Workers = {} /\ Orders \cap Admins = {} /\ Workers \cap Admins = {}
ASSUME AmountAssumption == Quantity \in Nat \ {0} /\ Charge \in Nat \ {0}
ASSUME RepliesAssumption == Replies \subseteq KnownAliases \ {UNCERTAIN}
ASSUME FaultsAssumption == Faults \subseteq FaultKinds

VARIABLES
    order,      \* the order documents in MongoDB
    held,       \* net sum of the user's wallet records (quota units) of an order
    task,       \* what each process is doing
    remote      \* the provider's own orders, by placement, for each order

vars == <<order, held, task, remote>>

Procs == Orders \cup Workers \cup Admins

-----------------------------------------------------------------------------
(* Order documents and money.                                              *)

NoId == 0               \* providerOrderId: null; otherwise a placement number
NoStatus == "null"      \* providerStatus: null

OrderDoc ==
    [status : OrderStatus,
     providerOrderId : Nat,
     providerStatus : KnownAliases \cup {NoStatus},
     retryCount : Nat,
     refunded : BOOLEAN]

\* What creating the order took from the user.
Amount(o) == IF o \in QuotaOrders THEN Quantity ELSE Charge

\* What processOrderRefund gives back when `remains` units were not delivered:
\* a share, rounded down, only when it is a proper part of the quantity.
RefundShare(o, remains) ==
    IF remains \in 1 .. Quantity - 1
    THEN (remains * Amount(o)) \div Quantity
    ELSE Amount(o)

-----------------------------------------------------------------------------
(* Provider replies and tasks.                                             *)

Reply ==
    [success : BOOLEAN,
     status : KnownAliases \cup {NoStatus},
     id : Nat,
     remains : Nat]

NoReply ==
    [success |-> FALSE, status |-> NoStatus, id |-> NoId, remains |-> 0]

Placement == [status : KnownAliases, remains : Nat]

RefundSteps == {"refundFlag", "refundCredit", "refundUndo", "refundTxn"}

ExecSteps ==
    {"scheduled", "loaded", "claimed", "sent", "refused", "answered"}

PollSteps == {"exhausted", "lookup", "recover", "check"}

AdminSteps ==
    {"arrived", "retryCall", "retrySave", "syncCall", "syncSave", "failTxn",
     "partialSave", "debit", "completeSave"}

Steps ==
    {"idle", "apply"} \cup RefundSteps \cup ExecSteps \cup PollSteps
        \cup AdminSteps

\* `doc` is the document as the process last read it, `reply` what the provider
\* (or the administrator) last told it.
Task ==
    [pc : Steps, o : Orders \cup {None}, doc : OrderDoc, reply : Reply]

NoDoc ==
    [status |-> PENDING, providerOrderId |-> NoId, providerStatus |-> NoStatus,
     retryCount |-> 0, refunded |-> FALSE]

NoTask == [pc |-> "idle", o |-> None, doc |-> NoDoc, reply |-> NoReply]

At(p, pc) == task[p].pc = pc

Goto(p, pc) == task' = [task EXCEPT ![p].pc = pc]

Finish(p) == task' = [task EXCEPT ![p] = NoTask]

\* The filter of a compare-and-swap out of PROCESSING.
IsProcessing(o) == order[o].status = PROCESSING

-----------------------------------------------------------------------------
(* refundFailedOrder: the flag is swapped in an operation of its own, the  *)
(* wallet credited in a transaction, and the flag cleared again when that  *)
(* fails or when no money was charged.                                     *)

RefundFlag(p) ==
    LET o == task[p].o IN
    /\ At(p, "refundFlag")
    /\ ~order[o].refunded
    /\ order' = [order EXCEPT ![o].refunded = TRUE]
    /\ Goto(p, "refundCredit")
    /\ UNCHANGED <<held, remote>>

RefundAlreadyFlagged(p) ==
    /\ At(p, "refundFlag")
    /\ order[task[p].o].refunded
    /\ Finish(p)
    /\ UNCHANGED <<order, held, remote>>

RefundCredit(p) ==
    LET o == task[p].o IN
    /\ At(p, "refundCredit")
    /\ o \notin QuotaOrders
    /\ held' = [held EXCEPT ![o] = @ - Amount(o)]
    /\ Finish(p)
    /\ UNCHANGED <<order, remote>>

RefundNothingOrAbort(p) ==
    /\ At(p, "refundCredit")
    /\ task[p].o \in QuotaOrders \/ "txn_abort" \in Faults
    /\ Goto(p, "refundUndo")
    /\ UNCHANGED <<order, held, remote>>

RefundCommitUnknown(p) ==
    LET o == task[p].o IN
    /\ At(p, "refundCredit")
    /\ o \notin QuotaOrders
    /\ "unknown_commit" \in Faults
    /\ held' = [held EXCEPT ![o] = @ - Amount(o)]
    /\ Goto(p, "refundUndo")
    /\ UNCHANGED <<order, remote>>

RefundUndo(p) ==
    /\ At(p, "refundUndo")
    /\ order' = [order EXCEPT ![task[p].o].refunded = FALSE]
    /\ Finish(p)
    /\ UNCHANGED <<held, remote>>

-----------------------------------------------------------------------------
(* processOrderRefund: one transaction over the order and the wallet (or   *)
(* the quota).  Its callers log an error and carry on.                     *)

OrderRefundCommit(p) ==
    LET o == task[p].o
        share == RefundShare(o, task[p].reply.remains)
    IN
    /\ At(p, "refundTxn")
    /\ ~order[o].refunded
    /\ share > 0
    /\ order' = [order EXCEPT ![o].refunded = TRUE]
    /\ held' = [held EXCEPT ![o] = @ - share]
    /\ Finish(p)
    /\ UNCHANGED remote

OrderRefundReject(p) ==
    LET o == task[p].o IN
    /\ At(p, "refundTxn")
    /\ \/ order[o].refunded
       \/ RefundShare(o, task[p].reply.remains) = 0
       \/ "txn_abort" \in Faults
    /\ Finish(p)
    /\ UNCHANGED <<order, held, remote>>

RefundNext(p) ==
    \/ RefundFlag(p)
    \/ RefundAlreadyFlagged(p)
    \/ RefundCredit(p)
    \/ RefundNothingOrAbort(p)
    \/ RefundCommitUnknown(p)
    \/ RefundUndo(p)
    \/ OrderRefundCommit(p)
    \/ OrderRefundReject(p)

\* A PM2 worker dies: whatever the process held in memory is gone.
Crash(p) ==
    /\ "crash" \in Faults
    /\ task[p].pc # "idle"
    /\ Finish(p)
    /\ UNCHANGED <<order, held, remote>>
=============================================================================
