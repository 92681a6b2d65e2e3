----------------------------- MODULE OrderAdmin -----------------------------
(***************************************************************************)
(* Administrators at work on the same orders as the engine                 *)
(* (admin.orders.service.js and the manual transitions of                  *)
(* order.service.js).  A request reads the document, may call the provider *)
(* or the wallet, and then saves: the save writes the paths the request    *)
(* changed in its own copy, whatever the stored document looks like by     *)
(* then.                                                                   *)
(***************************************************************************)
EXTENDS Fulfillment

CONSTANT AdminOps       \* the requests administrators make in this instance

AllAdminOps == {"retry", "refund", "fail", "sync", "complete"}

ASSUME AdminOpsAssumption == AdminOps \subseteq AllAdminOps

-----------------------------------------------------------------------------

\* document.save(): the paths that differ from the copy that was read.
Save(o, doc, new) ==
    order' = [order EXCEPT ![o] =
                [f \in DOMAIN new |-> IF new[f] # doc[f] THEN new[f] ELSE @[f]]]

\* Request a has come in: it runs once, so Admins bounds their number.
Arrived == [NoTask EXCEPT !.pc = "arrived"]

\* Request a, asking for `op`, reads order o and goes on at step pc.
Request(a, op, o, pc, reply) ==
    /\ op \in AdminOps
    /\ At(a, "arrived")
    /\ task' = [task EXCEPT ![a] =
                  [pc |-> pc, o |-> o, doc |-> order[o], reply |-> reply]]
    /\ UNCHANGED <<order, held, remote>>

-----------------------------------------------------------------------------
(* retryOrder.  The adapters name the new order `providerOrderId`, the     *)
(* request looks for `orderId`: the stored id stays what it was.           *)

RetryStart(a, o) ==
    /\ order[o].status = FAILED
    /\ o \notin ManualOrders
    /\ Request(a, "retry", o, "retryCall", NoReply)

RetryCall(a) ==
    /\ At(a, "retryCall")
    /\ \/ UNCHANGED remote
       \/ \E s \in Replies, r \in 1 .. Quantity :
             remote' = [remote EXCEPT ![task[a].o] = Append(@, PlacementIn(s, r))]
    /\ Goto(a, "retrySave")
    /\ UNCHANGED <<order, held>>

RetryCallThrows(a) ==
    /\ At(a, "retryCall")
    /\ "timeout" \in Faults
    /\ \/ UNCHANGED remote
       \/ \E s \in Replies, r \in 1 .. Quantity :
             remote' = [remote EXCEPT ![task[a].o] = Append(@, PlacementIn(s, r))]
    /\ Finish(a)
    /\ UNCHANGED <<order, held>>

RetrySave(a) ==
    LET doc == task[a].doc IN
    /\ At(a, "retrySave")
    /\ Save(task[a].o, doc,
            [doc EXCEPT !.status = PROCESSING, !.retryCount = @ + 1])
    /\ Finish(a)
    /\ UNCHANGED <<held, remote>>

-----------------------------------------------------------------------------
(* refundOrder with `remains` undelivered units, and markOrderAsFailed.    *)

RefundStart(a, o, remains) ==
    /\ ~order[o].refunded
    /\ Request(a, "refund", o,
               CASE remains = 0 -> "failTxn"
                 [] remains > 0 /\ order[o].status # PARTIAL -> "partialSave"
                 [] OTHER -> "refundTxn",
               [NoReply EXCEPT !.remains = remains])

PartialSave(a) ==
    LET doc == task[a].doc IN
    /\ At(a, "partialSave")
    /\ Save(task[a].o, doc, [doc EXCEPT !.status = PARTIAL])
    /\ Goto(a, "refundTxn")
    /\ UNCHANGED <<held, remote>>

FailStart(a, o) == Request(a, "fail", o, "failTxn", NoReply)

\* Mutant: only the status is looked at.
FailCommitByStatus(a) ==
    LET o == task[a].o IN
    /\ At(a, "failTxn")
    /\ order[o].status # FAILED
    /\ order' = [order EXCEPT ![o].status = FAILED, ![o].refunded = TRUE]
    /\ held' = [held EXCEPT ![o] = @ - Amount(o)]
    /\ Finish(a)
    /\ UNCHANGED <<remote>>

\* Mutant: the flag is not set.
FailCommitUnflagged(a) ==
    LET o == task[a].o IN
    /\ At(a, "failTxn")
    /\ order[o].status # FAILED
    /\ ~order[o].refunded
    /\ order' = [order EXCEPT ![o].status = FAILED]
    /\ held' = [held EXCEPT ![o] = @ - Amount(o)]
    /\ Finish(a)
    /\ UNCHANGED <<remote>>

\* markOrderAsFailed, one transaction, with no check against COMPLETED.
FailCommit(a) ==
    LET o == task[a].o IN
    /\ At(a, "failTxn")
    /\ order[o].status # FAILED
    /\ ~order[o].refunded
    /\ order' = [order EXCEPT ![o].status = FAILED, ![o].refunded = TRUE]
    /\ held' = [held EXCEPT ![o] = @ - Amount(o)]
    /\ Finish(a)
    /\ UNCHANGED <<remote>>

FailReject(a) ==
    LET o == task[a].o IN
    /\ At(a, "failTxn")
    /\ order[o].status = FAILED \/ order[o].refunded \/ "txn_abort" \in Faults
    /\ Finish(a)
    /\ UNCHANGED <<order, held, remote>>

-----------------------------------------------------------------------------
(* syncOrderProviderStatus.  It knows four raw statuses of its own.        *)

SyncedStatus(doc, raw) ==
    CASE raw = "completed" -> COMPLETED
      [] raw \in {"cancelled", "canceled"} -> CANCELED
      [] raw \in {"partial", "partially_completed"} -> PARTIAL
      [] OTHER -> doc.status

SyncStart(a, o) ==
    /\ order[o].providerOrderId # NoId
    /\ Request(a, "sync", o, "syncCall", NoReply)

SyncCall(a) ==
    LET o == task[a].o
        k == task[a].doc.providerOrderId
    IN
    /\ At(a, "syncCall")
    /\ \/ /\ k \in 1 .. Len(remote[o])
          /\ \E reply \in Report(o, k) :
                task' = [task EXCEPT ![a].pc = "syncSave", ![a].reply = reply]
       \/ "offline" \in Faults /\ Finish(a)
    /\ UNCHANGED <<order, held, remote>>

SyncSave(a) ==
    LET doc == task[a].doc
        raw == task[a].reply.status
        new == SyncedStatus(doc, raw)
    IN
    /\ At(a, "syncSave")
    /\ Save(task[a].o, doc, [doc EXCEPT !.status = new, !.providerStatus = raw])
    /\ IF new # doc.status /\ new \in {CANCELED, PARTIAL}
       THEN task' = [task EXCEPT ![a].pc = "refundTxn",
                                 ![a].reply.remains = IF new = PARTIAL THEN @ ELSE 0]
       ELSE Finish(a)
    /\ UNCHANGED <<held, remote>>

-----------------------------------------------------------------------------
(* completeOrder: charge again an order that looks refunded, then save.    *)
(* markOrderAsCompleted does the same save for an order still PENDING.     *)

WasRefunded(doc) == doc.refunded \/ doc.status \in {FAILED, PARTIAL, CANCELED}

CompleteStart(a, o) ==
    /\ order[o].status # COMPLETED
    /\ Request(a, "complete", o,
               IF WasRefunded(order[o]) /\ o \notin QuotaOrders
               THEN "debit" ELSE "completeSave",
               NoReply)

ForcedDebit(a) ==
    LET o == task[a].o IN
    /\ At(a, "debit")
    /\ held' = [held EXCEPT ![o] = @ + Amount(o)]
    /\ Goto(a, "completeSave")
    /\ UNCHANGED <<order, remote>>

CompleteSave(a) ==
    LET doc == task[a].doc IN
    /\ At(a, "completeSave")
    /\ Save(task[a].o, doc, [doc EXCEPT !.status = COMPLETED, !.refunded = FALSE])
    /\ Finish(a)
    /\ UNCHANGED <<held, remote>>

-----------------------------------------------------------------------------

AdminStart(a, o) ==
    \/ RetryStart(a, o)
    \/ \E remains \in 0 .. Quantity : RefundStart(a, o, remains)
    \/ FailStart(a, o)
    \/ SyncStart(a, o)
    \/ CompleteStart(a, o)

AdminStep(a) ==
    \/ RetryCall(a)
    \/ RetryCallThrows(a)
    \/ RetrySave(a)
    \/ PartialSave(a)
    \/ FailCommit(a)
    \/ FailReject(a)
    \/ SyncCall(a)
    \/ SyncSave(a)
    \/ ForcedDebit(a)
    \/ CompleteSave(a)

AdminInit ==
    /\ order = [o \in Orders |-> NewOrder(o)]
    /\ held = [o \in Orders |-> Amount(o)]
    /\ task = [p \in Procs |-> CASE p \in Orders \ ManualOrders -> Scheduled(p)
                                [] p \in Admins -> Arrived
                                [] OTHER -> NoTask]
    /\ remote = [o \in Orders |-> <<>>]

AdminNext ==
    \/ Next
    \/ \E a \in Admins, o \in Orders : AdminStart(a, o)
    \/ \E a \in Admins : AdminStep(a)

AdminSpec == AdminInit /\ [][AdminNext]_vars

-----------------------------------------------------------------------------
(* Properties.                                                             *)

\* However administrators and the engine interleave, the platform never pays
\* back more than it took for an order.
NeverOverRefunded == \A o \in Orders : held[o] >= 0

\* No process is at work on the order.
Quiet(o) == \A p \in Procs : task[p].o # o

\* An order nobody is working on is never charged twice.  completeOrder breaks this
\* (README): no run checks it.
NeverOvercharged == \A o \in Orders : Quiet(o) => held[o] <= Amount(o)

\* An order that is being fulfilled has been paid for.  retryOrder breaks this (README):
\* no run checks it.
ProcessingIsPaid ==
    \A o \in Orders : order[o].status = PROCESSING => held[o] = Amount(o)
=============================================================================
