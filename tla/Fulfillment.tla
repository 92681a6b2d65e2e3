---------------------------- MODULE Fulfillment -----------------------------
(***************************************************************************)
(* The fulfilment engine: executeOrder, started once for every automatic   *)
(* order when its creation commits, and the per-minute cron that every     *)
(* cluster worker runs on its own (pollProcessingOrders), with the         *)
(* recovery of placements whose outcome is unknown.                        *)
(***************************************************************************)
EXTENDS OrderRefunds

CONSTANT MaxRetry       \* MAX_RETRY_COUNT

ASSUME MaxRetryAssumption == MaxRetry \in Nat \ {0}

-----------------------------------------------------------------------------
(* Initial state: createOrder has committed, the wallet is debited, and    *)
(* the executor of every automatic order is scheduled.                     *)

NewOrder(o) ==
    [NoDoc EXCEPT !.status = IF o \in ManualOrders THEN PENDING ELSE PROCESSING]

Scheduled(o) == [NoTask EXCEPT !.pc = "scheduled", !.o = o]

Init ==
    /\ order = [o \in Orders |-> NewOrder(o)]
    /\ held = [o \in Orders |-> Amount(o)]
    /\ task = [p \in Procs |-> IF p \in Orders \ ManualOrders
                               THEN Scheduled(p) ELSE NoTask]
    /\ remote = [o \in Orders |-> <<>>]

\* The filter under which a placement answer may still be written: nobody has
\* resolved the dispatch claim since.
OwnsClaim(o) ==
    /\ IsProcessing(o)
    /\ order[o].providerOrderId = NoId
    /\ order[o].providerStatus = UNCERTAIN

-----------------------------------------------------------------------------
(* The provider.                                                           *)

PlacementIn(s, remains) ==
    [status |-> s,
     remains |-> IF toInternalStatus(s) = PARTIAL THEN remains ELSE 0]

\* A working order of the provider reaches one of its final statuses.
ProviderProgress(o, k) ==
    /\ ~isTerminal(remote[o][k].status)
    /\ \E s \in Replies, r \in 1 .. Quantity :
          /\ isTerminal(s)
          /\ remote' = [remote EXCEPT ![o][k] = PlacementIn(s, r)]
    /\ UNCHANGED <<order, held, task>>

\* What the provider says of placement k now.
Report(o, k) ==
    {[success |-> TRUE, status |-> remote[o][k].status, id |-> k, remains |-> r] :
        r \in {remote[o][k].remains}
              \cup (IF "no_remains" \in Faults THEN {0} ELSE {})}

-----------------------------------------------------------------------------
(* executeOrder.                                                           *)

ExecLoad(o) ==
    /\ At(o, "scheduled")
    /\ IF IsProcessing(o) THEN Goto(o, "loaded") ELSE Finish(o)
    /\ UNCHANGED <<order, held, remote>>

\* No provider can be resolved, and nothing was dispatched: fail and refund.
ExecResolveFails(o) ==
    /\ At(o, "loaded")
    /\ "offline" \in Faults
    /\ IF /\ IsProcessing(o)
          /\ order[o].providerOrderId = NoId
          /\ order[o].providerStatus = NoStatus
       THEN /\ order' = [order EXCEPT ![o].status = FAILED]
            /\ Goto(o, "refundFlag")
       ELSE /\ Finish(o)
            /\ UNCHANGED order
    /\ UNCHANGED <<held, remote>>

ExecClaim(o) ==
    /\ At(o, "loaded")
    /\ IF /\ IsProcessing(o)
          /\ order[o].providerOrderId = NoId
          /\ order[o].providerStatus = NoStatus
       THEN /\ order' = [order EXCEPT ![o].providerStatus = UNCERTAIN]
            /\ Goto(o, "claimed")
       ELSE /\ Finish(o)
            /\ UNCHANGED order
    /\ UNCHANGED <<held, remote>>

\* placeOrder reaches the provider, which creates an order of its own ...
ProviderAccepts(o) ==
    /\ At(o, "claimed")
    /\ \E s \in Replies, r \in 1 .. Quantity :
          remote' = [remote EXCEPT ![o] = Append(@, PlacementIn(s, r))]
    /\ task' = [task EXCEPT ![o].pc = "sent",
                            ![o].reply = [@ EXCEPT !.id = Len(remote[o]) + 1]]
    /\ UNCHANGED <<order, held>>

\* ... or does not: it refuses, or the request is lost.
ProviderRefuses(o) ==
    /\ At(o, "claimed")
    /\ Goto(o, "refused")
    /\ UNCHANGED <<order, held, remote>>

ExecAnswered(o, reply) ==
    /\ task' = [task EXCEPT ![o].pc = "answered", ![o].reply = reply]
    /\ UNCHANGED <<order, held, remote>>

ExecAccepted(o) ==
    /\ At(o, "sent")
    /\ \E reply \in Report(o, task[o].reply.id) : ExecAnswered(o, reply)

\* Mutant: the provider's own word for its refusal is stored.
RejectionRaw == [NoReply EXCEPT !.status = "Cancelled by provider"]

Rejection == [NoReply EXCEPT !.status = "cancelled"]

ExecRejected(o) ==
    /\ At(o, "refused") \/ (At(o, "sent") /\ "swallow" \in Faults)
    /\ ExecAnswered(o, Rejection)

\* Mutant: a thrown call is taken for a refusal.
UnknownIsFailure == [NoReply EXCEPT !.status = "cancelled"]

\* A thrown call says nothing about the provider's decision.
Unknown == [NoReply EXCEPT !.success = TRUE, !.status = UNCERTAIN]

ExecThrown(o) ==
    /\ At(o, "refused") \/ At(o, "sent")
    /\ "timeout" \in Faults
    /\ ExecAnswered(o, Unknown)

\* How executeOrder reads the answer.
NewStatus(reply) ==
    IF reply.success THEN toInternalStatus(reply.status) ELSE FAILED

\* The answer written onto the order, with the status it leads to.
Answered(o, newStatus) ==
    order' = [order EXCEPT ![o].status = newStatus,
                           ![o].providerOrderId = task[o].reply.id,
                           ![o].providerStatus = task[o].reply.status]

ExecPersistFailure(o) ==
    LET newStatus == NewStatus(task[o].reply) IN
    /\ At(o, "answered")
    /\ newStatus \in {FAILED, CANCELED}
    /\ OwnsClaim(o)
    /\ Answered(o, newStatus)
    /\ Goto(o, "refundFlag")
    /\ UNCHANGED <<held, remote>>

ExecPersistPending(o) ==
    /\ At(o, "answered")
    /\ NewStatus(task[o].reply) = PROCESSING
    /\ OwnsClaim(o)
    /\ Answered(o, PROCESSING)
    /\ Finish(o)
    /\ UNCHANGED <<held, remote>>

ExecPersistPartial(o) ==
    /\ At(o, "answered")
    /\ NewStatus(task[o].reply) = PARTIAL
    /\ OwnsClaim(o)
    /\ Answered(o, PROCESSING)
    /\ task' = [task EXCEPT ![o].pc = "apply", ![o].doc = order'[o]]
    /\ UNCHANGED <<held, remote>>

\* An immediate completion only asks that the order is still PROCESSING.
ExecPersistCompleted(o) ==
    /\ At(o, "answered")
    /\ NewStatus(task[o].reply) = COMPLETED
    /\ IsProcessing(o)
    /\ Answered(o, COMPLETED)
    /\ Finish(o)
    /\ UNCHANGED <<held, remote>>

\* Somebody else resolved the order while the provider was being called.
ExecTooLate(o) ==
    /\ At(o, "answered")
    /\ IF NewStatus(task[o].reply) = COMPLETED
       THEN ~IsProcessing(o) ELSE ~OwnsClaim(o)
    /\ Finish(o)
    /\ UNCHANGED <<order, held, remote>>

\* The crash guard around the whole function, whose clean-up may fail as well.
ExecFatal(o) ==
    /\ "db_error" \in Faults
    /\ task[o].pc \in {"scheduled", "loaded", "answered"}
    /\ \/ IsProcessing(o) /\ order' = [order EXCEPT ![o].status = MANUAL_REVIEW]
       \/ UNCHANGED order
    /\ Finish(o)
    /\ UNCHANGED <<held, remote>>

ExecStep(o) ==
    \/ ExecLoad(o)
    \/ ExecResolveFails(o)
    \/ ExecClaim(o)
    \/ ProviderAccepts(o)
    \/ ProviderRefuses(o)
    \/ ExecAccepted(o)
    \/ ExecRejected(o)
    \/ ExecThrown(o)
    \/ ExecPersistFailure(o)
    \/ ExecPersistPending(o)
    \/ ExecPersistPartial(o)
    \/ ExecPersistCompleted(o)
    \/ ExecTooLate(o)
    \/ ExecFatal(o)

-----------------------------------------------------------------------------
(* processOrderStatusResult: a terminal report wins the order only by a    *)
(* compare-and-swap out of PROCESSING; retryCount comes from the document  *)
(* that was read before the provider was asked.                            *)

ApplyPending(p) ==
    LET o == task[p].o
        newRetry == task[p].doc.retryCount + 1
    IN
    /\ At(p, "apply")
    /\ ~isTerminal(task[p].reply.status)
    /\ IsProcessing(o)
    /\ order' = [order EXCEPT
                    ![o].status = IF newRetry >= MaxRetry THEN MANUAL_REVIEW ELSE @,
                    ![o].providerStatus = task[p].reply.status,
                    ![o].retryCount = newRetry]
    /\ Finish(p)
    /\ UNCHANGED <<held, remote>>

\* Mutant: the outcome of the compare-and-swap is not looked at.
ApplyFinalUnchecked(p, status, next) ==
    LET o == task[p].o IN
    /\ At(p, "apply")
    /\ IF IsProcessing(o)
       THEN order' = [order EXCEPT ![o].status = status,
                                   ![o].providerStatus = task[p].reply.status]
       ELSE UNCHANGED order
    /\ next
    /\ UNCHANGED <<held, remote>>

\* Move the order to its final status and go on to `next`, or give up.
ApplyFinal(p, status, next) ==
    LET o == task[p].o IN
    /\ At(p, "apply")
    /\ IF IsProcessing(o)
       THEN /\ order' = [order EXCEPT ![o].status = status,
                                      ![o].providerStatus = task[p].reply.status]
            /\ next
       ELSE /\ Finish(p)
            /\ UNCHANGED order
    /\ UNCHANGED <<held, remote>>

ApplyCompleted(p) ==
    /\ isTerminal(task[p].reply.status)
    /\ ~requiresRefund(task[p].reply.status)
    /\ ApplyFinal(p, COMPLETED, Finish(p))

Refunding(p, internal) ==
    /\ isTerminal(task[p].reply.status)
    /\ requiresRefund(task[p].reply.status)
    /\ toInternalStatus(task[p].reply.status) = internal

ApplyPartial(p) ==
    /\ Refunding(p, PARTIAL)
    /\ ApplyFinal(p, PARTIAL, Goto(p, "refundTxn"))

\* processOrderRefund(order, 0): a full refund.
ApplyCanceled(p) ==
    /\ Refunding(p, CANCELED)
    /\ ApplyFinal(p, CANCELED,
                  task' = [task EXCEPT ![p].pc = "refundTxn",
                                       ![p].reply = [@ EXCEPT !.remains = 0]])

\* Mutant: the failed branch forgets the refund.
ApplyFailedNoRefund(p) ==
    /\ isTerminal(task[p].reply.status)
    /\ requiresRefund(task[p].reply.status)
    /\ toInternalStatus(task[p].reply.status) \notin {PARTIAL, CANCELED}
    /\ ApplyFinal(p, FAILED, Finish(p))

ApplyFailed(p) ==
    /\ isTerminal(task[p].reply.status)
    /\ requiresRefund(task[p].reply.status)
    /\ toInternalStatus(task[p].reply.status) \notin {PARTIAL, CANCELED}
    /\ ApplyFinal(p, FAILED, Goto(p, "refundFlag"))

\* A report that the order is still being worked on, for an order that is not.
ApplySkipped(p) ==
    /\ At(p, "apply")
    /\ ~isTerminal(task[p].reply.status)
    /\ ~IsProcessing(task[p].o)
    /\ Finish(p)
    /\ UNCHANGED <<order, held, remote>>

ApplyStep(p) ==
    \/ ApplyPending(p)
    \/ ApplyCompleted(p)
    \/ ApplyPartial(p)
    \/ ApplyCanceled(p)
    \/ ApplyFailed(p)
    \/ ApplySkipped(p)

-----------------------------------------------------------------------------
(* The cron: pollProcessingOrders and recoverUncertainPlacement.  A run    *)
(* works on the documents its first query returned.                        *)

\* Mutant: the query asks for a provider id only.
PollableById(o) ==
    /\ IsProcessing(o)
    /\ o \notin ManualOrders
    /\ order[o].providerOrderId # NoId

Pollable(o) ==
    /\ IsProcessing(o)
    /\ o \notin ManualOrders
    /\ \/ order[o].providerOrderId # NoId
       \/ order[o].providerStatus = UNCERTAIN

PollStepFor(doc) ==
    IF doc.retryCount >= MaxRetry THEN "exhausted"
    ELSE IF doc.providerOrderId = NoId THEN "lookup" ELSE "check"

PollFetch(w, o) ==
    /\ At(w, "idle")
    /\ Pollable(o)
    /\ task' = [task EXCEPT ![w] =
                  [pc |-> PollStepFor(order[o]), o |-> o,
                   doc |-> order[o], reply |-> NoReply]]
    /\ UNCHANGED <<order, held, remote>>

\* The kill-switch for orders checked too often.
PollExhausted(w) ==
    LET o == task[w].o IN
    /\ At(w, "exhausted")
    /\ IF IsProcessing(o) /\ order[o].retryCount >= MaxRetry
       THEN order' = [order EXCEPT ![o].status = MANUAL_REVIEW]
       ELSE UNCHANGED order
    /\ Finish(w)
    /\ UNCHANGED <<held, remote>>

\* The lookup by reference is not offered, fails, or does not find the order.
RecoverDefer(w) ==
    LET o == task[w].o
        newRetry == task[w].doc.retryCount + 1
    IN
    /\ At(w, "lookup")
    /\ IF OwnsClaim(o)
       THEN order' = [order EXCEPT
                        ![o].status = IF newRetry >= MaxRetry
                                      THEN MANUAL_REVIEW ELSE @,
                        ![o].retryCount = newRetry]
       ELSE UNCHANGED order
    /\ Finish(w)
    /\ UNCHANGED <<held, remote>>

RecoverFound(w) ==
    /\ At(w, "lookup")
    /\ \E k \in 1 .. Len(remote[task[w].o]) :
          \E reply \in Report(task[w].o, k) :
             task' = [task EXCEPT ![w].pc = "recover", ![w].reply = reply]
    /\ UNCHANGED <<order, held, remote>>

RecoverSave(w) ==
    LET o == task[w].o IN
    /\ At(w, "recover")
    /\ IF OwnsClaim(o)
       THEN /\ order' = [order EXCEPT
                            ![o].providerOrderId = task[w].reply.id,
                            ![o].providerStatus = task[w].reply.status]
            /\ task' = [task EXCEPT ![w].pc = "apply",
                                    ![w].doc = order'[o]]
       ELSE /\ Finish(w)
            /\ UNCHANGED order
    /\ UNCHANGED <<held, remote>>

\* checkOrders answers for the order ...
PollAnswered(w) ==
    LET o == task[w].o
        k == task[w].doc.providerOrderId
    IN
    /\ At(w, "check")
    /\ k \in 1 .. Len(remote[o])
    /\ \E reply \in Report(o, k) :
          task' = [task EXCEPT ![w].pc = "apply", ![w].reply = reply]
    /\ UNCHANGED <<order, held, remote>>

\* ... or the provider is inactive, the batch fails, the order is left out.
PollSkipped(w) ==
    /\ At(w, "check")
    /\ "offline" \in Faults
    /\ Finish(w)
    /\ UNCHANGED <<order, held, remote>>

PollStep(w) ==
    \/ PollExhausted(w)
    \/ RecoverDefer(w)
    \/ RecoverFound(w)
    \/ RecoverSave(w)
    \/ PollAnswered(w)
    \/ PollSkipped(w)

-----------------------------------------------------------------------------

EngineTask(p) == ApplyStep(p) \/ RefundNext(p)

Next ==
    \/ \E o \in Orders : ExecStep(o)
    \/ \E o \in Orders : \E k \in DOMAIN remote[o] : ProviderProgress(o, k)
    \/ \E w \in Workers, o \in Orders : PollFetch(w, o)
    \/ \E w \in Workers : PollStep(w)
    \/ \E p \in Procs : EngineTask(p)
    \/ \E p \in Procs : Crash(p)

Spec == Init /\ [][Next]_vars

\* A scheduled continuation runs, and every cron run visits every order its
\* query returns; nothing is assumed of the provider.
Fairness ==
    /\ \A o \in Orders : WF_vars(ExecStep(o))
    /\ \A w \in Workers, o \in Orders : SF_vars(PollFetch(w, o))
    /\ \A w \in Workers : WF_vars(PollStep(w))
    /\ \A p \in Procs : WF_vars(EngineTask(p))

FairSpec == Spec /\ Fairness

-----------------------------------------------------------------------------
(* Properties.                                                             *)

\* The type invariant: every document the engine writes fits the schema of
\* order.model.js, and every process is at a step it knows.
TypeOK ==
    /\ order \in [Orders -> OrderDoc]
    /\ held \in [Orders -> Int]
    /\ task \in [Procs -> Task]
    /\ remote \in [Orders -> Seq(Placement)]

\* The states that admit a refund.
Undelivered == {FAILED, CANCELED, PARTIAL}

\* An order is closed as what its provider reported, whatever raced to close it:
\* the word on record means the status it stands beside.  The engine takes
\* "terminal and no refund" for COMPLETED, so an alias missing from the second of
\* the two hand-kept lists of statusMapper.js would break this.
ClosedAsReported ==
    \A o \in Orders :
        order[o].status \in {COMPLETED, PARTIAL, CANCELED} =>
            toInternalStatus(order[o].providerStatus) = order[o].status

\* Money leaves the platform only for an order that was closed as failed,
\* canceled or partial: never beside COMPLETED, never while the placement is
\* undecided, never for an order parked in MANUAL_REVIEW.
RefundOnlyAfterFailure ==
    \A o \in Orders : held[o] < Amount(o) => order[o].status \in Undelivered

\* What the user has received of placement p, in money.
Delivered(o, p) ==
    CASE toInternalStatus(p.status) = COMPLETED -> Amount(o)
      [] toInternalStatus(p.status) = PARTIAL   ->
            Amount(o) - (p.remains * Amount(o)) \div Quantity
      [] OTHER                                  -> 0

\* The user never keeps goods that were paid back: whatever the provider has
\* delivered for an order is still paid for, however late its answers arrive.
NoFreeGoods ==
    \A o \in Orders : \A k \in DOMAIN remote[o] :
        held[o] >= Delivered(o, remote[o][k])

\* Whatever was paid back is on record: as long as money is out, the flag
\* `refunded` that bars a second refund is set, also between the two operations
\* of a refund, after a crash there, and while an aborted refund is undone.
PaidBackIsFlagged ==
    \A o \in Orders : held[o] < Amount(o) => order[o].refunded

\* The engine implements the promise of Settlement: an order is closed once and
\* stays closed, and is paid back at most once, after it was closed as
\* undelivered.
Promise ==
    INSTANCE Settlement WITH
        Price <- [o \in Orders |-> Amount(o)],
        outcome <- [o \in Orders |->
                      CASE order[o].status \in {PENDING, PROCESSING} -> "open"
                        [] order[o].status \in Undelivered -> "owed"
                        [] OTHER -> "kept"]

ImplementsSettlement == Promise!Spec

\* No automatic order stays in PROCESSING for ever.
Settles ==
    \A o \in Orders : (order[o].status = PROCESSING)
                        ~> (order[o].status # PROCESSING)

\* The user of an order that failed or was canceled gets everything back.
RefundArrives ==
    \A o \in Orders : (order[o].status \in {FAILED, CANCELED}) ~> (held[o] = 0)
=============================================================================
