------------------------- MODULE FulfillmentProofs --------------------------
(***************************************************************************)
(* What holds of the fulfilment engine for every set of orders, workers    *)
(* and faults.                                                             *)
(***************************************************************************)
EXTENDS Fulfillment, TLAPS

(* Every alias the engine writes by itself is a known one.                 *)
LEMMA OwnAliases == /\ UNCERTAIN \in KnownAliases
                    /\ "cancelled" \in KnownAliases
                    /\ UNCERTAIN # NoStatus
  BY DEF KnownAliases, WorkingAliases, CanceledAliases, UNCERTAIN, NoStatus

(* A raw status always has an internal meaning, never PENDING or           *)
(* MANUAL_REVIEW.                                                          *)
LEMMA InternalStatusType ==
  ASSUME NEW s
  PROVE  toInternalStatus(s) \in {COMPLETED, PARTIAL, CANCELED, FAILED, PROCESSING}
  BY DEF toInternalStatus

(* A process that has something to do has an order to do it for, and the   *)
(* executor of an order works on that order.                               *)
TaskOK ==
    \A p \in Procs :
        /\ task[p].pc # "idle" => task[p].o \in Orders
        /\ task[p].pc \in ExecSteps => task[p].o = p

(* A refund is only ever under way for an order already closed as          *)
(* undelivered: the compare-and-swap out of PROCESSING comes first.        *)
RefundersHaveClosed ==
    \A p \in Procs :
        task[p].pc \in RefundSteps => order[task[p].o].status \in Undelivered

(* An executor that waits for the provider's answer has a placement there. *)
SentWasPlaced ==
    \A p \in Procs :
        task[p].pc = "sent" => task[p].reply.id \in DOMAIN remote[task[p].o]

IInv ==
    /\ TypeOK
    /\ TaskOK
    /\ RefundersHaveClosed
    /\ SentWasPlaced
    /\ RefundOnlyAfterFailure

USE DEF At, Goto, Finish, IsProcessing

LEMMA NoTaskType == NoTask \in Task /\ NoReply \in Reply /\ NoDoc \in OrderDoc
  BY DEF NoTask, Task, NoReply, Reply, NoDoc, OrderDoc, Steps, NoId, NoStatus,
         OrderStatus, PENDING

LEMMA InitInv == Init => IInv
<1> SUFFICES ASSUME Init PROVE IInv
  OBVIOUS
<1>1. TypeOK
  <2>1. \A o \in Orders : NewOrder(o) \in OrderDoc
    BY NoTaskType DEF NewOrder, NoDoc, OrderDoc, OrderStatus, PENDING, PROCESSING
  <2>2. \A o \in Orders : Amount(o) \in Int
    BY AmountAssumption DEF Amount
  <2>3. \A o \in Orders : Scheduled(o) \in Task
    BY NoTaskType DEF Scheduled, NoTask, Task, Steps, ExecSteps
  <2>4. <<>> \in Seq(Placement)
    OBVIOUS
  <2> QED
    BY <2>1, <2>2, <2>3, <2>4, NoTaskType DEF Init, TypeOK, Procs
<1>2. TaskOK /\ RefundersHaveClosed /\ SentWasPlaced
  BY DEF Init, TaskOK, RefundersHaveClosed, SentWasPlaced, Procs, Scheduled, NoTask, ExecSteps,
         RefundSteps
<1>3. RefundOnlyAfterFailure
  BY AmountAssumption DEF Init, RefundOnlyAfterFailure, Amount
<1> QED
  BY <1>1, <1>2, <1>3 DEF IInv


-----------------------------------------------------------------------------
(* Sets of names.                                                          *)

LEMMA StatusFacts ==
  /\ {PROCESSING, COMPLETED, CANCELED, PARTIAL, FAILED, MANUAL_REVIEW} \subseteq OrderStatus
  /\ Undelivered = {FAILED, CANCELED, PARTIAL}
  /\ PROCESSING \notin Undelivered
  BY DEF OrderStatus, Undelivered, PENDING, PROCESSING, COMPLETED, CANCELED, PARTIAL,
         FAILED, MANUAL_REVIEW

LEMMA StepFacts ==
  /\ {"idle", "apply"} \subseteq Steps
  /\ ExecSteps \subseteq Steps /\ RefundSteps \subseteq Steps /\ PollSteps \subseteq Steps
  /\ \A s \in ExecSteps : s \notin RefundSteps \cup PollSteps \cup {"idle", "apply"}
  /\ \A s \in RefundSteps : s \notin PollSteps \cup {"idle", "apply"}
  /\ \A s \in PollSteps : s \notin {"idle", "apply"}
  /\ "sent" \in ExecSteps
  BY DEF Steps, ExecSteps, RefundSteps, PollSteps, AdminSteps

-----------------------------------------------------------------------------
(* What a step has to respect.                                             *)

(* Writes to the shared state that cannot hurt the invariant: an order     *)
(* changes status only out of PROCESSING, and money moves only for an      *)
(* order that is closed as undelivered.                                    *)
SafeWrite ==
    /\ order' \in [Orders -> OrderDoc]
    /\ held' \in [Orders -> Int]
    /\ remote' \in [Orders -> Seq(Placement)]
    /\ \A o \in Orders : DOMAIN remote[o] \subseteq DOMAIN remote'[o]
    /\ \A o \in Orders : order'[o].status = order[o].status \/ IsProcessing(o)
    /\ \A o \in Orders : held'[o] = held[o] \/ order'[o].status \in Undelivered

(* Only process p moves, and it moves to a step it may be at.              *)
SafeMove(p) ==
    /\ task' \in [Procs -> Task]
    /\ \A q \in Procs : q # p => task'[q] = task[q]
    /\ task'[p].pc # "idle" => task'[p].o \in Orders
    /\ task'[p].pc \in ExecSteps => task'[p].o = p
    /\ task'[p].pc \in RefundSteps => order'[task'[p].o].status \in Undelivered
    /\ task'[p].pc = "sent" => task'[p].reply.id \in DOMAIN remote'[task'[p].o]

LEMMA Frame ==
  ASSUME IInv, SafeWrite, NEW p \in Procs, SafeMove(p)
  PROVE  IInv'
<1> USE DEF IInv
<1>1. TypeOK'
  BY DEF SafeWrite, SafeMove, TypeOK
<1>2. TaskOK'
  BY DEF SafeMove, TaskOK
<1>3. \A o \in Orders : order[o].status \in Undelivered => order'[o].status \in Undelivered
  BY StatusFacts DEF SafeWrite
<1>4. RefundersHaveClosed'
  <2> SUFFICES ASSUME NEW q \in Procs, task'[q].pc \in RefundSteps
               PROVE  order'[task'[q].o].status \in Undelivered
    BY DEF RefundersHaveClosed
  <2>1. CASE q = p
    BY <2>1 DEF SafeMove
  <2>2. CASE q # p
    <3>1. task[q].pc \in RefundSteps /\ task'[q].o = task[q].o
      BY <2>2 DEF SafeMove
    <3>2. task[q].o \in Orders
      BY <3>1, StepFacts DEF TaskOK
    <3> QED
      BY <3>1, <3>2, <1>3 DEF RefundersHaveClosed
  <2> QED
    BY <2>1, <2>2
<1>5. RefundOnlyAfterFailure'
  BY <1>3 DEF RefundOnlyAfterFailure, SafeWrite, Amount
<1>6. SentWasPlaced'
  <2> SUFFICES ASSUME NEW q \in Procs, task'[q].pc = "sent"
               PROVE  task'[q].reply.id \in DOMAIN remote'[task'[q].o]
    BY DEF SentWasPlaced
  <2>1. CASE q = p
    BY <2>1 DEF SafeMove
  <2>2. CASE q # p
    BY <2>2, StepFacts DEF SafeMove, SafeWrite, SentWasPlaced, TaskOK
  <2> QED
    BY <2>1, <2>2
<1> QED
  BY <1>1, <1>2, <1>4, <1>5, <1>6

(* The ways in which a process moves.                                      *)
LEMMA GotoTask ==
  ASSUME task \in [Procs -> Task], NEW p \in Procs, NEW pc \in Steps, Goto(p, pc)
  PROVE  /\ task' \in [Procs -> Task]
         /\ task'[p].pc = pc
         /\ task'[p].o = task[p].o
         /\ \A q \in Procs : q # p => task'[q] = task[q]
<1> DEFINE t == [task[p] EXCEPT !.pc = pc]
<1>1. t \in Task /\ t.pc = pc /\ t.o = task[p].o
  <2>1. task[p] \in Task
    OBVIOUS
  <2> QED
    BY <2>1 DEF Task
<1>2. task' = [task EXCEPT ![p] = t]
  OBVIOUS
<1> HIDE DEF t
<1> QED
  BY <1>1, <1>2

LEMMA FinishMove ==
  ASSUME IInv, NEW p \in Procs, Finish(p)
  PROVE  SafeMove(p)
<1>1. /\ task' \in [Procs -> Task]
      /\ task'[p] = NoTask
      /\ \A q \in Procs : q # p => task'[q] = task[q]
  BY NoTaskType DEF IInv, TypeOK
<1>2. NoTask.pc = "idle"
  BY DEF NoTask
<1> QED
  BY <1>1, <1>2, StepFacts DEF SafeMove

LEMMA FinishInv ==
  ASSUME IInv, SafeWrite, NEW p \in Procs, Finish(p)
  PROVE  IInv'
  BY FinishMove, Frame

LEMMA GotoInv ==
  ASSUME IInv, SafeWrite, NEW p \in Procs, NEW pc \in Steps, Goto(p, pc),
         task[p].o \in Orders,
         pc \in ExecSteps => task[p].o = p,
         pc \in RefundSteps => order'[task[p].o].status \in Undelivered,
         pc # "sent"
  PROVE  IInv'
<1>1. SafeMove(p)
  BY GotoTask DEF SafeMove, IInv, TypeOK
<1> QED
  BY <1>1, Frame

(* The ways in which the shared state is written.                          *)
LEMMA NoWrite ==
  ASSUME IInv, UNCHANGED <<order, held, remote>>
  PROVE  SafeWrite
  BY DEF IInv, TypeOK, SafeWrite

LEMMA DocWrite ==
  ASSUME IInv, NEW o \in Orders, NEW d \in OrderDoc,
         d.status = order[o].status \/ IsProcessing(o),
         order' = [order EXCEPT ![o] = d],
         UNCHANGED <<held, remote>>
  PROVE  SafeWrite /\ order'[o].status = d.status
  BY DEF IInv, TypeOK, SafeWrite

LEMMA HeldWrite ==
  ASSUME IInv, NEW o \in Orders, NEW x \in Int,
         order[o].status \in Undelivered,
         held' = [held EXCEPT ![o] = x],
         UNCHANGED <<order, remote>>
  PROVE  SafeWrite
  BY DEF IInv, TypeOK, SafeWrite

LEMMA MoveInv ==
  ASSUME IInv, SafeWrite, NEW p \in Procs, NEW t \in Task,
         task' = [task EXCEPT ![p] = t],
         t.o \in Orders,
         t.pc \in ExecSteps => t.o = p,
         t.pc \in RefundSteps => order'[t.o].status \in Undelivered,
         t.pc = "sent" => t.reply.id \in DOMAIN remote'[t.o]
  PROVE  IInv'
<1>1. /\ task' \in [Procs -> Task]
      /\ task'[p] = t
      /\ \A q \in Procs : q # p => task'[q] = task[q]
  BY DEF IInv, TypeOK
<1>2. SafeMove(p)
  BY <1>1 DEF SafeMove
<1> QED
  BY <1>2, Frame

(* What a busy process may rely on.                                        *)
LEMMA Busy ==
  ASSUME IInv, NEW p \in Procs, task[p].pc # "idle"
  PROVE  /\ task[p] \in Task
         /\ task[p].o \in Orders
         /\ task[p].doc \in OrderDoc
         /\ task[p].reply \in Reply
         /\ order[task[p].o] \in OrderDoc
         /\ held[task[p].o] \in Int
         /\ remote[task[p].o] \in Seq(Placement)
         /\ task[p].pc \in ExecSteps => task[p].o = p
         /\ task[p].pc \in RefundSteps => order[task[p].o].status \in Undelivered
         /\ task[p].pc = "sent" => task[p].reply.id \in DOMAIN remote[task[p].o]
<1>1. task[p] \in Task /\ task[p].o \in Orders
  BY DEF IInv, TypeOK, TaskOK
<1>2. task[p].doc \in OrderDoc /\ task[p].reply \in Reply
  BY <1>1 DEF Task
<1> QED
  BY <1>1, <1>2 DEF IInv, TypeOK, TaskOK, RefundersHaveClosed, SentWasPlaced

LEMMA ProcTypes == Orders \subseteq Procs /\ Workers \subseteq Procs /\ Admins \subseteq Procs
  BY DEF Procs

LEMMA ShareType ==
  ASSUME NEW o \in Orders, NEW r \in Nat
  PROVE  RefundShare(o, r) \in Int /\ Amount(o) \in Int
<1>1. Amount(o) \in Nat
  BY AmountAssumption DEF Amount
<1>2. r * Amount(o) \in Nat
  BY <1>1
<1>3. (r * Amount(o)) \div Quantity \in Int
  BY <1>2, AmountAssumption
<1> QED
  BY <1>1, <1>3 DEF RefundShare

-----------------------------------------------------------------------------
(* The refunds.                                                            *)

LEMMA RefundInv ==
  ASSUME IInv, NEW p \in Procs, RefundNext(p)
  PROVE  IInv'
<1> DEFINE o == task[p].o
           flagged == [order[o] EXCEPT !.refunded = TRUE]
           cleared == [order[o] EXCEPT !.refunded = FALSE]
<1>1. task[p].pc \in RefundSteps /\ task[p].pc # "idle"
  BY DEF RefundNext, RefundFlag, RefundAlreadyFlagged, RefundCredit,
         RefundNothingOrAbort, RefundCommitUnknown, RefundUndo, OrderRefundCommit,
         OrderRefundReject, RefundSteps
<1>2. /\ o \in Orders /\ order[o] \in OrderDoc
      /\ order[o].status \in Undelivered
      /\ held[o] \in Int /\ task[p].reply \in Reply
  BY <1>1, Busy
<1>3. /\ flagged \in OrderDoc /\ flagged.status = order[o].status
      /\ cleared \in OrderDoc /\ cleared.status = order[o].status
  BY <1>2 DEF OrderDoc
<1>4. {"refundCredit", "refundUndo"} \subseteq (Steps \cap RefundSteps) \ {"sent"}
  BY DEF Steps, RefundSteps
<1>5. Amount(o) \in Int /\ RefundShare(o, task[p].reply.remains) \in Int
  BY <1>2, ShareType DEF Reply
<1>6. \A s \in ExecSteps : s \notin RefundSteps
  BY StepFacts
<1>a. CASE RefundFlag(p)
  <2>1. order' = [order EXCEPT ![o] = flagged] /\ UNCHANGED <<held, remote>>
    BY <1>a DEF RefundFlag
  <2>2. SafeWrite /\ order'[o].status \in Undelivered
    <3> HIDE DEF o, flagged
    <3> QED  BY <2>1, <1>2, <1>3, DocWrite
  <2> QED
    BY <1>a, <2>2, <1>2, <1>4, <1>6, GotoInv DEF RefundFlag
<1>b. CASE RefundAlreadyFlagged(p)
  BY <1>b, NoWrite, FinishInv DEF RefundAlreadyFlagged
<1>c. CASE RefundCredit(p)
  <2>1. /\ held' = [held EXCEPT ![o] = held[o] - Amount(o)]
        /\ UNCHANGED <<order, remote>>
    BY <1>c DEF RefundCredit
  <2>2. SafeWrite
    <3>1. held[o] - Amount(o) \in Int
      BY <1>2, <1>5
    <3> HIDE DEF o
    <3> QED  BY <2>1, <1>2, <3>1, HeldWrite
  <2> QED
    BY <1>c, <2>2, FinishInv DEF RefundCredit
<1>d. CASE RefundNothingOrAbort(p)
  <2>1. SafeWrite /\ UNCHANGED order /\ Goto(p, "refundUndo")
    BY <1>d, NoWrite DEF RefundNothingOrAbort
  <2> QED
    BY <2>1, <1>2, <1>4, <1>6, GotoInv
<1>e. CASE RefundCommitUnknown(p)
  <2>1. /\ held' = [held EXCEPT ![o] = held[o] - Amount(o)]
        /\ UNCHANGED <<order, remote>>
        /\ Goto(p, "refundUndo")
    BY <1>e DEF RefundCommitUnknown
  <2>2. SafeWrite
    <3>1. held[o] - Amount(o) \in Int
      BY <1>2, <1>5
    <3> HIDE DEF o
    <3> QED  BY <2>1, <1>2, <3>1, HeldWrite
  <2> QED
    BY <2>1, <2>2, <1>2, <1>4, <1>6, GotoInv
<1>f. CASE RefundUndo(p)
  <2>1. order' = [order EXCEPT ![o] = cleared] /\ UNCHANGED <<held, remote>>
    BY <1>f DEF RefundUndo
  <2>2. SafeWrite
    <3> HIDE DEF o, cleared
    <3> QED  BY <2>1, <1>2, <1>3, DocWrite
  <2> QED
    BY <1>f, <2>2, FinishInv DEF RefundUndo
<1>g. CASE OrderRefundCommit(p)
  <2> DEFINE x == held[o] - RefundShare(o, task[p].reply.remains)
  <2>1. /\ order' = [order EXCEPT ![o] = flagged]
        /\ held' = [held EXCEPT ![o] = x]
        /\ UNCHANGED remote
    BY <1>g DEF OrderRefundCommit
  <2>2. x \in Int
    BY <1>2, <1>5
  <2>3. SafeWrite
    <3> HIDE DEF o, flagged, x
    <3> QED  BY <2>1, <2>2, <1>2, <1>3 DEF SafeWrite, IInv, TypeOK
  <2> QED
    BY <1>g, <2>3, FinishInv DEF OrderRefundCommit
<1>h. CASE OrderRefundReject(p)
  BY <1>h, NoWrite, FinishInv DEF OrderRefundReject
<1> QED
  BY <1>a, <1>b, <1>c, <1>d, <1>e, <1>f, <1>g, <1>h DEF RefundNext

LEMMA CrashInv ==
  ASSUME IInv, NEW p \in Procs, Crash(p)
  PROVE  IInv'
  BY NoWrite, FinishInv DEF Crash

-----------------------------------------------------------------------------
(* The provider's answers.                                                 *)

LEMMA PlacementType ==
  ASSUME NEW s \in Replies, NEW r \in 1 .. Quantity
  PROVE  PlacementIn(s, r) \in Placement
  BY RepliesAssumption, AmountAssumption DEF PlacementIn, Placement

LEMMA ReportType ==
  ASSUME IInv, NEW o \in Orders, NEW k \in DOMAIN remote[o],
         NEW reply \in Report(o, k)
  PROVE  reply \in Reply
<1>1. remote[o] \in Seq(Placement)
  BY DEF IInv, TypeOK
<1>2. remote[o][k] \in Placement
  BY <1>1
<1>3. k \in Nat /\ remote[o][k].remains \in Nat /\ remote[o][k].status \in KnownAliases
  BY <1>1, <1>2 DEF Placement
<1>4. PICK r \in {remote[o][k].remains, 0} :
        reply = [success |-> TRUE, status |-> remote[o][k].status, id |-> k, remains |-> r]
  BY DEF Report
<1> QED
  BY <1>3, <1>4 DEF Reply

LEMMA AnswerTypes == Rejection \in Reply /\ Unknown \in Reply
  BY OwnAliases, NoTaskType DEF Rejection, Unknown, NoReply, Reply, NoId

LEMMA NewStatusType ==
  ASSUME NEW reply
  PROVE  NewStatus(reply) \in OrderStatus
  BY InternalStatusType, StatusFacts DEF NewStatus

(* A placement is added or moves on: nobody's task is touched.             *)
LEMMA RemoteInv ==
  ASSUME IInv, remote' \in [Orders -> Seq(Placement)],
         \A o \in Orders : DOMAIN remote[o] \subseteq DOMAIN remote'[o],
         UNCHANGED <<order, held, task>>
  PROVE  IInv'
<1> USE DEF IInv
<1>1. TypeOK' /\ TaskOK' /\ RefundersHaveClosed' /\ RefundOnlyAfterFailure'
  BY DEF TypeOK, TaskOK, RefundersHaveClosed, RefundOnlyAfterFailure, Amount
<1>2. SentWasPlaced'
  BY StepFacts DEF SentWasPlaced, TaskOK
<1> QED
  BY <1>1, <1>2

LEMMA ProviderInv ==
  ASSUME IInv, NEW o \in Orders, NEW k \in DOMAIN remote[o], ProviderProgress(o, k)
  PROVE  IInv'
<1>1. PICK s \in Replies, r \in 1 .. Quantity :
        remote' = [remote EXCEPT ![o][k] = PlacementIn(s, r)]
  BY DEF ProviderProgress
<1>2. PlacementIn(s, r) \in Placement
  BY PlacementType
<1>3. remote \in [Orders -> Seq(Placement)]
  BY DEF IInv, TypeOK
<1> DEFINE n == [remote[o] EXCEPT ![k] = PlacementIn(s, r)]
<1>4. n \in Seq(Placement) /\ DOMAIN n = DOMAIN remote[o]
  <2>1. remote[o] \in Seq(Placement)
    BY <1>3
  <2> QED
    BY <1>2, <2>1
<1>5. remote' = [remote EXCEPT ![o] = n]
  BY <1>1
<1> HIDE DEF n
<1>6. /\ remote' \in [Orders -> Seq(Placement)]
      /\ \A q \in Orders : DOMAIN remote[q] \subseteq DOMAIN remote'[q]
  BY <1>3, <1>4, <1>5
<1> QED
  BY <1>6, RemoteInv DEF ProviderProgress

-----------------------------------------------------------------------------
(* executeOrder.                                                           *)

(* The answer is written over an order that is still PROCESSING.           *)
LEMMA AnsweredWrite ==
  ASSUME IInv, NEW o \in Orders, At(o, "answered"), IsProcessing(o),
         NEW status \in OrderStatus, Answered(o, status),
         UNCHANGED <<held, remote>>
  PROVE  SafeWrite /\ order'[o].status = status /\ order'[o] \in OrderDoc
<1> DEFINE d == [order[o] EXCEPT !.status = status,
                                 !.providerOrderId = task[o].reply.id,
                                 !.providerStatus = task[o].reply.status]
<1>1. order[o] \in OrderDoc
  BY DEF IInv, TypeOK
<1>2. task[o].reply \in Reply
  BY Busy, ProcTypes
<1>3. d \in OrderDoc /\ d.status = status
  <2>1. task[o].reply.id \in Nat /\ task[o].reply.status \in KnownAliases \cup {NoStatus}
    BY <1>2 DEF Reply
  <2> QED
    BY <1>1, <2>1 DEF OrderDoc
<1>4. order' = [order EXCEPT ![o] = d]
  BY DEF Answered
<1> HIDE DEF d
<1>5. order'[o] = d
  BY <1>4 DEF IInv, TypeOK
<1> QED
  BY <1>3, <1>4, <1>5, DocWrite

(* Only the executor itself learns the answer.                             *)
LEMMA ExecAnsweredInv ==
  ASSUME IInv, NEW o \in Orders, At(o, "sent") \/ At(o, "refused"),
         NEW reply \in Reply, ExecAnswered(o, reply)
  PROVE  IInv'
<1> DEFINE t == [task[o] EXCEPT !.pc = "answered", !.reply = reply]
<1>1. "answered" \in Steps /\ "answered" \in ExecSteps /\ "answered" \notin RefundSteps
      /\ {"sent", "refused"} \subseteq ExecSteps /\ "answered" # "sent"
  BY DEF Steps, ExecSteps, RefundSteps
<1>2. task[o] \in Task /\ task[o].o \in Orders /\ task[o].o = o /\ o \in Procs
  BY <1>1, Busy, ProcTypes
<1>3. t \in Task /\ t.o = o /\ t.pc = "answered"
  BY <1>1, <1>2 DEF Task
<1>4. task' = [task EXCEPT ![o] = t] /\ UNCHANGED <<order, held, remote>>
  BY DEF ExecAnswered
<1> HIDE DEF t
<1> QED
  BY <1>1, <1>2, <1>3, <1>4, NoWrite, MoveInv

LEMMA ProviderAcceptsInv ==
  ASSUME IInv, NEW o \in Orders, ProviderAccepts(o)
  PROVE  IInv'
<1>1. PICK s \in Replies, r \in 1 .. Quantity :
        remote' = [remote EXCEPT ![o] = Append(@, PlacementIn(s, r))]
  BY DEF ProviderAccepts
<1> DEFINE n == Append(remote[o], PlacementIn(s, r))
           t == [task[o] EXCEPT !.pc = "sent",
                                !.reply = [task[o].reply EXCEPT !.id = Len(remote[o]) + 1]]
<1>2. {"sent", "claimed"} \subseteq ExecSteps /\ "sent" \in Steps /\ "sent" \notin RefundSteps
  BY DEF Steps, ExecSteps, RefundSteps
<1>3. /\ task[o] \in Task /\ task[o].o = o /\ o \in Procs
      /\ task[o].reply \in Reply /\ remote[o] \in Seq(Placement)
  BY <1>2, Busy, ProcTypes DEF ProviderAccepts
<1>4. /\ remote' = [remote EXCEPT ![o] = n]
      /\ n \in Seq(Placement)
      /\ DOMAIN n = DOMAIN remote[o] \cup {Len(remote[o]) + 1}
  BY <1>1, <1>3, PlacementType
<1>5. t \in Task /\ t.pc = "sent" /\ t.o = o /\ t.reply.id = Len(remote[o]) + 1
  <2>1. Len(remote[o]) + 1 \in Nat
    BY <1>3
  <2>2. /\ [task[o].reply EXCEPT !.id = Len(remote[o]) + 1] \in Reply
        /\ [task[o].reply EXCEPT !.id = Len(remote[o]) + 1].id = Len(remote[o]) + 1
    BY <1>3, <2>1 DEF Reply
  <2> QED
    BY <1>2, <1>3, <2>2 DEF Task
<1>6. task' = [task EXCEPT ![o] = t] /\ UNCHANGED <<order, held>>
  BY DEF ProviderAccepts
<1> HIDE DEF n, t
<1>7. SafeWrite /\ remote'[o] = n
  BY <1>4, <1>6 DEF SafeWrite, IInv, TypeOK
<1>8. t.reply.id \in DOMAIN remote'[t.o]
  BY <1>4, <1>5, <1>7
<1> QED
  BY <1>2, <1>3, <1>5, <1>6, <1>7, <1>8, MoveInv

LEMMA ExecPersistPartialInv ==
  ASSUME IInv, NEW o \in Orders, ExecPersistPartial(o)
  PROVE  IInv'
<1> DEFINE t == [task[o] EXCEPT !.pc = "apply", !.doc = order'[o]]
<1>1. "apply" \in Steps /\ "apply" \notin ExecSteps \cup RefundSteps
      /\ "answered" \in ExecSteps /\ "apply" # "sent"
  BY DEF Steps, ExecSteps, RefundSteps
<1>2. task[o] \in Task /\ task[o].o = o /\ o \in Procs
  BY <1>1, Busy, ProcTypes DEF ExecPersistPartial
<1>3. SafeWrite /\ order'[o] \in OrderDoc
  BY AnsweredWrite, StatusFacts DEF ExecPersistPartial, OwnsClaim
<1>4. t \in Task /\ t.pc = "apply" /\ t.o = o
  BY <1>1, <1>2, <1>3 DEF Task
<1>5. task' = [task EXCEPT ![o] = t]
  BY DEF ExecPersistPartial
<1> HIDE DEF t
<1> QED
  BY <1>1, <1>2, <1>3, <1>4, <1>5, MoveInv

(* A status written over an order that is still PROCESSING.                *)
LEMMA StatusWrite ==
  ASSUME IInv, NEW o \in Orders, IsProcessing(o), NEW s \in OrderStatus,
         order' = [order EXCEPT ![o].status = s], UNCHANGED <<held, remote>>
  PROVE  SafeWrite /\ order'[o].status = s
<1> DEFINE d == [order[o] EXCEPT !.status = s]
<1>1. d \in OrderDoc /\ d.status = s
  BY DEF IInv, TypeOK, OrderDoc
<1>2. order' = [order EXCEPT ![o] = d]
  OBVIOUS
<1> HIDE DEF d
<1> QED
  BY <1>1, <1>2, DocWrite

LEMMA ExecInv ==
  ASSUME IInv, NEW o \in Orders, ExecStep(o)
  PROVE  IInv'
<1>1. o \in Procs
  BY ProcTypes
<1>2. /\ {"scheduled", "loaded", "claimed", "sent", "refused", "answered"} \subseteq ExecSteps
      /\ {"loaded", "claimed", "refused"} \subseteq Steps \ (RefundSteps \cup {"sent"})
      /\ "refundFlag" \in Steps \ ExecSteps /\ "refundFlag" # "sent"
  BY DEF ExecSteps, Steps, RefundSteps
<1>3. ASSUME task[o].pc \in ExecSteps
      PROVE  task[o].o = o /\ order[o] \in OrderDoc /\ o \in Orders
  BY <1>1, <1>3, Busy, StepFacts
<1>4. {FAILED, CANCELED} \subseteq Undelivered /\ {FAILED, CANCELED} \subseteq OrderStatus
  BY StatusFacts
<1>a. CASE ExecLoad(o)
  <2>1. SafeWrite /\ task[o].o = o
    BY <1>a, <1>2, <1>3, NoWrite DEF ExecLoad
  <2>2. CASE IsProcessing(o)
    BY <1>a, <2>1, <2>2, <1>1, <1>2, GotoInv DEF ExecLoad
  <2>3. CASE ~IsProcessing(o)
    BY <1>a, <2>1, <2>3, <1>1, FinishInv DEF ExecLoad
  <2> QED
    BY <2>2, <2>3
<1>b. CASE ExecResolveFails(o)
  <2>1. task[o].o = o
    BY <1>b, <1>2, <1>3 DEF ExecResolveFails
  <2>2. CASE Finish(o) /\ UNCHANGED order
    BY <1>b, <2>2, <1>1, NoWrite, FinishInv DEF ExecResolveFails
  <2>3. CASE /\ IsProcessing(o) /\ order' = [order EXCEPT ![o].status = FAILED]
             /\ Goto(o, "refundFlag")
    <3>1. SafeWrite /\ order'[o].status = FAILED
      BY <1>b, <2>3, <1>4, StatusFacts, StatusWrite DEF ExecResolveFails
    <3> QED
      BY <2>1, <2>3, <3>1, <1>1, <1>2, <1>4, GotoInv
  <2> QED
    BY <1>b, <2>2, <2>3 DEF ExecResolveFails
<1>c. CASE ExecClaim(o)
  <2>1. task[o].o = o /\ order[o] \in OrderDoc
    BY <1>c, <1>2, <1>3 DEF ExecClaim
  <2>2. CASE Finish(o) /\ UNCHANGED order
    BY <1>c, <2>2, <1>1, NoWrite, FinishInv DEF ExecClaim
  <2>3. CASE /\ order' = [order EXCEPT ![o].providerStatus = UNCERTAIN]
             /\ Goto(o, "claimed")
    <3> DEFINE d == [order[o] EXCEPT !.providerStatus = UNCERTAIN]
    <3>1. d \in OrderDoc /\ d.status = order[o].status
      BY <2>1, OwnAliases DEF OrderDoc
    <3>2. order' = [order EXCEPT ![o] = d] /\ UNCHANGED <<held, remote>>
      BY <1>c, <2>3 DEF ExecClaim
    <3> HIDE DEF d
    <3>3. SafeWrite
      BY <3>1, <3>2, DocWrite
    <3> QED
      BY <2>1, <2>3, <3>3, <1>1, <1>2, GotoInv
  <2> QED
    BY <1>c, <2>2, <2>3 DEF ExecClaim
<1>d. CASE ProviderAccepts(o)
  BY <1>d, ProviderAcceptsInv
<1>e. CASE ProviderRefuses(o)
  <2>1. task[o].o = o /\ SafeWrite
    BY <1>e, <1>2, <1>3, NoWrite DEF ProviderRefuses
  <2> QED
    BY <1>e, <2>1, <1>1, <1>2, GotoInv DEF ProviderRefuses
<1>f. CASE ExecAccepted(o)
  <2>1. PICK reply \in Report(o, task[o].reply.id) : ExecAnswered(o, reply)
    BY <1>f DEF ExecAccepted
  <2>2. task[o].o = o /\ task[o].reply.id \in DOMAIN remote[o]
    BY <1>f, <1>1, <1>2, Busy, StepFacts DEF ExecAccepted
  <2>3. reply \in Reply
    BY <2>1, <2>2, ReportType
  <2> QED
    BY <1>f, <2>1, <2>3, ExecAnsweredInv DEF ExecAccepted
<1>g. CASE ExecRejected(o)
  BY <1>g, AnswerTypes, ExecAnsweredInv DEF ExecRejected
<1>h. CASE ExecThrown(o)
  BY <1>h, AnswerTypes, ExecAnsweredInv DEF ExecThrown
<1>i. CASE ExecPersistFailure(o)
  <2> DEFINE s == NewStatus(task[o].reply)
  <2>1. s \in {FAILED, CANCELED} /\ task[o].o = o
    BY <1>i, <1>2, <1>3 DEF ExecPersistFailure
  <2>2. SafeWrite /\ order'[o].status = s
    BY <1>i, <2>1, <1>4, AnsweredWrite DEF ExecPersistFailure, OwnsClaim
  <2> QED
    BY <1>i, <2>1, <2>2, <1>1, <1>2, <1>4, GotoInv DEF ExecPersistFailure
<1>j. CASE ExecPersistPending(o)
  <2>1. SafeWrite
    BY <1>j, StatusFacts, AnsweredWrite DEF ExecPersistPending, OwnsClaim
  <2> QED
    BY <1>j, <2>1, <1>1, FinishInv DEF ExecPersistPending
<1>k. CASE ExecPersistPartial(o)
  BY <1>k, ExecPersistPartialInv
<1>l. CASE ExecPersistCompleted(o)
  <2>1. SafeWrite
    BY <1>l, StatusFacts, AnsweredWrite DEF ExecPersistCompleted
  <2> QED
    BY <1>l, <2>1, <1>1, FinishInv DEF ExecPersistCompleted
<1>m. CASE ExecTooLate(o)
  BY <1>m, <1>1, NoWrite, FinishInv DEF ExecTooLate
<1>n. CASE ExecFatal(o)
  <2>1. CASE IsProcessing(o) /\ order' = [order EXCEPT ![o].status = MANUAL_REVIEW]
    <3>1. SafeWrite
      BY <1>n, <2>1, StatusFacts, StatusWrite DEF ExecFatal
    <3> QED
      BY <1>n, <3>1, <1>1, FinishInv DEF ExecFatal
  <2>2. CASE UNCHANGED order
    BY <1>n, <2>2, <1>1, NoWrite, FinishInv DEF ExecFatal
  <2> QED
    BY <1>n, <2>1, <2>2 DEF ExecFatal
<1> QED
  BY <1>a, <1>b, <1>c, <1>d, <1>e, <1>f, <1>g, <1>h, <1>i, <1>j, <1>k, <1>l, <1>m, <1>n
     DEF ExecStep

-----------------------------------------------------------------------------
(* processOrderStatusResult.                                               *)

(* A report is written over an order that is still PROCESSING.             *)
LEMMA ReportWrite ==
  ASSUME IInv, NEW p \in Procs, NEW s \in OrderStatus, NEW n \in Nat,
         At(p, "apply"), IsProcessing(task[p].o),
         \/ order' = [order EXCEPT ![task[p].o].status = s,
                                   ![task[p].o].providerStatus = task[p].reply.status]
         \/ order' = [order EXCEPT ![task[p].o].status = s,
                                   ![task[p].o].providerStatus = task[p].reply.status,
                                   ![task[p].o].retryCount = n],
         UNCHANGED <<held, remote>>
  PROVE  SafeWrite /\ order'[task[p].o].status = s
<1> DEFINE o == task[p].o
           ps == task[p].reply.status
           d == [order[o] EXCEPT !.status = s, !.providerStatus = ps]
           e == [order[o] EXCEPT !.status = s, !.providerStatus = ps, !.retryCount = n]
<1>1. o \in Orders /\ order[o] \in OrderDoc /\ ps \in KnownAliases \cup {NoStatus}
  BY Busy DEF Reply
<1>2. d \in OrderDoc /\ d.status = s /\ e \in OrderDoc /\ e.status = s
  BY <1>1 DEF OrderDoc
<1>3. order' = [order EXCEPT ![o] = d] \/ order' = [order EXCEPT ![o] = e]
  OBVIOUS
<1>4. IsProcessing(o)
  OBVIOUS
<1> HIDE DEF o, ps, d, e
<1>5. SafeWrite /\ order'[o].status = s
  BY <1>1, <1>2, <1>3, <1>4, DocWrite
<1> QED
  BY <1>5 DEF o

(* The order is closed and the process goes on to `next`, or somebody else *)
(* has closed it and nothing happens.                                      *)
LEMMA ApplyFinalInv ==
  ASSUME IInv, NEW p \in Procs, NEW s \in OrderStatus, NEW pc \in Steps,
         pc \notin ExecSteps, pc \in RefundSteps => s \in Undelivered,
         ApplyFinal(p, s, Goto(p, pc))
  PROVE  IInv'
<1>1. CASE /\ IsProcessing(task[p].o)
           /\ order' = [order EXCEPT ![task[p].o].status = s,
                                     ![task[p].o].providerStatus = task[p].reply.status]
           /\ Goto(p, pc)
  <2>1. SafeWrite /\ order'[task[p].o].status = s
    BY <1>1, ReportWrite, 0 \in Nat DEF ApplyFinal
  <2>2. task[p].o \in Orders
    BY Busy DEF ApplyFinal
  <2> QED
    BY <1>1, <2>1, <2>2, StepFacts, GotoInv
<1>2. CASE Finish(p) /\ UNCHANGED order
  BY <1>2, NoWrite, FinishInv DEF ApplyFinal
<1> QED
  BY <1>1, <1>2 DEF ApplyFinal

LEMMA ApplyInv ==
  ASSUME IInv, NEW p \in Procs, ApplyStep(p)
  PROVE  IInv'
<1> DEFINE o == task[p].o
<1>1. /\ {"refundTxn", "refundFlag"} \subseteq Steps \ ExecSteps
      /\ {"refundTxn", "refundFlag"} \subseteq RefundSteps
  BY DEF Steps, ExecSteps, RefundSteps
<1>2. /\ {FAILED, CANCELED, PARTIAL} \subseteq Undelivered
      /\ {FAILED, CANCELED, PARTIAL} \subseteq OrderStatus
  BY StatusFacts
<1>a. CASE ApplyPending(p)
  <2> DEFINE n == task[p].doc.retryCount + 1
             s == IF n >= MaxRetry THEN MANUAL_REVIEW ELSE order[o].status
  <2>1. n \in Nat /\ s \in OrderStatus
    BY <1>a, Busy, StatusFacts DEF ApplyPending, OrderDoc
  <2>2. /\ order' = [order EXCEPT ![task[p].o].status = s,
                                   ![task[p].o].providerStatus = task[p].reply.status,
                                   ![task[p].o].retryCount = n]
        /\ At(p, "apply") /\ IsProcessing(task[p].o) /\ UNCHANGED <<held, remote>>
        /\ Finish(p)
    BY <1>a DEF ApplyPending
  <2>3. SafeWrite
    <3> HIDE DEF s, n
    <3> QED  BY <2>1, <2>2, ReportWrite
  <2> QED
    BY <2>2, <2>3, FinishInv
<1>b. CASE ApplyCompleted(p)
  <2>1. CASE /\ IsProcessing(o) /\ Finish(p)
             /\ order' = [order EXCEPT ![o].status = COMPLETED,
                                       ![o].providerStatus = task[p].reply.status]
    <3>1. SafeWrite
      BY <1>b, <2>1, ReportWrite, StatusFacts, 0 \in Nat DEF ApplyCompleted, ApplyFinal
    <3> QED
      BY <2>1, <3>1, FinishInv
  <2>2. CASE Finish(p) /\ UNCHANGED order
    BY <1>b, <2>2, NoWrite, FinishInv DEF ApplyCompleted, ApplyFinal
  <2> QED
    BY <1>b, <2>1, <2>2 DEF ApplyCompleted, ApplyFinal
<1>c. CASE ApplyPartial(p)
  BY <1>c, <1>1, <1>2, ApplyFinalInv DEF ApplyPartial
<1>d. CASE ApplyCanceled(p)
  <2> DEFINE t == [task[p] EXCEPT !.pc = "refundTxn",
                                  !.reply = [task[p].reply EXCEPT !.remains = 0]]
  <2>1. CASE /\ IsProcessing(o)
             /\ order' = [order EXCEPT ![o].status = CANCELED,
                                       ![o].providerStatus = task[p].reply.status]
             /\ task' = [task EXCEPT ![p].pc = "refundTxn",
                                     ![p].reply = [@ EXCEPT !.remains = 0]]
    <3>1. SafeWrite /\ order'[o].status = CANCELED
      BY <1>d, <2>1, <1>2, ReportWrite, 0 \in Nat DEF ApplyCanceled, ApplyFinal
    <3>2. task[p] \in Task /\ o \in Orders /\ task[p].reply \in Reply
      BY <1>d, Busy DEF ApplyCanceled, ApplyFinal
    <3>3. [task[p].reply EXCEPT !.remains = 0] \in Reply
      BY <3>2 DEF Reply
    <3>4. t \in Task /\ t.pc = "refundTxn" /\ t.o = o
      BY <3>2, <3>3, <1>1 DEF Task
    <3>5. task' = [task EXCEPT ![p] = t]
      BY <2>1
    <3>6. "refundTxn" # "sent"
      OBVIOUS
    <3> HIDE DEF t
    <3> QED
      BY <3>1, <3>2, <3>4, <3>5, <3>6, <1>1, <1>2, MoveInv
  <2>2. CASE Finish(p) /\ UNCHANGED order
    BY <1>d, <2>2, NoWrite, FinishInv DEF ApplyCanceled, ApplyFinal
  <2> QED
    BY <1>d, <2>1, <2>2 DEF ApplyCanceled, ApplyFinal
<1>e. CASE ApplyFailed(p)
  BY <1>e, <1>1, <1>2, ApplyFinalInv DEF ApplyFailed
<1>f. CASE ApplySkipped(p)
  BY <1>f, NoWrite, FinishInv DEF ApplySkipped
<1> QED
  BY <1>a, <1>b, <1>c, <1>d, <1>e, <1>f DEF ApplyStep

-----------------------------------------------------------------------------
(* The cron.                                                               *)

LEMMA PollFetchInv ==
  ASSUME IInv, NEW w \in Workers, NEW o \in Orders, PollFetch(w, o)
  PROVE  IInv'
<1> DEFINE t == [pc |-> PollStepFor(order[o]), o |-> o, doc |-> order[o],
                 reply |-> NoReply]
<1>1. PollStepFor(order[o]) \in PollSteps
  BY DEF PollStepFor, PollSteps
<1>2. order[o] \in OrderDoc
  BY DEF IInv, TypeOK
<1>3. t \in Task /\ t.o = o /\ t.pc \in PollSteps
  BY <1>1, <1>2, StepFacts, NoTaskType DEF Task
<1>4. task' = [task EXCEPT ![w] = t] /\ UNCHANGED <<order, held, remote>>
  BY DEF PollFetch
<1> HIDE DEF t
<1>5. w \in Procs /\ SafeWrite
  BY <1>4, ProcTypes, NoWrite
<1> QED
  BY <1>3, <1>4, <1>5, StepFacts, MoveInv

(* A report is in, and the process goes on to write it.                    *)
LEMMA HeardInv ==
  ASSUME IInv, NEW w \in Workers, task[w].pc # "idle",
         NEW pc \in {"apply", "recover"}, NEW reply \in Reply,
         task' = [task EXCEPT ![w].pc = pc, ![w].reply = reply],
         UNCHANGED <<order, held, remote>>
  PROVE  IInv'
<1> DEFINE t == [task[w] EXCEPT !.pc = pc, !.reply = reply]
<1>1. pc \in Steps \ (ExecSteps \cup RefundSteps)
  BY DEF Steps, PollSteps, ExecSteps, RefundSteps
<1>2. task[w] \in Task /\ task[w].o \in Orders /\ w \in Procs /\ SafeWrite
  BY Busy, ProcTypes, NoWrite
<1>3. t \in Task /\ t.pc = pc /\ t.o = task[w].o
  BY <1>1, <1>2 DEF Task
<1>4. task' = [task EXCEPT ![w] = t]
  OBVIOUS
<1> HIDE DEF t
<1> QED
  BY <1>1, <1>2, <1>3, <1>4, StepFacts, MoveInv

LEMMA RecoverDeferInv ==
  ASSUME IInv, NEW w \in Workers, RecoverDefer(w)
  PROVE  IInv'
<1> DEFINE o == task[w].o
           n == task[w].doc.retryCount + 1
           s == IF n >= MaxRetry THEN MANUAL_REVIEW ELSE order[o].status
           d == [order[o] EXCEPT !.status = s, !.retryCount = n]
<1>1. w \in Procs
  BY ProcTypes
<1>2. /\ o \in Orders /\ order[o] \in OrderDoc
      /\ task[w].doc \in OrderDoc /\ n \in Nat
  BY <1>1, Busy DEF RecoverDefer, OrderDoc
<1>3. d \in OrderDoc
  BY <1>2, StatusFacts DEF OrderDoc
<1>4. CASE OwnsClaim(o)
  <2>1. order' = [order EXCEPT ![o] = d] /\ UNCHANGED <<held, remote>> /\ IsProcessing(o)
    BY <1>4 DEF RecoverDefer, OwnsClaim
  <2>2. SafeWrite
    <3> HIDE DEF o, d
    <3> QED  BY <2>1, <1>2, <1>3, DocWrite
  <2> QED
    BY <2>2, <1>1, FinishInv DEF RecoverDefer
<1>5. CASE ~OwnsClaim(o)
  BY <1>5, <1>1, NoWrite, FinishInv DEF RecoverDefer
<1> QED
  BY <1>4, <1>5

LEMMA RecoverSaveInv ==
  ASSUME IInv, NEW w \in Workers, RecoverSave(w)
  PROVE  IInv'
<1> DEFINE o == task[w].o
           d == [order[o] EXCEPT !.providerOrderId = task[w].reply.id,
                                 !.providerStatus = task[w].reply.status]
           t == [task[w] EXCEPT !.pc = "apply", !.doc = order'[o]]
<1>1. w \in Procs
  BY ProcTypes
<1>2. /\ o \in Orders /\ order[o] \in OrderDoc /\ task[w] \in Task
      /\ task[w].reply \in Reply
  BY <1>1, Busy DEF RecoverSave
<1>3. d \in OrderDoc /\ d.status = order[o].status
  <2>1. task[w].reply.id \in Nat /\ task[w].reply.status \in KnownAliases \cup {NoStatus}
    BY <1>2 DEF Reply
  <2> QED
    BY <1>2, <2>1 DEF OrderDoc
<1>4. CASE OwnsClaim(o)
  <2>1. /\ order' = [order EXCEPT ![o] = d]
        /\ task' = [task EXCEPT ![w] = t]
        /\ UNCHANGED <<held, remote>>
    BY <1>4 DEF RecoverSave
  <2>2. SafeWrite /\ order'[o] \in OrderDoc
    <3> HIDE DEF o, d, t
    <3>1. SafeWrite
      BY <2>1, <1>2, <1>3, DocWrite
    <3> QED
      BY <3>1, <1>2 DEF SafeWrite
  <2>3. t \in Task /\ t.pc = "apply" /\ t.o = o
    BY <1>2, <2>2, StepFacts DEF Task
  <2> HIDE DEF t
  <2> QED
    BY <1>1, <1>2, <2>1, <2>2, <2>3, StepFacts, MoveInv
<1>5. CASE ~OwnsClaim(o)
  BY <1>5, <1>1, NoWrite, FinishInv DEF RecoverSave
<1> QED
  BY <1>4, <1>5

LEMMA PollInv ==
  ASSUME IInv, NEW w \in Workers, PollStep(w)
  PROVE  IInv'
<1>1. w \in Procs
  BY ProcTypes
<1>a. CASE PollExhausted(w)
  <2> DEFINE o == task[w].o
  <2>1. o \in Orders
    BY <1>a, <1>1, Busy DEF PollExhausted
  <2>2. CASE IsProcessing(o) /\ order' = [order EXCEPT ![o].status = MANUAL_REVIEW]
    <3>1. SafeWrite
      BY <1>a, <2>1, <2>2, StatusFacts, StatusWrite DEF PollExhausted
    <3> QED
      BY <1>a, <3>1, <1>1, FinishInv DEF PollExhausted
  <2>3. CASE UNCHANGED order
    BY <1>a, <2>3, <1>1, NoWrite, FinishInv DEF PollExhausted
  <2> QED
    BY <1>a, <2>2, <2>3 DEF PollExhausted
<1>b. CASE RecoverDefer(w)
  BY <1>b, RecoverDeferInv
<1>c. CASE RecoverFound(w)
  <2>1. PICK k \in 1 .. Len(remote[task[w].o]) : \E reply \in Report(task[w].o, k) :
          task' = [task EXCEPT ![w].pc = "recover", ![w].reply = reply]
    BY <1>c DEF RecoverFound
  <2>2. PICK reply \in Report(task[w].o, k) :
          task' = [task EXCEPT ![w].pc = "recover", ![w].reply = reply]
    BY <2>1
  <2>3. task[w].o \in Orders /\ k \in DOMAIN remote[task[w].o]
    BY <1>c, <1>1, Busy DEF RecoverFound
  <2>4. reply \in Reply
    BY <2>3, ReportType
  <2> QED
    BY <1>c, <2>2, <2>4, HeardInv DEF RecoverFound
<1>d. CASE RecoverSave(w)
  BY <1>d, RecoverSaveInv
<1>e. CASE PollAnswered(w)
  <2> DEFINE k == task[w].doc.providerOrderId
  <2>1. PICK reply \in Report(task[w].o, k) :
          task' = [task EXCEPT ![w].pc = "apply", ![w].reply = reply]
    BY <1>e DEF PollAnswered
  <2>2. task[w].o \in Orders /\ k \in DOMAIN remote[task[w].o]
    BY <1>e, <1>1, Busy DEF PollAnswered
  <2>3. reply \in Reply
    BY <2>2, ReportType
  <2> QED
    BY <1>e, <2>1, <2>3, HeardInv DEF PollAnswered
<1>f. CASE PollSkipped(w)
  BY <1>f, <1>1, NoWrite, FinishInv DEF PollSkipped
<1> QED
  BY <1>a, <1>b, <1>c, <1>d, <1>e, <1>f DEF PollStep

-----------------------------------------------------------------------------
(* The invariant.                                                          *)

LEMMA StutterInv == IInv /\ UNCHANGED vars => IInv'
  BY DEF vars, IInv, TypeOK, TaskOK, RefundersHaveClosed, SentWasPlaced,
         RefundOnlyAfterFailure, Amount

LEMMA NextInv == IInv /\ [Next]_vars => IInv'
<1> SUFFICES ASSUME IInv, [Next]_vars PROVE IInv'
  OBVIOUS
<1>1. ASSUME NEW o \in Orders, ExecStep(o) PROVE IInv'
  BY <1>1, ExecInv
<1>2. ASSUME NEW o \in Orders, NEW k \in DOMAIN remote[o], ProviderProgress(o, k)
      PROVE  IInv'
  BY <1>2, ProviderInv
<1>3. ASSUME NEW w \in Workers, NEW o \in Orders, PollFetch(w, o) PROVE IInv'
  BY <1>3, PollFetchInv
<1>4. ASSUME NEW w \in Workers, PollStep(w) PROVE IInv'
  BY <1>4, PollInv
<1>5. ASSUME NEW p \in Procs, EngineTask(p) PROVE IInv'
  BY <1>5, ApplyInv, RefundInv DEF EngineTask
<1>6. ASSUME NEW p \in Procs, Crash(p) PROVE IInv'
  BY <1>6, CrashInv
<1>7. CASE UNCHANGED vars
  BY <1>7, StutterInv
<1> QED
  BY <1>1, <1>2, <1>3, <1>4, <1>5, <1>6, <1>7 DEF Next

(* Whatever the orders, workers, replies and faults, every document the    *)
(* engine writes is one the schema admits.                                 *)
THEOREM TypeCorrect == Spec => []TypeOK
<1>1. IInv => TypeOK
  BY DEF IInv
<1> QED
  BY InitInv, NextInv, <1>1, PTL DEF Spec

(* No interleaving of executors, cron workers, crashes and retried         *)
(* transactions returns money for an order that is not closed as failed,   *)
(* canceled or partial.                                                    *)
THEOREM RefundSafety == Spec => []RefundOnlyAfterFailure
<1>1. IInv => RefundOnlyAfterFailure
  BY DEF IInv
<1> QED
  BY InitInv, NextInv, <1>1, PTL DEF Spec

-----------------------------------------------------------------------------
(***************************************************************************)
(* What the engine does with the money of an order: it keeps the promise   *)
(* of Settlement, it never pays for goods that were delivered, and it      *)
(* closes an order as what was reported.                                   *)
(***************************************************************************)

(* The two steps between the flag of refundFailedOrder and its end.        *)
Repaying == {"refundCredit", "refundUndo"}

(* The compare-and-swap out of PROCESSING puts one process in charge of    *)
(* the refund of an order, and everything is still held until that one     *)
(* pays it back.                                                           *)
OneRefunder ==
    /\ \A o \in Orders : 0 <= held[o] /\ held[o] <= Amount(o)
    /\ \A p \in Procs : task[p].pc \in RefundSteps =>
          /\ task[p].pc # "refundUndo" => held[task[p].o] = Amount(task[p].o)
          /\ \A q \in Procs : task[q].pc \in RefundSteps /\ task[q].o = task[p].o => q = p

MInv == IInv /\ OneRefunder

(* Until the flag is set everything is still held, and while it is set and *)
(* nothing is credited yet its process is still there.                     *)
FlagOnRecord ==
    /\ \A o \in Orders : ~order[o].refunded => held[o] = Amount(o)
    /\ \A p \in Procs : task[p].pc \in Repaying =>
          order[task[p].o].refunded /\ held[task[p].o] = Amount(task[p].o)

FlagInv == MInv /\ FlagOnRecord

-----------------------------------------------------------------------------
(* The steps that move no money: process p works on order o, no flag and   *)
(* no `held` changes, a status only out of PROCESSING, and nobody takes up *)
(* a refund who has not moved the order out of there.                      *)

(* A document that is closed says the provider's word for it.              *)
SaysSo(doc) ==
    doc.status \in {COMPLETED, PARTIAL, CANCELED} =>
        toInternalStatus(doc.providerStatus) = doc.status

QuietStep(p, o) ==
    /\ held' = held
    /\ \A x \in Orders \ {o} : order'[x] = order[x]
    /\ order'[o].refunded = order[o].refunded
    /\ \/ /\ order'[o].status = order[o].status
          /\ order'[o].providerStatus = order[o].providerStatus
       \/ IsProcessing(o) /\ SaysSo(order'[o])
    /\ \A q \in Procs \ {p} : task'[q] = task[q]
    /\ task'[p].pc \notin Repaying
    /\ task'[p].pc \in RefundSteps => IsProcessing(o) /\ task'[p].o = o

(* The two hand-kept lists of statusMapper.js agree.                       *)
LEMMA ListsAgree ==
  ASSUME NEW s
  PROVE  isTerminal(s) =>
            (requiresRefund(s) <=> toInternalStatus(s) \in {FAILED, CANCELED, PARTIAL})
  BY DEF isTerminal, requiresRefund, toInternalStatus, RefundAliases, CompletedAliases,
         PartialAliases, CanceledAliases, FailedAliases, COMPLETED, FAILED, CANCELED, PARTIAL,
         PROCESSING

LEMMA StillOpen ==
  ASSUME NEW doc, doc.status \in {PROCESSING, FAILED, MANUAL_REVIEW}
  PROVE  SaysSo(doc)
  BY DEF SaysSo, COMPLETED, PARTIAL, CANCELED, FAILED, PROCESSING, MANUAL_REVIEW

LEMMA ExecQuiet ==
  ASSUME IInv, NEW o \in Orders, ExecStep(o)
  PROVE  QuietStep(o, o)
<1> USE DEF IInv, TypeOK, QuietStep, Repaying, RefundSteps
<1>0. o \in Procs /\ order[o] \in OrderDoc /\ task[o] \in Task /\ NoTask.pc = "idle"
  BY ProcTypes DEF NoTask
<1>a. CASE ExecLoad(o)
  <2>1. CASE IsProcessing(o)
    BY <1>0, <1>a, <2>1 DEF ExecLoad, Task
  <2>2. CASE ~IsProcessing(o)
    BY <1>0, <1>a, <2>2 DEF ExecLoad
  <2> QED
    BY <2>1, <2>2
<1>b. CASE ExecResolveFails(o)
  <2>1. CASE Finish(o) /\ UNCHANGED order
    BY <1>0, <1>b, <2>1 DEF ExecResolveFails
  <2>2. CASE /\ IsProcessing(o) /\ order' = [order EXCEPT ![o].status = FAILED]
             /\ Goto(o, "refundFlag")
    <3>1. task[o].o = o
      BY <1>0, <1>b DEF ExecResolveFails, TaskOK, ExecSteps
    <3> QED
      BY <1>0, <1>b, <2>2, <3>1, StillOpen DEF ExecResolveFails, OrderDoc, Task
  <2> QED
    BY <1>b, <2>1, <2>2 DEF ExecResolveFails
<1>c. CASE ExecClaim(o)
  <2>1. CASE Finish(o) /\ UNCHANGED order
    BY <1>0, <1>c, <2>1 DEF ExecClaim
  <2>2. CASE /\ IsProcessing(o) /\ order' = [order EXCEPT ![o].providerStatus = UNCERTAIN]
             /\ Goto(o, "claimed")
    BY <1>0, <1>c, <2>2, StillOpen DEF ExecClaim, OrderDoc, Task
  <2> QED
    BY <1>c, <2>1, <2>2 DEF ExecClaim
<1>d. CASE ProviderAccepts(o)
  BY <1>0, <1>d DEF ProviderAccepts
<1>e. CASE ProviderRefuses(o)
  BY <1>0, <1>e DEF ProviderRefuses
<1>f. CASE ExecAccepted(o)
  BY <1>0, <1>f DEF ExecAccepted, ExecAnswered
<1>g. CASE ExecRejected(o)
  BY <1>0, <1>g DEF ExecRejected, ExecAnswered
<1>h. CASE ExecThrown(o)
  BY <1>0, <1>h DEF ExecThrown, ExecAnswered
<1>i. CASE ExecPersistFailure(o)
  <2> DEFINE s == NewStatus(task[o].reply)
  <2>1. /\ order'[o].status = s /\ order'[o].providerStatus = task[o].reply.status
        /\ order'[o].refunded = order[o].refunded /\ IsProcessing(o)
        /\ \A x \in Orders \ {o} : order'[x] = order[x]
    BY <1>0, <1>i DEF ExecPersistFailure, Answered, OwnsClaim, OrderDoc
  <2>2. s = FAILED \/ (s = CANCELED /\ toInternalStatus(task[o].reply.status) = s)
    BY <1>i, CANCELED # FAILED DEF ExecPersistFailure, NewStatus, CANCELED, FAILED
  <2>3. SaysSo(order'[o])
    BY <2>1, <2>2, StillOpen DEF SaysSo
  <2>4. task[o].o = o
    BY <1>0, <1>i DEF ExecPersistFailure, TaskOK, ExecSteps
  <2> QED
    BY <1>0, <1>i, <2>1, <2>3, <2>4 DEF ExecPersistFailure, Task
<1>j. CASE ExecPersistPending(o)
  <2>1. order'[o].status = PROCESSING
    BY <1>0, <1>j DEF ExecPersistPending, Answered, OrderDoc
  <2>2. SaysSo(order'[o])
    BY <2>1, StillOpen
  <2> QED
    BY <1>0, <1>j, <2>2 DEF ExecPersistPending, Answered, OwnsClaim, OrderDoc, Task
<1>k. CASE ExecPersistPartial(o)
  <2>1. order'[o].status = PROCESSING
    BY <1>0, <1>k DEF ExecPersistPartial, Answered, OrderDoc
  <2>2. SaysSo(order'[o])
    BY <2>1, StillOpen
  <2> QED
    BY <1>0, <1>k, <2>2 DEF ExecPersistPartial, Answered, OwnsClaim, OrderDoc, Task
<1>l. CASE ExecPersistCompleted(o)
  <2>1. /\ order'[o].status = COMPLETED /\ order'[o].providerStatus = task[o].reply.status
        /\ order'[o].refunded = order[o].refunded
        /\ \A x \in Orders \ {o} : order'[x] = order[x]
    BY <1>0, <1>l DEF ExecPersistCompleted, Answered, OrderDoc
  <2>2. toInternalStatus(task[o].reply.status) = COMPLETED
    BY <1>l DEF ExecPersistCompleted, NewStatus, COMPLETED, FAILED
  <2> QED
    BY <1>0, <1>l, <2>1, <2>2 DEF ExecPersistCompleted, SaysSo
<1>m. CASE ExecTooLate(o)
  BY <1>0, <1>m DEF ExecTooLate
<1>n. CASE ExecFatal(o)
  BY <1>0, <1>n, StillOpen DEF ExecFatal, OrderDoc
<1> QED
  BY <1>a, <1>b, <1>c, <1>d, <1>e, <1>f, <1>g, <1>h, <1>i, <1>j, <1>k, <1>l, <1>m, <1>n
     DEF ExecStep

LEMMA ApplyQuiet ==
  ASSUME IInv, NEW p \in Procs, ApplyStep(p)
  PROVE  task[p].o \in Orders /\ QuietStep(p, task[p].o)
<1> USE DEF IInv, TypeOK, QuietStep, Repaying, RefundSteps
<1>0. task[p].pc = "apply" /\ NoTask.pc = "idle"
  BY DEF ApplyStep, ApplyPending, ApplyCompleted, ApplyPartial, ApplyCanceled, ApplyFailed,
         ApplySkipped, ApplyFinal, NoTask
<1>1. task[p].o \in Orders /\ order[task[p].o] \in OrderDoc /\ task[p] \in Task
  BY <1>0 DEF TaskOK
<1>2. CASE Finish(p) /\ UNCHANGED <<order, held>>
  BY <1>0, <1>1, <1>2
<1>a. CASE ApplyPending(p)
  <2>1. /\ order'[task[p].o].status \in {PROCESSING, MANUAL_REVIEW}
        /\ order'[task[p].o].refunded = order[task[p].o].refunded
        /\ IsProcessing(task[p].o)
    BY <1>1, <1>a DEF ApplyPending, OrderDoc
  <2>2. SaysSo(order'[task[p].o])
    BY <2>1, StillOpen
  <2> QED
    BY <1>0, <1>1, <1>a, <2>1, <2>2 DEF ApplyPending
<1>b. CASE ApplyCompleted(p)
  <2>1. CASE IsProcessing(task[p].o)
    <3>1. /\ UNCHANGED held
          /\ order' = [order EXCEPT ![task[p].o].status = COMPLETED,
                                    ![task[p].o].providerStatus = task[p].reply.status]
      BY <1>b, <2>1 DEF ApplyCompleted, ApplyFinal
    <3>2. /\ \A q \in Procs \ {p} : task'[q] = task[q]
          /\ task'[p].pc \notin Repaying /\ (task'[p].pc # "idle" => task'[p].o = task[p].o)
      BY <1>0, <1>1, <1>b, <2>1 DEF ApplyCompleted, ApplyFinal, Task
    <3>3. toInternalStatus(task[p].reply.status) = COMPLETED
      BY <1>b, ListsAgree DEF ApplyCompleted, isTerminal
    <3>4. SaysSo(order'[task[p].o])
      BY <1>1, <3>1, <3>3 DEF SaysSo, OrderDoc
    <3> QED
      BY <1>0, <1>1, <2>1, <3>1, <3>2, <3>4 DEF OrderDoc
  <2> QED
    BY <1>2, <1>b, <2>1 DEF ApplyCompleted, ApplyFinal
<1>c. CASE ApplyPartial(p)
  <2>1. CASE IsProcessing(task[p].o)
    <3>1. /\ UNCHANGED held
          /\ order' = [order EXCEPT ![task[p].o].status = PARTIAL,
                                    ![task[p].o].providerStatus = task[p].reply.status]
      BY <1>c, <2>1 DEF ApplyPartial, ApplyFinal
    <3>2. /\ \A q \in Procs \ {p} : task'[q] = task[q]
          /\ task'[p].pc \notin Repaying /\ (task'[p].pc # "idle" => task'[p].o = task[p].o)
      BY <1>0, <1>1, <1>c, <2>1 DEF ApplyPartial, ApplyFinal, Task
    <3>3. toInternalStatus(task[p].reply.status) = PARTIAL
      BY <1>c DEF ApplyPartial, Refunding
    <3>4. SaysSo(order'[task[p].o])
      BY <1>1, <3>1, <3>3 DEF SaysSo, OrderDoc
    <3> QED
      BY <1>0, <1>1, <2>1, <3>1, <3>2, <3>4 DEF OrderDoc
  <2> QED
    BY <1>2, <1>c, <2>1 DEF ApplyPartial, ApplyFinal
<1>d. CASE ApplyCanceled(p)
  <2>1. CASE IsProcessing(task[p].o)
    <3>1. /\ UNCHANGED held
          /\ order' = [order EXCEPT ![task[p].o].status = CANCELED,
                                    ![task[p].o].providerStatus = task[p].reply.status]
      BY <1>d, <2>1 DEF ApplyCanceled, ApplyFinal
    <3>2. /\ \A q \in Procs \ {p} : task'[q] = task[q]
          /\ task'[p].pc \notin Repaying /\ (task'[p].pc # "idle" => task'[p].o = task[p].o)
      BY <1>0, <1>1, <1>d, <2>1 DEF ApplyCanceled, ApplyFinal, Task
    <3>3. toInternalStatus(task[p].reply.status) = CANCELED
      BY <1>d DEF ApplyCanceled, Refunding
    <3>4. SaysSo(order'[task[p].o])
      BY <1>1, <3>1, <3>3 DEF SaysSo, OrderDoc
    <3> QED
      BY <1>0, <1>1, <2>1, <3>1, <3>2, <3>4 DEF OrderDoc
  <2> QED
    BY <1>2, <1>d, <2>1 DEF ApplyCanceled, ApplyFinal
<1>e. CASE ApplyFailed(p)
  <2>1. CASE IsProcessing(task[p].o)
    <3>1. /\ UNCHANGED held
          /\ order' = [order EXCEPT ![task[p].o].status = FAILED,
                                    ![task[p].o].providerStatus = task[p].reply.status]
      BY <1>e, <2>1 DEF ApplyFailed, ApplyFinal
    <3>2. /\ \A q \in Procs \ {p} : task'[q] = task[q]
          /\ task'[p].pc \notin Repaying /\ (task'[p].pc # "idle" => task'[p].o = task[p].o)
      BY <1>0, <1>1, <1>e, <2>1 DEF ApplyFailed, ApplyFinal, Task
    <3>3. order'[task[p].o].status = FAILED
      BY <1>1, <3>1 DEF OrderDoc
    <3>4. SaysSo(order'[task[p].o])
      BY <3>3, StillOpen
    <3> QED
      BY <1>0, <1>1, <2>1, <3>1, <3>2, <3>4 DEF OrderDoc
  <2> QED
    BY <1>2, <1>e, <2>1 DEF ApplyFailed, ApplyFinal
<1>f. CASE ApplySkipped(p)
  BY <1>0, <1>1, <1>f DEF ApplySkipped
<1> QED
  BY <1>1, <1>a, <1>b, <1>c, <1>d, <1>e, <1>f DEF ApplyStep

LEMMA PollQuiet ==
  ASSUME IInv, NEW w \in Workers, PollStep(w)
  PROVE  task[w].o \in Orders /\ QuietStep(w, task[w].o)
<1> USE DEF IInv, TypeOK, QuietStep, Repaying, RefundSteps
<1>0. w \in Procs /\ task[w].pc # "idle" /\ NoTask.pc = "idle"
  BY ProcTypes DEF PollStep, PollExhausted, RecoverDefer, RecoverFound, RecoverSave,
                   PollAnswered, PollSkipped, NoTask
<1>1. task[w].o \in Orders /\ order[task[w].o] \in OrderDoc /\ task[w] \in Task
  BY <1>0 DEF TaskOK
<1>a. CASE PollExhausted(w)
  <2>1. CASE order' = [order EXCEPT ![task[w].o].status = MANUAL_REVIEW] /\ IsProcessing(task[w].o)
    BY <1>0, <1>1, <1>a, <2>1, StillOpen DEF PollExhausted, OrderDoc
  <2>2. CASE UNCHANGED order
    BY <1>0, <1>1, <1>a, <2>2 DEF PollExhausted
  <2> QED
    BY <1>a, <2>1, <2>2 DEF PollExhausted
<1>b. CASE RecoverDefer(w)
  <2>1. CASE OwnsClaim(task[w].o)
    <3> DEFINE n == task[w].doc.retryCount + 1
               s == IF n >= MaxRetry THEN MANUAL_REVIEW ELSE order[task[w].o].status
    <3>0. /\ order' = [order EXCEPT ![task[w].o].status = s, ![task[w].o].retryCount = n]
          /\ order[task[w].o].status = PROCESSING
      BY <1>b, <2>1 DEF RecoverDefer, OwnsClaim
    <3>a. s \in {PROCESSING, MANUAL_REVIEW}
      BY <3>0
    <3> HIDE DEF n, s
    <3>1. /\ order'[task[w].o].status \in {PROCESSING, MANUAL_REVIEW}
          /\ order'[task[w].o].refunded = order[task[w].o].refunded
          /\ IsProcessing(task[w].o)
      BY <1>1, <3>0, <3>a DEF OrderDoc
    <3>2. SaysSo(order'[task[w].o])
      BY <3>1, StillOpen
    <3> QED
      BY <1>0, <1>1, <1>b, <2>1, <3>1, <3>2 DEF RecoverDefer
  <2>2. CASE ~OwnsClaim(task[w].o)
    BY <1>0, <1>1, <1>b, <2>2 DEF RecoverDefer
  <2> QED
    BY <2>1, <2>2
<1>c. CASE RecoverFound(w)
  BY <1>0, <1>1, <1>c DEF RecoverFound
<1>d. CASE RecoverSave(w)
  <2>1. CASE OwnsClaim(task[w].o)
    <3>1. /\ order' = [order EXCEPT ![task[w].o].providerOrderId = task[w].reply.id,
                                     ![task[w].o].providerStatus = task[w].reply.status]
          /\ task' = [task EXCEPT ![w].pc = "apply", ![w].doc = order'[task[w].o]]
          /\ UNCHANGED held
      BY <1>d, <2>1 DEF RecoverSave
    <3>2. SaysSo(order'[task[w].o])
      <4>1. order'[task[w].o].status = PROCESSING
        BY <1>1, <2>1, <3>1 DEF OwnsClaim, OrderDoc
      <4> QED
        BY <4>1, StillOpen
    <3> QED
      BY <1>0, <1>1, <2>1, <3>1, <3>2 DEF OwnsClaim, OrderDoc, Task
  <2>2. CASE ~OwnsClaim(task[w].o)
    BY <1>0, <1>1, <1>d, <2>2 DEF RecoverSave
  <2> QED
    BY <2>1, <2>2
<1>e. CASE PollAnswered(w)
  BY <1>0, <1>1, <1>e DEF PollAnswered
<1>f. CASE PollSkipped(w)
  BY <1>0, <1>1, <1>f DEF PollSkipped
<1> QED
  BY <1>1, <1>a, <1>b, <1>c, <1>d, <1>e, <1>f DEF PollStep

LEMMA FetchQuiet ==
  ASSUME IInv, NEW w \in Workers, NEW o \in Orders, PollFetch(w, o)
  PROVE  QuietStep(w, o)
  BY ProcTypes DEF IInv, TypeOK, PollFetch, PollStepFor, QuietStep, Repaying, RefundSteps

LEMMA CrashQuiet ==
  ASSUME IInv, NEW p \in Procs, Crash(p)
  PROVE  task[p].o \in Orders /\ QuietStep(p, task[p].o)
  BY DEF IInv, TypeOK, TaskOK, Crash, NoTask, QuietStep, Repaying, RefundSteps

(* Every step is one of the refund routines, a step of the provider or a   *)
(* quiet one.                                                              *)
LEMMA StepKinds ==
  ASSUME IInv, Next
  PROVE  \/ \E p \in Procs : RefundNext(p)
         \/ \E p \in Procs, o \in Orders : QuietStep(p, o)
         \/ UNCHANGED <<order, held, task>>
<1>1. ASSUME NEW o \in Orders, ExecStep(o) PROVE \E p \in Procs : QuietStep(p, o)
  BY <1>1, ExecQuiet, ProcTypes
<1>2. ASSUME NEW o \in Orders, NEW k \in DOMAIN remote[o], ProviderProgress(o, k)
      PROVE  UNCHANGED <<order, held, task>>
  BY <1>2 DEF ProviderProgress
<1>3. ASSUME NEW w \in Workers, NEW o \in Orders, PollFetch(w, o)
      PROVE  \E p \in Procs : QuietStep(p, o)
  BY <1>3, FetchQuiet, ProcTypes
<1>4. ASSUME NEW w \in Workers, PollStep(w)
      PROVE  \E p \in Procs, o \in Orders : QuietStep(p, o)
  BY <1>4, PollQuiet, ProcTypes
<1>5. ASSUME NEW p \in Procs, ApplyStep(p) PROVE \E o \in Orders : QuietStep(p, o)
  BY <1>5, ApplyQuiet
<1>6. ASSUME NEW p \in Procs, Crash(p) PROVE \E o \in Orders : QuietStep(p, o)
  BY <1>6, CrashQuiet
<1> QED
  BY <1>1, <1>2, <1>3, <1>4, <1>5, <1>6 DEF Next, EngineTask

-----------------------------------------------------------------------------
(* What processOrderRefund gives back is never more than was taken.        *)

LEMMA ProductMonotone ==
  ASSUME NEW a \in Nat, NEW r \in Nat, NEW q \in Nat \ {0}, r <= q
  PROVE  r * a <= q * a
<1>1. (q - r) * a >= 0
  OBVIOUS
<1>2. (q - r) * a = q * a - r * a
  OBVIOUS
<1> QED
  BY <1>1, <1>2

LEMMA QuotientBelow ==
  ASSUME NEW x \in Nat, NEW q \in Nat \ {0}
  PROVE  x \div q \in Nat /\ q * (x \div q) <= x
  OBVIOUS

LEMMA ProductCancels ==
  ASSUME NEW d \in Nat, NEW a \in Nat, NEW q \in Nat \ {0}, q * d <= q * a
  PROVE  d <= a
<1> SUFFICES ASSUME d >= a + 1 PROVE FALSE
  OBVIOUS
<1>1. q * d >= q * (a + 1)
  OBVIOUS
<1>2. q * (a + 1) = q * a + q
  OBVIOUS
<1> QED
  BY <1>1, <1>2

LEMMA ShareBounds ==
  ASSUME NEW o \in Orders, NEW r \in Nat
  PROVE  /\ Amount(o) \in Nat \ {0}
         /\ RefundShare(o, r) \in 0 .. Amount(o)
<1>1. Amount(o) \in Nat \ {0} /\ Quantity \in Nat \ {0}
  BY AmountAssumption DEF Amount
<1>2. CASE r \in 1 .. Quantity - 1
  <2> DEFINE x == r * Amount(o)
             d == x \div Quantity
  <2>1. x \in Nat /\ x <= Quantity * Amount(o)
    BY <1>1, <1>2, ProductMonotone
  <2>2. d \in Nat /\ Quantity * d <= x
    BY <1>1, <2>1, QuotientBelow
  <2>3. Quantity * d <= Quantity * Amount(o)
    <3>1. Quantity * d \in Nat /\ Quantity * Amount(o) \in Nat
      BY <1>1, <2>2
    <3> HIDE DEF x, d
    <3> QED
      BY <2>1, <2>2, <3>1
  <2>4. d <= Amount(o)
    <3> HIDE DEF d
    <3> QED
      BY <1>1, <2>2, <2>3, ProductCancels
  <2>5. RefundShare(o, r) = d
    BY <1>2 DEF RefundShare
  <2> HIDE DEF d
  <2> QED
    BY <1>1, <2>2, <2>4, <2>5
<1>3. CASE r \notin 1 .. Quantity - 1
  BY <1>1, <1>3 DEF RefundShare
<1> QED
  BY <1>1, <1>2, <1>3

-----------------------------------------------------------------------------
(* One process in charge of a refund.                                      *)

LEMMA InitOnce == Init => MInv
<1> SUFFICES ASSUME Init PROVE OneRefunder
  BY InitInv DEF MInv
<1>1. \A o \in Orders : Amount(o) \in Nat \ {0} /\ held[o] = Amount(o)
  BY ShareBounds DEF Init
<1>2. \A p \in Procs : task[p].pc \notin RefundSteps
  BY DEF Init, Scheduled, NoTask, RefundSteps, Procs
<1> QED
  BY <1>1, <1>2 DEF OneRefunder

(* Nobody refunds an order that is still PROCESSING, and it is held in     *)
(* full; so whoever moves it out of there is the only one.                 *)
LEMMA OpenIsWhole ==
  ASSUME MInv, NEW o \in Orders, IsProcessing(o)
  PROVE  /\ held[o] = Amount(o)
         /\ \A q \in Procs : task[q].pc \in RefundSteps => task[q].o # o
<1>1. order[o].status \notin Undelivered
  BY DEF Undelivered, PROCESSING, FAILED, CANCELED, PARTIAL
<1>2. held[o] \in Int /\ Amount(o) \in Int /\ held[o] <= Amount(o)
  BY ShareBounds DEF MInv, IInv, TypeOK, OneRefunder
<1>3. ~(held[o] < Amount(o))
  BY <1>1 DEF MInv, IInv, RefundOnlyAfterFailure
<1> QED
  BY <1>1, <1>2, <1>3 DEF MInv, IInv, RefundersHaveClosed

LEMMA QuietOnce ==
  ASSUME MInv, NEW p \in Procs, NEW o \in Orders, QuietStep(p, o)
  PROVE  OneRefunder'
<1>1. /\ \A x \in Orders : 0 <= held'[x] /\ held'[x] <= Amount(x)
      /\ held' = held /\ task'[p].pc # "refundUndo"
  BY DEF QuietStep, MInv, OneRefunder, Repaying
<1>2. \A q \in Procs \ {p} : task'[q] = task[q]
  BY DEF QuietStep
<1>3. task'[p].pc \in RefundSteps =>
         /\ task'[p].o = o /\ held[o] = Amount(o)
         /\ \A q \in Procs : task[q].pc \in RefundSteps => task[q].o # o
  BY OpenIsWhole DEF QuietStep
<1>4. ASSUME NEW q \in Procs, task'[q].pc \in RefundSteps
      PROVE  /\ task'[q].pc # "refundUndo" => held'[task'[q].o] = Amount(task'[q].o)
             /\ \A r \in Procs :
                   task'[r].pc \in RefundSteps /\ task'[r].o = task'[q].o => r = q
  BY <1>1, <1>2, <1>3, <1>4 DEF MInv, OneRefunder
<1> QED
  BY <1>1, <1>4 DEF OneRefunder, Amount

LEMMA StutterOnce ==
  ASSUME MInv, UNCHANGED <<order, held, task>>
  PROVE  OneRefunder'
  BY DEF MInv, OneRefunder, Amount

(* What a refund does: process p alone leaves its step, and what it takes  *)
(* from `held` is the full price, or its share of it.                      *)
RefundStep(p, o) ==
    /\ \A x \in Orders : order'[x].status = order[x].status
    /\ \A x \in Orders \ {o} : order'[x] = order[x]
    /\ \A q \in Procs \ {p} : task'[q] = task[q]
    /\ task'[p].pc \in RefundSteps => task'[p].o = o
    /\ \/ held' = held /\ (task'[p].pc \in RefundSteps => task[p].pc # "refundUndo")
       \/ /\ \E rest \in 0 .. Amount(o) - 1 : held' = [held EXCEPT ![o] = rest]
          /\ held[o] = Amount(o)
          /\ task'[p].pc \notin RefundSteps \ {"refundUndo"}

LEMMA AtRefund ==
  ASSUME MInv, NEW p \in Procs, task[p].pc \in RefundSteps
  PROVE  LET o == task[p].o IN
         /\ o \in Orders /\ order[o] \in OrderDoc /\ order[o].status \in Undelivered
         /\ held[o] \in Int /\ Amount(o) \in Nat \ {0}
         /\ task[p] \in Task /\ task[p].reply.remains \in Nat
         /\ task[p].pc # "refundUndo" => held[o] = Amount(o)
         /\ \A q \in Procs : task[q].pc \in RefundSteps /\ task[q].o = o => q = p
<1>1. task[p].pc # "idle"
  BY DEF RefundSteps
<1>2. /\ task[p].o \in Orders /\ order[task[p].o] \in OrderDoc
      /\ order[task[p].o].status \in Undelivered
      /\ held[task[p].o] \in Int /\ task[p] \in Task /\ task[p].reply.remains \in Nat
  BY <1>1, Busy DEF MInv, Reply
<1> QED
  BY <1>2, ShareBounds DEF MInv, OneRefunder

LEMMA RefundSplit ==
  ASSUME MInv, NEW p \in Procs, RefundNext(p)
  PROVE  task[p].pc \in RefundSteps /\ task[p].o \in Orders /\ RefundStep(p, task[p].o)
<1> DEFINE o == task[p].o
<1> USE DEF RefundSteps
<1>1. task[p].pc \in RefundSteps
  BY DEF RefundNext, RefundFlag, RefundAlreadyFlagged, RefundCredit,
         RefundNothingOrAbort, RefundCommitUnknown, RefundUndo, OrderRefundCommit,
         OrderRefundReject
<1>2. /\ o \in Orders /\ order[o] \in OrderDoc /\ held[o] \in Int
      /\ Amount(o) \in Nat \ {0} /\ task[p] \in Task /\ task[p].reply.remains \in Nat
      /\ task[p].pc # "refundUndo" => held[o] = Amount(o)
      /\ NoTask.pc = "idle"
  BY <1>1, AtRefund DEF NoTask
<1>3. order \in [Orders -> OrderDoc] /\ held \in [Orders -> Int] /\ task \in [Procs -> Task]
  BY DEF MInv, IInv, TypeOK
<1>4. ASSUME NEW b \in BOOLEAN, order' = [order EXCEPT ![o].refunded = b]
      PROVE  /\ \A x \in Orders : order'[x].status = order[x].status
             /\ \A x \in Orders \ {o} : order'[x] = order[x]
  BY <1>2, <1>3, <1>4 DEF OrderDoc
<1>5. ASSUME task[p].pc = "refundCredit", held' = [held EXCEPT ![o] = held[o] - Amount(o)]
      PROVE  \E rest \in 0 .. Amount(o) - 1 : held' = [held EXCEPT ![o] = rest]
  <2>1. held[o] - Amount(o) = 0 /\ 0 \in 0 .. Amount(o) - 1
    BY <1>2, <1>5
  <2> QED
    BY <1>5, <2>1
<1>a. CASE RefundFlag(p)
  <2>1. order' = [order EXCEPT ![o].refunded = TRUE] /\ held' = held
        /\ task[p].pc = "refundFlag" /\ task'[p].o = o
        /\ \A q \in Procs \ {p} : task'[q] = task[q]
    BY <1>2, <1>3, <1>a DEF RefundFlag, Task
  <2> QED
    BY <1>1, <1>2, <1>4, <2>1 DEF RefundStep
<1>b. CASE RefundAlreadyFlagged(p)
  BY <1>1, <1>2, <1>3, <1>b DEF RefundAlreadyFlagged, RefundStep
<1>c. CASE RefundCredit(p)
  <2>1. /\ order' = order /\ held' = [held EXCEPT ![o] = held[o] - Amount(o)]
        /\ task[p].pc = "refundCredit" /\ task'[p].pc = "idle"
        /\ \A q \in Procs \ {p} : task'[q] = task[q]
    BY <1>2, <1>3, <1>c DEF RefundCredit
  <2> QED
    BY <1>1, <1>2, <1>5, <2>1 DEF RefundStep
<1>d. CASE RefundNothingOrAbort(p)
  <2>1. /\ order' = order /\ held' = held /\ task[p].pc = "refundCredit" /\ task'[p].o = o
        /\ \A q \in Procs \ {p} : task'[q] = task[q]
    BY <1>2, <1>3, <1>d DEF RefundNothingOrAbort, Task
  <2> QED
    BY <1>1, <1>2, <2>1 DEF RefundStep
<1>e. CASE RefundCommitUnknown(p)
  <2>1. /\ order' = order /\ held' = [held EXCEPT ![o] = held[o] - Amount(o)]
        /\ task[p].pc = "refundCredit" /\ task'[p].pc = "refundUndo" /\ task'[p].o = o
        /\ \A q \in Procs \ {p} : task'[q] = task[q]
    BY <1>2, <1>3, <1>e DEF RefundCommitUnknown, Task
  <2> QED
    BY <1>1, <1>2, <1>5, <2>1 DEF RefundStep
<1>f. CASE RefundUndo(p)
  <2>1. /\ order' = [order EXCEPT ![o].refunded = FALSE] /\ held' = held
        /\ task'[p].pc = "idle" /\ \A q \in Procs \ {p} : task'[q] = task[q]
    BY <1>2, <1>3, <1>f DEF RefundUndo
  <2> QED
    BY <1>1, <1>2, <1>4, <2>1 DEF RefundStep
<1>g. CASE OrderRefundCommit(p)
  <2> DEFINE share == RefundShare(o, task[p].reply.remains)
  <2>1. /\ order' = [order EXCEPT ![o].refunded = TRUE]
        /\ held' = [held EXCEPT ![o] = held[o] - share] /\ share > 0
        /\ task[p].pc = "refundTxn" /\ task'[p].pc = "idle"
        /\ \A q \in Procs \ {p} : task'[q] = task[q]
    BY <1>2, <1>3, <1>g DEF OrderRefundCommit
  <2>2. share \in 0 .. Amount(o)
    BY <1>2, ShareBounds
  <2>3. \E rest \in 0 .. Amount(o) - 1 : held' = [held EXCEPT ![o] = rest]
    <3> HIDE DEF share, o
    <3>1. Amount(o) - share \in 0 .. Amount(o) - 1 /\ held[o] - share = Amount(o) - share
      BY <1>2, <2>1, <2>2
    <3> QED
      BY <2>1, <3>1
  <2> QED
    BY <1>1, <1>2, <1>4, <2>1, <2>3 DEF RefundStep
<1>h. CASE OrderRefundReject(p)
  BY <1>1, <1>2, <1>3, <1>h DEF OrderRefundReject, RefundStep
<1> QED
  BY <1>1, <1>2, <1>a, <1>b, <1>c, <1>d, <1>e, <1>f, <1>g, <1>h DEF RefundNext

(* The one in charge stays the only one, also when it takes a commit for   *)
(* an abort.                                                               *)
LEMMA RefundOnce ==
  ASSUME MInv, NEW p \in Procs, RefundNext(p)
  PROVE  OneRefunder'
<1> DEFINE o == task[p].o
<1>1. task[p].pc \in RefundSteps /\ RefundStep(p, o)
  BY RefundSplit
<1>2. /\ o \in Orders /\ held[o] \in Int /\ Amount(o) \in Nat \ {0}
      /\ task[p].pc # "refundUndo" => held[o] = Amount(o)
      /\ \A q \in Procs : task[q].pc \in RefundSteps /\ task[q].o = o => q = p
  BY <1>1, AtRefund
<1>3. held \in [Orders -> Int] /\ OneRefunder
  BY DEF MInv, IInv, TypeOK
<1>4. /\ \A x \in Orders : 0 <= held'[x] /\ held'[x] <= Amount(x)
      /\ \A x \in Orders \ {o} : held'[x] = held[x]
      /\ task'[p].pc \in RefundSteps \ {"refundUndo"} => held'[o] = Amount(o)
  <2>1. CASE held' = held
    BY <1>1, <1>2, <1>3, <2>1 DEF RefundStep, OneRefunder
  <2>2. CASE /\ \E rest \in 0 .. Amount(o) - 1 : held' = [held EXCEPT ![o] = rest]
             /\ task'[p].pc \notin RefundSteps \ {"refundUndo"}
    <3>1. PICK rest \in 0 .. Amount(o) - 1 : held' = [held EXCEPT ![o] = rest]
      BY <2>2
    <3> QED
      BY <1>2, <1>3, <2>2, <3>1 DEF OneRefunder
  <2> QED
    BY <1>1, <2>1, <2>2 DEF RefundStep
<1>5. \A q \in Procs : task[q].pc \in RefundSteps => task[q].o \in Orders
  BY DEF MInv, IInv, TaskOK, RefundSteps
<1>6. /\ \A q \in Procs \ {p} : task'[q] = task[q]
      /\ task'[p].pc \in RefundSteps => task'[p].o = o
  BY <1>1 DEF RefundStep
<1> HIDE DEF o
<1>7. ASSUME NEW q \in Procs, task'[q].pc \in RefundSteps
      PROVE  /\ task'[q].pc # "refundUndo" => held'[task'[q].o] = Amount(task'[q].o)
             /\ \A r \in Procs :
                   task'[r].pc \in RefundSteps /\ task'[r].o = task'[q].o => r = q
  <2>1. CASE q = p
    BY <1>2, <1>4, <1>6, <1>7, <2>1
  <2>2. CASE q # p
    <3>1. task'[q] = task[q] /\ task[q].o \in Orders \ {o}
      BY <1>2, <1>5, <1>6, <1>7, <2>2
    <3> QED
      BY <1>3, <1>4, <1>6, <1>7, <3>1 DEF OneRefunder
  <2> QED
    BY <2>1, <2>2
<1> QED
  BY <1>4, <1>7 DEF OneRefunder, Amount

LEMMA NextOnce == MInv /\ [Next]_vars => MInv'
<1> SUFFICES ASSUME MInv, [Next]_vars PROVE OneRefunder'
  BY NextInv DEF MInv
<1>1. CASE Next
  BY <1>1, StepKinds, QuietOnce, StutterOnce, RefundOnce DEF MInv
<1>2. CASE UNCHANGED vars
  BY <1>2, StutterOnce DEF vars
<1> QED
  BY <1>1, <1>2

-----------------------------------------------------------------------------
(* The flag.                                                               *)

LEMMA InitFlag == Init => FlagInv
<1> SUFFICES ASSUME Init PROVE FlagOnRecord
  BY InitOnce DEF FlagInv
<1>1. \A p \in Procs : task[p].pc \notin Repaying
  BY DEF Init, Scheduled, NoTask, Repaying, Procs
<1> QED
  BY <1>1 DEF Init, FlagOnRecord

(* A step that moves no money takes nobody into the middle of a refund.    *)
LEMMA QuietFlag ==
  ASSUME FlagInv, NEW p \in Procs, NEW o \in Orders, QuietStep(p, o)
  PROVE  FlagOnRecord'
<1>1. held' = held /\ \A x \in Orders : order'[x].refunded = order[x].refunded
  BY DEF QuietStep
<1>2. \A q \in Procs : task'[q].pc \in Repaying => task'[q] = task[q]
  BY DEF QuietStep
<1>3. \A q \in Procs : task[q].pc \in Repaying => task[q].o \in Orders
  BY DEF FlagInv, MInv, IInv, TaskOK, Repaying
<1> QED
  BY <1>1, <1>2, <1>3 DEF FlagInv, FlagOnRecord, Amount

(* A refund that does not commit behind the back of its caller keeps the   *)
(* flag up from before the credit until after it.                          *)
LEMMA RefundFlags ==
  ASSUME FlagInv, "unknown_commit" \notin Faults, NEW p \in Procs, RefundNext(p)
  PROVE  FlagOnRecord'
<1> DEFINE o == task[p].o
<1>1. task[p].pc \in RefundSteps /\ RefundStep(p, o)
  BY RefundSplit DEF FlagInv
<1>2. /\ o \in Orders /\ order[o] \in OrderDoc /\ Amount(o) \in Nat \ {0} /\ task[p] \in Task
      /\ \A q \in Procs : task[q].pc \in RefundSteps /\ task[q].o = o => q = p
      /\ NoTask.pc = "idle"
  BY <1>1, AtRefund DEF FlagInv, NoTask
<1>3. /\ order \in [Orders -> OrderDoc] /\ held \in [Orders -> Int] /\ task \in [Procs -> Task]
      /\ FlagOnRecord
  BY DEF FlagInv, MInv, IInv, TypeOK
(* The others, and the other orders.                                       *)
<1>4. ASSUME NEW q \in Procs \ {p}, task'[q].pc \in Repaying
      PROVE  order'[task'[q].o].refunded /\ held'[task'[q].o] = Amount(task'[q].o)
  <2>1. task'[q] = task[q] /\ task[q].pc \in RefundSteps /\ task[q].o \in Orders \ {o}
    BY <1>1, <1>2, <1>4 DEF RefundStep, Repaying, RefundSteps, FlagInv, MInv, IInv, TaskOK
  <2>2. order'[task[q].o] = order[task[q].o] /\ held'[task[q].o] = held[task[q].o]
    BY <1>1, <1>3, <2>1 DEF RefundStep
  <2> QED
    BY <1>3, <1>4, <2>1, <2>2 DEF FlagOnRecord
<1>5. ASSUME NEW x \in Orders \ {o}, ~order'[x].refunded
      PROVE  held'[x] = Amount(x)
  BY <1>1, <1>3, <1>5 DEF RefundStep, FlagOnRecord
(* The process and its order.                                              *)
<1>6. /\ ~order'[o].refunded => held'[o] = Amount(o)
      /\ task'[p].pc \in Repaying =>
            task'[p].o = o /\ order'[o].refunded /\ held'[o] = Amount(o)
  <2> USE DEF Repaying
  <2>a. CASE RefundFlag(p)
    <3>1. /\ order'[o].refunded /\ held' = held /\ ~order[o].refunded /\ task'[p].o = o
      BY <1>2, <1>3, <2>a DEF RefundFlag, Task, OrderDoc
    <3> QED
      BY <1>2, <1>3, <3>1 DEF FlagOnRecord
  <2>b. CASE RefundAlreadyFlagged(p)
    BY <1>2, <1>3, <2>b DEF RefundAlreadyFlagged, FlagOnRecord
  <2>c. CASE RefundCredit(p)
    BY <1>2, <1>3, <2>c DEF RefundCredit, FlagOnRecord
  <2>d. CASE RefundNothingOrAbort(p)
    <3>1. order' = order /\ held' = held /\ task[p].pc = "refundCredit" /\ task'[p].o = o
      BY <1>2, <1>3, <2>d DEF RefundNothingOrAbort, Task
    <3> QED
      BY <1>2, <1>3, <3>1 DEF FlagOnRecord
  <2>e. CASE RefundCommitUnknown(p)
    BY <2>e DEF RefundCommitUnknown
  <2>f. CASE RefundUndo(p)
    <3>1. held' = held /\ task[p].pc = "refundUndo" /\ task'[p].pc = "idle"
      BY <1>2, <1>3, <2>f DEF RefundUndo
    <3> QED
      BY <1>2, <1>3, <3>1 DEF FlagOnRecord
  <2>g. CASE OrderRefundCommit(p)
    BY <1>2, <1>3, <2>g DEF OrderRefundCommit, OrderDoc
  <2>h. CASE OrderRefundReject(p)
    BY <1>2, <1>3, <2>h DEF OrderRefundReject, FlagOnRecord
  <2> QED
    BY <2>a, <2>b, <2>c, <2>d, <2>e, <2>f, <2>g, <2>h DEF RefundNext
<1>7. \A q \in Procs : task'[q].pc \in Repaying =>
         order'[task'[q].o].refunded /\ held'[task'[q].o] = Amount(task'[q].o)
  BY <1>4, <1>6
<1>8. \A x \in Orders : ~order'[x].refunded => held'[x] = Amount(x)
  BY <1>5, <1>6
<1> QED
  BY <1>7, <1>8 DEF FlagOnRecord, Amount

LEMMA NextFlag ==
  ASSUME "unknown_commit" \notin Faults
  PROVE  FlagInv /\ [Next]_vars => FlagInv'
<1> SUFFICES ASSUME FlagInv, [Next]_vars PROVE FlagOnRecord'
  BY NextOnce DEF FlagInv
<1>1. UNCHANGED <<order, held, task>> => FlagOnRecord'
  BY DEF FlagInv, FlagOnRecord, Amount, Repaying
<1>2. CASE Next
  BY <1>1, <1>2, StepKinds, QuietFlag, RefundFlags DEF FlagInv, MInv
<1>3. CASE UNCHANGED vars
  BY <1>1, <1>3 DEF vars
<1> QED
  BY <1>2, <1>3

(* Whatever was paid back is flagged, between the two operations of a      *)
(* refund, after a crash there and while an aborted refund is undone: for  *)
(* any number of orders and workers, as long as a commit whose             *)
(* acknowledgement is lost is not taken for an abort.                      *)
THEOREM EngineFlagsRefunds ==
  ASSUME "unknown_commit" \notin Faults
  PROVE  Spec => []PaidBackIsFlagged
<1>1. FlagInv => PaidBackIsFlagged
  BY ShareBounds DEF FlagInv, FlagOnRecord, PaidBackIsFlagged
<1> QED
  BY InitFlag, NextFlag, <1>1, PTL DEF Spec

-----------------------------------------------------------------------------
(* The refinement: the engine's steps are the promise's, or invisible to   *)
(* it.                                                                     *)

(* The outcome of an order, as Promise reads it.                           *)
Outcome(s) ==
    CASE s \in {PENDING, PROCESSING} -> "open"
      [] s \in Undelivered -> "owed"
      [] OTHER -> "kept"

LEMMA Outcomes ==
  /\ Outcome(PROCESSING) = "open" /\ Outcome(PENDING) = "open"
  /\ \A s \in OrderStatus : Outcome(s) \in {"open", "kept", "owed"}
  /\ \A s \in Undelivered : Outcome(s) = "owed"
<1>1. Outcome(PROCESSING) = "open" /\ Outcome(PENDING) = "open"
  BY DEF Outcome, Undelivered, PENDING, PROCESSING, FAILED, CANCELED, PARTIAL
<1>2. \A s \in OrderStatus : Outcome(s) \in {"open", "kept", "owed"}
  BY DEF Outcome
<1>3. \A s \in Undelivered : Outcome(s) = "owed"
  BY DEF Outcome, Undelivered, PENDING, PROCESSING, FAILED, CANCELED, PARTIAL
<1> QED
  BY <1>1, <1>2, <1>3

(* Promise in the engine's own terms.                                      *)
LEMMA PromiseSteps ==
  /\ Promise!vars = <<[o \in Orders |-> Outcome(order[o].status)], held>>
  /\ Promise!Init <=> /\ [o \in Orders |-> Outcome(order[o].status)] = [o \in Orders |-> "open"]
                      /\ held = [o \in Orders |-> Amount(o)]
  BY DEF Promise!vars, Promise!Init, Outcome

LEMMA InitPromise == Init => Promise!Init
<1> SUFFICES ASSUME Init PROVE Promise!Init
  OBVIOUS
<1>1. \A o \in Orders : order[o].status \in {PENDING, PROCESSING}
  BY NoTaskType DEF Init, NewOrder, NoDoc, OrderDoc
<1>2. [o \in Orders |-> Outcome(order[o].status)] = [o \in Orders |-> "open"]
  BY <1>1, Outcomes
<1> QED
  BY <1>2, PromiseSteps DEF Init

(* A step that leaves status and money alone is a stutter of the promise.  *)
LEMMA PromiseStutter ==
  ASSUME \A x \in Orders : order'[x].status = order[x].status, held' = held
  PROVE  Promise!vars' = Promise!vars
<1>1. [o \in Orders |-> Outcome(order'[o].status)] = [o \in Orders |-> Outcome(order[o].status)]
  OBVIOUS
<1> QED
  BY <1>1 DEF Promise!vars, Outcome

LEMMA PromiseClose ==
  ASSUME MInv, NEW p \in Procs, NEW o \in Orders, QuietStep(p, o), order'[o] \in OrderDoc,
         order'[o].status # order[o].status
  PROVE  Promise!Close(o) \/ Promise!vars' = Promise!vars
<1>1. /\ held' = held /\ IsProcessing(o)
      /\ \A x \in Orders \ {o} : order'[x].status = order[x].status
  BY DEF QuietStep
<1> DEFINE old == [x \in Orders |-> Outcome(order[x].status)]
           new == [x \in Orders |-> Outcome(order'[x].status)]
           verdict == Outcome(order'[o].status)
<1>2. old[o] = "open" /\ new = [old EXCEPT ![o] = verdict]
  BY <1>1, Outcomes
<1>3. verdict \in {"open", "kept", "owed"}
  BY Outcomes DEF OrderDoc
<1>4. CASE verdict = "open"
  <2>1. new = old
    BY <1>2, <1>4
  <2> QED
    BY <1>1, <2>1 DEF Promise!vars, Outcome
<1>5. CASE verdict \in {"kept", "owed"}
  BY <1>1, <1>2, <1>5 DEF Promise!Close, Outcome
<1> QED
  BY <1>3, <1>4, <1>5

LEMMA PromisePayBack ==
  ASSUME MInv, NEW o \in Orders, NEW rest \in 0 .. Amount(o) - 1,
         order[o].status \in Undelivered, held[o] = Amount(o),
         held' = [held EXCEPT ![o] = rest],
         \A x \in Orders : order'[x].status = order[x].status
  PROVE  Promise!PayBack(o)
<1>1. [x \in Orders |-> Outcome(order'[x].status)] = [x \in Orders |-> Outcome(order[x].status)]
  OBVIOUS
<1>2. Outcome(order[o].status) = "owed"
  BY Outcomes
<1> QED
  BY <1>1, <1>2 DEF Promise!PayBack, Outcome

LEMMA PromiseRefund ==
  ASSUME MInv, NEW p \in Procs, RefundNext(p)
  PROVE  Promise!Next \/ Promise!vars' = Promise!vars
<1> DEFINE o == task[p].o
<1>1. task[p].pc \in RefundSteps /\ o \in Orders /\ RefundStep(p, o)
  BY RefundSplit
<1>2. order[o].status \in Undelivered
  BY <1>1, AtRefund
<1>3. \A x \in Orders : order'[x].status = order[x].status
  BY <1>1 DEF RefundStep
<1> HIDE DEF o
<1>4. CASE held' = held
  BY <1>3, <1>4, PromiseStutter
<1>5. CASE held[o] = Amount(o) /\ \E rest \in 0 .. Amount(o) - 1 : held' = [held EXCEPT ![o] = rest]
  <2>1. PICK rest \in 0 .. Amount(o) - 1 : held' = [held EXCEPT ![o] = rest]
    BY <1>5
  <2>2. Promise!PayBack(o)
    BY <1>1, <1>2, <1>3, <1>5, <2>1, PromisePayBack
  <2> QED
    BY <1>1, <2>2 DEF Promise!Next
<1> QED
  BY <1>1, <1>4, <1>5 DEF RefundStep

LEMMA NextPromise ==
  ASSUME MInv, [Next]_vars
  PROVE  [Promise!Next]_(Promise!vars)
<1>0. MInv' /\ order' \in [Orders -> OrderDoc]
  BY NextOnce DEF MInv, IInv, TypeOK
<1>1. ASSUME NEW p \in Procs, NEW o \in Orders, QuietStep(p, o)
      PROVE  Promise!Next \/ Promise!vars' = Promise!vars
  <2>1. CASE order'[o].status # order[o].status
    BY <1>0, <1>1, <2>1, PromiseClose DEF Promise!Next
  <2>2. CASE order'[o].status = order[o].status
    <3>1. held' = held /\ \A x \in Orders : order'[x].status = order[x].status
      BY <1>1, <2>2 DEF QuietStep
    <3> QED
      BY <3>1, PromiseStutter
  <2> QED
    BY <2>1, <2>2
<1>2. ASSUME UNCHANGED <<order, held>> PROVE Promise!vars' = Promise!vars
  BY <1>2, PromiseStutter
<1>3. CASE Next
  BY <1>1, <1>2, <1>3, StepKinds, PromiseRefund DEF MInv
<1>4. CASE UNCHANGED vars
  BY <1>2, <1>4 DEF vars
<1> QED
  BY <1>3, <1>4

(* The engine keeps the promise of Settlement: whatever executors, cron    *)
(* runs, providers, crashes, aborted transactions and commits that are     *)
(* taken for aborts do, an order is closed once, for good, and what was    *)
(* taken for it is paid back at most once, after it was closed as          *)
(* undelivered.                                                            *)
THEOREM EngineKeepsPromise == Spec => ImplementsSettlement
<1>1. MInv /\ [Next]_vars => [Promise!Next]_(Promise!vars)
  BY NextPromise
<1> QED
  BY InitOnce, InitPromise, NextOnce, <1>1, PTL DEF Spec, ImplementsSettlement, Promise!Spec

-----------------------------------------------------------------------------
(* Closed as what was reported.                                            *)

LEMMA NextReported == IInv /\ ClosedAsReported /\ [Next]_vars => ClosedAsReported'
<1> SUFFICES ASSUME IInv, ClosedAsReported, [Next]_vars,
                    NEW x \in Orders
             PROVE  SaysSo(order'[x])
  BY DEF ClosedAsReported, SaysSo
<1>1. SaysSo(order[x]) /\ order \in [Orders -> OrderDoc]
  BY DEF ClosedAsReported, SaysSo, IInv, TypeOK
<1>2. CASE /\ order'[x].status = order[x].status
           /\ order'[x].providerStatus = order[x].providerStatus
  BY <1>1, <1>2 DEF SaysSo
<1>3. ASSUME NEW p \in Procs, NEW o \in Orders, QuietStep(p, o) PROVE SaysSo(order'[x])
  BY <1>2, <1>3 DEF QuietStep
<1>4. ASSUME NEW p \in Procs, RefundNext(p) PROVE SaysSo(order'[x])
  BY <1>1, <1>2, <1>4 DEF RefundNext, RefundFlag, RefundAlreadyFlagged, RefundCredit,
         RefundNothingOrAbort, RefundCommitUnknown, RefundUndo, OrderRefundCommit,
         OrderRefundReject, OrderDoc
<1>5. CASE UNCHANGED order
  BY <1>2, <1>5
<1> QED
  BY <1>3, <1>4, <1>5, StepKinds DEF vars

(* An order is closed as what its provider reported, whoever wins the race *)
(* to close it, with every alias of every adapter: for each of them the    *)
(* engine's three questions to statusMapper.js have consistent answers.    *)
THEOREM ClosedAsProviderSaid == Spec => []ClosedAsReported
<1>1. Init => ClosedAsReported
  <2> SUFFICES ASSUME Init, NEW o \in Orders PROVE SaysSo(order[o])
    BY DEF ClosedAsReported, SaysSo
  <2>1. order[o].status \in {PENDING, PROCESSING}
    BY NoTaskType DEF Init, NewOrder, NoDoc, OrderDoc
  <2> QED
    BY <2>1 DEF SaysSo, PENDING, PROCESSING, COMPLETED, PARTIAL, CANCELED
<1> QED
  BY InitInv, NextInv, <1>1, NextReported, PTL DEF Spec

-----------------------------------------------------------------------------
(***************************************************************************)
(* The goods and the money: what a provider has delivered for an order is  *)
(* paid for, however late its answers arrive.  The engine asks for a       *)
(* placement once, and a status that admits a refund says what became of   *)
(* it, so no refund is wider than what was left undelivered.               *)
(***************************************************************************)

(* The faults under which the platform is told something untrue: a throw   *)
(* reported as a refusal, a partial delivery without its remains.          *)
Truthful == Faults \cap {"swallow", "no_remains"} = {}

-----------------------------------------------------------------------------

(* The executor may still ask the provider for an order.                   *)
MayPlace(o) == task[o].pc \in {"scheduled", "loaded", "claimed"}

(* The executor asks once, and not before it is there.                     *)
OnePlacement(o) ==
    /\ Len(remote[o]) <= 1
    /\ MayPlace(o) \/ task[o].pc = "refused" => remote[o] = <<>>
    /\ \A k \in DOMAIN remote[o] :
          toInternalStatus(remote[o][k].status) = PARTIAL => remote[o][k].remains \in 1 .. Quantity

(* Nothing of the order was or will be delivered.                          *)
Dead(o) ==
    \A k \in DOMAIN remote[o] : toInternalStatus(remote[o][k].status) \in {FAILED, CANCELED}

(* A status that admits a refund says what became of the placement.        *)
ClosedForGood(o) ==
    /\ order[o].status \in Undelivered => ~MayPlace(o)
    /\ order[o].status \in {FAILED, CANCELED} => Dead(o)
    /\ order[o].status = PARTIAL =>
          /\ remote[o] # <<>> /\ toInternalStatus(remote[o][1].status) = PARTIAL

(* What a process has heard of a placement that has ended still holds, and *)
(* what it is about to refund is what was not delivered.                   *)
HeardRight(p) ==
    LET o == task[p].o
        reply == task[p].reply
    IN
    /\ task[p].pc \in {"answered", "recover", "apply"} /\ reply.success /\ isTerminal(reply.status) =>
          /\ remote[o] # <<>>
          /\ remote[o][1].status = reply.status /\ remote[o][1].remains = reply.remains
    /\ task[p].pc \in {"recover", "apply"} => reply.success
    /\ task[p].pc = "answered" /\ ~reply.success => remote[o] = <<>>
    /\ task[p].pc = "refundTxn" /\ order[o].status = PARTIAL =>
          reply.remains = remote[o][1].remains
    /\ task[p].pc \in RefundSteps \ {"refundTxn"} => order[o].status \in {FAILED, CANCELED}

GoodsInv ==
    /\ MInv
    /\ \A o \in Orders : OnePlacement(o) /\ ClosedForGood(o)
    /\ \A p \in Procs : HeardRight(p)
    /\ NoFreeGoods

(* What holds of one order.                                                *)
Paid(o) == \A k \in DOMAIN remote[o] : held[o] >= Delivered(o, remote[o][k])

LEMMA GoodsOf ==
  ASSUME GoodsInv
  PROVE  /\ MInv /\ IInv
         /\ \A o \in Orders : OnePlacement(o) /\ ClosedForGood(o) /\ Paid(o)
         /\ \A p \in Procs : HeardRight(p)
  BY DEF GoodsInv, MInv, NoFreeGoods, Paid

-----------------------------------------------------------------------------
(* What a placement is worth.                                              *)

LEMMA EndedFacts ==
  ASSUME NEW s
  PROVE  /\ isTerminal(s) <=> toInternalStatus(s) \in {COMPLETED, FAILED, CANCELED, PARTIAL}
         /\ PARTIAL \notin {FAILED, CANCELED}
         /\ PROCESSING \notin Undelivered /\ Undelivered = {FAILED, CANCELED, PARTIAL}
         /\ PROCESSING \notin {COMPLETED, FAILED, CANCELED, PARTIAL}
         /\ COMPLETED \notin Undelivered /\ MANUAL_REVIEW \notin Undelivered
  BY DEF isTerminal, Undelivered, PROCESSING, COMPLETED, FAILED, CANCELED, PARTIAL, MANUAL_REVIEW

LEMMA QuotientExact ==
  ASSUME NEW a \in Nat, NEW q \in Nat \ {0}
  PROVE  (q * a) \div q = a
<1> DEFINE x == q * a
           d == x \div q
<1>1. x \in Nat
  OBVIOUS
<1>2. d \in Nat /\ q * d <= x
  BY <1>1, QuotientBelow
<1>3. x < q * d + q
  BY <1>1
<1>4. q * (d + 1) = q * d + q
  BY <1>2
<1>5. d <= a
  <2> HIDE DEF d
  <2> QED  BY <1>2, ProductCancels
<1>6. ~(d + 1 <= a)
  <2> SUFFICES ASSUME d + 1 <= a PROVE FALSE
    OBVIOUS
  <2> HIDE DEF d
  <2>1. (d + 1) * q <= a * q
    BY <1>2, ProductMonotone
  <2> QED
    BY <1>2, <1>3, <1>4, <2>1
<1> HIDE DEF d
<1>7. d = a
  BY <1>2, <1>5, <1>6
<1> QED
  BY <1>7 DEF d

LEMMA DeliveredWorth ==
  ASSUME NEW o \in Orders, NEW p, p.remains \in Nat
  PROVE  /\ Delivered(o, p) \in Int /\ Delivered(o, p) <= Amount(o)
         /\ toInternalStatus(p.status) \in {FAILED, CANCELED} => Delivered(o, p) = 0
         /\ toInternalStatus(p.status) = PARTIAL =>
                Delivered(o, p) = Amount(o) - (p.remains * Amount(o)) \div Quantity
<1> DEFINE share == (p.remains * Amount(o)) \div Quantity
<1>1. Amount(o) \in Nat \ {0} /\ Quantity \in Nat \ {0}
  BY ShareBounds, AmountAssumption
<1>2. share \in Nat
  <2>1. p.remains * Amount(o) \in Nat
    BY <1>1
  <2> QED
    BY <1>1, <2>1, QuotientBelow
<1> HIDE DEF share
<1>3. Delivered(o, p) = CASE toInternalStatus(p.status) = COMPLETED -> Amount(o)
                          [] toInternalStatus(p.status) = PARTIAL   -> Amount(o) - share
                          [] OTHER                                  -> 0
  BY DEF Delivered, share
<1>4. COMPLETED \notin {PARTIAL, FAILED, CANCELED} /\ PARTIAL \notin {FAILED, CANCELED}
  BY DEF COMPLETED, PARTIAL, FAILED, CANCELED
<1>5. toInternalStatus(p.status) = COMPLETED => Delivered(o, p) = Amount(o)
  BY <1>3, <1>4
<1>6. toInternalStatus(p.status) = PARTIAL => Delivered(o, p) = Amount(o) - share
  BY <1>3, <1>4
<1>7. toInternalStatus(p.status) \notin {COMPLETED, PARTIAL} => Delivered(o, p) = 0
  BY <1>3, <1>4
<1>8. /\ Delivered(o, p) \in Int /\ Delivered(o, p) <= Amount(o)
      /\ toInternalStatus(p.status) \in {FAILED, CANCELED} => Delivered(o, p) = 0
  <2>1. CASE toInternalStatus(p.status) = COMPLETED
    BY <1>1, <1>4, <1>5, <2>1
  <2>2. CASE toInternalStatus(p.status) = PARTIAL
    <3>1. Amount(o) - share \in Int /\ Amount(o) - share <= Amount(o)
      BY <1>1, <1>2
    <3> QED
      BY <1>4, <1>6, <2>2, <3>1
  <2>3. CASE toInternalStatus(p.status) \notin {COMPLETED, PARTIAL}
    BY <1>1, <1>7, <2>3
  <2> QED
    BY <2>1, <2>2, <2>3
<1>9. toInternalStatus(p.status) = PARTIAL =>
         Delivered(o, p) = Amount(o) - (p.remains * Amount(o)) \div Quantity
  BY <1>6 DEF share
<1> QED
  BY <1>8, <1>9

-----------------------------------------------------------------------------
(* What the others have heard stays true.                                  *)

LEMMA OthersHeard ==
  ASSUME GoodsInv, NEW q \in Procs, task'[q] = task[q],
         order'[task[q].o].status = order[task[q].o].status \/ IsProcessing(task[q].o),
         remote[task[q].o] # <<>> /\ isTerminal(remote[task[q].o][1].status) =>
            remote'[task[q].o] # <<>> /\ remote'[task[q].o][1] = remote[task[q].o][1],
         task[q].pc = "answered" /\ ~task[q].reply.success => remote'[task[q].o] = <<>>
  PROVE  HeardRight(q)'
<1> DEFINE o == task[q].o
<1>1. task[q].pc # "idle" => o \in Orders
  BY DEF GoodsInv, MInv, IInv, TaskOK
<1>2. HeardRight(q) /\ (o \in Orders => ClosedForGood(o))
  BY GoodsOf
<1>3. task[q].pc \in RefundSteps => order[o].status \in Undelivered
  BY DEF GoodsInv, MInv, IInv, RefundersHaveClosed
<1>4. task[q].pc \in RefundSteps => order'[o].status = order[o].status
  BY <1>3, EndedFacts
<1>5. "refundTxn" \in RefundSteps
  BY DEF RefundSteps
<1>6. /\ task[q].pc \in {"answered", "recover", "apply"} /\ task[q].reply.success
         /\ isTerminal(task[q].reply.status) =>
            /\ remote'[o] # <<>>
            /\ remote'[o][1].status = task[q].reply.status
            /\ remote'[o][1].remains = task[q].reply.remains
  BY <1>2 DEF HeardRight
<1>7. task[q].pc = "refundTxn" /\ order'[o].status = PARTIAL =>
         task[q].reply.remains = remote'[o][1].remains
  <2> SUFFICES ASSUME task[q].pc = "refundTxn", order'[o].status = PARTIAL
               PROVE  task[q].reply.remains = remote'[o][1].remains
    OBVIOUS
  <2>1. order[o].status = PARTIAL /\ o \in Orders
    BY <1>1, <1>4, <1>5
  <2>2. remote[o] # <<>> /\ isTerminal(remote[o][1].status)
    BY <1>2, <2>1, EndedFacts DEF ClosedForGood
  <2> QED
    BY <1>2, <2>1, <2>2 DEF HeardRight
<1> QED
  BY <1>2, <1>4, <1>6, <1>7 DEF HeardRight

-----------------------------------------------------------------------------
(* The steps of the platform, which move no goods.                         *)

(* Process p does not become an executor that is about to place.           *)
NoNewPlacer(p) ==
    task'[p].pc \in {"scheduled", "loaded", "claimed", "refused"} =>
        MayPlace(p) /\ task[p].o = p

(* Process p writes order o and moves on, with a good reason to close the  *)
(* order or to pay it back.                                                *)
PaperStep(p, o) ==
    /\ UNCHANGED remote
    /\ \A x \in Orders : held'[x] = held[x] \/ Paid(x)'
    /\ \A x \in Orders \ {o} : order'[x] = order[x]
    /\ \A q \in Procs \ {p} : task'[q] = task[q]
    /\ \/ order'[o].status = order[o].status
       \/ IsProcessing(o) /\ ClosedForGood(o)'
    /\ NoNewPlacer(p)
    /\ HeardRight(p)'

LEMMA PaperGoods ==
  ASSUME GoodsInv, MInv', NEW p \in Procs, NEW o \in Orders, PaperStep(p, o)
  PROVE  GoodsInv'
<1>1. \A x \in Orders : (MayPlace(x) => remote[x] = <<>>) /\ x \in Procs
  BY GoodsOf, ProcTypes DEF OnePlacement
<1>2. ASSUME NEW x \in Orders
      PROVE  /\ MayPlace(x)' => MayPlace(x)
             /\ (task'[x].pc = "refused") => (task[x].pc = "refused" \/ MayPlace(x))
  BY <1>1 DEF PaperStep, NoNewPlacer, MayPlace
<1>3. ASSUME NEW x \in Orders PROVE OnePlacement(x)'
  BY <1>1, <1>2, GoodsOf DEF PaperStep, OnePlacement
<1>4. ASSUME NEW x \in Orders PROVE ClosedForGood(x)'
  <2>1. CASE x = o /\ order'[o].status # order[o].status
    BY <2>1 DEF PaperStep
  <2>2. CASE order'[x].status = order[x].status
    BY <1>2, <2>2, GoodsOf DEF PaperStep, ClosedForGood, Dead
  <2> QED
    BY <2>1, <2>2 DEF PaperStep
<1>5. ASSUME NEW q \in Procs PROVE HeardRight(q)'
  <2>1. CASE q = p
    BY <2>1 DEF PaperStep
  <2>2. CASE q # p
    <3>1. task'[q] = task[q] /\ remote' = remote
      BY <2>2 DEF PaperStep
    <3>2. task[q].pc # "idle" => task[q].o \in Orders
      BY DEF GoodsInv, MInv, IInv, TaskOK
    <3>3. CASE task[q].pc = "idle"
      BY <3>1, <3>3 DEF HeardRight, RefundSteps
    <3>4. CASE task[q].o \in Orders
      <4>1. order'[task[q].o].status = order[task[q].o].status \/ IsProcessing(task[q].o)
        BY <3>4 DEF PaperStep
      <4>2. task[q].pc = "answered" /\ ~task[q].reply.success => remote'[task[q].o] = <<>>
        BY <3>1, GoodsOf DEF HeardRight
      <4> QED
        BY <3>1, <4>1, <4>2, OthersHeard
    <3> QED
      BY <3>2, <3>3, <3>4
  <2> QED
    BY <2>1, <2>2
<1>6. NoFreeGoods'
  <2>1. ASSUME NEW x \in Orders PROVE Paid(x)'
    <3>1. CASE held'[x] = held[x]
      BY <3>1, GoodsOf DEF PaperStep, Paid, Delivered, Amount
    <3> QED
      BY <3>1 DEF PaperStep
  <2> QED
    BY <2>1 DEF NoFreeGoods, Paid
<1> QED
  BY <1>3, <1>4, <1>5, <1>6 DEF GoodsInv

LEMMA StutterGoods ==
  ASSUME GoodsInv, MInv', UNCHANGED vars
  PROVE  GoodsInv'
<1>1. ASSUME NEW x \in Orders PROVE OnePlacement(x)' /\ ClosedForGood(x)'
  BY GoodsOf DEF vars, OnePlacement, ClosedForGood, Dead, MayPlace
<1>2. ASSUME NEW q \in Procs PROVE HeardRight(q)'
  BY GoodsOf DEF vars, HeardRight
<1>3. NoFreeGoods'
  BY GoodsOf DEF vars, Paid, NoFreeGoods, Delivered, Amount
<1> QED
  BY <1>1, <1>2, <1>3 DEF GoodsInv

(* A report is what the provider's only order says.                        *)
LEMMA ReportSays ==
  ASSUME GoodsInv, Truthful, NEW o \in Orders, NEW k \in DOMAIN remote[o],
         NEW reply \in Report(o, k)
  PROVE  /\ reply.success /\ remote[o] # <<>>
         /\ reply.status = remote[o][1].status /\ reply.remains = remote[o][1].remains
<1>1. remote[o] \in Seq(Placement) /\ Len(remote[o]) <= 1
  BY GoodsOf DEF IInv, TypeOK, OnePlacement
<1>2. k = 1 /\ remote[o] # <<>>
  BY <1>1
<1>3. reply = [success |-> TRUE, status |-> remote[o][k].status, id |-> k,
               remains |-> remote[o][k].remains]
  BY DEF Report, Truthful
<1> QED
  BY <1>2, <1>3

-----------------------------------------------------------------------------
(* The executor.                                                           *)

(* A process that stops, or only goes on elsewhere, hurts nobody.          *)
LEMMA FinishPaper ==
  ASSUME IInv, NEW p \in Procs, NEW o \in Orders, Finish(p),
         UNCHANGED <<held, remote>>,
         \A x \in Orders \ {o} : order'[x] = order[x],
         \/ order'[o].status = order[o].status
         \/ IsProcessing(o) /\ order'[o].status \notin Undelivered
  PROVE  PaperStep(p, o)
<1>1. /\ task'[p] = NoTask /\ NoTask.pc = "idle"
      /\ \A q \in Procs \ {p} : task'[q] = task[q]
  BY DEF IInv, TypeOK, NoTask
<1>2. order'[o].status \notin Undelivered => ClosedForGood(o)'
  BY EndedFacts DEF ClosedForGood
<1> QED
  BY <1>1, <1>2 DEF PaperStep, NoNewPlacer, HeardRight, RefundSteps

LEMMA ExecPaper ==
  ASSUME GoodsInv, Truthful, NEW o \in Orders, ExecStep(o), ~ProviderAccepts(o)
  PROVE  PaperStep(o, o)
<1>0. /\ IInv /\ o \in Procs /\ order \in [Orders -> OrderDoc] /\ task \in [Procs -> Task]
      /\ OnePlacement(o) /\ ClosedForGood(o) /\ HeardRight(o)
  BY GoodsOf, ProcTypes DEF IInv, TypeOK
<1>1. task[o].pc \in ExecSteps /\ task[o].pc # "idle"
  BY DEF ExecStep, ExecLoad, ExecResolveFails, ExecClaim, ProviderRefuses, ExecAccepted,
         ExecRejected, ExecThrown, ExecPersistFailure, ExecPersistPending, ExecPersistPartial,
         ExecPersistCompleted, ExecTooLate, ExecFatal, ProviderAccepts, ExecSteps
<1>2. task[o].o = o /\ task[o] \in Task /\ order[o] \in OrderDoc
  BY <1>0, <1>1, Busy
<1>3. MayPlace(o) => remote[o] = <<>>
  BY <1>0 DEF OnePlacement
<1>a. CASE ExecLoad(o)
  <2>1. CASE Goto(o, "loaded") /\ UNCHANGED <<order, held, remote>> /\ task[o].pc = "scheduled"
    <3>1. /\ task'[o].pc = "loaded" /\ task'[o].o = o
          /\ \A q \in Procs \ {o} : task'[q] = task[q]
      BY <1>0, <1>2, <2>1 DEF Task
    <3> QED
      BY <1>2, <2>1, <3>1 DEF PaperStep, NoNewPlacer, MayPlace, HeardRight, RefundSteps
  <2>2. CASE Finish(o) /\ UNCHANGED <<order, held, remote>>
    BY <1>0, <2>2, FinishPaper
  <2> QED
    BY <1>a, <2>1, <2>2 DEF ExecLoad
<1>b. CASE ExecResolveFails(o)
  <2>1. CASE /\ IsProcessing(o) /\ order' = [order EXCEPT ![o].status = FAILED]
             /\ Goto(o, "refundFlag") /\ UNCHANGED <<held, remote>> /\ task[o].pc = "loaded"
    <3>1. /\ task'[o].pc = "refundFlag" /\ task'[o].o = o /\ order'[o].status = FAILED
          /\ \A q \in Procs \ {o} : task'[q] = task[q]
          /\ \A x \in Orders \ {o} : order'[x] = order[x]
      BY <1>0, <1>2, <2>1 DEF Task, OrderDoc
    <3>2. remote'[o] = <<>>
      BY <1>3, <2>1 DEF MayPlace
    <3>3. ClosedForGood(o)'
      BY <3>1, <3>2, EndedFacts DEF ClosedForGood, MayPlace, Dead
    <3>4. HeardRight(o)'
      BY <3>1 DEF HeardRight
    <3> QED
      BY <2>1, <3>1, <3>3, <3>4 DEF PaperStep, NoNewPlacer
  <2>2. CASE Finish(o) /\ UNCHANGED <<order, held, remote>>
    BY <1>0, <2>2, FinishPaper
  <2> QED
    BY <1>b, <2>1, <2>2 DEF ExecResolveFails
<1>c. CASE ExecClaim(o)
  <2>1. CASE /\ order' = [order EXCEPT ![o].providerStatus = UNCERTAIN]
             /\ Goto(o, "claimed") /\ UNCHANGED <<held, remote>> /\ task[o].pc = "loaded"
    <3>1. /\ task'[o].pc = "claimed" /\ task'[o].o = o /\ order'[o].status = order[o].status
          /\ \A q \in Procs \ {o} : task'[q] = task[q]
          /\ \A x \in Orders \ {o} : order'[x] = order[x]
      BY <1>0, <1>2, <2>1 DEF Task, OrderDoc
    <3> QED
      BY <1>2, <2>1, <3>1 DEF PaperStep, NoNewPlacer, MayPlace, HeardRight, RefundSteps
  <2>2. CASE Finish(o) /\ UNCHANGED <<order, held, remote>>
    BY <1>0, <2>2, FinishPaper
  <2> QED
    BY <1>c, <2>1, <2>2 DEF ExecClaim
<1>e. CASE ProviderRefuses(o)
  <2>1. /\ task'[o].pc = "refused" /\ task'[o].o = o /\ task[o].pc = "claimed"
        /\ UNCHANGED <<order, held, remote>>
        /\ \A q \in Procs \ {o} : task'[q] = task[q]
    BY <1>0, <1>2, <1>e DEF ProviderRefuses, Task
  <2> QED
    BY <1>2, <2>1 DEF PaperStep, NoNewPlacer, MayPlace, HeardRight, RefundSteps
<1>f. ASSUME NEW reply \in Reply, ExecAnswered(o, reply),
             reply.success /\ isTerminal(reply.status) =>
                /\ remote[o] # <<>>
                /\ remote[o][1].status = reply.status /\ remote[o][1].remains = reply.remains,
             ~reply.success => remote[o] = <<>>
      PROVE  PaperStep(o, o)
  <2>1. /\ task'[o].pc = "answered" /\ task'[o].o = o /\ task'[o].reply = reply
        /\ UNCHANGED <<order, held, remote>>
        /\ \A q \in Procs \ {o} : task'[q] = task[q]
    BY <1>0, <1>2, <1>f DEF ExecAnswered, Task
  <2>2. HeardRight(o)'
    BY <1>f, <2>1 DEF HeardRight, RefundSteps
  <2> QED
    BY <2>1, <2>2 DEF PaperStep, NoNewPlacer
<1>g. CASE ExecAccepted(o)
  <2>1. PICK reply \in Report(o, task[o].reply.id) : ExecAnswered(o, reply)
    BY <1>g DEF ExecAccepted
  <2>2. task[o].reply.id \in DOMAIN remote[o]
    BY <1>0, <1>2, <1>g DEF ExecAccepted, IInv, SentWasPlaced
  <2> QED
    BY <1>0, <1>f, <2>1, <2>2, ReportSays, ReportType
<1>h. CASE ExecRejected(o)
  <2>1. remote[o] = <<>> /\ ExecAnswered(o, Rejection)
    BY <1>0, <1>h DEF ExecRejected, Truthful, OnePlacement
  <2>2. ~Rejection.success
    BY DEF Rejection, NoReply
  <2> QED
    BY <1>f, <2>1, <2>2, AnswerTypes
<1>i. CASE ExecThrown(o)
  <2>1. ExecAnswered(o, Unknown) /\ Unknown.success /\ Unknown.status = UNCERTAIN
    BY <1>i DEF ExecThrown, Unknown, NoReply
  <2>2. ~isTerminal(UNCERTAIN)
    BY DEF isTerminal, toInternalStatus, UNCERTAIN, CompletedAliases, PartialAliases,
           CanceledAliases, FailedAliases, COMPLETED, FAILED, CANCELED, PARTIAL, PROCESSING
  <2> QED
    BY <1>f, <2>1, <2>2, AnswerTypes
<1>j. CASE ExecPersistFailure(o)
  <2> DEFINE s == NewStatus(task[o].reply)
  <2>1. /\ task'[o].pc = "refundFlag" /\ task'[o].o = o /\ order'[o].status = s
        /\ task[o].pc = "answered" /\ IsProcessing(o) /\ s \in {FAILED, CANCELED}
        /\ UNCHANGED <<held, remote>>
        /\ \A q \in Procs \ {o} : task'[q] = task[q]
    BY <1>0, <1>2, <1>j DEF ExecPersistFailure, Answered, OwnsClaim, Task, OrderDoc
  <2>2. \A x \in Orders \ {o} : order'[x] = order[x]
    BY <1>0, <1>j DEF ExecPersistFailure, Answered
  <2>3. Dead(o)
    <3>1. CASE task[o].reply.success
      <4>1. toInternalStatus(task[o].reply.status) \in {FAILED, CANCELED}
        BY <2>1, <3>1 DEF NewStatus
      <4>2. isTerminal(task[o].reply.status)
        BY <4>1, EndedFacts
      <4>3. remote[o] # <<>> /\ remote[o][1].status = task[o].reply.status
        BY <1>0, <1>2, <2>1, <3>1, <4>2 DEF HeardRight
      <4>4. \A k \in DOMAIN remote[o] : k = 1
        BY <1>0 DEF OnePlacement, IInv, TypeOK
      <4> QED
        BY <4>1, <4>3, <4>4 DEF Dead
    <3>2. CASE ~task[o].reply.success
      BY <1>0, <1>2, <2>1, <3>2 DEF HeardRight, Dead
    <3> QED
      BY <3>1, <3>2
  <2> HIDE DEF s
  <2>4. ClosedForGood(o)'
    BY <2>1, <2>3, EndedFacts DEF ClosedForGood, MayPlace, Dead
  <2>5. HeardRight(o)'
    BY <2>1 DEF HeardRight
  <2> QED
    BY <2>1, <2>2, <2>4, <2>5 DEF PaperStep, NoNewPlacer
<1>k. CASE ExecPersistPending(o)
  <2>1. Finish(o) /\ UNCHANGED <<held, remote>> /\ order'[o].status = order[o].status
    BY <1>0, <1>k DEF ExecPersistPending, Answered, OwnsClaim, OrderDoc
  <2>2. \A x \in Orders \ {o} : order'[x] = order[x]
    BY <1>0, <1>k DEF ExecPersistPending, Answered
  <2> QED
    BY <1>0, <2>1, <2>2, FinishPaper
<1>l. CASE ExecPersistPartial(o)
  <2>1. /\ task'[o].pc = "apply" /\ task'[o].o = o /\ task'[o].reply = task[o].reply
        /\ \A q \in Procs \ {o} : task'[q] = task[q]
    BY <1>0, <1>2, <1>l DEF ExecPersistPartial, Task
  <2>2. /\ UNCHANGED <<held, remote>> /\ order'[o].status = order[o].status
        /\ task[o].pc = "answered"
        /\ \A x \in Orders \ {o} : order'[x] = order[x]
    BY <1>0, <1>l DEF ExecPersistPartial, Answered, OwnsClaim, OrderDoc
  <2>3. task[o].reply.success
    BY <1>l DEF ExecPersistPartial, NewStatus, PARTIAL, FAILED
  <2>4. HeardRight(o)'
    BY <1>0, <1>2, <2>1, <2>2, <2>3 DEF HeardRight, RefundSteps
  <2> QED
    BY <2>1, <2>2, <2>4 DEF PaperStep, NoNewPlacer
<1>m. CASE ExecPersistCompleted(o)
  <2>1. Finish(o) /\ UNCHANGED <<held, remote>> /\ order'[o].status = COMPLETED /\ IsProcessing(o)
    BY <1>0, <1>m DEF ExecPersistCompleted, Answered, OrderDoc
  <2>2. \A x \in Orders \ {o} : order'[x] = order[x]
    BY <1>0, <1>m DEF ExecPersistCompleted, Answered
  <2> QED
    BY <1>0, <2>1, <2>2, EndedFacts, FinishPaper
<1>n. CASE ExecTooLate(o)
  BY <1>0, <1>n, FinishPaper DEF ExecTooLate
<1>o. CASE ExecFatal(o)
  <2>1. Finish(o) /\ UNCHANGED <<held, remote>>
    BY <1>o DEF ExecFatal
  <2>2. CASE IsProcessing(o) /\ order' = [order EXCEPT ![o].status = MANUAL_REVIEW]
    <3>1. order'[o].status = MANUAL_REVIEW /\ \A x \in Orders \ {o} : order'[x] = order[x]
      BY <1>0, <2>2 DEF OrderDoc
    <3> QED
      BY <1>0, <2>1, <2>2, <3>1, EndedFacts, FinishPaper
  <2>3. CASE UNCHANGED order
    BY <1>0, <2>1, <2>3, FinishPaper
  <2> QED
    BY <1>o, <2>2, <2>3 DEF ExecFatal
<1> QED
  BY <1>a, <1>b, <1>c, <1>e, <1>g, <1>h, <1>i, <1>j, <1>k, <1>l, <1>m, <1>n, <1>o DEF ExecStep

-----------------------------------------------------------------------------
(* The provider.  What it adds or finishes is paid for: an order that      *)
(* admits a refund has neither a placement to come nor one at work.        *)

(* The goods of order o change, nothing else of the platform does.         *)
GoodsStep(o) ==
    /\ UNCHANGED <<order, held>>
    /\ order[o].status \notin Undelivered
    /\ \A x \in Orders \ {o} : remote'[x] = remote[x]
    /\ OnePlacement(o)'
    /\ remote'[o] \in Seq(Placement)

LEMMA GoodsPaid ==
  ASSUME GoodsInv, NEW o \in Orders, GoodsStep(o)
  PROVE  Paid(o)'
<1>1. held[o] = Amount(o)
  <2>1. ~(held[o] < Amount(o)) /\ held[o] <= Amount(o) /\ held[o] \in Int
    BY DEF GoodsStep, GoodsInv, MInv, IInv, TypeOK, RefundOnlyAfterFailure, OneRefunder
  <2> QED
    BY <2>1, ShareBounds
<1>2. ASSUME NEW k \in DOMAIN remote'[o] PROVE held'[o] >= Delivered(o, remote'[o][k])
  <2>1. remote'[o][k] \in Placement
    BY <1>2 DEF GoodsStep
  <2>2. remote'[o][k].remains \in Nat
    BY <2>1 DEF Placement
  <2>3. Delivered(o, remote'[o][k]) \in Int /\ Delivered(o, remote'[o][k]) <= Amount(o)
    BY <2>2, DeliveredWorth
  <2>4. Amount(o) \in Int
    BY ShareBounds
  <2> QED
    BY <1>1, <2>3, <2>4 DEF GoodsStep
<1> QED
  BY <1>2 DEF Paid, Delivered, Amount

LEMMA GoodsMoved ==
  ASSUME GoodsInv, MInv', NEW o \in Orders, GoodsStep(o),
         \A x \in Orders \ {o} : OnePlacement(x)' /\ (MayPlace(x)' => MayPlace(x)),
         \A q \in Procs : HeardRight(q)'
  PROVE  GoodsInv'
<1>1. ASSUME NEW x \in Orders PROVE OnePlacement(x)' /\ ClosedForGood(x)' /\ Paid(x)'
  <2>1. CASE x = o
    BY <2>1, GoodsPaid, EndedFacts DEF GoodsStep, ClosedForGood
  <2>2. CASE x # o
    BY <2>2, GoodsOf DEF GoodsStep, ClosedForGood, Dead, Paid, Delivered, Amount
  <2> QED
    BY <2>1, <2>2
<1>2. NoFreeGoods'
  BY <1>1 DEF NoFreeGoods, Paid
<1> QED
  BY <1>1, <1>2 DEF GoodsInv

LEMMA NewPlacement ==
  ASSUME NEW s \in Replies, NEW r \in 1 .. Quantity
  PROVE  /\ PlacementIn(s, r) \in Placement
         /\ toInternalStatus(PlacementIn(s, r).status) = PARTIAL =>
               PlacementIn(s, r).remains \in 1 .. Quantity
  BY PlacementType DEF PlacementIn

LEMMA AcceptGoods ==
  ASSUME GoodsInv, MInv', NEW o \in Orders, ProviderAccepts(o)
  PROVE  GoodsInv'
<1>0. /\ o \in Procs /\ task \in [Procs -> Task] /\ remote \in [Orders -> Seq(Placement)]
      /\ OnePlacement(o) /\ ClosedForGood(o) /\ MayPlace(o) /\ remote[o] = <<>>
  BY GoodsOf, ProcTypes DEF IInv, TypeOK, ProviderAccepts, OnePlacement, MayPlace
<1>1. PICK s \in Replies, r \in 1 .. Quantity :
        remote' = [remote EXCEPT ![o] = Append(remote[o], PlacementIn(s, r))]
  BY DEF ProviderAccepts
<1> DEFINE pl == PlacementIn(s, r)
<1>2. /\ pl \in Placement
      /\ toInternalStatus(pl.status) = PARTIAL => pl.remains \in 1 .. Quantity
  BY NewPlacement
<1> HIDE DEF pl
<1>3. remote'[o] = <<pl>> /\ \A x \in Orders \ {o} : remote'[x] = remote[x]
  BY <1>0, <1>1 DEF pl
<1>4. /\ task'[o].pc = "sent" /\ \A q \in Procs \ {o} : task'[q] = task[q]
      /\ UNCHANGED <<order, held>>
  BY <1>0 DEF ProviderAccepts, Task
<1>5. OnePlacement(o)' /\ remote'[o] \in Seq(Placement)
  BY <1>2, <1>3, <1>4 DEF OnePlacement, MayPlace
<1>6. GoodsStep(o)
  BY <1>0, <1>3, <1>4, <1>5 DEF GoodsStep, ClosedForGood
<1>7. ASSUME NEW x \in Orders \ {o} PROVE OnePlacement(x)' /\ (MayPlace(x)' => MayPlace(x))
  <2>1. task'[x] = task[x] /\ remote'[x] = remote[x] /\ OnePlacement(x)
    BY <1>3, <1>4, GoodsOf, ProcTypes
  <2> QED
    BY <2>1 DEF OnePlacement, MayPlace
<1>8. ASSUME NEW q \in Procs PROVE HeardRight(q)'
  <2>1. CASE q = o
    BY <1>4, <2>1 DEF HeardRight, RefundSteps
  <2>2. CASE q # o
    <3>1. task'[q] = task[q] /\ task[q].pc = "answered" => task[q].o # o
      BY <1>4, <2>2 DEF GoodsInv, MInv, IInv, TaskOK, ExecSteps
    <3>2. CASE task[q].pc = "idle"
      BY <1>4, <2>2, <3>2 DEF HeardRight, RefundSteps
    <3>3. CASE task[q].o \in Orders
      <4>1. task[q].o # o => remote'[task[q].o] = remote[task[q].o]
        BY <1>3, <3>3
      <4>2. task[q].pc = "answered" /\ ~task[q].reply.success => remote'[task[q].o] = <<>>
        BY <2>2, <3>1, <4>1, <1>4, GoodsOf DEF HeardRight
      <4>3. remote[task[q].o] # <<>> => remote'[task[q].o] = remote[task[q].o]
        BY <1>0, <4>1
      <4> QED
        BY <1>4, <2>2, <4>2, <4>3, OthersHeard
    <3> QED
      BY <3>2, <3>3 DEF GoodsInv, MInv, IInv, TaskOK
  <2> QED
    BY <2>1, <2>2
<1> QED
  BY <1>6, <1>7, <1>8, GoodsMoved

LEMMA ProgressGoods ==
  ASSUME GoodsInv, MInv', NEW o \in Orders, NEW k \in DOMAIN remote[o], ProviderProgress(o, k)
  PROVE  GoodsInv'
<1>0. /\ remote \in [Orders -> Seq(Placement)] /\ OnePlacement(o) /\ ClosedForGood(o)
      /\ UNCHANGED <<order, held, task>>
  BY GoodsOf DEF IInv, TypeOK, ProviderProgress
<1>1. PICK s \in Replies, r \in 1 .. Quantity :
        remote' = [remote EXCEPT ![o][k] = PlacementIn(s, r)]
  BY DEF ProviderProgress
<1> DEFINE pl == PlacementIn(s, r)
<1>2. /\ pl \in Placement
      /\ toInternalStatus(pl.status) = PARTIAL => pl.remains \in 1 .. Quantity
  BY NewPlacement
<1> HIDE DEF pl
<1>3. k = 1 /\ remote[o] # <<>> /\ Len(remote[o]) = 1
  <2>1. remote[o] \in Seq(Placement) /\ Len(remote[o]) <= 1
    BY <1>0 DEF OnePlacement
  <2>2. k \in Int /\ 1 <= k /\ k <= Len(remote[o]) /\ Len(remote[o]) \in Nat
    BY <2>1
  <2>3. k = 1 /\ Len(remote[o]) = 1
    <3>1. \A i, n \in Int : 1 <= i /\ i <= n /\ n <= 1 => i = 1 /\ n = 1
      OBVIOUS
    <3>2. Len(remote[o]) \in Int
      BY <2>2
    <3> QED
      BY <2>1, <2>2, <3>1, <3>2, Zenon
  <2>4. remote[o] # <<>>
    BY <2>1, <2>2
  <2> QED
    BY <2>3, <2>4
<1>4. remote'[o] = [remote[o] EXCEPT ![k] = pl] /\ \A x \in Orders \ {o} : remote'[x] = remote[x]
  BY <1>0, <1>1 DEF pl
<1>5. remote'[o] \in Seq(Placement) /\ Len(remote'[o]) = 1 /\ remote'[o][1] = pl
  BY <1>0, <1>2, <1>3, <1>4
<1>6. ~isTerminal(remote[o][1].status)
  BY <1>3 DEF ProviderProgress
<1>7. order[o].status \notin Undelivered
  BY <1>0, <1>3, <1>6, EndedFacts DEF ClosedForGood, Dead
<1>8. OnePlacement(o)'
  BY <1>0, <1>2, <1>3, <1>5 DEF OnePlacement, MayPlace
<1>9. GoodsStep(o)
  BY <1>0, <1>4, <1>5, <1>7, <1>8 DEF GoodsStep
<1>10. ASSUME NEW x \in Orders \ {o} PROVE OnePlacement(x)' /\ (MayPlace(x)' => MayPlace(x))
  <2>1. OnePlacement(x) /\ remote'[x] = remote[x] /\ task' = task
    BY <1>0, <1>4, GoodsOf
  <2> QED
    BY <2>1 DEF OnePlacement, MayPlace
<1>11. ASSUME NEW q \in Procs PROVE HeardRight(q)'
  <2>1. task'[q] = task[q] /\ (task[q].pc # "idle" => task[q].o \in Orders)
    BY <1>0 DEF GoodsInv, MInv, IInv, TaskOK
  <2>2. CASE task[q].pc = "idle"
    BY <2>1, <2>2 DEF HeardRight, RefundSteps
  <2>3. CASE task[q].o \in Orders
    <3>1. task[q].o # o => remote'[task[q].o] = remote[task[q].o]
      BY <1>4, <2>3
    <3>2. /\ remote[task[q].o] # <<>> /\ isTerminal(remote[task[q].o][1].status) =>
                remote'[task[q].o] = remote[task[q].o]
          /\ remote[task[q].o] = <<>> => remote'[task[q].o] = <<>>
      BY <1>3, <1>6, <3>1
    <3> QED
      BY <1>0, <2>1, <3>2, OthersHeard, GoodsOf DEF HeardRight
  <2> QED
    BY <2>1, <2>2, <2>3
<1> QED
  BY <1>9, <1>10, <1>11, GoodsMoved

-----------------------------------------------------------------------------
(* A report is written onto the order.                                     *)

LEMMA ApplyPaper ==
  ASSUME GoodsInv, NEW p \in Procs, NEW o \in Orders, task[p].o = o, ApplyStep(p)
  PROVE  PaperStep(p, o)
<1> DEFINE status == task[p].reply.status
<1>0. /\ IInv /\ order \in [Orders -> OrderDoc] /\ task \in [Procs -> Task]
      /\ remote \in [Orders -> Seq(Placement)]
      /\ task[p].pc = "apply" /\ HeardRight(p)
  BY GoodsOf DEF IInv, TypeOK, ApplyStep, ApplyPending, ApplyCompleted, ApplyPartial, ApplyCanceled,
         ApplyFailed, ApplySkipped, ApplyFinal
<1>1. /\ o \in Orders /\ order[o] \in OrderDoc /\ task[p] \in Task /\ task[p].reply \in Reply
      /\ OnePlacement(o)
  BY <1>0, Busy, GoodsOf
<1>2. CASE Finish(p) /\ UNCHANGED <<order, held, remote>>
  BY <1>0, <1>1, <1>2, FinishPaper
(* What was heard of a placement that has ended.                           *)
<1>3. ASSUME isTerminal(status)
      PROVE  /\ remote[o] # <<>> /\ remote[o][1].status = status
             /\ remote[o][1].remains = task[p].reply.remains
             /\ \A k \in DOMAIN remote[o] : k = 1
             /\ ~MayPlace(o)
  BY <1>0, <1>1, <1>3 DEF HeardRight, OnePlacement, MayPlace
(* The order is closed, and process p goes on to a refund of what is left. *)
<1>4. ASSUME IsProcessing(o), isTerminal(status),
             task'[p].pc \in {"refundTxn", "refundFlag"},
             order'[o].status \in {FAILED, CANCELED} =>
                toInternalStatus(status) \in {FAILED, CANCELED},
             order'[o].status \notin {FAILED, CANCELED} =>
                /\ order'[o].status = PARTIAL /\ toInternalStatus(status) = PARTIAL
                /\ task'[p].pc = "refundTxn" /\ task'[p].reply.remains = task[p].reply.remains,
             task'[p].o = o, \A q \in Procs \ {p} : task'[q] = task[q],
             \A x \in Orders \ {o} : order'[x] = order[x], UNCHANGED <<held, remote>>
      PROVE  PaperStep(p, o)
  <2>1. ~MayPlace(o)'
    <3>1. CASE o = p
      BY <1>4, <3>1 DEF MayPlace
    <3>2. CASE o # p
      BY <1>1, <1>3, <1>4, <3>2, ProcTypes DEF MayPlace
    <3> QED
      BY <3>1, <3>2
  <2>2. ClosedForGood(o)'
    <3>1. order'[o].status \in {FAILED, CANCELED} => Dead(o)
      BY <1>3, <1>4 DEF Dead
    <3>2. order'[o].status = PARTIAL => toInternalStatus(status) = PARTIAL
      BY <1>4, EndedFacts
    <3> QED
      BY <1>3, <1>4, <2>1, <3>1, <3>2 DEF ClosedForGood, Dead
  <2>3. HeardRight(p)'
    <3>1. task'[p].pc = "refundTxn" /\ order'[o].status = PARTIAL =>
             task'[p].reply.remains = task[p].reply.remains
      BY <1>4, EndedFacts
    <3>2. task'[p].pc # "refundTxn" => order'[o].status \in {FAILED, CANCELED}
      BY <1>4
    <3> QED
      BY <1>3, <1>4, <3>1, <3>2 DEF HeardRight, RefundSteps
  <2> QED
    BY <1>4, <2>2, <2>3 DEF PaperStep, NoNewPlacer
<1>a. CASE ApplyPending(p)
  <2> DEFINE n == task[p].doc.retryCount + 1
             s == IF n >= MaxRetry THEN MANUAL_REVIEW ELSE order[o].status
  <2>1. /\ order' = [order EXCEPT ![o].status = s, ![o].providerStatus = status,
                                   ![o].retryCount = n]
        /\ IsProcessing(o) /\ UNCHANGED <<held, remote>> /\ Finish(p)
    BY <1>a DEF ApplyPending
  <2>2. s \notin Undelivered
    BY <2>1, EndedFacts
  <2> HIDE DEF n, s
  <2>3. order'[o].status = s /\ \A x \in Orders \ {o} : order'[x] = order[x]
    BY <1>0, <1>1, <2>1 DEF OrderDoc
  <2> QED
    BY <1>0, <1>1, <2>1, <2>2, <2>3, FinishPaper
<1>b. CASE ApplyCompleted(p)
  <2>1. CASE IsProcessing(o)
    <3>1. /\ order' = [order EXCEPT ![o].status = COMPLETED, ![o].providerStatus = status]
          /\ Finish(p) /\ UNCHANGED <<held, remote>>
      BY <1>b, <2>1 DEF ApplyCompleted, ApplyFinal
    <3>2. order'[o].status = COMPLETED /\ \A x \in Orders \ {o} : order'[x] = order[x]
      BY <1>0, <1>1, <3>1 DEF OrderDoc
    <3> QED
      BY <1>0, <1>1, <2>1, <3>1, <3>2, EndedFacts, FinishPaper
  <2> QED
    BY <1>2, <1>b, <2>1 DEF ApplyCompleted, ApplyFinal
<1>c. CASE ApplyPartial(p)
  <2>1. CASE IsProcessing(o)
    <3>1. /\ order' = [order EXCEPT ![o].status = PARTIAL, ![o].providerStatus = status]
          /\ Goto(p, "refundTxn") /\ UNCHANGED <<held, remote>>
          /\ isTerminal(status) /\ toInternalStatus(status) = PARTIAL
      BY <1>c, <2>1 DEF ApplyPartial, ApplyFinal, Refunding
    <3>2. order'[o].status = PARTIAL /\ \A x \in Orders \ {o} : order'[x] = order[x]
      BY <1>0, <1>1, <3>1 DEF OrderDoc
    <3>3. /\ task'[p].pc = "refundTxn" /\ task'[p].o = o
          /\ task'[p].reply.remains = task[p].reply.remains
          /\ \A q \in Procs \ {p} : task'[q] = task[q]
      BY <1>0, <1>1, <3>1 DEF Task
    <3> QED
      BY <1>1, <1>4, <2>1, <3>1, <3>2, <3>3, EndedFacts
  <2> QED
    BY <1>2, <1>c, <2>1 DEF ApplyPartial, ApplyFinal
<1>d. CASE ApplyCanceled(p)
  <2>1. CASE IsProcessing(o)
    <3>1. /\ order' = [order EXCEPT ![o].status = CANCELED, ![o].providerStatus = status]
          /\ UNCHANGED <<held, remote>>
          /\ isTerminal(status) /\ toInternalStatus(status) = CANCELED
      BY <1>d, <2>1 DEF ApplyCanceled, ApplyFinal, Refunding
    <3>2. order'[o].status = CANCELED /\ \A x \in Orders \ {o} : order'[x] = order[x]
      BY <1>0, <1>1, <3>1 DEF OrderDoc
    <3>3. /\ task'[p].pc = "refundTxn" /\ task'[p].o = o
          /\ \A q \in Procs \ {p} : task'[q] = task[q]
      BY <1>0, <1>1, <1>d, <2>1 DEF ApplyCanceled, ApplyFinal, Task
    <3> QED
      BY <1>1, <1>4, <2>1, <3>1, <3>2, <3>3, EndedFacts
  <2> QED
    BY <1>2, <1>d, <2>1 DEF ApplyCanceled, ApplyFinal
<1>e. CASE ApplyFailed(p)
  <2>1. CASE IsProcessing(o)
    <3>1. /\ order' = [order EXCEPT ![o].status = FAILED, ![o].providerStatus = status]
          /\ Goto(p, "refundFlag") /\ UNCHANGED <<held, remote>>
          /\ isTerminal(status) /\ toInternalStatus(status) \in {FAILED, CANCELED}
      BY <1>e, <2>1, ListsAgree DEF ApplyFailed, ApplyFinal
    <3>2. order'[o].status = FAILED /\ \A x \in Orders \ {o} : order'[x] = order[x]
      BY <1>0, <1>1, <3>1 DEF OrderDoc
    <3>3. /\ task'[p].pc = "refundFlag" /\ task'[p].o = o
          /\ \A q \in Procs \ {p} : task'[q] = task[q]
      BY <1>0, <1>1, <3>1 DEF Task
    <3> QED
      BY <1>1, <1>4, <2>1, <3>1, <3>2, <3>3, EndedFacts
  <2> QED
    BY <1>2, <1>e, <2>1 DEF ApplyFailed, ApplyFinal
<1>f. CASE ApplySkipped(p)
  BY <1>2, <1>f DEF ApplySkipped
<1> QED
  BY <1>1, <1>a, <1>b, <1>c, <1>d, <1>e, <1>f DEF ApplyStep

-----------------------------------------------------------------------------
(* The cron.                                                               *)

LEMMA FetchPaper ==
  ASSUME GoodsInv, NEW w \in Workers, NEW o \in Orders, PollFetch(w, o)
  PROVE  PaperStep(w, o)
<1>1. /\ w \in Procs /\ task'[w].pc \in PollSteps \ {"recover"} /\ UNCHANGED <<order, held, remote>>
      /\ \A q \in Procs \ {w} : task'[q] = task[q]
  BY ProcTypes DEF GoodsInv, MInv, IInv, TypeOK, PollFetch, PollStepFor, PollSteps
<1> QED
  BY <1>1 DEF PaperStep, NoNewPlacer, HeardRight, PollSteps, RefundSteps

(* A report of the provider is in.                                         *)
LEMMA HeardPaper ==
  ASSUME GoodsInv, Truthful, NEW w \in Procs, NEW o \in Orders, task[w].o = o,
         NEW k \in DOMAIN remote[o], NEW reply \in Report(o, k),
         NEW pc \in {"apply", "recover"},
         task' = [task EXCEPT ![w].pc = pc, ![w].reply = reply],
         UNCHANGED <<order, held, remote>>
  PROVE  PaperStep(w, o)
<1>1. /\ task'[w].pc = pc /\ task'[w].o = o /\ task'[w].reply = reply
      /\ \A q \in Procs \ {w} : task'[q] = task[q]
  BY DEF GoodsInv, MInv, IInv, TypeOK, Task
<1>2. HeardRight(w)'
  BY <1>1, ReportSays DEF HeardRight, RefundSteps
<1> QED
  BY <1>1, <1>2 DEF PaperStep, NoNewPlacer

LEMMA PollPaper ==
  ASSUME GoodsInv, Truthful, NEW w \in Workers, NEW o \in Orders, task[w].o = o, PollStep(w)
  PROVE  PaperStep(w, o)
<1>0. /\ IInv /\ order \in [Orders -> OrderDoc] /\ task \in [Procs -> Task] /\ HeardRight(w)
      /\ w \in Procs /\ task[w].pc # "idle"
  BY GoodsOf, ProcTypes DEF IInv, TypeOK, PollStep, PollExhausted, RecoverDefer, RecoverFound,
         RecoverSave, PollAnswered, PollSkipped
<1>1. o \in Orders /\ order[o] \in OrderDoc /\ task[w] \in Task
  BY <1>0, Busy
<1>a. CASE PollExhausted(w)
  <2>1. CASE IsProcessing(o) /\ order' = [order EXCEPT ![o].status = MANUAL_REVIEW]
    <3>1. order'[o].status = MANUAL_REVIEW /\ \A x \in Orders \ {o} : order'[x] = order[x]
      BY <1>0, <1>1, <2>1 DEF OrderDoc
    <3>2. Finish(w) /\ UNCHANGED <<held, remote>>
      BY <1>a DEF PollExhausted
    <3> QED
      BY <1>0, <1>1, <2>1, <3>1, <3>2, EndedFacts, FinishPaper
  <2>2. CASE UNCHANGED order
    BY <1>0, <1>1, <1>a, <2>2, FinishPaper DEF PollExhausted
  <2> QED
    BY <1>a, <2>1, <2>2 DEF PollExhausted
<1>b. CASE RecoverDefer(w)
  <2> DEFINE n == task[w].doc.retryCount + 1
             s == IF n >= MaxRetry THEN MANUAL_REVIEW ELSE order[o].status
  <2>1. Finish(w) /\ UNCHANGED <<held, remote>>
    BY <1>b DEF RecoverDefer
  <2>2. CASE OwnsClaim(o)
    <3>1. order' = [order EXCEPT ![o].status = s, ![o].retryCount = n] /\ IsProcessing(o)
      BY <1>b, <2>2 DEF RecoverDefer, OwnsClaim
    <3>2. s \notin Undelivered
      BY <3>1, EndedFacts
    <3> HIDE DEF n, s
    <3>3. order'[o].status = s /\ \A x \in Orders \ {o} : order'[x] = order[x]
      BY <1>0, <1>1, <3>1 DEF OrderDoc
    <3> QED
      BY <1>0, <1>1, <2>1, <3>1, <3>2, <3>3, FinishPaper
  <2>3. CASE ~OwnsClaim(o)
    BY <1>0, <1>1, <1>b, <2>1, <2>3, FinishPaper DEF RecoverDefer
  <2> QED
    BY <2>2, <2>3
<1>c. CASE RecoverFound(w)
  <2>0. PICK k \in 1 .. Len(remote[o]) : \E reply \in Report(o, k) :
          task' = [task EXCEPT ![w].pc = "recover", ![w].reply = reply]
    BY <1>c DEF RecoverFound
  <2>1. PICK reply \in Report(o, k) :
          task' = [task EXCEPT ![w].pc = "recover", ![w].reply = reply]
    BY <2>0
  <2>2. k \in DOMAIN remote[o] /\ UNCHANGED <<order, held, remote>>
    BY <1>0, <1>1, <1>c DEF RecoverFound, IInv, TypeOK
  <2> QED
    BY <1>0, <1>1, <2>1, <2>2, HeardPaper
<1>d. CASE RecoverSave(w)
  <2>1. CASE OwnsClaim(o)
    <3>1. /\ order' = [order EXCEPT ![o].providerOrderId = task[w].reply.id,
                                     ![o].providerStatus = task[w].reply.status]
          /\ task' = [task EXCEPT ![w].pc = "apply", ![w].doc = order'[o]]
          /\ UNCHANGED <<held, remote>> /\ task[w].pc = "recover"
      BY <1>d, <2>1 DEF RecoverSave
    <3>2. order'[o].status = order[o].status /\ \A x \in Orders \ {o} : order'[x] = order[x]
      BY <1>0, <1>1, <3>1 DEF OrderDoc
    <3>3. /\ task'[w].pc = "apply" /\ task'[w].o = o /\ task'[w].reply = task[w].reply
          /\ \A q \in Procs \ {w} : task'[q] = task[q]
      BY <1>0, <1>1, <3>1 DEF Task
    <3>4. HeardRight(w)'
      BY <1>0, <3>1, <3>3 DEF HeardRight, RefundSteps
    <3> QED
      BY <1>1, <3>1, <3>2, <3>3, <3>4 DEF PaperStep, NoNewPlacer
  <2>2. CASE ~OwnsClaim(o)
    BY <1>0, <1>1, <1>d, <2>2, FinishPaper DEF RecoverSave
  <2> QED
    BY <2>1, <2>2
<1>e. CASE PollAnswered(w)
  <2> DEFINE k == task[w].doc.providerOrderId
  <2>1. PICK reply \in Report(o, k) :
          task' = [task EXCEPT ![w].pc = "apply", ![w].reply = reply]
    BY <1>e DEF PollAnswered
  <2>2. k \in DOMAIN remote[o] /\ UNCHANGED <<order, held, remote>>
    BY <1>0, <1>1, <1>e DEF PollAnswered, IInv, TypeOK
  <2> QED
    BY <1>0, <1>1, <2>1, <2>2, HeardPaper
<1>f. CASE PollSkipped(w)
  BY <1>0, <1>1, <1>f, FinishPaper DEF PollSkipped
<1> QED
  BY <1>1, <1>a, <1>b, <1>c, <1>d, <1>e, <1>f DEF PollStep

LEMMA CrashPaper ==
  ASSUME GoodsInv, NEW p \in Procs, NEW o \in Orders, Crash(p)
  PROVE  PaperStep(p, o)
  BY FinishPaper DEF GoodsInv, MInv, Crash

-----------------------------------------------------------------------------
(* The refunds.                                                            *)

LEMMA RefundPaper ==
  ASSUME GoodsInv, Truthful, NEW p \in Procs, NEW o \in Orders, task[p].o = o, RefundNext(p)
  PROVE  PaperStep(p, o)
<1>0. RefundStep(p, o) /\ (task[p].pc # "refundUndo" => held[o] = Amount(o))
  BY RefundSplit, AtRefund DEF GoodsInv
<1>1. task[p].pc \in RefundSteps /\ task[p].pc # "idle"
  BY DEF RefundNext, RefundFlag, RefundAlreadyFlagged, RefundCredit,
         RefundNothingOrAbort, RefundCommitUnknown, RefundUndo, OrderRefundCommit,
         OrderRefundReject, RefundSteps
<1>2. /\ IInv /\ order \in [Orders -> OrderDoc] /\ task \in [Procs -> Task]
      /\ held \in [Orders -> Int] /\ remote \in [Orders -> Seq(Placement)]
  BY GoodsOf DEF IInv, TypeOK
<1>3. /\ o \in Orders /\ order[o] \in OrderDoc /\ task[p] \in Task /\ held[o] \in Int
      /\ order[o].status \in Undelivered /\ task[p].reply.remains \in Nat
      /\ OnePlacement(o) /\ ClosedForGood(o) /\ HeardRight(p)
  BY <1>1, <1>2, Busy, GoodsOf DEF Reply
<1>4. Amount(o) \in Nat \ {0}
  BY <1>3, ShareBounds
(* What is left when nothing was delivered.                                *)
<1>5. ASSUME Dead(o), held'[o] \in Nat, remote' = remote PROVE Paid(o)'
  <2>1. ASSUME NEW k \in DOMAIN remote[o] PROVE Delivered(o, remote[o][k]) = 0
    <3>1. remote[o][k] \in Placement
      BY <1>2, <1>3
    <3>2. toInternalStatus(remote[o][k].status) \in {FAILED, CANCELED}
      BY <1>5 DEF Dead
    <3> QED
      BY <1>3, <3>1, <3>2, DeliveredWorth DEF Placement
  <2>2. \A k \in DOMAIN remote'[o] : held'[o] >= Delivered(o, remote'[o][k])
    BY <1>5, <2>1
  <2> QED
    BY <2>2 DEF Paid, Delivered, Amount
<1>a. CASE RefundFlag(p)
  <2>1. order' = [order EXCEPT ![o].refunded = TRUE] /\ UNCHANGED <<held, remote>>
    BY <1>a DEF RefundFlag
  <2>2. order'[o].status = order[o].status /\ \A x \in Orders \ {o} : order'[x] = order[x]
    BY <1>2, <1>3, <2>1 DEF OrderDoc
  <2>3. /\ task[p].pc = "refundFlag" /\ task'[p].pc = "refundCredit" /\ task'[p].o = o
        /\ \A q \in Procs \ {p} : task'[q] = task[q]
    BY <1>2, <1>3, <1>a DEF RefundFlag, Task
  <2>4. HeardRight(p)'
    BY <1>3, <2>2, <2>3 DEF HeardRight, RefundSteps
  <2> QED
    BY <1>3, <2>1, <2>2, <2>3, <2>4 DEF PaperStep, NoNewPlacer
<1>b. CASE RefundAlreadyFlagged(p)
  BY <1>2, <1>3, <1>b, FinishPaper DEF RefundAlreadyFlagged
<1>c. CASE RefundCredit(p)
  <2>1. /\ task[p].pc = "refundCredit" /\ UNCHANGED <<order, remote>> /\ Finish(p)
        /\ held' = [held EXCEPT ![o] = held[o] - Amount(o)]
    BY <1>c DEF RefundCredit
  <2>2. held[o] = Amount(o)
    BY <1>0, <2>1
  <2>3. held[o] - Amount(o) = 0
    BY <1>4, <2>2
  <2>4. held'[o] = 0 /\ \A x \in Orders \ {o} : held'[x] = held[x]
    BY <1>2, <1>3, <2>1, <2>3
  <2>5. Dead(o)
    BY <1>3, <2>1 DEF HeardRight, RefundSteps, ClosedForGood
  <2>6. Paid(o)'
    BY <1>5, <2>1, <2>4, <2>5
  <2>7. /\ task'[p].pc = "idle" /\ \A q \in Procs \ {p} : task'[q] = task[q]
    BY <1>2, <2>1 DEF NoTask
  <2> QED
    BY <1>3, <2>1, <2>4, <2>6, <2>7 DEF PaperStep, NoNewPlacer, HeardRight, RefundSteps
<1>d. CASE RefundNothingOrAbort(p)
  <2>1. /\ task[p].pc = "refundCredit" /\ task'[p].pc = "refundUndo" /\ task'[p].o = o
        /\ \A q \in Procs \ {p} : task'[q] = task[q]
        /\ UNCHANGED <<order, held, remote>>
    BY <1>2, <1>3, <1>d DEF RefundNothingOrAbort, Task
  <2>2. HeardRight(p)'
    BY <1>3, <2>1 DEF HeardRight, RefundSteps
  <2> QED
    BY <1>3, <2>1, <2>2 DEF PaperStep, NoNewPlacer
<1>e. CASE RefundCommitUnknown(p)
  <2>1. /\ task[p].pc = "refundCredit" /\ UNCHANGED <<order, remote>>
        /\ held' = [held EXCEPT ![o] = held[o] - Amount(o)]
    BY <1>e DEF RefundCommitUnknown
  <2>2. held[o] - Amount(o) = 0
    BY <1>0, <1>4, <2>1
  <2>3. held'[o] = 0 /\ \A x \in Orders \ {o} : held'[x] = held[x]
    BY <1>2, <1>3, <2>1, <2>2
  <2>4. Paid(o)'
    BY <1>3, <1>5, <2>1, <2>3 DEF HeardRight, RefundSteps, ClosedForGood
  <2>5. /\ task'[p].pc = "refundUndo" /\ task'[p].o = o
        /\ \A q \in Procs \ {p} : task'[q] = task[q]
    BY <1>2, <1>3, <1>e DEF RefundCommitUnknown, Task
  <2>6. HeardRight(p)'
    BY <1>3, <2>1, <2>5 DEF HeardRight, RefundSteps
  <2> QED
    BY <1>3, <2>1, <2>3, <2>4, <2>5, <2>6 DEF PaperStep, NoNewPlacer
<1>f. CASE RefundUndo(p)
  <2>1. order' = [order EXCEPT ![o].refunded = FALSE] /\ UNCHANGED <<held, remote>> /\ Finish(p)
    BY <1>f DEF RefundUndo
  <2>2. order'[o].status = order[o].status /\ \A x \in Orders \ {o} : order'[x] = order[x]
    BY <1>2, <1>3, <2>1 DEF OrderDoc
  <2> QED
    BY <1>2, <1>3, <2>1, <2>2, FinishPaper
<1>g. CASE OrderRefundCommit(p)
  <2> DEFINE r == task[p].reply.remains
             share == RefundShare(o, r)
  <2>1. /\ task[p].pc = "refundTxn" /\ UNCHANGED remote /\ Finish(p)
        /\ order' = [order EXCEPT ![o].refunded = TRUE] /\ ~order[o].refunded
        /\ held' = [held EXCEPT ![o] = held[o] - share]
    BY <1>g DEF OrderRefundCommit
  <2>2. order'[o].status = order[o].status /\ \A x \in Orders \ {o} : order'[x] = order[x]
    BY <1>2, <1>3, <2>1 DEF OrderDoc
  <2>3. held[o] = Amount(o)
    BY <1>0, <2>1
  <2>4. held'[o] = Amount(o) - share /\ \A x \in Orders \ {o} : held'[x] = held[x]
    BY <1>2, <1>3, <2>1, <2>3
  <2>5. share \in 0 .. Amount(o)
    BY <1>3, ShareBounds
  <2>6. Paid(o)'
    <3>1. CASE order[o].status \in {FAILED, CANCELED}
      <4>1. held'[o] \in Nat
        <5> HIDE DEF share
        <5> QED  BY <1>4, <2>4, <2>5
      <4> QED
        BY <1>3, <1>5, <2>1, <3>1, <4>1 DEF ClosedForGood
    <3>2. CASE order[o].status = PARTIAL
      <4> DEFINE pl == remote[o][1]
      <4>1. /\ remote[o] # <<>> /\ toInternalStatus(pl.status) = PARTIAL
            /\ r = pl.remains /\ \A k \in DOMAIN remote[o] : k = 1
        BY <1>2, <1>3, <2>1, <3>2 DEF ClosedForGood, HeardRight, OnePlacement
      <4>2. r \in 1 .. Quantity
        BY <1>2, <1>3, <4>1 DEF OnePlacement
      <4>3. Delivered(o, pl) = Amount(o) - (r * Amount(o)) \div Quantity
        BY <1>3, <4>1, DeliveredWorth
      <4>4. share = (r * Amount(o)) \div Quantity
        <5>1. CASE r \in 1 .. Quantity - 1
          BY <5>1 DEF RefundShare
        <5>2. CASE r = Quantity
          <6>1. (Quantity * Amount(o)) \div Quantity = Amount(o)
            BY <1>4, QuotientExact, AmountAssumption
          <6>2. Quantity \notin 1 .. Quantity - 1
            BY AmountAssumption
          <6> QED
            BY <5>2, <6>1, <6>2 DEF RefundShare
        <5> QED
          BY <4>2, <5>1, <5>2, AmountAssumption
      <4>5. Delivered(o, pl) = held'[o] /\ held'[o] \in Int
        <5> HIDE DEF share, pl, r
        <5> QED
          BY <1>4, <2>4, <2>5, <4>3, <4>4
      <4>6. \A k \in DOMAIN remote'[o] : held'[o] >= Delivered(o, remote'[o][k])
        BY <2>1, <4>1, <4>5
      <4> QED
        BY <4>6 DEF Paid, Delivered, Amount
    <3> QED
      BY <1>3, <3>1, <3>2 DEF Undelivered
  <2>7. /\ task'[p].pc = "idle" /\ \A q \in Procs \ {p} : task'[q] = task[q]
    BY <1>2, <2>1 DEF NoTask
  <2> QED
    BY <1>3, <2>1, <2>2, <2>4, <2>6, <2>7 DEF PaperStep, NoNewPlacer, HeardRight, RefundSteps
<1>h. CASE OrderRefundReject(p)
  BY <1>2, <1>3, <1>h, FinishPaper DEF OrderRefundReject
<1> QED
  BY <1>a, <1>b, <1>c, <1>d, <1>e, <1>f, <1>g, <1>h DEF RefundNext

-----------------------------------------------------------------------------
(* The invariant.                                                          *)

LEMMA InitGoods == Init => GoodsInv
<1> SUFFICES ASSUME Init PROVE GoodsInv
  OBVIOUS
<1>1. MInv /\ \A o \in Orders : remote[o] = <<>> /\ order[o].status \in {PENDING, PROCESSING}
  BY InitOnce, NoTaskType DEF Init, NewOrder, NoDoc, OrderDoc
<1>2. \A o \in Orders : OnePlacement(o)
  BY <1>1 DEF OnePlacement
<1>3. \A o \in Orders : ClosedForGood(o)
  BY <1>1, EndedFacts DEF ClosedForGood, PENDING, PROCESSING, FAILED, CANCELED, PARTIAL
<1>4. \A p \in Procs : task[p].pc \in {"idle", "scheduled"}
  BY DEF Init, Scheduled, NoTask, Procs
<1>5. \A p \in Procs : HeardRight(p)
  BY <1>4 DEF HeardRight, RefundSteps
<1> QED
  BY <1>1, <1>2, <1>3, <1>5 DEF GoodsInv, NoFreeGoods

LEMMA NextGoods ==
  ASSUME Truthful
  PROVE  GoodsInv /\ [Next]_vars => GoodsInv'
<1> SUFFICES ASSUME GoodsInv, [Next]_vars PROVE GoodsInv'
  OBVIOUS
<1>2. MInv'
  BY NextOnce, GoodsOf
<1>3. ASSUME NEW p \in Procs, NEW o \in Orders, PaperStep(p, o) PROVE GoodsInv'
  BY <1>2, <1>3, PaperGoods
<1>4. ASSUME NEW o \in Orders, ExecStep(o) PROVE GoodsInv'
  BY <1>2, <1>3, <1>4, ExecPaper, AcceptGoods, ProcTypes
<1>5. ASSUME NEW o \in Orders, NEW k \in DOMAIN remote[o], ProviderProgress(o, k)
      PROVE  GoodsInv'
  BY <1>2, <1>5, ProgressGoods
<1>6. ASSUME NEW w \in Workers, NEW o \in Orders, PollFetch(w, o) PROVE GoodsInv'
  BY <1>3, <1>6, FetchPaper, ProcTypes
<1>7. ASSUME NEW w \in Workers, PollStep(w) PROVE GoodsInv'
  <2>1. w \in Procs /\ task[w].pc # "idle"
    BY <1>7, ProcTypes DEF PollStep, PollExhausted, RecoverDefer, RecoverFound, RecoverSave,
                           PollAnswered, PollSkipped
  <2>2. PICK o \in Orders : task[w].o = o
    BY <2>1 DEF GoodsInv, MInv, IInv, TaskOK
  <2> QED
    BY <1>3, <1>7, <2>1, <2>2, PollPaper
<1>8. ASSUME NEW p \in Procs, EngineTask(p) PROVE GoodsInv'
  <2>1. task[p].pc # "idle"
    BY <1>8 DEF EngineTask, ApplyStep, ApplyPending, ApplyCompleted, ApplyPartial, ApplyCanceled,
                ApplyFailed, ApplySkipped, ApplyFinal, RefundNext, RefundFlag,
                RefundAlreadyFlagged, RefundCredit, RefundNothingOrAbort, RefundCommitUnknown,
                RefundUndo, OrderRefundCommit, OrderRefundReject
  <2>2. PICK o \in Orders : task[p].o = o
    BY <2>1 DEF GoodsInv, MInv, IInv, TaskOK
  <2> QED
    BY <1>3, <1>8, <2>2, ApplyPaper, RefundPaper DEF EngineTask
<1>9. ASSUME NEW p \in Procs, Crash(p) PROVE GoodsInv'
  <2>1. PICK o \in Orders : task[p].o = o
    BY <1>9 DEF Crash, GoodsInv, MInv, IInv, TaskOK
  <2> QED
    BY <1>3, <1>9, <2>1, CrashPaper
<1>10. CASE UNCHANGED vars
  BY <1>2, <1>10, StutterGoods
<1> QED
  BY <1>4, <1>5, <1>6, <1>7, <1>8, <1>9, <1>10 DEF Next

(* The user never keeps goods that were paid back: with any number of      *)
(* orders, cron workers, crashes, placement calls that time out and        *)
(* providers that answer late, the engine holds at least the price of what *)
(* was delivered, provided the platform is not told something untrue (see  *)
(* Truthful; the run swallowed_timeout shows what happens when it is).     *)
THEOREM GoodsArePaidFor == ASSUME Truthful PROVE Spec => []NoFreeGoods
<1>1. GoodsInv => NoFreeGoods
  BY DEF GoodsInv
<1> QED
  BY InitGoods, NextGoods, <1>1, PTL DEF Spec
=============================================================================
