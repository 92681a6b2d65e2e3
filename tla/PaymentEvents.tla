---------------------------- MODULE PaymentEvents ----------------------------
(***************************************************************************)
(* Deposits approved by an SMS (paymentEvent.service.js), composed with    *)
(* the reviews of Deposits.                                                *)
(*                                                                         *)
(* The bridge delivers the SMS of a payment at least once.  The first      *)
(* delivery stores the payment event and looks for a deposit to match; a   *)
(* new deposit starts a handler that looks for an event.  Both then work   *)
(* on their own copy of the event document: match it, save the result,     *)
(* approve the deposit, save that.  Nothing restarts a handler that died,  *)
(* and a later delivery of the same SMS is only answered.                  *)
(*                                                                         *)
(* All deposits and events here carry one transaction id, one currency and *)
(* one phone number; the comparison that is left is that of the amounts.   *)
(* Every event parses, and is young enough to approve by itself.           *)
(***************************************************************************)
EXTENDS Deposits, FiniteSets

CONSTANTS
    Deliveries,     \* deliveries of SMS messages, each handled once
    AutoApprove     \* the setting of the same name

ASSUME AutoApproveAssumption == AutoApprove \in BOOLEAN
ASSUME DeliveriesAssumption == Deliveries \cap Deposits = {}

VARIABLES
    event,          \* the PaymentEvent documents
    handler         \* the deliveries, and the handlers that deposits start

eventVars == <<deposit, credited, commission, referral, admin, event, handler>>

-----------------------------------------------------------------------------

MatchStatuses == {"UNMATCHED", "MATCHED", "AMBIGUOUS", "MISMATCH", "PROCESSED"}

\* "absent": the SMS has not been stored.
EventDoc ==
    [status : MatchStatuses \cup {"absent"},
     amount : Amounts \cup {0},
     matched : Deposits \cup {None}]        \* matchedDepositId

Handlers == Deliveries \cup Deposits

Handler ==
    [pc : {"new", "match", "save", "approve", "processed", "done", "dead"},
     event : Events \cup {None},
     result : MatchStatuses,                \* in "save": what the match found
     matched : Deposits \cup {None}]

NewHandler == [pc |-> "new", event |-> None, result |-> "UNMATCHED", matched |-> None]

EventInit ==
    /\ DepositInit
    /\ event = [e \in Events |-> [status |-> "absent", amount |-> 0, matched |-> None]]
    /\ handler = [h \in Handlers |-> NewHandler]

At(h, pc) == handler[h].pc = pc
Goto(h, pc) == handler' = [handler EXCEPT ![h].pc = pc]

-----------------------------------------------------------------------------

\* A delivery: a known SMS is answered, a new one stored, UNMATCHED.  The unique
\* indexes decide between deliveries that look it up at the same time.
processVodafoneCashWebhook(h, e, amount) ==
    /\ h \in Deliveries /\ At(h, "new")
    /\ \/ /\ event[e].status # "absent"
          /\ Goto(h, "done")
          /\ UNCHANGED event
       \/ /\ event[e].status = "absent"
          /\ event' = [event EXCEPT ![e] =
                         [@ EXCEPT !.status = "UNMATCHED", !.amount = amount]]
          /\ handler' = [handler EXCEPT ![h] = [@ EXCEPT !.pc = "match", !.event = e]]
    /\ UNCHANGED depositVars

\* The handler a deposit starts when it is created: while the deposit is PENDING,
\* the first unmatched event of its transaction and amount.
matchExistingUnmatchedPaymentForDeposit(h) ==
    LET found == {e \in Events : event[e].status = "UNMATCHED"
                                  /\ event[e].amount = deposit[h].amount}
    IN
    /\ h \in Deposits /\ At(h, "new") /\ deposit[h].status # "absent"
    /\ IF deposit[h].status = "PENDING" /\ found # {}
       THEN \E e \in found :
               handler' = [handler EXCEPT ![h] = [@ EXCEPT !.pc = "match", !.event = e]]
       ELSE Goto(h, "done")
    /\ UNCHANGED <<depositVars, event>>

\* Mutant: the amounts are not compared.
CandidatesOfAnyAmount(e) == {d \in Deposits : deposit[d].status = "PENDING"}

\* The pending deposits an event may pay.
Candidates(e) ==
    {d \in Deposits : deposit[d].status = "PENDING" /\ deposit[d].amount = event[e].amount}

\* What is found: exactly one, several, or only deposits of other amounts.
MatchResult(e) ==
    LET exact == Candidates(e)
        sameTransaction == {d \in Deposits : deposit[d].status = "PENDING"}
    IN
    CASE Cardinality(exact) = 1 -> "MATCHED"
      [] Cardinality(exact) > 1 -> "AMBIGUOUS"
      [] exact = {} /\ sameTransaction # {} -> "MISMATCH"
      [] OTHER -> "UNMATCHED"

matchParsedPaymentEvent(h) ==
    LET e == handler[h].event
        result == MatchResult(e)
    IN
    /\ At(h, "match")
    /\ handler' = [handler EXCEPT ![h] =
                     [@ EXCEPT !.pc = "save", !.result = result,
                               !.matched = IF result = "MATCHED"
                                           THEN CHOOSE d \in Candidates(e) : TRUE ELSE None]]
    /\ UNCHANGED <<depositVars, event>>

-----------------------------------------------------------------------------
(* applyMatchResult.                                                       *)

\* Mutant: an event that was found matched is not approved any more.
NextAfterSaveNever(result) == "done"

NextAfterSave(result) == IF result = "MATCHED" /\ AutoApprove THEN "approve" ELSE "done"

\* Mutant: the link to the deposit is not saved.
SavedStatusOnly(doc, result, d) ==
    IF result = "UNMATCHED" THEN doc ELSE [doc EXCEPT !.status = result]

\* save() writes what differs from the copy, which was UNMATCHED and unlinked.
Saved(doc, result, d) ==
    IF result = "UNMATCHED" THEN doc
    ELSE [doc EXCEPT !.status = result, !.matched = IF d = None THEN @ ELSE d]

SaveMatch(h) ==
    LET copy == handler[h] IN
    /\ At(h, "save")
    /\ event' = [event EXCEPT ![copy.event] = Saved(@, copy.result, copy.matched)]
    /\ Goto(h, NextAfterSave(copy.result))
    /\ UNCHANGED depositVars

\* Mutant: a deposit that was approved meanwhile is taken for this event's.
NextAfterRefusalProcessed == "processed"

\* The approval is refused: its code is stored on the event, and that is all.
NextAfterRefusal == "done"

\* approveDeposit, with what the document says by now.
AutoApproval(h) ==
    LET d == handler[h].matched IN
    /\ At(h, "approve")
    /\ \/ /\ approveDeposit(d, handler[h].event, deposit[d].amount, deposit[d].foreign)
          /\ Goto(h, "processed")
       \/ /\ ~Reviewable(d)
          /\ Goto(h, NextAfterRefusal)
          /\ UNCHANGED depositVars
    /\ UNCHANGED event

\* The last save; only the status differs from what this handler saved before.
SaveProcessed(h) ==
    /\ At(h, "processed")
    /\ event' = [event EXCEPT ![handler[h].event].status = "PROCESSED"]
    /\ Goto(h, "done")
    /\ UNCHANGED depositVars

HandlerStep(h) ==
    \/ matchExistingUnmatchedPaymentForDeposit(h)
    \/ matchParsedPaymentEvent(h)
    \/ SaveMatch(h) \/ AutoApproval(h) \/ SaveProcessed(h)

\* A handler that dies before it has found an event is like one that never
\* started.
HandlerDies(h) ==
    /\ CanCrash
    /\ handler[h].pc \in {"match", "save", "approve", "processed"}
    /\ Goto(h, "dead")
    /\ UNCHANGED <<depositVars, event>>

-----------------------------------------------------------------------------

\* The referral stays as it is: no event depends on it.
DepositStep == RequestStep /\ UNCHANGED <<event, handler>>

EventNext ==
    \/ DepositStep
    \/ \E h \in Handlers :
          \/ \E e \in Events, amount \in Amounts : processVodafoneCashWebhook(h, e, amount)
          \/ HandlerStep(h)
          \/ HandlerDies(h)

EventSpec == EventInit /\ [][EventNext]_eventVars

\* The event loop runs what a handler awaits.
FairEventSpec == EventSpec /\ \A h \in Handlers : WF_eventVars(HandlerStep(h))

-----------------------------------------------------------------------------
(* Properties.                                                             *)

\* The type invariant, with the schema of paymentEvent.model.js: an event that
\* found its deposit keeps the link to it, whatever other handlers save.
EventTypeOK ==
    /\ DepositTypeOK
    /\ event \in [Events -> EventDoc]
    /\ handler \in [Handlers -> Handler]
    /\ \A e \in Events :
          event[e].status \in {"MATCHED", "PROCESSED"} => event[e].matched \in Deposits

\* The deposits an event has approved.
ApprovedBy(e) == {d \in Deposits : deposit[d].reviewer = e}

\* An event is only called processed when it has approved a deposit, however the
\* handlers overwrite each other's copies of it and wherever they die.
ProcessedIsPaid ==
    \A e \in Events : event[e].status = "PROCESSED" => ApprovedBy(e) # {}

\* A deposit that an event approved was credited with exactly what was paid,
\* unless pending deposits are edited between the match and the approval.
AutoCreditIsThePayment ==
    NoneAsked({"edit"}) =>
        \A e \in Events : \A d \in ApprovedBy(e) :
            credited[d] = Credit(event[e].amount, deposit[d].foreign)

\* A payment and the deposit it fits find each other in either order of arrival,
\* and the deposit does not stay pending, unless a process dies or the user asks
\* for another deposit with the same transaction.
PaymentArrives ==
    \A e \in Events, d \in Deposits :
        (/\ event[e].status # "absent" /\ event[e].amount = deposit[d].amount
         /\ deposit[d].status = "PENDING") ~>
            \/ deposit[d].status # "PENDING"
            \/ \E other \in Deposits \ {d} : deposit[other].status # "absent"
            \/ \E h \in Handlers : At(h, "dead")

\* paymentEvent.test.js: "auto approval enabled calls canonical approval once for
\* exact Vodafone wallet match": one payment approves one deposit.
OnePaymentOneDeposit == \A e \in Events : Cardinality(ApprovedBy(e)) <= 1
=============================================================================
