---------------------------- MODULE TargetOrders -----------------------------
(***************************************************************************)
(* Orders of coins for a target app (target.service.js): a customer pays   *)
(* with a configured method and uploads the proof, an administrator        *)
(* decides.  No operation is a transaction: what a request reads first,    *)
(* the app, the payment settings, the order under its key, may have        *)
(* changed when it inserts.                                                *)
(*                                                                         *)
(* An order is named by the request that created it.  A payment method     *)
(* stands for all the names and aliases findMethodByToken takes for it.    *)
(***************************************************************************)
EXTENDS Documents, Integers

CONSTANTS
    PayMethods,
    DefaultMethods,     \* DEFAULT_TARGET_PAYMENT_METHODS
    LegacyFallback,     \* isLegacyPaymentFallbackEnabled
    TargetBodies,       \* what requests may carry: [details, method, key]
    AppDocs             \* what an administrator may make of the app

ASSUME PayMethodsAssumption ==
    DefaultMethods \subseteq PayMethods /\ LegacyFallback \in BOOLEAN
ASSUME AppDocsAssumption ==
    \A a \in AppDocs :
        /\ a = [active |-> a.active, price |-> a.price, account |-> a.account,
                methods |-> a.methods]
        /\ a.active \in BOOLEAN /\ a.price \in Nat \ {0}
        /\ a.methods \in (SUBSET PayMethods) \ {{}}
        /\ a # None
ASSUME TargetBodiesAssumption ==
    \A b \in TargetBodies :
        /\ b = [details |-> b.details, method |-> b.method, key |-> b.key]
        /\ b.method \in PayMethods

VARIABLES
    app,            \* the TargetApp document, or None
    configured,     \* the paymentGroups setting
    order,          \* the TargetOrder documents
    submission,     \* the customers' requests
    decision,       \* the administrators' decisions
    edit            \* one request to change the app

targetVars == <<app, configured, order, submission, decision, edit>>

-----------------------------------------------------------------------------

NoOrder == [status |-> "absent", body |-> None, price |-> 0, account |-> None,
            reviewedBy |-> None]

TargetInit ==
    /\ app = None
    /\ configured = [m \in PayMethods |-> "missing"]
    /\ order = [t \in Clients |-> NoOrder]
    /\ submission = [t \in Clients |->
                        [pc |-> "new", body |-> None, copy |-> None, order |-> None]]
    /\ decision = [r \in Reviews |-> [pc |-> "new", op |-> None, order |-> None]]
    /\ edit = [pc |-> "new", copy |-> None, edited |-> None]

-----------------------------------------------------------------------------
(* Apps and settings.                                                      *)

createTargetApp ==
    /\ app = None
    /\ app' \in AppDocs
    /\ UNCHANGED <<configured, order, submission, decision, edit>>

BeginUpdateApp(edited) ==
    /\ app # None /\ edit.pc = "new"
    /\ edit' = [pc |-> "save", copy |-> app, edited |-> edited]
    /\ UNCHANGED <<app, configured, order, submission, decision>>

updateTargetApp ==
    /\ edit.pc = "save"
    /\ app' = Saved(app, edit.copy, edit.edited)
    /\ edit' = [pc |-> "done", copy |-> None, edited |-> None]
    /\ UNCHANGED <<configured, order, submission, decision>>

deactivateTargetApp ==
    /\ app # None
    /\ app' = [app EXCEPT !.active = FALSE]
    /\ UNCHANGED <<configured, order, submission, decision, edit>>

updateSetting(m, state) ==
    /\ configured' = [configured EXCEPT ![m] = state]
    /\ UNCHANGED <<app, order, submission, decision, edit>>

-----------------------------------------------------------------------------
(* createTargetOrder.                                                      *)

SubmissionGoes(t, pc, field, value) ==
    submission' = [submission EXCEPT ![t].pc = pc, ![t][field] = value]

Answered(t, o) ==
    submission' = [submission EXCEPT ![t] = [@ EXCEPT !.pc = "done", !.copy = None, !.order = o]]

\* The app as it is now is what the order will be priced and paid by.
SubmitTargetOrder(t, body) ==
    /\ submission[t].pc = "new"
    /\ submission' = [submission EXCEPT ![t] =
          IF app # None /\ app.active
          THEN [@ EXCEPT !.pc = "method", !.body = body, !.copy = app]
          ELSE [@ EXCEPT !.pc = "done", !.body = body]]
    /\ UNCHANGED <<app, configured, order, decision, edit>>

getConfiguredPaymentMethods ==
    IF LegacyFallback /\ \A m \in PayMethods : configured[m] = "missing"
    THEN [m \in PayMethods |-> IF m \in DefaultMethods THEN "active" ELSE "missing"]
    ELSE configured

assertPaymentMethodAllowed(t) ==
    LET m == submission[t].body.method IN
    getConfiguredPaymentMethods[m] = "active" /\ m \in submission[t].copy.methods

CheckMethod(t) ==
    /\ submission[t].pc = "method"
    /\ IF assertPaymentMethodAllowed(t) /\ submission[t].copy.account # None
       THEN SubmissionGoes(t, IF submission[t].body.key = None THEN "insert" ELSE "lookup",
                           "order", None)
       ELSE Answered(t, None)
    /\ UNCHANGED <<app, configured, order, decision, edit>>

UnderKey(t) ==
    {o \in Clients : /\ order[o].status # "absent" /\ submission[t].body.key # None
                     /\ order[o].body.key = submission[t].body.key}

\* buildTargetIdempotencyFingerprint: the request without its key, and the app's terms.
Fingerprint(body, terms) ==
    <<body.details, body.method, terms.account, terms.price>>

\* assertIdempotentReplayMatches, and the stored order if it does.
Replay(t) ==
    \E o \in UnderKey(t) :
        Answered(t, IF Fingerprint(order[o].body, order[o])
                       = Fingerprint(submission[t].body, submission[t].copy)
                    THEN o ELSE None)

LookUpKey(t) ==
    /\ submission[t].pc = "lookup"
    /\ IF UnderKey(t) # {} THEN Replay(t) ELSE SubmissionGoes(t, "insert", "order", None)
    /\ UNCHANGED <<app, configured, order, decision, edit>>

InsertIsUnique(t) == UnderKey(t) = {}

createTargetOrder(t) ==
    /\ submission[t].pc = "insert"
    /\ IF InsertIsUnique(t)
       THEN /\ order' = [order EXCEPT ![t] =
                  [status |-> "PENDING", body |-> submission[t].body,
                   price |-> submission[t].copy.price,
                   account |-> submission[t].copy.account, reviewedBy |-> None]]
            /\ Answered(t, t)
       ELSE Replay(t) /\ UNCHANGED order
    /\ UNCHANGED <<app, configured, decision, edit>>

-----------------------------------------------------------------------------
(* Decisions.                                                              *)

DecisionEnds(r, o) == decision' = [decision EXCEPT ![r] = [@ EXCEPT !.pc = "done", !.order = o]]

BeginDecision(r, op, o) ==
    /\ decision[r].pc = "new" /\ order[o].status # "absent"
    /\ decision' = [decision EXCEPT ![r] =
          IF order[o].status = "PENDING"
          THEN [pc |-> "decide", op |-> op, order |-> o]
          ELSE [pc |-> "done", op |-> op, order |-> None]]
    /\ UNCHANGED <<app, configured, order, submission, edit>>

\* Mutant: the update filters by id only.
DecidesById(r, op) == decision[r].pc = "decide" /\ decision[r].op = op

\* The filter of the update: the order is still pending.
Decides(r, op) ==
    /\ decision[r].pc = "decide" /\ decision[r].op = op
    /\ order[decision[r].order].status = "PENDING"

Decided(r, status) ==
    /\ order' = [order EXCEPT ![decision[r].order] =
                    [@ EXCEPT !.status = status, !.reviewedBy = r]]
    /\ DecisionEnds(r, decision[r].order)
    /\ UNCHANGED <<app, configured, submission, edit>>

approveTargetOrder(r) == Decides(r, "approve") /\ Decided(r, "APPROVED")

rejectTargetOrder(r) == Decides(r, "reject") /\ Decided(r, "REJECTED")

AlreadyReviewed(r) ==
    /\ decision[r].pc = "decide" /\ order[decision[r].order].status # "PENDING"
    /\ DecisionEnds(r, None)
    /\ UNCHANGED <<app, configured, order, submission, edit>>

-----------------------------------------------------------------------------

TargetNext ==
    \/ createTargetApp
    \/ \E a \in AppDocs : BeginUpdateApp(a)
    \/ updateTargetApp
    \/ deactivateTargetApp
    \/ \E m \in PayMethods, state \in {"active", "inactive", "missing"} :
          updateSetting(m, state)
    \/ \E t \in Clients :
          \/ \E body \in TargetBodies : SubmitTargetOrder(t, body)
          \/ CheckMethod(t)
          \/ LookUpKey(t)
          \/ createTargetOrder(t)
    \/ \E r \in Reviews :
          \/ \E op \in {"approve", "reject"}, o \in Clients : BeginDecision(r, op, o)
          \/ approveTargetOrder(r)
          \/ rejectTargetOrder(r)
          \/ AlreadyReviewed(r)

TargetSpec == TargetInit /\ [][TargetNext]_targetVars

-----------------------------------------------------------------------------
(* Properties.                                                             *)

\* The type invariant: documents fit targetOrder.model.js and targetApp.model.js, and a
\* decided order says who decided.
TargetTypeOK ==
    /\ app # None => app.active \in BOOLEAN /\ app.price > 0 /\ app.methods # {}
    /\ configured \in [PayMethods -> {"active", "inactive", "missing"}]
    /\ \A o \in Clients :
          /\ order[o].status \in {"absent", "PENDING", "APPROVED", "REJECTED"}
          /\ order[o].status # "absent" => order[o].body \in TargetBodies /\ order[o].price > 0
          /\ order[o].status \in {"APPROVED", "REJECTED"} <=> order[o].reviewedBy \in Reviews

\* Requests under one key create one order between them, whatever they read before any
\* of them inserted, and a request is answered with an order of its own payload or not
\* at all.  Of the administrators who decide one order at once, one is told that it is
\* done, and the order carries his name and his decision.
TargetOnce ==
    /\ \A o, p \in Clients :
          /\ order[o].status # "absent" /\ order[p].status # "absent"
          /\ order[o].body.key = order[p].body.key /\ order[o].body.key # None
          => o = p
    /\ \A t \in Clients :
          submission[t].pc = "done" /\ submission[t].order # None =>
              order[submission[t].order].body = submission[t].body
    /\ \A r \in Reviews :
          decision[r].pc = "done" /\ decision[r].order # None =>
              /\ order[decision[r].order].reviewedBy = r
              /\ order[decision[r].order].status
                 = IF decision[r].op = "approve" THEN "APPROVED" ELSE "REJECTED"
=============================================================================
