-------------------------- MODULE BackOfficeProofs ---------------------------
(***************************************************************************)
(* The safety of the seven scenes of the back office.  Each has an         *)
(* inductive invariant of its own, which says what its requests hold       *)
(* between two steps: which copies of a document, and what the documents   *)
(* still have in common with them.  A behaviour of the office is, for each *)
(* scene, one of that scene's next-state relation, so the seven invariants *)
(* hold of it together.                                                    *)
(***************************************************************************)
EXTENDS BackOffice, SumTheorems, FiniteSetTheorems, TLAPS

-----------------------------------------------------------------------------
(* Payouts: the invariant.                                                 *)

\* A commission that is not available is in the payout it names, in the state it names.
CommissionRight(c) ==
    /\ earned[c].status = "AVAILABLE" => earned[c].payout = None
    /\ earned[c].status # "AVAILABLE" =>
           /\ earned[c].payout \in Clients
           /\ c \in payout[earned[c].payout].ids
           /\ payout[earned[c].payout].status
              = IF earned[c].status = "LOCKED" THEN "PENDING" ELSE "PAID"

PayoutRight(p) ==
    /\ payout[p].status # "absent" =>
           /\ payout[p].body \in Bodies /\ payout[p].ids # {}
           /\ payout[p].amount = Total(payout[p].ids) /\ payout[p].amount > 0
           /\ \A c \in payout[p].ids : CurrencyOf[c] = payout[p].body.currency
    /\ payout[p].status = "PENDING" =>
           \A c \in payout[p].ids : earned[c] = [status |-> "LOCKED", payout |-> p]
    /\ payout[p].status = "PAID" =>
           \A c \in payout[p].ids : earned[c] = [status |-> "PAID", payout |-> p]
    /\ paidIn[p] = IF payout[p].status = "PAID" /\ payout[p].body.method = "WALLET_CREDIT"
                   THEN Rounded(payout[p].amount) ELSE 0

\* A payout of a snapshot is still there, with the request's body.
Past(snap) ==
    \A p \in Clients : snap.payout[p].status # "absent" =>
        payout[p].status # "absent" /\ payout[p].body = snap.payout[p].body

TaskRight(t) ==
    /\ task[t].pc = "open" => task[t].snap \in Snap /\ Past(task[t].snap)
    /\ t \in Clients =>
           /\ task[t].op = None
           /\ task[t].pc # "done" => payout[t].status = "absent" /\ task[t].payout = None
           /\ task[t].pc = "open" => task[t].body \in Bodies
           /\ task[t].payout # None =>
                  /\ payout[task[t].payout].status # "absent"
                  /\ payout[task[t].payout].body = task[t].body
    /\ t \in Reviews /\ task[t].pc = "open" => task[t].payout \in Clients

OnePayoutPerKey ==
    \A p, q \in Made :
        payout[p].body.key = payout[q].body.key /\ payout[p].body.key # None => p = q

PayoutInv ==
    /\ earned \in [Commissions -> Earning]
    /\ payout \in [Clients -> PayoutDoc]
    /\ referrer \in Referrer
    /\ paidIn \in [Clients -> Nat]
    /\ task \in [Clients \cup Reviews -> Task]
    /\ \A c \in Commissions : CommissionRight(c)
    /\ \A p \in Clients : PayoutRight(p)
    /\ \A t \in Clients \cup Reviews : TaskRight(t)
    /\ OnePayoutPerKey

LEMMA TotalIsPositive ==
  ASSUME IsFiniteSet(Commissions), NEW ids \in SUBSET Commissions
  PROVE  Total(ids) \in Nat /\ (ids # {} => Total(ids) > 0)
<1>1. IsFiniteSet(ids) /\ \A c \in ids : Amount[c] \in Nat \ {0}
  BY FS_Subset, AmountAssumption
<1>2. Total(ids) = Sum(Amount, ids)
  BY DEF Total, Sum
<1> QED
  BY <1>1, <1>2, SumIsPositive

LEMMA PayoutInitInv == PayoutInit => PayoutInv
<1> SUFFICES ASSUME PayoutInit PROVE PayoutInv
  OBVIOUS
<1>1. earned \in [Commissions -> Earning] /\ payout \in [Clients -> PayoutDoc]
  BY DEF PayoutInit, Earning, PayoutDoc, NoPayout
<1>2. referrer \in Referrer /\ paidIn \in [Clients -> Nat]
  BY AmountAssumption DEF PayoutInit, Referrer
<1>3. task \in [Clients \cup Reviews -> Task]
  BY DEF PayoutInit, NewTask, Task
<1>4. \A c \in Commissions : CommissionRight(c)
  BY DEF PayoutInit, CommissionRight
<1>5. \A p \in Clients : PayoutRight(p)
  BY DEF PayoutInit, NoPayout, PayoutRight
<1>6. \A t \in Clients \cup Reviews : TaskRight(t)
  BY DEF PayoutInit, NewTask, NoPayout, TaskRight
<1>7. Made = {}
  BY DEF PayoutInit, NoPayout, Made
<1> QED
  BY <1>1, <1>2, <1>3, <1>4, <1>5, <1>6, <1>7 DEF PayoutInv, OnePayoutPerKey

-----------------------------------------------------------------------------
(* Steps that write no document.                                           *)

LEMMA TaskMoves ==
  ASSUME PayoutInv, NEW t \in Clients \cup Reviews, NEW k \in Task,
         task' = [task EXCEPT ![t] = k], TaskRight(t)',
         UNCHANGED <<earned, payout, referrer, paidIn>>
  PROVE  PayoutInv'
<1>1. task' \in [Clients \cup Reviews -> Task]
      /\ \A u \in (Clients \cup Reviews) \ {t} : task'[u] = task[u]
  BY DEF PayoutInv
<1>2. \A u \in Clients \cup Reviews : TaskRight(u)'
  BY <1>1 DEF PayoutInv, TaskRight, Past
<1> QED
  BY <1>1, <1>2 DEF PayoutInv, CommissionRight, PayoutRight, OnePayoutPerKey, Made

LEMMA NowIsASnap ==
  ASSUME PayoutInv
  PROVE  Now \in Snap /\ Past(Now)
BY DEF PayoutInv, Now, Snap, Past

LEMMA BeginPayoutStep ==
  ASSUME PayoutInv, NEW t \in Clients, NEW body \in Bodies, BeginPayout(t, body)
  PROVE  PayoutInv'
<1> DEFINE k == [task[t] EXCEPT !.pc = "open", !.body = body, !.snap = Now]
<1>1. task' = [task EXCEPT ![t] = k] /\ UNCHANGED <<earned, payout, referrer, paidIn>>
  BY DEF BeginPayout
<1>2. /\ k \in Task /\ k.pc = "open" /\ k.body = body /\ k.snap = Now
      /\ k.op = task[t].op /\ k.payout = task[t].payout
  BY NowIsASnap DEF PayoutInv, Task
<1> HIDE DEF k
<1>3. task'[t] = k
  BY <1>1 DEF PayoutInv
<1>4. TaskRight(t)'
  BY <1>1, <1>2, <1>3, NowIsASnap, TasksAssumption DEF BeginPayout, PayoutInv, TaskRight, Past
<1> QED
  BY <1>1, <1>2, <1>4, TaskMoves

LEMMA BeginReviewStep ==
  ASSUME PayoutInv, NEW t \in Reviews, NEW op \in ReviewOps, NEW p \in Clients,
         BeginReview(t, op, p)
  PROVE  PayoutInv'
<1> DEFINE k == [task[t] EXCEPT !.pc = "open", !.op = op, !.payout = p, !.snap = Now]
<1>1. task' = [task EXCEPT ![t] = k] /\ UNCHANGED <<earned, payout, referrer, paidIn>>
  BY DEF BeginReview
<1>2. /\ k \in Task /\ k.pc = "open" /\ k.snap = Now /\ k.payout = p
  BY NowIsASnap DEF PayoutInv, Task
<1> HIDE DEF k
<1>3. task'[t] = k
  BY <1>1 DEF PayoutInv
<1>4. TaskRight(t)'
  BY <1>1, <1>2, <1>3, NowIsASnap, TasksAssumption DEF TaskRight, Past
<1> QED
  BY <1>1, <1>2, <1>4, TaskMoves

LEMMA RetryStep ==
  ASSUME PayoutInv, NEW t \in Clients \cup Reviews, task[t].pc = "open", Retry(t)
  PROVE  PayoutInv'
<1> DEFINE k == [task[t] EXCEPT !.snap = Now]
<1>1. task' = [task EXCEPT ![t] = k] /\ UNCHANGED <<earned, payout, referrer, paidIn>>
  BY DEF Retry
<1>2. /\ k \in Task /\ k.pc = "open" /\ k.body = task[t].body /\ k.snap = Now
      /\ k.op = task[t].op /\ k.payout = task[t].payout
  BY NowIsASnap DEF PayoutInv, Task
<1> HIDE DEF k
<1>3. task'[t] = k
  BY <1>1 DEF PayoutInv
<1>4. TaskRight(t)'
  BY <1>1, <1>2, <1>3, NowIsASnap DEF PayoutInv, TaskRight, Past
<1> QED
  BY <1>1, <1>2, <1>4, TaskMoves

\* A request is answered without a document being written.
LEMMA AnswerOnly ==
  ASSUME PayoutInv, NEW t \in Clients \cup Reviews, NEW p \in Clients \cup {None}, Answer(t, p),
         t \in Clients /\ p # None =>
             payout[p].status # "absent" /\ payout[p].body = task[t].body,
         UNCHANGED <<earned, payout, referrer, paidIn>>
  PROVE  PayoutInv'
<1> DEFINE k == [task[t] EXCEPT !.pc = "done", !.payout = p, !.snap = None]
<1>1. task' = [task EXCEPT ![t] = k]
  BY DEF Answer
<1>2. k \in Task /\ k.pc = "done" /\ k.payout = p /\ k.op = task[t].op /\ k.body = task[t].body
  BY DEF PayoutInv, Task
<1> HIDE DEF k
<1>3. task'[t] = k
  BY <1>1 DEF PayoutInv
<1>4. TaskRight(t)'
  BY <1>2, <1>3 DEF PayoutInv, TaskRight
<1> QED
  BY <1>1, <1>2, <1>4, TaskMoves

LEMMA AnswerExistingStep ==
  ASSUME PayoutInv, NEW t \in Clients, NEW docs,
         docs = payout \/ (task[t].pc = "open" /\ docs = task[t].snap.payout),
         AnswerExisting(t, docs),
         UNCHANGED <<earned, payout, referrer, paidIn>>
  PROVE  PayoutInv'
<1>1. PICK p \in Existing(t, docs) : Answer(t, IF docs[p].body = task[t].body THEN p ELSE None)
  BY DEF AnswerExisting
<1>2. p \in Clients /\ docs[p].status # "absent"
  BY DEF Existing
<1>3. payout[p].status # "absent" /\ payout[p].body = docs[p].body
  BY <1>2 DEF PayoutInv, TaskRight, Past
<1>4. CASE docs[p].body = task[t].body
  BY <1>1, <1>2, <1>3, <1>4, AnswerOnly
<1>5. CASE docs[p].body # task[t].body
  BY <1>1, <1>5, AnswerOnly
<1> QED
  BY <1>4, <1>5

-----------------------------------------------------------------------------
(* The creation of a payout.                                               *)

LEMMA CommissionIdsAreCommissions ==
  ASSUME PayoutInv, NEW t \in Clients, task[t].body \in Bodies
  PROVE  CommissionIds(t) \in SUBSET Commissions
<1>1. task[t].body.ids \subseteq Commissions
  BY BodiesAssumption
<1>2. resolveAmountOnlyCommissionIds(task[t].body, task[t].snap.earned) \subseteq Commissions
  BY DEF resolveAmountOnlyCommissionIds
<1> QED
  BY <1>1, <1>2 DEF CommissionIds

LEMMA CommitPayout ==
  ASSUME PayoutInv, IsFiniteSet(Commissions), NEW t \in Clients, task[t].pc = "open",
         loadAndValidateCommissions(t), UnchangedSince(t, CommissionIds(t)), KeyIsUnique(t),
         earned' = Set(CommissionIds(t), [status |-> "LOCKED", payout |-> t]),
         payout' = [payout EXCEPT ![t] =
                       [status |-> "PENDING", body |-> task[t].body, ids |-> CommissionIds(t),
                        amount |-> Total(CommissionIds(t))]],
         Answer(t, t), UNCHANGED <<referrer, paidIn>>
  PROVE  PayoutInv'
<1> PICK ids \in SUBSET Commissions : ids = CommissionIds(t)
  BY CommissionIdsAreCommissions DEF PayoutInv, TaskRight
<1> PICK body \in Bodies : body = task[t].body
  BY DEF PayoutInv, TaskRight
<1> DEFINE lock == [status |-> "LOCKED", payout |-> t]
           doc == [status |-> "PENDING", body |-> body, ids |-> ids, amount |-> Total(ids)]
           k == [task[t] EXCEPT !.pc = "done", !.payout = t, !.snap = None]
<1>1. /\ earned' = [c \in Commissions |-> IF c \in ids THEN lock ELSE earned[c]]
      /\ payout' = [payout EXCEPT ![t] = doc]
      /\ task' = [task EXCEPT ![t] = k]
  BY DEF Set, Answer
<1>2. /\ ids # {}
      /\ \A c \in ids : /\ earned[c] = [status |-> "AVAILABLE", payout |-> None]
                        /\ CurrencyOf[c] = body.currency
  BY DEF loadAndValidateCommissions, UnchangedSince
<1>3. Total(ids) \in Nat /\ Total(ids) > 0
  BY <1>2, TotalIsPositive
<1>4. /\ doc \in PayoutDoc /\ doc.status = "PENDING" /\ doc.body = body /\ doc.ids = ids
      /\ doc.amount = Total(ids)
  BY <1>3 DEF PayoutDoc
<1>5. lock \in Earning /\ lock.status = "LOCKED" /\ lock.payout = t
  BY DEF Earning
<1>6. /\ k \in Task /\ k.pc = "done" /\ k.payout = t /\ k.op = task[t].op /\ k.body = body
  BY DEF PayoutInv, Task
<1>7. payout[t].status = "absent"
  BY DEF PayoutInv, TaskRight
<1> HIDE DEF doc, k
<1>8. /\ payout'[t] = doc /\ \A p \in Clients \ {t} : payout'[p] = payout[p]
      /\ task'[t] = k /\ \A u \in (Clients \cup Reviews) \ {t} : task'[u] = task[u]
      /\ \A c \in ids : earned'[c] = lock
      /\ \A c \in Commissions \ ids : earned'[c] = earned[c]
  BY <1>1 DEF PayoutInv
<1>9. /\ earned' \in [Commissions -> Earning] /\ payout' \in [Clients -> PayoutDoc]
      /\ task' \in [Clients \cup Reviews -> Task]
  BY <1>1, <1>4, <1>5, <1>6 DEF PayoutInv
<1>10. \A c \in Commissions : CommissionRight(c)'
  <2> SUFFICES ASSUME NEW c \in Commissions PROVE CommissionRight(c)'
    OBVIOUS
  <2>1. CASE c \in ids
    BY <1>4, <1>5, <1>8, <2>1 DEF CommissionRight
  <2>2. CASE c \notin ids
    BY <1>7, <1>8, <2>2 DEF PayoutInv, CommissionRight
  <2> QED
    BY <2>1, <2>2
<1>11. \A p \in Clients : PayoutRight(p)'
  <2> SUFFICES ASSUME NEW p \in Clients PROVE PayoutRight(p)'
    OBVIOUS
  <2>1. CASE p = t
    <3>1. paidIn[t] = 0
      BY <1>7 DEF PayoutInv, PayoutRight
    <3> QED
      BY <1>2, <1>3, <1>4, <1>8, <2>1, <3>1 DEF PayoutRight
  <2>2. CASE p # t
    <3>1. payout'[p] = payout[p]
      BY <1>8, <2>2
    <3>2. payout[p].ids \subseteq Commissions
      BY DEF PayoutInv, PayoutDoc
    <3>3. payout[p].status \in {"PENDING", "PAID"} =>
              \A c \in payout[p].ids : c \in Commissions \ ids
      <4> SUFFICES ASSUME payout[p].status \in {"PENDING", "PAID"}, NEW c \in payout[p].ids
                   PROVE  c \in Commissions \ ids
        OBVIOUS
      <4>1. PayoutRight(p)
        BY DEF PayoutInv
      <4>2. earned[c].status # "AVAILABLE"
        BY <4>1 DEF PayoutRight
      <4> QED
        BY <1>2, <3>2, <4>2
    <3> QED
      BY <1>8, <3>1, <3>3 DEF PayoutInv, PayoutRight
  <2> QED
    BY <2>1, <2>2
<1>12. \A u \in Clients \cup Reviews : TaskRight(u)'
  <2> SUFFICES ASSUME NEW u \in Clients \cup Reviews PROVE TaskRight(u)'
    OBVIOUS
  <2>1. CASE u = t
    BY <1>4, <1>6, <1>8, <2>1, TasksAssumption DEF PayoutInv, TaskRight
  <2>2. CASE u # t
    <3>1. task'[u] = task[u] /\ TaskRight(u)
      BY <1>8, <2>2 DEF PayoutInv
    <3>2. Past(task[u].snap) => Past(task[u].snap)'
      BY <1>7, <1>8, <3>1 DEF Past
    <3>3. u \in Clients => payout'[u] = payout[u]
      BY <1>8, <2>2
    <3>4. \A p \in Clients : payout[p].status # "absent" => payout'[p] = payout[p]
      BY <1>7, <1>8
    <3> QED
      BY <3>1, <3>2, <3>3, <3>4 DEF PayoutInv, TaskRight, Task
  <2> QED
    BY <2>1, <2>2
<1>13. OnePayoutPerKey'
  <2>1. \A p \in Made : body.key # None => payout[p].body.key # body.key
    BY DEF KeyIsUnique, Existing, Made
  <2>2. Made' = Made \cup {t}
    BY <1>4, <1>8 DEF Made
  <2>3. \A p \in Made : payout'[p] = payout[p]
    BY <1>7, <1>8 DEF Made
  <2> QED
    BY <1>4, <1>8, <2>1, <2>2, <2>3 DEF PayoutInv, OnePayoutPerKey
<1> QED
  BY <1>9, <1>10, <1>11, <1>12, <1>13 DEF PayoutInv

LEMMA CreateStep ==
  ASSUME PayoutInv, IsFiniteSet(Commissions), NEW t \in Clients, createReferralPayout(t)
  PROVE  PayoutInv'
<1>1. task[t].pc = "open"
  BY DEF createReferralPayout
<1>2. CASE /\ AnswerExisting(t, task[t].snap.payout)
           /\ UNCHANGED <<earned, payout, referrer, paidIn>>
  BY <1>1, <1>2, AnswerExistingStep
<1>3. CASE /\ AnswerExisting(t, payout)
           /\ UNCHANGED <<earned, payout, referrer, paidIn>>
  BY <1>3, AnswerExistingStep
<1>4. CASE Answer(t, None) /\ UNCHANGED <<earned, payout, referrer, paidIn>>
  BY <1>4, AnswerOnly
<1>5. CASE Retry(t)
  BY <1>1, <1>5, RetryStep
<1>6. CASE /\ loadAndValidateCommissions(t)
           /\ UnchangedSince(t, CommissionIds(t)) /\ KeyIsUnique(t)
           /\ earned' = Set(CommissionIds(t), [status |-> "LOCKED", payout |-> t])
           /\ payout' = [payout EXCEPT ![t] =
                 [status |-> "PENDING", body |-> task[t].body, ids |-> CommissionIds(t),
                  amount |-> Total(CommissionIds(t))]]
           /\ Answer(t, t) /\ UNCHANGED <<referrer, paidIn>>
  BY <1>1, <1>6, CommitPayout
<1> QED
  BY <1>2, <1>3, <1>4, <1>5, <1>6 DEF createReferralPayout

-----------------------------------------------------------------------------
(* Reviews.                                                                *)

\* A review that commits closes a pending payout, its commissions and, if it pays into the
\* wallet, the credit together.
LEMMA CommitReview ==
  ASSUME PayoutInv, NEW t \in Reviews, NEW op \in ReviewOps, Commits(t, op),
         NEW p \in Clients, p = task[t].payout,
         NEW status \in {"PAID", "REJECTED"}, status = "REJECTED" <=> op = "reject",
         NEW entry, entry = IF op = "reject" THEN [status |-> "AVAILABLE", payout |-> None]
                            ELSE [status |-> "PAID", payout |-> p],
         payout' = [payout EXCEPT ![p].status = status],
         earned' = Set(payout[p].ids, entry),
         paidIn' = IF op = "pay" THEN [paidIn EXCEPT ![p] = @ + Rounded(payout[p].amount)]
                   ELSE paidIn,
         Answer(t, p), UNCHANGED referrer
  PROVE  PayoutInv'
<1> PICK ids \in SUBSET Commissions : ids = payout[p].ids
  BY DEF PayoutInv, PayoutDoc
<1> DEFINE doc == [payout[p] EXCEPT !.status = status]
           k == [task[t] EXCEPT !.pc = "done", !.payout = p, !.snap = None]
<1>1. /\ earned' = [c \in Commissions |-> IF c \in ids THEN entry ELSE earned[c]]
      /\ payout' = [payout EXCEPT ![p] = doc]
      /\ task' = [task EXCEPT ![t] = k]
  BY DEF Set, Answer
<1>2. /\ payout[p].status = "PENDING"
      /\ op = "pay" => payout[p].body.method = "WALLET_CREDIT" /\ Rounded(payout[p].amount) > 0
      /\ op = "mark" => payout[p].body.method = "MANUAL_EXTERNAL"
  BY DEF Commits, Reviewable, NoConflict, IsPending
<1>3. /\ doc \in PayoutDoc /\ doc.status = status /\ doc.body = payout[p].body
      /\ doc.ids = ids /\ doc.amount = payout[p].amount
  BY DEF PayoutInv, PayoutDoc
<1>4. entry \in Earning
  BY DEF Earning
<1>5. k \in Task /\ k.pc = "done"
  BY DEF PayoutInv, Task
<1>6. \A c \in ids : earned[c] = [status |-> "LOCKED", payout |-> p]
  BY <1>2 DEF PayoutInv, PayoutRight
<1>7. /\ payout[p].body \in Bodies /\ ids # {} /\ payout[p].amount = Total(ids)
      /\ payout[p].amount > 0 /\ payout[p].amount \in Nat
      /\ \A c \in ids : CurrencyOf[c] = payout[p].body.currency
      /\ paidIn[p] = 0
  BY <1>2 DEF PayoutInv, PayoutRight, PayoutDoc
<1> HIDE DEF doc, k
<1>8. /\ payout'[p] = doc /\ \A q \in Clients \ {p} : payout'[q] = payout[q]
      /\ task'[t] = k /\ \A u \in (Clients \cup Reviews) \ {t} : task'[u] = task[u]
      /\ \A c \in ids : earned'[c] = entry
      /\ \A c \in Commissions \ ids : earned'[c] = earned[c]
  BY <1>1 DEF PayoutInv
<1>9. /\ earned' \in [Commissions -> Earning] /\ payout' \in [Clients -> PayoutDoc]
      /\ task' \in [Clients \cup Reviews -> Task]
  BY <1>1, <1>3, <1>4, <1>5 DEF PayoutInv
<1>10. /\ paidIn' \in [Clients -> Nat]
       /\ paidIn'[p] = IF op = "pay" THEN Rounded(payout[p].amount) ELSE 0
       /\ \A q \in Clients \ {p} : paidIn'[q] = paidIn[q]
  <2>1. Rounded(payout[p].amount) \in Int
    BY <1>7, CentAssumption DEF Rounded
  <2>2. CASE op = "pay"
    <3>1. Rounded(payout[p].amount) \in Nat
      BY <1>2, <2>1, <2>2
    <3>2. paidIn' = [paidIn EXCEPT ![p] = paidIn[p] + Rounded(payout[p].amount)]
      BY <2>2
    <3>3. paidIn[p] + Rounded(payout[p].amount) = Rounded(payout[p].amount)
      BY <1>7, <3>1
    <3> QED
      BY <2>2, <3>1, <3>2, <3>3 DEF PayoutInv
  <2>3. CASE op # "pay"
    BY <1>7, <2>3 DEF PayoutInv
  <2> QED
    BY <2>2, <2>3
<1>11. \A c \in Commissions : CommissionRight(c)'
  <2> SUFFICES ASSUME NEW c \in Commissions PROVE CommissionRight(c)'
    OBVIOUS
  <2>1. CASE c \in ids
    <3>1. CASE op = "reject"
      <4>1. earned'[c] = [status |-> "AVAILABLE", payout |-> None]
        BY <1>8, <2>1, <3>1
      <4>2. earned'[c].status = "AVAILABLE" /\ earned'[c].payout = None
        BY <4>1
      <4> QED
        BY <4>2 DEF CommissionRight
    <3>2. CASE op # "reject"
      <4>1. earned'[c] = [status |-> "PAID", payout |-> p]
        BY <1>8, <2>1, <3>2
      <4>2. earned'[c].status = "PAID" /\ earned'[c].payout = p
        BY <4>1
      <4>3. c \in payout'[p].ids /\ payout'[p].status = "PAID"
        BY <1>3, <1>8, <2>1, <3>2
      <4> QED
        BY <4>2, <4>3 DEF CommissionRight
    <3> QED
      BY <3>1, <3>2
  <2>2. CASE c \notin ids
    <3>1. earned[c].status # "AVAILABLE" => earned[c].payout \in Clients \ {p}
      BY <2>2 DEF PayoutInv, CommissionRight
    <3> QED
      BY <1>8, <2>2, <3>1 DEF PayoutInv, CommissionRight
  <2> QED
    BY <2>1, <2>2
<1>12. \A q \in Clients : PayoutRight(q)'
  <2> SUFFICES ASSUME NEW q \in Clients PROVE PayoutRight(q)'
    OBVIOUS
  <2>1. CASE q = p
    <3>1. op \in {"pay", "mark", "reject"}
      BY DEF ReviewOps
    <3>2. paidIn'[p] = IF status = "PAID" /\ doc.body.method = "WALLET_CREDIT"
                       THEN Rounded(doc.amount) ELSE 0
      BY <1>2, <1>3, <1>10, <3>1
    <3>3. status = "PAID" => entry = [status |-> "PAID", payout |-> p]
      OBVIOUS
    <3>4. payout'[p] = doc /\ \A c \in ids : earned'[c] = entry
      BY <1>8
    <3>5. doc.status = "PAID" => \A c \in doc.ids : earned'[c] = [status |-> "PAID", payout |-> p]
      BY <1>3, <3>3, <3>4
    <3>6. doc.status \in {"PAID", "REJECTED"}
      BY <1>3
    <3>7. /\ doc.body \in Bodies /\ doc.ids # {} /\ doc.amount = Total(doc.ids) /\ doc.amount > 0
          /\ \A c \in doc.ids : CurrencyOf[c] = doc.body.currency
      BY <1>3, <1>7
    <3> QED
      BY <1>3, <2>1, <3>2, <3>4, <3>5, <3>6, <3>7 DEF PayoutRight
  <2>2. CASE q # p
    <3>1. payout'[q] = payout[q] /\ paidIn'[q] = paidIn[q]
      BY <1>8, <1>10, <2>2
    <3>2. payout[q].ids \subseteq Commissions
      BY DEF PayoutInv, PayoutDoc
    <3>3. payout[q].status \in {"PENDING", "PAID"} =>
              \A c \in payout[q].ids : c \in Commissions \ ids
      <4> SUFFICES ASSUME payout[q].status \in {"PENDING", "PAID"}, NEW c \in payout[q].ids
                   PROVE  c \in Commissions \ ids
        OBVIOUS
      <4>1. PayoutRight(q)
        BY DEF PayoutInv
      <4>2. earned[c].payout = q
        BY <4>1 DEF PayoutRight
      <4> QED
        BY <1>6, <2>2, <3>2, <4>2
    <3>4. \A c \in payout[q].ids :
              payout[q].status \in {"PENDING", "PAID"} => earned'[c] = earned[c]
      BY <1>8, <3>3
    <3>5. PayoutRight(q)
      BY DEF PayoutInv
    <3> QED
      BY <3>1, <3>4, <3>5 DEF PayoutRight
  <2> QED
    BY <2>1, <2>2
<1>13. \A q \in Clients :
           /\ payout[q].status # "absent" <=> payout'[q].status # "absent"
           /\ payout'[q].body = payout[q].body
  BY <1>2, <1>3, <1>8
<1>14. \A u \in Clients \cup Reviews : TaskRight(u)'
  <2> SUFFICES ASSUME NEW u \in Clients \cup Reviews PROVE TaskRight(u)'
    OBVIOUS
  <2>1. CASE u = t
    BY <1>5, <1>8, <2>1, TasksAssumption DEF TaskRight
  <2>2. CASE u # t
    <3>1. task'[u] = task[u] /\ TaskRight(u)
      BY <1>8, <2>2 DEF PayoutInv
    <3>2. Past(task[u].snap) => Past(task[u].snap)'
      BY <1>13, <3>1 DEF Past
    <3> QED
      BY <1>13, <3>1, <3>2 DEF PayoutInv, TaskRight, Task
  <2> QED
    BY <2>1, <2>2
<1>15. OnePayoutPerKey'
  <2>1. Made' = Made
    BY <1>13 DEF Made
  <2> QED
    BY <1>13, <2>1 DEF PayoutInv, OnePayoutPerKey, Made
<1> QED
  BY <1>9, <1>10, <1>11, <1>12, <1>14, <1>15 DEF PayoutInv

\* A request of a customer reviews nothing.
LEMMA OnlyReviewsReview ==
  ASSUME PayoutInv, NEW t \in Clients \cup Reviews, NEW op \in ReviewOps, Commits(t, op)
  PROVE  t \in Reviews /\ task[t].payout \in Clients
BY ReviewOpsAssumption DEF PayoutInv, TaskRight, Commits

LEMMA ReviewStep ==
  ASSUME PayoutInv, NEW t \in Clients \cup Reviews,
         \/ rejectReferralPayout(t) \/ payWalletReferralPayout(t)
         \/ markManualReferralPayoutPaid(t) \/ ReviewEndsOtherwise(t)
  PROVE  PayoutInv'
<1>1. CASE rejectReferralPayout(t)
  <2>1. t \in Reviews /\ task[t].payout \in Clients
    BY <1>1, OnlyReviewsReview DEF rejectReferralPayout, ReviewOps
  <2> QED
    BY <1>1, <2>1, CommitReview DEF rejectReferralPayout, ReviewOps
<1>2. CASE payWalletReferralPayout(t)
  <2>1. t \in Reviews /\ task[t].payout \in Clients
    BY <1>2, OnlyReviewsReview DEF payWalletReferralPayout, ReviewOps
  <2> QED
    BY <1>2, <2>1, CommitReview DEF payWalletReferralPayout, ReviewOps
<1>3. CASE markManualReferralPayoutPaid(t)
  <2>1. t \in Reviews /\ task[t].payout \in Clients
    BY <1>3, OnlyReviewsReview DEF markManualReferralPayoutPaid, ReviewOps
  <2> QED
    BY <1>3, <2>1, CommitReview DEF markManualReferralPayoutPaid, ReviewOps
<1>4. CASE ReviewEndsOtherwise(t)
  <2>1. CASE Retry(t)
    BY <1>4, <2>1, RetryStep DEF ReviewEndsOtherwise
  <2>2. CASE Answer(t, None) /\ UNCHANGED <<earned, payout, referrer, paidIn>>
    BY <2>2, AnswerOnly
  <2> QED
    BY <1>4, <2>1, <2>2 DEF ReviewEndsOtherwise
<1> QED
  BY <1>1, <1>2, <1>3, <1>4

-----------------------------------------------------------------------------

LEMMA PayoutStep ==
  ASSUME PayoutInv, IsFiniteSet(Commissions), [PayoutNext]_payoutVars
  PROVE  PayoutInv'
<1>1. ASSUME NEW t \in Clients \cup Reviews, TaskStep(t) PROVE PayoutInv'
  <2>1. CASE createReferralPayout(t)
    BY <2>1, CreateStep DEF createReferralPayout
  <2> QED
    BY <1>1, <2>1, ReviewStep DEF TaskStep
<1>2. CASE ReferrerDocChanges
  BY <1>2 DEF ReferrerDocChanges, PayoutInv, CommissionRight, PayoutRight, TaskRight, Past,
       OnePayoutPerKey, Made
<1>3. CASE UNCHANGED payoutVars
  BY <1>3 DEF payoutVars, PayoutInv, CommissionRight, PayoutRight, TaskRight, Past,
       OnePayoutPerKey, Made
<1> QED
  BY <1>1, <1>2, <1>3, BeginPayoutStep, BeginReviewStep DEF PayoutNext

LEMMA PayoutInvSays == PayoutInv => PayoutTypeOK /\ AuditIsClean /\ OneKeyOnePayout
<1> SUFFICES ASSUME PayoutInv PROVE PayoutTypeOK /\ AuditIsClean /\ OneKeyOnePayout
  OBVIOUS
<1>1. PayoutTypeOK
  <2>1. None \notin Bodies
    BY BodiesAssumption
  <2> QED
    BY <2>1 DEF PayoutInv, PayoutRight, PayoutTypeOK, Made
<1>2. OneKeyOnePayout
  BY DEF PayoutInv, TaskRight, OnePayoutPerKey, OneKeyOnePayout
<1>3. \A c \in Commissions : CommissionRight(c)
  BY DEF PayoutInv
<1>4. \A p \in Clients : PayoutRight(p) /\ payout[p].ids \subseteq Commissions
  BY DEF PayoutInv, PayoutDoc
<1>5. \A c \in Commissions : earned[c].status \in {"AVAILABLE", "LOCKED", "PAID"}
  BY DEF PayoutInv, Earning
<1>6. lockedMissingPayout = {}
  BY <1>3, TasksAssumption DEF CommissionRight, lockedMissingPayout
<1>7. countPayoutAmountMismatches = {}
  BY <1>4 DEF PayoutRight, Made, countPayoutAmountMismatches
<1>8. countPayoutCurrencyMismatches = {}
  BY <1>4 DEF PayoutRight, Made, countPayoutCurrencyMismatches
<1>9. countPayoutCommissionStateMismatch("PENDING", "LOCKED") = {}
  BY <1>4 DEF PayoutRight, Made, countPayoutCommissionStateMismatch
<1>10. countPayoutCommissionStateMismatch("PAID", "PAID") = {}
  BY <1>4 DEF PayoutRight, Made, countPayoutCommissionStateMismatch
<1>11. rejectedStillLocked = {}
  <2> SUFFICES ASSUME NEW p \in Clients, payout[p].status = "REJECTED",
                      NEW c \in payout[p].ids, earned[c].payout = p
               PROVE  FALSE
    BY DEF rejectedStillLocked, Made
  <2> QED
    BY <1>3, <1>4, TasksAssumption DEF CommissionRight
<1>12. \A c \in Commissions : earned[c].status = "LOCKED" =>
           /\ payout[earned[c].payout].status = "PENDING"
           /\ c \in payout[earned[c].payout].ids
  BY <1>3 DEF CommissionRight
<1>13. AuditIsClean
  BY <1>4, <1>6, <1>7, <1>8, <1>9, <1>10, <1>11, <1>12 DEF PayoutRight, AuditIsClean
<1> QED
  BY <1>1, <1>2, <1>13

-----------------------------------------------------------------------------
(* Target orders: the invariant.                                           *)

TargetAccounts == {a.account : a \in AppDocs}

App == [active : BOOLEAN, price : Nat \ {0}, account : TargetAccounts,
        methods : (SUBSET PayMethods) \ {{}}]

OrderDoc ==
    [status : {"absent", "PENDING", "APPROVED", "REJECTED"}, body : TargetBodies \cup {None},
     price : Nat, account : TargetAccounts \cup {None}, reviewedBy : Reviews \cup {None}]

Submission ==
    [pc : {"new", "method", "lookup", "insert", "done"}, body : TargetBodies \cup {None},
     copy : App \cup {None}, order : Clients \cup {None}]

Decision ==
    [pc : {"new", "decide", "done"}, op : {"approve", "reject", None}, order : Clients \cup {None}]

Edits ==
    [pc : {"new", "save", "done"}, copy : App \cup {None}, edited : AppDocs \cup {None}]

Ordered(o) == order[o].status # "absent"

\* A request inserts no order before its last step, and then answers with one of its payload.
SubmissionRight(t) ==
    /\ submission[t].pc # "done" => ~Ordered(t)
    /\ submission[t].pc \in {"method", "lookup", "insert"} =>
           submission[t].body \in TargetBodies /\ submission[t].copy \in App
    /\ submission[t].pc # "done" => submission[t].order = None
    /\ submission[t].order # None =>
           /\ Ordered(submission[t].order)
           /\ order[submission[t].order].body = submission[t].body

OrderRight(o) ==
    /\ order[o].status \in {"APPROVED", "REJECTED"} <=> order[o].reviewedBy \in Reviews
    /\ Ordered(o) => order[o].body \in TargetBodies /\ order[o].price > 0

\* A decision that was made is the one the order carries.
DecisionRight(r) ==
    /\ decision[r].pc = "decide" => /\ decision[r].order \in Clients
                                    /\ Ordered(decision[r].order)
                                    /\ decision[r].op \in {"approve", "reject"}
    /\ decision[r].pc = "new" => decision[r].order = None
    /\ decision[r].pc = "done" /\ decision[r].order # None =>
           /\ order[decision[r].order].reviewedBy = r
           /\ order[decision[r].order].status
              = IF decision[r].op = "approve" THEN "APPROVED" ELSE "REJECTED"

OneOrderPerKey ==
    \A o, p \in Clients :
        Ordered(o) /\ Ordered(p) /\ order[o].body.key = order[p].body.key
        /\ order[o].body.key # None => o = p

TargetInv ==
    /\ app \in App \cup {None}
    /\ configured \in [PayMethods -> {"active", "inactive", "missing"}]
    /\ order \in [Clients -> OrderDoc]
    /\ submission \in [Clients -> Submission]
    /\ decision \in [Reviews -> Decision]
    /\ edit \in Edits
    /\ edit.pc = "save" => app \in App /\ edit.copy \in App /\ edit.edited \in AppDocs
    /\ \A t \in Clients : SubmissionRight(t)
    /\ \A o \in Clients : OrderRight(o)
    /\ \A r \in Reviews : DecisionRight(r)
    /\ OneOrderPerKey

LEMMA AppsAreApps == AppDocs \subseteq App /\ None \notin AppDocs
<1>1. SUFFICES ASSUME NEW a \in AppDocs PROVE a \in App
  BY AppDocsAssumption
<1>2. a.account \in TargetAccounts
  BY DEF TargetAccounts
<1> QED
  BY <1>2, AppDocsAssumption DEF App

LEMMA TargetInitInv == TargetInit => TargetInv
<1> SUFFICES ASSUME TargetInit PROVE TargetInv
  OBVIOUS
<1> USE DEF TargetInit
<1>1. order \in [Clients -> OrderDoc] /\ edit \in Edits
  BY DEF NoOrder, OrderDoc, Edits
<1>2. submission \in [Clients -> Submission] /\ decision \in [Reviews -> Decision]
  BY DEF Submission, Decision
<1>3. \A t \in Clients : SubmissionRight(t) /\ OrderRight(t)
  BY TasksAssumption DEF SubmissionRight, OrderRight, Ordered, NoOrder
<1>4. \A r \in Reviews : DecisionRight(r)
  BY DEF DecisionRight
<1> QED
  BY <1>1, <1>2, <1>3, <1>4 DEF TargetInv, OneOrderPerKey, Ordered, NoOrder

\* A step that leaves the orders alone and moves one submission.
LEMMA SubmissionMoves ==
  ASSUME TargetInv, NEW t \in Clients, NEW s \in Submission,
         submission' = [submission EXCEPT ![t] = s],
         UNCHANGED <<app, configured, order, decision, edit>>,
         SubmissionRight(t)'
  PROVE  TargetInv'
<1>1. submission' \in [Clients -> Submission]
  BY DEF TargetInv
<1>2. \A u \in Clients \ {t} : submission'[u] = submission[u]
  BY DEF TargetInv
<1>3. \A u \in Clients : SubmissionRight(u)'
  BY <1>2 DEF TargetInv, SubmissionRight, Ordered
<1> QED
  BY <1>1, <1>3 DEF TargetInv, OrderRight, DecisionRight, OneOrderPerKey, Ordered

LEMMA SubmitStep ==
  ASSUME TargetInv, NEW t \in Clients, NEW body \in TargetBodies, SubmitTargetOrder(t, body)
  PROVE  TargetInv'
<1> DEFINE s == IF app # None /\ app.active
                THEN [submission[t] EXCEPT !.pc = "method", !.body = body, !.copy = app]
                ELSE [submission[t] EXCEPT !.pc = "done", !.body = body]
<1>1. submission' = [submission EXCEPT ![t] = s] /\ UNCHANGED <<app, configured, order, decision, edit>>
  BY DEF SubmitTargetOrder
<1>2. s \in Submission
  BY DEF TargetInv, Submission
<1>3. SubmissionRight(t)'
  <2>1. submission'[t] = s
    BY <1>1 DEF TargetInv
  <2>2. s.order = submission[t].order /\ s.body = body /\ s.pc \in {"method", "done"}
        /\ (s.pc = "method" => s.copy \in App)
    BY DEF TargetInv, Submission
  <2>3. submission[t].order = None /\ ~Ordered(t)
    BY DEF TargetInv, SubmissionRight, SubmitTargetOrder
  <2> QED
    BY <1>1, <2>1, <2>2, <2>3 DEF SubmissionRight, Ordered
<1> HIDE DEF s
<1> QED
  BY <1>1, <1>2, <1>3, SubmissionMoves

LEMMA GoesOn ==
  ASSUME TargetInv, NEW t \in Clients, submission[t].pc \in {"method", "lookup"},
         NEW pc \in {"lookup", "insert"},
         SubmissionGoes(t, pc, "order", None),
         UNCHANGED <<app, configured, order, decision, edit>>
  PROVE  TargetInv'
<1> DEFINE s == [submission[t] EXCEPT !.pc = pc, !.order = None]
<1>1. submission' = [submission EXCEPT ![t] = s]
  BY DEF SubmissionGoes, TargetInv, Submission
<1>2. s \in Submission /\ s.pc = pc /\ s.order = None /\ s.body = submission[t].body
      /\ s.copy = submission[t].copy
  BY DEF TargetInv, Submission
<1>3. submission'[t] = s
  BY <1>1 DEF TargetInv
<1>4. SubmissionRight(t)'
  BY <1>2, <1>3 DEF TargetInv, SubmissionRight, Ordered
<1> HIDE DEF s
<1> QED
  BY <1>1, <1>2, <1>4, SubmissionMoves

LEMMA AnswerStep ==
  ASSUME TargetInv, NEW t \in Clients, NEW o \in Clients \cup {None}, Answered(t, o),
         o # None => Ordered(o) /\ order[o].body = submission[t].body,
         UNCHANGED <<app, configured, order, decision, edit>>
  PROVE  TargetInv'
<1> DEFINE s == [submission[t] EXCEPT !.pc = "done", !.copy = None, !.order = o]
<1>1. submission' = [submission EXCEPT ![t] = s]
  BY DEF Answered
<1>2. s \in Submission /\ s.pc = "done" /\ s.order = o /\ s.body = submission[t].body
  BY DEF TargetInv, Submission
<1>3. submission'[t] = s
  BY <1>1 DEF TargetInv
<1>4. SubmissionRight(t)'
  BY <1>2, <1>3 DEF TargetInv, SubmissionRight, Ordered
<1> HIDE DEF s
<1> QED
  BY <1>1, <1>2, <1>4, SubmissionMoves

\* Same key and same fingerprint, same payload.
LEMMA ReplayStep ==
  ASSUME TargetInv, NEW t \in Clients, submission[t].pc \in {"lookup", "insert"}, Replay(t),
         UNCHANGED <<app, configured, order, decision, edit>>
  PROVE  TargetInv'
<1>1. PICK o \in UnderKey(t) :
          Answered(t, IF Fingerprint(order[o].body, order[o])
                         = Fingerprint(submission[t].body, submission[t].copy) THEN o ELSE None)
  BY DEF Replay
<1>2. o \in Clients /\ Ordered(o) /\ order[o].body.key = submission[t].body.key
      /\ order[o].body \in TargetBodies /\ submission[t].body \in TargetBodies
  BY <1>1 DEF UnderKey, TargetInv, SubmissionRight, OrderRight, Ordered
<1>3. CASE Fingerprint(order[o].body, order[o])
           = Fingerprint(submission[t].body, submission[t].copy)
  <2>1. order[o].body.details = submission[t].body.details
        /\ order[o].body.method = submission[t].body.method
    BY <1>3 DEF Fingerprint
  <2>2. order[o].body = submission[t].body
    BY <2>1, <1>2, TargetBodiesAssumption
  <2> QED
    BY <1>1, <1>2, <1>3, <2>2, AnswerStep
<1>4. CASE ~(Fingerprint(order[o].body, order[o])
             = Fingerprint(submission[t].body, submission[t].copy))
  BY <1>1, <1>4, AnswerStep
<1> QED
  BY <1>3, <1>4

LEMMA CheckMethodStep ==
  ASSUME TargetInv, NEW t \in Clients, CheckMethod(t)
  PROVE  TargetInv'
<1>1. CASE Answered(t, None)
  BY <1>1, AnswerStep DEF CheckMethod
<1>2. CASE SubmissionGoes(t, "insert", "order", None) \/ SubmissionGoes(t, "lookup", "order", None)
  BY <1>2, GoesOn DEF CheckMethod
<1> QED
  BY <1>1, <1>2 DEF CheckMethod

LEMMA LookUpStep ==
  ASSUME TargetInv, NEW t \in Clients, LookUpKey(t)
  PROVE  TargetInv'
<1>1. CASE Replay(t)
  BY <1>1, ReplayStep DEF LookUpKey
<1>2. CASE SubmissionGoes(t, "insert", "order", None)
  BY <1>2, GoesOn DEF LookUpKey
<1> QED
  BY <1>1, <1>2 DEF LookUpKey

LEMMA InsertStep ==
  ASSUME TargetInv, NEW t \in Clients, createTargetOrder(t)
  PROVE  TargetInv'
<1>1. CASE ~InsertIsUnique(t)
  BY <1>1, ReplayStep DEF createTargetOrder
<1>2. CASE InsertIsUnique(t)
  <2> DEFINE d == [status |-> "PENDING", body |-> submission[t].body,
                   price |-> submission[t].copy.price,
                   account |-> submission[t].copy.account, reviewedBy |-> None]
             s == [submission[t] EXCEPT !.pc = "done", !.copy = None, !.order = t]
  <2>1. order' = [order EXCEPT ![t] = d] /\ submission' = [submission EXCEPT ![t] = s]
        /\ UNCHANGED <<app, configured, decision, edit>>
    BY <1>2 DEF createTargetOrder, Answered
  <2>2. submission[t].body \in TargetBodies /\ submission[t].copy \in App /\ ~Ordered(t)
    BY DEF createTargetOrder, TargetInv, SubmissionRight
  <2>3. d \in OrderDoc /\ d.status = "PENDING" /\ d.body = submission[t].body /\ d.price > 0
        /\ d.reviewedBy = None
    BY <2>2 DEF OrderDoc, App
  <2>4. s \in Submission /\ s.pc = "done" /\ s.order = t /\ s.body = submission[t].body
    BY DEF TargetInv, Submission
  <2> HIDE DEF d, s
  <2>5. /\ order'[t] = d /\ submission'[t] = s
        /\ \A u \in Clients \ {t} : order'[u] = order[u] /\ submission'[u] = submission[u]
    BY <2>1 DEF TargetInv
  <2>6. order' \in [Clients -> OrderDoc] /\ submission' \in [Clients -> Submission]
    BY <2>1, <2>3, <2>4 DEF TargetInv
  <2>7. \A u \in Clients : SubmissionRight(u)'
    BY <2>2, <2>3, <2>4, <2>5 DEF TargetInv, SubmissionRight, Ordered, Submission
  <2>8. \A u \in Clients : OrderRight(u)'
    BY <2>2, <2>3, <2>5, TasksAssumption DEF TargetInv, OrderRight, Ordered
  <2>9. \A r \in Reviews : DecisionRight(r)'
    BY <2>1, <2>2, <2>3, <2>5 DEF TargetInv, DecisionRight, Ordered, Decision
  <2>10. OneOrderPerKey'
    <3>1. \A o \in Clients : Ordered(o) /\ submission[t].body.key # None =>
              order[o].body.key # submission[t].body.key
      BY <1>2 DEF InsertIsUnique, UnderKey, Ordered
    <3> QED
      BY <2>3, <2>5, <3>1 DEF TargetInv, OneOrderPerKey, Ordered
  <2> QED
    BY <2>1, <2>6, <2>7, <2>8, <2>9, <2>10 DEF TargetInv
<1> QED
  BY <1>1, <1>2

LEMMA BeginDecisionStep ==
  ASSUME TargetInv, NEW r \in Reviews, NEW op \in {"approve", "reject"}, NEW o \in Clients,
         BeginDecision(r, op, o)
  PROVE  TargetInv'
<1>1. decision' \in [Reviews -> Decision]
  BY DEF BeginDecision, TargetInv, Decision
<1>2. \A q \in Reviews : DecisionRight(q)'
  BY DEF BeginDecision, TargetInv, DecisionRight, Ordered
<1> QED
  BY <1>1, <1>2 DEF BeginDecision, TargetInv, SubmissionRight, OrderRight, OneOrderPerKey, Ordered

LEMMA AlreadyStep ==
  ASSUME TargetInv, NEW r \in Reviews, AlreadyReviewed(r)
  PROVE  TargetInv'
<1>1. decision' \in [Reviews -> Decision]
  BY DEF AlreadyReviewed, DecisionEnds, TargetInv, Decision
<1>2. \A q \in Reviews : DecisionRight(q)'
  BY DEF AlreadyReviewed, DecisionEnds, TargetInv, DecisionRight, Ordered, Decision
<1> QED
  BY <1>1, <1>2
     DEF AlreadyReviewed, TargetInv, SubmissionRight, OrderRight, OneOrderPerKey, Ordered

LEMMA DecideStep ==
  ASSUME TargetInv, NEW r \in Reviews, NEW op \in {"approve", "reject"},
         NEW status \in {"APPROVED", "REJECTED"},
         status = IF op = "approve" THEN "APPROVED" ELSE "REJECTED",
         Decides(r, op), Decided(r, status)
  PROVE  TargetInv'
<1> PICK o \in Clients : o = decision[r].order
  BY DEF Decides, TargetInv, DecisionRight
<1> DEFINE d == [order[o] EXCEPT !.status = status, !.reviewedBy = r]
           c == [decision[r] EXCEPT !.pc = "done", !.order = o]
<1>1. order' = [order EXCEPT ![o] = d] /\ decision' = [decision EXCEPT ![r] = c]
      /\ UNCHANGED <<app, configured, submission, edit>>
  BY DEF Decided, DecisionEnds
<1>2. order[o].status = "PENDING" /\ decision[r].op = op
  BY DEF Decides
<1>3. d \in OrderDoc /\ d.status = status /\ d.reviewedBy = r /\ d.body = order[o].body
      /\ d.price = order[o].price
  BY DEF TargetInv, OrderDoc
<1>4. c \in Decision /\ c.pc = "done" /\ c.order = o /\ c.op = op
  BY <1>2 DEF TargetInv, Decision
<1> HIDE DEF d, c
<1>5. /\ order'[o] = d /\ \A u \in Clients \ {o} : order'[u] = order[u]
      /\ decision'[r] = c /\ \A q \in Reviews \ {r} : decision'[q] = decision[q]
  BY <1>1 DEF TargetInv
<1>6. order' \in [Clients -> OrderDoc] /\ decision' \in [Reviews -> Decision]
  BY <1>1, <1>3, <1>4 DEF TargetInv
<1>7. \A t \in Clients : SubmissionRight(t)'
  BY <1>1, <1>2, <1>3, <1>5 DEF TargetInv, SubmissionRight, Ordered, Submission
<1>8. \A u \in Clients : OrderRight(u)'
  BY <1>2, <1>3, <1>5 DEF TargetInv, OrderRight, Ordered
<1>9. \A q \in Reviews : DecisionRight(q)'
  BY <1>2, <1>3, <1>4, <1>5 DEF TargetInv, DecisionRight, Ordered, Decision
<1>10. OneOrderPerKey'
  BY <1>2, <1>3, <1>5 DEF TargetInv, OneOrderPerKey, Ordered
<1> QED
  BY <1>1, <1>6, <1>7, <1>8, <1>9, <1>10 DEF TargetInv

\* The steps that touch the app, the settings and the edit only.
LEMMA ConfigurationStep ==
  ASSUME TargetInv, app' \in App \cup {None}, edit' \in Edits,
         configured' \in [PayMethods -> {"active", "inactive", "missing"}],
         edit'.pc = "save" => app' \in App /\ edit'.copy \in App /\ edit'.edited \in AppDocs,
         UNCHANGED <<order, submission, decision>>
  PROVE  TargetInv'
BY DEF TargetInv, SubmissionRight, OrderRight, DecisionRight, OneOrderPerKey, Ordered

LEMMA TargetStep ==
  ASSUME TargetInv, [TargetNext]_targetVars
  PROVE  TargetInv'
<1>1. CASE createTargetApp
  BY <1>1, ConfigurationStep, AppsAreApps DEF createTargetApp, TargetInv
<1>2. ASSUME NEW a \in AppDocs, BeginUpdateApp(a) PROVE TargetInv'
  BY <1>2, ConfigurationStep DEF BeginUpdateApp, TargetInv, Edits
<1>3. CASE updateTargetApp
  <2>1. app \in App /\ edit.copy \in App /\ edit.edited \in App
    BY <1>3, AppsAreApps DEF updateTargetApp, TargetInv
  <2>2. DOMAIN app = {"active", "price", "account", "methods"}
    BY <2>1 DEF App
  <2>3. Saved(app, edit.copy, edit.edited) \in App
    <3> DEFINE n == Saved(app, edit.copy, edit.edited)
    <3>1. n = [active |-> n.active, price |-> n.price, account |-> n.account,
               methods |-> n.methods]
      BY <2>2 DEF Saved
    <3>2. n.active \in BOOLEAN /\ n.price \in Nat \ {0} /\ n.account \in TargetAccounts
          /\ n.methods \in (SUBSET PayMethods) \ {{}}
      BY <2>1, <2>2 DEF Saved, App
    <3> HIDE DEF n
    <3>3. [active |-> n.active, price |-> n.price, account |-> n.account,
           methods |-> n.methods] \in App
      BY <3>2 DEF App
    <3>4. n \in App
      BY <3>1, <3>3
    <3> QED
      BY <3>4 DEF n
  <2> QED
    BY <1>3, <2>3, ConfigurationStep DEF updateTargetApp, TargetInv, Edits
<1>4. CASE deactivateTargetApp
  BY <1>4, ConfigurationStep DEF deactivateTargetApp, TargetInv, App
<1>5. ASSUME NEW m \in PayMethods, NEW state \in {"active", "inactive", "missing"},
             updateSetting(m, state)
      PROVE TargetInv'
  BY <1>5, ConfigurationStep DEF updateSetting, TargetInv
<1>6. ASSUME NEW t \in Clients, NEW body \in TargetBodies, SubmitTargetOrder(t, body)
      PROVE TargetInv'
  BY <1>6, SubmitStep
<1>7. ASSUME NEW t \in Clients, CheckMethod(t) \/ LookUpKey(t) \/ createTargetOrder(t)
      PROVE TargetInv'
  BY <1>7, CheckMethodStep, LookUpStep, InsertStep
<1>8. ASSUME NEW r \in Reviews, NEW op \in {"approve", "reject"}, NEW o \in Clients,
             BeginDecision(r, op, o)
      PROVE TargetInv'
  BY <1>8, BeginDecisionStep
<1>9. ASSUME NEW r \in Reviews, approveTargetOrder(r) \/ rejectTargetOrder(r)
      PROVE TargetInv'
  BY <1>9, DecideStep DEF approveTargetOrder, rejectTargetOrder
<1>10. ASSUME NEW r \in Reviews, AlreadyReviewed(r) PROVE TargetInv'
  BY <1>10, AlreadyStep
<1>11. CASE UNCHANGED targetVars
  BY <1>11 DEF targetVars, TargetInv, SubmissionRight, OrderRight, DecisionRight, OneOrderPerKey,
       Ordered
<1> QED
  BY <1>1, <1>2, <1>3, <1>4, <1>5, <1>6, <1>7, <1>8, <1>9, <1>10, <1>11 DEF TargetNext

LEMMA TargetInvSays == TargetInv => TargetOnce /\ TargetTypeOK
<1> SUFFICES ASSUME TargetInv PROVE TargetOnce /\ TargetTypeOK
  OBVIOUS
<1>1. TargetOnce
  BY DEF TargetInv, TargetOnce, SubmissionRight, DecisionRight, OneOrderPerKey, Ordered
<1>2. app # None => app.active \in BOOLEAN /\ app.price > 0 /\ app.methods # {}
  BY DEF TargetInv, App
<1>3. \A o \in Clients : order[o].status \in {"absent", "PENDING", "APPROVED", "REJECTED"}
  BY DEF TargetInv, OrderDoc
<1> QED
  BY <1>1, <1>2, <1>3 DEF TargetInv, TargetTypeOK, OrderRight, Ordered

-----------------------------------------------------------------------------
(* Accounts: the invariant.                                                *)

\* What a save may write: values of the schema, never the slot, the reseller's status or
\* the stop of his commissions.
EditRight(copy, edited) ==
    /\ edited.slot = copy.slot /\ edited.reseller = copy.reseller
    /\ edited.stopped = copy.stopped
    /\ edited.status \in {copy.status} \cup {"PENDING", "ACTIVE", "REJECTED"}
    /\ edited.deleted \in {copy.deleted} \cup BOOLEAN
    /\ edited.verified \in {copy.verified} \cup BOOLEAN
    /\ edited.link \in {copy.link} \cup Tokens
    /\ edited.role \in {copy.role} \cup {"CUSTOMER", "SUPERVISOR"}
    /\ edited.group \in {copy.group} \cup Groups
    /\ edited.twoFactor \in {copy.twoFactor} \cup BOOLEAN
    /\ edited.otp \in {copy.otp} \cup Tokens
    /\ edited.google = copy.google
    /\ edited.completed \in {copy.completed} \cup BOOLEAN
    /\ edited.completion \in {copy.completion} \cup Tokens
    /\ edited.country \in {copy.country} \cup BOOLEAN
    /\ edited.profile \in {copy.profile} \cup {"old", "new"}

ReviewRight(r) ==
    /\ DOMAIN review[r] = {"pc", "request", "group", "seen"}
    /\ review[r].pc = "open" => review[r].request \in Clients /\ review[r].group \in Groups

EditorRight(e) == editor[e].pc = "save" => EditRight(editor[e].copy, editor[e].edited)

PendingRight ==
    /\ \A t, u \in Clients : agentRequest[t] = "PENDING" /\ agentRequest[u] = "PENDING" => t = u
    /\ user.slot <=> \E t \in Clients : agentRequest[t] = "PENDING"

ApprovedRight ==
    /\ \A t, u \in Clients : agentRequest[t] = "APPROVED" /\ agentRequest[u] = "APPROVED" => t = u
    /\ (user.reseller = "APPROVED") <=> \E t \in Clients : agentRequest[t] = "APPROVED"
    /\ (user.reseller = "APPROVED") <=> user.stopped

AccountInv ==
    /\ user \in UserDoc
    /\ group \in [Groups -> [active : BOOLEAN, deleted : BOOLEAN]]
    /\ agentRequest \in [Clients -> {"absent", "PENDING", "APPROVED", "REJECTED"}]
    /\ DOMAIN review = Reviews /\ \A r \in Reviews : ReviewRight(r)
    /\ DOMAIN editor = Editors /\ \A e \in Editors : EditorRight(e)
    /\ review = [r \in Reviews |-> review[r]] /\ editor = [e \in Editors |-> editor[e]]
    /\ PendingRight /\ ApprovedRight

LEMMA AccountInitInv == AccountInit => AccountInv
<1> SUFFICES ASSUME AccountInit PROVE AccountInv
  OBVIOUS
<1>1. user \in UserDoc /\ ~user.slot /\ user.reseller = "NONE" /\ ~user.stopped
  <2>1. PICK g \in Groups :
            \/ user = [Established(g) EXCEPT !.verified = FALSE, !.link = "live"]
            \/ user = [Established(g) EXCEPT !.twoFactor = TRUE]
            \/ user = [Established(g) EXCEPT !.status = "REJECTED", !.deleted = TRUE]
            \/ user = [Established(g) EXCEPT !.google = TRUE, !.completed = FALSE,
                                            !.country = FALSE]
    BY DEF AccountInit
  <2>2. CASE user = [Established(g) EXCEPT !.verified = FALSE, !.link = "live"]
    BY <2>2 DEF Established, UserDoc, Tokens
  <2>3. CASE user = [Established(g) EXCEPT !.twoFactor = TRUE]
    BY <2>3 DEF Established, UserDoc, Tokens
  <2>4. CASE user = [Established(g) EXCEPT !.status = "REJECTED", !.deleted = TRUE]
    BY <2>4 DEF Established, UserDoc, Tokens
  <2>5. CASE user = [Established(g) EXCEPT !.google = TRUE, !.completed = FALSE,
                                          !.country = FALSE]
    BY <2>5 DEF Established, UserDoc, Tokens
  <2> QED
    BY <2>1, <2>2, <2>3, <2>4, <2>5
<1>2. /\ DOMAIN review = Reviews /\ \A r \in Reviews : ReviewRight(r)
      /\ DOMAIN editor = Editors /\ \A e \in Editors : EditorRight(e)
      /\ review = [r \in Reviews |-> review[r]] /\ editor = [e \in Editors |-> editor[e]]
  BY DEF AccountInit, ReviewRight, EditorRight
<1>3. PendingRight /\ ApprovedRight
  BY <1>1 DEF AccountInit, PendingRight, ApprovedRight
<1> QED
  BY <1>1, <1>2, <1>3 DEF AccountInit, AccountInv

-----------------------------------------------------------------------------
(* Sub-agent requests.                                                     *)

LEMMA CreateRequestStep ==
  ASSUME AccountInv, NEW t \in Clients, createSubAgentRequest(t)
  PROVE  AccountInv'
<1>1. /\ user' = [user EXCEPT !.slot = TRUE] /\ ~user.slot
      /\ agentRequest' = [agentRequest EXCEPT ![t] = "PENDING"]
      /\ agentRequest[t] = "absent" /\ UNCHANGED <<group, review, editor>>
  BY DEF createSubAgentRequest, claimPendingRequestSlot
<1>2. /\ user' \in UserDoc /\ user'.slot /\ user'.reseller = user.reseller
      /\ user'.stopped = user.stopped
  BY <1>1 DEF AccountInv, UserDoc
<1>3. /\ agentRequest' \in [Clients -> {"absent", "PENDING", "APPROVED", "REJECTED"}]
      /\ agentRequest'[t] = "PENDING"
      /\ \A u \in Clients \ {t} : agentRequest'[u] = agentRequest[u]
  BY <1>1 DEF AccountInv
<1>4. PendingRight'
  BY <1>1, <1>2, <1>3 DEF AccountInv, PendingRight
<1>5. ApprovedRight'
  BY <1>1, <1>2, <1>3 DEF AccountInv, ApprovedRight
<1> QED
  BY <1>1, <1>2, <1>3, <1>4, <1>5 DEF AccountInv, ReviewRight, EditorRight

\* A review goes on or ends; the documents stay.
LEMMA ReviewMoves ==
  ASSUME AccountInv, NEW r \in Reviews, NEW k, review' = [review EXCEPT ![r] = k],
         DOMAIN k = {"pc", "request", "group", "seen"},
         k.pc = "open" => k.request \in Clients /\ k.group \in Groups
  PROVE  /\ DOMAIN review' = Reviews /\ \A q \in Reviews : ReviewRight(q)'
         /\ review' = [q \in Reviews |-> review'[q]]
<1>1. review'[r] = k /\ \A q \in Reviews \ {r} : review'[q] = review[q]
  BY DEF AccountInv
<1> QED
  BY <1>1 DEF AccountInv, ReviewRight

LEMMA ReviewDoneMoves ==
  ASSUME AccountInv, NEW r \in Reviews, ReviewDone(r)
  PROVE  /\ DOMAIN review' = Reviews /\ \A q \in Reviews : ReviewRight(q)'
         /\ review' = [q \in Reviews |-> review'[q]]
<1> DEFINE k == [review[r] EXCEPT !.pc = "done", !.seen = None]
<1>1. review' = [review EXCEPT ![r] = k]
  BY DEF ReviewDone, AccountInv, ReviewRight
<1>2. DOMAIN k = {"pc", "request", "group", "seen"} /\ k.pc = "done"
  BY DEF AccountInv, ReviewRight
<1> HIDE DEF k
<1> QED
  BY <1>1, <1>2, ReviewMoves

LEMMA BeginApprovalStep ==
  ASSUME AccountInv, NEW r \in Reviews, NEW t \in Clients, NEW g \in Groups,
         BeginApproval(r, t, g)
  PROVE  AccountInv'
<1> DEFINE k == [pc |-> "open", request |-> t, group |-> g, seen |-> user]
<1>1. review' = [review EXCEPT ![r] = k] /\ UNCHANGED <<user, group, agentRequest, editor>>
  BY DEF BeginApproval
<1>2. /\ DOMAIN k = {"pc", "request", "group", "seen"} /\ k.pc = "open"
      /\ k.request \in Clients /\ k.group \in Groups
  OBVIOUS
<1> HIDE DEF k
<1> QED
  BY <1>1, <1>2, ReviewMoves DEF AccountInv, EditorRight, PendingRight, ApprovedRight

LEMMA RetryApprovalStep ==
  ASSUME AccountInv, NEW r \in Reviews, RetryApproval(r)
  PROVE  AccountInv'
<1> DEFINE k == [review[r] EXCEPT !.seen = user]
           over == [review[r] EXCEPT !.pc = "done", !.seen = None]
<1>1. /\ review' = [review EXCEPT ![r] = k] \/ review' = [review EXCEPT ![r] = over]
      /\ UNCHANGED <<user, group, agentRequest, editor>>
  BY DEF RetryApproval, AccountInv
<1>2. /\ DOMAIN k = {"pc", "request", "group", "seen"}
      /\ k.pc = "open" => k.request \in Clients /\ k.group \in Groups
  BY DEF AccountInv, ReviewRight
<1>3. DOMAIN over = {"pc", "request", "group", "seen"} /\ over.pc = "done"
  BY DEF AccountInv, ReviewRight
<1> HIDE DEF k, over
<1>4. /\ DOMAIN review' = Reviews /\ \A q \in Reviews : ReviewRight(q)'
      /\ review' = [q \in Reviews |-> review'[q]]
  BY <1>1, <1>2, <1>3, ReviewMoves
<1> QED
  BY <1>1, <1>4 DEF AccountInv, EditorRight, PendingRight, ApprovedRight

LEMMA ApproveStep ==
  ASSUME AccountInv, NEW r \in Reviews, approveSubAgentRequest(r)
  PROVE  AccountInv'
<1> PICK t \in Clients, g \in Groups : t = review[r].request /\ g = review[r].group
  BY DEF approveSubAgentRequest, AccountInv, ReviewRight
<1>1. /\ DOMAIN review' = Reviews /\ \A q \in Reviews : ReviewRight(q)'
      /\ review' = [q \in Reviews |-> review'[q]]
      /\ UNCHANGED <<group, editor>>
  BY ReviewDoneMoves DEF approveSubAgentRequest
<1>2. CASE agentRequest[t] = "PENDING" /\ CanBecomeReseller(user)
  <2>1. /\ agentRequest' = [agentRequest EXCEPT ![t] = "APPROVED"]
        /\ user' = Approved(user, g) /\ user.reseller # "APPROVED"
    BY <1>2 DEF approveSubAgentRequest, CanBecomeReseller
  <2>2. /\ user' \in UserDoc /\ ~user'.slot /\ user'.reseller = "APPROVED" /\ user'.stopped
    BY <2>1 DEF AccountInv, UserDoc, Approved
  <2>3. /\ agentRequest' \in [Clients -> {"absent", "PENDING", "APPROVED", "REJECTED"}]
        /\ agentRequest'[t] = "APPROVED"
        /\ \A u \in Clients \ {t} : agentRequest'[u] = agentRequest[u]
    BY <2>1 DEF AccountInv
  <2>4. PendingRight'
    BY <1>2, <2>2, <2>3 DEF AccountInv, PendingRight
  <2>5. ApprovedRight'
    BY <2>1, <2>2, <2>3 DEF AccountInv, ApprovedRight
  <2> QED
    BY <1>1, <2>2, <2>3, <2>4, <2>5 DEF AccountInv, EditorRight
<1>3. CASE UNCHANGED <<user, agentRequest>>
  BY <1>1, <1>3 DEF AccountInv, EditorRight, PendingRight, ApprovedRight
<1> QED
  BY <1>2, <1>3 DEF approveSubAgentRequest

LEMMA RejectStep ==
  ASSUME AccountInv, NEW r \in Reviews, NEW t \in Clients, rejectSubAgentRequest(r, t)
  PROVE  AccountInv'
<1>1. /\ DOMAIN review' = Reviews /\ \A q \in Reviews : ReviewRight(q)'
      /\ review' = [q \in Reviews |-> review'[q]]
      /\ UNCHANGED <<group, editor>>
  BY ReviewDoneMoves DEF rejectSubAgentRequest
<1>2. /\ agentRequest' = [agentRequest EXCEPT ![t] = "REJECTED"]
      /\ user' = [user EXCEPT !.slot = FALSE] /\ agentRequest[t] = "PENDING"
  BY DEF rejectSubAgentRequest
<1>3. /\ user' \in UserDoc /\ ~user'.slot /\ user'.reseller = user.reseller
      /\ user'.stopped = user.stopped
  BY <1>2 DEF AccountInv, UserDoc
<1>4. /\ agentRequest' \in [Clients -> {"absent", "PENDING", "APPROVED", "REJECTED"}]
      /\ agentRequest'[t] = "REJECTED"
      /\ \A u \in Clients \ {t} : agentRequest'[u] = agentRequest[u]
  BY <1>2 DEF AccountInv
<1>5. PendingRight'
  BY <1>2, <1>3, <1>4 DEF AccountInv, PendingRight
<1>6. ApprovedRight'
  BY <1>2, <1>3, <1>4 DEF AccountInv, ApprovedRight
<1> QED
  BY <1>1, <1>3, <1>4, <1>5, <1>6 DEF AccountInv, EditorRight

-----------------------------------------------------------------------------
(* Loading and saving.                                                     *)

LEMMA EditStep ==
  ASSUME AccountInv, NEW e \in Editors, NEW copy, NEW edits, Edit(e, copy, edits),
         \A edited \in edits : EditRight(copy, edited)
  PROVE  AccountInv'
<1>1. PICK edited \in edits :
          editor' = [editor EXCEPT ![e] = [pc |-> "save", copy |-> copy, edited |-> edited]]
  BY DEF Edit
<1> DEFINE k == [pc |-> "save", copy |-> copy, edited |-> edited]
<1>2. k.copy = copy /\ k.edited = edited
  OBVIOUS
<1> HIDE DEF k
<1>3. /\ DOMAIN editor' = Editors /\ editor' = [d \in Editors |-> editor'[d]]
      /\ editor'[e] = k /\ \A d \in Editors \ {e} : editor'[d] = editor[d]
  BY <1>1 DEF AccountInv, k
<1>4. \A d \in Editors : EditorRight(d)'
  BY <1>2, <1>3 DEF AccountInv, EditorRight
<1>5. UNCHANGED <<user, group, agentRequest, review>>
  BY DEF Edit
<1> QED
  BY <1>3, <1>4, <1>5 DEF AccountInv, ReviewRight, PendingRight, ApprovedRight

LEMMA SaveStep ==
  ASSUME AccountInv, NEW e \in Editors, save(e)
  PROVE  AccountInv'
<1> PICK copy, edited : copy = editor[e].copy /\ edited = editor[e].edited
  OBVIOUS
<1>1. EditRight(copy, edited)
  BY DEF save, AccountInv, EditorRight
<1> DEFINE k == [pc |-> "done", copy |-> None, edited |-> None]
           n == [f \in DOMAIN user |-> IF edited[f] # copy[f] THEN edited[f] ELSE user[f]]
<1>2. /\ user' = n /\ editor' = [editor EXCEPT ![e] = k]
      /\ UNCHANGED <<group, agentRequest, review>>
  BY DEF save, Saved
<1>3. n \in UserDoc /\ n.slot = user.slot /\ n.reseller = user.reseller /\ n.stopped = user.stopped
  <2>1. DOMAIN user = {"status", "deleted", "verified", "link", "role", "group", "reseller",
                       "stopped", "slot", "twoFactor", "otp", "google", "completed",
                       "completion", "country", "profile"}
    BY DEF AccountInv, UserDoc
  <2>2. /\ n.status \in {"PENDING", "ACTIVE", "REJECTED"} /\ n.deleted \in BOOLEAN
        /\ n.verified \in BOOLEAN /\ n.link \in Tokens /\ n.role \in {"CUSTOMER", "SUPERVISOR"}
        /\ n.group \in Groups
    BY <1>1, <2>1 DEF EditRight, AccountInv, UserDoc
  <2>3. /\ n.twoFactor \in BOOLEAN /\ n.otp \in Tokens /\ n.google \in BOOLEAN
        /\ n.completed \in BOOLEAN /\ n.completion \in Tokens /\ n.country \in BOOLEAN
        /\ n.profile \in {"old", "new"}
    BY <1>1, <2>1 DEF EditRight, AccountInv, UserDoc
  <2>4. n.slot = user.slot /\ n.reseller = user.reseller /\ n.stopped = user.stopped
    BY <1>1, <2>1 DEF EditRight
  <2>5. n.slot \in BOOLEAN /\ n.reseller \in {"NONE", "APPROVED"} /\ n.stopped \in BOOLEAN
    BY <2>4 DEF AccountInv, UserDoc
  <2>6. n = [status |-> n.status, deleted |-> n.deleted, verified |-> n.verified,
             link |-> n.link, role |-> n.role, group |-> n.group, reseller |-> n.reseller,
             stopped |-> n.stopped, slot |-> n.slot, twoFactor |-> n.twoFactor,
             otp |-> n.otp, google |-> n.google, completed |-> n.completed,
             completion |-> n.completion, country |-> n.country, profile |-> n.profile]
    BY <2>1
  <2> HIDE DEF n
  <2>7. n \in UserDoc
    BY <2>2, <2>3, <2>5, <2>6 DEF UserDoc
  <2> QED
    BY <2>4, <2>7
<1> HIDE DEF n
<1>4. k.pc = "done"
  OBVIOUS
<1> HIDE DEF k
<1>5. /\ DOMAIN editor' = Editors /\ editor' = [d \in Editors |-> editor'[d]]
      /\ editor'[e] = k /\ \A d \in Editors \ {e} : editor'[d] = editor[d]
  BY <1>2 DEF AccountInv
<1>6. \A d \in Editors : EditorRight(d)'
  BY <1>4, <1>5 DEF AccountInv, EditorRight
<1>7. PendingRight' /\ ApprovedRight'
  BY <1>2, <1>3 DEF AccountInv, PendingRight, ApprovedRight
<1> QED
  BY <1>2, <1>3, <1>5, <1>6, <1>7 DEF AccountInv, ReviewRight

\* What is read of the document, whichever fields the query leaves out.
LEMMA ReadFields ==
  ASSUME AccountInv, NEW unread
  PROVE  DOMAIN Read(unread) = {"status", "deleted", "verified", "link", "role", "group",
             "reseller", "stopped", "slot", "twoFactor", "otp", "google", "completed",
             "completion", "country", "profile"}
         /\ Read(unread) = [f \in DOMAIN Read(unread) |-> Read(unread)[f]]
         /\ \A f \in DOMAIN Read(unread) \ unread : Read(unread)[f] = user[f]
BY DEF AccountInv, UserDoc, Read

\* The customer's and the administrators' changes of the document as it is usually read.
LEMMA UsualEdits ==
  ASSUME AccountInv, NEW e \in Editors,
         \/ rejectUser(e) \/ updateUser(e) \/ deleteUser(e) \/ restoreUser(e)
         \/ updateUserRole(e) \/ updateUserProfile(e) \/ changeUserGroup(e) \/ updateMyProfile(e)
         \/ login(e) \/ generate2FASecret(e) \/ disable2FA(e)
         \/ issueGoogleProfileCompletionToken(e)
  PROVE  AccountInv'
<1> DEFINE copy == Read(NotSelected)
<1>1. /\ DOMAIN copy = {"status", "deleted", "verified", "link", "role", "group", "reseller",
             "stopped", "slot", "twoFactor", "otp", "google", "completed", "completion",
             "country", "profile"}
      /\ copy = [f \in DOMAIN copy |-> copy[f]]
      /\ copy.verified = user.verified /\ copy.completed = user.completed
      /\ copy.country = user.country
  BY ReadFields DEF NotSelected
<1>2. user.verified \in BOOLEAN /\ user.completed \in BOOLEAN /\ user.country \in BOOLEAN
  BY DEF AccountInv, UserDoc
<1> HIDE DEF copy
<1>3. CASE rejectUser(e)
  <2>1. Edit(e, copy, {[copy EXCEPT !.status = "REJECTED"]})
    BY <1>3 DEF rejectUser, Usual, copy
  <2> QED
    BY <1>1, <2>1, EditStep DEF EditRight
<1>4. CASE updateUser(e)
  <2> DEFINE statuses ==
               {[copy EXCEPT !.status = s, !.verified = (s = "ACTIVE" \/ copy.verified),
                             !.link = IF s = "ACTIVE" THEN None ELSE copy.link] :
                  s \in {"PENDING", "ACTIVE", "REJECTED"}}
             verifications == {[copy EXCEPT !.verified = v] : v \in BOOLEAN}
             groups == {[copy EXCEPT !.group = g, !.profile = "new"] : g \in Groups}
  <2>1. Edit(e, copy, statuses \cup verifications \cup groups)
    BY <1>1, <1>4 DEF updateUser, Usual, copy
  <2>2. \A edited \in statuses : EditRight(copy, edited)
    <3> SUFFICES ASSUME NEW s \in {"PENDING", "ACTIVE", "REJECTED"}
                 PROVE  EditRight(copy, [copy EXCEPT !.status = s,
                                           !.verified = (s = "ACTIVE" \/ copy.verified),
                                           !.link = IF s = "ACTIVE" THEN None ELSE copy.link])
      OBVIOUS
    <3>1. PICK verified \in BOOLEAN : verified = (s = "ACTIVE" \/ copy.verified)
      BY <1>1, <1>2
    <3>2. PICK link \in Tokens \cup {copy.link} :
              link = IF s = "ACTIVE" THEN None ELSE copy.link
      BY DEF Tokens
    <3> DEFINE doc == [copy EXCEPT !.status = s, !.verified = verified, !.link = link]
    <3>3. EditRight(copy, doc)
      BY <1>1 DEF EditRight
    <3> QED
      BY <3>1, <3>2, <3>3
  <2>3. \A edited \in verifications : EditRight(copy, edited)
    BY <1>1 DEF EditRight
  <2>4. \A edited \in groups : EditRight(copy, edited)
    <3> SUFFICES ASSUME NEW g \in Groups
                 PROVE  EditRight(copy, [copy EXCEPT !.group = g, !.profile = "new"])
      OBVIOUS
    <3> QED
      BY <1>1 DEF EditRight
  <2> HIDE DEF statuses, verifications, groups
  <2> QED
    BY <2>1, <2>2, <2>3, <2>4, EditStep
<1>5. CASE deleteUser(e)
  <2> DEFINE doc == [copy EXCEPT !.deleted = TRUE, !.status = "REJECTED"]
  <2>1. Edit(e, copy, {doc})
    BY <1>5 DEF deleteUser, Usual, copy
  <2>2. EditRight(copy, doc)
    BY <1>1 DEF EditRight
  <2> HIDE DEF doc
  <2> QED
    BY <2>1, <2>2, EditStep
<1>6. CASE restoreUser(e)
  <2> DEFINE doc == [copy EXCEPT !.deleted = FALSE, !.status = "ACTIVE"]
  <2>1. Edit(e, copy, {doc})
    BY <1>6 DEF restoreUser, Usual, copy
  <2>2. EditRight(copy, doc)
    BY <1>1 DEF EditRight
  <2> HIDE DEF doc
  <2> QED
    BY <2>1, <2>2, EditStep
<1>7. CASE updateUserRole(e)
  <2>1. Edit(e, copy, {[copy EXCEPT !.role = r] : r \in {"CUSTOMER", "SUPERVISOR"}})
    BY <1>7 DEF updateUserRole, Usual, copy
  <2> QED
    BY <1>1, <2>1, EditStep DEF EditRight
<1>8. CASE updateUserProfile(e)
  <2>1. Edit(e, copy, {[copy EXCEPT !.profile = "new"]})
    BY <1>8 DEF updateUserProfile, Usual, copy
  <2> QED
    BY <1>1, <2>1, EditStep DEF EditRight
<1>9. CASE changeUserGroup(e)
  <2>1. Edit(e, copy, {[copy EXCEPT !.group = g] : g \in {x \in Groups : group[x].active}})
    BY <1>9 DEF changeUserGroup, Usual, copy
  <2> QED
    BY <1>1, <2>1, EditStep DEF EditRight
<1>10. CASE updateMyProfile(e)
  <2> DEFINE edits ==
               {[copy EXCEPT !.profile = "new", !.country = (c \/ copy.country),
                   !.completed = (copy.completed \/ (c /\ profileCompletionRequired))] :
                  c \in BOOLEAN}
  <2>1. Edit(e, copy, edits)
    BY <1>1, <1>10 DEF updateMyProfile, Usual, copy
  <2>2. \A edited \in edits : EditRight(copy, edited)
    <3> SUFFICES ASSUME NEW c \in BOOLEAN
                 PROVE  EditRight(copy, [copy EXCEPT !.profile = "new",
                            !.country = (c \/ copy.country),
                            !.completed = (copy.completed \/ (c /\ profileCompletionRequired))])
      OBVIOUS
    <3>1. PICK x \in BOOLEAN : x = (c \/ copy.country)
      OBVIOUS
    <3>2. PICK y \in BOOLEAN : y = (copy.completed \/ (c /\ profileCompletionRequired))
      OBVIOUS
    <3>3. EditRight(copy, [copy EXCEPT !.profile = "new", !.country = x, !.completed = y])
      BY <1>1 DEF EditRight
    <3> QED
      BY <3>1, <3>2, <3>3
  <2> HIDE DEF edits
  <2> QED
    BY <2>1, <2>2, EditStep
<1>11. CASE login(e)
  <2>1. Edit(e, copy, {[copy EXCEPT !.otp = "live"]})
    BY <1>11 DEF login, Usual, copy
  <2> QED
    BY <1>1, <2>1, EditStep DEF EditRight, Tokens
<1>12. CASE generate2FASecret(e)
  <2>1. Edit(e, copy, {[copy EXCEPT !.otp = "live"]})
    BY <1>12 DEF generate2FASecret, Usual, copy
  <2> QED
    BY <1>1, <2>1, EditStep DEF EditRight, Tokens
<1>13. CASE disable2FA(e)
  <2> DEFINE doc == [copy EXCEPT !.twoFactor = FALSE, !.otp = None]
  <2>1. Edit(e, copy, {doc})
    BY <1>13 DEF disable2FA, Usual, copy
  <2>2. EditRight(copy, doc)
    BY <1>1 DEF EditRight, Tokens
  <2> HIDE DEF doc
  <2> QED
    BY <2>1, <2>2, EditStep
<1>14. CASE issueGoogleProfileCompletionToken(e)
  <2>1. Edit(e, copy, {[copy EXCEPT !.completion = "live"]})
    BY <1>14 DEF issueGoogleProfileCompletionToken, Usual, copy
  <2> QED
    BY <1>1, <2>1, EditStep DEF EditRight, Tokens
<1> QED
  BY <1>3, <1>4, <1>5, <1>6, <1>7, <1>8, <1>9, <1>10, <1>11, <1>12, <1>13, <1>14

\* The others ask for one of the fields a query usually leaves out, or write blindly.
LEMMA OtherEdits ==
  ASSUME AccountInv, NEW e \in Editors,
         \/ approveUser(e) \/ verifyEmail(e) \/ resendVerification(e)
         \/ enable2FA(e) \/ verify2FA(e) \/ completeGoogleProfile(e)
  PROVE  AccountInv'
<1>1. CASE approveUser(e)
  <2> DEFINE copy == Read(NotSelected \cup {"status", "verified"})
  <2>1. Edit(e, copy, {[copy EXCEPT !.status = "ACTIVE", !.verified = TRUE, !.link = None]})
    BY <1>1 DEF approveUser
  <2>2. /\ DOMAIN copy = {"status", "deleted", "verified", "link", "role", "group", "reseller",
             "stopped", "slot", "twoFactor", "otp", "google", "completed", "completion",
             "country", "profile"}
        /\ copy = [f \in DOMAIN copy |-> copy[f]]
    BY ReadFields
  <2> HIDE DEF copy
  <2> DEFINE doc == [copy EXCEPT !.status = "ACTIVE", !.verified = TRUE, !.link = None]
  <2>3. EditRight(copy, doc)
    BY <2>2 DEF EditRight, Tokens
  <2>4. Edit(e, copy, {doc})
    BY <2>1
  <2> HIDE DEF doc
  <2> QED
    BY <2>3, <2>4, EditStep
<1>2. CASE verifyEmail(e) \/ resendVerification(e)
  <2> DEFINE copy == Read(NotSelected \ {"link"})
  <2>1. \/ Edit(e, copy, {[copy EXCEPT !.verified = TRUE, !.link = None]})
        \/ Edit(e, copy, {[copy EXCEPT !.link = "live"]})
    BY <1>2 DEF verifyEmail, resendVerification
  <2>2. /\ DOMAIN copy = {"status", "deleted", "verified", "link", "role", "group", "reseller",
             "stopped", "slot", "twoFactor", "otp", "google", "completed", "completion",
             "country", "profile"}
        /\ copy = [f \in DOMAIN copy |-> copy[f]]
    BY ReadFields
  <2> HIDE DEF copy
  <2> DEFINE verified == [copy EXCEPT !.verified = TRUE, !.link = None]
             resent == [copy EXCEPT !.link = "live"]
  <2>3. EditRight(copy, verified) /\ EditRight(copy, resent)
    BY <2>2 DEF EditRight, Tokens
  <2>4. Edit(e, copy, {verified}) \/ Edit(e, copy, {resent})
    BY <2>1
  <2> HIDE DEF verified, resent
  <2> QED
    BY <2>3, <2>4, EditStep
<1>3. ASSUME NEW enabled \in BOOLEAN, ConsumeCode(e, enabled) PROVE AccountInv'
  <2> DEFINE copy == Read(NotSelected \ {"otp"})
             doc == [copy EXCEPT !.otp = None,
                         !.twoFactor = IF user.otp = "live" THEN enabled ELSE copy.twoFactor]
  <2>1. /\ DOMAIN copy = {"status", "deleted", "verified", "link", "role", "group", "reseller",
             "stopped", "slot", "twoFactor", "otp", "google", "completed", "completion",
             "country", "profile"}
        /\ copy = [f \in DOMAIN copy |-> copy[f]]
    BY ReadFields
  <2>2. Edit(e, copy, {doc})
    BY <1>3, <2>1 DEF ConsumeCode
  <2>3. EditRight(copy, doc)
    <3> HIDE DEF copy
    <3> QED
      BY <1>3, <2>1 DEF EditRight, Tokens
  <2> HIDE DEF copy, doc
  <2> QED
    BY <2>2, <2>3, EditStep
<1>4. CASE completeGoogleProfile(e)
  <2> DEFINE copy == Read(NotSelected \ {"completion"})
             cleared == [copy EXCEPT !.completion = None]
             doc == [cleared EXCEPT !.country = TRUE, !.completed = TRUE]
  <2>1. Edit(e, copy, {cleared}) \/ Edit(e, copy, {doc})
    BY <1>4 DEF completeGoogleProfile
  <2>2. /\ DOMAIN copy = {"status", "deleted", "verified", "link", "role", "group", "reseller",
             "stopped", "slot", "twoFactor", "otp", "google", "completed", "completion",
             "country", "profile"}
        /\ copy = [f \in DOMAIN copy |-> copy[f]]
    BY ReadFields
  <2> HIDE DEF copy
  <2>3. EditRight(copy, cleared) /\ EditRight(copy, doc)
    BY <2>2 DEF EditRight, Tokens
  <2> HIDE DEF cleared, doc
  <2> QED
    BY <2>1, <2>3, EditStep
<1> QED
  BY <1>1, <1>2, <1>3, <1>4 DEF enable2FA, verify2FA

LEMMA TokensExpireStep ==
  ASSUME AccountInv, TokensExpire
  PROVE  AccountInv'
<1>1. PICK f \in {"link", "otp", "completion"} : user' = [user EXCEPT ![f] = "expired"]
  BY DEF TokensExpire
<1>2. /\ user' \in UserDoc /\ user'.slot = user.slot /\ user'.reseller = user.reseller
      /\ user'.stopped = user.stopped
  <2>1. CASE f = "link"
    BY <1>1, <2>1 DEF AccountInv, UserDoc, Tokens
  <2>2. CASE f = "otp"
    BY <1>1, <2>2 DEF AccountInv, UserDoc, Tokens
  <2>3. CASE f = "completion"
    BY <1>1, <2>3 DEF AccountInv, UserDoc, Tokens
  <2> QED
    BY <2>1, <2>2, <2>3
<1> QED
  BY <1>2 DEF TokensExpire, AccountInv, ReviewRight, EditorRight, PendingRight, ApprovedRight

LEMMA GroupStep ==
  ASSUME AccountInv, NEW g \in Groups, NEW active \in BOOLEAN,
         deleteGroup(g) \/ updateGroup(g, active)
  PROVE  AccountInv'
<1>1. /\ group' \in [Groups -> [active : BOOLEAN, deleted : BOOLEAN]]
      /\ UNCHANGED <<user, agentRequest, review, editor>>
  <2>1. CASE deleteGroup(g)
    BY <2>1 DEF deleteGroup, AccountInv
  <2>2. CASE updateGroup(g, active)
    BY <2>2 DEF updateGroup, AccountInv
  <2> QED
    BY <2>1, <2>2
<1> QED
  BY <1>1 DEF AccountInv, ReviewRight, EditorRight, PendingRight, ApprovedRight

-----------------------------------------------------------------------------

LEMMA AccountStep ==
  ASSUME AccountInv, [AccountNext]_accountVars
  PROVE  AccountInv'
<1>1. CASE UNCHANGED accountVars
  BY <1>1 DEF accountVars, AccountInv, ReviewRight, EditorRight, PendingRight, ApprovedRight
<1>2. CASE AccountNext
  BY <1>2, CreateRequestStep, BeginApprovalStep, RetryApprovalStep, ApproveStep, RejectStep,
     UsualEdits, OtherEdits, SaveStep, TokensExpireStep, GroupStep DEF AccountNext
<1> QED
  BY <1>1, <1>2

\* A set without two elements.
LEMMA AtMostOne ==
  ASSUME NEW S, \A t, u \in S : t = u
  PROVE  Cardinality(S) <= 1
<1>1. CASE S = {}
  BY <1>1, FS_EmptySet
<1>2. CASE S # {}
  <2>1. PICK t \in S : TRUE
    BY <1>2
  <2>2. S = {t}
    OBVIOUS
  <2>3. Cardinality(S) = 1
    BY <2>2, FS_Singleton
  <2> QED
    BY <2>3
<1> QED
  BY <1>1, <1>2

LEMMA AccountInvSays == AccountInv => AccountTypeOK /\ SlotMatchesRequest /\ ResellerOnRecord
<1> SUFFICES ASSUME AccountInv PROVE AccountTypeOK /\ SlotMatchesRequest /\ ResellerOnRecord
  OBVIOUS
<1>1. PICK pending : pending = {t \in Clients : agentRequest[t] = "PENDING"}
  OBVIOUS
<1>2. PICK approved : approved = {t \in Clients : agentRequest[t] = "APPROVED"}
  OBVIOUS
<1>3. Cardinality(pending) <= 1 /\ (user.slot <=> pending # {})
  BY <1>1, AtMostOne DEF AccountInv, PendingRight
<1>4. /\ Cardinality(approved) <= 1
      /\ (user.reseller = "APPROVED") <=> approved # {}
      /\ (user.reseller = "APPROVED") <=> user.stopped
  BY <1>2, AtMostOne DEF AccountInv, ApprovedRight
<1> QED
  BY <1>1, <1>2, <1>3, <1>4 DEF AccountInv, AccountTypeOK, SlotMatchesRequest, ResellerOnRecord

-----------------------------------------------------------------------------
(* Registration: the invariant.                                            *)

AccountDoc ==
    [email : Emails \cup {None}, google : GoogleIds \cup {None}, code : Codes \cup {None},
     owner : Accounts \cup {None}, active : BOOLEAN]

Signup ==
    [pc : {"new", "google", "email", "link", "owner", "create", "done"},
     email : Emails \cup {None}, google : GoogleIds \cup {None}, ref : Codes \cup {None},
     owner : Accounts \cup {None}, attempt : Nat, state : States \cup {None},
     account : Accounts \cup {None}]

Backfill ==
    [pc : {"new", "assign", "done"}, account : Accounts \cup {None}, attempt : Nat]

AccountsDiffer ==
    \A a, b \in Accounts : Exists(a) /\ Exists(b) /\ a # b =>
        /\ account[a].email # account[b].email
        /\ account[a].google # account[b].google \/ account[a].google = None
        /\ account[a].code # account[b].code \/ account[a].code = None

AccountsRight ==
    /\ account \in [Accounts -> AccountDoc]
    /\ \A a \in Accounts : ~Exists(a) => account[a] = NoAccount
    /\ \A a \in Accounts : account[a].owner # a
    /\ AccountsDiffer

\* A request in progress has not created its account; who it says invited it exists.
SignupRight(t) ==
    /\ signup[t].pc # "done" => ~Exists(t)
    /\ signup[t].pc \notin {"new", "done"} => signup[t].email \in Emails
    /\ signup[t].pc = "link" => signup[t].account \in Accounts /\ Exists(signup[t].account)
    /\ signup[t].owner # None => Exists(signup[t].owner)
    /\ signup[t].state # None => signup[t].state \in usedNonce

StatesDiffer ==
    \A t, u \in Clients : t # u /\ signup[t].state # None => signup[t].state # signup[u].state

BackfillRight(r) ==
    backfill[r].pc = "assign" => backfill[r].account \in Accounts /\ Exists(backfill[r].account)

RegistrationInv ==
    /\ AccountsRight
    /\ usedNonce \subseteq States
    /\ signup \in [Clients -> Signup] /\ backfill \in [Reviews -> Backfill]
    /\ \A t \in Clients : SignupRight(t)
    /\ StatesDiffer
    /\ \A r \in Reviews : BackfillRight(r)

LEMMA RegistrationInitInv == RegistrationInit => RegistrationInv
<1> SUFFICES ASSUME RegistrationInit PROVE RegistrationInv
  OBVIOUS
<1>1. PICK email \in [Legacy -> Emails] :
          /\ \A a, b \in Legacy : email[a] = email[b] => a = b
          /\ account = [a \in Accounts |->
                IF a \in Legacy THEN [NoAccount EXCEPT !.email = email[a], !.active = TRUE]
                ELSE NoAccount]
  BY DEF RegistrationInit
<1>2. /\ \A a \in Legacy : /\ account[a] \in AccountDoc /\ account[a].email = email[a]
                           /\ account[a].google = None /\ account[a].code = None
                           /\ account[a].owner = None
      /\ \A a \in Clients : account[a] = NoAccount
      /\ NoAccount \in AccountDoc /\ NoAccount.email = None /\ NoAccount.owner = None
  BY <1>1, AccountNamesAssumption DEF Accounts, AccountDoc, NoAccount
<1>3. account \in [Accounts -> AccountDoc]
  BY <1>1, <1>2 DEF Accounts
<1>4. \A a \in Accounts : Exists(a) <=> a \in Legacy
  <2>1. \A a \in Legacy : email[a] # None
    BY AddressesAssumption
  <2>2. \A a \in Clients : a \notin Legacy
    BY AccountNamesAssumption
  <2> QED
    BY <1>2, <2>1, <2>2 DEF Accounts, Exists
<1>5. AccountsRight
  <2>1. \A a \in Accounts : a # None /\ account[a].owner = None
    BY <1>2, AccountNamesAssumption, TasksAssumption DEF Accounts
  <2>2. AccountsDiffer
    <3> SUFFICES ASSUME NEW a \in Legacy, NEW b \in Legacy, a # b
                 PROVE  account[a].email # account[b].email
      BY <1>2, <1>4 DEF AccountsDiffer
    <3>1. email[a] # email[b]
      BY <1>1
    <3> QED
      BY <1>2, <3>1
  <2>3. \A a \in Accounts : ~Exists(a) => account[a] = NoAccount
    BY <1>2, <1>4 DEF Accounts
  <2> QED
    BY <1>3, <2>1, <2>2, <2>3 DEF AccountsRight
<1>6. /\ signup \in [Clients -> Signup] /\ backfill \in [Reviews -> Backfill]
      /\ \A t \in Clients : /\ signup[t].pc = "new" /\ signup[t].owner = None
                            /\ signup[t].state = None
      /\ \A r \in Reviews : backfill[r].pc = "new"
  BY DEF RegistrationInit, Signup, Backfill
<1>7. \A t \in Clients : ~Exists(t)
  BY <1>2 DEF Exists
<1> QED
  BY <1>5, <1>6, <1>7
     DEF RegistrationInit, RegistrationInv, SignupRight, StatesDiffer, BackfillRight

-----------------------------------------------------------------------------
(* Requests that write no account.                                         *)

LEMMA SignupMoves ==
  ASSUME RegistrationInv, NEW t \in Clients, NEW k \in Signup,
         signup' = [signup EXCEPT ![t] = k], SignupRight(t)', k.state = signup[t].state,
         UNCHANGED <<account, usedNonce, backfill>>
  PROVE  RegistrationInv'
<1>1. /\ signup' \in [Clients -> Signup] /\ signup'[t] = k
      /\ \A u \in Clients \ {t} : signup'[u] = signup[u]
  BY DEF RegistrationInv
<1>2. \A a \in Accounts : Exists(a)' <=> Exists(a)
  BY DEF Exists
<1>3. \A u \in Clients : SignupRight(u)'
  <2> SUFFICES ASSUME NEW u \in Clients, u # t PROVE SignupRight(u)'
    OBVIOUS
  <2> QED
    BY <1>1 DEF RegistrationInv, SignupRight, Exists
<1>4. StatesDiffer'
  BY <1>1 DEF RegistrationInv, StatesDiffer
<1> QED
  BY <1>1, <1>3, <1>4
     DEF RegistrationInv, AccountsRight, AccountsDiffer, BackfillRight, Exists

LEMMA RegisterStep ==
  ASSUME RegistrationInv, NEW t \in Clients, NEW email \in Emails, NEW ref \in Codes \cup {None},
         register(t, email, ref)
  PROVE  RegistrationInv'
<1> PICK pc \in {"done", "owner"} :
        pc = IF \E a \in Accounts : account[a].email = email THEN "done" ELSE "owner"
  OBVIOUS
<1> DEFINE k == [signup[t] EXCEPT !.email = email, !.ref = ref, !.pc = pc]
<1>1. signup' = [signup EXCEPT ![t] = k] /\ UNCHANGED <<account, usedNonce, backfill>>
      /\ signup[t].pc = "new"
  BY DEF register
<1>2. /\ k \in Signup /\ k.pc = pc /\ k.email = email /\ k.owner = signup[t].owner
      /\ k.state = signup[t].state
  BY DEF RegistrationInv, Signup
<1> HIDE DEF k
<1>3. signup'[t] = k
  BY <1>1 DEF RegistrationInv
<1>4. SignupRight(t)'
  BY <1>1, <1>2, <1>3 DEF RegistrationInv, SignupRight, Exists
<1> QED
  BY <1>1, <1>2, <1>4, SignupMoves

LEMMA ConsumeStateStep ==
  ASSUME RegistrationInv, NEW t \in Clients, NEW state \in States, NEW google \in GoogleIds,
         NEW email \in Emails, NEW ref \in Codes \cup {None},
         consumeGoogleOAuthState(t, state, google, email, ref)
  PROVE  RegistrationInv'
<1>1. CASE NonceIsNew(state)
  <2> DEFINE k == [signup[t] EXCEPT !.pc = "google", !.google = google, !.email = email,
                                    !.ref = ref, !.state = state]
  <2>1. /\ signup' = [signup EXCEPT ![t] = k] /\ UNCHANGED <<account, backfill>>
        /\ signup[t].pc = "new" /\ usedNonce' = usedNonce \cup {state} /\ state \notin usedNonce
    BY <1>1 DEF consumeGoogleOAuthState, NonceIsNew
  <2>2. /\ k \in Signup /\ k.pc = "google" /\ k.email = email /\ k.owner = signup[t].owner
        /\ k.state = state
    BY DEF RegistrationInv, Signup
  <2> HIDE DEF k
  <2>3. /\ signup' \in [Clients -> Signup] /\ signup'[t] = k
        /\ \A u \in Clients \ {t} : signup'[u] = signup[u]
    BY <2>1, <2>2 DEF RegistrationInv
  <2>4. SignupRight(t)'
    BY <2>1, <2>2, <2>3 DEF RegistrationInv, SignupRight, Exists
  <2>5. \A u \in Clients \ {t} : SignupRight(u)'
    BY <2>1, <2>3 DEF RegistrationInv, SignupRight, Exists
  <2>6. StatesDiffer'
    <3>1. \A u \in Clients : signup[u].state # None => signup[u].state # state
      BY <2>1 DEF RegistrationInv, SignupRight
    <3> QED
      BY <2>2, <2>3, <3>1 DEF RegistrationInv, StatesDiffer
  <2> QED
    BY <2>1, <2>3, <2>4, <2>5, <2>6
       DEF RegistrationInv, AccountsRight, AccountsDiffer, BackfillRight, Exists
<1>2. CASE ~NonceIsNew(state)
  <2> DEFINE k == [signup[t] EXCEPT !.pc = "done"]
  <2>1. /\ signup' = [signup EXCEPT ![t] = k] /\ UNCHANGED <<account, usedNonce, backfill>>
    BY <1>2 DEF consumeGoogleOAuthState, NonceIsNew
  <2>2. /\ k \in Signup /\ k.pc = "done" /\ k.owner = signup[t].owner /\ k.state = signup[t].state
    BY DEF RegistrationInv, Signup
  <2> HIDE DEF k
  <2>3. signup'[t] = k
    BY <2>1 DEF RegistrationInv
  <2>4. SignupRight(t)'
    BY <2>1, <2>2, <2>3 DEF RegistrationInv, SignupRight, Exists
  <2> QED
    BY <2>1, <2>2, <2>4, SignupMoves
<1> QED
  BY <1>1, <1>2

\* A request ends with an account, or none.
LEMMA SignupStops ==
  ASSUME RegistrationInv, NEW t \in Clients, NEW a \in Accounts \cup {None}, SignupEnds(t, a),
         UNCHANGED <<account, usedNonce, backfill>>
  PROVE  RegistrationInv'
<1> DEFINE k == [signup[t] EXCEPT !.pc = "done", !.account = a, !.owner = None, !.attempt = 0]
<1>1. signup' = [signup EXCEPT ![t] = k]
  BY DEF SignupEnds
<1>2. k \in Signup /\ k.pc = "done" /\ k.owner = None /\ k.state = signup[t].state
  BY DEF RegistrationInv, Signup
<1> HIDE DEF k
<1>3. signup'[t] = k
  BY <1>1 DEF RegistrationInv
<1>4. SignupRight(t)'
  BY <1>2, <1>3 DEF RegistrationInv, SignupRight, Exists
<1> QED
  BY <1>1, <1>2, <1>4, SignupMoves

\* A request goes on, with what it has found.
LEMMA SignupGoesOn ==
  ASSUME RegistrationInv, NEW t \in Clients, NEW k \in Signup,
         signup' = [signup EXCEPT ![t] = k], UNCHANGED <<account, usedNonce, backfill>>,
         signup[t].pc \notin {"new", "done"}, k.pc \in {"email", "link", "owner", "create"},
         k.email = signup[t].email, k.state = signup[t].state,
         k.pc = "link" => k.account \in Accounts /\ Exists(k.account),
         k.owner # None => Exists(k.owner)
  PROVE  RegistrationInv'
<1>1. signup'[t] = k
  BY DEF RegistrationInv
<1>2. SignupRight(t)'
  BY <1>1 DEF RegistrationInv, SignupRight, Exists
<1> QED
  BY <1>2, SignupMoves

LEMMA FindByGoogleIdStep ==
  ASSUME RegistrationInv, NEW t \in Clients, FindByGoogleId(t)
  PROVE  RegistrationInv'
<1>1. ASSUME NEW a \in Accounts, SignupEnds(t, a) PROVE RegistrationInv'
  BY <1>1, SignupStops DEF FindByGoogleId
<1>2. CASE SignupGoes(t, "email")
  <2> DEFINE k == [signup[t] EXCEPT !.pc = "email"]
  <2>1. signup' = [signup EXCEPT ![t] = k] /\ UNCHANGED <<account, usedNonce, backfill>>
        /\ signup[t].pc = "google"
    BY <1>2 DEF FindByGoogleId, SignupGoes
  <2>2. /\ k \in Signup /\ k.pc = "email" /\ k.email = signup[t].email
        /\ k.owner = signup[t].owner /\ k.state = signup[t].state
    BY DEF RegistrationInv, Signup
  <2> HIDE DEF k
  <2> QED
    BY <2>1, <2>2, SignupGoesOn DEF RegistrationInv, SignupRight
<1> QED
  BY <1>1, <1>2 DEF FindByGoogleId

LEMMA FindByEmailStep ==
  ASSUME RegistrationInv, NEW t \in Clients, FindByEmail(t)
  PROVE  RegistrationInv'
<1>0. /\ signup[t].pc = "email" /\ UNCHANGED <<account, usedNonce, backfill>>
      /\ signup[t].owner # None => Exists(signup[t].owner)
      /\ signup[t].email \in Emails /\ signup[t] \in Signup
  BY DEF FindByEmail, RegistrationInv, SignupRight
<1>1. ASSUME NEW a \in Accounts, account[a].email = signup[t].email,
             signup' = [signup EXCEPT ![t].pc = "link", ![t].account = a]
      PROVE  RegistrationInv'
  <2> DEFINE k == [signup[t] EXCEPT !.pc = "link", !.account = a]
  <2>1. signup' = [signup EXCEPT ![t] = k]
    BY <1>0, <1>1 DEF RegistrationInv, Signup
  <2>2. /\ k \in Signup /\ k.pc = "link" /\ k.email = signup[t].email /\ k.account = a
        /\ k.owner = signup[t].owner /\ k.state = signup[t].state
    BY <1>0 DEF Signup
  <2> HIDE DEF k
  <2>3. Exists(a)
    BY <1>0, <1>1, AddressesAssumption DEF Exists
  <2> QED
    BY <1>0, <2>1, <2>2, <2>3, SignupGoesOn
<1>2. CASE SignupGoes(t, "owner")
  <2> DEFINE k == [signup[t] EXCEPT !.pc = "owner"]
  <2>1. signup' = [signup EXCEPT ![t] = k]
    BY <1>2 DEF SignupGoes
  <2>2. /\ k \in Signup /\ k.pc = "owner" /\ k.email = signup[t].email
        /\ k.owner = signup[t].owner /\ k.state = signup[t].state
    BY <1>0 DEF Signup
  <2> HIDE DEF k
  <2> QED
    BY <1>0, <2>1, <2>2, SignupGoesOn
<1> QED
  BY <1>1, <1>2 DEF FindByEmail

LEMMA ResolveOwnerStep ==
  ASSUME RegistrationInv, NEW t \in Clients, resolveReferralOwner(t)
  PROVE  RegistrationInv'
<1>0. /\ signup[t].pc = "owner" /\ UNCHANGED <<account, usedNonce, backfill>>
      /\ signup[t].owner # None => Exists(signup[t].owner)
      /\ signup[t].email \in Emails /\ signup[t] \in Signup
  BY DEF resolveReferralOwner, RegistrationInv, SignupRight
<1>1. CASE SignupGoes(t, "create")
  <2> DEFINE k == [signup[t] EXCEPT !.pc = "create"]
  <2>1. signup' = [signup EXCEPT ![t] = k]
    BY <1>1 DEF SignupGoes
  <2>2. /\ k \in Signup /\ k.pc = "create" /\ k.email = signup[t].email
        /\ k.owner = signup[t].owner /\ k.state = signup[t].state
    BY <1>0 DEF Signup
  <2> HIDE DEF k
  <2> QED
    BY <1>0, <2>1, <2>2, SignupGoesOn
<1>2. ASSUME NEW a \in Accounts, signup[t].ref # None, account[a].code = signup[t].ref,
             signup' = [signup EXCEPT ![t].pc = "create", ![t].owner = a]
      PROVE  RegistrationInv'
  <2> DEFINE k == [signup[t] EXCEPT !.pc = "create", !.owner = a]
  <2>1. signup' = [signup EXCEPT ![t] = k]
    BY <1>0, <1>2 DEF RegistrationInv, Signup
  <2>2. /\ k \in Signup /\ k.pc = "create" /\ k.email = signup[t].email /\ k.owner = a
        /\ k.state = signup[t].state
    BY <1>0 DEF Signup
  <2> HIDE DEF k
  <2>3. Exists(a)
    BY <1>2 DEF RegistrationInv, AccountsRight, NoAccount
  <2> QED
    BY <1>0, <2>1, <2>2, <2>3, SignupGoesOn
<1>3. CASE SignupEnds(t, None)
  BY <1>0, <1>3, SignupStops
<1> QED
  BY <1>1, <1>2, <1>3 DEF resolveReferralOwner

-----------------------------------------------------------------------------
(* Requests and administrators that write an account.                      *)

\* An account that is there is written: its address and who invited it stay.
LEMMA AccountEdited ==
  ASSUME AccountsRight, NEW a \in Accounts, Exists(a), NEW doc \in AccountDoc,
         account' = [account EXCEPT ![a] = doc],
         doc.email = account[a].email, doc.owner = account[a].owner,
         \A b \in Accounts \ {a} : Exists(b) =>
             /\ doc.google # account[b].google \/ doc.google = None
             /\ doc.code # account[b].code \/ doc.code = None
  PROVE  AccountsRight' /\ \A b \in Accounts : Exists(b)' <=> Exists(b)
<1>1. /\ account' \in [Accounts -> AccountDoc] /\ account'[a] = doc
      /\ \A b \in Accounts \ {a} : account'[b] = account[b]
  BY DEF AccountsRight
<1>2. \A b \in Accounts : Exists(b)' <=> Exists(b)
  BY <1>1 DEF Exists
<1>3. \A b \in Accounts : ~Exists(b)' => account'[b] = NoAccount
  BY <1>1, <1>2 DEF AccountsRight
<1>4. \A b \in Accounts : account'[b].owner # b
  BY <1>1 DEF AccountsRight
<1>5. AccountsDiffer'
  <2> SUFFICES ASSUME NEW b \in Accounts, NEW c \in Accounts, Exists(b), Exists(c), b # c
               PROVE  /\ account'[b].email # account'[c].email
                      /\ account'[b].google # account'[c].google \/ account'[b].google = None
                      /\ account'[b].code # account'[c].code \/ account'[b].code = None
    BY <1>2 DEF AccountsDiffer
  <2>1. /\ account[b].email # account[c].email
        /\ account[b].google # account[c].google \/ account[b].google = None
        /\ account[b].code # account[c].code \/ account[b].code = None
    BY DEF AccountsRight, AccountsDiffer
  <2>2. CASE b = a
    BY <1>1, <2>1, <2>2
  <2>3. CASE b # a /\ c = a
    BY <1>1, <2>1, <2>3
  <2>4. CASE b # a /\ c # a
    BY <1>1, <2>1, <2>4
  <2> QED
    BY <2>2, <2>3, <2>4
<1> QED
  BY <1>1, <1>2, <1>3, <1>4, <1>5 DEF AccountsRight

\* Requests do not depend on more of the accounts than who exists.
LEMMA RequestsStay ==
  ASSUME RegistrationInv, AccountsRight', \A b \in Accounts : Exists(b)' <=> Exists(b),
         signup' \in [Clients -> Signup],
         \A u \in Clients : \/ signup'[u] = signup[u]
                            \/ /\ signup'[u].pc = "done" /\ signup'[u].owner = None
                               /\ signup'[u].state = signup[u].state,
         backfill' \in [Reviews -> Backfill], \A r \in Reviews : BackfillRight(r)',
         UNCHANGED usedNonce
  PROVE  RegistrationInv'
<1>2. \A u \in Clients : signup'[u].state = signup[u].state
  OBVIOUS
<1>3. \A u \in Clients : SignupRight(u)'
  <2> SUFFICES ASSUME NEW u \in Clients PROVE SignupRight(u)'
    OBVIOUS
  <2>1. CASE signup'[u] = signup[u]
    <3>1. signup[u].owner # None => signup[u].owner \in Accounts
      BY DEF RegistrationInv, Signup
    <3>2. u \in Accounts
      BY DEF Accounts
    <3> QED
      BY <2>1, <3>1, <3>2 DEF RegistrationInv, SignupRight
  <2>2. CASE /\ signup'[u].pc = "done" /\ signup'[u].owner = None
             /\ signup'[u].state = signup[u].state
    BY <2>2 DEF RegistrationInv, SignupRight
  <2> QED
    BY <2>1, <2>2
<1>4. StatesDiffer'
  BY <1>2 DEF RegistrationInv, StatesDiffer
<1> QED
  BY <1>3, <1>4 DEF RegistrationInv

LEMMA LinkStep ==
  ASSUME RegistrationInv, NEW t \in Clients, linkGoogleId(t)
  PROVE  RegistrationInv'
<1>0. /\ signup[t].pc = "link" /\ UNCHANGED <<usedNonce, backfill>>
      /\ signup[t].account \in Accounts /\ Exists(signup[t].account)
      /\ signup[t].google \in GoogleIds \cup {None} /\ signup[t] \in Signup
  BY DEF linkGoogleId, RegistrationInv, SignupRight, Signup
<1> PICK a \in Accounts : a = signup[t].account
  BY <1>0
<1>1. CASE \A b \in Accounts \ {a} : account[b].google # signup[t].google
  <2> DEFINE k == [signup[t] EXCEPT !.pc = "done", !.account = a, !.owner = None, !.attempt = 0]
             doc == [account[a] EXCEPT !.google = signup[t].google]
  <2>1. signup' = [signup EXCEPT ![t] = k] /\ account' = [account EXCEPT ![a] = doc]
    BY <1>1 DEF linkGoogleId, SignupEnds
  <2>2. k \in Signup /\ k.pc = "done" /\ k.owner = None /\ k.state = signup[t].state
    BY <1>0 DEF Signup
  <2>3. /\ doc \in AccountDoc /\ doc.email = account[a].email /\ doc.owner = account[a].owner
        /\ doc.code = account[a].code /\ doc.google = signup[t].google
    <3>1. account[a] \in AccountDoc
      BY DEF RegistrationInv, AccountsRight
    <3> QED
      BY <1>0, <3>1 DEF AccountDoc
  <2> HIDE DEF k, doc
  <2>4. \A b \in Accounts \ {a} : Exists(b) =>
            /\ doc.google # account[b].google \/ doc.google = None
            /\ doc.code # account[b].code \/ doc.code = None
    BY <1>0, <1>1, <2>3 DEF RegistrationInv, AccountsRight, AccountsDiffer
  <2>5. AccountsRight' /\ \A b \in Accounts : Exists(b)' <=> Exists(b)
    BY <1>0, <2>1, <2>3, <2>4, AccountEdited DEF RegistrationInv
  <2>6. \A r \in Reviews : BackfillRight(r)'
    BY <1>0, <2>5 DEF RegistrationInv, BackfillRight
  <2>7. backfill' \in [Reviews -> Backfill]
    BY <1>0 DEF RegistrationInv
  <2>8. /\ signup' \in [Clients -> Signup] /\ signup'[t] = k
        /\ \A u \in Clients \ {t} : signup'[u] = signup[u]
    BY <2>1, <2>2 DEF RegistrationInv
  <2> QED
    BY <1>0, <2>2, <2>5, <2>6, <2>7, <2>8, RequestsStay
<1>2. CASE SignupEnds(t, None) /\ UNCHANGED account
  BY <1>0, <1>2, SignupStops
<1> QED
  BY <1>1, <1>2 DEF linkGoogleId

LEMMA StatusChangesStep ==
  ASSUME RegistrationInv, NEW a \in Accounts, StatusChanges(a)
  PROVE  RegistrationInv'
<1> DEFINE doc == [account[a] EXCEPT !.active = ~account[a].active]
<1>0. Exists(a) /\ UNCHANGED <<usedNonce, signup, backfill>>
  BY DEF StatusChanges
<1>1. account' = [account EXCEPT ![a] = doc]
  BY DEF StatusChanges, RegistrationInv, AccountsRight, AccountDoc
<1>2. /\ doc \in AccountDoc /\ doc.email = account[a].email /\ doc.owner = account[a].owner
      /\ doc.code = account[a].code /\ doc.google = account[a].google
  <2>1. account[a] \in AccountDoc
    BY DEF RegistrationInv, AccountsRight
  <2> QED
    BY <2>1 DEF AccountDoc
<1> HIDE DEF doc
<1>3. \A b \in Accounts \ {a} : Exists(b) =>
          /\ doc.google # account[b].google \/ doc.google = None
          /\ doc.code # account[b].code \/ doc.code = None
  BY <1>0, <1>2 DEF RegistrationInv, AccountsRight, AccountsDiffer
<1>4. AccountsRight' /\ \A b \in Accounts : Exists(b)' <=> Exists(b)
  BY <1>0, <1>1, <1>2, <1>3, AccountEdited DEF RegistrationInv
<1>5. \A r \in Reviews : BackfillRight(r)'
  BY <1>0, <1>4 DEF RegistrationInv, BackfillRight
<1> QED
  BY <1>0, <1>4, <1>5, RequestsStay DEF RegistrationInv

LEMMA BackfillFindsStep ==
  ASSUME RegistrationInv, NEW r \in Reviews, NEW a \in Accounts, backfillReferralCodes(r, a)
  PROVE  RegistrationInv'
<1> DEFINE k == [backfill[r] EXCEPT !.pc = "assign", !.account = a]
<1>1. /\ backfill' = [backfill EXCEPT ![r] = k] /\ UNCHANGED <<account, usedNonce, signup>>
      /\ Exists(a)
  BY DEF backfillReferralCodes
<1>2. k \in Backfill /\ k.account = a
  BY DEF RegistrationInv, Backfill
<1> HIDE DEF k
<1>3. /\ backfill' \in [Reviews -> Backfill] /\ backfill'[r] = k
      /\ \A q \in Reviews \ {r} : backfill'[q] = backfill[q]
  BY <1>1, <1>2 DEF RegistrationInv
<1>4. \A q \in Reviews : BackfillRight(q)'
  BY <1>1, <1>2, <1>3 DEF RegistrationInv, BackfillRight, Exists
<1> QED
  BY <1>1, <1>3, <1>4
     DEF RegistrationInv, AccountsRight, AccountsDiffer, SignupRight, StatesDiffer, Exists

LEMMA AssignCodeStep ==
  ASSUME RegistrationInv, NEW r \in Reviews, NEW code \in Codes,
         assignReferralCodeIfMissing(r, code)
  PROVE  RegistrationInv'
<1>0. /\ backfill[r].pc = "assign" /\ UNCHANGED <<usedNonce, signup>>
      /\ backfill[r].account \in Accounts /\ Exists(backfill[r].account)
      /\ backfill[r] \in Backfill
  BY DEF assignReferralCodeIfMissing, RegistrationInv, BackfillRight
<1> PICK a \in Accounts : a = backfill[r].account
  BY <1>0
<1> DEFINE again == [backfill[r] EXCEPT !.attempt = backfill[r].attempt + 1]
           over == [backfill[r] EXCEPT !.pc = "done", !.attempt = 0]
<1>1. PICK k \in {again, over} :
          /\ backfill' = [backfill EXCEPT ![r] = k]
          /\ \/ UNCHANGED account
             \/ /\ missingReferralCodeFilter(a) /\ ~isDuplicateReferralCode(code)
                /\ account' = [account EXCEPT ![a].code = code]
  BY <1>0 DEF assignReferralCodeIfMissing, RegistrationInv
<1>2. again \in Backfill /\ again.account = a /\ over \in Backfill /\ over.pc = "done"
  <2>1. again \in Backfill
    BY <1>0 DEF Backfill
  <2>2. again.account = a
    BY <1>0 DEF Backfill
  <2>3. over \in Backfill /\ over.pc = "done"
    BY <1>0 DEF Backfill
  <2> QED
    BY <2>1, <2>2, <2>3
<1> HIDE DEF again, over
<1>3. /\ backfill' \in [Reviews -> Backfill] /\ backfill'[r] = k
      /\ \A q \in Reviews \ {r} : backfill'[q] = backfill[q]
  BY <1>1, <1>2 DEF RegistrationInv
<1>4. AccountsRight' /\ \A b \in Accounts : Exists(b)' <=> Exists(b)
  <2>1. CASE UNCHANGED account
    BY <2>1 DEF RegistrationInv, AccountsRight, AccountsDiffer, Exists
  <2>2. CASE /\ missingReferralCodeFilter(a) /\ ~isDuplicateReferralCode(code)
             /\ account' = [account EXCEPT ![a].code = code]
    <3> DEFINE doc == [account[a] EXCEPT !.code = code]
    <3>1. account' = [account EXCEPT ![a] = doc]
      BY <2>2
    <3>2. /\ doc \in AccountDoc /\ doc.email = account[a].email /\ doc.owner = account[a].owner
          /\ doc.code = code /\ doc.google = account[a].google
      <4>1. account[a] \in AccountDoc
        BY DEF RegistrationInv, AccountsRight
      <4> QED
        BY <4>1 DEF AccountDoc
    <3> HIDE DEF doc
    <3>3. \A b \in Accounts \ {a} : Exists(b) =>
              /\ doc.google # account[b].google \/ doc.google = None
              /\ doc.code # account[b].code \/ doc.code = None
      BY <1>0, <2>2, <3>2
         DEF RegistrationInv, AccountsRight, AccountsDiffer, isDuplicateReferralCode
    <3> QED
      BY <1>0, <3>1, <3>2, <3>3, AccountEdited DEF RegistrationInv
  <2> QED
    BY <1>1, <2>1, <2>2
<1>5. \A q \in Reviews : BackfillRight(q)'
  BY <1>0, <1>2, <1>3, <1>4 DEF RegistrationInv, BackfillRight
<1> QED
  BY <1>0, <1>3, <1>4, <1>5, RequestsStay DEF RegistrationInv

LEMMA InsertAccount ==
  ASSUME RegistrationInv, NEW t \in Clients, NEW code \in Codes, signup[t].pc = "create",
         ~EmailOrGoogleIdIsTaken(t), ~isDuplicateReferralCode(code),
         account' = [account EXCEPT ![t] =
            [email |-> signup[t].email, google |-> signup[t].google, code |-> code,
             owner |-> signup[t].owner, active |-> TRUE]],
         SignupEnds(t, t), UNCHANGED <<usedNonce, backfill>>
  PROVE  RegistrationInv'
<1> DEFINE doc == [email |-> signup[t].email, google |-> signup[t].google, code |-> code,
                   owner |-> signup[t].owner, active |-> TRUE]
           k == [signup[t] EXCEPT !.pc = "done", !.account = t, !.owner = None, !.attempt = 0]
<1>1. account' = [account EXCEPT ![t] = doc] /\ signup' = [signup EXCEPT ![t] = k]
  BY DEF SignupEnds
<1>2. /\ ~Exists(t) /\ signup[t].email \in Emails /\ signup[t] \in Signup /\ t \in Accounts
      /\ signup[t].owner # None => Exists(signup[t].owner)
  BY DEF RegistrationInv, SignupRight, Accounts
<1>3. k \in Signup /\ k.pc = "done" /\ k.owner = None /\ k.state = signup[t].state
  BY <1>2 DEF Signup
<1>4. /\ doc \in AccountDoc /\ doc.email = signup[t].email /\ doc.google = signup[t].google
      /\ doc.code = code /\ doc.owner = signup[t].owner /\ doc.owner # t
  <2>1. signup[t].owner # t
    BY <1>2, TasksAssumption
  <2> QED
    BY <1>2, <2>1 DEF AccountDoc, Signup
<1> HIDE DEF k, doc
<1>5. /\ account' \in [Accounts -> AccountDoc] /\ account'[t] = doc
      /\ \A b \in Accounts \ {t} : account'[b] = account[b]
      /\ signup' \in [Clients -> Signup] /\ signup'[t] = k
      /\ \A u \in Clients \ {t} : signup'[u] = signup[u]
  BY <1>1, <1>2, <1>3, <1>4 DEF RegistrationInv, AccountsRight
<1>6. Exists(t)' /\ \A b \in Accounts \ {t} : Exists(b)' <=> Exists(b)
  BY <1>2, <1>4, <1>5, AddressesAssumption DEF Exists
<1>7. \A b \in Accounts \ {t} :
          /\ account[b].email # doc.email
          /\ doc.google # account[b].google \/ doc.google = None
          /\ doc.code # account[b].code
  BY <1>4 DEF EmailOrGoogleIdIsTaken, isDuplicateReferralCode
<1>8. AccountsRight'
  <2>1. AccountsDiffer'
    <3> SUFFICES ASSUME NEW b \in Accounts, NEW c \in Accounts, Exists(b)', Exists(c)', b # c
                 PROVE  /\ account'[b].email # account'[c].email
                        /\ account'[b].google # account'[c].google \/ account'[b].google = None
                        /\ account'[b].code # account'[c].code \/ account'[b].code = None
      BY DEF AccountsDiffer
    <3>1. CASE b = t
      BY <1>5, <1>7, <3>1
    <3>2. CASE c = t
      BY <1>5, <1>7, <3>2
    <3>3. CASE b # t /\ c # t
      BY <1>5, <1>6, <3>3 DEF RegistrationInv, AccountsRight, AccountsDiffer
    <3> QED
      BY <3>1, <3>2, <3>3
  <2>2. \A b \in Accounts : ~Exists(b)' => account'[b] = NoAccount
    BY <1>5, <1>6 DEF RegistrationInv, AccountsRight
  <2>3. \A b \in Accounts : account'[b].owner # b
    BY <1>4, <1>5 DEF RegistrationInv, AccountsRight
  <2> QED
    BY <1>5, <2>1, <2>2, <2>3 DEF AccountsRight
<1>9. \A u \in Clients : SignupRight(u)'
  <2> SUFFICES ASSUME NEW u \in Clients PROVE SignupRight(u)'
    OBVIOUS
  <2>1. CASE u = t
    BY <1>3, <1>5, <2>1 DEF RegistrationInv, SignupRight
  <2>2. CASE u # t
    <3>1. signup[u].owner # None => signup[u].owner \in Accounts
      BY DEF RegistrationInv, Signup
    <3>2. u \in Accounts /\ signup'[u] = signup[u] /\ SignupRight(u)
      BY <1>5, <2>2 DEF Accounts, RegistrationInv
    <3> QED
      BY <1>6, <2>2, <3>1, <3>2 DEF SignupRight
  <2> QED
    BY <2>1, <2>2
<1>10. StatesDiffer'
  BY <1>3, <1>5 DEF RegistrationInv, StatesDiffer
<1>11. \A r \in Reviews : BackfillRight(r)'
  BY <1>6 DEF RegistrationInv, BackfillRight
<1> QED
  BY <1>5, <1>8, <1>9, <1>10, <1>11 DEF RegistrationInv

LEMMA CreateUserStep ==
  ASSUME RegistrationInv, NEW t \in Clients, NEW code \in Codes, createUser(t, code)
  PROVE  RegistrationInv'
<1>0. /\ signup[t].pc = "create" /\ UNCHANGED <<usedNonce, backfill>>
      /\ signup[t].owner # None => Exists(signup[t].owner)
      /\ signup[t] \in Signup
  BY DEF createUser, RegistrationInv, SignupRight
<1>1. CASE SignupEnds(t, None) /\ UNCHANGED account
  BY <1>0, <1>1, SignupStops
<1>2. CASE /\ signup' = [signup EXCEPT ![t].attempt = signup[t].attempt + 1]
           /\ UNCHANGED account
  <2> DEFINE k == [signup[t] EXCEPT !.attempt = signup[t].attempt + 1]
  <2>1. signup' = [signup EXCEPT ![t] = k]
    BY <1>2
  <2>2. /\ k \in Signup /\ k.pc = "create" /\ k.email = signup[t].email
        /\ k.owner = signup[t].owner /\ k.state = signup[t].state
    BY <1>0 DEF Signup
  <2> HIDE DEF k
  <2> QED
    BY <1>0, <1>2, <2>1, <2>2, SignupGoesOn
<1>3. CASE /\ ~EmailOrGoogleIdIsTaken(t) /\ ~isDuplicateReferralCode(code)
           /\ account' = [account EXCEPT ![t] =
                [email |-> signup[t].email, google |-> signup[t].google, code |-> code,
                 owner |-> signup[t].owner, active |-> TRUE]]
           /\ SignupEnds(t, t)
  BY <1>0, <1>3, InsertAccount
<1> QED
  BY <1>1, <1>2, <1>3 DEF createUser

-----------------------------------------------------------------------------

LEMMA RegistrationStep ==
  ASSUME RegistrationInv, [RegistrationNext]_registrationVars
  PROVE  RegistrationInv'
<1>1. CASE UNCHANGED registrationVars
  BY <1>1 DEF registrationVars, RegistrationInv, AccountsRight, AccountsDiffer, SignupRight,
       StatesDiffer, BackfillRight, Exists
<1>2. CASE RegistrationNext
  BY <1>2, RegisterStep, ConsumeStateStep, FindByGoogleIdStep, FindByEmailStep, LinkStep,
     ResolveOwnerStep, CreateUserStep, StatusChangesStep, BackfillFindsStep, AssignCodeStep
     DEF RegistrationNext
<1> QED
  BY <1>1, <1>2

LEMMA RegistrationInvSays == RegistrationInv => RegistrationTypeOK /\ EachOnce
BY DEF RegistrationInv, AccountsRight, AccountDoc, AccountsDiffer, StatesDiffer,
   RegistrationTypeOK, EachOnce

\* What is written of an account once, an account keeps.
CodesStay ==
    \A a \in Accounts : Exists(a) =>
        /\ account[a].code # None => account'[a].code = account[a].code
        /\ account'[a].owner = account[a].owner /\ account[a].owner # a

LEMMA CodesStayInStep ==
  ASSUME RegistrationInv, [RegistrationNext]_registrationVars
  PROVE  CodesStay
<1> USE DEF CodesStay
<1>0. AccountsRight /\ account \in [Accounts -> AccountDoc]
  BY DEF RegistrationInv, AccountsRight
<1>1. CASE UNCHANGED account
  BY <1>0, <1>1 DEF AccountsRight
<1>2. ASSUME NEW t \in Clients, linkGoogleId(t) PROVE CodesStay
  BY <1>0, <1>1, <1>2 DEF linkGoogleId, AccountsRight, AccountDoc
<1>3. ASSUME NEW t \in Clients, NEW code \in Codes, createUser(t, code) PROVE CodesStay
  <2>1. ~Exists(t)
    BY <1>3 DEF createUser, RegistrationInv, SignupRight
  <2>2. \/ UNCHANGED account
        \/ \A a \in Accounts \ {t} : account'[a] = account[a]
    BY <1>0, <1>3 DEF createUser
  <2> QED
    BY <1>0, <1>1, <2>1, <2>2 DEF AccountsRight
<1>4. ASSUME NEW a \in Accounts, StatusChanges(a) PROVE CodesStay
  BY <1>0, <1>4 DEF StatusChanges, AccountsRight, AccountDoc
<1>5. ASSUME NEW r \in Reviews, NEW code \in Codes, assignReferralCodeIfMissing(r, code)
      PROVE  CodesStay
  BY <1>0, <1>1, <1>5
     DEF assignReferralCodeIfMissing, missingReferralCodeFilter, AccountsRight, AccountDoc
<1> QED
  BY <1>1, <1>2, <1>3, <1>4, <1>5
     DEF RegistrationNext, registrationVars, register, consumeGoogleOAuthState, FindByGoogleId,
         FindByEmail, resolveReferralOwner, backfillReferralCodes

-----------------------------------------------------------------------------
(* Rates: the invariant.                                                   *)

Currency == {USD} \cup Foreign

WalletDoc == [currency : Currency, balance : Int]

Purchase ==
    [pc : {"new", "convert", "cache", "debit", "done", "refused"}, worker : Workers \cup {None},
     snap : WalletDoc, rate : Nat, retried : BOOLEAN,
     paid : [currency : Currency, rate : Nat, takenIn : Currency] \cup {None}]

Request ==
    [pc : {"new", "rate", "status", "invalidate", "debts", "adjust", "create", "delete",
           "toRate", "fromRate", "convert", "done"},
     worker : Workers \cup {None}, code : Currency \cup {None}, value : Nat, flag : BOOLEAN,
     id : Nat, old : Nat, balance : Int, from : Currency \cup {None}]

Run == [pc : {"idle", "create"}, code : Foreign \cup {None}, rate : Nat]

\* What can be found or cached was billed.
DocsRight ==
    /\ currency \in [Foreign -> CurrencyDoc]
    /\ \A c \in Foreign : currency[c].exists <=> currency[c].platform > 0
    /\ wallet \in WalletDoc
    /\ cached \in [Workers -> [Foreign -> AllRates \cup {None}]]
    /\ billed \in [Foreign -> SUBSET AllRates]
    /\ \A c \in Foreign : currency[c].exists => currency[c].platform \in billed[c]
    /\ \A w \in Workers, c \in Foreign : cached[w][c] # None => cached[w][c] \in billed[c]

PurchaseRight(t) ==
    /\ purchase[t].pc \in {"convert", "cache"} =>
           purchase[t].snap.currency \in Foreign /\ purchase[t].worker \in Workers
    /\ purchase[t].pc = "cache" => purchase[t].rate \in billed[purchase[t].snap.currency]
    /\ purchase[t].pc = "debit" =>
           IF purchase[t].snap.currency = USD THEN purchase[t].rate = 1
           ELSE purchase[t].rate \in billed[purchase[t].snap.currency]
    /\ purchase[t].paid # None =>
           /\ IF purchase[t].paid.currency = USD THEN purchase[t].paid.rate = 1
              ELSE purchase[t].paid.rate \in billed[purchase[t].paid.currency]
           /\ Transactional => purchase[t].paid.takenIn = purchase[t].paid.currency

\* A request converts at rates that are not zero.
ClerkRight(r) ==
    /\ clerk[r].pc \in {"rate", "status", "invalidate", "debts", "adjust", "create", "delete"} =>
           clerk[r].code \in Foreign
    /\ clerk[r].pc \in {"rate", "create"} => clerk[r].value \in BillRates
    /\ clerk[r].pc \in {"rate", "debts", "adjust", "convert"} => clerk[r].old # 0
    /\ clerk[r].pc = "invalidate" =>
           clerk[r].worker \in Workers /\ (clerk[r].flag => clerk[r].old # 0)
    /\ clerk[r].pc \in {"rate", "status", "delete"} => clerk[r].worker \in Workers
    /\ clerk[r].pc \in {"toRate", "fromRate", "convert"} =>
           clerk[r].code \in Currency /\ clerk[r].from \in Currency

FeedRight(w) == feed[w].pc = "create" => feed[w].code \in Foreign /\ feed[w].rate \in FeedRates

RatesInv ==
    /\ DocsRight
    /\ purchase \in [Buyers -> Purchase] /\ \A t \in Buyers : PurchaseRight(t)
    /\ clerk \in [Reviews -> Request] /\ \A r \in Reviews : ClerkRight(r)
    /\ feed \in [Workers -> Run] /\ \A w \in Workers : FeedRight(w)

LEMMA AllRatesArePositive == AllRates \subseteq Nat \ {0}
BY RatesAssumption DEF AllRates

LEMMA RatesInitInv == RatesInit => RatesInv
<1> SUFFICES ASSUME RatesInit PROVE RatesInv
  OBVIOUS
<1>1. PICK rates \in [Foreign -> BillRates \cup {0}] :
          /\ currency = [c \in Foreign |->
                IF rates[c] = 0 THEN Gone(0)
                ELSE [Gone(0) EXCEPT !.exists = TRUE, !.active = TRUE, !.platform = rates[c]]]
          /\ billed = [c \in Foreign |-> {rates[c]} \ {0}]
  BY DEF RatesInit
<1>2. wallet \in WalletDoc
  BY RatesAssumption DEF RatesInit, WalletDoc, Currency
<1>3. \A c \in Foreign : /\ rates[c] \in AllRates \cup {0} /\ rates[c] \in Nat
  BY RatesAssumption DEF AllRates
<1>4. \A c \in Foreign : /\ currency[c] \in CurrencyDoc /\ currency[c].platform = rates[c]
                         /\ currency[c].exists <=> rates[c] # 0
  <2> SUFFICES ASSUME NEW c \in Foreign
               PROVE  /\ currency[c] \in CurrencyDoc /\ currency[c].platform = rates[c]
                      /\ currency[c].exists <=> rates[c] # 0
    OBVIOUS
  <2>1. CASE rates[c] = 0
    BY <1>1, <1>3, <2>1 DEF Gone, CurrencyDoc
  <2>2. CASE rates[c] # 0
    BY <1>1, <1>3, <2>2 DEF Gone, CurrencyDoc
  <2> QED
    BY <2>1, <2>2
<1>5. currency \in [Foreign -> CurrencyDoc] /\ billed \in [Foreign -> SUBSET AllRates]
  BY <1>1, <1>3, <1>4
<1>6. /\ cached \in [Workers -> [Foreign -> AllRates \cup {None}]]
      /\ \A w \in Workers, c \in Foreign : cached[w][c] = None
  BY DEF RatesInit
<1>7. DocsRight
  <2>1. \A c \in Foreign : currency[c].exists <=> currency[c].platform > 0
    BY <1>3, <1>4
  <2>2. \A c \in Foreign : billed[c] = {rates[c]} \ {0}
    BY <1>1
  <2>3. \A c \in Foreign : currency[c].exists => currency[c].platform \in billed[c]
    BY <1>3, <1>4, <2>2
  <2> QED
    BY <1>2, <1>5, <1>6, <2>1, <2>3 DEF DocsRight
<1>8. /\ purchase \in [Buyers -> Purchase]
      /\ \A t \in Buyers : purchase[t].pc = "new" /\ purchase[t].paid = None
  BY <1>2 DEF RatesInit, Purchase
<1>9. clerk \in [Reviews -> Request] /\ \A r \in Reviews : clerk[r].pc = "new"
  <2>1. NoRequest \in Request /\ NoRequest.pc = "new"
    BY DEF NoRequest, Request
  <2> QED
    BY <2>1 DEF RatesInit
<1>10. feed \in [Workers -> Run] /\ \A w \in Workers : feed[w].pc = "idle"
  BY DEF RatesInit, NoRun, Run
<1> QED
  BY <1>7, <1>8, <1>9, <1>10 DEF RatesInv, PurchaseRight, ClerkRight, FeedRight

-----------------------------------------------------------------------------
(* Orders.                                                                 *)

LEMMA PurchaseMoves ==
  ASSUME RatesInv, NEW t \in Buyers, NEW k \in Purchase, purchase' = [purchase EXCEPT ![t] = k],
         DocsRight', PurchaseRight(t)', UNCHANGED <<billed, clerk, feed>>
  PROVE  RatesInv'
<1>1. /\ purchase' \in [Buyers -> Purchase] /\ purchase'[t] = k
      /\ \A u \in Buyers \ {t} : purchase'[u] = purchase[u]
  BY DEF RatesInv
<1>2. \A u \in Buyers : PurchaseRight(u)'
  BY <1>1 DEF RatesInv, PurchaseRight
<1> QED
  BY <1>1, <1>2 DEF RatesInv, ClerkRight, FeedRight

LEMMA DocsStay ==
  ASSUME DocsRight, UNCHANGED <<currency, wallet, cached, billed>>
  PROVE  DocsRight'
BY DEF DocsRight

\* An order that only goes on.
LEMMA PurchaseGoes ==
  ASSUME RatesInv, NEW t \in Buyers, NEW pc \in {"new", "refused"},
         purchase' = [purchase EXCEPT ![t].pc = pc]
         \/ purchase' = [purchase EXCEPT ![t].pc = pc, ![t].retried = TRUE],
         UNCHANGED <<currency, wallet, cached, clerk, feed, billed>>
  PROVE  RatesInv'
<1> DEFINE k == [purchase[t] EXCEPT !.pc = pc]
           again == [purchase[t] EXCEPT !.pc = pc, !.retried = TRUE]
<1>1. purchase' = [purchase EXCEPT ![t] = k] \/ purchase' = [purchase EXCEPT ![t] = again]
  BY DEF RatesInv, Purchase
<1>2. /\ k \in Purchase /\ k.pc = pc /\ k.paid = purchase[t].paid
      /\ again \in Purchase /\ again.pc = pc /\ again.paid = purchase[t].paid
  BY DEF RatesInv, Purchase
<1> HIDE DEF k, again
<1>3. purchase'[t].pc = pc /\ purchase'[t].paid = purchase[t].paid
  BY <1>1, <1>2 DEF RatesInv
<1>4. PurchaseRight(t)'
  BY <1>3 DEF RatesInv, PurchaseRight
<1> QED
  BY <1>1, <1>2, <1>4, PurchaseMoves, DocsStay DEF RatesInv

LEMMA CalculateStep ==
  ASSUME RatesInv, NEW t \in Buyers, NEW w \in Workers, calculateUserPrice(t, w)
  PROVE  RatesInv'
<1> PICK pc \in {"debit", "convert"} : pc = IF wallet.currency = USD THEN "debit" ELSE "convert"
  OBVIOUS
<1> DEFINE k == [purchase[t] EXCEPT !.worker = w, !.snap = wallet, !.rate = 1, !.pc = pc]
<1>1. /\ purchase' = [purchase EXCEPT ![t] = k]
      /\ UNCHANGED <<currency, wallet, cached, clerk, feed, billed>>
  BY DEF calculateUserPrice
<1>2. wallet \in WalletDoc
  BY DEF RatesInv, DocsRight
<1>3. /\ k \in Purchase /\ k.pc = pc /\ k.snap = wallet /\ k.worker = w /\ k.rate = 1
      /\ k.paid = purchase[t].paid
  BY <1>2 DEF RatesInv, Purchase
<1> HIDE DEF k
<1>4. purchase'[t] = k
  BY <1>1 DEF RatesInv
<1>5. PurchaseRight(t)'
  BY <1>1, <1>2, <1>3, <1>4 DEF RatesInv, PurchaseRight, WalletDoc, Currency
<1> QED
  BY <1>1, <1>3, <1>5, PurchaseMoves, DocsStay DEF RatesInv

LEMMA ConvertCachedStep ==
  ASSUME RatesInv, NEW t \in Buyers, ConvertCached(t)
  PROVE  RatesInv'
<1>1. PICK w \in Workers, c \in Foreign : w = purchase[t].worker /\ c = purchase[t].snap.currency
  BY DEF ConvertCached, RatesInv, PurchaseRight
<1> DEFINE known == cached[w][c]
           k == [purchase[t] EXCEPT !.pc = "debit", !.rate = known]
<1>2. /\ purchase' = [purchase EXCEPT ![t] = k] /\ known # None
      /\ UNCHANGED <<currency, wallet, cached, clerk, feed, billed>>
  BY <1>1 DEF ConvertCached, RatesInv, Purchase
<1>3. known \in billed[c] /\ known \in Nat
  BY <1>2, AllRatesArePositive DEF RatesInv, DocsRight
<1>4. /\ k \in Purchase /\ k.pc = "debit" /\ k.snap = purchase[t].snap /\ k.rate = known
      /\ k.paid = purchase[t].paid
  BY <1>3 DEF RatesInv, Purchase
<1> HIDE DEF k
<1>5. purchase'[t] = k
  BY <1>2 DEF RatesInv
<1>6. c # USD
  BY RatesAssumption
<1>7. PurchaseRight(t)'
  BY <1>1, <1>2, <1>3, <1>4, <1>5, <1>6 DEF RatesInv, PurchaseRight
<1> QED
  BY <1>2, <1>4, <1>7, PurchaseMoves, DocsStay DEF RatesInv

LEMMA GetCurrencyStep ==
  ASSUME RatesInv, NEW t \in Buyers, _getCurrency(t)
  PROVE  RatesInv'
<1>1. PICK w \in Workers, c \in Foreign : w = purchase[t].worker /\ c = purchase[t].snap.currency
  BY DEF _getCurrency, RatesInv, PurchaseRight
<1>2. CASE Purchases(t, "refused")
  BY <1>2, PurchaseGoes DEF _getCurrency, Purchases
<1>3. CASE currency[c].exists
           /\ purchase' = [purchase EXCEPT ![t].pc = "cache", ![t].rate = currency[c].platform]
  <2> DEFINE k == [purchase[t] EXCEPT !.pc = "cache", !.rate = currency[c].platform]
  <2>1. /\ purchase' = [purchase EXCEPT ![t] = k]
        /\ UNCHANGED <<currency, wallet, cached, clerk, feed, billed>>
    BY <1>3 DEF _getCurrency, RatesInv, Purchase
  <2>2. currency[c].platform \in billed[c] /\ currency[c].platform \in Nat
    BY <1>3, AllRatesArePositive DEF RatesInv, DocsRight
  <2>3. /\ k \in Purchase /\ k.pc = "cache" /\ k.snap = purchase[t].snap
        /\ k.rate = currency[c].platform /\ k.paid = purchase[t].paid /\ k.worker = w
    BY <1>1, <2>2 DEF RatesInv, Purchase
  <2> HIDE DEF k
  <2>4. purchase'[t] = k
    BY <2>1 DEF RatesInv
  <2>5. PurchaseRight(t)'
    BY <1>1, <2>1, <2>2, <2>3, <2>4 DEF RatesInv, PurchaseRight
  <2> QED
    BY <2>1, <2>3, <2>5, PurchaseMoves, DocsStay DEF RatesInv
<1> QED
  BY <1>1, <1>2, <1>3 DEF _getCurrency

LEMMA CacheCurrencyStep ==
  ASSUME RatesInv, NEW t \in Buyers, CacheCurrency(t)
  PROVE  RatesInv'
<1>1. PICK w \in Workers, c \in Foreign : w = purchase[t].worker /\ c = purchase[t].snap.currency
  BY DEF CacheCurrency, RatesInv, PurchaseRight
<1> DEFINE k == [purchase[t] EXCEPT !.pc = "debit"]
<1>2. /\ purchase' = [purchase EXCEPT ![t] = k]
      /\ cached' = [cached EXCEPT ![w][c] = purchase[t].rate]
      /\ UNCHANGED <<currency, wallet, clerk, feed, billed>>
  BY <1>1 DEF CacheCurrency, Purchases
<1>3. purchase[t].rate \in billed[c] /\ purchase[t].rate \in AllRates
  BY <1>1 DEF CacheCurrency, RatesInv, PurchaseRight, DocsRight
<1>4. /\ k \in Purchase /\ k.pc = "debit" /\ k.snap = purchase[t].snap
      /\ k.rate = purchase[t].rate /\ k.paid = purchase[t].paid
  BY DEF RatesInv, Purchase
<1> HIDE DEF k
<1>5. purchase'[t] = k
  BY <1>2 DEF RatesInv
<1>6. c # USD
  BY RatesAssumption
<1>7. PurchaseRight(t)'
  BY <1>1, <1>2, <1>3, <1>4, <1>5, <1>6 DEF RatesInv, PurchaseRight
<1>8. /\ cached' \in [Workers -> [Foreign -> AllRates \cup {None}]]
      /\ \A x \in Workers, d \in Foreign :
             cached'[x][d] = IF x = w /\ d = c THEN purchase[t].rate ELSE cached[x][d]
  BY <1>2, <1>3 DEF RatesInv, DocsRight
<1>9. DocsRight'
  BY <1>2, <1>3, <1>8 DEF RatesInv, DocsRight
<1> QED
  BY <1>2, <1>4, <1>7, <1>9, PurchaseMoves

LEMMA DebitStep ==
  ASSUME RatesInv, NEW t \in Buyers, debitWallet(t)
  PROVE  RatesInv'
<1>1. CASE Purchases(t, "refused") /\ UNCHANGED wallet
  BY <1>1, PurchaseGoes DEF debitWallet, Purchases
<1>2. CASE /\ wallet' = [wallet EXCEPT !.balance = wallet.balance - chargedAmount(t)]
           /\ purchase' = [purchase EXCEPT ![t].pc = "done", ![t].paid =
                [currency |-> purchase[t].snap.currency, rate |-> purchase[t].rate,
                 takenIn |-> wallet.currency]]
  <2> DEFINE paid == [currency |-> purchase[t].snap.currency, rate |-> purchase[t].rate,
                      takenIn |-> wallet.currency]
             k == [purchase[t] EXCEPT !.pc = "done", !.paid = paid]
  <2>1. /\ purchase' = [purchase EXCEPT ![t] = k] /\ purchase[t].pc = "debit"
        /\ Transactional => purchase[t].snap = wallet
        /\ UNCHANGED <<currency, cached, clerk, feed, billed>>
    BY <1>2 DEF debitWallet, RatesInv, Purchase
  <2>2. /\ paid \in [currency : Currency, rate : Nat, takenIn : Currency]
        /\ paid.currency = purchase[t].snap.currency /\ paid.rate = purchase[t].rate
        /\ paid.takenIn = wallet.currency
    BY DEF RatesInv, DocsRight, Purchase, WalletDoc
  <2> HIDE DEF paid
  <2>3. k \in Purchase /\ k.pc = "done" /\ k.paid = paid
    BY <2>2 DEF RatesInv, Purchase
  <2> HIDE DEF k
  <2>4. purchase'[t] = k
    BY <2>1 DEF RatesInv
  <2>5. PurchaseRight(t)'
    BY <2>1, <2>2, <2>3, <2>4 DEF RatesInv, PurchaseRight
  <2>6. chargedAmount(t) \in Int
    BY RatesAssumption DEF chargedAmount, RatesInv, Purchase
  <2>7. wallet' \in WalletDoc
    BY <1>2, <2>6 DEF RatesInv, DocsRight, WalletDoc
  <2>8. DocsRight'
    BY <2>1, <2>7 DEF RatesInv, DocsRight
  <2> QED
    BY <2>1, <2>3, <2>5, <2>8, PurchaseMoves
<1> QED
  BY <1>1, <1>2 DEF debitWallet

LEMMA ExpireStep ==
  ASSUME RatesInv, NEW w \in Workers, NEW c \in Foreign, Expire(w, c)
  PROVE  RatesInv'
<1>1. /\ cached' \in [Workers -> [Foreign -> AllRates \cup {None}]]
      /\ \A x \in Workers, d \in Foreign :
             cached'[x][d] = IF x = w /\ d = c THEN None ELSE cached[x][d]
  BY DEF Expire, RatesInv, DocsRight
<1>2. DocsRight'
  BY <1>1 DEF Expire, RatesInv, DocsRight
<1> QED
  BY <1>2 DEF Expire, RatesInv, PurchaseRight, ClerkRight, FeedRight

-----------------------------------------------------------------------------
(* Administrators and the feed.                                            *)

\* Orders only depend on what was billed, and that is never forgotten.
LEMMA DeskMoves ==
  ASSUME RatesInv, DocsRight', UNCHANGED purchase,
         \A c \in Foreign : billed[c] \subseteq billed'[c],
         clerk' \in [Reviews -> Request], \A r \in Reviews : ClerkRight(r)',
         feed' \in [Workers -> Run], \A w \in Workers : FeedRight(w)'
  PROVE  RatesInv'
<1>1. \A t \in Buyers : PurchaseRight(t)'
  <2> SUFFICES ASSUME NEW t \in Buyers PROVE PurchaseRight(t)'
    OBVIOUS
  <2>1. /\ purchase[t].snap.currency \in Currency
        /\ purchase[t].paid # None => purchase[t].paid.currency \in Currency
    BY DEF RatesInv, Purchase, WalletDoc
  <2>2. PurchaseRight(t) /\ purchase'[t] = purchase[t]
    BY DEF RatesInv
  <2> QED
    BY <2>1, <2>2 DEF PurchaseRight, Currency
<1> QED
  BY <1>1 DEF RatesInv

LEMMA ClerkMoves ==
  ASSUME RatesInv, DocsRight', UNCHANGED <<purchase, feed>>,
         \A c \in Foreign : billed[c] \subseteq billed'[c],
         NEW r \in Reviews, NEW k \in Request, clerk' = [clerk EXCEPT ![r] = k], ClerkRight(r)'
  PROVE  RatesInv'
<1>1. clerk' \in [Reviews -> Request] /\ \A q \in Reviews \ {r} : clerk'[q] = clerk[q]
  BY DEF RatesInv
<1>2. \A q \in Reviews : ClerkRight(q)'
  BY <1>1 DEF RatesInv, ClerkRight
<1> QED
  BY <1>1, <1>2, DeskMoves DEF RatesInv, FeedRight

\* What a request becomes of which some fields change.
LEMMA ClerkBecomes ==
  ASSUME RatesInv, NEW r \in Reviews, NEW changes, Clerk(r, changes)
  PROVE  \E k : /\ clerk' = [clerk EXCEPT ![r] = k] /\ clerk'[r] = k
                /\ k = [pc |-> IF "pc" \in DOMAIN changes THEN changes.pc ELSE clerk[r].pc,
                        worker |-> IF "worker" \in DOMAIN changes THEN changes.worker
                                   ELSE clerk[r].worker,
                        code |-> IF "code" \in DOMAIN changes THEN changes.code ELSE clerk[r].code,
                        value |-> IF "value" \in DOMAIN changes THEN changes.value
                                  ELSE clerk[r].value,
                        flag |-> IF "flag" \in DOMAIN changes THEN changes.flag ELSE clerk[r].flag,
                        id |-> IF "id" \in DOMAIN changes THEN changes.id ELSE clerk[r].id,
                        old |-> IF "old" \in DOMAIN changes THEN changes.old ELSE clerk[r].old,
                        balance |-> IF "balance" \in DOMAIN changes THEN changes.balance
                                    ELSE clerk[r].balance,
                        from |-> IF "from" \in DOMAIN changes THEN changes.from
                                 ELSE clerk[r].from]
<1> DEFINE k == [f \in DOMAIN clerk[r] |-> IF f \in DOMAIN changes THEN changes[f] ELSE clerk[r][f]]
<1>1. clerk' = [clerk EXCEPT ![r] = k]
  BY DEF Clerk, RatesInv
<1>2. DOMAIN clerk[r] = {"pc", "worker", "code", "value", "flag", "id", "old", "balance", "from"}
  BY DEF RatesInv, Request
<1>3. clerk'[r] = k
  BY <1>1 DEF RatesInv
<1>4. k = [pc |-> k.pc, worker |-> k.worker, code |-> k.code, value |-> k.value,
           flag |-> k.flag, id |-> k.id, old |-> k.old, balance |-> k.balance, from |-> k.from]
  BY <1>2
<1>5. /\ k.pc = IF "pc" \in DOMAIN changes THEN changes.pc ELSE clerk[r].pc
      /\ k.worker = IF "worker" \in DOMAIN changes THEN changes.worker ELSE clerk[r].worker
      /\ k.code = IF "code" \in DOMAIN changes THEN changes.code ELSE clerk[r].code
      /\ k.value = IF "value" \in DOMAIN changes THEN changes.value ELSE clerk[r].value
      /\ k.flag = IF "flag" \in DOMAIN changes THEN changes.flag ELSE clerk[r].flag
      /\ k.id = IF "id" \in DOMAIN changes THEN changes.id ELSE clerk[r].id
      /\ k.old = IF "old" \in DOMAIN changes THEN changes.old ELSE clerk[r].old
      /\ k.balance = IF "balance" \in DOMAIN changes THEN changes.balance ELSE clerk[r].balance
      /\ k.from = IF "from" \in DOMAIN changes THEN changes.from ELSE clerk[r].from
  BY <1>2
<1> HIDE DEF k
<1> WITNESS k
<1> QED
  BY <1>1, <1>3, <1>4, <1>5

LEMMA ClerkStops ==
  ASSUME RatesInv, DocsRight', UNCHANGED <<purchase, feed>>,
         \A c \in Foreign : billed[c] \subseteq billed'[c],
         NEW r \in Reviews, Ends(r)
  PROVE  RatesInv'
<1> DEFINE k == [NoRequest EXCEPT !.pc = "done"]
<1>1. clerk' = [clerk EXCEPT ![r] = k]
  BY DEF Ends
<1>2. k \in Request /\ k.pc = "done"
  <2>1. NoRequest \in Request
    BY DEF NoRequest, Request
  <2> QED
    BY <2>1 DEF Request
<1> HIDE DEF k
<1>3. ClerkRight(r)'
  BY <1>1, <1>2 DEF RatesInv, ClerkRight
<1> QED
  BY <1>1, <1>2, <1>3, ClerkMoves

\* A request reads.
LEMMA ClerkReads ==
  ASSUME RatesInv, UNCHANGED <<currency, wallet, cached, billed, purchase, feed>>,
         NEW r \in Reviews,
         \/ Ends(r)
         \/ \E k \in Request : clerk' = [clerk EXCEPT ![r] = k] /\ ClerkRight(r)'
  PROVE  RatesInv'
<1>1. DocsRight' /\ \A c \in Foreign : billed[c] \subseteq billed'[c]
  BY DocsStay DEF RatesInv
<1> QED
  BY <1>1, ClerkStops, ClerkMoves

LEMMA FindCurrencyStep ==
  ASSUME RatesInv, NEW r \in Reviews, NEW w \in Workers, NEW c \in Foreign, NEW flag \in BOOLEAN,
         NEW pc \in {"rate", "status"}, NEW value \in Nat, pc = "rate" => value \in BillRates,
         FindCurrency(r, w, pc, c, value, flag)
  PROVE  RatesInv'
<1>0. UNCHANGED <<currency, wallet, cached, billed, purchase, feed>>
  BY DEF FindCurrency, UNCHANGED_Orders
<1> DEFINE changes == [pc |-> pc, worker |-> w, code |-> c, value |-> value, flag |-> flag,
                       id |-> currency[c].id, old |-> currency[c].platform]
<1>1. CASE currency[c].exists /\ Clerk(r, changes)
  <2>1. PICK k : /\ clerk' = [clerk EXCEPT ![r] = k] /\ clerk'[r] = k
                 /\ k = [pc |-> pc, worker |-> w, code |-> c, value |-> value, flag |-> flag,
                         id |-> currency[c].id, old |-> currency[c].platform,
                         balance |-> clerk[r].balance, from |-> clerk[r].from]
    BY <1>1, ClerkBecomes
  <2>2. currency[c].id \in Nat /\ currency[c].platform \in Nat /\ currency[c].platform # 0
    BY <1>1, AllRatesArePositive DEF RatesInv, DocsRight, CurrencyDoc
  <2>3. k \in Request
    BY <2>1, <2>2 DEF RatesInv, Request, Currency
  <2>4. ClerkRight(r)'
    BY <2>1, <2>2 DEF ClerkRight
  <2> QED
    BY <1>0, <2>1, <2>3, <2>4, ClerkReads
<1>2. CASE Ends(r)
  BY <1>0, <1>2, ClerkReads
<1> QED
  BY <1>1, <1>2 DEF FindCurrency

LEMMA ExistingCurrencyStep ==
  ASSUME RatesInv, NEW r \in Reviews, NEW w \in Workers, NEW c \in Foreign, NEW rate \in BillRates,
         ExistingCurrency(r, w, c, rate)
  PROVE  RatesInv'
<1>0. UNCHANGED <<currency, wallet, cached, billed, purchase, feed>>
  BY DEF ExistingCurrency, UNCHANGED_Orders
<1> DEFINE changes == [pc |-> "create", worker |-> w, code |-> c, value |-> rate]
<1>1. CASE Clerk(r, changes)
  <2>1. PICK k : /\ clerk' = [clerk EXCEPT ![r] = k] /\ clerk'[r] = k
                 /\ k = [pc |-> "create", worker |-> w, code |-> c, value |-> rate,
                         flag |-> clerk[r].flag, id |-> clerk[r].id, old |-> clerk[r].old,
                         balance |-> clerk[r].balance, from |-> clerk[r].from]
    BY <1>1, ClerkBecomes
  <2>2. k \in Request /\ ClerkRight(r)'
    BY <2>1, RatesAssumption DEF RatesInv, Request, Currency, ClerkRight
  <2> QED
    BY <1>0, <2>1, <2>2, ClerkReads
<1>2. CASE Ends(r)
  BY <1>0, <1>2, ClerkReads
<1> QED
  BY <1>1, <1>2 DEF ExistingCurrency

LEMMA LinkedUserStep ==
  ASSUME RatesInv, NEW r \in Reviews, NEW w \in Workers, NEW c \in Foreign, LinkedUser(r, w, c)
  PROVE  RatesInv'
<1>0. UNCHANGED <<currency, wallet, cached, billed, purchase, feed>>
  BY DEF LinkedUser, UNCHANGED_Orders
<1> DEFINE changes == [pc |-> "delete", worker |-> w, code |-> c, id |-> currency[c].id]
<1>1. CASE Clerk(r, changes)
  <2>1. PICK k : /\ clerk' = [clerk EXCEPT ![r] = k] /\ clerk'[r] = k
                 /\ k = [pc |-> "delete", worker |-> w, code |-> c, value |-> clerk[r].value,
                         flag |-> clerk[r].flag, id |-> currency[c].id, old |-> clerk[r].old,
                         balance |-> clerk[r].balance, from |-> clerk[r].from]
    BY <1>1, ClerkBecomes
  <2>2. currency[c].id \in Nat
    BY DEF RatesInv, DocsRight, CurrencyDoc
  <2>3. k \in Request /\ ClerkRight(r)'
    BY <2>1, <2>2 DEF RatesInv, Request, Currency, ClerkRight
  <2> QED
    BY <1>0, <2>1, <2>3, ClerkReads
<1>2. CASE Ends(r)
  BY <1>0, <1>2, ClerkReads
<1> QED
  BY <1>1, <1>2 DEF LinkedUser

LEMMA FindUserStep ==
  ASSUME RatesInv, NEW r \in Reviews, NEW c \in Currency, FindUser(r, c)
  PROVE  RatesInv'
<1>0. UNCHANGED <<currency, wallet, cached, billed, purchase, feed>>
  BY DEF FindUser, UNCHANGED_Orders
<1> DEFINE changes == [pc |-> "toRate", code |-> c, balance |-> wallet.balance,
                       from |-> wallet.currency]
<1>1. CASE Clerk(r, changes)
  <2>1. PICK k : /\ clerk' = [clerk EXCEPT ![r] = k] /\ clerk'[r] = k
                 /\ k = [pc |-> "toRate", worker |-> clerk[r].worker, code |-> c,
                         value |-> clerk[r].value, flag |-> clerk[r].flag, id |-> clerk[r].id,
                         old |-> clerk[r].old, balance |-> wallet.balance,
                         from |-> wallet.currency]
    BY <1>1, ClerkBecomes
  <2>2. wallet.balance \in Int /\ wallet.currency \in Currency
    BY DEF RatesInv, DocsRight, WalletDoc
  <2>3. k \in Request /\ ClerkRight(r)'
    BY <2>1, <2>2 DEF RatesInv, Request, ClerkRight
  <2> QED
    BY <1>0, <2>1, <2>3, ClerkReads
<1>2. CASE Ends(r)
  BY <1>0, <1>2, ClerkReads
<1> QED
  BY <1>1, <1>2 DEF FindUser

LEMMA FindNewRateStep ==
  ASSUME RatesInv, NEW r \in Reviews, FindNewRate(r)
  PROVE  RatesInv'
<1>0. UNCHANGED <<currency, wallet, cached, billed, purchase, feed>>
  BY DEF FindNewRate, UNCHANGED_Orders
<1>1. clerk[r].code \in Currency /\ clerk[r].from \in Currency
  BY DEF FindNewRate, RatesInv, ClerkRight
<1>2. ASSUME NEW value \in Nat, Clerk(r, [pc |-> "fromRate", value |-> value]) PROVE RatesInv'
  <2>1. PICK k : /\ clerk' = [clerk EXCEPT ![r] = k] /\ clerk'[r] = k
                 /\ k = [pc |-> "fromRate", worker |-> clerk[r].worker, code |-> clerk[r].code,
                         value |-> value, flag |-> clerk[r].flag, id |-> clerk[r].id,
                         old |-> clerk[r].old, balance |-> clerk[r].balance,
                         from |-> clerk[r].from]
    BY <1>2, ClerkBecomes
  <2>2. k \in Request /\ ClerkRight(r)'
    BY <1>1, <2>1 DEF RatesInv, Request, ClerkRight
  <2> QED
    BY <1>0, <2>1, <2>2, ClerkReads
<1>3. CASE Ends(r)
  BY <1>0, <1>3, ClerkReads
<1>4. clerk[r].code # USD => currency[clerk[r].code].platform \in Nat
  <2>1. \A c \in Foreign : currency[c].platform \in AllRates \cup {0}
    BY DEF RatesInv, DocsRight, CurrencyDoc
  <2>2. \A c \in Foreign : currency[c].platform \in Nat
    <3> SUFFICES ASSUME NEW c \in Foreign PROVE currency[c].platform \in Nat
      OBVIOUS
    <3>1. CASE currency[c].platform \in AllRates
      BY <3>1, AllRatesArePositive
    <3>2. CASE currency[c].platform = 0
      BY <3>2
    <3> QED
      BY <2>1, <3>1, <3>2
  <2>3. clerk[r].code # USD => clerk[r].code \in Foreign
    BY <1>1 DEF Currency
  <2> QED
    BY <2>2, <2>3
<1> QED
  BY <1>2, <1>3, <1>4 DEF FindNewRate

LEMMA FindOldRateStep ==
  ASSUME RatesInv, NEW r \in Reviews, FindOldRate(r)
  PROVE  RatesInv'
<1>0. UNCHANGED <<currency, wallet, cached, billed, purchase, feed>>
  BY DEF FindOldRate, UNCHANGED_Orders
<1>1. clerk[r].code \in Currency /\ clerk[r].from \in Currency
  BY DEF FindOldRate, RatesInv, ClerkRight
<1>2. PICK old : /\ old = IF clerk[r].from # USD /\ currency[clerk[r].from].exists
                          THEN currency[clerk[r].from].platform ELSE 1
  OBVIOUS
<1>3. old \in Nat /\ old # 0
  <2>1. CASE clerk[r].from # USD /\ currency[clerk[r].from].exists
    BY <1>1, <1>2, <2>1, AllRatesArePositive DEF Currency, RatesInv, DocsRight, CurrencyDoc
  <2>2. CASE ~(clerk[r].from # USD /\ currency[clerk[r].from].exists)
    BY <1>2, <2>2
  <2> QED
    BY <2>1, <2>2
<1>4. Clerk(r, [pc |-> "convert", old |-> old])
  BY <1>2 DEF FindOldRate
<1>5. PICK k : /\ clerk' = [clerk EXCEPT ![r] = k] /\ clerk'[r] = k
               /\ k = [pc |-> "convert", worker |-> clerk[r].worker, code |-> clerk[r].code,
                       value |-> clerk[r].value, flag |-> clerk[r].flag, id |-> clerk[r].id,
                       old |-> old, balance |-> clerk[r].balance, from |-> clerk[r].from]
  BY <1>4, ClerkBecomes
<1>6. k \in Request /\ ClerkRight(r)'
  BY <1>1, <1>3, <1>5 DEF RatesInv, Request, ClerkRight
<1> QED
  BY <1>0, <1>5, <1>6, ClerkReads

LEMMA FindDebtsStep ==
  ASSUME RatesInv, NEW r \in Reviews, FindDebts(r)
  PROVE  RatesInv'
<1>0. UNCHANGED <<currency, wallet, cached, billed, purchase, feed>>
  BY DEF FindDebts, UNCHANGED_Orders
<1>1. CASE Clerk(r, [pc |-> "adjust", balance |-> wallet.balance])
  <2>1. PICK k : /\ clerk' = [clerk EXCEPT ![r] = k] /\ clerk'[r] = k
                 /\ k = [pc |-> "adjust", worker |-> clerk[r].worker, code |-> clerk[r].code,
                         value |-> clerk[r].value, flag |-> clerk[r].flag, id |-> clerk[r].id,
                         old |-> clerk[r].old, balance |-> wallet.balance,
                         from |-> clerk[r].from]
    BY <1>1, ClerkBecomes
  <2>2. clerk[r].code \in Foreign /\ clerk[r].old # 0 /\ wallet.balance \in Int
    BY DEF FindDebts, RatesInv, ClerkRight, DocsRight, WalletDoc
  <2>3. k \in Request /\ ClerkRight(r)'
    BY <2>1, <2>2 DEF RatesInv, Request, ClerkRight
  <2> QED
    BY <1>0, <2>1, <2>3, ClerkReads
<1>2. CASE Ends(r)
  BY <1>0, <1>2, ClerkReads
<1> QED
  BY <1>1, <1>2 DEF FindDebts

LEMMA RoundingIsInt ==
  ASSUME NEW balance \in Int, NEW old \in Nat \ {0}, NEW new \in Nat
  PROVE  convertBalance(balance, old, new) \in Int
<1>1. PICK x \in Int : x = balance * new
  OBVIOUS
<1>2. PICK y \in Int : y = 2 * x + old
  OBVIOUS
<1>3. PICK d \in Nat \ {0} : d = 2 * old
  OBVIOUS
<1>4. y \div d \in Int
  BY <1>2, <1>3
<1> QED
  BY <1>1, <1>2, <1>3, <1>4 DEF convertBalance, Rounding

\* Nothing is billed any less.
LEMMA NewDocs ==
  ASSUME RatesInv, NEW c \in Foreign, NEW doc \in CurrencyDoc,
         doc.exists <=> doc.platform > 0,
         currency' = [currency EXCEPT ![c] = doc],
         NEW more \in SUBSET AllRates, billed' = [billed EXCEPT ![c] = @ \cup more],
         doc.exists => doc.platform \in billed[c] \cup more,
         UNCHANGED <<wallet, cached>>
  PROVE  DocsRight' /\ \A d \in Foreign : billed[d] \subseteq billed'[d]
<1>1. /\ currency' \in [Foreign -> CurrencyDoc] /\ currency'[c] = doc
      /\ \A d \in Foreign \ {c} : currency'[d] = currency[d]
  BY DEF RatesInv, DocsRight
<1>2. /\ billed' \in [Foreign -> SUBSET AllRates] /\ billed'[c] = billed[c] \cup more
      /\ \A d \in Foreign \ {c} : billed'[d] = billed[d]
  BY DEF RatesInv, DocsRight
<1>3. \A d \in Foreign : billed[d] \subseteq billed'[d]
  BY <1>2
<1> QED
  BY <1>1, <1>2, <1>3 DEF RatesInv, DocsRight

LEMMA BilledStays ==
  ASSUME RatesInv, NEW c \in Foreign, UNCHANGED billed
  PROVE  billed' = [billed EXCEPT ![c] = @ \cup {}]
BY DEF RatesInv, DocsRight

LEMMA UpdateRateStep ==
  ASSUME RatesInv, NEW r \in Reviews, updateCurrencyRate(r)
  PROVE  RatesInv'
<1>0. UNCHANGED <<wallet, cached, purchase, feed>> /\ clerk[r].pc = "rate"
  BY DEF updateCurrencyRate, UNCHANGED_Orders
<1>1. CASE Ends(r) /\ UNCHANGED <<currency, billed>>
  BY <1>0, <1>1, ClerkReads
<1>2. CASE StillThere(r) /\ ~(Ends(r) /\ UNCHANGED <<currency, billed>>)
  <2> PICK c \in Foreign : c = clerk[r].code
    BY <1>0 DEF RatesInv, ClerkRight
  <2>1. /\ clerk[r].value \in BillRates /\ clerk[r].old # 0 /\ clerk[r].worker \in Workers
        /\ clerk[r].flag \in BOOLEAN
    BY <1>0 DEF RatesInv, ClerkRight, Request
  <2>2. /\ currency[c] \in CurrencyDoc /\ currency[c].exists
        /\ currency[c].exists <=> currency[c].platform > 0
        /\ currency[c].platform \in billed[c]
    BY <1>2 DEF StillThere, RatesInv, DocsRight
  <2>3. PICK rate \in BillRates \cup {currency[c].platform} :
            rate = IF clerk[r].value # clerk[r].old THEN clerk[r].value ELSE currency[c].platform
    BY <2>1
  <2>4. rate \in AllRates /\ rate \in Nat /\ rate > 0
    <3>1. rate \in AllRates
      BY <2>2, <2>3 DEF AllRates, CurrencyDoc
    <3> QED
      BY <3>1, AllRatesArePositive
  <2> DEFINE doc == [currency[c] EXCEPT !.platform = rate]
  <2>5. currency' = [currency EXCEPT ![c] = doc]
    BY <1>2, <2>3 DEF updateCurrencyRate
  <2>6. doc \in CurrencyDoc /\ doc.exists /\ doc.platform = rate
    BY <2>2, <2>4 DEF CurrencyDoc
  <2> HIDE DEF doc
  <2>7. currency'[c].platform = rate
    BY <2>5, <2>6 DEF RatesInv, DocsRight
  <2>8. billed' = [billed EXCEPT ![c] = @ \cup {rate}]
    BY <1>2, <2>7 DEF updateCurrencyRate
  <2>9. DocsRight' /\ \A d \in Foreign : billed[d] \subseteq billed'[d]
    <3>1. {rate} \in SUBSET AllRates /\ doc.platform \in billed[c] \cup {rate}
      BY <2>4, <2>6
    <3>2. doc.exists <=> doc.platform > 0
      BY <2>4, <2>6
    <3> QED
      BY <1>0, <2>5, <2>6, <2>8, <3>1, <3>2, NewDocs
  <2>10. PICK flag \in BOOLEAN : flag = (clerk[r].flag /\ clerk[r].value # clerk[r].old)
    BY <2>1
  <2>11. Clerk(r, [pc |-> "invalidate", flag |-> flag])
    BY <1>2, <2>10 DEF updateCurrencyRate
  <2>12. PICK k : /\ clerk' = [clerk EXCEPT ![r] = k] /\ clerk'[r] = k
                  /\ k = [pc |-> "invalidate", worker |-> clerk[r].worker,
                          code |-> clerk[r].code, value |-> clerk[r].value, flag |-> flag,
                          id |-> clerk[r].id, old |-> clerk[r].old,
                          balance |-> clerk[r].balance, from |-> clerk[r].from]
    BY <2>11, ClerkBecomes
  <2>13. k \in Request /\ ClerkRight(r)'
    BY <2>1, <2>12 DEF RatesInv, Request, ClerkRight
  <2> QED
    BY <1>0, <2>9, <2>12, <2>13, ClerkMoves
<1> QED
  BY <1>1, <1>2 DEF updateCurrencyRate

LEMMA StatusStep ==
  ASSUME RatesInv, NEW r \in Reviews, setCurrencyStatus(r)
  PROVE  RatesInv'
<1>0. UNCHANGED <<wallet, cached, billed, purchase, feed>> /\ clerk[r].pc = "status"
  BY DEF setCurrencyStatus, UNCHANGED_Orders
<1>1. CASE Ends(r) /\ UNCHANGED currency
  BY <1>0, <1>1, ClerkReads
<1>2. CASE ~(Ends(r) /\ UNCHANGED currency)
  <2> PICK c \in Foreign : c = clerk[r].code
    BY <1>0 DEF RatesInv, ClerkRight
  <2>1. clerk[r].worker \in Workers /\ clerk[r].flag \in BOOLEAN
    BY <1>0 DEF RatesInv, ClerkRight, Request
  <2> DEFINE doc == [currency[c] EXCEPT !.active = clerk[r].flag]
  <2>2. /\ currency' = [currency EXCEPT ![c] = doc]
        /\ Clerk(r, [pc |-> "invalidate", flag |-> FALSE])
    BY <1>2 DEF setCurrencyStatus, RatesInv, DocsRight, CurrencyDoc
  <2>3. /\ doc \in CurrencyDoc /\ doc.exists = currency[c].exists
        /\ doc.platform = currency[c].platform
    <3>1. currency[c] \in CurrencyDoc
      BY DEF RatesInv, DocsRight
    <3> QED
      BY <2>1, <3>1 DEF CurrencyDoc
  <2> HIDE DEF doc
  <2>4. /\ currency[c].exists <=> currency[c].platform > 0
        /\ currency[c].exists => currency[c].platform \in billed[c]
    BY DEF RatesInv, DocsRight
  <2>5. DocsRight' /\ \A d \in Foreign : billed[d] \subseteq billed'[d]
    BY <1>0, <2>2, <2>3, <2>4, BilledStays, NewDocs, {} \in SUBSET AllRates
  <2>6. PICK k : /\ clerk' = [clerk EXCEPT ![r] = k] /\ clerk'[r] = k
                 /\ k = [pc |-> "invalidate", worker |-> clerk[r].worker,
                         code |-> clerk[r].code, value |-> clerk[r].value, flag |-> FALSE,
                         id |-> clerk[r].id, old |-> clerk[r].old,
                         balance |-> clerk[r].balance, from |-> clerk[r].from]
    BY <2>2, ClerkBecomes
  <2>7. k \in Request /\ ClerkRight(r)'
    BY <2>1, <2>6 DEF RatesInv, Request, ClerkRight
  <2> QED
    BY <1>0, <2>5, <2>6, <2>7, ClerkMoves
<1> QED
  BY <1>1, <1>2

LEMMA InvalidateStep ==
  ASSUME RatesInv, NEW r \in Reviews, invalidateCurrencyCache(r)
  PROVE  RatesInv'
<1>0. UNCHANGED <<currency, wallet, billed, purchase, feed>> /\ clerk[r].pc = "invalidate"
  BY DEF invalidateCurrencyCache, UNCHANGED_Orders
<1> PICK w \in Workers, c \in Foreign : w = clerk[r].worker /\ c = clerk[r].code
  BY <1>0 DEF RatesInv, ClerkRight
<1>1. cached' = [cached EXCEPT ![w][c] = None]
  BY DEF invalidateCurrencyCache
<1>2. /\ cached' \in [Workers -> [Foreign -> AllRates \cup {None}]]
      /\ \A x \in Workers, d \in Foreign :
             cached'[x][d] = IF x = w /\ d = c THEN None ELSE cached[x][d]
  BY <1>1 DEF RatesInv, DocsRight
<1>3. DocsRight' /\ \A d \in Foreign : billed[d] \subseteq billed'[d]
  BY <1>0, <1>2 DEF RatesInv, DocsRight
<1>4. CASE Ends(r)
  BY <1>0, <1>3, <1>4, ClerkStops
<1>5. CASE clerk[r].flag /\ Clerk(r, [pc |-> "debts"])
  <2>1. PICK k : /\ clerk' = [clerk EXCEPT ![r] = k] /\ clerk'[r] = k
                 /\ k = [pc |-> "debts", worker |-> clerk[r].worker,
                         code |-> clerk[r].code, value |-> clerk[r].value,
                         flag |-> clerk[r].flag, id |-> clerk[r].id, old |-> clerk[r].old,
                         balance |-> clerk[r].balance, from |-> clerk[r].from]
    BY <1>5, ClerkBecomes
  <2>2. clerk[r].old # 0
    BY <1>0, <1>5 DEF RatesInv, ClerkRight
  <2>3. k \in Request /\ ClerkRight(r)'
    BY <2>1, <2>2 DEF RatesInv, Request, ClerkRight
  <2> QED
    BY <1>0, <1>3, <2>1, <2>3, ClerkMoves
<1> QED
  BY <1>4, <1>5 DEF invalidateCurrencyCache

\* A request saves the wallet.
LEMMA WalletSaved ==
  ASSUME RatesInv, NEW r \in Reviews, wallet' \in WalletDoc, Ends(r),
         UNCHANGED <<currency, cached, billed, purchase, feed>>
  PROVE  RatesInv'
<1>1. DocsRight' /\ \A d \in Foreign : billed[d] \subseteq billed'[d]
  BY DEF RatesInv, DocsRight
<1> QED
  BY <1>1, ClerkStops

LEMMA AdjustStep ==
  ASSUME RatesInv, NEW r \in Reviews, adjustNegativeBalances(r)
  PROVE  RatesInv'
<1>1. clerk[r].balance \in Int /\ clerk[r].old \in Nat \ {0} /\ clerk[r].value \in Nat
  BY DEF adjustNegativeBalances, RatesInv, ClerkRight, Request
<1>2. convertBalance(clerk[r].balance, clerk[r].old, clerk[r].value) \in Int
  BY <1>1, RoundingIsInt
<1>3. wallet' \in WalletDoc
  BY <1>2 DEF adjustNegativeBalances, RatesInv, DocsRight, WalletDoc
<1> QED
  BY <1>3, WalletSaved DEF adjustNegativeBalances, UNCHANGED_Orders

LEMMA UpdateUserCurrencyStep ==
  ASSUME RatesInv, NEW r \in Reviews, updateUserCurrency(r)
  PROVE  RatesInv'
<1>1. /\ clerk[r].balance \in Int /\ clerk[r].old \in Nat \ {0} /\ clerk[r].value \in Nat
      /\ clerk[r].code \in Currency
  BY DEF updateUserCurrency, RatesInv, ClerkRight, Request
<1>2. convertBalance(clerk[r].balance, clerk[r].old, clerk[r].value) \in Int
  BY <1>1, RoundingIsInt
<1>3. wallet' \in WalletDoc
  BY <1>1, <1>2 DEF updateUserCurrency, WalletDoc
<1> QED
  BY <1>3, WalletSaved DEF updateUserCurrency, UNCHANGED_Orders

LEMMA InsertedRight ==
  ASSUME RatesInv, NEW c \in Foreign, NEW active \in BOOLEAN, NEW platform \in AllRates,
         NEW market \in FeedRates \cup {None}, Insert(c, active, platform, market),
         UNCHANGED <<wallet, cached>>
  PROVE  DocsRight' /\ \A d \in Foreign : billed[d] \subseteq billed'[d]
<1>0. platform \in Nat /\ platform > 0
  BY AllRatesArePositive
<1>1. /\ currency[c] \in CurrencyDoc
      /\ currency[c].exists <=> currency[c].platform > 0
      /\ currency[c].exists => currency[c].platform \in billed[c]
  BY DEF RatesInv, DocsRight
<1>2. currency'[c].platform \in AllRates
  <2>1. currency[c].exists => currency[c].platform \in AllRates
    BY <1>1 DEF CurrencyDoc
  <2> QED
    BY <1>1, <2>1 DEF Insert, RatesInv, DocsRight
<1>3. CASE currency[c].exists
  <2>1. currency' = [currency EXCEPT ![c] = currency[c]] /\ currency'[c] = currency[c]
    BY <1>3 DEF Insert, RatesInv, DocsRight
  <2>2. billed' = [billed EXCEPT ![c] = @ \cup {currency[c].platform}]
    BY <2>1 DEF Insert
  <2>3. {currency[c].platform} \in SUBSET AllRates
    BY <1>2, <2>1
  <2>4. currency[c].exists => currency[c].platform \in billed[c] \cup {currency[c].platform}
    OBVIOUS
  <2> QED
    BY <1>1, <2>1, <2>2, <2>3, <2>4, NewDocs
<1>4. CASE ~currency[c].exists
  <2> DEFINE doc == [exists |-> TRUE, id |-> currency[c].id, active |-> active,
                     platform |-> platform, market |-> market]
  <2>1. currency' = [currency EXCEPT ![c] = doc]
    BY <1>4 DEF Insert
  <2>2. doc \in CurrencyDoc /\ doc.platform = platform /\ doc.exists
    BY <1>1 DEF CurrencyDoc
  <2> HIDE DEF doc
  <2>3. currency'[c].platform = platform
    BY <2>1, <2>2 DEF RatesInv, DocsRight
  <2>4. billed' = [billed EXCEPT ![c] = @ \cup {platform}]
    BY <2>3 DEF Insert
  <2>5. {platform} \in SUBSET AllRates /\ (doc.exists <=> doc.platform > 0)
    BY <1>0, <2>2
  <2>6. doc.exists => doc.platform \in billed[c] \cup {platform}
    BY <2>2
  <2> QED
    BY <2>1, <2>2, <2>4, <2>5, <2>6, NewDocs
<1> QED
  BY <1>3, <1>4

LEMMA CreateCurrencyStep ==
  ASSUME RatesInv, NEW r \in Reviews, createCurrency(r)
  PROVE  RatesInv'
<1>1. clerk[r].code \in Foreign /\ clerk[r].value \in AllRates
  BY DEF createCurrency, RatesInv, ClerkRight, AllRates
<1>2. DocsRight' /\ \A d \in Foreign : billed[d] \subseteq billed'[d]
  BY <1>1, InsertedRight DEF createCurrency
<1> QED
  BY <1>2, ClerkStops DEF createCurrency, UNCHANGED_Orders

LEMMA DeleteStep ==
  ASSUME RatesInv, NEW r \in Reviews, deleteCurrency(r)
  PROVE  RatesInv'
<1>0. UNCHANGED <<wallet, cached, billed, purchase, feed>> /\ clerk[r].pc = "delete"
  BY DEF deleteCurrency, UNCHANGED_Orders
<1> PICK c \in Foreign : c = clerk[r].code
  BY <1>0 DEF RatesInv, ClerkRight
<1>1. /\ currency[c] \in CurrencyDoc
      /\ currency[c].exists <=> currency[c].platform > 0
      /\ currency[c].exists => currency[c].platform \in billed[c]
  BY DEF RatesInv, DocsRight
<1>2. /\ Gone(currency[c].id + 1) \in CurrencyDoc /\ ~Gone(currency[c].id + 1).exists
      /\ ~(Gone(currency[c].id + 1).platform > 0)
  BY <1>1 DEF Gone, CurrencyDoc
<1>3. PICK doc \in {currency[c], Gone(currency[c].id + 1)} :
          currency' = [currency EXCEPT ![c] = doc]
  BY DEF deleteCurrency, RatesInv, DocsRight
<1>4. /\ doc \in CurrencyDoc /\ (doc.exists <=> doc.platform > 0)
      /\ doc.exists => doc.platform \in billed[c]
  BY <1>1, <1>2, <1>3
<1>5. DocsRight' /\ \A d \in Foreign : billed[d] \subseteq billed'[d]
  BY <1>0, <1>3, <1>4, BilledStays, NewDocs, {} \in SUBSET AllRates
<1>6. PICK k : /\ clerk' = [clerk EXCEPT ![r] = k] /\ clerk'[r] = k
               /\ k = [pc |-> "invalidate", worker |-> clerk[r].worker,
                       code |-> clerk[r].code, value |-> clerk[r].value, flag |-> FALSE,
                       id |-> clerk[r].id, old |-> clerk[r].old,
                       balance |-> clerk[r].balance, from |-> clerk[r].from]
  BY ClerkBecomes DEF deleteCurrency
<1>7. k \in Request /\ ClerkRight(r)'
  BY <1>0, <1>6 DEF RatesInv, Request, ClerkRight
<1> QED
  BY <1>0, <1>5, <1>6, <1>7, ClerkMoves

LEMMA SyncStep ==
  ASSUME RatesInv, NEW w \in Workers, NEW c \in Foreign, NEW rate \in FeedRates,
         syncRates(w, c, rate)
  PROVE  RatesInv'
<1>0. UNCHANGED <<wallet, purchase, clerk, billed>>
  BY DEF syncRates
<1>1. CASE currency[c].exists
  <2>1. /\ currency' = [currency EXCEPT ![c].market = rate]
        /\ cached' = [cached EXCEPT ![w][c] = None] /\ UNCHANGED feed
    BY <1>1 DEF syncRates
  <2>2. /\ currency' \in [Foreign -> CurrencyDoc]
        /\ \A d \in Foreign : /\ currency'[d].exists = currency[d].exists
                              /\ currency'[d].platform = currency[d].platform
    BY <2>1 DEF RatesInv, DocsRight, CurrencyDoc
  <2>3. /\ cached' \in [Workers -> [Foreign -> AllRates \cup {None}]]
        /\ \A x \in Workers, d \in Foreign :
               cached'[x][d] = IF x = w /\ d = c THEN None ELSE cached[x][d]
    BY <2>1 DEF RatesInv, DocsRight
  <2>4. DocsRight'
    BY <1>0, <2>2, <2>3 DEF RatesInv, DocsRight
  <2> QED
    BY <1>0, <2>1, <2>4 DEF RatesInv, PurchaseRight, ClerkRight, FeedRight
<1>2. CASE ~currency[c].exists
  <2>1. /\ feed' = [feed EXCEPT ![w] = [pc |-> "create", code |-> c, rate |-> rate]]
        /\ UNCHANGED <<currency, cached>>
    BY <1>2 DEF syncRates
  <2>2. DocsRight' /\ \A d \in Foreign : billed[d] \subseteq billed'[d]
    BY <1>0, <2>1, DocsStay DEF RatesInv
  <2>3. feed' \in [Workers -> Run] /\ \A x \in Workers : FeedRight(x)'
    BY <2>1, RatesAssumption DEF RatesInv, Run, FeedRight
  <2>4. clerk' \in [Reviews -> Request] /\ \A r \in Reviews : ClerkRight(r)'
    BY <1>0 DEF RatesInv, ClerkRight
  <2> QED
    BY <1>0, <2>2, <2>3, <2>4, DeskMoves
<1> QED
  BY <1>1, <1>2

LEMMA CreateFedStep ==
  ASSUME RatesInv, NEW w \in Workers, CreateFed(w)
  PROVE  RatesInv'
<1>1. feed[w].code \in Foreign /\ feed[w].rate \in FeedRates /\ feed[w].rate \in AllRates
  BY DEF CreateFed, RatesInv, FeedRight, AllRates
<1>2. DocsRight' /\ \A d \in Foreign : billed[d] \subseteq billed'[d]
  BY <1>1, InsertedRight DEF CreateFed
<1>3. feed' \in [Workers -> Run] /\ \A x \in Workers : FeedRight(x)'
  BY DEF CreateFed, NoRun, RatesInv, Run, FeedRight
<1>4. clerk' \in [Reviews -> Request] /\ \A r \in Reviews : ClerkRight(r)'
  BY DEF CreateFed, RatesInv, ClerkRight
<1> QED
  BY <1>2, <1>3, <1>4, DeskMoves DEF CreateFed

LEMMA ConflictStep ==
  ASSUME RatesInv, NEW t \in Buyers, WriteConflict(t)
  PROVE  RatesInv'
BY PurchaseGoes DEF WriteConflict, Purchases, StartAgain

LEMMA RatesStep == RatesInv /\ [RatesNext]_ratesVars => RatesInv'
<1> SUFFICES ASSUME RatesInv, [RatesNext]_ratesVars PROVE RatesInv'
  OBVIOUS
<1>1. CASE UNCHANGED ratesVars
  BY <1>1 DEF ratesVars, RatesInv, DocsRight, PurchaseRight, ClerkRight, FeedRight
<1>2. ASSUME NEW t \in Buyers,
             \/ \E w \in Workers : calculateUserPrice(t, w)
             \/ ConvertCached(t) \/ _getCurrency(t) \/ CacheCurrency(t)
             \/ WriteConflict(t) \/ debitWallet(t)
      PROVE  RatesInv'
  BY <1>2, CalculateStep, ConvertCachedStep, GetCurrencyStep, CacheCurrencyStep, ConflictStep,
     DebitStep
<1>3. ASSUME NEW r \in Reviews, NEW w \in Workers, NEW c \in Foreign,
             \/ \E rate \in BillRates, peg \in BOOLEAN : FindCurrency(r, w, "rate", c, rate, peg)
             \/ \E active \in BOOLEAN : FindCurrency(r, w, "status", c, 0, active)
             \/ \E rate \in BillRates : ExistingCurrency(r, w, c, rate)
             \/ LinkedUser(r, w, c)
      PROVE  RatesInv'
  <2>1. ASSUME NEW rate \in BillRates, NEW peg \in BOOLEAN, FindCurrency(r, w, "rate", c, rate, peg)
        PROVE  RatesInv'
    BY <2>1, FindCurrencyStep, RatesAssumption
  <2>2. ASSUME NEW active \in BOOLEAN, FindCurrency(r, w, "status", c, 0, active)
        PROVE  RatesInv'
    BY <2>2, FindCurrencyStep
  <2> QED
    BY <1>3, <2>1, <2>2, ExistingCurrencyStep, LinkedUserStep
<1>4. ASSUME NEW r \in Reviews,
             \/ updateCurrencyRate(r) \/ setCurrencyStatus(r) \/ invalidateCurrencyCache(r)
             \/ FindDebts(r) \/ adjustNegativeBalances(r) \/ createCurrency(r)
             \/ deleteCurrency(r) \/ \E c \in {USD} \cup Foreign : FindUser(r, c)
             \/ FindNewRate(r) \/ FindOldRate(r) \/ updateUserCurrency(r)
      PROVE  RatesInv'
  BY <1>4, UpdateRateStep, StatusStep, InvalidateStep, FindDebtsStep, AdjustStep,
     CreateCurrencyStep, DeleteStep, FindUserStep, FindNewRateStep, FindOldRateStep,
     UpdateUserCurrencyStep DEF Currency
<1>5. ASSUME NEW w \in Workers,
             \/ \E c \in Foreign, rate \in FeedRates : syncRates(w, c, rate)
             \/ CreateFed(w)
             \/ \E c \in Foreign : Expire(w, c)
      PROVE  RatesInv'
  BY <1>5, SyncStep, CreateFedStep, ExpireStep
<1> QED
  BY <1>1, <1>2, <1>3, <1>4, <1>5 DEF RatesNext

LEMMA RatesInvSays == RatesInv => RatesTypeOK /\ ChargedAsBilled
<1> SUFFICES ASSUME RatesInv PROVE RatesTypeOK /\ ChargedAsBilled
  OBVIOUS
<1>1. RatesTypeOK
  BY DEF RatesInv, DocsRight, RatesTypeOK, WalletDoc, Currency
<1>2. ChargedAsBilled
  BY DEF RatesInv, PurchaseRight, ChargedAsBilled
<1> QED
  BY <1>1, <1>2

-----------------------------------------------------------------------------
(* Resellers: the invariant.                                               *)

Ids == OrderIds \cup Nat

Lists == {<<>>} \cup UNION {[S -> Nat \cup {None}] : S \in SUBSET Goods}

Call ==
    [pc : {"new", "ensure", "assign", "reread", "create", "tag", "retag", "done"},
     seen : Lists,
     good : Goods \cup {None}, uuid : Uuids \cup {None}, id : Ids \cup {None}, attempt : Nat]

\* A product a list shows exists, and the copy of its id is the one it has or none.
ListRight(t) ==
    \A g \in DOMAIN call[t].seen :
        /\ g \in Goods /\ good[g].made
        /\ call[t].seen[g] \in {None, good[g].id}

CallRight(t) ==
    /\ call[t].pc \in {"ensure", "assign", "reread"} => ListRight(t)
    /\ call[t].pc \in {"assign", "reread"} => call[t].good \in DOMAIN call[t].seen
    /\ call[t].pc = "assign" =>
           call[t].id \in Nat /\ call[t].id <= sequence /\ \A g \in Goods : good[g].id # call[t].id
    /\ call[t].pc \in {"create", "tag", "retag"} => call[t].uuid \in Uuids
    /\ call[t].pc = "tag" => call[t].id \in {None, placed[call[t].uuid].id}

\* Two calls never hold the same number.
NumbersDiffer ==
    \A t, u \in Clients :
        call[t].pc = "assign" /\ call[u].pc = "assign" /\ call[t].id = call[u].id => t = u

IdsDiffer ==
    /\ \A g, h \in Goods : good[g].id = good[h].id /\ good[g].id # None => g = h
    /\ \A u, v \in Uuids : placed[u].id = placed[v].id /\ placed[u].id # None => u = v

\* What was told is what is kept.
ToldRight ==
    \A p \in told :
        \/ \E g \in Goods : p = <<g, good[g].id>> /\ good[g].id # None
        \/ \E u \in Uuids : p = <<u, placed[u].id>> /\ placed[u].id # None

ResellersInv ==
    /\ good \in [Goods -> [made : BOOLEAN, live : BOOLEAN, id : Nat \cup {None}]]
    /\ sequence \in Nat
    /\ \A g \in Goods : /\ good[g].id # None => good[g].made /\ good[g].id <= sequence
                        /\ good[g].live => good[g].made
    /\ placed \in [Uuids -> [made : BOOLEAN, id : OrderIds \cup {None}]]
    /\ call \in [Clients -> Call]
    /\ \A t \in Clients : CallRight(t)
    /\ NumbersDiffer /\ IdsDiffer /\ ToldRight

LEMMA ResellersInitInv == ResellersInit => ResellersInv
<1> SUFFICES ASSUME ResellersInit PROVE ResellersInv
  OBVIOUS
<1>1. good \in [Goods -> [made : BOOLEAN, live : BOOLEAN, id : Nat \cup {None}]]
  BY DEF ResellersInit
<1>2. \A g \in Goods : good[g].id = None /\ (good[g].live => good[g].made)
  BY DEF ResellersInit
<1>3. /\ placed \in [Uuids -> [made : BOOLEAN, id : OrderIds \cup {None}]]
      /\ \A u \in Uuids : placed[u].id = None
  BY DEF ResellersInit
<1>4. call \in [Clients -> Call] /\ \A t \in Clients : call[t].pc = "new"
  BY DEF ResellersInit, NewCall, Call, Lists
<1> QED
  BY <1>1, <1>2, <1>3, <1>4
     DEF ResellersInit, ResellersInv, CallRight, NumbersDiffer, IdsDiffer, ToldRight

-----------------------------------------------------------------------------
(* Calls that write no document.                                           *)

LEMMA CallMoves ==
  ASSUME ResellersInv, NEW t \in Clients, NEW k \in Call, call' = [call EXCEPT ![t] = k],
         CallRight(t)', k.pc = "assign" => call[t].pc = "assign" /\ k.id = call[t].id,
         UNCHANGED <<good, sequence, placed, told>>
  PROVE  ResellersInv'
<1>1. /\ call' \in [Clients -> Call] /\ call'[t] = k
      /\ \A u \in Clients \ {t} : call'[u] = call[u]
  BY DEF ResellersInv
<1>2. \A u \in Clients : CallRight(u)'
  BY <1>1 DEF ResellersInv, CallRight, ListRight
<1>3. NumbersDiffer'
  BY <1>1 DEF ResellersInv, NumbersDiffer
<1> QED
  BY <1>1, <1>2, <1>3 DEF ResellersInv, IdsDiffer, ToldRight

LEMMA CallStops ==
  ASSUME ResellersInv, NEW t \in Clients, CallEnds(t),
         UNCHANGED <<good, sequence, placed, told>>
  PROVE  ResellersInv'
<1> DEFINE k == [NewCall EXCEPT !.pc = "done"]
<1>1. call' = [call EXCEPT ![t] = k]
  BY DEF CallEnds
<1>2. k \in Call /\ k.pc = "done"
  BY DEF NewCall, Call, Lists
<1> HIDE DEF k
<1>3. CallRight(t)'
  BY <1>1, <1>2 DEF ResellersInv, CallRight
<1> QED
  BY <1>1, <1>2, <1>3, CallMoves

-----------------------------------------------------------------------------
(* Products.                                                               *)

\* The ids that documents have stay, and so does what was told of them.
LEMMA GoodsChange ==
  ASSUME ResellersInv, UNCHANGED <<call, placed, told>>,
         good' \in [Goods -> [made : BOOLEAN, live : BOOLEAN, id : Nat \cup {None}]],
         sequence' \in Nat, sequence' >= sequence,
         \A g \in Goods : /\ good[g].id # None => good'[g].id = good[g].id
                          /\ good[g].made => good'[g].made
                          /\ good'[g].id # None => good'[g].made /\ good'[g].id <= sequence'
                          /\ good'[g].live => good'[g].made
                          /\ good'[g].id # good[g].id => good'[g].id > sequence,
         \A g, h \in Goods : good'[g].id = good'[h].id /\ good'[g].id # None => g = h
  PROVE  ResellersInv'
<1>1. \A t \in Clients : CallRight(t)'
  <2> SUFFICES ASSUME NEW t \in Clients PROVE CallRight(t)'
    OBVIOUS
  <2>1. CallRight(t) /\ call'[t] = call[t]
    BY DEF ResellersInv
  <2>2. ListRight(t) => ListRight(t)'
    BY <2>1 DEF ListRight
  <2>3. call[t].pc = "assign" => \A g \in Goods : good'[g].id # call[t].id
    BY <2>1 DEF CallRight, ResellersInv
  <2> QED
    BY <2>1, <2>2, <2>3 DEF CallRight, ResellersInv
<1>2. ToldRight'
  BY DEF ResellersInv, ToldRight
<1> QED
  BY <1>1, <1>2 DEF ResellersInv, NumbersDiffer, IdsDiffer

LEMMA CreateProductStep ==
  ASSUME ResellersInv, NEW g \in Goods, createProduct(g)
  PROVE  ResellersInv'
<1> DEFINE n == sequence + 1
           doc == [made |-> TRUE, live |-> TRUE, id |-> n]
<1>1. /\ sequence' = n /\ n \in Nat /\ good' = [good EXCEPT ![g] = doc]
      /\ UNCHANGED <<call, placed, told>>
  BY DEF createProduct, ResellersInv
<1>2. doc \in [made : BOOLEAN, live : BOOLEAN, id : Nat \cup {None}]
      /\ doc.id = n /\ doc.made /\ doc.live
  BY <1>1
<1>3. good[g].id = None
  BY DEF createProduct, ResellersInv
<1> HIDE DEF doc
<1>4. /\ good' \in [Goods -> [made : BOOLEAN, live : BOOLEAN, id : Nat \cup {None}]]
      /\ good'[g] = doc /\ \A h \in Goods \ {g} : good'[h] = good[h]
  BY <1>1, <1>2 DEF ResellersInv
<1>5. \A h \in Goods : good[h].id # None => good[h].id \in Nat /\ good[h].id <= sequence
  BY DEF ResellersInv
<1>6. \A h \in Goods : /\ good[h].id # None => good'[h].id = good[h].id
                       /\ good[h].made => good'[h].made
                       /\ good'[h].id # None => good'[h].made /\ good'[h].id <= sequence'
                       /\ good'[h].live => good'[h].made
                       /\ good'[h].id # good[h].id => good'[h].id > sequence
  BY <1>1, <1>2, <1>3, <1>4, <1>5 DEF ResellersInv
<1>7. \A h, i \in Goods : good'[h].id = good'[i].id /\ good'[h].id # None => h = i
  BY <1>2, <1>4, <1>5 DEF ResellersInv, IdsDiffer
<1> QED
  BY <1>1, <1>4, <1>6, <1>7, GoodsChange DEF ResellersInv

LEMMA ToggleProductStep ==
  ASSUME ResellersInv, NEW g \in Goods, toggleProduct(g)
  PROVE  ResellersInv'
<1>1. /\ good' \in [Goods -> [made : BOOLEAN, live : BOOLEAN, id : Nat \cup {None}]]
      /\ \A h \in Goods : good'[h].id = good[h].id /\ good'[h].made = good[h].made
      /\ \A h \in Goods \ {g} : good'[h].live = good[h].live
      /\ good[g].made
  BY DEF toggleProduct, ResellersInv
<1> QED
  BY <1>1, GoodsChange DEF toggleProduct, ResellersInv, IdsDiffer

LEMMA ListProductsStep ==
  ASSUME ResellersInv, NEW t \in Clients, listProducts(t)
  PROVE  ResellersInv'
<1> DEFINE S == {h \in Goods : good[h].live}
           list == [g \in S |-> good[g].id]
           k == [call[t] EXCEPT !.pc = "ensure", !.seen = list]
<1>1. call' = [call EXCEPT ![t] = k] /\ UNCHANGED <<good, sequence, placed, told>>
  BY DEF listProducts
<1>2. list \in Lists
  <2>1. list \in [S -> Nat \cup {None}] /\ S \in SUBSET Goods
    BY DEF ResellersInv
  <2> QED
    BY <2>1 DEF Lists
<1>3. \A g \in DOMAIN list : g \in Goods /\ good[g].made /\ list[g] = good[g].id
  BY DEF ResellersInv
<1> HIDE DEF list, S
<1>4. k \in Call /\ k.pc = "ensure" /\ k.seen = list
  BY <1>2 DEF ResellersInv, Call
<1> HIDE DEF k
<1>5. call'[t] = k
  BY <1>1 DEF ResellersInv
<1>6. CallRight(t)'
  BY <1>1, <1>3, <1>4, <1>5 DEF CallRight, ListRight
<1> QED
  BY <1>1, <1>4, <1>6, CallMoves

LEMMA GetNextSequenceStep ==
  ASSUME ResellersInv, NEW t \in Clients, NEW g \in Goods, getNextSequence(t, g)
  PROVE  ResellersInv'
<1> DEFINE n == sequence + 1
           k == [call[t] EXCEPT !.pc = "assign", !.good = g, !.id = n]
<1>1. /\ sequence' = n /\ n \in Nat /\ call' = [call EXCEPT ![t] = k]
      /\ UNCHANGED <<good, placed, told>>
      /\ g \in DOMAIN call[t].seen /\ call[t].pc = "ensure"
  BY DEF getNextSequence, ResellersInv
<1>2. /\ k \in Call /\ k.pc = "assign" /\ k.good = g /\ k.id = n /\ k.seen = call[t].seen
  BY <1>1 DEF ResellersInv, Call, Ids
<1> HIDE DEF k
<1>3. /\ call' \in [Clients -> Call] /\ call'[t] = k
      /\ \A u \in Clients \ {t} : call'[u] = call[u]
  BY <1>1, <1>2 DEF ResellersInv
<1>4. \A h \in Goods : good[h].id # None => good[h].id \in Nat /\ good[h].id <= sequence
  BY DEF ResellersInv
<1>5. \A h \in Goods : good[h].id # n
  BY <1>1, <1>4, ResellersAssumption DEF ResellersInv
<1>6. \A u \in Clients \ {t} : CallRight(u)'
  BY <1>1, <1>3 DEF ResellersInv, CallRight, ListRight
<1>7. CallRight(t)'
  <2>1. ListRight(t)'
    BY <1>1, <1>2, <1>3 DEF ResellersInv, CallRight, ListRight
  <2> QED
    BY <1>1, <1>2, <1>3, <1>5, <2>1 DEF CallRight
<1>8. NumbersDiffer'
  <2>1. \A u \in Clients : call[u].pc = "assign" => call[u].id \in Nat /\ call[u].id <= sequence
    BY DEF ResellersInv, CallRight
  <2> QED
    BY <1>1, <1>2, <1>3, <2>1 DEF ResellersInv, NumbersDiffer
<1> QED
  BY <1>1, <1>3, <1>4, <1>6, <1>7, <1>8 DEF ResellersInv, IdsDiffer, ToldRight

LEMMA AssignIdStep ==
  ASSUME ResellersInv, NEW t \in Clients, ensureProductCompatId(t)
  PROVE  ResellersInv'
<1> PICK g : g = call[t].good
  OBVIOUS
<1>1. /\ call[t].pc = "assign" /\ g \in DOMAIN call[t].seen /\ g \in Goods /\ ListRight(t)
      /\ good[g].made
  BY DEF ensureProductCompatId, ResellersInv, CallRight, ListRight
<1>2. CASE WithoutId(good[g])
  <2> DEFINE n == call[t].id
             list == [call[t].seen EXCEPT ![g] = n]
             k == [call[t] EXCEPT !.pc = "ensure", !.seen = list]
             doc == [good[g] EXCEPT !.id = n]
  <2>1. /\ good' = [good EXCEPT ![g] = doc] /\ call' = [call EXCEPT ![t] = k]
        /\ UNCHANGED <<sequence, placed, told>>
    BY <1>1, <1>2 DEF ensureProductCompatId, ResellersInv, Call
  <2>2. n \in Nat /\ n <= sequence /\ \A h \in Goods : good[h].id # n
    BY <1>1 DEF ResellersInv, CallRight
  <2>3. /\ list \in Lists /\ DOMAIN list = DOMAIN call[t].seen /\ list[g] = n
        /\ \A h \in DOMAIN list \ {g} : list[h] = call[t].seen[h]
    BY <1>1, <2>2 DEF ResellersInv, Call, Lists
  <2> HIDE DEF list
  <2>4. k \in Call /\ k.pc = "ensure" /\ k.seen = list
    <3>1. call[t] \in Call /\ list \in Lists
      BY <2>3 DEF ResellersInv
    <3> QED
      BY <3>1 DEF Call
  <2>5. /\ doc \in [made : BOOLEAN, live : BOOLEAN, id : Nat \cup {None}]
        /\ doc.id = n /\ doc.made = good[g].made /\ doc.live = good[g].live
    BY <1>1, <2>2 DEF ResellersInv
  <2> HIDE DEF k, doc
  <2>6. /\ call' \in [Clients -> Call] /\ call'[t] = k
        /\ \A u \in Clients \ {t} : call'[u] = call[u]
        /\ good' \in [Goods -> [made : BOOLEAN, live : BOOLEAN, id : Nat \cup {None}]]
        /\ good'[g] = doc /\ \A h \in Goods \ {g} : good'[h] = good[h]
    BY <1>1, <2>1, <2>4, <2>5 DEF ResellersInv
  <2>7. good[g].id = None
    BY <1>2 DEF WithoutId
  <2>8. \A u \in Clients \ {t} : CallRight(u)'
    <3> SUFFICES ASSUME NEW u \in Clients \ {t} PROVE CallRight(u)'
      OBVIOUS
    <3>1. CallRight(u) /\ call'[u] = call[u]
      BY <2>6 DEF ResellersInv
    <3>2. ListRight(u) => ListRight(u)'
      BY <2>5, <2>6, <2>7, <3>1 DEF ListRight
    <3>3. call[u].pc = "assign" => call[u].id # n
      BY <1>1 DEF ResellersInv, NumbersDiffer
    <3>4. call[u].pc = "assign" => \A h \in Goods : good'[h].id # call[u].id
      BY <2>5, <2>6, <3>1, <3>3 DEF CallRight
    <3> QED
      BY <2>1, <3>1, <3>2, <3>4 DEF CallRight
  <2>9. CallRight(t)'
    <3>1. ListRight(t)'
      BY <1>1, <2>3, <2>4, <2>5, <2>6 DEF ListRight
    <3> QED
      BY <2>4, <2>6, <3>1 DEF CallRight
  <2>10. NumbersDiffer'
    BY <2>4, <2>6 DEF ResellersInv, NumbersDiffer
  <2>11. IdsDiffer'
    BY <2>1, <2>2, <2>5, <2>6 DEF ResellersInv, IdsDiffer
  <2>12. ToldRight'
    BY <2>1, <2>5, <2>6, <2>7 DEF ResellersInv, ToldRight
  <2>13. \A h \in Goods : /\ good'[h].id # None => good'[h].made /\ good'[h].id <= sequence'
                          /\ good'[h].live => good'[h].made
    BY <1>1, <2>1, <2>2, <2>5, <2>6 DEF ResellersInv
  <2> QED
    BY <2>1, <2>6, <2>8, <2>9, <2>10, <2>11, <2>12, <2>13 DEF ResellersInv
<1>3. CASE ~WithoutId(good[g])
  <2> DEFINE k == [call[t] EXCEPT !.pc = "reread"]
  <2>1. call' = [call EXCEPT ![t] = k] /\ UNCHANGED <<good, sequence, placed, told>>
    BY <1>3 DEF ensureProductCompatId
  <2>2. k \in Call /\ k.pc = "reread" /\ k.seen = call[t].seen /\ k.good = g
    BY DEF ResellersInv, Call
  <2> HIDE DEF k
  <2>3. call'[t] = k
    BY <2>1 DEF ResellersInv
  <2>4. CallRight(t)'
    BY <1>1, <2>1, <2>2, <2>3 DEF CallRight, ListRight
  <2> QED
    BY <2>1, <2>2, <2>4, CallMoves
<1> QED
  BY <1>2, <1>3

LEMMA ReadProductIdStep ==
  ASSUME ResellersInv, NEW t \in Clients, ReadProductId(t)
  PROVE  ResellersInv'
<1> PICK g : g = call[t].good
  OBVIOUS
<1>1. /\ call[t].pc = "reread" /\ g \in DOMAIN call[t].seen /\ g \in Goods /\ ListRight(t)
  BY DEF ReadProductId, ResellersInv, CallRight, ListRight
<1> DEFINE list == [call[t].seen EXCEPT ![g] = good[g].id]
           k == [call[t] EXCEPT !.pc = "ensure", !.seen = list]
<1>2. call' = [call EXCEPT ![t] = k] /\ UNCHANGED <<good, sequence, placed, told>>
  BY DEF ReadProductId, ResellersInv, Call
<1>3. /\ list \in Lists /\ DOMAIN list = DOMAIN call[t].seen /\ list[g] = good[g].id
      /\ \A h \in DOMAIN list \ {g} : list[h] = call[t].seen[h]
  BY <1>1 DEF ResellersInv, Call, Lists
<1> HIDE DEF list
<1>4. k \in Call /\ k.pc = "ensure" /\ k.seen = list
  <2>1. call[t] \in Call /\ list \in Lists
    BY <1>3 DEF ResellersInv
  <2> QED
    BY <2>1 DEF Call
<1> HIDE DEF k
<1>5. call'[t] = k
  BY <1>2 DEF ResellersInv
<1>6. CallRight(t)'
  BY <1>1, <1>2, <1>3, <1>4, <1>5 DEF CallRight, ListRight
<1> QED
  BY <1>2, <1>4, <1>6, CallMoves

\* A call tells the ids that documents have and ends.
LEMMA CallTells ==
  ASSUME ResellersInv, NEW t \in Clients, CallEnds(t), UNCHANGED <<good, sequence, placed>>,
         ToldRight'
  PROVE  ResellersInv'
<1> DEFINE k == [NewCall EXCEPT !.pc = "done"]
<1>1. call' = [call EXCEPT ![t] = k]
  BY DEF CallEnds
<1>2. k \in Call /\ k.pc = "done"
  BY DEF NewCall, Call, Lists
<1> HIDE DEF k
<1>3. /\ call' \in [Clients -> Call] /\ call'[t] = k
      /\ \A u \in Clients \ {t} : call'[u] = call[u]
  BY <1>1, <1>2 DEF ResellersInv
<1>4. \A u \in Clients : CallRight(u)'
  BY <1>2, <1>3 DEF ResellersInv, CallRight, ListRight
<1>5. NumbersDiffer'
  BY <1>2, <1>3 DEF ResellersInv, NumbersDiffer
<1> QED
  BY <1>3, <1>4, <1>5 DEF ResellersInv, IdsDiffer

LEMMA MapProductsStep ==
  ASSUME ResellersInv, NEW t \in Clients, mapProducts(t)
  PROVE  ResellersInv'
<1>1. \A g \in DOMAIN call[t].seen :
          g \in Goods /\ call[t].seen[g] = good[g].id /\ good[g].id # None
  BY DEF mapProducts, ResellersInv, CallRight, ListRight
<1>2. ToldRight'
  <2>1. told' = told \cup {<<g, call[t].seen[g]>> : g \in DOMAIN call[t].seen}
        /\ UNCHANGED <<good, placed>>
    BY DEF mapProducts
  <2> QED
    BY <1>1, <2>1 DEF ResellersInv, ToldRight
<1> QED
  BY <1>2, CallTells DEF mapProducts

-----------------------------------------------------------------------------
(* Orders.                                                                 *)

LEMMA FindProductStep ==
  ASSUME ResellersInv, NEW t \in Clients, NEW g \in Goods, NEW u \in Uuids,
         findProductByCompatId(t, g, u)
  PROVE  ResellersInv'
<1> DEFINE k == [call[t] EXCEPT !.pc = "create", !.uuid = u]
<1>1. CASE good[g].live
  <2>1. call' = [call EXCEPT ![t] = k] /\ UNCHANGED <<good, sequence, placed, told>>
    BY <1>1 DEF findProductByCompatId
  <2>2. k \in Call /\ k.pc = "create" /\ k.uuid = u
    BY DEF ResellersInv, Call
  <2> HIDE DEF k
  <2>3. call'[t] = k
    BY <2>1 DEF ResellersInv
  <2>4. CallRight(t)'
    BY <2>2, <2>3 DEF CallRight
  <2> QED
    BY <2>1, <2>2, <2>4, CallMoves
<1>2. CASE ~good[g].live
  BY <1>2, CallStops DEF findProductByCompatId
<1> QED
  BY <1>1, <1>2

\* An order keeps the id it has.
LEMMA PlacedChanges ==
  ASSUME ResellersInv, NEW t \in Clients, NEW k \in Call, k.pc = "tag",
         call' = [call EXCEPT ![t] = k], k.uuid \in Uuids, k.id \in {None, placed'[k.uuid].id},
         placed' \in [Uuids -> [made : BOOLEAN, id : OrderIds \cup {None}]],
         \A u \in Uuids : placed[u].id # None => placed'[u].id = placed[u].id,
         \A u, v \in Uuids : placed'[u].id = placed'[v].id /\ placed'[u].id # None => u = v,
         UNCHANGED <<good, sequence, told>>
  PROVE  ResellersInv'
<1>1. /\ call' \in [Clients -> Call] /\ call'[t] = k
      /\ \A u \in Clients \ {t} : call'[u] = call[u]
  BY DEF ResellersInv
<1>2. CallRight(t)'
  BY <1>1 DEF CallRight
<1>3. \A u \in Clients \ {t} : CallRight(u)'
  <2> SUFFICES ASSUME NEW u \in Clients \ {t} PROVE CallRight(u)'
    OBVIOUS
  <2>1. CallRight(u) /\ call'[u] = call[u]
    BY <1>1 DEF ResellersInv
  <2>2. ListRight(u) => ListRight(u)'
    BY <2>1 DEF ListRight
  <2> QED
    BY <2>1, <2>2 DEF CallRight
<1>4. NumbersDiffer'
  BY <1>1 DEF ResellersInv, NumbersDiffer
<1>5. ToldRight'
  BY DEF ResellersInv, ToldRight
<1> QED
  BY <1>1, <1>2, <1>3, <1>4, <1>5 DEF ResellersInv, IdsDiffer

LEMMA CreateOrderStep ==
  ASSUME ResellersInv, NEW t \in Clients, createOrder(t)
  PROVE  ResellersInv'
<1> PICK u \in Uuids : u = call[t].uuid
  BY DEF createOrder, ResellersInv, CallRight
<1> DEFINE k == [call[t] EXCEPT !.pc = "tag", !.id = placed[u].id]
<1>1. CASE /\ placed' = [placed EXCEPT ![u].made = TRUE]
           /\ call' = [call EXCEPT ![t] = k]
           /\ UNCHANGED <<good, sequence, told>>
  <2>1. k \in Call /\ k.pc = "tag" /\ k.uuid = u /\ k.id = placed[u].id
    <3>1. call[t] \in Call /\ placed[u].id \in Ids \cup {None}
      BY DEF ResellersInv, Ids
    <3> QED
      BY <3>1 DEF Call
  <2> HIDE DEF k
  <2>2. /\ placed' \in [Uuids -> [made : BOOLEAN, id : OrderIds \cup {None}]]
        /\ \A v \in Uuids : placed'[v].id = placed[v].id
    BY <1>1 DEF ResellersInv
  <2>3. \A v, w \in Uuids : placed'[v].id = placed'[w].id /\ placed'[v].id # None => v = w
    BY <2>2 DEF ResellersInv, IdsDiffer
  <2>4. k.uuid \in Uuids /\ k.id \in {None, placed'[k.uuid].id}
    BY <2>1, <2>2
  <2> QED
    BY <1>1, <2>1, <2>2, <2>3, <2>4, PlacedChanges
<1>2. CASE CallEnds(t) /\ UNCHANGED <<good, sequence, placed, told>>
  BY <1>2, CallStops
<1> QED
  BY <1>1, <1>2 DEF createOrder

LEMMA ListOrdersStep ==
  ASSUME ResellersInv, NEW t \in Clients, NEW u \in Uuids, listOrders(t, u)
  PROVE  ResellersInv'
<1> DEFINE k == [call[t] EXCEPT !.pc = "tag", !.uuid = u, !.id = placed[u].id]
<1>1. CASE placed[u].made
  <2>1. call' = [call EXCEPT ![t] = k] /\ UNCHANGED <<good, sequence, placed, told>>
    BY <1>1 DEF listOrders
  <2>2. k \in Call /\ k.pc = "tag" /\ k.uuid = u /\ k.id = placed[u].id
    BY DEF ResellersInv, Call, Ids
  <2> HIDE DEF k
  <2> QED
    BY <2>1, <2>2, PlacedChanges DEF ResellersInv, IdsDiffer
<1>2. CASE ~placed[u].made
  BY <1>2, CallStops DEF listOrders
<1> QED
  BY <1>1, <1>2

LEMMA EnsureOrderIdStep ==
  ASSUME ResellersInv, NEW t \in Clients, NEW id \in OrderIds, ensureCompatOrderId(t, id)
  PROVE  ResellersInv'
<1> PICK u \in Uuids : u = call[t].uuid
  BY DEF ensureCompatOrderId, ResellersInv, CallRight
<1> DEFINE taken == \E v \in Uuids \ {u} : placed[v].id = id
<1>0. call[t].pc = "tag" /\ call[t].id = None /\ UNCHANGED <<good, sequence, told>>
  BY DEF ensureCompatOrderId
<1>1. CASE ~WithoutId(placed[u])
  <2> DEFINE k == [call[t] EXCEPT !.pc = "retag"]
  <2>1. call' = [call EXCEPT ![t] = k] /\ UNCHANGED <<good, sequence, placed, told>>
    BY <1>1 DEF ensureCompatOrderId, CallGoes
  <2>2. k \in Call /\ k.pc = "retag" /\ k.uuid = u
    BY DEF ResellersInv, Call
  <2> HIDE DEF k
  <2>3. call'[t] = k
    BY <2>1 DEF ResellersInv
  <2>4. CallRight(t)'
    BY <2>2, <2>3 DEF CallRight
  <2> QED
    BY <2>1, <2>2, <2>4, CallMoves
<1>2. CASE WithoutId(placed[u]) /\ taken
  <2>1. CASE CallEnds(t) /\ UNCHANGED placed
    BY <1>0, <2>1, CallStops
  <2>2. CASE call' = [call EXCEPT ![t].attempt = call[t].attempt + 1] /\ UNCHANGED placed
    <3> DEFINE k == [call[t] EXCEPT !.attempt = call[t].attempt + 1]
    <3>1. call' = [call EXCEPT ![t] = k]
      BY <2>2
    <3>2. k \in Call /\ k.pc = "tag" /\ k.uuid = u /\ k.id = None
      BY <1>0 DEF ResellersInv, Call
    <3> HIDE DEF k
    <3>3. call'[t] = k
      BY <3>1 DEF ResellersInv
    <3>4. CallRight(t)'
      BY <3>2, <3>3 DEF CallRight
    <3> QED
      BY <1>0, <2>2, <3>1, <3>2, <3>4, CallMoves
  <2> QED
    BY <1>2, <2>1, <2>2 DEF ensureCompatOrderId
<1>3. CASE WithoutId(placed[u]) /\ ~taken
  <2> DEFINE k == [call[t] EXCEPT !.id = id]
  <2>1. placed' = [placed EXCEPT ![u].id = id] /\ call' = [call EXCEPT ![t] = k]
    BY <1>3 DEF ensureCompatOrderId
  <2>2. k \in Call /\ k.pc = "tag" /\ k.uuid = u /\ k.id = id
    BY <1>0 DEF ResellersInv, Call, Ids
  <2> HIDE DEF k
  <2>3. /\ placed' \in [Uuids -> [made : BOOLEAN, id : OrderIds \cup {None}]]
        /\ placed'[u].id = id /\ \A v \in Uuids \ {u} : placed'[v] = placed[v]
    BY <2>1 DEF ResellersInv
  <2>4. placed[u].id = None
    BY <1>3 DEF WithoutId
  <2>5. \A v, w \in Uuids : placed'[v].id = placed'[w].id /\ placed'[v].id # None => v = w
    BY <1>3, <2>3 DEF ResellersInv, IdsDiffer
  <2>6. \A v \in Uuids : placed[v].id # None => placed'[v].id = placed[v].id
    BY <2>3, <2>4
  <2>7. k.uuid \in Uuids /\ k.id \in {None, placed'[k.uuid].id}
    BY <2>2, <2>3
  <2> QED
    BY <1>0, <2>1, <2>2, <2>3, <2>5, <2>6, <2>7, PlacedChanges
<1> QED
  BY <1>1, <1>2, <1>3

LEMMA ReadOrderIdStep ==
  ASSUME ResellersInv, NEW t \in Clients, ReadOrderId(t)
  PROVE  ResellersInv'
<1> PICK u \in Uuids : u = call[t].uuid
  BY DEF ReadOrderId, ResellersInv, CallRight
<1> DEFINE k == [call[t] EXCEPT !.pc = "tag", !.id = placed[u].id]
<1>1. call' = [call EXCEPT ![t] = k] /\ UNCHANGED <<good, sequence, placed, told>>
  BY DEF ReadOrderId
<1>2. k \in Call /\ k.pc = "tag" /\ k.uuid = u /\ k.id = placed[u].id
  <2>1. call[t] \in Call /\ placed[u].id \in Ids \cup {None}
    BY DEF ResellersInv, Ids
  <2> QED
    BY <2>1 DEF Call
<1> HIDE DEF k
<1>3. call'[t] = k
  BY <1>1 DEF ResellersInv
<1>4. CallRight(t)'
  BY <1>1, <1>2, <1>3 DEF CallRight
<1> QED
  BY <1>1, <1>2, <1>4, CallMoves

LEMMA MapOrderStep ==
  ASSUME ResellersInv, NEW t \in Clients, mapOrder(t)
  PROVE  ResellersInv'
<1>1. call[t].uuid \in Uuids /\ call[t].id = placed[call[t].uuid].id /\ call[t].id # None
  BY DEF mapOrder, ResellersInv, CallRight
<1>2. told' = told \cup {<<call[t].uuid, call[t].id>>} /\ UNCHANGED <<good, placed>>
  BY DEF mapOrder
<1>3. ToldRight'
  BY <1>1, <1>2 DEF ResellersInv, ToldRight
<1> QED
  BY <1>3, CallTells DEF mapOrder

-----------------------------------------------------------------------------

LEMMA ResellersStep ==
  ASSUME ResellersInv, [ResellersNext]_resellerVars
  PROVE  ResellersInv'
<1>1. CASE UNCHANGED resellerVars
  BY <1>1 DEF resellerVars, ResellersInv, CallRight, ListRight, NumbersDiffer, IdsDiffer, ToldRight
<1>2. CASE ResellersNext
  BY <1>2, CreateProductStep, ToggleProductStep, ListProductsStep, GetNextSequenceStep,
     AssignIdStep, ReadProductIdStep, MapProductsStep, FindProductStep, CreateOrderStep,
     ListOrdersStep, EnsureOrderIdStep, ReadOrderIdStep, MapOrderStep DEF ResellersNext
<1> QED
  BY <1>1, <1>2

LEMMA ResellersInvSays == ResellersInv => ResellersTypeOK /\ IdsAreForGood
<1> SUFFICES ASSUME ResellersInv PROVE ResellersTypeOK /\ IdsAreForGood
  OBVIOUS
<1>1. ResellersTypeOK
  BY DEF ResellersInv, ResellersTypeOK
<1>2. \A g \in Goods : good[g].id # None => good[g].id \in Nat
  BY DEF ResellersInv
<1>3. \A u \in Uuids : placed[u].id # None => placed[u].id \in OrderIds
  BY DEF ResellersInv
<1>4. ASSUME NEW p \in told
      PROVE  \/ p[1] \in Goods /\ p[2] = good[p[1]].id /\ p[2] # None
             \/ p[1] \in Uuids /\ p[2] = placed[p[1]].id /\ p[2] # None
  BY DEF ResellersInv, ToldRight
<1>5. \A p \in told : p[2] = IF p[1] \in Goods THEN good[p[1]].id ELSE placed[p[1]].id
  BY <1>4, ResellersAssumption
<1>6. \A p, q \in told : p[2] = q[2] => p[1] = q[1]
  BY <1>2, <1>3, <1>4, ResellersAssumption DEF ResellersInv, IdsDiffer
<1> QED
  BY <1>1, <1>5, <1>6 DEF IdsAreForGood

-----------------------------------------------------------------------------
(* Offers: the invariant.                                                  *)

EntryDoc == [active : BOOLEAN, amount : BOOLEAN, price : Nat \ {0}, fresh : BOOLEAN]

Statuses == [Suppliers -> {"active", "inactive", "deleted"}]
OfferDocs == [OfferIds -> OfferDoc \cup {None}]
Entered == [Stock -> EntryDoc]

Checkout ==
    [pc : {"new", "load", "find", "populate", "select", "insert", "placed", "dispatch", "sent",
           "failed", "manual", "refused"},
     mode : {"LEGACY", "MULTI_PROVIDER", None}, quantity : Nat, adapter : Suppliers \cup {None},
     offers : OfferDocs \cup {None}, suppliers : Statuses \cup {None}, stock : Entered \cup {None},
     choice : Snapshot \cup {None},
     sent : [supplier : Suppliers \cup {None}, stock : Stock \cup {None}] \cup {None}]

Desk ==
    [pc : {"new", "check", "validate", "save", "remove", "config", "product", "provider", "done"},
     offer : OfferIds \cup Suppliers \cup {None}, copy : OfferDoc \cup SoldDoc \cup {None},
     edited : OfferDoc \cup SoldDoc \cup {None}]

\* What was chosen goes together, and is what the order is sent with.
CheckoutRight(b) ==
    /\ checkout[b].pc \in {"new", "load", "find", "populate", "select"} =>
           checkout[b].choice = None /\ checkout[b].sent = None
    /\ checkout[b].pc \in {"insert", "placed", "manual"} => checkout[b].sent = None
    /\ checkout[b].pc \in {"populate", "select"} => checkout[b].offers \in OfferDocs
    /\ checkout[b].pc = "select" =>
           checkout[b].suppliers \in Statuses /\ checkout[b].stock \in Entered
    /\ checkout[b].pc \in {"find", "populate", "select"} => checkout[b].mode = "MULTI_PROVIDER"
    /\ checkout[b].choice # None =>
           /\ checkout[b].mode = "MULTI_PROVIDER"
           /\ OwnerOf[checkout[b].choice.stock] = checkout[b].choice.supplier
           /\ checkout[b].choice.perUnit =>
                  checkout[b].choice.cost = checkout[b].choice.price * checkout[b].quantity
    /\ checkout[b].mode = "MULTI_PROVIDER" =>
           /\ checkout[b].pc \in {"insert", "placed", "dispatch", "sent", "failed"} =>
                  checkout[b].choice # None
           /\ checkout[b].pc = "dispatch" => checkout[b].adapter = checkout[b].choice.supplier
           /\ checkout[b].sent # None =>
                  /\ checkout[b].choice # None
                  /\ checkout[b].sent = [supplier |-> checkout[b].choice.supplier,
                                         stock |-> checkout[b].choice.stock]

DeskRight(r) ==
    /\ desk[r].pc = "new" => desk[r].copy = None
    /\ desk[r].pc \in {"check", "validate", "save"} =>
           desk[r].offer \in OfferIds /\ desk[r].edited \in OfferDoc
           /\ desk[r].copy \in OfferDoc \cup {None}
    /\ desk[r].pc = "remove" => desk[r].offer \in OfferIds
    /\ desk[r].pc \in {"config", "product"} => desk[r].copy \in SoldDoc /\ desk[r].edited \in SoldDoc
    /\ desk[r].pc = "provider" => desk[r].offer \in Suppliers

OfferedRight == supplier \in Statuses /\ listed \in Entered /\ offer \in OfferDocs /\ sold \in SoldDoc

OffersInv ==
    /\ OfferedRight
    /\ checkout \in [Checkouts -> Checkout] /\ \A b \in Checkouts : CheckoutRight(b)
    /\ desk \in [Reviews -> Desk] /\ \A r \in Reviews : DeskRight(r)

LEMMA NewDeskIs == NewDesk \in Desk /\ NewDesk.pc = "new" /\ NewDesk.copy = None
BY DEF NewDesk, Desk

LEMMA OffersInitInv == OffersInit => OffersInv
<1> SUFFICES ASSUME OffersInit PROVE OffersInv
  OBVIOUS
<1>1. supplier \in Statuses /\ listed \in Entered
  BY DEF OffersInit, Statuses, Entered, EntryDoc
<1>2. offer \in OfferDocs /\ sold \in SoldDoc
  BY OpeningsAssumption DEF OffersInit, OfferDocs
<1>3. NewCheckout \in Checkout
  BY DEF NewCheckout, Checkout
<1>4. checkout \in [Checkouts -> Checkout] /\ \A b \in Checkouts : checkout[b] = NewCheckout
  BY <1>3 DEF OffersInit
<1>5. \A b \in Checkouts : CheckoutRight(b)
  BY <1>4 DEF CheckoutRight, NewCheckout
<1>6. desk \in [Reviews -> Desk] /\ \A r \in Reviews : desk[r] = NewDesk
  BY NewDeskIs DEF OffersInit
<1>7. \A r \in Reviews : DeskRight(r)
  BY <1>6, NewDeskIs DEF DeskRight
<1> QED
  BY <1>1, <1>2, <1>4, <1>5, <1>6, <1>7 DEF OffersInv, OfferedRight

-----------------------------------------------------------------------------
(* Orders.                                                                 *)

LEMMA CheckoutMoves ==
  ASSUME OffersInv, NEW b \in Checkouts, NEW k \in Checkout,
         checkout' = [checkout EXCEPT ![b] = k], CheckoutRight(b)', DesksStay
  PROVE  OffersInv'
<1>1. /\ checkout' \in [Checkouts -> Checkout]
      /\ \A c \in Checkouts \ {b} : checkout'[c] = checkout[c]
  BY DEF OffersInv
<1>2. \A c \in Checkouts : CheckoutRight(c)'
  BY <1>1 DEF OffersInv, CheckoutRight
<1> QED
  BY <1>1, <1>2 DEF OffersInv, OfferedRight, DeskRight, DesksStay

LEMMA ResolveAdapterStep ==
  ASSUME OffersInv, NEW b \in Checkouts, NEW quantity \in Quantities, ResolveAdapter(b, quantity)
  PROVE  OffersInv'
<1>1. PICK v \in Suppliers \cup {None} :
          v = IF sold.automatic /\ sold.mode = "LEGACY" /\ sold.supplier # None
                 /\ supplier[sold.supplier] = "active"
              THEN sold.supplier ELSE None
  BY DEF OffersInv, OfferedRight, SoldDoc
<1> DEFINE k == [checkout[b] EXCEPT !.pc = "load", !.quantity = quantity, !.adapter = v]
<1>2. checkout' = [checkout EXCEPT ![b] = k]
  BY <1>1 DEF ResolveAdapter
<1>3. quantity \in Nat
  BY OffersAssumption
<1>4. /\ k \in Checkout /\ k.pc = "load" /\ k.choice = checkout[b].choice
      /\ k.sent = checkout[b].sent /\ k.mode = checkout[b].mode
  BY <1>1, <1>3 DEF OffersInv, Checkout
<1> HIDE DEF k
<1>5. checkout'[b] = k
  BY <1>2 DEF OffersInv
<1>6. CheckoutRight(b)'
  BY <1>4, <1>5 DEF ResolveAdapter, OffersInv, CheckoutRight
<1> QED
  BY <1>2, <1>4, <1>6, CheckoutMoves DEF ResolveAdapter

LEMMA LoadProductStep ==
  ASSUME OffersInv, NEW b \in Checkouts, NEW session \in BOOLEAN, LoadProduct(b, session)
  PROVE  OffersInv'
<1>0. /\ checkout[b] \in Checkout /\ CheckoutRight(b) /\ checkout[b].pc = "load"
      /\ sold.mode \in {"LEGACY", "MULTI_PROVIDER"}
      /\ offer \in OfferDocs /\ supplier \in Statuses /\ listed \in Entered
  BY DEF LoadProduct, OffersInv, OfferedRight, SoldDoc
<1> DEFINE manual == [checkout[b] EXCEPT !.pc = "manual", !.mode = sold.mode]
           legacy == [checkout[b] EXCEPT !.pc = "insert", !.mode = "LEGACY"]
           read == [checkout[b] EXCEPT !.pc = "select", !.mode = "MULTI_PROVIDER",
                       !.offers = offer, !.suppliers = supplier, !.stock = listed]
           find == [checkout[b] EXCEPT !.pc = "find", !.mode = "MULTI_PROVIDER"]
<1>1. \/ checkout' = [checkout EXCEPT ![b] = manual]
      \/ checkout' = [checkout EXCEPT ![b] = legacy]
      \/ checkout' = [checkout EXCEPT ![b] = read]
      \/ checkout' = [checkout EXCEPT ![b] = find]
  BY DEF LoadProduct
<1>2. manual \in Checkout /\ legacy \in Checkout /\ read \in Checkout /\ find \in Checkout
  <2>1. manual \in Checkout
    BY <1>0 DEF Checkout
  <2>2. legacy \in Checkout
    BY <1>0 DEF Checkout
  <2>3. read \in Checkout
    BY <1>0 DEF Checkout
  <2>4. find \in Checkout
    BY <1>0 DEF Checkout
  <2> QED
    BY <2>1, <2>2, <2>3, <2>4
<1>3. /\ manual.pc = "manual" /\ manual.choice = None /\ manual.sent = None
      /\ legacy.pc = "insert" /\ legacy.mode = "LEGACY" /\ legacy.choice = None
      /\ legacy.sent = None
      /\ find.pc = "find" /\ find.mode = "MULTI_PROVIDER" /\ find.choice = None
      /\ find.sent = None
      /\ read.pc = "select" /\ read.mode = "MULTI_PROVIDER" /\ read.choice = None
      /\ read.sent = None /\ read.offers = offer /\ read.suppliers = supplier
      /\ read.stock = listed
  BY <1>0 DEF Checkout, CheckoutRight
<1> HIDE DEF manual, legacy, read, find
<1>4. checkout'[b] \in {manual, legacy, read, find}
  BY <1>1 DEF OffersInv
<1>5. CheckoutRight(b)'
  BY <1>0, <1>3, <1>4 DEF CheckoutRight
<1> QED
  BY <1>1, <1>2, <1>5, CheckoutMoves DEF LoadProduct

LEMMA FindOffersStep ==
  ASSUME OffersInv, NEW b \in Checkouts, FindOffers(b)
  PROVE  OffersInv'
<1> DEFINE k == [checkout[b] EXCEPT !.pc = "populate", !.offers = offer]
<1>1. checkout' = [checkout EXCEPT ![b] = k]
  BY DEF FindOffers, OffersInv, Checkout
<1>2. /\ checkout[b] \in Checkout /\ CheckoutRight(b) /\ checkout[b].pc = "find"
      /\ offer \in OfferDocs
  BY DEF FindOffers, OffersInv, OfferedRight
<1>3. /\ k \in Checkout /\ k.pc = "populate" /\ k.mode = "MULTI_PROVIDER" /\ k.choice = None
      /\ k.sent = None /\ k.offers = offer
  BY <1>2 DEF Checkout, CheckoutRight
<1> HIDE DEF k
<1>4. checkout'[b] = k
  BY <1>1 DEF OffersInv
<1>5. CheckoutRight(b)'
  BY <1>2, <1>3, <1>4 DEF CheckoutRight
<1> QED
  BY <1>1, <1>3, <1>5, CheckoutMoves DEF FindOffers

LEMMA PopulateProvidersStep ==
  ASSUME OffersInv, NEW b \in Checkouts, PopulateProviders(b)
  PROVE  OffersInv'
<1>0. /\ checkout[b] \in Checkout /\ CheckoutRight(b) /\ checkout[b].pc = "populate"
      /\ supplier \in Statuses
  BY DEF PopulateProviders, OffersInv, OfferedRight
<1> PICK pc \in {"populate", "select"} :
        pc = IF checkout[b].stock # None THEN "select" ELSE checkout[b].pc
  BY <1>0
<1> DEFINE k == [checkout[b] EXCEPT !.suppliers = supplier, !.pc = pc]
<1>1. checkout' = [checkout EXCEPT ![b] = k]
  BY <1>0 DEF PopulateProviders, OffersInv, Checkout
<1>2. /\ k \in Checkout /\ k.pc = pc /\ k.mode = "MULTI_PROVIDER" /\ k.choice = None
      /\ k.sent = None /\ k.offers = checkout[b].offers /\ k.suppliers = supplier
      /\ k.stock = checkout[b].stock
  BY <1>0 DEF Checkout, CheckoutRight
<1>3. pc = "select" => checkout[b].stock \in Entered
  BY <1>0 DEF Checkout
<1> HIDE DEF k
<1>4. checkout'[b] = k
  BY <1>1 DEF OffersInv
<1>5. CheckoutRight(b)'
  BY <1>0, <1>2, <1>3, <1>4 DEF CheckoutRight
<1> QED
  BY <1>1, <1>2, <1>5, CheckoutMoves DEF PopulateProviders

LEMMA PopulateProductsStep ==
  ASSUME OffersInv, NEW b \in Checkouts, PopulateProducts(b)
  PROVE  OffersInv'
<1>0. /\ checkout[b] \in Checkout /\ CheckoutRight(b) /\ checkout[b].pc = "populate"
      /\ listed \in Entered
  BY DEF PopulateProducts, OffersInv, OfferedRight
<1> PICK pc \in {"populate", "select"} :
        pc = IF checkout[b].suppliers # None THEN "select" ELSE checkout[b].pc
  BY <1>0
<1> DEFINE k == [checkout[b] EXCEPT !.stock = listed, !.pc = pc]
<1>1. checkout' = [checkout EXCEPT ![b] = k]
  BY <1>0 DEF PopulateProducts, OffersInv, Checkout
<1>2. /\ k \in Checkout /\ k.pc = pc /\ k.mode = "MULTI_PROVIDER" /\ k.choice = None
      /\ k.sent = None /\ k.offers = checkout[b].offers /\ k.stock = listed
      /\ k.suppliers = checkout[b].suppliers
  BY <1>0 DEF Checkout, CheckoutRight
<1>3. pc = "select" => checkout[b].suppliers \in Statuses
  BY <1>0 DEF Checkout
<1> HIDE DEF k
<1>4. checkout'[b] = k
  BY <1>1 DEF OffersInv
<1>5. CheckoutRight(b)'
  BY <1>0, <1>2, <1>3, <1>4 DEF CheckoutRight
<1> QED
  BY <1>1, <1>2, <1>5, CheckoutMoves DEF PopulateProducts

\* A candidate belongs to its provider, and its price was multiplied if it is one per unit.
LEMMA SnapshotRight ==
  ASSUME OffersInv, NEW b \in Checkouts, checkout[b].pc = "select", NEW o \in OfferIds,
         Candidate(b, o)
  PROVE  /\ RoutingSnapshot(b, o) \in Snapshot
         /\ OwnerOf[RoutingSnapshot(b, o).stock] = RoutingSnapshot(b, o).supplier
         /\ RoutingSnapshot(b, o).perUnit =>
                RoutingSnapshot(b, o).cost = RoutingSnapshot(b, o).price * checkout[b].quantity
<1> DEFINE d == checkout[b].offers[o]
           entry == checkout[b].stock[d.stock]
<1>1. /\ checkout[b].quantity \in Nat /\ checkout[b].offers \in OfferDocs
      /\ checkout[b].stock \in Entered
  BY DEF OffersInv, CheckoutRight, Checkout
<1>2. d \in OfferDoc
  BY <1>1 DEF Candidate, OfferDocs
<1>3. d.supplier \in Suppliers /\ d.stock \in Stock /\ d.semantics \in Semantics
  BY <1>2 DEF OfferDoc
<1>4. entry \in EntryDoc
  BY <1>1, <1>3 DEF Entered
<1>5. entry.price \in Nat /\ entry.amount \in BOOLEAN
  BY <1>4 DEF EntryDoc
<1>6. /\ OwnerOf[d.stock] = d.supplier /\ ~(entry.amount /\ d.semantics = "FIXED_OFFER")
      /\ d.semantics # "QUOTE_REQUIRED"
  BY DEF Candidate, Comparable, hasPriceSemanticsMismatch
<1>7. RoutingSnapshot(b, o) =
          [offer |-> o, supplier |-> d.supplier, stock |-> d.stock,
           cost |-> SupplierCost(d.semantics, entry, checkout[b].quantity),
           price |-> entry.price, perUnit |-> entry.amount]
  BY DEF RoutingSnapshot
<1>8. /\ SupplierCost(d.semantics, entry, checkout[b].quantity) \in Nat
      /\ entry.amount => SupplierCost(d.semantics, entry, checkout[b].quantity) =
                            entry.price * checkout[b].quantity
  BY <1>1, <1>3, <1>5, <1>6 DEF SupplierCost, Semantics
<1> HIDE DEF d, entry
<1> QED
  BY <1>3, <1>5, <1>6, <1>7, <1>8 DEF Snapshot

LEMMA SelectStep ==
  ASSUME OffersInv, NEW b \in Checkouts, selectProviderOfferForOrder(b)
  PROVE  OffersInv'
<1> DEFINE k(pc, choice) ==
              [checkout[b] EXCEPT !.pc = pc, !.choice = choice, !.offers = None,
                                  !.suppliers = None, !.stock = None]
<1>0. /\ checkout[b] \in Checkout /\ CheckoutRight(b) /\ checkout[b].pc = "select"
      /\ checkout[b].quantity \in Nat
  BY DEF selectProviderOfferForOrder, OffersInv, Checkout
<1>1. CASE checkout' = [checkout EXCEPT ![b] = k("refused", None)]
  <2> DEFINE n == k("refused", None)
  <2>1. /\ n \in Checkout /\ n.pc = "refused" /\ n.choice = None /\ n.sent = None
    BY <1>0 DEF Checkout, CheckoutRight
  <2>2. checkout' = [checkout EXCEPT ![b] = n]
    BY <1>1
  <2> HIDE DEF n
  <2>3. checkout'[b] = n
    BY <2>2 DEF OffersInv
  <2>4. CheckoutRight(b)'
    BY <2>1, <2>3 DEF CheckoutRight
  <2> QED
    BY <2>1, <2>2, <2>4, CheckoutMoves DEF selectProviderOfferForOrder
<1>2. ASSUME NEW o \in OfferIds, Candidate(b, o),
             checkout' = [checkout EXCEPT ![b] = k("insert", RoutingSnapshot(b, o))]
      PROVE  OffersInv'
  <2>1. PICK s \in Snapshot :
            /\ s = RoutingSnapshot(b, o) /\ OwnerOf[s.stock] = s.supplier
            /\ s.perUnit => s.cost = s.price * checkout[b].quantity
    BY <1>0, <1>2, SnapshotRight
  <2> DEFINE n == k("insert", s)
  <2>2. /\ n \in Checkout /\ n.pc = "insert" /\ n.choice = s /\ n.sent = None
        /\ n.mode = "MULTI_PROVIDER" /\ n.quantity = checkout[b].quantity
    BY <1>0 DEF Checkout, CheckoutRight
  <2>3. checkout' = [checkout EXCEPT ![b] = n]
    BY <1>2, <2>1
  <2> HIDE DEF n
  <2>4. checkout'[b] = n
    BY <2>3 DEF OffersInv
  <2>5. s # None
    BY SnapshotsAssumption
  <2>6. CheckoutRight(b)'
    BY <2>1, <2>2, <2>4, <2>5 DEF CheckoutRight
  <2> QED
    BY <2>2, <2>3, <2>6, CheckoutMoves DEF selectProviderOfferForOrder
<1> QED
  BY <1>1, <1>2 DEF selectProviderOfferForOrder

LEMMA InsertOrderStep ==
  ASSUME OffersInv, NEW b \in Checkouts, InsertOrder(b)
  PROVE  OffersInv'
<1>0. checkout[b] \in Checkout /\ CheckoutRight(b) /\ checkout[b].pc = "insert"
  BY DEF InsertOrder, OffersInv
<1>1. PICK pc \in {"placed", "refused"} : checkout' = [checkout EXCEPT ![b].pc = pc]
  BY DEF InsertOrder
<1> DEFINE k == [checkout[b] EXCEPT !.pc = pc]
<1>2. checkout' = [checkout EXCEPT ![b] = k]
  BY <1>1
<1>3. /\ k \in Checkout /\ k.pc = pc /\ k.choice = checkout[b].choice /\ k.sent = None
      /\ k.mode = checkout[b].mode /\ k.quantity = checkout[b].quantity
  BY <1>0 DEF Checkout, CheckoutRight
<1> HIDE DEF k
<1>4. checkout'[b] = k
  BY <1>2 DEF OffersInv
<1>5. CheckoutRight(b)'
  BY <1>0, <1>3, <1>4 DEF CheckoutRight
<1> QED
  BY <1>2, <1>3, <1>5, CheckoutMoves DEF InsertOrder

LEMMA ResolveProviderStep ==
  ASSUME OffersInv, NEW b \in Checkouts, ResolveProvider(b)
  PROVE  OffersInv'
<1>0. checkout[b] \in Checkout /\ CheckoutRight(b) /\ checkout[b].pc = "placed"
  BY DEF ResolveProvider, OffersInv
<1>1. PICK v \in Suppliers \cup {None} :
          /\ v = DispatchSupplier(b)
          /\ checkout[b].choice # None => v = checkout[b].choice.supplier
  BY <1>0 DEF DispatchSupplier, OffersInv, OfferedRight, SoldDoc, Checkout, Snapshot
<1> DEFINE goes == [checkout[b] EXCEPT !.pc = "dispatch", !.adapter = v]
           fails == [checkout[b] EXCEPT !.pc = "failed"]
<1>2. \/ checkout' = [checkout EXCEPT ![b] = goes]
      \/ checkout' = [checkout EXCEPT ![b] = fails]
  BY <1>1 DEF ResolveProvider
<1>3. /\ goes \in Checkout /\ goes.pc = "dispatch" /\ goes.adapter = v
      /\ goes.choice = checkout[b].choice /\ goes.sent = None
      /\ goes.mode = checkout[b].mode /\ goes.quantity = checkout[b].quantity
  BY <1>0 DEF Checkout, CheckoutRight
<1>4. /\ fails \in Checkout /\ fails.pc = "failed" /\ fails.choice = checkout[b].choice
      /\ fails.sent = None /\ fails.mode = checkout[b].mode
      /\ fails.quantity = checkout[b].quantity
  BY <1>0 DEF Checkout, CheckoutRight
<1> HIDE DEF goes, fails
<1>5. checkout'[b] \in {goes, fails}
  BY <1>2 DEF OffersInv
<1>6. CheckoutRight(b)'
  BY <1>0, <1>1, <1>3, <1>4, <1>5 DEF CheckoutRight
<1> QED
  BY <1>2, <1>3, <1>4, <1>6, CheckoutMoves DEF ResolveProvider

LEMMA DispatchStep ==
  ASSUME OffersInv, NEW b \in Checkouts, Dispatch(b)
  PROVE  OffersInv'
<1>0. checkout[b] \in Checkout /\ CheckoutRight(b) /\ checkout[b].pc = "dispatch"
  BY DEF Dispatch, OffersInv
<1>1. PICK p \in Stock \cup {None} :
          /\ p = IF checkout[b].choice # None THEN checkout[b].choice.stock ELSE sold.stock
          /\ checkout[b].choice # None => p = checkout[b].choice.stock
  BY <1>0 DEF OffersInv, OfferedRight, SoldDoc, Checkout, Snapshot
<1> DEFINE sent == [supplier |-> checkout[b].adapter, stock |-> p]
<1>2. PICK pc \in {"sent", "failed"} :
          checkout' = [checkout EXCEPT ![b] = [@ EXCEPT !.pc = pc, !.sent = sent]]
  BY <1>1 DEF Dispatch
<1>3. /\ sent \in [supplier : Suppliers \cup {None}, stock : Stock \cup {None}]
      /\ checkout[b].mode = "MULTI_PROVIDER" =>
             sent = [supplier |-> checkout[b].choice.supplier, stock |-> checkout[b].choice.stock]
  BY <1>0, <1>1 DEF Checkout, CheckoutRight
<1> HIDE DEF sent
<1> DEFINE k == [checkout[b] EXCEPT !.pc = pc, !.sent = sent]
<1>4. checkout' = [checkout EXCEPT ![b] = k]
  BY <1>2
<1>5. /\ k \in Checkout /\ k.pc = pc /\ k.choice = checkout[b].choice /\ k.sent = sent
      /\ k.mode = checkout[b].mode /\ k.quantity = checkout[b].quantity
  <2>1. sent \in [supplier : Suppliers \cup {None}, stock : Stock \cup {None}]
    BY <1>3
  <2>2. checkout[b] \in Checkout
    BY <1>0
  <2> QED
    BY <2>1, <2>2 DEF Checkout
<1> HIDE DEF k
<1>6. checkout'[b] = k
  BY <1>4 DEF OffersInv
<1>7. CheckoutRight(b)'
  BY <1>0, <1>3, <1>5, <1>6 DEF CheckoutRight
<1> QED
  BY <1>4, <1>5, <1>7, CheckoutMoves DEF Dispatch

LEMMA RetryOrderStep ==
  ASSUME OffersInv, NEW b \in Checkouts, retryOrder(b)
  PROVE  OffersInv'
<1>0. /\ checkout[b] \in Checkout /\ CheckoutRight(b) /\ checkout[b].pc = "failed"
      /\ checkout[b].choice # None /\ checkout[b].choice \in Snapshot
  BY DEF retryOrder, OffersInv, Checkout
<1> DEFINE sent == [supplier |-> checkout[b].choice.supplier, stock |-> checkout[b].choice.stock]
<1>1. sent \in [supplier : Suppliers \cup {None}, stock : Stock \cup {None}]
  BY <1>0 DEF Snapshot
<1>2. checkout' = [checkout EXCEPT ![b] = [@ EXCEPT !.pc = "sent", !.sent = sent]]
  BY <1>0 DEF retryOrder, DispatchSupplier
<1>3. sent = [supplier |-> checkout[b].choice.supplier, stock |-> checkout[b].choice.stock]
  OBVIOUS
<1> HIDE DEF sent
<1> DEFINE k == [checkout[b] EXCEPT !.pc = "sent", !.sent = sent]
<1>4. checkout' = [checkout EXCEPT ![b] = k]
  BY <1>2
<1>5. /\ k \in Checkout /\ k.pc = "sent" /\ k.choice = checkout[b].choice /\ k.sent = sent
      /\ k.mode = checkout[b].mode /\ k.quantity = checkout[b].quantity
  BY <1>0, <1>1 DEF Checkout
<1> HIDE DEF k
<1>6. checkout'[b] = k
  BY <1>4 DEF OffersInv
<1>7. CheckoutRight(b)'
  BY <1>0, <1>3, <1>5, <1>6 DEF CheckoutRight
<1> QED
  BY <1>4, <1>5, <1>7, CheckoutMoves DEF retryOrder

-----------------------------------------------------------------------------
(* Administrators.                                                         *)

LEMMA DeskTurns ==
  ASSUME OffersInv, NEW r \in Reviews, NEW k \in Desk, desk' = [desk EXCEPT ![r] = k],
         DeskRight(r)', OfferedRight', UNCHANGED checkout
  PROVE  OffersInv'
<1>1. desk' \in [Reviews -> Desk] /\ \A q \in Reviews \ {r} : desk'[q] = desk[q]
  BY DEF OffersInv
<1>2. \A q \in Reviews : DeskRight(q)'
  BY <1>1 DEF OffersInv, DeskRight
<1> QED
  BY <1>1, <1>2 DEF OffersInv, CheckoutRight

LEMMA DeskStops ==
  ASSUME OffersInv, NEW r \in Reviews, DeskEnds(r), OfferedRight', UNCHANGED checkout
  PROVE  OffersInv'
<1> DEFINE k == [NewDesk EXCEPT !.pc = "done"]
<1>1. desk' = [desk EXCEPT ![r] = k]
  BY DEF DeskEnds
<1>2. k \in Desk /\ k.pc = "done"
  BY NewDeskIs DEF Desk
<1> HIDE DEF k
<1>3. DeskRight(r)'
  BY <1>1, <1>2 DEF OffersInv, DeskRight
<1> QED
  BY <1>1, <1>2, <1>3, DeskTurns

\* A request goes on with what it has.
LEMMA DeskGoesOn ==
  ASSUME OffersInv, NEW r \in Reviews,
         \/ desk[r].pc = "check" /\ DeskGoes(r, "validate")
         \/ desk[r].pc = "validate" /\ DeskGoes(r, "save")
         \/ desk[r].pc = "config" /\ DeskGoes(r, "product"),
         OfferedRight', UNCHANGED checkout
  PROVE  OffersInv'
<1> PICK pc \in {"validate", "save", "product"} :
        /\ DeskGoes(r, pc)
        /\ pc \in {"validate", "save"} => desk[r].pc \in {"check", "validate"}
        /\ pc = "product" => desk[r].pc = "config"
  OBVIOUS
<1> DEFINE k == [desk[r] EXCEPT !.pc = pc]
<1>1. desk' = [desk EXCEPT ![r] = k]
  BY DEF DeskGoes
<1>2. /\ k \in Desk /\ k.pc = pc /\ k.offer = desk[r].offer /\ k.copy = desk[r].copy
      /\ k.edited = desk[r].edited
  BY DEF OffersInv, Desk
<1> HIDE DEF k
<1>3. DeskRight(r)'
  BY <1>1, <1>2 DEF OffersInv, DeskRight
<1> QED
  BY <1>1, <1>2, <1>3, DeskTurns

LEMMA OfferedStays ==
  ASSUME OffersInv, UNCHANGED <<supplier, listed, offer, sold>>
  PROVE  OfferedRight'
BY DEF OffersInv, OfferedRight

LEMMA BeginCreateStep ==
  ASSUME OffersInv, NEW r \in Reviews, NEW o \in OfferIds, NEW doc \in OfferBodies,
         BeginCreateOffer(r, o, doc)
  PROVE  OffersInv'
<1> DEFINE k == [desk[r] EXCEPT !.pc = "check", !.offer = o, !.edited = doc]
<1>1. desk' = [desk EXCEPT ![r] = k]
  BY DEF BeginCreateOffer
<1>2. doc \in OfferDoc
  BY OpeningsAssumption
<1>3. k \in Desk /\ k.pc = "check" /\ k.offer = o /\ k.edited = doc /\ k.copy = desk[r].copy
  BY <1>2 DEF OffersInv, Desk
<1> HIDE DEF k
<1>4. DeskRight(r)'
  BY <1>1, <1>2, <1>3 DEF BeginCreateOffer, OffersInv, DeskRight
<1> QED
  BY <1>1, <1>3, <1>4, DeskTurns, OfferedStays DEF BeginCreateOffer, CheckoutsStay

LEMMA OfferEditsAre ==
  ASSUME NEW copy \in OfferDoc
  PROVE  OfferEdits(copy) \subseteq OfferDoc
<1>1. ASSUME NEW p \in Stock PROVE [copy EXCEPT !.stock = p] \in OfferDoc
  BY DEF OfferDoc
<1>2. ASSUME NEW p \in Stock PROVE [copy EXCEPT !.stock = p, !.supplier = OwnerOf[p]] \in OfferDoc
  <2>1. OwnerOf[p] \in Suppliers
    BY OffersAssumption
  <2> QED
    BY <2>1 DEF OfferDoc
<1>3. ASSUME NEW s \in Semantics PROVE [copy EXCEPT !.semantics = s] \in OfferDoc
  BY DEF OfferDoc
<1>4. [copy EXCEPT !.automatic = ~@] \in OfferDoc
  BY DEF OfferDoc
<1> QED
  BY <1>1, <1>2, <1>3, <1>4 DEF OfferEdits

LEMMA BeginUpdateOfferStep ==
  ASSUME OffersInv, NEW r \in Reviews, NEW o \in OfferIds, BeginUpdateOffer(r, o)
  PROVE  OffersInv'
<1>1. offer[o] \in OfferDoc
  BY DEF BeginUpdateOffer, OffersInv, OfferedRight, OfferDocs
<1>2. PICK edited \in OfferEdits(offer[o]) :
          desk' = [desk EXCEPT ![r] = [pc |-> "check", offer |-> o, copy |-> offer[o],
                                       edited |-> edited]]
  BY DEF BeginUpdateOffer
<1>3. edited \in OfferDoc
  BY <1>1, OfferEditsAre
<1> DEFINE k == [pc |-> "check", offer |-> o, copy |-> offer[o], edited |-> edited]
<1>4. k \in Desk /\ k.pc = "check" /\ k.offer = o /\ k.edited = edited /\ k.copy = offer[o]
  BY <1>1, <1>3 DEF Desk
<1>5. desk' = [desk EXCEPT ![r] = k]
  BY <1>2
<1> HIDE DEF k
<1>6. DeskRight(r)'
  BY <1>1, <1>3, <1>4, <1>5 DEF OffersInv, DeskRight
<1> QED
  BY <1>4, <1>5, <1>6, DeskTurns, OfferedStays DEF BeginUpdateOffer, CheckoutsStay

LEMMA CheckOfferStep ==
  ASSUME OffersInv, NEW r \in Reviews, CheckOffer(r) \/ ValidateOffer(r)
  PROVE  OffersInv'
BY DeskGoesOn, DeskStops, OfferedStays DEF CheckOffer, ValidateOffer, CheckoutsStay

LEMMA SavedOffer ==
  ASSUME NEW doc \in OfferDoc, NEW copy \in OfferDoc, NEW edited \in OfferDoc
  PROVE  Saved(doc, copy, edited) \in OfferDoc
<1> DEFINE n == Saved(doc, copy, edited)
<1>1. DOMAIN doc = {"supplier", "stock", "semantics", "automatic"}
  BY DEF OfferDoc
<1>2. n = [supplier |-> n.supplier, stock |-> n.stock, semantics |-> n.semantics,
           automatic |-> n.automatic]
  BY <1>1 DEF Saved
<1>3. /\ n.supplier \in Suppliers /\ n.stock \in Stock /\ n.semantics \in Semantics
      /\ n.automatic \in BOOLEAN
  BY <1>1 DEF Saved, OfferDoc
<1> HIDE DEF n
<1>4. n \in OfferDoc
  BY <1>2, <1>3 DEF OfferDoc
<1> QED
  BY <1>4 DEF n

LEMMA SaveOfferStep ==
  ASSUME OffersInv, NEW r \in Reviews, SaveOffer(r)
  PROVE  OffersInv'
<1> DEFINE o == desk[r].offer
           new == IF desk[r].copy = None THEN desk[r].edited
                  ELSE Saved(offer[o], desk[r].copy, desk[r].edited)
<1>1. o \in OfferIds /\ desk[r].edited \in OfferDoc /\ desk[r].copy \in OfferDoc \cup {None}
  BY DEF SaveOffer, OffersInv, DeskRight
<1>2. offer[o] \in OfferDoc \cup {None}
  BY <1>1 DEF OffersInv, OfferedRight, OfferDocs
<1>3. (desk[r].copy # None => offer[o] # None) => new \in OfferDoc
  BY <1>1, <1>2, SavedOffer
<1>4. offer' \in OfferDocs
  <2>1. CASE UNCHANGED offer
    BY <2>1 DEF OffersInv, OfferedRight
  <2>2. CASE offer' = [offer EXCEPT ![o] = new] /\ (desk[r].copy # None => offer[o] # None)
    <3>1. new \in OfferDoc
      BY <1>3, <2>2
    <3> HIDE DEF new
    <3> QED
      BY <2>2, <3>1 DEF OffersInv, OfferedRight, OfferDocs
  <2> QED
    BY <2>1, <2>2 DEF SaveOffer
<1>5. OfferedRight'
  BY <1>4 DEF SaveOffer, CheckoutsStay, OffersInv, OfferedRight
<1> QED
  BY <1>5, DeskStops DEF SaveOffer, CheckoutsStay

LEMMA BeginRemoveStep ==
  ASSUME OffersInv, NEW r \in Reviews, NEW o \in OfferIds, BeginRemoveOffer(r, o)
  PROVE  OffersInv'
<1>1. OfferedRight' /\ UNCHANGED checkout
  BY OfferedStays DEF BeginRemoveOffer, CheckoutsStay
<1>2. CASE DeskEnds(r)
  BY <1>1, <1>2, DeskStops
<1>3. CASE desk' = [desk EXCEPT ![r].pc = "remove", ![r].offer = o]
  <2> DEFINE k == [desk[r] EXCEPT !.pc = "remove", !.offer = o]
  <2>1. desk' = [desk EXCEPT ![r] = k]
    BY <1>3 DEF OffersInv, Desk
  <2>2. k \in Desk /\ k.pc = "remove" /\ k.offer = o
    BY DEF OffersInv, Desk
  <2> HIDE DEF k
  <2>3. DeskRight(r)'
    BY <2>1, <2>2 DEF OffersInv, DeskRight
  <2> QED
    BY <1>1, <2>1, <2>2, <2>3, DeskTurns
<1> QED
  BY <1>2, <1>3 DEF BeginRemoveOffer

LEMMA RemoveOfferStep ==
  ASSUME OffersInv, NEW r \in Reviews, removeOffer(r)
  PROVE  OffersInv'
<1>1. offer' \in OfferDocs
  BY DEF removeOffer, OffersInv, OfferedRight, OfferDocs
<1>2. OfferedRight'
  BY <1>1 DEF removeOffer, CheckoutsStay, OffersInv, OfferedRight
<1> QED
  BY <1>2, DeskStops DEF removeOffer, CheckoutsStay

LEMMA SoldEditsAre ==
  ASSUME sold \in SoldDoc
  PROVE  SoldEdits \subseteq SoldDoc
<1>1. ASSUME NEW m \in {"LEGACY", "MULTI_PROVIDER"} PROVE [sold EXCEPT !.mode = m] \in SoldDoc
  BY DEF SoldDoc
<1>2. ASSUME NEW p \in Stock PROVE [sold EXCEPT !.stock = p, !.supplier = OwnerOf[p]] \in SoldDoc
  <2>1. OwnerOf[p] \in Suppliers
    BY OffersAssumption
  <2> QED
    BY <2>1 DEF SoldDoc
<1> QED
  BY <1>1, <1>2 DEF SoldEdits

LEMMA BeginUpdateProductStep ==
  ASSUME OffersInv, NEW r \in Reviews, BeginUpdateProduct(r)
  PROVE  OffersInv'
<1>1. PICK edited \in SoldEdits :
          desk' = [desk EXCEPT ![r] =
             [@ EXCEPT !.pc = IF edited.automatic /\ edited.mode = "MULTI_PROVIDER"
                              THEN "config" ELSE "product",
                       !.copy = sold, !.edited = edited]]
  BY DEF BeginUpdateProduct
<1>2. sold \in SoldDoc /\ edited \in SoldDoc
  BY SoldEditsAre DEF OffersInv, OfferedRight
<1> PICK pc \in {"config", "product"} :
        pc = IF edited.automatic /\ edited.mode = "MULTI_PROVIDER" THEN "config" ELSE "product"
  OBVIOUS
<1> DEFINE k == [desk[r] EXCEPT !.pc = pc, !.copy = sold, !.edited = edited]
<1>3. desk' = [desk EXCEPT ![r] = k]
  BY <1>1
<1>4. k \in Desk /\ k.pc = pc /\ k.copy = sold /\ k.edited = edited
  BY <1>2 DEF OffersInv, Desk
<1> HIDE DEF k
<1>5. DeskRight(r)'
  BY <1>2, <1>3, <1>4 DEF OffersInv, DeskRight
<1> QED
  BY <1>3, <1>4, <1>5, DeskTurns, OfferedStays DEF BeginUpdateProduct, CheckoutsStay

LEMMA ConfigStep ==
  ASSUME OffersInv, NEW r \in Reviews, assertAutomaticMultiProviderConfiguration(r)
  PROVE  OffersInv'
BY DeskGoesOn, DeskStops, OfferedStays
   DEF assertAutomaticMultiProviderConfiguration, CheckoutsStay

LEMMA SavedSold ==
  ASSUME NEW doc \in SoldDoc, NEW copy \in SoldDoc, NEW edited \in SoldDoc
  PROVE  Saved(doc, copy, edited) \in SoldDoc
<1> DEFINE n == Saved(doc, copy, edited)
<1>1. DOMAIN doc = {"mode", "automatic", "supplier", "stock"}
  BY DEF SoldDoc
<1>2. n = [mode |-> n.mode, automatic |-> n.automatic, supplier |-> n.supplier,
           stock |-> n.stock]
  BY <1>1 DEF Saved
<1>3. /\ n.mode \in {"LEGACY", "MULTI_PROVIDER"} /\ n.automatic \in BOOLEAN
      /\ n.supplier \in Suppliers \cup {None} /\ n.stock \in Stock \cup {None}
  BY <1>1 DEF Saved, SoldDoc
<1> HIDE DEF n
<1>4. n \in SoldDoc
  BY <1>2, <1>3 DEF SoldDoc
<1> QED
  BY <1>4 DEF n

LEMMA SaveProductStep ==
  ASSUME OffersInv, NEW r \in Reviews, SaveProduct(r)
  PROVE  OffersInv'
<1>1. sold \in SoldDoc /\ desk[r].copy \in SoldDoc /\ desk[r].edited \in SoldDoc
  BY DEF SaveProduct, OffersInv, OfferedRight, DeskRight
<1>2. sold' \in SoldDoc
  BY <1>1, SavedSold DEF SaveProduct
<1>3. OfferedRight'
  BY <1>2 DEF SaveProduct, CheckoutsStay, OffersInv, OfferedRight
<1> QED
  BY <1>3, DeskStops DEF SaveProduct, CheckoutsStay

LEMMA DetachStep ==
  ASSUME OffersInv, NEW r \in Reviews, NEW v \in Suppliers, DetachProvider(r, v)
  PROVE  OffersInv'
<1> DEFINE k == [desk[r] EXCEPT !.pc = "provider", !.offer = v]
<1>1. desk' = [desk EXCEPT ![r] = k]
  BY DEF DetachProvider, OffersInv, Desk
<1>2. k \in Desk /\ k.pc = "provider" /\ k.offer = v
  BY DEF OffersInv, Desk
<1> HIDE DEF k
<1>3. DeskRight(r)'
  BY <1>1, <1>2 DEF OffersInv, DeskRight
<1>4. sold' \in SoldDoc
  <2>1. sold \in SoldDoc
    BY DEF OffersInv, OfferedRight
  <2>2. [sold EXCEPT !.supplier = None, !.stock = None, !.automatic = FALSE] \in SoldDoc
    BY <2>1 DEF SoldDoc
  <2> QED
    BY <2>1, <2>2 DEF DetachProvider
<1>5. OfferedRight'
  BY <1>4 DEF DetachProvider, CheckoutsStay, OffersInv, OfferedRight
<1> QED
  BY <1>1, <1>2, <1>3, <1>5, DeskTurns DEF DetachProvider, CheckoutsStay

LEMMA SupplierStep ==
  ASSUME OffersInv, NEW r \in Reviews, DeleteProvider(r) \/ \E v \in Suppliers : updateProvider(r, v)
  PROVE  OffersInv'
<1>1. supplier' \in Statuses
  BY DEF DeleteProvider, updateProvider, OffersInv, OfferedRight, Statuses
<1>2. OfferedRight'
  BY <1>1 DEF DeleteProvider, updateProvider, OffersInv, OfferedRight
<1> QED
  BY <1>2, DeskStops DEF DeleteProvider, updateProvider

LEMMA ListedStep ==
  ASSUME OffersInv, NEW p \in Stock, upsertProviderProduct(p) \/ PriceGetsOld(p)
  PROVE  OffersInv'
<1>1. listed' \in Entered
  <2>1. ASSUME NEW entry \in Entries, listed' = [listed EXCEPT ![p] = entry]
        PROVE  listed' \in Entered
    <3>1. entry \in EntryDoc
      BY EntriesAssumption DEF EntryDoc
    <3> QED
      BY <2>1, <3>1 DEF OffersInv, OfferedRight, Entered
  <2>2. ASSUME listed' = [listed EXCEPT ![p].fresh = FALSE] PROVE listed' \in Entered
    BY <2>2 DEF OffersInv, OfferedRight, Entered, EntryDoc
  <2> QED
    BY <2>1, <2>2 DEF upsertProviderProduct, PriceGetsOld
<1>2. UNCHANGED <<supplier, offer, sold, checkout, desk>>
  BY DEF upsertProviderProduct, PriceGetsOld
<1> QED
  BY <1>1, <1>2 DEF OffersInv, OfferedRight, CheckoutRight, DeskRight

LEMMA OffersStep == OffersInv /\ [OffersNext]_offersVars => OffersInv'
<1> SUFFICES ASSUME OffersInv, [OffersNext]_offersVars PROVE OffersInv'
  OBVIOUS
<1>1. CASE UNCHANGED offersVars
  BY <1>1 DEF offersVars, OffersInv, OfferedRight, CheckoutRight, DeskRight
<1>2. ASSUME NEW b \in Checkouts, CheckoutStep(b) PROVE OffersInv'
  BY <1>2, ResolveAdapterStep, LoadProductStep, FindOffersStep, PopulateProvidersStep,
     PopulateProductsStep, SelectStep, InsertOrderStep, ResolveProviderStep, DispatchStep,
     RetryOrderStep DEF CheckoutStep
<1>3. ASSUME NEW r \in Reviews, DeskStep(r) PROVE OffersInv'
  BY <1>3, BeginCreateStep, BeginUpdateOfferStep, BeginRemoveStep, CheckOfferStep, SaveOfferStep,
     RemoveOfferStep, BeginUpdateProductStep, ConfigStep, SaveProductStep, DetachStep,
     SupplierStep DEF DeskStep
<1> QED
  BY <1>1, <1>2, <1>3, ListedStep DEF OffersNext

LEMMA OffersInvSays == OffersInv => OffersTypeOK /\ SentAsRouted
<1> SUFFICES ASSUME OffersInv PROVE OffersTypeOK /\ SentAsRouted
  OBVIOUS
<1>1. OffersTypeOK
  BY DEF OffersInv, OfferedRight, CheckoutRight, OffersTypeOK, Statuses, OfferDocs
<1>2. SentAsRouted
  BY DEF OffersInv, CheckoutRight, SentAsRouted
<1> QED
  BY <1>1, <1>2

-----------------------------------------------------------------------------
(* The office.                                                             *)

\* Every behaviour of the office is one of each scene.
LEMMA OfficeBeginsScenes ==
  ASSUME OfficeInit
  PROVE  /\ PayoutInit /\ TargetInit /\ AccountInit /\ RegistrationInit /\ RatesInit
         /\ ResellersInit /\ OffersInit
BY DEF OfficeInit

LEMMA OfficeStepsScenes ==
  ASSUME [OfficeNext]_officeVars
  PROVE  /\ [PayoutNext]_payoutVars /\ [TargetNext]_targetVars /\ [AccountNext]_accountVars
         /\ [RegistrationNext]_registrationVars /\ [RatesNext]_ratesVars
         /\ [ResellersNext]_resellerVars /\ [OffersNext]_offersVars
<1>1. CASE UNCHANGED officeVars
  BY <1>1 DEF officeVars
<1>2. CASE OfficeNext
  <2>1. [PayoutNext]_payoutVars
    BY <1>2 DEF OfficeNext, Others
  <2>2. [TargetNext]_targetVars
    BY <1>2 DEF OfficeNext, Others
  <2>3. [AccountNext]_accountVars
    BY <1>2 DEF OfficeNext, Others
  <2>4. [RegistrationNext]_registrationVars
    BY <1>2 DEF OfficeNext, Others
  <2>5. [RatesNext]_ratesVars
    BY <1>2 DEF OfficeNext, Others
  <2>6. [ResellersNext]_resellerVars
    BY <1>2 DEF OfficeNext, Others
  <2>7. [OffersNext]_offersVars
    BY <1>2 DEF OfficeNext, Others
  <2> QED
    BY <2>1, <2>2, <2>3, <2>4, <2>5, <2>6, <2>7
<1> QED
  BY <1>1, <1>2

LEMMA PayoutsHold ==
  ASSUME IsFiniteSet(Commissions)
  PROVE  OfficeSpec => []PayoutInv
<1>1. OfficeInit => PayoutInv
  BY OfficeBeginsScenes, PayoutInitInv
<1>2. PayoutInv /\ [OfficeNext]_officeVars => PayoutInv'
  BY OfficeStepsScenes, PayoutStep
<1> QED
  BY <1>1, <1>2, PTL DEF OfficeSpec

LEMMA TargetsHold == OfficeSpec => []TargetInv
<1>1. OfficeInit => TargetInv
  BY OfficeBeginsScenes, TargetInitInv
<1>2. TargetInv /\ [OfficeNext]_officeVars => TargetInv'
  BY OfficeStepsScenes, TargetStep
<1> QED
  BY <1>1, <1>2, PTL DEF OfficeSpec

LEMMA AccountsSceneHolds == OfficeSpec => []AccountInv
<1>1. OfficeInit => AccountInv
  BY OfficeBeginsScenes, AccountInitInv
<1>2. AccountInv /\ [OfficeNext]_officeVars => AccountInv'
  BY OfficeStepsScenes, AccountStep
<1> QED
  BY <1>1, <1>2, PTL DEF OfficeSpec

LEMMA RegistrationsHold == OfficeSpec => []RegistrationInv
<1>1. OfficeInit => RegistrationInv
  BY OfficeBeginsScenes, RegistrationInitInv
<1>2. RegistrationInv /\ [OfficeNext]_officeVars => RegistrationInv'
  BY OfficeStepsScenes, RegistrationStep
<1> QED
  BY <1>1, <1>2, PTL DEF OfficeSpec

LEMMA RatesSceneHolds == OfficeSpec => []RatesInv
<1>1. OfficeInit => RatesInv
  BY OfficeBeginsScenes, RatesInitInv
<1>2. RatesInv /\ [OfficeNext]_officeVars => RatesInv'
  BY OfficeStepsScenes, RatesStep
<1> QED
  BY <1>1, <1>2, PTL DEF OfficeSpec

LEMMA ResellersSceneHolds == OfficeSpec => []ResellersInv
<1>1. OfficeInit => ResellersInv
  BY OfficeBeginsScenes, ResellersInitInv
<1>2. ResellersInv /\ [OfficeNext]_officeVars => ResellersInv'
  BY OfficeStepsScenes, ResellersStep
<1> QED
  BY <1>1, <1>2, PTL DEF OfficeSpec

LEMMA OffersSceneHolds == OfficeSpec => []OffersInv
<1>1. OfficeInit => OffersInv
  BY OfficeBeginsScenes, OffersInitInv
<1>2. OffersInv /\ [OfficeNext]_officeVars => OffersInv'
  BY OfficeStepsScenes, OffersStep
<1> QED
  BY <1>1, <1>2, PTL DEF OfficeSpec

-----------------------------------------------------------------------------
(* What the office promises.                                               *)

\* The documents of all seven scenes fit their schemas in every state.
THEOREM OfficeTypeCorrect ==
  ASSUME IsFiniteSet(Commissions)
  PROVE  OfficeSpec => []OfficeTypeOK
<1>1. PayoutInv /\ TargetInv /\ AccountInv /\ RegistrationInv /\ RatesInv /\ ResellersInv
      /\ OffersInv => OfficeTypeOK
  BY PayoutInvSays, TargetInvSays, AccountInvSays, RegistrationInvSays, RatesInvSays,
     ResellersInvSays, OffersInvSays DEF OfficeTypeOK
<1> QED
  BY <1>1, PayoutsHold, TargetsHold, AccountsSceneHolds, RegistrationsHold, RatesSceneHolds,
     ResellersSceneHolds, OffersSceneHolds, PTL

\* auditReferralPayouts finds nothing in any state that concurrent requests, reviews and
\* retried transactions go through (referralPayout.service.js).
THEOREM PayoutsAddUp ==
  ASSUME IsFiniteSet(Commissions)
  PROVE  OfficeSpec => []AuditIsClean
<1>1. PayoutInv => AuditIsClean
  BY PayoutInvSays
<1> QED
  BY <1>1, PayoutsHold, PTL

\* However many requests carry one idempotency key, one payout is created for it
\* (createReferralPayout).
THEOREM PayoutKeysWork ==
  ASSUME IsFiniteSet(Commissions)
  PROVE  OfficeSpec => []OneKeyOnePayout
<1>1. PayoutInv => OneKeyOnePayout
  BY PayoutInvSays
<1> QED
  BY <1>1, PayoutsHold, PTL

\* One key, one target order; one order, one decision (targetOrder.service.js).
THEOREM TargetOrdersAreOnce == OfficeSpec => []TargetOnce
<1>1. TargetInv => TargetOnce
  BY TargetInvSays
<1> QED
  BY <1>1, TargetsHold, PTL

\* The slot of a sub-agent's request is taken exactly while one request is pending, whatever
\* else saves the user document from an older copy (subAgentRequest.service.js).
THEOREM SlotsMatch == OfficeSpec => []SlotMatchesRequest
<1>1. AccountInv => SlotMatchesRequest
  BY AccountInvSays
<1> QED
  BY <1>1, AccountsSceneHolds, PTL

\* A reseller has exactly one approved request and nobody else has one.
THEOREM ResellersAreOnRecord == OfficeSpec => []ResellerOnRecord
<1>1. AccountInv => ResellerOnRecord
  BY AccountInvSays
<1> QED
  BY <1>1, AccountsSceneHolds, PTL

\* An address, a Google id, an invitation code and an OAuth state each lead to one account
\* or sign-in (auth.service.js, googleOAuth.service.js, referral.service.js).
THEOREM AccountsAreDistinct == OfficeSpec => []EachOnce
<1>1. RegistrationInv => EachOnce
  BY RegistrationInvSays
<1> QED
  BY <1>1, RegistrationsHold, PTL

\* Who invited an account and the code it invites with never change, in any step of any
\* request, retry or run of the backfill (referral.service.js).
THEOREM CodesNeverChange == OfficeSpec => CodesAreForGood
<1>1. RegistrationInv /\ [OfficeNext]_officeVars => [CodesStay]_registrationVars
  BY OfficeStepsScenes, CodesStayInStep
<1> QED
  BY <1>1, RegistrationsHold, PTL DEF OfficeSpec, CodesAreForGood, CodesStay

\* Every order is charged at a rate at which its currency was once offered, and with
\* transactions in the currency the balance is in at the debit (order.service.js,
\* currencyConverter.service.js).
THEOREM ChargesAreBilled == OfficeSpec => []ChargedAsBilled
<1>1. RatesInv => ChargedAsBilled
  BY RatesInvSays
<1> QED
  BY <1>1, RatesSceneHolds, PTL

\* An id that a reseller was told of a product or an order is its id for good and of nothing
\* else (clientCompat.service.js).
THEOREM ResellersIdsStay == OfficeSpec => []IdsAreForGood
<1>1. ResellersInv => IdsAreForGood
  BY ResellersInvSays
<1> QED
  BY <1>1, ResellersSceneHolds, PTL

\* A routed order is only ever sent to the provider chosen for it, for the product it was
\* costed at, and a price per unit was multiplied (executeOrder, retryOrder,
\* getComparableProviderCost).
THEOREM OrdersGoAsRouted == OfficeSpec => []SentAsRouted
<1>1. OffersInv => SentAsRouted
  BY OffersInvSays
<1> QED
  BY <1>1, OffersSceneHolds, PTL
=============================================================================
