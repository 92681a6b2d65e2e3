---------------------------- MODULE DepositProofs -----------------------------
(***************************************************************************)
(* The invariants of deposits and their commissions, for any number of     *)
(* deposits and concurrent requests, all amounts, percentages and rates.   *)
(***************************************************************************)
EXTENDS PaymentEvents, FiniteSetTheorems, TLAPS

NoEdits == NoneAsked({"edit"})

\* A request without an operation has not begun, and only edits save an amount.
Begun ==
    \A a \in Admins :
        /\ admin[a].pc = "new" => admin[a].op = None
        /\ admin[a].pc = "save" => admin[a].op = "edit" /\ admin[a].new \in Amounts

\* A deposit that was requested has an amount.
HasAmount == \A d \in Deposits : deposit[d].status # "absent" => deposit[d].amount \in Amounts

\* A reconciliation works on an approved deposit, with its amount unless it was edited.
OnApproved ==
    \A a \in Admins :
        admin[a].pc \in {"mark", "evaluate", "create", "outcome"} =>
            /\ admin[a].deposit \in Deposits
            /\ deposit[admin[a].deposit].status = "APPROVED"
            /\ admin[a].read \in Amounts
            /\ NoEdits => admin[a].read = deposit[admin[a].deposit].amount

\* What is about to become a commission is one for a deposit in the window.
AboutToCreate ==
    \A a \in Admins :
        admin[a].pc = "create" =>
            /\ admin[a].snapshot \in Snapshot /\ admin[a].snapshot.amount = admin[a].read
            /\ deposit[admin[a].deposit].inWindow

\* Who is about to mark a deposit as processed has seen its commission.
AboutToMark ==
    \A a \in Admins :
        admin[a].pc = "outcome" /\ admin[a].mark = "PROCESSED" =>
            commission[admin[a].deposit] # NoCommission

IInv ==
    /\ DepositTypeOK /\ HasAmount /\ Begun /\ OnApproved /\ AboutToCreate /\ AboutToMark
    /\ CreditedOnce /\ CommissionBacked /\ ProcessedHasCommission

-----------------------------------------------------------------------------

LEMMA CreditType ==
    ASSUME NEW amount \in Amounts, NEW foreign \in BOOLEAN
    PROVE  Credit(amount, foreign) \in Nat
<1>1. amount \in Nat /\ ToRate \in Nat /\ FromRate \in Nat \ {0}
  BY AmountsAssumption, RatesAssumption
<1>2. amount * ToRate \in Nat
  BY <1>1
<1>3. \A n \in Nat, k \in Nat \ {0} : n \div k \in Nat
  OBVIOUS
<1> QED BY <1>1, <1>2, <1>3 DEF Credit

\* A commission that is due has a percentage.
LEMMA OutcomeType ==
    ASSUME DepositTypeOK, NEW inWindow \in BOOLEAN
    PROVE  /\ Outcome(inWindow) \in Marks \ {"PENDING"}
           /\ Outcome(inWindow) = "PROCESSED" =>
                 inWindow /\ referral.percent \in Percents \ {0}
BY DEF Outcome, Marks, DepositTypeOK, Referral

LEMMA SnapshotIsSome == \A s \in Snapshot : s # NoCommission
BY AmountsAssumption DEF Snapshot, NoCommission

\* One request moves on; an operation once chosen stays, so what nobody asks for now
\* nobody asked for before.
LEMMA OneMoves ==
    ASSUME DepositTypeOK, Begun, NEW a \in Admins, NEW req \in Request,
           admin' = [admin EXCEPT ![a] = req],
           admin[a].pc = "new" \/ req.op = admin[a].op
    PROVE  /\ admin' \in [Admins -> Request]
           /\ admin'[a] = req
           /\ \A b \in Admins : b # a => admin'[b] = admin[b]
           /\ NoEdits' => NoEdits /\ req.op # "edit"
<1>1. /\ admin' \in [Admins -> Request]
      /\ admin'[a] = req
      /\ \A b \in Admins : b # a => admin'[b] = admin[b]
  BY DEF DepositTypeOK
<1>2. admin[a].pc = "new" => admin[a].op # "edit"
  BY OpsAssumption DEF Begun, AdminOps
<1>3. NoEdits' => NoEdits /\ req.op # "edit"
  BY <1>1, <1>2 DEF NoEdits, NoneAsked
<1> QED BY <1>1, <1>3

-----------------------------------------------------------------------------
(* Steps that change no document.                                          *)

LEMMA QuietStep ==
    ASSUME IInv, NEW a \in Admins, NEW req \in Request,
           admin' = [admin EXCEPT ![a] = req], UNCHANGED <<deposit, money, referral>>,
           admin[a].pc = "new" \/ req.op = admin[a].op,
           req.pc # "new",
           req.pc = "save" => req.op = "edit" /\ req.new \in Amounts,
           req.pc \in {"mark", "evaluate", "create", "outcome"} =>
               /\ req.deposit \in Deposits /\ deposit[req.deposit].status = "APPROVED"
               /\ req.read \in Amounts
               /\ NoEdits => req.read = deposit[req.deposit].amount,
           req.pc = "create" =>
               /\ req.snapshot \in Snapshot /\ req.snapshot.amount = req.read
               /\ deposit[req.deposit].inWindow,
           req.pc = "outcome" /\ req.mark = "PROCESSED" =>
               commission[req.deposit] # NoCommission
    PROVE  IInv'
<1>1. /\ admin' \in [Admins -> Request]
      /\ admin'[a] = req
      /\ \A b \in Admins : b # a => admin'[b] = admin[b]
      /\ NoEdits' => NoEdits
  BY OneMoves DEF IInv
<1>2. DepositTypeOK'
  BY <1>1 DEF IInv, DepositTypeOK, money
<1>3. Begun' /\ HasAmount'
  BY <1>1 DEF IInv, Begun, HasAmount
<1>4. OnApproved'
  BY <1>1 DEF IInv, OnApproved
<1>5. AboutToCreate'
  BY <1>1 DEF IInv, AboutToCreate
<1>6. AboutToMark'
  BY <1>1 DEF IInv, AboutToMark, money
<1>7. CreditedOnce' /\ CommissionBacked'
  BY <1>1 DEF IInv, CreditedOnce, CommissionBacked, NoEdits, Due, money
<1>8. ProcessedHasCommission'
  BY DEF IInv, ProcessedHasCommission, money
<1> QED BY <1>2, <1>3, <1>4, <1>5, <1>6, <1>7, <1>8 DEF IInv

LEMMA EditReadStep ==
    ASSUME IInv, NEW a \in Admins, NEW d \in Deposits, NEW amount \in Amounts,
           EditRead(a, d, amount)
    PROVE  IInv'
<1> DEFINE req == [admin[a] EXCEPT !.pc = "save", !.op = "edit", !.deposit = d,
                                   !.read = deposit[d].amount, !.new = amount]
<1>1. req \in Request
  BY DEF IInv, DepositTypeOK, EditRead, Request, DepositDoc
<1>2. req.pc = "save" /\ req.op = "edit" /\ req.new = amount
  BY DEF IInv, DepositTypeOK, Request
<1>3. admin' = [admin EXCEPT ![a] = req] /\ admin[a].pc = "new"
      /\ UNCHANGED <<deposit, money, referral>>
  BY DEF EditRead
<1> HIDE DEF req
<1> QED BY <1>1, <1>2, <1>3, QuietStep

LEMMA ReconcileFindStep ==
    ASSUME IInv, NEW a \in Admins, NEW d \in Deposits, NEW op \in Ops,
           ReconcileFind(a, d, op)
    PROVE  IInv'
<1> DEFINE req == [admin[a] EXCEPT !.pc = "mark", !.op = op, !.deposit = d,
                                   !.read = deposit[d].amount]
<1>1. req \in Request
  BY DEF IInv, DepositTypeOK, ReconcileFind, Request, DepositDoc
<1>2. req.pc = "mark" /\ req.op = op /\ req.deposit = d /\ req.read = deposit[d].amount
  BY DEF IInv, DepositTypeOK, Request
<1>3. admin' = [admin EXCEPT ![a] = req] /\ admin[a].pc = "new"
      /\ deposit[d].status = "APPROVED" /\ UNCHANGED <<deposit, money, referral>>
  BY DEF ReconcileFind
<1>4. deposit[d].amount \in Amounts
  BY <1>3 DEF IInv, HasAmount
<1> HIDE DEF req
<1> QED BY <1>1, <1>2, <1>3, <1>4, QuietStep

LEMMA ReconcileEvaluateStep ==
    ASSUME IInv, NEW a \in Admins, ReconcileEvaluate(a)
    PROVE  IInv'
<1> DEFINE d == admin[a].deposit
           mark == Outcome(deposit[d].inWindow)
           snapshot == IF mark = "PROCESSED"
                       THEN [amount |-> admin[a].read, percent |-> referral.percent]
                       ELSE NoCommission
           req == [admin[a] EXCEPT !.pc = NextAfter(mark), !.mark = mark,
                                   !.snapshot = snapshot]
<1>1. /\ admin[a].pc = "evaluate" /\ admin[a] \in Request
      /\ d \in Deposits /\ deposit[d] \in DepositDoc /\ deposit[d].status = "APPROVED"
      /\ admin[a].read \in Amounts
      /\ NoEdits => admin[a].read = deposit[d].amount
  BY DEF IInv, OnApproved, ReconcileEvaluate, DepositTypeOK
<1>2. /\ mark \in Marks
      /\ mark = "PROCESSED" =>
            deposit[d].inWindow /\ referral.percent \in Percents \ {0}
  BY <1>1, OutcomeType DEF IInv, DepositDoc
<1>3. /\ snapshot \in Snapshot \cup {NoCommission}
      /\ mark = "PROCESSED" => snapshot \in Snapshot /\ snapshot.amount = admin[a].read
  BY <1>1, <1>2 DEF Snapshot
<1>4. NextAfter(mark) = IF mark = "PROCESSED" THEN "create" ELSE "outcome"
  BY DEF NextAfter
<1>5. admin' = [admin EXCEPT ![a] = req] /\ UNCHANGED <<deposit, money, referral>>
  BY DEF ReconcileEvaluate
<1> HIDE DEF mark, snapshot
<1>6. /\ req \in Request
      /\ req.pc = (IF mark = "PROCESSED" THEN "create" ELSE "outcome")
      /\ req.op = admin[a].op /\ req.mark = mark /\ req.snapshot = snapshot
      /\ req.deposit = d /\ req.read = admin[a].read
  BY <1>1, <1>2, <1>3, <1>4 DEF Request
<1> HIDE DEF req
<1> QED BY <1>1, <1>2, <1>3, <1>5, <1>6, QuietStep

LEMMA AdminDiesStep ==
    ASSUME IInv, NEW a \in Admins, AdminDies(a)
    PROVE  IInv'
<1> DEFINE req == [admin[a] EXCEPT !.pc = "dead"]
<1>1. req \in Request /\ req.pc = "dead" /\ req.op = admin[a].op
  BY DEF IInv, DepositTypeOK, Request
<1>2. admin' = [admin EXCEPT ![a] = req] /\ UNCHANGED <<deposit, money, referral>>
  BY DEF AdminDies
<1> HIDE DEF req
<1> QED BY <1>1, <1>2, QuietStep

-----------------------------------------------------------------------------
(* Marks and edits: steps that change an existing deposit.                 *)

\* A mark changes neither the status nor what is owed; it may say PROCESSED only when
\* the commission is there.
LEMMA MarkStep ==
    ASSUME IInv, NEW a \in Admins, NEW req \in Request, NEW mark \in Marks,
           admin' = [admin EXCEPT ![a] = req], UNCHANGED <<money, referral>>,
           admin[a].pc \in {"mark", "outcome"}, Mark(admin[a].deposit, mark),
           mark = "PROCESSED" => commission[admin[a].deposit] # NoCommission,
           req.op = admin[a].op, req.deposit = admin[a].deposit, req.read = admin[a].read,
           req.pc \in {"evaluate", "done"}
    PROVE  IInv'
<1> DEFINE d == admin[a].deposit
<1>1. /\ admin' \in [Admins -> Request]
      /\ admin'[a] = req
      /\ \A b \in Admins : b # a => admin'[b] = admin[b]
      /\ NoEdits' => NoEdits
  BY OneMoves DEF IInv
<1>2. /\ d \in Deposits /\ deposit[d].status = "APPROVED" /\ admin[a].read \in Amounts
      /\ NoEdits => admin[a].read = deposit[d].amount
  BY DEF IInv, OnApproved
<1>3. /\ deposit' \in [Deposits -> DepositDoc]
      /\ deposit'[d].mark = mark
      /\ \A e \in Deposits :
            /\ deposit'[e].status = deposit[e].status /\ deposit'[e].amount = deposit[e].amount
            /\ deposit'[e].foreign = deposit[e].foreign
            /\ deposit'[e].inWindow = deposit[e].inWindow
            /\ e # d => deposit'[e].mark = deposit[e].mark
  <2> DEFINE processed == mark = "PROCESSED"
             doc == [deposit[d] EXCEPT !.mark = mark, !.linked = processed]
  <2>1. deposit \in [Deposits -> DepositDoc] /\ deposit[d] \in DepositDoc
    BY <1>2 DEF IInv, DepositTypeOK
  <2>2. processed \in BOOLEAN
    OBVIOUS
  <2>3. deposit' = [deposit EXCEPT ![d] = doc]
    BY DEF Mark
  <2> HIDE DEF processed
  <2>4. /\ doc \in DepositDoc /\ doc.mark = mark
        /\ doc.status = deposit[d].status /\ doc.amount = deposit[d].amount
        /\ doc.foreign = deposit[d].foreign /\ doc.inWindow = deposit[d].inWindow
    BY <2>1, <2>2 DEF DepositDoc
  <2> HIDE DEF doc
  <2> QED BY <1>2, <2>1, <2>3, <2>4
<1>4. DepositTypeOK'
  BY <1>1, <1>3 DEF IInv, DepositTypeOK, money
<1>5. Begun' /\ HasAmount'
  BY <1>1, <1>3 DEF IInv, Begun, HasAmount
<1>6. OnApproved'
  BY <1>1, <1>2, <1>3 DEF IInv, OnApproved
<1>7. AboutToCreate'
  BY <1>1, <1>3 DEF IInv, AboutToCreate, OnApproved
<1>8. AboutToMark'
  BY <1>1 DEF IInv, AboutToMark, money
<1>9. CreditedOnce' /\ CommissionBacked'
  BY <1>1, <1>3 DEF IInv, CreditedOnce, CommissionBacked, NoEdits, Due, money
<1>10. ProcessedHasCommission'
  BY <1>3 DEF IInv, ProcessedHasCommission, money
<1> QED BY <1>4, <1>5, <1>6, <1>7, <1>8, <1>9, <1>10 DEF IInv

LEMMA ReconcileMarkStep ==
    ASSUME IInv, NEW a \in Admins, ReconcileMark(a)
    PROVE  IInv'
<1> DEFINE req == [admin[a] EXCEPT !.pc = "evaluate"]
<1>1. /\ req \in Request /\ req.pc = "evaluate" /\ req.op = admin[a].op
      /\ req.deposit = admin[a].deposit /\ req.read = admin[a].read
  BY DEF IInv, DepositTypeOK, Request
<1>2. /\ admin' = [admin EXCEPT ![a] = req] /\ admin[a].pc = "mark"
      /\ Mark(admin[a].deposit, "PENDING") /\ UNCHANGED <<money, referral>>
  BY DEF ReconcileMark
<1>3. "PENDING" \in Marks
  BY DEF Marks
<1> HIDE DEF req
<1> QED BY <1>1, <1>2, <1>3, MarkStep

LEMMA ReconcileOutcomeStep ==
    ASSUME IInv, NEW a \in Admins, ReconcileOutcome(a)
    PROVE  IInv'
<1> DEFINE req == [admin[a] EXCEPT !.pc = "done"]
<1>1. /\ req \in Request /\ req.pc = "done" /\ req.op = admin[a].op
      /\ req.deposit = admin[a].deposit /\ req.read = admin[a].read
      /\ admin[a].mark \in Marks
  BY DEF IInv, DepositTypeOK, Request
<1>2. /\ admin' = [admin EXCEPT ![a] = req] /\ admin[a].pc = "outcome"
      /\ Mark(admin[a].deposit, admin[a].mark) /\ UNCHANGED <<money, referral>>
  BY DEF ReconcileOutcome
<1>3. admin[a].mark = "PROCESSED" => commission[admin[a].deposit] # NoCommission
  BY <1>2 DEF IInv, AboutToMark
<1> HIDE DEF req
<1> QED BY <1>1, <1>2, <1>3, MarkStep

\* Whoever saved an edit has asked for one, so nothing is claimed of the amounts.
LEMMA EditSaveStep ==
    ASSUME IInv, NEW a \in Admins, EditSave(a)
    PROVE  IInv'
<1> DEFINE d == admin[a].deposit
           req == [admin[a] EXCEPT !.pc = "done"]
<1>1. req \in Request /\ req.pc = "done" /\ req.op = admin[a].op
  BY DEF IInv, DepositTypeOK, Request
<1>2. /\ admin' = [admin EXCEPT ![a] = req] /\ admin[a].pc = "save"
      /\ UNCHANGED <<money, referral>>
      /\ deposit' = IF admin[a].new = admin[a].read THEN deposit
                    ELSE [deposit EXCEPT ![d].amount = admin[a].new]
  BY DEF EditSave
<1>3. admin[a].op = "edit" /\ admin[a].new \in Amounts
  BY <1>2 DEF IInv, Begun
<1> HIDE DEF req
<1>4. /\ admin' \in [Admins -> Request]
      /\ admin'[a] = req
      /\ \A b \in Admins : b # a => admin'[b] = admin[b]
      /\ ~NoEdits'
  BY <1>1, <1>2, <1>3, OneMoves DEF IInv
<1>5. /\ deposit' \in [Deposits -> DepositDoc]
      /\ \A e \in Deposits :
            /\ deposit'[e].status = deposit[e].status /\ deposit'[e].mark = deposit[e].mark
            /\ deposit'[e].inWindow = deposit[e].inWindow
            /\ deposit'[e].amount \in {deposit[e].amount, admin[a].new}
  <2>1. deposit \in [Deposits -> DepositDoc]
    BY DEF IInv, DepositTypeOK
  <2>2. CASE admin[a].new = admin[a].read
    BY <1>2, <2>1, <2>2
  <2>3. CASE admin[a].new # admin[a].read
    BY <1>2, <1>3, <2>1, <2>3 DEF DepositDoc
  <2> QED BY <2>2, <2>3
<1>6. DepositTypeOK'
  BY <1>2, <1>4, <1>5 DEF IInv, DepositTypeOK, money
<1>7. Begun' /\ HasAmount'
  BY <1>1, <1>3, <1>4, <1>5 DEF IInv, Begun, HasAmount
<1>8. OnApproved'
  BY <1>1, <1>4, <1>5 DEF IInv, OnApproved
<1>9. AboutToCreate'
  BY <1>1, <1>4, <1>5 DEF IInv, AboutToCreate, OnApproved
<1>10. AboutToMark' /\ ProcessedHasCommission'
  BY <1>1, <1>2, <1>4, <1>5 DEF IInv, AboutToMark, ProcessedHasCommission, money
<1>11. CreditedOnce' /\ CommissionBacked'
  BY <1>2, <1>4, <1>5 DEF IInv, CreditedOnce, CommissionBacked, NoEdits, money
<1> QED BY <1>6, <1>7, <1>8, <1>9, <1>10, <1>11 DEF IInv

\* The insert under the unique key: a commission, once there, stays as it is.
LEMMA CreateCommissionStep ==
    ASSUME IInv, NEW a \in Admins, createCommissionRecord(a)
    PROVE  IInv'
<1> DEFINE d == admin[a].deposit
           fresh == commission[d] = NoCommission
           req == [admin[a] EXCEPT !.pc = "outcome",
                      !.mark = IF fresh \/ commission[d] = admin[a].snapshot
                               THEN "PROCESSED" ELSE "FAILED"]
<1>1. /\ admin[a].pc = "create" /\ admin[a] \in Request
      /\ d \in Deposits /\ deposit[d].status = "APPROVED" /\ admin[a].read \in Amounts
      /\ NoEdits => admin[a].read = deposit[d].amount
      /\ admin[a].snapshot \in Snapshot /\ admin[a].snapshot.amount = admin[a].read
      /\ deposit[d].inWindow
  BY DEF IInv, OnApproved, AboutToCreate, DepositTypeOK, createCommissionRecord
<1>2. /\ req \in Request /\ req.pc = "outcome" /\ req.op = admin[a].op
      /\ req.deposit = d /\ req.read = admin[a].read
  BY <1>1 DEF Request, Marks
<1>3. /\ admin' = [admin EXCEPT ![a] = req] /\ UNCHANGED <<deposit, credited, referral>>
      /\ commission' = IF fresh THEN [commission EXCEPT ![d] = admin[a].snapshot]
                       ELSE commission
  BY DEF createCommissionRecord
<1>4. admin[a].snapshot # NoCommission
  BY <1>1, SnapshotIsSome
<1>5. /\ commission' \in [Deposits -> Snapshot \cup {NoCommission}]
      /\ commission'[d] # NoCommission
      /\ commission'[d] \in {commission[d], admin[a].snapshot}
      /\ fresh => commission'[d] = admin[a].snapshot
      /\ \A e \in Deposits : e # d \/ ~fresh => commission'[e] = commission[e]
  BY <1>1, <1>3, <1>4 DEF IInv, DepositTypeOK
<1> HIDE DEF req, fresh
<1>6. /\ admin' \in [Admins -> Request]
      /\ admin'[a] = req
      /\ \A b \in Admins : b # a => admin'[b] = admin[b]
      /\ NoEdits' => NoEdits
  BY <1>2, <1>3, OneMoves DEF IInv
<1>7. \A e \in Deposits : commission[e] # NoCommission => commission'[e] # NoCommission
  BY <1>5
<1>8. DepositTypeOK'
  BY <1>3, <1>5, <1>6 DEF IInv, DepositTypeOK
<1>9. Begun' /\ HasAmount'
  BY <1>2, <1>3, <1>6 DEF IInv, Begun, HasAmount
<1>10. OnApproved'
  BY <1>1, <1>2, <1>3, <1>6 DEF IInv, OnApproved
<1>11. AboutToCreate'
  BY <1>2, <1>3, <1>6 DEF IInv, AboutToCreate
<1>12. AboutToMark'
  <2> SUFFICES ASSUME NEW b \in Admins, admin'[b].pc = "outcome", admin'[b].mark = "PROCESSED"
               PROVE  commission'[admin'[b].deposit] # NoCommission
    BY DEF AboutToMark
  <2>1. CASE b = a
    BY <1>2, <1>5, <1>6, <2>1
  <2>2. CASE b # a
    <3>1. commission[admin[b].deposit] # NoCommission /\ admin[b].deposit \in Deposits
      BY <1>6, <2>2 DEF IInv, AboutToMark, OnApproved
    <3> QED BY <1>6, <1>7, <2>2, <3>1
  <2> QED BY <2>1, <2>2
<1>13. CreditedOnce'
  BY <1>3, <1>6 DEF IInv, CreditedOnce, NoEdits, Due
<1>14. CommissionBacked'
  <2> SUFFICES ASSUME NEW e \in Deposits, commission'[e] # NoCommission
               PROVE  /\ deposit[e].status = "APPROVED" /\ deposit[e].inWindow
                      /\ NoEdits' => commission'[e].amount = deposit[e].amount
    BY <1>3 DEF CommissionBacked, NoEdits
  <2>1. CASE e = d /\ fresh
    BY <1>1, <1>5, <1>6, <2>1
  <2>2. CASE e # d \/ ~fresh
    BY <1>5, <1>6, <2>2 DEF IInv, CommissionBacked, NoEdits
  <2> QED BY <2>1, <2>2
<1>15. ProcessedHasCommission'
  BY <1>3, <1>7 DEF IInv, ProcessedHasCommission
<1> QED BY <1>8, <1>9, <1>10, <1>11, <1>12, <1>13, <1>14, <1>15 DEF IInv

-----------------------------------------------------------------------------
(* Requests and reviews.                                                   *)

\* A document that is not approved yet is replaced, together with what was credited
\* and the commission; no reconciliation is at work on it.
LEMMA DocumentStep ==
    ASSUME IInv, NEW d \in Deposits, NEW doc \in DepositDoc,
           deposit[d].status # "APPROVED",
           deposit' = [deposit EXCEPT ![d] = doc], UNCHANGED <<referral, admin>>,
           doc.amount \in Amounts,
           credited' \in [Deposits -> Nat],
           commission' \in [Deposits -> Snapshot \cup {NoCommission}],
           \A e \in Deposits : e # d =>
               credited'[e] = credited[e] /\ commission'[e] = commission[e],
           NoEdits => credited'[d] = IF doc.status = "APPROVED"
                                     THEN Credit(doc.amount, doc.foreign) ELSE 0,
           commission'[d] # NoCommission =>
               /\ doc.status = "APPROVED" /\ doc.inWindow
               /\ commission'[d].amount = doc.amount,
           doc.mark = "PROCESSED" => commission'[d] # NoCommission
    PROVE  IInv'
<1>1. /\ deposit' \in [Deposits -> DepositDoc]
      /\ deposit'[d] = doc
      /\ \A e \in Deposits : e # d => deposit'[e] = deposit[e]
  BY DEF IInv, DepositTypeOK
<1>2. \A a \in Admins :
          admin[a].pc \in {"mark", "evaluate", "create", "outcome"} =>
              admin[a].deposit \in Deposits /\ admin[a].deposit # d
  BY DEF IInv, OnApproved
<1>3. DepositTypeOK'
  BY <1>1 DEF IInv, DepositTypeOK
<1>4. Begun' /\ HasAmount'
  BY <1>1 DEF IInv, Begun, HasAmount
<1>5. OnApproved'
  BY <1>1, <1>2 DEF IInv, OnApproved, NoEdits, NoneAsked
<1>6. AboutToCreate'
  BY <1>1, <1>2 DEF IInv, AboutToCreate
<1>7. AboutToMark'
  BY <1>2 DEF IInv, AboutToMark
<1>8. CreditedOnce'
  BY <1>1 DEF IInv, CreditedOnce, NoEdits, NoneAsked, Due, Credit
<1>9. CommissionBacked'
  BY <1>1 DEF IInv, CommissionBacked, NoneAsked
<1>10. ProcessedHasCommission'
  BY <1>1 DEF IInv, ProcessedHasCommission
<1> QED BY <1>3, <1>4, <1>5, <1>6, <1>7, <1>8, <1>9, <1>10 DEF IInv

\* What holds of a deposit that is not approved.
LEMMA NotApproved ==
    ASSUME IInv, NEW d \in Deposits, deposit[d].status # "APPROVED"
    PROVE  /\ commission[d] = NoCommission
           /\ deposit[d].mark # "PROCESSED"
           /\ NoEdits => credited[d] = 0
BY DEF IInv, CommissionBacked, ProcessedHasCommission, CreditedOnce, NoEdits, Due

LEMMA RequestStepSafe ==
    ASSUME IInv, NEW d \in Deposits, NEW amount \in Amounts, NEW foreign \in Foreign,
           createDepositRequest(d, amount, foreign)
    PROVE  IInv'
<1> DEFINE doc == [Absent EXCEPT !.status = "PENDING", !.amount = amount,
                                 !.foreign = foreign]
<1>1. foreign \in BOOLEAN
  BY CrashAssumption
<1>2. /\ doc \in DepositDoc /\ doc.amount = amount
      /\ doc.status = "PENDING" /\ doc.mark = "NOT_APPLICABLE"
  BY <1>1 DEF DepositDoc, Absent, Marks
<1>3. /\ deposit[d].status # "APPROVED" /\ deposit' = [deposit EXCEPT ![d] = doc]
      /\ UNCHANGED <<credited, commission, referral, admin>>
  BY DEF createDepositRequest, money
<1>4. /\ credited \in [Deposits -> Nat]
      /\ commission \in [Deposits -> Snapshot \cup {NoCommission}]
  BY DEF IInv, DepositTypeOK
<1> HIDE DEF doc
<1> QED BY <1>2, <1>3, <1>4, NotApproved, DocumentStep

LEMMA RejectStep ==
    ASSUME IInv, NEW d \in Deposits, rejectDeposit(d)
    PROVE  IInv'
<1> DEFINE doc == [deposit[d] EXCEPT !.status = "REJECTED", !.reviewer = "ADMIN"]
<1>1. /\ deposit[d].status = "PENDING" /\ deposit' = [deposit EXCEPT ![d] = doc]
      /\ UNCHANGED <<credited, commission, referral, admin>>
  BY DEF rejectDeposit, Reviewable, money
<1>2. /\ deposit[d] \in DepositDoc
      /\ deposit[d].amount \in Amounts
      /\ credited \in [Deposits -> Nat]
      /\ commission \in [Deposits -> Snapshot \cup {NoCommission}]
  BY <1>1 DEF IInv, DepositTypeOK, HasAmount
<1>3. /\ doc \in DepositDoc /\ doc.amount = deposit[d].amount
      /\ doc.status = "REJECTED" /\ doc.mark = deposit[d].mark
  BY <1>2 DEF DepositDoc
<1> HIDE DEF doc
<1> QED BY <1>1, <1>2, <1>3, NotApproved, DocumentStep

\* The transaction of the approval.  Nothing was credited before it, since the
\* compare-and-swap takes a pending deposit.
LEMMA ApproveStep ==
    ASSUME IInv, NEW d \in Deposits, NEW reviewer \in Events \cup {"ADMIN"},
           NEW amount \in Amounts, NEW foreign \in BOOLEAN,
           approveDeposit(d, reviewer, amount, foreign)
    PROVE  IInv'
<1> DEFINE mark == Outcome(referral.open)
           processed == mark = "PROCESSED"
           doc == [deposit[d] EXCEPT
                      !.status = "APPROVED", !.amount = amount, !.foreign = foreign,
                      !.reviewer = reviewer, !.inWindow = referral.open,
                      !.mark = mark, !.linked = processed]
<1>1. /\ deposit[d].status = "PENDING"
      /\ credited' = [credited EXCEPT ![d] = @ + Credit(amount, foreign)]
      /\ commission' = IF mark # "PROCESSED" THEN commission
                       ELSE [commission EXCEPT
                                ![d] = [amount |-> amount, percent |-> referral.percent]]
      /\ deposit' = [deposit EXCEPT ![d] = doc]
      /\ UNCHANGED <<referral, admin>>
  BY DEF approveDeposit, Reviewable, CommissionAfter, Approved
<1>2. /\ deposit[d] \in DepositDoc
      /\ credited \in [Deposits -> Nat]
      /\ commission \in [Deposits -> Snapshot \cup {NoCommission}]
      /\ referral.open \in BOOLEAN
  BY DEF IInv, DepositTypeOK, Referral
<1>3. /\ mark \in Marks
      /\ mark = "PROCESSED" => referral.open /\ referral.percent \in Percents \ {0}
  BY <1>2, OutcomeType DEF IInv
<1>4. processed \in BOOLEAN
  OBVIOUS
<1> HIDE DEF mark, processed
<1>5. /\ doc \in DepositDoc /\ doc.status = "APPROVED"
      /\ doc.amount = amount /\ doc.foreign = foreign
      /\ doc.inWindow = referral.open /\ doc.mark = mark
  BY <1>2, <1>3, <1>4 DEF DepositDoc
<1> HIDE DEF doc
<1>6. Credit(amount, foreign) \in Nat
  BY <1>2, CreditType
<1>7. /\ commission[d] = NoCommission
      /\ NoEdits => credited[d] = 0
  BY <1>1, NotApproved
<1>8. /\ credited' \in [Deposits -> Nat]
      /\ \A e \in Deposits : e # d => credited'[e] = credited[e]
      /\ NoEdits => credited'[d] = Credit(amount, foreign)
  BY <1>1, <1>2, <1>6, <1>7
<1>9. /\ commission' \in [Deposits -> Snapshot \cup {NoCommission}]
      /\ \A e \in Deposits : e # d => commission'[e] = commission[e]
      /\ mark = "PROCESSED" <=> commission'[d] # NoCommission
      /\ commission'[d] # NoCommission => commission'[d].amount = amount
  <2> DEFINE new == [amount |-> amount, percent |-> referral.percent]
  <2>1. CASE mark = "PROCESSED"
    <3>1. new \in Snapshot /\ new.amount = amount
      BY <1>3, <2>1 DEF Snapshot
    <3>2. commission' = [commission EXCEPT ![d] = new]
      BY <1>1, <2>1
    <3> HIDE DEF new
    <3> QED BY <1>2, <2>1, <3>1, <3>2, SnapshotIsSome
  <2>2. CASE mark # "PROCESSED"
    BY <1>1, <1>2, <1>7, <2>2
  <2> QED BY <2>1, <2>2
<1>10. deposit[d].status # "APPROVED"
  BY <1>1
<1> QED BY <1>1, <1>3, <1>5, <1>8, <1>9, <1>10, DocumentStep

-----------------------------------------------------------------------------
(* What the commission depends on.                                         *)

LEMMA EnvironmentSafe ==
    ASSUME IInv, EnvironmentStep
    PROVE  IInv'
<1>1. UNCHANGED <<deposit, credited, commission, admin>>
  BY DEF EnvironmentStep, ReferralEnds, setReferralCommissionOverride, ReferrerChanges,
         RatesChange, money
<1>2. referral' \in Referral
  <2> USE DEF IInv, DepositTypeOK, Referral
  <2>1. CASE ReferralEnds
    BY <2>1 DEF ReferralEnds
  <2>2. CASE \E percent \in Percents : setReferralCommissionOverride(percent)
    BY <2>2 DEF setReferralCommissionOverride
  <2>3. CASE ReferrerChanges
    BY <2>3 DEF ReferrerChanges
  <2>4. CASE RatesChange
    BY <2>4 DEF RatesChange
  <2> QED BY <2>1, <2>2, <2>3, <2>4 DEF EnvironmentStep
<1>3. DepositTypeOK'
  BY <1>1, <1>2 DEF IInv, DepositTypeOK
<1> QED BY <1>1, <1>3 DEF IInv, HasAmount, Begun, OnApproved, AboutToCreate, AboutToMark,
           CreditedOnce, CommissionBacked, ProcessedHasCommission, NoEdits, NoneAsked, Due

-----------------------------------------------------------------------------
(* The invariant.                                                          *)

LEMMA InitSafe == DepositInit => IInv
<1> SUFFICES ASSUME DepositInit PROVE IInv
  OBVIOUS
<1>1. /\ NoCommission \in Snapshot \cup {NoCommission}
      /\ Absent \in DepositDoc /\ Absent.status = "absent"
      /\ Absent.mark = "NOT_APPLICABLE"
  BY DEF Absent, DepositDoc, Marks
<1>2. /\ NewRequest \in Request /\ NewRequest.pc = "new" /\ NewRequest.op = None
  BY DEF NewRequest, Request, Marks
<1>3. /\ deposit = [d \in Deposits |-> Absent]
      /\ credited = [d \in Deposits |-> 0]
      /\ commission = [d \in Deposits |-> NoCommission]
      /\ referral \in Referral
      /\ admin = [a \in Admins |-> NewRequest]
  BY OpeningsAssumption DEF DepositInit
<1>4. DepositTypeOK
  BY <1>1, <1>2, <1>3 DEF DepositTypeOK
<1>5. HasAmount /\ Begun /\ OnApproved /\ AboutToCreate /\ AboutToMark
  BY <1>1, <1>2, <1>3 DEF HasAmount, Begun, OnApproved, AboutToCreate, AboutToMark
<1>6. CreditedOnce /\ CommissionBacked /\ ProcessedHasCommission
  BY <1>1, <1>3 DEF CreditedOnce, CommissionBacked, ProcessedHasCommission, Due
<1> QED BY <1>4, <1>5, <1>6 DEF IInv

LEMMA NextSafe == IInv /\ [DepositNext]_depositVars => IInv'
<1> SUFFICES ASSUME IInv, [DepositNext]_depositVars PROVE IInv'
  OBVIOUS
<1>1. CASE \E d \in Deposits, amount \in Amounts, foreign \in Foreign :
               createDepositRequest(d, amount, foreign)
  BY <1>1, RequestStepSafe
<1>2. CASE \E d \in Deposits, amount \in Amounts, foreign \in Foreign :
               approveDeposit(d, "ADMIN", amount, foreign)
  BY <1>2, ApproveStep, CrashAssumption
<1>3. CASE \E d \in Deposits : rejectDeposit(d)
  BY <1>3, RejectStep
<1>4. CASE \E a \in Admins, d \in Deposits, amount \in Amounts : EditRead(a, d, amount)
  BY <1>4, EditReadStep
<1>5. CASE \E a \in Admins, d \in Deposits, op \in Ops : ReconcileFind(a, d, op)
  BY <1>5, ReconcileFindStep
<1>6. CASE \E a \in Admins : AdminStep(a)
  BY <1>6, EditSaveStep, ReconcileMarkStep, ReconcileEvaluateStep, CreateCommissionStep,
     ReconcileOutcomeStep DEF AdminStep
<1>7. CASE \E a \in Admins : AdminDies(a)
  BY <1>7, AdminDiesStep
<1>8. CASE EnvironmentStep
  BY <1>8, EnvironmentSafe
<1>9. CASE UNCHANGED depositVars
  BY <1>9 DEF depositVars, money, IInv, DepositTypeOK, HasAmount, Begun, OnApproved,
     AboutToCreate, AboutToMark, CreditedOnce, CommissionBacked, ProcessedHasCommission,
     NoEdits, NoneAsked, Due
<1> QED BY <1>1, <1>2, <1>3, <1>4, <1>5, <1>6, <1>7, <1>8, <1>9
        DEF DepositNext, RequestStep, ReviewStep

LEMMA Invariance == DepositSpec => []IInv
BY InitSafe, NextSafe, PTL DEF DepositSpec

\* The documents, the commissions and the requests keep to their schemas.
THEOREM DepositTypeCorrect == DepositSpec => []DepositTypeOK
<1>1. IInv => DepositTypeOK
  BY DEF IInv
<1> QED BY <1>1, Invariance, PTL

\* While nobody edits pending deposits, any number of administrators who approve, reject
\* and reconcile at once credit an approved deposit once, with its own amount converted
\* at any rates, and no other deposit at all.
THEOREM CreditSafety == DepositSpec => []CreditedOnce
<1>1. IInv => CreditedOnce
  BY DEF IInv
<1> QED BY <1>1, Invariance, PTL

\* Every commission belongs to a deposit approved within the referral's window, and is
\* computed from the approved amount unless pending deposits were edited, whichever of
\* the approval and the reconciliations created it.
THEOREM CommissionSafety == DepositSpec => []CommissionBacked
<1>1. IInv => CommissionBacked
  BY DEF IInv
<1> QED BY <1>1, Invariance, PTL

\* The mark PROCESSED is never ahead of the commission, wherever a process dies.
THEOREM MarkSafety == DepositSpec => []ProcessedHasCommission
<1>1. IInv => ProcessedHasCommission
  BY DEF IInv
<1> QED BY <1>1, Invariance, PTL

-----------------------------------------------------------------------------
(***************************************************************************)
(* Deposits approved by an SMS: the invariants of payment events, for any  *)
(* number of deliveries, events, deposits and administrators.              *)
(*                                                                         *)
(* The invariant of deposits is kept by the automatic approval too.        *)
(* Around it, a handler knows the following of its own copies, whatever    *)
(* other handlers and administrators have done since it read them: the     *)
(* event is stored and stays what it is paid by, the deposit it matched    *)
(* exists, and as long as that deposit is pending and nobody edits pending *)
(* deposits it has the amount of the event.                                *)
(***************************************************************************)

-----------------------------------------------------------------------------
(* The invariant.                                                          *)

Stored(e) == e \in Events /\ event[e].status # "absent"

\* The deposit exists, and while it is pending it asks for what the event paid.
Fits(d, e) ==
    /\ d \in Deposits /\ deposit[d].status # "absent"
    /\ NoEdits /\ deposit[d].status = "PENDING" => deposit[d].amount = event[e].amount

\* What a handler relies on.
Relies(h) ==
    /\ handler[h] \in Handler /\ handler[h].result # "PROCESSED"
    /\ handler[h].pc \in {"match", "save", "approve", "processed"} => Stored(handler[h].event)
    /\ At(h, "save") /\ handler[h].result = "MATCHED" =>
           Fits(handler[h].matched, handler[h].event)
    /\ At(h, "approve") =>
           /\ Fits(handler[h].matched, handler[h].event)
           /\ event[handler[h].event].matched \in Deposits
    /\ At(h, "processed") =>
           /\ handler[h].matched \in ApprovedBy(handler[h].event)
           /\ event[handler[h].event].matched \in Deposits

\* Who was approved by an event was approved, for what that event paid.
ApprovedRight(d) ==
    deposit[d].reviewer \in Events =>
        /\ deposit[d].status = "APPROVED" /\ Stored(deposit[d].reviewer)
        /\ NoEdits => deposit[d].amount = event[deposit[d].reviewer].amount

EventRight(e) ==
    /\ event[e] \in EventDoc
    /\ event[e].status \in {"MATCHED", "PROCESSED"} => event[e].matched \in Deposits
    /\ event[e].status = "PROCESSED" => ApprovedBy(e) # {}

Shapes ==
    DOMAIN event = Events /\ DOMAIN handler = Handlers
    /\ event = [e \in Events |-> event[e]] /\ handler = [h \in Handlers |-> handler[h]]

EInv ==
    /\ IInv /\ Shapes
    /\ \A e \in Events : EventRight(e)
    /\ \A h \in Handlers : Relies(h)
    /\ \A d \in Deposits : ApprovedRight(d)

-----------------------------------------------------------------------------
(* What the other requests do to deposits.                                 *)

\* A deposit that was requested stays, an approval by an event stays, and a deposit that
\* is still pending has its amount unless somebody edits.
KeepsDeposit(d) ==
    /\ deposit[d].status # "absent" => deposit'[d].status # "absent"
    /\ deposit[d].reviewer \in Events =>
           /\ deposit'[d].reviewer = deposit[d].reviewer /\ deposit'[d].status = "APPROVED"
           /\ NoEdits' => deposit'[d].amount = deposit[d].amount
    /\ deposit[d].status # "absent" /\ deposit'[d].status = "PENDING" =>
           /\ deposit[d].status = "PENDING"
           /\ NoEdits' => deposit'[d].amount = deposit[d].amount

KeepsDeposits == (NoEdits' => NoEdits) /\ \A d \in Deposits : KeepsDeposit(d)

\* No deposit is approved by an event.
NoneApproved(d) == deposit'[d].reviewer \in Events => deposit'[d].reviewer = deposit[d].reviewer

\* One document is replaced, or none.
LEMMA OneDocument ==
  ASSUME EInv, NEW d \in Deposits, NEW doc, NoEdits' => NoEdits,
         deposit' = [deposit EXCEPT ![d] = doc],
         doc.status # "absent",
         deposit[d].reviewer \in Events =>
             /\ doc.reviewer = deposit[d].reviewer /\ doc.status = "APPROVED"
             /\ NoEdits' => doc.amount = deposit[d].amount,
         deposit[d].status # "absent" /\ doc.status = "PENDING" =>
             /\ deposit[d].status = "PENDING"
             /\ NoEdits' => doc.amount = deposit[d].amount
  PROVE  /\ KeepsDeposits
         /\ \A x \in Deposits \ {d} : NoneApproved(x)
         /\ (doc.reviewer \in Events => doc.reviewer = deposit[d].reviewer) => NoneApproved(d)
<1>1. deposit'[d] = doc /\ \A x \in Deposits \ {d} : deposit'[x] = deposit[x]
  BY DEF EInv, IInv, DepositTypeOK
<1>2. KeepsDeposit(d)
  BY <1>1 DEF KeepsDeposit
<1>3. \A x \in Deposits : ApprovedRight(x)
  BY DEF EInv
<1>4. \A x \in Deposits \ {d} : KeepsDeposit(x)
  BY <1>1, <1>3 DEF KeepsDeposit, ApprovedRight
<1> QED
  BY <1>1, <1>2, <1>4 DEF KeepsDeposits, NoneApproved

LEMMA SameDeposits ==
  ASSUME EInv, NoEdits' => NoEdits, UNCHANGED deposit
  PROVE  KeepsDeposits /\ \A d \in Deposits : NoneApproved(d)
<1>1. \A x \in Deposits : ApprovedRight(x)
  BY DEF EInv
<1> QED
  BY <1>1 DEF KeepsDeposits, KeepsDeposit, ApprovedRight, NoneApproved

\* What is said of one operation and a request that goes on with its own.
LEMMA EditsStay ==
  ASSUME IInv, NEW a \in Admins, NEW req, admin' = [admin EXCEPT ![a] = req],
         admin[a].pc = "new" \/ req.op = admin[a].op
  PROVE  NoEdits' => NoEdits /\ req.op # "edit"
<1>1. admin[a].pc = "new" => admin[a].op # "edit"
  BY OpsAssumption DEF IInv, Begun, AdminOps
<1> QED
  BY <1>1 DEF NoEdits, NoneAsked, IInv, DepositTypeOK

LEMMA RequestKeeps ==
  ASSUME EInv, RequestStep
  PROVE  KeepsDeposits /\ \A d \in Deposits : NoneApproved(d)
<1> DEFINE Kept == KeepsDeposits /\ \A d \in Deposits : NoneApproved(d)
<1>1. IInv /\ DepositTypeOK
  BY DEF EInv, IInv
<1>2. \A d \in Deposits : deposit[d] \in DepositDoc /\ ApprovedRight(d)
  <2>1. \A d \in Deposits : deposit[d] \in DepositDoc
    BY <1>1 DEF DepositTypeOK
  <2>2. \A d \in Deposits : ApprovedRight(d)
    BY DEF EInv
  <2> QED
    BY <2>1, <2>2
<1>3. \A a \in Admins : admin[a] \in Request
  BY <1>1 DEF DepositTypeOK
<1>4. admin' = admin => (NoEdits' => NoEdits)
  BY DEF NoEdits, NoneAsked
<1>5. "ADMIN" \notin Events /\ None \notin Events
  BY EventsAssumption
<1>a. ASSUME NEW d \in Deposits, NEW amount \in Amounts, NEW foreign \in Foreign,
             createDepositRequest(d, amount, foreign)
      PROVE  Kept
  <2> DEFINE doc == [Absent EXCEPT !.status = "PENDING", !.amount = amount, !.foreign = foreign]
  <2>1. /\ doc.status = "PENDING" /\ doc.reviewer = None
        /\ deposit' = [deposit EXCEPT ![d] = doc] /\ admin' = admin
        /\ deposit[d].status = "absent"
    BY <1>a DEF createDepositRequest, Absent
  <2> HIDE DEF doc
  <2> QED
    BY <1>2, <1>4, <1>5, <2>1, OneDocument DEF ApprovedRight
<1>b. ASSUME NEW d \in Deposits, NEW amount \in Amounts, NEW foreign \in Foreign,
             approveDeposit(d, "ADMIN", amount, foreign)
      PROVE  Kept
  <2> DEFINE mark == Outcome(referral.open)
             doc == [deposit[d] EXCEPT
                      !.status = "APPROVED", !.amount = amount, !.foreign = foreign,
                      !.reviewer = "ADMIN", !.inWindow = referral.open,
                      !.mark = mark, !.linked = mark = "PROCESSED"]
  <2>1. /\ deposit' = [deposit EXCEPT ![d] = doc] /\ admin' = admin
        /\ deposit[d].status = "PENDING"
    BY <1>b DEF approveDeposit, Approved, Reviewable
  <2>2. doc.status = "APPROVED" /\ doc.reviewer = "ADMIN"
    BY <1>2 DEF DepositDoc
  <2> HIDE DEF doc
  <2> QED
    BY <1>2, <1>4, <1>5, <2>1, <2>2, OneDocument DEF ApprovedRight
<1>c. ASSUME NEW d \in Deposits, rejectDeposit(d)
      PROVE  Kept
  <2> DEFINE doc == [deposit[d] EXCEPT !.status = "REJECTED", !.reviewer = "ADMIN"]
  <2>1. /\ deposit' = [deposit EXCEPT ![d] = doc] /\ admin' = admin
        /\ deposit[d].status = "PENDING"
    BY <1>c DEF rejectDeposit, Reviewable
  <2>2. doc.status = "REJECTED" /\ doc.reviewer = "ADMIN"
    BY <1>2 DEF DepositDoc
  <2> HIDE DEF doc
  <2> QED
    BY <1>2, <1>4, <1>5, <2>1, <2>2, OneDocument DEF ApprovedRight
<1>d. ASSUME NEW a \in Admins, NEW req, UNCHANGED deposit, admin' = [admin EXCEPT ![a] = req],
             admin[a].pc = "new" \/ req.op = admin[a].op
      PROVE  Kept
  <2>1. NoEdits' => NoEdits
    BY <1>1, <1>d, EditsStay
  <2> QED
    BY <1>d, <2>1, SameDeposits
<1>e. ASSUME NEW a \in Admins, NEW d \in Deposits, NEW amount \in Amounts, EditRead(a, d, amount)
      PROVE  Kept
  <2>1. /\ UNCHANGED deposit /\ admin[a].pc = "new"
        /\ admin' = [admin EXCEPT ![a] = [admin[a] EXCEPT !.pc = "save", !.op = "edit",
                            !.deposit = d, !.read = deposit[d].amount, !.new = amount]]
    BY <1>e DEF EditRead
  <2> QED
    BY <1>d, <2>1
<1>f. ASSUME NEW a \in Admins, NEW d \in Deposits, NEW op \in Ops, ReconcileFind(a, d, op)
      PROVE  Kept
  <2>1. /\ UNCHANGED deposit /\ admin[a].pc = "new"
        /\ admin' = [admin EXCEPT ![a] = [admin[a] EXCEPT !.pc = "mark", !.op = op,
                            !.deposit = d, !.read = deposit[d].amount]]
    BY <1>f DEF ReconcileFind
  <2> QED
    BY <1>d, <2>1
<1>g. ASSUME NEW a \in Admins, EditSave(a)
      PROVE  Kept
  <2> DEFINE d == admin[a].deposit
  <2>1. /\ admin' = [admin EXCEPT ![a].pc = "done"] /\ admin[a].op = "edit"
        /\ deposit' = IF admin[a].new = admin[a].read THEN deposit
                      ELSE [deposit EXCEPT ![d].amount = admin[a].new]
    BY <1>1, <1>g DEF EditSave, IInv, Begun
  <2>2. ~NoEdits'
    BY <1>1, <1>3, <2>1 DEF NoEdits, NoneAsked, DepositTypeOK, Request
  <2>3. \A x \in Deposits : /\ deposit'[x].status = deposit[x].status
                            /\ deposit'[x].reviewer = deposit[x].reviewer
    BY <1>1, <1>2, <2>1 DEF DepositTypeOK, DepositDoc
  <2> QED
    BY <1>2, <2>2, <2>3 DEF KeepsDeposits, KeepsDeposit, ApprovedRight, NoneApproved
<1>h. ASSUME NEW a \in Admins, NEW mark \in Marks, Mark(admin[a].deposit, mark),
             \E pc : admin' = [admin EXCEPT ![a].pc = pc],
             admin[a].pc \in {"mark", "outcome"}
      PROVE  Kept
  <2> DEFINE d == admin[a].deposit
             doc == [deposit[d] EXCEPT !.mark = mark, !.linked = mark = "PROCESSED"]
  <2>1. d \in Deposits /\ deposit[d].status = "APPROVED"
    BY <1>1, <1>h DEF IInv, OnApproved
  <2>2. deposit' = [deposit EXCEPT ![d] = doc]
    BY <1>h DEF Mark
  <2>3. /\ doc.status = deposit[d].status /\ doc.reviewer = deposit[d].reviewer
        /\ doc.amount = deposit[d].amount
    BY <1>2, <2>1 DEF DepositDoc
  <2>4. NoEdits' => NoEdits
    BY <1>1, <1>3, <1>h DEF NoEdits, NoneAsked, DepositTypeOK, Request
  <2> HIDE DEF d, doc
  <2> QED
    BY <2>1, <2>2, <2>3, <2>4, OneDocument
<1>i. ASSUME NEW a \in Admins, ReconcileMark(a) PROVE Kept
  BY <1>h, <1>i DEF ReconcileMark, Marks
<1>j. ASSUME NEW a \in Admins, ReconcileOutcome(a) PROVE Kept
  BY <1>3, <1>h, <1>j DEF ReconcileOutcome, Request
<1>k. ASSUME NEW a \in Admins, ReconcileEvaluate(a) \/ createCommissionRecord(a) \/ AdminDies(a)
      PROVE  Kept
  <2>1. UNCHANGED deposit
    BY <1>k DEF ReconcileEvaluate, createCommissionRecord, AdminDies
  <2>2. \A b \in Admins : admin'[b].op = admin[b].op
    <3>1. CASE ReconcileEvaluate(a)
      BY <1>1, <1>3, <3>1 DEF ReconcileEvaluate, DepositTypeOK, Request
    <3>2. CASE createCommissionRecord(a)
      BY <1>1, <1>3, <3>2 DEF createCommissionRecord, DepositTypeOK, Request
    <3>3. CASE AdminDies(a)
      BY <1>1, <1>3, <3>3 DEF AdminDies, DepositTypeOK, Request
    <3> QED
      BY <1>k, <3>1, <3>2, <3>3
  <2> QED
    BY <2>1, <2>2, SameDeposits DEF NoEdits, NoneAsked
<1> QED
  BY <1>a, <1>b, <1>c, <1>e, <1>f, <1>g, <1>i, <1>j, <1>k
     DEF RequestStep, ReviewStep, AdminStep

-----------------------------------------------------------------------------
(* What a step must show.                                                  *)

KeepsEvent(e) ==
    /\ event[e].status # "absent" =>
           event'[e].status # "absent" /\ event'[e].amount = event[e].amount
    /\ event[e].matched \in Deposits => event'[e].matched \in Deposits

LEMMA FitsStays ==
  ASSUME KeepsDeposits, NEW d, NEW e \in Events, event'[e].amount = event[e].amount, Fits(d, e)
  PROVE  Fits(d, e)'
  BY DEF Fits, KeepsDeposits, KeepsDeposit

LEMMA ApprovalStays ==
  ASSUME EInv, KeepsDeposits, NEW e \in Events, NEW d \in ApprovedBy(e)
  PROVE  d \in ApprovedBy(e)'
  BY DEF ApprovedBy, KeepsDeposits, KeepsDeposit

LEMMA ReliesStays ==
  ASSUME EInv, KeepsDeposits, \A e \in Events : KeepsEvent(e),
         NEW h \in Handlers, handler'[h] = handler[h]
  PROVE  Relies(h)'
<1> DEFINE e == handler[h].event
           d == handler[h].matched
<1>1. Relies(h)
  BY DEF EInv
<1>2. Stored(e) => /\ Stored(e)' /\ event'[e].amount = event[e].amount
                   /\ event[e].matched \in Deposits => event'[e].matched \in Deposits
  BY DEF Stored, KeepsEvent
<1>3. Stored(e) /\ Fits(d, e) => Fits(d, e)'
  BY <1>2, FitsStays DEF Stored
<1>4. Stored(e) /\ d \in ApprovedBy(e) => d \in ApprovedBy(e)'
  BY ApprovalStays DEF Stored
<1> QED
  BY <1>1, <1>2, <1>3, <1>4 DEF Relies, At

LEMMA ApprovedStays ==
  ASSUME EInv, KeepsDeposits, \A e \in Events : KeepsEvent(e), NEW d \in Deposits, NoneApproved(d)
  PROVE  ApprovedRight(d)'
<1>1. ApprovedRight(d)
  BY DEF EInv
<1> QED
  BY <1>1 DEF ApprovedRight, KeepsDeposits, KeepsDeposit, NoneApproved, Stored, KeepsEvent

\* An event nobody writes keeps what is said of it.
LEMMA EventStays ==
  ASSUME EInv, KeepsDeposits, NEW e \in Events, event'[e] = event[e]
  PROVE  EventRight(e)' /\ KeepsEvent(e)
<1>1. EventRight(e)
  BY DEF EInv
<1>2. ApprovedBy(e) # {} => ApprovedBy(e)' # {}
  BY ApprovalStays
<1> QED
  BY <1>1, <1>2 DEF EventRight, KeepsEvent

\* One handler moves, and at most the event e is written.
LEMMA HandlerMoves ==
  ASSUME EInv, IInv', KeepsDeposits, \A d \in Deposits : ApprovedRight(d)' \/ NoneApproved(d),
         NEW h \in Handlers, NEW copy, handler' = [handler EXCEPT ![h] = copy], Relies(h)',
         \/ event' = event
         \/ \E e \in Events : \E doc : /\ event' = [event EXCEPT ![e] = doc]
                                      /\ EventRight(e)' /\ KeepsEvent(e)
  PROVE  EInv'
<1>1. \A e \in Events : EventRight(e)' /\ KeepsEvent(e)
  <2>1. CASE event' = event
    BY <2>1, EventStays
  <2>2. ASSUME NEW e \in Events, NEW doc, event' = [event EXCEPT ![e] = doc],
               EventRight(e)', KeepsEvent(e), NEW x \in Events
        PROVE  EventRight(x)' /\ KeepsEvent(x)
    <3>1. x # e => event'[x] = event[x]
      BY <2>2 DEF EInv, Shapes
    <3> QED
      BY <2>2, <3>1, EventStays
  <2> QED
    BY <2>1, <2>2
<1>2. \A k \in Handlers : Relies(k)'
  <2>1. \A k \in Handlers \ {h} : handler'[k] = handler[k]
    BY DEF EInv, Shapes
  <2> QED
    BY <1>1, <2>1, ReliesStays
<1>3. \A d \in Deposits : ApprovedRight(d)'
  BY <1>1, ApprovedStays
<1>4. Shapes'
  BY DEF EInv, Shapes
<1> QED
  BY <1>1, <1>2, <1>3, <1>4 DEF EInv

LEMMA DepositStepKept ==
  ASSUME EInv, DepositStep
  PROVE  EInv'
<1>1. IInv'
  BY NextSafe DEF EInv, DepositStep, DepositNext
<1>2. KeepsDeposits /\ (\A d \in Deposits : NoneApproved(d)) /\ UNCHANGED <<event, handler>>
  BY RequestKeeps DEF DepositStep
<1>3. \A e \in Events : EventRight(e)' /\ KeepsEvent(e)
  BY <1>2, EventStays
<1>4. \A h \in Handlers : Relies(h)'
  BY <1>2, <1>3, ReliesStays
<1>5. \A d \in Deposits : ApprovedRight(d)'
  BY <1>2, <1>3, ApprovedStays
<1>6. Shapes'
  BY <1>2 DEF EInv, Shapes
<1> QED
  BY <1>1, <1>3, <1>4, <1>5, <1>6 DEF EInv

\* A step of a handler that leaves the deposits alone.
LEMMA DepositsRest ==
  ASSUME EInv, UNCHANGED depositVars
  PROVE  IInv' /\ KeepsDeposits /\ \A d \in Deposits : NoneApproved(d)
<1>1. IInv'
  BY NextSafe DEF EInv
<1>2. UNCHANGED <<deposit, admin>>
  BY DEF depositVars
<1>3. NoEdits' => NoEdits
  BY <1>2 DEF NoEdits, NoneAsked
<1> QED
  BY <1>1, <1>2, <1>3, SameDeposits

-----------------------------------------------------------------------------
(* The steps of a handler.                                                 *)

LEMMA HandlerKnown ==
  ASSUME EInv, NEW h \in Handlers
  PROVE  /\ handler[h] \in Handler /\ Relies(h) /\ handler[h].result # "PROCESSED"
         /\ DOMAIN event = Events /\ DOMAIN handler = Handlers
         /\ \A e \in Events : EventRight(e)
  BY DEF EInv, Shapes, Relies

\* The end of a handler, and its death.
LEMMA Stops ==
  ASSUME EInv, NEW h \in Handlers, Goto(h, "done") \/ Goto(h, "dead"), UNCHANGED <<depositVars, event>>
  PROVE  EInv'
<1>1. ASSUME NEW pc \in {"done", "dead"}, Goto(h, pc) PROVE EInv'
  <2> DEFINE copy == [handler[h] EXCEPT !.pc = pc]
  <2>1. handler' = [handler EXCEPT ![h] = copy] /\ handler'[h] = copy
    BY <1>1, HandlerKnown DEF Goto
  <2>2. copy \in Handler /\ copy.pc = pc /\ copy.result # "PROCESSED"
    BY HandlerKnown DEF Handler
  <2> HIDE DEF copy
  <2>3. Relies(h)'
    BY <2>1, <2>2 DEF Relies, At
  <2> QED
    BY <2>1, <2>3, DepositsRest, HandlerMoves
<1> QED
  BY <1>1

\* A handler takes up the stored event e.
LEMMA TakesUp ==
  ASSUME EInv, NEW h \in Handlers, NEW e \in Events, UNCHANGED depositVars,
         handler' = [handler EXCEPT ![h] = [@ EXCEPT !.pc = "match", !.event = e]],
         event'[e].status # "absent",
         \/ event' = event
         \/ \E doc : event' = [event EXCEPT ![e] = doc] /\ EventRight(e)' /\ KeepsEvent(e)
  PROVE  EInv'
<1> DEFINE copy == [handler[h] EXCEPT !.pc = "match", !.event = e]
<1>1. handler' = [handler EXCEPT ![h] = copy] /\ handler'[h] = copy
  BY HandlerKnown
<1>2. copy \in Handler /\ copy.pc = "match" /\ copy.event = e /\ copy.result # "PROCESSED"
  BY HandlerKnown DEF Handler
<1> HIDE DEF copy
<1>3. Relies(h)'
  BY <1>1, <1>2 DEF Relies, At, Stored
<1> QED
  BY <1>1, <1>3, DepositsRest, HandlerMoves

LEMMA WebhookKept ==
  ASSUME EInv, NEW h \in Handlers, NEW e \in Events, NEW amount \in Amounts,
         processVodafoneCashWebhook(h, e, amount)
  PROVE  EInv'
<1>1. UNCHANGED depositVars
  BY DEF processVodafoneCashWebhook
<1>2. CASE Goto(h, "done") /\ UNCHANGED event
  BY <1>1, <1>2, Stops
<1>3. CASE /\ event[e].status = "absent"
           /\ event' = [event EXCEPT ![e] = [@ EXCEPT !.status = "UNMATCHED", !.amount = amount]]
           /\ handler' = [handler EXCEPT ![h] = [@ EXCEPT !.pc = "match", !.event = e]]
  <2> DEFINE doc == [event[e] EXCEPT !.status = "UNMATCHED", !.amount = amount]
  <2>1. event' = [event EXCEPT ![e] = doc] /\ event'[e] = doc /\ event[e] \in EventDoc
    BY <1>3, HandlerKnown DEF EventRight
  <2>2. doc \in EventDoc /\ doc.status = "UNMATCHED" /\ doc.matched = event[e].matched
    BY <2>1 DEF EventDoc, MatchStatuses
  <2> HIDE DEF doc
  <2>3. EventRight(e)' /\ KeepsEvent(e)
    BY <1>3, <2>1, <2>2 DEF EventRight, KeepsEvent
  <2> QED
    BY <1>1, <1>3, <2>1, <2>2, <2>3, TakesUp
<1> QED
  BY <1>2, <1>3 DEF processVodafoneCashWebhook

LEMMA LateDepositKept ==
  ASSUME EInv, NEW h \in Handlers, matchExistingUnmatchedPaymentForDeposit(h)
  PROVE  EInv'
<1>1. UNCHANGED <<depositVars, event>>
  BY DEF matchExistingUnmatchedPaymentForDeposit
<1>2. CASE Goto(h, "done")
  BY <1>1, <1>2, Stops
<1>3. ASSUME NEW e \in Events, event[e].status = "UNMATCHED",
             handler' = [handler EXCEPT ![h] = [@ EXCEPT !.pc = "match", !.event = e]]
      PROVE  EInv'
  BY <1>1, <1>3, TakesUp
<1> QED
  BY <1>2, <1>3 DEF matchExistingUnmatchedPaymentForDeposit

TheCandidate(e) == CHOOSE d \in Candidates(e) : TRUE

\* What is called matched was found among the candidates.
LEMMA MatchedFits ==
  ASSUME NEW e \in Events
  PROVE  /\ MatchResult(e) \in MatchStatuses \ {"PROCESSED"}
         /\ MatchResult(e) = "MATCHED" => Fits(TheCandidate(e), e)
<1>1. MatchResult(e) \in MatchStatuses \ {"PROCESSED"}
  BY DEF MatchResult, MatchStatuses
<1>2. MatchResult(e) = "MATCHED" => Cardinality(Candidates(e)) = 1
  BY DEF MatchResult
<1>3. Cardinality(Candidates(e)) = 1 => Candidates(e) # {}
  BY FS_EmptySet
<1>4. Candidates(e) # {} => TheCandidate(e) \in Candidates(e)
  BY DEF TheCandidate
<1>5. \A d \in Candidates(e) : Fits(d, e)
  BY DEF Candidates, Fits
<1> QED
  BY <1>1, <1>2, <1>3, <1>4, <1>5

LEMMA MatchKept ==
  ASSUME EInv, NEW h \in Handlers, matchParsedPaymentEvent(h)
  PROVE  EInv'
<1>e. PICK e \in Events : handler[h].event = e /\ Stored(e)
  BY HandlerKnown DEF matchParsedPaymentEvent, Relies, At, Stored
<1>r. PICK result : result = MatchResult(e)
  OBVIOUS
<1>d. PICK d : d = IF result = "MATCHED" THEN TheCandidate(e) ELSE None
  OBVIOUS
<1> DEFINE copy == [handler[h] EXCEPT !.pc = "save", !.result = result, !.matched = d]
<1>1. /\ At(h, "match") /\ UNCHANGED <<depositVars, event>>
      /\ handler' = [handler EXCEPT ![h] = copy] /\ handler'[h] = copy
  <2>1. /\ At(h, "match") /\ UNCHANGED <<depositVars, event>>
        /\ handler' = [handler EXCEPT ![h] =
                         [@ EXCEPT !.pc = "save", !.result = MatchResult(e),
                                   !.matched = IF MatchResult(e) = "MATCHED"
                                               THEN TheCandidate(e) ELSE None]]
    BY <1>e DEF matchParsedPaymentEvent, TheCandidate
  <2> QED
    BY <1>r, <1>d, <2>1, HandlerKnown
<1>2. Stored(e) /\ handler[h] \in Handler
  BY <1>1, <1>e, HandlerKnown DEF Relies, At
<1>3. /\ result \in MatchStatuses \ {"PROCESSED"} /\ d \in Deposits \cup {None}
      /\ result = "MATCHED" => Fits(d, e)
  BY <1>2, <1>r, <1>d, MatchedFits DEF Fits, Stored
<1>4. /\ copy \in Handler /\ copy.pc = "save" /\ copy.event = e /\ copy.result = result
      /\ copy.matched = d
  BY <1>2, <1>3, <1>e DEF Handler
<1> HIDE DEF copy
<1>5. KeepsDeposits /\ (\A x \in Deposits : NoneApproved(x)) /\ IInv'
  BY <1>1, DepositsRest
<1>6. result = "MATCHED" => Fits(d, e)'
  BY <1>1, <1>2, <1>3, <1>5, FitsStays DEF Stored
<1>7. Relies(h)'
  BY <1>1, <1>2, <1>3, <1>4, <1>6 DEF Relies, At, Stored
<1> QED
  BY <1>1, <1>5, <1>7, HandlerMoves

LEMMA SaveMatchKept ==
  ASSUME EInv, NEW h \in Handlers, SaveMatch(h)
  PROVE  EInv'
<1>e. PICK e \in Events : handler[h].event = e /\ Stored(e)
  BY HandlerKnown DEF SaveMatch, Relies, At, Stored
<1>r. PICK result : handler[h].result = result
  OBVIOUS
<1>d. PICK d : handler[h].matched = d
  OBVIOUS
<1> DEFINE doc == Saved(event[e], result, d)
           pc == NextAfterSave(result)
           copy == [handler[h] EXCEPT !.pc = pc]
<1>1. /\ At(h, "save") /\ UNCHANGED depositVars
      /\ event' = [event EXCEPT ![e] = doc]
      /\ handler' = [handler EXCEPT ![h] = copy] /\ handler'[h] = copy
  BY <1>e, <1>r, <1>d, HandlerKnown DEF SaveMatch, Goto
<1>2. /\ Stored(e) /\ handler[h] \in Handler /\ result # "PROCESSED" /\ e \in Events
      /\ result = "MATCHED" => Fits(d, e)
      /\ event'[e] = doc /\ event[e] \in EventDoc /\ EventRight(e)
  BY <1>1, <1>e, <1>r, <1>d, HandlerKnown DEF Relies, At, Stored, EventRight
<1>3. result \in MatchStatuses /\ d \in Deposits \cup {None}
  BY <1>2, <1>r, <1>d DEF Handler
<1>4. pc \in {"approve", "done"} /\ (pc = "approve" => result = "MATCHED")
  BY DEF NextAfterSave
<1> HIDE DEF pc
<1>5. /\ copy \in Handler /\ copy.pc = pc /\ copy.event = e /\ copy.result = result
      /\ copy.matched = d
  BY <1>2, <1>4, <1>e, <1>r, <1>d DEF Handler
<1> HIDE DEF copy
<1>6. /\ doc \in EventDoc /\ doc.amount = event[e].amount /\ doc.status # "absent"
      /\ result = "MATCHED" => doc.matched \in Deposits
      /\ event[e].matched \in Deposits => doc.matched \in Deposits
      /\ doc.status = event[e].status \/ doc.status = result
  <2>1. CASE result = "UNMATCHED"
    BY <1>2, <2>1 DEF Saved, Stored
  <2>2. CASE result # "UNMATCHED"
    <3> DEFINE m == IF d = None THEN event[e].matched ELSE d
    <3>1. doc = [event[e] EXCEPT !.status = result, !.matched = m]
      BY <2>2 DEF Saved
    <3>2. /\ m \in Deposits \cup {None}
          /\ result = "MATCHED" => m \in Deposits
          /\ event[e].matched \in Deposits => m \in Deposits
      BY <1>2, <1>3 DEF EventDoc, Fits
    <3> HIDE DEF m, doc
    <3> QED
      BY <1>2, <1>3, <3>1, <3>2 DEF EventDoc, MatchStatuses
  <2> QED
    BY <2>1, <2>2
<1> HIDE DEF doc
<1>7. KeepsDeposits /\ (\A x \in Deposits : NoneApproved(x)) /\ IInv'
  BY <1>1, DepositsRest
<1>8. EventRight(e)' /\ KeepsEvent(e)
  <2>1. ApprovedBy(e) # {} => ApprovedBy(e)' # {}
    BY <1>2, <1>7, ApprovalStays
  <2> QED
    BY <1>2, <1>3, <1>6, <2>1 DEF EventRight, KeepsEvent
<1>9. result = "MATCHED" => Fits(d, e)'
  BY <1>2, <1>6, <1>7, FitsStays
<1>10. Relies(h)'
  BY <1>1, <1>2, <1>4, <1>5, <1>6, <1>9 DEF Relies, At, Stored
<1> QED
  BY <1>1, <1>2, <1>7, <1>8, <1>10, HandlerMoves

\* The approval: what the document says by now is still what the event paid.
LEMMA AutoApprovalKept ==
  ASSUME EInv, NEW h \in Handlers, AutoApproval(h)
  PROVE  EInv'
<1>1. At(h, "approve") /\ UNCHANGED event
  BY DEF AutoApproval
<1>e. PICK e \in Events : handler[h].event = e
  BY <1>1, HandlerKnown DEF Relies, At, Stored
<1>d. PICK d \in Deposits : handler[h].matched = d
  BY <1>1, HandlerKnown DEF Relies, At, Fits
<1>2. /\ e \in Events /\ d \in Deposits /\ Fits(d, e) /\ Stored(e)
      /\ event[e].matched \in Deposits /\ handler[h] \in Handler
  BY <1>1, <1>e, <1>d, HandlerKnown DEF Relies, At, Fits, Stored
<1>4. CASE approveDeposit(d, e, deposit[d].amount, deposit[d].foreign) /\ Goto(h, "processed")
  <2> DEFINE mark == Outcome(referral.open)
             doc == [deposit[d] EXCEPT
                      !.status = "APPROVED", !.amount = deposit[d].amount,
                      !.foreign = deposit[d].foreign,
                      !.reviewer = e, !.inWindow = referral.open,
                      !.mark = mark, !.linked = mark = "PROCESSED"]
             copy == [handler[h] EXCEPT !.pc = "processed"]
  <2>1. /\ deposit' = [deposit EXCEPT ![d] = doc] /\ admin' = admin
        /\ deposit[d].status = "PENDING"
    BY <1>4 DEF approveDeposit, Approved, Reviewable
  <2>2. /\ deposit[d] \in DepositDoc /\ deposit[d].amount \in Amounts
        /\ DOMAIN deposit = Deposits /\ deposit[d].foreign \in BOOLEAN
    BY <1>2, <2>1 DEF EInv, IInv, DepositTypeOK, HasAmount, DepositDoc
  <2>3. IInv'
    BY <1>2, <1>4, <2>2, ApproveStep DEF EInv
  <2>4. /\ doc.status = "APPROVED" /\ doc.reviewer = e /\ doc.amount = deposit[d].amount
        /\ deposit'[d] = doc
    BY <1>2, <2>1, <2>2 DEF DepositDoc
  <2> HIDE DEF doc
  <2>5. ApprovedRight(d)
    BY <1>2 DEF EInv
  <2>6. NoEdits' <=> NoEdits
    BY <2>1 DEF NoEdits, NoneAsked
  <2>7. KeepsDeposits /\ \A x \in Deposits \ {d} : NoneApproved(x)
    BY <1>2, <2>1, <2>4, <2>5, <2>6, OneDocument DEF ApprovedRight
  <2>8. ApprovedRight(d)'
    BY <1>1, <1>2, <2>1, <2>4, <2>6 DEF ApprovedRight, Fits, Stored
  <2>9. /\ handler' = [handler EXCEPT ![h] = copy] /\ handler'[h] = copy
        /\ copy \in Handler /\ copy.pc = "processed" /\ copy.event = e /\ copy.matched = d
        /\ copy.result # "PROCESSED"
    BY <1>2, <1>4, <1>e, <1>d, HandlerKnown DEF Goto, Handler
  <2> HIDE DEF copy
  <2>10. Relies(h)'
    BY <1>1, <1>2, <2>4, <2>9 DEF Relies, At, Stored, ApprovedBy
  <2> QED
    BY <1>1, <2>3, <2>7, <2>8, <2>9, <2>10, HandlerMoves
<1>5. CASE Goto(h, NextAfterRefusal) /\ UNCHANGED depositVars
  BY <1>1, <1>5, Stops DEF NextAfterRefusal
<1> QED
  BY <1>4, <1>5, <1>e, <1>d DEF AutoApproval

LEMMA SaveProcessedKept ==
  ASSUME EInv, NEW h \in Handlers, SaveProcessed(h)
  PROVE  EInv'
<1>e. PICK e \in Events : handler[h].event = e
  BY HandlerKnown DEF SaveProcessed, Relies, At, Stored
<1>d. PICK d : handler[h].matched = d
  OBVIOUS
<1> DEFINE doc == [event[e] EXCEPT !.status = "PROCESSED"]
           copy == [handler[h] EXCEPT !.pc = "done"]
<1>1. /\ At(h, "processed") /\ UNCHANGED depositVars
      /\ event' = [event EXCEPT ![e] = doc]
      /\ handler' = [handler EXCEPT ![h] = copy] /\ handler'[h] = copy
  BY <1>e, HandlerKnown DEF SaveProcessed, Goto
<1>2. /\ e \in Events /\ d \in ApprovedBy(e) /\ event[e].matched \in Deposits
      /\ event'[e] = doc /\ event[e] \in EventDoc
  BY <1>1, <1>e, <1>d, HandlerKnown DEF Relies, At, Stored, EventRight
<1>3. /\ doc \in EventDoc /\ doc.status = "PROCESSED" /\ doc.amount = event[e].amount
      /\ doc.matched = event[e].matched
  BY <1>2 DEF EventDoc, MatchStatuses
<1>4. copy \in Handler /\ copy.pc = "done" /\ copy.result # "PROCESSED"
  BY HandlerKnown DEF Handler
<1> HIDE DEF doc, copy
<1>5. KeepsDeposits /\ (\A x \in Deposits : NoneApproved(x)) /\ IInv'
  BY <1>1, DepositsRest
<1>6. EventRight(e)' /\ KeepsEvent(e)
  <2>1. ApprovedBy(e)' # {}
    BY <1>2, <1>5, ApprovalStays
  <2> QED
    BY <1>2, <1>3, <2>1 DEF EventRight, KeepsEvent
<1>7. Relies(h)'
  BY <1>1, <1>4 DEF Relies, At
<1> QED
  BY <1>1, <1>2, <1>5, <1>6, <1>7, HandlerMoves

-----------------------------------------------------------------------------
(* The theorems.                                                           *)

LEMMA EventInitKept ==
  ASSUME EventInit
  PROVE  EInv
<1>1. IInv
  BY InitSafe DEF EventInit
<1>2. /\ \A d \in Deposits : deposit[d].reviewer = None
      /\ \A e \in Events : event[e] = [status |-> "absent", amount |-> 0, matched |-> None]
      /\ \A h \in Handlers : handler[h] = NewHandler
  BY DEF EventInit, DepositInit, Absent
<1>3. \A d \in Deposits : ApprovedRight(d)
  BY <1>2, EventsAssumption DEF ApprovedRight
<1>4. [status |-> "absent", amount |-> 0, matched |-> None] \in EventDoc
  BY DEF EventDoc
<1>5. \A e \in Events : EventRight(e)
  BY <1>2, <1>4 DEF EventRight
<1>6. NewHandler \in Handler /\ NewHandler.pc = "new" /\ NewHandler.result = "UNMATCHED"
  BY DEF NewHandler, Handler, MatchStatuses
<1>7. \A h \in Handlers : Relies(h)
  BY <1>2, <1>6 DEF Relies, At
<1>8. Shapes
  BY DEF EventInit, Shapes
<1> QED
  BY <1>1, <1>3, <1>5, <1>7, <1>8 DEF EInv

LEMMA EventNextKept ==
  ASSUME EInv, [EventNext]_eventVars
  PROVE  EInv'
<1>1. CASE DepositStep
  BY <1>1, DepositStepKept
<1>2. ASSUME NEW h \in Handlers, NEW e \in Events, NEW amount \in Amounts,
             processVodafoneCashWebhook(h, e, amount)
      PROVE  EInv'
  BY <1>2, WebhookKept
<1>3. ASSUME NEW h \in Handlers, HandlerStep(h) PROVE EInv'
  BY <1>3, LateDepositKept, MatchKept, SaveMatchKept, AutoApprovalKept, SaveProcessedKept
     DEF HandlerStep
<1>4. ASSUME NEW h \in Handlers, HandlerDies(h) PROVE EInv'
  BY <1>4, Stops DEF HandlerDies
<1>5. CASE UNCHANGED eventVars
  <2>1. UNCHANGED <<depositVars, event, handler>>
    BY <1>5 DEF eventVars, depositVars
  <2>2. IInv' /\ KeepsDeposits /\ \A d \in Deposits : NoneApproved(d)
    BY <2>1, DepositsRest
  <2>3. \A e \in Events : EventRight(e)' /\ KeepsEvent(e)
    BY <2>1, <2>2, EventStays
  <2>4. \A h \in Handlers : Relies(h)'
    BY <2>1, <2>2, <2>3, ReliesStays
  <2>5. \A d \in Deposits : ApprovedRight(d)'
    BY <2>2, <2>3, ApprovedStays
  <2>6. Shapes'
    BY <2>1 DEF EInv, Shapes
  <2> QED
    BY <2>2, <2>3, <2>4, <2>5, <2>6 DEF EInv
<1> QED
  BY <1>1, <1>2, <1>3, <1>4, <1>5 DEF EventNext

LEMMA EventInvariance == EventSpec => []EInv
  BY EventInitKept, EventNextKept, PTL DEF EventSpec

\* Documents fit the schemas, and an event that found its deposit keeps the link,
\* whatever other handlers save over it.
THEOREM EventTypeCorrect == EventSpec => []EventTypeOK
<1>1. EInv => EventTypeOK
  <2> SUFFICES ASSUME EInv PROVE EventTypeOK
    OBVIOUS
  <2>1. event \in [Events -> EventDoc]
    BY DEF EInv, Shapes, EventRight
  <2>2. handler \in [Handlers -> Handler]
    BY DEF EInv, Shapes, Relies
  <2>3. DepositTypeOK
    BY DEF EInv, IInv
  <2>4. \A e \in Events : event[e].status \in {"MATCHED", "PROCESSED"} => event[e].matched \in Deposits
    BY DEF EInv, EventRight
  <2> QED
    BY <2>1, <2>2, <2>3, <2>4 DEF EventTypeOK
<1> QED
  BY <1>1, EventInvariance, PTL

\* paymentEvent.service.js calls an event processed only when it has approved a deposit,
\* for any number of deliveries and deposits, however the handlers overwrite each
\* other's copies and wherever they die.
THEOREM ProcessedSafety == EventSpec => []ProcessedIsPaid
<1>1. EInv => ProcessedIsPaid
  BY DEF EInv, EventRight, ProcessedIsPaid
<1> QED
  BY <1>1, EventInvariance, PTL

\* What an automatic approval credits is the converted amount of the SMS, although the
\* amount is compared long before the approval: an administrator who approves another
\* amount in between makes the approval fail, and only an edit of the pending deposit
\* can come between the two.
THEOREM AutoCreditSafety == EventSpec => []AutoCreditIsThePayment
<1>1. EInv => AutoCreditIsThePayment
  <2> SUFFICES ASSUME EInv, NoEdits, NEW e \in Events, NEW d \in ApprovedBy(e)
               PROVE  credited[d] = Credit(event[e].amount, deposit[d].foreign)
    BY DEF AutoCreditIsThePayment, NoEdits
  <2>1. d \in Deposits /\ deposit[d].reviewer = e /\ ApprovedRight(d) /\ CreditedOnce
    BY DEF ApprovedBy, EInv, IInv
  <2>2. deposit[d].status = "APPROVED" /\ deposit[d].amount = event[e].amount
    BY <2>1 DEF ApprovedRight
  <2>3. credited[d] = Due(d)
    BY <2>1 DEF CreditedOnce, NoEdits
  <2> QED
    BY <2>2, <2>3 DEF Due
<1> QED
  BY <1>1, EventInvariance, PTL
=============================================================================
