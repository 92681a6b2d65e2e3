--------------------------- MODULE OrderAdminProofs ---------------------------
(***************************************************************************)
(* Administrators and the engine on the same orders: the platform never    *)
(* pays back more than it took, and what it has paid back is flagged.      *)
(*                                                                         *)
(* The invariant of FulfillmentProofs does not hold here: a save of an     *)
(* administrator may change the status under a refund that is under way.   *)
(* What does hold is a count.  Every process that may still pay an order   *)
(* back, or lift its flag, has a claim on the price; whatever is held      *)
(* covers all claims, and one price more as long as the flag is not set.   *)
(***************************************************************************)
EXTENDS OrderAdmin, FulfillmentProofs, FiniteSets, FiniteSetTheorems

USE DEF At, Goto, Finish, IsProcessing

-----------------------------------------------------------------------------
(* The invariant.                                                          *)

(* A task that will take a price out of what is held for its order, or set *)
(* the flag back: a refund between its flag and its end, a completion that *)
(* has charged a refunded order again and is about to save it.             *)
Claim(t) == t.pc \in Repaying \/ (t.pc = "completeSave" /\ t.doc.refunded)

ClaimsOn(o) == {p \in Procs : task[p].o = o /\ Claim(task[p])}

Open(o) == IF order[o].refunded THEN 0 ELSE 1

Due(o) == Cardinality(ClaimsOn(o)) + Open(o)

Covered == \A o \in Orders : held[o] >= Amount(o) * Due(o)

(* The shape of documents and tasks, as far as the count reads them.       *)
DocFields == {"status", "providerOrderId", "providerStatus", "retryCount", "refunded"}

DocShape(doc) == DOMAIN doc = DocFields /\ doc.refunded \in BOOLEAN

TaskShape(t) ==
    /\ DOMAIN t = {"pc", "o", "doc", "reply"}
    /\ DocShape(t.doc)
    /\ t.pc \notin {"idle", "arrived"} => t.o \in Orders

Shape ==
    /\ DOMAIN order = Orders /\ DOMAIN held = Orders /\ DOMAIN task = Procs
    /\ \A o \in Orders : DocShape(order[o]) /\ held[o] \in Int
    /\ \A p \in Procs : TaskShape(task[p])

CoverInv == Shape /\ Covered

(* What is assumed of the instance: finitely many processes, no commit     *)
(* whose acknowledgement is lost, and no order paid in quota units that an *)
(* administrator completes, because completeOrder charges a wallet only.   *)
AdminAssumptions ==
    /\ IsFiniteSet(Procs)
    /\ "unknown_commit" \notin Faults
    /\ QuotaOrders = {} \/ "complete" \notin AdminOps

-----------------------------------------------------------------------------
(* Counting claims.                                                        *)

LEMMA ClaimsFinite ==
  ASSUME IsFiniteSet(Procs), NEW o \in Orders
  PROVE  IsFiniteSet(ClaimsOn(o)) /\ Cardinality(ClaimsOn(o)) \in Nat
<1>1. ClaimsOn(o) \in SUBSET Procs
  BY DEF ClaimsOn
<1> QED
  BY <1>1, FS_Subset, FS_CardinalityType

LEMMA DueType ==
  ASSUME IsFiniteSet(Procs), NEW o \in Orders
  PROVE  Due(o) \in Nat /\ Open(o) \in {0, 1} /\ Cardinality(ClaimsOn(o)) \in Nat
  BY ClaimsFinite DEF Due, Open

LEMMA OneMore ==
  ASSUME NEW S, NEW T, NEW p, IsFiniteSet(S), T = S \cup {p}
  PROVE  Cardinality(T) <= Cardinality(S) + 1
<1>1. Cardinality(S) \in Nat
  BY FS_CardinalityType
<1> QED
  BY <1>1, FS_AddElement

LEMMA OneLess ==
  ASSUME NEW S, NEW T, NEW p \in S, IsFiniteSet(S), T = S \ {p}
  PROVE  Cardinality(T) = Cardinality(S) - 1
  BY FS_RemoveElement

LEMMA NoMore ==
  ASSUME NEW S, NEW T, IsFiniteSet(S), T \subseteq S
  PROVE  Cardinality(T) <= Cardinality(S)
  BY FS_Subset

(* A price more for every claim more is enough.                            *)
LEMMA PriceOfClaims ==
  ASSUME NEW a \in Nat, NEW n \in Nat, NEW m \in Nat, NEW h \in Int, NEW g \in Int,
         h >= a * n,
         \/ m <= n /\ g >= h
         \/ m <= n + 1 /\ g >= h + a
         \/ m <= n - 1 /\ g >= h - a
  PROVE  g >= a * m
<1>1. CASE m <= n /\ g >= h
  <2>1. a * m <= a * n
    BY <1>1, a * (n - m) >= 0
  <2> QED
    BY <1>1, <2>1
<1>2. CASE m <= n + 1 /\ g >= h + a
  <2>1. a * m <= a * (n + 1)
    BY <1>2, a * (n + 1 - m) >= 0
  <2>2. a * (n + 1) = a * n + a
    OBVIOUS
  <2> QED
    BY <1>2, <2>1, <2>2
<1>3. CASE m <= n - 1 /\ g >= h - a
  <2>1. a * m <= a * (n - 1)
    BY <1>3, a * (n - 1 - m) >= 0
  <2>2. a * (n - 1) = a * n - a
    OBVIOUS
  <2> QED
    BY <1>3, <2>1, <2>2
<1> QED
  BY <1>1, <1>2, <1>3

-----------------------------------------------------------------------------
(* One step and the count.                                                 *)

(* Only process p moves, and only order o is concerned.                    *)
OneMoves(p, o) ==
    /\ \A q \in Procs \ {p} : task'[q] = task[q]
    /\ \A x \in Orders \ {o} : order'[x].refunded = order[x].refunded /\ held'[x] = held[x]
    /\ \A x \in Orders \ {o} : task'[p].o = x /\ Claim(task'[p]) => task[p].o = x /\ Claim(task[p])

(* The ways in which a step may balance claims, flag and money of order o. *)
Balanced(p, o) ==
    \* no claim more, and the flag may be set
    \/ /\ held'[o] = held[o]
       /\ task'[p].o = o /\ Claim(task'[p]) => task[p].o = o /\ Claim(task[p])
       /\ order[o].refunded => order'[o].refunded
    \* the flag is set, and with it a claim is taken
    \/ /\ held'[o] = held[o]
       /\ ~order[o].refunded /\ order'[o].refunded
    \* the flag is lifted, and with it a claim is given up
    \/ /\ held'[o] = held[o]
       /\ task[p].o = o /\ Claim(task[p]) /\ ~Claim(task'[p])
    \* a claim is paid
    \/ /\ held'[o] >= held[o] - Amount(o)
       /\ task[p].o = o /\ Claim(task[p]) /\ ~Claim(task'[p])
       /\ order[o].refunded => order'[o].refunded
    \* the open price is paid
    \/ /\ held'[o] >= held[o] - Amount(o)
       /\ ~Claim(task'[p])
       /\ ~order[o].refunded /\ order'[o].refunded
    \* a price is charged, and a claim may be taken
    \/ /\ held'[o] = held[o] + Amount(o)
       /\ order[o].refunded => order'[o].refunded

LEMMA OthersCovered ==
  ASSUME CoverInv, IsFiniteSet(Procs), NEW p \in Procs, NEW o \in Orders, OneMoves(p, o),
         Shape', NEW x \in Orders, x # o
  PROVE  held'[x] >= Amount(x) * Due(x)'
<1>1. ClaimsOn(x)' \subseteq ClaimsOn(x)
  BY DEF ClaimsOn, OneMoves
<1>2. Cardinality(ClaimsOn(x)') <= Cardinality(ClaimsOn(x))
  BY <1>1, ClaimsFinite, NoMore
<1>3. Cardinality(ClaimsOn(x)') \in Nat /\ Cardinality(ClaimsOn(x)) \in Nat
  BY <1>1, ClaimsFinite, FS_Subset, FS_CardinalityType
<1>4. Open(x)' = Open(x) /\ Open(x) \in {0, 1}
  BY DEF Open, OneMoves
<1>5. Due(x)' <= Due(x) /\ Due(x)' \in Nat /\ Due(x) \in Nat
  BY <1>2, <1>3, <1>4 DEF Due
<1>6. held'[x] = held[x] /\ held[x] \in Int /\ Amount(x) \in Nat
  BY ShareBounds DEF OneMoves, CoverInv, Shape
<1>7. held[x] >= Amount(x) * Due(x)
  BY DEF CoverInv, Covered
<1> QED
  BY <1>5, <1>6, <1>7, PriceOfClaims

LEMMA BalancedCovered ==
  ASSUME CoverInv, IsFiniteSet(Procs), NEW p \in Procs, NEW o \in Orders, OneMoves(p, o),
         Balanced(p, o), Shape'
  PROVE  held'[o] >= Amount(o) * Due(o)'
<1> DEFINE S == ClaimsOn(o)
           T == ClaimsOn(o)'
           c == Cardinality(S)
           d == Cardinality(T)
<1>1. S \subseteq Procs /\ T \subseteq Procs
  BY DEF ClaimsOn
<1>2. IsFiniteSet(S) /\ IsFiniteSet(T) /\ c \in Nat /\ d \in Nat
  BY <1>1, FS_Subset, FS_CardinalityType
<1>3. \A q \in Procs \ {p} : q \in S <=> q \in T
  BY DEF ClaimsOn, OneMoves
<1>4. /\ p \in S <=> task[p].o = o /\ Claim(task[p])
      /\ p \in T <=> task'[p].o = o /\ Claim(task'[p])
  BY DEF ClaimsOn, Claim
<1> HIDE DEF S, T
<1>5. d <= c + 1
  <2>1. T \subseteq S \cup {p}
    BY <1>1, <1>3
  <2>2. IsFiniteSet(S \cup {p}) /\ Cardinality(S \cup {p}) <= c + 1
    BY <1>2, OneMore, FS_AddElement
  <2>3. d <= Cardinality(S \cup {p})
    BY <2>1, <2>2, NoMore
  <2>4. Cardinality(S \cup {p}) \in Nat
    BY <2>2, FS_CardinalityType
  <2> QED
    BY <1>2, <2>2, <2>3, <2>4
<1>6. (p \in T => p \in S) => d <= c
  <2> SUFFICES ASSUME p \in T => p \in S PROVE d <= c
    OBVIOUS
  <2>1. T \subseteq S
    BY <1>1, <1>3
  <2> QED
    BY <1>2, <2>1, NoMore
<1>7. p \in S /\ p \notin T => d = c - 1
  <2> SUFFICES ASSUME p \in S, p \notin T PROVE d = c - 1
    OBVIOUS
  <2>1. T = S \ {p}
    BY <1>1, <1>3
  <2> QED
    BY <1>2, <2>1, OneLess
<1>8. /\ Due(o) = c + Open(o) /\ Due(o)' = d + Open(o)'
      /\ Open(o) = (IF order[o].refunded THEN 0 ELSE 1)
      /\ Open(o)' = (IF order'[o].refunded THEN 0 ELSE 1)
  BY DEF Due, Open, S, T
<1> HIDE DEF c, d
<1>9. Due(o) \in Nat /\ Due(o)' \in Nat
  BY <1>2, <1>8
<1>10. held[o] \in Int /\ held'[o] \in Int /\ Amount(o) \in Nat /\ held[o] >= Amount(o) * Due(o)
  BY ShareBounds DEF CoverInv, Covered, Shape
<1>11. \/ Due(o)' <= Due(o) /\ held'[o] >= held[o]
       \/ Due(o)' <= Due(o) + 1 /\ held'[o] >= held[o] + Amount(o)
       \/ Due(o)' <= Due(o) - 1 /\ held'[o] >= held[o] - Amount(o)
  <2>1. ASSUME held'[o] = held[o], p \in T => p \in S, order[o].refunded => order'[o].refunded
        PROVE  Due(o)' <= Due(o) /\ held'[o] >= held[o]
    BY <1>2, <1>6, <1>8, <1>10, <2>1
  <2>2. ASSUME held'[o] = held[o], ~order[o].refunded, order'[o].refunded
        PROVE  Due(o)' <= Due(o) /\ held'[o] >= held[o]
    BY <1>2, <1>5, <1>8, <1>10, <2>2
  <2>3. ASSUME held'[o] = held[o], p \in S, p \notin T
        PROVE  Due(o)' <= Due(o) /\ held'[o] >= held[o]
    BY <1>2, <1>7, <1>8, <1>10, <2>3
  <2>4. ASSUME held'[o] >= held[o] - Amount(o), p \in S, p \notin T,
               order[o].refunded => order'[o].refunded
        PROVE  Due(o)' <= Due(o) - 1 /\ held'[o] >= held[o] - Amount(o)
    BY <1>2, <1>7, <1>8, <1>10, <2>4
  <2>5. ASSUME held'[o] >= held[o] - Amount(o), p \notin T, ~order[o].refunded, order'[o].refunded
        PROVE  Due(o)' <= Due(o) - 1 /\ held'[o] >= held[o] - Amount(o)
    BY <1>2, <1>6, <1>8, <1>10, <2>5
  <2>6. ASSUME held'[o] = held[o] + Amount(o), order[o].refunded => order'[o].refunded
        PROVE  Due(o)' <= Due(o) + 1 /\ held'[o] >= held[o] + Amount(o)
    BY <1>2, <1>5, <1>8, <1>10, <2>6
  <2> QED
    BY <1>4, <2>1, <2>2, <2>3, <2>4, <2>5, <2>6 DEF Balanced
<1> QED
  BY <1>9, <1>10, <1>11, PriceOfClaims

LEMMA StepCovered ==
  ASSUME CoverInv, IsFiniteSet(Procs), NEW p \in Procs, NEW o \in Orders, OneMoves(p, o),
         Balanced(p, o), Shape'
  PROVE  CoverInv'
<1>1. ASSUME NEW x \in Orders PROVE held'[x] >= Amount(x) * Due(x)'
  BY OthersCovered, BalancedCovered
<1>2. Covered'
  BY <1>1 DEF Covered, Amount
<1> QED
  BY <1>2 DEF CoverInv

-----------------------------------------------------------------------------
(* The steps that leave claims, flags and money alone.                     *)

CalmOrders ==
    /\ held' = held /\ DOMAIN order' = Orders
    /\ \A x \in Orders : DocShape(order'[x]) /\ order'[x].refunded = order[x].refunded

Moves(p) ==
    /\ DOMAIN task' = Procs /\ TaskShape(task'[p])
    /\ \A q \in Procs \ {p} : task'[q] = task[q]

CalmStep(p) == CalmOrders /\ Moves(p) /\ ~Claim(task'[p])

LEMMA CalmCovered ==
  ASSUME CoverInv, IsFiniteSet(Procs), NEW p \in Procs, CalmStep(p)
  PROVE  CoverInv'
<1>1. Shape'
  BY DEF CoverInv, Shape, CalmStep, CalmOrders, Moves
<1>2. CASE Orders = {}
  BY <1>1, <1>2 DEF CoverInv, Covered
<1>3. ASSUME NEW o \in Orders PROVE CoverInv'
  <2>1. OneMoves(p, o) /\ Balanced(p, o)
    BY DEF OneMoves, Balanced, CalmStep, CalmOrders, Moves, CoverInv, Shape
  <2> QED
    BY <1>1, <2>1, StepCovered
<1> QED
  BY <1>2, <1>3

LEMMA NothingWritten ==
  ASSUME Shape, UNCHANGED <<order, held>>
  PROVE  CalmOrders
  BY DEF Shape, CalmOrders

LEMMA FinishCalm ==
  ASSUME Shape, NEW p \in Procs, Finish(p)
  PROVE  Moves(p) /\ ~Claim(task'[p])
<1>1. TaskShape(NoTask) /\ ~Claim(NoTask)
  BY DEF NoTask, NoDoc, TaskShape, DocShape, DocFields, Claim, Repaying
<1> QED
  BY <1>1 DEF Shape, Moves

LEMMA GotoCalm ==
  ASSUME Shape, NEW p \in Procs, task[p].o \in Orders, NEW pc, Goto(p, pc)
  PROVE  Moves(p) /\ task'[p].pc = pc /\ task'[p].o = task[p].o /\ task'[p].doc = task[p].doc
  BY DEF Shape, Moves, TaskShape, DocShape

(* The fields of an order the engine and the administrators write.         *)
LEMMA FieldsCalm ==
  ASSUME Shape, NEW o \in Orders, held' = held, NEW s, NEW i, NEW ps, NEW n,
         \/ order' = [order EXCEPT ![o].status = s]
         \/ order' = [order EXCEPT ![o].providerStatus = ps]
         \/ order' = [order EXCEPT ![o].status = s, ![o].providerStatus = ps]
         \/ order' = [order EXCEPT ![o].status = s, ![o].retryCount = n]
         \/ order' = [order EXCEPT ![o].providerOrderId = i, ![o].providerStatus = ps]
         \/ order' = [order EXCEPT ![o].status = s, ![o].providerStatus = ps, ![o].retryCount = n]
         \/ order' = [order EXCEPT ![o].status = s, ![o].providerOrderId = i,
                                   ![o].providerStatus = ps]
  PROVE  CalmOrders /\ DocShape(order'[o])
<1>1. DOMAIN order' = Orders /\ \A x \in Orders \ {o} : order'[x] = order[x]
  BY DEF Shape
<1>2. DocShape(order'[o]) /\ order'[o].refunded = order[o].refunded
  BY DEF Shape, DocShape, DocFields
<1> QED
  BY <1>1, <1>2 DEF CalmOrders, Shape

LEMMA UntouchedCovered ==
  ASSUME CoverInv, UNCHANGED <<order, held, task>>
  PROVE  CoverInv'
<1>1. Shape'
  BY DEF CoverInv, Shape, TaskShape, DocShape
<1>2. Covered'
  BY DEF CoverInv, Covered, Due, ClaimsOn, Claim, Open, Amount
<1> QED
  BY <1>1, <1>2 DEF CoverInv

(* Whatever a request asks to be given back, it is a part of the price.    *)
LEMMA AnyShare ==
  ASSUME NEW o \in Orders, NEW remains
  PROVE  RefundShare(o, remains) \in 0 .. Amount(o)
<1>1. CASE remains \in Nat
  BY <1>1, ShareBounds
<1>2. CASE remains \notin Nat
  <2>1. remains \notin 1 .. Quantity - 1
    BY <1>2, AmountAssumption
  <2> QED
    BY <2>1, ShareBounds DEF RefundShare
<1> QED
  BY <1>1, <1>2

-----------------------------------------------------------------------------
(* The engine.                                                             *)

LEMMA ExecCalm ==
  ASSUME Shape, NEW o \in Orders, ExecStep(o)
  PROVE  CalmStep(o)
<1> USE DEF CalmStep, Claim, Repaying
<1>1. o \in Procs /\ TaskShape(task[o])
  BY ProcTypes DEF Shape
<1>2. task[o].pc \in ExecSteps
  BY DEF ExecStep, ExecLoad, ExecResolveFails, ExecClaim, ProviderRefuses, ExecAccepted,
         ExecRejected, ExecThrown, ExecPersistFailure, ExecPersistPending, ExecPersistPartial,
         ExecPersistCompleted, ExecTooLate, ExecFatal, ProviderAccepts, ExecSteps
<1>3. task[o].o \in Orders
  BY <1>1, <1>2 DEF TaskShape, ExecSteps
<1>4. CASE Finish(o) /\ CalmOrders
  BY <1>1, <1>4, FinishCalm
<1>5. ASSUME NEW pc \in {"loaded", "claimed", "refused", "refundFlag"}, Goto(o, pc), CalmOrders
      PROVE  CalmStep(o)
  BY <1>1, <1>3, <1>5, GotoCalm
<1>6. ASSUME NEW reply, ExecAnswered(o, reply) PROVE CalmStep(o)
  BY <1>1, <1>3, <1>6, NothingWritten DEF ExecAnswered, Shape, Moves, TaskShape
<1>a. CASE ExecLoad(o)
  BY <1>4, <1>5, <1>a, NothingWritten DEF ExecLoad
<1>b. CASE ExecResolveFails(o)
  BY <1>4, <1>5, <1>b, NothingWritten, FieldsCalm DEF ExecResolveFails
<1>c. CASE ExecClaim(o)
  BY <1>4, <1>5, <1>c, NothingWritten, FieldsCalm DEF ExecClaim
<1>d. CASE ProviderAccepts(o)
  BY <1>1, <1>3, <1>d, NothingWritten DEF ProviderAccepts, Shape, Moves, TaskShape
<1>e. CASE ProviderRefuses(o)
  BY <1>5, <1>e, NothingWritten DEF ProviderRefuses
<1>f. CASE ExecAccepted(o) \/ ExecRejected(o) \/ ExecThrown(o)
  BY <1>6, <1>f DEF ExecAccepted, ExecRejected, ExecThrown
<1>g. CASE ExecPersistFailure(o)
  BY <1>5, <1>g, FieldsCalm DEF ExecPersistFailure, Answered
<1>h. CASE ExecPersistPending(o)
  BY <1>4, <1>h, FieldsCalm DEF ExecPersistPending, Answered
<1>l. CASE ExecPersistCompleted(o)
  BY <1>4, <1>l, FieldsCalm DEF ExecPersistCompleted, Answered
<1>i. CASE ExecPersistPartial(o)
  <2>1. CalmOrders /\ DocShape(order'[o])
    BY <1>i, FieldsCalm DEF ExecPersistPartial, Answered
  <2>2. task' = [task EXCEPT ![o].pc = "apply", ![o].doc = order'[o]]
    BY <1>i DEF ExecPersistPartial
  <2> QED
    BY <1>1, <1>3, <2>1, <2>2 DEF Shape, Moves, TaskShape
<1>j. CASE ExecTooLate(o)
  BY <1>4, <1>j, NothingWritten DEF ExecTooLate
<1>k. CASE ExecFatal(o)
  <2>1. Finish(o) /\ held' = held
    BY <1>k DEF ExecFatal
  <2>2. CASE order' = [order EXCEPT ![o].status = MANUAL_REVIEW]
    BY <1>4, <2>1, <2>2, FieldsCalm
  <2>3. CASE UNCHANGED order
    BY <1>4, <2>1, <2>3, NothingWritten
  <2> QED
    BY <1>k, <2>2, <2>3 DEF ExecFatal
<1> QED
  BY <1>a, <1>b, <1>c, <1>d, <1>e, <1>f, <1>g, <1>h, <1>i, <1>j, <1>k, <1>l DEF ExecStep

LEMMA ApplyCalm ==
  ASSUME Shape, NEW p \in Procs, ApplyStep(p)
  PROVE  CalmStep(p)
<1> USE DEF CalmStep, Claim, Repaying
<1>1. TaskShape(task[p]) /\ task[p].pc = "apply"
  BY DEF Shape, ApplyStep, ApplyPending, ApplyCompleted, ApplyPartial, ApplyCanceled,
         ApplyFailed, ApplySkipped, ApplyFinal
<1>2. task[p].o \in Orders
  BY <1>1 DEF TaskShape
<1>3. CASE Finish(p) /\ CalmOrders
  BY <1>3, FinishCalm
<1>4. ASSUME NEW pc \in {"refundTxn", "refundFlag"}, Goto(p, pc), CalmOrders
      PROVE  CalmStep(p)
  BY <1>2, <1>4, GotoCalm
<1>a. CASE ApplyPending(p)
  <2> DEFINE n == task[p].doc.retryCount + 1
             s == IF n >= MaxRetry THEN MANUAL_REVIEW ELSE order[task[p].o].status
  <2>1. /\ order' = [order EXCEPT ![task[p].o].status = s,
                                   ![task[p].o].providerStatus = task[p].reply.status,
                                   ![task[p].o].retryCount = n]
        /\ held' = held /\ Finish(p)
    BY <1>a DEF ApplyPending
  <2> HIDE DEF n, s
  <2> QED
    BY <1>2, <1>3, <2>1, FieldsCalm
<1>b. CASE ApplyCompleted(p)
  <2>1. CASE Finish(p) /\ UNCHANGED <<order, held>>
    BY <1>3, <2>1, NothingWritten
  <2>2. CASE /\ Finish(p) /\ held' = held
             /\ order' = [order EXCEPT ![task[p].o].status = COMPLETED,
                                       ![task[p].o].providerStatus = task[p].reply.status]
    <3>1. CalmOrders
      BY <1>2, <2>2, FieldsCalm
    <3> QED
      BY <1>3, <2>2, <3>1
  <2> QED
    BY <1>b, <2>1, <2>2 DEF ApplyCompleted, ApplyFinal
<1>c. CASE ApplyPartial(p)
  <2>1. CASE Finish(p) /\ UNCHANGED <<order, held>>
    BY <1>3, <2>1, NothingWritten
  <2>2. CASE /\ Goto(p, "refundTxn") /\ held' = held
             /\ order' = [order EXCEPT ![task[p].o].status = PARTIAL,
                                       ![task[p].o].providerStatus = task[p].reply.status]
    <3>1. CalmOrders
      BY <1>2, <2>2, FieldsCalm
    <3> QED
      BY <1>4, <2>2, <3>1
  <2> QED
    BY <1>c, <2>1, <2>2 DEF ApplyPartial, ApplyFinal
<1>d. CASE ApplyCanceled(p)
  <2>1. CASE Finish(p) /\ UNCHANGED <<order, held>>
    BY <1>3, <2>1, NothingWritten
  <2>2. CASE /\ task' = [task EXCEPT ![p].pc = "refundTxn", ![p].reply = [@ EXCEPT !.remains = 0]]
             /\ order' = [order EXCEPT ![task[p].o].status = CANCELED,
                                       ![task[p].o].providerStatus = task[p].reply.status]
             /\ held' = held
    <3>1. CalmOrders
      BY <1>2, <2>2, FieldsCalm
    <3> QED
      BY <1>1, <1>2, <2>2, <3>1 DEF Shape, Moves, TaskShape
  <2> QED
    BY <1>d, <2>1, <2>2 DEF ApplyCanceled, ApplyFinal
<1>e. CASE ApplyFailed(p)
  <2>1. CASE Finish(p) /\ UNCHANGED <<order, held>>
    BY <1>3, <2>1, NothingWritten
  <2>2. CASE /\ Goto(p, "refundFlag") /\ held' = held
             /\ order' = [order EXCEPT ![task[p].o].status = FAILED,
                                       ![task[p].o].providerStatus = task[p].reply.status]
    <3>1. CalmOrders
      BY <1>2, <2>2, FieldsCalm
    <3> QED
      BY <1>4, <2>2, <3>1
  <2> QED
    BY <1>e, <2>1, <2>2 DEF ApplyFailed, ApplyFinal
<1>f. CASE ApplySkipped(p)
  BY <1>3, <1>f, NothingWritten DEF ApplySkipped
<1> QED
  BY <1>a, <1>b, <1>c, <1>d, <1>e, <1>f DEF ApplyStep

LEMMA FetchCalm ==
  ASSUME Shape, NEW w \in Workers, NEW o \in Orders, PollFetch(w, o)
  PROVE  CalmStep(w)
<1>1. /\ w \in Procs /\ DocShape(order[o]) /\ UNCHANGED <<order, held>>
      /\ PollStepFor(order[o]) \in {"exhausted", "lookup", "check"}
      /\ task' = [task EXCEPT ![w] = [pc |-> PollStepFor(order[o]), o |-> o, doc |-> order[o],
                                      reply |-> NoReply]]
  BY ProcTypes DEF Shape, PollFetch, PollStepFor
<1> QED
  BY <1>1, NothingWritten DEF CalmStep, Claim, Repaying, Moves, Shape, TaskShape

LEMMA PollCalm ==
  ASSUME Shape, NEW w \in Workers, PollStep(w)
  PROVE  CalmStep(w)
<1> USE DEF CalmStep, Claim, Repaying
<1>1. w \in Procs /\ TaskShape(task[w]) /\ task[w].pc \in PollSteps
  BY ProcTypes DEF Shape, PollStep, PollExhausted, RecoverDefer, RecoverFound, RecoverSave,
                   PollAnswered, PollSkipped, PollSteps
<1>2. task[w].o \in Orders
  BY <1>1 DEF TaskShape, PollSteps
<1>3. CASE Finish(w) /\ CalmOrders
  BY <1>1, <1>3, FinishCalm
<1>4. ASSUME NEW pc \in {"recover", "apply"}, NEW reply, UNCHANGED <<order, held>>,
             task' = [task EXCEPT ![w].pc = pc, ![w].reply = reply]
      PROVE  CalmStep(w)
  BY <1>1, <1>2, <1>4, NothingWritten DEF Shape, Moves, TaskShape
<1>a. CASE PollExhausted(w)
  BY <1>2, <1>3, <1>a, NothingWritten, FieldsCalm DEF PollExhausted
<1>b. CASE RecoverDefer(w)
  <2> DEFINE n == task[w].doc.retryCount + 1
             s == IF n >= MaxRetry THEN MANUAL_REVIEW ELSE order[task[w].o].status
  <2>1. /\ \/ order' = [order EXCEPT ![task[w].o].status = s, ![task[w].o].retryCount = n]
           \/ UNCHANGED order
        /\ held' = held /\ Finish(w)
    BY <1>b DEF RecoverDefer
  <2> HIDE DEF n, s
  <2> QED
    BY <1>2, <1>3, <2>1, NothingWritten, FieldsCalm
<1>c. CASE RecoverFound(w)
  BY <1>4, <1>c DEF RecoverFound
<1>d. CASE RecoverSave(w)
  <2>1. CASE /\ order' = [order EXCEPT ![task[w].o].providerOrderId = task[w].reply.id,
                                        ![task[w].o].providerStatus = task[w].reply.status]
             /\ task' = [task EXCEPT ![w].pc = "apply", ![w].doc = order'[task[w].o]]
             /\ held' = held
    <3>1. CalmOrders /\ DocShape(order'[task[w].o])
      BY <1>2, <2>1, FieldsCalm
    <3> QED
      BY <1>1, <1>2, <2>1, <3>1 DEF Shape, Moves, TaskShape
  <2>2. CASE Finish(w) /\ UNCHANGED <<order, held>>
    BY <1>3, <2>2, NothingWritten
  <2> QED
    BY <1>d, <2>1, <2>2 DEF RecoverSave
<1>e. CASE PollAnswered(w)
  BY <1>4, <1>e DEF PollAnswered
<1>f. CASE PollSkipped(w)
  BY <1>3, <1>f, NothingWritten DEF PollSkipped
<1> QED
  BY <1>a, <1>b, <1>c, <1>d, <1>e, <1>f DEF PollStep

LEMMA CrashCalm ==
  ASSUME Shape, NEW p \in Procs, Crash(p)
  PROVE  CalmStep(p)
  BY FinishCalm, NothingWritten DEF Crash, CalmStep

-----------------------------------------------------------------------------
(* The refunds.                                                            *)

LEMMA RefundCovered ==
  ASSUME CoverInv, AdminAssumptions, NEW p \in Procs, RefundNext(p)
  PROVE  CoverInv'
<1> USE DEF Repaying
<1>0. Shape /\ IsFiniteSet(Procs)
  BY DEF CoverInv, AdminAssumptions
<1>1. task[p].pc \in RefundSteps /\ task[p].pc \notin {"idle", "arrived"}
  BY DEF RefundNext, RefundFlag, RefundAlreadyFlagged, RefundCredit,
         RefundNothingOrAbort, RefundCommitUnknown, RefundUndo, OrderRefundCommit,
         OrderRefundReject, RefundSteps
<1>2. PICK o \in Orders : task[p].o = o
  BY <1>0, <1>1 DEF Shape, TaskShape
<1>3. /\ DocShape(order[o]) /\ held[o] \in Int /\ Amount(o) \in Nat /\ TaskShape(task[p])
      /\ DOMAIN order = Orders /\ DOMAIN held = Orders /\ DOMAIN task = Procs
  BY <1>0, ShareBounds DEF Shape
<1>4. CASE Finish(p) /\ UNCHANGED <<order, held>>
  BY <1>0, <1>4, FinishCalm, NothingWritten, CalmCovered DEF CalmStep
(* The flag and the money of o, and the task of p.                         *)
<1>5. ASSUME Moves(p), Balanced(p, o), task'[p].o = o \/ ~Claim(task'[p]),
             DOMAIN order' = Orders, DOMAIN held' = Orders, DocShape(order'[o]), held'[o] \in Int,
             \A x \in Orders \ {o} : order'[x] = order[x] /\ held'[x] = held[x]
      PROVE  CoverInv'
  <2>1. Shape'
    BY <1>0, <1>5 DEF Shape, Moves
  <2>2. OneMoves(p, o)
    BY <1>5 DEF OneMoves, Moves
  <2> QED
    BY <1>0, <1>5, <2>1, <2>2, StepCovered
<1>a. CASE RefundFlag(p)
  <2>1. /\ order' = [order EXCEPT ![o].refunded = TRUE] /\ held' = held
        /\ ~order[o].refunded /\ Goto(p, "refundCredit")
    BY <1>2, <1>a DEF RefundFlag
  <2>2. /\ DocShape(order'[o]) /\ order'[o].refunded
        /\ \A x \in Orders \ {o} : order'[x] = order[x]
    BY <1>3, <2>1 DEF DocShape, DocFields
  <2>3. Moves(p) /\ task'[p].o = o
    BY <1>0, <1>2, <2>1, GotoCalm
  <2> QED
    BY <1>3, <1>5, <2>1, <2>2, <2>3 DEF Balanced
<1>b. CASE RefundAlreadyFlagged(p) \/ OrderRefundReject(p)
  BY <1>4, <1>b DEF RefundAlreadyFlagged, OrderRefundReject
<1>c. CASE RefundCredit(p)
  <2>1. /\ order' = order /\ held' = [held EXCEPT ![o] = held[o] - Amount(o)]
        /\ Claim(task[p]) /\ Finish(p)
    BY <1>2, <1>c DEF RefundCredit, Claim
  <2>2. held'[o] = held[o] - Amount(o) /\ \A x \in Orders \ {o} : held'[x] = held[x]
    BY <1>3, <2>1
  <2>3. Moves(p) /\ ~Claim(task'[p])
    BY <1>0, <2>1, FinishCalm
  <2> QED
    BY <1>2, <1>3, <1>5, <2>1, <2>2, <2>3 DEF Balanced
<1>d. CASE RefundNothingOrAbort(p)
  <2>1. Claim(task[p]) /\ UNCHANGED <<order, held>> /\ Goto(p, "refundUndo")
    BY <1>d DEF RefundNothingOrAbort, Claim
  <2>2. Moves(p) /\ task'[p].o = o
    BY <1>0, <1>2, <2>1, GotoCalm
  <2> QED
    BY <1>2, <1>3, <1>5, <2>1, <2>2 DEF Balanced
<1>e. CASE RefundCommitUnknown(p)
  BY <1>e DEF RefundCommitUnknown, AdminAssumptions
<1>f. CASE RefundUndo(p)
  <2>1. /\ order' = [order EXCEPT ![o].refunded = FALSE] /\ held' = held
        /\ Claim(task[p]) /\ Finish(p)
    BY <1>2, <1>f DEF RefundUndo, Claim
  <2>2. DocShape(order'[o]) /\ \A x \in Orders \ {o} : order'[x] = order[x]
    BY <1>3, <2>1 DEF DocShape, DocFields
  <2>3. Moves(p) /\ ~Claim(task'[p])
    BY <1>0, <2>1, FinishCalm
  <2> QED
    BY <1>2, <1>3, <1>5, <2>1, <2>2, <2>3 DEF Balanced
<1>g. CASE OrderRefundCommit(p)
  <2> DEFINE share == RefundShare(o, task[p].reply.remains)
  <2>1. /\ order' = [order EXCEPT ![o].refunded = TRUE] /\ ~order[o].refunded
        /\ held' = [held EXCEPT ![o] = held[o] - share] /\ Finish(p)
    BY <1>2, <1>g DEF OrderRefundCommit
  <2>2. /\ DocShape(order'[o]) /\ order'[o].refunded
        /\ \A x \in Orders \ {o} : order'[x] = order[x]
    BY <1>3, <2>1 DEF DocShape, DocFields
  <2>3. share \in 0 .. Amount(o)
    BY AnyShare
  <2>4. held'[o] = held[o] - share /\ \A x \in Orders \ {o} : held'[x] = held[x]
    BY <1>3, <2>1
  <2> HIDE DEF share
  <2>5. held'[o] \in Int /\ held'[o] >= held[o] - Amount(o)
    BY <1>3, <2>3, <2>4
  <2>6. Moves(p) /\ ~Claim(task'[p])
    BY <1>0, <2>1, FinishCalm
  <2> QED
    BY <1>3, <1>5, <2>1, <2>2, <2>4, <2>5, <2>6 DEF Balanced
<1> QED
  BY <1>a, <1>b, <1>c, <1>d, <1>e, <1>f, <1>g DEF RefundNext

LEMMA EngineCovered ==
  ASSUME CoverInv, AdminAssumptions, Next
  PROVE  CoverInv'
<1>0. Shape /\ IsFiniteSet(Procs)
  BY DEF CoverInv, AdminAssumptions
<1>1. ASSUME NEW p \in Procs, CalmStep(p) PROVE CoverInv'
  BY <1>0, <1>1, CalmCovered
<1>2. ASSUME NEW o \in Orders, NEW k \in DOMAIN remote[o], ProviderProgress(o, k)
      PROVE  CoverInv'
  BY <1>2, UntouchedCovered DEF ProviderProgress
<1>3. ASSUME NEW o \in Orders, ExecStep(o) PROVE CoverInv'
  BY <1>0, <1>1, <1>3, ExecCalm, ProcTypes
<1>4. ASSUME NEW w \in Workers, NEW o \in Orders, PollFetch(w, o) PROVE CoverInv'
  BY <1>0, <1>1, <1>4, FetchCalm, ProcTypes
<1>5. ASSUME NEW w \in Workers, PollStep(w) PROVE CoverInv'
  BY <1>0, <1>1, <1>5, PollCalm, ProcTypes
<1>6. ASSUME NEW p \in Procs, EngineTask(p) PROVE CoverInv'
  BY <1>0, <1>1, <1>6, ApplyCalm, RefundCovered DEF EngineTask
<1>7. ASSUME NEW p \in Procs, Crash(p) PROVE CoverInv'
  BY <1>0, <1>1, <1>7, CrashCalm
<1> QED
  BY <1>2, <1>3, <1>4, <1>5, <1>6, <1>7 DEF Next

-----------------------------------------------------------------------------
(* The administrators.                                                     *)

LEMMA ArrivedCalm ==
  ASSUME Shape, NEW a \in Admins, NEW o \in Orders, AdminStart(a, o), AdminAssumptions
  PROVE  CalmStep(a)
<1> USE DEF CalmStep, Claim, Repaying
<1>1. a \in Procs /\ DocShape(order[o])
  BY ProcTypes DEF Shape
<1>2. ASSUME NEW op, NEW pc, NEW reply, Request(a, op, o, pc, reply), pc \notin Repaying,
             ~(pc = "completeSave" /\ order[o].refunded)
      PROVE  CalmStep(a)
  <2>1. /\ UNCHANGED <<order, held>>
        /\ task' = [task EXCEPT ![a] = [pc |-> pc, o |-> o, doc |-> order[o], reply |-> reply]]
    BY <1>2 DEF Request
  <2> QED
    BY <1>1, <1>2, <2>1, NothingWritten DEF Shape, Moves, TaskShape
<1>a. CASE RetryStart(a, o)
  BY <1>2, <1>a DEF RetryStart
<1>b. ASSUME NEW remains \in 0 .. Quantity, RefundStart(a, o, remains) PROVE CalmStep(a)
  BY <1>2, <1>b DEF RefundStart
<1>c. CASE FailStart(a, o)
  BY <1>2, <1>c DEF FailStart
<1>d. CASE SyncStart(a, o)
  BY <1>2, <1>d DEF SyncStart
<1>e. CASE CompleteStart(a, o)
  <2>1. "complete" \in AdminOps
    BY <1>e DEF CompleteStart, Request
  <2>2. o \notin QuotaOrders
    BY <2>1 DEF AdminAssumptions
  <2>3. CASE WasRefunded(order[o])
    BY <1>2, <1>e, <2>2, <2>3 DEF CompleteStart
  <2>4. CASE ~WasRefunded(order[o])
    <3>1. Request(a, "complete", o, "completeSave", NoReply) /\ ~order[o].refunded
      BY <1>e, <2>4 DEF CompleteStart, WasRefunded
    <3> QED
      BY <1>2, <3>1
  <2> QED
    BY <2>3, <2>4
<1> QED
  BY <1>a, <1>b, <1>c, <1>d, <1>e DEF AdminStart

(* A save that leaves the flag of its own copy alone leaves it alone.      *)
LEMMA SaveCalm ==
  ASSUME Shape, NEW o \in Orders, NEW doc, NEW new, DocShape(doc), DocShape(new),
         Save(o, doc, new), held' = held, new.refunded = doc.refunded
  PROVE  CalmOrders
<1>1. /\ DOMAIN order' = Orders /\ \A x \in Orders \ {o} : order'[x] = order[x]
      /\ order'[o] = [f \in DocFields |-> IF new[f] # doc[f] THEN new[f] ELSE order[o][f]]
  BY DEF Shape, Save, DocShape
<1>2. order'[o].refunded = order[o].refunded /\ DocShape(order'[o])
  BY <1>1 DEF DocFields, DocShape, Shape
<1> QED
  BY <1>1, <1>2 DEF CalmOrders, Shape

(* A save that lifts the flag its own copy had.                            *)
LEMMA SaveLifts ==
  ASSUME Shape, NEW o \in Orders, NEW doc, DocShape(doc), doc.refunded,
         NEW new, DOMAIN new = DocFields, new.refunded = FALSE, Save(o, doc, new)
  PROVE  /\ DOMAIN order' = Orders /\ \A x \in Orders \ {o} : order'[x] = order[x]
         /\ DocShape(order'[o])
<1>1. doc.refunded = TRUE
  BY DEF DocShape
<1>2. order' = [order EXCEPT ![o] =
                  [f \in DocFields |-> IF new[f] # doc[f] THEN new[f] ELSE order[o][f]]]
  BY DEF Save
<1>3. order'[o].refunded = FALSE /\ DOMAIN order'[o] = DocFields
  BY <1>1, <1>2 DEF DocFields, Shape
<1> QED
  BY <1>2, <1>3 DEF DocShape, Shape

RequestSteps == {"retryCall", "retrySave", "partialSave", "failTxn", "syncCall", "syncSave",
               "debit", "completeSave"}

LEMMA AdminStepCovered ==
  ASSUME CoverInv, AdminAssumptions, NEW a \in Admins, AdminStep(a)
  PROVE  CoverInv'
<1> USE DEF Repaying
<1>0. Shape /\ IsFiniteSet(Procs) /\ a \in Procs
  BY ProcTypes DEF CoverInv, AdminAssumptions
<1>1. task[a].pc \in RequestSteps
  <2>1. RetryCall(a) \/ RetryCallThrows(a) \/ RetrySave(a) \/ PartialSave(a)
        => task[a].pc \in {"retryCall", "retrySave", "partialSave"}
    BY DEF RetryCall, RetryCallThrows, RetrySave, PartialSave
  <2>2. FailCommit(a) \/ FailReject(a) \/ SyncCall(a) => task[a].pc \in {"failTxn", "syncCall"}
    BY DEF FailCommit, FailReject, SyncCall
  <2>3. SyncSave(a) \/ ForcedDebit(a) \/ CompleteSave(a)
        => task[a].pc \in {"syncSave", "debit", "completeSave"}
    BY DEF SyncSave, ForcedDebit, CompleteSave
  <2> QED
    BY <2>1, <2>2, <2>3 DEF AdminStep, RequestSteps
<1>2. task[a].o \in Orders /\ TaskShape(task[a])
  BY <1>0, <1>1 DEF Shape, TaskShape, RequestSteps
<1>3. CASE CalmStep(a)
  BY <1>0, <1>3, CalmCovered
<1>4. CASE Finish(a) /\ CalmOrders
  BY <1>0, <1>3, <1>4, FinishCalm DEF CalmStep
<1>5. ASSUME NEW pc \in {"retrySave", "refundTxn"}, Goto(a, pc), CalmOrders
      PROVE  CoverInv'
  BY <1>0, <1>2, <1>3, <1>5, GotoCalm DEF CalmStep, Claim
<1>6. ASSUME NEW pc \in {"syncSave", "refundTxn"}, NEW reply, CalmOrders,
             task' = [task EXCEPT ![a].pc = pc, ![a].reply = reply]
      PROVE  CoverInv'
  BY <1>0, <1>2, <1>3, <1>6 DEF CalmStep, Claim, Shape, Moves, TaskShape
<1>7. PICK o \in Orders : task[a].o = o
  BY <1>2
<1>8. /\ DocShape(order[o]) /\ held[o] \in Int /\ Amount(o) \in Nat
      /\ DOMAIN order = Orders /\ DOMAIN held = Orders /\ DOMAIN task = Procs
  BY <1>0, ShareBounds DEF Shape
(* The flag and the money of o, and the task of a.                         *)
<1>9. ASSUME Moves(a), Balanced(a, o), task'[a].o = o \/ ~Claim(task'[a]),
             DOMAIN order' = Orders, DOMAIN held' = Orders, DocShape(order'[o]), held'[o] \in Int,
             \A x \in Orders \ {o} : order'[x] = order[x] /\ held'[x] = held[x]
      PROVE  CoverInv'
  <2>1. Shape'
    BY <1>0, <1>9 DEF Shape, Moves
  <2>2. OneMoves(a, o)
    BY <1>9 DEF OneMoves, Moves
  <2> QED
    BY <1>0, <1>9, <2>1, <2>2, StepCovered
<1>a. CASE RetryCall(a)
  BY <1>0, <1>5, <1>a, NothingWritten DEF RetryCall
<1>b. CASE RetryCallThrows(a) \/ FailReject(a)
  BY <1>0, <1>4, <1>b, NothingWritten DEF RetryCallThrows, FailReject
<1>c. CASE RetrySave(a)
  <2>1. CalmOrders
    <3> DEFINE doc == task[a].doc
               new == [doc EXCEPT !.status = PROCESSING, !.retryCount = doc.retryCount + 1]
    <3>1. Save(task[a].o, doc, new) /\ held' = held
      BY <1>c DEF RetrySave
    <3>2. DocShape(doc)
      BY <1>2 DEF TaskShape
    <3> HIDE DEF doc
    <3>3. DocShape(new) /\ new.refunded = doc.refunded
      BY <3>2 DEF DocShape, DocFields
    <3> HIDE DEF new
    <3> QED
      BY <1>0, <1>2, <3>1, <3>2, <3>3, SaveCalm
  <2> QED
    BY <1>4, <1>c, <2>1 DEF RetrySave
<1>d. CASE PartialSave(a)
  <2>1. CalmOrders
    <3> DEFINE doc == task[a].doc
               new == [doc EXCEPT !.status = PARTIAL]
    <3>1. Save(task[a].o, doc, new) /\ held' = held
      BY <1>d DEF PartialSave
    <3>2. DocShape(doc)
      BY <1>2 DEF TaskShape
    <3> HIDE DEF doc
    <3>3. DocShape(new) /\ new.refunded = doc.refunded
      BY <3>2 DEF DocShape, DocFields
    <3> HIDE DEF new
    <3> QED
      BY <1>0, <1>2, <3>1, <3>2, <3>3, SaveCalm
  <2> QED
    BY <1>5, <1>d, <2>1 DEF PartialSave
<1>e. CASE FailCommit(a)
  <2>1. /\ order' = [order EXCEPT ![o].status = FAILED, ![o].refunded = TRUE]
        /\ ~order[o].refunded /\ held' = [held EXCEPT ![o] = held[o] - Amount(o)] /\ Finish(a)
    BY <1>7, <1>e DEF FailCommit
  <2>2. /\ DocShape(order'[o]) /\ order'[o].refunded
        /\ \A x \in Orders \ {o} : order'[x] = order[x]
    BY <1>8, <2>1 DEF DocShape, DocFields
  <2>3. held'[o] = held[o] - Amount(o) /\ \A x \in Orders \ {o} : held'[x] = held[x]
    BY <1>8, <2>1
  <2>4. Moves(a) /\ ~Claim(task'[a])
    BY <1>0, <2>1, FinishCalm
  <2> QED
    BY <1>8, <1>9, <2>1, <2>2, <2>3, <2>4 DEF Balanced
<1>f. CASE SyncCall(a)
  <2>1. CASE Finish(a)
    BY <1>0, <1>4, <1>f, <2>1, NothingWritten DEF SyncCall
  <2>2. CalmOrders
    BY <1>0, <1>f, NothingWritten DEF SyncCall
  <2>3. ASSUME NEW reply, task' = [task EXCEPT ![a].pc = "syncSave", ![a].reply = reply]
        PROVE  CoverInv'
    BY <1>6, <2>2, <2>3
  <2> QED
    BY <1>f, <2>1, <2>3 DEF SyncCall
<1>g. CASE SyncSave(a)
  <2>1. CalmOrders
    <3> DEFINE doc == task[a].doc
               raw == task[a].reply.status
               new == [doc EXCEPT !.status = SyncedStatus(doc, raw), !.providerStatus = raw]
    <3>1. Save(task[a].o, doc, new) /\ held' = held
      BY <1>g DEF SyncSave
    <3>2. DocShape(doc)
      BY <1>2 DEF TaskShape
    <3> HIDE DEF doc
    <3>3. DocShape(new) /\ new.refunded = doc.refunded
      BY <3>2 DEF DocShape, DocFields
    <3> HIDE DEF new
    <3> QED
      BY <1>0, <1>2, <3>1, <3>2, <3>3, SaveCalm
  <2>2. CASE Finish(a)
    BY <1>4, <2>1, <2>2
  <2>3. CASE ~Finish(a)
    <3> DEFINE r == [task[a].reply EXCEPT !.remains =
                       IF SyncedStatus(task[a].doc, task[a].reply.status) = PARTIAL
                       THEN @ ELSE 0]
    <3>1. task' = [task EXCEPT ![a].pc = "refundTxn", ![a].reply = r]
      BY <1>0, <1>g, <2>3 DEF SyncSave, Shape, TaskShape
    <3> HIDE DEF r
    <3> QED
      BY <1>6, <2>1, <3>1
  <2> QED
    BY <2>2, <2>3
<1>h. CASE ForcedDebit(a)
  <2>1. /\ order' = order /\ Goto(a, "completeSave")
        /\ held' = [held EXCEPT ![o] = held[o] + Amount(o)]
    BY <1>7, <1>h DEF ForcedDebit
  <2>2. held'[o] = held[o] + Amount(o) /\ \A x \in Orders \ {o} : held'[x] = held[x]
    BY <1>8, <2>1
  <2>3. Moves(a) /\ task'[a].o = o
    BY <1>0, <1>2, <1>7, <2>1, GotoCalm
  <2> QED
    BY <1>8, <1>9, <2>1, <2>2, <2>3 DEF Balanced
<1>i. CASE CompleteSave(a)
  <2>0. task[a].doc.refunded \in BOOLEAN /\ DocShape(task[a].doc)
    BY <1>2 DEF TaskShape, DocShape
  <2>1. CASE task[a].doc.refunded
    <3>1. /\ held' = held /\ Finish(a) /\ Claim(task[a])
          /\ Save(o, task[a].doc, [task[a].doc EXCEPT !.status = COMPLETED, !.refunded = FALSE])
      BY <1>7, <1>i, <2>1 DEF CompleteSave, Claim
    <3>2. /\ DOMAIN order' = Orders /\ \A x \in Orders \ {o} : order'[x] = order[x]
          /\ DocShape(order'[o])
      <4> DEFINE doc == task[a].doc
                 new == [doc EXCEPT !.status = COMPLETED, !.refunded = FALSE]
      <4>1. Save(o, doc, new) /\ DocShape(doc) /\ doc.refunded
        BY <2>0, <2>1, <3>1
      <4> HIDE DEF doc
      <4>2. DOMAIN new = DocFields /\ new.refunded = FALSE
        BY <4>1 DEF DocShape, DocFields
      <4> HIDE DEF new
      <4> QED
        BY <1>0, <4>1, <4>2, SaveLifts
    <3>3. Moves(a) /\ ~Claim(task'[a])
      BY <1>0, <3>1, FinishCalm
    <3> QED
      BY <1>7, <1>8, <1>9, <3>1, <3>2, <3>3 DEF Balanced
  <2>2. CASE ~task[a].doc.refunded
    <3>1. CalmOrders
      <4> DEFINE doc == task[a].doc
                 new == [doc EXCEPT !.status = COMPLETED, !.refunded = FALSE]
      <4>1. Save(task[a].o, doc, new) /\ held' = held
        BY <1>i DEF CompleteSave
      <4>2. DocShape(doc) /\ doc.refunded = FALSE
        BY <2>0, <2>2
      <4> HIDE DEF doc
      <4>3. DocShape(new) /\ new.refunded = FALSE
        BY <4>2 DEF DocShape, DocFields
      <4> HIDE DEF new
      <4> QED
        BY <1>0, <1>2, <4>1, <4>2, <4>3, SaveCalm
    <3> QED
      BY <1>4, <1>i, <3>1 DEF CompleteSave
  <2> QED
    BY <2>1, <2>2
<1> QED
  BY <1>a, <1>b, <1>c, <1>d, <1>e, <1>f, <1>g, <1>h, <1>i DEF AdminStep

-----------------------------------------------------------------------------
(* The theorems.                                                           *)

LEMMA AdminInitCovered ==
  ASSUME AdminInit
  PROVE  CoverInv
<1>1. DocShape(NoDoc) /\ \A o \in Orders : DocShape(NewOrder(o))
  BY DEF NoDoc, NewOrder, DocShape, DocFields
<1>2. \A t \in {NoTask, Arrived} : TaskShape(t) /\ ~Claim(t)
  BY <1>1 DEF NoTask, Arrived, TaskShape, Claim, Repaying
<1>3. \A o \in Orders : TaskShape(Scheduled(o)) /\ ~Claim(Scheduled(o))
  BY <1>1 DEF NoTask, Scheduled, TaskShape, Claim, Repaying
<1>4. \A p \in Procs : TaskShape(task[p]) /\ ~Claim(task[p])
  <2> SUFFICES ASSUME NEW p \in Procs PROVE TaskShape(task[p]) /\ ~Claim(task[p])
    OBVIOUS
  <2>1. task[p] \in {NoTask, Arrived} \cup {Scheduled(o) : o \in Orders}
    BY DEF AdminInit
  <2> QED
    BY <1>2, <1>3, <2>1
<1>5. Shape
  <2>1. DOMAIN order = Orders /\ DOMAIN held = Orders /\ DOMAIN task = Procs
    BY DEF AdminInit
  <2>2. \A o \in Orders : order[o] = NewOrder(o) /\ held[o] = Amount(o)
    BY DEF AdminInit
  <2>3. \A o \in Orders : Amount(o) \in Int
    BY ShareBounds
  <2> QED
    BY <1>1, <1>4, <2>1, <2>2, <2>3 DEF Shape
<1>6. ASSUME NEW o \in Orders PROVE held[o] >= Amount(o) * Due(o)
  <2>1. ClaimsOn(o) = {}
    BY <1>4 DEF ClaimsOn
  <2>2. Cardinality(ClaimsOn(o)) = 0
    BY <2>1, FS_EmptySet
  <2>3. ~order[o].refunded /\ held[o] = Amount(o) /\ Amount(o) \in Nat
    <3>1. order[o] = NewOrder(o) /\ held[o] = Amount(o)
      BY DEF AdminInit
    <3>2. ~NewOrder(o).refunded
      BY DEF NewOrder, NoDoc
    <3> QED
      BY <3>1, <3>2, ShareBounds
  <2>4. Due(o) = 1
    BY <2>2, <2>3 DEF Due, Open
  <2> QED
    BY <2>3, <2>4
<1> QED
  BY <1>5, <1>6 DEF CoverInv, Covered

LEMMA AdminNextCovered ==
  ASSUME CoverInv, AdminAssumptions, [AdminNext]_vars
  PROVE  CoverInv'
<1>1. CASE Next
  BY <1>1, EngineCovered
<1>2. ASSUME NEW a \in Admins, NEW o \in Orders, AdminStart(a, o) PROVE CoverInv'
  BY <1>2, ArrivedCalm, CalmCovered, ProcTypes DEF CoverInv, AdminAssumptions
<1>3. ASSUME NEW a \in Admins, AdminStep(a) PROVE CoverInv'
  BY <1>3, AdminStepCovered
<1>4. CASE UNCHANGED vars
  BY <1>4, UntouchedCovered DEF vars
<1> QED
  BY <1>1, <1>2, <1>3, <1>4 DEF AdminNext

(* What is held covers the claims, so it is at least a price for an order  *)
(* whose flag is not set, and never less than nothing.                     *)
LEMMA CoveredSays ==
  ASSUME CoverInv, AdminAssumptions, NEW o \in Orders
  PROVE  held[o] >= 0 /\ (~order[o].refunded => held[o] >= Amount(o))
<1>1. /\ held[o] \in Int /\ Amount(o) \in Nat /\ held[o] >= Amount(o) * Due(o)
      /\ Due(o) \in Nat /\ (~order[o].refunded => Due(o) >= 1)
  <2>1. Due(o) \in Nat /\ Cardinality(ClaimsOn(o)) \in Nat
    BY DueType DEF AdminAssumptions
  <2> QED
    BY <2>1, ShareBounds DEF CoverInv, Covered, Shape, Due, Open
<1> HIDE DEF Due
<1>2. ASSUME NEW n \in Nat, NEW m \in Nat
      PROVE  n * m >= 0 /\ (m >= 1 => n * m >= n)
  <2>1. n * m >= 0
    OBVIOUS
  <2>2. m >= 1 => n * (m - 1) >= 0 /\ n * m = n * (m - 1) + n
    OBVIOUS
  <2> QED
    BY <2>1, <2>2
<1>3. /\ Amount(o) * Due(o) >= 0 /\ Amount(o) * Due(o) \in Int
      /\ Due(o) >= 1 => Amount(o) * Due(o) >= Amount(o)
  BY <1>1, <1>2
<1> QED
  BY <1>1, <1>3

(* However the requests of administrators, the background execution and    *)
(* the polls interleave (refundOrder, markOrderAsFailed, syncOrder-        *)
(* ProviderStatus, completeOrder, _refundFailedOrder), the platform never  *)
(* pays back more than it took for an order.                               *)
THEOREM AdminsNeverOverRefund ==
  ASSUME AdminAssumptions
  PROVE  AdminSpec => []NeverOverRefunded
<1>1. CoverInv => NeverOverRefunded
  BY CoveredSays DEF NeverOverRefunded
<1>2. AdminInit => CoverInv
  BY AdminInitCovered
<1>3. CoverInv /\ [AdminNext]_vars => CoverInv'
  BY AdminNextCovered
<1> QED
  BY <1>1, <1>2, <1>3, PTL DEF AdminSpec

(* With administrators at work as well, an order for which less than its   *)
(* price is held carries the refund flag: no part of its price has been    *)
(* paid back behind it.                                                    *)
THEOREM AdminsFlagRefunds ==
  ASSUME AdminAssumptions
  PROVE  AdminSpec => []PaidBackIsFlagged
<1>1. CoverInv => PaidBackIsFlagged
  <2> SUFFICES ASSUME CoverInv, NEW o \in Orders, held[o] < Amount(o) PROVE order[o].refunded
    BY DEF PaidBackIsFlagged
  <2>1. order[o].refunded \in BOOLEAN /\ held[o] \in Int /\ Amount(o) \in Nat
    BY ShareBounds DEF CoverInv, Shape, DocShape
  <2> QED
    BY <2>1, CoveredSays
<1>2. AdminInit => CoverInv
  BY AdminInitCovered
<1>3. CoverInv /\ [AdminNext]_vars => CoverInv'
  BY AdminNextCovered
<1> QED
  BY <1>1, <1>2, <1>3, PTL DEF AdminSpec
=============================================================================
