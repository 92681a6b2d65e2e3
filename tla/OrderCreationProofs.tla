------------------------ MODULE OrderCreationProofs ------------------------
(***************************************************************************)
(* Order creation: the type invariant, what the user pays, and what the    *)
(* answers say, for any number of requests, keys and order numbers.        *)
(*                                                                         *)
(* The inductive invariant tells for every request how far it has come:    *)
(* an order is in the collection from the commit on and never before,      *)
(* money is taken for an order only by an attempt without a session, and   *)
(* where transactions work there is no such attempt.                       *)
(***************************************************************************)
EXTENDS OrderCreation, FiniteSetTheorems, TLAPS

USE DEF At, Goto

-----------------------------------------------------------------------------
(* The invariant.                                                          *)

(* What AnswerIsTruth says of answer a to request r.                       *)
Truth(r, a) ==
    CASE a = "created" -> r \in created
      [] a = "existing" -> r \notin created /\ Existing(r)
      [] a \in {"refused", "duplicate"} -> r \notin created
      [] a = "failed" -> r \in created => faults \cap {"db_error", "unknown_commit"} # {}
      [] OTHER -> "crash" \in faults

(* No money can get lost: nothing fails, or transactions see to it.        *)
Safe == (wanted /\ supported) \/ faults = {}

(* Where request r stands.                                                 *)
Stands(r) ==
    /\ r \in created => request[r].pc \in {"committed", "done"} /\ request[r].number \in Numbers
    /\ At(r, "committed") => r \in created
    /\ request[r].pc \in {"attempt", "taken"} => request[r].number \in Numbers
    /\ At(r, "done") => Truth(r, request[r].answer)
    /\ At(r, "giveBack") => request[r].answer = "none" \/ Truth(r, request[r].answer)
    /\ supported => ~request[r].forceStandalone
    /\ request[r].pc \in {"taken", "giveBack"} => ~(wanted /\ supported)

Paid == created \cup Pending

Books ==
    /\ funds + Price * Cardinality(Paid) <= Opening
    /\ Safe => funds + Price * Cardinality(Paid) = Opening

CInv ==
    /\ CreationTypeOK
    /\ \A r \in Requests : Stands(r)
    /\ Books

-----------------------------------------------------------------------------
(* One request moves.                                                      *)

Moves(r) ==
    /\ UNCHANGED environment
    /\ created \subseteq created' /\ created' \subseteq created \cup {r}
    /\ request' = [request EXCEPT ![r] = request'[r]]
    /\ request'[r] \in Request
    /\ At(r, "new") \/ request'[r].key = request[r].key

(* What the step does to the funds and to the orders they pay for.         *)
Pays(r) ==
    \/ funds' = funds /\ (r \in Paid <=> r \in Paid')
    \/ funds' = funds - Price /\ r \notin Paid /\ r \in Paid'
    \/ funds' = funds + Price /\ r \in Paid /\ r \notin Paid'
    \/ ~Safe /\ funds' <= funds /\ (r \in Paid' => r \in Paid)

LEMMA PriceOfOrders ==
  ASSUME NEW a \in Nat, NEW n \in Nat, NEW m \in Nat, NEW f \in Int, NEW g \in Int, NEW b \in Int,
         f + a * n <= b
  PROVE  /\ g = f /\ m = n => g + a * m = f + a * n
         /\ g = f - a /\ m = n + 1 => g + a * m = f + a * n
         /\ g = f + a /\ m = n - 1 => g + a * m = f + a * n
         /\ g <= f /\ m <= n => g + a * m <= b
<1>1. a * (n + 1) = a * n + a /\ a * (n - 1) = a * n - a
  OBVIOUS
<1>2. m <= n => a * m <= a * n
  <2>1. m <= n => a * (n - m) >= 0
    OBVIOUS
  <2> QED
    BY <2>1
<1>3. a * m \in Int /\ a * n \in Int
  OBVIOUS
<1> QED
  BY <1>1, <1>2, <1>3

LEMMA BooksKept ==
  ASSUME CInv, IsFiniteSet(Requests), NEW r \in Requests, Moves(r), Pays(r), funds' \in Nat
  PROVE  Books'
<1> DEFINE S == Paid
           T == Paid'
           n == Cardinality(S)
           m == Cardinality(T)
<1>1. S \subseteq Requests /\ T \subseteq Requests
  BY DEF Paid, Pending, CInv, CreationTypeOK, Moves
<1>2. IsFiniteSet(S) /\ IsFiniteSet(T) /\ n \in Nat /\ m \in Nat
  BY <1>1, FS_Subset, FS_CardinalityType
<1>3. \A q \in Requests \ {r} : q \in S <=> q \in T
  BY DEF Paid, Pending, Moves, CInv, CreationTypeOK
<1>4. /\ Safe' <=> Safe
      /\ Books <=> funds + Price * n <= Opening /\ (Safe => funds + Price * n = Opening)
      /\ Books' <=> funds' + Price * m <= Opening /\ (Safe' => funds' + Price * m = Opening)
  BY DEF Moves, environment, Safe, Books
<1> HIDE DEF S, T
<1>5. (r \in S <=> r \in T) => m = n
  <2>1. (r \in S <=> r \in T) => S = T
    BY <1>1, <1>3
  <2> QED
    BY <2>1
<1>6. r \notin S /\ r \in T => m = n + 1
  <2>1. r \notin S /\ r \in T => T = S \cup {r}
    BY <1>1, <1>3
  <2> QED
    BY <1>2, <2>1, FS_AddElement
<1>7. r \in S /\ r \notin T => m = n - 1
  <2>1. r \in S /\ r \notin T => T = S \ {r}
    BY <1>1, <1>3
  <2> QED
    BY <1>2, <2>1, FS_RemoveElement
<1>8. (r \in T => r \in S) => m <= n
  <2>1. (r \in T => r \in S) => T \subseteq S
    BY <1>1, <1>3
  <2> QED
    BY <1>2, <2>1, FS_Subset
<1>9. \/ funds' = funds /\ m = n
      \/ funds' = funds - Price /\ m = n + 1
      \/ funds' = funds + Price /\ m = n - 1
      \/ ~Safe /\ funds' <= funds /\ m <= n
  BY <1>5, <1>6, <1>7, <1>8 DEF Pays, S, T
<1> HIDE DEF n, m
<1>10. Price \in Nat /\ Opening \in Int /\ funds \in Int /\ funds' \in Int /\ Books
  BY FundsAssumption DEF CInv, CreationTypeOK
<1>11. /\ funds + Price * n <= Opening
       /\ Safe => funds + Price * n = Opening
  BY <1>4, <1>10
<1>12. /\ funds' = funds /\ m = n => funds' + Price * m = funds + Price * n
       /\ funds' = funds - Price /\ m = n + 1 => funds' + Price * m = funds + Price * n
       /\ funds' = funds + Price /\ m = n - 1 => funds' + Price * m = funds + Price * n
       /\ funds' <= funds /\ m <= n => funds' + Price * m <= Opening
  BY <1>2, <1>10, <1>11, PriceOfOrders
<1>13. /\ funds' + Price * m <= Opening
       /\ Safe => funds' + Price * m = Opening
  BY <1>9, <1>11, <1>12
<1> QED
  BY <1>4, <1>13

(* The other requests stand where they stood.                              *)
LEMMA OthersStand ==
  ASSUME CInv, NEW r \in Requests, Moves(r), NEW q \in Requests, q # r
  PROVE  Stands(q)'
<1>1. /\ request'[q] = request[q] /\ UNCHANGED <<wanted, supported, faults>>
      /\ q \in created' <=> q \in created
  BY DEF Moves, environment, CInv, CreationTypeOK
<1>2. Stands(q)
  BY DEF CInv
<1>3. Existing(q) => Existing(q)'
  <2> SUFFICES ASSUME Existing(q) PROVE Existing(q)'
    OBVIOUS
  <2>1. PICK x \in created : request[x].key = request[q].key
    BY DEF Existing, KeyTaken
  <2>2. x \in Requests /\ ~At(x, "new")
    BY DEF CInv, CreationTypeOK, Stands
  <2>3. request'[x].key = request[x].key /\ x \in created'
    BY <2>2 DEF Moves, CInv, CreationTypeOK
  <2> QED
    BY <1>1, <2>1, <2>3 DEF Existing, KeyTaken
<1>4. \A a : Truth(q, a) => Truth(q, a)'
  BY <1>1, <1>3 DEF Truth
<1> QED
  BY <1>1, <1>2, <1>4 DEF Stands

LEMMA StepKept ==
  ASSUME CInv, IsFiniteSet(Requests), NEW r \in Requests, Moves(r), Pays(r), funds' \in Nat,
         Stands(r)'
  PROVE  CInv'
<1>1. \A q \in Requests : Stands(q)'
  BY OthersStand
<1>2. CreationTypeOK'
  <2>1. request' \in [Requests -> Request] /\ created' \subseteq Requests
    BY DEF Moves, CInv, CreationTypeOK
  <2>2. wanted' \in BOOLEAN /\ supported' \in BOOLEAN /\ faults' \in FaultSets
    BY DEF Moves, environment, CInv, CreationTypeOK
  <2>3. \A q \in created' : request'[q].number \in Numbers
    BY <1>1, <2>1 DEF Stands
  <2> QED
    BY <2>1, <2>2, <2>3 DEF CreationTypeOK
<1>3. Books'
  BY BooksKept
<1> QED
  BY <1>1, <1>2, <1>3 DEF CInv

LEMMA InitKept ==
  ASSUME Init
  PROVE  CInv
<1>1. NewRequest \in Request /\ NewRequest.pc = "new" /\ ~NewRequest.forceStandalone
  BY DEF NewRequest, Request, Answers
<1>2. CreationTypeOK
  BY <1>1, FundsAssumption DEF Init, CreationTypeOK
<1>3. \A r \in Requests : Stands(r)
  BY <1>1 DEF Init, Stands
<1>4. Paid = {}
  BY <1>1 DEF Init, Paid, Pending
<1>5. Cardinality(Paid) = 0
  BY <1>4, FS_EmptySet
<1>6. Books
  BY <1>5, FundsAssumption DEF Init, Books
<1> QED
  BY <1>2, <1>3, <1>6 DEF CInv

-----------------------------------------------------------------------------
(* The ways in which a request goes on.                                    *)

LEMMA Known ==
  ASSUME CInv, NEW r \in Requests
  PROVE  /\ request[r] \in Request /\ DOMAIN request = Requests /\ Stands(r)
         /\ funds \in Nat /\ Price \in Nat \ {0}
         /\ r \in Paid <=> r \in created \/ request[r].pc \in {"taken", "giveBack"}
  BY FundsAssumption DEF CInv, CreationTypeOK, Paid, Pending

LEMMA Becomes ==
  ASSUME CInv, NEW r \in Requests, NEW new \in Request, UNCHANGED environment,
         request' = [request EXCEPT ![r] = new],
         created' = created \/ created' = created \cup {r},
         At(r, "new") \/ new.key = request[r].key
  PROVE  /\ Moves(r) /\ request'[r] = new
         /\ r \in Paid' <=> r \in created' \/ new.pc \in {"taken", "giveBack"}
<1>1. request'[r] = new
  BY Known
<1> QED
  BY <1>1 DEF Moves, Paid, Pending

(* What was true of an answer stays true when no order is inserted.        *)
LEMMA TruthStays ==
  ASSUME CInv, NEW r \in Requests, Moves(r), created' = created, ~At(r, "new"), NEW a, Truth(r, a)
  PROVE  Truth(r, a)'
<1>1. \A q \in Requests : request'[q].key = request[q].key \/ At(q, "new")
  BY DEF Moves, CInv, CreationTypeOK
<1>2. \A q \in created \cup {r} : request'[q].key = request[q].key
  BY <1>1 DEF CInv, CreationTypeOK, Stands
<1>3. Existing(r)' <=> Existing(r)
  BY <1>2 DEF Existing, KeyTaken
<1> QED
  BY <1>3 DEF Truth, Moves, environment

LEMMA EndKept ==
  ASSUME CInv, NEW r \in Requests, NEW a \in Answers, NEW n \in Numbers \cup {NoNumber},
         End(r, a, n), UNCHANGED environment, created' = created \/ created' = created \cup {r}
  PROVE  /\ Moves(r) /\ request'[r].pc = "done" /\ request'[r].answer = a
         /\ request'[r].number = n /\ ~request'[r].forceStandalone
         /\ r \in Paid' <=> r \in created'
<1> DEFINE new == [NewRequest EXCEPT !.pc = "done", !.answer = a,
                                     !.key = request[r].key, !.number = n]
<1>1. request' = [request EXCEPT ![r] = new]
  BY DEF End
<1>2. /\ new \in Request /\ new.key = request[r].key /\ new.pc = "done" /\ new.answer = a
      /\ new.number = n /\ ~new.forceStandalone
  BY Known DEF Request, NewRequest
<1> HIDE DEF new
<1> QED
  BY <1>1, <1>2, Becomes

LEMMA DoneKept ==
  ASSUME CInv, NEW r \in Requests, NEW a \in Answers, Done(r, a), ~At(r, "new"),
         UNCHANGED <<environment, created>>, Truth(r, a)
  PROVE  Moves(r) /\ Stands(r)' /\ (r \in Paid' <=> r \in created)
<1> DEFINE n == IF r \in created THEN request[r].number ELSE NoNumber
<1>1. End(r, a, n)
  BY DEF Done
<1>2. n \in Numbers \cup {NoNumber} /\ (r \in created => n \in Numbers)
  BY Known DEF Stands, Request
<1> HIDE DEF n
<1>3. /\ Moves(r) /\ request'[r].pc = "done" /\ request'[r].answer = a
      /\ request'[r].number = n /\ ~request'[r].forceStandalone
      /\ r \in Paid' <=> r \in created
  BY <1>1, <1>2, EndKept
<1>4. Truth(r, a)'
  BY <1>3, TruthStays
<1> QED
  BY <1>2, <1>3, <1>4 DEF Stands

LEMMA AgainKept ==
  ASSUME CInv, NEW r \in Requests, NEW forced \in BOOLEAN, NEW retry \in BOOLEAN,
         Again(r, forced, retry), r \notin created, forced => ~supported,
         UNCHANGED <<environment, created>>
  PROVE  Moves(r) /\ Stands(r)' /\ r \notin Paid'
<1> DEFINE new == [request[r] EXCEPT !.pc = "number", !.number = NoNumber,
                                     !.forceStandalone = @ \/ forced, !.isRetry = @ \/ retry]
<1>1. request' = [request EXCEPT ![r] = new]
  BY DEF Again
<1>2. request[r] \in Request /\ (supported => ~request[r].forceStandalone)
  BY Known DEF Stands
<1>3. /\ new \in Request /\ new.key = request[r].key /\ new.pc = "number"
      /\ supported => ~new.forceStandalone
  BY <1>2 DEF Request
<1> HIDE DEF new
<1>4. Moves(r) /\ request'[r] = new /\ r \notin Paid'
  BY <1>1, <1>3, Becomes
<1> QED
  BY <1>3, <1>4 DEF Stands, environment

LEMMA GotoKept ==
  ASSUME CInv, NEW r \in Requests, Goto(r, "taken") \/ Goto(r, "committed"),
         UNCHANGED environment, created' = created \/ created' = created \cup {r}
  PROVE  /\ Moves(r) /\ request'[r].number = request[r].number
         /\ request'[r].forceStandalone = request[r].forceStandalone
         /\ request'[r].pc \in {"taken", "committed"}
         /\ Goto(r, request'[r].pc)
         /\ r \in Paid' <=> r \in created' \/ request'[r].pc = "taken"
<1>1. ASSUME NEW pc \in {"taken", "committed"}, Goto(r, pc)
      PROVE  /\ Moves(r) /\ request'[r] = [request[r] EXCEPT !.pc = pc]
             /\ request[r] \in Request
             /\ r \in Paid' <=> r \in created' \/ pc = "taken"
  <2> DEFINE new == [request[r] EXCEPT !.pc = pc]
  <2>1. request' = [request EXCEPT ![r] = new]
    BY <1>1
  <2>2. request[r] \in Request
    BY Known
  <2>3. new \in Request /\ new.key = request[r].key /\ new.pc = pc
    BY <2>2 DEF Request
  <2> HIDE DEF new
  <2>4. /\ Moves(r) /\ request'[r] = new
        /\ r \in Paid' <=> r \in created' \/ new.pc \in {"taken", "giveBack"}
    BY <2>1, <2>3, Becomes
  <2> QED
    BY <2>2, <2>3, <2>4 DEF new
<1>2. ASSUME NEW pc \in {"taken", "committed"}, Goto(r, pc), request[r] \in Request,
             request'[r] = [request[r] EXCEPT !.pc = pc]
      PROVE  /\ request'[r].number = request[r].number /\ request'[r].pc = pc
             /\ request'[r].forceStandalone = request[r].forceStandalone
  BY <1>2 DEF Request
<1>3. CASE Goto(r, "taken")
  BY <1>1, <1>2, <1>3
<1>4. CASE Goto(r, "committed")
  BY <1>1, <1>2, <1>4
<1> QED
  BY <1>3, <1>4

LEMMA GiveBackDue ==
  ASSUME CInv, NEW r \in Requests, NEW a \in Answers, ThenGiveBack(r, a), At(r, "taken"),
         a = "none" \/ Truth(r, a)
  PROVE  Moves(r) /\ Stands(r)' /\ r \in Paid' /\ funds' = funds
<1> DEFINE new == [request[r] EXCEPT !.pc = "giveBack", !.answer = a]
<1>1. request' = [request EXCEPT ![r] = new] /\ UNCHANGED <<environment, created>> /\ funds' = funds
  BY DEF ThenGiveBack, environment
<1>2. request[r] \in Request /\ Stands(r) /\ r \notin created
  BY Known DEF Stands
<1>3. /\ new \in Request /\ new.key = request[r].key /\ new.pc = "giveBack" /\ new.answer = a
      /\ new.forceStandalone = request[r].forceStandalone
  BY <1>2 DEF Request
<1> HIDE DEF new
<1>4. Moves(r) /\ request'[r] = new /\ r \in Paid'
  BY <1>1, <1>3, Becomes
<1>5. a = "none" \/ Truth(r, a)'
  BY <1>1, <1>4, TruthStays
<1> QED
  BY <1>1, <1>2, <1>3, <1>4, <1>5 DEF Stands, environment

-----------------------------------------------------------------------------
(* The actions.                                                            *)

LEMMA SubmitKept ==
  ASSUME CInv, IsFiniteSet(Requests), NEW r \in Requests, NEW key \in Keys \cup {NoKey},
         Submit(r, key)
  PROVE  CInv'
<1> DEFINE known == key # NoKey /\ \E q \in created : request[q].key = key
           new == [request[r] EXCEPT !.key = key, !.pc = IF known THEN "done" ELSE "number",
                                     !.answer = IF known THEN "existing" ELSE "none"]
<1>1. /\ At(r, "new") /\ request' = [request EXCEPT ![r] = new]
      /\ UNCHANGED <<environment, funds, created>>
  BY DEF Submit
<1>2. /\ request[r] \in Request /\ r \notin created /\ r \notin Paid /\ funds \in Nat
      /\ (supported => ~request[r].forceStandalone)
  BY <1>1, Known DEF Stands
<1>3. /\ new \in Request /\ new.key = key
      /\ new.pc = (IF known THEN "done" ELSE "number")
      /\ new.answer = (IF known THEN "existing" ELSE "none")
      /\ new.forceStandalone = request[r].forceStandalone
  BY <1>2 DEF Request, Answers
<1> HIDE DEF new
<1>4. Moves(r) /\ request'[r] = new /\ r \notin Paid'
  BY <1>1, <1>2, <1>3, Becomes
<1>5. known => Truth(r, "existing")'
  <2> SUFFICES ASSUME known PROVE Truth(r, "existing")'
    OBVIOUS
  <2>1. PICK q \in created : request[q].key = key
    OBVIOUS
  <2>2. q \in Requests /\ q # r
    BY <1>2, <2>1 DEF CInv, CreationTypeOK
  <2>3. request'[q].key = key /\ q \in created'
    BY <1>1, <2>1, <2>2, Known
  <2> QED
    BY <1>1, <1>2, <1>3, <1>4, <2>3 DEF Truth, Existing, KeyTaken
<1> HIDE DEF known
<1>6. Stands(r)'
  BY <1>1, <1>2, <1>3, <1>4, <1>5 DEF Stands, environment
<1> QED
  BY <1>1, <1>2, <1>4, <1>6, StepKept DEF Pays

(* Before the debit: nothing is taken, and the order is not there.         *)
LEMMA NumberKept ==
  ASSUME CInv, IsFiniteSet(Requests), NEW r \in Requests, generateUniqueOrderNumber(r)
  PROVE  CInv'
<1>1. /\ At(r, "number") /\ UNCHANGED <<environment, funds, created>>
      /\ request[r] \in Request /\ r \notin created /\ r \notin Paid /\ funds \in Nat
      /\ (supported => ~request[r].forceStandalone)
  BY Known DEF generateUniqueOrderNumber, Stands
<1>2. ASSUME NEW number \in Numbers,
             request' = [request EXCEPT ![r] = [@ EXCEPT !.pc = "attempt", !.number = number]]
      PROVE  CInv'
  <2> DEFINE new == [request[r] EXCEPT !.pc = "attempt", !.number = number]
  <2>1. /\ new \in Request /\ new.key = request[r].key /\ new.pc = "attempt"
        /\ new.number = number /\ new.forceStandalone = request[r].forceStandalone
        /\ request' = [request EXCEPT ![r] = new]
    BY <1>1, <1>2 DEF Request
  <2> HIDE DEF new
  <2>2. Moves(r) /\ request'[r] = new /\ r \notin Paid'
    BY <1>1, <2>1, Becomes
  <2>3. Stands(r)'
    BY <1>1, <2>1, <2>2 DEF Stands, environment
  <2> QED
    BY <1>1, <2>2, <2>3, StepKept DEF Pays
<1>3. CASE Done(r, "refused")
  <2>1. Truth(r, "refused")
    BY <1>1 DEF Truth
  <2>2. Moves(r) /\ Stands(r)' /\ r \notin Paid'
    BY <1>1, <1>3, <2>1, DoneKept DEF Answers
  <2> QED
    BY <1>1, <2>2, StepKept DEF Pays
<1> QED
  BY <1>2, <1>3 DEF generateUniqueOrderNumber

(* An attempt that neither pays nor inserts.                               *)
LEMMA FreeAttempt ==
  ASSUME CInv, IsFiniteSet(Requests), NEW r \in Requests,
         Refuse(r) \/ TxnUnsupported(r) \/ TxnDuplicateNumber(r) \/ TxnDuplicateKey(r)
         \/ TxnConflict(r)
  PROVE  CInv'
<1>1. At(r, "attempt") /\ UNCHANGED <<environment, funds, created>>
  BY DEF Refuse, TxnUnsupported, TxnDuplicateNumber, TxnDuplicateKey, TxnConflict, InTxn
<1>2. r \notin created /\ r \notin Paid /\ funds \in Nat
  BY <1>1, Known DEF Stands
<1>3. ASSUME NEW a \in Answers, Truth(r, a), Done(r, a) PROVE CInv'
  <2>1. Moves(r) /\ Stands(r)' /\ r \notin Paid'
    BY <1>1, <1>2, <1>3, DoneKept
  <2> QED
    BY <1>1, <1>2, <2>1, StepKept DEF Pays
<1>4. ASSUME NEW forced \in BOOLEAN, NEW retry \in BOOLEAN, Again(r, forced, retry),
             forced => ~supported
      PROVE  CInv'
  <2>1. Moves(r) /\ Stands(r)' /\ r \notin Paid'
    BY <1>1, <1>2, <1>4, AgainKept
  <2> QED
    BY <1>1, <1>2, <2>1, StepKept DEF Pays
<1>5. Truth(r, "refused") /\ Truth(r, "failed")
  BY <1>2 DEF Truth
<1>6. KeyTaken(r) => Truth(r, DuplicateAnswer(r)) /\ DuplicateAnswer(r) \in Answers
  BY <1>2 DEF Truth, DuplicateAnswer, Existing, Answers
<1>7. "refused" \in Answers /\ "failed" \in Answers
  BY DEF Answers
<1>a. CASE Refuse(r)
  BY <1>3, <1>5, <1>7, <1>a DEF Refuse
<1>b. CASE TxnUnsupported(r)
  BY <1>4, <1>b DEF TxnUnsupported
<1>c. CASE TxnDuplicateNumber(r)
  BY <1>4, <1>c DEF TxnDuplicateNumber
<1>d. CASE TxnDuplicateKey(r)
  BY <1>3, <1>6, <1>d DEF TxnDuplicateKey
<1>e. CASE TxnConflict(r)
  BY <1>3, <1>4, <1>5, <1>7, <1>e DEF TxnConflict
<1> QED
  BY <1>a, <1>b, <1>c, <1>d, <1>e

LEMMA CommitKept ==
  ASSUME CInv, IsFiniteSet(Requests), NEW r \in Requests, TxnCommit(r)
  PROVE  CInv'
<1>1. /\ At(r, "attempt") /\ UNCHANGED environment /\ created' = created \cup {r}
      /\ funds >= Price /\ funds' = funds - Price
  BY DEF TxnCommit, InTxn
<1>2. /\ r \notin Paid /\ funds' \in Nat /\ request[r].number \in Numbers
      /\ (supported => ~request[r].forceStandalone)
  BY <1>1, Known DEF Stands
<1>3. CASE Goto(r, "committed")
  <2>1. /\ Moves(r) /\ request'[r].number = request[r].number /\ r \in Paid'
        /\ request'[r].forceStandalone = request[r].forceStandalone
    BY <1>1, <1>3, GotoKept
  <2>2. request'[r].pc = "committed"
    BY <1>3, Known DEF Request
  <2>3. Stands(r)'
    BY <1>1, <1>2, <2>1, <2>2 DEF Stands, environment
  <2> QED
    BY <1>1, <1>2, <2>1, <2>3, StepKept DEF Pays
<1>4. CASE "unknown_commit" \in faults /\ End(r, "failed", request[r].number)
  <2>1. /\ Moves(r) /\ request'[r].pc = "done" /\ request'[r].answer = "failed"
        /\ request'[r].number = request[r].number /\ ~request'[r].forceStandalone
        /\ r \in Paid'
    BY <1>1, <1>2, <1>4, EndKept DEF Answers
  <2>2. Truth(r, "failed")'
    BY <1>1, <1>4 DEF Truth, environment
  <2>3. Stands(r)'
    BY <1>1, <1>2, <2>1, <2>2 DEF Stands, environment
  <2> QED
    BY <1>1, <1>2, <2>1, <2>3, StepKept DEF Pays
<1> QED
  BY <1>3, <1>4 DEF TxnCommit

(* The debit of an attempt without a session.                              *)
LEMMA TakeKept ==
  ASSUME CInv, IsFiniteSet(Requests), NEW r \in Requests, Take(r)
  PROVE  CInv'
<1>1. /\ At(r, "attempt") /\ UNCHANGED <<environment, created>> /\ ~InSession(r)
      /\ funds >= Price /\ funds' = funds - Price
  BY DEF Take
<1>2. /\ r \notin Paid /\ r \notin created /\ funds \in Nat /\ Price \in Nat /\ funds' \in Nat
      /\ request[r].number \in Numbers /\ (supported => ~request[r].forceStandalone)
  BY <1>1, Known DEF Stands
<1>3. ~(wanted /\ supported)
  BY <1>1, <1>2 DEF InSession
<1>4. CASE Goto(r, "taken")
  <2>1. /\ Moves(r) /\ request'[r].number = request[r].number
        /\ request'[r].forceStandalone = request[r].forceStandalone
    BY <1>1, <1>4, GotoKept
  <2>2. request'[r].pc = "taken" /\ r \in Paid'
    BY <1>4, <2>1, Known DEF Request, Paid, Pending
  <2>3. Stands(r)'
    BY <1>1, <1>2, <1>3, <2>1, <2>2 DEF Stands, environment
  <2> QED
    BY <1>1, <1>2, <2>1, <2>2, <2>3, StepKept DEF Pays
<1>5. CASE "db_error" \in faults /\ Done(r, "failed")
  <2>1. Truth(r, "failed") /\ ~Safe
    BY <1>2, <1>3, <1>5 DEF Truth, Safe
  <2>2. Moves(r) /\ Stands(r)' /\ r \notin Paid'
    BY <1>1, <1>2, <1>5, <2>1, DoneKept DEF Answers
  <2>3. Pays(r)
    BY <1>1, <1>2, <2>1, <2>2 DEF Pays
  <2> QED
    BY <1>2, <2>2, <2>3, StepKept
<1> QED
  BY <1>4, <1>5 DEF Take

LEMMA CreateKept ==
  ASSUME CInv, IsFiniteSet(Requests), NEW r \in Requests, Create(r)
  PROVE  CInv'
<1>1. At(r, "taken") /\ request[r].number \in Numbers /\ r \notin created /\ r \in Paid
      /\ funds \in Nat /\ (supported => ~request[r].forceStandalone)
  BY Known DEF Create, Stands
<1>2. ASSUME NEW a \in Answers, ThenGiveBack(r, a), a = "none" \/ Truth(r, a)
      PROVE  CInv'
  <2>1. Moves(r) /\ Stands(r)' /\ r \in Paid' /\ funds' = funds
    BY <1>1, <1>2, GiveBackDue
  <2> QED
    BY <1>1, <2>1, StepKept DEF Pays
<1>3. CASE created' = created \cup {r} /\ Goto(r, "committed") /\ UNCHANGED <<environment, funds>>
  <2>1. /\ Moves(r) /\ request'[r].number = request[r].number /\ r \in Paid'
        /\ request'[r].forceStandalone = request[r].forceStandalone
    BY <1>1, <1>3, GotoKept
  <2>2. request'[r].pc = "committed"
    BY <1>3, Known DEF Request
  <2>3. Stands(r)'
    BY <1>1, <1>3, <2>1, <2>2 DEF Stands, environment
  <2> QED
    BY <1>1, <1>3, <2>1, <2>3, StepKept DEF Pays
<1>4. KeyTaken(r) => Truth(r, DuplicateAnswer(r)) /\ DuplicateAnswer(r) \in Answers
  BY <1>1 DEF Truth, DuplicateAnswer, Existing, Answers
<1>5. Truth(r, "failed") /\ "failed" \in Answers /\ "none" \in Answers
  BY <1>1 DEF Truth, Answers
<1> QED
  BY <1>2, <1>3, <1>4, <1>5 DEF Create

LEMMA GiveBackKept ==
  ASSUME CInv, IsFiniteSet(Requests), NEW r \in Requests, GiveBack(r)
  PROVE  CInv'
<1>1. /\ At(r, "giveBack") /\ UNCHANGED <<environment, created>>
      /\ funds' = funds + Price \/ ("db_error" \in faults /\ funds' = funds)
  BY DEF GiveBack
<1>2. /\ r \in Paid /\ r \notin created /\ funds \in Nat /\ Price \in Nat /\ funds' \in Nat
      /\ request[r].answer \in Answers /\ ~(wanted /\ supported)
      /\ request[r].answer = "none" \/ Truth(r, request[r].answer)
  BY <1>1, Known DEF Stands, Request
<1>3. Moves(r) /\ Stands(r)' /\ r \notin Paid'
  <2>1. CASE Again(r, FALSE, FALSE)
    BY <1>1, <1>2, <2>1, AgainKept
  <2>2. CASE Done(r, request[r].answer) /\ request[r].answer # "none"
    BY <1>1, <1>2, <2>2, DoneKept
  <2> QED
    BY <2>1, <2>2 DEF GiveBack
<1>4. Pays(r)
  <2>1. CASE funds' = funds + Price
    BY <1>2, <1>3, <2>1 DEF Pays
  <2>2. CASE "db_error" \in faults /\ funds' = funds
    BY <1>2, <1>3, <2>2 DEF Pays, Safe
  <2> QED
    BY <1>1, <2>1, <2>2
<1> QED
  BY <1>2, <1>3, <1>4, StepKept

LEMMA AnswerKept ==
  ASSUME CInv, IsFiniteSet(Requests), NEW r \in Requests, Answer(r)
  PROVE  CInv'
<1>1. /\ At(r, "committed") /\ UNCHANGED <<environment, funds, created>>
      /\ Done(r, "created") \/ ("db_error" \in faults /\ Done(r, "failed"))
  BY DEF Answer
<1>2. r \in created /\ r \in Paid /\ funds \in Nat
  BY <1>1, Known DEF Stands
<1>3. Truth(r, "created") /\ ("db_error" \in faults => Truth(r, "failed"))
  BY <1>2 DEF Truth
<1>4. Moves(r) /\ Stands(r)' /\ r \in Paid'
  BY <1>1, <1>2, <1>3, DoneKept DEF Answers
<1> QED
  BY <1>1, <1>2, <1>4, StepKept DEF Pays

LEMMA CrashKept ==
  ASSUME CInv, IsFiniteSet(Requests), NEW r \in Requests, Crash(r)
  PROVE  CInv'
<1>1. /\ "crash" \in faults /\ ~At(r, "new") /\ UNCHANGED <<environment, funds, created>>
      /\ Done(r, "none")
  BY DEF Crash
<1>2. Truth(r, "none") /\ "none" \in Answers
  BY <1>1 DEF Truth, Answers
<1>3. Moves(r) /\ Stands(r)' /\ (r \in Paid' <=> r \in created)
  BY <1>1, <1>2, DoneKept
<1>4. /\ r \in Paid <=> r \in created \/ request[r].pc \in {"taken", "giveBack"}
      /\ request[r].pc \in {"taken", "giveBack"} => ~(wanted /\ supported)
      /\ funds \in Nat
  BY Known DEF Stands
<1>5. Pays(r)
  BY <1>1, <1>3, <1>4 DEF Pays, Safe
<1> QED
  BY <1>1, <1>3, <1>4, <1>5, StepKept

LEMMA NextKept ==
  ASSUME CInv, IsFiniteSet(Requests), [Next]_vars
  PROVE  CInv'
<1>1. ASSUME NEW r \in Requests, Attempt(r) PROVE CInv'
  BY <1>1, NumberKept, FreeAttempt, CommitKept, TakeKept, CreateKept, GiveBackKept, AnswerKept
     DEF Attempt
<1>2. CASE Next
  BY <1>1, <1>2, SubmitKept, CrashKept DEF Next
<1>3. CASE UNCHANGED vars
  <2>1. Paid' = Paid /\ (\A r \in Requests : Stands(r)' <=> Stands(r))
    BY <1>3 DEF vars, Paid, Pending, Stands, Truth, Existing, KeyTaken
  <2>2. CreationTypeOK'
    BY <1>3 DEF CInv, CreationTypeOK, vars
  <2>3. Books'
    BY <1>3, <2>1 DEF CInv, Books, Safe, vars
  <2> QED
    BY <2>1, <2>2, <2>3 DEF CInv
<1> QED
  BY <1>2, <1>3

-----------------------------------------------------------------------------
(* The theorems, for finitely many requests: the books count them.         *)

LEMMA CreationInvariant ==
  ASSUME IsFiniteSet(Requests)
  PROVE  Spec => []CInv
  BY InitKept, NextKept, PTL DEF Spec

(* The requests of createOrder and the attempts of _attemptCreateOrder     *)
(* keep the shape they have in the code; the funds never become negative   *)
(* and no order is stored without a number.                                *)
THEOREM CreationTypes ==
  ASSUME IsFiniteSet(Requests)
  PROVE  Spec => []CreationTypeOK
<1>1. CInv => CreationTypeOK
  BY DEF CInv
<1> QED
  BY <1>1, CreationInvariant, PTL

(* Whatever fails and however often _attemptCreateOrder retries itself,    *)
(* with a session or without one, the user has paid for every order in the *)
(* collection and for every order being inserted.                          *)
THEOREM EveryOrderIsPaid ==
  ASSUME IsFiniteSet(Requests)
  PROVE  Spec => []NoFreeOrder
<1>1. CInv => NoFreeOrder
  BY DEF CInv, Books, Paid, NoFreeOrder
<1> QED
  BY <1>1, CreationInvariant, PTL

(* Where transactions are wanted and work, or where nothing fails, neither *)
(* a retry nor a resubmission nor an order lost to a duplicate key costs   *)
(* the user anything.                                                      *)
THEOREM OnlyOrdersAreCharged ==
  ASSUME IsFiniteSet(Requests)
  PROVE  Spec => []ChargedForOrdersOnly
<1>1. CInv => ChargedForOrdersOnly
  BY DEF CInv, Books, Paid, Safe, ChargedForOrdersOnly
<1> QED
  BY <1>1, CreationInvariant, PTL

(* What createOrder answers is true of the collection when it is read, and *)
(* stays true: "created", "existing" and the refusals alike.               *)
THEOREM AnswersAreTrue ==
  ASSUME IsFiniteSet(Requests)
  PROVE  Spec => []AnswerIsTruth
<1>1. CInv => AnswerIsTruth
  BY DEF CInv, Stands, Truth, AnswerIsTruth
<1> QED
  BY <1>1, CreationInvariant, PTL
=============================================================================
