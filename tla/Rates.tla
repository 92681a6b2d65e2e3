-------------------------------- MODULE Rates --------------------------------
(***************************************************************************)
(* What a customer is charged in his own currency: the currencies that     *)
(* administrators bill at (currency.service.js), the feed of market rates  *)
(* (exchangeRateSync.service.js), each worker's cache of currencies        *)
(* (currencyConverter.service.js), the change of a customer's currency     *)
(* (admin.users.service.js) and the part of an order that prices, converts *)
(* and debits (order.service.js).                                          *)
(*                                                                         *)
(* Amounts and rates are whole numbers.  The base currency USD cannot be   *)
(* changed, disabled or deleted and is never looked up.  The minute after  *)
(* which a cached currency expires may end at any time.                    *)
(***************************************************************************)
EXTENDS Documents, Integers

CONSTANTS
    Buyers,         \* the customer's orders
    Foreign,        \* codes other than USD
    BillRates,      \* the rates administrators set
    FeedRates,      \* the rates the feed tells
    Workers,
    UnitPrice,      \* of the product, in USD, with the markup of the group
    CreditLine,
    Transactional,  \* shouldUseOrderTransactions
    OpeningWallets  \* [currency, balance] a customer may begin with

USD == "USD"

ASSUME RatesAssumption ==
    /\ BillRates \cup FeedRates \subseteq Nat \ {0}
    /\ USD \notin Foreign /\ None \notin Foreign
    /\ UnitPrice \in Nat \ {0} /\ CreditLine \in Nat /\ Transactional \in BOOLEAN
    /\ OpeningWallets \subseteq [currency : {USD} \cup Foreign, balance : Int]

VARIABLES
    currency,       \* the Currency documents; `id` tells a new one from a deleted one
    wallet,         \* the customer's currency and balance
    cached,         \* each worker's cache: the rate of a currency, or None
    purchase,       \* the customer's orders
    clerk,          \* the administrators' requests
    feed,           \* each worker's run of the synchronisation, at one code
    billed          \* history: the rates at which a currency was offered

ratesVars == <<currency, wallet, cached, purchase, clerk, feed, billed>>

-----------------------------------------------------------------------------

AllRates == BillRates \cup FeedRates

CurrencyDoc ==
    [exists : BOOLEAN, id : Nat, active : BOOLEAN, platform : AllRates \cup {0},
     market : FeedRates \cup {None}]

\* A request before it has read anything, and a worker between two codes of the feed.
NoRequest ==
    [pc |-> "new", worker |-> None, code |-> None, value |-> 0, flag |-> FALSE, id |-> 0,
     old |-> 0, balance |-> 0, from |-> None]

NoRun == [pc |-> "idle", code |-> None, rate |-> 0]

Gone(id) == [exists |-> FALSE, id |-> id, active |-> FALSE, platform |-> 0, market |-> None]

RatesInit ==
    /\ wallet \in OpeningWallets
    /\ \E rates \in [Foreign -> BillRates \cup {0}] :
          /\ wallet.currency # USD => rates[wallet.currency] > 0
          /\ currency = [c \in Foreign |->
                IF rates[c] = 0 THEN Gone(0)
                ELSE [Gone(0) EXCEPT !.exists = TRUE, !.active = TRUE, !.platform = rates[c]]]
          /\ billed = [c \in Foreign |-> {rates[c]} \ {0}]
    /\ cached = [w \in Workers |-> [c \in Foreign |-> None]]
    /\ purchase = [t \in Buyers |-> [pc |-> "new", worker |-> None, snap |-> wallet,
                                      rate |-> 0, retried |-> FALSE, paid |-> None]]
    /\ clerk = [r \in Reviews |-> NoRequest]
    /\ feed = [w \in Workers |-> NoRun]

Rounding(n, d) == (2 * n + d) \div (2 * d)

convertBalance(balance, oldRate, newRate) == Rounding(balance * newRate, oldRate)

-----------------------------------------------------------------------------
(* Orders.  The user is read at the start of a transaction, the currency   *)
(* through the worker's cache outside of it.                               *)

Purchases(t, pc) == purchase' = [purchase EXCEPT ![t].pc = pc]

calculateUserPrice(t, w) ==
    /\ purchase[t].pc = "new" /\ purchase[t].worker \in {None, w}
    /\ purchase' = [purchase EXCEPT ![t] =
          [@ EXCEPT !.worker = w, !.snap = wallet, !.rate = 1,
                    !.pc = IF wallet.currency = USD THEN "debit" ELSE "convert"]]
    /\ UNCHANGED <<currency, wallet, cached, clerk, feed, billed>>

\* _getCurrency: from the cache, or from the database by way of the cache.
ConvertCached(t) ==
    LET known == cached[purchase[t].worker][purchase[t].snap.currency] IN
    /\ purchase[t].pc = "convert" /\ known # None
    /\ purchase' = [purchase EXCEPT ![t].pc = "debit", ![t].rate = known]
    /\ UNCHANGED <<currency, wallet, cached, clerk, feed, billed>>

_getCurrency(t) ==
    LET doc == currency[purchase[t].snap.currency] IN
    /\ purchase[t].pc = "convert"
    /\ cached[purchase[t].worker][purchase[t].snap.currency] = None
    /\ \/ /\ ~(doc.exists /\ doc.active) /\ Purchases(t, "refused")
       \/ /\ doc.exists /\ doc.active
          /\ purchase' = [purchase EXCEPT ![t].pc = "cache", ![t].rate = doc.platform]
    /\ UNCHANGED <<currency, wallet, cached, clerk, feed, billed>>

CacheCurrency(t) ==
    /\ purchase[t].pc = "cache"
    /\ cached' = [cached EXCEPT ![purchase[t].worker][purchase[t].snap.currency] =
                                    purchase[t].rate]
    /\ Purchases(t, "debit")
    /\ UNCHANGED <<currency, wallet, clerk, feed, billed>>

\* Mutant: after a conflict only the debit is made again.
StartAgainAtDebit(t) ==
    purchase' = [purchase EXCEPT ![t].pc = "debit", ![t].snap = wallet, ![t].retried = TRUE]

\* _attemptCreateOrder runs again from the start.
StartAgain(t) == purchase' = [purchase EXCEPT ![t].pc = "new", ![t].retried = TRUE]

\* The first write conflict is met by another attempt, the second by a failure.
WriteConflict(t) ==
    /\ purchase[t].pc = "debit" /\ Transactional /\ purchase[t].snap # wallet
    /\ IF purchase[t].retried THEN Purchases(t, "refused") ELSE StartAgain(t)
    /\ UNCHANGED <<currency, wallet, cached, clerk, feed, billed>>

chargedAmount(t) == UnitPrice * purchase[t].rate

debitWallet(t) ==
    /\ purchase[t].pc = "debit" /\ (Transactional => purchase[t].snap = wallet)
    /\ \/ /\ wallet.balance + CreditLine >= chargedAmount(t)
          /\ wallet' = [wallet EXCEPT !.balance = @ - chargedAmount(t)]
          /\ purchase' = [purchase EXCEPT ![t].pc = "done", ![t].paid =
                [currency |-> purchase[t].snap.currency, rate |-> purchase[t].rate,
                 takenIn |-> wallet.currency]]
       \/ /\ wallet.balance + CreditLine < chargedAmount(t)
          /\ Purchases(t, "refused") /\ UNCHANGED wallet
    /\ UNCHANGED <<currency, cached, clerk, feed, billed>>

Expire(w, c) ==
    /\ cached[w][c] # None
    /\ cached' = [cached EXCEPT ![w][c] = None]
    /\ UNCHANGED <<currency, wallet, purchase, clerk, feed, billed>>

-----------------------------------------------------------------------------
(* The administrators' requests: each reads, and saves what it read.       *)

UNCHANGED_Orders == UNCHANGED <<purchase, feed>>

Clerk(r, changes) ==
    clerk' = [clerk EXCEPT ![r] =
                [f \in DOMAIN @ |-> IF f \in DOMAIN changes THEN changes[f] ELSE @[f]]]

Ends(r) == clerk' = [clerk EXCEPT ![r] = [NoRequest EXCEPT !.pc = "done"]]

\* The document a request has read is still there.
StillThere(r) ==
    currency[clerk[r].code].exists /\ currency[clerk[r].code].id = clerk[r].id

\* updateCurrencyRate and setCurrencyStatus, up to findOne.
FindCurrency(r, w, pc, c, value, flag) ==
    /\ clerk[r].pc = "new"
    /\ \/ /\ currency[c].exists
          /\ Clerk(r, [pc |-> pc, worker |-> w, code |-> c, value |-> value, flag |-> flag,
                       id |-> currency[c].id, old |-> currency[c].platform])
       \/ ~currency[c].exists /\ Ends(r)
    /\ UNCHANGED <<currency, wallet, cached, billed>> /\ UNCHANGED_Orders

\* `flag` is applyDebtAdjustment.
updateCurrencyRate(r) ==
    LET c == clerk[r].code
        changed == clerk[r].value # clerk[r].old
    IN
    /\ clerk[r].pc = "rate"
    /\ \/ /\ StillThere(r)
          /\ currency' = [currency EXCEPT ![c].platform = IF changed THEN clerk[r].value ELSE @]
          /\ billed' = [billed EXCEPT ![c] = @ \cup {currency'[c].platform}]
          /\ Clerk(r, [pc |-> "invalidate", flag |-> clerk[r].flag /\ changed])
       \/ ~StillThere(r) /\ Ends(r) /\ UNCHANGED <<currency, billed>>
    /\ UNCHANGED <<wallet, cached>> /\ UNCHANGED_Orders

\* `flag` is isActive.
setCurrencyStatus(r) ==
    /\ clerk[r].pc = "status"
    /\ \/ /\ StillThere(r)
          /\ currency' = [currency EXCEPT ![clerk[r].code].active = clerk[r].flag]
          /\ Clerk(r, [pc |-> "invalidate", flag |-> FALSE])
       \/ ~StillThere(r) /\ Ends(r) /\ UNCHANGED currency
    /\ UNCHANGED <<wallet, cached, billed>> /\ UNCHANGED_Orders

\* Only the worker that served the request forgets the currency.
invalidateCurrencyCache(r) ==
    /\ clerk[r].pc = "invalidate"
    /\ cached' = [cached EXCEPT ![clerk[r].worker][clerk[r].code] = None]
    /\ IF clerk[r].flag THEN Clerk(r, [pc |-> "debts"]) ELSE Ends(r)
    /\ UNCHANGED <<currency, wallet, billed>> /\ UNCHANGED_Orders

\* A change of more than 100 percent is an error that is only logged.
FindDebts(r) ==
    LET percent == ((clerk[r].value - clerk[r].old) * 100) \div clerk[r].old IN
    /\ clerk[r].pc = "debts"
    /\ IF /\ wallet.currency = clerk[r].code /\ wallet.balance < 0
          /\ percent <= 100
       THEN Clerk(r, [pc |-> "adjust", balance |-> wallet.balance]) ELSE Ends(r)
    /\ UNCHANGED <<currency, wallet, cached, billed>> /\ UNCHANGED_Orders

\* adjustNegativeBalancesForInflation and ...ForDeflation, at this customer.
adjustNegativeBalances(r) ==
    /\ clerk[r].pc = "adjust"
    /\ wallet' = [wallet EXCEPT !.balance =
          convertBalance(clerk[r].balance, clerk[r].old, clerk[r].value)]
    /\ Ends(r)
    /\ UNCHANGED <<currency, cached, billed>> /\ UNCHANGED_Orders

ExistingCurrency(r, w, c, rate) ==
    /\ clerk[r].pc = "new"
    /\ IF currency[c].exists THEN Ends(r)
       ELSE Clerk(r, [pc |-> "create", worker |-> w, code |-> c, value |-> rate])
    /\ UNCHANGED <<currency, wallet, cached, billed>> /\ UNCHANGED_Orders

\* The code is unique.
Insert(c, active, platform, market) ==
    /\ currency' = [currency EXCEPT ![c] =
          IF @.exists THEN @
          ELSE [exists |-> TRUE, id |-> @.id, active |-> active, platform |-> platform,
                market |-> market]]
    /\ billed' = [billed EXCEPT ![c] = @ \cup {currency'[c].platform}]

createCurrency(r) ==
    /\ clerk[r].pc = "create"
    /\ Insert(clerk[r].code, TRUE, clerk[r].value, None)
    /\ Ends(r)
    /\ UNCHANGED <<wallet, cached>> /\ UNCHANGED_Orders

\* deleteCurrency: no user may be linked ...
LinkedUser(r, w, c) ==
    /\ clerk[r].pc = "new"
    /\ IF currency[c].exists /\ wallet.currency # c
       THEN Clerk(r, [pc |-> "delete", worker |-> w, code |-> c, id |-> currency[c].id])
       ELSE Ends(r)
    /\ UNCHANGED <<currency, wallet, cached, billed>> /\ UNCHANGED_Orders

\* ... then.
deleteCurrency(r) ==
    /\ clerk[r].pc = "delete"
    /\ currency' = [currency EXCEPT ![clerk[r].code] =
          IF StillThere(r) THEN Gone(@.id + 1) ELSE @]
    /\ Clerk(r, [pc |-> "invalidate", flag |-> FALSE])
    /\ UNCHANGED <<wallet, cached, billed>> /\ UNCHANGED_Orders

\* updateUserCurrency: the user, ...
FindUser(r, c) ==
    /\ clerk[r].pc = "new"
    /\ IF wallet.currency = c THEN Ends(r)
       ELSE Clerk(r, [pc |-> "toRate", code |-> c, balance |-> wallet.balance,
                      from |-> wallet.currency])
    /\ UNCHANGED <<currency, wallet, cached, billed>> /\ UNCHANGED_Orders

\* ... the new currency, which must be active, ...
FindNewRate(r) ==
    LET c == clerk[r].code IN
    /\ clerk[r].pc = "toRate"
    /\ IF c = USD THEN Clerk(r, [pc |-> "fromRate", value |-> 1])
       ELSE IF currency[c].exists /\ currency[c].active
       THEN Clerk(r, [pc |-> "fromRate", value |-> currency[c].platform])
       ELSE Ends(r)
    /\ UNCHANGED <<currency, wallet, cached, billed>> /\ UNCHANGED_Orders

\* ... the old one, whose rate is 1 if it is gone, ...
FindOldRate(r) ==
    LET c == clerk[r].from IN
    /\ clerk[r].pc = "fromRate"
    /\ Clerk(r, [pc |-> "convert",
                 old |-> IF c # USD /\ currency[c].exists THEN currency[c].platform ELSE 1])
    /\ UNCHANGED <<currency, wallet, cached, billed>> /\ UNCHANGED_Orders

\* ... and the balance as it was read, converted.
updateUserCurrency(r) ==
    /\ clerk[r].pc = "convert"
    /\ wallet' = [currency |-> clerk[r].code,
                  balance |-> convertBalance(clerk[r].balance, clerk[r].old, clerk[r].value)]
    /\ Ends(r)
    /\ UNCHANGED <<currency, cached, billed>> /\ UNCHANGED_Orders

-----------------------------------------------------------------------------
(* The feed of market rates, one code after the other in each worker.  The *)
(* update of a known currency is by code and forgets it in this worker; as *)
(* a cached currency may expire at any time, reading, updating and         *)
(* forgetting it are one step.                                             *)

syncRates(w, c, rate) ==
    /\ feed[w].pc = "idle"
    /\ IF currency[c].exists
       THEN /\ currency' = [currency EXCEPT ![c].market = rate]
            /\ cached' = [cached EXCEPT ![w][c] = None]
            /\ UNCHANGED feed
       ELSE /\ feed' = [feed EXCEPT ![w] = [pc |-> "create", code |-> c, rate |-> rate]]
            /\ UNCHANGED <<currency, cached>>
    /\ UNCHANGED <<wallet, purchase, clerk, billed>>

\* An unknown one is created inactive, to be billed at the market rate of this day.
CreateFed(w) ==
    /\ feed[w].pc = "create"
    /\ Insert(feed[w].code, FALSE, feed[w].rate, feed[w].rate)
    /\ feed' = [feed EXCEPT ![w] = NoRun]
    /\ UNCHANGED <<wallet, cached, purchase, clerk>>

-----------------------------------------------------------------------------

RatesNext ==
    \/ \E t \in Buyers :
          \/ \E w \in Workers : calculateUserPrice(t, w)
          \/ ConvertCached(t)
          \/ _getCurrency(t)
          \/ CacheCurrency(t)
          \/ WriteConflict(t)
          \/ debitWallet(t)
    \/ \E r \in Reviews, w \in Workers, c \in Foreign :
          \/ \E rate \in BillRates, peg \in BOOLEAN : FindCurrency(r, w, "rate", c, rate, peg)
          \/ \E active \in BOOLEAN : FindCurrency(r, w, "status", c, 0, active)
          \/ \E rate \in BillRates : ExistingCurrency(r, w, c, rate)
          \/ LinkedUser(r, w, c)
    \/ \E r \in Reviews :
          \/ updateCurrencyRate(r)
          \/ setCurrencyStatus(r)
          \/ invalidateCurrencyCache(r)
          \/ FindDebts(r)
          \/ adjustNegativeBalances(r)
          \/ createCurrency(r)
          \/ deleteCurrency(r)
          \/ \E c \in {USD} \cup Foreign : FindUser(r, c)
          \/ FindNewRate(r)
          \/ FindOldRate(r)
          \/ updateUserCurrency(r)
    \/ \E w \in Workers :
          \/ \E c \in Foreign, rate \in FeedRates : syncRates(w, c, rate)
          \/ CreateFed(w)
          \/ \E c \in Foreign : Expire(w, c)

RatesSpec == RatesInit /\ [][RatesNext]_ratesVars

-----------------------------------------------------------------------------
(* Properties.                                                             *)

\* The type invariant: the schema of currency.model.js, where an existing currency has
\* a positive rate, and a cache of known rates.
RatesTypeOK ==
    /\ currency \in [Foreign -> CurrencyDoc]
    /\ \A c \in Foreign : currency[c].exists <=> currency[c].platform > 0
    /\ wallet \in [currency : {USD} \cup Foreign, balance : Int]
    /\ cached \in [Workers -> [Foreign -> AllRates \cup {None}]]

\* Every order is charged at a rate at which its currency was offered, by an
\* administrator or on its first appearance in the feed, never at a market rate of the
\* day, however caches, rate changes, deletions and the feed interleave.  With
\* transactions the currency of the charge is the one the balance is in at the debit,
\* also when an administrator changes it while the order is placed.
ChargedAsBilled ==
    \A t \in Buyers : purchase[t].paid # None =>
        LET paid == purchase[t].paid IN
        /\ IF paid.currency = USD THEN paid.rate = 1 ELSE paid.rate \in billed[paid.currency]
        /\ Transactional => paid.takenIn = paid.currency
=============================================================================
