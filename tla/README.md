# A formal model of the Kanz Coins backend

The backend sells digital goods: a customer pays from a wallet, an order is created, a
provider is asked to deliver, and what is not delivered is paid back. It runs as a cluster of
PM2 workers over one MongoDB. This directory models where money, orders and accounts can go
wrong: the life of an order, the wallet behind it, the deposits that fill it, the commissions
paid out of it, the accounts, rates and catalogue it is spent by. Paths below are relative to
`src/src/modules/` unless they start with `src/`.

Contents: [parts](#the-system), [modules](#modules), [runs](#runs), [bounds](#bounds),
[fairness](#fairness), [proofs](#proofs), [what was found](#what-the-runs-show-of-the-code),
[what is not modelled](#what-is-not-modelled), [plan](#plan).

## The system

| Component | State it keeps | Operations | Talks to | What is hard | What makes it correct |
|---|---|---|---|---|---|
| Order creation (`orders/order.service.js`) | orders, the unique indexes | `createOrder`, `_attemptCreateOrder` | wallet (debit), fulfilment (fire and forget) | resubmissions, retries that change from transactions to none, compensation | one charge per order, one order per key, a truthful answer |
| Fulfilment (`orders/orderFulfillment.service.js`, `fulfillmentJob.js`) | `status`, `providerOrderId`, `providerStatus`, `retryCount`, `refunded` | `executeOrder`, `processOrderStatusResult`, `recoverUncertainPlacement`, `pollProcessingOrders`, `refundFailedOrder` | adapters, wallet | two workers on one order, late answers, unknown outcomes, crashes | closed once; paid back at most once and only if undelivered; every order settles |
| Refunds (`order.service.js`) | `refunded`, the wallet | `processOrderRefund`, `markOrderAsFailed` | wallet or quota, in one transaction | races with the engine's refund | never more than was taken |
| Administrators (`admin/admin.orders.service.js`) | the same documents | retry, refund, fail, sync, complete | adapters, wallet | saves of stale copies | an order that is worked on is paid, nobody pays twice |
| Wallet (`wallet/`, `admin/admin.wallet.service.js`) | `walletBalance`, `creditLimit`, `creditUsed`, the ledger | debit, refund, credit, add, deduct, set, forced debit, debt adjustments, credit limit | called by all of the above | absolute writes from stale reads beside atomic updates | debt within the limit, mirror and ledger agree with the balance |
| Status tables (`providers/statusMapper.js`) | none | `toInternalStatus`, `isTerminal`, `requiresRefund` | fulfilment | two lists kept by hand | the lists agree |
| Adapters (`providers/adapters/`) | none here, orders at the provider | `placeOrder`, `checkOrders`, `checkOrderByReference` | HTTP | an answer that never comes | the unknown is reported as unknown |
| Deposits (`deposits/`) | deposit status, amount, commission mark | request, approve, reject, edit, reconcile | wallet credit, commissions | an edit or a reconciliation beside a review | one credit per deposit, of its own amount |
| Payment events (`paymentEvents/`) | match status of each SMS | webhook, match of a new deposit, automatic approval | deposits | arrival in either order, repeated delivery, approval and marking in separate writes | a payment approves a deposit of its amount, and finds it |
| Referrals and payouts (`referrals/`, `referralPayouts/`) | commissions and their lock, payouts | select and lock, pay, reject | deposits, wallet | two payouts for one commission, retried transactions | a commission is paid once; the audit is clean at any time |
| Sub-agent requests, users, auth, groups (`subAgentRequests/`, `users/`, `auth/`, `groups/`) | the user document | request, review; every load, change and save | each other, through the document | saves of stale copies beside the review's transaction | slot and request agree; an approved reseller has an approved request |
| Registration (`auth/`, `referrals/`) | accounts, invitation codes, OAuth nonces | by mail, by Google, backfill of codes | users | look-up first, insert later | one account per mail and Google account, one code for good |
| Target orders (`targets/`) | orders, app, payment methods | submit, approve, reject, configure | settings | retries under a key, two deciders | one order per key, one decision per order |
| Currencies (`currency/`, `services/`) | rates, per-worker caches, the customer's currency | rate, status, creation, deletion, feed, change of currency | orders, wallet | stale caches, rates that change while an order is placed | an order is charged at a rate its currency was offered at |
| Product sync, price cache, catalogue (`providers/`, `products/`) | provider products, products, per-worker prices | sync, live price check, publish, relink | adapters, orders | per-process locks, overlapping runs, fetches in flight | the catalogue converges to the provider's, orders get through |
| Client API (`clientCompat/`, `reseller/`) | short ids of products and orders | list, order, look up | order creation | two calls show a document first | an id once told is for good |
| Provider offers and routing (`products/`, `orders/`) | offers, the product's mode, an order's routing snapshot | map, edit, remove an offer; select, dispatch, retry | creation, fulfilment, sync | saves that check each alone, offers edited while an order is on its way | an order is sent where it was routed, at the cost it was routed for |
| Notifications, audit, settings, statistics | single documents | reads and single writes | the services above | little | - |

The components interact by calls within a worker and through the shared documents; there is no
queue between them. Creation starts `executeOrder` after its commit without waiting for it.
From then on the executor, the cron of every worker and any administrator write the same
order document; every `await` is a point where the others may run, and a worker may be
restarted at any of them.

## Modules

| Module | Models | State |
|---|---|---|
| `StatusMapper` | the status tables | - |
| `OrderRefunds` | the order document, the money held for it, both refund routines, crashes | `order`, `held`, `task`, `remote` |
| `Fulfillment` | the executor, the cron, recovery, the provider | the same |
| `OrderAdmin` | administrators, composed with the engine | the same |
| `Settlement` | the abstract promise about an order's money | `outcome`, `held` |
| `OrderCreation` | concurrent creations by one user | `funds`, `created`, `request`, the deployment |
| `Wallet` | one user's wallet and ledger | `user`, `recorded`, `request` |
| `Deposits` | the deposits of one referred user and their commissions | `deposit`, `credited`, `commission`, `referral`, `admin` |
| `PaymentEvents` | SMS events and their matching, composed with `Deposits` | also `event`, `handler` |
| `Documents` | `save()` of a stale copy, the names of requests | - |
| `Payouts` | commissions, their lock and their payouts | `earned`, `payout`, `referrer`, `paidIn`, `task` |
| `TargetOrders` | target orders, the app, the payment methods | `app`, `configured`, `order`, `submission`, `decision`, `edit` |
| `Accounts` | one user document and all that writes it, sub-agent requests, groups | `user`, `group`, `agentRequest`, `review`, `editor` |
| `Registration` | accounts, codes, nonces | `account`, `usedNonce`, `signup`, `backfill` |
| `Rates` | currencies, caches, the customer's currency, the charge of an order | `currency`, `wallet`, `cached`, `purchase`, `clerk`, `feed` |
| `Resellers` | the ids resellers know | `good`, `sequence`, `placed`, `call`, `told` |
| `Offers` | one product, the offers of several providers, its orders | `supplier`, `listed`, `offer`, `sold`, `checkout`, `desk`, `syncs` |
| `BackOffice` | `Payouts` to `Offers` in one specification | also `scene` |
| `Catalogue` | sync, price cache, live price check, publishing | `listing`, `provider`, `doc`, `product`, `sync`, `cache`, `pending`, `sale`, `edit` |
| `FulfillmentProofs`, `OrderAdminProofs` | theorems about the engine, with and without administrators | - |
| `OrderCreationProofs`, `WalletProofs`, `DepositProofs` | theorems about creation, the wallet, deposits and payment events | - |
| `BackOfficeProofs`, `CatalogueProofs` | theorems about the seven parts of the back office and the catalogue | - |
| `SumTheorems` | sums over finite sets, for the ledger and the payouts | - |
| `MC...` | symmetry and values for TLC | - |

**OrderRefunds, Fulfillment, OrderAdmin.** `order[o]` holds the five fields of the order
document that decide anything. `held[o]` is the net sum of the wallet records (or quota units)
that refer to the order: the full amount at first, less after a refund. `task[p]` is a process
with a program counter, the copy of the document it read (`doc`) and the last reply: the
executor of an order (named by the order), the cron of a worker, or an administrator's
request. `remote[o]` are the orders the provider made, of which there may be more than one
when an administrator retries. One action is one database operation, one transaction or one
exchange with a provider. A compare-and-swap is its filter and its update in one action
(`IsProcessing`, `OwnsClaim`); what a function computed before an `await` is read from `doc`,
not from `order`. The raw statuses are those of the tables, because the engine decides
with them. `executeOrder` is claim (`ExecClaim`), call (`ProviderAccepts`, `ProviderRefuses`),
answer (`ExecAccepted`, `ExecRejected`, `ExecThrown`) and one persisting action per branch;
`processOrderStatusResult` is one action per branch (`Apply...`); `refundFailedOrder` is
`RefundFlag`, `RefundCredit`, `RefundUndo`; `processOrderRefund` is `OrderRefundCommit` or
`OrderRefundReject`. Administrators' saves write the paths that differ from their copy (`Save`),
as Mongoose does. `Faults` selects what may go wrong, see `FaultKinds`.

**OrderCreation.** Each request passes the lookup, draws a number, and then either commits debit
and insert in one action (`Txn...`) or debits, inserts and compensates in three (`Take`,
`Create`, `GiveBack`). The retries are the actions that call `Again`. Whether transactions are
wanted and whether the server has them are chosen at the start, and so are the faults. The
quota branch has the same steps with `$inc` for the wallet, so `funds` stands for either.

**Wallet.** Every atomic operation is one action that moves the balance and either records the
movement with it (session) or leaves the record to a later step. Every adjustment is a read,
an unconditional write computed from what was read, and a record.

**Settlement** says what a reader may rely on: an order is charged once, closed once, and paid
back at most once, only after it was closed as undelivered. `Fulfillment!Promise` maps PENDING and
PROCESSING to open, FAILED, CANCELED and PARTIAL to owed, COMPLETED and MANUAL_REVIEW to kept.

**Deposits, PaymentEvents.** `approveDeposit` is one transaction and one action; an edit is a read and a
save, a reconciliation a read and up to four writes. A handler of a payment event works on its own copy
(`handler[h]`) from the match to the last save, as `applyMatchResult` does with its argument; the
webhook and the handler a new deposit starts differ in what they read first.

**Payouts.** Every operation is a transaction with the snapshot it read (`task[t].snap`); it commits when
no document it writes changed since (`UnchangedSince`) and begins again otherwise. The properties are
the service's own audit (`auditReferralPayouts`), which must be clean in every state.

**Accounts, Registration, TargetOrders, Rates, Resellers, Catalogue.** Operations without a transaction
are a read and a later write. `Documents!Saved` is Mongoose's `save()`: the paths that differ from the
copy are written, whatever the others have become; a path the query did not select counts as
changed once it is assigned. Filtered updates are guard and write in one action. Unique indexes are the
guards of the inserts. Caches are per worker and may expire at any step.

**Offers.** An order (`checkout[b]`) goes from the resolution of its adapter, before the transaction, over the
selection, whose reads are one snapshot in a transaction and up to three reads without, to the dispatch. What
routing compares is exact in the parts that can disagree: who owns the provider's product, the price per unit or
in total, the age of the price. Debit and insert are `OrderCreation`'s, what becomes of the order at the provider
is `Fulfillment`'s; here either may succeed. An edit of an offer is a read, the service's check, the schema's
check and a save of the paths that changed, each of them a step.

**BackOffice.** The seven small components share no document, so their interleavings would only multiply
their states; a behaviour of `BackOffice` runs one of them (`scene`), which for each of them is every
behaviour it has. It exists so that one run checks them all.

## Runs

| Run | Question | Answer |
|---|---|---|
| `fulfillment_safety` | Does the engine keep its promise through crashes, failing calls, refunds that abort or seem to, and an offline provider? | yes: `ImplementsSettlement`, `RefundOnlyAfterFailure`, `NoFreeGoods`, `ClosedAsReported`, `TypeOK` |
| `fulfillment_liveness` | Do orders settle and refunds arrive, although workers overwrite retry counts and commits go unacknowledged? | yes: `Settles`, `RefundArrives` |
| `admin_all` | Can administrators and engine together pay back too much, or lose track of a refund? | no: `NeverOverRefunded`, `PaidBackIsFlagged` |
| `wallet_safety` | Do stale adjustments break the limit or the mirror? Do orders and deposits keep the ledger right? | no; yes: `WithinCredit`, `MirrorsBalance`, `AtomicOpsLedger`, `WalletTypeOK` |
| `order_creation` | Is every order paid and every payment for an order, whatever retries? Is the answer true, and does it come? | yes: `NoFreeOrder`, `ChargedForOrdersOnly`, `AnswerIsTruth`, `Answered`, `CreationTypeOK` |
| `deposits` | Is a deposit credited once, and its commission right, whatever reviews, reconciliations and changes of the referral do? | yes: `CreditedOnce`, `CommissionBacked`, `ProcessedHasCommission`, `MarkSettles` (`DepositTypeOK` is proved, and a part of `EventTypeOK`) |
| `payment_events` | Do payment and deposit find each other in either order, and is only what was paid credited? | yes: `ProcessedIsPaid`, `AutoCreditIsThePayment`, `PaymentArrives`, `EventTypeOK` |
| `back_office` | Payouts: is the audit clean, a key good for one payout? Target orders: one order per key, one decision? Accounts: do slot, request and reseller agree? Registration: one account, one code for good? Rates: is every charge at an offered rate? Resellers: are ids for good? Offers: is an order sent as it was routed? | yes: `AuditIsClean`, `OneKeyOnePayout`; `TargetOnce`; `SlotMatchesRequest`, `ResellerOnRecord`; `EachOnce`, `CodesAreForGood`; `ChargedAsBilled`; `IdsAreForGood`; `SentAsRouted`; `OfficeTypeOK` |
| `catalogue` | Do two workers' overlapping runs, stale caches, orders' own price updates and administrators' saves leave the provider's catalogue in the end, and do orders get through? | yes: `CatalogueConverges`, `OrdersGoThrough`, `CatalogueTypeOK` |
| `swallowed_timeout` | Is a lost answer never refunded? | no |
| `payment_credits_twice` | Does one payment approve one deposit? | no |
| `failed_upsert` | Is a listed product with a failed write left on sale? | no |

`ChargedForOrdersOnly` is claimed where transactions work, or where nothing fails: without
transactions a crash between debit and insert, a failed compensation or a failed ledger
record loses the user's money, and `NoFreeOrder` is what is left. `MirrorsBalance` and
`WithinCredit` are claimed while no credit limit is changed (and, for the second, nobody uses
the operations that override the limit on purpose); `AtomicOpsLedger` is claimed without the
adjustments and for requests that did not die half-way. `NoFreeGoods` is claimed for adapters that
report a throw as a throw, and `RefundArrives` for refund transactions that commit. `CreditedOnce` and the
amounts of `CommissionBacked` are claimed while pending deposits are not edited, `PaymentArrives` for a
transaction with one deposit and handlers that live, the currency half of `ChargedAsBilled` where
transactions work, `CatalogueConverges` for a provider whose listing and whose failures come to rest. That a product
is linked and priced (`CatalogueTypeOK`) is claimed unless the provider is deleted beside another administrator's save.

Runs that stop say `CHECK_DEADLOCK FALSE`: when all orders are settled, or all requests
over, nothing remains to be done.

## What the runs show of the code

The three violations, with the lines they contradict, are listed under `findings` in
`PROJECT.json`. In short:

- `swallowed_timeout`: four adapters turn a timeout into the rejection that the engine refunds.
- `payment_credits_twice`: a second deposit's handler that read the event before the first match was saved
  matches it again; nothing looks at the event before the approval.
- `failed_upsert`: a run deactivates what it failed to write, which its comment says it must not.

Known divergences without a run of their own. The first eight are stated in the modules; an instance of
the size given shows each in seconds.

- `OrderAdmin!ProcessingIsPaid` (one order, `AdminOps = {"retry"}`): retrying a FAILED order does not charge
  it again, though it was refunded (`admin.orders.service.js:184`, against the comment at 124-125).
- `OrderAdmin!NeverOvercharged` (one order, two administrators, `AdminOps = {"complete"}`): forced completion takes
  the status for proof of a full refund (`admin.orders.service.js:419`, comment at 414-415).
- `Wallet!LedgerExplainsBalance` (two requests, `Ops = {"add"}`): "atomic" adjustments write absolute balances
  from stale reads (`admin.wallet.service.js:123-139`).
- `OrderCreation!NoKeyNotEnforced` (two requests, `Keys = {}`): the compound sparse index also holds orders
  without a key; the second is refused (`order.model.js:467`, against `docs/order-system.md:233`).
- `Deposits!CreditExplained` (one deposit, `Ops = {"edit"}`): an edit that checked the status before the approval
  changes the amount of the approved deposit (`deposit.service.js:653`, comment at 631).
- `Deposits!CommissionIsMarked` (one deposit, `Ops = {"replay"}`, two percentages): a replay after a change of the
  percentage marks a processed deposit FAILED (`referralCommission.service.js:392`, against
  `docs/referral-commission-engine.md:141`).
- `Offers!SentTogether` (`OpeningSold` in LEGACY mode): the provider of a LEGACY order is resolved before the
  transaction, the product's external id at the dispatch (`order.service.js:505-535`, `orderFulfillment.service.js:313`);
  when an administrator links the product elsewhere in between, one provider is asked for another's product, which
  the comment at `order.service.js:498-499` says cannot corrupt an order in flight.
- `Offers!HistoryHasOffer` (one offer, one administrator): an order inserted between the look for orders and the
  deletion names an offer that is gone (`productProviderOffer.service.js:104-111`, against its own message).
- With `crash` in the liveness run, an order whose worker dies between creation and dispatch claim stays in PROCESSING:
  no query finds it (`orderFulfillment.service.js:329`, against the comment at 215-216).
- With a quota order in the liveness run, the engine's own refund returns nothing (`orderFulfillment.service.js:118`); the
  administrators' does.

Seen while modelling, and reproduced with other settings of the same modules, but not kept as runs:

- With `offline` in the liveness run an order whose provider stays away is never parked: skipped
  checks (`orderFulfillment.service.js:1207`, `1256`) are not counted by the kill-switch.
- With `txn_abort` in the liveness run a FAILED order is never refunded: the flag is cleared "so the
  next retry can attempt again" (`:176`), and nothing retries.
- With `crash`, an order is left flagged and not credited when a worker dies between the two.
- With `unknown_commit` and administrators, an order is refunded twice: the committed refund's flag is cleared.
- With `no_remains` in the safety run, a partial delivery is refunded in full (`NoFreeGoods`).
- With a quota order in `admin_all`, completing a refunded order clears `refunded` without
  consuming the quota again (`PaidBackIsFlagged`).
- A retry of a LEGACY order is refused for want of an external id: the fields it reads
  (`admin.orders.service.js:165-166`) are not in the order's schema. `OrderAdmin`'s retries are those of routed orders.
- A retried order keeps the id of its failed placement (`admin.orders.service.js:183` reads
  `orderId`, the adapters return `providerOrderId`).
- A resubmission under a known key whose debit is refused answers "insufficient funds", although
  its order exists; `docs/order-system.md:147` announces a 409, the code returns the order.
- A deposit whose SMS came while another deposit of another amount was pending stays unmatched: the event
  is MISMATCH and a repeated delivery is only answered (`paymentEvent.service.js:396`).
- Orders are refunded the number they were charged, also when the customer's currency has changed since;
  the comment at `order.service.js:1163-1167` announces a conversion.
- `updateUserCurrency` writes back a balance it read (`admin.users.service.js:340`): a debit in between is
  lost. `deleteCurrency` may delete the currency of a customer who has just been moved into it, whose
  rate is then taken for 1.
- Two updates of a rate that both ask for the debt adjustment peg the same debt twice.
- The live price check of an order overwrites the price of a product in MANUAL mode.
- `deleteProvider` detaches the products in one update (`providers/provider.service.js:68`) while another administrator's
  `updateProduct` holds a copy read before (`products/product.service.js:370-503`). Saving it writes only the fields that
  differ: a new link comes back without its price, or a product tracks a provider it is no longer linked to. Shown
  by `catalogue` with two administrators, one worker and the last part of `CatalogueTypeOK` without its
  condition; found when the invariant turned out not to be inductive.
- `restoreUser` sets ACTIVE; its comment says PENDING (`admin.users.service.js:235-247`).
- The payouts' audit counts a REJECTED payout when a later payout holds its commissions (`referralPayout.service.js:1066`).

## Bounds

- One order in the engine's runs: orders share no state but the wallet, whose operations on
  different orders commute. Two workers are enough for every race of two copies of a document;
  a third only repeats one of the two roles. The proofs do not have these bounds.
- `Quantity = 2`, `Charge = 3`: the smallest values with a proper partial refund that rounds.
- `MaxRetry` 2 or 3 stands for 5: a count is either below or at the limit, and with 3 a stale writer can
  set the count back by more than one step.
- `Replies` has every alias of the tables in `fulfillment_safety`, one alias of every verdict elsewhere.
- Two administrator requests, each run once: every pair of them, overlapping or in sequence, on an
  automatic and a manual order.
- Wallet: three requests with amounts 1 and 2, a balance of -1 and a limit of 2, so that the limit is
  within reach of one request and crossed by two.
- Creation: three requests, funds for two orders, one key, two order numbers: collisions of
  keys, numbers and funds all happen. Fault sets: none, crashes, all.

- Deposits: one deposit and two administrators' requests of every kind, two amounts, percentages 0 to 2, both
  currencies, every opening of the referral: any two operations overlap, and an amount or a percentage may differ
  from the one read. Payment events: two deposits, one SMS delivered twice, and crashes.
- Payouts: two requests and two reviews over two commissions, five bodies (by amount, by selection, under one
  key, out of reach, wrong currency), amounts that round. Target orders: two requests under one key with one of
  two payloads or without a key, two deciders, three states of the app.
- Accounts: one user, one group, two requests, two reviews, two editors that load, change and save once each: every
  pair of saves overlaps, and overlaps a review.
- Registration: two sign-ups, one account without a code, two mails, one Google account, two nonces, two codes, so
  that codes run out.
- Rates: one order with one retry, two administrators' requests, two workers, one currency besides USD with rates 2
  and 4 and market rate 3; an opening balance that one charge brings into debt.
- Resellers: two calls, two products, two orders, two ids, two attempts: ids collide and run out.
- Offers: one order of two units, two providers with three products, two offers, one edit of an entry by
  a synchronisation or by time, two administrators: every pair of their operations overlaps, and overlaps the order.
- Catalogue: two listings of two ids, two workers, one customer, one administrator, one product, and one disturbance (a
  change of the listing or a failing operation) after which the provider rests; liveness needs that rest.

## Fairness

`Fulfillment!Fairness`: a continuation that can run does run (weak fairness of the executor, of a
worker's steps and of the shared routines): the event loop of a live worker. Strong fairness of
`PollFetch` per worker and order: the cron visits every order its query returns, every minute,
for as long as it returns it. The order may leave and enter the query between two runs, hence
strong. This abstracts the limit of 200 orders per run. Nothing is assumed of the provider: an
order it never finishes is parked by the retry limit, which is why `Settles` needs the
retry count to make progress in spite of stale writers. `OrderCreation!FairSpec`
assumes weak fairness of a request's own steps. `Deposits!FairDepositSpec` and `PaymentEvents!FairEventSpec` assume the
same of a request, or a handler, that has begun. `Catalogue!CatalogueSpec` assumes that every worker's
cron begins again and its steps are taken, that fetches in flight are answered, that cached prices expire, that customers go on ordering
and that an administrator's request in progress ends. Crashes are never fair.

## Proofs

Checked by TLAPS for every value of the constants, from the named assumptions of the modules. A property is seldom
inductive; each paragraph names the invariant that is, and what it adds. Most of them say what
each process holds between two of its steps. Each action is a lemma; lemmas about kinds of steps ("the order's
money is not touched", "one product is written") spare the actions the same argument.

**Engine** (`FulfillmentProofs`), for any orders, workers and provider replies.

- `TypeCorrect` (`TypeOK`), `RefundSafety` (`RefundOnlyAfterFailure`), under any faults. The refund steps run long after
  the status was changed, so `IInv` adds that a process at a refund step works on an order already closed as
  undelivered (`RefundersHaveClosed`), that a task has an order (`TaskOK`) and that an executor waiting for an
  answer has a placement (`SentWasPlaced`).
- `EngineKeepsPromise` (`ImplementsSettlement`: initial states and every step, mapped by `Promise`), under any faults.
  `MInv` adds `OneRefunder`: the compare-and-swap out of PROCESSING puts one process in charge of an order's refund,
  and the full amount is held until that process pays it back. So even a commit whose acknowledgement is
  lost, after which the flag is cleared with the money gone, is not followed by a second refund.
- `EngineFlagsRefunds` (`PaidBackIsFlagged`), unless a commit goes unacknowledged, with which it is false. `FlagInv` adds
  that until the flag is set everything is held, and between flag and credit, or flag and undo, it still is (`FlagOnRecord`).
- `ClosedAsProviderSaid` (`ClosedAsReported`), under any faults: every write that leaves PROCESSING carries
  a status and a raw status that agree, and a closed document is not written again.
- `GoodsArePaidFor` (`NoFreeGoods`), for faults that tell no untruth (`Truthful`: no throw reported as a
  rejection, no partial delivery without remains; each of them breaks it). `GoodsInv`
  adds that the engine places an order once (`OnePlacement`), that a status which admits a refund says what became of
  the placement and leaves nothing to place (`ClosedForGood`), and that what a process has heard of a placement that
  ended still holds when it refunds the rest (`HeardRight`).

**Administrators and engine** (`OrderAdminProofs`): `AdminsNeverOverRefund` (`NeverOverRefunded`) and
`AdminsFlagRefunds` (`PaidBackIsFlagged`), for any number of orders, workers and administrators. `IInv` does not hold here: a save of
a stale document changes the status under a refund. What holds is a count: `Covered` says that what is held for an
order is at least its price times the processes with a claim on it (a refund between flag and end, a
completion that has charged a refunded order again and not yet saved), one more while the flag is not set. Assumed (`AdminAssumptions`): finitely
many processes, no unacknowledged commit, and no administrator who completes a quota order; the last two are
[known to break it](#what-the-runs-show-of-the-code).

**Order creation** (`OrderCreationProofs`), for any finite set of requests, all keys and numbers, all faults: `CreationTypes`
(`CreationTypeOK`), `EveryOrderIsPaid` (`NoFreeOrder`), `OnlyOrdersAreCharged` (`ChargedForOrdersOnly`), `AnswersAreTrue` (`AnswerIsTruth`). `CInv`
tells for every request how far it has come (`Stands`): an order exists from its commit on and never before, money is out for
an order only in an attempt without a session, and there is none where transactions work. `Books` turns the
set of orders and open attempts into money, one request entering or leaving the set per step.

**Wallet** (`WalletProofs`), for any number of requests, amounts and limits: `WalletTypeCorrect`, `MirrorCorrect` (`MirrorsBalance`),
`CreditSafety` (`WithinCredit`). An adjustment writes a balance computed from an old read, so `IInv` adds that what is about to be
written is within the limit that was read (`WritesWithinCredit`) and that this limit is the current one
(`LimitUnchanged`). `LedgerSafety` (`AtomicOpsLedger`), for finitely many requests: `LInv` adds that the balance is ahead of the
ledger by the sum over the requests that have moved it and not recorded it, dead ones included (`Books`).

**Sums** (`SumTheorems`): the sum over a finite set, as the community modules define it, is an integer, is positive for
positive values, depends on the members' values only, and is one member's value and the sum of the others. The induction
schemas of the library cannot be used here, so these go by a minimal counterexample: among the
subsets that violate a statement one is minimal, because proper inclusion of finite sets is well-founded.

**Deposits and payment events** (`DepositProofs`), for any deposits, requests, events and deliveries, all amounts, percentages and rates.

- `DepositTypeCorrect` (`DepositTypeOK`), `CreditSafety` (`CreditedOnce`), `CommissionSafety` (`CommissionBacked`), `MarkSafety`
  (`ProcessedHasCommission`). A reconciliation writes one to three steps after it read, so `IInv` adds that it works on a deposit
  already approved, with the approved amount unless an edit was asked for (`OnApproved`), that what it is about to insert is
  for a deposit in the window (`AboutToCreate`), that whoever is about to mark PROCESSED has seen the commission
  (`AboutToMark`), and that only edits save an amount (`Begun`).
- `EventTypeCorrect` (`EventTypeOK`), `ProcessedSafety` (`ProcessedIsPaid`), `AutoCreditSafety` (`AutoCreditIsThePayment`). `EInv` keeps
  `IInv` and adds what a handler may rely on in its copies (`Relies`): the event it works on is stored and what pays for
  it stays, its deposit exists, and a pending one has the event's amount as long as nobody edits.

**Back office** (`BackOfficeProofs`). Seven scenes, each with its own inductive invariant over its own variables, lifted to
`OfficeSpec`. `OfficeTypeCorrect` (`OfficeTypeOK`) and the two theorems about payouts assume finitely many commissions.

- `PayoutsAddUp` (`AuditIsClean`), `PayoutKeysWork` (`OneKeyOnePayout`): `PayoutInv` says that a payout and its commissions name
  each other in matching states (`CommissionRight`, `PayoutRight`), that its amount is their sum (by `SumTheorems`), and that a payout
  in the snapshot of a transaction is still there, with its body (`Past`).
- `TargetOrdersAreOnce` (`TargetOnce`): an order once submitted keeps its payload and, once decided,
  its decider, so what a lookup found stays true.
- `SlotsMatch` (`SlotMatchesRequest`), `ResellersAreOnRecord` (`ResellerOnRecord`): a copy of the user that is about to be
  saved never differs from what was read in the slot, the reseller's status or the stop of his commissions (`EditRight`).
- `AccountsAreDistinct` (`EachOnce`), `CodesNeverChange` (`CodesAreForGood`, an action property): every write of a mail, id or code passes
  the unique index at that moment; an account that a request is about to link, to name or to give a code to exists, and one that it is
  about to create does not.
- `ChargesAreBilled` (`ChargedAsBilled`): every rate in a cache, in a copy or under way was offered once.
- `ResellersIdsStay` (`IdsAreForGood`): numbers drawn and not yet written differ from each other (`NumbersDiffer`) and from
  those written, and a list's copy of an id is none or the one kept.
- `OrdersGoAsRouted` (`SentAsRouted`): the snapshot of an order is consistent by itself, and only it is read at the dispatch.

**Catalogue** (`CatalogueProofs`): `CatalogueTypeCorrect` (`CatalogueTypeOK`), for any workers, customers, administrators and
failures. `CatalogueInv` says what a stale copy still has in common with the documents: what was listed has a price, a document
or product that was found is not lost (`SyncRight`, `SaleRight`, `EditRight`), and until somebody deletes the provider every product, and
everything about to be saved, is linked and priced (`Linked`).

Only model-checked: the liveness properties (`Settles`, `RefundArrives`, `Answered`, `MarkSettles`, `PaymentArrives`,
`CatalogueConverges`, `OrdersGoThrough`), which need ENABLED and fairness and are out of this prover's reach. The
action property `CodesAreForGood` and every invariant of a run have a theorem, for the hypotheses named above; the runs
that expect a violation have none.

## What is not modelled

Notifications, audit, statistics and the HTTP layers hold no state that another component reads.
`orders/orderPolling.*` is not started by `server.js`. Order fields, routing and pricing appear as the choice to
refuse an order; what routing chooses is `Offers`. Tokens, hashes, mail, receipts and signatures appear as
conditions. Categories, toggles and deletion of a product and the one-time backfill of offers are left out. `Catalogue` has one provider.
Listings and summaries only read. Audit
records, notifications, timestamps and statistics fields are left out. `lastCheckedAt` and the 200-order window
are abstracted to fair picking. Money is in whole units: `Math.floor` of a partial refund is kept, cents are not.

## Plan

1. Done: the engine, refunds, administrators, wallet, creation; deposits and payment events; payouts, target orders,
   accounts, registration, rates, resellers; the catalogue; offers and routing; a theorem for every invariant of the runs.
2. Theorems still worth stating: what a retry or an unacknowledged commit may cost at most (a bound in place of
   `NeverOverRefunded`), the wallet's ledger with requests that die (what is missing is what the dead ones moved), and the
   safety of the compositions below.
3. `PollQueue`: the window of 200 orders and `lastCheckedAt`: which orders starve.
4. Composition of `OrderRefunds` with `Rates`: a refund after a change of currency.
5. Composition of `OrderCreation` with `Wallet`: the abstract debit and compensation implemented by the wallet operations.
6. The adapters' parsing of answers and listings. Composition of `Offers` with `Fulfillment`.
