# A verification project for the x402 token market

The repository is a market in which software agents buy AI calls and pay for
them in USDC on Solana. This directory holds TLA+ modules translated from its
code, TLC configurations that check them on small instances, and proofs that
TLAPS checks for every instance. The code is the reference: where a document
says something else, the model follows the code and a run shows the
difference.

## 1. Inventory

| Component | Code | State it keeps | Operations |
|---|---|---|---|
| x402 gateway, orders | `netstars/x402/src/x402/main.py`, `orders.py` | `payment_orders`, `payment_proofs` | create, submit proof, confirmer loop |
| x402 gateway, protected resource | `protected_routes.py`, `protocol.py` | the same tables | checkout with `X-PAYMENT` |
| x402 gateway, webhooks | `webhooks.py` | `webhook_deliveries` | enqueue, tick, POST, mark |
| WEA facilitator | `wea/src/facilitator.rs` | none but its running tasks | verify, settle, tx status |
| WEA settlement service | `wea/src/worker.rs`, `api.rs` | `settlements` | create, broadcast, confirm, callback |
| WEA depeg monitor | `wea/src/depeg.rs` | `system_flags`, a counter in memory | sample, suspend; handlers read the flag |
| WEA RPC pool, key management | `rpc_pool.rs`, `kms.rs` | `rpc_endpoints` | pick, fail over; encrypt, decrypt |
| Token API, ledger | `netstars/token/api/src/token_api/ledger.py` | `token_ledger_entries`, `balances` | credit, debit |
| Token API, AI calls | `main.py`, `providers/` | `requests`, the ledger | POST /v1/messages, purchase, internal credit |
| Token API, authentication | `auth.py` | Redis nonces, RPM window, TPM bucket; a cache of keys | verify a request, count it |
| Token worker | `netstars/token/worker` | mirror, invoices, `usage_daily` | four scheduled jobs |
| Python SDK | `sdk/src/netstars` | a call in progress | sign, send, retry, top up |
| HABA dashboard and automatic top-up | `haba/src/app/dashboard/page.tsx`, `api/enterprise/topup`, `run-agent`, `balance` | React state and a ref per page; a demo wallet | poll, fire a top-up, run an agent |
| HABA checkout | `haba/src/lib/x402-client.ts`, `api/checkout/order` | none but a request in progress | challenge, sign, pay |
| HABA advisor | `lib/netstars/client.ts`, `api/payment/advise` | none | one metered AI call |
| HABA top-up page | `app/topup/page.tsx`, `PaymentAuthModal.tsx`, `TopupHistoryTable.tsx`, `biometric.ts` | React state | history, WebAuthn dialog |
| x402 console | `netstars/x402/console` | React state | six scenarios; poll events and figures |
| WEA console | `wea/console` | React state | two scenarios; poll calls, figures, wallets |
| Token console | `netstars/token/console` | server renders, React state | pages, ticker, protocol explorer, invoice actions |
| Solana | external | transactions | sendTransaction, getSignatureStatuses |

How they interact. HABA or an SDK client asks the token API (or, for a product,
the gateway) for a payment order; the gateway answers 402 with an amount, a
recipient and a nonce. The client signs a USDC transfer that carries the nonce
as a memo and submits it as a proof. (HABA's route for top-ups also credits the
ledger itself when a step of the payment fails.) The gateway verifies the proof and calls
the facilitator's `settle` over HTTP with a time-out; the facilitator's task
gives the transaction to an RPC node and polls. A confirmer loop in the gateway
asks the facilitator about every broadcasting order, moves it to confirmed,
calls the token API's `/internal/credit` for top-ups, and writes a webhook row
that the deliverer sends. AI calls then debit the same ledger. Beside this path
WEA offers an asynchronous one (`/v1/settlements`), whose worker calls the
caller back, and runs the depeg monitor. The pages only ask, over HTTP, and
decide by what they are told: the dashboard fires payments on the balance of its
last poll, the consoles run scenarios and judge them by the HTTP status.

What is hard, in this code: handlers that read a row, call another service and
then write, without holding anything between; a caller that times out while the
callee goes on; several loops over the same rows; transactions that commit one
by one around external calls, with a crash possible between any two; nodes that
lag; retries of calls that are not idempotent; pages whose requests overlap and
whose answers arrive in any order, on state that has moved on since. `PROJECT.json` lists these as
hazards, each at its line.

What makes each part correct:

- orders: no order is confirmed that was not paid with its own nonce; a top-up
  reaches the chain once and is credited once; what webhooks say is what the
  order is; an accepted order is decided;
- ledger: the balance is the sum of the entries, entries form one history, a
  payment is credited once; concurrent transactions look like one ledger;
- webhooks: a row's final status is earned; POSTs are bounded; nothing starves;
- settlement: callers are told what the cluster decided, boundedly often, and
  always, but for claims a crash leaves behind;
- depeg: suspended only after a full window; suspended until re-enabled;
- AI calls: an answer is paid for; the audit table agrees with the ledger; work
  is unbilled, or billed twice, only in the ways the code cannot exclude;
- paying clients: a success is a receipt for an order of one's own; money moves
  only in runs meant to pay; green means the outcome the scenario is about;
- automatic top-up: one at a time; the banner is true; an order credited is not
  credited again; the page ends up showing the ledger;
- pages: what is shown is of one load and catches up; a dialog that waits has
  something to wait for; a toast goes; a player that plays goes on.

## 2. Modules

| Module | Models | State and actions |
|---|---|---|
| `SolanaChain` | the cluster, external | `chain`; a transaction is submitted, lands, fails, is dropped, or is undone by a fork |
| `Facilitator` | `settle_handler`, `tx_status_handler` | one task per call slot: `Receive`, `Admit`, `Broadcast`, `Poll`, `GiveUp`, `Abort` |
| `PaymentOrders` | the gateway's routes and confirmer, composed with `Facilitator` | a handler slot per HTTP request, `pc` between its transactions; a confirmer per replica; `Crash` |
| `PaymentLifecycle` | what an order promises | one stage, one receipt, one credit per order |
| `TokenLedger` | `LedgerService` over MySQL | one session per open database transaction, statement by statement |
| `AtomicLedger` | what the ledger promises | `CreditBook`, `DebitBook` |
| `Metering` | `POST /v1/messages`, `Transport.request` and HABA's `chatCompletion` | a client per call, a handler per attempt, over `AtomicLedger` |
| `WebhookDelivery` | `WebhookDeliverer` | rows, a queue of due rows, the row each POST is about |
| `DepegMonitor` | `depeg.rs` | the stored flag, the loop, its counter |
| `SettlementWorker` | `worker.rs`, `create_settlement`, composed with `DepegMonitor` | three queues and one loop |
| `HabaTopup` | HABA's dashboard, the top-up and agent routes, over `PaymentLifecycle` | `ui` and requests per page, one route per order, two callers of the ledger's credit |
| `CheckoutClients` | HABA's checkout, the scenarios and result panels of both consoles, the gateway and the WEA, its internal-auth layer included, as they see them | a call per request, whose client may be gone before it is answered; a page per console; implements `PaymentLifecycle` |
| `TokenBackend` | what the pages below are told: a log, outages, one tab | `ledger`, `up`, `page` |
| `ConsolePages` | the token console | a render with its parallel reads, ticker polls, player, invoice actions |
| `TopupPage` | HABA's top-up page and its WebAuthn dialog | the table, the dialog's phase, runs of `handleAuthorize` |
| `LiveFeed` | the x402 and WEA consoles as monitors | list, figures, pill; overlapping `pollOnce` |
| `BrowserTab` | the composition of the four above | one tab that turns from page to page |
| `PaymentOrdersProofs`, `TokenLedgerProofs`, `MeteringProofs`, `CheckoutClientsProofs`, `WebhookDeliveryProofs`, `SettlementWorkerProofs`, `HabaTopupProofs`, `BrowserTabProofs` | | theorems about the module each is named after |
| `MC*` | | instances for TLC |

Conventions. A database transaction is one action, unless the locks and reads
inside it are what matters (`TokenLedger`). A call to another service is a step
of its own, and whatever may happen to it is a disjunct: done and answered, done
with the answer lost, not done. Amounts are compared where the code compares
them; everything else about a payload is a model value. Time is not counted: a
time-out may happen whenever the code waits, a back-off may end at any time.
Signed transactions are members of `Txs`, and `PaysFor` gives the order whose
nonce one carries, which is what `verify_proof` establishes.

Definitions marked *Fault* are plausible mistakes in the code: substituting one
for its original must break the property that guards against it.

Where the code allows less than the model: the model lets any client submit any
transaction for any order at any time, and lets any node lag. Where the model
allows less than the code: a slot's task that outlives its caller keeps the slot
busy, which bounds concurrency and nothing else; ids and nonces do not collide;
`verify_proof` is taken as the exact predicate.

## 3. Runs

| Run | Question | Instance |
|---|---|---|
| `payment_topup` | Is a top-up broadcast once, credited once, and truthfully announced? | one order, two transactions that pay it and a stray one, two requests, two replicas, forks, crashes |
| `payment_checkout` | Is a signed transaction never past the replay guard twice? | one order reached by both routes, one paying and one stray transaction, three requests, forks, crashes |
| `payment_live` | Is an accepted order decided and every settle call answered? | two top-up orders with a transaction each, one of which a node may refuse at length, forks, confirmer batches of one, one request slot used again and again |
| `token_ledger` | Do concurrent transactions implement an indivisible ledger, and is a payment credited no more often than calls for it overlap? | two merchants, three sessions, two calls at a time for the one payment order, an abort anywhere |
| `metering` | Who is charged, and when twice? | one merchant, an SDK call of up to three attempts and a HABA call of one, costs at and above the estimate |
| `webhook_delivery` | Are outcomes earned, POSTs bounded and rows never lost? | two rows, batches of one, three attempts, two faults |
| `settlement_worker` | Are callers told the truth, and which rows never are? | two settlements, each good or refused, undecided or undecryptable for good, two callbacks, one fault, a window of two samples |
| `haba_topup` | Does the automatic top-up take turns, tell the truth, and catch up? | one dashboard, two orders, one poll at a time beside the refresh and an agent run, whose answer may be lost, one lost request |
| `checkout_clients` | Is a reported success a payment, green the right refusal, and money never moved without a card that shows it? | two calls of any kind, HABA's sharing a key or not, two failures or lost answers, both consoles |
| `browser_tab` | Do the pages show one load, and catch up? | a log of two entries, one outage, two clicks, two overlapping polls of each kind |
| `v_auto_topup` | `dashboard/page.tsx`: a top-up fires when 80 % of the limit is used. | violated: the balance looked at is an old one |
| `v_depeg` | `depeg.rs`: the protection is in force once engaged. | violated: the flag is stored as 0 and read as absent |

Bounds, and why they are enough. The hazards are races of two actors over one
row, so each run has two of whatever competes: two requests, two replicas, two
sessions, two or three attempts, two calls, two overlapping polls. Properties of different orders, merchants or rows do not
interact but through the queue they share, for which the webhook and settlement
runs have two rows and a batch of one. `MaxPolls` is 1 because rounds of the
polling loop differ only in how many are left; `MaxAttempts` is 3 so that there
is a first, a middle and a last attempt. `MaxFaults`, `MaxEntries`, `MaxStreak`
and `MaxTries` bound counters and are guards of the actions they bound; so do
`MaxOpen` (calls under way), `MaxRuns` (agent runs), `MaxClicks`, and the sets
`Ticks`, `Polls`, `Looks` and `Asks`, whose members are requests a page may have
under way at a time. In `haba_topup` amounts keep the proportion of the code's
(limit 10, top-up 1, agent run 1, and a ledger from which one run makes a top-up due). In
`browser_tab` ten entries of the code's page sizes are one, and `Links` leaves
out links that differ only in the label: every page is entered from somewhere
and left for one with other components. Every module states its type
invariant. The proved invariants contain it (`HabaTopup`'s in a stricter form, of
all fields of a request), so no run checks it again.
`MaxOverlap` is both a bound and part of a property: `CreditedByOverlapOnly` says
that a payment order is credited at most that often, so an overlap of two in the
run, and of any number in the proof. `payment_topup` has no checkout order; that
a checkout order is only confirmed when paid is `ConfirmedOrdersPaid`, proved for
both kinds, and what checkout requests with several transactions do to each other is the
question of `checkout_clients`. In `browser_tab` the ticker's limit is
the length of the log, so its truncation is not exercised.
Requests, replicas and equal transactions are symmetric where no liveness
property is checked. Deadlock is not checked: every one of these systems may
legitimately have nothing left to do.

Fairness. `payment_live` assumes that handlers, tasks and the confirmer loop run
(weak fairness: they are asyncio and tokio tasks that nothing blocks for ever;
a task that breaks off is allowed but never counted on),
that the cluster decides about a transaction it was given, and that a node asked
again and again eventually says what it knows (strong fairness of
`ConfirmerLearns`, since each poll may be answered by a node that lags).
`webhook_delivery` and `settlement_worker` assume that their loop runs and that
time passes; faults there are finite in number. Clients, operators and crashes
owe nothing anywhere.

Two liveness properties name what the code cannot do, and say that nothing else
goes wrong. `AcceptedOrderDecided` excepts an order whose refusal was too long
for `status_reason` (`Unrecordable`: the DataError of `main.py:462` rolls the
failure back), one whose transaction a fork undid after it was confirmed
(`Forked`: the facilitator answers null for ever), and the time when such orders
fill a batch, since the confirmer's SELECT has a LIMIT and no ORDER BY
(`main.py:641`). `payment_live` has all three: `Wordy` holds one of the two
transactions, `ConfirmedCanRevert` is true, and the batch is of one.
`EverySettlementConcluded` excepts a row whose claim was committed and whose
worker then stopped (`Orphaned`), and a row at or behind one that is flawed for
good in a queue of the loop (`HeldUp`: each pass takes the oldest row, every
time, and nothing ever takes a row out that a node refuses, the cluster never
decides or KMS cannot decrypt). Which rows are flawed is open from the start
(`flaw`), and such a failure is not a fault: it happens at every attempt.

The page modules assume what a browser gives: timers go off, requests are
answered or fail, prompts time out (`TopupFairness`,
`ClientsFairness`, `TabFairness`). In `haba_topup` the gateway and the cluster
owe nothing, and agents need not be run; in `checkout_clients` a transaction
given to the cluster need not land; in `browser_tab` nobody has to click and an
outage need not end, which is why the catch-up properties ask for a service that
is up.

## 4. Proofs

`PaymentOrdersProofs` proves, for any numbers of orders, transactions, request
slots and confirmer replicas, any batch size, and whether or not forks and
crashes happen (the named assumptions of `SolanaChain`, `Facilitator` and
`PaymentOrders`, which TLC evaluates on every run):

- `TypeCorrect`: `PaymentTypeOK`. It needs that a busy handler has an order and
  a transaction (`BusyHandlers`), because the proof rows it writes have both.
- `CreditedAtMostOnce` and `CreditedIsTrue`: neither is inductive. Their
  strengthening `CreditInv` says who may be crediting: a confirmer that is has
  an order that is a top-up and confirmed, credited zero times before its call
  and once after (`CrediterOwnsOrder`), and no two confirmers have the same one
  (`OneCrediter`). The one step that starts crediting moves the order out of
  broadcasting under its row lock, so no other confirmer can be at it; no
  handler moves a final order (`RequestKeepsFinal`, `HandlerKeepsFinal`).

On these build:

- `SuccessIsTrue`: `SuccessMeansLanded`. `SuccessInv` adds that a slot has an
  answer only when its task has replied and a transaction whenever it is busy;
  what a task or the cluster does to the chain never takes an execution back
  (`ExecutedStable`; a fork turns `landed` into `undone`, which still counts).
- `ConfirmedOrdersPaid`: `ConfirmedIsPaid`. `WorkInv` follows the request that
  will confirm the order: past the proof check its transaction carries the
  order's nonce, while it waits its slot works on that very transaction, once
  settled the cluster has executed it.
- `TopUpsBroadcastOnce`: `TopUpBroadcastOnce`. A transaction is *touched* when a
  node has it, a task works on it or an accepted request is about to send it.
  `OnceInv` says that one transaction of a top-up is touched at most, and that
  then the order has left `created`, which it never re-enters. The caller that
  timed out is gone, its task is not: that is why the slots count.

What concerns the merchant:

- `ReplaysRefused`: `NoConcurrentReplay`, because every request past the guard
  has a row with its hash, and rows are never deleted;
- `MerchantToldTheOutcome`: `EventsTellTheOutcome`. The announcing confirmer is
  the only one for its order, nothing was announced before, and a decided order
  keeps its status (`EventsInv`); a top-up that is confirmed is not decided yet.

Last, `GatewayImplementsLifecycle`: `PaymentSpec` implies `ImplementsLifecycle`.
Every step has one of five shapes (nothing abstract changes; one order moves along one plain edge; one order is settled
with an executed transaction of its own; one confirmed top-up is credited for
the first time; the cluster executes one transaction), and each shape is a step
of `PaymentLifecycle` or a stutter. It uses the invariants above and that an
unsettled order has no hash (`NoHashYet`).

`TokenLedgerProofs` proves, for any merchants, amounts and sessions and any bound
on the length of the ledger (assumption of `TokenLedger`):

- `LedgerTypeCorrect` and `BooksAreChained`. The invariant `SessionInv` adds
  that a session past its SELECT holds the lock of its merchant and that the
  balance it read is still the balance (`HoldersKnow`): the one fact
  `FOR UPDATE` is there for, and the one both creators of a row rely on;
- `SessionsImplementBooks`: the sessions implement `AtomicLedger`, a COMMIT being
  the step;
- `CreditsBoundedByOverlap`: `CreditedByOverlapOnly`, without any assumption on
  how calls overlap: an order is credited at most as often as calls for it are
  under way at a time, which is twice where HABA's route meets the confirmer
  (section 5) and once where nothing meets. The invariant `Within` says that the
  credits of an order and the calls past its idempotency SELECT are together at
  most `MaxOverlap`, because a call gets past it only while there is no credit.

`MeteringProofs` proves, for any calls, tries, merchants, costs and top-ups
(assumption `MeteringAssumption`), the four properties of the run `metering`.
None is inductive; `MeteringInv` follows each attempt from its handler to its
client:

- `ChargeInv`: before the debit nothing of the attempt is in the books or the
  audit table; between debit and audit row there is exactly one debit, of the
  cost the handler holds; an outcome exists exactly when an answer does, and
  tells whether there is a debit (an acknowledged failure of the debit tells
  nothing);
- `FundsInv`: the balance the pre-flight saw still covers the estimate, or the
  book has a debit younger than what it saw;
- `SentInv` and `ClientInv`: attempts not sent have no handler, attempts sent
  again had no answer or one worth a retry, HABA's calls have one attempt;
- `RowInv`: what an audit row says of the debits is true for good.

A step of a handler touches its own attempt and at most appends a debit of its
own (`HandlerFrame`); a step of a client touches one answer (`ConcludeKeeps`,
`SendKeeps`). Entries of others neither add nor remove a debit (`OtherEntry`) and
keep what the pre-flight saw (`FundsKept`). `AuditAgrees`, `AnswersArePaid`,
`UnbilledByRace` and `ChargedAgain` follow.

`CheckoutClientsProofs` proves, for any number of calls, any bound on what is
under way and any number of faults, `SuccessMeansPaid`, `MoneyMovesOnPurpose` and
`GreenIsExpected`. Their invariant `ClientsInv` says what each call knows where it
is: the key it works for (`KeyInv`), what its header can name (`HeaderInv`), what
must have happened before it got there (`PastInv`), which answer it can have
(`ReplyInv`), whether its transaction may be out (`MoneyInv`), and that the result
a page shows is the answer of its call (`PageInv`). What a call relies on is never
taken back: orders only move forward, receipts are written once, transactions
stay executed (`Monotone`), so a step of one call keeps the invariant of all
others. On it rest:

- `ClientsSeeLifecycle`: the calls implement `PaymentLifecycle`
  (`ImplementsLifecycle`), a transaction being a call with the order it carries.
  `LifeInv` says that a transaction is proved, executed or out only for an order
  that was opened, and that a receipt names a call which the gateway answered as
  paid, so that no receipt is used twice; whether the answer arrived is another
  field of the call (`gone`), which the property reads through `Heard`. A call keeps its key from its first step on
  (`Forward`), which keeps the names of transactions stable;
- `SettledStaysPaidOnce`: `NoChargeAfterSettled`: a confirmed order lets no call
  past the gateway's checks, and what is executed was on its way before;
- `ConsolesTellOneStory`: `CardsShowTheMoney`. What is sent or executed passed the
  checks, which wrote its proof row, and a receipt is written for the proved
  transaction of its order only.

`WebhookDeliveryProofs` proves, for any rows, any batch size, any number of
attempts and any bound on faults, `OutcomesEarned` and `BoundedPosts`. The
invariant `WebhookInv` adds what makes them inductive: a due row is due once and
not concluded (`QueueInv`); the attempt count the deliverer read is still the
row's, a row that may be tried has attempts left, and an outcome under way was
really answered (`WorkInv`); a POST is ahead of its count only while its outcome
is being recorded, and a fault pays for one that never is (`CountInv`).

`SettlementWorkerProofs` proves, for any settlements, any callback schedule, any
window of the monitor and any number of faults (`WorkerAssumption`,
`DepegAssumption`):

- `CallersTold`: `CallbackTellsTheChain`. `RowInv` says that a row holds what the
  cluster decided and that its caller was told nothing else; `WorkerInv` that the
  worker's row is the head of the queue it was taken from, or one whose callback
  was claimed; `QueueInv` that a queue holds each of its rows once, in the state
  the queue is for, so that no pass meets a row that has moved on;
- `CallbacksWithinSchedule`: `CallbacksBounded`. A POST is ahead of its count from
  when it is made until its outcome is recorded, for ever if that fails; a row
  that can still be called back has attempts left (`CountInv`), and the claim is
  committed before the POST, so that a restart repeats none;
- `WindowBeforeSuspension`: `SuspendedOnlyAfterWindow`, because the counter of the
  monitor never exceeds the samples outside the band since the last one inside
  (`MonitorInv`): a restart forgets, it does not add.

`HabaTopupProofs` proves, for any number of dashboards, orders, agent runs and
lost requests, all four safety properties of `haba_topup`, `CreditSettled` among
them. `HabaAssumption` asks, beyond its types, that dashboards are finite in
number (`TopupsTakeTurns` counts them) and that all orders are top-ups.

- `PageInv` is about one page: while it tops up its gate is shut; when it does
  not, a shut gate means a failure; a mode names an order that kept its promise
  (`Holds`); the refresh of a top-up exists only while that top-up is shown.
  `RouteInv` says the same promise of the answer on its way. Promises are never
  taken back (`Stays`).
- Every callback of the page ends in a render, so one lemma (`Rendered`) says what
  the two effects make of a new state, and `PageStep` carries the whole invariant
  through any callback. That the effect fires only for an idle page with its gate
  open is why no request is ever replaced.
- `OrphanInv` counts the requests under way that no page waits for: at most one
  per lost request. `OneTopupPerPage` adds the awaited ones, of which there are
  at most as many as pages (`AwaitedBound`).

`BrowserTabProofs` proves, for a ledger of any length and any number of outages,
clicks, polls and authorisations, `ToastsGo`, `DialogsTellTheTruth` and
`PagesShowOneLoad`, and the type invariant of all four page modules. `OutageInv`:
what failed, failed in an outage. `PanelInv`: a panel is all of a load or a
banner without rows; it needs that a page is turned only when every read it
depends on is back or one has thrown (`ShownFacts`). `HistoryInv`: what a table
was filled from is a part of the log, which growing does not change
(`RecentKept`). `ModalInv`: until the dialog was closed on a run or one has
thrown, at most one is under way and the dialog says so.

TLC checked the strengthened invariants before they were proved. With these,
every safety property and every refinement that a passing run checks is a theorem
for all values of the constants. What is only model-checked is liveness
(`AcceptedOrderDecided`, `EveryEventConcluded`, `FeedCatchesUp` and their like:
fairness and ENABLED are beyond the prover); the two disagreements of section 5
are counterexamples. That a balance is the sum of its entries is a fold over a sequence, whose induction the installed provers
cannot do; `BookIsChained` states it link by link and is proved.

## 5. Disagreements found

The two `v_*` runs, with the lines they quote, are in `PROJECT.json`. Others,
met while modelling and evident from the code alone:

Payments, ledger and settlement:

- a credit that fails once after the order was confirmed is never tried again
  (`main.py:709`), unlike `x402/PRD.md:234`;
- a settle that times out fails the order although its transaction may land
  (`main.py:446`), where `x402/PRD.md:179` takes failed to mean unpaid;
- two checkout requests with one key and two transactions both reach the chain
  (`protected_routes.py:267`), unlike `ARCHITECTURE.md:273`;
- two overlapping credits with one reference both credit (`ledger.py:76`);
- nothing expires an unpaid order, and a proof after `expires_at` is accepted by
  `/v1/payments/{id}/proof` (`main.py:365`), unlike `x402/PRD.md:91-96`;
- an order failed by the submit route gets no webhook row (`main.py:446-467`);
- the 24 h step of the webhook ladder is never used (`webhooks.py:15-19`);
- WEA's ladder starts at its second entry (`worker.rs:267`);
- a callback left `in_flight` by a crash is never taken again; the UPDATE meant
  to release a row after a KMS error waits for its own transaction's lock
  (`worker.rs:205-217`);
- "worst-case" in the pre-flight of an AI call is an estimate of four characters
  per token, which the real usage can exceed;
- the SDK retries `POST /v1/messages`, which is not idempotent, although
  `sdk/PRD.md:58` limits retries to idempotent requests; it also reads
  `error_code` at the top level of a body that FastAPI wraps in `detail`, so a
  402 never carries a payment intent to it;
- a crash between created -> pending and the answer of `settle` leaves an order
  pending for ever; so does a rejected settle whose reason does not fit into
  `status_reason`, which only the path at `main.py:453` truncates;
- a transaction that a fork undoes after `settle` saw it confirmed is answered
  null for ever (`main.py:671`), and its order stays broadcasting;
- a provider's 402 is passed on as a 402 (`main.py:543`), and HABA's advisor as one
  too, like a refusal for lack of balance;
- `create_settlement` inserts a new row for an idempotency key it has seen;
- `usage_daily` adds up unbilled requests.

HABA:

- a top-up that failed shuts the dashboard's gate until the page is reloaded
  (`dashboard/page.tsx:174-179`), although
  `subagents/haba-enterprise-dashboard.md:119` has it fire every time;
- the top-up route credits the ledger on any failure of the payment
  (`topup/route.ts:108`, `134`, `142`), which its own header limits to a missing
  service, and so the route and the confirmer may both credit an order (`159`);
- polls are applied in the order they come back (`page.tsx:120`): the card may
  step back for a moment; `DashboardCatchesUp` holds all the same;
- two tabs top up independently: the gate is a ref of one page;
- the dashboard's toast restarts its four seconds at every render (`70-74`);
- a checkout retried with its key after a 502 pays a second time;
- the dialog says "x402 payment submitted to Solana" after a fingerprint alone
  (`PaymentAuthModal.tsx:133`); an authorisation that ends late sets the phase of
  a dialog opened since; a digest that throws leaves it waiting (`34-39`);
- the history shows made-up rows, unmarked, also when the token API answers and
  there is no credit among the rows it sends (`topup-history/route.ts:42`), where
  the comment at line 3 speaks of an unreachable one; so "No topup records yet"
  is never shown once the route has answered.

Consoles:

- the replay scenario answers 410, not the 409 its route expects, when the
  orphaned order it ran into has expired (`replay/route.ts:3`);
- early failures of `trigger-payment` and of the tampering scenarios carry no
  `steps`, and the result panels read them (`x402/console/src/app/page.tsx:348`,
  `wea/console/src/app/page.tsx:326`);
- a refused replay or mismatch writes no proof row, so the card says that the
  client has not yet submitted one (`page.tsx:443`);
- an order found expired or confirmed after settling answers 409 with the money
  gone;
- direct-verify expects `isValid: false` (`direct-verify/route.ts:5-9`) and posts
  without `X-Internal-Auth`, so that the WEA's middleware answers 401
  (`facilitator.rs:36-54`), no row of the call log appears, and the scenario is
  never green (`GreenMeansExpected`);
- both monitors poll without waiting for the poll before: list and figures may be
  of different polls, and the WEA's are read before the wallets' balances, which
  take up to sixteen seconds; the pill is green before the first answer;
- the protocol page filters its first activity (`protocol/page.tsx:22-25`), the
  polls that replace it do not (`LiveActivityTicker.tsx:54`);
- a second toast of the invoice page is taken away by the timer of the first
  (`invoices/page.tsx:158-163`), and a resend that fails shows the toast of one
  that worked (`97-99`);
- the tokens page says "No ledger entries yet" when the read failed; the banner
  of the dashboard stays while its ticker polls on; the status in the sidebar is
  that of the moment the console was entered (`AppShell.tsx:13-20`);
- with reduced motion the explorer announces all eight steps at once.

## 6. Not modelled, and the plan

Not modelled: parsing and encoding (transactions, prices, signatures), charts and
wording, pages that draw constants (usage, billing, models, audit, API keys,
merchants, revenue; HABA's budget page), infrastructure, the figures of the
consoles (the WEA counts in memory, over the traffic of all callers and since its
last start, so they promise nothing about the gateway's rows). Isolation level, unique
indexes and replica counts are taken from migrations and manifests as guards and
constants. `CheckoutClients` and `HabaTopup` see the gateway through what it
answers; its insides are in `PaymentOrders`, and all three are tied to
`PaymentLifecycle`, which two of them implement and the third builds on.

Two hazards have no property. A crash right after created -> pending leaves the
order pending for ever (`main.py:420`): a promise that it is decided fails at
once, and there is no recovery to model. The TPM bucket (`auth.py:181`) counts
after the call and lets concurrent calls overshoot: in `Metering` a limit is a
refusal that may or may not happen.

The plan; items 1 to 8 are done.

1. `PaymentOrders` with `SolanaChain`, `Facilitator`, `PaymentLifecycle`.
2. `TokenLedger` with `AtomicLedger`.
3. `WebhookDelivery`.
4. `SettlementWorker` with `DepegMonitor`.
5. `Metering` over `AtomicLedger`, for the SDK and for HABA.
6. `HabaTopup` over `PaymentLifecycle`: the automatic top-up and its two
   creditors.
7. `CheckoutClients`: who pays through the protected resource.
8. `BrowserTab`: the pages of the token console, HABA's top-up page and the two
   monitors.
9. `ApiAuth`: nonces, the 60 s key cache (`auth.py:94`: a revoked key works until
   it expires), the RPM window (`169`: refused requests are counted too) and the
   TPM bucket, with the overshoot of concurrent calls as the property.
10. `OrderCreation`: the SELECT-INSERT-SELECT of `create_payment` under READ
    COMMITTED (`orders.py:69`), and the confirmer's batch of 50 without an order
    (`main.py:641`).
11. `WorkerJobs`: reconciler (compares only orders of one path, `main.py:174`),
    invoices (an identifier of eight characters, `306`), aggregator (adds up
    unbilled requests, `384`) against the ledger.
12. `RpcPool`, once the settle path uses it.

Proofs left: the modules of this list, once written. What the sequence of a
ledger table looks like beyond its emptiness (`Credits` is a filter, whose
induction the provers cannot do) stays with TLC.
