# CipherPay API: a TLA+ development

CipherPay is a payment gateway for shielded Zcash: merchants create invoices,
payers send ZEC to an invoice's shielded address, a scanner finds the payments
with the merchants' viewing keys, and the server confirms the invoice and runs
what depends on it (fees, tickets, subscriptions, campaigns, webhooks). It is
one process: an actix-web server, a dozen tokio tasks on timers and one SQLite
database they all share. There is almost no transaction that spans two
statements, so most of what can go wrong is an interleaving of single SQL
statements and HTTP calls of several tasks, a crash between two of them, or a
decision made from a row read some awaits ago. These models are about that.

Paths below are relative to the repository; line numbers are in `PROJECT.json`
("map" for every definition, "hazards" for every difficulty).

## 1. Inventory

| component | state | operations | who else touches it |
|---|---|---|---|
| invoices (`invoices/`, `api/invoices.rs`, `api/invoice_routes.rs`) | table `invoices`, `invoice_payments` | create, create draft, finalize (quote), cancel, refund; `record_payment`, `mark_underpaid`, `mark_detected`, `mark_confirmed`, `expire_old_invoices` | both scanner tasks, HTTP handlers, swaps, subscriptions, billing |
| scanner (`scanner/`) | checkpoint in memory and in `scanner_state`, cache of seen txids, per-scan view of open invoices | mempool poll, WebSocket push, block batch, recheck of detected invoices, eviction | database, block explorer |
| billing (`billing/`) | `billing_cycles`, `fee_ledger`, `direct_fee_receipts` | ensure cycle, close, carry over, invoice, past due, suspend, settle, collect | confirmation, mempool task, hourly task, dashboard |
| subscriptions (`subscriptions/`) | `subscriptions` and their draft invoices | create, cancel, pause, resume, hourly renewal engine, renewal on confirmation | invoices, scanner |
| webhook outbox (`webhooks/`, trigger in `db.rs`) | `webhook_deliveries` | trigger on status changes, dispatch, retry with back-off | every component that emits an event |
| post-confirmation effects (`on_invoice_confirmed`, `tickets/`, `luma/`, campaigns) | `tickets`, `luma_registrations`, campaign totals | issue, scan and void tickets; register, retry and give up; count a donation | scanner, merchant handlers |
| cross-chain gateway (`crosschain*`) | `swap_attempts`, fee policies, accepted routes | quote, reserve, submit, observe, refund | invoices (which payments are accepted), fee ledger |
| sessions and x402 (`sessions/`, `api/x402.rs`) | `agent_sessions`, `session_charges`, `payment_consumptions`, x402 logs | deposit, charge, close, verify, settle | payers' agents, chain |
| referrals, guardrails | referral codes, attributions | attribute, price, limit | invoices, fee ledger |
| merchants, auth, passkeys, API keys | accounts, sessions, tokens, challenges | register, log in, rotate, delete | every handler |
| events, products, prices | catalogue rows | create, edit, deactivate, capacity | invoice creation, Luma |
| payment links and campaigns | `payment_links`, `campaign_donations`, address index | create, edit, delete, credit | both scanner tasks, invoice creation |
| e-mail (`email.rs`, `email/payments.rs`) | `payment_email_queue`, `email_events` | queue on confirmation, claim, send, give back, cancel | merchants' settings, invoices |
| start-up (`db.rs`, `db/`) | `schema_migrations`, every table | migrations, sealing of secrets | runs alone, before everything else |
| maintenance, configuration, administration, hosted UI | – | purge, reports | every table that is purged |

How they interact: the scanner is the only writer of money into invoices; its
confirmation calls `on_invoice_confirmed`, which reaches tickets, Luma,
campaigns, subscriptions and the fee ledger. The mempool task also asks billing
whether settlement invoices were paid. A database trigger turns every status
change of an invoice into a webhook delivery. Hourly tasks run billing and
subscriptions, which create invoices of their own.

What is hard, per component, is the list "hazards" of `PROJECT.json`; the
properties that answer each are named there.

## 2. Modules

| module | what it is |
|---|---|
| `InvoiceRow` | one invoice row; each SQL statement of `invoices/mod.rs` as a function from the row before to the row after |
| `InvoicePromise` | what an invoice promises, with nothing of how: the abstract specification |
| `PaymentScanner` | the two scanning tasks, the handlers, what swaps and subscriptions write to the row, the clock, the chain and faults over invoice rows; implements `InvoicePromise` |
| `PaymentScannerProofs` | its theorems |
| `LedgerPromise` | what the fee ledger promises a merchant: the abstract specification |
| `Billing` | cycles, fee ledger, settlement invoices and enforcement for one merchant; implements `LedgerPromise` |
| `BillingProofs` | its theorems |
| `Subscriptions` | one subscription, its renewal invoices (rows of `InvoiceRow`), the hourly engine, the scanner and the merchant's requests |
| `SubscriptionsProofs` | its theorems |
| `CrossChain` | one invoice (a row of `InvoiceRow`) paid through a swap: browser tabs, the worker, the scanner, the provider and the chain |
| `CrossChainProofs` | its theorems |
| `AgentPayments` | agent sessions and the x402 endpoints over the table of consumed transactions they share |
| `AgentPaymentsProofs` | its theorems |
| `Tickets` | the checkout, tier capacity, tickets at the door and Luma registrations of one product |
| `TicketsProofs` | its theorems |
| `Campaigns` | donation campaigns: addresses, slugs and totals, credited from three places |
| `CampaignsProofs` | its theorems |
| `Startup` | the migrations a start runs on databases of four ages, and the sealing of stored secrets |
| `Outbox` | the queue of webhook deliveries and the queue of mails about payments |
| `OutboxProofs` | its theorems |
| `MC...` | small instances of each for TLC |

Each module has its `TypeOK`, one action per statement or call that other tasks
can come between, and its properties at the end. A definition whose comment
begins with "Wrong" is a mistake that some property notices when it replaces the
definition it precedes; nothing else uses it.

The modules meet in the code at `mark_confirmed`. `PaymentScanner` has all of
what leads to it; the others start from a confirmation, a step of their own, and
have what follows. `InvoiceRow` is the common part of those in which an invoice
may also expire, be quoted again or be paid twice.

### InvoiceRow

`left` stands for `expires_at - now` in ticks, so that a statement `expires_at =
now + 10 min` is an assignment of a constant and the clock is one action that
ages every row. `touched` is `detected_txid IS NOT NULL`. Every operator keeps
the `WHERE` clause of its statement: a row that does not match is returned as it
is. Memos, addresses, fiat amounts and fee policies are left out; no property
here is about them.

### PaymentScanner

State is the database (`inv`, `recorded`, `sum`, `saved`, and of swaps `swap` and
`delivered`), the renewals a pause is about to expire (`pausing`), the chain (`sent`,
`mined`, `tip`), the scanner's memory (`seen`, `last`, and per worker `pc`,
`view`, `todo`, `cur`, `total`, with `confirming`, `checked`, `target` of the
block worker), and history for the properties (`born`, `missed`, `fulfilled`,
`reorged`, `refused`, `cut`, `voided`). One step is what runs between two awaits that touch shared state:

| code | actions |
|---|---|
| `scan_mempool` | `Poll`, `Fetch`, then `Take`/`Accept`/`Insert`/`Sum`/`Update`/`Decide` per payment, `MempoolDone` |
| `process_ws_mempool_tx` | `Push` and the same six |
| `record_payment` | `Accept` (`accepts_payment`), `Insert` (INSERT OR IGNORE), `Sum` (SELECT SUM), `Update` (UPDATE … WHERE status) |
| `apply_mempool_invoice_totals`, block loop | `Take` (matching, dust and `accepts_payment`), `Decide` with the price of the worker's view |
| queued deliveries of swaps, at the start of `scan_blocks` | `TakeDelivery`, the same six, `DeliveryDone`: a third worker, which runs only while the block task waits for it |
| block task, `scan_blocks` | `ExpireOld`, `SkipScan` (breaker open), `TakeView`, `Recheck`/`Check`/`CheckFails`/`StoreTotal`/`Mark`/`Fulfil`, `JumpToTip`, `FetchBlocks`, `BlockDone` |
| eviction task | `Evict` |
| handlers | `Create`, `CreateDraft`, `Finalize`, `Cancel`, `Refund` |
| swaps (`crosschain.rs` `reserve`, `fees.rs` `reconcile`) | `ReserveSwap`, which makes the invoice exact; `QueueDeliveries`, which reopens an expired one |
| subscriptions | `LookPause` and `VoidPause`, which expires a renewal by its id; `LapseDraft` |
| failure of a statement or call, process death | `Fail`, `Crash` |
| clock, payers, miners | `Tick`, `Send`, `Mine`, `Reorg` |

Properties, each with the hazard it answers in `PROJECT.json`:

- `ConfirmedIsFunded`: a confirmed or refunded invoice holds at least the
  minimum of the price it asks **now**. `mark_confirmed` never looks at the
  price of an ordinary invoice, so this rests on a relation between the row and
  what the worker remembers (`IInv`).
- `CountedOnce`: however often and by whichever scanner a transaction is
  recorded, it counts once.
- `ConfirmedOnChain`: only mined money confirms.
- `PaidIsNoticed`: once the recorded payments suffice, the invoice is detected
  or a scan will look again. The `reached the sum but not the status` window
  between the INSERT and `mark_detected` never becomes permanent while the
  invoice is open. A payment decided with a quote that has since been replaced is
  not promised that (`missed`, section 3).
- `CheckpointCoversView`: no step of the checkpoint passes a payment of the
  worker's view that was neither recorded nor refused. Refused are payments to an
  invoice whose swap has run out of time, which `accepts_payment` only takes from
  the provider (`refused`).
- `KeepsPromise`: the refinement of `InvoicePromise`, by everything that writes the
  row. What the other components write shows in what is promised: an unpaid
  invoice may become exact for a swap, once (`Fix`), its swap may open it again at
  the same quote (`Reopen`), and a renewal may be expired by a pause whatever its
  status is (`Void`), confirmed included, because the code does so by id.
- `OnlyConfirmedFulfilled`, `FulfilledOrCut`: side effects run for confirmed
  invoices (or ones a pause has expired since), and a confirmed one has had them or
  is about to, but for a crash between `mark_confirmed` and `on_invoice_confirmed`
  (`cut`).
- `MinedIsConfirmedInTime`: once failures, crashes and skipped scans have come to
  an end, a mined payment confirms its invoice, unless the half hour in the view
  runs out or a pause expires it first.

### Billing

State is the rows of one merchant: `cyc` (billing_cycles), `bill` (settlement
invoices), `merchant` and `tier`, and for each payment its ledger entry (`rank`,
`home`, `collected`) and receipts (`received`, `paidBy`); what each task holds
between two statements (`pc`, `pay`, `got`, `carry`, `batch`, `verdict`,
`claims`, `settling`); and history (`confirmed`, `direct`, `lost`, `unspent`). An amount is
a few units, a deadline is the ticks left, and a bill is paid in full and
confirmed, or not at all. Nothing here runs in one transaction except
`create_fee_entry`, `apply_collected` and the claim of one settlement, and the
actions are cut accordingly:

| code | actions |
|---|---|
| fee part of `on_invoice_confirmed` | `Confirm`, then `Ensure("scanner")`, `CreateEntry` |
| `ensure_billing_cycle` | `FindOpen`, `SumCarried`, `InsertCycle`, `ZeroCarried`, for either task |
| `record_direct_receipt` | `Receive`, `TotalReceipts`, `ApplyCollected` |
| `process_billing_cycles` | `ReadExpired`, then `ClosePaid`, `CarryOver` or `Invoice` and `Ensure("hourly")` for each cycle; `ReadOverdue`, `Overdue`, `Judge`; `ReadPastDue`, `Suspend`, `Judge`; `UpgradeTier` |
| `check_settlement_payments` | `ReadSettled`, `Claim` |
| `billing_settle` | `Settle`, `Link` |
| failure of a statement, process death | `FailScanner`, `FailHourly`, `Crash` |

`lost` counts what a write based on an older read drops, which the code does in
four places, and `unspent` what a paid bill has left over when it is claimed (see
the hazards): `NothingForgotten` says that nothing is dropped anywhere else. That the ledger may also bill a fee twice (a crash between the two halves of a
carry-over, a receipt that arrives after one) is listed under the hazards and claimed by no property.

### Subscriptions

State is the row of the subscription (`sub`, with `left` for
`current_period_end - now`), its renewal invoices (`inv`, and `paid`, those with
`confirmed_at <= expires_at`), `prices.active`, and what each task has read and
not yet used (`pc`, `seen`, `at`, `age`).

| code | actions |
|---|---|
| `process_renewals` | `StartPass`; `CancelAtEnd`; `ReadDue`, `LookDue`, `LosePrice`, `Draft`, `LinkDraft`; `ReadEnded`, `Judge`, `Renew`, `Overdue`, `DropDraft` |
| `renew_from_confirmed_invoice` | `ReadRenewal`, `ApplyRenewal`, for the engine and the scanner |
| the scanner, the payment page | `See`, `Confirm`, `Detect`, `ReadQuote`, `Quote`, `ExpireOld` |
| `pause_subscription`, `resume_subscription`, `cancel_subscription` | `AskPause`, `LookPause`, `VoidPause`, `DetachPause`, `FlagPause`; `AskResume`, `FreshPeriod`, `Unflag`; `AskCancel`, `WriteCancel` |
| refund, price archived, clock, restart | `Refund`, `Deactivate`, `Tick`, `Crash` |

The hard part is that the engine and the scanner may both be renewing, and that
the engine marks past due from a list it read earlier, while the WHERE clauses of
the two UPDATEs are all that orders them: `RenewedOnce`, `PeriodsAddUp`,
`OverdueOnlyWhenEnded`, and `PaidRenews` (what a restart keeps the scanner from
applying, the engine applies).

### CrossChain

State is the rows about one invoice (`inv`, `att`, `fee`, `deferred`, `ledger`,
`settled`, `delivery`, `payments`), the chain and the provider (`chain`, `units`,
`prov`), and the tasks (`pc`, `heard`, `prepared`, `asked`).

| code | actions |
|---|---|
| create a swap (`crosschain.rs`) | `Prepare`, `Reserve`, `AskQuote`, `SaveQuote`, `Review` |
| status poll, the operator's retry | `Poll`, `HearStatus`, `LeaseEnds`; `Retry` |
| pay from a wallet | `StartSend`, `Sign`, `RejectSend`, `SubmitSend` |
| worker (`crosschain/fees.rs`) | `Pick`, `Judge`, `Recover`, `Match`, `Settle`, `Collect`, `ResolveDeferred`, `EnterFee`, `CloseFee` |
| scanner | `Scan`, `FindDelivery`, `Confirm`, `Bill` |
| provider, chain, clock, a task that dies | `Notice`, `Deliver`, `Finish`, `PayDirect`, `Mine`, `Tick`, `Stop` |

`OneSwap` and `OneSend` are about the reservation and the lock; `FeeTakenOnce`
relates the ledger to the swap; `SettledIsDelivered` and `SuccessIsCredited` say
what the provider's word is worth in either direction.

### AgentPayments

State is the tables (`consumed`, `requests`, `sessions`, `charges`, `verified`,
`idem`), the calls in flight (`call`), the purge worker's place and, as history,
how often each transaction was turned into value (`granted`), each request
opened, each charge served and each key settled.

| code | actions |
|---|---|
| `POST /sessions/prepare`, `/open` | `Prepare`; `OpenRead`, `OpenCommit` (one transaction) |
| charge and close a session | `Validate` (one transaction); `CloseRead`, `CloseWrite` |
| x402 V2 verify and settle | `VerifyV2`; `SettleRead`, `SettleCommit` (one transaction) |
| x402 verify, the older endpoint | `LegacyRead`, `LegacyConsume`, `LegacyLog` |
| purge worker, restart, clock | `PurgeCharges`, `PurgeKeys`, `PurgeSessions`, `PurgeRequests`, `Restart`, `Tick` |

A transaction is presented in a spelling of its id; `Lower` is where the code
makes them one.

### Tickets

State is one product with its event and tiers (`product`, `event`, `price`), the
invoices and tickets, the checkout and dashboard calls in flight and the place of
the block scanner and the retry worker.

| code | actions |
|---|---|
| checkout, payment link | `CheckoutRead`, `CheckoutFindsOver`, `CheckoutHides`, `LinkRead`, `CreateInvoice` (with the capacity guard of the INSERT), `StoreAttendee`, `StoreFails` |
| life of an invoice | `Expire`, `Finalize`, `Refund`, `Confirm` |
| `on_invoice_confirmed` | `Effects`, `EffectsFail`; `NotRegisterable`, `AddGuest`, `RegisterFails` |
| Luma retry worker | `SelectDue`, `NextDue`, `RowFails`, and the last three |
| the door | `ScanTicket`, `VoidTicket` |
| dashboard, event sweep, purge | `CreateEvent`, `LinkLuma`, `CreateProduct`, `CreatePrice`, `UpdatePrice`, `Deactivate...`, `UpdateProduct...`, `ArchiveProduct`, `DeleteProduct`, `ArchiveEvent`, `MoveDate`, `HideProduct`, `MarkPast`, `Sync...`, `Purge...` |

`WithinCap` counts expired invoices that were quoted again apart, since the code
does not guard them: `NeverOversold` leaves them in, and is violated (section 4).

Most statements of `on_invoice_confirmed` have their error logged and dropped.
`EffectsFail` is the lookup of the product or the INSERT of the ticket that fails,
after which nothing is done, and the lookup of the Luma ids, after which the buyer
of a Luma event gets an ordinary ticket; `RegisterFails` the reads and the last
write of a registration, of which an unreadable count is taken for 0; `RowFails`
what a retry cannot read. None of it is repeated by itself, so `PaidIsServed`
counts the invoices it happened to (`failed`) beside those a restart cut off
(`cut`), and says that nothing else leaves a buyer without.

### Campaigns

State is the links with their totals, the merchant's address index (`next`), the
rows of direct donations, donation invoices, the mempool and the chain, the
checkpoint, and the place of the poll, the push and the block worker.

| code | actions |
|---|---|
| create a campaign | `GenerateSlug`, `NumberLink`, `InsertLink` |
| edit, delete, backfill addresses | `UpdateRead`, `UpdateWrite`; `Delete`; `BackfillRead`, `BackfillNumber`, `BackfillWrite` |
| donate through an invoice | `ResolveDonation`, `IncrementCreated`, `TagInvoice`, `PayInvoice`, `Confirm`, `CountInvoice`, `NotADonation` |
| donate directly | `Collect`, then `RecordDonation`, `IncrementRaised` for each link, by any of the three workers |
| block scan | `BlockStart`, `GetHeight`, `ReadCampaigns`, `FetchFails`, `Checkpoint` |
| faults | `SkipDonation`, `IncrementFails`, `FetchFails`, `Crash`; `LooksFor`: a list of campaigns that cannot be read is an empty one |

`get_active_campaign_addresses(...).unwrap_or_default()` is in all three workers.
For the poll and the push it costs nothing, since the block scan still comes; in
the block scan the checkpoint then passes the donations of the batch. These are
put into `spoilt` (`Unsought`), with the credits a worker gave up, and
`DonationsNotMissed` says that nothing else but a pause loses a donation.

### Startup

A migration is data: a sequence of statements, with one action for each kind of
statement, so that what a start runs can be read beside `db.rs` and
`db/bootstrap.rs` in their order. A table is what later statements ask of its
schema, and its rows. `Boot`, `Begin`, `Test` and `End` are
`schema_tracking.rs`; `RenameTable`, `MakeTable`, `CopyRows`, `DropTable` the
rebuilds; `DataRow`, `DataDone` `data_migrations.rs`. `Fault` is a statement that
fails, `Crash` the process killed between two, `Stop` a server taken down; the
next `Boot` may be the first with a key. The ages are four: no database
yet, the oldest schema in the repository, one that has taken payments and whose
references an earlier rename rewrote, and one that still has the status
"shipped". `RowsKept` leaves the last out, because the code loses its rows
(section 4).

### Outbox

State is the invoices' status and the merchants' settings, `hook`
(webhook_deliveries), `hostWait` (HOST_ATTEMPTS), the worker's `pass` and the
calls that post themselves (`task`); `mail` (payment_email_queue), `mailed`
(email_events), the mail workers, and the provider's memory of keys (`key`) and
what it has delivered (`inbox`).

| code | actions |
|---|---|
| triggers on an invoice's status | `Change`, with `TriggerHook` and `TriggerMail` in the same statement |
| `retry_failed` | `Select`, `Skip`, `Take`, `Refuse`, `Post`, `Record`, `EndPass` |
| `dispatch_event`, `retry_webhook` | `Dispatch`, `Click`, `Answer` |
| `process_next`, `deliver` | `FailOld`, `Claim`, `Look`, `AlreadySent`, `ReadAddress`, `SavePayload`, `CheckClaim`, `Send`, `RecordSent`, `Finish`, `GiveBack` |
| `update_me`, with its trigger | `EditMail`, `EditUrl` |
| clock and faults | `Tick`, `FailPass`, `FailDelivery`, `Crash` |

`retry_failed` reads one row of each merchant. The window function sorts them by
the merchant's id, so that is the order in which they are gone through (`Place`,
`AtHand`) and in which the LIMIT cuts them off (`Selected`, `cast.page`). With
finitely many events every row gets its turn, which is `EventEnds`. A merchant
whose events never cease can keep those after it on the same host waiting, and the
module promises nothing of that.

Two claims of the code's comments are behind the mail queue's properties: that an
attempt whose outcome is unknown is only repeated while the provider still knows
its key (`OneMail`), and that a queued mail is stopped at once when the settings
change (`MailIsWanted`). Two workers stand for processes that overlap during a
deployment, or for one that outlives its lease.

## 3. Runs and bounds

| run | instance | shows |
|---|---|---|
| `scanner_two_payments` | one invoice of 1000, two payments of 500, chain of 2 blocks, batches of 1, one reorganisation; the history it does not speak of left out (`VIEW`) | `ConfirmedIsFunded`, `CountedOnce`, `ConfirmedOnChain` |
| `scanner_faults` | one invoice (ordinary or exact) quoted at 500 or 1000, one payment of 600, which covers the lower price, a chain of 1 block, a swap that may be reserved, run out and succeed, WebSocket, crashes, errors, evictions | `PaidIsNoticed`, `KeepsPromise`, `CheckpointCoversView` |
| `scanner_live` | a renewal quoted at 1000 and paid 995, the least that suffices, which a pause may expire at any time, a chain of 2 blocks, crashes, errors, skipped scans, `FairSpec` | `OnlyConfirmedFulfilled`, `FulfilledOrCut`, `MinedIsConfirmedInTime` |
| `billing_faults` | two payments with fees of 2 units (one of them paid directly) and 1, a threshold of 2, two cycles, one settlement invoice, weeks as ticks, crashes and errors, `FairSpec` | `LedgerBacked`, `NothingForgotten`, `KeepsPromise`, `PaidBillsSettle` |
| `subscriptions_renew` | a period of two days, a notice of one, one renewal invoice, one restart, two requests, `FairSpec` | `RenewedOnce`, `PeriodsAddUp`, `OverdueOnlyWhenEnded`, `PaidRenews` |
| `crosschain_swap` | five casts: one tab and a buyer who also pays in ZEC, with every kind of quote and a task that dies; an invoice priced again; two tabs that ask; two that pay; one that polls. `FairSpec` | `OneSwap`, `OneSend`, `FeeTakenOnce`, `SettledIsDelivered`, `SuccessIsCredited` |
| `agent_payments` | two transactions, one of which pays a session's address and the shop, two spellings, one key, five calls, one restart, a clock of two ticks | `GrantedOnce`, `NothingBurnt`, `Metered`, `KeySettlesOnce` |
| `tickets_door` | three kinds of product, two invoices, a tier of one place, two buyers, one dashboard call of several statements, one retry, one restart, one failing statement, `FairSpec` | `AdmittedOnce`, `WithinCap`, `PaidIsServed`, `RetryEnds` |
| `tickets_oversold` | a private event with one tier of one place | the finding of section 4 |
| `campaigns` | six casts: the three workers on one campaign, two of them on two, interrupted workers and lists that cannot be read, dashboard edits, a campaign made during a scan, two made at once; two transactions, one of which pays both campaigns | `TotalsAddUp`, `DonationsNotMissed`, `OneOwner` |
| `startup_upgrade` | databases of four ages, an old merchant and a new one, one crash, one failing statement | `RowsKept`, `Ready`, `KeyedIsSealed` |
| `outbox_queues` | six casts: two shops of one host, with a page of one row and of two; a shop that moves, events dispatched and retried by hand, two mail workers, settings that change; two rows, one or two faults, `FairSpec` | `OneMail`, `MailIsWanted`, `MailEnds`, `EventEnds` |

A *cast* is a record, chosen in `Init` and never changed, of who takes part: one
run covers several small instances whose product would be too large. What is
lost is what needs members of two casts at once.

Why the bounds are enough:

- Scanner. Two payments are what it takes for a partial payment, for a SUM
  overtaken by another INSERT and for a reorganisation that removes one of two;
  two blocks are what it takes for a batch to end below the tip and for a payment
  to be in or above the checkpoint; one tick per deadline is enough because only
  the order of deadline and payment matters. `scanner_faults` has one block, which
  is enough for its payment to be in the mempool, in a block and below the
  checkpoint; the swap and its delivery are on the same invoice and payment. A second invoice adds nothing the
  scanner could confuse: rows are only ever written by key, and the theorems
  cover any number. The chain is bounded by `MaxHeight`, reorganisations by one.
- Billing. Two payments are what it takes for a fee below the threshold beside
  one above it, and for a settlement to be spread over entries of two cycles; two
  cycles for a balance to be carried and for a claim on an old cycle while the
  next is open; a direct receipt of half a fee for a balance to shrink below the
  threshold after the cycle was read. Cycles and bills are bounded by `MaxCycles`
  and `MaxBills`; the tier is upgraded only with three finished cycles, so at
  these bounds `UpgradeTier` runs and changes nothing.
- Subscriptions. The engine's pass, a renewal and a request each take a few
  statements on one row; two requests are what it takes to pause and resume, one
  restart to come between a confirmation and the renewal. A second renewal
  invoice would only start again from the state the first one leaves.
- CrossChain. Two tabs are what a race needs. `FundTTL` and `RecoverTTL` make the
  invoice expire before, while and after the swap runs.
- AgentPayments. Two settle calls race for one key or one transaction; `t1` pays
  both receivers, so each pair of endpoints can be given the same transaction.
  Two ticks let a session, a request and a key grow old and be purged.
- Tickets. The last place is the only one that matters, and two buyers are what
  it takes to want it; each kind of product has its own bounds (`MCTickets`).
- Campaigns. Two transactions are one more than a batch of one block passes; the
  one that pays two campaigns lets a credit be interrupted between them. Two
  faults are a list that cannot be read and a worker interrupted after it.
- Startup. One crash and one failing statement can fall between any two
  statements of any start, and the key be set at any of them.
- Outbox. Two attempts for webhooks and three for mail, a lease and a delay of a
  tick each; `KeyTTL > GiveUpAfter + MaxSlow` is what the code's 23 and 24 hours
  stand for, and is the assumption `KeyAssumption`. Two rows are all the events
  there are: enough for a row to be skipped, cut off by the page or claimed by a
  process that dies, and not for a stream that never ceases.

What a property leaves out is a history variable of the model, so that it can be
seen. `missed` (`PaymentScanner`) holds the payments a scan passed over because
its view did not have their invoice, or had it at another quote: the decision is
made with the price of the view, and a payment that suffices for the quote of now
is then remembered as seen without effect. Earlier payments of an invoice quoted
again are in it too, and so is what was recorded for an expired invoice that its
swap reopens, and what is `refused` because the price of a swap had run out.
`cut` are the invoices a crash kept from their side effects, `voided` those a pause
expired although they were paid. `lost` (`Billing`) are the units of a write
that rests on an older read, and `unspent` those of a paid bill that found no
entry to be put on: `check_settlement_payments` spreads a bill over the oldest
entries of its cycle and of every cycle that was carried over, also into another
bill (`billing/mod.rs:621`), whose own claim then has units to spare and drops
them. This takes three cycles, two bills and three payments, more than
`billing_faults` has; the proof of `NothingForgotten` asked for it. `cut`
and `failed` (`Tickets`) are the invoices whose confirmation a restart interrupted,
or a statement of which failed; `spoilt` (`Campaigns`) the credits a worker gave up
and the donations it passed because its list of campaigns could not be read.

Fairness, and why the code justifies it. Each background task is a loop on a
timer whose awaits end, so its steps are weakly fair: the mempool and block tasks
(`PaymentScanner`), the mempool task, which calls `check_settlement_payments`
(`Billing`), the engine and the scanner (`Subscriptions`), the cross-chain worker
(strongly fair in picking a row and in finding a delivery, which other steps
disable and enable for as long as they like), the Luma retry worker (`Tickets`),
the webhook and mail workers (`Outbox`). The clock is fair where a deadline has
to come. Nothing is asked of payers, merchants, endpoints, Luma or the mail
provider; of miners only in `CrossChain`, that blocks come. `PaidBillsSettle` and
`MinedIsConfirmedInTime` also need failures and crashes to end, which is in
`FairSpec` and in the property itself; in `scanner_live` there is no bound on how
many come before. In `Outbox` faults are a budget, so they end by the bounds; and
a pass that fails for ever is nobody's promise.

Deadlock is checked in `scanner_*` and `billing_faults`. The other instances
stop when every bounded thing has happened, which is the bound and not the
system.

## 4. Findings, and counterexamples kept beside the runs

`tickets_oversold` is a disagreement of the code with its own comment.
`invoices/mod.rs:94` says "Atomic capacity guard: prevent sold-out race windows
for capped tiers"; the guard is in `create_invoice` alone and does not count
expired invoices, and `finalize_invoice` takes an expired one back to pending
without it. A expires, B buys the last place, A asks for a new quote, both pay,
both get a ticket.

These configurations also end in a counterexample. Each is run with
`tlc -config <file> MC<module>`, and shows what a property of the table above had
to leave out:

| configuration | property | what the counterexample shows, and against which words |
|---|---|---|
| `PaymentScanner_covers.cfg` | `CheckpointCovers` | The view of open invoices is read before the chain's height, so the checkpoint passes the block that pays an invoice made in between; `scanner/mod.rs:665` says the scanner "never skips forward past a block that could contain a relevant payment". |
| `PaymentScanner_requote.cfg` | `RequoteOnlyUnpaid` | A payment recorded for an invoice that has just expired leaves no trace in its row, and `finalize_invoice` quotes it again; `invoices/mod.rs:504`: "prevent re-finalization if payment already detected". |
| `PaymentScanner_stuck.cfg` | `MinedIsConfirmed` | A detected invoice that is not confirmed within half an hour leaves the scanner's view and stays detected for ever; `SPEC.md:298`: "`confirmed` -- payment included in a block". |
| `PaymentScanner_unfulfilled.cfg` | `ConfirmedIsFulfilled` | With crashes: one after `mark_confirmed` loses the side effects, of which the engine of subscriptions later catches up the renewal. |
| `Billing_way_back.cfg` | `DebtCanBePaid` | A settlement invoice expires unpaid, the cycle becomes past due, and no button makes a bill for it; `api/billing_routes.rs:190`: "Pay to restore full access." |
| `Subscriptions_void.cfg` | `ConfirmedKept` | Pausing reads the renewal invoice, the scanner confirms it, and pausing expires it by its id alone; `subscriptions/mod.rs:169`: "Returns Err if the invoice is already confirmed". |
| `CrossChain_requote.cfg` | `QuoteCoversInvoice` | The invoice is quoted again between the read of its price and the reservation, and the swap is saved for the old price. |
| `Campaigns_cents.cfg` | `RaisedIsReceived` | `on_invoice_confirmed` looks at a rate its caller's row does not have yet, and adds the nominal cents; `scanner/mod.rs:838`: "the received amount IS the donation". |
| `Startup_shipped.cfg` | `ShippedKept` | On a database with the status "shipped" the first rebuild of `invoices` makes a table without `refund_txid`, the copy of the rebuild for drafts selects that column (`db/bootstrap.rs:1213`), its error is ignored, and the next statement drops the table with the rows. |
| `Startup_emails.cfg` | `EmailsSealed` | An address stored in the clear with a hash is never looked at again; the comment on `migrate_encrypt_recovery_emails` says "Encrypt any plaintext recovery emails". |

## 5. Proofs

`PaymentScannerProofs` proves, for any finite or infinite sets of invoices and
transactions, any amounts, prices, time-outs, batch size and set of faults, from
the named assumptions of `PaymentScanner` and `InvoiceRow` alone:

- `TypeCorrect`: `Spec => []TypeOK`;
- `ConfirmedFunded`: `Spec => []ConfirmedIsFunded`;
- `FulfilledConfirmed`: `Spec => []OnlyConfirmedFulfilled`, and `ConfirmedFulfilled`:
  `Spec => []FulfilledOrCut`;
- `PromiseKept`: `Spec => KeepsPromise`, the refinement of `InvoicePromise` by
  everything that writes the row, swaps and subscriptions included;
- `CountsOnce`: `Spec => []CountedOnce`, and `ConfirmsOnChain`: `Spec =>
  []ConfirmedOnChain`;
- `PaidNoticed`: `Spec => []PaidIsNoticed`, and `CheckpointCovered`: `Spec =>
  CheckpointCoversView`.

The argument has three inductive invariants, each of which uses those before it.

`IInv` says what the views of the workers are good for. `ConfirmedIsFunded` is
not inductive: `mark_confirmed` compares nothing with the price. Its soundness
comes from two facts that are: an invoice a worker *saw* detected can only have
gone on to confirmed or refunded since, or been expired by a pause and perhaps
reopened by its swap, with its quote unchanged in any case (`ViewSafe`, because
nothing re-quotes an invoice that was ever detected, and a swap makes exact only
one that was never paid: `RowSafe`), and what the block
worker stored covers the quote it saw (`RecheckSafe`). Each action is one lemma,
each conjunct it can disturb one step.

`CountInv` says what the totals are sums of. The table's total is the sum of the
recorded payments, a total a worker holds is at most that (the other worker may
have inserted since), and while the block worker rechecks an invoice what it has
added up is covered by the payments that are, or were, in a block and that it is
through with (`TotalsCounted`).

`ScanInv` says which payments are still to be found. `CheckpointCoversView` needs
that what a batch has passed is recorded, or was refused (`BatchOK`, `PastIsRecorded`), which needs the order
of heights and cursors (`HeightsOK`, `BatchOK`). `PaidIsNoticed` needs that some
payment of an invoice is the newest: whoever decides on it has a total that
includes all the others, or a scan still comes back to it (`Newest`).

`BillingProofs` proves, for any payments, fees, receipts, deadlines, thresholds,
bounds and faults:

- `TypeCorrect`: `Spec => []TypeOK`;
- `Backed`: `Spec => []LedgerBacked`, and `PromiseKept`: `Spec => KeepsPromise`,
  the refinement of `LedgerPromise`;
- `NothingIsForgotten`: `Spec => []NothingForgotten`.

The second and third rest on `LedgerInv`: the ledger is typed and backed, and a
total the scanner has read and not yet applied has been received, however old it
is when it is applied. Cycles and bills do not occur in it, so neither depends on
how balances are carried or billed. The last rests on `Books`, which adds
`BookInv`. What the ledger still wants is compared with what cycles ask for, and
each action moves units from one side to the other or to `lost` or `unspent`.
Between the INSERT of a cycle and the UPDATE that zeroes the old ones a balance is
there twice; `BookInv` counts it once (`Moved`), which the tasks' reads, old as
they are, allow because a carried-over cycle only ever owes less (`ReadsOK`).

`BillingProofs` begins with the lemmas about sums over finite sets that `Books`
needs: adding, removing and changing one element, subsets, unions, sums that are
bounded element by element. They are proved from the definition of the fold by
induction over the finite subsets, with the predicate written out as a set of
them, since a theorem with an operator parameter cannot be instantiated. The
other components add up naturals only, and need less: `SumIsCoins`, in
`CampaignsProofs`, `PaymentScannerProofs` and `AgentPaymentsProofs`, says that a
sum is the number of its coins, the pairs of an element and one of the units it
is worth, so that sums inherit what the library knows of finite sets.

`SubscriptionsProofs` proves, for any period, notice, time-outs and bounds,
`TypeCorrect`, `AppliedOnce` (`Spec => []RenewedOnce`), `RenewalAddsPeriod`
(`Spec => PeriodsAddUp`) and `OverdueInTime` (`Spec => OverdueOnlyWhenEnded`).
`RenewedOnce` rests on `IInv`: an invoice that has bought its period is linked to
nothing and about to be linked by nobody (`SpentUnlinked`, `LinkFresh`), and a
task that is about to apply one holds one that was paid in time (`AppliedPaid`);
the guard of the UPDATE on `current_invoice_id` does the rest. `OverdueInTime`
needs what the engine has judged to stay true while it waits (`JudgedEnded`):
time only runs on, and a renewal, which turns it back, changes the period end
that the UPDATE compares.

`AgentPaymentsProofs` proves, for any transactions, calls, spellings, amounts and
times, `GrantedAtMostOnce`, `NothingSpentForNothing` and `KeyMakesOneSettlement`.
The first is not inductive: that a transaction is turned into value once at most
does not say why the next call is refused. `GrantInv` adds that a transaction
turned into value has its tombstone, under the lowered spelling that every
endpoint looks up, and, because the older endpoint consumes in one step and
answers in another, that a transaction consumed and not yet answered for has
value 0 and one such call only. The second needs `GrantInv` for its types and
otherwise only the three steps that write a tombstone or use a request. The third
rests on `Protected`: the latest settlement under a key either has the key's row
or is older than 24 hours, which a purge and a settlement keep, since both act
only on rows that no longer hold.
`TypeCorrect` and `SessionsMetered` (`Spec => []Metered`) are of the sessions:
`MeterInv` adds to `Metered` that the charge rows of a session that is there are
the requests answered, one each, and that a session not there has neither.

`CrossChainProofs` proves, for any tabs, quotes, prices, terms, deaths of tasks
and answers of the provider, `TypeCorrect`, `SwapsOnce` (`Spec => []OneSwap`),
`SendsOnce` (`Spec => []OneSend`), `FeeOnOneSide` (`Spec => []FeeTakenOnce`) and
`SettlementsDelivered` (`Spec => []SettledIsDelivered`), from one inductive
invariant, `SwapInv`. An attempt once made is not made again, and one tab at most
has it in hand while the provider knows no swap (`AttemptInv`); a deposit is sent
only under a lock that is never given back (`LockInv`); what the
provider has sent, the scanner recorded and the worker heard agree
(`DeliveryInv`); an invoice with a payment is not priced again (`TouchedInv`); and
the fee goes to the ledger only for a payment that is not the swap's, and is taken
with the swap only for one that is (`FeeInv`).

`OutboxProofs` proves, for any invoices, merchants, endpoints, workers, delays,
lost answers and deaths of the process, `TypeCorrect`, `MailedOnce` (`Spec =>
[]OneMail`) and `MailsWanted` (`Spec => []MailIsWanted`). The provider drops a
repeated request only while it knows its key. `KeyInv` therefore sets three clocks
against each other: the age of a row, the time its key is still known, and the
time since a worker looked for rows that are too old. From `KeyAssumption` it
follows that whatever may be sent again has a key that is known. `ClaimInv` says
who holds a claim, `SentInv` what the inbox has, and `WantInv` what a worker
knows of the settings.

`TicketsProofs` proves, for any tiers, capacities, calls, edits, attempts,
restarts and failing statements, `TypeCorrect`, `AdmitsOnce` (`Spec => []AdmittedOnce`), `CapHeld` (`Spec
=> []WithinCap`) and `PaidServed` (`Spec => []PaidIsServed`). `TicketInv` follows
a ticket from the confirmation that makes it to the purge that removes it: the
block scanner makes the first ticket of an invoice it has just confirmed, so no
admission is forgotten with a purged row. `CapInv` adds to `WithinCap` that a tier
without a row of prices holds no invoice, and that no edit leaves a cap above the
largest so far; `UnsoldInv` says that nothing of an event is sold before it is
created.

`CampaignsProofs` proves, for any finite sets of campaigns and invoices and any
transactions, batch sizes, edits, restarts and failures, from the named
assumptions of `Campaigns`,
`TypeCorrect`, `OneAddressOneOwner` (`Spec => []OneOwner`), `TotalsAreGiven`
(`Spec => []TotalsAddUp`) and `NoDonationMissed` (`Spec => []DonationsNotMissed`).
`IInv` has a part for each, on top of `Types`:

- `AddrInv`: an address that was given out is below the merchant's index, and the
  one the operator's call holds between its two statements is nobody's.
- `RefInv` and `SumInv`: whatever refers to a campaign refers to one that has been
  live, so neither a restart nor an unfinished creation can lose a credit; an
  invoice is counted only once confirmed, so its amount no longer changes; and
  the sum also holds of campaigns that are not live yet, whose total is 0. A
  deleted campaign is left out: a credit in hand finds no row to be added to.
- `SentInv` and `BatchInv`: a transaction that pays a campaign was sent when the
  campaign had its address, and up to the end of the batch in hand every donation
  is on record, or still before the worker with its campaign among those to look
  for, or among the `spoilt`. The step that needs the most is `ReadCampaigns`: the
  campaigns are read after the height, so that whoever was paid up to that height
  is among them, or in what an unreadable list made the worker pass.
- `Bounds`, for `TypeOK` only: the candidates a slug has gone past all belong to
  campaigns that have been live (`SlugBounds`), so that the suffix is at most the
  number of campaigns.

Only model-checked: the invariants of `Startup` (`RowsKept`, `Ready`,
`KeyedIsSealed`), and everything temporal beyond safety (fairness and ENABLED are
out of the prover's reach). What `Startup` says is about one fixed list of some
two hundred statements, `Schema` and what follows it: a proof would execute that
list symbolically for each of the databases it may meet, which TLC does by
evaluation. No module here declares a RECURSIVE operator.

## 6. Not modelled, and what would come next

The status and note of each component in `PROJECT.json` say what of it is left
out. Nothing is modelled of:

- *shielded decryption* (`scanner/decrypt.rs`): cryptography of the Orchard
  library. What it yields, the amount a transaction pays to an invoice, is a
  constant of `PaymentScanner`;
- *the hosted interface, the widget and the scripts*, which are clients of the
  server.

Partly modelled, with what remains of little state of its own: log-in, recovery
tokens, passkeys and API keys are single guarded statements over the rows of one
account; reports, discovery and public pages only read; exchange rates, formats
and validation are functions of their input.

What would come next, in this order:

1. `Billing` with three cycles: the automatic upgrade of trust, which counts the
   open cycle among the last three.
2. Referrals: the commission of a receipt against a refund and the deletion of
   the merchant's account.
3. The deletion of an account against everything that holds its rows.
4. `Startup` as theorems about any list of statements that keeps to a few rules (a
   table is renamed only after its copy is filled), of which the code's is one.
