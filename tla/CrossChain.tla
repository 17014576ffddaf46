------------------------------ MODULE CrossChain ------------------------------
(***************************************************************************)
(* One invoice paid through a 1Click swap (src/crosschain.rs, crosschain/  *)
(* fees.rs), at the grain of SQL statements and provider calls:            *)
(*  - the buyer's browser tabs: each may create the swap, poll its status  *)
(*    and send the deposit from a wallet;                                  *)
(*  - the worker of fees.rs, which follows the swap to the accounting of   *)
(*    the fee: with the swap, or in the merchant's ledger;                 *)
(*  - the scanner, which alone credits the invoice; its statements are     *)
(*    joined here, PaymentScanner has them apart;                          *)
(*  - the provider, the wallet and the chain, which are outside.           *)
(*                                                                         *)
(* Abstractions: signatures, addresses and fee splits (a reply is either   *)
(* verified or an error), the freshness check of a wallet's start (an      *)
(* allowed start may be refused), the availability preview, fee receipts   *)
(* in ZEC (Billing).  A statement that no other task's rows depend on is   *)
(* joined with the one after it.  The provider states KNOWN_DEPOSIT_TX and *)
(* INCOMPLETE_DEPOSIT are not told apart from PROCESSING, and the interval *)
(* of a poll or retry only orders events.                                  *)
(*                                                                         *)
(* A definition whose comment starts with "Wrong" is a mistake that some   *)
(* property notices in place of the one it precedes.                       *)
(***************************************************************************)
EXTENDS InvoiceRow, FiniteSets

CONSTANTS
  Tabs,         \* the buyer's browser tabs
  Casts,        \* bound: who takes part in a behaviour; one of these records
  FundTTL,      \* ticks the provider keeps a deposit address open
  RecoverTTL    \* ticks a completed swap keeps its invoice open (24 hours)

ASSUME TabsAssumption == Tabs \cap {"worker", "scanner", "none"} = {}

\* "free": the gateway takes no fee.  "basic": the fee is the provider's to
\* pay.  "public": a quote saved before that, its fee proved by receipts.
ASSUME CastsAssumption ==
  \A c \in Casts :
    /\ c.creators \cup c.pollers \cup c.wallets \subseteq Tabs
    /\ c.terms \subseteq {"free", "basic", "public"}
    /\ c.prices \subseteq Nat \ {0}  \* what the invoice may ask
    /\ c.direct \in BOOLEAN  \* the buyer may pay in ZEC too
    /\ c.requotes \in Nat  \* of the invoice
    /\ c.stops \in Nat     \* tasks that die half way

ASSUME CrossChainBoundAssumption ==
  /\ FundTTL \in Nat
  /\ RecoverTTL \in Nat

Txs == {"swap", "direct"}

VARIABLES
  cast,       \* who takes part; never changes
  inv,        \* the row of `invoices`
  att,        \* the row of `crosschain_attempts`
  lease,      \* last_checked is too recent for another poll
  terms,
  fee,        \* crosschain_fees.state
  deferred,   \* deferred_payment_fees.state
  ledger,     \* fee_ledger has the invoice
  settled,    \* crosschain_settlements has the invoice
  delivery,   \* crosschain_deliveries has the swap's transaction
  payments,   \* invoice_payments
  chain,      \* how far each transaction has got
  units,      \* what each of them pays the invoice
  prov,       \* the provider's state of the swap
  swaps,      \* how many swaps the provider was made to create
  sends,      \* how many deposits the wallets have made
  pc,         \* pc[t] is where task t is
  heard,      \* heard[t] is the provider's answer to t
  prepared,   \* prepared[t] is the amount tab t wants quoted
  asked,      \* the invoice's status as the worker has read it
  requotes,
  stops

rowVars == <<inv, att, lease>>
feeVars == <<cast, terms, fee, deferred, ledger, settled, delivery>>
chainVars == <<payments, chain, units>>
provVars == <<prov, swaps, sends>>
taskVars == <<pc, heard, prepared, asked>>
countVars == <<requotes, stops>>
vars == <<rowVars, feeVars, chainVars, provVars, taskVars, countVars>>

Creators == cast.creators  \* tabs that ask for the swap,
Pollers == cast.pollers    \* that follow its status
Wallets == cast.wallets    \* and that pay from a wallet

NoAttempt == [state |-> "none", quoted |-> FALSE, amount |-> 0, token |-> "none",
              sent |-> FALSE, priceLeft |-> Past, fundLeft |-> Past, provLeft |-> Past]

\* A quote of an earlier version of the gateway.
Saved(price) ==
  [NoAttempt EXCEPT !.state = "PENDING_DEPOSIT", !.quoted = TRUE, !.amount = price,
                    !.priceLeft = QuoteTTL, !.fundLeft = QuoteTTL, !.provLeft = FundTTL]

Init ==
  /\ cast \in Casts
  /\ terms \in cast.terms
  /\ \E price \in cast.prices :
       /\ inv = Created(price, terms = "public")
       /\ att = IF terms = "public" THEN Saved(price) ELSE NoAttempt
       /\ units = [x \in Txs |-> IF x = "swap" /\ terms = "public" THEN price ELSE 0]
  /\ lease = FALSE
  /\ fee = IF terms = "public" THEN "pending" ELSE "none"
  /\ deferred = "none"
  /\ ledger = FALSE
  /\ settled = FALSE
  /\ delivery = FALSE
  /\ payments = {}
  /\ chain = [x \in Txs |-> "none"]
  /\ prov = IF terms = "public" THEN "PENDING_DEPOSIT" ELSE "none"
  /\ swaps = IF terms = "public" THEN 1 ELSE 0
  /\ sends = 0
  /\ pc = [t \in Tabs \cup {"worker", "scanner"} |-> "idle"]
  /\ heard = [t \in Tabs \cup {"worker"} |-> "none"]
  /\ prepared = [t \in Tabs |-> 0]
  /\ asked = "none"
  /\ requotes = 0
  /\ stops = 0

Goto(t, label) == pc' = [pc EXCEPT ![t] = label]

Hear(t, state) == heard' = [heard EXCEPT ![t] = state]

-----------------------------------------------------------------------------
(* create: the buyer asks for a swap.                                      *)

\* An existing attempt is returned, whatever became of it.
Open(t) ==
  /\ pc[t] = "idle"
  /\ att.state = "none"
  /\ Goto(t, "prepare")
  /\ UNCHANGED <<rowVars, feeVars, chainVars, provVars, heard, prepared, asked, countVars>>

\* validate_invoice
Payable == inv.status = "pending" /\ inv.received = 0 /\ inv.left > 0

Prepare(t) ==
  /\ pc[t] = "prepare"
  /\ IF Payable
     THEN Goto(t, "reserve") /\ prepared' = [prepared EXCEPT ![t] = inv.price]
     ELSE Goto(t, "idle") /\ UNCHANGED prepared
  /\ UNCHANGED <<rowVars, feeVars, chainVars, provVars, heard, asked, countVars>>

\* Wrong: an attempt that came to nothing may be made again.
FreeToStart == att.state = "none" \/ (~att.quoted /\ att.state = "NEEDS_REVIEW")

\* The primary key of crosschain_attempts.
Unreserved == att.state = "none"

\* One transaction; a fee row that cannot be made rolls it back.
Reserve(t) ==
  /\ pc[t] = "reserve"
  /\ IF Unreserved /\ Payable /\ (terms # "free" => ~ledger)
     THEN /\ att' = [NoAttempt EXCEPT !.state = "CREATING", !.priceLeft = inv.left]
          /\ inv' = [inv EXCEPT !.exact = TRUE]
          /\ fee' = IF terms = "free" THEN fee ELSE "reserved"
          /\ Goto(t, "quote")
          /\ UNCHANGED prepared
     ELSE /\ Goto(t, "idle")
          /\ prepared' = [prepared EXCEPT ![t] = 0]
          /\ UNCHANGED <<inv, att, fee>>
  /\ UNCHANGED <<lease, cast, terms, deferred, ledger, settled, delivery, chainVars, provVars,
                 heard, asked, countVars>>

\* The provider makes the swap or refuses; either way the reply may be lost.
AskQuote(t) ==
  /\ pc[t] = "quote"
  /\ \/ /\ prov' = "PENDING_DEPOSIT"
        /\ swaps' = swaps + 1
        /\ units' = [units EXCEPT !["swap"] = prepared[t]]
        /\ Goto(t, "save") \/ Goto(t, "review")
     \/ /\ Goto(t, "review")
        /\ UNCHANGED <<prov, swaps, units>>
  /\ UNCHANGED <<rowVars, feeVars, payments, chain, sends, heard, prepared, asked, countVars>>

Lesser(a, b) == IF a < b THEN a ELSE b

\* The funding window is the shorter of the invoice's and the provider's.
SaveQuote(t) ==
  /\ pc[t] = "save"
  /\ att' = [att EXCEPT !.state = "PENDING_DEPOSIT", !.quoted = TRUE,
                        !.amount = prepared[t], !.provLeft = FundTTL,
                        !.fundLeft = Lesser(att.priceLeft, FundTTL)]
  /\ fee' = IF fee = "reserved" THEN "pending" ELSE fee
  /\ Goto(t, "idle")
  /\ prepared' = [prepared EXCEPT ![t] = 0]
  /\ UNCHANGED <<inv, lease, cast, terms, deferred, ledger, settled, delivery, chainVars,
                 provVars, heard, asked, countVars>>

\* The reservation is kept.
Review(t) ==
  /\ pc[t] = "review"
  /\ att' = IF att.quoted THEN att ELSE [att EXCEPT !.state = "NEEDS_REVIEW"]
  /\ Goto(t, "idle")
  /\ prepared' = [prepared EXCEPT ![t] = 0]
  /\ UNCHANGED <<inv, lease, feeVars, chainVars, provVars, heard, asked, countVars>>

-----------------------------------------------------------------------------
(* status: a poll of a tab.                                                *)

\* The answer is of some moment after the lease was taken.  An error gives the
\* lease back early.
Poll(t) ==
  /\ pc[t] = "idle"
  /\ att.quoted
  /\ att.state \notin {"SUCCESS", "REFUNDED"}
  /\ ~lease
  /\ \/ lease' = TRUE /\ Goto(t, "hear") /\ Hear(t, prov)
     \/ UNCHANGED <<lease, pc, heard>>
  /\ UNCHANGED <<inv, att, feeVars, chainVars, provVars, prepared, asked, countVars>>

HearStatus(t) ==
  /\ pc[t] = "hear"
  /\ att' = IF att.state \in {"SUCCESS", "REFUNDED"} THEN att
            ELSE [att EXCEPT !.state = heard[t]]
  /\ Goto(t, "idle")
  /\ Hear(t, "none")
  /\ UNCHANGED <<inv, lease, feeVars, chainVars, provVars, prepared, asked, countVars>>

\* Half a minute passes; a request to the provider lasts 20 seconds at most.
LeaseEnds ==
  /\ lease
  /\ \A t \in Tabs : pc[t] # "hear"
  /\ lease' = FALSE
  /\ UNCHANGED <<inv, att, feeVars, chainVars, provVars, taskVars, countVars>>

\* The operator's retry, which forgets the last check.
Retry ==
  /\ att.quoted
  /\ lease' = FALSE
  /\ UNCHANGED <<inv, att, feeVars, chainVars, provVars, taskVars, countVars>>

-----------------------------------------------------------------------------
(* wallet_send.  A token is a fresh UUID: a tab holds one at a time, so it *)
(* is named after the tab.                                                 *)

\* Wrong: the lock is only looked at.
SendOpen == att.state = "PENDING_DEPOSIT"

Unlocked == att.state = "PENDING_DEPOSIT" /\ att.token = "none"

\* The reply with the token may not reach the tab.
StartSend(t) ==
  /\ pc[t] = "idle"
  /\ att.quoted
  /\ att.fundLeft > 0
  /\ Unlocked
  /\ inv.status = "pending" /\ inv.received = 0
  /\ att' = [att EXCEPT !.token = t]
  /\ Goto(t, "sign") \/ UNCHANGED pc
  /\ UNCHANGED <<inv, lease, feeVars, chainVars, provVars, heard, prepared, asked, countVars>>

\* The wallet sends, is rejected, or leaves the tab not knowing.
Sign(t) ==
  /\ pc[t] = "sign"
  /\ \/ sends' = sends + 1 /\ Goto(t, "submit")
     \/ sends' = sends + 1 /\ Goto(t, "idle")
     \/ sends' = sends /\ Goto(t, "reject")
     \/ sends' = sends /\ Goto(t, "idle")
  /\ UNCHANGED <<rowVars, feeVars, chainVars, prov, swaps, heard, prepared, asked, countVars>>

Rejects(t) == att.token = t /\ ~att.sent /\ att.state = "PENDING_DEPOSIT"

\* A request whose reply is lost is made again.
RejectSend(t) ==
  /\ pc[t] = "reject"
  /\ att' = IF Rejects(t) THEN [att EXCEPT !.token = "none"] ELSE att
  /\ Goto(t, "idle") \/ UNCHANGED pc
  /\ UNCHANGED <<inv, lease, feeVars, chainVars, provVars, heard, prepared, asked, countVars>>

SubmitSend(t) ==
  /\ pc[t] = "submit"
  /\ att' = IF att.token = t /\ ~att.sent THEN [att EXCEPT !.sent = TRUE] ELSE att
  /\ Goto(t, "idle")
  /\ UNCHANGED <<inv, lease, feeVars, chainVars, provVars, heard, prepared, asked, countVars>>

Create(t) ==
  Open(t) \/ Prepare(t) \/ Reserve(t) \/ AskQuote(t) \/ SaveQuote(t) \/ Review(t)

Follow(t) == Poll(t) \/ HearStatus(t)

Send(t) == StartSend(t) \/ Sign(t) \/ RejectSend(t) \/ SubmitSend(t)

Buyer ==
  \/ \E t \in Creators : Create(t)
  \/ \E t \in Pollers : Follow(t)
  \/ \E t \in Wallets : Send(t)

-----------------------------------------------------------------------------
(* The worker.                                                             *)

Accounted == {"collected", "direct", "provider_handled"}

\* reconcile, for a fee that is due or for an attempt without one.  The provider
\* answers at some moment after it is picked, and the answer is judged later; an
\* attempt without a quote cannot have paid a confirmed invoice.
Pick ==
  /\ pc["worker"] = "idle"
  /\ att.state # "none"
  /\ \/ fee \notin Accounted \cup {"none"} /\ UNCHANGED lease
     \/ /\ fee = "none" /\ att.quoted /\ ~settled /\ ~lease
        /\ inv.status \in {"pending", "underpaid", "expired", "detected", "confirmed"}
        /\ lease' = TRUE
  /\ \/ att.quoted /\ Goto("worker", "judge") /\ Hear("worker", prov)
     \/ ~att.quoted /\ inv.status = "confirmed" /\ Goto("worker", "direct") /\ UNCHANGED heard
  /\ UNCHANGED <<inv, att, feeVars, chainVars, provVars, prepared, asked, countVars>>

\* A swap that cannot account for the payment of the invoice any more.
OutOfRace(state) ==
  \/ state = "REFUNDED"
  \/ state = "PENDING_DEPOSIT" /\ att.provLeft < 0

\* reconcile_status reads the invoice once.
Judge ==
  /\ pc["worker"] = "judge"
  /\ IF inv.status = "confirmed" /\ OutOfRace(heard["worker"])
     THEN Goto("worker", "direct") /\ UNCHANGED asked
     ELSE IF heard["worker"] = "SUCCESS" /\ att.amount = inv.price
     THEN Goto("worker", "recover") /\ asked' = inv.status
     ELSE Goto("worker", "idle") /\ UNCHANGED asked
  /\ Hear("worker", "none")
  /\ UNCHANGED <<rowVars, feeVars, chainVars, provVars, prepared, countVars>>

\* Wrong: an expired invoice is left alone.
ReopenedIfAwaiting(row) ==
  IF row.status \in Awaiting THEN [row EXCEPT !.left = RecoverTTL] ELSE row

Longer(a, b) == IF a < b THEN b ELSE a

Reopened(row) ==
  IF row.status \in Awaiting \cup {"expired"}
  THEN [row EXCEPT !.status = IF @ = "expired" THEN "pending" ELSE @,
                   !.left = Longer(@, RecoverTTL)]
  ELSE row

Recover ==
  /\ pc["worker"] = "recover"
  /\ delivery' = TRUE
  /\ inv' = Reopened(inv)
  /\ Goto("worker", "match")
  /\ UNCHANGED <<att, lease, cast, terms, fee, deferred, ledger, settled, chainVars, provVars,
                 heard, prepared, asked, countVars>>

\* Wrong: what the mempool has shown is a delivery.
SeenDelivery == "swap" \in payments

\* matched_delivery
Delivered == "swap" \in payments /\ chain["swap"] = "mined"

Match ==
  /\ pc["worker"] = "match"
  /\ Goto("worker", IF Delivered /\ units["swap"] >= inv.price
                       /\ (terms = "basic" => asked = "confirmed")
                    THEN "settle" ELSE "idle")
  /\ asked' = "none"
  /\ UNCHANGED <<rowVars, feeVars, chainVars, provVars, heard, prepared, countVars>>

\* Only the deferral, and a provider's fee, wait for the invoice's confirmation.
Settle ==
  /\ pc["worker"] = "settle"
  /\ IF terms = "basic" /\ (inv.status # "confirmed" \/ fee \in Accounted)
     THEN /\ Goto("worker", "idle")
          /\ UNCHANGED <<att, fee, deferred, settled>>
     ELSE /\ settled' = TRUE
          /\ att' = [att EXCEPT !.state = "SUCCESS"]
          /\ deferred' = IF deferred = "none" THEN "none" ELSE "crosschain"
          /\ fee' = IF terms = "basic" THEN "provider_handled" ELSE fee
          /\ Goto("worker", IF terms = "public" THEN "collect" ELSE "idle")
  /\ UNCHANGED <<inv, lease, cast, terms, ledger, delivery, chainVars, provVars,
                 heard, prepared, asked, countVars>>

\* record: the receipts, or none that can be attributed yet.
Collect ==
  /\ pc["worker"] = "collect"
  /\ fee' \in {fee, "collected"}
  /\ Goto("worker", "idle")
  /\ UNCHANGED <<rowVars, cast, terms, deferred, ledger, settled, delivery, chainVars, provVars,
                 heard, prepared, asked, countVars>>

\* resolve_direct: the obligation, its entry in the ledger, and the fee.
ResolveDeferred ==
  /\ pc["worker"] = "direct"
  /\ IF deferred \in {"none", "crosschain"}
     THEN Goto("worker", "close") /\ UNCHANGED deferred
     ELSE Goto("worker", "enter") /\ deferred' = "direct"
  /\ UNCHANGED <<rowVars, cast, terms, fee, ledger, settled, delivery, chainVars, provVars,
                 heard, prepared, asked, countVars>>

\* Wrong: a fee is owed as soon as an invoice is confirmed.
Owed == TRUE

\* What create_fee_entry takes to be the merchant's own fee.
OwnFee == att.state # "none" \/ fee # "none" => deferred = "direct"

\* create_fee_entry, one transaction; it has two callers.
FeeEntered ==
  /\ ledger' = (ledger \/ (~settled /\ OwnFee))
  /\ deferred' = IF ~settled /\ ~OwnFee /\ deferred = "none" THEN "verifying" ELSE deferred

EnterFee ==
  /\ pc["worker"] = "enter"
  /\ FeeEntered
  /\ Goto("worker", "close")
  /\ UNCHANGED <<rowVars, cast, terms, fee, settled, delivery, chainVars, provVars,
                 heard, prepared, asked, countVars>>

CloseFee ==
  /\ pc["worker"] = "close"
  /\ fee' = IF fee \in {"none", "collected", "provider_handled"} THEN fee ELSE "direct"
  /\ Goto("worker", "idle")
  /\ UNCHANGED <<rowVars, cast, terms, deferred, ledger, settled, delivery, chainVars, provVars,
                 heard, prepared, asked, countVars>>

Worker ==
  \/ Pick \/ Judge \/ Recover \/ Match \/ Settle \/ Collect
  \/ ResolveDeferred \/ EnterFee \/ CloseFee

-----------------------------------------------------------------------------
(* The scanner.                                                            *)

\* accepts_payment: after the price has expired only the swap's delivery.
Accepts(x) ==
  \/ att.state = "none"
  \/ att.priceLeft > 0
  \/ delivery /\ x = "swap"
  \/ x \in payments

Sum(ids) == (IF "swap" \in ids THEN units["swap"] ELSE 0)
            + (IF "direct" \in ids THEN units["direct"] ELSE 0)

\* record_payment, and what apply_mempool_invoice_totals makes of the total.
Recorded(row, ids) ==
  LET total == Sum(ids)
      counted == ReceivedUpdated(row, total)
  IN  IF total >= Minimum(row) THEN MarkedDetected(counted, total)
      ELSE MarkedUnderpaid(counted, total)

Record(x) ==
  /\ x \notin payments
  /\ Accepts(x)
  /\ payments' = payments \cup {x}
  /\ inv' = Recorded(inv, payments')
  /\ UNCHANGED <<att, lease, feeVars, chain, units, provVars, taskVars, countVars>>

\* A transaction of the mempool or of a block, for an invoice in view.
Scan(x) == chain[x] # "none" /\ InScannerView(inv) /\ Record(x)

\* The swaps that scan_blocks fetches by themselves.
FindDelivery ==
  /\ delivery
  /\ inv.status \in Awaiting
  /\ Record("swap")

\* confirmed_payment_total and mark_confirmed; the fee comes a little later.
Confirm ==
  /\ pc["scanner"] = "idle"
  /\ InScannerView(inv) /\ inv.status = "detected"
  /\ LET total == Sum({x \in payments : chain[x] = "mined"})
     IN  /\ total >= Minimum(inv)
         /\ inv' = MarkedConfirmed(ConfirmedTotalStored(inv, total))
  /\ Goto("scanner", "bill")
  /\ UNCHANGED <<att, lease, feeVars, chainVars, provVars, heard, prepared, asked, countVars>>

Bill ==
  /\ pc["scanner"] = "bill"
  /\ FeeEntered
  /\ Goto("scanner", "idle")
  /\ UNCHANGED <<rowVars, cast, terms, fee, settled, delivery, chainVars, provVars,
                 heard, prepared, asked, countVars>>

Scanner == (\E x \in Txs : Scan(x)) \/ FindDelivery \/ Confirm \/ Bill

-----------------------------------------------------------------------------
(* The invoice's other hands: its merchant, its payer and its clock.       *)

Refund ==
  /\ inv' = MarkedRefunded(inv)
  /\ inv' # inv
  /\ UNCHANGED <<att, lease, feeVars, chainVars, provVars, taskVars, countVars>>

CancelInvoice ==
  /\ inv' = MarkedExpired(inv)
  /\ inv' # inv
  /\ UNCHANGED <<att, lease, feeVars, chainVars, provVars, taskVars, countVars>>

Requote ==
  /\ requotes < cast.requotes
  /\ CanFinalize(inv)
  /\ inv' \in {Finalized(inv, price) : price \in cast.prices}
  /\ requotes' = requotes + 1
  /\ UNCHANGED <<att, lease, feeVars, chainVars, provVars, taskVars, stops>>

Expire ==
  /\ inv' = ExpiredIfOld(inv)
  /\ inv' # inv
  /\ UNCHANGED <<att, lease, feeVars, chainVars, provVars, taskVars, countVars>>

Older(n) == IF n > Past THEN n - 1 ELSE n

\* A block comes in time for a detected invoice (PaymentScanner has the rest),
\* and the worker's 90 seconds are no time for an answer to grow old.
Tick ==
  /\ pc["worker"] # "judge"
  /\ inv.status = "detected" => inv.left > 1
  /\ inv' = Aged(inv)
  /\ att' = [att EXCEPT !.priceLeft = Older(@), !.fundLeft = Older(@), !.provLeft = Older(@)]
  /\ <<inv, att>>' # <<inv, att>>
  /\ UNCHANGED <<lease, feeVars, chainVars, provVars, taskVars, countVars>>

-----------------------------------------------------------------------------
(* The provider, the wallets and the chain.                                *)

\* Besides a wallet's, a deposit may be made by hand from what the page shows.
\* One that comes after the provider's deadline is refunded.
Notice ==
  /\ prov = "PENDING_DEPOSIT"
  /\ sends > 0 \/ att.quoted
  /\ prov' = IF att.provLeft < 0 THEN "REFUNDED" ELSE "PROCESSING"
  /\ UNCHANGED <<rowVars, feeVars, chainVars, swaps, sends, taskVars, countVars>>

Deliver ==
  /\ prov = "PROCESSING"
  /\ chain["swap"] = "none"
  /\ chain' = [chain EXCEPT !["swap"] = "seen"]
  /\ UNCHANGED <<rowVars, feeVars, payments, units, provVars, taskVars, countVars>>

Finish ==
  /\ prov = "PROCESSING"
  /\ prov' \in IF chain["swap"] = "none" THEN {"REFUNDED", "FAILED"} ELSE {"SUCCESS"}
  /\ UNCHANGED <<rowVars, feeVars, chainVars, swaps, sends, taskVars, countVars>>

\* The buyer pays in ZEC too, all or a part.
PayDirect ==
  /\ cast.direct
  /\ chain["direct"] = "none"
  /\ chain' = [chain EXCEPT !["direct"] = "seen"]
  /\ \E amount \in {1, inv.price} : units' = [units EXCEPT !["direct"] = amount]
  /\ UNCHANGED <<rowVars, feeVars, payments, provVars, taskVars, countVars>>

Mine(x) ==
  /\ chain[x] = "seen"
  /\ chain' = [chain EXCEPT ![x] = "mined"]
  /\ UNCHANGED <<rowVars, feeVars, payments, units, provVars, taskVars, countVars>>

\* A request, a reconciliation or the scanner's task dies: the client hung up,
\* a time limit passed, the process was stopped.
ServerSide(t) ==
  \/ t \notin Tabs
  \/ pc[t] \in {"prepare", "reserve", "quote", "save", "review", "hear"}

Stop(t) ==
  /\ stops < cast.stops
  /\ pc[t] # "idle"
  /\ ServerSide(t)
  /\ Goto(t, "idle")
  /\ heard' = [s \in DOMAIN heard |-> IF s = t THEN "none" ELSE heard[s]]
  /\ prepared' = [s \in DOMAIN prepared |-> IF s = t THEN 0 ELSE prepared[s]]
  /\ asked' = IF t = "worker" THEN "none" ELSE asked
  /\ stops' = stops + 1
  /\ UNCHANGED <<rowVars, feeVars, chainVars, provVars, requotes>>

Outside ==
  \/ LeaseEnds \/ Retry \/ Refund \/ CancelInvoice \/ Requote \/ Expire \/ Tick
  \/ Notice \/ Deliver \/ Finish \/ PayDirect
  \/ \E x \in Txs : Mine(x)
  \/ \E t \in Tabs \cup {"worker", "scanner"} : Stop(t)

Next == Buyer \/ Worker \/ Scanner \/ Outside

Spec == Init /\ [][Next]_vars

\* The worker and the scanner are loops.  A poll ends, and so does its lease; a
\* delivery is found within the day its invoice is open again; blocks come.
Fairness ==
  /\ WF_vars(Worker)
  /\ SF_vars(Pick)
  /\ SF_vars(FindDelivery)
  /\ WF_vars(Confirm)
  /\ WF_vars(LeaseEnds)
  /\ \A t \in Tabs : WF_vars(t \in Pollers /\ HearStatus(t))
  /\ \A x \in Txs : WF_vars(Mine(x))

FairSpec == Spec /\ Fairness

-----------------------------------------------------------------------------
(* Properties.                                                             *)

AttemptStates == {"none", "CREATING", "NEEDS_REVIEW", "PENDING_DEPOSIT",
                  "PROCESSING", "SUCCESS", "REFUNDED", "FAILED"}

ProvStates == {"none", "PENDING_DEPOSIT", "PROCESSING", "SUCCESS", "REFUNDED", "FAILED"}

\* Every row and every task is what the schema and the code make it.
TypeOK ==
  /\ inv \in Row
  /\ att \in [state : AttemptStates, quoted : BOOLEAN, amount : Nat,
              token : Tabs \cup {"none"}, sent : BOOLEAN,
              priceLeft : Int, fundLeft : Int, provLeft : Int]
  /\ cast \in Casts /\ terms \in cast.terms
  /\ fee \in Accounted \cup {"none", "reserved", "pending"}
  /\ deferred \in {"none", "verifying", "direct", "crosschain"}
  /\ {lease, ledger, settled, delivery} \subseteq BOOLEAN
  /\ payments \subseteq Txs
  /\ chain \in [Txs -> {"none", "seen", "mined"}]
  /\ units \in [Txs -> Nat]
  /\ prov \in ProvStates
  /\ {swaps, sends, requotes, stops} \subseteq Nat
  /\ heard \in [Tabs \cup {"worker"} -> ProvStates]
  /\ prepared \in [Tabs -> Nat]
  /\ asked \in Statuses
  /\ DOMAIN pc = Tabs \cup {"worker", "scanner"}

\* The provider is never made to create a second swap for the invoice, however
\* many tabs ask and whatever becomes of the first request.
OneSwap == swaps <= 1

\* Two tabs never both send the deposit from a wallet.
OneSend == sends <= 1

\* The fee of an invoice is in the merchant's ledger or was taken with the swap,
\* never both: create_fee_entry against reconcile and resolve_direct.
FeeTakenOnce == ~(ledger /\ (settled \/ fee \in {"collected", "provider_handled"}))

\* A settlement, and a fee taken with the swap, rest on a mined delivery of the
\* whole price that the scanner has credited, whatever the provider says.
SettledIsDelivered ==
  (settled \/ fee \in {"collected", "provider_handled"}) =>
    /\ "swap" \in payments
    /\ chain["swap"] = "mined"
    /\ units["swap"] >= inv.price
    /\ fee = "provider_handled" => inv.status \in {"confirmed", "refunded"}

\* An invoice whose swap has succeeded for its price is paid in the end, even
\* when it had expired and nobody looks at the page any more.
SuccessIsCredited ==
  (prov = "SUCCESS" /\ att.quoted /\ att.amount = inv.price)
    ~> (inv.status \in {"confirmed", "refunded"})

\* What checked_quote assumes: the quote that is saved is for the price of the
\* invoice.  The price may change between Prepare and Reserve.
QuoteCoversInvoice == att.quoted => att.amount = inv.price

=============================================================================
