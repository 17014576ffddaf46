--------------------------- MODULE PaymentScanner ---------------------------
(***************************************************************************)
(* The payment scanner (src/scanner) over the invoice table: how a payment *)
(* on the Zcash chain becomes a confirmed invoice.                         *)
(*                                                                         *)
(* Two tokio tasks scan concurrently and share the database, the cache of  *)
(* seen txids and nothing else:                                            *)
(*  - "mempool" polls the explorer's mempool and takes pushes from its     *)
(*    WebSocket (scan_mempool, process_ws_mempool_tx);                     *)
(*  - "block" expires old invoices, rechecks detected ones, then scans the *)
(*    blocks above its checkpoint (the block task of run, scan_blocks).    *)
(* Each works from a view of the open invoices it read at the start of the *)
(* scan, and awaits HTTP calls and SQL statements in between.  A step of   *)
(* this module is what happens between two awaits that touch shared state: *)
(* one statement, one HTTP answer.  HTTP handlers (create, finalize,       *)
(* cancel, refund), the clock and the chain interleave with them, and so   *)
(* do the other components that write to the row: a swap is reserved for   *)
(* an invoice and its success reopens it (crosschain), and a pause expires *)
(* a renewal (subscriptions).  Before its scan the block task looks again  *)
(* at the deliveries of swaps, as a third worker, "delivery".              *)
(*                                                                         *)
(* Simplifications: a transaction pays one invoice; one task handles the   *)
(* transactions of a batch in any order; the tip and the blocks below it   *)
(* are fetched together; a queued delivery and the row it names are read   *)
(* together; one call at a time pauses the subscription of a renewal; the  *)
(* direct-fee checks and campaigns, which the same scan also serves, are   *)
(* left to their own components; the scanner database starts with a        *)
(* persisted checkpoint.                                                   *)
(*                                                                         *)
(* A definition whose comment starts with "Wrong" is a mistake that some   *)
(* property notices in place of the one it precedes.                       *)
(***************************************************************************)
EXTENDS Integers, FiniteSetsExt, InvoiceRow

CONSTANTS
  Invoices,
  Txids,
  PaysTo,       \* [Txids -> Invoices], the invoice whose address an output pays
  Amount,       \* [Txids -> Nat], zatoshis of the outputs it decrypts
  Prices,       \* the prices a quote can be made at, in zatoshis
  Exactness,    \* the values exact_payment is created with
  MaxHeight,    \* bound on the chain's height
  Batch,        \* MAX_BLOCKS_PER_SCAN
  Renewals,     \* the invoices created as drafts by the subscription engine
  Swappable,    \* bound: the invoices a payer may ask a swap for
  RecoverTTL,   \* ticks a completed swap keeps its invoice open (24 hours)
  WebSocket,    \* whether the explorer pushes mempool transactions
  Faults,       \* what may go wrong, a subset of FaultKinds
  NoTx,
  NoInvoice

\* "evict" is the end of a txid's time to live in the cache.
FaultKinds == {"crash", "error", "reorg", "evict"}

ASSUME PayAssumption ==
  /\ PaysTo \in [Txids -> Invoices]
  /\ Amount \in [Txids -> Nat \ {0}]
  /\ Prices \subseteq Nat \ {0}
  /\ Exactness \subseteq BOOLEAN
  /\ Renewals \subseteq Invoices
  /\ Swappable \subseteq Invoices
  /\ RecoverTTL \in Nat \ {0}

ASSUME ChainAssumption ==
  /\ MaxHeight \in Nat
  /\ Batch \in Nat \ {0}

ASSUME NullAssumption == NoTx \notin Txids /\ NoInvoice \notin Invoices

ASSUME FaultAssumption == Faults \subseteq FaultKinds /\ WebSocket \in BOOLEAN

Workers == {"mempool", "block", "delivery"}

VARIABLES
  (* The database *)
  inv,       \* inv[i] is the row of invoice i
  recorded,  \* recorded[i] is the set of txids in invoice_payments for i
  sum,       \* sum[i] is SUM(zatoshis) over those rows
  saved,     \* scanner_state.last_height
  swap,      \* swap[i] is the row of crosschain_attempts for i
  delivered, \* the transactions in crosschain_deliveries
  (* The chain *)
  sent,      \* transactions payers have broadcast
  mined,     \* mined[t] is the height of the block that holds t, 0 for none
  tip,       \* height of the chain
  (* The scanner's memory *)
  seen,      \* seen_txids
  last,      \* last_height
  pc,        \* pc[w] is where worker w is in its scan
  view,      \* view[w] is the worker's snapshot of the open invoices
  todo,      \* todo[w] is the set of transactions it has still to look at
  cur,       \* cur[w] is the transaction it is recording
  total,     \* total[w] is the sum it last read or accumulated
  confirming, \* detected invoices the block worker has still to recheck
  checked,   \* the one it is rechecking
  target,    \* batch_end
  pausing,   \* renewals a pause has found unpaid and is about to expire
  (* History *)
  born,      \* born[i] is the height of the chain when i was created
  missed,    \* transactions a scan passed over as nobody's, or refused, or that
             \* were made for, or judged by, an earlier quote of their invoice,
             \* or recorded before a swap's success reopened it
  fulfilled, \* invoices for which on_invoice_confirmed has run
  reorged,   \* transactions a reorganisation put in or took out of a block
  refused,   \* transactions that came after the price of a swap had run out
  cut,       \* invoices whose on_invoice_confirmed a crash kept from running
  voided     \* invoices a pause has expired although they were paid

swapVars    == <<swap, delivered, pausing>>
dbVars     == <<inv, recorded, sum, saved>>
chainVars  == <<sent, mined, tip>>
workVars   == <<view, todo, cur, total>>
recheckVars == <<confirming, checked>>
lossVars    == <<refused, cut, voided>>
historyVars == <<born, missed, fulfilled, reorged, lossVars>>
vars == <<swapVars, dbVars, chainVars, seen, last, pc, workVars, recheckVars,
          target, historyVars>>

\* `left` is the number of ticks until price_expires_at, 0 from then on.
SwapRow == [tried : BOOLEAN, left : Int]

NoSwap == [tried |-> FALSE, left |-> 0]

-----------------------------------------------------------------------------
(* What a worker remembers of a row.                                       *)

Hidden == [status |-> "none", price |-> 0, exact |-> FALSE]

ViewRow == [status : Statuses, price : Nat, exact : BOOLEAN]

Seen(row) == [status |-> row.status, price |-> row.price, exact |-> row.exact]

Remember(row) == IF InScannerView(row) THEN Seen(row) ELSE Hidden

NoView == [i \in Invoices |-> Hidden]

Snapshot == [i \in Invoices |-> Remember(inv[i])]

InView(w, i) == view[w][i] # Hidden

\* The invoice that transaction t pays is in w's index and t is not dust.
Matches(w, t) ==
  /\ InView(w, PaysTo[t])
  /\ ~IsDust(view[w][PaysTo[t]], Amount[t])

\* accepts_payment: once the price of its swap has run out an invoice takes
\* only what the provider has delivered, and what it already has.
Accepts(t) ==
  \/ ~swap[PaysTo[t]].tried
  \/ swap[PaysTo[t]].left > 0
  \/ t \in delivered
  \/ t \in recorded[PaysTo[t]]

Forget(w) ==
  /\ view' = [view EXCEPT ![w] = NoView]
  /\ todo' = [todo EXCEPT ![w] = {}]
  /\ cur' = [cur EXCEPT ![w] = NoTx]
  /\ total' = [total EXCEPT ![w] = 0]

Rest(w) == pc' = [pc EXCEPT ![w] = "idle"] /\ Forget(w)

Goto(w, label) == pc' = [pc EXCEPT ![w] = label]

\* The cache with t in it; a queued delivery leaves it alone.
Cached(w, t) == IF w = "delivery" THEN seen ELSE seen \cup {t}

\* The checkpoint moves to h.
Advance(h) ==
  /\ last' = h
  /\ saved' \in {saved, h}
  /\ ("error" \in Faults \/ saved' = h)
  /\ missed' = missed \cup {t \in Txids : /\ mined[t] \in (last + 1) .. h
                                       /\ ~InView("block", PaysTo[t])}

Lowest(S) == CHOOSE h \in S : \A g \in S : h <= g

-----------------------------------------------------------------------------
Init ==
  /\ inv = [i \in Invoices |-> NoRow]
  /\ recorded = [i \in Invoices |-> {}]
  /\ sum = [i \in Invoices |-> 0]
  /\ saved = 0
  /\ swap = [i \in Invoices |-> NoSwap]
  /\ delivered = {}
  /\ pausing = {}
  /\ sent = {}
  /\ mined = [t \in Txids |-> 0]
  /\ tip = 0
  /\ seen = {}
  /\ last = 0
  /\ pc = [w \in Workers |-> "idle"]
  /\ view = [w \in Workers |-> NoView]
  /\ todo = [w \in Workers |-> {}]
  /\ cur = [w \in Workers |-> NoTx]
  /\ total = [w \in Workers |-> 0]
  /\ confirming = {}
  /\ checked = NoInvoice
  /\ target = 0
  /\ born = [i \in Invoices |-> 0]
  /\ missed = {}
  /\ fulfilled = {}
  /\ reorged = {}
  /\ refused = {}
  /\ cut = {}
  /\ voided = {}

-----------------------------------------------------------------------------
(* HTTP handlers.  Each is one conditional statement on one row.           *)

SetRow(i, row) == inv' = [inv EXCEPT ![i] = row]

Create(i, price, exact) ==
  /\ i \notin Renewals
  /\ inv[i].status = "none"
  /\ SetRow(i, Created(price, exact))
  /\ born' = [born EXCEPT ![i] = tip]
  /\ UNCHANGED <<swapVars, recorded, sum, saved, chainVars, seen, last, pc,
                 workVars, recheckVars, target, missed, fulfilled,
                 reorged, lossVars>>

\* A subscription renewal that nobody has quoted yet.
CreateDraft(i) ==
  /\ i \in Renewals
  /\ inv[i].status = "none"
  /\ SetRow(i, Drafted)
  /\ born' = [born EXCEPT ![i] = tip]
  /\ UNCHANGED <<swapVars, recorded, sum, saved, chainVars, seen, last, pc,
                 workVars, recheckVars, target, missed, fulfilled,
                 reorged, lossVars>>

Finalize(i, price) ==
  /\ CanFinalize(inv[i])
  /\ SetRow(i, Finalized(inv[i], price))
  /\ missed' = missed \cup {t \in sent : PaysTo[t] = i}
  /\ UNCHANGED <<swapVars, recorded, sum, saved, chainVars, seen, last, pc,
                 workVars, recheckVars, target, born, fulfilled, reorged,
                 lossVars>>

RowOnly(i, row) ==
  /\ row # inv[i]
  /\ SetRow(i, row)
  /\ UNCHANGED <<swapVars, recorded, sum, saved, chainVars, seen, last, pc,
                 workVars, recheckVars, target, historyVars>>

Cancel(i) == RowOnly(i, MarkedExpired(inv[i]))

Refund(i) == RowOnly(i, MarkedRefunded(inv[i]))

-----------------------------------------------------------------------------
(* What other components do to the row.                                    *)

\* Wrong: a swap may still start once a payment is on its way.
ReserveAnyOpen(i) ==
  /\ i \in Swappable
  /\ ~swap[i].tried
  /\ inv[i].left > 0
  /\ swap' = [swap EXCEPT ![i] = [tried |-> TRUE, left |-> inv[i].left]]
  /\ SetRow(i, [inv[i] EXCEPT !.exact = TRUE])
  /\ UNCHANGED <<delivered, pausing, recorded, sum, saved, chainVars, seen,
                 last, pc, workVars, recheckVars, target, historyVars>>

\* The buyer asks for a swap: one attempt per invoice, at today's price, and
\* from now on to the zatoshi (reserve).
ReserveSwap(i) ==
  /\ i \in Swappable
  /\ ~swap[i].tried
  /\ inv[i].status = "pending" /\ inv[i].received = 0 /\ inv[i].left > 0
  /\ swap' = [swap EXCEPT ![i] = [tried |-> TRUE, left |-> inv[i].left]]
  /\ SetRow(i, [inv[i] EXCEPT !.exact = TRUE])
  /\ UNCHANGED <<delivered, pausing, recorded, sum, saved, chainVars, seen,
                 last, pc, workVars, recheckVars, target, historyVars>>

\* The last statement before reconcile commits its queue of deliveries.
Reopened(row) ==
  IF row.status \in Awaiting \cup {"expired"}
  THEN [row EXCEPT !.status = IF @ = "expired" THEN "pending" ELSE @,
                   !.left = IF @ < RecoverTTL THEN RecoverTTL ELSE @]
  ELSE row

\* The provider names the transactions S that completed the swap of i.
QueueDeliveries(i, S) ==
  /\ swap[i].tried
  /\ S # {} /\ S \subseteq {t \in sent : PaysTo[t] = i}
  /\ delivered' = delivered \cup S
  /\ SetRow(i, Reopened(inv[i]))
  /\ missed' = IF inv[i].status = "expired" THEN missed \cup recorded[i]
               ELSE missed
  /\ UNCHANGED <<swap, pausing, recorded, sum, saved, chainVars, seen, last, pc,
                 workVars, recheckVars, target, born, fulfilled, reorged,
                 lossVars>>

\* A subscription is paused: clear_pending_renewal_invoice looks at the status
\* of its renewal ...
LookPause(i) ==
  /\ i \in Renewals
  /\ inv[i].status \in Awaiting \cup {"draft", "detected"}
  /\ pausing' = pausing \cup {i}
  /\ UNCHANGED <<swap, delivered, dbVars, chainVars, seen, last, pc, workVars,
                 recheckVars, target, historyVars>>

\* ... and expires it by its id, whatever its status has become.
VoidPause(i) ==
  /\ i \in pausing
  /\ pausing' = pausing \ {i}
  /\ SetRow(i, [inv[i] EXCEPT !.status = "expired", !.left = Past])
  /\ voided' = IF inv[i].status \in {"detected", "confirmed", "refunded"}
               THEN voided \cup {i} ELSE voided
  /\ UNCHANGED <<swap, delivered, recorded, sum, saved, chainVars, seen, last,
                 pc, workVars, recheckVars, target, born, missed, fulfilled,
                 reorged, refused, cut>>

\* A renewal nobody has quoted by the end of its period.
LapseDraft(i) ==
  /\ inv[i].status = "draft"
  /\ RowOnly(i, [inv[i] EXCEPT !.status = "expired"])

-----------------------------------------------------------------------------
(* The clock and the chain.                                                *)

Tick ==
  /\ inv' = [i \in Invoices |-> Aged(inv[i])]
  /\ swap' = [i \in Invoices |->
                IF swap[i].left > 0 THEN Aged(swap[i]) ELSE swap[i]]
  /\ UNCHANGED <<delivered, pausing, recorded, sum, saved, chainVars, seen, last, pc,
                 workVars, recheckVars, target, historyVars>>

OffChain == UNCHANGED <<swapVars, dbVars, seen, last, pc, workVars,
                        recheckVars, target, born, missed,
                        fulfilled, lossVars>>

\* A payer learns the address from the quote.
Send(t) ==
  /\ t \notin sent
  /\ inv[PaysTo[t]].status \notin {"none", "draft"}
  /\ sent' = sent \cup {t}
  /\ UNCHANGED <<mined, tip, reorged>>
  /\ OffChain

InMempool == {t \in sent : mined[t] = 0}

Mine(S) ==
  /\ tip < MaxHeight
  /\ S \subseteq InMempool
  /\ tip' = tip + 1
  /\ mined' = [t \in Txids |-> IF t \in S THEN tip + 1 ELSE mined[t]]
  /\ UNCHANGED <<sent, reorged>>
  /\ OffChain

\* The block at the tip is replaced by one that holds S: what else was in it
\* returns to the mempool.
Reorg(S) ==
  LET old == {t \in Txids : mined[t] = tip} IN
  /\ "reorg" \in Faults
  /\ tip > 0
  /\ S \subseteq InMempool \cup old
  /\ S # old
  /\ reorged = {}     \* bound: one reorganisation
  /\ mined' = [t \in Txids |-> IF t \in S THEN tip
                              ELSE IF t \in old THEN 0 ELSE mined[t]]
  /\ reorged' = reorged \cup (S \ old) \cup (old \ S)
  /\ UNCHANGED <<sent, tip>>
  /\ OffChain

-----------------------------------------------------------------------------
(* Recording one payment: record_payment and the decision that follows it  *)
(* in apply_mempool_invoice_totals and in the block loop of scan_blocks.   *)

\* The worker takes the next transaction.  One that matches no invoice of its
\* view, or that the invoice no longer accepts, is only remembered as seen.
Take(w, t) ==
  /\ pc[w] = "txs"
  /\ t \in todo[w]
  /\ IF Matches(w, t) /\ Accepts(t)
     THEN /\ cur' = [cur EXCEPT ![w] = t]
          /\ Goto(w, "accept")
          /\ UNCHANGED <<todo, seen, missed, refused>>
     ELSE /\ todo' = [todo EXCEPT ![w] = @ \ {t}]
          /\ seen' = Cached(w, t)
          /\ missed' = missed \cup {t}
          /\ refused' = IF Matches(w, t) THEN refused \cup {t} ELSE refused
          /\ UNCHANGED <<cur, pc>>
  /\ UNCHANGED <<swapVars, dbVars, chainVars, last, view, total, recheckVars,
                 target, born, fulfilled, reorged, cut, voided>>

\* record_payment asks once more.  Refused, it answers with what the row says
\* it has received, and its caller decides on that.
Accept(w) ==
  /\ pc[w] = "accept"
  /\ IF Accepts(cur[w])
     THEN Goto(w, "insert") /\ UNCHANGED <<total, missed, refused>>
     ELSE /\ total' = [total EXCEPT ![w] = inv[PaysTo[cur[w]]].received]
          /\ missed' = missed \cup {cur[w]}
          /\ refused' = refused \cup {cur[w]}
          /\ Goto(w, "decide")
  /\ UNCHANGED <<swapVars, dbVars, chainVars, seen, last, view, todo, cur,
                 recheckVars, target, born, fulfilled, reorged, cut, voided>>

\* Wrong: INSERT without OR IGNORE.
InsertTwice(w) ==
  /\ pc[w] = "insert"
  /\ LET t == cur[w]
         i == PaysTo[t]
     IN  /\ recorded' = [recorded EXCEPT ![i] = @ \cup {t}]
         /\ sum' = [sum EXCEPT ![i] = @ + Amount[t]]
  /\ Goto(w, "sum")
  /\ UNCHANGED <<swapVars, inv, saved, chainVars, seen, last, workVars,
                 recheckVars, target, historyVars>>

\* Wrong: the transaction is remembered as seen before the decision is made.
InsertSeenFirst(w) ==
  /\ pc[w] = "insert"
  /\ LET t == cur[w]
         i == PaysTo[t]
     IN  /\ recorded' = [recorded EXCEPT ![i] = @ \cup {t}]
         /\ sum' = IF t \in recorded[i] THEN sum
                   ELSE [sum EXCEPT ![i] = @ + Amount[t]]
         /\ seen' = seen \cup {t}
  /\ Goto(w, "sum")
  /\ UNCHANGED <<swapVars, inv, saved, chainVars, last, workVars, recheckVars,
                 target, historyVars>>

\* INSERT OR IGNORE
Insert(w) ==
  /\ pc[w] = "insert"
  /\ LET t == cur[w]
         i == PaysTo[t]
     IN  /\ recorded' = [recorded EXCEPT ![i] = @ \cup {t}]
         /\ sum' = IF t \in recorded[i] THEN sum
                   ELSE [sum EXCEPT ![i] = @ + Amount[t]]
  /\ Goto(w, "sum")
  /\ UNCHANGED <<swapVars, inv, saved, chainVars, seen, last, workVars,
                 recheckVars, target, historyVars>>

Sum(w) ==
  /\ pc[w] = "sum"
  /\ total' = [total EXCEPT ![w] = sum[PaysTo[cur[w]]]]
  /\ Goto(w, "update")
  /\ UNCHANGED <<swapVars, dbVars, chainVars, seen, last, view, todo, cur,
                 recheckVars, target, historyVars>>

Update(w) ==
  /\ pc[w] = "update"
  /\ LET i == PaysTo[cur[w]] IN SetRow(i, ReceivedUpdated(inv[i], total[w]))
  /\ Goto(w, "decide")
  /\ UNCHANGED <<swapVars, recorded, sum, saved, chainVars, seen, last,
                 workVars, recheckVars, target, historyVars>>

\* The row after the decision, from the worker's view of the invoice.
Decided(w, row, seenRow, received) ==
  IF received >= Minimum(seenRow)
  THEN IF w # "block" \/ seenRow.status \in Awaiting
       THEN MarkedDetected(row, received)
       ELSE row
  ELSE IF seenRow.status = "pending"
       THEN MarkedUnderpaid(row, received)
       ELSE row

\* The row still asks what it asked when w read it, and was not opened again.
SameQuote(w, i) ==
  /\ view[w][i].price = inv[i].price /\ view[w][i].exact = inv[i].exact
  /\ view[w][i].status = "detected" => inv[i].status \notin Awaiting

Decide(w) ==
  /\ pc[w] = "decide"
  /\ LET i == PaysTo[cur[w]]
     IN  /\ SetRow(i, Decided(w, inv[i], view[w][i], total[w]))
         /\ missed' = missed \cup (IF SameQuote(w, i) THEN {} ELSE {cur[w]})
  /\ seen' = Cached(w, cur[w])
  /\ todo' = [todo EXCEPT ![w] = @ \ {cur[w]}]
  /\ cur' = [cur EXCEPT ![w] = NoTx]
  /\ total' = [total EXCEPT ![w] = 0]
  /\ Goto(w, "txs")
  /\ UNCHANGED <<swapVars, recorded, sum, saved, chainVars, last, view,
                 recheckVars, target, born, fulfilled, reorged, lossVars>>

-----------------------------------------------------------------------------
(* The mempool worker.                                                     *)

\* scan_mempool reads the open invoices, and has nothing to do without any.
Poll ==
  /\ pc["mempool"] = "idle"
  /\ Snapshot # NoView
  /\ view' = [view EXCEPT !["mempool"] = Snapshot]
  /\ Goto("mempool", "fetch")
  /\ UNCHANGED <<swapVars, dbVars, chainVars, seen, last, todo, cur, total,
                 recheckVars, target, historyVars>>

\* The explorer lists the mempool; raw transactions it fails to serve are
\* left for the next poll.
Fetch(S) ==
  /\ pc["mempool"] = "fetch"
  /\ S \subseteq InMempool \ seen
  /\ ("error" \in Faults \/ S = InMempool \ seen)
  /\ todo' = [todo EXCEPT !["mempool"] = S]
  /\ Goto("mempool", "txs")
  /\ UNCHANGED <<swapVars, dbVars, chainVars, seen, last, view, cur, total,
                 recheckVars, target, historyVars>>

\* A push from the WebSocket, possibly late: the cache is not consulted.
Push(t) ==
  /\ WebSocket
  /\ pc["mempool"] = "idle"
  /\ t \in sent
  /\ IF Snapshot = NoView
     THEN /\ seen' = seen \cup {t}
          /\ missed' = missed \cup {t}
          /\ UNCHANGED <<pc, view, todo>>
     ELSE /\ view' = [view EXCEPT !["mempool"] = Snapshot]
          /\ todo' = [todo EXCEPT !["mempool"] = {t}]
          /\ Goto("mempool", "txs")
          /\ UNCHANGED <<seen, missed>>
  /\ UNCHANGED <<swapVars, dbVars, chainVars, last, cur, total, recheckVars,
                 target, born, fulfilled, reorged, lossVars>>

MempoolDone ==
  /\ pc["mempool"] = "txs"
  /\ todo["mempool"] = {}
  /\ Rest("mempool")
  /\ UNCHANGED <<swapVars, dbVars, chainVars, seen, last, recheckVars, target,
                 historyVars>>

\* The eviction task forgets a txid it has kept for its time to live.
Evict(t) ==
  /\ "evict" \in Faults
  /\ t \in seen
  /\ seen' = seen \ {t}
  /\ UNCHANGED <<swapVars, dbVars, chainVars, last, pc, workVars, recheckVars,
                 target, historyVars>>

-----------------------------------------------------------------------------
(* The block worker.                                                       *)

\* Each tick of the block task first expires old invoices; the circuit
\* breaker may then skip the scan.
ExpireOld ==
  /\ pc["block"] = "idle"
  /\ inv' = [i \in Invoices |-> ExpiredIfOld(inv[i])]
  /\ Goto("block", "snapshot")
  /\ UNCHANGED <<swapVars, recorded, sum, saved, chainVars, seen, last,
                 workVars, recheckVars, target, historyVars>>

SkipScan ==
  /\ pc["block"] = "snapshot"
  /\ pc["delivery"] = "idle"
  /\ "error" \in Faults
  /\ Goto("block", "idle")
  /\ UNCHANGED <<swapVars, dbVars, chainVars, seen, last, workVars,
                 recheckVars, target, historyVars>>

\* A queued delivery that is not recorded yet, of an invoice that awaits it
\* (the code takes dust too, once a scan, and drops it).
TakeDelivery(t) ==
  /\ pc["block"] = "snapshot"
  /\ pc["delivery"] = "idle"
  /\ t \in delivered \ recorded[PaysTo[t]]
  /\ inv[PaysTo[t]].status \in Awaiting
  /\ ~IsDust(inv[PaysTo[t]], Amount[t])
  /\ view' = [view EXCEPT !["delivery"] =
                [NoView EXCEPT ![PaysTo[t]] = Seen(inv[PaysTo[t]])]]
  /\ todo' = [todo EXCEPT !["delivery"] = {t}]
  /\ Goto("delivery", "txs")
  /\ UNCHANGED <<swapVars, dbVars, chainVars, seen, last, cur, total,
                 recheckVars, target, historyVars>>

DeliveryDone ==
  /\ pc["delivery"] = "txs"
  /\ todo["delivery"] = {}
  /\ Rest("delivery")
  /\ UNCHANGED <<swapVars, dbVars, chainVars, seen, last, recheckVars, target,
                 historyVars>>

\* Once it has been through them the block worker scans.
TakeView ==
  /\ pc["block"] = "snapshot"
  /\ pc["delivery"] = "idle"
  /\ view' = [view EXCEPT !["block"] = Snapshot]
  /\ confirming' = {i \in Invoices : Snapshot[i].status = "detected"}
  /\ Goto("block", "confirm")
  /\ UNCHANGED <<swapVars, dbVars, chainVars, seen, last, todo, cur, total,
                 checked, target, historyVars>>

\* confirmed_payment_total lists the payments of a detected invoice ...
Recheck(i) ==
  /\ pc["block"] = "confirm"
  /\ i \in confirming
  /\ checked' = i
  /\ todo' = [todo EXCEPT !["block"] = recorded[i]]
  /\ Goto("block", "check")
  /\ UNCHANGED <<swapVars, dbVars, chainVars, seen, last, view, cur, total,
                 confirming, target, historyVars>>

\* Wrong: a payment still in the mempool counts.
CheckUnmined(t) ==
  /\ pc["block"] = "check"
  /\ t \in todo["block"]
  /\ todo' = [todo EXCEPT !["block"] = @ \ {t}]
  /\ total' = [total EXCEPT !["block"] = @ + Amount[t]]
  /\ UNCHANGED <<swapVars, dbVars, chainVars, seen, last, pc, view, cur,
                 recheckVars, target, historyVars>>

\* ... asks the explorer for each of them ...
Check(t) ==
  /\ pc["block"] = "check"
  /\ t \in todo["block"]
  /\ todo' = [todo EXCEPT !["block"] = @ \ {t}]
  /\ total' = [total EXCEPT !["block"] = IF mined[t] > 0 THEN @ + Amount[t] ELSE @]
  /\ UNCHANGED <<swapVars, dbVars, chainVars, seen, last, pc, view, cur,
                 recheckVars, target, historyVars>>

NextInvoice ==
  /\ confirming' = confirming \ {checked}
  /\ checked' = NoInvoice
  /\ total' = [total EXCEPT !["block"] = 0]
  /\ todo' = [todo EXCEPT !["block"] = {}]
  /\ Goto("block", "confirm")

\* ... whose failure leaves the invoice for the next scan ...
CheckFails ==
  /\ pc["block"] = "check"
  /\ "error" \in Faults
  /\ NextInvoice
  /\ UNCHANGED <<swapVars, dbVars, chainVars, seen, last, view, cur, target,
                 historyVars>>

StoredAnd(enough, label) ==
  /\ pc["block"] = "check"
  /\ todo["block"] = {}
  /\ SetRow(checked, ConfirmedTotalStored(inv[checked], total["block"]))
  /\ IF enough
     THEN Goto("block", label) /\ UNCHANGED <<todo, total, recheckVars>>
     ELSE NextInvoice
  /\ UNCHANGED <<swapVars, recorded, sum, saved, chainVars, seen, last, view,
                 cur, target, historyVars>>

\* Wrong: whatever is in the blocks suffices.
StoreUnchecked == StoredAnd(TRUE, "mark")

\* Wrong: the exact minimum does not suffice.
StoreStrict ==
  StoredAnd(total["block"] > Minimum(view["block"][checked]), "mark")

\* Wrong: the side effects run before mark_confirmed.
StoreThenFulfil ==
  StoredAnd(total["block"] >= Minimum(view["block"][checked]), "fulfil")

\* ... and stores what is confirmed now.  The caller goes on if it suffices.
StoreTotal ==
  StoredAnd(total["block"] >= Minimum(view["block"][checked]), "mark")

\* Wrong: the caller drops an invoice it has just confirmed.
MarkAndForget ==
  /\ pc["block"] = "mark"
  /\ SetRow(checked, MarkedConfirmed(inv[checked]))
  /\ NextInvoice
  /\ UNCHANGED <<swapVars, recorded, sum, saved, chainVars, seen, last, view,
                 cur, target, historyVars>>

\* mark_confirmed; its caller runs the side effects only if the row changed.
Mark ==
  /\ pc["block"] = "mark"
  /\ SetRow(checked, MarkedConfirmed(inv[checked]))
  /\ IF MarkedConfirmed(inv[checked]) # inv[checked]
     THEN Goto("block", "fulfil") /\ UNCHANGED <<todo, total, recheckVars>>
     ELSE NextInvoice
  /\ UNCHANGED <<swapVars, recorded, sum, saved, chainVars, seen, last, view,
                 cur, target, historyVars>>

\* on_invoice_confirmed: fee, ticket, subscription, campaign.
Fulfil ==
  /\ pc["block"] = "fulfil"
  /\ fulfilled' = fulfilled \cup {checked}
  /\ NextInvoice
  /\ UNCHANGED <<swapVars, dbVars, chainVars, seen, last, view, cur, target,
                 born, missed, reorged, lossVars>>

\* With nothing open the scanner jumps to the tip.
JumpToTip ==
  /\ pc["block"] = "confirm"
  /\ confirming = {}
  /\ view["block"] = NoView
  /\ Advance(tip)
  /\ Rest("block")
  /\ UNCHANGED <<swapVars, inv, recorded, sum, chainVars, seen, recheckVars,
                 target, born, fulfilled, reorged, lossVars>>

\* The heights a batch can start at: the checkpoint, or a later height still
\* below every block that can pay an invoice of the view.
Starts ==
  LET oldest == Lowest({born[i] : i \in {j \in Invoices : InView("block", j)}})
  IN  {last + 1} \cup (last + 1) .. oldest

\* Wrong: what the mempool worker has seen is skipped.
FetchUnseen(start) ==
  /\ pc["block"] = "confirm"
  /\ confirming = {}
  /\ view["block"] # NoView
  /\ start \in Starts
  /\ target' = IF tip < start + Batch - 1 THEN tip ELSE start + Batch - 1
  /\ todo' = [todo EXCEPT !["block"] =
                {t \in Txids : mined[t] \in start .. target'} \ seen]
  /\ Goto("block", "txs")
  /\ UNCHANGED <<swapVars, dbVars, chainVars, seen, last, view, cur, total,
                 recheckVars, historyVars>>

FetchBlocks(start) ==
  /\ pc["block"] = "confirm"
  /\ confirming = {}
  /\ view["block"] # NoView
  /\ start \in Starts
  /\ target' = IF tip < start + Batch - 1 THEN tip ELSE start + Batch - 1
  /\ todo' = [todo EXCEPT !["block"] =
                {t \in Txids : mined[t] \in start .. target'}]
  /\ Goto("block", "txs")
  /\ UNCHANGED <<swapVars, dbVars, chainVars, seen, last, view, cur, total,
                 recheckVars, historyVars>>

\* Only now does the checkpoint move: in memory first, then in the database.
BlockDone ==
  /\ pc["block"] = "txs"
  /\ todo["block"] = {}
  /\ Advance(target)
  /\ target' = 0
  /\ Rest("block")
  /\ UNCHANGED <<swapVars, inv, recorded, sum, chainVars, seen, recheckVars,
                 born, fulfilled, reorged, lossVars>>

-----------------------------------------------------------------------------
(* Faults.                                                                 *)

\* A failed statement or HTTP call ends the scan of its worker; a delivery is
\* part of the block task's.
Fail(w) ==
  /\ "error" \in Faults
  /\ pc[w] \notin {"idle", "snapshot", "check", "fulfil"}
  /\ pc' = [v \in Workers |->
              IF v = w \/ (w = "delivery" /\ v = "block") THEN "idle" ELSE pc[v]]
  /\ Forget(w)
  /\ IF w = "block"
     THEN confirming' = {} /\ checked' = NoInvoice /\ target' = 0
     ELSE UNCHANGED <<recheckVars, target>>
  /\ UNCHANGED <<swapVars, dbVars, chainVars, seen, last, historyVars>>

\* The process dies and comes back: the database and the chain remain.
Crash ==
  /\ "crash" \in Faults
  /\ seen' = {}
  /\ last' = saved
  /\ pc' = [w \in Workers |-> "idle"]
  /\ view' = [w \in Workers |-> NoView]
  /\ todo' = [w \in Workers |-> {}]
  /\ cur' = [w \in Workers |-> NoTx]
  /\ total' = [w \in Workers |-> 0]
  /\ confirming' = {}
  /\ checked' = NoInvoice
  /\ target' = 0
  /\ pausing' = {}
  /\ cut' = IF pc["block"] = "fulfil" THEN cut \cup {checked} ELSE cut
  /\ UNCHANGED <<swap, delivered, dbVars, chainVars, born, missed, fulfilled,
                 reorged, refused, voided>>

-----------------------------------------------------------------------------
Others ==
  \E i \in Invoices :
    \/ ReserveSwap(i)
    \/ \E S \in SUBSET Txids : QueueDeliveries(i, S)
    \/ LookPause(i)
    \/ VoidPause(i)
    \/ LapseDraft(i)

Handlers ==
  \E i \in Invoices :
    \/ \E p \in Prices : \E x \in Exactness : Create(i, p, x)
    \/ CreateDraft(i)
    \/ \E p \in Prices : Finalize(i, p)
    \/ Cancel(i)
    \/ Refund(i)

Chain ==
  \/ \E t \in Txids : Send(t)
  \/ \E S \in SUBSET Txids : Mine(S)
  \/ \E S \in SUBSET Txids : Reorg(S)

RecordStep(w) ==
  \/ \E t \in Txids : Take(w, t)
  \/ Accept(w)
  \/ Insert(w)
  \/ Sum(w)
  \/ Update(w)
  \/ Decide(w)

MempoolStep ==
  \/ Poll
  \/ \E S \in SUBSET Txids : Fetch(S)
  \/ \E t \in Txids : Push(t)
  \/ RecordStep("mempool")
  \/ MempoolDone

RecheckStep ==
  \/ \E i \in Invoices : Recheck(i)
  \/ \E t \in Txids : Check(t)
  \/ StoreTotal
  \/ Mark
  \/ Fulfil

DeliveryStep ==
  \/ \E t \in Txids : TakeDelivery(t)
  \/ RecordStep("delivery")
  \/ DeliveryDone

BlockStep ==
  \/ ExpireOld
  \/ DeliveryStep
  \/ TakeView
  \/ RecheckStep
  \/ JumpToTip
  \/ \E h \in 1 .. MaxHeight + 1 : FetchBlocks(h)
  \/ RecordStep("block")
  \/ BlockDone

Fault ==
  \/ SkipScan
  \/ CheckFails
  \/ \E w \in Workers : Fail(w)
  \/ Crash

Next ==
  \/ Handlers
  \/ Others
  \/ Tick
  \/ Chain
  \/ MempoolStep
  \/ \E t \in Txids : Evict(t)
  \/ BlockStep
  \/ Fault

Spec == Init /\ [][Next]_vars


-----------------------------------------------------------------------------
(* Type invariant.                                                         *)

Labels == {"idle", "fetch", "snapshot", "confirm", "check", "mark", "fulfil",
           "txs", "accept", "insert", "sum", "update", "decide"}

TypeOK ==
  /\ inv \in [Invoices -> Row]
  /\ recorded \in [Invoices -> SUBSET Txids]
  /\ sum \in [Invoices -> Nat]
  /\ saved \in Nat
  /\ swap \in [Invoices -> SwapRow]
  /\ delivered \in SUBSET Txids
  /\ pausing \in SUBSET Invoices
  /\ sent \in SUBSET Txids
  /\ mined \in [Txids -> Nat]
  /\ tip \in Nat
  /\ seen \in SUBSET Txids
  /\ last \in Nat
  /\ pc \in [Workers -> Labels]
  /\ view \in [Workers -> [Invoices -> ViewRow]]
  /\ todo \in [Workers -> SUBSET Txids]
  /\ cur \in [Workers -> Txids \cup {NoTx}]
  /\ total \in [Workers -> Nat]
  /\ confirming \in SUBSET Invoices
  /\ checked \in Invoices \cup {NoInvoice}
  /\ target \in Nat
  /\ born \in [Invoices -> Nat]
  /\ missed \in SUBSET Txids
  /\ fulfilled \in SUBSET Invoices
  /\ reorged \in SUBSET Txids
  /\ refused \in SUBSET Txids
  /\ cut \in SUBSET Invoices
  /\ voided \in SUBSET Invoices

-----------------------------------------------------------------------------
(* Safety.                                                                 *)

SumOf(S) == MapThenSumSet(LAMBDA t : Amount[t], S)

Settled == {"confirmed", "refunded"}

\* A confirmed or refunded invoice holds at least the minimum it asks for, at
\* the price it asks now, whatever quotes, stale views and reorgs came before
\* mark_confirmed ran.
ConfirmedIsFunded ==
  \A i \in Invoices : inv[i].status \in Settled => inv[i].received >= Minimum(inv[i])

\* A transaction counts once for an invoice, however often and by whichever of
\* the two scanners it is recorded: record_payment's INSERT OR IGNORE survives
\* replays after a crash, an eviction from the cache and a second scan.
CountedOnce ==
  \A i \in Invoices :
    /\ sum[i] = SumOf(recorded[i])
    /\ inv[i].received <= SumOf(recorded[i])

\* The payments of i that are, or were until a reorganisation, in a block.
OnChain(i) == {t \in recorded[i] : mined[t] > 0 \/ t \in reorged}

\* The blocks hold, or held until a reorganisation, enough to pay every
\* confirmed invoice: what is still in the mempool never helps to confirm
\* (confirmed_payment_total).
ConfirmedOnChain ==
  \A i \in Invoices :
    inv[i].status \in Settled =>
      SumOf(OnChain(i)) >= Minimum(inv[i])

\* Side effects run only for an invoice that was confirmed; only a pause that
\* expires it by its id takes the confirmation back.
OnlyConfirmedFulfilled ==
  \A i \in fulfilled : inv[i].status \in Settled \/ i \in voided

\* A confirmed invoice has had its side effects (fee entry, ticket, renewal),
\* or is about to have them, whatever fails and whoever else writes the row;
\* only a crash between mark_confirmed and on_invoice_confirmed loses them,
\* and then for good, because no scan looks at a confirmed invoice again.
FulfilledOrCut ==
  \A i \in Invoices :
    inv[i].status \in Settled =>
      \/ i \in fulfilled \cup cut
      \/ pc["block"] = "fulfil" /\ checked = i

\* A scan that finds t is still to come: no cache and no checkpoint is past it.
Pending(t) ==
  \/ mined[t] = 0 /\ t \notin seen
  \/ mined[t] > last

\* Once the payments recorded for an open invoice reach its minimum, the
\* invoice is detected, or a scan that finds one of them is still to come: no
\* interleaving of the two scanners, failed statement or crash between the
\* INSERT and mark_detected leaves a paid invoice to expire.  (A payment that
\* a scan passes over because of an older view is the subject of
\* CheckpointCovers; a reorganisation can put one below the checkpoint; what
\* was recorded for an expired invoice is not looked at again when the success
\* of its swap reopens it.)
PaidIsNoticed ==
  \A i \in Invoices :
    /\ inv[i].status \in Awaiting
    /\ recorded[i] # {}
    /\ sum[i] >= Minimum(inv[i])
    => \E t \in recorded[i] : Pending(t) \/ t \in missed \/ t \in reorged

\* When the checkpoint moves, every payment in the blocks it passes for an
\* invoice of the worker's view has been recorded, or accepts_payment refused
\* it because the price of the invoice's swap had run out: a failed batch, a
\* skipped range or a batch cut short loses none.
CheckpointCoversView ==
  [][\A t \in Txids :
       /\ t \notin reorged
       /\ mined[t] \in (last + 1) .. last'
       /\ Matches("block", t)
       => t \in recorded[PaysTo[t]] \cup refused]_last

\* No block at or below the checkpoint holds an unrecorded payment of an
\* invoice that is open, as the comment in scan_blocks puts it: the scanner
\* "never skips forward past a block that could contain a relevant payment".
CheckpointCovers ==
  "reorg" \notin Faults =>
    \A t \in Txids :
      LET i == PaysTo[t] IN
        /\ inv[i].status \in Awaiting
        /\ inv[i].left > 0
        /\ mined[t] \in 1 .. last
        /\ ~IsDust(inv[i], Amount[t])
        => t \in recorded[i]

\* A quote is given again only to an invoice nobody has paid: the guard of
\* finalize_invoice, "prevent re-finalization if payment already detected".
RequoteOnlyUnpaid ==
  [][\A i \in Invoices :
       /\ inv[i].status = "expired" /\ ~inv[i].exact
       /\ inv'[i].status = "pending"
       => recorded[i] = {}]_inv

-----------------------------------------------------------------------------
(* The inductive strengthening of ConfirmedIsFunded.                       *)

InRecord == {"accept", "insert", "sum", "update", "decide"}

\* A worker that records a payment, or rechecks an invoice, has one in hand, and
\* the deliveries come before the block worker's scan.
PointersOK ==
  /\ \A w \in Workers :
       pc[w] \in InRecord => cur[w] \in Txids
  /\ pc["block"] \in {"check", "mark", "fulfil"} => checked \in confirming
  /\ pc["delivery"] # "idle" => pc["block"] = "snapshot"

\* A swap makes its invoice exact; an invoice that was ever paid is awaiting or
\* paid, unless it expired, and only its swap can then open it again; only a
\* renewal is a draft or about to be expired by a pause.
RowSafe(i) ==
  /\ swap[i].tried =>
       i \in Swappable /\ inv[i].exact /\ inv[i].status # "none"
  /\ inv[i].status = "detected" => inv[i].touched
  /\ inv[i].touched => inv[i].status \notin {"none", "draft"}
  /\ inv[i].touched /\ inv[i].status = "pending" => swap[i].tried
  /\ inv[i].status = "draft" => i \in Renewals
  /\ i \in pausing => i \in Renewals /\ inv[i].status # "none"

\* A worker that saw an invoice detected still sees the quote it has now, and
\* if a pause expired the invoice only its swap can have opened it again.
ViewSafe(w, i) ==
  view[w][i].status = "detected" =>
    /\ inv[i].touched
    /\ inv[i].status \in Awaiting => swap[i].tried
    /\ inv[i].price = view[w][i].price
    /\ inv[i].exact = view[w][i].exact

\* The block worker rechecks invoices it saw detected, and marks one only when
\* what it stored covers the quote it saw.
RecheckSafe ==
  /\ pc["block"] \notin {"confirm", "check", "mark", "fulfil"} => confirming = {}
  /\ \A i \in confirming : view["block"][i].status = "detected"
  /\ pc["block"] = "mark" =>
       /\ total["block"] >= Minimum(view["block"][checked])
       /\ inv[checked].status = "detected" /\ ~inv[checked].exact =>
            inv[checked].received = total["block"]
  /\ pc["block"] = "fulfil" =>
       inv[checked].status \in Settled \/ checked \in voided

\* ConfirmedIsFunded alone is not inductive: mark_confirmed does not look at
\* the price, so its soundness rests on what the worker remembers.
IInv ==
  /\ TypeOK
  /\ PointersOK
  /\ ConfirmedIsFunded
  /\ \A i \in Invoices : RowSafe(i)
  /\ \A w \in Workers, i \in Invoices : ViewSafe(w, i)
  /\ RecheckSafe

-----------------------------------------------------------------------------
(* The inductive strengthening of CountedOnce and ConfirmedOnChain.        *)

RowsCounted ==
  \A i \in Invoices :
    IsFiniteSet(recorded[i]) /\ sum[i] = SumOf(recorded[i])

\* What a worker holds was read from the rows it is about to change; while it
\* rechecks an invoice it has counted payments of it that a block held.
TotalsCounted ==
  /\ \A w \in Workers :
       pc[w] \in {"update", "decide"} => total[w] <= sum[PaysTo[cur[w]]]
  /\ pc["block"] \in {"idle", "snapshot", "confirm"} => total["block"] = 0
  /\ \A i \in Invoices :
       checked = i =>
         /\ pc["block"] = "check" =>
              /\ todo["block"] \subseteq recorded[i]
              /\ total["block"] <= SumOf(OnChain(i) \ todo["block"])
         /\ pc["block"] = "mark" => total["block"] <= SumOf(OnChain(i))

CountInv ==
  /\ RowsCounted
  /\ TotalsCounted
  /\ \A i \in Invoices : inv[i].received <= sum[i]
  /\ ConfirmedOnChain

-----------------------------------------------------------------------------
(* The inductive strengthening of CheckpointCoversView and PaidIsNoticed.  *)

\* Nothing is mined, recorded or listed before it is sent, or sent before its
\* invoice exists.
SentFirst ==
  /\ \A t \in Txids : mined[t] > 0 => t \in sent
  /\ delivered \subseteq sent
  /\ \A t \in sent : inv[PaysTo[t]].status # "none"
  /\ \A i \in Invoices : \A t \in recorded[i] : t \in sent /\ PaysTo[t] = i
  /\ \A w \in Workers : todo[w] \subseteq sent

\* A worker decides on a payment of an invoice it saw open, recorded or refused.
InHand ==
  /\ \A w \in Workers, i \in Invoices :
       InView(w, i) => view[w][i].status \in Awaiting \cup {"detected"}
  /\ \A w \in Workers :
       pc[w] \in InRecord =>
         /\ cur[w] \in todo[w]
         /\ InView(w, PaysTo[cur[w]])
         /\ pc[w] \in {"sum", "update"} => cur[w] \in recorded[PaysTo[cur[w]]]
         /\ pc[w] = "decide" => cur[w] \in recorded[PaysTo[cur[w]]] \cup refused
  /\ refused \subseteq missed

InBatch == pc["block"] \in {"txs"} \cup InRecord

\* The checkpoint follows the tip, and a payment is younger than its invoice.
HeightsOK ==
  /\ saved <= last /\ last <= tip
  /\ \A t \in Txids : mined[t] <= tip
  /\ \A i \in Invoices : born[i] <= tip
  /\ \A t \in Txids \ reorged : mined[t] > 0 => mined[t] > born[PaysTo[t]]
  /\ InBatch => last <= target /\ target <= tip

\* t is in a block of the batch, and pays an invoice of the view.
InRange(t) ==
  /\ t \notin reorged
  /\ mined[t] \in (last + 1) .. target
  /\ InView("block", PaysTo[t])

\* The batch loses nothing it should match.
BatchOK ==
  InBatch =>
    \A t \in Txids :
      InRange(t) /\ t \notin todo["block"] =>
        /\ Matches("block", t) => t \in recorded[PaysTo[t]] \cup refused
        /\ t \in recorded[PaysTo[t]] \cup missed

\* What a cache or the checkpoint is past has been recorded or passed over.
PastIsRecorded ==
  \A t \in Txids :
    t \in seen \/ mined[t] \in 1 .. last =>
      t \in recorded[PaysTo[t]] \cup missed \cup reorged

\* t can be the payment of i that was inserted last: whoever decides on it has
\* the whole sum, and until then a scan that finds it is still to come.
Newest(i, t) ==
  t \notin missed \cup reorged =>
    /\ \A w \in Workers :
         cur[w] = t /\ pc[w] \in {"update", "decide"} => total[w] = sum[i]
    /\ inv[i].status \in Awaiting /\ sum[i] >= Minimum(inv[i]) =>
         /\ Pending(t)
         /\ InBatch /\ InRange(t) => t \in todo["block"]

\* PaidIsNoticed alone is not inductive: a worker may decide on a payment with
\* a total it read before another one was inserted.
ScanInv ==
  /\ SentFirst
  /\ InHand
  /\ HeightsOK
  /\ BatchOK
  /\ PastIsRecorded
  /\ \A i \in Invoices : recorded[i] # {} => \E t \in recorded[i] : Newest(i, t)

-----------------------------------------------------------------------------
(* Liveness.                                                               *)

\* Both tasks run on timers that fire for ever, and every await of theirs ends.
\* Pushes from the explorer are never promised.
MempoolWork ==
  \/ Poll
  \/ \E S \in SUBSET Txids : Fetch(S)
  \/ RecordStep("mempool")
  \/ MempoolDone

Fairness == WF_vars(MempoolWork) /\ WF_vars(BlockStep)

FairSpec == Spec /\ Fairness

MinedEnough(i) ==
  /\ inv[i].status = "detected"
  /\ SumOf({t \in recorded[i] : mined[t] > 0}) >= Minimum(inv[i])

Undisturbed ==
  \/ Handlers \/ Others \/ Tick
  \/ Chain
  \/ MempoolStep \/ BlockStep
  \/ \E t \in Txids : Evict(t)

\* A detected invoice whose payments are in blocks is confirmed, provided that
\* failures and skipped scans come to an end, unless the 30 minutes it stays in
\* the scanner's view run out first or a pause expires it.
MinedIsConfirmedInTime ==
  <>[][Undisturbed]_vars =>
    \A i \in Invoices :
      MinedEnough(i) ~> \/ inv[i].status \in Settled
                        \/ inv[i].left <= 0

\* As SPEC.md and the README have it: a detected payment that gets into a block
\* confirms the invoice.
MinedIsConfirmed ==
  \A i \in Invoices : MinedEnough(i) ~> inv[i].status \in Settled

\* Every confirmed invoice gets its side effects, even if the process is
\* restarted now and then.
ConfirmedIsFulfilled ==
  <>[][Undisturbed]_vars =>
    \A i \in Invoices : inv[i].status = "confirmed" ~> i \in fulfilled

-----------------------------------------------------------------------------
(* The invoices keep their promise.                                        *)

Covers(p, x, r) == r >= Minimum([price |-> p, exact |-> x])

Promise == INSTANCE InvoicePromise WITH
  Voidable <- Renewals,
  Swappable <- Swappable,
  status <- [i \in Invoices |-> inv[i].status],
  price <- [i \in Invoices |-> inv[i].price],
  exact <- [i \in Invoices |-> inv[i].exact],
  received <- [i \in Invoices |-> inv[i].received],
  Enough <- Covers

\* The scanner, the clock, the handlers and the other components that write to
\* the row implement InvoicePromise.
KeepsPromise == Promise!Spec

=============================================================================
