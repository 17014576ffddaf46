----------------------------- MODULE InvoiceRow -----------------------------
(***************************************************************************)
(* One row of the table `invoices` and the SQL statements that change it.  *)
(*                                                                         *)
(* Every operator below is one UPDATE (or INSERT) of src/invoices/mod.rs,  *)
(* written as a function from the row before to the row after: a row the   *)
(* WHERE clause rejects is returned unchanged, as SQLite does.  SQLite     *)
(* runs one statement at a time, so a module that composes these operators *)
(* interleaves whole statements.                                           *)
(*                                                                         *)
(* Abstractions:                                                           *)
(*  - `expires_at` is kept relative to the clock: row.left is the number   *)
(*    of ticks until expires_at, with Past for every instant after it, and *)
(*    for a row whose status makes expires_at irrelevant until it is set   *)
(*    again;                                                               *)
(*  - `detected_txid` is only ever tested for NULL: row.touched;           *)
(*  - names, addresses, memos, URIs and fiat prices are left out.          *)
(***************************************************************************)
EXTENDS Integers

CONSTANTS
  QuoteTTL,   \* ticks a fresh quote stays open (15 minutes in the code)
  TopUpTTL,   \* ticks a recorded payment keeps the quote open (10 minutes)
  DetectTTL,  \* ticks a detected invoice stays in the scanner's view (30 min)
  DustFloor   \* DUST_THRESHOLD_MIN_ZATOSHIS

ASSUME TTLAssumption ==
  /\ QuoteTTL \in Nat \ {0}
  /\ TopUpTTL \in Nat \ {0}
  /\ DetectTTL \in Nat \ {0}

ASSUME DustAssumption == DustFloor \in Nat

\* "none" is the absence of a row.
Statuses == {"none", "draft", "pending", "underpaid", "detected",
             "confirmed", "expired", "refunded"}

\* The statuses in which a payment still changes what the row says it received.
Awaiting == {"pending", "underpaid"}

Row == [status   : Statuses,
        price    : Nat,       \* price_zatoshis
        exact    : BOOLEAN,   \* exact_payment
        received : Nat,       \* received_zatoshis
        touched  : BOOLEAN,   \* detected_txid IS NOT NULL
        left     : Int]       \* expires_at - now, in ticks

Past == -1

NoRow == [status |-> "none", price |-> 0, exact |-> FALSE, received |-> 0,
          touched |-> FALSE, left |-> Past]

-----------------------------------------------------------------------------
(* What the row asks for.                                                  *)

\* Invoice::minimum_payment_zatoshis with SLIPPAGE_TOLERANCE = 0.995.
Minimum(row) == IF row.exact THEN row.price ELSE (row.price * 995) \div 1000

\* An output too small to extend an invoice: under 1% of the price and under
\* the floor, unless it pays the whole price.
IsDust(row, amount) ==
  /\ amount < row.price
  /\ \/ amount < row.price \div 100
     \/ amount < DustFloor

\* The filter of get_pending_invoices.
InScannerView(row) == row.status \in Awaiting \cup {"detected"} /\ row.left > 0

-----------------------------------------------------------------------------
(* The statements.                                                         *)

Created(price, exact) ==
  [NoRow EXCEPT !.status = "pending", !.price = price, !.exact = exact,
                !.left = QuoteTTL]

Drafted == [NoRow EXCEPT !.status = "draft"]

CanFinalize(row) ==
  /\ row.status \in {"draft", "expired"}
  /\ ~row.exact
  /\ row.received = 0
  /\ ~row.touched

Finalized(row, price) ==
  IF CanFinalize(row)
  THEN [row EXCEPT !.status = "pending", !.price = price, !.left = QuoteTTL]
  ELSE row

\* The last statement of record_payment.
ReceivedUpdated(row, total) ==
  IF row.status \in Awaiting
  THEN [row EXCEPT !.received = total, !.left = TopUpTTL]
  ELSE row

MarkedUnderpaid(row, total) ==
  IF row.status = "pending"
  THEN [row EXCEPT !.status = "underpaid", !.received = total,
                   !.touched = TRUE, !.left = TopUpTTL]
  ELSE row

MarkedDetected(row, total) ==
  IF row.status \in Awaiting /\ (row.exact => total >= row.price)
  THEN [row EXCEPT !.status = "detected", !.received = total,
                   !.touched = TRUE, !.left = DetectTTL]
  ELSE row

\* The last statement of confirmed_payment_total.
ConfirmedTotalStored(row, total) ==
  IF row.status = "detected" THEN [row EXCEPT !.received = total] ELSE row

MarkedConfirmed(row) ==
  IF row.status = "detected" /\ (row.exact => row.received >= row.price)
  THEN [row EXCEPT !.status = "confirmed", !.left = Past]
  ELSE row

MarkedRefunded(row) ==
  IF row.status = "confirmed" THEN [row EXCEPT !.status = "refunded"] ELSE row

\* The merchant's cancel.
MarkedExpired(row) ==
  IF row.status = "pending"
  THEN [row EXCEPT !.status = "expired", !.left = Past]
  ELSE row

ExpiredIfOld(row) ==
  IF row.status \in Awaiting /\ row.left < 0
  THEN [row EXCEPT !.status = "expired", !.left = Past]
  ELSE row

\* One tick of the clock.
Aged(row) == IF row.left > Past THEN [row EXCEPT !.left = @ - 1] ELSE row

=============================================================================
