--------------------------- MODULE InvoicePromise ---------------------------
(***************************************************************************)
(* What an invoice promises to the merchant and to the payer, with nothing *)
(* of how the scanner, the clock and the HTTP handlers bring it about.     *)
(*                                                                         *)
(* An invoice is confirmed only from "detected" and only with enough       *)
(* money; a confirmed invoice can only be refunded and a refunded one is   *)
(* final; what it asks for changes only when a draft or an expired invoice *)
(* that no payment has touched is quoted again, or when an unpaid one      *)
(* becomes exact for a swap, once; and what it has received is frozen as   *)
(* soon as it is confirmed.  A swap may open its expired invoice again, at *)
(* the same quote.  The one hole is a renewal: a pause of its subscription *)
(* may expire it at any time, paid or not.  Several invoices may take a    *)
(* step at once (one UPDATE expires them all).                             *)
(***************************************************************************)
EXTENDS Integers

CONSTANTS
  Invoices,
  Voidable,        \* the renewals of subscriptions
  Swappable,       \* the invoices a swap can pay
  Enough(_, _, _)  \* Enough(price, exact, received)

VARIABLES
  status,
  price,
  exact,
  received

vars == <<status, price, exact, received>>

Init == status = [i \in Invoices |-> "none"]

SameQuote(i) == price'[i] = price[i] /\ exact'[i] = exact[i]

SameMoney(i) == received'[i] = received[i]

Open(i) ==
  /\ status[i] = "none"
  /\ status'[i] \in {"draft", "pending"}
  /\ received'[i] = 0

\* A payer asks for a (new) quote.
Quote(i) ==
  /\ status[i] \in {"draft", "expired"}
  /\ received[i] = 0 /\ ~exact[i]
  /\ status'[i] = "pending"
  /\ SameMoney(i) /\ exact'[i] = exact[i]

\* The scanner looks at the chain: money may come, or go with a reorg.
Account(i) ==
  /\ status[i] \in {"pending", "underpaid", "detected"}
  /\ \/ status'[i] = status[i]
     \/ status[i] = "pending" /\ status'[i] = "underpaid"
     \/ status[i] \in {"pending", "underpaid"} /\ status'[i] = "detected"
  /\ SameQuote(i)

Confirm(i) ==
  /\ status[i] = "detected"
  /\ status'[i] = "confirmed"
  /\ Enough(price[i], exact[i], received[i])
  /\ SameQuote(i) /\ SameMoney(i)

Refund(i) ==
  /\ status[i] = "confirmed"
  /\ status'[i] = "refunded"
  /\ SameQuote(i) /\ SameMoney(i)

\* An invoice whose payment is detected is never expired or cancelled.
Expire(i) ==
  /\ status[i] \in {"pending", "underpaid"}
  /\ status'[i] = "expired"
  /\ SameQuote(i) /\ SameMoney(i)

\* A buyer starts a swap: from now on the invoice asks for the exact price.
Fix(i) ==
  /\ i \in Swappable
  /\ status[i] = "pending" /\ received[i] = 0
  /\ exact'[i]
  /\ status'[i] = "pending" /\ price'[i] = price[i] /\ SameMoney(i)

\* The swap of an expired invoice succeeds.
Reopen(i) ==
  /\ i \in Swappable /\ exact[i]
  /\ status[i] = "expired"
  /\ status'[i] = "pending"
  /\ SameQuote(i) /\ SameMoney(i)

\* The subscription of a renewal is paused, or nobody quotes it in time.
Void(i) ==
  /\ i \in Voidable
  /\ status[i] # "none"
  /\ status'[i] = "expired"
  /\ SameQuote(i) /\ SameMoney(i)

Rest(i) == status'[i] = status[i] /\ SameQuote(i) /\ SameMoney(i)

Next ==
  \A i \in Invoices :
    \/ Open(i) \/ Quote(i) \/ Account(i) \/ Confirm(i) \/ Refund(i) \/ Expire(i)
    \/ Fix(i) \/ Reopen(i) \/ Void(i)
    \/ Rest(i)

Spec == Init /\ [][Next]_vars

=============================================================================
