--------------------------- MODULE LedgerPromise ---------------------------
(***************************************************************************)
(* What the fee ledger promises a merchant, with nothing of cycles, bills  *)
(* or schedules: a payment is charged at most once, at its own fee; what   *)
(* is marked collected only grows, never beyond the fee, and never beyond  *)
(* the receipts that back it.  One step may touch several payments (a      *)
(* settlement is spread over many).                                        *)
(***************************************************************************)
EXTENDS Integers

CONSTANTS
  Payments,
  Fee        \* [Payments -> Nat]

VARIABLES
  charged,   \* the payments with an entry in the ledger
  collected, \* collected[p], units marked collected for p
  received   \* received[p], units of receipts for p

vars == <<charged, collected, received>>

Init ==
  /\ charged = {}
  /\ collected = [p \in Payments |-> 0]
  /\ received = [p \in Payments |-> 0]

Backed(p) == collected'[p] <= Fee[p] /\ collected'[p] <= received'[p]

Advance(p) ==
  /\ received'[p] >= received[p]
  /\ collected'[p] >= collected[p]
  /\ Backed(p)
  /\ p \notin charged' => collected'[p] = 0

Next ==
  /\ charged \subseteq charged'
  /\ \A p \in Payments : Advance(p)

Spec == Init /\ [][Next]_vars

=============================================================================
