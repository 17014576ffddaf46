------------------------------- MODULE Billing -------------------------------
(***************************************************************************)
(* Usage fees of one merchant (src/billing): each confirmed payment enters *)
(* its fee in a ledger and adds it to the open billing cycle; a cycle that *)
(* ends is paid, carried over or turned into a settlement invoice, and a   *)
(* merchant who does not pay that is blocked.                              *)
(*                                                                         *)
(* Four actors interleave, statement by statement:                         *)
(*  - "scanner", the block task: on_invoice_confirmed makes sure there is  *)
(*    an open cycle and enters the fee; later it records direct receipts   *)
(*    (the fee output of a payment's own transaction);                     *)
(*  - "hourly", process_billing_cycles: closes ended cycles, then enforces *)
(*    overdue ones, then upgrades trust;                                   *)
(*  - the mempool task's check_settlement_payments: claims paid bills;     *)
(*  - the dashboard's billing_settle.                                      *)
(* Every table is keyed by merchant, so one merchant is enough.            *)
(*                                                                         *)
(* Abstractions: an amount is a small number of units; period_end and      *)
(* grace_until are ticks left, negative once past; a settlement invoice is *)
(* a bill that is paid in full before it expires or not at all, which is   *)
(* what an exact invoice of the scanner amounts to; total_fees and         *)
(* auto_collected, which only reports read, e-mails and discounts are left *)
(* out, and so are fees deferred by the cross-chain gateway.  The INSERT   *)
(* of a bill and the read before it are one step: nobody sees the bill     *)
(* before it is linked or returned.                                        *)
(*                                                                         *)
(* A definition whose comment starts with "Wrong" is a mistake that some   *)
(* property notices in place of the one it precedes.                       *)
(***************************************************************************)
EXTENDS Integers, FiniteSetsExt

CONSTANTS
  Payments,
  Fee,           \* [Payments -> Nat], the fee of a payment, in units
  Direct,        \* [Payments -> Nat], units of its direct fee output, 0 for none
  MinSettlement, \* MIN_SETTLEMENT_ZATOSHIS
  CycleTTL,      \* [Tiers -> Nat], ticks a cycle is open
  Grace,         \* [Tiers -> Nat], ticks from the bill to past due
  SuspendAfter,  \* [Tiers -> Nat], ticks from past due to suspension
  BillTTL,       \* ticks a settlement invoice can be paid
  MaxCycles,     \* bound on the cycles created
  MaxBills,      \* bound on the settlement invoices created
  Faults,        \* what may go wrong, a subset of FaultKinds
  NoPayment

FaultKinds == {"crash", "error"}

Tiers == {"new", "standard", "trusted"}

ASSUME FeeAssumption ==
  /\ Fee \in [Payments -> Nat \ {0}]
  /\ Direct \in [Payments -> Nat]
  /\ MinSettlement \in Nat \ {0}
  /\ NoPayment \notin Payments

ASSUME TimeAssumption ==
  /\ CycleTTL \in [Tiers -> Nat]
  /\ Grace \in [Tiers -> Nat]
  /\ SuspendAfter \in [Tiers -> Nat]
  /\ BillTTL \in Nat \ {0}

ASSUME BoundAssumption ==
  /\ MaxCycles \in Nat
  /\ MaxBills \in Nat
  /\ Faults \subseteq FaultKinds

Cycles == 1 .. MaxCycles
Bills == 1 .. MaxBills
Tasks == {"scanner", "hourly"}

VARIABLES
  (* The database *)
  cyc,       \* billing_cycles; the higher of two is the younger
  bill,      \* the settlement invoices
  merchant,  \* billing_status
  tier,      \* trust_tier
  entries,   \* number of rows in fee_ledger
  rank,      \* rank[p] is the place of p's entry in fee_ledger, 0 for none
  home,      \* home[p] is its billing_cycle_id, 0 for NULL
  collected, \* collected[p] is its collected_zatoshis
  received,  \* received[p] is SUM(units) of direct_fee_receipts for p
  paidBy,    \* paidBy[p] is the set of bills with a receipt for p
  (* The tasks *)
  pc,        \* pc[t] is where task t is
  pay,       \* the payment the scanner works on
  got,       \* the total of receipts it has read
  carry,     \* carry[t] is the carried cycles task t has summed
  batch,     \* the cycles the hourly task has read and has still to treat
  verdict,   \* the billing_status it is about to write
  claims,    \* the <<cycle, bill>> pairs the mempool task has read as settled
  settling,  \* the <<cycle, bill>> pairs of dashboard requests under way
  (* History *)
  confirmed, \* the payments whose side effects have been started
  direct,    \* the payments whose direct receipt is recorded
  lost,      \* units owed that a write based on an older read has dropped
  unspent    \* units of paid bills that found no entry to be put on

ledgerVars == <<entries, rank, home, collected, received, paidBy>>
dbVars == <<cyc, bill, merchant, tier, ledgerVars>>
scannerVars == <<pay, got>>
hourlyVars == <<batch, verdict>>
otherVars == <<claims, settling>>
historyVars == <<confirmed, direct, lost, unspent>>

vars == <<dbVars, pc, scannerVars, carry, hourlyVars, otherVars, historyVars>>

-----------------------------------------------------------------------------
(* Rows.                                                                   *)

CycleStatuses == {"none", "open", "paid", "carried_over", "invoiced",
                  "past_due", "suspended"}

\* The statuses in which a settlement can still be claimed.
Due == {"invoiced", "past_due", "suspended"}

NoCycle == [status |-> "none", owed |-> 0, bill |-> 0, left |-> 0]

NoBill == [status |-> "none", price |-> 0, left |-> 0]

\* What a task remembers of the cycles it has read.
Read(S) == {[c |-> c, owed |-> cyc[c].owed] : c \in S}

Owed(S) == SumFunctionOnSet([r \in S |-> r.owed], S)

WithStatus(s) == {c \in Cycles : cyc[c].status = s}

Ended(s) == {c \in WithStatus(s) : cyc[c].left < 0}

Fresh(rows, ids) ==
  {n \in ids : rows[n].status = "none" /\ \A m \in ids : m < n => rows[m].status # "none"}

Goto(t, label) == pc' = [pc EXCEPT ![t] = label]

Init ==
  /\ cyc = [c \in Cycles |-> NoCycle]
  /\ bill = [b \in Bills |-> NoBill]
  /\ merchant = "active"
  /\ tier = "new"
  /\ entries = 0
  /\ rank = [p \in Payments |-> 0]
  /\ home = [p \in Payments |-> 0]
  /\ collected = [p \in Payments |-> 0]
  /\ received = [p \in Payments |-> 0]
  /\ paidBy = [p \in Payments |-> {}]
  /\ pc = [t \in Tasks |-> "idle"]
  /\ pay = NoPayment
  /\ got = 0
  /\ carry = [t \in Tasks |-> {}]
  /\ batch = {}
  /\ verdict = "active"
  /\ claims = {}
  /\ settling = {}
  /\ confirmed = {}
  /\ direct = {}
  /\ lost = 0
  /\ unspent = 0

-----------------------------------------------------------------------------
(* ensure_billing_cycle, called by the scanner and by the hourly task: a   *)
(* SELECT, a SUM, an INSERT and an UPDATE with no transaction around them. *)

After(t) == IF t = "scanner" THEN "enter" ELSE "close"

FindOpen(t) ==
  /\ pc[t] = "find"
  /\ Goto(t, IF WithStatus("open") # {} THEN After(t) ELSE "sum")
  /\ UNCHANGED <<dbVars, scannerVars, carry, hourlyVars, otherVars, historyVars>>

SumCarried(t) ==
  /\ pc[t] = "sum"
  /\ carry' = [carry EXCEPT ![t] = Read(WithStatus("carried_over"))]
  /\ Goto(t, "insert")
  /\ UNCHANGED <<dbVars, scannerVars, hourlyVars, otherVars, historyVars>>

\* Wrong: the new cycle forgets what is carried into it.
OpenedEmpty(t) == 0

OpeningBalance(t) == Owed(carry[t])

InsertCycle(t) ==
  /\ pc[t] = "insert"
  /\ \E c \in Fresh(cyc, Cycles) :
       cyc' = [cyc EXCEPT ![c] = [status |-> "open", owed |-> OpeningBalance(t),
                                  bill |-> 0, left |-> CycleTTL[tier]]]
  /\ IF Owed(carry[t]) > 0
     THEN Goto(t, "zero") /\ carry' = carry
     ELSE Goto(t, After(t)) /\ carry' = [carry EXCEPT ![t] = {}]
  /\ UNCHANGED <<bill, merchant, tier, ledgerVars, scannerVars, hourlyVars,
                 otherVars, historyVars>>

\* What has been carried over since the SUM goes with the rest.
ZeroCarried(t) ==
  /\ pc[t] = "zero"
  /\ cyc' = [c \in Cycles |-> IF cyc[c].status = "carried_over"
                              THEN [cyc[c] EXCEPT !.owed = 0] ELSE cyc[c]]
  /\ lost' = lost + Owed({r \in Read(WithStatus("carried_over")) :
                            \A s \in carry[t] : s.c # r.c})
  /\ carry' = [carry EXCEPT ![t] = {}]
  /\ Goto(t, After(t))
  /\ UNCHANGED <<bill, merchant, tier, ledgerVars, scannerVars, hourlyVars,
                 otherVars, confirmed, direct, unspent>>

Ensure(t) == FindOpen(t) \/ SumCarried(t) \/ InsertCycle(t) \/ ZeroCarried(t)

-----------------------------------------------------------------------------
(* The scanner.                                                            *)

\* on_invoice_confirmed reaches the fee of a payment.
Confirm(p) ==
  /\ pc["scanner"] = "idle"
  /\ p \notin confirmed
  /\ confirmed' = confirmed \cup {p}
  /\ pay' = p
  /\ Goto("scanner", "find")
  /\ UNCHANGED <<dbVars, got, carry, hourlyVars, otherVars, direct, lost,
                 unspent>>

Youngest(S) == IF S = {} THEN 0 ELSE Max(S)

\* create_fee_entry: one transaction, at most one entry for a payment, in the
\* youngest open cycle or in none.
CreateEntry(p) ==
  /\ pc["scanner"] = "enter"
  /\ p = pay
  /\ IF rank[p] > 0
     THEN UNCHANGED <<cyc, entries, rank, home, lost>>
     ELSE LET c == Youngest(WithStatus("open")) IN
            /\ entries' = entries + 1
            /\ rank' = [rank EXCEPT ![p] = entries + 1]
            /\ home' = [home EXCEPT ![p] = c]
            /\ cyc' = IF c = 0 THEN cyc ELSE [cyc EXCEPT ![c].owed = @ + Fee[p]]
            /\ lost' = IF c = 0 THEN lost + Fee[p] ELSE lost
  /\ pay' = NoPayment
  /\ Goto("scanner", "idle")
  /\ UNCHANGED <<bill, merchant, tier, collected, received, paidBy, got, carry,
                 hourlyVars, otherVars, confirmed, direct, unspent>>

\* record_direct_receipt: the receipt is inserted ...
Receive(p) ==
  /\ pc["scanner"] = "idle"
  /\ p \in confirmed \ direct
  /\ Direct[p] > 0
  /\ received' = [received EXCEPT ![p] = @ + Direct[p]]
  /\ direct' = direct \cup {p}
  /\ pay' = p
  /\ Goto("scanner", "total")
  /\ UNCHANGED <<cyc, bill, merchant, tier, entries, rank, home, collected, paidBy,
                 got, carry, hourlyVars, otherVars, confirmed, lost, unspent>>

\* ... the receipts of the payment are summed ...
TotalReceipts(p) ==
  /\ pc["scanner"] = "total"
  /\ p = pay
  /\ got' = received[p]
  /\ Goto("scanner", "apply")
  /\ UNCHANGED <<dbVars, pay, carry, hourlyVars, otherVars, historyVars>>

AtMost(a, b) == IF a <= b THEN a ELSE b
AtLeast(a, b) == IF a >= b THEN a ELSE b

\* Wrong: every call adds the whole total again.
CollectedAgain(p, total) == collected[p] + total

\* Wrong: an older, smaller total undoes a later one.
CollectedFromTotal(p, total) == AtMost(total, Fee[p])

CollectedAfter(p, total) == AtLeast(AtMost(total, Fee[p]), collected[p])

OwedAfter(owed, paid) == AtLeast(0, owed - paid)

\* ... and apply_collected moves the entry and its cycle forward together.
ApplyCollected(p) ==
  /\ pc["scanner"] = "apply"
  /\ p = pay
  /\ IF rank[p] = 0
     THEN UNCHANGED <<cyc, collected>>
     ELSE LET now == CollectedAfter(p, got) IN
            /\ collected' = [collected EXCEPT ![p] = now]
            /\ cyc' = IF home[p] = 0 THEN cyc
                      ELSE [cyc EXCEPT ![home[p]].owed =
                              OwedAfter(@, now - collected[p])]
  /\ pay' = NoPayment
  /\ got' = 0
  /\ Goto("scanner", "idle")
  /\ UNCHANGED <<bill, merchant, tier, entries, rank, home, received, paidBy, carry,
                 hourlyVars, otherVars, historyVars>>

-----------------------------------------------------------------------------
(* process_billing_cycles.  Each part reads its cycles once and then       *)
(* updates them one by one, by id alone.                                   *)

ReadExpired ==
  /\ pc["hourly"] = "idle"
  /\ batch' = Read(Ended("open"))
  /\ Goto("hourly", "close")
  /\ UNCHANGED <<dbVars, scannerVars, carry, verdict, otherVars, historyVars>>

Closed(r, row) ==
  /\ pc["hourly"] = "close"
  /\ r \in batch
  /\ batch' = batch \ {r}
  /\ cyc' = [cyc EXCEPT ![r.c] = row]
  /\ Goto("hourly", "find")
  /\ UNCHANGED <<merchant, tier, ledgerVars, scannerVars, carry, verdict, otherVars,
                 confirmed, direct, unspent>>

ClosePaid(r) ==
  /\ r.owed <= 0
  /\ Closed(r, [cyc[r.c] EXCEPT !.status = "paid"])
  /\ lost' = lost + cyc[r.c].owed
  /\ bill' = bill

CarryOver(r) ==
  /\ r.owed \in 1 .. MinSettlement - 1
  /\ Closed(r, [cyc[r.c] EXCEPT !.status = "carried_over"])
  /\ UNCHANGED <<bill, lost>>

NewBill(b, price) ==
  bill' = [bill EXCEPT ![b] = [status |-> "pending", price |-> price, left |-> BillTTL]]

Invoice(r) ==
  /\ r.owed >= MinSettlement
  /\ \E b \in Fresh(bill, Bills) :
       /\ NewBill(b, r.owed)
       /\ Closed(r, [cyc[r.c] EXCEPT !.status = "invoiced", !.bill = b,
                                     !.left = Grace[tier]])
  /\ lost' = lost

ReadOverdue ==
  /\ pc["hourly"] = "close"
  /\ batch = {}
  /\ batch' = Read(Ended("invoiced"))
  /\ Goto("hourly", "overdue")
  /\ UNCHANGED <<dbVars, scannerVars, carry, verdict, otherVars, historyVars>>

\* The cycle is updated ...
Overdue(r) ==
  /\ pc["hourly"] = "overdue"
  /\ r \in batch
  /\ batch' = batch \ {r}
  /\ LET small == r.owed < MinSettlement IN
       /\ cyc' = [cyc EXCEPT ![r.c].status =
                    IF small THEN "carried_over" ELSE "past_due"]
       /\ verdict' = IF small THEN "active" ELSE "past_due"
  /\ Goto("hourly", "judge_overdue")
  /\ UNCHANGED <<bill, merchant, tier, ledgerVars, scannerVars, carry, otherVars,
                 historyVars>>

ReadPastDue ==
  /\ pc["hourly"] = "overdue"
  /\ batch = {}
  /\ batch' = Read({c \in WithStatus("past_due") :
                      cyc[c].left < -SuspendAfter[tier]})
  /\ Goto("hourly", "suspend")
  /\ UNCHANGED <<dbVars, scannerVars, carry, verdict, otherVars, historyVars>>

Suspend(r) ==
  /\ pc["hourly"] = "suspend"
  /\ r \in batch
  /\ batch' = batch \ {r}
  /\ cyc' = [cyc EXCEPT ![r.c].status = "suspended"]
  /\ verdict' = "suspended"
  /\ Goto("hourly", "judge_past_due")
  /\ UNCHANGED <<bill, merchant, tier, ledgerVars, scannerVars, carry, otherVars,
                 historyVars>>

\* ... and only then the merchant.
Judge ==
  /\ pc["hourly"] \in {"judge_overdue", "judge_past_due"}
  /\ merchant' = verdict
  /\ verdict' = "active"
  /\ Goto("hourly", IF pc["hourly"] = "judge_overdue" THEN "overdue" ELSE "suspend")
  /\ UNCHANGED <<cyc, bill, tier, ledgerVars, scannerVars, carry, batch, otherVars,
                 historyVars>>

\* The three youngest cycles, the open one included, are paid or carried over
\* and none is late (the 90 days it looks back are longer than an instance).
Deserves ==
  LET made == {c \in Cycles : cyc[c].status # "none"}
      last3 == {c \in made : Cardinality({d \in made : d > c}) < 3}
  IN  /\ Cardinality(last3) = 3
      /\ \A c \in last3 : cyc[c].status \in {"paid", "carried_over"}
      /\ \A c \in made : cyc[c].status \notin {"past_due", "suspended"}

UpgradeTier ==
  /\ pc["hourly"] = "suspend"
  /\ batch = {}
  /\ tier' = IF ~Deserves THEN tier
             ELSE IF tier = "new" THEN "standard" ELSE "trusted"
  /\ Goto("hourly", "idle")
  /\ UNCHANGED <<cyc, bill, merchant, ledgerVars, scannerVars, carry, hourlyVars,
                 otherVars, historyVars>>

-----------------------------------------------------------------------------
(* check_settlement_payments.                                              *)

\* Wrong: only merchants who pay in time are looked at.
SettledInTime ==
  {x \in Cycles \X Bills : /\ cyc[x[1]].status = "invoiced"
                           /\ cyc[x[1]].bill = x[2]
                           /\ bill[x[2]].status = "confirmed"}

Settled ==
  {x \in Cycles \X Bills : /\ cyc[x[1]].status \in Due
                           /\ cyc[x[1]].bill = x[2]
                           /\ bill[x[2]].status = "confirmed"}

ReadSettled ==
  /\ claims = {}
  /\ claims' = Settled
  /\ claims' # {}
  /\ UNCHANGED <<dbVars, pc, scannerVars, carry, hourlyVars, settling, historyVars>>

Left == [p \in Payments |-> Fee[p] - collected[p]]

\* The entries a settlement of c pays: those of the cycle, and those of every
\* cycle that has been carried over.
Payable(c) ==
  {p \in Payments :
     /\ rank[p] > 0
     /\ Left[p] > 0
     /\ home[p] # 0
     /\ home[p] = c \/ cyc[home[p]].status = "carried_over"}

\* What a settlement may take off an entry.
Units == UNION {0 .. Fee[p] : p \in Payments}

\* The budget goes to the oldest entries first, until it is spent.
Spread(units, S, budget) ==
  /\ \A p \in Payments : units[p] <= (IF p \in S THEN Left[p] ELSE 0)
  /\ \A p, q \in S : rank[p] < rank[q] /\ units[q] > 0 => units[p] = Left[p]
  /\ SumFunctionOnSet(units, S) = AtMost(budget, SumFunctionOnSet(Left, S))

\* One transaction.  A receipt that exists already fails it, and with it the
\* rest of the claims.
Claim(c, b) ==
  /\ <<c, b>> \in claims
  /\ IF cyc[c].status \notin Due
     THEN /\ claims' = claims \ {<<c, b>>}
          /\ UNCHANGED <<cyc, merchant, collected, received, paidBy, lost,
                         unspent>>
     ELSE \E units \in [Payments -> Units] :
       /\ Spread(units, Payable(c), bill[b].price)
       /\ LET paid == {p \in Payments : units[p] > 0} IN
          IF \E p \in paid : b \in paidBy[p]
          THEN /\ claims' = {}
               /\ UNCHANGED <<cyc, merchant, collected, received, paidBy, lost,
                              unspent>>
          ELSE /\ claims' = claims \ {<<c, b>>}
               /\ cyc' = [cyc EXCEPT ![c].status = "paid", ![c].owed = 0]
               /\ merchant' = "active"
               /\ collected' = [p \in Payments |-> collected[p] + units[p]]
               /\ received' = [p \in Payments |-> received[p] + units[p]]
               /\ paidBy' = [p \in Payments |->
                    IF p \in paid THEN paidBy[p] \cup {b} ELSE paidBy[p]]
               /\ lost' = lost + AtLeast(0, cyc[c].owed - bill[b].price)
               /\ unspent' = unspent + AtLeast(0, bill[b].price
                                - SumFunctionOnSet(Left, Payable(c)))
  /\ UNCHANGED <<bill, tier, entries, rank, home, pc, scannerVars, carry, hourlyVars,
                 settling, confirmed, direct>>

-----------------------------------------------------------------------------
(* The merchant.                                                           *)

\* billing_settle bills the youngest cycle that is open or invoiced ...
Settleable ==
  LET S == WithStatus("open") \cup WithStatus("invoiced") IN
    {c \in S : c = Max(S) /\ cyc[c].owed >= MinSettlement}

Settle ==
  /\ settling = {}
  /\ \E c \in Settleable : \E b \in Fresh(bill, Bills) :
       /\ NewBill(b, cyc[c].owed)
       /\ settling' = {<<c, b>>}
  /\ UNCHANGED <<cyc, merchant, tier, ledgerVars, pc, scannerVars, carry,
                 hourlyVars, claims, historyVars>>

\* ... and links the bill to it if it is still open; if not, nothing ever looks
\* at that bill again.
Link(c, b) ==
  /\ <<c, b>> \in settling
  /\ settling' = {}
  /\ cyc' = IF cyc[c].status = "open"
            THEN [cyc EXCEPT ![c].status = "invoiced", ![c].bill = b,
                             ![c].left = Grace["new"]]
            ELSE cyc
  /\ UNCHANGED <<bill, merchant, tier, ledgerVars, pc, scannerVars, carry,
                 hourlyVars, claims, historyVars>>

Payable7Days(b) == bill[b].status = "pending" /\ bill[b].left > 0

PayBill(b) ==
  /\ Payable7Days(b)
  /\ \A x \in settling : x[2] # b
  /\ bill' = [bill EXCEPT ![b].status = "confirmed", ![b].left = 0]
  /\ UNCHANGED <<cyc, merchant, tier, ledgerVars, pc, scannerVars, carry,
                 hourlyVars, otherVars, historyVars>>

-----------------------------------------------------------------------------
(* The clock and faults.                                                   *)

Oldest(s) == IF s = "past_due" THEN -1 - SuspendAfter["trusted"] ELSE -1

Tick ==
  /\ cyc' = [c \in Cycles |->
       IF /\ cyc[c].status \in {"open", "invoiced", "past_due"}
          /\ cyc[c].left > Oldest(cyc[c].status)
       THEN [cyc[c] EXCEPT !.left = @ - 1] ELSE cyc[c]]
  /\ bill' = [b \in Bills |->
       IF Payable7Days(b) THEN [bill[b] EXCEPT !.left = @ - 1] ELSE bill[b]]
  /\ UNCHANGED <<merchant, tier, ledgerVars, pc, scannerVars, carry, hourlyVars,
                 otherVars, historyVars>>

\* A statement fails.  on_invoice_confirmed logs it and goes on; the hourly task
\* gives up until the next hour.
FailScanner ==
  /\ "error" \in Faults
  /\ pc["scanner"] # "idle"
  /\ carry' = [carry EXCEPT !["scanner"] = {}]
  /\ got' = 0
  /\ IF pc["scanner"] \in {"find", "sum", "insert", "zero"}
     THEN Goto("scanner", "enter") /\ pay' = pay
     ELSE Goto("scanner", "idle") /\ pay' = NoPayment
  /\ UNCHANGED <<dbVars, hourlyVars, otherVars, historyVars>>

FailHourly ==
  /\ "error" \in Faults
  /\ pc["hourly"] # "idle"
  /\ carry' = [carry EXCEPT !["hourly"] = {}]
  /\ batch' = {}
  /\ verdict' = "active"
  /\ Goto("hourly", "idle")
  /\ UNCHANGED <<dbVars, scannerVars, otherVars, historyVars>>

Crash ==
  /\ "crash" \in Faults
  /\ pc' = [t \in Tasks |-> "idle"]
  /\ pay' = NoPayment
  /\ got' = 0
  /\ carry' = [t \in Tasks |-> {}]
  /\ batch' = {}
  /\ verdict' = "active"
  /\ claims' = {}
  /\ settling' = {}
  /\ UNCHANGED <<dbVars, historyVars>>

-----------------------------------------------------------------------------
Scanner ==
  \/ Ensure("scanner")
  \/ \E p \in Payments :
       Confirm(p) \/ CreateEntry(p) \/ Receive(p) \/ TotalReceipts(p)
         \/ ApplyCollected(p)

Hourly ==
  \/ Ensure("hourly")
  \/ ReadExpired
  \/ \E r \in batch :
       ClosePaid(r) \/ CarryOver(r) \/ Invoice(r) \/ Overdue(r) \/ Suspend(r)
  \/ ReadOverdue
  \/ ReadPastDue
  \/ Judge
  \/ UpgradeTier

Mempool ==
  \/ ReadSettled
  \/ \E c \in Cycles, b \in Bills : Claim(c, b)

Merchant ==
  \/ Settle
  \/ \E c \in Cycles, b \in Bills : Link(c, b)
  \/ \E b \in Bills : PayBill(b)

Next ==
  \/ Scanner
  \/ Hourly
  \/ Mempool
  \/ Merchant
  \/ Tick
  \/ FailScanner
  \/ FailHourly
  \/ Crash

Spec == Init /\ [][Next]_vars

-----------------------------------------------------------------------------
(* Type invariant.                                                         *)

CycleRow == [status : CycleStatuses, owed : Nat, bill : {0} \cup Bills, left : Int]

BillRow == [status : {"none", "pending", "confirmed"}, price : Nat, left : Nat]

Snapshot == [c : Cycles, owed : Nat]

Labels == {"idle", "find", "sum", "insert", "zero", "enter", "total", "apply",
           "close", "overdue", "judge_overdue", "suspend", "judge_past_due"}

TypeOK ==
  /\ cyc \in [Cycles -> CycleRow]
  /\ bill \in [Bills -> BillRow]
  /\ merchant \in {"active", "past_due", "suspended"}
  /\ tier \in Tiers
  /\ entries \in Nat
  /\ rank \in [Payments -> Nat]
  /\ home \in [Payments -> {0} \cup Cycles]
  /\ collected \in [Payments -> Nat]
  /\ received \in [Payments -> Nat]
  /\ paidBy \in [Payments -> SUBSET Bills]
  /\ pc \in [Tasks -> Labels]
  /\ pay \in Payments \cup {NoPayment}
  /\ got \in Nat
  /\ carry \in [Tasks -> SUBSET Snapshot]
  /\ batch \subseteq Snapshot
  /\ verdict \in {"active", "past_due", "suspended"}
  /\ claims \subseteq Cycles \X Bills
  /\ settling \subseteq Cycles \X Bills
  /\ confirmed \subseteq Payments
  /\ direct \subseteq Payments
  /\ lost \in Nat
  /\ unspent \in Nat

-----------------------------------------------------------------------------
(* Safety.                                                                 *)

Charged == {p \in Payments : rank[p] > 0}

\* Nothing is marked collected beyond its fee, nor without receipts to back it,
\* however direct receipts, settlements and stale totals interleave.
LedgerBacked ==
  \A p \in Payments :
    /\ collected[p] <= Fee[p]
    /\ collected[p] <= received[p]
    /\ rank[p] = 0 => collected[p] = 0

\* What each cycle asks for.
Asked == [c \in Cycles |-> cyc[c].owed]

\* What the ledger still wants is asked for by some cycle, or has been paid by
\* a bill that spent it on nothing, except for what a write based on an older
\* read has dropped: a fee entered while its cycle is being closed or billed, a
\* cycle carried over while another is being summed, and a fee entered when no
\* cycle is open.  Carrying over, billing, claiming, enforcing and collecting
\* forget nothing else.  (A bill that is claimed pays the oldest entries of
\* every cycle that was carried over, also into the bill of another cycle;
\* that other bill then has units to spare, and its claim drops them.)
NothingForgotten ==
  SumFunctionOnSet(Left, Charged)
    <= SumFunctionOnSet(Asked, Cycles \ WithStatus("paid")) + lost + unspent

Blocked == merchant \in {"past_due", "suspended"}

\* A merchant who is blocked has a way back: a bill that can still be paid, or
\* has been, for a cycle that is due, or a cycle to bill.
DebtCanBePaid ==
  Blocked =>
    \/ \E c \in Cycles :
         /\ cyc[c].status \in Due
         /\ \/ bill[cyc[c].bill].status = "confirmed"
            \/ Payable7Days(cyc[c].bill)
    \/ settling # {} \/ Settleable # {}

-----------------------------------------------------------------------------
(* The inductive strengthening of NothingForgotten.                        *)

OneEach(S) == \A r, s \in S : r.c = s.c => r = s

\* What a task has read may be old: the hourly task treats no cycle twice, nor
\* one that is carried over, and a carried balance only shrinks.
ReadsOK ==
  /\ OneEach(batch)
  /\ \A r \in batch : cyc[r.c].status # "carried_over"
  /\ \A t \in Tasks :
       /\ OneEach(carry[t]) /\ IsFiniteSet(carry[t])
       /\ \A r \in carry[t] : /\ cyc[r.c].status = "carried_over"
                              /\ cyc[r.c].owed <= r.owed

\* The cycles whose balance is in a new cycle already, and not yet zeroed.
Moved == {c \in Cycles : \E t \in Tasks :
            pc[t] = "zero" /\ \E r \in carry[t] : r.c = c}

\* NothingForgotten alone is not inductive: a balance on its way counts once.
BookInv ==
  /\ ReadsOK
  /\ \A c \in Cycles : cyc[c].status = "none" => cyc[c].owed = 0
  /\ IsFiniteSet(Charged)
  /\ SumFunctionOnSet(Left, Charged)
       <= SumFunctionOnSet(Asked, (Cycles \ WithStatus("paid")) \ Moved)
            + lost + unspent

-----------------------------------------------------------------------------
(* Liveness.                                                               *)

Fairness == WF_vars(Mempool)

\* A process that is killed for ever before a pass ends settles nothing.
FairSpec == Spec /\ Fairness /\ <>[][~Crash]_vars

Waiting(c) == cyc[c].status \in Due /\ bill[cyc[c].bill].status = "confirmed"

\* No paid bill waits for ever: again and again the mempool task has settled
\* every cycle whose bill is paid, and the others are still to be paid.
PaidBillsSettle == (\E c \in Cycles : Waiting(c)) ~> (\A c \in Cycles : ~Waiting(c))

-----------------------------------------------------------------------------
(* The ledger keeps its promise.                                           *)

Promise == INSTANCE LedgerPromise WITH charged <- Charged

KeepsPromise == Promise!Spec

=============================================================================
