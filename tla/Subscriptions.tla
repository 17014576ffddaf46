---------------------------- MODULE Subscriptions ----------------------------
(***************************************************************************)
(* One subscription and its renewal invoices (src/subscriptions), at the   *)
(* grain of SQL statements.  Five actors interleave:                       *)
(*  - "engine", process_renewals once an hour: pauses and cancels at the   *)
(*    end of the period, drafts the next invoice, applies paid ones and    *)
(*    marks what is unpaid past due;                                       *)
(*  - "scanner": confirms a detected invoice and renews at once;           *)
(*  - "payer", the payment page: turns a draft into a quote;               *)
(*  - "pause", "resume" and "cancel": the merchant's requests.             *)
(* Nearly every one of them reads the subscription in one statement and    *)
(* writes it in another.  Subscriptions do not touch each other's rows.    *)
(*                                                                         *)
(* The invoices are rows of InvoiceRow.  Every instant is kept relative to *)
(* the clock: sub.left is current_period_end - now.  Testnet's simulation  *)
(* endpoints, webhooks and the slippage of a payment (it pays the price or *)
(* is not made, PaymentScanner has the rest) are left out.                 *)
(*                                                                         *)
(* A definition whose comment starts with "Wrong" is a mistake that some   *)
(* property notices in place of the one it precedes.                       *)
(***************************************************************************)
EXTENDS InvoiceRow, FiniteSets

CONSTANTS
  Period,       \* ticks of a billing period
  Notice,       \* RENEWAL_NOTICE_DAYS, in ticks
  PassTTL,      \* ticks a pass of the engine may last
  MaxLate,      \* bound on the ticks past a period's end
  MaxInvoices,  \* bound on the renewal invoices drafted
  MaxCrashes,   \* bound on the restarts
  MaxRequests   \* bound on the merchant's requests

ASSUME PeriodAssumption ==
  /\ Period \in Nat \ {0}
  /\ Notice \in Nat
  /\ PassTTL \in Nat
  /\ MaxLate \in Nat

ASSUME SubscriptionBoundAssumption ==
  /\ MaxInvoices \in Nat
  /\ MaxCrashes \in Nat
  /\ MaxRequests \in Nat

Invoices == 1 .. MaxInvoices
Requests == {"pause", "resume", "cancel"}
Renewers == {"engine", "scanner"}
Tasks == Renewers \cup {"payer"} \cup Requests

\* The price of every renewal.
Price == 1

VARIABLES
  sub,       \* the row of `subscriptions`
  inv,       \* its invoices; 0 stands for a NULL current_invoice_id
  paid,      \* the invoices whose confirmed_at <= expires_at
  active,    \* prices.active
  pc,        \* pc[t] is where task t is
  seen,      \* seen[t] is the subscription as renewer t has read it
  at,        \* at[t] is the invoice task t works on
  age,       \* ticks since the engine computed its now_str
  renewals,  \* renewals[i] is how often i has bought a period
  crashes,
  requests

dbVars == <<sub, inv, paid, active>>
taskVars == <<pc, seen, at>>
countVars == <<renewals, crashes, requests>>
vars == <<dbVars, taskVars, age, countVars>>

SubStatuses == {"active", "paused", "past_due", "canceled"}

NewSub == [status |-> "active", pausing |-> FALSE, canceling |-> FALSE,
           left |-> Period, cur |-> 0]

\* A task that is idle remembers nothing.
Goto(t, label) == pc' = [pc EXCEPT ![t] = label]

Done(t) ==
  /\ Goto(t, "idle")
  /\ at' = [at EXCEPT ![t] = 0]

Forget(t) == seen' = [seen EXCEPT ![t] = NewSub]

Look(t, label) ==
  /\ Goto(t, label)
  /\ seen' = [seen EXCEPT ![t] = sub]

Init ==
  /\ sub = NewSub
  /\ inv = [i \in Invoices |-> NoRow]
  /\ paid = {}
  /\ active = TRUE
  /\ pc = [t \in Tasks |-> "idle"]
  /\ seen = [t \in Renewers |-> NewSub]
  /\ at = [t \in Tasks |-> 0]
  /\ age = 0
  /\ renewals = [i \in Invoices |-> 0]
  /\ crashes = 0
  /\ requests = 0

Status(i) == IF i = 0 THEN "none" ELSE inv[i].status

Scheduled(s) == s.pausing \/ s.canceling

-----------------------------------------------------------------------------
(* renew_from_confirmed_invoice, called by the scanner and by the engine.  *)

\* The subscriptions a payment of i may extend.
Renewable(s, i) ==
  /\ s.status \in {"active", "past_due"}
  /\ ~Scheduled(s)
  /\ s.cur = i

\* The invoice and the subscription are read ...
ReadRenewal(t) ==
  /\ pc[t] = "renew"
  /\ IF inv[at[t]].status = "confirmed" /\ at[t] \in paid /\ Renewable(sub, at[t])
     THEN Look(t, "apply") /\ at' = at
     ELSE Done(t) /\ Forget(t)
  /\ UNCHANGED <<dbVars, age, countVars>>

\* Wrong: the row is found by its id alone.
UnguardedRenewal(t) == TRUE

\* ... and one UPDATE extends the very period that was read, unless another
\* task has: the link to the invoice is gone after the first.
CanApply(t) ==
  /\ Renewable(sub, at[t])
  /\ sub.left = seen[t].left
  /\ inv[at[t]].status = "confirmed"

\* Wrong: the new period starts today.
RenewedFromToday(t) == Period

\* The new period starts where the old one ends, even when that is long past.
RenewedLeft(t) == seen[t].left + Period

ApplyRenewal(t) ==
  /\ pc[t] = "apply"
  /\ IF CanApply(t)
     THEN /\ sub' = [sub EXCEPT !.status = "active", !.left = RenewedLeft(t), !.cur = 0]
          /\ renewals' = [renewals EXCEPT ![at[t]] = @ + 1]
     ELSE UNCHANGED <<sub, renewals>>
  /\ Done(t)
  /\ Forget(t)
  /\ UNCHANGED <<inv, paid, active, age, crashes, requests>>

Renew(t) == ReadRenewal(t) \/ ApplyRenewal(t)

-----------------------------------------------------------------------------
(* The engine.  now_str is computed when a pass starts and is age old.     *)

Ended(s) == s.left + age <= 0

\* Parts 0 and 1 change every row that qualifies in one statement.
StartPass ==
  /\ pc["engine"] = "idle"
  /\ sub' = IF sub.status = "active" /\ sub.pausing /\ Ended(sub)
            THEN [sub EXCEPT !.status = "paused", !.pausing = FALSE]
            ELSE sub
  /\ Goto("engine", "cancel")
  /\ UNCHANGED <<inv, paid, active, seen, at, age, countVars>>

CancelAtEnd ==
  /\ pc["engine"] = "cancel"
  /\ sub' = IF sub.status = "active" /\ sub.canceling /\ Ended(sub)
            THEN [sub EXCEPT !.status = "canceled"]
            ELSE sub
  /\ Goto("engine", "due")
  /\ UNCHANGED <<inv, paid, active, seen, at, age, countVars>>

\* Part 2, with a threshold computed afresh.
ReadDue ==
  /\ pc["engine"] = "due"
  /\ IF sub.status = "active" /\ ~Scheduled(sub) /\ sub.left <= Notice
     THEN Look("engine", "look")
     ELSE Goto("engine", "ended") /\ seen' = seen
  /\ UNCHANGED <<dbVars, at, age, countVars>>

InProgress == {"draft", "pending", "underpaid", "detected", "confirmed"}

HasInvoice(s) == s \in InProgress

LookDue ==
  /\ pc["engine"] = "look"
  /\ Goto("engine", IF HasInvoice(Status(seen["engine"].cur)) THEN "ended" ELSE "price")
  /\ Forget("engine")
  /\ UNCHANGED <<dbVars, at, age, countVars>>

\* A subscription whose price is gone is past due whatever it has become since.
LosePrice ==
  /\ pc["engine"] = "price"
  /\ ~active
  /\ sub' = [sub EXCEPT !.status = "past_due"]
  /\ Goto("engine", "ended")
  /\ UNCHANGED <<inv, paid, active, seen, at, age, countVars>>

Unused(i) == inv[i].status = "none" /\ \A j \in Invoices : j < i => inv[j].status # "none"

\* create_draft_invoice; or it fails, or the merchant's key is not known.
Draft ==
  /\ pc["engine"] = "price"
  /\ active
  /\ \/ /\ \E i \in Invoices :
             /\ Unused(i)
             /\ inv' = [inv EXCEPT ![i] = Drafted]
             /\ at' = [at EXCEPT !["engine"] = i]
        /\ Goto("engine", "link")
     \/ Goto("engine", "ended") /\ UNCHANGED <<inv, at>>
  /\ UNCHANGED <<sub, paid, active, seen, age, countVars>>

\* The subscription may have changed since it was read: the link is not guarded.
LinkDraft ==
  /\ pc["engine"] = "link"
  /\ sub' = [sub EXCEPT !.cur = at["engine"]]
  /\ at' = [at EXCEPT !["engine"] = 0]
  /\ Goto("engine", "ended")
  /\ UNCHANGED <<inv, paid, active, seen, age, countVars>>

\* Wrong: only active subscriptions are looked at.
EndedActive(s) == s.status = "active" /\ ~Scheduled(s) /\ Ended(s)

\* The SELECT of parts 3 and 4.
EndedUnsettled(s) ==
  /\ \/ s.status = "active"
     \/ s.status = "past_due" /\ Status(s.cur) = "confirmed"
  /\ ~Scheduled(s)
  /\ Ended(s)

ReadEnded ==
  /\ pc["engine"] = "ended"
  /\ IF EndedUnsettled(sub)
     THEN Look("engine", "judge") /\ UNCHANGED <<at, age>>
     ELSE Done("engine") /\ Forget("engine") /\ age' = 0
  /\ UNCHANGED <<dbVars, countVars>>

\* A confirmed invoice is applied (or found to have come too late) ...
Judge ==
  /\ pc["engine"] = "judge"
  /\ LET i == seen["engine"].cur IN
     \/ /\ Status(i) = "confirmed"
        /\ at' = [at EXCEPT !["engine"] = i]
        /\ Goto("engine", "renew")
        /\ UNCHANGED <<seen, age>>
     \/ /\ Status(i) # "confirmed"
        /\ seen["engine"].status = "active"
        /\ Goto("engine", "overdue")
        /\ UNCHANGED <<at, seen, age>>
     \/ /\ Status(i) # "confirmed"
        /\ seen["engine"].status = "past_due"
        /\ Done("engine")
        /\ Forget("engine")
        /\ age' = 0
  /\ UNCHANGED <<dbVars, countVars>>

\* Wrong: the row is found by its id alone.
OverdueUnguarded(s) == TRUE

StillOverdue(s) == s.status = "active" /\ s.left = seen["engine"].left

\* ... and an active subscription without one is past due, unless a renewal
\* has moved its period meanwhile.
Overdue ==
  /\ pc["engine"] = "overdue"
  /\ IF StillOverdue(sub)
     THEN /\ sub' = [sub EXCEPT !.status = "past_due"]
          /\ Goto("engine", "drop")
          /\ UNCHANGED <<seen, at>>
     ELSE /\ sub' = sub
          /\ Done("engine")
          /\ Forget("engine")
  /\ UNCHANGED <<inv, paid, active, age, countVars>>

DroppedDraft(row) ==
  IF row.status = "draft" THEN [row EXCEPT !.status = "expired"] ELSE row

DropDraft ==
  /\ pc["engine"] = "drop"
  /\ LET i == seen["engine"].cur IN
       inv' = IF i = 0 THEN inv ELSE [inv EXCEPT ![i] = DroppedDraft(@)]
  /\ Done("engine")
  /\ Forget("engine")
  /\ UNCHANGED <<sub, paid, active, age, countVars>>

Engine ==
  \/ StartPass \/ CancelAtEnd
  \/ ReadDue \/ LookDue \/ LosePrice \/ Draft \/ LinkDraft
  \/ ReadEnded \/ Judge \/ Overdue \/ DropDraft
  \/ Renew("engine")

-----------------------------------------------------------------------------
(* The scanner and the payment page.                                       *)

\* The block task has the detected invoice in the view it works on ...
See(i) ==
  /\ pc["scanner"] = "idle"
  /\ inv[i].status = "detected"
  /\ InScannerView(inv[i])
  /\ Goto("scanner", "confirm")
  /\ at' = [at EXCEPT !["scanner"] = i]
  /\ UNCHANGED <<dbVars, seen, age, countVars>>

\* ... and confirms it if it is still detected, in time or not.
Confirm ==
  /\ pc["scanner"] = "confirm"
  /\ LET i == at["scanner"] IN
     IF inv[i].status = "detected"
     THEN /\ inv' = [inv EXCEPT ![i] = MarkedConfirmed(@)]
          /\ paid' = IF inv[i].left >= 0 THEN paid \cup {i} ELSE paid
          /\ Goto("scanner", "renew")
          /\ at' = at
     ELSE /\ Done("scanner")
          /\ UNCHANGED <<inv, paid>>
  /\ UNCHANGED <<sub, active, seen, age, countVars>>

\* The mempool task sees a payment.
Detect(i) ==
  /\ inv[i].status = "pending"
  /\ InScannerView(inv[i])
  /\ inv' = [inv EXCEPT ![i] = MarkedDetected(@, Price)]
  /\ UNCHANGED <<sub, paid, active, taskVars, age, countVars>>

\* The period guard of finalize_invoice.
Quotable(i) ==
  /\ sub.left > 0
  /\ sub.status = "active"
  /\ ~Scheduled(sub)
  /\ sub.cur = i

\* finalize_invoice reads the invoice and its subscription ...
ReadQuote(i) ==
  /\ pc["payer"] = "idle"
  /\ CanFinalize(inv[i])
  /\ Quotable(i)
  /\ Goto("payer", "quote")
  /\ at' = [at EXCEPT !["payer"] = i]
  /\ UNCHANGED <<dbVars, seen, age, countVars>>

\* ... and opens the quote if the invoice still allows it.
Quote ==
  /\ pc["payer"] = "quote"
  /\ LET i == at["payer"] IN inv' = [inv EXCEPT ![i] = Finalized(@, Price)]
  /\ Done("payer")
  /\ UNCHANGED <<sub, paid, active, seen, age, countVars>>

\* expire_old_invoices.
ExpireOld ==
  /\ inv' = [i \in Invoices |-> ExpiredIfOld(inv[i])]
  /\ inv' # inv
  /\ UNCHANGED <<sub, paid, active, taskVars, age, countVars>>

-----------------------------------------------------------------------------
(* The merchant.                                                           *)

Request(r) ==
  /\ pc[r] = "idle"
  /\ requests < MaxRequests
  /\ requests' = requests + 1
  /\ UNCHANGED <<dbVars, seen, age, renewals, crashes>>

\* pause_subscription.
AskPause ==
  /\ Request("pause")
  /\ sub.status = "active" /\ ~Scheduled(sub)
  /\ Goto("pause", IF sub.cur = 0 THEN "flag" ELSE "look")
  /\ at' = [at EXCEPT !["pause"] = sub.cur]

\* clear_pending_renewal_invoice reads the status of the linked invoice ...
LookPause ==
  /\ pc["pause"] = "look"
  /\ \/ /\ Status(at["pause"]) = "confirmed"
        /\ Done("pause")
     \/ /\ Status(at["pause"]) \in InProgress \ {"confirmed"}
        /\ Goto("pause", "void")
        /\ at' = at
     \/ /\ Status(at["pause"]) \notin InProgress
        /\ Goto("pause", "detach")
        /\ at' = at
  /\ UNCHANGED <<dbVars, seen, age, countVars>>

Voided(row) == [row EXCEPT !.status = "expired"]

\* ... voids it whatever its status is by now ...
VoidPause ==
  /\ pc["pause"] = "void"
  /\ inv' = [inv EXCEPT ![at["pause"]] = Voided(@)]
  /\ Goto("pause", "detach")
  /\ UNCHANGED <<sub, paid, active, seen, at, age, countVars>>

\* ... and detaches it.
DetachPause ==
  /\ pc["pause"] = "detach"
  /\ sub' = [sub EXCEPT !.cur = 0]
  /\ Goto("pause", "flag")
  /\ UNCHANGED <<inv, paid, active, seen, at, age, countVars>>

FlagPause ==
  /\ pc["pause"] = "flag"
  /\ sub' = [sub EXCEPT !.pausing = TRUE]
  /\ Done("pause")
  /\ UNCHANGED <<inv, paid, active, seen, age, countVars>>

Pause == AskPause \/ LookPause \/ VoidPause \/ DetachPause \/ FlagPause

\* resume_subscription: a paused one starts a fresh period ...
AskResume ==
  /\ Request("resume")
  /\ \/ sub.status = "paused" /\ active /\ Goto("resume", "fresh")
     \/ sub.status = "active" /\ sub.pausing /\ Goto("resume", "unflag")
  /\ at' = at

FreshPeriod ==
  /\ pc["resume"] = "fresh"
  /\ sub' = [sub EXCEPT !.status = "active", !.pausing = FALSE, !.left = Period, !.cur = 0]
  /\ Done("resume")
  /\ UNCHANGED <<inv, paid, active, seen, age, countVars>>

\* ... and a scheduled pause is taken back.
Unflag ==
  /\ pc["resume"] = "unflag"
  /\ sub' = [sub EXCEPT !.pausing = FALSE]
  /\ Done("resume")
  /\ UNCHANGED <<inv, paid, active, seen, age, countVars>>

Resume == AskResume \/ FreshPeriod \/ Unflag

\* cancel_subscription, now or at the end of the period.
AskCancel ==
  /\ Request("cancel")
  /\ sub.status # "canceled"
  /\ \/ Goto("cancel", "now")
     \/ Goto("cancel", "later")
  /\ at' = at

WriteCancel ==
  /\ pc["cancel"] \in {"now", "later"}
  /\ sub' = IF pc["cancel"] = "now" THEN [sub EXCEPT !.status = "canceled"]
                                    ELSE [sub EXCEPT !.canceling = TRUE]
  /\ Done("cancel")
  /\ UNCHANGED <<inv, paid, active, seen, age, countVars>>

Cancel == AskCancel \/ WriteCancel

\* mark_refunded, after the merchant has paid a payer back.
Refund(i) ==
  /\ inv[i].status = "confirmed"
  /\ inv' = [inv EXCEPT ![i] = MarkedRefunded(@)]
  /\ UNCHANGED <<sub, paid, active, taskVars, age, countVars>>

\* remove_price.
Deactivate ==
  /\ active
  /\ active' = FALSE
  /\ UNCHANGED <<sub, inv, paid, taskVars, age, countVars>>

-----------------------------------------------------------------------------
(* The clock and the process.                                              *)

Older(s) == [s EXCEPT !.left = @ - 1]

Tick ==
  /\ sub.left > -MaxLate
  /\ pc["engine"] = "idle" \/ age < PassTTL
  /\ sub' = Older(sub)
  /\ seen' = [t \in Renewers |-> IF pc[t] = "idle" THEN seen[t] ELSE Older(seen[t])]
  /\ inv' = [i \in Invoices |-> Aged(inv[i])]
  /\ age' = IF pc["engine"] = "idle" THEN 0 ELSE age + 1
  /\ UNCHANGED <<paid, active, pc, at, countVars>>

\* A restart; requests under way end with it.
Crash ==
  /\ crashes < MaxCrashes
  /\ crashes' = crashes + 1
  /\ pc' = [t \in Tasks |-> "idle"]
  /\ seen' = [t \in Renewers |-> NewSub]
  /\ at' = [t \in Tasks |-> 0]
  /\ age' = 0
  /\ UNCHANGED <<dbVars, renewals, requests>>

Scanner == Confirm \/ Renew("scanner") \/ \E i \in Invoices : See(i)

Next ==
  \/ Engine
  \/ Scanner
  \/ Quote
  \/ ExpireOld
  \/ Pause \/ Resume \/ Cancel
  \/ Deactivate
  \/ Tick
  \/ Crash
  \/ \E i \in Invoices : Detect(i) \/ ReadQuote(i) \/ Refund(i)

Spec == Init /\ [][Next]_vars

\* tokio runs the engine's timer and the scanner; nobody has to pay or ask.
FairSpec == Spec /\ WF_vars(Engine) /\ WF_vars(Scanner) /\ WF_vars(Tick)

-----------------------------------------------------------------------------
(* What must hold.                                                         *)

EngineLabels == {"idle", "cancel", "due", "look", "price", "link", "ended", "judge",
                 "renew", "apply", "overdue", "drop"}
ScannerLabels == {"idle", "confirm", "renew", "apply"}
PayerLabels == {"idle", "quote"}
PauseLabels == {"idle", "look", "void", "detach", "flag"}
ResumeLabels == {"idle", "fresh", "unflag"}
CancelLabels == {"idle", "now", "later"}
Labels == EngineLabels \cup ScannerLabels \cup PayerLabels
            \cup PauseLabels \cup ResumeLabels \cup CancelLabels

LabelsOK ==
  /\ pc \in [Tasks -> Labels]
  /\ pc["engine"] \in EngineLabels
  /\ pc["scanner"] \in ScannerLabels
  /\ pc["payer"] \in PayerLabels
  /\ pc["pause"] \in PauseLabels
  /\ pc["resume"] \in ResumeLabels
  /\ pc["cancel"] \in CancelLabels

\* The steps that have an invoice in hand.
Holding == {"link", "renew", "apply", "confirm", "quote", "void"}

PointersOK ==
  /\ at \in [Tasks -> 0 .. MaxInvoices]
  /\ \A t \in Tasks :
       pc[t] \in Holding => at[t] \in Invoices

Subscription == [status : SubStatuses, pausing : BOOLEAN, canceling : BOOLEAN,
                 left : Int, cur : 0 .. MaxInvoices]

\* The tables hold rows of their types, and every task is at one of its steps,
\* with an invoice in hand where it needs one.
TypeOK ==
  /\ sub \in Subscription
  /\ inv \in [Invoices -> Row]
  /\ paid \subseteq Invoices
  /\ active \in BOOLEAN
  /\ LabelsOK
  /\ PointersOK
  /\ seen \in [Renewers -> Subscription]
  /\ age \in Nat
  /\ renewals \in [Invoices -> Nat]
  /\ crashes \in Nat
  /\ requests \in Nat

\* A confirmed renewal is applied exactly once, though the scanner and the engine
\* may both be at it, and nothing but an invoice paid in time buys a period
\* (renew_from_confirmed_invoice).
RenewedOnce ==
  \A i \in Invoices : renewals[i] <= 1 /\ (renewals[i] = 1 => i \in paid)

\* What RenewedOnce rests on: an invoice that has bought a period is linked to
\* nothing, nor about to be, and only invoices paid in time are applied.
SpentUnlinked ==
  \A i \in Invoices : renewals[i] = 1 =>
    /\ sub.cur # i
    /\ inv[i].status # "none"
    /\ ~(pc["engine"] = "link" /\ at["engine"] = i)

LinkFresh ==
  pc["engine"] = "link" =>
    /\ sub.cur # at["engine"]
    /\ inv[at["engine"]].status # "none"

LinkedExists == sub.cur # 0 => inv[sub.cur].status # "none"

AppliedPaid == \A t \in Renewers : pc[t] = "apply" => at[t] \in paid

IInv == TypeOK /\ RenewedOnce /\ SpentUnlinked /\ LinkFresh /\ LinkedExists /\ AppliedPaid

\* A renewal adds one period to the time the subscription has when it is written,
\* never to an older reading of it and never from today (the WHERE clause on
\* current_period_end).
PeriodsAddUp == [][renewals' # renewals => sub'.left = sub.left + Period]_vars

\* The engine takes access away only from a subscription whose period is over at
\* that very moment, even if a payment moves the period while the engine is
\* looking at it; a subscription without a price is the exception.
OverdueOnlyWhenEnded ==
  [][sub.status = "active" /\ sub'.status = "past_due" =>
       sub.left <= 0 \/ ~active]_vars

\* An invoice confirmed in time, while it is the subscription's own, buys its
\* period in the end: if the restart that comes between the two keeps the scanner
\* from it, the engine does it, and even after it has marked the subscription
\* past due. Only the merchant (or an unguarded write of the engine) can undo the link.
PaidRenews ==
  \A i \in Invoices :
    inv[i].status = "confirmed" /\ i \in paid /\ Renewable(sub, i)
      ~> (renewals[i] = 1 \/ inv[i].status # "confirmed" \/ ~Renewable(sub, i))

\* clear_pending_renewal_invoice "Returns Err if the invoice is already confirmed":
\* a confirmed invoice stays so unless it is refunded.
ConfirmedKept ==
  [][\A i \in Invoices : inv[i].status = "confirmed" =>
       inv'[i].status \in {"confirmed", "refunded"}]_vars
=============================================================================
