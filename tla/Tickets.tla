------------------------------ MODULE Tickets ------------------------------
(***************************************************************************)
(* What a paid invoice delivers: a place in a tier of limited capacity and *)
(* the ticket that admits its holder once, or a registration at Luma.      *)
(*                                                                         *)
(* One product of one merchant, with its price tiers.  It is a plain       *)
(* product, the product behind a private event (CipherPay issues the       *)
(* tickets) or the product behind an event imported from Luma (the buyer   *)
(* is registered there).  Buyers reach it through POST /checkout and       *)
(* through payment links; the merchant edits, scans, voids and cancels;    *)
(* the block scanner confirms invoices and runs on_invoice_confirmed; the  *)
(* Luma retry worker, the event sweep and the purge run beside it.         *)
(*                                                                         *)
(* What is simplified.  How a payment becomes a confirmation is            *)
(* PaymentScanner's subject: here one step takes a pending invoice to      *)
(* confirmed.  The donation, subscription and fee parts of                 *)
(* on_invoice_confirmed are in Campaigns, Subscriptions and Billing.       *)
(* Prices, names, currencies, the rate lookup and the billing block only   *)
(* refuse a call and are left out.  A date compared with now               *)
(* (luma_retry_at, the ages of the purge) may have passed or not whenever  *)
(* it is read.                                                             *)
(***************************************************************************)
EXTENDS Naturals, FiniteSets

CONSTANTS
  Kinds,        \* kinds of product explored: "plain", "private", "luma"
  Tiers,        \* ids of prices of the product
  Listings,     \* bound: the tiers an event is created with
  Caps,         \* values of max_quantity; Unlimited stands for NULL
  Unlimited,
  MaxInvoices,  \* bound: invoices ever created
  Buyers,       \* concurrent checkout calls
  Callers,      \* bound: which checkout calls are made, by kind
  Managers,     \* concurrent dashboard calls that take several statements
  MaxRetries,   \* MAX_LUMA_RETRIES
  MaxEdits,     \* bound: dashboard calls and syncs, by kind
  MaxRequotes,  \* bound: expired invoices quoted again, by kind
  MaxRestarts,  \* bound: restarts of the process
  MaxFaults,    \* bound: statements that fail
  None

Invs == 1..MaxInvoices
Tasks == {"block", "retry"}

ASSUME KindsAssumption == Kinds \subseteq {"plain", "private", "luma"}
ASSUME ListingsAssumption == Listings \subseteq SUBSET Tiers \ {{}}
ASSUME CapsAssumption ==
  /\ Caps \subseteq Nat \ {0} /\ Unlimited \in Nat
  /\ Unlimited > MaxInvoices
ASSUME NumbersAssumption ==
  /\ MaxInvoices \in Nat /\ MaxRetries \in Nat \ {0}
  /\ MaxRestarts \in Nat /\ MaxFaults \in Nat
  /\ MaxEdits \in [Kinds \cup {"importing"} -> Nat]
  /\ MaxRequotes \in [Kinds \cup {"importing"} -> Nat]
  /\ Callers \in [Kinds \cup {"importing"} -> SUBSET Buyers]
ASSUME NoneAssumption == None \notin Tiers \cup Invs

VARIABLES
  product,   \* [kind, there, active, default]: products and its events row
  event,     \* [status, over]: events; over when event_date is in the past
  price,     \* prices: [status, cap] by tier
  inv,       \* invoices
  ticket,    \* tickets by invoice
  call,      \* checkout calls
  mgr,       \* dashboard calls
  task,      \* the block scanner's and the retry worker's place
  edits, restarts, faults, requotes,
  handed,    \* history: invoices whose confirmation had an outcome
  cut,       \* history: invoices whose confirmation a restart interrupted
  failed,    \* history: invoices whose confirmation met a failing statement
  admitted,  \* history: how often each invoice's ticket was answered valid
  requoted,  \* history: invoices of each tier quoted again after expiring
  capmax     \* history: the largest capacity each tier has had

shop == <<product, event, price>>
bounds == <<edits, restarts, faults, requotes>>
history == <<handed, cut, failed, admitted, requoted, capmax>>
vars == <<shop, inv, ticket, call, mgr, task, bounds, history>>

Idle == [pc |-> "idle"]

\* A statement fails.
Fault == faults < MaxFaults /\ faults' = faults + 1

NoInv == [status |-> "none", tier |-> None, att |-> FALSE, reg |-> "none",
          tries |-> 0]

IsEvent == product.there /\ product.kind \in {"private", "importing", "luma"}
IsLuma == product.there /\ product.kind = "luma"

----------------------------------------------------------------------------
(* Places in a tier *)

OfTier(t) == {i \in Invs : inv[i].status # "none" /\ inv[i].tier = t}

\* What create_invoice counts against max_quantity.
Held(t) == Cardinality({i \in OfTier(t) : inv[i].status # "expired"})

\* What the checkout handler counts: tickets, or invoices for Luma.
Sold(t) ==
  IF IsLuma
  THEN Cardinality({i \in OfTier(t) : inv[i].status \notin {"expired", "refunded"}})
  ELSE Cardinality({i \in OfTier(t) : ticket[i] \in {"valid", "used"}})

\* Wrong: the guard only looks at what is paid
RoomWhenUnpaid(t) ==
  Cardinality({i \in OfTier(t) : inv[i].status = "confirmed"}) < price[t].cap

\* The WHERE of the guarded INSERT; no row of prices, no insert.
Room(t) == price[t].status # "absent" /\ Held(t) < price[t].cap

OnSale(t) == product.active /\ price[t].status = "active"

----------------------------------------------------------------------------
(* Buying *)

Arrives(b) ==
  /\ product.there /\ b \in Callers[product.kind]
  /\ call[b].pc = "idle"

\* POST /checkout up to create_invoice, with a price or with the product's
\* default price.
CheckoutRead(b) ==
  /\ Arrives(b)
  /\ \E t \in Tiers :
       /\ OnSale(t)
       /\ Sold(t) < price[t].cap
       /\ IsEvent => event.status = "active" /\ ~event.over
       /\ call' = [call EXCEPT ![b] = [pc |-> "insert", tier |-> t, luma |-> IsLuma]]
  /\ UNCHANGED <<shop, inv, ticket, mgr, task, bounds, history>>

\* The same call when it finds the date in the past: it refuses, and spawns
\* the updates of the event and, in a second statement, of the product.
CheckoutFindsOver(b) ==
  /\ Arrives(b)
  /\ IsEvent /\ event.status = "active" /\ event.over
  /\ \E t \in Tiers : OnSale(t) /\ Sold(t) < price[t].cap
  /\ event' = [event EXCEPT !.status = "past"]
  /\ call' = [call EXCEPT ![b] = [pc |-> "hide"]]
  /\ UNCHANGED <<product, price, inv, ticket, mgr, task, bounds, history>>

CheckoutHides(b) ==
  /\ call[b].pc = "hide"
  /\ product' = [product EXCEPT !.active = FALSE]
  /\ call' = [call EXCEPT ![b] = Idle]
  /\ UNCHANGED <<event, price, inv, ticket, mgr, task, bounds, history>>

\* POST /payment-links/{slug}/resolve: the link's price and product only.
LinkRead(b) ==
  /\ Arrives(b)
  /\ \E t \in Tiers :
       /\ OnSale(t)
       /\ call' = [call EXCEPT ![b] = [pc |-> "insert", tier |-> t, luma |-> FALSE]]
  /\ UNCHANGED <<shop, inv, ticket, mgr, task, bounds, history>>

FreshInvs == {i \in Invs : inv[i].status = "none"}

\* The guarded INSERT of create_invoice.
CreateInvoice(b) ==
  /\ call[b].pc = "insert"
  /\ \E i \in FreshInvs :
       /\ \A j \in FreshInvs : i <= j
       /\ \/ /\ Room(call[b].tier)
             /\ inv' = [inv EXCEPT ![i] =
                  [NoInv EXCEPT !.status = "pending", !.tier = call[b].tier]]
             /\ call' = [call EXCEPT ![b] =
                  IF call[b].luma THEN [pc |-> "attendee", inv |-> i] ELSE Idle]
          \/ /\ ~Room(call[b].tier)
             /\ call' = [call EXCEPT ![b] = Idle]
             /\ UNCHANGED inv
  /\ UNCHANGED <<shop, ticket, mgr, task, bounds, history>>

\* The attendee's name and address, stored after the invoice.
StoreAttendee(b) ==
  /\ call[b].pc = "attendee"
  /\ inv' = [inv EXCEPT ![call[b].inv].att = TRUE,
                        ![call[b].inv].reg = "pending"]
  /\ call' = [call EXCEPT ![b] = Idle]
  /\ UNCHANGED <<shop, ticket, mgr, task, bounds, history>>

\* The answer does not depend on it: the invoice is shown without it.
StoreFails(b) ==
  /\ call[b].pc = "attendee" /\ Fault
  /\ call' = [call EXCEPT ![b] = Idle]
  /\ UNCHANGED <<shop, inv, ticket, mgr, task, edits, restarts, requotes, history>>

\* The buyer has the address only when the call has answered.
Shown(i) == \A b \in Buyers : call[b].pc = "attendee" => call[b].inv # i

Expire(i) ==
  /\ inv[i].status = "pending"
  /\ inv' = [inv EXCEPT ![i].status = "expired"]
  /\ UNCHANGED <<shop, ticket, call, mgr, task, bounds, history>>

\* POST /invoices/{id}/finalize on an expired invoice that received nothing.
Finalize(i) ==
  /\ inv[i].status = "expired"
  /\ requotes < MaxRequotes[product.kind]
  /\ requotes' = requotes + 1
  /\ inv' = [inv EXCEPT ![i].status = "pending"]
  /\ requoted' = [requoted EXCEPT ![inv[i].tier] = @ + 1]
  /\ UNCHANGED <<shop, ticket, call, mgr, task, edits, restarts, faults,
                 handed, cut, failed, admitted, capmax>>

Refund(i) ==
  /\ inv[i].status = "confirmed"
  /\ inv' = [inv EXCEPT ![i].status = "refunded"]
  /\ UNCHANGED <<shop, ticket, call, mgr, task, bounds, history>>

----------------------------------------------------------------------------
(* After the payment: on_invoice_confirmed and the Luma retry worker *)

\* mark_confirmed succeeds; the same task then runs on_invoice_confirmed.
Confirm(i) ==
  /\ task["block"].pc = "idle"
  /\ inv[i].status = "pending" /\ Shown(i)
  /\ inv' = [inv EXCEPT ![i].status = "confirmed"]
  /\ task' = [task EXCEPT !["block"] = [pc |-> "effects", inv |-> i, todo |-> {}]]
  /\ UNCHANGED <<shop, ticket, call, mgr, bounds, history>>

\* INSERT OR IGNORE INTO tickets
CreateTicket(i) ==
  ticket' = IF ticket[i] = "none" THEN [ticket EXCEPT ![i] = "valid"] ELSE ticket

\* Wrong: only an event that is still on gets its tickets
EventIsActive == IsEvent /\ event.status = "active"

\* is_product_backed_by_event: an events row, whatever its status
BackedByEvent == IsEvent

\* (Not being able to read the new ticket back loses the webhook only.)
Effects ==
  /\ task["block"].pc = "effects"
  /\ LET i == task["block"].inv
     IN \/ /\ ~BackedByEvent
           /\ task' = [task EXCEPT !["block"] = Idle]
           /\ UNCHANGED <<ticket, handed>>
        \/ /\ BackedByEvent /\ IsLuma
           /\ task' = [task EXCEPT !["block"].pc = "guest"]
           /\ UNCHANGED <<ticket, handed>>
        \/ /\ BackedByEvent /\ ~IsLuma
           /\ CreateTicket(i)
           /\ handed' = handed \cup {i}
           /\ task' = [task EXCEPT !["block"] = Idle]
  /\ UNCHANGED <<shop, inv, call, mgr, bounds, cut, failed, admitted, requoted, capmax>>

\* A statement of it fails: the lookup of the product or the INSERT, and
\* nothing is done; or the lookup of the Luma ids, which is then taken for
\* none, and the buyer gets a ticket that nobody at Luma knows.
EffectsFail ==
  /\ task["block"].pc = "effects" /\ IsEvent /\ Fault
  /\ UNCHANGED ticket \/ (IsLuma /\ CreateTicket(task["block"].inv))
  /\ failed' = failed \cup {task["block"].inv}
  /\ task' = [task EXCEPT !["block"] = Idle]
  /\ UNCHANGED <<shop, inv, call, mgr, edits, restarts, requotes,
                 handed, cut, admitted, requoted, capmax>>

\* Where a task goes when it is done with one registration.
After(w) == IF w = "block" THEN Idle ELSE [task[w] EXCEPT !.pc = "row"]

MarkFailed(i) == inv' = [inv EXCEPT ![i].reg = "failed"]

\* handle_luma_registration up to the call: done already, or no attendee.
NotRegisterable(w) ==
  /\ task[w].pc = "guest"
  /\ LET i == task[w].inv
     IN /\ inv[i].reg = "registered" \/ ~inv[i].att
        /\ inv' = [inv EXCEPT ![i].reg = IF @ = "registered" THEN @ ELSE "failed"]
        /\ handed' = handed \cup {i}
  /\ task' = [task EXCEPT ![w] = After(w)]
  /\ UNCHANGED <<shop, ticket, call, mgr, bounds, cut, failed, admitted, requoted, capmax>>

Registered(i) ==
  inv' = [inv EXCEPT ![i].reg = "registered", ![i].att = FALSE]

\* Wrong: the attempts are not counted
RetryForever(i) == inv' = [inv EXCEPT ![i].reg = "retry"]

\* schedule_luma_retry: another attempt, or failed after the last one; the
\* attempts already counted are read first.
ScheduleAfter(i, count) ==
  IF count + 1 > MaxRetries
  THEN MarkFailed(i)
  ELSE inv' = [inv EXCEPT ![i].reg = "retry", ![i].tries = count + 1]

ScheduleRetry(i) == ScheduleAfter(i, inv[i].tries)

\* add_guest and the row it leaves behind: added, a transient error, a final
\* one (a missing or unreadable key of the merchant is recorded alike).  The
\* row is written whatever happened to it during the call to Luma, and only
\* the row is modelled, so that the call is not a step of its own.
AddGuest(w) ==
  /\ task[w].pc = "guest"
  /\ LET i == task[w].inv
     IN /\ inv[i].reg # "registered" /\ inv[i].att
        /\ Registered(i) \/ ScheduleRetry(i) \/ MarkFailed(i)
        /\ handed' = handed \cup {i}
  /\ task' = [task EXCEPT ![w] = After(w)]
  /\ UNCHANGED <<shop, ticket, call, mgr, bounds, cut, failed, admitted, requoted, capmax>>

\* A statement of the registration fails.  The lookup of the attendee ends it
\* and a lost last write leaves the row as it was, whatever Luma did; a status
\* that cannot be read is not "registered", a count that cannot be read is 0.
RegisterFails(w) ==
  /\ task[w].pc = "guest" /\ Fault
  /\ LET i == task[w].inv
     IN \/ /\ failed' = IF w = "block" THEN failed \cup {i} ELSE failed
           /\ UNCHANGED <<inv, handed>>
        \/ /\ \/ ~inv[i].att /\ MarkFailed(i)
              \/ inv[i].att /\ ScheduleAfter(i, 0)
           /\ handed' = handed \cup {i}
           /\ UNCHANGED failed
  /\ task' = [task EXCEPT ![w] = After(w)]
  /\ UNCHANGED <<shop, ticket, call, mgr, edits, restarts, requotes,
                 cut, admitted, requoted, capmax>>

RetryRows == {i \in Invs : inv[i].reg = "retry" /\ inv[i].status = "confirmed"}

\* retry_due_luma_registrations: the rows that are due are read once (a read
\* that fails finds none), then taken in turn.
SelectDue ==
  /\ task["retry"].pc = "idle"
  /\ \E due \in SUBSET RetryRows \ {{}} :
       task' = [task EXCEPT !["retry"] = [pc |-> "row", inv |-> None, todo |-> due]]
  /\ UNCHANGED <<shop, inv, ticket, call, mgr, bounds, history>>

NextDue ==
  /\ task["retry"].pc = "row"
  /\ \/ /\ task["retry"].todo = {}
        /\ task' = [task EXCEPT !["retry"] = Idle]
     \/ \E i \in task["retry"].todo :
          task' = [task EXCEPT !["retry"] =
            [pc |-> IF IsLuma THEN "guest" ELSE "row", inv |-> i, todo |-> @.todo \ {i}]]
  /\ UNCHANGED <<shop, inv, ticket, call, mgr, bounds, history>>

\* A row whose invoice or event cannot be read is left for the next round.
RowFails ==
  /\ task["retry"].pc = "row" /\ Fault
  /\ \E i \in task["retry"].todo :
       task' = [task EXCEPT !["retry"] = [pc |-> "row", inv |-> i, todo |-> @.todo \ {i}]]
  /\ UNCHANGED <<shop, inv, ticket, call, mgr, edits, restarts, requotes, history>>

----------------------------------------------------------------------------
(* At the door *)

\* Wrong: the update only excludes void tickets
AdmitsAny(i) == ticket[i] \notin {"none", "void"}

\* The WHERE of scan_ticket.
Admits(i) == ticket[i] = "valid"

\* A scan that does not change the row answers "valid": false.
ScanTicket(i) ==
  /\ Admits(i)
  /\ ticket' = [ticket EXCEPT ![i] = "used"]
  /\ admitted' = [admitted EXCEPT ![i] = @ + 1]
  /\ UNCHANGED <<shop, inv, call, mgr, task, bounds, handed, cut, failed, requoted, capmax>>

VoidTicket(i) ==
  /\ ticket[i] \notin {"none", "used"}
  /\ ticket' = [ticket EXCEPT ![i] = "void"]
  /\ UNCHANGED <<shop, inv, call, mgr, task, bounds, history>>

----------------------------------------------------------------------------
(* The merchant's dashboard *)

Edit == product.there /\ edits < MaxEdits[product.kind] /\ edits' = edits + 1

\* create_event_with_product_and_prices, one transaction.
CreateEvent(kind) ==
  /\ ~product.there /\ product.kind = kind
  /\ \E listed \in Listings : \E caps \in [listed -> Caps] :
       /\ price' = [t \in Tiers |-> IF t \in listed
                      THEN [status |-> "active", cap |-> caps[t]] ELSE price[t]]
       /\ capmax' = [t \in Tiers |-> IF t \in listed THEN caps[t] ELSE 0]
       /\ \E t \in listed :
            product' = [product EXCEPT !.there = TRUE, !.active = TRUE, !.default = t,
                                       !.kind = IF kind = "luma" THEN "importing" ELSE kind]
  /\ event' = [event EXCEPT !.status = "active"]
  /\ UNCHANGED <<inv, ticket, call, mgr, task, bounds, handed, cut, failed, admitted, requoted>>

\* The import of a Luma event names it on the events row afterwards.
LinkLuma ==
  /\ product.kind = "importing"
  /\ product' = [product EXCEPT !.kind = "luma"]
  /\ UNCHANGED <<event, price, inv, ticket, call, mgr, task, bounds, history>>

\* POST /products: the product, its first price and the default are three
\* statements.
CreateProduct(m) ==
  /\ ~product.there /\ product.kind = "plain" /\ mgr[m].pc = "idle"
  /\ product' = [product EXCEPT !.there = TRUE, !.active = TRUE]
  /\ \E t \in Tiers : mgr' = [mgr EXCEPT ![m] = [pc |-> "price", tier |-> t]]
  /\ UNCHANGED <<event, price, inv, ticket, call, task, bounds, history>>

\* INSERT INTO prices, which the foreign key refuses without the product.
AddPrice(t, cap) ==
  /\ product.there /\ price[t].status = "absent"
  /\ price' = [price EXCEPT ![t] = [status |-> "active", cap |-> cap]]
  /\ capmax' = [capmax EXCEPT ![t] = cap]

\* (A call whose product was deleted meanwhile is refused and goes no further.)
FirstPrice(m) ==
  /\ mgr[m].pc = "price"
  /\ AddPrice(mgr[m].tier, Unlimited)
  /\ mgr' = [mgr EXCEPT ![m].pc = "default"]
  /\ UNCHANGED <<product, event, inv, ticket, call, task, bounds,
                 handed, cut, failed, admitted, requoted>>

SetDefaultPrice(m) ==
  /\ mgr[m].pc = "default"
  /\ product' = IF product.there THEN [product EXCEPT !.default = mgr[m].tier] ELSE product
  /\ mgr' = [mgr EXCEPT ![m] = Idle]
  /\ UNCHANGED <<event, price, inv, ticket, call, task, bounds, history>>

Plain == product.kind = "plain" /\ product.there

\* POST /prices: a further price of a plain product.
CreatePrice ==
  /\ Plain /\ Edit
  /\ \E t \in Tiers, cap \in Caps :
       AddPrice(t, cap) /\ \A m \in Managers : mgr[m].pc = "price" => mgr[m].tier # t
  /\ UNCHANGED <<product, event, inv, ticket, call, mgr, task, restarts, faults, requotes,
                 handed, cut, failed, admitted, requoted>>

SetCap(t, cap) ==
  /\ price' = [price EXCEPT ![t].cap = cap]
  /\ capmax' = [capmax EXCEPT ![t] = IF cap > @ THEN cap ELSE @]

\* PATCH /prices/{id}: max_quantity may fall below what is sold.
UpdatePrice ==
  /\ Plain /\ Edit
  /\ \E t \in Tiers, cap \in Caps : price[t].status # "absent" /\ SetCap(t, cap)
  /\ UNCHANGED <<product, event, inv, ticket, call, mgr, task, restarts, faults, requotes,
                 handed, cut, failed, admitted, requoted>>

ActiveTiers == {t \in Tiers : price[t].status = "active"}

\* deactivate_price counts the active prices, finds another default, and
\* only then writes.
DeactivateRead(m) ==
  /\ Plain /\ Edit /\ mgr[m].pc = "idle"
  /\ \E t \in ActiveTiers :
       /\ Cardinality(ActiveTiers) > 1
       /\ IF product.default = t
          THEN \E o \in ActiveTiers \ {t} :
                 mgr' = [mgr EXCEPT ![m] = [pc |-> "redefault", tier |-> t, other |-> o]]
          ELSE mgr' = [mgr EXCEPT ![m] = [pc |-> "deactivate", tier |-> t]]
  /\ UNCHANGED <<shop, inv, ticket, call, task, restarts, faults, requotes, history>>

Redefault(m) ==
  /\ mgr[m].pc = "redefault"
  /\ product' = IF product.there THEN [product EXCEPT !.default = mgr[m].other] ELSE product
  /\ mgr' = [mgr EXCEPT ![m] = [pc |-> "deactivate", tier |-> mgr[m].tier]]
  /\ UNCHANGED <<event, price, inv, ticket, call, task, bounds, history>>

Deactivate(m) ==
  /\ mgr[m].pc = "deactivate"
  /\ price' = IF price[mgr[m].tier].status = "absent" THEN price
              ELSE [price EXCEPT ![mgr[m].tier].status = "inactive"]
  /\ mgr' = [mgr EXCEPT ![m] = Idle]
  /\ UNCHANGED <<product, event, inv, ticket, call, task, bounds, history>>

\* PATCH /products/{id}: the row is read, the default price checked, and
\* every column written back.
UpdateProductRead(m) ==
  /\ Plain /\ Edit /\ mgr[m].pc = "idle"
  /\ \E a \in BOOLEAN, d \in ActiveTiers \cup {product.default} :
       /\ d # None => price[d].status = "active"
       /\ mgr' = [mgr EXCEPT ![m] = [pc |-> "product", active |-> a, default |-> d]]
  /\ UNCHANGED <<shop, inv, ticket, call, task, restarts, faults, requotes, history>>

UpdateProductWrite(m) ==
  /\ mgr[m].pc = "product"
  /\ product' = IF product.there
                THEN [product EXCEPT !.active = mgr[m].active, !.default = mgr[m].default]
                ELSE product
  /\ mgr' = [mgr EXCEPT ![m] = Idle]
  /\ UNCHANGED <<event, price, inv, ticket, call, task, bounds, history>>

\* DELETE /products/{id}: archived when an invoice names it ...
ArchiveProduct ==
  /\ Plain /\ Edit /\ \E t \in Tiers : OfTier(t) # {}
  /\ product' = [product EXCEPT !.active = FALSE]
  /\ UNCHANGED <<event, price, inv, ticket, call, mgr, task, restarts, faults, requotes, history>>

\* ... otherwise its prices go, and then the product, which the foreign key
\* of an invoice created in between keeps.
DeletePrices(m) ==
  /\ Plain /\ Edit /\ mgr[m].pc = "idle" /\ \A t \in Tiers : OfTier(t) = {}
  /\ price' = [t \in Tiers |-> [status |-> "absent", cap |-> 0]]
  /\ mgr' = [mgr EXCEPT ![m] = [pc |-> "delete"]]
  /\ UNCHANGED <<product, event, inv, ticket, call, task, restarts, faults, requotes, history>>

DeleteProduct(m) ==
  /\ mgr[m].pc = "delete"
  /\ product' = IF \A t \in Tiers : OfTier(t) = {} /\ price[t].status = "absent"
                THEN [product EXCEPT !.there = FALSE, !.active = FALSE, !.kind = "gone"]
                ELSE product
  /\ mgr' = [mgr EXCEPT ![m] = Idle]
  /\ UNCHANGED <<event, price, inv, ticket, call, task, bounds, history>>

\* archive_event, one transaction.
ArchiveEvent ==
  /\ IsEvent /\ Edit
  /\ event' = [event EXCEPT !.status = "cancelled"]
  /\ product' = [product EXCEPT !.active = FALSE]
  /\ ticket' = [i \in Invs |-> IF ticket[i] = "valid" THEN "void" ELSE ticket[i]]
  /\ UNCHANGED <<price, inv, call, mgr, task, restarts, faults, requotes, history>>

\* update_event may move the date; a past event stays past.
MoveDate ==
  /\ IsEvent /\ event.status # "cancelled" /\ Edit
  /\ event' = [event EXCEPT !.over = ~event.over]
  /\ UNCHANGED <<product, price, inv, ticket, call, mgr, task, restarts, faults, requotes, history>>

DatePasses ==
  /\ IsEvent /\ ~event.over
  /\ event' = [event EXCEPT !.over = TRUE]
  /\ UNCHANGED <<product, price, inv, ticket, call, mgr, task, bounds, history>>

\* mark_past_events, hourly: products first, events second.
HideProduct ==
  /\ IsEvent /\ event.status = "active" /\ event.over /\ product.active
  /\ product' = [product EXCEPT !.active = FALSE]
  /\ UNCHANGED <<event, price, inv, ticket, call, mgr, task, bounds, history>>

MarkPast ==
  /\ IsEvent /\ event.status = "active" /\ event.over
  /\ event' = [event EXCEPT !.status = "past"]
  /\ UNCHANGED <<product, price, inv, ticket, call, mgr, task, bounds, history>>

\* sync_event when Luma still lists the event: past, or tiers as Luma has
\* them now.  When Luma no longer lists it, sync_event is ArchiveEvent.
SyncPast ==
  /\ IsLuma /\ Edit /\ event.over
  /\ event' = IF event.status = "cancelled" THEN event
              ELSE [event EXCEPT !.status = "past"]
  /\ product' = [product EXCEPT !.active = FALSE]
  /\ UNCHANGED <<price, inv, ticket, call, mgr, task, restarts, faults, requotes, history>>

SyncTiers ==
  /\ IsLuma /\ Edit /\ ~event.over
  /\ \E t \in Tiers, cap \in Caps :
       \/ price[t].status = "active" /\ SetCap(t, cap)
       \/ AddPrice(t, cap)
       \/ /\ price[t].status = "active"
          /\ price' = [price EXCEPT ![t].status = "inactive"]
          /\ UNCHANGED capmax
  /\ UNCHANGED <<product, event, inv, ticket, call, mgr, task, restarts, faults, requotes,
                 handed, cut, failed, admitted, requoted>>

----------------------------------------------------------------------------
(* Time, the purge, restarts *)

\* Attendees of invoices that expired or were refunded 7 days ago, or are
\* 30 days old whatever became of them.
PurgeAttendees ==
  \E old \in SUBSET {i \in Invs : inv[i].att /\ inv[i].status # "pending"} \ {{}} :
    /\ inv' = [i \in Invs |-> IF i \in old THEN [inv[i] EXCEPT !.att = FALSE] ELSE inv[i]]
    /\ UNCHANGED <<shop, ticket, call, mgr, task, bounds, history>>

PurgeTickets ==
  \E old \in SUBSET {i \in Invs : ticket[i] = "void"} \ {{}} :
    /\ ticket' = [i \in Invs |-> IF i \in old THEN "none" ELSE ticket[i]]
    /\ UNCHANGED <<shop, inv, call, mgr, task, bounds, history>>

\* The process stops and starts: every call and task is forgotten.
Restart ==
  /\ restarts < MaxRestarts /\ restarts' = restarts + 1
  /\ cut' = IF task["block"].pc = "idle" THEN cut ELSE cut \cup {task["block"].inv}
  /\ call' = [b \in Buyers |-> Idle]
  /\ mgr' = [m \in Managers |-> Idle]
  /\ task' = [w \in Tasks |-> Idle]
  /\ UNCHANGED <<shop, inv, ticket, edits, faults, requotes, handed, failed,
                 admitted, requoted, capmax>>

Init ==
  /\ \E k \in Kinds : product = [kind |-> k, there |-> FALSE, active |-> FALSE, default |-> None]
  /\ event = [status |-> "none", over |-> FALSE]
  /\ price = [t \in Tiers |-> [status |-> "absent", cap |-> 0]]
  /\ inv = [i \in Invs |-> NoInv]
  /\ ticket = [i \in Invs |-> "none"]
  /\ call = [b \in Buyers |-> Idle]
  /\ mgr = [m \in Managers |-> Idle]
  /\ task = [w \in Tasks |-> Idle]
  /\ edits = 0 /\ restarts = 0 /\ faults = 0 /\ requotes = 0
  /\ handed = {} /\ cut = {} /\ failed = {}
  /\ admitted = [i \in Invs |-> 0]
  /\ requoted = [t \in Tiers |-> 0]
  /\ capmax = [t \in Tiers |-> 0]

Buying == \E b \in Buyers :
  \/ CheckoutRead(b) \/ CheckoutFindsOver(b) \/ CheckoutHides(b)
  \/ LinkRead(b) \/ CreateInvoice(b) \/ StoreAttendee(b) \/ StoreFails(b)

Paying == \E i \in Invs : Expire(i) \/ Finalize(i) \/ Refund(i) \/ Confirm(i)

Registering == \E w \in Tasks : NotRegisterable(w) \/ AddGuest(w) \/ RegisterFails(w)

Door == \E i \in Invs : ScanTicket(i) \/ VoidTicket(i)

Dashboard ==
  \/ \E m \in Managers :
       \/ CreateProduct(m) \/ FirstPrice(m) \/ SetDefaultPrice(m)
       \/ DeactivateRead(m) \/ Redefault(m) \/ Deactivate(m)
       \/ UpdateProductRead(m) \/ UpdateProductWrite(m)
       \/ DeletePrices(m) \/ DeleteProduct(m)
  \/ \E k \in Kinds \ {"plain"} : CreateEvent(k)
  \/ LinkLuma \/ CreatePrice \/ UpdatePrice \/ ArchiveProduct
  \/ ArchiveEvent \/ MoveDate \/ SyncPast \/ SyncTiers

Upkeep ==
  \/ DatePasses \/ HideProduct \/ MarkPast
  \/ PurgeAttendees \/ PurgeTickets

Next ==
  \/ Buying \/ Paying \/ Effects \/ EffectsFail
  \/ Registering \/ SelectDue \/ NextDue \/ RowFails
  \/ Door \/ Dashboard \/ Upkeep \/ Restart

Spec == Init /\ [][Next]_vars

\* The retry worker is a loop of its own task, woken every minute, and the
\* time of the next attempt comes; the statements that fail are finitely many
\* (MaxFaults); nothing is assumed of Luma, the buyers or the merchant.
RetryWork ==
  \/ SelectDue \/ NextDue \/ NotRegisterable("retry") \/ AddGuest("retry")
FairSpec == Spec /\ WF_vars(RetryWork)

----------------------------------------------------------------------------
(* Properties *)

InvRow == [status : {"none", "pending", "confirmed", "expired", "refunded"},
           tier : Tiers \cup {None}, att : BOOLEAN,
           reg : {"none", "pending", "registered", "retry", "failed"},
           tries : 0..MaxRetries]

\* What a checkout call, a dashboard call and a task have in hand
CallRow == [pc : {"idle", "hide"}] \cup [pc : {"insert"}, tier : Tiers, luma : BOOLEAN]
             \cup [pc : {"attendee"}, inv : Invs]

ManagerRow ==
  [pc : {"idle", "delete"}] \cup [pc : {"price", "default", "deactivate"}, tier : Tiers]
    \cup [pc : {"redefault"}, tier : Tiers, other : Tiers]
    \cup [pc : {"product"}, active : BOOLEAN, default : Tiers \cup {None}]

TaskRow == [pc : {"idle"}] \cup [pc : {"effects", "guest"}, inv : Invs, todo : SUBSET Invs]
             \cup [pc : {"row"}, inv : Invs \cup {None}, todo : SUBSET Invs]

\* The type invariant of the shop, its invoices and tickets, and who works on them
TypeOK ==
  /\ product \in [kind : Kinds \cup {"importing", "luma", "gone"}, there : BOOLEAN,
                  active : BOOLEAN, default : Tiers \cup {None}]
  /\ event \in [status : {"none", "active", "past", "cancelled"}, over : BOOLEAN]
  /\ price \in [Tiers -> [status : {"absent", "active", "inactive"}, cap : Caps \cup {0, Unlimited}]]
  /\ inv \in [Invs -> InvRow]
  /\ ticket \in [Invs -> {"none", "valid", "used", "void"}]
  /\ call \in [Buyers -> CallRow] /\ mgr \in [Managers -> ManagerRow]
  /\ task \in [Tasks -> TaskRow] /\ task["block"].pc # "row"
  /\ edits \in Nat /\ restarts \in 0..MaxRestarts
  /\ faults \in 0..MaxFaults /\ requotes \in Nat
  /\ handed \subseteq Invs /\ cut \subseteq Invs /\ failed \subseteq Invs
  /\ admitted \in [Invs -> Nat] /\ requoted \in [Tiers -> Nat]
  /\ capmax \in [Tiers -> Nat]

\* A ticket is answered "valid" at the door at most once, and only when its
\* invoice was paid: not after a second scan, a void, the cancellation of the
\* event, or the purge of void tickets (tickets::scan_ticket).
AdmittedOnce ==
  \A i \in Invs :
    /\ admitted[i] <= 1
    /\ admitted[i] = 1 => inv[i].status \in {"confirmed", "refunded"}

\* However the checkout and payment-link calls interleave with each other, with
\* expiry and with edits of the tier, a tier holds no more places than the
\* largest capacity it had, except for expired invoices that were quoted
\* again (the guarded INSERT of invoices::create_invoice).
WithinCap == \A t \in Tiers : Held(t) <= capmax[t] + requoted[t]

\* No more places are paid for than the tier has: what the comment on that
\* INSERT says.
NeverOversold ==
  \A t \in Tiers :
    Cardinality({i \in OfTier(t) : inv[i].status = "confirmed"}) <= capmax[t]

\* Everyone who paid for an event got a ticket or a recorded outcome at Luma,
\* unless the process stopped while the confirmation was being handled, or a
\* statement of it failed: neither is made up for later.  Nothing else makes a
\* paid invoice go without: no status of the event, of the tier or of the
\* product, no expiry and no purge, whenever it happens
\* (scanner::on_invoice_confirmed).
PaidIsServed ==
  \A i \in Invs :
    /\ inv[i].status \in {"confirmed", "refunded"} /\ IsEvent
    /\ task["block"].pc # "idle" => task["block"].inv # i
    => i \in handed \cup cut \cup failed

\* A registration that waits for another attempt ends registered or failed, or
\* its invoice is refunded, once statements no longer fail: the attempts are
\* counted across restarts, and an attempt whose count or outcome was not
\* written is made again (scanner::retry_due_luma_registrations).
RetryEnds ==
  \A i \in Invs :
    inv[i].reg = "retry" ~> \/ inv[i].reg \in {"registered", "failed"}
                            \/ inv[i].status = "refunded"
=============================================================================
