---------------------------- MODULE TicketsProofs ----------------------------
(***************************************************************************)
(* Theorems of Tickets: a ticket admits once, a tier holds no more places  *)
(* than it has had room for, and who paid for an event is served, for any  *)
(* tiers, capacities, calls, edits, attempts, failures and restarts.       *)
(*                                                                         *)
(* The capacity needs two more facts than it states (CapInv): a tier       *)
(* without a row of prices holds no invoice, and the cap an edit leaves is *)
(* never above the largest so far.  UnsoldInv is what makes the first true *)
(* of a tier that an event is created with.  TicketInv follows the ticket  *)
(* from the confirmation that makes it to the purge that removes it.       *)
(***************************************************************************)
EXTENDS Tickets, FiniteSetTheorems, TLAPS

-----------------------------------------------------------------------------
(* The invariants.                                                         *)

Paid(i) == inv[i].status \in {"confirmed", "refunded"}

\* A created invoice names a tier.
RowInv ==
  \A i \in Invs : inv[i].status # "none" => inv[i].tier \in Tiers

\* A ticket and its admission are of a paid invoice; the block scanner is about
\* to make the first ticket of the invoice it has just confirmed.
TicketInv ==
  /\ \A i \in Invs :
       /\ admitted[i] <= 1
       /\ admitted[i] = 1 => ticket[i] # "valid"
       /\ ticket[i] # "none" \/ admitted[i] = 1 => Paid(i)
  /\ task["block"].pc = "effects" =>
       LET i == task["block"].inv IN Paid(i) /\ ticket[i] = "none" /\ admitted[i] = 0

\* Before an event is created, nothing of it can be bought.
UnsoldInv ==
  product.kind \notin {"plain", "gone"} /\ ~product.there =>
    /\ \A i \in Invs : inv[i].status = "none"
    /\ \A b \in Buyers : call[b].pc # "insert"
    /\ \A t \in Tiers : price[t].status = "absent"

\* Places are taken in a tier that is there, whose capacity has been its largest
\* at some time.
CapInv ==
  \A t \in Tiers :
    /\ price[t].status = "absent" => OfTier(t) = {}
    /\ price[t].status # "absent" => price[t].cap <= capmax[t]
    /\ Held(t) <= capmax[t] + requoted[t]

-----------------------------------------------------------------------------
(* What a step can change.                                                 *)

LEMMA Moves ==
  ASSUME [Next]_vars
  PROVE  /\ \/ ticket' = ticket \/ Effects \/ EffectsFail \/ ArchiveEvent \/ PurgeTickets
            \/ (\E i \in Invs : ScanTicket(i) \/ VoidTicket(i))
         /\ \/ inv' = inv \/ PurgeAttendees \/ Registering
            \/ (\E b \in Buyers : CreateInvoice(b) \/ StoreAttendee(b))
            \/ (\E i \in Invs : Expire(i) \/ Finalize(i) \/ Refund(i) \/ Confirm(i))
         /\ admitted' = admitted \/ (\E i \in Invs : ScanTicket(i))
         /\ requoted' = requoted \/ (\E i \in Invs : Finalize(i))
         /\ \/ task' = task \/ Effects \/ EffectsFail \/ Registering
            \/ SelectDue \/ NextDue \/ RowFails \/ Restart
            \/ (\E i \in Invs : Confirm(i))
         /\ handed' = handed \/ Effects \/ Registering
         /\ cut' = cut \/ Restart
         /\ failed' = failed \/ EffectsFail \/ Registering
<1> USE DEF Next, Buying, Paying, Registering, Door, Dashboard, Upkeep,
           CheckoutRead, CheckoutFindsOver, CheckoutHides, LinkRead, CreateInvoice,
           StoreAttendee, Expire, Finalize, Refund, Confirm, Effects, NotRegisterable,
           AddGuest, EffectsFail, RegisterFails, RowFails, StoreFails, Fault,
           SelectDue, NextDue, ScanTicket, VoidTicket, CreateEvent, LinkLuma,
           CreateProduct, FirstPrice, SetDefaultPrice, CreatePrice, UpdatePrice,
           DeactivateRead, Redefault, Deactivate, UpdateProductRead, UpdateProductWrite,
           ArchiveProduct, DeletePrices, DeleteProduct, ArchiveEvent, MoveDate, DatePasses,
           HideProduct, MarkPast, SyncPast, SyncTiers, PurgeAttendees, PurgeTickets, Restart,
           shop, bounds, history, vars
<1>1. \/ ticket' = ticket \/ Effects \/ EffectsFail \/ ArchiveEvent \/ PurgeTickets
      \/ (\E i \in Invs : ScanTicket(i) \/ VoidTicket(i))
  OBVIOUS
<1>2. \/ inv' = inv \/ PurgeAttendees \/ Registering
      \/ (\E b \in Buyers : CreateInvoice(b) \/ StoreAttendee(b))
      \/ (\E i \in Invs : Expire(i) \/ Finalize(i) \/ Refund(i) \/ Confirm(i))
  OBVIOUS
<1>3. admitted' = admitted \/ (\E i \in Invs : ScanTicket(i))
  OBVIOUS
<1>4. requoted' = requoted \/ (\E i \in Invs : Finalize(i))
  OBVIOUS
<1>5. \/ task' = task \/ Effects \/ EffectsFail \/ Registering
      \/ SelectDue \/ NextDue \/ RowFails \/ Restart
      \/ (\E i \in Invs : Confirm(i))
  OBVIOUS
<1>6. handed' = handed \/ Effects \/ Registering
  OBVIOUS
<1>7. cut' = cut \/ Restart
  OBVIOUS
<1>9. failed' = failed \/ EffectsFail \/ Registering
  OBVIOUS
<1> HIDE DEF Next, Buying, Paying, Registering, Door, Dashboard, Upkeep,
            CheckoutRead, CheckoutFindsOver, CheckoutHides, LinkRead, CreateInvoice,
            StoreAttendee, Expire, Finalize, Refund, Confirm, Effects, NotRegisterable,
            AddGuest, EffectsFail, RegisterFails, RowFails, StoreFails, Fault,
           SelectDue, NextDue, ScanTicket, VoidTicket, CreateEvent, LinkLuma,
            CreateProduct, FirstPrice, SetDefaultPrice, CreatePrice, UpdatePrice,
            DeactivateRead, Redefault, Deactivate, UpdateProductRead, UpdateProductWrite,
            ArchiveProduct, DeletePrices, DeleteProduct, ArchiveEvent, MoveDate, DatePasses,
            HideProduct, MarkPast, SyncPast, SyncTiers, PurgeAttendees, PurgeTickets, Restart,
            shop, bounds, history, vars
<1>8. QED
  BY <1>1, <1>2, <1>3, <1>4, <1>5, <1>6, <1>7, <1>9

\* The same of the shop and of the calls.
LEMMA ShopMoves ==
  ASSUME [Next]_vars
  PROVE  /\ \/ UNCHANGED <<price, capmax>>
            \/ (\E k \in Kinds \ {"plain"} : CreateEvent(k))
            \/ (\E m \in Managers : FirstPrice(m) \/ Deactivate(m) \/ DeletePrices(m))
            \/ CreatePrice \/ UpdatePrice \/ SyncTiers
         /\ \/ product' = product
            \/ (\E b \in Buyers : CheckoutHides(b))
            \/ (\E k \in Kinds \ {"plain"} : CreateEvent(k)) \/ LinkLuma
            \/ (\E m \in Managers : \/ CreateProduct(m) \/ SetDefaultPrice(m) \/ Redefault(m)
                                    \/ UpdateProductWrite(m) \/ DeleteProduct(m))
            \/ ArchiveProduct \/ ArchiveEvent \/ HideProduct \/ SyncPast
         /\ \/ event' = event
            \/ (\E b \in Buyers : CheckoutFindsOver(b))
            \/ (\E k \in Kinds \ {"plain"} : CreateEvent(k))
            \/ ArchiveEvent \/ MoveDate \/ DatePasses \/ MarkPast \/ SyncPast
         /\ \/ call' = call \/ Restart
            \/ (\E b \in Buyers : \/ CheckoutRead(b) \/ CheckoutFindsOver(b) \/ CheckoutHides(b)
                                  \/ LinkRead(b) \/ CreateInvoice(b) \/ StoreAttendee(b) \/ StoreFails(b))
         /\ \/ mgr' = mgr \/ Restart
            \/ (\E m \in Managers : \/ CreateProduct(m) \/ FirstPrice(m) \/ SetDefaultPrice(m)
                                    \/ DeactivateRead(m) \/ Redefault(m) \/ Deactivate(m)
                                    \/ UpdateProductRead(m) \/ UpdateProductWrite(m)
                                    \/ DeletePrices(m) \/ DeleteProduct(m))
         /\ edits' = edits \/ edits' = edits + 1
         /\ restarts' = restarts \/ Restart
         /\ requotes' = requotes \/ requotes' = requotes + 1
         /\ faults' = faults \/ (faults < MaxFaults /\ faults' = faults + 1)
<1> USE DEF Next, Buying, Paying, Registering, Door, Dashboard, Upkeep,
           CheckoutRead, CheckoutFindsOver, CheckoutHides, LinkRead, CreateInvoice,
           StoreAttendee, Expire, Finalize, Refund, Confirm, Effects, NotRegisterable,
           AddGuest, EffectsFail, RegisterFails, RowFails, StoreFails, Fault,
           SelectDue, NextDue, ScanTicket, VoidTicket, CreateEvent, LinkLuma,
           CreateProduct, FirstPrice, SetDefaultPrice, CreatePrice, UpdatePrice,
           DeactivateRead, Redefault, Deactivate, UpdateProductRead, UpdateProductWrite,
           ArchiveProduct, DeletePrices, DeleteProduct, ArchiveEvent, MoveDate, DatePasses,
           HideProduct, MarkPast, SyncPast, SyncTiers, PurgeAttendees, PurgeTickets, Restart,
           shop, bounds, history, vars
<1> USE DEF Edit, Plain
<1>1. \/ UNCHANGED <<price, capmax>>
      \/ (\E k \in Kinds \ {"plain"} : CreateEvent(k))
      \/ (\E m \in Managers : FirstPrice(m) \/ Deactivate(m) \/ DeletePrices(m))
      \/ CreatePrice \/ UpdatePrice \/ SyncTiers
  OBVIOUS
<1>2. \/ product' = product
      \/ (\E b \in Buyers : CheckoutHides(b))
      \/ (\E k \in Kinds \ {"plain"} : CreateEvent(k)) \/ LinkLuma
      \/ (\E m \in Managers : \/ CreateProduct(m) \/ SetDefaultPrice(m) \/ Redefault(m)
                              \/ UpdateProductWrite(m) \/ DeleteProduct(m))
      \/ ArchiveProduct \/ ArchiveEvent \/ HideProduct \/ SyncPast
  OBVIOUS
<1>3. \/ event' = event
      \/ (\E b \in Buyers : CheckoutFindsOver(b))
      \/ (\E k \in Kinds \ {"plain"} : CreateEvent(k))
      \/ ArchiveEvent \/ MoveDate \/ DatePasses \/ MarkPast \/ SyncPast
  OBVIOUS
<1>4. \/ call' = call \/ Restart
      \/ (\E b \in Buyers : \/ CheckoutRead(b) \/ CheckoutFindsOver(b) \/ CheckoutHides(b)
                            \/ LinkRead(b) \/ CreateInvoice(b) \/ StoreAttendee(b) \/ StoreFails(b))
  OBVIOUS
<1>5. \/ mgr' = mgr \/ Restart
      \/ (\E m \in Managers : \/ CreateProduct(m) \/ FirstPrice(m) \/ SetDefaultPrice(m)
                              \/ DeactivateRead(m) \/ Redefault(m) \/ Deactivate(m)
                              \/ UpdateProductRead(m) \/ UpdateProductWrite(m)
                              \/ DeletePrices(m) \/ DeleteProduct(m))
  OBVIOUS
<1>6. edits' = edits \/ edits' = edits + 1
  OBVIOUS
<1>7. restarts' = restarts \/ Restart
  OBVIOUS
<1>8. requotes' = requotes \/ requotes' = requotes + 1
  OBVIOUS
<1>10. faults' = faults \/ (faults < MaxFaults /\ faults' = faults + 1)
  OBVIOUS
<1> HIDE DEF Edit, Plain
<1> HIDE DEF Next, Buying, Paying, Registering, Door, Dashboard, Upkeep,
            CheckoutRead, CheckoutFindsOver, CheckoutHides, LinkRead, CreateInvoice,
            StoreAttendee, Expire, Finalize, Refund, Confirm, Effects, NotRegisterable,
            AddGuest, EffectsFail, RegisterFails, RowFails, StoreFails, Fault,
           SelectDue, NextDue, ScanTicket, VoidTicket, CreateEvent, LinkLuma,
            CreateProduct, FirstPrice, SetDefaultPrice, CreatePrice, UpdatePrice,
            DeactivateRead, Redefault, Deactivate, UpdateProductRead, UpdateProductWrite,
            ArchiveProduct, DeletePrices, DeleteProduct, ArchiveEvent, MoveDate, DatePasses,
            HideProduct, MarkPast, SyncPast, SyncTiers, PurgeAttendees, PurgeTickets, Restart,
            shop, bounds, history, vars
<1>9. QED
  BY <1>1, <1>2, <1>3, <1>4, <1>5, <1>6, <1>7, <1>8, <1>10

-----------------------------------------------------------------------------
(* Types.                                                                  *)

\* A task has an invoice in hand unless it is idle or between two rows.
LEMMA InHand ==
  ASSUME TypeOK, NEW w \in Tasks, task[w].pc \in {"effects", "guest"}
  PROVE  task[w].inv \in Invs
<1>1. task[w] \in TaskRow
  BY DEF TypeOK
<1>2. QED
  BY <1>1 DEF TaskRow

LEMMA CallTypes ==
  ASSUME TypeOK, NEW b \in Buyers
  PROVE  /\ call[b].pc = "insert" => call[b].tier \in Tiers /\ call[b].luma \in BOOLEAN
         /\ call[b].pc = "attendee" => call[b].inv \in Invs
<1>1. call[b] \in CallRow
  BY DEF TypeOK
<1>2. QED
  BY <1>1 DEF CallRow

LEMMA ManagerTypes ==
  ASSUME TypeOK, NEW m \in Managers
  PROVE  /\ mgr[m].pc \in {"price", "default", "deactivate", "redefault"} => mgr[m].tier \in Tiers
         /\ mgr[m].pc = "redefault" => mgr[m].other \in Tiers
         /\ mgr[m].pc = "product" => mgr[m].active \in BOOLEAN /\ mgr[m].default \in Tiers \cup {None}
<1>1. mgr[m] \in ManagerRow
  BY DEF TypeOK
<1>2. QED
  BY <1>1 DEF ManagerRow

\* What a step does to an invoice.
LEMMA InvSteps ==
  ASSUME TypeOK, [Next]_vars, NEW i \in Invs
  PROVE  \/ inv'[i] = inv[i]
         \/ \E b \in Buyers :
              /\ CreateInvoice(b) /\ inv[i].status = "none" /\ Room(call[b].tier)
              /\ call[b].tier \in Tiers
              /\ inv'[i] = [NoInv EXCEPT !.status = "pending", !.tier = call[b].tier]
              /\ inv' = [inv EXCEPT ![i] = inv'[i]]
         \/ /\ Expire(i) /\ inv'[i] = [inv[i] EXCEPT !.status = "expired"]
         \/ /\ Finalize(i) /\ inv'[i] = [inv[i] EXCEPT !.status = "pending"]
         \/ /\ Refund(i) /\ inv'[i] = [inv[i] EXCEPT !.status = "refunded"]
         \/ /\ Confirm(i) /\ inv'[i] = [inv[i] EXCEPT !.status = "confirmed"]
         \/ \E a \in BOOLEAN, r \in {"pending", "registered", "retry", "failed", inv[i].reg},
                n \in 0..MaxRetries :
              inv'[i] = [inv[i] EXCEPT !.att = a, !.reg = r, !.tries = n]
<1>1. inv[i] \in InvRow /\ DOMAIN inv = Invs /\ inv[i].tries \in 0..MaxRetries
  BY DEF TypeOK, InvRow
<1> DEFINE Kept(a, r, n) == inv'[i] = [inv[i] EXCEPT !.att = a, !.reg = r, !.tries = n]
           Same == \E a \in BOOLEAN, r \in {"pending", "registered", "retry", "failed", inv[i].reg},
                      n \in 0..MaxRetries : Kept(a, r, n)
<1>2. ASSUME inv' = inv PROVE inv'[i] = inv[i] \/ Same
  BY <1>2
<1>3. ASSUME NEW b \in Buyers, StoreAttendee(b) PROVE inv'[i] = inv[i] \/ Same
  <2>1. inv'[i] = inv[i] \/ Kept(TRUE, "pending", inv[i].tries)
    BY <1>1, <1>3 DEF StoreAttendee, InvRow
  <2>2. QED
    BY <1>1, <2>1
<1>4. ASSUME PurgeAttendees PROVE inv'[i] = inv[i] \/ Same
  <2>1. inv'[i] = inv[i] \/ inv'[i] = [inv[i] EXCEPT !.att = FALSE]
    BY <1>4 DEF PurgeAttendees
  <2>2. inv'[i] = inv[i] \/ Kept(FALSE, inv[i].reg, inv[i].tries)
    BY <1>1, <2>1 DEF InvRow
  <2>3. QED
    BY <1>1, <2>2
<1>5. ASSUME NEW w \in Tasks, NotRegisterable(w) PROVE inv'[i] = inv[i] \/ Same
  <2>1. inv'[i] = inv[i] \/ Kept(inv[i].att, "failed", inv[i].tries)
    BY <1>1, <1>5 DEF NotRegisterable, InvRow
  <2>2. QED
    BY <1>1, <2>1 DEF InvRow
<1>6. ASSUME NEW w \in Tasks, AddGuest(w) PROVE inv'[i] = inv[i] \/ Same
  <2> DEFINE j == task[w].inv
  <2>1. j \in Invs
    BY <1>6, InHand DEF AddGuest
  <2>2. CASE Registered(j)
    <3>1. inv'[i] = inv[i] \/ Kept(FALSE, "registered", inv[i].tries)
      BY <1>1, <2>2 DEF Registered, InvRow
    <3>2. QED
      BY <1>1, <3>1
  <2>3. CASE MarkFailed(j)
    <3>1. inv'[i] = inv[i] \/ Kept(inv[i].att, "failed", inv[i].tries)
      BY <1>1, <2>3 DEF MarkFailed, InvRow
    <3>2. QED
      BY <1>1, <3>1 DEF InvRow
  <2>4. CASE ScheduleRetry(j) /\ ~MarkFailed(j)
    <3>1. inv' = [inv EXCEPT ![j].reg = "retry", ![j].tries = inv[j].tries + 1]
          /\ ~(inv[j].tries + 1 > MaxRetries)
      BY <2>4 DEF ScheduleRetry, ScheduleAfter
    <3>2. CASE i # j
      BY <1>1, <3>1, <3>2
    <3>3. CASE i = j
      <4>1. inv[i].tries + 1 \in 0..MaxRetries
        BY <1>1, <3>1, <3>3, NumbersAssumption
      <4>2. Kept(inv[i].att, "retry", inv[i].tries + 1)
        BY <1>1, <3>1, <3>3 DEF InvRow
      <4> DEFINE n == inv[i].tries + 1
                 a == inv[i].att
      <4>3. n \in 0..MaxRetries /\ a \in BOOLEAN /\ Kept(a, "retry", n)
        BY <1>1, <4>1, <4>2 DEF InvRow
      <4> HIDE DEF n, a
      <4>4. QED
        BY <4>3
    <3>4. QED
      BY <3>2, <3>3
  <2>5. QED
    BY <1>6, <2>2, <2>3, <2>4 DEF AddGuest
<1>12. ASSUME NEW w \in Tasks, RegisterFails(w) PROVE inv'[i] = inv[i] \/ Same
  <2> DEFINE j == task[w].inv
  <2>1. CASE inv' = inv
    BY <2>1
  <2>2. CASE MarkFailed(j)
    <3>1. inv'[i] = inv[i] \/ Kept(inv[i].att, "failed", inv[i].tries)
      BY <1>1, <2>2 DEF MarkFailed, InvRow
    <3>2. QED
      BY <1>1, <3>1 DEF InvRow
  <2>3. CASE inv' = [inv EXCEPT ![j].reg = "retry", ![j].tries = 1]
    <3>1. inv'[i] = inv[i] \/ Kept(inv[i].att, "retry", 1)
      BY <1>1, <2>3 DEF InvRow
    <3>2. 1 \in 0..MaxRetries /\ inv[i].att \in BOOLEAN
      BY <1>1, NumbersAssumption DEF InvRow
    <3>3. QED
      BY <3>1, <3>2
  <2>4. ScheduleAfter(j, 0) => MarkFailed(j) \/ inv' = [inv EXCEPT ![j].reg = "retry", ![j].tries = 1]
    BY DEF ScheduleAfter
  <2>5. inv' = inv \/ MarkFailed(j) \/ ScheduleAfter(j, 0)
    BY <1>12 DEF RegisterFails
  <2> HIDE DEF Same, j
  <2>6. QED
    BY <2>1, <2>2, <2>3, <2>4, <2>5
<1>7. ASSUME NEW b \in Buyers, CreateInvoice(b)
      PROVE  \/ inv'[i] = inv[i]
             \/ /\ inv[i].status = "none" /\ Room(call[b].tier)
                /\ call[b].tier \in Tiers
                /\ inv'[i] = [NoInv EXCEPT !.status = "pending", !.tier = call[b].tier]
                /\ inv' = [inv EXCEPT ![i] = inv'[i]]
  BY <1>1, <1>7, CallTypes DEF CreateInvoice, FreshInvs
<1>8. ASSUME NEW j \in Invs, Expire(j) \/ Finalize(j) \/ Refund(j) \/ Confirm(j), j # i
      PROVE  inv'[i] = inv[i]
  BY <1>1, <1>8 DEF Expire, Finalize, Refund, Confirm
<1>9. /\ Expire(i) => inv'[i] = [inv[i] EXCEPT !.status = "expired"]
      /\ Finalize(i) => inv'[i] = [inv[i] EXCEPT !.status = "pending"]
      /\ Refund(i) => inv'[i] = [inv[i] EXCEPT !.status = "refunded"]
      /\ Confirm(i) => inv'[i] = [inv[i] EXCEPT !.status = "confirmed"]
  BY <1>1 DEF Expire, Finalize, Refund, Confirm
<1> HIDE DEF Same
<1>10. \/ inv'[i] = inv[i] \/ Same
       \/ (\E b \in Buyers : CreateInvoice(b))
       \/ (\E j \in Invs : Expire(j) \/ Finalize(j) \/ Refund(j) \/ Confirm(j))
  BY <1>2, <1>3, <1>4, <1>5, <1>6, <1>12, Moves DEF Registering
<1>11. QED
  BY <1>7, <1>8, <1>9, <1>10 DEF Same

\* In short: an invoice that is created keeps its tier, and one that is paid
\* stays paid.
LEMMA InvFacts ==
  ASSUME TypeOK, [Next]_vars, NEW i \in Invs
  PROVE  /\ inv'[i] \in InvRow
         /\ inv[i].status # "none" => inv'[i].tier = inv[i].tier /\ inv'[i].status # "none"
         /\ Paid(i) => inv'[i].status \in {"confirmed", "refunded"}
         /\ inv'[i].status \in {"confirmed", "refunded"} =>
              Paid(i) \/ (Confirm(i) /\ inv[i].status = "pending")
         /\ inv[i].status = "none" /\ inv'[i].status # "none" =>
              /\ Room(inv'[i].tier) /\ inv'[i].tier \in Tiers
              /\ \E b \in Buyers : CreateInvoice(b)
<1>1. inv[i] \in InvRow
  BY DEF TypeOK
<1>2. CASE inv'[i] = inv[i]
  BY <1>1, <1>2 DEF Paid
<1>3. ASSUME NEW t \in Tiers, inv[i].status = "none",
             inv'[i] = [NoInv EXCEPT !.status = "pending", !.tier = t]
      PROVE  /\ inv'[i] \in InvRow /\ inv'[i].tier = t /\ inv'[i].status = "pending"
             /\ ~Paid(i)
  <2>1. 0 \in 0..MaxRetries
    BY NumbersAssumption
  <2>2. QED
    BY <1>3, <2>1 DEF NoInv, InvRow, Paid
<1>4. ASSUME NEW s \in {"pending", "confirmed", "expired", "refunded"},
             inv'[i] = [inv[i] EXCEPT !.status = s]
      PROVE  inv'[i] \in InvRow /\ inv'[i].tier = inv[i].tier /\ inv'[i].status = s
  BY <1>1, <1>4 DEF InvRow
<1>5. ASSUME NEW a \in BOOLEAN, NEW n \in 0..MaxRetries,
             NEW r \in {"pending", "registered", "retry", "failed", inv[i].reg},
             inv'[i] = [inv[i] EXCEPT !.att = a, !.reg = r, !.tries = n]
      PROVE  inv'[i] \in InvRow /\ inv'[i].tier = inv[i].tier /\ inv'[i].status = inv[i].status
  <2>1. r \in {"none", "pending", "registered", "retry", "failed"}
    BY <1>1 DEF InvRow
  <2>2. QED
    BY <1>1, <1>5, <2>1 DEF InvRow
<1>6. ASSUME NEW b \in Buyers, CreateInvoice(b), inv[i].status = "none", Room(call[b].tier),
             call[b].tier \in Tiers,
             inv'[i] = [NoInv EXCEPT !.status = "pending", !.tier = call[b].tier]
      PROVE  /\ inv'[i] \in InvRow /\ inv'[i].tier \in Tiers /\ inv'[i].status = "pending"
             /\ inv'[i].tier = call[b].tier /\ ~Paid(i)
  BY <1>3, <1>6
<1>7. CASE Expire(i) /\ inv'[i] = [inv[i] EXCEPT !.status = "expired"]
  BY <1>4, <1>7 DEF Expire, Paid
<1>8. CASE Finalize(i) /\ inv'[i] = [inv[i] EXCEPT !.status = "pending"]
  BY <1>4, <1>8 DEF Finalize, Paid
<1>9. CASE Refund(i) /\ inv'[i] = [inv[i] EXCEPT !.status = "refunded"]
  BY <1>4, <1>9 DEF Refund, Paid
<1>10. CASE Confirm(i) /\ inv'[i] = [inv[i] EXCEPT !.status = "confirmed"]
  BY <1>4, <1>10 DEF Confirm, Paid
<1>11. CASE \E a \in BOOLEAN, r \in {"pending", "registered", "retry", "failed", inv[i].reg},
               n \in 0..MaxRetries :
              inv'[i] = [inv[i] EXCEPT !.att = a, !.reg = r, !.tries = n]
  BY <1>5, <1>11 DEF Paid
<1>12. CASE \E b \in Buyers :
              /\ CreateInvoice(b) /\ inv[i].status = "none" /\ Room(call[b].tier)
              /\ call[b].tier \in Tiers
              /\ inv'[i] = [NoInv EXCEPT !.status = "pending", !.tier = call[b].tier]
              /\ inv' = [inv EXCEPT ![i] = inv'[i]]
  <2>1. PICK b \in Buyers :
              /\ CreateInvoice(b) /\ inv[i].status = "none" /\ Room(call[b].tier)
              /\ call[b].tier \in Tiers
              /\ inv'[i] = [NoInv EXCEPT !.status = "pending", !.tier = call[b].tier]
    BY <1>12
  <2>2. inv'[i] \in InvRow /\ inv'[i].tier \in Tiers /\ inv'[i].status = "pending" /\ ~Paid(i)
        /\ inv'[i].tier = call[b].tier
    BY <1>6, <2>1
  <2>3. QED
    BY <2>1, <2>2
<1>13. QED
  BY <1>2, <1>7, <1>8, <1>9, <1>10, <1>11, <1>12, InvSteps

\* A ticket admits its holder once, and belongs to a paid invoice.
LEMMA NextTicket == TypeOK /\ TicketInv /\ [Next]_vars => TicketInv'
<1> SUFFICES ASSUME TypeOK, TicketInv, [Next]_vars PROVE TicketInv'
  OBVIOUS
<1>1. ticket \in [Invs -> {"none", "valid", "used", "void"}] /\ admitted \in [Invs -> Nat]
      /\ DOMAIN task = Tasks /\ "block" \in Tasks /\ "retry" \in Tasks
  BY DEF TypeOK, Tasks
<1>2. ASSUME NEW i \in Invs
      PROVE  /\ Paid(i) => Paid(i)'
             /\ ticket[i] = "none" \/ Paid(i)
  BY InvFacts DEF TicketInv, Paid
<1>3. ASSUME NEW i \in Invs
      PROVE  /\ admitted[i] \in Nat /\ admitted[i] <= 1
             /\ admitted[i] = 1 => ticket[i] # "valid"
             /\ ticket[i] # "none" \/ admitted[i] = 1 => Paid(i)
  BY <1>1 DEF TicketInv
<1>4. task["block"].pc = "effects" =>
        /\ task["block"].inv \in Invs
        /\ Paid(task["block"].inv) /\ ticket[task["block"].inv] = "none"
        /\ admitted[task["block"].inv] = 0
  BY <1>1, InHand DEF TicketInv
<1>5. ASSUME NEW i \in Invs
      PROVE  /\ admitted'[i] <= 1
             /\ admitted'[i] = 1 => ticket'[i] # "valid"
             /\ ticket'[i] # "none" \/ admitted'[i] = 1 => Paid(i)'
  <2>1. CASE ticket' = ticket /\ admitted' = admitted
    BY <1>2, <1>3, <2>1
  <2>2. CASE Effects \/ EffectsFail
    <3>1. admitted' = admitted /\ (ticket' = ticket \/ CreateTicket(task["block"].inv))
      BY <2>2 DEF Effects, EffectsFail
    <3>2. task["block"].pc = "effects"
      BY <2>2 DEF Effects, EffectsFail
    <3>3. CASE CreateTicket(task["block"].inv)
      BY <1>1, <1>2, <1>3, <1>4, <3>1, <3>2, <3>3 DEF CreateTicket
    <3>4. QED
      BY <2>1, <3>1, <3>3
  <2>3. CASE ArchiveEvent \/ PurgeTickets
    <3>1. admitted' = admitted
      BY <2>3 DEF ArchiveEvent, PurgeTickets, history
    <3>2. ticket'[i] = ticket[i] \/ ticket'[i] = "none" \/ (ticket[i] = "valid" /\ ticket'[i] = "void")
      BY <2>3 DEF ArchiveEvent, PurgeTickets
    <3>3. QED
      BY <1>2, <1>3, <3>1, <3>2
  <2>4. ASSUME NEW j \in Invs, ScanTicket(j)
        PROVE  /\ admitted'[i] <= 1
               /\ admitted'[i] = 1 => ticket'[i] # "valid"
               /\ ticket'[i] # "none" \/ admitted'[i] = 1 => Paid(i)'
    BY <1>1, <1>2, <1>3, <2>4 DEF ScanTicket, Admits
  <2>5. ASSUME NEW j \in Invs, VoidTicket(j)
        PROVE  /\ admitted'[i] <= 1
               /\ admitted'[i] = 1 => ticket'[i] # "valid"
               /\ ticket'[i] # "none" \/ admitted'[i] = 1 => Paid(i)'
    BY <1>1, <1>2, <1>3, <2>5 DEF VoidTicket, history
  <2>6. QED
    BY <2>1, <2>2, <2>3, <2>4, <2>5, Moves
<1>6. ASSUME task'["block"].pc = "effects"
      PROVE  LET i == task'["block"].inv IN
             /\ inv'[i].status \in {"confirmed", "refunded"}
             /\ ticket'[i] = "none" /\ admitted'[i] = 0
  <2> DEFINE Fresh(i) == /\ inv'[i].status \in {"confirmed", "refunded"}
                         /\ ticket'[i] = "none" /\ admitted'[i] = 0
  <2> SUFFICES Fresh(task'["block"].inv)
    OBVIOUS
  <2>11. Effects => task'["block"].pc \in {"idle", "guest"}
    <3>1. task["block"] \in TaskRow
      BY <1>1 DEF TypeOK
    <3>2. task["block"].pc = "effects" =>
            [task["block"] EXCEPT !.pc = "guest"].pc = "guest"
      BY <3>1 DEF TaskRow
    <3>3. ASSUME Effects
          PROVE  \/ task'["block"] = Idle
                 \/ task'["block"] = [task["block"] EXCEPT !.pc = "guest"]
      BY <1>1, <3>3 DEF Effects
    <3>4. Effects => task["block"].pc = "effects"
      BY DEF Effects
    <3>5. Idle.pc = "idle"
      BY DEF Idle
    <3>6. QED
      BY <3>2, <3>3, <3>4, <3>5
  <2>12. EffectsFail => task'["block"].pc = "idle"
    BY <1>1 DEF EffectsFail, Idle
  <2>1. CASE task'["block"] = task["block"]
    <3> DEFINE i == task["block"].inv
    <3>1. i \in Invs /\ Paid(i) /\ ticket[i] = "none" /\ admitted[i] = 0 /\ ~Effects /\ ~EffectsFail
      BY <1>4, <1>6, <2>1, <2>11, <2>12
    <3>2. ticket'[i] = "none" /\ admitted'[i] = 0
      <4>1. ArchiveEvent \/ PurgeTickets => ticket'[i] = "none"
        BY <3>1 DEF ArchiveEvent, PurgeTickets
      <4>2. \A j \in Invs : ScanTicket(j) => ticket'[i] = ticket[i] /\ admitted'[i] = admitted[i]
        BY <1>1, <3>1 DEF ScanTicket, Admits
      <4>3. \A j \in Invs : VoidTicket(j) => ticket'[i] = ticket[i]
        BY <1>1, <3>1 DEF VoidTicket
      <4> HIDE DEF i
      <4>4. QED
        BY <3>1, <4>1, <4>2, <4>3, Moves
    <3>3. inv'[i].status \in {"confirmed", "refunded"}
      <4>1. \A j \in Invs : Paid(j) => inv'[j].status \in {"confirmed", "refunded"}
        BY InvFacts
      <4>2. QED
        BY <3>1, <4>1
    <3>4. QED
      BY <2>1, <3>2, <3>3
  <2>2. ASSUME NEW i \in Invs, Confirm(i)
        PROVE  /\ task'["block"].inv = i /\ inv'[i].status = "confirmed"
               /\ ticket'[i] = "none" /\ admitted'[i] = 0
    <3>1. task'["block"].inv = i /\ ticket' = ticket /\ admitted' = admitted
          /\ inv[i].status = "pending"
      BY <1>1, <2>2 DEF Confirm, history
    <3>2. inv'[i].status = "confirmed"
      BY <2>2 DEF Confirm, TypeOK, InvRow
    <3>3. QED
      BY <1>3, <3>1, <3>2 DEF Paid
  <2>3. CASE Effects \/ EffectsFail
    BY <1>6, <2>3, <2>11, <2>12
  <2>4. ASSUME NEW w \in Tasks, NotRegisterable(w) \/ AddGuest(w) \/ RegisterFails(w)
        PROVE  task'["block"] = task["block"]
    <3>1. task[w].pc = "guest" /\ task' = [task EXCEPT ![w] = After(w)]
      BY <2>4 DEF NotRegisterable, AddGuest, RegisterFails
    <3>2. w # "block"
      BY <1>1, <1>6, <3>1 DEF After, Idle
    <3>3. QED
      BY <1>1, <3>1, <3>2
  <2>5. CASE SelectDue \/ NextDue \/ RowFails
    <3>4. RowFails => task'["block"] = task["block"]
      BY <1>1 DEF RowFails
    <3>1. SelectDue => task'["block"] = task["block"]
      BY <1>1 DEF SelectDue
    <3>2. NextDue => task'["block"] = task["block"]
      BY <1>1 DEF NextDue
    <3>3. QED
      BY <2>1, <2>5, <3>1, <3>2, <3>4
  <2>6. CASE Restart
    BY <1>1, <1>6, <2>6 DEF Restart, Idle
  <2>7. CASE task' = task
    BY <2>1, <2>7
  <2>8. CASE Registering
    BY <2>1, <2>4, <2>8 DEF Registering
  <2>9. CASE \E i \in Invs : Confirm(i)
    BY <2>2, <2>9
  <2> HIDE DEF Fresh
  <2>10. QED
    BY <2>3, <2>5, <2>6, <2>7, <2>8, <2>9, Moves
<1>7. QED
  BY <1>5, <1>6 DEF TicketInv, Paid

\* What becomes of the product's kind: an event is created once, and only a
\* plain product is deleted.
LEMMA KindSteps ==
  ASSUME TypeOK, [Next]_vars
  PROVE  \/ product'.kind = product.kind /\ product'.there = product.there
         \/ \E k \in Kinds \ {"plain"} :
              CreateEvent(k) /\ product.kind = k /\ ~product.there /\ product'.there
         \/ LinkLuma /\ product.kind = "importing" /\ product'.there = product.there
         \/ product.kind = "plain" /\ product'.kind = "plain" /\ product'.there
         \/ product'.kind = "gone"
<1> DEFINE P == [kind : Kinds \cup {"importing", "luma", "gone"}, there : BOOLEAN,
                 active : BOOLEAN, default : Tiers \cup {None}]
           Same == product'.kind = product.kind /\ product'.there = product.there
<1>1. product \in P
  BY DEF TypeOK
<1>2. (\E b \in Buyers : CheckoutHides(b)) \/ ArchiveProduct \/ ArchiveEvent \/ HideProduct \/ SyncPast
        => Same
  BY <1>1 DEF CheckoutHides, ArchiveProduct, ArchiveEvent, HideProduct, SyncPast
<1>3. \A m \in Managers : SetDefaultPrice(m) \/ Redefault(m) \/ UpdateProductWrite(m) => Same
  BY <1>1 DEF SetDefaultPrice, Redefault, UpdateProductWrite
<1>4. \A m \in Managers : DeleteProduct(m) => Same \/ product'.kind = "gone"
  BY <1>1 DEF DeleteProduct
<1>5. \A m \in Managers : CreateProduct(m) =>
        product.kind = "plain" /\ product'.kind = "plain" /\ product'.there
  BY <1>1 DEF CreateProduct
<1>6. LinkLuma => product.kind = "importing" /\ product'.there = product.there
  BY <1>1 DEF LinkLuma
<1>7. ASSUME NEW k \in Kinds \ {"plain"}, CreateEvent(k)
      PROVE  product.kind = k /\ ~product.there /\ product'.there
  <2>1. \E t \in Tiers :
          product' = [product EXCEPT !.there = TRUE, !.active = TRUE, !.default = t,
                                     !.kind = IF k = "luma" THEN "importing" ELSE k]
    BY <1>7, ListingsAssumption DEF CreateEvent
  <2>2. product'.there
    BY <1>1, <2>1
  <2>3. QED
    BY <1>7, <2>2 DEF CreateEvent
<1>8. product' = product => Same
  OBVIOUS
<1> HIDE DEF Same
<1>9. \/ Same
      \/ (\E k \in Kinds \ {"plain"} : CreateEvent(k))
      \/ LinkLuma
      \/ product.kind = "plain" /\ product'.kind = "plain" /\ product'.there
      \/ product'.kind = "gone"
  BY <1>2, <1>3, <1>4, <1>5, <1>8, ShopMoves
<1>10. QED
  BY <1>6, <1>7, <1>9 DEF Same

\* What is called an event after a step was one before, or has just been created.
LEMMA EventSteps ==
  ASSUME TypeOK, [Next]_vars, IsEvent'
  PROVE  \/ IsEvent
         \/ product.kind \notin {"plain", "gone"} /\ ~product.there
BY KindSteps, KindsAssumption DEF IsEvent

\* What is not there cannot be bought.
LEMMA NextUnsold == TypeOK /\ UnsoldInv /\ [Next]_vars => UnsoldInv'
<1> SUFFICES ASSUME TypeOK, UnsoldInv, [Next]_vars,
                    product'.kind \notin {"plain", "gone"}, ~product'.there
             PROVE  /\ \A i \in Invs : inv'[i].status = "none"
                    /\ \A b \in Buyers : call'[b].pc # "insert"
                    /\ \A t \in Tiers : price'[t].status = "absent"
  BY DEF UnsoldInv
<1>1. product.kind \notin {"plain", "gone"} /\ ~product.there
  BY KindSteps
<1>2. /\ \A i \in Invs : inv[i].status = "none"
      /\ \A b \in Buyers : call[b].pc # "insert"
      /\ \A t \in Tiers : price[t].status = "absent"
  BY <1>1 DEF UnsoldInv
<1>3. ASSUME NEW i \in Invs PROVE inv'[i].status = "none"
  <2>1. \A b \in Buyers : ~CreateInvoice(b)
    BY <1>2 DEF CreateInvoice
  <2>2. QED
    BY <1>2, <2>1, InvFacts
<1>4. ASSUME NEW b \in Buyers PROVE call'[b].pc # "insert"
  <2>1. DOMAIN call = Buyers
    BY DEF TypeOK
  <2>2. \A c \in Buyers : ~CheckoutRead(c) /\ ~LinkRead(c) /\ ~CreateInvoice(c)
    BY <1>1, <1>2 DEF CheckoutRead, LinkRead, Arrives, CreateInvoice
  <2>3. \A c \in Buyers : CheckoutFindsOver(c) \/ CheckoutHides(c) \/ StoreAttendee(c) \/ StoreFails(c)
                            => call'[b] = call[b] \/ call'[b].pc # "insert"
    BY <2>1 DEF CheckoutFindsOver, CheckoutHides, StoreAttendee, StoreFails, Idle
  <2>4. Restart => call'[b].pc # "insert"
    BY DEF Restart, Idle
  <2>5. QED
    BY <1>2, <2>2, <2>3, <2>4, ShopMoves
<1>5. ASSUME NEW t \in Tiers PROVE price'[t].status = "absent"
  <2>1. DOMAIN price = Tiers /\ price[t].status = "absent"
    BY <1>2 DEF TypeOK
  <2>2. \A k \in Kinds \ {"plain"} : ~CreateEvent(k)
    <3>1. ASSUME NEW k \in Kinds \ {"plain"}, CreateEvent(k) PROVE product'.there
      <4>1. product \in [kind : Kinds \cup {"importing", "luma", "gone"}, there : BOOLEAN,
                         active : BOOLEAN, default : Tiers \cup {None}]
        BY DEF TypeOK
      <4>2. QED
        BY <3>1, <4>1 DEF CreateEvent
    <3>2. QED
      BY <3>1
  <2>3. ~CreatePrice /\ ~UpdatePrice /\ ~SyncTiers /\ (\A m \in Managers : ~FirstPrice(m) /\ ~DeletePrices(m))
    BY <1>1 DEF CreatePrice, UpdatePrice, SyncTiers, IsLuma, Plain, FirstPrice, AddPrice, DeletePrices
  <2>4. ASSUME NEW m \in Managers, Deactivate(m) PROVE price' = price
    <3>1. mgr[m].tier \in Tiers
      BY <2>4, ManagerTypes DEF Deactivate
    <3>2. QED
      BY <1>2, <2>4, <3>1 DEF Deactivate
  <2>5. QED
    BY <2>1, <2>2, <2>3, <2>4, ShopMoves
<1>6. QED
  BY <1>3, <1>4, <1>5

\* Whoever paid for an event has been served.
LEMMA NextServed == TypeOK /\ UnsoldInv /\ PaidIsServed /\ [Next]_vars => PaidIsServed'
<1> SUFFICES ASSUME TypeOK, UnsoldInv, PaidIsServed, [Next]_vars, NEW i \in Invs,
                    inv'[i].status \in {"confirmed", "refunded"}, IsEvent',
                    task'["block"].pc # "idle" => task'["block"].inv # i
             PROVE  i \in handed' \cup cut' \cup failed'
  BY DEF PaidIsServed
<1>1. DOMAIN task = Tasks /\ "block" \in Tasks /\ "retry" \in Tasks /\ task["block"] \in TaskRow
  BY DEF TypeOK, Tasks
<1>2. ~Confirm(i)
  BY <1>1 DEF Confirm
<1>3. Paid(i)
  BY <1>2, InvFacts
<1>4. IsEvent
  <2>1. inv[i].status # "none"
    BY <1>3 DEF Paid
  <2>2. QED
    BY <2>1, EventSteps DEF UnsoldInv
<1>5. (task["block"].pc # "idle" => task["block"].inv # i) => i \in handed \cup cut \cup failed
  BY <1>3, <1>4 DEF PaidIsServed, Paid
<1>6. handed \subseteq handed' /\ cut \subseteq cut' /\ failed \subseteq failed'
  <2>1. Effects => handed \subseteq handed'
    BY DEF Effects
  <2>2. Registering => handed \subseteq handed'
    BY DEF Registering, NotRegisterable, AddGuest, RegisterFails
  <2>5. EffectsFail \/ Registering => failed \subseteq failed'
    BY DEF Registering, NotRegisterable, AddGuest, RegisterFails, EffectsFail
  <2>3. Restart => cut \subseteq cut'
    BY DEF Restart
  <2>4. QED
    BY <2>1, <2>2, <2>3, <2>5, Moves
<1>7. SUFFICES ASSUME task["block"].pc # "idle", task["block"].inv = i
               PROVE  i \in handed' \cup cut' \cup failed'
  BY <1>5, <1>6
<1>8. task'["block"] # task["block"]
  BY <1>7
<1>9. CASE Effects
  <2>1. CASE IsLuma
    <3>1. task'["block"] = [task["block"] EXCEPT !.pc = "guest"] /\ task["block"].pc = "effects"
      BY <1>1, <1>4, <1>9, <2>1 DEF Effects, BackedByEvent
    <3>2. task'["block"].pc = "guest" /\ task'["block"].inv = i
      BY <1>1, <1>7, <3>1 DEF TaskRow
    <3>3. QED
      BY <3>2
  <2>2. CASE ~IsLuma
    BY <1>4, <1>7, <1>9, <2>2 DEF Effects, BackedByEvent
  <2>3. QED
    BY <2>1, <2>2
<1>10. ASSUME NEW w \in Tasks, NotRegisterable(w) \/ AddGuest(w)
       PROVE  i \in handed'
  <2>1. task' = [task EXCEPT ![w] = After(w)] /\ handed' = handed \cup {task[w].inv}
    BY <1>10 DEF NotRegisterable, AddGuest
  <2>2. w = "block"
    BY <1>1, <1>8, <2>1
  <2>3. QED
    BY <1>7, <2>1, <2>2
<1>15. ASSUME NEW w \in Tasks, RegisterFails(w)
       PROVE  i \in handed' \cup failed'
  <2>1. w = "block"
    BY <1>1, <1>8, <1>15 DEF RegisterFails
  <2>2. QED
    BY <1>7, <1>15, <2>1 DEF RegisterFails
<1>16. EffectsFail => i \in failed'
  BY <1>7 DEF EffectsFail
<1>11. \A j \in Invs : ~Confirm(j)
  BY <1>7 DEF Confirm
<1>12. SelectDue \/ NextDue \/ RowFails => task'["block"] = task["block"]
  BY <1>1 DEF SelectDue, NextDue, RowFails
<1>13. Restart => i \in cut'
  BY <1>7 DEF Restart
<1>14. QED
  BY <1>8, <1>9, <1>10, <1>11, <1>12, <1>13, <1>15, <1>16, Moves DEF Registering

-----------------------------------------------------------------------------
(* Places.                                                                 *)

\* The invoices that hold a place of a tier
Holders(t) == {i \in Invs : inv[i].status \notin {"none", "expired"} /\ inv[i].tier = t}

LEMMA HeldHolders ==
  ASSUME NEW t
  PROVE  Held(t) = Cardinality(Holders(t)) /\ IsFiniteSet(Holders(t)) /\ Held(t) \in Nat
<1>1. {i \in OfTier(t) : inv[i].status # "expired"} = Holders(t)
  BY DEF OfTier, Holders
<1>2. IsFiniteSet(Invs)
  BY FS_Interval, NumbersAssumption DEF Invs
<1>3. Holders(t) \subseteq Invs
  BY DEF Holders
<1>4. IsFiniteSet(Holders(t))
  BY <1>2, <1>3, FS_Subset
<1>5. QED
  BY <1>1, <1>4, FS_CardinalityType DEF Held

\* A set that gains one element at most
LEMMA OneMore ==
  ASSUME NEW S, IsFiniteSet(S), NEW x, NEW T, T \subseteq S \cup {x}
  PROVE  IsFiniteSet(T) /\ Cardinality(T) <= Cardinality(S) + 1 /\ Cardinality(T) \in Nat
<1>1. IsFiniteSet(S \cup {x}) /\ Cardinality(S \cup {x}) <= Cardinality(S) + 1
  <2>1. x \in S => S \cup {x} = S
    OBVIOUS
  <2>2. IsFiniteSet(S \cup {x})
    BY FS_AddElement
  <2>3. Cardinality(S \cup {x}) = IF x \in S THEN Cardinality(S) ELSE Cardinality(S) + 1
    BY FS_AddElement
  <2>4. Cardinality(S) \in Nat
    BY FS_CardinalityType
  <2>5. QED
    BY <2>2, <2>3, <2>4
<1>2. IsFiniteSet(T) /\ Cardinality(T) <= Cardinality(S \cup {x})
  BY <1>1, FS_Subset
<1>3. Cardinality(T) \in Nat /\ Cardinality(S) \in Nat /\ Cardinality(S \cup {x}) \in Nat
  BY <1>1, <1>2, FS_CardinalityType
<1>4. QED
  BY <1>1, <1>2, <1>3

\* What a step does to the places of a tier: none is taken, one is sold, or one
\* is quoted again.
LEMMA HeldSteps ==
  ASSUME TypeOK, RowInv, [Next]_vars, NEW t \in Tiers
  PROVE  \/ Held(t)' <= Held(t)
         \/ Room(t) /\ Held(t)' <= Held(t) + 1
         \/ requoted'[t] = requoted[t] + 1 /\ Held(t)' <= Held(t) + 1
<1> DEFINE H == Holders(t)
           G == {i \in Invs : inv'[i].status \notin {"none", "expired"} /\ inv'[i].tier = t}
<1>1. /\ Held(t) = Cardinality(H) /\ IsFiniteSet(H) /\ Held(t) \in Nat
      /\ Held(t)' = Cardinality(G) /\ IsFiniteSet(G) /\ Held(t)' \in Nat
  <2>1. Held(t) = Cardinality(H) /\ IsFiniteSet(H) /\ Held(t) \in Nat
    BY HeldHolders
  <2>2. {i \in OfTier(t)' : inv'[i].status # "expired"} = G
    BY DEF OfTier
  <2>3. Held(t)' = Cardinality(G)
    BY <2>2 DEF Held
  <2>4. IsFiniteSet(Invs) /\ G \subseteq Invs
    BY FS_Interval, NumbersAssumption DEF Invs
  <2>5. IsFiniteSet(G) /\ Cardinality(G) \in Nat
    BY <2>4, FS_Subset, FS_CardinalityType
  <2>6. QED
    BY <2>1, <2>3, <2>5
<1>2. ASSUME G \subseteq H PROVE Held(t)' <= Held(t)
  BY <1>1, <1>2, FS_Subset
<1>3. ASSUME NEW i, G \subseteq H \cup {i} PROVE Held(t)' <= Held(t) + 1
  BY <1>1, <1>3, OneMore
<1>4. ASSUME NEW i \in Invs, i \in G, i \notin H
      PROVE  \/ Room(t) /\ G \subseteq H \cup {i}
             \/ requoted'[t] = requoted[t] + 1 /\ G \subseteq H \cup {i}
  <2>1. /\ inv'[i].status \notin {"none", "expired"} /\ inv'[i].tier = t
        /\ ~(inv[i].status \notin {"none", "expired"} /\ inv[i].tier = t)
        /\ inv[i] \in InvRow /\ DOMAIN inv = Invs
    BY <1>4 DEF Holders, TypeOK
  <2>2. inv'[i].tier = inv[i].tier \/ inv[i].status = "none"
    BY InvFacts
  <2>3. CASE inv'[i] = inv[i]
    BY <2>1, <2>3
  <2>4. CASE \E b \in Buyers :
               /\ CreateInvoice(b) /\ inv[i].status = "none" /\ Room(call[b].tier)
               /\ call[b].tier \in Tiers
               /\ inv'[i] = [NoInv EXCEPT !.status = "pending", !.tier = call[b].tier]
               /\ inv' = [inv EXCEPT ![i] = inv'[i]]
    <3>1. PICK b \in Buyers :
            /\ Room(call[b].tier)
            /\ inv'[i] = [NoInv EXCEPT !.status = "pending", !.tier = call[b].tier]
            /\ inv' = [inv EXCEPT ![i] = inv'[i]]
      BY <2>4
    <3>2. call[b].tier = t
      BY <2>1, <3>1 DEF NoInv
    <3>3. \A j \in Invs : j # i => inv'[j] = inv[j]
      BY <2>1, <3>1
    <3>4. QED
      BY <3>1, <3>2, <3>3 DEF Holders
  <2>5. CASE Expire(i) /\ inv'[i] = [inv[i] EXCEPT !.status = "expired"]
    BY <2>1, <2>5 DEF InvRow
  <2>6. CASE Finalize(i) /\ inv'[i] = [inv[i] EXCEPT !.status = "pending"]
    <3>1. inv[i].tier = t
      BY <2>1, <2>6 DEF InvRow
    <3>2. requoted'[t] = requoted[t] + 1
      BY <2>6, <3>1 DEF Finalize, TypeOK
    <3>3. \A j \in Invs : j # i => inv'[j] = inv[j]
      BY <2>1, <2>6 DEF Finalize
    <3>4. QED
      BY <3>2, <3>3 DEF Holders
  <2>7. CASE \/ Refund(i) /\ inv'[i] = [inv[i] EXCEPT !.status = "refunded"]
             \/ Confirm(i) /\ inv'[i] = [inv[i] EXCEPT !.status = "confirmed"]
    BY <2>1, <2>7 DEF InvRow, Refund, Confirm
  <2>8. CASE \E a \in BOOLEAN, r \in {"pending", "registered", "retry", "failed", inv[i].reg},
                n \in 0..MaxRetries :
               inv'[i] = [inv[i] EXCEPT !.att = a, !.reg = r, !.tries = n]
    <3>1. inv'[i].status = inv[i].status /\ inv'[i].tier = inv[i].tier
      BY <2>1, <2>8 DEF InvRow
    <3>2. QED
      BY <2>1, <3>1
  <2>9. QED
    BY <2>3, <2>4, <2>5, <2>6, <2>7, <2>8, InvSteps
<1>5. G \subseteq Invs
  OBVIOUS
<1> HIDE DEF G, H
<1>6. QED
  BY <1>2, <1>3, <1>4, <1>5

\* What a step does to the capacity of a tier.
LEMMA CapSteps ==
  ASSUME TypeOK, UnsoldInv, CapInv, [Next]_vars, NEW t \in Tiers
  PROVE  \/ /\ price'[t].status = price[t].status
            /\ price'[t].cap = price[t].cap /\ capmax'[t] = capmax[t]
         \/ price[t].status # "absent" /\ price'[t].status # "absent"
            /\ price'[t].cap <= capmax'[t] /\ capmax[t] <= capmax'[t]
         \/ price[t].status = "absent" /\ price'[t].status # "absent"
            /\ price'[t].cap = capmax'[t]
         \/ price'[t].status = "absent" /\ capmax'[t] = capmax[t] /\ OfTier(t) = {}
            /\ inv' = inv
         \/ price'[t].status = "absent" /\ (\A i \in Invs : inv[i].status = "none") /\ inv' = inv
<1> DEFINE PriceRow == [status : {"absent", "active", "inactive"}, cap : Caps \cup {0, Unlimited}]
<1>1. price \in [Tiers -> PriceRow] /\ capmax \in [Tiers -> Nat]
  BY DEF TypeOK
<1>2. price[t] \in PriceRow /\ price[t].cap \in Nat /\ capmax[t] \in Nat
  <2>1. price[t] \in PriceRow /\ capmax[t] \in Nat
    BY <1>1
  <2>2. Caps \cup {0, Unlimited} \subseteq Nat
    BY CapsAssumption
  <2>3. QED
    BY <2>1, <2>2
<1>3. price[t].status # "absent" => price[t].cap <= capmax[t]
  BY DEF CapInv
<1> DEFINE
     Same == /\ price'[t].status = price[t].status
             /\ price'[t].cap = price[t].cap /\ capmax'[t] = capmax[t]
     Edited == /\ price[t].status # "absent" /\ price'[t].status # "absent"
               /\ price'[t].cap <= capmax'[t] /\ capmax[t] <= capmax'[t]
     Added == /\ price[t].status = "absent" /\ price'[t].status # "absent"
              /\ price'[t].cap = capmax'[t]
     Gone == /\ price'[t].status = "absent" /\ capmax'[t] = capmax[t] /\ OfTier(t) = {}
             /\ inv' = inv
     Unlisted == /\ price'[t].status = "absent" /\ (\A i \in Invs : inv[i].status = "none")
                 /\ inv' = inv
<1>4. ASSUME NEW u \in Tiers, NEW c \in Nat, AddPrice(u, c) PROVE Same \/ Added
  BY <1>1, <1>4 DEF AddPrice
<1>5. ASSUME NEW u \in Tiers, NEW c \in Caps, SetCap(u, c), price[u].status # "absent"
      PROVE  Same \/ Edited
  <2>1. c \in Nat
    BY CapsAssumption
  <2>2. CASE u # t
    BY <1>1, <1>5, <2>2 DEF SetCap
  <2>3. CASE u = t
    <3>1. price'[t].status = price[t].status /\ price'[t].cap = c
      BY <1>1, <1>5, <2>3 DEF SetCap
    <3>2. capmax'[t] = IF c > capmax[t] THEN c ELSE capmax[t]
      BY <1>1, <1>5, <2>3 DEF SetCap
    <3>3. QED
      BY <1>2, <1>5, <2>1, <2>3, <3>1, <3>2
  <2>4. QED
    BY <2>2, <2>3
<1>6. ASSUME UNCHANGED <<price, capmax>> PROVE Same
  BY <1>6
<1>7. ASSUME NEW k \in Kinds \ {"plain"}, CreateEvent(k) PROVE Added \/ Unlisted
  <2>1. /\ \A i \in Invs : inv[i].status = "none"
        /\ price[t].status = "absent"
    <3>1. product.kind \notin {"plain", "gone"} /\ ~product.there
      BY <1>7, KindsAssumption DEF CreateEvent
    <3>2. QED
      BY <3>1 DEF UnsoldInv
  <2>2. PICK listed \in Listings : \E caps \in [listed -> Caps] :
          /\ price' = [u \in Tiers |-> IF u \in listed
                         THEN [status |-> "active", cap |-> caps[u]] ELSE price[u]]
          /\ capmax' = [u \in Tiers |-> IF u \in listed THEN caps[u] ELSE 0]
    BY <1>7 DEF CreateEvent
  <2>3. inv' = inv
    BY <1>7 DEF CreateEvent
  <2>4. QED
    BY <2>1, <2>2, <2>3
<1>8. ASSUME NEW m \in Managers, FirstPrice(m) PROVE Same \/ Added
  <2>1. mgr[m].tier \in Tiers /\ Unlimited \in Nat
    BY <1>8, ManagerTypes, CapsAssumption DEF FirstPrice
  <2>2. QED
    BY <1>4, <1>8, <2>1 DEF FirstPrice
<1>9. ASSUME NEW m \in Managers, Deactivate(m) PROVE Same \/ Edited
  <2>1. mgr[m].tier \in Tiers /\ capmax' = capmax
    BY <1>9, ManagerTypes DEF Deactivate, history
  <2>2. CASE mgr[m].tier # t \/ price[mgr[m].tier].status = "absent"
    BY <1>1, <1>9, <2>1, <2>2 DEF Deactivate
  <2>3. CASE mgr[m].tier = t /\ price[t].status # "absent"
    <3>1. price'[t] = [price[t] EXCEPT !.status = "inactive"]
      BY <1>1, <1>9, <2>3 DEF Deactivate
    <3>2. price'[t].status = "inactive" /\ price'[t].cap = price[t].cap
      BY <1>2, <3>1
    <3>3. QED
      BY <1>2, <1>3, <2>1, <2>3, <3>2
  <2>4. QED
    BY <2>2, <2>3
<1>10. ASSUME NEW m \in Managers, DeletePrices(m) PROVE Gone
  BY <1>10 DEF DeletePrices, history
<1>11. ASSUME CreatePrice PROVE Same \/ Added
  BY <1>4, <1>11, CapsAssumption DEF CreatePrice
<1>12. ASSUME UpdatePrice PROVE Same \/ Edited
  BY <1>5, <1>12 DEF UpdatePrice
<1>13. ASSUME SyncTiers PROVE Same \/ Added \/ Edited
  <2>1. PICK u \in Tiers, c \in Caps :
          \/ price[u].status = "active" /\ SetCap(u, c)
          \/ AddPrice(u, c)
          \/ /\ price[u].status = "active"
             /\ price' = [price EXCEPT ![u].status = "inactive"]
             /\ UNCHANGED capmax
    BY <1>13 DEF SyncTiers
  <2>2. CASE price[u].status = "active" /\ SetCap(u, c)
    BY <1>5, <2>2
  <2>3. CASE AddPrice(u, c)
    BY <1>4, <2>3, CapsAssumption
  <2>4. CASE /\ price[u].status = "active"
             /\ price' = [price EXCEPT ![u].status = "inactive"]
             /\ UNCHANGED capmax
    BY <1>1, <1>2, <1>3, <2>4
  <2>5. QED
    BY <2>1, <2>2, <2>3, <2>4
<1> HIDE DEF Same, Edited, Added, Gone, Unlisted
<1>14. Same \/ Edited \/ Added \/ Gone \/ Unlisted
  BY <1>6, <1>7, <1>8, <1>9, <1>10, <1>11, <1>12, <1>13, ShopMoves
<1>15. QED
  BY <1>14 DEF Same, Edited, Added, Gone, Unlisted

\* A created invoice keeps the tier it names.
LEMMA NextRow == TypeOK /\ RowInv /\ [Next]_vars => RowInv'
<1> SUFFICES ASSUME TypeOK, RowInv, [Next]_vars, NEW i \in Invs, inv'[i].status # "none"
             PROVE  inv'[i].tier \in Tiers
  BY DEF RowInv
<1>1. QED
  BY InvFacts DEF RowInv

\* A tier holds no more places than it has had room for.
LEMMA NextCap ==
  TypeOK /\ RowInv /\ UnsoldInv /\ CapInv /\ [Next]_vars /\ TypeOK' => CapInv'
<1> SUFFICES ASSUME TypeOK, RowInv, UnsoldInv, CapInv, [Next]_vars, TypeOK', NEW t \in Tiers
             PROVE  /\ price'[t].status = "absent" => OfTier(t)' = {}
                    /\ price'[t].status # "absent" => price'[t].cap <= capmax'[t]
                    /\ Held(t)' <= capmax'[t] + requoted'[t]
  BY DEF CapInv
<1>1. /\ price[t].status = "absent" => OfTier(t) = {}
      /\ price[t].status # "absent" => price[t].cap <= capmax[t]
      /\ Held(t) <= capmax[t] + requoted[t]
  BY DEF CapInv
<1>2. /\ capmax[t] \in Nat /\ requoted[t] \in Nat /\ capmax'[t] \in Nat /\ requoted'[t] \in Nat
      /\ price[t].cap \in Nat /\ price'[t].cap \in Nat
  <2>1. Caps \cup {0, Unlimited} \subseteq Nat
    BY CapsAssumption
  <2>2. QED
    BY <2>1 DEF TypeOK
<1>3. Held(t) \in Nat /\ (OfTier(t) = {} => Held(t) = 0)
  <2>1. OfTier(t) = {} => Holders(t) = {}
    BY DEF OfTier, Holders
  <2>2. QED
    BY <2>1, HeldHolders, FS_EmptySet
<1>4. Held(t)' \in Nat /\ (OfTier(t)' = {} => Held(t)' = 0)
  <2>1. Held(t)' = Cardinality({i \in OfTier(t)' : inv'[i].status # "expired"})
    BY DEF Held
  <2>2. IsFiniteSet(Invs) /\ {i \in OfTier(t)' : inv'[i].status # "expired"} \subseteq Invs
    BY FS_Interval, NumbersAssumption DEF Invs, OfTier
  <2>3. Held(t)' \in Nat
    BY <2>1, <2>2, FS_Subset, FS_CardinalityType
  <2>4. OfTier(t)' = {} => {i \in OfTier(t)' : inv'[i].status # "expired"} = {}
    OBVIOUS
  <2>5. OfTier(t)' = {} => Held(t)' = 0
    BY <2>1, <2>4, FS_EmptySet
  <2>6. QED
    BY <2>3, <2>5
<1>5. requoted'[t] >= requoted[t]
  <2>1. \A i \in Invs : Finalize(i) => requoted'[t] >= requoted[t]
    <3>1. ASSUME NEW i \in Invs, Finalize(i) PROVE requoted'[t] >= requoted[t]
      <4>1. requoted' = [requoted EXCEPT ![inv[i].tier] = @ + 1] /\ DOMAIN requoted = Tiers
        BY <3>1 DEF Finalize, TypeOK
      <4>2. requoted'[t] = requoted[t] \/ requoted'[t] = requoted[t] + 1
        BY <4>1
      <4>3. QED
        BY <1>2, <4>2
    <3>2. QED
      BY <3>1
  <2>2. QED
    BY <1>2, <2>1, Moves
<1>6. Room(t) <=> price[t].status # "absent" /\ Held(t) < price[t].cap
  BY DEF Room
<1>7. ASSUME OfTier(t) = {}, ~Room(t) PROVE OfTier(t)' = {}
  <2>1. ASSUME NEW i \in Invs, inv'[i].status # "none", inv'[i].tier = t PROVE FALSE
    <3>1. inv[i].status # "none" => inv[i].tier = t
      BY <2>1, InvFacts
    <3>2. inv[i].status = "none" => Room(t)
      BY <2>1, InvFacts
    <3>3. QED
      BY <1>7, <3>1, <3>2 DEF OfTier
  <2>2. QED
    BY <2>1 DEF OfTier
<1>8. ASSUME inv' = inv PROVE OfTier(t)' = OfTier(t)
  BY <1>8 DEF OfTier
<1>9. CASE /\ price'[t].status = price[t].status
           /\ price'[t].cap = price[t].cap /\ capmax'[t] = capmax[t]
  <2>1. Held(t)' <= capmax'[t] + requoted'[t]
    BY <1>1, <1>2, <1>3, <1>4, <1>5, <1>6, <1>9, HeldSteps
  <2>2. QED
    BY <1>1, <1>6, <1>7, <1>9, <2>1
<1>10. CASE price[t].status # "absent" /\ price'[t].status # "absent"
            /\ price'[t].cap <= capmax'[t] /\ capmax[t] <= capmax'[t]
  BY <1>1, <1>2, <1>3, <1>4, <1>5, <1>6, <1>10, HeldSteps
<1>11. CASE price[t].status = "absent" /\ price'[t].status # "absent"
            /\ price'[t].cap = capmax'[t]
  <2>1. OfTier(t)' = {}
    BY <1>1, <1>6, <1>7, <1>11
  <2>2. QED
    BY <1>2, <1>4, <1>11, <2>1
<1>12. CASE \/ price'[t].status = "absent" /\ capmax'[t] = capmax[t] /\ OfTier(t) = {}
               /\ inv' = inv
            \/ price'[t].status = "absent" /\ (\A i \in Invs : inv[i].status = "none")
               /\ inv' = inv
  <2>1. OfTier(t)' = {}
    BY <1>8, <1>12 DEF OfTier
  <2>2. QED
    BY <1>2, <1>4, <1>12, <2>1
<1>13. QED
  BY <1>9, <1>10, <1>11, <1>12, CapSteps

\* What an action writes has its type.
LEMMA ProductType == TypeOK /\ [Next]_vars =>
  product' \in [kind : Kinds \cup {"importing", "luma", "gone"}, there : BOOLEAN,
                active : BOOLEAN, default : Tiers \cup {None}]
<1> DEFINE P == [kind : Kinds \cup {"importing", "luma", "gone"}, there : BOOLEAN,
                 active : BOOLEAN, default : Tiers \cup {None}]
<1> SUFFICES ASSUME TypeOK, [Next]_vars PROVE product' \in P
  OBVIOUS
<1>1. product \in P
  BY DEF TypeOK
<1>2. (\E b \in Buyers : CheckoutHides(b)) \/ ArchiveProduct \/ ArchiveEvent \/ HideProduct \/ SyncPast
        => product' \in P
  BY <1>1 DEF CheckoutHides, ArchiveProduct, ArchiveEvent, HideProduct, SyncPast
<1>3. ASSUME NEW m \in Managers, SetDefaultPrice(m) \/ Redefault(m) PROVE product' \in P
  BY <1>1, <1>3, ManagerTypes DEF SetDefaultPrice, Redefault
<1>4. ASSUME NEW m \in Managers, UpdateProductWrite(m) PROVE product' \in P
  <2>1. mgr[m].active \in BOOLEAN /\ mgr[m].default \in Tiers \cup {None}
    BY <1>4, ManagerTypes DEF UpdateProductWrite
  <2>2. QED
    BY <1>1, <1>4, <2>1 DEF UpdateProductWrite
<1>5. ASSUME NEW m \in Managers, CreateProduct(m) \/ DeleteProduct(m) PROVE product' \in P
  BY <1>1, <1>5 DEF CreateProduct, DeleteProduct
<1>6. LinkLuma => product' \in P
  BY <1>1 DEF LinkLuma
<1>7. ASSUME NEW k \in Kinds \ {"plain"}, CreateEvent(k) PROVE product' \in P
  <2>1. \E t \in Tiers :
          product' = [product EXCEPT !.there = TRUE, !.active = TRUE, !.default = t,
                                     !.kind = IF k = "luma" THEN "importing" ELSE k]
    BY <1>7, ListingsAssumption DEF CreateEvent
  <2>2. QED
    BY <1>1, <2>1
<1> HIDE DEF P
<1>8. QED
  BY <1>1, <1>2, <1>3, <1>4, <1>5, <1>6, <1>7, ShopMoves

LEMMA EventType == TypeOK /\ [Next]_vars =>
  event' \in [status : {"none", "active", "past", "cancelled"}, over : BOOLEAN]
<1> SUFFICES ASSUME TypeOK, [Next]_vars
             PROVE event' \in [status : {"none", "active", "past", "cancelled"}, over : BOOLEAN]
  OBVIOUS
<1>1. event \in [status : {"none", "active", "past", "cancelled"}, over : BOOLEAN]
  BY DEF TypeOK
<1>2. QED
  BY <1>1, ShopMoves DEF CheckoutFindsOver, CreateEvent, ArchiveEvent, MoveDate, DatePasses,
     MarkPast, SyncPast

\* Prices and the largest capacity they have had.
LEMMA PriceType == TypeOK /\ [Next]_vars =>
  /\ price' \in [Tiers -> [status : {"absent", "active", "inactive"}, cap : Caps \cup {0, Unlimited}]]
  /\ capmax' \in [Tiers -> Nat]
<1> DEFINE R == [status : {"absent", "active", "inactive"}, cap : Caps \cup {0, Unlimited}]
           Good == price' \in [Tiers -> R] /\ capmax' \in [Tiers -> Nat]
<1> SUFFICES ASSUME TypeOK, [Next]_vars PROVE Good
  OBVIOUS
<1>1. price \in [Tiers -> R] /\ capmax \in [Tiers -> Nat]
      /\ Caps \cup {0, Unlimited} \subseteq Nat /\ Caps \subseteq Nat /\ Unlimited \in Nat
  BY CapsAssumption DEF TypeOK
<1>2. ASSUME UNCHANGED <<price, capmax>> PROVE Good
  BY <1>1, <1>2
<1>3. ASSUME NEW t \in Tiers, NEW cap \in Caps \cup {0, Unlimited}, AddPrice(t, cap) PROVE Good
  <2>1. [status |-> "active", cap |-> cap] \in R /\ cap \in Nat
    BY <1>1
  <2>2. QED
    BY <1>1, <1>3, <2>1 DEF AddPrice
<1>4. ASSUME NEW t \in Tiers, NEW cap \in Caps, SetCap(t, cap) PROVE Good
  <2>1. [price[t] EXCEPT !.cap = cap] \in R
    BY <1>1
  <2>2. (IF cap > capmax[t] THEN cap ELSE capmax[t]) \in Nat
    BY <1>1
  <2> DEFINE c == IF cap > capmax[t] THEN cap ELSE capmax[t]
  <2>3. price' = [price EXCEPT ![t] = [price[t] EXCEPT !.cap = cap]]
        /\ capmax' = [capmax EXCEPT ![t] = c]
    BY <1>1, <1>4 DEF SetCap
  <2> HIDE DEF c
  <2>4. c \in Nat
    BY <2>2 DEF c
  <2>5. QED
    BY <1>1, <2>1, <2>3, <2>4
<1>5. ASSUME NEW t \in Tiers, price' = [price EXCEPT ![t].status = "inactive"], capmax' = capmax
      PROVE Good
  BY <1>1, <1>5
<1>6. ASSUME NEW k \in Kinds \ {"plain"}, CreateEvent(k) PROVE Good
  <2>1. PICK listed \in Listings : \E caps \in [listed -> Caps] :
          /\ price' = [t \in Tiers |-> IF t \in listed
                         THEN [status |-> "active", cap |-> caps[t]] ELSE price[t]]
          /\ capmax' = [t \in Tiers |-> IF t \in listed THEN caps[t] ELSE 0]
    BY <1>6 DEF CreateEvent
  <2>2. PICK caps \in [listed -> Caps] :
          /\ price' = [t \in Tiers |-> IF t \in listed
                         THEN [status |-> "active", cap |-> caps[t]] ELSE price[t]]
          /\ capmax' = [t \in Tiers |-> IF t \in listed THEN caps[t] ELSE 0]
    BY <2>1
  <2>3. QED
    BY <1>1, <2>2
<1>7. ASSUME NEW m \in Managers, FirstPrice(m) PROVE Good
  <2>1. mgr[m].tier \in Tiers /\ AddPrice(mgr[m].tier, Unlimited)
    BY <1>7, ManagerTypes DEF FirstPrice
  <2> HIDE DEF Good
  <2>2. QED
    BY <1>3, <2>1
<1>8. ASSUME NEW m \in Managers, Deactivate(m) PROVE Good
  <2>1. mgr[m].tier \in Tiers /\ capmax' = capmax
    BY <1>8, ManagerTypes DEF Deactivate, history
  <2>2. price' = price \/ price' = [price EXCEPT ![mgr[m].tier].status = "inactive"]
    BY <1>8 DEF Deactivate
  <2> HIDE DEF Good
  <2>3. QED
    BY <1>2, <1>5, <2>1, <2>2
<1>9. ASSUME NEW m \in Managers, DeletePrices(m) PROVE Good
  BY <1>1, <1>9 DEF DeletePrices, history
<1>10. ASSUME CreatePrice \/ UpdatePrice PROVE Good
  <2>1. \E t \in Tiers, cap \in Caps : AddPrice(t, cap) \/ SetCap(t, cap)
    BY <1>10 DEF CreatePrice, UpdatePrice
  <2> HIDE DEF Good
  <2>2. QED
    BY <1>3, <1>4, <2>1
<1>11. ASSUME SyncTiers PROVE Good
  <2>1. \E t \in Tiers, cap \in Caps :
          \/ AddPrice(t, cap) \/ SetCap(t, cap)
          \/ price' = [price EXCEPT ![t].status = "inactive"] /\ capmax' = capmax
    BY <1>11 DEF SyncTiers
  <2> HIDE DEF Good
  <2>2. QED
    BY <1>3, <1>4, <1>5, <2>1
<1> HIDE DEF Good
<1>12. QED
  BY <1>2, <1>6, <1>7, <1>8, <1>9, <1>10, <1>11, ShopMoves

LEMMA InvType == TypeOK /\ [Next]_vars => inv' \in [Invs -> InvRow]
<1> SUFFICES ASSUME TypeOK, [Next]_vars PROVE inv' \in [Invs -> InvRow]
  OBVIOUS
<1>1. inv \in [Invs -> InvRow]
  BY DEF TypeOK
<1>2. \A i \in Invs : inv'[i] \in InvRow
  BY InvFacts
<1>3. inv' = [i \in Invs |-> inv'[i]]
  <2>1. ASSUME NEW w \in Tasks, NotRegisterable(w) \/ AddGuest(w) \/ RegisterFails(w)
        PROVE  inv' = [i \in Invs |-> inv'[i]]
    BY <1>1, <2>1 DEF NotRegisterable, AddGuest, RegisterFails, Registered, ScheduleRetry,
                      ScheduleAfter, MarkFailed
  <2>2. PurgeAttendees => inv' = [i \in Invs |-> inv'[i]]
    BY DEF PurgeAttendees
  <2>3. \A b \in Buyers : CreateInvoice(b) \/ StoreAttendee(b) => inv' = [i \in Invs |-> inv'[i]]
    BY <1>1 DEF CreateInvoice, StoreAttendee
  <2>4. \A j \in Invs : Expire(j) \/ Finalize(j) \/ Refund(j) \/ Confirm(j)
          => inv' = [i \in Invs |-> inv'[i]]
    BY <1>1 DEF Expire, Finalize, Refund, Confirm
  <2>5. inv' = inv => inv' = [i \in Invs |-> inv'[i]]
    BY <1>1
  <2>6. QED
    BY <2>1, <2>2, <2>3, <2>4, <2>5, Moves DEF Registering
<1>4. QED
  BY <1>2, <1>3

LEMMA TicketType == TypeOK /\ [Next]_vars =>
  /\ ticket' \in [Invs -> {"none", "valid", "used", "void"}] /\ admitted' \in [Invs -> Nat]
  /\ requoted' \in [Tiers -> Nat]
<1> DEFINE T == [Invs -> {"none", "valid", "used", "void"}]
<1> SUFFICES ASSUME TypeOK, [Next]_vars
             PROVE ticket' \in T /\ admitted' \in [Invs -> Nat] /\ requoted' \in [Tiers -> Nat]
  OBVIOUS
<1>1. ticket \in T /\ admitted \in [Invs -> Nat] /\ requoted \in [Tiers -> Nat]
  BY DEF TypeOK
<1>2. ticket' \in T
  BY <1>1, Moves DEF Effects, EffectsFail, CreateTicket, ArchiveEvent, PurgeTickets, ScanTicket, VoidTicket
<1>3. admitted' \in [Invs -> Nat]
  BY <1>1, Moves DEF ScanTicket
<1>4. requoted' \in [Tiers -> Nat]
  BY <1>1, Moves DEF Finalize
<1>5. QED
  BY <1>2, <1>3, <1>4

\* What a call, a manager and a task have in hand.
LEMMA CallType == TypeOK /\ [Next]_vars => call' \in [Buyers -> CallRow]
<1> SUFFICES ASSUME TypeOK, [Next]_vars PROVE call' \in [Buyers -> CallRow]
  OBVIOUS
<1>1. call \in [Buyers -> CallRow]
  BY DEF TypeOK
<1>2. /\ Idle \in CallRow /\ [pc |-> "hide"] \in CallRow
      /\ \A t \in Tiers, l \in BOOLEAN : [pc |-> "insert", tier |-> t, luma |-> l] \in CallRow
      /\ \A i \in Invs : [pc |-> "attendee", inv |-> i] \in CallRow
  BY DEF CallRow, Idle
<1>3. IsLuma \in BOOLEAN
  BY DEF IsLuma, TypeOK
<1>4. ASSUME NEW b \in Buyers, NEW r \in CallRow, call' = [call EXCEPT ![b] = r]
      PROVE  call' \in [Buyers -> CallRow]
  BY <1>1, <1>4
<1>5. ASSUME NEW b \in Buyers,
             \/ CheckoutRead(b) \/ CheckoutFindsOver(b) \/ CheckoutHides(b)
             \/ LinkRead(b) \/ CreateInvoice(b) \/ StoreAttendee(b) \/ StoreFails(b)
      PROVE  \E r \in CallRow : call' = [call EXCEPT ![b] = r]
  <2>1. CheckoutRead(b) => \E r \in CallRow : call' = [call EXCEPT ![b] = r]
    BY <1>2, <1>3 DEF CheckoutRead
  <2>2. LinkRead(b) => \E r \in CallRow : call' = [call EXCEPT ![b] = r]
    BY <1>2 DEF LinkRead
  <2>3. CheckoutFindsOver(b) \/ CheckoutHides(b) \/ StoreAttendee(b) \/ StoreFails(b)
          => \E r \in CallRow : call' = [call EXCEPT ![b] = r]
    BY <1>2 DEF CheckoutFindsOver, CheckoutHides, StoreAttendee, StoreFails
  <2>4. CreateInvoice(b) => \E r \in CallRow : call' = [call EXCEPT ![b] = r]
    BY <1>2 DEF CreateInvoice, FreshInvs
  <2>5. QED
    BY <1>5, <2>1, <2>2, <2>3, <2>4
<1>6. Restart => call' \in [Buyers -> CallRow]
  BY <1>2 DEF Restart
<1>7. QED
  BY <1>1, <1>4, <1>5, <1>6, ShopMoves

LEMMA ManagerType == TypeOK /\ [Next]_vars => mgr' \in [Managers -> ManagerRow]
<1> SUFFICES ASSUME TypeOK, [Next]_vars PROVE mgr' \in [Managers -> ManagerRow]
  OBVIOUS
<1>1. mgr \in [Managers -> ManagerRow] /\ product.default \in Tiers \cup {None}
      /\ ActiveTiers \subseteq Tiers
  BY DEF TypeOK, ActiveTiers
<1>2. /\ Idle \in ManagerRow /\ [pc |-> "delete"] \in ManagerRow
      /\ \A t \in Tiers : [pc |-> "price", tier |-> t] \in ManagerRow
      /\ \A t \in Tiers : [pc |-> "default", tier |-> t] \in ManagerRow
      /\ \A t \in Tiers : [pc |-> "deactivate", tier |-> t] \in ManagerRow
      /\ \A t \in Tiers, o \in Tiers : [pc |-> "redefault", tier |-> t, other |-> o] \in ManagerRow
      /\ \A a \in BOOLEAN, d \in Tiers \cup {None} :
           [pc |-> "product", active |-> a, default |-> d] \in ManagerRow
  BY DEF ManagerRow, Idle
<1>3. ASSUME NEW m \in Managers, NEW r \in ManagerRow, mgr' = [mgr EXCEPT ![m] = r]
      PROVE  mgr' \in [Managers -> ManagerRow]
  BY <1>1, <1>3
<1>4. ASSUME NEW m \in Managers,
             \/ CreateProduct(m) \/ SetDefaultPrice(m) \/ Deactivate(m)
             \/ UpdateProductWrite(m) \/ DeletePrices(m) \/ DeleteProduct(m)
      PROVE  \E r \in ManagerRow : mgr' = [mgr EXCEPT ![m] = r]
  BY <1>2, <1>4 DEF CreateProduct, SetDefaultPrice, Deactivate, UpdateProductWrite,
     DeletePrices, DeleteProduct
<1>5. ASSUME NEW m \in Managers, FirstPrice(m)
      PROVE  \E r \in ManagerRow : mgr' = [mgr EXCEPT ![m] = r]
  <2>1. mgr[m].tier \in Tiers /\ mgr[m].pc = "price" /\ mgr[m] \in ManagerRow
    BY <1>1, <1>5, ManagerTypes DEF FirstPrice
  <2>2. [mgr[m] EXCEPT !.pc = "default"] = [pc |-> "default", tier |-> mgr[m].tier]
    BY <2>1 DEF ManagerRow
  <2>3. mgr' = [mgr EXCEPT ![m] = [mgr[m] EXCEPT !.pc = "default"]]
    BY <1>1, <1>5 DEF FirstPrice
  <2>4. [pc |-> "default", tier |-> mgr[m].tier] \in ManagerRow
    BY <1>2, <2>1
  <2>5. QED
    BY <2>2, <2>3, <2>4
<1>6. ASSUME NEW m \in Managers, Redefault(m)
      PROVE  \E r \in ManagerRow : mgr' = [mgr EXCEPT ![m] = r]
  <2>1. mgr[m].tier \in Tiers
    BY <1>6, ManagerTypes DEF Redefault
  <2>2. QED
    BY <1>2, <1>6, <2>1 DEF Redefault
<1>7. ASSUME NEW m \in Managers, DeactivateRead(m)
      PROVE  \E r \in ManagerRow : mgr' = [mgr EXCEPT ![m] = r]
  <2>1. PICK t \in ActiveTiers :
          IF product.default = t
          THEN \E o \in ActiveTiers \ {t} :
                 mgr' = [mgr EXCEPT ![m] = [pc |-> "redefault", tier |-> t, other |-> o]]
          ELSE mgr' = [mgr EXCEPT ![m] = [pc |-> "deactivate", tier |-> t]]
    BY <1>7 DEF DeactivateRead
  <2>2. QED
    BY <1>1, <1>2, <2>1
<1>8. ASSUME NEW m \in Managers, UpdateProductRead(m)
      PROVE  \E r \in ManagerRow : mgr' = [mgr EXCEPT ![m] = r]
  <2>1. PICK a \in BOOLEAN, d \in ActiveTiers \cup {product.default} :
          mgr' = [mgr EXCEPT ![m] = [pc |-> "product", active |-> a, default |-> d]]
    BY <1>8 DEF UpdateProductRead
  <2>2. QED
    BY <1>1, <1>2, <2>1
<1>9. Restart => mgr' \in [Managers -> ManagerRow]
  BY <1>2 DEF Restart
<1>10. QED
  BY <1>1, <1>3, <1>4, <1>5, <1>6, <1>7, <1>8, <1>9, ShopMoves

LEMMA TaskType == TypeOK /\ [Next]_vars =>
  /\ task' \in [Tasks -> TaskRow] /\ task'["block"].pc # "row"
  /\ handed' \subseteq Invs /\ cut' \subseteq Invs /\ failed' \subseteq Invs
<1> DEFINE Good == task' \in [Tasks -> TaskRow] /\ task'["block"].pc # "row"
<1> SUFFICES ASSUME TypeOK, [Next]_vars
             PROVE  Good /\ handed' \subseteq Invs /\ cut' \subseteq Invs /\ failed' \subseteq Invs
  OBVIOUS
<1>1. /\ task \in [Tasks -> TaskRow] /\ task["block"].pc # "row"
      /\ "block" \in Tasks /\ "retry" \in Tasks
      /\ handed \subseteq Invs /\ cut \subseteq Invs /\ failed \subseteq Invs
  BY DEF TypeOK, Tasks
<1>2. /\ Idle \in TaskRow /\ Idle.pc = "idle"
      /\ \A p \in {"effects", "guest", "row"}, i \in Invs, d \in SUBSET Invs :
           [pc |-> p, inv |-> i, todo |-> d] \in TaskRow
      /\ \A d \in SUBSET Invs : [pc |-> "row", inv |-> None, todo |-> d] \in TaskRow
  BY DEF TaskRow, Idle
<1>3. ASSUME NEW w \in Tasks, NEW r \in TaskRow, task' = [task EXCEPT ![w] = r],
             r.pc # "row" \/ w = "retry"
      PROVE  Good
  BY <1>1, <1>3
<1>4. ASSUME NEW w \in Tasks, task[w].pc \in {"effects", "guest"}
      PROVE  /\ task[w].inv \in Invs /\ task[w].todo \in SUBSET Invs
             /\ [task[w] EXCEPT !.pc = "row"] = [pc |-> "row", inv |-> task[w].inv, todo |-> task[w].todo]
             /\ [task[w] EXCEPT !.pc = "guest"] = [pc |-> "guest", inv |-> task[w].inv, todo |-> task[w].todo]
  <2>1. task[w] \in TaskRow
    BY <1>1
  <2>2. QED
    BY <1>4, <2>1 DEF TaskRow
<1>5. task["retry"].pc = "row" => task["retry"].todo \in SUBSET Invs
  <2>1. task["retry"] \in TaskRow
    BY <1>1
  <2>2. QED
    BY <2>1 DEF TaskRow
<1>6. ASSUME NEW w \in Tasks, task[w].pc = "guest", task' = [task EXCEPT ![w] = After(w)] PROVE Good
  <2>1. After(w) \in TaskRow /\ (After(w).pc # "row" \/ w = "retry")
    BY <1>2, <1>4, <1>6 DEF After, Tasks
  <2> HIDE DEF Good
  <2>2. QED
    BY <1>3, <1>6, <2>1
<1>7. ASSUME Effects PROVE Good
  <2>1. task["block"].pc = "effects"
    BY <1>7 DEF Effects
  <2>2. task' = [task EXCEPT !["block"] = Idle]
        \/ task' = [task EXCEPT !["block"] = [task["block"] EXCEPT !.pc = "guest"]]
    BY <1>1, <1>7 DEF Effects
  <2>3. [task["block"] EXCEPT !.pc = "guest"] \in TaskRow
        /\ [task["block"] EXCEPT !.pc = "guest"].pc = "guest"
    <3>1. task["block"].inv \in Invs /\ task["block"].todo \in SUBSET Invs
          /\ [task["block"] EXCEPT !.pc = "guest"] =
               [pc |-> "guest", inv |-> task["block"].inv, todo |-> task["block"].todo]
      BY <1>1, <1>4, <2>1
    <3>2. QED
      BY <1>2, <3>1
  <2> DEFINE r == [task["block"] EXCEPT !.pc = "guest"]
  <2> HIDE DEF Good
  <2>4. task' = [task EXCEPT !["block"] = Idle] \/ task' = [task EXCEPT !["block"] = r]
    BY <2>2
  <2>5. r \in TaskRow /\ r.pc # "row"
    BY <2>3
  <2> HIDE DEF r
  <2>6. QED
    BY <1>1, <1>2, <1>3, <2>4, <2>5
<1>8. ASSUME NEW w \in Tasks, NotRegisterable(w) \/ AddGuest(w) \/ RegisterFails(w) PROVE Good
  <2>1. task[w].pc = "guest" /\ task' = [task EXCEPT ![w] = After(w)]
    BY <1>8 DEF NotRegisterable, AddGuest, RegisterFails
  <2> HIDE DEF Good
  <2>2. QED
    BY <1>6, <2>1
<1>9. ASSUME SelectDue PROVE Good
  <2>1. \E d \in SUBSET Invs :
          task' = [task EXCEPT !["retry"] = [pc |-> "row", inv |-> None, todo |-> d]]
    BY <1>9 DEF SelectDue, RetryRows
  <2> HIDE DEF Good
  <2>2. QED
    BY <1>1, <1>2, <1>3, <2>1
<1>10. ASSUME NextDue PROVE Good
  <2>1. task["retry"].todo \in SUBSET Invs
    BY <1>5, <1>10 DEF NextDue
  <2>2. \/ task' = [task EXCEPT !["retry"] = Idle]
        \/ \E i \in Invs, p \in {"guest", "row"}, d \in SUBSET Invs :
             task' = [task EXCEPT !["retry"] = [pc |-> p, inv |-> i, todo |-> d]]
    <3>1. CASE task' = [task EXCEPT !["retry"] = Idle]
      BY <3>1
    <3>2. ASSUME NEW i \in task["retry"].todo,
                 task' = [task EXCEPT !["retry"] =
                   [pc |-> IF IsLuma THEN "guest" ELSE "row", inv |-> i, todo |-> @.todo \ {i}]]
          PROVE  \E j \in Invs, p \in {"guest", "row"}, d \in SUBSET Invs :
                   task' = [task EXCEPT !["retry"] = [pc |-> p, inv |-> j, todo |-> d]]
      <4> DEFINE q == IF IsLuma THEN "guest" ELSE "row"
                 e == task["retry"].todo \ {i}
      <4>1. q \in {"guest", "row"} /\ e \in SUBSET Invs /\ i \in Invs
        BY <2>1
      <4>2. task' = [task EXCEPT !["retry"] = [pc |-> q, inv |-> i, todo |-> e]]
        BY <1>1, <3>2
      <4> HIDE DEF q, e
      <4>3. QED
        BY <4>1, <4>2
    <3>3. QED
      BY <1>10, <3>1, <3>2 DEF NextDue
  <2> HIDE DEF Good
  <2>3. QED
    BY <1>1, <1>2, <1>3, <2>2
<1>18. ASSUME RowFails PROVE Good
  <2>1. task["retry"].todo \in SUBSET Invs
    BY <1>5, <1>18 DEF RowFails
  <2>2. \E i \in Invs, d \in SUBSET Invs :
          task' = [task EXCEPT !["retry"] = [pc |-> "row", inv |-> i, todo |-> d]]
    <3>1. PICK i \in task["retry"].todo :
            task' = [task EXCEPT !["retry"] = [pc |-> "row", inv |-> i, todo |-> task["retry"].todo \ {i}]]
      BY <1>1, <1>18 DEF RowFails
    <3>2. i \in Invs /\ task["retry"].todo \ {i} \in SUBSET Invs
      BY <2>1
    <3>3. QED
      BY <3>1, <3>2
  <2> HIDE DEF Good
  <2>3. QED
    BY <1>1, <1>2, <1>3, <2>2
<1>19. EffectsFail => Good
  BY <1>1, <1>2 DEF EffectsFail
<1>11. ASSUME NEW i \in Invs, Confirm(i) PROVE Good
  <2>1. task' = [task EXCEPT !["block"] = [pc |-> "effects", inv |-> i, todo |-> {}]]
    BY <1>11 DEF Confirm
  <2>2. [pc |-> "effects", inv |-> i, todo |-> {}] \in TaskRow
    BY <1>2
  <2>3. QED
    BY <1>1, <2>1, <2>2
<1>12. Restart => Good
  BY <1>1, <1>2 DEF Restart
<1>13. task' = task => Good
  BY <1>1
<1>14. Good
  <2> HIDE DEF Good
  <2>1. QED
    BY <1>7, <1>8, <1>9, <1>10, <1>11, <1>12, <1>13, <1>18, <1>19, Moves DEF Registering
<1>15. handed' \subseteq Invs
  <2>1. Effects => handed' \subseteq Invs
    <3>1. Effects => task["block"].pc = "effects" /\ (handed' = handed \/ handed' = handed \cup {task["block"].inv})
      BY DEF Effects
    <3>2. task["block"].pc = "effects" => task["block"].inv \in Invs
      BY <1>1, <1>4
    <3>3. QED
      BY <1>1, <3>1, <3>2
  <2>2. ASSUME NEW w \in Tasks, NotRegisterable(w) \/ AddGuest(w) \/ RegisterFails(w)
        PROVE  handed' \subseteq Invs
    <3>1. task[w].pc = "guest" /\ (handed' = handed \/ handed' = handed \cup {task[w].inv})
      BY <2>2 DEF NotRegisterable, AddGuest, RegisterFails
    <3>2. QED
      BY <1>1, <1>4, <3>1
  <2>3. QED
    BY <1>1, <2>1, <2>2, Moves DEF Registering
<1>16. cut' \subseteq Invs
  <2>1. task["block"].pc # "idle" => task["block"].inv \in Invs
    <3>1. task["block"] \in TaskRow
      BY <1>1
    <3>2. QED
      BY <1>1, <3>1 DEF TaskRow
  <2>2. Restart => cut' = cut \/ (task["block"].pc # "idle" /\ cut' = cut \cup {task["block"].inv})
    BY DEF Restart
  <2>3. QED
    BY <1>1, <2>1, <2>2, Moves
<1>20. failed' \subseteq Invs
  <2>1. ASSUME NEW w \in Tasks, task[w].pc \in {"effects", "guest"},
               failed' = failed \/ failed' = failed \cup {task[w].inv}
        PROVE  failed' \subseteq Invs
    <3>1. task[w].inv \in Invs
      BY <1>4, <2>1
    <3>2. QED
      BY <1>1, <2>1, <3>1
  <2>2. EffectsFail => task["block"].pc = "effects" /\ failed' = failed \cup {task["block"].inv}
    BY DEF EffectsFail
  <2>3. \A w \in Tasks : NotRegisterable(w) \/ AddGuest(w) \/ RegisterFails(w) =>
          task[w].pc = "guest" /\ (failed' = failed \/ failed' = failed \cup {task[w].inv})
    BY DEF NotRegisterable, AddGuest, RegisterFails
  <2>4. QED
    BY <1>1, <2>1, <2>2, <2>3, Moves DEF Registering
<1>17. QED
  BY <1>14, <1>15, <1>16, <1>20

LEMMA NextType == TypeOK /\ [Next]_vars => TypeOK'
<1> SUFFICES ASSUME TypeOK, [Next]_vars PROVE TypeOK'
  OBVIOUS
<1>1. edits \in Nat /\ restarts \in 0..MaxRestarts /\ requotes \in Nat /\ faults \in 0..MaxFaults
  BY DEF TypeOK
<1>2. edits' \in Nat
  BY <1>1, ShopMoves
<1>3. restarts' \in 0..MaxRestarts
  BY <1>1, ShopMoves, NumbersAssumption DEF Restart
<1>4. requotes' \in Nat
  BY <1>1, ShopMoves
<1>6. faults' \in 0..MaxFaults
  BY <1>1, ShopMoves, NumbersAssumption
<1>5. QED
  BY <1>2, <1>3, <1>4, <1>6, ProductType, EventType, PriceType, InvType, TicketType, CallType,
     ManagerType, TaskType DEF TypeOK

-----------------------------------------------------------------------------
(* From the first state on.                                                *)

SaleInv == TypeOK /\ RowInv /\ TicketInv /\ UnsoldInv /\ CapInv /\ PaidIsServed

LEMMA InitSale == Init => SaleInv
<1> SUFFICES ASSUME Init PROVE SaleInv
  OBVIOUS
<1>1. TypeOK
  <2>1. NoInv \in InvRow
    BY NumbersAssumption DEF NoInv, InvRow
  <2>2. Idle \in CallRow /\ Idle \in ManagerRow /\ Idle \in TaskRow
    BY DEF Idle, CallRow, ManagerRow, TaskRow
  <2>3. task \in [Tasks -> TaskRow] /\ task["block"].pc # "row"
    BY <2>2 DEF Init, Tasks, Idle
  <2>4. restarts \in 0..MaxRestarts /\ faults \in 0..MaxFaults
    BY NumbersAssumption DEF Init
  <2>5. QED
    BY <2>1, <2>2, <2>3, <2>4 DEF Init, TypeOK
<1>2. \A i \in Invs : inv[i].status = "none" /\ ticket[i] = "none" /\ admitted[i] = 0
  BY DEF Init, NoInv
<1>3. task["block"].pc = "idle" /\ \A b \in Buyers : call[b].pc = "idle"
  BY DEF Init, Idle, Tasks
<1>4. RowInv /\ TicketInv /\ PaidIsServed
  BY <1>2, <1>3 DEF RowInv, TicketInv, PaidIsServed
<1>5. UnsoldInv
  BY <1>2, <1>3 DEF UnsoldInv, Init
<1>6. CapInv
  <2>1. ASSUME NEW t \in Tiers PROVE OfTier(t) = {} /\ Held(t) = 0
    <3>1. OfTier(t) = {}
      BY <1>2 DEF OfTier
    <3>2. QED
      BY <3>1, FS_EmptySet DEF Held
  <2>2. QED
    BY <2>1 DEF CapInv, Init
<1>7. QED
  BY <1>1, <1>4, <1>5, <1>6 DEF SaleInv

LEMMA NextSale == SaleInv /\ [Next]_vars => SaleInv'
BY NextType, NextRow, NextTicket, NextUnsold, NextServed, NextCap DEF SaleInv

LEMMA Sale == Spec => []SaleInv
BY InitSale, NextSale, PTL DEF Spec

-----------------------------------------------------------------------------
(* The theorems.                                                           *)

\* The types hold in every reachable state.
THEOREM TypeCorrect == Spec => []TypeOK
<1>1. SaleInv => TypeOK
  BY DEF SaleInv
<1>2. QED
  BY <1>1, Sale, PTL

\* A ticket is answered "valid" at the door at most once, and only when its
\* invoice was paid, whatever is scanned, voided, cancelled and purged.
THEOREM AdmitsOnce == Spec => []AdmittedOnce
<1>1. SaleInv => AdmittedOnce
  BY DEF SaleInv, TicketInv, AdmittedOnce, Paid
<1>2. QED
  BY <1>1, Sale, PTL

\* However many checkouts, links and edits interleave, a tier holds no more
\* places than its largest capacity and the invoices quoted again.
THEOREM CapHeld == Spec => []WithinCap
<1>1. SaleInv => WithinCap
  BY DEF SaleInv, CapInv, WithinCap
<1>2. QED
  BY <1>1, Sale, PTL

\* A paid invoice of an event has its ticket or its outcome at Luma, unless
\* the process stopped, or a statement failed, while its confirmation was being
\* handled.
THEOREM PaidServed == Spec => []PaidIsServed
<1>1. SaleInv => PaidIsServed
  BY DEF SaleInv
<1>2. QED
  BY <1>1, Sale, PTL
=============================================================================
