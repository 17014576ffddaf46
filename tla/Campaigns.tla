----------------------------- MODULE Campaigns -----------------------------
(***************************************************************************)
(* What a donation campaign says it has raised.                            *)
(*                                                                         *)
(* A campaign is a payment link in donation mode: a slug, an address of    *)
(* its own and a running total.  Donors either let the page make an        *)
(* invoice, which the block worker adds to the total when it confirms, or  *)
(* pay the campaign's address directly, which the mempool poll, a          *)
(* WebSocket push and the block scan may each see, in any order and more   *)
(* than once.  The dashboard pauses, edits and deletes links while this    *)
(* goes on, and the operator gives old links an address.                   *)
(*                                                                         *)
(* What is simplified.  How a payment makes an invoice detected is         *)
(* PaymentScanner's subject: here one step takes a pending invoice to      *)
(* detected.  A zatoshi is worth a cent.  Every campaign has the same      *)
(* name, so slugs are numbered by their suffix; the random slug after      *)
(* suffix 99 is left out, as are the text columns of a link.  The order of *)
(* the transactions of a batch does not matter and is left open.           *)
(***************************************************************************)
EXTENDS Naturals, Sequences, FiniteSetsExt, Functions

CONSTANTS
  Links,      \* calls of POST /payment-links/donation, and their rows
  Invs,       \* calls that make a donation invoice, and their rows
  Quoted,     \* the amount asked for
  Received,   \* amounts that may arrive for an invoice
  Txs,        \* transactions that pay campaign addresses
  Pays,       \* what each of them pays to each link's address
  Batch,      \* MAX_BLOCKS_PER_SCAN
  Patches,    \* bound: values of "active" in a PATCH; None leaves it alone
  Faults,     \* which of "crash", "busy", "norate", "fetch" happen
  Casts,      \* bound: who takes part in a behaviour; one of these records
  None

Workers == {"poll", "push", "block"}

ASSUME CastsAssumption ==
  \A c \in Casts :
    /\ c.workers \subseteq Workers /\ c.invs \subseteq Invs
    /\ c.old \subseteq Links   \* links made before campaigns had addresses
    /\ c.made \subseteq Links  \* links made now
    /\ c.edits \in Nat         \* PATCH and DELETE calls
    /\ c.faults \in Nat
ASSUME PaysAssumption == Pays \in [Txs -> [Links -> Nat]]
ASSUME AmountsAssumption == Received \subseteq Nat /\ Quoted \in Nat
ASSUME BoundsAssumption ==
  /\ Batch \in Nat \ {0} /\ IsFiniteSet(Links) /\ IsFiniteSet(Invs)
  /\ Patches \subseteq BOOLEAN \cup {None}
\* What a worker has yet to add to a total.
Credits == [to : Links, zat : Nat, cents : Nat]
ASSUME NoneAssumption == None \notin Nat \cup Txs \cup Credits

VARIABLES
  cast,       \* who takes part; never changes
  link,       \* payment_links, and what a creating call has found so far
  next,       \* merchants.diversifier_index
  row,        \* campaign_donations, as pairs of a link and a transaction
  inv,        \* invoices made by the campaign page
  mempool,    \* transactions not mined yet
  chain,      \* sequence of blocks, each a set of transactions
  height,     \* scanner_state.last_height
  seen,       \* the mempool worker's cache
  worker,     \* the three places campaigns are credited from
  edit,       \* a PATCH between its read and its write
  fill,       \* the operator's backfill call
  edits, faults,
  cut,        \* history: what an interrupted credit would have added
  spoilt,     \* history: mined donations given up, or not looked for
  idled       \* history: links that have ever been paused

rows == <<link, next, row, inv>>
net == <<mempool, chain>>
scan == <<height, seen, worker>>
calls == <<edit, fill, edits>>
history == <<cast, cut, spoilt, idled>>
vars == <<rows, net, scan, calls, faults, history>>

Nothing == [zat |-> 0, cents |-> 0]
NoLink == [st |-> "none", slug |-> 0, addr |-> None, active |-> FALSE,
           created |-> 0, total |-> Nothing]
NoInv == [st |-> "none", link |-> None, addr |-> None, call |-> "none",
          donation |-> FALSE, counted |-> FALSE, received |-> 0]
Rest == [pc |-> "idle", camps |-> {}, queue |-> {}, cur |-> None,
         left |-> {}, add |-> None, tip |-> 0, waiting |-> FALSE]
Blank == [pc |-> "idle"]

Live(l) == link[l].st = "live"
Plus(a, b) == [zat |-> a.zat + b.zat, cents |-> a.cents + b.cents]
Pending == {i \in Invs : inv[i].st \in {"pending", "detected"}}

Breaks(kind) == kind \in Faults /\ faults < cast.faults /\ faults' = faults + 1

----------------------------------------------------------------------------
(* Making a campaign *)

SlugTaken(n) == \E l \in Links : Live(l) /\ link[l].slug = n

Create(l) ==
  /\ link[l].st = "none" /\ l \in cast.made
  /\ link' = [link EXCEPT ![l].st = "naming", ![l].slug = 1]
  /\ UNCHANGED <<next, row, inv, net, scan, calls, faults, history>>

\* generate_donation_slug asks about one candidate after the other.
GenerateSlug(l) ==
  /\ link[l].st = "naming"
  /\ link' = IF SlugTaken(link[l].slug)
             THEN [link EXCEPT ![l].slug = @ + 1]
             ELSE [link EXCEPT ![l].st = "numbering"]
  /\ UNCHANGED <<next, row, inv, net, scan, calls, faults, history>>

\* Wrong: the index is read but the increment is lost
IndexReadOnly == next' = next

\* One UPDATE ... RETURNING: no two callers get the same index.
NextIndex == next' = next + 1

NumberLink(l) ==
  /\ link[l].st = "numbering"
  /\ NextIndex
  /\ link' = [link EXCEPT ![l].st = "inserting", ![l].addr = next]
  /\ UNCHANGED <<row, inv, net, scan, calls, faults, history>>

\* The unique index refuses a slug that somebody else has taken since.
InsertLink(l) ==
  /\ link[l].st = "inserting"
  /\ link' = IF SlugTaken(link[l].slug)
             THEN [link EXCEPT ![l].st = "refused"]
             ELSE [link EXCEPT ![l].st = "live", ![l].active = TRUE]
  /\ UNCHANGED <<next, row, inv, net, scan, calls, faults, history>>

----------------------------------------------------------------------------
(* The dashboard and the operator *)

UpdateRead ==
  /\ edit.pc = "idle" /\ edits < cast.edits /\ edits' = edits + 1
  /\ \E l \in Links, active \in Patches :
       /\ Live(l)
       /\ edit' = [pc |-> "write", id |-> l, old |-> link[l],
                   active |-> IF active = None THEN link[l].active ELSE active]
  /\ UNCHANGED <<rows, net, scan, fill, faults, history>>

\* Wrong: the whole row is written back as it was read
WrittenWhole == [edit.old EXCEPT !.active = edit.active]

\* Every editable column is written back; the totals are not among them.
Written == [link[edit.id] EXCEPT !.active = edit.active]

UpdateWrite ==
  /\ edit.pc = "write"
  /\ link' = IF Live(edit.id) THEN [link EXCEPT ![edit.id] = Written] ELSE link
  /\ idled' = IF edit.active THEN idled ELSE idled \cup {edit.id}
  /\ edit' = Blank
  /\ UNCHANGED <<next, row, inv, net, scan, fill, edits, faults, cast, cut, spoilt>>

\* campaign_donations refers to the link: a link with direct donations stays.
Delete(l) ==
  /\ Live(l) /\ edits < cast.edits /\ edits' = edits + 1
  /\ \A t \in Txs : <<l, t>> \notin row
  /\ link' = [link EXCEPT ![l].st = "deleted"]
  /\ UNCHANGED <<next, row, inv, net, scan, edit, fill, faults, history>>

BackfillRead ==
  /\ fill.pc = "idle"
  /\ \E l \in Links : Live(l) /\ link[l].addr = None
  /\ fill' = [pc |-> "next", addr |-> None,
              todo |-> {l \in Links : Live(l) /\ link[l].addr = None}]
  /\ UNCHANGED <<rows, net, scan, edit, edits, faults, history>>

BackfillNumber ==
  /\ fill.pc = "next" /\ fill.todo # {}
  /\ NextIndex
  /\ fill' = [fill EXCEPT !.pc = "write", !.addr = next]
  /\ UNCHANGED <<link, row, inv, net, scan, edit, edits, faults, history>>

BackfillWrite ==
  /\ fill.pc = "write"
  /\ \E l \in fill.todo :
       /\ link' = IF Live(l) THEN [link EXCEPT ![l].addr = fill.addr] ELSE link
       /\ fill' = IF fill.todo = {l} THEN Blank
                  ELSE [pc |-> "next", addr |-> None, todo |-> fill.todo \ {l}]
  /\ UNCHANGED <<next, row, inv, net, scan, edit, edits, faults, history>>

----------------------------------------------------------------------------
(* Donating through an invoice *)

\* resolve_donation up to create_invoice, whose own statements touch nothing
\* another call reads before the tag below.
ResolveDonation(i) ==
  /\ inv[i].st = "none" /\ i \in cast.invs
  /\ \E l \in Links :
       /\ Live(l) /\ link[l].active
       /\ inv' = [inv EXCEPT ![i] = [@ EXCEPT !.st = "pending", !.link = l,
                                              !.addr = next, !.call = "count"]]
  /\ NextIndex
  /\ UNCHANGED <<link, row, net, scan, calls, faults, history>>

IncrementCreated(i) ==
  /\ inv[i].call = "count"
  /\ inv' = [inv EXCEPT ![i].call = "tag"]
  /\ link' = [link EXCEPT ![inv[i].link].created = @ + 1]
  /\ UNCHANGED <<next, row, net, scan, calls, faults, history>>

\* The statement that makes the invoice a donation; its failure is ignored
\* and the donor gets the page either way.
TagInvoice(i) ==
  /\ inv[i].call = "tag"
  /\ \/ /\ inv' = [inv EXCEPT ![i].call = "shown", ![i].donation = TRUE]
        /\ UNCHANGED faults
     \/ /\ Breaks("busy")
        /\ inv' = [inv EXCEPT ![i].call = "shown"]
  /\ UNCHANGED <<link, next, row, net, scan, calls, history>>

PayInvoice(i) ==
  /\ inv[i].st = "pending" /\ inv[i].call = "shown"
  /\ \E r \in Received :
       inv' = [inv EXCEPT ![i].st = "detected", ![i].received = r]
  /\ UNCHANGED <<link, next, row, net, scan, calls, faults, history>>

Expire(i) ==
  /\ inv[i].st = "pending"
  /\ inv' = [inv EXCEPT ![i].st = "expired"]
  /\ UNCHANGED <<link, next, row, net, scan, calls, faults, history>>

----------------------------------------------------------------------------
(* Donating directly *)

Mined(t) == \E h \in 1..Len(chain) : t \in chain[h]

Send(t) ==
  /\ ~Mined(t) /\ t \notin mempool
  /\ \A l \in Links : Pays[t][l] > 0 => Live(l) /\ link[l].addr # None
  /\ mempool' = mempool \cup {t}
  /\ UNCHANGED <<rows, chain, scan, calls, faults, history>>

\* A transaction may be mined without the mempool worker having seen it.
Mine ==
  /\ mempool # {}
  /\ \E b \in SUBSET mempool \ {{}} :
       chain' = Append(chain, b) /\ mempool' = mempool \ b
  /\ UNCHANGED <<rows, scan, calls, faults, history>>

----------------------------------------------------------------------------
(* What the three workers have in common *)

Set(k, w) == worker' = [worker EXCEPT ![k] = w]

\* get_active_campaign_addresses
ActiveCampaigns == {l \in Links : Live(l) /\ link[l].active /\ link[l].addr # None}

\* unwrap_or_default, at all three of its callers: a query that fails is
\* taken for one that finds no campaign.
LooksFor(camps) ==
  \/ camps = ActiveCampaigns /\ UNCHANGED faults
  \/ camps = {} /\ Breaks("busy")

\* collect_mempool_invoice_totals and its copy in scan_blocks
Collect(k) ==
  /\ worker[k].pc = "tx" /\ worker[k].cur = None
  /\ \E t \in worker[k].queue :
       Set(k, [worker[k] EXCEPT
                 !.cur = t,
                 !.left = {l \in worker[k].camps : Pays[t][l] > 0}])
  /\ UNCHANGED <<rows, net, height, seen, calls, faults, history>>

\* Wrong: no unique index on (txid, link_id)
AnyRow(l, t) == Live(l)

\* INSERT OR IGNORE and the foreign key: a row appears at most once, and only
\* for a link that is still there.
NewRow(l, t) == <<l, t>> \notin row /\ Live(l)

RecordDonation(k) ==
  /\ worker[k].pc = "tx" /\ worker[k].cur # None /\ worker[k].add = None
  /\ \E l \in worker[k].left :
       LET t == worker[k].cur
           w == [worker[k] EXCEPT !.left = @ \ {l}] IN
       IF NewRow(l, t)
       THEN /\ row' = row \cup {<<l, t>>}
            /\ Set(k, [w EXCEPT !.add = [to |-> l, zat |-> Pays[t][l],
                                         cents |-> Pays[t][l]]])
       ELSE row' = row /\ Set(k, w)
  /\ UNCHANGED <<link, next, inv, net, height, seen, calls, faults, history>>

\* No exchange rate, or a failed INSERT: the credit is skipped, the scan goes on.
SkipDonation(k) ==
  /\ worker[k].pc = "tx" /\ worker[k].cur # None /\ worker[k].add = None
  /\ Breaks("norate") \/ Breaks("busy")
  /\ \E l \in worker[k].left :
       /\ Set(k, [worker[k] EXCEPT !.left = @ \ {l}])
       /\ spoilt' = IF k = "block" THEN spoilt \cup {<<l, worker[k].cur>>} ELSE spoilt
  /\ UNCHANGED <<rows, net, height, seen, calls, cast, cut, idled>>

\* One additive UPDATE; nothing happens for a link that has gone.
IncrementRaised(k) ==
  LET a == worker[k].add IN
  /\ a # None
  /\ link' = IF Live(a.to) THEN [link EXCEPT ![a.to].total = Plus(@, a)] ELSE link
  /\ Set(k, [worker[k] EXCEPT !.add = None])
  /\ UNCHANGED <<next, row, inv, net, height, seen, calls, faults, history>>

\* ... which may fail too, after the row that prevents a second try.
IncrementFails(k) ==
  LET a == worker[k].add IN
  /\ a # None /\ Breaks("busy")
  /\ cut' = [cut EXCEPT ![a.to] = Plus(@, a)]
  /\ Set(k, [worker[k] EXCEPT !.add = None])
  /\ UNCHANGED <<rows, net, height, seen, calls, cast, spoilt, idled>>

TxDone(k) == /\ worker[k].cur # None
             /\ worker[k].left = {} /\ worker[k].add = None
Onward(k) == [worker[k] EXCEPT !.cur = None, !.queue = @ \ {worker[k].cur}]

----------------------------------------------------------------------------
(* The mempool poll and the WebSocket push *)

\* Both give up at once when no invoice is waiting.
PollStart ==
  /\ "poll" \in cast.workers /\ worker["poll"].pc = "idle" /\ Pending # {}
  /\ mempool \ seen # {}
  /\ \E camps \in {ActiveCampaigns, {}} :
       /\ LooksFor(camps)
       /\ Set("poll", [Rest EXCEPT !.pc = "tx", !.camps = camps,
                                   !.queue = mempool \ seen])
  /\ UNCHANGED <<rows, net, height, seen, calls, history>>

PollNext ==
  /\ TxDone("poll")
  /\ seen' = seen \cup {worker["poll"].cur}
  /\ Set("poll", IF worker["poll"].queue = {worker["poll"].cur} THEN Rest
                 ELSE Onward("poll"))
  /\ UNCHANGED <<rows, net, height, calls, faults, history>>

PushStart ==
  /\ "push" \in cast.workers /\ worker["push"].pc = "idle" /\ Pending # {}
  /\ \E t \in mempool, camps \in {ActiveCampaigns, {}} :
       /\ LooksFor(camps)
       /\ Set("push", [Rest EXCEPT !.pc = "tx", !.camps = camps, !.queue = {t}])
  /\ UNCHANGED <<rows, net, height, seen, calls, history>>

PushDone ==
  /\ TxDone("push") /\ Set("push", Rest)
  /\ UNCHANGED <<rows, net, height, seen, calls, faults, history>>

----------------------------------------------------------------------------
(* The block worker *)

BlockStart ==
  /\ "block" \in cast.workers /\ worker["block"].pc = "idle"
  /\ Len(chain) > height \/ \E i \in Invs : inv[i].st = "detected"
  /\ Set("block", [Rest EXCEPT
                     !.pc = "confirm",
                     !.queue = {i \in Invs : inv[i].st = "detected"},
                     !.waiting = Pending # {}])
  /\ UNCHANGED <<rows, net, height, seen, calls, faults, history>>

\* mark_confirmed, for one of the detected invoices
Confirm ==
  /\ worker["block"].pc = "confirm" /\ worker["block"].add = None
  /\ \E i \in worker["block"].queue :
       /\ inv' = [inv EXCEPT ![i].st = "confirmed"]
       /\ Set("block", [worker["block"] EXCEPT !.pc = "count", !.cur = i,
                                               !.queue = @ \ {i}])
  /\ UNCHANGED <<link, next, row, net, height, seen, calls, faults, history>>

ToConfirm == [worker["block"] EXCEPT !.pc = "confirm", !.cur = None]

\* on_invoice_confirmed marks the invoice counted, then adds to the total.
\* The invoice in hand was read before it was confirmed, so that it has no
\* confirmation rate and the cents are those of the quote.
CountInvoice ==
  LET i == worker["block"].cur IN
  /\ worker["block"].pc = "count"
  /\ inv[i].donation /\ ~inv[i].counted
  /\ inv' = [inv EXCEPT ![i].counted = TRUE]
  /\ Set("block", [ToConfirm EXCEPT !.add = [to |-> inv[i].link,
                                             zat |-> inv[i].received,
                                             cents |-> Quoted]])
  /\ UNCHANGED <<link, next, row, net, height, seen, calls, faults, history>>

NotADonation ==
  /\ worker["block"].pc = "count"
  /\ \/ ~inv[worker["block"].cur].donation /\ UNCHANGED faults
     \/ Breaks("busy")
  /\ Set("block", ToConfirm)
  /\ UNCHANGED <<rows, net, height, seen, calls, history>>

GetHeight ==
  /\ worker["block"].pc = "confirm"
  /\ worker["block"].queue = {} /\ worker["block"].add = None
  /\ Set("block", [worker["block"] EXCEPT !.pc = "camps", !.tip = Len(chain)])
  /\ UNCHANGED <<rows, net, height, seen, calls, faults, history>>

BatchEnd(w, from) == IF w.tip > from + Batch THEN from + Batch ELSE w.tip

\* What a worker that looks for these campaigns does not see up to there.
Unsought(camps, end) ==
  {p \in (ActiveCampaigns \ camps) \X Txs :
     Pays[p[2]][p[1]] > 0 /\ \E h \in (height + 1)..end : p[2] \in chain[h]}

\* The campaigns are read after the height of the chain.  With nothing to look
\* for the worker jumps to that height; with invoices alone it may skip blocks
\* older than those.
ReadCampaigns ==
  LET w == worker["block"] IN
  /\ w.pc = "camps"
  /\ \E camps \in {ActiveCampaigns, {}} :
       /\ LooksFor(camps)
       /\ \/ /\ w.waiting \/ camps # {}
             /\ \E from \in height..w.tip :
                  /\ from = height \/ camps = {}
                  /\ Set("block", [w EXCEPT !.pc = "tx", !.camps = camps,
                                            !.tip = BatchEnd(w, from),
                                            !.queue = UNION {chain[h] :
                                              h \in (from + 1)..BatchEnd(w, from)}])
                  /\ spoilt' = spoilt \cup Unsought(camps, BatchEnd(w, from))
             /\ UNCHANGED height
          \/ /\ ~w.waiting /\ camps = {}
             /\ height' = w.tip
             /\ spoilt' = spoilt \cup Unsought(camps, w.tip)
             /\ Set("block", Rest)
  /\ UNCHANGED <<rows, net, seen, calls, cast, cut, idled>>

BlockTxDone ==
  /\ TxDone("block") /\ worker["block"].pc = "tx"
  /\ seen' = seen \cup {worker["block"].cur}
  /\ Set("block", Onward("block"))
  /\ UNCHANGED <<rows, net, height, calls, faults, history>>

\* A transaction that cannot be fetched leaves the batch to the next round.
FetchFails ==
  /\ worker["block"].pc = "tx" /\ worker["block"].cur = None
  /\ worker["block"].queue # {}
  /\ Breaks("fetch")
  /\ Set("block", Rest)
  /\ UNCHANGED <<rows, net, height, seen, calls, history>>

\* Wrong: the checkpoint is the height the chain has by now
ScannedToTip == Len(chain)

Scanned == worker["block"].tip

Checkpoint ==
  /\ worker["block"].pc = "tx" /\ worker["block"].cur = None
  /\ worker["block"].queue = {}
  /\ height' = Scanned
  /\ Set("block", Rest)
  /\ UNCHANGED <<rows, net, seen, calls, faults, history>>

----------------------------------------------------------------------------
(* A restart: what is not in the database is gone. *)

Owed(k, l) ==
  IF worker[k].add # None /\ worker[k].add.to = l THEN worker[k].add ELSE Nothing
OwedAll(l) == Plus(Owed("poll", l), Plus(Owed("push", l), Owed("block", l)))

Crash ==
  /\ Breaks("crash")
  /\ worker' = [k \in Workers |-> Rest] /\ seen' = {}
  /\ edit' = Blank /\ fill' = Blank
  /\ link' = [l \in Links |->
                IF link[l].st \in {"naming", "numbering", "inserting"}
                THEN [NoLink EXCEPT !.st = "refused"] ELSE link[l]]
  /\ inv' = [i \in Invs |->
               IF inv[i].call \in {"count", "tag"}
               THEN [inv[i] EXCEPT !.call = "lost"] ELSE inv[i]]
  /\ cut' = [l \in Links |-> Plus(cut[l], OwedAll(l))]
  /\ UNCHANGED <<next, row, net, height, edits, cast, spoilt, idled>>

----------------------------------------------------------------------------
Init ==
  /\ cast \in Casts
  /\ link = [l \in Links |->
               IF l \in cast.old
               THEN [NoLink EXCEPT !.st = "live", !.slug = 1, !.active = TRUE]
               ELSE NoLink]
  /\ next = 0 /\ row = {}
  /\ inv = [i \in Invs |-> NoInv]
  /\ mempool = {} /\ chain = <<>>
  /\ height = 0 /\ seen = {}
  /\ worker = [k \in Workers |-> Rest]
  /\ edit = Blank /\ fill = Blank /\ edits = 0 /\ faults = 0
  /\ cut = [l \in Links |-> Nothing] /\ spoilt = {} /\ idled = {}

OfLink(l) ==
  Create(l) \/ GenerateSlug(l) \/ NumberLink(l) \/ InsertLink(l) \/ Delete(l)
OfInvoice(i) ==
  \/ ResolveDonation(i) \/ IncrementCreated(i) \/ TagInvoice(i)
  \/ PayInvoice(i) \/ Expire(i)
Dashboard ==
  UpdateRead \/ UpdateWrite \/ BackfillRead \/ BackfillNumber \/ BackfillWrite
Credit(k) ==
  \/ Collect(k) \/ RecordDonation(k) \/ SkipDonation(k)
  \/ IncrementRaised(k) \/ IncrementFails(k)
Blocks ==
  \/ BlockStart \/ Confirm \/ CountInvoice \/ NotADonation \/ GetHeight
  \/ ReadCampaigns \/ BlockTxDone \/ FetchFails \/ Checkpoint

Next ==
  \/ \E l \in Links : OfLink(l)
  \/ \E i \in Invs : OfInvoice(i)
  \/ \E t \in Txs : Send(t)
  \/ \E k \in Workers : Credit(k)
  \/ Dashboard \/ Blocks \/ Mine
  \/ PollStart \/ PollNext \/ PushStart \/ PushDone
  \/ Crash

Spec == Init /\ [][Next]_vars

----------------------------------------------------------------------------
(* Properties *)

Totals == [zat : Nat, cents : Nat]

\* Every variable holds what its column or its local may hold.
TypeOK ==
  /\ link \in [Links ->
       [st : {"none", "naming", "numbering", "inserting", "live", "refused", "deleted"},
        slug : 0..Cardinality(Links), addr : Nat \cup {None}, active : BOOLEAN,
        created : 0..Cardinality(Invs), total : Totals]]
  /\ next \in Nat /\ row \subseteq Links \X Txs
  /\ inv \in [Invs ->
       [st : {"none", "pending", "detected", "confirmed", "expired"},
        link : Links \cup {None}, addr : Nat \cup {None},
        call : {"none", "count", "tag", "shown", "lost"},
        donation : BOOLEAN, counted : BOOLEAN, received : Received \cup {0}]]
  /\ mempool \subseteq Txs /\ chain \in Seq(SUBSET Txs)
  /\ height \in 0..Len(chain) /\ seen \subseteq Txs
  /\ \A k \in Workers :
       /\ worker[k].pc \in {"idle", "tx", "confirm", "count", "camps"}
       /\ worker[k].camps \subseteq Links /\ worker[k].left \subseteq Links
       /\ worker[k].queue \subseteq Txs \cup Invs
       /\ worker[k].cur \in Txs \cup Invs \cup {None}
       /\ worker[k].tip \in 0..Len(chain) /\ worker[k].add \in Credits \cup {None}
  /\ cast \in Casts /\ edit.pc \in {"idle", "write"} /\ fill.pc \in {"idle", "next", "write"}
  /\ edits \in 0..cast.edits /\ faults \in 0..cast.faults
  /\ cut \in [Links -> Totals] /\ spoilt \subseteq Links \X Txs
  /\ idled \subseteq Links

DonationsTo(l) == {t \in Txs : <<l, t>> \in row}
CountedFor(l) == {i \in Invs : inv[i].link = l /\ inv[i].counted}
Given(l) ==
  SumFunctionOnSet([t \in Txs |-> Pays[t][l]], DonationsTo(l))
    + SumFunctionOnSet([i \in Invs |-> inv[i].received], CountedFor(l))
Accounted(l) == Plus(link[l].total, Plus(OwedAll(l), cut[l]))

\* The zatoshis a campaign shows, with what a worker is about to add and what
\* an interrupted worker never added, are the direct donations on record and
\* the invoices counted, each once: however often the poll, a push and the
\* block scan meet a transaction, and whatever the dashboard writes meanwhile
\* (payment_links/mod.rs: "Atomically increment", "without double-counting").
TotalsAddUp == \A l \in Links : Live(l) => Accounted(l).zat = Given(l)

\* Once the checkpoint has passed the block of a direct donation, the donation
\* is on record, unless its campaign was paused, the block worker had to give
\* the credit up, or its list of campaigns could not be read, which the code
\* takes for an empty one and does not look at the blocks again.  A campaign
\* made while a batch is scanned, a restart, a failed fetch and a list that the
\* poll or a push could not read lose none.
DonationsNotMissed ==
  \A h \in 1..height : \A t \in chain[h] : \A l \in Links \ idled :
    Pays[t][l] > 0 /\ Live(l) /\ <<l, t>> \notin spoilt => <<l, t>> \in row

\* Money to an address belongs to one campaign or to one invoice: no two of
\* them are ever given the same address, whoever asks for one at the same time.
OneOwner ==
  /\ \A l, m \in Links : l # m /\ link[l].addr # None => link[l].addr # link[m].addr
  /\ \A i, j \in Invs : i # j /\ inv[i].addr # None => inv[i].addr # inv[j].addr
  /\ \A l \in Links, i \in Invs : link[l].addr # None => link[l].addr # inv[i].addr

\* "For donations, use actual received ZEC converted at confirmation rate -
\* there's no overpay/underpay concept, the received amount IS the donation"
\* (scanner/mod.rs:838): the cents raised are what arrived.
RaisedIsReceived == \A l \in Links : Live(l) => Accounted(l).cents = Given(l)

=============================================================================
