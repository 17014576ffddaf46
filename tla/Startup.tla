------------------------------ MODULE Startup ------------------------------
(***************************************************************************)
(* What happens to a database when the server starts on it.                *)
(*                                                                         *)
(* There are no numbered migration files.  Each start runs the same list   *)
(* of named migrations; schema_migrations remembers which have been        *)
(* applied, and a migration found "running" was cut off by a crash and     *)
(* makes the server refuse to start.  The first migration is the long      *)
(* inline bootstrap, which adds what is missing to a schema of any age and *)
(* rebuilds the tables SQLite cannot alter: rename, create, copy, drop,    *)
(* each a statement of its own, none in a transaction, whose errors are    *)
(* ignored.  Later migrations are transactions, or statements whose errors *)
(* stop the start.  The last ones encrypt what merchants have stored, row  *)
(* by row, and are tracked only when the server has an encryption key.     *)
(*                                                                         *)
(* A migration is data here, a sequence of statements, and there is one    *)
(* action for each kind of statement.  A table is the set of rows it       *)
(* holds and the set of things a later statement asks of its schema:       *)
(* columns, usually several added together, and words its text must have   *)
(* or lack.  Indexes, defaults, backfilled columns and tables nothing else *)
(* here reads are left out, and so are viewing keys of which no incoming   *)
(* key can be derived.                                                     *)
(*                                                                         *)
(* A definition whose comment starts with "Wrong" is a mistake that some   *)
(* property notices in place of the one it precedes.                       *)
(***************************************************************************)
EXTENDS Naturals, SequencesExt

CONSTANTS
  Merchants,  \* rows of merchants
  OldMerchants, \* those an older version made; the others register
  Levels,     \* which older databases there are; the names below
  MaxCrashes, \* bound
  MaxFaults,  \* bound: statements that fail for no reason of the schema
  None

Older == {"fresh", "released", "grown", "shipped"}

ASSUME LevelsAssumption == Levels \subseteq Older /\ OldMerchants \subseteq Merchants
ASSUME BoundsAssumption == MaxCrashes \in Nat /\ MaxFaults \in Nat

VARIABLES
  level,      \* the database this one was; never changes
  tables,     \* [table name -> its schema and rows, or None]
  status,     \* schema_migrations
  merchant,   \* what a merchant's row holds, or None
  key,        \* whether ENCRYPTION_KEY is set
  pc,         \* the next statement, or Down, or Up
  crashes,
  faults

vars == <<level, tables, status, merchant, key, pc, crashes, faults>>

Down == 0

----------------------------------------------------------------------------
(* Statements.  Those marked strict stop the start when they fail, the     *)
(* others are followed by .ok().                                           *)

\* CREATE TABLE IF NOT EXISTS.
Create(t, has) == [op |-> "create", table |-> t, has |-> has]

\* One or more ALTER TABLE ADD COLUMN, each failing when the column is there.
Add(t, has) == [op |-> "add", table |-> t, has |-> has]

\* DROP TABLE IF EXISTS.
DropIfThere(t) == [op |-> "drop", table |-> t]

\* The columns a table lacks, looked up first and then added.
Ensure(t, has) == [op |-> "add", table |-> t, has |-> has]

\* A table is rebuilt when its text has one of the words "with" or lacks one
\* of "without".  "reads" are the columns of the old table the copy names, None
\* when it is SELECT *, and "ordered" says that the values are given to the
\* columns of the new table in order.  "has" is None where the new text is the
\* old one without its wrong reference.
Rebuild(t, temp, with, without, has, reads, ordered) ==
  << [op |-> "test", table |-> t, with |-> with, without |-> without],
     [op |-> "rename", table |-> t, temp |-> temp],
     [op |-> "make", table |-> t, temp |-> temp, has |-> has],
     [op |-> "copy", table |-> t, temp |-> temp, has |-> has,
      reads |-> reads, ordered |-> ordered],
     [op |-> "drop", table |-> temp] >>
RebuildLength == 5

\* Statements of one transaction, each with "?"; one of them alone is the same.
\* Each pair of "fills" puts every row of its second table into its first.
Strict(adds, fills) == <<[op |-> "strict", adds |-> adds, fills |-> fills]>>

Tracked(m, body) ==
  <<[op |-> "begin", name |-> m]>> \o body \o <<[op |-> "end", name |-> m]>>

----------------------------------------------------------------------------
(* The inline bootstrap, in its order.                                     *)

\* migrations/001_init.sql, the oldest schema the repository has.
Init001 ==
  << Create("merchants", {}),
     Create("invoices", {"refunded", "underpaid", "zatoshis"}),
     Create("products", {"price_eur"}),
     Create("webhook_deliveries", {"not_null"}) >>

EarlyColumns ==
  << Add("merchants", {"secrets"}),
     Create("products", {"default_price"}),
     Add("invoices", {"refund"}),
     Add("invoices", {"refund_txid"}),
     Add("products", {"default_price"}) >>

\* "shipped" is no longer a status, and "refunded" is one.
DropShipped ==
  Rebuild("invoices", "invoices_old", {"shipped"}, {"refunded"},
          {"refunded", "refund"}, {"refund"}, TRUE)

Amounts ==
  << Add("merchants", {"diversifier_index"}),
     Add("invoices", {"receiver"}),
     Add("invoices", {"zatoshis"}) >>

AddUnderpaid ==
  Rebuild("invoices", "invoices_old2", {}, {"underpaid"},
          {"refunded", "underpaid", "refund", "receiver", "zatoshis"},
          {"refund", "receiver", "zatoshis"}, TRUE)

Leftovers == << DropIfThere("invoices_old"), DropIfThere("invoices_old2") >>

DropLegacyPrice ==
  Rebuild("products", "products_old", {"price_eur"}, {},
          {"default_price"}, {"default_price"}, FALSE)
  \o << DropIfThere("products_old") >>

\* References that a rename without legacy_alter_table rewrote.
RepairPrices ==
  Rebuild("prices", "_prices_repair", {"products_old"}, {},
          {"price_type"}, None, TRUE)
  \o << DropIfThere("_prices_repair") >>

\* The new text is the old one with the reference replaced.
RepairInvoices ==
  Rebuild("invoices", "_inv_repair", {"products_old"}, {}, None, None, TRUE)
  \o << DropIfThere("_inv_repair") >>

RepairDeliveries ==
  Rebuild("webhook_deliveries", "_wd_repair", {"invoices_old"}, {},
          {"event_type"}, {}, FALSE)
  \o << DropIfThere("_wd_repair") >>

RepairLedger ==
  Rebuild("fee_ledger", "_fl_repair", {"invoices_old"}, {},
          {"fee_zatoshis"}, {}, FALSE)
  \o << DropIfThere("_fl_repair") >>

BillingTables ==
  << Create("recovery_tokens", {}),
     Add("merchants", {"billing", "fee_rate"}),
     Create("fee_ledger", {"fee_zatoshis"}),
     Add("fee_ledger", {"fee_zatoshis"}),
     Add("fee_ledger", {"fee_rate_applied"}),
     Create("billing_cycles", {"cycle_zatoshis", "carried_over"}),
     Add("billing_cycles", {"cycle_zatoshis"}) >>

AddCarriedOver ==
  Rebuild("billing_cycles", "_bc_migrate", {}, {"carried_over"},
          {"cycle_zatoshis", "carried_over"}, {}, FALSE)

Prices ==
  << Create("email_events", {}),
     Create("prices", {}),
     Add("prices", {"label"}),
     [op |-> "seed"],
     Add("invoices", {"amount"}) >>

AgentTables ==
  << Create("x402_verifications", {}),
     Add("x402_verifications", {"protocol"}),
     Create("agent_sessions", {}),
     Create("session_requests", {}) >>

LinksAndSubscriptions ==
  << Create("payment_links", {"not_null"}),
     Add("prices", {"price_type"}),
     Create("subscriptions", {"label"}),
     Add("subscriptions", {"label"}),
     Add("invoices", {"subscription_id"}),
     Add("subscriptions", {"current_invoice_id"}) >>

AddDraft ==
  Rebuild("invoices", "_inv_draft_migrate", {}, {"draft"},
          {"refunded", "underpaid", "draft", "refund", "refund_txid",
           "receiver", "zatoshis", "amount", "subscription_id"},
          {"refund", "refund_txid", "receiver", "zatoshis", "amount",
           "subscription_id"}, TRUE)
  \o << DropIfThere("_inv_draft_migrate") >>

\* Columns looked for a second time.
BeltAndSuspenders ==
  << Ensure("invoices", {"subscription_id"}),
     Ensure("invoices", {"amount"}),
     Ensure("subscriptions", {"current_invoice_id"}),
     Ensure("subscriptions", {"label"}) >>

Deliveries ==
  << Add("webhook_deliveries", {"event_type"}) >>
  \o Rebuild("webhook_deliveries", "_webhook_deliveries_migrate",
             {"not_null"}, {}, {"event_type"}, {"event_type"}, FALSE)

GuestsAndDonations ==
  << Add("merchants", {"email_hash"}),
     Add("invoices", {"luma"}),
     Add("payment_links", {"mode"}),
     Add("invoices", {"donation"}),
     Add("payment_links", {"campaign_address"}),
     Create("campaign_donations", {}) >>

OptionalPrice ==
  Rebuild("payment_links", "payment_links_old", {"not_null"}, {},
          {"mode"}, {"mode"}, TRUE)

LastTables ==
  << Create("passkey_credentials", {}),
     Add("merchants", {"last_token_login_at"}),
     Create("invoice_payments", {}),
     Create("x402_idempotency", {}) >>

\* validate_schema_state: what must be there before the bootstrap is applied.
Required ==
  [t \in {"merchants", "invoices", "products", "prices", "webhook_deliveries",
          "fee_ledger", "billing_cycles", "x402_verifications",
          "agent_sessions", "session_requests", "recovery_tokens",
          "email_events"} |->
     CASE t = "merchants" -> {"secrets", "diversifier_index", "billing",
                              "email_hash", "fee_rate"}
       [] t = "invoices" -> {"refund", "refund_txid", "receiver", "zatoshis"}
       [] t = "webhook_deliveries" -> {"event_type"}
       [] t = "fee_ledger" -> {"fee_zatoshis", "fee_rate_applied"}
       [] t = "billing_cycles" -> {"cycle_zatoshis"}
       [] t = "x402_verifications" -> {"protocol"}
       [] OTHER -> {}]

Bootstrap ==
  FlattenSeq(<< Init001, EarlyColumns, DropShipped, Amounts, AddUnderpaid,
                Leftovers, DropLegacyPrice, RepairPrices, RepairInvoices,
                RepairDeliveries, RepairLedger, BillingTables, AddCarriedOver,
                Prices, AgentTables, LinksAndSubscriptions, AddDraft,
                BeltAndSuspenders, Deliveries, GuestsAndDonations,
                OptionalPrice, LastTables, <<[op |-> "validate"]>> >>)

----------------------------------------------------------------------------
(* The migrations after it, and the whole start.                           *)

LaterColumns ==
  Tracked("billing_emails",
    << Add("merchants", {"fee_rate"}), Add("fee_ledger", {"fee_rate_applied"}),
       Create("email_events", {}) >>)
  \o Tracked("payment_email_preferences",
             Strict(<<Add("merchants", {"payment_email"})>>, {}))
  \o Tracked("payment_email_queue",
             Strict(<<Create("payment_email_queue", {})>>, {}))

AuthTables ==
  Tracked("passkey_auth",
    << Create("passkey_credentials", {}),
       Add("merchants", {"last_token_login_at"}) >>)
  \o Tracked("remove_programmatic_registration",
             << DropIfThere("registration_requests") >>)
  \o Tracked("merchant_api_keys", << Create("merchant_api_keys", {}) >>)
  \o Tracked("subscription_pause", << Add("subscriptions", {"pause"}) >>)
  \o Tracked("pos_pin", << Add("merchants", {"pos_pin"}) >>)

PaymentTables ==
  Tracked("invoice_payments", << Create("invoice_payments", {}) >>)
  \o Tracked("accounting",
             << Add("invoices", {"confirmed_rate"}),
                Create("ledger_tokens", {}) >>)

\* Wrong: the column is taken to be there since the bootstrap added it.
CampaignColumnsOnce ==
  Tracked("campaign_catchall_addresses", << Create("campaign_donations", {}) >>)
  \o Tracked("campaign_zec_tracking",
             << Add("payment_links", {"raised_zatoshis"}) >>)
  \o Tracked("campaign_directory", << Add("payment_links", {"listed"}) >>)

CampaignColumns ==
  Tracked("campaign_catchall_addresses",
    << Add("payment_links", {"campaign_address"}),
       Create("campaign_donations", {}) >>)
  \o Tracked("campaign_zec_tracking",
             << Add("payment_links", {"raised_zatoshis"}) >>)
  \o Tracked("campaign_directory", << Add("payment_links", {"listed"}) >>)

\* One transaction: what earlier versions took as a payment stays taken.
AuditRepairs ==
  Tracked("audit_repairs",
    Strict(<< Create("payment_consumptions", {}),
              Create("session_charges", {}),
              Create("x402_idempotency_v2", {}) >>,
           {<<"payment_consumptions", "agent_sessions">>,
            <<"payment_consumptions", "x402_verifications">>}))

PaymentOutbox ==
  Tracked("payment_outbox", Strict(<<Add("invoices", {"outbox"})>>, {}))

CrossChainTables ==
  Tracked("crosschain", Strict(<< Add("invoices", {"exact_payment"}),
                                  Create("crosschain_attempts", {}) >>, {}))
  \o Tracked("crosschain_fees",
             Strict(<<Create("crosschain_fees", {})>>, {}))
  \o Tracked("crosschain_settlements",
             Strict(<<Create("crosschain_settlements", {})>>, {}))

\* Every invoice gets a checkout token, later ones from a trigger.
CheckoutSecurity ==
  Tracked("checkout_security",
    Strict(<< Create("checkout_access", {}),
              Create("deferred_payment_fees", {}),
              Create("crosschain_deliveries", {}) >>,
           {<<"checkout_access", "invoices">>}))

ReferralTables ==
  Tracked("referrals", Strict(<< Create("merchant_referrals", {}),
                                 Add("fee_ledger", {"collected"}) >>, {}))
  \o Tracked("referral_guardrails",
             Strict(<<Create("referral_wallet_history", {})>>, {}))
  \o Tracked("crosschain_controls",
             Strict(<<Add("merchants", {"crosschain_enabled"})>>, {}))
  \o Tracked("crosschain_provider_handled",
             Strict(<<Create("crosschain_provider_confirmations", {})>>, {}))

Schema ==
  FlattenSeq(<< Tracked("inline", Bootstrap), LaterColumns, AuthTables,
                PaymentTables, CampaignColumns, AuditRepairs, PaymentOutbox,
                CrossChainTables, CheckoutSecurity, ReferralTables >>)

Data(kind) == << [op |-> "data", kind |-> kind] >>

\* Wrong: tracked with or without a key.
DataMigrationsTracked(keyed) ==
  Tracked("data_encrypt_ufvks", Data("encrypt_keys"))
  \o Tracked("data_ufvk_to_uivk", Data("to_uivk"))
  \o Tracked("data_encrypt_webhook_secrets", Data("encrypt_secrets"))
  \o Tracked("data_encrypt_recovery_emails", Data("encrypt_emails"))
  \o Tracked("data_blind_index_to_hmac", Data("rehash"))
  \o Tracked("data_blind_index_fix_key_decode", Data("rehash"))

\* main: the same functions, tracked when there is a key.
DataMigrations(keyed) ==
  IF keyed
  THEN Tracked("data_encrypt_ufvks", Data("encrypt_keys"))
       \o Tracked("data_ufvk_to_uivk", Data("to_uivk"))
       \o Tracked("data_encrypt_webhook_secrets", Data("encrypt_secrets"))
       \o Tracked("data_encrypt_recovery_emails", Data("encrypt_emails"))
       \o Tracked("data_blind_index_to_hmac", Data("rehash"))
       \o Tracked("data_blind_index_fix_key_decode", Data("rehash"))
  ELSE Data("encrypt_keys") \o Data("to_uivk") \o Data("encrypt_secrets")
       \o Data("encrypt_emails") \o Data("rehash")

KeyedStart == Schema \o DataMigrations(TRUE)
KeylessStart == Schema \o DataMigrations(FALSE)
Start == IF key THEN KeyedStart ELSE KeylessStart
Up == Len(KeyedStart) + Len(KeylessStart)  \* past the last statement of both

Migrations ==
  {KeyedStart[i].name : i \in {j \in DOMAIN KeyedStart :
                                 KeyedStart[j].op = "begin"}}

----------------------------------------------------------------------------
(* Older databases.                                                        *)

Table(has, rows) == [has |-> has, rows |-> rows]
Old(has) == Table(has, {"r1"})

\* The oldest release, and one that has taken payments and whose references
\* were rewritten by a rename; and the schema the first two rebuilds look for.
OldTables(l) ==
  CASE l = "fresh" -> [t \in {} |-> None]
    [] l = "released" ->
         [merchants |-> Old({}), products |-> Old({"price_eur"}),
          invoices |-> Old({"refunded", "underpaid", "zatoshis"}),
          webhook_deliveries |-> Old({"not_null"})]
    [] l = "grown" ->
         [merchants |-> Old({"secrets", "diversifier_index"}),
          products |-> Old({"default_price"}),
          prices |-> Old({"price_type", "products_old"}),
          invoices |-> Old({"refunded", "underpaid", "zatoshis", "refund",
                            "refund_txid", "receiver", "products_old"}),
          webhook_deliveries |-> Old({"not_null", "invoices_old"}),
          fee_ledger |-> Old({"invoices_old"}),
          billing_cycles |-> Old({"cycle_zatoshis"}),
          payment_links |-> Old({"not_null"}),
          agent_sessions |-> Old({}),
          x402_verifications |-> Table({}, {"r2"})]
    [] l = "shipped" ->
         [merchants |-> Old({}), products |-> Old({"price_eur", "currency"}),
          invoices |-> Old({"shipped"}),
          webhook_deliveries |-> Old({"not_null"})]

Steps(op) == {Schema[i] : i \in {j \in DOMAIN Schema : Schema[j].op = op}}
Renames == Steps("rename")
Temps == [t \in {s.table : s \in Renames} |->
            {s.temp : s \in {r \in Renames : r.table = t}}]

Names ==
  {s.table : s \in Steps("create") \cup Renames}
    \cup {s.temp : s \in Renames}
    \cup UNION {{c.table : c \in ToSet(s.adds)} : s \in Steps("strict")}

\* Everything a schema may have.
Words ==
  UNION {s.has : s \in Steps("create") \cup Steps("add")}
    \cup UNION {UNION {c.has : c \in ToSet(s.adds)} : s \in Steps("strict")}
    \cup {"shipped", "draft", "products_old", "invoices_old", "currency"}

\* What an older version stored: everything plain, or sealed when it had the
\* key; the blind index of the e-mail address is newer.
OldMerchant(sealed) ==
  [kind |-> "ufvk", sealed |-> sealed, secret |-> sealed,
   email |-> sealed, hash |-> "none"]

Init ==
  /\ level \in Levels
  /\ key \in BOOLEAN
  /\ tables = [t \in Names |-> IF t \in DOMAIN OldTables(level)
                               THEN OldTables(level)[t] ELSE None]
  /\ status = [m \in Migrations |-> None]
  /\ merchant = [m \in Merchants |-> IF m \in OldMerchants /\ level # "fresh"
                                     THEN OldMerchant(key) ELSE None]
  /\ pc = Down /\ crashes = 0 /\ faults = 0

----------------------------------------------------------------------------
(* What statements do to tables.                                           *)

Here(t) == tables[t] # None

Created(ts, s) ==
  IF ts[s.table] = None THEN [ts EXCEPT ![s.table] = Table(s.has, {})] ELSE ts
Added(ts, s) ==
  IF ts[s.table] = None THEN ts ELSE [ts EXCEPT ![s.table].has = @ \cup s.has]
Changed(ts, s) == IF s.op = "create" THEN Created(ts, s) ELSE Added(ts, s)
Filled(ts, fills) ==
  [t \in Names |->
     IF \E f \in fills : f[1] = t
     THEN [ts[t] EXCEPT !.rows = @ \cup UNION {ts[f[2]].rows :
                                           f \in {g \in fills : g[1] = t}}]
     ELSE ts[t]]

NewText(s) == IF s.has # None THEN s.has
              ELSE tables[s.temp].has \ {"products_old"}

\* Whether the copy of a rebuild succeeds on these two schemas.
Fits(s) ==
  LET old == tables[s.temp].has
      new == tables[s.table].has
  IN  IF s.reads = None THEN new = old \ {"products_old"}
      ELSE s.reads \subseteq old /\ (s.ordered => new = s.has)

----------------------------------------------------------------------------
(* Running a start.                                                        *)

\* The migration a statement belongs to; None for data migrations run without
\* a key, which are not tracked.
Owners ==
  [i \in DOMAIN KeyedStart |->
     KeyedStart[Max({j \in 1..i : KeyedStart[j].op = "begin"})].name]
Owner(i) == IF ~key /\ i > Len(Schema) THEN None ELSE Owners[i]

At(op) == pc \notin {Down, Up} /\ Start[pc].op = op
S == Start[pc]

\* On to statement n, or past it and those after it when their migrations have
\* been applied, which run_tracked_migration skips.
Applied(i) == Owner(i) # None /\ status[Owner(i)] = "applied"
GoTo(n) ==
  LET left == {i \in n..Len(Start) : ~Applied(i)}
  IN  pc' = IF n <= Len(Start) /\ ~Applied(n) THEN n
            ELSE IF left = {} THEN Up ELSE Min(left)
GoOn == GoTo(pc + 1)

\* An error that is passed on: the migration is marked and the process ends.
Bail ==
  /\ pc' = Down
  /\ status' = IF Owner(pc) = None THEN status
               ELSE [status EXCEPT ![Owner(pc)] = "failed"]

\* Starting the process, perhaps with a key for the first time.
Boot ==
  /\ pc = Down
  /\ pc' = 1
  /\ key' \in {key, TRUE}
  /\ UNCHANGED <<level, tables, status, merchant, crashes, faults>>

\* Wrong: a migration that was cut off is tried again.
BeginAnyway ==
  /\ At("begin")
  /\ GoOn
  /\ status' = IF status[S.name] = "applied" THEN status
               ELSE [status EXCEPT ![S.name] = "running"]
  /\ UNCHANGED <<level, tables, merchant, key, crashes, faults>>

\* run_tracked_migration: skip it, refuse, or mark it and go on.
Begin ==
  /\ At("begin")
  /\ \/ /\ status[S.name] = "applied"
        /\ GoOn /\ UNCHANGED status
     \/ /\ status[S.name] = "running"
        /\ pc' = Down /\ UNCHANGED status
     \/ /\ status[S.name] \in {None, "failed"}
        /\ GoOn /\ status' = [status EXCEPT ![S.name] = "running"]
  /\ UNCHANGED <<level, tables, merchant, key, crashes, faults>>

End ==
  /\ At("end")
  /\ status' = [status EXCEPT ![S.name] = "applied"]
  /\ GoOn
  /\ UNCHANGED <<level, tables, merchant, key, crashes, faults>>

\* Whether the guard of a rebuild holds; a query that fails says no.
Needed(s) ==
  /\ Here(s.table)
  /\ \/ s.with \cap tables[s.table].has # {}
     \/ ~(s.without \subseteq tables[s.table].has)
Test ==
  /\ At("test")
  /\ GoTo(IF Needed(S) THEN pc + 1 ELSE pc + RebuildLength)
  /\ UNCHANGED <<level, tables, status, merchant, key, crashes, faults>>

Keep == UNCHANGED <<level, status, merchant, key, crashes, faults>>

CreateTable ==
  /\ At("create")
  /\ tables' = Created(tables, S)
  /\ GoOn /\ Keep

AddColumns ==
  /\ At("add")
  /\ tables' = Added(tables, S)
  /\ GoOn /\ Keep

RenameTable ==
  /\ At("rename")
  /\ tables' = IF Here(S.table) /\ ~Here(S.temp)
               THEN [tables EXCEPT ![S.temp] = tables[S.table],
                                   ![S.table] = None]
               ELSE tables
  /\ GoOn /\ Keep

\* CREATE TABLE, an error when it exists.
MakeTable ==
  /\ At("make")
  /\ tables' = IF Here(S.table) THEN tables
               ELSE [tables EXCEPT ![S.table] = Table(NewText(S), {})]
  /\ GoOn /\ Keep

\* INSERT ... SELECT, which copies every row or, on an error, none.
CopyRows ==
  /\ At("copy")
  /\ tables' = IF Here(S.table) /\ Here(S.temp) /\ Fits(S)
               THEN [tables EXCEPT ![S.table] =
                       Table(@.has, @.rows \cup tables[S.temp].rows)]
               ELSE tables
  /\ GoOn /\ Keep

DropTable ==
  /\ At("drop")
  /\ tables' = [tables EXCEPT ![S.table] = None]
  /\ GoOn /\ Keep

\* A price for every product that has none, from columns the products table
\* has lost by now unless its rebuild did not happen.
SeedPrices ==
  /\ At("seed")
  /\ tables' = IF Here("prices") /\ Here("products")
                  /\ {"price_eur", "currency"} \subseteq tables["products"].has
               THEN [tables EXCEPT !["prices"].rows =
                                      @ \cup tables["products"].rows]
               ELSE tables
  /\ GoOn /\ Keep

\* validate_schema_state.
Valid ==
  /\ \A t \in DOMAIN Required :
       Here(t) /\ Required[t] \subseteq tables[t].has
  /\ "not_null" \notin tables["webhook_deliveries"].has
Validate ==
  /\ At("validate")
  /\ IF Valid THEN GoOn /\ UNCHANGED status ELSE Bail
  /\ UNCHANGED <<level, tables, merchant, key, crashes, faults>>

\* A transaction commits as one step.
Commit ==
  /\ At("strict")
  /\ tables' = Filled(FoldLeft(Changed, tables, S.adds), S.fills)
  /\ GoOn /\ Keep

----------------------------------------------------------------------------
(* Data migrations: the rows each would still change, and one row changed. *)

Known == {m \in Merchants : merchant[m] # None}

Todo(kind) ==
  CASE kind = "encrypt_keys" -> {m \in Known : key /\ ~merchant[m].sealed}
    [] kind = "to_uivk" -> {m \in Known : merchant[m].kind = "ufvk"}
    [] kind = "encrypt_secrets" -> {m \in Known : key /\ ~merchant[m].secret}
    [] kind = "encrypt_emails" -> {m \in Known : merchant[m].hash = "none"}
    [] kind = "rehash" ->
         {m \in Known : key /\ merchant[m].hash \notin {"none", "keyed"}}

BlindIndex == IF key THEN "keyed" ELSE "plain"

Migrated(kind, r) ==
  CASE kind = "encrypt_keys" -> [r EXCEPT !.sealed = TRUE]
    [] kind = "to_uivk" -> [r EXCEPT !.kind = "uivk", !.sealed = key]
    [] kind = "encrypt_secrets" -> [r EXCEPT !.secret = TRUE]
    [] kind = "encrypt_emails" ->
         [r EXCEPT !.email = key \/ @, !.hash = BlindIndex]
    [] kind = "rehash" -> [r EXCEPT !.hash = BlindIndex]

DataRow ==
  /\ At("data")
  /\ \E m \in Todo(S.kind) :
       merchant' = [merchant EXCEPT ![m] = Migrated(S.kind, @)]
  /\ UNCHANGED <<level, tables, status, key, pc, crashes, faults>>

DataDone ==
  /\ At("data")
  /\ Todo(S.kind) = {}
  /\ GoOn
  /\ UNCHANGED <<level, tables, status, merchant, key, crashes, faults>>

----------------------------------------------------------------------------
(* What goes wrong, and what happens once the server is up.                *)

\* A statement fails: the disk is full, or another process has the lock.
Ignored == {"create", "add", "rename", "make", "copy", "drop", "seed"}
Fault ==
  /\ faults < MaxFaults
  /\ faults' = faults + 1
  /\ \/ pc \notin {Down, Up} /\ S.op \in Ignored /\ GoOn /\ UNCHANGED status
     \/ At("test") /\ GoTo(pc + RebuildLength) /\ UNCHANGED status
     \/ pc \notin {Down, Up} /\ S.op \in {"strict", "data", "validate"} /\ Bail
  /\ UNCHANGED <<level, tables, merchant, key, crashes>>

\* Anywhere, also between a statement that ran and the next.
Crash ==
  /\ pc \notin {Down, Up}
  /\ crashes < MaxCrashes
  /\ crashes' = crashes + 1
  /\ pc' = Down
  /\ UNCHANGED <<level, tables, status, merchant, key, faults>>

\* A running server may be stopped or replaced at any time.
Stop ==
  /\ pc = Up
  /\ pc' = Down
  /\ UNCHANGED <<level, tables, status, merchant, key, crashes, faults>>

\* create_merchant, with an e-mail address.
Register(m) ==
  /\ pc = Up
  /\ merchant[m] = None
  /\ merchant' = [merchant EXCEPT ![m] =
       [kind |-> "uivk", sealed |-> key, secret |-> key, email |-> key,
        hash |-> BlindIndex]]
  /\ UNCHANGED <<level, tables, status, key, pc, crashes, faults>>

Next ==
  \/ Boot \/ Begin \/ End \/ Test
  \/ CreateTable \/ AddColumns \/ RenameTable \/ MakeTable \/ CopyRows
  \/ DropTable \/ SeedPrices \/ Validate \/ Commit
  \/ DataRow \/ DataDone
  \/ Fault \/ Crash \/ Stop
  \/ \E m \in Merchants : Register(m)

Spec == Init /\ [][Next]_vars

----------------------------------------------------------------------------
(* Properties.                                                             *)

\* Every variable has its type.
TypeOK ==
  /\ level \in Levels /\ key \in BOOLEAN
  /\ tables \in [Names -> {None} \cup
                   [has : SUBSET Words, rows : SUBSET {"r1", "r2"}]]
  /\ status \in [Migrations -> {None, "running", "applied", "failed"}]
  /\ merchant \in [Merchants -> {None} \cup
       [kind : {"ufvk", "uivk"}, sealed : BOOLEAN, secret : BOOLEAN,
        email : BOOLEAN, hash : {"none", "plain", "keyed"}]]
  /\ pc \in 0..Up /\ crashes \in 0..MaxCrashes /\ faults \in 0..MaxFaults

\* Each row is in its table or in the table it is being copied from, and in its
\* table once the server is up.
Held(t) == IF Here(t) THEN tables[t].rows ELSE {}
Kept ==
  \A t \in DOMAIN OldTables(level) :
    OldTables(level)[t].rows \subseteq
      Held(t) \cup IF pc = Up \/ t \notin DOMAIN Temps THEN {}
                   ELSE UNION {Held(temp) : temp \in Temps[t]}

\* A table's rows are never lost, wherever a start is cut off and however often
\* it is tried again.  The rebuilds are not in a transaction; what keeps the
\* rows is that a cut-off migration is not run again.  Not said of databases
\* older than the schema of the repository (ShippedKept), nor when a statement
\* fails: each rebuild then drops what it could not copy.
RowsKept == level \in {"fresh", "released", "grown"} /\ faults = 0 => Kept

\* The same of a database that still has the status "shipped".  The rebuild
\* that removes it makes a table without refund_txid, the one that adds "draft"
\* copies that column (apply_inline_schema_migration).
ShippedKept == level = "shipped" /\ faults = 0 => Kept

\* When the server is up, a database of each age in Levels has the columns of
\* a new one, although some of the rebuilds it went through make tables without
\* columns added before them; what the bootstrap vouches for is there even when a
\* statement failed on the way.  The payments earlier versions accepted are
\* marked as taken, and every invoice has its checkout token.
NewColumns ==
  [invoices |-> {"refunded", "underpaid", "draft", "refund", "refund_txid",
                 "receiver", "zatoshis", "amount", "subscription_id", "luma",
                 "donation", "confirmed_rate", "exact_payment", "outbox"},
   prices |-> {"price_type", "label"}, products |-> {"default_price"},
   payment_links |-> {"mode", "campaign_address", "raised_zatoshis", "listed"},
   subscriptions |-> {"label", "current_invoice_id", "pause"},
   billing_cycles |-> {"cycle_zatoshis", "carried_over"},
   fee_ledger |-> {"fee_zatoshis", "fee_rate_applied", "collected"}]
Ready ==
  pc = Up =>
    /\ Valid
    /\ faults = 0 =>
         \A t \in DOMAIN NewColumns :
           Here(t) /\ tables[t].has = NewColumns[t]
    /\ tables["agent_sessions"].rows \cup tables["x402_verifications"].rows
         \subseteq tables["payment_consumptions"].rows
    /\ tables["invoices"].rows \subseteq tables["checkout_access"].rows

\* A server that has its key serves no merchant whose viewing key or webhook
\* secret is stored in the clear, or who could not be found by e-mail, however
\* many starts were interrupted or failed since the key was set.
KeyedIsSealed ==
  pc = Up /\ key =>
    \A m \in Known : merchant[m].kind = "uivk" /\ merchant[m].sealed
                       /\ merchant[m].secret /\ merchant[m].hash = "keyed"

\* "Encrypt any plaintext recovery emails and backfill blind-index hashes":
\* with a key, no address is stored in the clear.
EmailsSealed == pc = Up /\ key => \A m \in Known : merchant[m].email
=============================================================================
