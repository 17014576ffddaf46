--------------------------- MODULE AgentPayments ---------------------------
(***************************************************************************)
(* Machine-to-machine payments: prepaid agent sessions and the x402        *)
(* verification endpoints, joined by the one table they share, the         *)
(* tombstones payment_consumptions.                                        *)
(*                                                                         *)
(* A confirmed shielded transaction can be turned into value in three      *)
(* ways: as the deposit of a session (POST /api/sessions/open), as a       *)
(* settled x402 V2 payment with an optional session for the surplus        *)
(* (POST /api/x402/v2/settle), or as a payment verified by the older       *)
(* endpoint (POST /api/x402/verify).  Each request is a call that reads,   *)
(* asks the explorer and only then writes, so calls for one transaction    *)
(* interleave; the purge worker and restarts interleave with all of them.  *)
(*                                                                         *)
(* What is simplified.  One merchant.  Authentication, the billing block   *)
(* and an unconfirmed or undecryptable transaction only refuse a call,     *)
(* before anything is written, so a refused call is no step.  A            *)
(* transaction is what it pays to each receiver of the merchant.  A txid   *)
(* arrives in the spelling the caller chose: hexadecimal is accepted in    *)
(* either case.  Rows logged as "rejected" are read by nothing.            *)
(***************************************************************************)
EXTENDS Naturals, FiniteSets, Functions, FiniteSetsExt

CONSTANTS
  Txids,        \* confirmed transactions
  Requests,     \* ids of session requests, each with a deposit address
  Pays,         \* Pays[t][x]: zatoshis t pays to receiver x
  Sids,         \* ids of agent sessions, taken in order
  Rids,         \* request ids a merchant charges a session for
  Amounts,      \* amounts of one charge
  Keys,         \* idempotency keys
  Bodies,       \* bodies of settle calls: [name, price, cost]
  Asks,         \* bodies of legacy verify calls: [name, price]
  Openers, Settlers, Verifiers, Closers,   \* concurrent calls, by endpoint
  MinDeposit,   \* 10_000 zatoshis
  DefaultCost,  \* 1_000 zatoshis
  RequestTTL, SessionTTL, KeyTTL, PurgeAge, \* 30 min, 24 h, 24 h, purge_days
  MaxClock, MaxRestarts,                    \* bounds of the model
  None          \* no key, no row, no deposit

Calls == Openers \cup Settlers \cup Verifiers \cup Closers
Receivers == Requests \cup {"shop"}

\* A txid as a caller may spell it.
Names == Txids \X {"lower", "upper"}

ASSUME PaysAssumption == Pays \in [Txids -> [Receivers -> Nat]]
ASSUME SidsAssumption == Sids \subseteq Nat
ASSUME AmountsAssumption == Amounts \subseteq Nat \ {0}
ASSUME BodiesAssumption ==
  /\ Bodies \subseteq [name : Names, price : Nat \ {0}, cost : Nat]
  /\ Asks \subseteq [name : Names, price : Nat \ {0}]
ASSUME CallsAssumption ==
  /\ Openers \cap Settlers = {} /\ Openers \cap Verifiers = {}
  /\ Openers \cap Closers = {} /\ Settlers \cap Verifiers = {}
  /\ Settlers \cap Closers = {} /\ Verifiers \cap Closers = {}
ASSUME NumbersAssumption ==
  /\ MinDeposit \in Nat /\ DefaultCost \in Nat \ {0}
  /\ RequestTTL \in Nat /\ SessionTTL \in Nat
  /\ KeyTTL \in Nat /\ PurgeAge \in Nat
  /\ MaxClock \in Nat /\ MaxRestarts \in Nat
ASSUME NoneAssumption == None \notin Keys \cup Nat \cup Txids

VARIABLES
  clock,      \* the database clock
  restarts,
  consumed,   \* payment_consumptions: purpose by spelling, "no" without a row
  requests,   \* session_requests
  sessions,   \* agent_sessions
  charges,    \* session_charges: amount by session and request id, 0 without
  verified,   \* x402_verifications with status 'verified', as spelt
  idem,       \* x402_idempotency_v2: created_at by key, None without a row
  purge,      \* next statement of the purge worker
  call,       \* where each call stands and what it has read
  granted,    \* history: how often each transaction was turned into value
  opened,     \* history: requests that were answered with a session
  served,     \* history: how often each request id was answered valid
  settled     \* history: the latest settlement made under each key

tables == <<consumed, requests, sessions, charges, verified, idem>>
history == <<granted, opened, served, settled>>
vars == <<clock, restarts, tables, purge, call, history>>

NoSession == [dep |-> None, bal |-> 0, left |-> 0, made |-> 0,
              status |-> "never", expires |-> 0, created |-> 0]
NotSettled == [at |-> 0, txid |-> None]
Idle == [pc |-> "idle"]
Purposes == {"session", "x402", "legacy-x402"}

----------------------------------------------------------------------------
(* Helpers *)

\* Wrong: the spelling is kept
LowerKept(n) == n

\* txid.to_ascii_lowercase()
Lower(n) == <<n[1], "lower">>

\* sum_outputs_for_receiver and the filters of the verify handlers
PaidTo(n, x) == Pays[n[1]][x]

\* INSERT OR IGNORE INTO payment_consumptions: TRUE when the row is new
NotConsumed(n) == consumed[Lower(n)] = "no"
Consume(n, purpose) == consumed' = [consumed EXCEPT ![Lower(n)] = purpose]

Pending(r) == requests[r].status = "pending" /\ requests[r].expires >= clock

Live(s) == sessions[s].status \notin {"never", "purged"}
FreshSids == {s \in Sids : sessions[s].status = "never"}

\* insert_session: a new id, refused below one request's cost or when a row
\* with this deposit exists (the unique index on deposit_txid)
InsertSession(n, balance, cost) ==
  /\ cost > 0 /\ balance >= cost
  /\ \A s \in Sids : Live(s) => sessions[s].dep # Lower(n)
  /\ \E s \in FreshSids :
       /\ \A z \in FreshSids : s <= z
       /\ sessions' = [sessions EXCEPT ![s] =
            [dep |-> Lower(n), bal |-> balance, left |-> balance, made |-> 0,
             status |-> "active", expires |-> clock + SessionTTL,
             created |-> clock]]

\* The row a key has, and whether the 24 hours still protect it.
KeyHeld(k) == idem[k] # None /\ idem[k] + KeyTTL >= clock

\* parse_v2_fields: what a V2 handler works with
Parsed(b) == [b EXCEPT !.name = Lower(@)]

\* verify_core_v2 accepts: the merchant's receiver got the price
Sufficient(b) == PaidTo(b.name, "shop") >= b.price

\* get_existing_verified compares the spelling it is given
AlreadyVerified(n) == n \in verified

\* log_verification with status 'verified': INSERT OR IGNORE
LogVerified(n) == verified' = verified \cup {n}

Goto(c, to) == call' = [call EXCEPT ![c] = to]

----------------------------------------------------------------------------
(* Sessions *)

\* create_session_request
NewRequest == [status |-> "pending", expires |-> clock + RequestTTL]

\* prepare: a request with an address of its own, valid for 30 minutes
Prepare(r) ==
  /\ requests[r].status = "none"
  /\ requests' = [requests EXCEPT ![r] = NewRequest]
  /\ UNCHANGED <<clock, restarts, consumed, sessions, charges, verified, idem,
                 purge, call, history>>

\* open, up to the fetched and decrypted transaction: everything it checks
\* before its transaction starts
OpenRead(c, n, r) ==
  /\ call[c].pc = "idle"
  /\ NotConsumed(n)
  /\ Pending(r)
  /\ PaidTo(n, r) > 0 /\ PaidTo(n, r) >= MinDeposit
  /\ Goto(c, [pc |-> "open", name |-> n, req |-> r])
  /\ UNCHANGED <<clock, restarts, tables, purge, history>>

\* create_prepared_session commits: request used, txid consumed, row inserted
OpenCommit(c) ==
  /\ call[c].pc = "open"
  /\ LET n == call[c].name
         r == call[c].req
     IN /\ Pending(r)
        /\ NotConsumed(n)
        /\ requests' = [requests EXCEPT ![r].status = "used"]
        /\ Consume(n, "session")
        /\ InsertSession(n, PaidTo(n, r), DefaultCost)
        /\ granted' = [granted EXCEPT ![n[1]] = @ + 1]
        /\ opened' = opened \cup {r}
  /\ Goto(c, Idle)
  /\ UNCHANGED <<clock, restarts, charges, verified, idem, purge, served, settled>>

\* charge: the debit and the row that makes it unrepeatable, or neither
Charge(s, rid, amount) ==
  /\ sessions[s].status = "active"
  /\ sessions[s].left >= amount
  /\ sessions[s].expires > clock
  /\ charges[s][rid] = 0
  /\ sessions' = [sessions EXCEPT ![s].left = @ - amount, ![s].made = @ + 1]
  /\ charges' = [charges EXCEPT ![s][rid] = amount]
  /\ served' = [served EXCEPT ![s][rid] = @ + 1]
  /\ UNCHANGED <<clock, restarts, consumed, requests, verified, idem, purge, call,
                 granted, opened, settled>>

\* validate: a charge of a positive amount
Validate(s, rid, amount) ==
  /\ amount > 0
  /\ Charge(s, rid, amount)

\* close_session reads the row; its summary, the refund included, is written
\* from this reading
CloseRead(c, s) ==
  /\ call[c].pc = "idle"
  /\ sessions[s].status = "active"
  /\ Goto(c, [pc |-> "close", sid |-> s])
  /\ UNCHANGED <<clock, restarts, tables, purge, history>>

\* ... and closes by id, whatever happened to the row since
CloseWrite(c) ==
  /\ call[c].pc = "close"
  /\ sessions' = IF Live(call[c].sid)
                 THEN [sessions EXCEPT ![call[c].sid].status = "closed"]
                 ELSE sessions
  /\ Goto(c, Idle)
  /\ UNCHANGED <<clock, restarts, consumed, requests, charges, verified, idem,
                 purge, history>>

----------------------------------------------------------------------------
(* x402 *)

\* verify_v2 records a sufficient payment and consumes nothing
VerifyV2(b) ==
  /\ Sufficient(b)
  /\ LogVerified(Parsed(b).name)
  /\ UNCHANGED <<clock, restarts, consumed, requests, sessions, charges, idem,
                 purge, call, history>>

\* settle_v2 up to its transaction: a key in force answers at once, from the
\* cache or with a conflict; otherwise the payment is verified
SettleRead(c, b, k) ==
  /\ call[c].pc = "idle"
  /\ k # None => ~KeyHeld(k)
  /\ Sufficient(b)
  /\ LogVerified(Parsed(b).name)
  /\ Goto(c, [pc |-> "settle", body |-> Parsed(b), key |-> k])
  /\ UNCHANGED <<clock, restarts, consumed, requests, sessions, charges, idem,
                 purge, history>>

\* Wrong: INSERT OR REPLACE
TakeKeyAnyway(k, b) ==
  IF k = None THEN UNCHANGED <<idem, settled>>
  ELSE /\ idem' = [idem EXCEPT ![k] = clock]
       /\ settled' = [settled EXCEPT ![k] = [at |-> clock, txid |-> b.name[1]]]

\* commit_settlement: an old row of the key is deleted, a younger one makes
\* the INSERT fail on its primary key
TakeKey(k, b) ==
  IF k = None THEN UNCHANGED <<idem, settled>>
  ELSE /\ ~KeyHeld(k)
       /\ idem' = [idem EXCEPT ![k] = clock]
       /\ settled' = [settled EXCEPT ![k] = [at |-> clock, txid |-> b.name[1]]]

\* Only the surplus over the price funds a session, if one was asked for and
\* the surplus pays for a request.
FundSession(b) ==
  LET surplus == PaidTo(b.name, "shop") - b.price
  IN IF b.cost > 0 /\ surplus >= b.cost
     THEN InsertSession(b.name, surplus, b.cost)
     ELSE UNCHANGED sessions

SettleCommit(c) ==
  /\ call[c].pc = "settle"
  /\ LET b == call[c].body
     IN /\ NotConsumed(b.name)
        /\ Consume(b.name, "x402")
        /\ FundSession(b)
        /\ TakeKey(call[c].key, b)
        /\ granted' = [granted EXCEPT ![b.name[1]] = @ + 1]
  /\ Goto(c, Idle)
  /\ UNCHANGED <<clock, restarts, requests, charges, verified, purge, opened, served>>

\* verify, up to the transaction: refused when this spelling was verified
LegacyRead(c, a) ==
  /\ call[c].pc = "idle"
  /\ ~AlreadyVerified(a.name)
  /\ Sufficient(a)
  /\ Goto(c, [pc |-> "legacy", name |-> a.name])
  /\ UNCHANGED <<clock, restarts, tables, purge, history>>

\* consume_payment as a statement of its own
LegacyConsume(c) ==
  /\ call[c].pc = "legacy"
  /\ NotConsumed(call[c].name)
  /\ Consume(call[c].name, "legacy-x402")
  /\ Goto(c, [call[c] EXCEPT !.pc = "log"])
  /\ UNCHANGED <<clock, restarts, requests, sessions, charges, verified, idem,
                 purge, history>>

\* log_verification, and the answer valid: true
LegacyLog(c) ==
  /\ call[c].pc = "log"
  /\ LogVerified(call[c].name)
  /\ granted' = [granted EXCEPT ![call[c].name[1]] = @ + 1]
  /\ Goto(c, Idle)
  /\ UNCHANGED <<clock, restarts, consumed, requests, sessions, charges, idem,
                 purge, opened, served, settled>>

\* Wrong: the request is used up outside the transaction
RefusedUsesRequest(c) ==
  /\ call[c].pc \in {"open", "settle", "legacy"}
  /\ requests' = IF call[c].pc = "open" /\ Pending(call[c].req)
                 THEN [requests EXCEPT ![call[c].req].status = "used"]
                 ELSE requests
  /\ Goto(c, Idle)
  /\ UNCHANGED <<clock, restarts, consumed, sessions, charges, verified, idem,
                 purge, history>>

\* A transaction that cannot commit is rolled back and the call answers an
\* error: a request no longer pending, a payment already consumed, a key or
\* a deposit already there, a failing statement.
Refused(c) ==
  /\ call[c].pc \in {"open", "settle", "legacy"}
  /\ Goto(c, Idle)
  /\ UNCHANGED <<clock, restarts, tables, purge, history>>

----------------------------------------------------------------------------
(* run_data_purge, one statement after the other, and the environment *)

\* Wrong: charge rows are purged whatever their session
PurgeAllCharges ==
  /\ purge = "charges"
  /\ charges' = [s \in Sids |-> [rid \in Rids |-> 0]]
  /\ purge' = "keys"
  /\ UNCHANGED <<clock, restarts, consumed, requests, sessions, verified, idem,
                 call, history>>

PurgeCharges ==
  /\ purge = "charges"
  /\ charges' = [s \in Sids |-> IF Live(s) THEN charges[s] ELSE [rid \in Rids |-> 0]]
  /\ purge' = "keys"
  /\ UNCHANGED <<clock, restarts, consumed, requests, sessions, verified, idem,
                 call, history>>

PurgeKeys ==
  /\ purge = "keys"
  /\ idem' = [k \in Keys |-> IF KeyHeld(k) THEN idem[k] ELSE None]
  /\ purge' = "sessions"
  /\ UNCHANGED <<clock, restarts, consumed, requests, sessions, charges, verified,
                 call, history>>

\* expired sessions, and closed ones of a certain age
Purgeable(s) ==
  /\ Live(s)
  /\ \/ sessions[s].expires < clock
     \/ sessions[s].status = "closed" /\ sessions[s].created + PurgeAge < clock

PurgeSessions ==
  /\ purge = "sessions"
  /\ sessions' = [s \in Sids |-> IF Purgeable(s)
                                 THEN [NoSession EXCEPT !.status = "purged"]
                                 ELSE sessions[s]]
  /\ purge' = "requests"
  /\ UNCHANGED <<clock, restarts, consumed, requests, charges, verified, idem,
                 call, history>>

PurgeRequests ==
  /\ purge = "requests"
  /\ requests' = [r \in Requests |->
       IF requests[r].status # "none" /\ requests[r].expires < clock
       THEN [status |-> "purged", expires |-> 0] ELSE requests[r]]
  /\ purge' = "charges"
  /\ UNCHANGED <<clock, restarts, consumed, sessions, charges, verified, idem,
                 call, history>>

\* The process stops: calls end without an answer, the worker starts over.
Restart ==
  /\ restarts < MaxRestarts
  /\ restarts' = restarts + 1
  /\ call' = [c \in Calls |-> Idle]
  /\ purge' = "charges"
  /\ UNCHANGED <<clock, tables, history>>

Tick ==
  /\ clock < MaxClock
  /\ clock' = clock + 1
  /\ UNCHANGED <<restarts, tables, purge, call, history>>

----------------------------------------------------------------------------
Init ==
  /\ clock = 0 /\ restarts = 0
  /\ consumed = [n \in Names |-> "no"]
  /\ requests = [r \in Requests |-> [status |-> "none", expires |-> 0]]
  /\ sessions = [s \in Sids |-> NoSession]
  /\ charges = [s \in Sids |-> [rid \in Rids |-> 0]]
  /\ verified = {}
  /\ idem = [k \in Keys |-> None]
  /\ purge = "charges"
  /\ call = [c \in Calls |-> Idle]
  /\ granted = [t \in Txids |-> 0]
  /\ opened = {}
  /\ served = [s \in Sids |-> [rid \in Rids |-> 0]]
  /\ settled = [k \in Keys |-> NotSettled]

Next ==
  \/ \E r \in Requests : Prepare(r)
  \/ \E c \in Openers, n \in Names, r \in Requests : OpenRead(c, n, r)
  \/ \E c \in Openers : OpenCommit(c)
  \/ \E s \in Sids, rid \in Rids, amount \in Amounts : Validate(s, rid, amount)
  \/ \E c \in Closers, s \in Sids : CloseRead(c, s)
  \/ \E c \in Closers : CloseWrite(c)
  \/ \E b \in Bodies : VerifyV2(b)
  \/ \E c \in Settlers, b \in Bodies, k \in Keys \cup {None} : SettleRead(c, b, k)
  \/ \E c \in Settlers : SettleCommit(c)
  \/ \E c \in Verifiers, a \in Asks : LegacyRead(c, a)
  \/ \E c \in Verifiers : LegacyConsume(c)
  \/ \E c \in Verifiers : LegacyLog(c)
  \/ \E c \in Calls : Refused(c)
  \/ PurgeCharges \/ PurgeKeys \/ PurgeSessions \/ PurgeRequests
  \/ Restart
  \/ Tick

Spec == Init /\ [][Next]_vars

----------------------------------------------------------------------------
(* Properties *)

BodyType == [name : Names, price : Nat, cost : Nat]

\* A call carries what its next step needs.
CallType(c) ==
  \/ call[c] = Idle
  \/ c \in Openers /\ call[c] \in [pc : {"open"}, name : Names, req : Requests]
  \/ c \in Closers /\ call[c] \in [pc : {"close"}, sid : Sids]
  \/ c \in Settlers
     /\ call[c] \in [pc : {"settle"}, body : BodyType, key : Keys \cup {None}]
  \/ c \in Verifiers /\ call[c] \in [pc : {"legacy", "log"}, name : Names]

SessionRow ==
  [dep : Names \cup {None}, bal : Nat, left : Nat, made : Nat,
   status : {"never", "active", "closed", "purged"}, expires : Nat, created : Nat]

\* Every table holds rows of its kind, balances never go below zero, and a
\* call waits only where its endpoint can.
TypeOK ==
  /\ clock \in Nat /\ restarts \in Nat
  /\ consumed \in [Names -> Purposes \cup {"no"}]
  /\ requests \in [Requests -> [status : {"none", "pending", "used", "purged"},
                                expires : Nat]]
  /\ sessions \in [Sids -> SessionRow]
  /\ charges \in [Sids -> [Rids -> Nat]]
  /\ verified \subseteq Names
  /\ idem \in [Keys -> Nat \cup {None}]
  /\ purge \in {"charges", "keys", "sessions", "requests"}
  /\ DOMAIN call = Calls /\ \A c \in Calls : CallType(c)
  /\ granted \in [Txids -> Nat]
  /\ opened \subseteq Requests
  /\ served \in [Sids -> [Rids -> Nat]]
  /\ settled \in [Keys -> [at : Nat, txid : Txids \cup {None}]]

\* One transaction is turned into value at most once, whichever of the three
\* endpoints it is presented to, however often, at the same time, in whichever
\* spelling, and also after the session it opened has been purged.
GrantedOnce == \A t \in Txids : granted[t] <= 1

\* Nothing is spent for nothing: a request is used up, and a transaction marked
\* as consumed by a session or a settlement, only together with the session or
\* the settlement.  (The older endpoint consumes and answers in two steps.)
NothingBurnt ==
  /\ \A r \in Requests : requests[r].status = "used" => r \in opened
  /\ \A n \in Names : consumed[n] \in {"session", "x402"} => granted[n[1]] > 0

\* The request ids with a charge row, and those answered valid
Charged(s) == {rid \in Rids : charges[s][rid] > 0}
Answered(s) == {rid \in Rids : served[s][rid] > 0}

\* A session's money is accounted for: what is left and what its charge rows
\* say add up to the deposit, the counter agrees with the rows, and one
\* request id has been answered valid, and debited, at most once, purges of
\* the charge table included.
Metered ==
  \A s \in Sids :
    /\ \A rid \in Rids : served[s][rid] <= 1
    /\ Live(s) =>
         /\ sessions[s].left + SumFunctionOnSet(charges[s], Charged(s)) = sessions[s].bal
         /\ sessions[s].made = Cardinality(Answered(s))

\* What makes Metered inductive: the rows of a session that is there are the
\* requests answered, and one that is not there yet has neither.
MeterInv ==
  \A s \in Sids :
    /\ \A rid \in Rids : served[s][rid] <= 1
    /\ sessions[s].status = "never" => Charged(s) = {} /\ Answered(s) = {}
    /\ Live(s) =>
         /\ Charged(s) = Answered(s) /\ IsFiniteSet(Charged(s))
         /\ sessions[s].left + SumFunctionOnSet(charges[s], Charged(s)) = sessions[s].bal
         /\ sessions[s].made = Cardinality(Charged(s))

\* Within 24 hours an idempotency key makes one settlement: a second one under
\* the same key, whether the call is a retry or raced the first, needs the
\* first to be older than that.
KeySettlesOnce ==
  [][\A k \in Keys :
       settled'[k] # settled[k] =>
         settled[k] = NotSettled \/ settled[k].at + KeyTTL < clock]_vars
=============================================================================
