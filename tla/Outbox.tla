------------------------------- MODULE Outbox -------------------------------
(***************************************************************************)
(* The two outboxes of the server: webhook_deliveries, which a trigger     *)
(* fills with every change of an invoice and a worker posts to the         *)
(* merchants, and payment_email_queue, from which a worker mails the       *)
(* merchants who asked for it when an invoice is confirmed.                *)
(*                                                                         *)
(* Both queues are filled by the statement that changes the invoice, and   *)
(* are worked off by leases: a row is claimed by moving its next attempt   *)
(* into the future, so that a process that dies leaves it to a later one.  *)
(*                                                                         *)
(* What is simplified.  A payload is the address it goes to.  A deadline   *)
(* is the ticks left, so among the rows that are due the order in which    *)
(* they became due is not kept.  Deleting an account, which takes the      *)
(* rows along, and a server without a mail provider, whose worker does     *)
(* nothing, are left out.                                                  *)
(***************************************************************************)
EXTENDS Naturals, FiniteSets

CONSTANTS
  Invoices, Merchants, Hosts, Addresses,
  Owner,         \* the merchant of an invoice
  Rows,          \* ids of webhook deliveries, taken in order
  Emitters,      \* tasks that dispatch an event of their own
  Clicks,        \* "retry" requests of the dashboard
  Workers,       \* mail workers, of this process or an overlapping one
  Casts,         \* who takes part, and how often settings are edited or faults occur
  Place,         \* the order of the merchants' ids
  HookAttempts,  \* 10
  HookDelay,     \* retry_delay_secs, in ticks
  LongestDelay,  \* ten hours, the most that Retry-After can ask for
  HookLease,     \* 60 seconds
  Spacing,       \* ticks between two attempts at a host
  MailAttempts,  \* 8
  MailDelay,     \* backoff after an attempt
  MailLease,     \* 120 seconds
  GiveUpAfter,   \* 23 hours after the first attempt
  KeyTTL,        \* 24 hours, for which the provider remembers a key
  MaxSlow,       \* ticks that may pass between FailOld and the request
  None

ASSUME OwnerAssumption == Owner \in [Invoices -> Merchants]
ASSUME PlaceAssumption == Place \in [Merchants -> Nat]
ASSUME RowsAssumption == Rows \subseteq Nat \ {0}
ASSUME HookAssumption ==
  /\ HookAttempts \in Nat \ {0} /\ LongestDelay \in Nat
  /\ HookDelay \in [1..HookAttempts -> Nat \ {0}]
  /\ HookLease \in Nat \ {0} /\ Spacing \in [Hosts -> Nat]
ASSUME MailAssumption ==
  /\ MailAttempts \in Nat \ {0} /\ MailDelay \in [1..MailAttempts -> Nat \ {0}]
  /\ MailLease \in Nat \ {0} /\ GiveUpAfter \in Nat /\ KeyTTL \in Nat
  /\ MaxSlow \in Nat
\* "Resend retains idempotency keys for 24 hours": an hour more than a request
\* that was started within the 23 hours can take.
ASSUME KeyAssumption == KeyTTL > GiveUpAfter + MaxSlow
ASSUME NoneAssumption == None \notin Hosts \cup Addresses \cup Invoices \cup Workers
ASSUME CastsAssumption ==
  /\ Addresses # {}
  /\ \A c \in Casts :
       /\ c.url \in [Merchants -> Hosts \cup {None}] /\ c.optedIn \subseteq Merchants
       /\ c.page \in Nat \ {0}   \* LIMIT 200, set against the merchants there are
       /\ c.invoices \subseteq Invoices /\ c.workers \subseteq Workers
       /\ c.calls \subseteq Emitters \cup Clicks
       /\ c.left \in [{"mail", "url", "faults"} -> Nat]

VARIABLES
  status,    \* invoices.status
  url,       \* merchants.webhook_url, as the host it names
  address,   \* merchants.recovery_email
  optedIn,   \* merchants with payment_email_notifications = 1
  hook,      \* webhook_deliveries
  hostWait,  \* HOST_ATTEMPTS: ticks until a host may be tried again
  pass,      \* the webhook worker: its rows, the hosts tried, the row at hand
  task,      \* dispatching tasks and dashboard requests
  mail,      \* payment_email_queue
  mailed,    \* invoices with an entry in email_events
  mailer,    \* the mail workers
  key,       \* the provider: ticks for which it remembers an invoice's key
  inbox,     \* the provider: mails it has delivered for an invoice
  left,      \* edits of the mail settings, edits of the URL, faults to come
  cast       \* who takes part

settings == <<url, address, optedIn>>
hookVars == <<hook, hostWait, pass, task>>
mailVars == <<mail, mailed, mailer, key, inbox>>
bounds == <<left, cast>>
vars == <<status, settings, hookVars, mailVars, bounds>>

NoRow == [state |-> "none", host |-> None, owner |-> None, attempts |-> 0, wait |-> 0]
NoMail == [state |-> "none", attempts |-> 0, wait |-> 0, age |-> 0,
           claim |-> None, to |-> None]
NoPass == [pc |-> "idle", todo |-> {}, tried |-> {}, row |-> 0]
Idle == [pc |-> "idle", row |-> 0]
Resting == [pc |-> "idle", inv |-> None, to |-> None, tries |-> 0,
            verdict |-> "none", slow |-> 0, moved |-> FALSE]

Init ==
  /\ cast \in Casts
  /\ status = [i \in Invoices |-> "pending"]
  /\ url = cast.url
  /\ optedIn = cast.optedIn
  /\ address = [m \in Merchants |->
                  IF m \in optedIn THEN CHOOSE a \in Addresses : TRUE ELSE None]
  /\ hook = [d \in Rows |-> NoRow]
  /\ hostWait = [h \in Hosts |-> 0]
  /\ pass = NoPass
  /\ task = [t \in Emitters \cup Clicks |-> Idle]
  /\ mail = [i \in Invoices |-> NoMail]
  /\ mailed = {}
  /\ mailer = [w \in Workers |-> Resting]
  /\ key = [i \in Invoices |-> 0]
  /\ inbox = [i \in Invoices |-> 0]
  /\ left = cast.left

\* The bounds of the model on what nothing in the code bounds
Use(kind) ==
  left[kind] > 0 /\ left' = [left EXCEPT ![kind] = @ - 1] /\ UNCHANGED cast

-----------------------------------------------------------------------------
(* What a change of an invoice puts in the queues.                         *)

Fresh == {d \in Rows : hook[d].state = "none"}

\* INSERT INTO webhook_deliveries, for a merchant who has a URL
Queue(m, attempts, wait) ==
  \E d \in Fresh :
    /\ \A e \in Fresh : d <= e
    /\ hook' = [hook EXCEPT ![d] =
         [state |-> "pending", host |-> url[m], owner |-> m,
          attempts |-> attempts, wait |-> wait]]

\* The moves of a quoted invoice; that pausing a subscription voids one in any
\* status (module Subscriptions) is left out.
Moves ==
  {<<"pending", "underpaid">>, <<"pending", "detected">>, <<"pending", "expired">>,
   <<"underpaid", "detected">>, <<"underpaid", "expired">>,
   <<"detected", "confirmed">>, <<"confirmed", "refunded">>, <<"expired", "pending">>}

\* Trigger invoice_payment_outbox
TriggerHook(i, to) ==
  IF to # "pending" /\ url[Owner[i]] # None
  THEN Queue(Owner[i], 0, 0)
  ELSE UNCHANGED hook

\* Trigger queue_confirmed_payment_email
TriggerMail(i, to) ==
  mail' = IF /\ to = "confirmed" /\ Owner[i] \in optedIn
             /\ address[Owner[i]] # None /\ i \notin mailed /\ mail[i] = NoMail
          THEN [mail EXCEPT ![i].state = "pending"]
          ELSE mail

Change(i, to) ==
  /\ i \in cast.invoices /\ <<status[i], to>> \in Moves
  /\ status' = [status EXCEPT ![i] = to]
  /\ TriggerHook(i, to)
  /\ TriggerMail(i, to)
  /\ UNCHANGED <<settings, hostWait, pass, task, mailed, mailer, key, inbox, bounds>>

-----------------------------------------------------------------------------
(* Webhooks.                                                               *)

\* retry_failed reads the rows that are due, the first of each merchant.  The
\* merchants come in the order of their ids, in which the window function sorts
\* them; nothing asks for it, and the LIMIT cuts the last of them off.
Ready(m) == {d \in Rows : hook[d].state = "pending" /\ hook[d].owner = m
                            /\ hook[d].attempts < HookAttempts /\ hook[d].wait = 0}

Selected == {m \in Merchants :
  /\ Ready(m) # {}
  /\ Cardinality({n \in Merchants : Ready(n) # {} /\ Place[n] < Place[m]}) < cast.page}

Select ==
  /\ pass.pc = "idle"
  /\ \E ready \in SUBSET UNION {Ready(m) : m \in Merchants} :
       /\ ready # {}
       /\ \A m \in Merchants :
            Cardinality(ready \cap Ready(m)) = IF m \in Selected THEN 1 ELSE 0
       /\ pass' = [NoPass EXCEPT !.pc = "pass", !.todo = ready]
  /\ UNCHANGED <<status, settings, hook, hostWait, task, mailVars, bounds>>

\* The rows are gone through in that order.
AtHand(d) ==
  /\ pass.pc = "pass" /\ d \in pass.todo
  /\ \A e \in pass.todo : Place[hook[d].owner] <= Place[hook[e].owner]

HostOpen(h) == h \notin pass.tried /\ hostWait[h] = 0

\* The host has had its attempt, in this pass or within the last minute.
Skip(d) ==
  /\ AtHand(d)
  /\ ~HostOpen(hook[d].host)
  /\ pass' = [pass EXCEPT !.todo = @ \ {d}, !.tried = @ \cup {hook[d].host}]
  /\ UNCHANGED <<status, settings, hook, hostWait, task, mailVars, bounds>>

\* The host is taken and the row claimed, unless it was delivered since.
Take(d) ==
  /\ AtHand(d)
  /\ HostOpen(hook[d].host)
  /\ hostWait' = [hostWait EXCEPT ![hook[d].host] = Spacing[hook[d].host]]
  /\ IF hook[d].state = "pending"
     THEN /\ hook' = [hook EXCEPT ![d].wait = HookLease]
          /\ pass' = [pass EXCEPT !.pc = "post", !.todo = @ \ {d},
                        !.tried = @ \cup {hook[d].host}, !.row = d]
     ELSE /\ pass' = [pass EXCEPT !.todo = @ \ {d}, !.tried = @ \cup {hook[d].host}]
          /\ UNCHANGED hook
  /\ UNCHANGED <<status, settings, task, mailVars, bounds>>

\* The secret cannot be decrypted, or the host is not one to be called.
Refuse ==
  /\ pass.pc = "post"
  /\ hook' = [hook EXCEPT ![pass.row].state = "failed"]
  /\ pass' = [pass EXCEPT !.pc = "pass", !.row = 0]
  /\ UNCHANGED <<status, settings, hostWait, task, mailVars, bounds>>

\* The endpoint answers 2xx, or anything else, or nothing.
Post ==
  /\ pass.pc = "post"
  /\ \E answer \in {"accepted", "rejected"} : pass' = [pass EXCEPT !.pc = answer]
  /\ UNCHANGED <<status, settings, hook, hostWait, task, mailVars, bounds>>

\* Wrong: failures after the first are not counted
Uncounted(n) == 1

\* new_attempts = attempts + 1.  Nothing else writes attempts of a row that
\* is claimed, so what was read is what is there.
Counted(n) == n + 1

AfterSuccess(d) ==
  [hook[d] EXCEPT !.state = "delivered", !.attempts = hook[d].attempts + 1]

AfterFailure(d, asked) ==
  LET n == Counted(hook[d].attempts) IN
  IF n >= HookAttempts
  THEN [hook[d] EXCEPT !.state = "failed", !.attempts = n]
  ELSE [hook[d] EXCEPT !.attempts = n,
                       !.wait = IF asked > HookDelay[n] THEN asked ELSE HookDelay[n]]

Record ==
  /\ pass.pc \in {"accepted", "rejected"}
  /\ \E asked \in {0, LongestDelay} :
       hook' = [hook EXCEPT ![pass.row] =
         IF pass.pc = "accepted"
         THEN AfterSuccess(pass.row)
         ELSE AfterFailure(pass.row, asked)]
  /\ pass' = [pass EXCEPT !.pc = "pass", !.row = 0]
  /\ UNCHANGED <<status, settings, hostWait, task, mailVars, bounds>>

EndPass ==
  /\ pass.pc = "pass" /\ pass.todo = {}
  /\ pass' = NoPass
  /\ UNCHANGED <<status, settings, hook, hostWait, task, mailVars, bounds>>

RetryFailed ==
  \/ Select \/ Refuse \/ Post \/ Record \/ EndPass
  \/ \E d \in pass.todo : Skip(d) \/ Take(d)

\* dispatch_event posts at once, and leaves to the worker what fails.
Dispatch(t, m) ==
  /\ t \in cast.calls /\ task[t].pc = "idle" /\ url[m] # None
  /\ Queue(m, 1, HookDelay[1])
  /\ task' = [task EXCEPT ![t] =
       [pc |-> "sent", row |-> CHOOSE d \in Fresh : \A e \in Fresh : d <= e]]
  /\ UNCHANGED <<status, settings, hostWait, pass, mailVars, bounds>>

\* retry_webhook takes a row that failed.
Click(t, d) ==
  /\ t \in cast.calls /\ task[t].pc = "idle"
  /\ hook[d].state = "failed"
  /\ task' = [task EXCEPT ![t] = [pc |-> "sent", row |-> d]]
  /\ UNCHANGED <<status, settings, hook, hostWait, pass, mailVars, bounds>>

\* Either marks its row delivered, by id alone, or leaves it as it is.
Answer(t) ==
  /\ task[t].pc = "sent"
  /\ \E accepted \in BOOLEAN :
       hook' = IF accepted THEN [hook EXCEPT ![task[t].row].state = "delivered"] ELSE hook
  /\ task' = [task EXCEPT ![t] = Idle]
  /\ UNCHANGED <<status, settings, hostWait, pass, mailVars, bounds>>

-----------------------------------------------------------------------------
(* Mail.                                                                   *)

\* Wrong: a claimed row is left to the worker that claimed it
OnlyPending == {"pending"}

\* A row that is still to be worked off, claimed or not
Open == {"pending", "sending"}

\* Wrong: an ambiguous attempt is repeated however old it is
NeverTooOld(i) == FALSE

\* "Never retry an ambiguous request past that window"
TooOld(i) == mail[i].attempts > 0 /\ mail[i].age > GiveUpAfter

Ended(i, state) == [mail[i] EXCEPT !.state = state, !.claim = None, !.to = None]

\* UPDATE ... WHERE invoice_id = ? AND claim_id = ?
Claimed(w) == mail[mailer[w].inv].claim = w
IfClaimed(w, row) ==
  mail' = IF Claimed(w) THEN [mail EXCEPT ![mailer[w].inv] = row] ELSE mail

Step(w, to) == mailer' = [mailer EXCEPT ![w].pc = to]
Rest(w) == mailer' = [mailer EXCEPT ![w] = Resting]

\* process_next first gives up rows that are too old or exhausted,
FailOld(w) ==
  /\ w \in cast.workers /\ mailer[w].pc = "idle"
  /\ mail' = [i \in Invoices |->
       IF /\ mail[i].state \in Open
          /\ TooOld(i) \/ (mail[i].attempts >= MailAttempts /\ mail[i].wait = 0)
       THEN Ended(i, "failed") ELSE mail[i]]
  /\ Step(w, "claim")
  /\ UNCHANGED <<status, settings, hookVars, mailed, key, inbox, bounds>>

\* then claims one that is due,
Due == {i \in Invoices : mail[i].state \in Open /\ mail[i].wait = 0}

Claim(w) ==
  /\ mailer[w].pc = "claim"
  /\ IF Due = {} THEN Rest(w) /\ UNCHANGED mail
     ELSE \E i \in Due :
       /\ mail' = [mail EXCEPT ![i] = [mail[i] EXCEPT !.state = "sending", !.claim = w,
            !.wait = MailLease, !.attempts = mail[i].attempts + 1]]
       /\ mailer' = [mailer EXCEPT ![w] = [Resting EXCEPT !.pc = "look", !.inv = i,
            !.to = mail[i].to, !.tries = mail[i].attempts + 1,
            !.slow = mailer[w].slow]]
  /\ UNCHANGED <<status, settings, hookVars, mailed, key, inbox, bounds>>

\* and delivers it.  The settings and the invoice are read one after the other:
\* either can only turn against the mail, so one moment stands for both.
Wanted(i) == Owner[i] \in optedIn /\ status[i] = "confirmed"

Look(w) ==
  /\ mailer[w].pc = "look"
  /\ IF Wanted(mailer[w].inv) THEN Step(w, "event")
     ELSE mailer' = [mailer EXCEPT ![w].pc = "finish", ![w].verdict = "cancelled"]
  /\ UNCHANGED <<status, settings, hookVars, mail, mailed, key, inbox, bounds>>

AlreadySent(w) ==
  /\ mailer[w].pc = "event"
  /\ IF mailer[w].inv \notin mailed THEN Step(w, "address")
     ELSE mailer' = [mailer EXCEPT ![w].pc = "finish", ![w].verdict = "sent"]
  /\ UNCHANGED <<status, settings, hookVars, mail, mailed, key, inbox, bounds>>

\* The recipient, against the payload of an earlier attempt if there was one
ReadAddress(w) ==
  /\ mailer[w].pc = "address"
  /\ LET now == address[Owner[mailer[w].inv]] IN
     mailer' = [mailer EXCEPT ![w] =
       CASE now = None -> [@ EXCEPT !.pc = "error"]
         [] now # None /\ @.to = None -> [@ EXCEPT !.pc = "save", !.to = now]
         [] now # None /\ @.to = now -> [@ EXCEPT !.pc = "check"]
         [] OTHER -> [@ EXCEPT !.pc = "finish", !.verdict = "cancelled"]]
  /\ UNCHANGED <<status, settings, hookVars, mail, mailed, key, inbox, bounds>>

SavePayload(w) ==
  /\ mailer[w].pc = "save"
  /\ IfClaimed(w, [mail[mailer[w].inv] EXCEPT !.to = mailer[w].to])
  /\ IF Claimed(w) THEN Step(w, "check") ELSE Rest(w)
  /\ UNCHANGED <<status, settings, hookVars, mailed, key, inbox, bounds>>

CheckClaim(w) ==
  /\ mailer[w].pc = "check"
  /\ IF Claimed(w) /\ mail[mailer[w].inv].state = "sending"
     THEN mailer' = [mailer EXCEPT ![w].pc = "post", ![w].moved = FALSE]
     ELSE Rest(w)
  /\ UNCHANGED <<status, settings, hookVars, mail, mailed, key, inbox, bounds>>

\* The provider mails what it has no key for, and answers a key it knows as it
\* did before; it may also refuse, and its answer may be lost.
Send(w) ==
  LET i == mailer[w].inv IN
  /\ mailer[w].pc = "post"
  /\ \/ /\ key' = [key EXCEPT ![i] = IF @ = 0 THEN KeyTTL ELSE @]
        /\ inbox' = [inbox EXCEPT ![i] = IF key[i] = 0 THEN @ + 1 ELSE @]
        /\ \E to \in {"record", "error"} : Step(w, to)
     \/ Step(w, "error") /\ UNCHANGED <<key, inbox>>
  /\ UNCHANGED <<status, settings, hookVars, mail, mailed, bounds>>

\* One transaction: the entry in email_events and the end of the row
RecordSent(w) ==
  LET i == mailer[w].inv IN
  /\ mailer[w].pc = "record"
  /\ mailed' = IF Claimed(w) /\ mail[i].state = "sending" THEN mailed \cup {i} ELSE mailed
  /\ IfClaimed(w, Ended(i, "sent"))
  /\ Rest(w)
  /\ UNCHANGED <<status, settings, hookVars, key, inbox, bounds>>

Finish(w) ==
  /\ mailer[w].pc = "finish"
  /\ IfClaimed(w, Ended(mailer[w].inv, mailer[w].verdict))
  /\ Rest(w)
  /\ UNCHANGED <<status, settings, hookVars, mailed, key, inbox, bounds>>

\* What deliver returns as an error: the row goes back, or has had its attempts.
GiveBack(w) ==
  LET i == mailer[w].inv IN
  /\ mailer[w].pc = "error"
  /\ IfClaimed(w,
       IF mailer[w].tries >= MailAttempts THEN Ended(i, "failed")
       ELSE [mail[i] EXCEPT !.state = "pending", !.claim = None,
                            !.wait = MailDelay[mailer[w].tries]])
  /\ Rest(w)
  /\ UNCHANGED <<status, settings, hookVars, mailed, key, inbox, bounds>>

ProcessNext(w) ==
  \/ FailOld(w) \/ Claim(w) \/ Look(w) \/ AlreadySent(w) \/ ReadAddress(w)
  \/ SavePayload(w) \/ CheckClaim(w) \/ Send(w) \/ RecordSent(w)
  \/ Finish(w) \/ GiveBack(w)

-----------------------------------------------------------------------------
(* The dashboard.                                                          *)

\* Wrong: a mail that is being sent is left alone
CancelsPending == {"pending"}

Cancels == {"pending", "sending"}

\* Trigger cancel_payment_emails_on_settings_change, in the transaction that
\* saves the settings
SaveMail(m, on, to) ==
  /\ optedIn' = IF on THEN optedIn \cup {m} ELSE optedIn \ {m}
  /\ address' = [address EXCEPT ![m] = to]
  /\ mail' = [i \in Invoices |->
       IF Owner[i] = m /\ mail[i].state \in Cancels /\ (~on \/ to # address[m])
       THEN Ended(i, "cancelled") ELSE mail[i]]
  /\ mailer' = [w \in Workers |->
       IF mailer[w].inv \in {i \in Invoices : Owner[i] = m}
       THEN [mailer[w] EXCEPT !.moved = TRUE] ELSE mailer[w]]
  /\ UNCHANGED url

\* update_me: removing the address opts out, and opting in needs one.
EditMail(m) ==
  /\ Use("mail")
  /\ \E on \in BOOLEAN, to \in Addresses \cup {None} :
       /\ on => to # None
       /\ <<on, to>> # <<m \in optedIn, address[m]>>
       /\ SaveMail(m, on, to)
  /\ UNCHANGED <<status, hookVars, mailed, key, inbox>>

EditUrl(m) ==
  /\ Use("url")
  /\ \E h \in Hosts \cup {None} : h # url[m] /\ url' = [url EXCEPT ![m] = h]
  /\ UNCHANGED <<status, address, optedIn, hookVars, mailVars>>

-----------------------------------------------------------------------------
(* Time and faults.                                                        *)

Less(n) == IF n = 0 THEN 0 ELSE n - 1

Busy(w) == mailer[w].pc # "idle"

\* Between the look for old attempts and the request little time passes,
\* against a day.
Tick ==
  /\ \A w \in Workers : Busy(w) => mailer[w].slow < MaxSlow
  /\ hook' = [d \in Rows |-> [hook[d] EXCEPT !.wait = Less(@)]]
  /\ hostWait' = [h \in Hosts |-> Less(hostWait[h])]
  /\ mail' = [i \in Invoices |-> [mail[i] EXCEPT !.wait = Less(@),
       !.age = IF mail[i].attempts > 0 /\ @ <= GiveUpAfter THEN @ + 1 ELSE @]]
  /\ mailer' = [w \in Workers |->
       IF Busy(w) THEN [mailer[w] EXCEPT !.slow = @ + 1] ELSE mailer[w]]
  /\ key' = [i \in Invoices |-> Less(key[i])]
  /\ UNCHANGED <<status, settings, pass, task, mailed, inbox, bounds>>

\* A statement of the webhook worker fails, which ends its pass.
FailPass ==
  /\ Use("faults") /\ pass.pc # "idle"
  /\ pass' = NoPass
  /\ UNCHANGED <<status, settings, hook, hostWait, task, mailVars>>

\* A statement of deliver fails, or the one that gives the row back.
FailDelivery(w) ==
  /\ Use("faults") /\ mailer[w].pc \notin {"idle", "claim", "post"}
  /\ IF mailer[w].pc = "error" THEN Rest(w) ELSE Step(w, "error")
  /\ UNCHANGED <<status, settings, hookVars, mail, mailed, key, inbox>>

\* The process dies, with its memory of the hosts.
Crash ==
  /\ Use("faults")
  /\ hostWait' = [h \in Hosts |-> 0]
  /\ pass' = NoPass
  /\ task' = [t \in Emitters \cup Clicks |-> Idle]
  /\ mailer' = [w \in Workers |-> Resting]
  /\ UNCHANGED <<status, settings, hook, mail, mailed, key, inbox>>

-----------------------------------------------------------------------------
Next ==
  \/ \E i \in Invoices, to \in {"pending", "underpaid", "detected", "confirmed",
                                "expired", "refunded"} : Change(i, to)
  \/ RetryFailed
  \/ \E t \in Emitters, m \in Merchants : Dispatch(t, m)
  \/ \E t \in Clicks, d \in Rows : Click(t, d)
  \/ \E t \in Emitters \cup Clicks : Answer(t)
  \/ \E w \in Workers : ProcessNext(w) \/ FailDelivery(w)
  \/ \E m \in Merchants : EditMail(m) \/ EditUrl(m)
  \/ Tick \/ FailPass \/ Crash

Spec == Init /\ [][Next]_vars

\* Both workers are loops of their own tasks, and the clock goes on.  Nothing
\* is assumed of the endpoints, of the provider or of the merchants.
Fairness ==
  /\ WF_vars(RetryFailed) /\ WF_vars(Tick)
  /\ \A w \in Workers : WF_vars(ProcessNext(w))

FairSpec == Spec /\ Fairness

-----------------------------------------------------------------------------
(* Properties.                                                             *)

\* The rows of the two queues, and what a mail worker has in memory
HookRow == [state : {"none", "pending", "delivered", "failed"},
            host : Hosts \cup {None}, owner : Merchants \cup {None},
            attempts : Nat, wait : Nat]

MailRow == [state : {"none", "pending", "sending", "sent", "cancelled", "failed"},
            attempts : Nat, wait : Nat, age : Nat,
            claim : Workers \cup {None}, to : Addresses \cup {None}]

Memory == [pc : {"idle", "claim", "look", "event", "address", "save", "check",
                 "post", "record", "error", "finish"},
           inv : Invoices \cup {None}, to : Addresses \cup {None}, tries : Nat,
           verdict : {"none", "sent", "cancelled"}, slow : 0..MaxSlow, moved : BOOLEAN]

\* The type invariant of both queues, their workers and the provider
TypeOK ==
  /\ status \in [Invoices -> {"pending", "underpaid", "detected", "confirmed",
                              "expired", "refunded"}]
  /\ url \in [Merchants -> Hosts \cup {None}]
  /\ address \in [Merchants -> Addresses \cup {None}]
  /\ optedIn \subseteq Merchants
  /\ hook \in [Rows -> HookRow]
  /\ hostWait \in [Hosts -> Nat]
  /\ pass \in [pc : {"idle", "pass", "post", "accepted", "rejected"},
               todo : SUBSET Rows, tried : SUBSET Hosts, row : {0} \cup Rows]
  /\ task \in [Emitters \cup Clicks -> [pc : {"idle", "sent"}, row : {0} \cup Rows]]
  /\ mail \in [Invoices -> MailRow]
  /\ mailed \subseteq Invoices /\ mailer \in [Workers -> Memory]
  /\ key \in [Invoices -> 0..KeyTTL] /\ inbox \in [Invoices -> Nat]
  /\ left \in [{"mail", "url", "faults"} -> Nat] /\ cast \in Casts

\* Whatever answers are lost, leases run out and processes die, the merchant
\* gets one mail about a payment at most, and has got it when the queue says
\* so: a request is not repeated once the provider may have forgotten its key.
OneMail ==
  \A i \in Invoices :
    /\ inbox[i] <= 1
    /\ mail[i].state = "sent" \/ i \in mailed => inbox[i] = 1

\* "Stop queued mail immediately on opt-out or a recipient change": a request
\* for which the settings have not changed since the worker last looked at its
\* claim goes to the address the merchant has, and is wanted.
MailIsWanted ==
  \A w \in Workers :
    mailer[w].pc = "post" /\ ~mailer[w].moved =>
      LET m == Owner[mailer[w].inv] IN m \in optedIn /\ mailer[w].to = address[m]

\* A queued mail is sent, cancelled or given up in the end, even when each
\* worker that claims it dies: attempts are counted when they begin.
MailEnds ==
  \A i \in Invoices : mail[i].state \in {"pending", "sending"}
                        ~> mail[i].state \in {"sent", "cancelled", "failed"}

\* Once no new events come (Rows is finite), every delivery is made or given up
\* in the end: though a pass takes one row of a merchant, the merchants always
\* in the same order and not all of them, skips the rows whose host has had its
\* attempt, may end at any statement, and the process may die with a row that it
\* has claimed.  A merchant whose events never cease may keep those after it
\* waiting; nothing is promised of that.
EventEnds ==
  \A d \in Rows : hook[d].state = "pending" ~> hook[d].state \in {"delivered", "failed"}
=============================================================================
