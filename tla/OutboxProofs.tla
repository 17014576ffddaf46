----------------------------- MODULE OutboxProofs -----------------------------
(***************************************************************************)
(* Theorems of Outbox: an invoice is mailed about once at most, and to a   *)
(* merchant who wants it where the merchant wants it, for any invoices,    *)
(* merchants, workers, attempts, delays, lost answers and deaths of the    *)
(* process.                                                                *)
(*                                                                         *)
(* The provider forgets a key after KeyTTL, and a worker that looked for   *)
(* old attempts may be slow to send.  KeyInv sets the three clocks against *)
(* each other: the age of a row, the time for which its key is still       *)
(* known, and the time since a worker looked.  With KeyAssumption it       *)
(* follows that a mail that may be sent again has a key that is known.     *)
(***************************************************************************)
EXTENDS Outbox, TLAPS

-----------------------------------------------------------------------------
(* The invariant.                                                          *)

\* The worker has a mail in hand.
HasMail(w) == mailer[w].pc \notin {"idle", "claim"}

\* The worker may still come to send the mail of i: it looked for old attempts
\* and can claim the row, or has claimed it.
MaySend(w, i) ==
  \/ mailer[w].pc = "claim" /\ mail[i].state \in Open
  \/ HasMail(w) /\ mailer[w].inv = i

\* What the worker has in hand was claimed, and a claim is of a row being sent.
ClaimInv ==
  /\ \A w \in Workers :
       /\ mailer[w].pc = "idle" => mailer[w].slow = 0
       /\ HasMail(w) => /\ mailer[w].inv \in Invoices /\ mailer[w].tries > 0
                        /\ mail[mailer[w].inv].attempts > 0
  /\ \A i \in Invoices : mail[i].claim # None => mail[i].state = "sending"

\* While the attempts are not given up, the provider has remembered the key of a
\* mail for no longer than the attempts are old; and whoever may still send it
\* is not long past the look for old attempts.
KeyInv ==
  /\ \A i \in Invoices :
       /\ inbox[i] <= 1 /\ (key[i] > 0 => inbox[i] > 0)
       /\ inbox[i] > 0 => /\ mail[i].attempts > 0
                          /\ mail[i].age <= GiveUpAfter => key[i] + mail[i].age >= KeyTTL
  /\ \A w \in Workers, i \in Invoices :
       inbox[i] > 0 /\ MaySend(w, i) => key[i] + GiveUpAfter + mailer[w].slow >= KeyTTL

\* What is called sent has been delivered.
SentInv ==
  /\ \A i \in Invoices : mail[i].state = "sent" \/ i \in mailed => inbox[i] = 1
  /\ \A w \in Workers :
       \/ mailer[w].pc = "record"
       \/ mailer[w].pc = "finish" /\ mailer[w].verdict = "sent"
       => inbox[mailer[w].inv] = 1

\* The settings are those the worker has read, as long as it has its claim.
WantInv ==
  \A w \in Workers :
    LET m == Owner[mailer[w].inv] IN
    /\ mailer[w].pc \in {"event", "address", "save", "check"} /\ Claimed(w) => m \in optedIn
    /\ mailer[w].pc \in {"save", "check"} /\ Claimed(w) => mailer[w].to = address[m]
    /\ mailer[w].pc = "post" /\ ~mailer[w].moved =>
         m \in optedIn /\ mailer[w].to = address[m]

\* The rows the webhook worker, a dispatch or a click has in hand are rows.
HookInv ==
  /\ \A d \in Rows : hook[d].state # "none" => hook[d].host \in Hosts
  /\ \A d \in pass.todo : hook[d].state # "none"
  /\ pass.pc \in {"post", "accepted", "rejected"} => pass.row \in Rows
  /\ pass.row \in Rows => hook[pass.row].state # "none"
  /\ \A t \in Emitters \cup Clicks :
       task[t].pc = "sent" => task[t].row \in Rows /\ hook[task[t].row].state # "none"

-----------------------------------------------------------------------------
(* What a step can change.                                                 *)

\* The steps of a worker that has a mail in hand.
Delivers(w) ==
  \/ Look(w) \/ AlreadySent(w) \/ ReadAddress(w) \/ SavePayload(w) \/ CheckClaim(w)
  \/ Send(w) \/ RecordSent(w) \/ Finish(w) \/ GiveBack(w) \/ FailDelivery(w)

\* Each variable of the mail's changes in a few actions only.
LEMMA MailMoves ==
  ASSUME [Next]_vars
  PROVE  /\ \/ mail' = mail \/ Tick
            \/ (\E i \in Invoices : \E to : Change(i, to))
            \/ (\E w \in Workers : \/ FailOld(w) \/ Claim(w) \/ SavePayload(w)
                                   \/ RecordSent(w) \/ Finish(w) \/ GiveBack(w))
            \/ (\E m \in Merchants : EditMail(m))
         /\ \/ mailer' = mailer \/ Tick \/ Crash
            \/ (\E w \in Workers : FailOld(w) \/ Claim(w) \/ Delivers(w))
            \/ (\E m \in Merchants : EditMail(m))
         /\ \/ key' = key /\ inbox' = inbox
            \/ Tick
            \/ (\E w \in Workers : Send(w))
         /\ \/ mailed' = mailed \/ (\E w \in Workers : RecordSent(w))
         /\ \/ optedIn' = optedIn /\ address' = address
            \/ (\E m \in Merchants : EditMail(m))
<1>1. /\ \A i \in Invoices : \A to : Change(i, to) => mailer' = mailer
      /\ RetryFailed => mailer' = mailer
      /\ \A t, m : Dispatch(t, m) => mailer' = mailer
      /\ \A t, d : Click(t, d) => mailer' = mailer
      /\ \A t : Answer(t) => mailer' = mailer
      /\ \A m : EditUrl(m) => mailer' = mailer
      /\ FailPass => mailer' = mailer
      /\ UNCHANGED vars => mailer' = mailer
  BY DEF Change, RetryFailed, Select, Skip, Take, Refuse, Post, Record, EndPass,
         Dispatch, Click, Answer, EditUrl, FailPass, vars, mailVars
<1>2. \/ mailer' = mailer \/ Tick \/ Crash
      \/ (\E w \in Workers : FailOld(w) \/ Claim(w) \/ Delivers(w))
      \/ (\E m \in Merchants : EditMail(m))
  BY <1>1 DEF Next, ProcessNext, Delivers
<1> USE DEF Next, ProcessNext, Delivers, Change, RetryFailed, Select, Skip, Take, Refuse,
           Post, Record, EndPass, Dispatch, Click, Answer, FailOld, Claim, Look,
           AlreadySent, ReadAddress, SavePayload, CheckClaim, Send, RecordSent, Finish,
           GiveBack, FailDelivery, EditMail, EditUrl, Tick, FailPass, Crash,
           vars, settings, hookVars, mailVars, bounds
<1>3. \/ mail' = mail \/ Tick
      \/ (\E i \in Invoices : \E to : Change(i, to))
      \/ (\E w \in Workers : \/ FailOld(w) \/ Claim(w) \/ SavePayload(w)
                            \/ RecordSent(w) \/ Finish(w) \/ GiveBack(w))
      \/ (\E m \in Merchants : EditMail(m))
  OBVIOUS
<1>4. \/ key' = key /\ inbox' = inbox
      \/ Tick
      \/ (\E w \in Workers : Send(w))
  OBVIOUS
<1>5. \/ mailed' = mailed \/ (\E w \in Workers : RecordSent(w))
  OBVIOUS
<1>6. \/ optedIn' = optedIn /\ address' = address
      \/ (\E m \in Merchants : EditMail(m))
  OBVIOUS
<1> HIDE DEF Next, ProcessNext, Delivers, Change, RetryFailed, Select, Skip, Take, Refuse,
            Post, Record, EndPass, Dispatch, Click, Answer, FailOld, Claim, Look,
            AlreadySent, ReadAddress, SavePayload, CheckClaim, Send, RecordSent, Finish,
            GiveBack, FailDelivery, EditMail, EditUrl, Tick, FailPass, Crash,
            vars, settings, hookVars, mailVars, bounds
<1>7. QED
  BY <1>2, <1>3, <1>4, <1>5, <1>6

-----------------------------------------------------------------------------
(* Types of the mail.                                                      *)

\* The settings and the mail's variables are typed.
MailTypes ==
  /\ address \in [Merchants -> Addresses \cup {None}] /\ optedIn \subseteq Merchants
  /\ mail \in [Invoices -> MailRow]
  /\ mailed \subseteq Invoices /\ mailer \in [Workers -> Memory]
  /\ key \in [Invoices -> 0..KeyTTL] /\ inbox \in [Invoices -> Nat]

\* A row that ends, or only changes in one place, is a row.
LEMMA RowTypes ==
  ASSUME MailTypes, NEW i \in Invoices
  PROVE  /\ mail[i] \in MailRow
         /\ \A s \in {"none", "pending", "sending", "sent", "cancelled", "failed"} :
              Ended(i, s) \in MailRow
         /\ \A a \in Addresses \cup {None} : [mail[i] EXCEPT !.to = a] \in MailRow
         /\ \A n \in Nat, w \in Workers :
              [mail[i] EXCEPT !.state = "sending", !.claim = w, !.wait = MailLease,
                              !.attempts = n] \in MailRow
         /\ \A n \in Nat : [mail[i] EXCEPT !.state = "pending", !.claim = None,
                                           !.wait = n] \in MailRow
         /\ [mail[i] EXCEPT !.state = "pending"] \in MailRow
         /\ \A n, k \in Nat : [mail[i] EXCEPT !.wait = n, !.age = k] \in MailRow
<1> USE DEF MailRow
<1>1. mail[i] \in MailRow /\ MailLease \in Nat
  BY MailAssumption DEF MailTypes
<1>2. \A s \in {"none", "pending", "sending", "sent", "cancelled", "failed"} :
        Ended(i, s) \in MailRow
  BY <1>1 DEF Ended
<1>3. \A a \in Addresses \cup {None} : [mail[i] EXCEPT !.to = a] \in MailRow
  BY <1>1
<1>4. \A n \in Nat, w \in Workers :
        [mail[i] EXCEPT !.state = "sending", !.claim = w, !.wait = MailLease,
                        !.attempts = n] \in MailRow
  BY <1>1
<1>5. \A n \in Nat : [mail[i] EXCEPT !.state = "pending", !.claim = None,
                                     !.wait = n] \in MailRow
  BY <1>1
<1>6. [mail[i] EXCEPT !.state = "pending"] \in MailRow
  BY <1>1
<1>7. \A n, k \in Nat : [mail[i] EXCEPT !.wait = n, !.age = k] \in MailRow
  BY <1>1
<1> HIDE DEF MailRow
<1>8. QED
  BY <1>1, <1>2, <1>3, <1>4, <1>5, <1>6, <1>7

\* The initial state is typed.
LEMMA InitMail == Init => MailTypes
<1> SUFFICES ASSUME Init PROVE MailTypes
  OBVIOUS
<1>1. cast \in Casts /\ cast.optedIn \subseteq Merchants /\ (CHOOSE a \in Addresses : TRUE) \in Addresses
  BY CastsAssumption DEF Init
<1>2. Resting \in Memory /\ NoMail \in MailRow /\ 0 \in 0..KeyTTL
  BY MailAssumption DEF Resting, Memory, NoMail, MailRow
<1>3. QED
  BY <1>1, <1>2 DEF Init, MailTypes

\* Whatever happens to the rows of the queue, they are rows.
LEMMA MailRowStep ==
  ASSUME MailTypes, ClaimInv, [Next]_vars
  PROVE  mail' \in [Invoices -> MailRow]
<1>1. mail \in [Invoices -> MailRow]
  BY DEF MailTypes
<1>2. \A i \in Invoices : \A to : Change(i, to) => mail' \in [Invoices -> MailRow]
  BY <1>1, RowTypes DEF Change, TriggerMail
<1>3. ASSUME NEW w \in Workers, NEW row \in MailRow, IfClaimed(w, row)
      PROVE  mail' \in [Invoices -> MailRow]
  BY <1>1, <1>3 DEF IfClaimed
<1>4. ASSUME NEW w \in Workers PROVE mailer[w] \in Memory
  BY DEF MailTypes
<1>5. ASSUME NEW w \in Workers, HasMail(w)
      PROVE  mailer[w].inv \in Invoices /\ mailer[w].tries \in Nat \ {0}
  BY <1>4, <1>5 DEF ClaimInv, Memory
<1>6. ASSUME NEW w \in Workers, FailOld(w) PROVE mail' \in [Invoices -> MailRow]
  BY <1>1, <1>6, RowTypes DEF FailOld
<1>7. ASSUME NEW w \in Workers, Claim(w) PROVE mail' \in [Invoices -> MailRow]
  <2>1. ASSUME NEW i \in Invoices
        PROVE  [mail[i] EXCEPT !.state = "sending", !.claim = w, !.wait = MailLease,
                               !.attempts = mail[i].attempts + 1] \in MailRow
    <3>1. mail[i].attempts + 1 \in Nat
      BY <1>1 DEF MailRow
    <3>2. QED
      BY <3>1, RowTypes
  <2>2. QED
    BY <1>1, <1>7, <2>1 DEF Claim, Due
<1>8. ASSUME NEW w \in Workers, SavePayload(w) PROVE mail' \in [Invoices -> MailRow]
  <2>1. mailer[w].inv \in Invoices /\ mailer[w].to \in Addresses \cup {None}
    BY <1>4, <1>5, <1>8 DEF SavePayload, HasMail, Memory
  <2>2. [mail[mailer[w].inv] EXCEPT !.to = mailer[w].to] \in MailRow
    BY <2>1, RowTypes
  <2>3. QED
    BY <1>3, <1>8, <2>2 DEF SavePayload
<1>9. ASSUME NEW w \in Workers, RecordSent(w) \/ Finish(w) PROVE mail' \in [Invoices -> MailRow]
  <2>1. mailer[w].inv \in Invoices /\ mailer[w].verdict \in {"none", "sent", "cancelled"}
    BY <1>4, <1>5, <1>9 DEF RecordSent, Finish, HasMail, Memory
  <2>2. Ended(mailer[w].inv, "sent") \in MailRow /\ Ended(mailer[w].inv, mailer[w].verdict) \in MailRow
    BY <2>1, RowTypes
  <2>3. QED
    BY <1>3, <1>9, <2>2 DEF RecordSent, Finish
<1>10. ASSUME NEW w \in Workers, GiveBack(w) PROVE mail' \in [Invoices -> MailRow]
  <2>1. mailer[w].inv \in Invoices /\ mailer[w].tries \in Nat \ {0}
    BY <1>5, <1>10 DEF GiveBack, HasMail
  <2>2. Ended(mailer[w].inv, "failed") \in MailRow
    BY <2>1, RowTypes
  <2>3. CASE mailer[w].tries >= MailAttempts
    BY <1>3, <1>10, <2>2, <2>3 DEF GiveBack
  <2>4. CASE ~(mailer[w].tries >= MailAttempts)
    <3>1. MailDelay[mailer[w].tries] \in Nat
      <4>1. mailer[w].tries \in 1..MailAttempts
        BY <2>1, <2>4, MailAssumption
      <4>2. QED
        BY <4>1, MailAssumption
    <3>2. [mail[mailer[w].inv] EXCEPT !.state = "pending", !.claim = None,
                                      !.wait = MailDelay[mailer[w].tries]] \in MailRow
      BY <2>1, <3>1, RowTypes
    <3>3. QED
      BY <1>3, <1>10, <2>4, <3>2 DEF GiveBack
  <2>5. QED
    BY <2>3, <2>4
<1>11. ASSUME NEW m \in Merchants, EditMail(m) PROVE mail' \in [Invoices -> MailRow]
  BY <1>1, <1>11, RowTypes DEF EditMail, SaveMail
<1>12. CASE Tick
  <2>1. ASSUME NEW i \in Invoices
        PROVE  [mail[i] EXCEPT !.wait = Less(@),
                  !.age = IF mail[i].attempts > 0 /\ @ <= GiveUpAfter THEN @ + 1 ELSE @] \in MailRow
    <3>1. Less(mail[i].wait) \in Nat /\ mail[i].age \in Nat /\ mail[i].age + 1 \in Nat
      BY <1>1 DEF Less, MailRow
    <3>2. QED
      BY <3>1, RowTypes
  <2>2. QED
    BY <1>12, <2>1 DEF Tick
<1>13. QED
  BY <1>1, <1>2, <1>6, <1>7, <1>8, <1>9, <1>10, <1>11, <1>12, MailMoves

\* Whatever a worker does, its memory stays a memory.
LEMMA MailerStep ==
  ASSUME MailTypes, ClaimInv, [Next]_vars
  PROVE  mailer' \in [Workers -> Memory]
<1>1. mailer \in [Workers -> Memory] /\ 0 \in 0..MaxSlow /\ MaxSlow \in Nat
  BY MailAssumption DEF MailTypes
<1>2. ASSUME NEW w \in Workers, NEW mem \in Memory, mailer' = [mailer EXCEPT ![w] = mem]
      PROVE  mailer' \in [Workers -> Memory]
  BY <1>1, <1>2
<1>3. Resting \in Memory
  BY <1>1 DEF Resting, Memory
<1>4. ASSUME NEW w \in Workers,
             NEW p \in {"idle", "claim", "look", "event", "address", "save", "check",
                        "post", "record", "error", "finish"}, Step(w, p)
      PROVE  mailer' \in [Workers -> Memory]
  <2>1. [mailer[w] EXCEPT !.pc = p] \in Memory
    BY <1>1 DEF Memory
  <2>2. mailer' = [mailer EXCEPT ![w] = [mailer[w] EXCEPT !.pc = p]]
    BY <1>4 DEF Step
  <2>3. QED
    BY <1>2, <2>1, <2>2
<1>5. ASSUME NEW w \in Workers, Rest(w) PROVE mailer' \in [Workers -> Memory]
  BY <1>2, <1>3, <1>5 DEF Rest
<1>6. ASSUME NEW w \in Workers, Claim(w) PROVE mailer' \in [Workers -> Memory]
  <2>1. ASSUME NEW i \in Invoices PROVE
          [Resting EXCEPT !.pc = "look", !.inv = i, !.to = mail[i].to,
                          !.tries = mail[i].attempts + 1, !.slow = mailer[w].slow] \in Memory
    <3>1. mail[i].to \in Addresses \cup {None} /\ mail[i].attempts + 1 \in Nat
          /\ mailer[w].slow \in 0..MaxSlow
      BY <1>1 DEF MailTypes, MailRow, Memory
    <3>2. QED
      BY <3>1 DEF Memory, Resting
  <2>2. QED
    BY <1>2, <1>5, <1>6, <2>1 DEF Claim, Due
<1>7. ASSUME NEW w \in Workers, NEW v \in {"none", "sent", "cancelled"},
             mailer' = [mailer EXCEPT ![w].pc = "finish", ![w].verdict = v]
      PROVE  mailer' \in [Workers -> Memory]
  <2>1. [mailer[w] EXCEPT !.pc = "finish", !.verdict = v] \in Memory
    BY <1>1 DEF Memory
  <2>2. mailer' = [mailer EXCEPT ![w] = [mailer[w] EXCEPT !.pc = "finish", !.verdict = v]]
    BY <1>7
  <2>3. QED
    BY <1>2, <2>1, <2>2
<1>8. ASSUME NEW w \in Workers, Look(w) \/ AlreadySent(w)
      PROVE  mailer' \in [Workers -> Memory]
  BY <1>4, <1>7, <1>8 DEF Look, AlreadySent
<1>9. ASSUME NEW w \in Workers, ReadAddress(w) PROVE mailer' \in [Workers -> Memory]
  <2> DEFINE now == address[Owner[mailer[w].inv]]
             new == CASE now = None -> [mailer[w] EXCEPT !.pc = "error"]
                      [] now # None /\ mailer[w].to = None ->
                           [mailer[w] EXCEPT !.pc = "save", !.to = now]
                      [] now # None /\ mailer[w].to = now -> [mailer[w] EXCEPT !.pc = "check"]
                      [] OTHER -> [mailer[w] EXCEPT !.pc = "finish", !.verdict = "cancelled"]
  <2>1. mailer[w].inv \in Invoices
    BY <1>9 DEF ReadAddress, HasMail, ClaimInv
  <2>2. now \in Addresses \cup {None}
    BY <2>1, OwnerAssumption DEF MailTypes
  <2>3. mailer' = [mailer EXCEPT ![w] = new]
    BY <1>9 DEF ReadAddress
  <2> HIDE DEF now
  <2>4. /\ [mailer[w] EXCEPT !.pc = "error"] \in Memory
        /\ [mailer[w] EXCEPT !.pc = "save", !.to = now] \in Memory
        /\ [mailer[w] EXCEPT !.pc = "check"] \in Memory
        /\ [mailer[w] EXCEPT !.pc = "finish", !.verdict = "cancelled"] \in Memory
    BY <1>1, <2>2 DEF Memory
  <2>5. new \in Memory
    BY <2>4
  <2> HIDE DEF new
  <2>6. QED
    BY <1>2, <2>3, <2>5
<1>10. ASSUME NEW w \in Workers, CheckClaim(w) PROVE mailer' \in [Workers -> Memory]
  <2>1. [mailer[w] EXCEPT !.pc = "post", !.moved = FALSE] \in Memory
    BY <1>1 DEF Memory
  <2>2. \/ mailer' = [mailer EXCEPT ![w] = [mailer[w] EXCEPT !.pc = "post", !.moved = FALSE]]
        \/ Rest(w)
    BY <1>10 DEF CheckClaim
  <2>3. QED
    BY <1>2, <1>5, <2>1, <2>2
<1>11. ASSUME NEW w \in Workers,
              \/ FailOld(w) \/ SavePayload(w) \/ Send(w) \/ RecordSent(w) \/ Finish(w)
              \/ GiveBack(w) \/ FailDelivery(w)
       PROVE  mailer' \in [Workers -> Memory]
  BY <1>4, <1>5, <1>11
  DEF FailOld, SavePayload, Send, RecordSent, Finish, GiveBack, FailDelivery
<1>12. ASSUME NEW m \in Merchants, EditMail(m) PROVE mailer' \in [Workers -> Memory]
  <2>1. \A w \in Workers : [mailer[w] EXCEPT !.moved = TRUE] \in Memory
    BY <1>1 DEF Memory
  <2>2. QED
    BY <1>1, <1>12, <2>1 DEF EditMail, SaveMail
<1>13. CASE Tick
  <2>1. ASSUME NEW w \in Workers, mailer[w].slow < MaxSlow
        PROVE  [mailer[w] EXCEPT !.slow = mailer[w].slow + 1] \in Memory
    <3>1. mailer[w].slow + 1 \in 0..MaxSlow
      BY <1>1, <2>1 DEF Memory
    <3>2. QED
      BY <1>1, <3>1 DEF Memory
  <2>2. QED
    BY <1>1, <1>13, <2>1 DEF Tick
<1>14. CASE Crash
  BY <1>3, <1>14 DEF Crash
<1>15. QED
  BY <1>1, <1>6, <1>8, <1>9, <1>10, <1>11, <1>12, <1>13, <1>14, MailMoves DEF Delivers

\* So the mail's variables stay typed.
LEMMA NextMail == MailTypes /\ ClaimInv /\ [Next]_vars => MailTypes'
<1> SUFFICES ASSUME MailTypes, ClaimInv, [Next]_vars PROVE MailTypes'
  OBVIOUS
<1>1. mail' \in [Invoices -> MailRow] /\ mailer' \in [Workers -> Memory]
  BY MailRowStep, MailerStep
<1>2. address' \in [Merchants -> Addresses \cup {None}] /\ optedIn' \subseteq Merchants
  BY MailMoves DEF MailTypes, EditMail, SaveMail
<1>3. mailed' \subseteq Invoices
  BY MailMoves DEF MailTypes, RecordSent, HasMail, ClaimInv
<1>4. key' \in [Invoices -> 0..KeyTTL] /\ inbox' \in [Invoices -> Nat]
  <2>1. ASSUME NEW n \in 0..KeyTTL PROVE Less(n) \in 0..KeyTTL
    <3>1. KeyTTL \in Nat
      BY MailAssumption
    <3>2. QED
      BY <3>1 DEF Less
  <2>2. Tick => key' \in [Invoices -> 0..KeyTTL] /\ inbox' = inbox
    <3>1. \A i \in Invoices : Less(key[i]) \in 0..KeyTTL
      BY <2>1 DEF MailTypes
    <3>2. Tick => key' = [i \in Invoices |-> Less(key[i])] /\ inbox' = inbox
      BY DEF Tick
    <3>3. QED
      BY <3>1, <3>2
  <2>3. \A w \in Workers : Send(w) => key' \in [Invoices -> 0..KeyTTL]
    <3>1. KeyTTL \in 0..KeyTTL
      BY MailAssumption
    <3>2. QED
      BY <3>1 DEF Send, MailTypes
  <2>4. \A w \in Workers : Send(w) => inbox' \in [Invoices -> Nat]
    BY DEF Send, MailTypes
  <2>5. QED
    BY <2>2, <2>3, <2>4, MailMoves DEF MailTypes
<1>5. QED
  BY <1>1, <1>2, <1>3, <1>4 DEF MailTypes

-----------------------------------------------------------------------------
(* What becomes of a row, and of what a worker has in hand.                *)

\* The rows a worker's statement leaves, and the one it changes if it has the claim.
LEMMA ClaimedRow ==
  ASSUME MailTypes, NEW w \in Workers, mailer[w].inv \in Invoices, NEW row,
         IfClaimed(w, row), NEW i \in Invoices
  PROVE  mail'[i] = mail[i] \/ (mailer[w].inv = i /\ mail[i].claim = w /\ mail'[i] = row)
BY DEF IfClaimed, Claimed, MailTypes

\* What a step does to a row of the queue.
LEMMA RowSteps ==
  ASSUME MailTypes, ClaimInv, [Next]_vars, NEW i \in Invoices
  PROVE  \/ mail'[i] = mail[i]
         \/ mail[i] = NoMail /\ mail'[i] = [NoMail EXCEPT !.state = "pending"]
         \/ \E w \in Workers :
              /\ Claim(w) /\ mailer'[w].pc = "look" /\ mail[i].state \in Open
              /\ mail'[i] = [mail[i] EXCEPT !.state = "sending", !.claim = w,
                               !.wait = MailLease, !.attempts = mail[i].attempts + 1]
         \/ \E w \in Workers :
              mail[i].claim = w /\ mail'[i] = [mail[i] EXCEPT !.to = mailer[w].to]
         \/ \E s \in {"none", "failed", "cancelled"} : mail'[i] = Ended(i, s)
         \/ \E w \in Workers : /\ mailer[w].inv = i /\ mail'[i] = Ended(i, "sent")
                               /\ \/ mailer[w].pc = "record"
                                  \/ mailer[w].pc = "finish" /\ mailer[w].verdict = "sent"
         \/ \E w \in Workers, n \in Nat :
              /\ mail[i].claim = w
              /\ mail'[i] = [mail[i] EXCEPT !.state = "pending", !.claim = None, !.wait = n]
         \/ /\ Tick
            /\ mail'[i] = [mail[i] EXCEPT !.wait = Less(mail[i].wait),
                 !.age = IF mail[i].attempts > 0 /\ mail[i].age <= GiveUpAfter
                         THEN mail[i].age + 1 ELSE mail[i].age]
<1>1. DOMAIN mail = Invoices /\ DOMAIN mailer = Workers
  BY DEF MailTypes
<1>2. \A w \in Workers : HasMail(w) => mailer[w].inv \in Invoices
  BY DEF ClaimInv
<1>3. ASSUME NEW j \in Invoices, NEW to, Change(j, to)
      PROVE  mail'[i] = mail[i] \/ (mail[i] = NoMail /\ mail'[i] = [NoMail EXCEPT !.state = "pending"])
  <2>1. mail' = mail \/ (mail[j] = NoMail /\ mail' = [mail EXCEPT ![j].state = "pending"])
    BY <1>3 DEF Change, TriggerMail
  <2>2. QED
    BY <1>1, <2>1
<1>4. ASSUME NEW w \in Workers, FailOld(w)
      PROVE  mail'[i] = mail[i] \/ mail'[i] = Ended(i, "failed")
  BY <1>4 DEF FailOld
<1>5. ASSUME NEW w \in Workers, Claim(w)
      PROVE  \/ mail'[i] = mail[i]
             \/ /\ mailer'[w].pc = "look" /\ mail[i].state \in Open
                /\ mail'[i] = [mail[i] EXCEPT !.state = "sending", !.claim = w,
                                 !.wait = MailLease, !.attempts = mail[i].attempts + 1]
  <2>1. CASE Due = {}
    BY <1>5, <2>1 DEF Claim
  <2>2. CASE Due # {}
    <3>1. PICK j \in Due :
            /\ mail' = [mail EXCEPT ![j] = [mail[j] EXCEPT !.state = "sending", !.claim = w,
                          !.wait = MailLease, !.attempts = mail[j].attempts + 1]]
            /\ mailer' = [mailer EXCEPT ![w] = [Resting EXCEPT !.pc = "look", !.inv = j,
                            !.to = mail[j].to, !.tries = mail[j].attempts + 1,
                            !.slow = mailer[w].slow]]
      BY <1>5, <2>2 DEF Claim
    <3>2. mailer'[w].pc = "look"
      BY <1>1, <3>1 DEF Resting
    <3>3. QED
      BY <1>1, <3>1, <3>2 DEF Due
  <2>3. QED
    BY <2>1, <2>2
<1>6. ASSUME NEW w \in Workers, SavePayload(w)
      PROVE  \/ mail'[i] = mail[i]
             \/ mail[i].claim = w /\ mail'[i] = [mail[i] EXCEPT !.to = mailer[w].to]
  <2>1. mailer[w].inv \in Invoices
    BY <1>2, <1>6 DEF SavePayload, HasMail
  <2>2. IfClaimed(w, [mail[mailer[w].inv] EXCEPT !.to = mailer[w].to])
    BY <1>6 DEF SavePayload
  <2>3. QED
    BY <2>1, <2>2, ClaimedRow
<1>7. ASSUME NEW w \in Workers, RecordSent(w)
      PROVE  \/ mail'[i] = mail[i]
             \/ mailer[w].inv = i /\ mail'[i] = Ended(i, "sent") /\ mailer[w].pc = "record"
  <2>1. mailer[w].inv \in Invoices
    BY <1>2, <1>7 DEF RecordSent, HasMail
  <2>2. IfClaimed(w, Ended(mailer[w].inv, "sent"))
    BY <1>7 DEF RecordSent
  <2>3. QED
    BY <1>7, <2>1, <2>2, ClaimedRow DEF RecordSent
<1>8. ASSUME NEW w \in Workers, Finish(w)
      PROVE  \/ mail'[i] = mail[i]
             \/ mailer[w].inv = i /\ mailer[w].pc = "finish" /\ mail'[i] = Ended(i, mailer[w].verdict)
  <2>1. mailer[w].inv \in Invoices
    BY <1>2, <1>8 DEF Finish, HasMail
  <2>2. IfClaimed(w, Ended(mailer[w].inv, mailer[w].verdict))
    BY <1>8 DEF Finish
  <2>3. QED
    BY <1>8, <2>1, <2>2, ClaimedRow DEF Finish
<1>9. ASSUME NEW w \in Workers, GiveBack(w)
      PROVE  \/ mail'[i] = mail[i] \/ mail'[i] = Ended(i, "failed")
             \/ \E n \in Nat :
                  /\ mail[i].claim = w
                  /\ mail'[i] = [mail[i] EXCEPT !.state = "pending", !.claim = None, !.wait = n]
  <2>1. mailer[w].inv \in Invoices /\ mailer[w].tries \in Nat \ {0}
    BY <1>9 DEF GiveBack, HasMail, ClaimInv, MailTypes, Memory
  <2>2. CASE mailer[w].tries >= MailAttempts
    <3>1. IfClaimed(w, Ended(mailer[w].inv, "failed"))
      BY <1>9, <2>2 DEF GiveBack
    <3>2. QED
      BY <2>1, <3>1, ClaimedRow
  <2>3. CASE ~(mailer[w].tries >= MailAttempts)
    <3>1. mailer[w].tries \in 1..MailAttempts
      BY <2>1, <2>3, MailAssumption
    <3>2. MailDelay[mailer[w].tries] \in Nat
      BY <3>1, MailAssumption
    <3>3. IfClaimed(w, [mail[mailer[w].inv] EXCEPT !.state = "pending", !.claim = None,
                                                   !.wait = MailDelay[mailer[w].tries]])
      BY <1>9, <2>3 DEF GiveBack
    <3>4. ASSUME mail'[i] # mail[i]
          PROVE  /\ mailer[w].inv = i /\ mail[i].claim = w
                 /\ mail'[i] = [mail[mailer[w].inv] EXCEPT !.state = "pending", !.claim = None,
                                                   !.wait = MailDelay[mailer[w].tries]]
      BY <2>1, <3>3, <3>4, ClaimedRow
    <3> DEFINE n == MailDelay[mailer[w].tries]
    <3>5. n \in Nat
      BY <3>2
    <3>6. mail'[i] # mail[i] =>
            /\ mail[i].claim = w
            /\ mail'[i] = [mail[i] EXCEPT !.state = "pending", !.claim = None, !.wait = n]
      BY <3>4
    <3> HIDE DEF n
    <3>7. QED
      BY <3>5, <3>6
  <2>4. QED
    BY <2>2, <2>3
<1>10. ASSUME NEW m \in Merchants, EditMail(m)
       PROVE  mail'[i] = mail[i] \/ mail'[i] = Ended(i, "cancelled")
  BY <1>10 DEF EditMail, SaveMail
<1>11. Tick => mail'[i] = [mail[i] EXCEPT !.wait = Less(mail[i].wait),
                 !.age = IF mail[i].attempts > 0 /\ mail[i].age <= GiveUpAfter
                         THEN mail[i].age + 1 ELSE mail[i].age]
  BY DEF Tick
<1>12. \A w \in Workers : mailer[w].verdict \in {"none", "sent", "cancelled"}
  BY DEF MailTypes, Memory
<1>13. \/ mail' = mail \/ Tick
       \/ (\E j \in Invoices : \E to : Change(j, to))
       \/ (\E w \in Workers : \/ FailOld(w) \/ Claim(w) \/ SavePayload(w)
                              \/ RecordSent(w) \/ Finish(w) \/ GiveBack(w))
       \/ (\E m \in Merchants : EditMail(m))
  BY MailMoves
<1>14. QED
  <2>1. CASE mail' = mail \/ Tick \/ (\E m \in Merchants : EditMail(m))
    BY <1>10, <1>11, <2>1
  <2>2. CASE \E j \in Invoices : \E to : Change(j, to)
    BY <1>3, <2>2
  <2>3. ASSUME NEW w \in Workers, FailOld(w) \/ GiveBack(w)
        PROVE  \/ mail'[i] = mail[i] \/ mail'[i] = Ended(i, "failed")
               \/ \E v \in Workers, n \in Nat :
                    /\ mail[i].claim = v
                    /\ mail'[i] = [mail[i] EXCEPT !.state = "pending", !.claim = None, !.wait = n]
    BY <1>4, <1>9, <2>3
  <2>4. ASSUME NEW w \in Workers, RecordSent(w) \/ Finish(w)
        PROVE  \/ mail'[i] = mail[i]
               \/ \E s \in {"none", "failed", "cancelled"} : mail'[i] = Ended(i, s)
               \/ \E v \in Workers : /\ mailer[v].inv = i /\ mail'[i] = Ended(i, "sent")
                                     /\ \/ mailer[v].pc = "record"
                                        \/ mailer[v].pc = "finish" /\ mailer[v].verdict = "sent"
    BY <1>7, <1>8, <1>12, <2>4
  <2>5. QED
    BY <1>5, <1>6, <1>13, <2>1, <2>2, <2>3, <2>4

\* In short: attempts are counted and never forgotten, a row ends once and for
\* all, a claim is of the worker that made it, and only the clock ages a row.
LEMMA RowFacts ==
  ASSUME MailTypes, ClaimInv, [Next]_vars, NEW i \in Invoices
  PROVE  /\ mail'[i].attempts >= mail[i].attempts
         /\ mail'[i].state \in Open => mail[i].state \in Open \/ mail[i] = NoMail
         /\ mail'[i].claim # None => mail'[i].state = "sending"
         /\ \A w \in Workers :
              mail'[i].claim = w => \/ mail[i].claim = w
                                    \/ Claim(w) /\ mailer'[w].pc = "look"
         /\ mail'[i].state = "sent" =>
              \/ mail[i].state = "sent"
              \/ \E w \in Workers :
                   /\ mailer[w].inv = i
                   /\ \/ mailer[w].pc = "record"
                      \/ mailer[w].pc = "finish" /\ mailer[w].verdict = "sent"
         /\ \/ mail'[i].age = mail[i].age
            \/ /\ Tick
               /\ mail'[i].age = IF mail[i].attempts > 0 /\ mail[i].age <= GiveUpAfter
                                 THEN mail[i].age + 1 ELSE mail[i].age
<1>1. mail[i] \in MailRow /\ mail[i].attempts \in Nat
  BY DEF MailTypes, MailRow
<1>2. mail[i].claim # None => mail[i].state = "sending"
  BY DEF ClaimInv
<1>3. None \notin Workers
  BY NoneAssumption
<1>4. CASE mail'[i] = mail[i]
  BY <1>1, <1>2, <1>4
<1>5. CASE mail[i] = NoMail /\ mail'[i] = [NoMail EXCEPT !.state = "pending"]
  BY <1>3, <1>5 DEF NoMail
<1>6. ASSUME NEW w \in Workers, Claim(w), mailer'[w].pc = "look", mail[i].state \in Open,
             mail'[i] = [mail[i] EXCEPT !.state = "sending", !.claim = w,
                           !.wait = MailLease, !.attempts = mail[i].attempts + 1]
      PROVE  /\ mail'[i].attempts = mail[i].attempts + 1
             /\ mail'[i].claim = w /\ mail'[i].state = "sending"
             /\ mail'[i].age = mail[i].age
  BY <1>1, <1>6 DEF MailRow
<1>7. ASSUME NEW w \in Workers, mail[i].claim = w,
             mail'[i] = [mail[i] EXCEPT !.to = mailer[w].to]
      PROVE  /\ mail'[i].attempts = mail[i].attempts /\ mail'[i].age = mail[i].age
             /\ mail'[i].claim = mail[i].claim /\ mail'[i].state = mail[i].state
  BY <1>1, <1>7 DEF MailRow
<1>8. ASSUME NEW s, mail'[i] = Ended(i, s)
      PROVE  /\ mail'[i].attempts = mail[i].attempts /\ mail'[i].age = mail[i].age
             /\ mail'[i].claim = None /\ mail'[i].state = s
  BY <1>1, <1>8 DEF MailRow, Ended
<1>9. ASSUME NEW n, mail'[i] = [mail[i] EXCEPT !.state = "pending", !.claim = None, !.wait = n]
      PROVE  /\ mail'[i].attempts = mail[i].attempts /\ mail'[i].age = mail[i].age
             /\ mail'[i].claim = None /\ mail'[i].state = "pending"
  BY <1>1, <1>9 DEF MailRow
<1>10. ASSUME mail'[i] = [mail[i] EXCEPT !.wait = Less(mail[i].wait),
                !.age = IF mail[i].attempts > 0 /\ mail[i].age <= GiveUpAfter
                        THEN mail[i].age + 1 ELSE mail[i].age]
       PROVE  /\ mail'[i].attempts = mail[i].attempts
              /\ mail'[i].claim = mail[i].claim /\ mail'[i].state = mail[i].state
              /\ mail'[i].age = IF mail[i].attempts > 0 /\ mail[i].age <= GiveUpAfter
                                THEN mail[i].age + 1 ELSE mail[i].age
  BY <1>1, <1>10 DEF MailRow
<1>11. CASE \E w \in Workers :
              /\ Claim(w) /\ mailer'[w].pc = "look" /\ mail[i].state \in Open
              /\ mail'[i] = [mail[i] EXCEPT !.state = "sending", !.claim = w,
                               !.wait = MailLease, !.attempts = mail[i].attempts + 1]
  <2>1. PICK v \in Workers :
          /\ Claim(v) /\ mailer'[v].pc = "look" /\ mail[i].state \in Open
          /\ mail'[i] = [mail[i] EXCEPT !.state = "sending", !.claim = v,
                           !.wait = MailLease, !.attempts = mail[i].attempts + 1]
    BY <1>11
  <2>2. /\ mail'[i].attempts = mail[i].attempts + 1
        /\ mail'[i].claim = v /\ mail'[i].state = "sending"
        /\ mail'[i].age = mail[i].age
    BY <1>6, <2>1
  <2>3. mail'[i].attempts >= mail[i].attempts
    BY <1>1, <2>2
  <2>4. QED
    BY <2>1, <2>2, <2>3
<1>12. CASE \E w \in Workers :
              mail[i].claim = w /\ mail'[i] = [mail[i] EXCEPT !.to = mailer[w].to]
  BY <1>1, <1>2, <1>7, <1>12
<1>13. CASE \E s \in {"none", "failed", "cancelled"} : mail'[i] = Ended(i, s)
  BY <1>1, <1>3, <1>8, <1>13 DEF Open
<1>14. CASE \E w \in Workers : /\ mailer[w].inv = i /\ mail'[i] = Ended(i, "sent")
                               /\ \/ mailer[w].pc = "record"
                                  \/ mailer[w].pc = "finish" /\ mailer[w].verdict = "sent"
  BY <1>1, <1>3, <1>8, <1>14 DEF Open
<1>15. CASE \E w \in Workers, n \in Nat :
              /\ mail[i].claim = w
              /\ mail'[i] = [mail[i] EXCEPT !.state = "pending", !.claim = None, !.wait = n]
  BY <1>1, <1>2, <1>3, <1>9, <1>15 DEF Open
<1>16. CASE /\ Tick
            /\ mail'[i] = [mail[i] EXCEPT !.wait = Less(mail[i].wait),
                 !.age = IF mail[i].attempts > 0 /\ mail[i].age <= GiveUpAfter
                         THEN mail[i].age + 1 ELSE mail[i].age]
  BY <1>1, <1>2, <1>10, <1>16
<1>17. QED
  BY <1>4, <1>5, <1>11, <1>12, <1>13, <1>14, <1>15, <1>16, RowSteps

\* What a step does to the memory of a worker.
LEMMA MemorySteps ==
  ASSUME MailTypes, ClaimInv, [Next]_vars, NEW w \in Workers
  PROVE  \/ mailer'[w] = mailer[w]
         \/ mailer'[w] = Resting
         \/ FailOld(w) /\ mailer'[w] = [mailer[w] EXCEPT !.pc = "claim"]
         \/ \E i \in Invoices :
              /\ Claim(w) /\ mail[i].state \in Open
              /\ mail'[i].attempts = mail[i].attempts + 1
              /\ mailer'[w] = [Resting EXCEPT !.pc = "look", !.inv = i, !.to = mail[i].to,
                                 !.tries = mail[i].attempts + 1, !.slow = mailer[w].slow]
         \/ /\ Delivers(w) /\ HasMail(w)
            /\ mailer'[w].pc \notin {"idle", "claim"} /\ mailer'[w].inv = mailer[w].inv
            /\ mailer'[w].tries = mailer[w].tries /\ mailer'[w].slow = mailer[w].slow
         \/ /\ Tick /\ Busy(w)
            /\ mailer'[w] = [mailer[w] EXCEPT !.slow = mailer[w].slow + 1]
         \/ \E m \in Merchants :
              /\ EditMail(m) /\ mailer[w].inv \in Invoices /\ Owner[mailer[w].inv] = m
              /\ mailer'[w] = [mailer[w] EXCEPT !.moved = TRUE]
<1>1. DOMAIN mail = Invoices /\ DOMAIN mailer = Workers /\ mailer[w] \in Memory
      /\ \A i \in Invoices : mail[i] \in MailRow
  BY DEF MailTypes
<1>2. ASSUME NEW v \in Workers, v # w, FailOld(v) \/ Claim(v) \/ Delivers(v)
      PROVE  mailer'[w] = mailer[w]
  <2>1. Step(v, "claim") \/ Rest(v) \/ FailOld(v) \/ Claim(v) \/ Delivers(v)
    BY <1>2
  <2>2. \A p : Step(v, p) => mailer'[w] = mailer[w]
    BY <1>1, <1>2 DEF Step
  <2>3. Rest(v) => mailer'[w] = mailer[w]
    BY <1>1, <1>2 DEF Rest
  <2>4. FailOld(v) \/ Claim(v) => mailer'[w] = mailer[w]
    BY <1>1, <1>2, <2>2, <2>3 DEF FailOld, Claim
  <2>5. Look(v) \/ AlreadySent(v) \/ CheckClaim(v) => mailer'[w] = mailer[w]
    BY <1>1, <1>2, <2>2, <2>3 DEF Look, AlreadySent, CheckClaim
  <2>6. ReadAddress(v) => mailer'[w] = mailer[w]
    BY <1>1, <1>2 DEF ReadAddress
  <2>7. SavePayload(v) \/ Send(v) \/ RecordSent(v) => mailer'[w] = mailer[w]
    BY <2>2, <2>3 DEF SavePayload, Send, RecordSent
  <2>8. Finish(v) \/ GiveBack(v) \/ FailDelivery(v) => mailer'[w] = mailer[w]
    BY <2>2, <2>3 DEF Finish, GiveBack, FailDelivery
  <2>9. QED
    BY <1>2, <2>4, <2>5, <2>6, <2>7, <2>8 DEF Delivers
<1>3. FailOld(w) => mailer'[w] = [mailer[w] EXCEPT !.pc = "claim"]
  BY <1>1 DEF FailOld, Step
<1>4. ASSUME Claim(w)
      PROVE  \/ mailer'[w] = Resting
             \/ \E i \in Invoices :
                  /\ mail[i].state \in Open
                  /\ mail'[i].attempts = mail[i].attempts + 1
                  /\ mailer'[w] = [Resting EXCEPT !.pc = "look", !.inv = i, !.to = mail[i].to,
                                     !.tries = mail[i].attempts + 1, !.slow = mailer[w].slow]
  <2>1. CASE Due = {}
    BY <1>1, <1>4, <2>1 DEF Claim, Rest
  <2>2. CASE Due # {}
    <3>1. PICK j \in Due :
            /\ mail' = [mail EXCEPT ![j] = [mail[j] EXCEPT !.state = "sending", !.claim = w,
                          !.wait = MailLease, !.attempts = mail[j].attempts + 1]]
            /\ mailer' = [mailer EXCEPT ![w] = [Resting EXCEPT !.pc = "look", !.inv = j,
                            !.to = mail[j].to, !.tries = mail[j].attempts + 1,
                            !.slow = mailer[w].slow]]
      BY <1>4, <2>2 DEF Claim
    <3>2. j \in Invoices /\ mail[j].state \in Open
      BY <3>1 DEF Due
    <3>3. mail'[j].attempts = mail[j].attempts + 1
      BY <1>1, <3>1, <3>2 DEF MailRow
    <3>4. mailer'[w] = [Resting EXCEPT !.pc = "look", !.inv = j, !.to = mail[j].to,
                          !.tries = mail[j].attempts + 1, !.slow = mailer[w].slow]
      BY <1>1, <3>1
    <3>5. QED
      BY <3>2, <3>3, <3>4
  <2>3. QED
    BY <2>1, <2>2
<1>5. ASSUME Delivers(w)
      PROVE  /\ HasMail(w)
             /\ \/ mailer'[w] = Resting
                \/ /\ mailer'[w].pc \notin {"idle", "claim"} /\ mailer'[w].inv = mailer[w].inv
                   /\ mailer'[w].tries = mailer[w].tries /\ mailer'[w].slow = mailer[w].slow
  <2>1. HasMail(w)
    BY <1>5 DEF Delivers, HasMail, Look, AlreadySent, ReadAddress, SavePayload, CheckClaim,
                Send, RecordSent, Finish, GiveBack, FailDelivery
  <2> DEFINE Kept == /\ mailer'[w].pc \notin {"idle", "claim"} /\ mailer'[w].inv = mailer[w].inv
                     /\ mailer'[w].tries = mailer[w].tries /\ mailer'[w].slow = mailer[w].slow
  <2>2. \A p \in {"event", "address", "check", "error", "record"} : Step(w, p) => Kept
    BY <1>1 DEF Step, Memory
  <2>3. Rest(w) => mailer'[w] = Resting
    BY <1>1 DEF Rest
  <2>4. Look(w) \/ AlreadySent(w) => Kept
    BY <1>1, <2>2 DEF Look, AlreadySent, Memory
  <2>5. CheckClaim(w) => Kept \/ mailer'[w] = Resting
    BY <1>1, <2>3 DEF CheckClaim, Memory
  <2>6. ReadAddress(w) => Kept
    BY <1>1 DEF ReadAddress, Memory
  <2>7. SavePayload(w) \/ Send(w) \/ RecordSent(w) \/ Finish(w) \/ GiveBack(w) \/ FailDelivery(w)
          => Kept \/ mailer'[w] = Resting
    BY <2>2, <2>3 DEF SavePayload, Send, RecordSent, Finish, GiveBack, FailDelivery
  <2> HIDE DEF Kept
  <2>8. Kept \/ mailer'[w] = Resting
    BY <1>5, <2>4, <2>5, <2>6, <2>7 DEF Delivers
  <2>9. QED
    BY <2>1, <2>8 DEF Kept
<1>6. ASSUME NEW m \in Merchants, EditMail(m)
      PROVE  \/ mailer'[w] = mailer[w]
             \/ /\ mailer[w].inv \in Invoices /\ Owner[mailer[w].inv] = m
                /\ mailer'[w] = [mailer[w] EXCEPT !.moved = TRUE]
  BY <1>6 DEF EditMail, SaveMail
<1>7. ASSUME Tick
      PROVE  \/ mailer'[w] = mailer[w]
             \/ Busy(w) /\ mailer'[w] = [mailer[w] EXCEPT !.slow = mailer[w].slow + 1]
  BY <1>7 DEF Tick
<1>8. Crash => mailer'[w] = Resting
  BY DEF Crash
<1>9. \/ mailer' = mailer \/ Tick \/ Crash
      \/ (\E v \in Workers : FailOld(v) \/ Claim(v) \/ Delivers(v))
      \/ (\E m \in Merchants : EditMail(m))
  BY MailMoves
<1>10. CASE \E v \in Workers : FailOld(v) \/ Claim(v) \/ Delivers(v)
  BY <1>2, <1>3, <1>4, <1>5, <1>10
<1>11. CASE \E m \in Merchants : EditMail(m)
  BY <1>6, <1>11
<1>12. QED
  BY <1>7, <1>8, <1>9, <1>10, <1>11

-----------------------------------------------------------------------------
(* The invariant is kept.                                                  *)

\* What a worker has in hand was claimed.
LEMMA NextClaim == MailTypes /\ ClaimInv /\ [Next]_vars => ClaimInv'
<1> SUFFICES ASSUME MailTypes, ClaimInv, [Next]_vars PROVE ClaimInv'
  OBVIOUS
<1>1. ASSUME NEW i \in Invoices
      PROVE  /\ mail'[i].claim # None => mail'[i].state = "sending"
             /\ mail'[i].attempts >= mail[i].attempts /\ mail[i].attempts \in Nat
             /\ mail'[i].attempts \in Nat
  BY RowFacts, MailRowStep DEF MailTypes, MailRow
<1>2. ASSUME NEW w \in Workers
      PROVE  /\ mailer'[w].pc = "idle" => mailer'[w].slow = 0
             /\ mailer'[w].pc \notin {"idle", "claim"} =>
                  /\ mailer'[w].inv \in Invoices /\ mailer'[w].tries > 0
                  /\ mail'[mailer'[w].inv].attempts > 0
  <2>1. /\ mailer[w] \in Memory /\ mailer[w].tries \in Nat
        /\ mailer[w].pc = "idle" => mailer[w].slow = 0
        /\ mailer[w].pc \notin {"idle", "claim"} =>
             /\ mailer[w].inv \in Invoices /\ mailer[w].tries > 0
             /\ mail[mailer[w].inv].attempts > 0
    BY DEF ClaimInv, HasMail, MailTypes, Memory
  <2>2. CASE \/ mailer'[w] = mailer[w]
             \/ /\ HasMail(w)
                /\ mailer'[w].pc \notin {"idle", "claim"} /\ mailer'[w].inv = mailer[w].inv
                /\ mailer'[w].tries = mailer[w].tries /\ mailer'[w].slow = mailer[w].slow
    BY <1>1, <2>1, <2>2 DEF HasMail
  <2>3. CASE mailer'[w] = Resting \/ mailer'[w] = [mailer[w] EXCEPT !.pc = "claim"]
    BY <2>1, <2>3 DEF Resting, Memory
  <2>4. ASSUME NEW i \in Invoices, mail'[i].attempts = mail[i].attempts + 1,
               mailer'[w] = [Resting EXCEPT !.pc = "look", !.inv = i, !.to = mail[i].to,
                               !.tries = mail[i].attempts + 1, !.slow = mailer[w].slow]
        PROVE  /\ mailer'[w].pc = "look" /\ mailer'[w].inv \in Invoices
               /\ mailer'[w].tries > 0 /\ mail'[mailer'[w].inv].attempts > 0
    <3>1. mailer'[w].pc = "look" /\ mailer'[w].inv = i /\ mailer'[w].tries = mail[i].attempts + 1
      BY <2>4 DEF Resting
    <3>2. QED
      BY <1>1, <2>4, <3>1
  <2>5. CASE Busy(w) /\ mailer'[w] = [mailer[w] EXCEPT !.slow = mailer[w].slow + 1]
    <3>1. mailer'[w].pc = mailer[w].pc /\ mailer'[w].inv = mailer[w].inv
          /\ mailer'[w].tries = mailer[w].tries /\ mailer[w].pc # "idle"
      BY <2>1, <2>5 DEF Busy, Memory
    <3>2. QED
      BY <1>1, <2>1, <3>1
  <2>6. CASE mailer'[w] = [mailer[w] EXCEPT !.moved = TRUE]
    <3>1. mailer'[w].pc = mailer[w].pc /\ mailer'[w].inv = mailer[w].inv
          /\ mailer'[w].tries = mailer[w].tries /\ mailer'[w].slow = mailer[w].slow
      BY <2>1, <2>6 DEF Memory
    <3>2. QED
      BY <1>1, <2>1, <3>1
  <2>7. QED
    BY <2>2, <2>3, <2>4, <2>5, <2>6, MemorySteps
<1>3. QED
  BY <1>1, <1>2 DEF ClaimInv, HasMail

\* Who may send a mail could before, unless it has just looked for old attempts.
LEMMA MaySendSteps ==
  ASSUME MailTypes, ClaimInv, [Next]_vars, NEW w \in Workers, NEW i \in Invoices,
         mail[i].attempts > 0, MaySend(w, i)'
  PROVE  \/ MaySend(w, i) /\ mailer'[w].slow >= mailer[w].slow
            /\ (Tick => mailer'[w].slow = mailer[w].slow + 1)
         \/ FailOld(w) /\ mail'[i] = mail[i] /\ ~TooOld(i) /\ mailer'[w].slow = mailer[w].slow
<1>1. mailer[w] \in Memory /\ mailer[w].slow \in Nat /\ mailer'[w] \in Memory
  BY MailerStep, MailAssumption DEF MailTypes, Memory
<1>2. mail'[i].state \in Open => mail[i].state \in Open
  BY RowFacts DEF NoMail
<1>3. \/ mailer'[w].pc = "claim" /\ mail'[i].state \in Open
      \/ mailer'[w].pc \notin {"idle", "claim"} /\ mailer'[w].inv = i
  BY DEF MaySend, HasMail
<1>4. MaySend(w, i) <=> \/ mailer[w].pc = "claim" /\ mail[i].state \in Open
                        \/ mailer[w].pc \notin {"idle", "claim"} /\ mailer[w].inv = i
  BY DEF MaySend, HasMail
<1>5. Tick => mailer'[w] = IF Busy(w) THEN [mailer[w] EXCEPT !.slow = mailer[w].slow + 1]
                           ELSE mailer[w]
  BY DEF Tick
<1>6. CASE Tick
  BY <1>1, <1>2, <1>3, <1>4, <1>5, <1>6 DEF Busy, Memory
<1>7. CASE ~Tick
  <2>1. CASE mailer'[w] = mailer[w] \/ mailer'[w] = Resting
    BY <1>1, <1>2, <1>3, <1>4, <1>7, <2>1 DEF Resting
  <2>2. CASE FailOld(w) /\ mailer'[w] = [mailer[w] EXCEPT !.pc = "claim"]
    <3>1. mail'[i].state \in Open /\ mailer'[w].slow = mailer[w].slow
      BY <1>1, <1>3, <2>2 DEF Memory
    <3>2. mail'[i] = IF /\ mail[i].state \in Open
                        /\ TooOld(i) \/ (mail[i].attempts >= MailAttempts /\ mail[i].wait = 0)
                     THEN Ended(i, "failed") ELSE mail[i]
      BY <2>2 DEF FailOld
    <3>3. mail[i] \in MailRow
      BY DEF MailTypes
    <3>4. Ended(i, "failed").state = "failed"
      BY <3>3 DEF Ended, MailRow
    <3>5. mail'[i] = mail[i] /\ ~TooOld(i)
      BY <1>2, <3>1, <3>2, <3>4 DEF Open
    <3>6. QED
      BY <2>2, <3>1, <3>5
  <2>3. ASSUME NEW j \in Invoices, Claim(w), mail[j].state \in Open,
               mailer'[w] = [Resting EXCEPT !.pc = "look", !.inv = j, !.to = mail[j].to,
                               !.tries = mail[j].attempts + 1, !.slow = mailer[w].slow]
        PROVE  MaySend(w, i) /\ mailer'[w].slow >= mailer[w].slow
    <3>1. mailer'[w].pc = "look" /\ mailer'[w].inv = j /\ mailer'[w].slow = mailer[w].slow
      BY <2>3 DEF Resting
    <3>2. mailer[w].pc = "claim"
      BY <2>3 DEF Claim
    <3>3. QED
      BY <1>1, <1>3, <1>4, <2>3, <3>1, <3>2
  <2>4. CASE /\ HasMail(w)
             /\ mailer'[w].pc \notin {"idle", "claim"} /\ mailer'[w].inv = mailer[w].inv
             /\ mailer'[w].tries = mailer[w].tries /\ mailer'[w].slow = mailer[w].slow
    BY <1>1, <1>3, <1>4, <1>7, <2>4 DEF HasMail
  <2>5. CASE mailer'[w] = [mailer[w] EXCEPT !.moved = TRUE]
    <3>1. mailer'[w].pc = mailer[w].pc /\ mailer'[w].inv = mailer[w].inv
          /\ mailer'[w].slow = mailer[w].slow
      BY <1>1, <2>5 DEF Memory
    <3>2. QED
      BY <1>1, <1>2, <1>3, <1>4, <1>7, <3>1
  <2>6. QED
    BY <1>7, <2>1, <2>2, <2>3, <2>4, <2>5, MemorySteps
<1>8. QED
  BY <1>6, <1>7

\* The provider still knows the key of every mail that may be sent again.
LEMMA KeyKnown ==
  ASSUME MailTypes, KeyInv, NEW w \in Workers, NEW i \in Invoices, inbox[i] > 0, MaySend(w, i)
  PROVE  key[i] > 0
<1>1. key[i] + GiveUpAfter + mailer[w].slow >= KeyTTL
  BY DEF KeyInv
<1>2. mailer[w].slow \in 0..MaxSlow /\ key[i] \in 0..KeyTTL
  BY DEF MailTypes, Memory
<1>3. GiveUpAfter \in Nat /\ KeyTTL \in Nat /\ MaxSlow \in Nat /\ KeyTTL > GiveUpAfter + MaxSlow
  BY MailAssumption, KeyAssumption
<1>4. QED
  BY <1>1, <1>2, <1>3

\* What a step does to the provider's memory and to what it has delivered.
LEMMA KeySteps ==
  ASSUME MailTypes, ClaimInv, KeyInv, [Next]_vars, NEW i \in Invoices
  PROVE  \/ Tick /\ key'[i] = Less(key[i]) /\ inbox'[i] = inbox[i]
         \/ ~Tick /\ key'[i] = key[i] /\ inbox'[i] = inbox[i]
         \/ /\ inbox[i] = 0 /\ inbox'[i] = 1 /\ key'[i] = KeyTTL
            /\ mail'[i] = mail[i] /\ mail[i].attempts > 0
<1>1. DOMAIN key = Invoices /\ DOMAIN inbox = Invoices
      /\ key[i] \in 0..KeyTTL /\ inbox[i] \in Nat
  BY DEF MailTypes
<1>2. CASE Tick
  BY <1>2 DEF Tick
<1>3. ASSUME NEW w \in Workers, Send(w), ~Tick
      PROVE  \/ key'[i] = key[i] /\ inbox'[i] = inbox[i]
             \/ /\ inbox[i] = 0 /\ inbox'[i] = 1 /\ key'[i] = KeyTTL
                /\ mail'[i] = mail[i] /\ mail[i].attempts > 0
  <2>1. HasMail(w) /\ mail' = mail
    BY <1>3 DEF Send, HasMail
  <2>2. mailer[w].inv \in Invoices /\ mail[mailer[w].inv].attempts > 0
    BY <2>1 DEF ClaimInv
  <2>3. CASE mailer[w].inv # i \/ key[i] # 0
    BY <1>1, <1>3, <2>2, <2>3 DEF Send
  <2>4. CASE mailer[w].inv = i /\ key[i] = 0
    <3>1. inbox[i] = 0
      <4>1. MaySend(w, i)
        BY <2>1, <2>4 DEF MaySend
      <4>2. QED
        BY <1>1, <2>4, <4>1, KeyKnown
    <3>2. QED
      BY <1>1, <1>3, <2>1, <2>2, <2>4, <3>1 DEF Send
  <2>5. QED
    BY <2>3, <2>4
<1>4. \/ key' = key /\ inbox' = inbox
      \/ Tick
      \/ (\E w \in Workers : Send(w))
  BY MailMoves
<1>5. QED
  BY <1>2, <1>3, <1>4

\* No mail is delivered twice.
LEMMA NextKey == MailTypes /\ ClaimInv /\ KeyInv /\ [Next]_vars => KeyInv'
<1> SUFFICES ASSUME MailTypes, ClaimInv, KeyInv, [Next]_vars PROVE KeyInv'
  OBVIOUS
<1>1. GiveUpAfter \in Nat /\ KeyTTL \in Nat /\ MaxSlow \in Nat /\ KeyTTL > GiveUpAfter + MaxSlow
  BY MailAssumption, KeyAssumption
<1>2. ASSUME NEW i \in Invoices
      PROVE  /\ key[i] \in Nat /\ inbox[i] \in Nat /\ Less(key[i]) \in Nat
             /\ Less(key[i]) + 1 >= key[i] /\ (Less(key[i]) > 0 => key[i] > 0)
             /\ mail[i].attempts \in Nat /\ mail'[i].attempts \in Nat
             /\ mail'[i].attempts >= mail[i].attempts /\ mail[i].age \in Nat
  <2>1. key[i] \in Nat /\ inbox[i] \in Nat /\ mail[i].attempts \in Nat
        /\ mail'[i].attempts \in Nat /\ mail[i].age \in Nat
    BY MailRowStep DEF MailTypes, MailRow
  <2>2. mail'[i].attempts >= mail[i].attempts
    BY RowFacts
  <2>3. Less(key[i]) \in Nat /\ Less(key[i]) + 1 >= key[i] /\ (Less(key[i]) > 0 => key[i] > 0)
    BY <2>1 DEF Less
  <2>4. QED
    BY <2>1, <2>2, <2>3
<1>3. ASSUME NEW w \in Workers PROVE mailer[w].slow \in Nat /\ mailer'[w].slow \in Nat
  BY <1>1, MailerStep DEF MailTypes, Memory
<1>4. ASSUME NEW i \in Invoices
      PROVE  inbox'[i] <= 1 /\ (key'[i] > 0 => inbox'[i] > 0)
  <2>1. inbox[i] <= 1 /\ (key[i] > 0 => inbox[i] > 0)
    BY DEF KeyInv
  <2>2. QED
    BY <1>2, <2>1, KeySteps
<1>5. ASSUME NEW i \in Invoices, inbox'[i] > 0
      PROVE  mail'[i].attempts > 0
  <2>1. inbox[i] > 0 => mail[i].attempts > 0
    BY DEF KeyInv
  <2>2. inbox[i] > 0 \/ mail[i].attempts > 0
    BY <1>2, <1>5, KeySteps
  <2>3. QED
    BY <1>2, <2>1, <2>2
<1>6. ASSUME NEW i \in Invoices, inbox'[i] > 0, mail'[i].age <= GiveUpAfter
      PROVE  key'[i] + mail'[i].age >= KeyTTL
  <2>1. inbox[i] > 0 => /\ mail[i].attempts > 0
                        /\ mail[i].age <= GiveUpAfter => key[i] + mail[i].age >= KeyTTL
    BY DEF KeyInv
  <2>2. CASE Tick /\ key'[i] = Less(key[i]) /\ inbox'[i] = inbox[i]
    <3>1. mail[i].attempts > 0 /\ inbox[i] > 0
      BY <1>6, <2>1, <2>2
    <3>2. mail'[i].age = IF mail[i].age <= GiveUpAfter THEN mail[i].age + 1 ELSE mail[i].age
      <4>1. mail[i] \in MailRow
        BY DEF MailTypes
      <4>2. mail'[i] = [mail[i] EXCEPT !.wait = Less(mail[i].wait),
              !.age = IF mail[i].attempts > 0 /\ mail[i].age <= GiveUpAfter
                      THEN mail[i].age + 1 ELSE mail[i].age]
        BY <2>2 DEF Tick
      <4>3. QED
        BY <3>1, <4>1, <4>2 DEF MailRow
    <3>3. QED
      BY <1>1, <1>2, <1>6, <2>1, <2>2, <3>1, <3>2
  <2>3. CASE ~Tick /\ key'[i] = key[i] /\ inbox'[i] = inbox[i]
    <3>1. mail'[i].age = mail[i].age
      BY <2>3, RowFacts
    <3>2. QED
      BY <1>6, <2>1, <2>3, <3>1
  <2>4. CASE key'[i] = KeyTTL /\ mail'[i] = mail[i]
    BY <1>1, <1>2, <2>4
  <2>5. QED
    BY <2>2, <2>3, <2>4, KeySteps
<1>7. ASSUME NEW w \in Workers, NEW i \in Invoices, inbox'[i] > 0, MaySend(w, i)'
      PROVE  key'[i] + GiveUpAfter + mailer'[w].slow >= KeyTTL
  <2>1. mail[i].attempts > 0
    <3>1. inbox[i] > 0 => mail[i].attempts > 0
      BY DEF KeyInv
    <3>2. QED
      BY <1>2, <1>7, <3>1, KeySteps
  <2>2. inbox[i] > 0 /\ MaySend(w, i) => key[i] + GiveUpAfter + mailer[w].slow >= KeyTTL
    BY DEF KeyInv
  <2>3. inbox[i] > 0 /\ mail[i].age <= GiveUpAfter => key[i] + mail[i].age >= KeyTTL
    BY DEF KeyInv
  <2>4. \/ MaySend(w, i) /\ mailer'[w].slow >= mailer[w].slow
            /\ (Tick => mailer'[w].slow = mailer[w].slow + 1)
        \/ FailOld(w) /\ mail'[i] = mail[i] /\ ~TooOld(i) /\ mailer'[w].slow = mailer[w].slow
    BY <1>7, <2>1, MaySendSteps
  <2>5. FailOld(w) => key' = key /\ inbox' = inbox
    BY DEF FailOld
  <2>6. CASE FailOld(w) /\ ~TooOld(i)
    <3>1. mail[i].age <= GiveUpAfter
      BY <1>1, <1>2, <2>1, <2>6 DEF TooOld
    <3>2. QED
      BY <1>1, <1>2, <1>3, <1>7, <2>3, <2>5, <2>6, <3>1
  <2>7. CASE MaySend(w, i) /\ mailer'[w].slow >= mailer[w].slow
             /\ (Tick => mailer'[w].slow = mailer[w].slow + 1)
    <3>1. \/ Tick /\ key'[i] = Less(key[i]) /\ inbox'[i] = inbox[i]
          \/ ~Tick /\ key'[i] = key[i] /\ inbox'[i] = inbox[i]
          \/ key'[i] = KeyTTL
      BY KeySteps
    <3>2. CASE key'[i] = KeyTTL
      BY <1>1, <1>3, <3>2
    <3>3. CASE key'[i] # KeyTTL
      BY <1>1, <1>2, <1>3, <1>7, <2>2, <2>7, <3>1, <3>3
    <3>4. QED
      BY <3>2, <3>3
  <2>8. QED
    BY <2>4, <2>6, <2>7
<1>8. QED
  BY <1>4, <1>5, <1>6, <1>7 DEF KeyInv

\* What is called sent has been delivered.
LEMMA NextSent == MailTypes /\ ClaimInv /\ KeyInv /\ SentInv /\ [Next]_vars => SentInv'
<1> SUFFICES ASSUME MailTypes, ClaimInv, KeyInv, SentInv, [Next]_vars PROVE SentInv'
  OBVIOUS
<1>1. ASSUME NEW i \in Invoices
      PROVE  inbox[i] = 1 => inbox'[i] = 1
  BY KeySteps
<1>2. ASSUME NEW w \in Workers
      PROVE  HasMail(w) => mailer[w].inv \in Invoices
  BY DEF ClaimInv
<1>3. ASSUME NEW i \in Invoices, mail'[i].state = "sent" PROVE inbox'[i] = 1
  <2>1. mail[i].state = "sent" => inbox[i] = 1
    BY DEF SentInv
  <2>2. ASSUME NEW w \in Workers, mailer[w].inv = i,
               \/ mailer[w].pc = "record"
               \/ mailer[w].pc = "finish" /\ mailer[w].verdict = "sent"
        PROVE  inbox[i] = 1
    BY <2>2 DEF SentInv
  <2>3. QED
    BY <1>1, <1>3, <2>1, <2>2, RowFacts
<1>4. ASSUME NEW i \in Invoices, i \in mailed' PROVE inbox'[i] = 1
  <2>1. i \in mailed => inbox[i] = 1
    BY DEF SentInv
  <2>2. ASSUME NEW w \in Workers, RecordSent(w), i \notin mailed PROVE inbox[i] = 1
    <3>1. mailer[w].inv = i /\ mailer[w].pc = "record"
      BY <1>4, <2>2 DEF RecordSent
    <3>2. QED
      BY <3>1 DEF SentInv
  <2>3. QED
    BY <1>1, <1>4, <2>1, <2>2, MailMoves
<1>5. ASSUME NEW w \in Workers,
             \/ mailer'[w].pc = "record"
             \/ mailer'[w].pc = "finish" /\ mailer'[w].verdict = "sent"
      PROVE  inbox'[mailer'[w].inv] = 1
  <2>1. /\ mailer[w] \in Memory
        /\ \/ mailer[w].pc = "record"
           \/ mailer[w].pc = "finish" /\ mailer[w].verdict = "sent"
           => HasMail(w) /\ inbox[mailer[w].inv] = 1
    BY DEF MailTypes, SentInv, HasMail
  <2>2. ASSUME mailer'[w].pc = mailer[w].pc, mailer'[w].verdict = mailer[w].verdict,
               mailer'[w].inv = mailer[w].inv
        PROVE  inbox'[mailer'[w].inv] = 1
    BY <1>1, <1>2, <1>5, <2>1, <2>2
  <2>3. CASE mailer'[w] = Resting \/ mailer'[w] = [mailer[w] EXCEPT !.pc = "claim"]
    BY <1>5, <2>1, <2>3 DEF Resting, Memory
  <2>4. ASSUME NEW i \in Invoices,
               mailer'[w] = [Resting EXCEPT !.pc = "look", !.inv = i, !.to = mail[i].to,
                               !.tries = mail[i].attempts + 1, !.slow = mailer[w].slow]
        PROVE  FALSE
    BY <1>5, <2>4 DEF Resting
  <2>5. ASSUME Delivers(w), mailer'[w].inv = mailer[w].inv, HasMail(w),
               mailer'[w].pc \notin {"idle", "claim"}
        PROVE  inbox'[mailer'[w].inv] = 1
    <3>1. DOMAIN mailer = Workers /\ mailer[w].inv \in Invoices
      BY <1>2, <2>5 DEF MailTypes
    <3>2. ASSUME NEW p, Step(w, p) PROVE mailer'[w].pc = p
      BY <2>1, <3>1, <3>2 DEF Step, Memory
    <3>3. Rest(w) => mailer'[w].pc = "idle"
      BY <3>1 DEF Rest, Resting
    <3>4. CASE Look(w)
      <4>1. mailer'[w].pc = "event" \/ (mailer'[w].verdict = "cancelled" /\ mailer'[w].pc = "finish")
        BY <2>1, <3>1, <3>2, <3>4 DEF Look, Memory
      <4>2. QED
        BY <1>5, <4>1
    <3>5. CASE AlreadySent(w)
      <4>1. mailer'[w].pc = "address" \/ mailer[w].inv \in mailed
        BY <3>1, <3>2, <3>5 DEF AlreadySent
      <4>2. inbox[mailer[w].inv] = 1
        BY <1>5, <3>1, <4>1 DEF SentInv
      <4>3. QED
        BY <1>1, <2>5, <3>1, <4>2
    <3>6. CASE ReadAddress(w)
      <4>1. \/ mailer'[w].pc \in {"error", "save", "check"}
            \/ mailer'[w].verdict = "cancelled" /\ mailer'[w].pc = "finish"
        BY <2>1, <3>1, <3>6 DEF ReadAddress, Memory
      <4>2. QED
        BY <1>5, <4>1
    <3>7. CASE SavePayload(w) \/ RecordSent(w) \/ Finish(w) \/ GiveBack(w) \/ FailDelivery(w)
      BY <1>5, <2>5, <3>2, <3>3, <3>7
      DEF SavePayload, RecordSent, Finish, GiveBack, FailDelivery
    <3>8. CASE CheckClaim(w)
      <4>1. mailer'[w].pc \in {"post", "idle"}
        BY <2>1, <3>1, <3>3, <3>8 DEF CheckClaim, Memory
      <4>2. QED
        BY <1>5, <4>1
    <3>9. CASE Send(w)
      <4>1. mailer'[w].pc \in {"record", "error"}
        BY <3>2, <3>9 DEF Send
      <4>2. mailer'[w].pc = "record"
        BY <1>5, <4>1
      <4>3. ~Step(w, "error")
        BY <3>2, <4>2
      <4>4. inbox' = [inbox EXCEPT ![mailer[w].inv] =
                        IF key[mailer[w].inv] = 0 THEN @ + 1 ELSE @]
        BY <3>9, <4>3 DEF Send
      <4>5. inbox'[mailer[w].inv] > 0
        <5> DEFINE i == mailer[w].inv
        <5>1. i \in Invoices
          BY <3>1
        <5>2. inbox[i] \in Nat /\ key[i] \in Nat /\ DOMAIN inbox = Invoices
              /\ inbox' = [inbox EXCEPT ![i] = IF key[i] = 0 THEN @ + 1 ELSE @]
          BY <4>4, <5>1 DEF MailTypes
        <5>3. key[i] > 0 => inbox[i] > 0
          BY <5>1 DEF KeyInv
        <5> HIDE DEF i
        <5>4. inbox'[i] > 0
          BY <5>1, <5>2, <5>3
        <5>5. QED
          BY <5>4 DEF i
      <4>6. inbox'[mailer[w].inv] <= 1
        BY <3>1, NextKey DEF KeyInv
      <4>7. QED
        <5>1. inbox'[mailer[w].inv] \in Nat
          BY <3>1, NextMail DEF MailTypes
        <5>2. QED
          BY <2>5, <4>5, <4>6, <5>1
    <3>10. QED
      BY <2>5, <3>4, <3>5, <3>6, <3>7, <3>8, <3>9 DEF Delivers
  <2>6. CASE \/ mailer'[w] = [mailer[w] EXCEPT !.slow = mailer[w].slow + 1]
             \/ mailer'[w] = [mailer[w] EXCEPT !.moved = TRUE]
    <3>1. mailer'[w].pc = mailer[w].pc /\ mailer'[w].verdict = mailer[w].verdict
          /\ mailer'[w].inv = mailer[w].inv
      BY <2>1, <2>6 DEF Memory
    <3>2. QED
      BY <2>2, <3>1
  <2>7. QED
    BY <2>2, <2>3, <2>4, <2>5, <2>6, MemorySteps
<1>6. QED
  BY <1>3, <1>4, <1>5 DEF SentInv

\* Every step of a worker that brings it nearer to its request, and what it has
\* seen by then.
LEMMA WantSteps ==
  ASSUME MailTypes, ClaimInv, WantInv, [Next]_vars, NEW w \in Workers,
         Delivers(w), mailer'[w].inv = mailer[w].inv, HasMail(w)
  PROVE  LET m == Owner[mailer[w].inv] IN
         /\ mailer'[w].pc \in {"event", "address", "save", "check"} /\ Claimed(w)
              => m \in optedIn
         /\ mailer'[w].pc \in {"save", "check"} /\ Claimed(w) => mailer'[w].to = address[m]
         /\ mailer'[w].pc = "post" =>
              m \in optedIn /\ mailer'[w].to = address[m] /\ Claimed(w)
<1> DEFINE m == Owner[mailer[w].inv]
<1>1. DOMAIN mailer = Workers /\ mailer[w] \in Memory
  BY DEF MailTypes
<1>2. /\ mailer[w].pc \in {"event", "address", "save", "check"} /\ Claimed(w) => m \in optedIn
      /\ mailer[w].pc \in {"save", "check"} /\ Claimed(w) => mailer[w].to = address[m]
  BY DEF WantInv
<1>3. ASSUME NEW p, Step(w, p) PROVE mailer'[w].pc = p /\ mailer'[w].to = mailer[w].to
  BY <1>1, <1>3 DEF Step, Memory
<1>4. Rest(w) => mailer'[w].pc = "idle"
  BY <1>1 DEF Rest, Resting
<1> DEFINE Seen == /\ mailer'[w].pc \in {"event", "address", "save", "check"} /\ Claimed(w)
                        => m \in optedIn
                   /\ mailer'[w].pc \in {"save", "check"} /\ Claimed(w)
                        => mailer'[w].to = address[m]
                   /\ mailer'[w].pc = "post" =>
                        m \in optedIn /\ mailer'[w].to = address[m] /\ Claimed(w)
<1>5. ASSUME Look(w) PROVE Seen
  <2>1. mailer'[w].pc = "finish" \/ (mailer'[w].pc = "event" /\ m \in optedIn)
    BY <1>1, <1>3, <1>5 DEF Look, Wanted, Memory
  <2> HIDE DEF m
  <2>2. QED
    BY <2>1
<1>6. ASSUME AlreadySent(w) PROVE Seen
  <2>1. mailer'[w].pc = "finish" \/ (mailer'[w].pc = "address" /\ mailer[w].pc = "event")
    BY <1>1, <1>3, <1>6 DEF AlreadySent, Memory
  <2> HIDE DEF m
  <2>2. QED
    BY <1>2, <2>1
<1>7. ASSUME ReadAddress(w) PROVE Seen
  <2>1. \/ mailer'[w].pc \in {"error", "finish"}
        \/ mailer'[w].pc \in {"save", "check"} /\ mailer'[w].to = address[m]
    BY <1>1, <1>7 DEF ReadAddress, Memory
  <2>2. mailer[w].pc = "address"
    BY <1>7 DEF ReadAddress
  <2> HIDE DEF m
  <2>3. QED
    BY <1>2, <2>1, <2>2
<1>8. ASSUME SavePayload(w) PROVE Seen
  <2>1. /\ mailer[w].pc = "save"
        /\ \/ mailer'[w].pc = "check" /\ mailer'[w].to = mailer[w].to
           \/ mailer'[w].pc = "idle"
    BY <1>3, <1>4, <1>8 DEF SavePayload
  <2> HIDE DEF m
  <2>2. QED
    BY <1>2, <2>1
<1>9. ASSUME CheckClaim(w) PROVE Seen
  <2>1. mailer[w].pc = "check"
    BY <1>9 DEF CheckClaim
  <2>2. \/ mailer'[w].pc = "idle"
        \/ Claimed(w) /\ mailer'[w].pc = "post" /\ mailer'[w].to = mailer[w].to
    BY <1>1, <1>4, <1>9 DEF CheckClaim, Memory
  <2> HIDE DEF m
  <2>3. QED
    BY <1>2, <2>1, <2>2
<1>10. ASSUME Send(w) \/ RecordSent(w) \/ Finish(w) \/ GiveBack(w) \/ FailDelivery(w) PROVE Seen
  <2>1. mailer'[w].pc \in {"record", "error", "idle"}
    BY <1>3, <1>4, <1>10 DEF Send, RecordSent, Finish, GiveBack, FailDelivery
  <2> HIDE DEF m
  <2>2. QED
    BY <2>1
<1> HIDE DEF m, Seen
<1>11. Seen
  BY <1>5, <1>6, <1>7, <1>8, <1>9, <1>10 DEF Delivers
<1>12. QED
  BY <1>11 DEF Seen, m

\* A request goes to the address the merchant has, and is wanted.
LEMMA NextWant == MailTypes /\ ClaimInv /\ WantInv /\ [Next]_vars => WantInv'
<1> SUFFICES ASSUME MailTypes, ClaimInv, WantInv, [Next]_vars,
                    NEW w \in Workers, mailer'[w].pc \in {"event", "address", "save", "check", "post"}
             PROVE  LET m == Owner[mailer'[w].inv] IN
                    /\ mailer'[w].pc \in {"event", "address", "save", "check"}
                       /\ mail'[mailer'[w].inv].claim = w => m \in optedIn'
                    /\ mailer'[w].pc \in {"save", "check"}
                       /\ mail'[mailer'[w].inv].claim = w => mailer'[w].to = address'[m]
                    /\ mailer'[w].pc = "post" /\ ~mailer'[w].moved =>
                         m \in optedIn' /\ mailer'[w].to = address'[m]
  BY DEF WantInv, Claimed
<1> DEFINE i == mailer[w].inv
           m == Owner[i]
<1>1. mailer[w] \in Memory /\ DOMAIN mailer = Workers /\ DOMAIN address = Merchants
  BY DEF MailTypes
<1>2. /\ mailer[w].pc \in {"event", "address", "save", "check"} /\ mail[i].claim = w
           => m \in optedIn
      /\ mailer[w].pc \in {"save", "check"} /\ mail[i].claim = w => mailer[w].to = address[m]
      /\ mailer[w].pc = "post" /\ ~mailer[w].moved => m \in optedIn /\ mailer[w].to = address[m]
  BY DEF WantInv, Claimed
<1>3. HasMail(w) => i \in Invoices
  BY DEF ClaimInv
<1>4. CASE Delivers(w) /\ mailer'[w].inv = mailer[w].inv /\ HasMail(w)
  <2>1. optedIn' = optedIn /\ address' = address
    BY <1>4 DEF Delivers, Look, AlreadySent, ReadAddress, SavePayload, CheckClaim, Send,
                RecordSent, Finish, GiveBack, FailDelivery, Use, settings
  <2>2. mail'[i].claim = w => mail[i].claim = w
    <3>1. ~Claim(w) \/ mailer'[w].pc # "look"
      OBVIOUS
    <3>2. QED
      BY <1>3, <1>4, <3>1, RowFacts
  <2>3. /\ mailer'[w].pc \in {"event", "address", "save", "check"} /\ mail[i].claim = w
             => m \in optedIn
        /\ mailer'[w].pc \in {"save", "check"} /\ mail[i].claim = w
             => mailer'[w].to = address[m]
        /\ mailer'[w].pc = "post" => m \in optedIn /\ mailer'[w].to = address[m]
    BY <1>4, WantSteps DEF Claimed
  <2>4. QED
    BY <1>4, <2>1, <2>2, <2>3
<1>5. ASSUME mailer'[w].pc = mailer[w].pc, mailer'[w].inv = i, mailer'[w].to = mailer[w].to,
             mailer[w].moved => mailer'[w].moved
      PROVE  /\ mailer'[w].pc \in {"event", "address", "save", "check"} /\ mail'[i].claim = w
                  => m \in optedIn'
             /\ mailer'[w].pc \in {"save", "check"} /\ mail'[i].claim = w
                  => mailer'[w].to = address'[m]
             /\ mailer'[w].pc = "post" /\ ~mailer'[w].moved =>
                  m \in optedIn' /\ mailer'[w].to = address'[m]
  <2>1. HasMail(w) /\ i \in Invoices /\ m \in Merchants
    BY <1>3, <1>5, OwnerAssumption DEF HasMail
  <2>2. mail'[i].claim = w => mail[i].claim = w
    BY <2>1, RowFacts
  <2>3. CASE optedIn' = optedIn /\ address' = address
    <3> HIDE DEF i, m
    <3>1. QED
      BY <1>2, <1>5, <2>2, <2>3
  <2>4. ASSUME NEW n \in Merchants, EditMail(n), n # m
        PROVE  (m \in optedIn <=> m \in optedIn') /\ address'[m] = address[m]
    BY <1>1, <2>1, <2>4 DEF EditMail, SaveMail
  <2>5. ASSUME EditMail(m)
        PROVE  /\ mailer'[w].moved
               /\ mail'[i].claim = w => m \in optedIn' /\ address'[m] = address[m]
    <3>1. PICK on \in BOOLEAN, to \in Addresses \cup {None} : (on => to # None) /\ SaveMail(m, on, to)
      BY <2>5 DEF EditMail
    <3>2. mailer'[w].moved
      <4>1. mailer'[w] = [mailer[w] EXCEPT !.moved = TRUE]
        BY <2>1, <3>1 DEF SaveMail
      <4>2. QED
        BY <1>1, <4>1 DEF Memory
    <3>3. ASSUME mail'[i].claim = w PROVE on /\ to = address[m]
      <4>1. mail[i] \in MailRow /\ w # None
        BY <2>1, NoneAssumption DEF MailTypes
      <4>2. mail[i].state = "sending"
        BY <2>1, <2>2, <3>3, <4>1 DEF ClaimInv
      <4>3. Ended(i, "cancelled").claim = None
        BY <4>1 DEF Ended, MailRow
      <4>4. mail'[i] = IF mail[i].state \in Cancels /\ (~on \/ to # address[m])
                       THEN Ended(i, "cancelled") ELSE mail[i]
        BY <2>1, <3>1 DEF SaveMail
      <4>5. QED
        BY <3>3, <4>1, <4>2, <4>3, <4>4 DEF Cancels
    <3>4. on => m \in optedIn'
      BY <2>1, <3>1 DEF SaveMail
    <3>5. address'[m] = to
      BY <1>1, <2>1, <3>1 DEF SaveMail
    <3>6. QED
      BY <3>2, <3>3, <3>4, <3>5
  <2>6. \/ optedIn' = optedIn /\ address' = address
        \/ (\E n \in Merchants : EditMail(n))
    BY MailMoves
  <2> HIDE DEF i, m
  <2>7. CASE \E n \in Merchants : EditMail(n) /\ n # m
    BY <1>2, <1>5, <2>2, <2>4, <2>7
  <2>8. CASE EditMail(m)
    BY <1>2, <1>5, <2>2, <2>5, <2>8
  <2>9. QED
    BY <2>3, <2>6, <2>7, <2>8
<1>6. CASE mailer'[w] = mailer[w]
  BY <1>5, <1>6
<1>7. CASE \/ mailer'[w] = [mailer[w] EXCEPT !.slow = mailer[w].slow + 1]
           \/ mailer'[w] = [mailer[w] EXCEPT !.moved = TRUE]
  <2>1. mailer'[w].pc = mailer[w].pc /\ mailer'[w].to = mailer[w].to
        /\ mailer'[w].inv = mailer[w].inv /\ (mailer[w].moved => mailer'[w].moved)
    BY <1>1, <1>7 DEF Memory
  <2>2. QED
    BY <1>5, <2>1
<1>8. CASE mailer'[w] = Resting \/ mailer'[w] = [mailer[w] EXCEPT !.pc = "claim"]
  BY <1>1, <1>8 DEF Resting, Memory
<1>9. ASSUME NEW j \in Invoices,
             mailer'[w] = [Resting EXCEPT !.pc = "look", !.inv = j, !.to = mail[j].to,
                             !.tries = mail[j].attempts + 1, !.slow = mailer[w].slow]
      PROVE  FALSE
  BY <1>9 DEF Resting
<1>10. QED
  BY <1>4, <1>6, <1>7, <1>8, <1>9, MemorySteps

-----------------------------------------------------------------------------
(* Theorems of the mail.                                                   *)

MailInv == MailTypes /\ ClaimInv /\ KeyInv /\ SentInv /\ WantInv

LEMMA InitMailInv == Init => MailInv
<1> SUFFICES ASSUME Init PROVE MailInv
  OBVIOUS
<1>1. /\ mail = [i \in Invoices |-> NoMail] /\ mailed = {}
      /\ mailer = [w \in Workers |-> Resting]
      /\ key = [i \in Invoices |-> 0] /\ inbox = [i \in Invoices |-> 0]
  BY DEF Init
<1>2. ClaimInv
  BY <1>1 DEF ClaimInv, HasMail, Resting, NoMail
<1>3. KeyInv
  BY <1>1 DEF KeyInv
<1>4. SentInv
  BY <1>1 DEF SentInv, Resting, NoMail
<1>5. WantInv
  BY <1>1 DEF WantInv, Resting
<1>6. QED
  BY <1>2, <1>3, <1>4, <1>5, InitMail DEF MailInv

LEMMA MailKept == Spec => []MailInv
<1>1. MailInv /\ [Next]_vars => MailInv'
  BY NextMail, NextClaim, NextKey, NextSent, NextWant DEF MailInv
<1>2. QED
  BY <1>1, InitMailInv, PTL DEF Spec

\* However answers are lost, leases run out and processes die, an invoice is
\* mailed about at most once, and has been when the queue or email_events says so.
THEOREM MailedOnce == Spec => []OneMail
<1>1. MailInv => OneMail
  BY DEF MailInv, KeyInv, SentInv, OneMail
<1>2. QED
  BY <1>1, MailKept, PTL

\* A worker that has looked at its claim since the settings last changed mails
\* who asked for it, at the address they have.
THEOREM MailsWanted == Spec => []MailIsWanted
<1>1. MailInv => MailIsWanted
  BY DEF MailInv, WantInv, MailIsWanted
<1>2. QED
  BY <1>1, MailKept, PTL

-----------------------------------------------------------------------------
(* Types of the webhooks, and of the rest.                                 *)

HookTypes ==
  /\ status \in [Invoices -> {"pending", "underpaid", "detected", "confirmed",
                              "expired", "refunded"}]
  /\ url \in [Merchants -> Hosts \cup {None}]
  /\ hook \in [Rows -> HookRow]
  /\ hostWait \in [Hosts -> Nat]
  /\ pass \in [pc : {"idle", "pass", "post", "accepted", "rejected"},
               todo : SUBSET Rows, tried : SUBSET Hosts, row : {0} \cup Rows]
  /\ task \in [Emitters \cup Clicks -> [pc : {"idle", "sent"}, row : {0} \cup Rows]]
  /\ left \in [{"mail", "url", "faults"} -> Nat] /\ cast \in Casts

\* A change of the table that keeps its rows rows, and forgets none.
Tidy ==
  /\ hook' \in [Rows -> HookRow]
  /\ \A d \in Rows : /\ hook'[d].state # "none" => hook'[d].host \in Hosts
                     /\ hook[d].state # "none" => hook'[d].state # "none"

\* A row that stands for a delivery
Delivery(row) == row \in HookRow /\ row.host \in Hosts /\ row.state # "none"

\* A row that is written in one place.
LEMMA OneRow ==
  ASSUME HookTypes, HookInv, NEW d \in Rows, NEW row, Delivery(row),
         hook' = [hook EXCEPT ![d] = row]
  PROVE  Tidy
BY DEF HookTypes, HookInv, Tidy, Delivery

\* It stays one when it is marked, counted or put off.
LEMMA HookRowTypes ==
  ASSUME NEW row, Delivery(row)
  PROVE  /\ \A s \in {"pending", "delivered", "failed"} :
              /\ Delivery([row EXCEPT !.state = s])
              /\ \A n \in Nat : Delivery([row EXCEPT !.state = s, !.attempts = n])
         /\ \A n \in Nat : Delivery([row EXCEPT !.wait = n])
         /\ \A k, n \in Nat : Delivery([row EXCEPT !.attempts = k, !.wait = n])
<1> USE DEF Delivery, HookRow
<1>1. \A s \in {"pending", "delivered", "failed"} : Delivery([row EXCEPT !.state = s])
  OBVIOUS
<1>2. \A s \in {"pending", "delivered", "failed"}, n \in Nat :
        Delivery([row EXCEPT !.state = s, !.attempts = n])
  OBVIOUS
<1>3. \A n \in Nat : Delivery([row EXCEPT !.wait = n])
  OBVIOUS
<1>4. \A k, n \in Nat : Delivery([row EXCEPT !.attempts = k, !.wait = n])
  OBVIOUS
<1> HIDE DEF Delivery, HookRow
<1>5. QED
  BY <1>1, <1>2, <1>3, <1>4

\* Only these change the table of deliveries.
LEMMA HookMoves ==
  ASSUME [Next]_vars
  PROVE  \/ hook' = hook
         \/ (\E i \in Invoices : \E to : Change(i, to))
         \/ (\E d \in pass.todo : Take(d)) \/ Refuse \/ Record
         \/ (\E t \in Emitters, m \in Merchants : Dispatch(t, m))
         \/ (\E t \in Emitters \cup Clicks : Answer(t)) \/ Tick
<1>1. /\ Select \/ Post \/ EndPass => hook' = hook
      /\ \A d : Skip(d) => hook' = hook
      /\ \A t, d : Click(t, d) => hook' = hook
      /\ \A m : EditMail(m) \/ EditUrl(m) => hook' = hook
      /\ FailPass \/ Crash => hook' = hook
      /\ UNCHANGED vars => hook' = hook
  BY DEF Select, Post, EndPass, Skip, Click, EditMail, EditUrl, FailPass, Crash, vars, hookVars
<1>2. ASSUME NEW w, ProcessNext(w) \/ FailDelivery(w) PROVE hook' = hook
  BY <1>2 DEF ProcessNext, FailOld, Claim, Look, AlreadySent, ReadAddress, SavePayload,
              CheckClaim, Send, RecordSent, Finish, GiveBack, FailDelivery, hookVars
<1>3. QED
  BY <1>1, <1>2 DEF Next, RetryFailed

\* What is queued is queued for a host.
LEMMA Queued ==
  ASSUME HookTypes, HookInv, NEW m \in Merchants, url[m] # None, NEW n \in Nat, NEW k \in Nat,
         Queue(m, n, k)
  PROVE  /\ Tidy
         /\ (CHOOSE d \in Fresh : \A e \in Fresh : d <= e) \in Rows
         /\ hook'[CHOOSE d \in Fresh : \A e \in Fresh : d <= e].state # "none"
<1>1. PICK d \in Fresh :
        /\ \A e \in Fresh : d <= e
        /\ hook' = [hook EXCEPT ![d] =
             [state |-> "pending", host |-> url[m], owner |-> m, attempts |-> n, wait |-> k]]
  BY DEF Queue
<1>2. d \in Rows /\ Fresh \subseteq Nat /\ url[m] \in Hosts
  BY RowsAssumption DEF Fresh, HookTypes
<1> DEFINE row == [state |-> "pending", host |-> url[m], owner |-> m, attempts |-> n, wait |-> k]
           c == CHOOSE e \in Fresh : \A f \in Fresh : e <= f
<1>3. Delivery(row) /\ row.state = "pending"
  BY <1>2 DEF HookRow, Delivery
<1>4. c = d
  <2>1. c \in Fresh /\ (\A f \in Fresh : c <= f)
    BY <1>1
  <2> HIDE DEF c
  <2>2. QED
    BY <1>1, <1>2, <2>1
<1>5. hook' = [hook EXCEPT ![d] = row]
  BY <1>1
<1> HIDE DEF row
<1>6. Tidy
  BY <1>2, <1>3, <1>5, OneRow
<1>7. hook'[d].state # "none"
  BY <1>2, <1>3, <1>5 DEF HookTypes
<1> HIDE DEF c
<1>8. c \in Rows /\ hook'[c].state # "none"
  BY <1>2, <1>4, <1>7
<1>9. QED
  BY <1>6, <1>8 DEF c

\* Every step keeps the table tidy.
LEMMA HookStep == HookTypes /\ HookInv /\ [Next]_vars => Tidy
<1> SUFFICES ASSUME HookTypes, HookInv, [Next]_vars PROVE Tidy
  OBVIOUS
<1>1. ASSUME NEW d \in Rows, hook[d].state # "none" PROVE Delivery(hook[d])
  BY <1>1 DEF HookInv, HookTypes, Delivery
<1>2. CASE hook' = hook
  BY <1>1, <1>2 DEF HookTypes, Tidy, Delivery
<1>3. ASSUME NEW i \in Invoices, NEW to, Change(i, to) PROVE Tidy
  <2>1. hook' = hook \/ (Owner[i] \in Merchants /\ url[Owner[i]] # None /\ Queue(Owner[i], 0, 0))
    BY <1>3, OwnerAssumption DEF Change, TriggerHook
  <2>2. QED
    BY <1>2, <2>1, Queued
<1>4. ASSUME NEW d \in pass.todo, Take(d) PROVE Tidy
  <2>1. d \in Rows /\ hook[d].state # "none" /\ HookLease \in Nat
    BY HookAssumption DEF HookTypes, HookInv
  <2>2. hook' = hook \/ hook' = [hook EXCEPT ![d] = [hook[d] EXCEPT !.wait = HookLease]]
    BY <1>4 DEF Take
  <2>3. QED
    BY <1>1, <1>2, <2>1, <2>2, OneRow, HookRowTypes
<1>5. CASE Refuse
  <2>1. pass.row \in Rows /\ hook[pass.row].state # "none"
    BY <1>5 DEF Refuse, HookInv
  <2>2. hook' = [hook EXCEPT ![pass.row] = [hook[pass.row] EXCEPT !.state = "failed"]]
    BY <1>5 DEF Refuse
  <2> DEFINE d == pass.row
  <2>3. d \in Rows /\ Delivery(hook[d])
        /\ hook' = [hook EXCEPT ![d] = [hook[d] EXCEPT !.state = "failed"]]
    BY <1>1, <2>1, <2>2
  <2> HIDE DEF d
  <2>4. QED
    BY <2>3, OneRow, HookRowTypes
<1>6. CASE Record
  <2> DEFINE d == pass.row
  <2>1. d \in Rows /\ hook[d].state # "none"
    BY <1>6 DEF Record, HookInv
  <2>2. PICK asked \in {0, LongestDelay} :
          hook' = [hook EXCEPT ![d] =
            IF pass.pc = "accepted" THEN AfterSuccess(d) ELSE AfterFailure(d, asked)]
    BY <1>6 DEF Record
  <2> HIDE DEF d
  <2>3. hook[d].attempts + 1 \in Nat /\ Delivery(hook[d]) /\ hook[d].attempts \in Nat
    BY <1>1, <2>1 DEF HookTypes, HookRow
  <2>4. CASE pass.pc = "accepted"
    <3> DEFINE n == hook[d].attempts + 1
    <3>1. hook' = [hook EXCEPT ![d] = [hook[d] EXCEPT !.state = "delivered", !.attempts = n]]
      BY <2>2, <2>4 DEF AfterSuccess
    <3>2. n \in Nat
      BY <2>3
    <3> HIDE DEF n
    <3>3. QED
      BY <2>1, <2>3, <3>1, <3>2, OneRow, HookRowTypes
  <2>5. CASE pass.pc # "accepted"
    <3> DEFINE n == hook[d].attempts + 1
               k == IF asked > HookDelay[n] THEN asked ELSE HookDelay[n]
    <3>1. \/ n >= HookAttempts
             /\ hook' = [hook EXCEPT ![d] = [hook[d] EXCEPT !.state = "failed", !.attempts = n]]
          \/ ~(n >= HookAttempts)
             /\ hook' = [hook EXCEPT ![d] = [hook[d] EXCEPT !.attempts = n, !.wait = k]]
      BY <2>2, <2>5 DEF AfterFailure, Counted
    <3>2. n \in Nat
      BY <2>3
    <3>3. CASE n >= HookAttempts
      <4> HIDE DEF n, k
      <4>1. QED
        BY <2>1, <2>3, <3>1, <3>2, <3>3, OneRow, HookRowTypes
    <3>4. CASE ~(n >= HookAttempts)
      <4>1. n \in 1..HookAttempts
        BY <2>3, <3>4, HookAssumption
      <4>2. k \in Nat
        BY <4>1, HookAssumption
      <4> HIDE DEF n, k
      <4>3. Delivery([hook[d] EXCEPT !.attempts = n, !.wait = k])
        BY <2>3, <3>2, <4>2, HookRowTypes
      <4>4. QED
        BY <2>1, <3>1, <3>4, <4>3, OneRow
    <3>5. QED
      BY <3>3, <3>4
  <2>6. QED
    BY <2>4, <2>5
<1>7. ASSUME NEW t \in Emitters, NEW m \in Merchants, Dispatch(t, m) PROVE Tidy
  <2>1. url[m] # None /\ Queue(m, 1, HookDelay[1]) /\ HookDelay[1] \in Nat
    BY <1>7, HookAssumption DEF Dispatch
  <2>2. QED
    BY <2>1, Queued
<1>8. ASSUME NEW t \in Emitters \cup Clicks, Answer(t) PROVE Tidy
  <2> DEFINE d == task[t].row
  <2>1. d \in Rows /\ hook[d].state # "none"
    BY <1>8 DEF Answer, HookInv
  <2>2. hook' = hook \/ hook' = [hook EXCEPT ![d] = [hook[d] EXCEPT !.state = "delivered"]]
    BY <1>8 DEF Answer
  <2> HIDE DEF d
  <2>3. QED
    BY <1>1, <1>2, <2>1, <2>2, OneRow, HookRowTypes
<1>9. CASE Tick
  <2>1. hook' = [d \in Rows |-> [hook[d] EXCEPT !.wait = Less(hook[d].wait)]]
    BY <1>9 DEF Tick
  <2>2. ASSUME NEW d \in Rows
        PROVE  /\ [hook[d] EXCEPT !.wait = Less(hook[d].wait)] \in HookRow
               /\ [hook[d] EXCEPT !.wait = Less(hook[d].wait)].host = hook[d].host
               /\ [hook[d] EXCEPT !.wait = Less(hook[d].wait)].state = hook[d].state
    <3>1. hook[d] \in HookRow /\ Less(hook[d].wait) \in Nat
      BY DEF HookTypes, HookRow, Less
    <3>2. QED
      BY <3>1 DEF HookRow
  <2>3. QED
    BY <1>1, <2>1, <2>2 DEF Tidy, Delivery
<1>10. QED
  BY <1>2, <1>3, <1>4, <1>5, <1>6, <1>7, <1>8, <1>9, HookMoves

\* What the webhook worker has in hand after a step was a delivery before it.
Handled(p) ==
  /\ p \in [pc : {"idle", "pass", "post", "accepted", "rejected"},
            todo : SUBSET Rows, tried : SUBSET Hosts, row : {0} \cup Rows]
  /\ \A d \in p.todo : hook[d].state # "none"
  /\ p.pc \in {"post", "accepted", "rejected"} => p.row \in Rows
  /\ p.row \in Rows => hook[p.row].state # "none"

LEMMA PassStep == HookTypes /\ HookInv /\ [Next]_vars => Handled(pass')
<1> SUFFICES ASSUME HookTypes, HookInv, [Next]_vars PROVE Handled(pass')
  OBVIOUS
<1>1. Handled(pass) /\ 0 \notin Rows
  BY RowsAssumption DEF HookTypes, HookInv, Handled
<1>2. Handled(NoPass)
  BY <1>1 DEF Handled, NoPass
<1>3. CASE Select
  <2>1. PICK ready \in SUBSET UNION {Ready(m) : m \in Merchants} :
          pass' = [NoPass EXCEPT !.pc = "pass", !.todo = ready]
    BY <1>3 DEF Select
  <2>2. ready \subseteq Rows /\ (\A d \in ready : hook[d].state # "none")
    BY DEF Ready
  <2>3. pass' = [pc |-> "pass", todo |-> ready, tried |-> {}, row |-> 0]
    BY <2>1 DEF NoPass
  <2>4. QED
    BY <1>1, <2>2, <2>3 DEF Handled
<1>4. ASSUME NEW d \in pass.todo, Skip(d) \/ Take(d) PROVE Handled(pass')
  <2>1. d \in Rows /\ hook[d].state # "none" /\ hook[d].host \in Hosts
    BY DEF HookTypes, HookInv
  <2>2. pass.pc = "pass"
    BY <1>4 DEF Skip, Take, AtHand
  <2>3. \/ pass' = [pass EXCEPT !.todo = pass.todo \ {d}, !.tried = pass.tried \cup {hook[d].host}]
        \/ pass' = [pass EXCEPT !.pc = "post", !.todo = pass.todo \ {d},
                      !.tried = pass.tried \cup {hook[d].host}, !.row = d]
    BY <1>4 DEF Skip, Take
  <2> DEFINE td == pass.todo \ {d}
             tr == pass.tried \cup {hook[d].host}
  <2>4. /\ td \subseteq Rows /\ (\A e \in td : hook[e].state # "none")
        /\ tr \subseteq Hosts
    BY <1>1, <2>1 DEF Handled
  <2>5. CASE pass' = [pass EXCEPT !.todo = td, !.tried = tr]
    <3> HIDE DEF td, tr
    <3>1. QED
      BY <1>1, <2>2, <2>4, <2>5 DEF Handled
  <2>6. CASE pass' = [pass EXCEPT !.pc = "post", !.todo = td, !.tried = tr, !.row = d]
    <3> HIDE DEF td, tr
    <3>1. QED
      BY <1>1, <2>1, <2>4, <2>6 DEF Handled
  <2>7. QED
    BY <2>3, <2>5, <2>6
<1>5. CASE Refuse \/ Record
  <2>1. pass' = [pass EXCEPT !.pc = "pass", !.row = 0]
    BY <1>5 DEF Refuse, Record
  <2>2. QED
    BY <1>1, <2>1 DEF Handled
<1>6. CASE Post
  <2>1. pass.pc = "post" /\ (\E a \in {"accepted", "rejected"} : pass' = [pass EXCEPT !.pc = a])
    BY <1>6 DEF Post
  <2>2. QED
    BY <1>1, <2>1 DEF Handled
<1>7. CASE EndPass \/ FailPass \/ Crash
  BY <1>2, <1>7 DEF EndPass, FailPass, Crash
<1>8. /\ \A i \in Invoices : \A to : Change(i, to) => pass' = pass
      /\ \A t, m : Dispatch(t, m) => pass' = pass
      /\ \A t, d : Click(t, d) => pass' = pass
      /\ \A t : Answer(t) => pass' = pass
      /\ \A m : EditMail(m) \/ EditUrl(m) => pass' = pass
      /\ Tick \/ UNCHANGED vars => pass' = pass
  BY DEF Change, Dispatch, Click, Answer, EditMail, EditUrl, Tick, vars, hookVars
<1>9. ASSUME NEW w, ProcessNext(w) \/ FailDelivery(w) PROVE pass' = pass
  BY <1>9 DEF ProcessNext, FailOld, Claim, Look, AlreadySent, ReadAddress, SavePayload,
              CheckClaim, Send, RecordSent, Finish, GiveBack, FailDelivery, hookVars
<1>10. pass' = pass => Handled(pass')
  BY <1>1
<1>11. QED
  BY <1>3, <1>4, <1>5, <1>6, <1>7, <1>8, <1>9, <1>10 DEF Next, RetryFailed

\* So is what a dispatch or a click of the dashboard has in hand.
LEMMA TaskStep ==
  ASSUME HookTypes, HookInv, [Next]_vars
  PROVE  /\ task' \in [Emitters \cup Clicks -> [pc : {"idle", "sent"}, row : {0} \cup Rows]]
         /\ \A t \in Emitters \cup Clicks :
              task'[t].pc = "sent" => task'[t].row \in Rows /\ hook'[task'[t].row].state # "none"
<1> DEFINE Tasks == [Emitters \cup Clicks -> [pc : {"idle", "sent"}, row : {0} \cup Rows]]
           Held == \A t \in Emitters \cup Clicks :
                     task'[t].pc = "sent" => /\ task'[t].row \in Rows
                                             /\ hook'[task'[t].row].state # "none"
<1>1. /\ task \in Tasks
      /\ \A t \in Emitters \cup Clicks :
           task[t].pc = "sent" => task[t].row \in Rows /\ hook[task[t].row].state # "none"
  BY DEF HookTypes, HookInv
<1>2. ASSUME NEW d \in Rows, hook[d].state # "none" PROVE hook'[d].state # "none"
  BY <1>2, HookStep DEF Tidy
<1>3. ASSUME task' = task PROVE task' \in Tasks /\ Held
  BY <1>1, <1>2, <1>3
<1>4. ASSUME NEW t \in Emitters \cup Clicks, NEW d \in Rows, hook'[d].state # "none",
             task' = [task EXCEPT ![t] = [pc |-> "sent", row |-> d]]
      PROVE  task' \in Tasks /\ Held
  BY <1>1, <1>2, <1>4
<1>5. ASSUME NEW t \in Emitters, NEW m \in Merchants, Dispatch(t, m)
      PROVE  task' \in Tasks /\ Held
  <2> DEFINE c == CHOOSE d \in Fresh : \A e \in Fresh : d <= e
  <2>1. url[m] # None /\ Queue(m, 1, HookDelay[1]) /\ HookDelay[1] \in Nat
    BY <1>5, HookAssumption DEF Dispatch
  <2>2. c \in Rows /\ hook'[c].state # "none"
    BY <2>1, Queued
  <2>3. task' = [task EXCEPT ![t] = [pc |-> "sent", row |-> c]]
    BY <1>5 DEF Dispatch
  <2> HIDE DEF c
  <2>4. QED
    BY <1>4, <2>2, <2>3
<1>6. ASSUME NEW t \in Clicks, NEW d \in Rows, Click(t, d) PROVE task' \in Tasks /\ Held
  <2>1. task' = [task EXCEPT ![t] = [pc |-> "sent", row |-> d]] /\ hook[d].state # "none"
    BY <1>6 DEF Click
  <2>2. QED
    BY <1>2, <1>4, <2>1
<1>7. ASSUME NEW t \in Emitters \cup Clicks, Answer(t) PROVE task' \in Tasks /\ Held
  <2>1. task' = [task EXCEPT ![t] = Idle]
    BY <1>7 DEF Answer
  <2>2. QED
    BY <1>1, <1>2, <2>1 DEF Idle
<1>8. ASSUME Crash PROVE task' \in Tasks /\ Held
  BY <1>8 DEF Crash, Idle
<1>9. /\ \A i \in Invoices : \A to : Change(i, to) => task' = task
      /\ Select \/ Refuse \/ Post \/ Record \/ EndPass => task' = task
      /\ \A d : Skip(d) \/ Take(d) => task' = task
      /\ \A m : EditMail(m) \/ EditUrl(m) => task' = task
      /\ Tick \/ FailPass \/ UNCHANGED vars => task' = task
  BY DEF Change, Select, Refuse, Post, Record, EndPass, Skip, Take, EditMail, EditUrl, Tick,
         FailPass, vars, hookVars
<1>10. ASSUME NEW w, ProcessNext(w) \/ FailDelivery(w) PROVE task' = task
  BY <1>10 DEF ProcessNext, FailOld, Claim, Look, AlreadySent, ReadAddress, SavePayload,
               CheckClaim, Send, RecordSent, Finish, GiveBack, FailDelivery, hookVars
<1> HIDE DEF Tasks, Held
<1>11. task' \in Tasks /\ Held
  BY <1>3, <1>5, <1>6, <1>7, <1>8, <1>9, <1>10 DEF Next, RetryFailed
<1>12. QED
  BY <1>11 DEF Tasks, Held

\* What remains is typed.
LEMMA RestStep ==
  ASSUME HookTypes, HookInv, [Next]_vars
  PROVE  /\ status' \in [Invoices -> {"pending", "underpaid", "detected", "confirmed",
                                      "expired", "refunded"}]
         /\ url' \in [Merchants -> Hosts \cup {None}]
         /\ hostWait' \in [Hosts -> Nat]
         /\ left' \in [{"mail", "url", "faults"} -> Nat] /\ cast' \in Casts
<1>1. ASSUME NEW w, ProcessNext(w)
      PROVE  UNCHANGED <<status, url, hostWait, left, cast>>
  BY <1>1 DEF ProcessNext, FailOld, Claim, Look, AlreadySent, ReadAddress, SavePayload,
              CheckClaim, Send, RecordSent, Finish, GiveBack, hookVars, settings, bounds
<1>2. ASSUME NEW w, FailDelivery(w) PROVE UNCHANGED <<status, url, hostWait>> /\ Use("faults")
  BY <1>2 DEF FailDelivery, hookVars, settings
<1>3. ASSUME NEW i \in Invoices,
             NEW to \in {"pending", "underpaid", "detected", "confirmed", "expired", "refunded"},
             Change(i, to)
      PROVE  /\ status' = [status EXCEPT ![i] = to]
             /\ UNCHANGED <<url, hostWait, left, cast>>
  BY <1>3 DEF Change, settings, bounds
<1>4. /\ Select \/ Refuse \/ Post \/ Record \/ EndPass => UNCHANGED <<status, url, hostWait, left, cast>>
      /\ \A d : Skip(d) => UNCHANGED <<status, url, hostWait, left, cast>>
      /\ \A t, m : Dispatch(t, m) => UNCHANGED <<status, url, hostWait, left, cast>>
      /\ \A t, d : Click(t, d) => UNCHANGED <<status, url, hostWait, left, cast>>
      /\ \A t : Answer(t) => UNCHANGED <<status, url, hostWait, left, cast>>
      /\ UNCHANGED vars => UNCHANGED <<status, url, hostWait, left, cast>>
  BY DEF Select, Refuse, Post, Record, EndPass, Skip, Dispatch, Click, Answer, settings,
         bounds, hookVars, vars
<1>5. ASSUME NEW d \in pass.todo, Take(d)
      PROVE  hostWait' \in [Hosts -> Nat] /\ UNCHANGED <<status, url, left, cast>>
  <2>1. hook[d].host \in Hosts
    BY DEF HookTypes, HookInv
  <2>2. QED
    BY <1>5, <2>1, HookAssumption DEF Take, HookTypes, settings, bounds
<1>6. \A m : EditMail(m) => UNCHANGED <<status, url, hostWait>> /\ Use("mail")
  BY DEF EditMail, SaveMail, hookVars
<1>7. ASSUME NEW m \in Merchants, EditUrl(m)
      PROVE  /\ url' \in [Merchants -> Hosts \cup {None}]
             /\ UNCHANGED <<status, hostWait>> /\ Use("url")
  BY <1>7 DEF EditUrl, HookTypes, hookVars
<1>8. ASSUME Tick PROVE hostWait' \in [Hosts -> Nat] /\ UNCHANGED <<status, url, left, cast>>
  <2>1. \A h \in Hosts : Less(hostWait[h]) \in Nat
    BY DEF HookTypes, Less
  <2>2. QED
    BY <1>8, <2>1 DEF Tick, settings, bounds
<1>9. FailPass => UNCHANGED <<status, url, hostWait>> /\ Use("faults")
  BY DEF FailPass, settings
<1>10. ASSUME Crash
       PROVE  UNCHANGED <<status, url>> /\ hostWait' \in [Hosts -> Nat] /\ Use("faults")
  BY <1>10 DEF Crash, settings
<1>11. ASSUME NEW k \in {"mail", "url", "faults"}, Use(k)
       PROVE  left' \in [{"mail", "url", "faults"} -> Nat] /\ cast' = cast
  BY <1>11 DEF Use, HookTypes
<1>12. ASSUME NEW i \in Invoices,
              NEW to \in {"pending", "underpaid", "detected", "confirmed", "expired", "refunded"}
       PROVE  [status EXCEPT ![i] = to] \in
                [Invoices -> {"pending", "underpaid", "detected", "confirmed", "expired", "refunded"}]
  BY DEF HookTypes
<1>13. QED
  BY <1>1, <1>2, <1>3, <1>4, <1>5, <1>6, <1>7, <1>8, <1>9, <1>10, <1>11, <1>12
  DEF Next, RetryFailed, HookTypes

\* Init is typed.
LEMMA InitHook == Init => HookTypes /\ HookInv
<1> SUFFICES ASSUME Init PROVE HookTypes /\ HookInv
  OBVIOUS
<1>1. cast \in Casts /\ cast.url \in [Merchants -> Hosts \cup {None}]
      /\ cast.left \in [{"mail", "url", "faults"} -> Nat]
  BY CastsAssumption DEF Init
<1>2. NoRow \in HookRow /\ NoRow.state = "none" /\ 0 \notin Rows
  BY RowsAssumption DEF NoRow, HookRow
<1>3. HookTypes
  BY <1>1, <1>2 DEF Init, HookTypes, NoPass, Idle
<1>4. HookInv
  BY <1>2 DEF Init, HookInv, NoPass, Idle
<1>5. QED
  BY <1>3, <1>4

LEMMA NextHook == HookTypes /\ HookInv /\ [Next]_vars => (HookTypes /\ HookInv)'
<1> SUFFICES ASSUME HookTypes, HookInv, [Next]_vars PROVE HookTypes' /\ HookInv'
  OBVIOUS
<1>1. Tidy /\ Handled(pass')
  BY HookStep, PassStep
<1>2. HookTypes'
  BY <1>1, TaskStep, RestStep DEF HookTypes, Tidy, Handled
<1>3. HookInv'
  BY <1>1, TaskStep DEF HookInv, Tidy, Handled
<1>4. QED
  BY <1>2, <1>3

\* Every state of both queues, of their workers and of the provider has its type.
THEOREM TypeCorrect == Spec => []TypeOK
<1> DEFINE Inv == MailInv /\ HookTypes /\ HookInv
<1>1. Init => Inv
  BY InitMailInv, InitHook
<1>2. Inv /\ [Next]_vars => Inv'
  BY NextMail, NextClaim, NextKey, NextSent, NextWant, NextHook DEF MailInv
<1>3. Inv => TypeOK
  BY DEF MailInv, MailTypes, HookTypes, TypeOK
<1> HIDE DEF Inv
<1>4. QED
  BY <1>1, <1>2, <1>3, PTL DEF Spec

=============================================================================
