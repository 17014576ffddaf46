--------------------------- MODULE CrossChainProofs ---------------------------
(***************************************************************************)
(* Theorems of CrossChain: one swap and one deposit at most for an         *)
(* invoice, a fee on one side only, and no settlement without a mined      *)
(* delivery, for any tabs, quotes, prices, terms, deaths of tasks and      *)
(* answers of the provider.  They follow from one inductive invariant,     *)
(* SwapInv, whose parts are proved in the order they are defined: each     *)
(* uses those before it.  No part of it mentions the tasks that are to     *)
(* come; what a step can change is settled first, once for all of them.    *)
(***************************************************************************)
EXTENDS CrossChain, TLAPS

-----------------------------------------------------------------------------
(* The invariant.                                                          *)

\* An attempt once made is not made again, and one tab at most has a swap in
\* hand: while it asks, the provider has none.
AttemptInv ==
  /\ att.state = "none" =>
       /\ ~att.quoted /\ att.token = "none" /\ swaps = 0 /\ pc["worker"] = "idle"
       /\ \A t \in Tabs : pc[t] \notin {"quote", "save", "review"}
  /\ swaps <= 1
  /\ swaps = 0 => prov = "none"
  /\ att.quoted => prov # "none"
  /\ \A t \in Tabs :
       /\ pc[t] \in {"quote", "save"} => ~att.quoted
       /\ pc[t] = "quote" => swaps = 0
       /\ pc[t] = "save" => prov # "none"
       /\ pc[t] = "hear" => heard[t] # "none"
  /\ \A t, u \in Tabs :
       pc[t] \in {"quote", "save"} /\ pc[u] \in {"quote", "save"} => t = u

\* A deposit has been made under a lock that is never given back, and a tab that
\* is about to make one has the lock.
LockInv ==
  /\ att.token # "none" => att.quoted
  /\ sends <= 1
  /\ sends > 0 => att.token # "none"
  /\ \A t \in Tabs :
       /\ pc[t] = "sign" => att.token = t /\ sends = 0
       /\ pc[t] = "reject" /\ att.token = t => sends = 0

\* What the provider has sent, what the scanner has recorded and what the worker
\* has heard of it.
DeliveryInv ==
  /\ chain["swap"] # "none" => prov \in {"PROCESSING", "SUCCESS"}
  /\ prov = "SUCCESS" => chain["swap"] # "none"
  /\ prov \notin {"none", "PENDING_DEPOSIT"} => att.quoted
  /\ "swap" \in payments \/ delivery => chain["swap"] # "none"
  /\ pc["worker"] = "judge" =>
       /\ heard["worker"] \in {"SUCCESS", "REFUNDED"} => prov = heard["worker"]
       /\ heard["worker"] = "PENDING_DEPOSIT" /\ att.provLeft < 0
            => prov \in {"PENDING_DEPOSIT", "REFUNDED"}
  /\ pc["worker"] = "recover" => prov = "SUCCESS"

\* An invoice with a payment is not priced again.
TouchedInv ==
  /\ payments # {} => inv.touched
  /\ inv.status \in {"underpaid", "detected"} => inv.touched

Done == inv.status \in {"confirmed", "refunded"}

\* The invoice is paid, and not by the swap.
PaidOtherwise == Done /\ "swap" \notin payments

\* The invoice is paid by the swap.
PaidBySwap == /\ "swap" \in payments /\ chain["swap"] = "mined"
              /\ units["swap"] >= inv.price

\* The fee goes to the ledger only for a payment that is not the swap's, and is
\* taken with the swap only for one that is.
FeeInv ==
  /\ pc["scanner"] = "bill" => Done
  /\ ledger \/ deferred = "direct" \/ pc["worker"] \in {"direct", "enter"} => PaidOtherwise
  /\ settled \/ pc["worker"] = "settle" => PaidBySwap
  /\ fee \in {"collected", "provider_handled"} \/ pc["worker"] = "collect" => settled
  /\ fee = "provider_handled" => Done

SwapInv == TypeOK /\ AttemptInv /\ LockInv /\ DeliveryInv /\ TouchedInv /\ FeeInv
-----------------------------------------------------------------------------
(* What a step can change.                                                 *)

\* A transaction is credited, from the scanner's view or as a delivery.
Credit(x) == Scan(x) \/ (x = "swap" /\ FindDelivery)

\* Every variable changes in a few actions only.
LEMMA Moves ==
  ASSUME cast \in Casts, [Next]_vars
  PROVE  /\ cast' = cast /\ terms' = terms
         /\ \/ inv' = inv \/ Recover \/ Confirm \/ Refund \/ CancelInvoice
            \/ Requote \/ Expire \/ Tick
            \/ (\E t \in Tabs : Reserve(t)) \/ (\E x \in Txs : Credit(x))
         /\ \/ att' = att \/ Settle \/ Tick
            \/ \E t \in Tabs : \/ Reserve(t) \/ SaveQuote(t) \/ Review(t) \/ HearStatus(t)
                               \/ StartSend(t) \/ RejectSend(t) \/ SubmitSend(t)
         /\ \/ lease' = lease \/ lease' = TRUE \/ lease' = FALSE
         /\ \/ fee' = fee \/ Settle \/ Collect \/ CloseFee
            \/ \E t \in Tabs : Reserve(t) \/ SaveQuote(t)
         /\ \/ deferred' = deferred \/ Settle \/ ResolveDeferred \/ EnterFee \/ Bill
         /\ \/ ledger' = ledger \/ EnterFee \/ Bill
         /\ \/ settled' = settled \/ Settle
         /\ \/ delivery' = delivery \/ Recover
         /\ \/ payments' = payments \/ (\E x \in Txs : Credit(x))
         /\ \/ chain' = chain \/ Deliver \/ PayDirect \/ (\E x \in Txs : Mine(x))
         /\ \/ units' = units \/ PayDirect \/ (\E t \in Tabs : AskQuote(t))
         /\ \/ prov' = prov \/ Notice \/ Finish \/ (\E t \in Tabs : AskQuote(t))
         /\ \/ swaps' = swaps \/ (\E t \in Tabs : AskQuote(t))
         /\ \/ sends' = sends \/ (\E t \in Tabs : Sign(t))
         /\ \/ requotes' = requotes \/ requotes' = requotes + 1
         /\ \/ stops' = stops \/ stops' = stops + 1
<1> USE CastsAssumption DEF Next, Buyer, Worker, Scanner, Outside, Create, Follow, Send, Credit,
           Open, Prepare, Reserve, AskQuote, SaveQuote, Review, Poll, HearStatus,
           LeaseEnds, Retry, StartSend, Sign, RejectSend, SubmitSend, Pick, Judge,
           Recover, Match, Settle, Collect, ResolveDeferred, EnterFee, CloseFee,
           Scan, FindDelivery, Record, Confirm, Bill, Refund, CancelInvoice, Requote,
           Expire, Tick, Notice, Deliver, Finish, PayDirect, Mine, Stop, Txs,
           vars, rowVars, feeVars, chainVars, provVars, taskVars, countVars
<1>0. Creators \subseteq Tabs /\ Pollers \subseteq Tabs /\ Wallets \subseteq Tabs
  BY DEF Creators, Pollers, Wallets
<1>1. cast' = cast /\ terms' = terms
  BY <1>0
<1>2. \/ inv' = inv \/ Recover \/ Confirm \/ Refund \/ CancelInvoice
     \/ Requote \/ Expire \/ Tick
     \/ (\E t \in Tabs : Reserve(t)) \/ (\E x \in Txs : Credit(x))
  BY <1>0
<1>3. \/ att' = att \/ Settle \/ Tick
     \/ \E t \in Tabs : \/ Reserve(t) \/ SaveQuote(t) \/ Review(t) \/ HearStatus(t)
                        \/ StartSend(t) \/ RejectSend(t) \/ SubmitSend(t)
  BY <1>0
<1>4. \/ lease' = lease \/ lease' = TRUE \/ lease' = FALSE
  BY <1>0
<1>5. \/ fee' = fee \/ Settle \/ Collect \/ CloseFee
     \/ \E t \in Tabs : Reserve(t) \/ SaveQuote(t)
  BY <1>0
<1>6. \/ deferred' = deferred \/ Settle \/ ResolveDeferred \/ EnterFee \/ Bill
  BY <1>0
<1>7. \/ ledger' = ledger \/ EnterFee \/ Bill
  BY <1>0
<1>8. \/ settled' = settled \/ Settle
  BY <1>0
<1>9. \/ delivery' = delivery \/ Recover
  BY <1>0
<1>10. \/ payments' = payments \/ (\E x \in Txs : Credit(x))
  BY <1>0
<1>11. \/ chain' = chain \/ Deliver \/ PayDirect \/ (\E x \in Txs : Mine(x))
  BY <1>0
<1>12. \/ units' = units \/ PayDirect \/ (\E t \in Tabs : AskQuote(t))
  BY <1>0
<1>13. \/ prov' = prov \/ Notice \/ Finish \/ (\E t \in Tabs : AskQuote(t))
  BY <1>0
<1>14. \/ swaps' = swaps \/ (\E t \in Tabs : AskQuote(t))
  BY <1>0
<1>15. \/ sends' = sends \/ (\E t \in Tabs : Sign(t))
  BY <1>0
<1>16. \/ requotes' = requotes \/ requotes' = requotes + 1
  BY <1>0
<1>17. \/ stops' = stops \/ stops' = stops + 1
  BY <1>0
<1> HIDE DEF Next, Buyer, Worker, Scanner, Outside, Create, Follow, Send, Credit,
             Open, Prepare, Reserve, AskQuote, SaveQuote, Review, Poll, HearStatus,
             LeaseEnds, Retry, StartSend, Sign, RejectSend, SubmitSend, Pick, Judge,
             Recover, Match, Settle, Collect, ResolveDeferred, EnterFee, CloseFee,
             Scan, FindDelivery, Record, Confirm, Bill, Refund, CancelInvoice, Requote,
             Expire, Tick, Notice, Deliver, Finish, PayDirect, Mine, Stop, Txs,
             vars, rowVars, feeVars, chainVars, provVars, taskVars, countVars
<1>18. QED
  BY <1>1, <1>2, <1>3, <1>4, <1>5, <1>6, <1>7, <1>8, <1>9, <1>10, <1>11, <1>12,
     <1>13, <1>14, <1>15, <1>16, <1>17

\* Where a tab, the worker and the scanner can get in a step.
LEMMA PcMoves ==
  ASSUME TypeOK, [Next]_vars
  PROVE  /\ \A t \in Tabs :
              \/ pc'[t] = pc[t] \/ pc'[t] \in {"idle", "prepare"}
              \/ (Prepare(t) /\ pc'[t] = "reserve")
              \/ (Reserve(t) /\ pc'[t] = "quote")
              \/ (AskQuote(t) /\ pc'[t] \in {"save", "review"})
              \/ (Poll(t) /\ pc'[t] = "hear")
              \/ (StartSend(t) /\ pc'[t] = "sign")
              \/ (Sign(t) /\ pc'[t] \in {"submit", "reject"})
         /\ \/ pc'["worker"] = pc["worker"]
            \/ pc'["worker"] = "idle"
            \/ (Pick /\ pc'["worker"] \in {"judge", "direct"})
            \/ (Judge /\ pc'["worker"] \in {"direct", "recover"})
            \/ (Recover /\ pc'["worker"] = "match")
            \/ (Match /\ pc'["worker"] = "settle")
            \/ (Settle /\ pc'["worker"] = "collect")
            \/ (ResolveDeferred /\ pc'["worker"] \in {"close", "enter"})
            \/ (EnterFee /\ pc'["worker"] = "close")
         /\ \/ pc'["scanner"] = pc["scanner"]
            \/ pc'["scanner"] = "idle"
            \/ (Confirm /\ pc'["scanner"] = "bill")
         /\ DOMAIN pc' = DOMAIN pc
<1>0. /\ Creators \subseteq Tabs /\ Pollers \subseteq Tabs /\ Wallets \subseteq Tabs
      /\ DOMAIN pc = Tabs \cup {"worker", "scanner"}
      /\ \A t \in Tabs : t # "worker" /\ t # "scanner"
  BY CastsAssumption, TabsAssumption DEF Creators, Pollers, Wallets, TypeOK
<1>1. ASSUME NEW t \in Tabs
      PROVE  /\ Open(t) => Goto(t, "prepare")
             /\ Prepare(t) => Goto(t, "reserve") \/ Goto(t, "idle")
             /\ Reserve(t) => Goto(t, "quote") \/ Goto(t, "idle")
             /\ AskQuote(t) => Goto(t, "save") \/ Goto(t, "review")
             /\ SaveQuote(t) \/ Review(t) => Goto(t, "idle")
             /\ Poll(t) => Goto(t, "hear") \/ pc' = pc
             /\ HearStatus(t) => Goto(t, "idle")
             /\ StartSend(t) => Goto(t, "sign") \/ pc' = pc
             /\ Sign(t) => Goto(t, "submit") \/ Goto(t, "reject") \/ Goto(t, "idle")
             /\ RejectSend(t) => Goto(t, "idle") \/ pc' = pc
             /\ SubmitSend(t) => Goto(t, "idle")
  BY DEF Open, Prepare, Reserve, AskQuote, SaveQuote, Review, Poll, HearStatus, StartSend,
         Sign, RejectSend, SubmitSend
<1>2. /\ Pick => Goto("worker", "judge") \/ Goto("worker", "direct")
      /\ Judge => \/ Goto("worker", "direct") \/ Goto("worker", "recover")
                  \/ Goto("worker", "idle")
      /\ Recover => Goto("worker", "match")
      /\ Match => Goto("worker", "settle") \/ Goto("worker", "idle")
      /\ Settle => Goto("worker", "collect") \/ Goto("worker", "idle")
      /\ ResolveDeferred => Goto("worker", "close") \/ Goto("worker", "enter")
      /\ EnterFee => Goto("worker", "close")
      /\ Collect \/ CloseFee => Goto("worker", "idle")
  BY DEF Pick, Judge, Recover, Match, Settle, Collect, ResolveDeferred, EnterFee, CloseFee
<1>3. /\ Confirm => Goto("scanner", "bill")
      /\ Bill => Goto("scanner", "idle")
      /\ \A x : Scan(x) => pc' = pc
      /\ FindDelivery => pc' = pc
  BY DEF Confirm, Bill, Scan, FindDelivery, Record, taskVars
<1>4. \A t : Stop(t) => Goto(t, "idle")
  BY DEF Stop
<1>5. Outside => \/ pc' = pc
                 \/ \E t \in Tabs \cup {"worker", "scanner"} : Stop(t)
  BY DEF Outside, LeaseEnds, Retry, Refund, CancelInvoice, Requote, Expire, Tick,
         Notice, Deliver, Finish, PayDirect, Mine, taskVars
<1>6. UNCHANGED vars => pc' = pc
  BY DEF vars, taskVars
<1> DEFINE TabStep(t) ==
             \/ Goto(t, "idle") \/ Goto(t, "prepare")
             \/ (Prepare(t) /\ Goto(t, "reserve"))
             \/ (Reserve(t) /\ Goto(t, "quote"))
             \/ (AskQuote(t) /\ (Goto(t, "save") \/ Goto(t, "review")))
             \/ (Poll(t) /\ Goto(t, "hear"))
             \/ (StartSend(t) /\ Goto(t, "sign"))
             \/ (Sign(t) /\ (Goto(t, "submit") \/ Goto(t, "reject")))
           WorkerStep ==
             \/ Goto("worker", "idle")
             \/ (Pick /\ (Goto("worker", "judge") \/ Goto("worker", "direct")))
             \/ (Judge /\ (Goto("worker", "direct") \/ Goto("worker", "recover")))
             \/ (Recover /\ Goto("worker", "match"))
             \/ (Match /\ Goto("worker", "settle"))
             \/ (Settle /\ Goto("worker", "collect"))
             \/ (ResolveDeferred /\ (Goto("worker", "close") \/ Goto("worker", "enter")))
             \/ (EnterFee /\ Goto("worker", "close"))
<1>7. \/ pc' = pc
      \/ \E t \in Tabs : TabStep(t)
      \/ WorkerStep
      \/ Goto("scanner", "idle") \/ (Confirm /\ Goto("scanner", "bill"))
  <2>1. CASE Buyer
    BY <1>0, <1>1, <2>1 DEF Buyer, Create, Follow, Send
  <2>2. CASE Worker
    BY <1>2, <2>2 DEF Worker
  <2>3. CASE Scanner
    BY <1>3, <2>3 DEF Scanner
  <2>4. CASE Outside
    BY <1>4, <1>5, <2>4
  <2>5. CASE UNCHANGED vars
    BY <1>6, <2>5
  <2>6. QED
    BY <2>1, <2>2, <2>3, <2>4, <2>5 DEF Next
<1>8. QED
  BY <1>0, <1>7 DEF Goto

\* What a task keeps in hand changes when it is told or asked something.
LEMMA HandMoves ==
  ASSUME TypeOK, [Next]_vars
  PROVE  /\ \/ heard' = heard \/ Pick \/ Judge
            \/ \E t \in Tabs : Poll(t) \/ HearStatus(t)
            \/ \E t \in Tabs \cup {"worker", "scanner"} : Stop(t)
         /\ \/ prepared' = prepared
            \/ \E t \in Tabs : prepared' = [prepared EXCEPT ![t] = inv.price]
                               \/ prepared' = [prepared EXCEPT ![t] = 0]
            \/ \E t \in Tabs \cup {"worker", "scanner"} : Stop(t)
         /\ asked' \in {asked, "none", inv.status}
<1> USE CastsAssumption, TabsAssumption
    DEF Next, Buyer, Worker, Scanner, Outside, Create, Follow, Send, Credit,
           Open, Prepare, Reserve, AskQuote, SaveQuote, Review, Poll, HearStatus,
           LeaseEnds, Retry, StartSend, Sign, RejectSend, SubmitSend, Pick, Judge,
           Recover, Match, Settle, Collect, ResolveDeferred, EnterFee, CloseFee,
           Scan, FindDelivery, Record, Confirm, Bill, Refund, CancelInvoice, Requote,
           Expire, Tick, Notice, Deliver, Finish, PayDirect, Mine, Stop, Txs,
           vars, rowVars, feeVars, chainVars, provVars, taskVars, countVars
<1>0. /\ Creators \subseteq Tabs /\ Pollers \subseteq Tabs /\ Wallets \subseteq Tabs
  BY DEF Creators, Pollers, Wallets, TypeOK
<1>1. \/ heard' = heard \/ Pick \/ Judge
      \/ \E t \in Tabs : Poll(t) \/ HearStatus(t)
      \/ \E t \in Tabs \cup {"worker", "scanner"} : Stop(t)
  BY <1>0
<1>2. \/ prepared' = prepared
      \/ \E t \in Tabs : prepared' = [prepared EXCEPT ![t] = inv.price]
                         \/ prepared' = [prepared EXCEPT ![t] = 0]
      \/ \E t \in Tabs \cup {"worker", "scanner"} : Stop(t)
  BY <1>0
<1>3. asked' \in {asked, "none", inv.status}
  BY <1>0
<1> HIDE DEF Next, Buyer, Worker, Scanner, Outside, Create, Follow, Send, Credit,
             Open, Prepare, Reserve, AskQuote, SaveQuote, Review, Poll, HearStatus,
             LeaseEnds, Retry, StartSend, Sign, RejectSend, SubmitSend, Pick, Judge,
             Recover, Match, Settle, Collect, ResolveDeferred, EnterFee, CloseFee,
             Scan, FindDelivery, Record, Confirm, Bill, Refund, CancelInvoice, Requote,
             Expire, Tick, Notice, Deliver, Finish, PayDirect, Mine, Stop, Txs,
             vars, rowVars, feeVars, chainVars, provVars, taskVars, countVars
<1>4. QED
  BY <1>1, <1>2, <1>3
-----------------------------------------------------------------------------
(* Types.                                                                  *)

\* The instants a statement sets expires_at to.
LEMMA Instants ==
  /\ Past \in Int /\ QuoteTTL \in Int /\ TopUpTTL \in Int /\ DetectTTL \in Int
  /\ FundTTL \in Int /\ RecoverTTL \in Int
BY TTLAssumption, CrossChainBoundAssumption DEF Past

\* Every statement turns the invoice's row into a row.
LEMMA RowTypes ==
  ASSUME NEW row \in Row, NEW n \in Nat
  PROVE  /\ \A x \in BOOLEAN : Created(n, x) \in Row
         /\ [row EXCEPT !.exact = TRUE] \in Row
         /\ Reopened(row) \in Row
         /\ ReceivedUpdated(row, n) \in Row
         /\ MarkedUnderpaid(row, n) \in Row
         /\ MarkedDetected(row, n) \in Row
         /\ MarkedConfirmed(row) \in Row /\ ConfirmedTotalStored(row, n) \in Row
         /\ MarkedRefunded(row) \in Row
         /\ MarkedExpired(row) \in Row
         /\ Finalized(row, n) \in Row
         /\ ExpiredIfOld(row) \in Row
         /\ Aged(row) \in Row
<1> USE Instants DEF Row, Statuses, Awaiting
<1>1. \A x \in BOOLEAN : Created(n, x) \in Row
  BY DEF Created, NoRow
<1>2. [row EXCEPT !.exact = TRUE] \in Row /\ Reopened(row) \in Row
  BY DEF Reopened, Longer
<1>3. ReceivedUpdated(row, n) \in Row /\ MarkedUnderpaid(row, n) \in Row
  BY DEF ReceivedUpdated, MarkedUnderpaid
<1>4. MarkedDetected(row, n) \in Row /\ ConfirmedTotalStored(row, n) \in Row
  BY DEF MarkedDetected, ConfirmedTotalStored
<1>5. MarkedConfirmed(row) \in Row /\ MarkedRefunded(row) \in Row
  BY DEF MarkedConfirmed, MarkedRefunded
<1>6. MarkedExpired(row) \in Row /\ Finalized(row, n) \in Row
  BY DEF MarkedExpired, Finalized
<1>7. ExpiredIfOld(row) \in Row
  BY DEF ExpiredIfOld
<1>8. Aged(row) \in Row
  <2>1. [row EXCEPT !.left = row.left - 1] \in Row
    OBVIOUS
  <2>2. QED
    BY <2>1 DEF Aged
<1>9. QED
  BY <1>1, <1>2, <1>3, <1>4, <1>5, <1>6, <1>7, <1>8

Attempt == [state : AttemptStates, quoted : BOOLEAN, amount : Nat,
            token : Tabs \cup {"none"}, sent : BOOLEAN,
            priceLeft : Int, fundLeft : Int, provLeft : Int]

\* What the swap and the buyer's own payment come to is a number.
LEMMA SumType ==
  ASSUME TypeOK, NEW ids
  PROVE  Sum(ids) \in Nat
<1>1. units["swap"] \in Nat /\ units["direct"] \in Nat
  BY DEF TypeOK, Txs
<1>2. QED
  BY <1>1 DEF Sum

\* The first rows are typed.
LEMMA InitType == Init => TypeOK
<1> SUFFICES ASSUME Init PROVE TypeOK
  OBVIOUS
<1>1. cast \in Casts /\ cast.prices \subseteq Nat /\ cast.terms \subseteq {"free", "basic", "public"}
  BY CastsAssumption DEF Init
<1>2. PICK price \in cast.prices :
        /\ inv = Created(price, terms = "public")
        /\ att = IF terms = "public" THEN Saved(price) ELSE NoAttempt
        /\ units = [x \in Txs |-> IF x = "swap" /\ terms = "public" THEN price ELSE 0]
  BY DEF Init
<1>3. inv \in Row
  <2>1. NoRow \in Row
    BY Instants DEF NoRow, Row, Statuses
  <2>2. QED
    BY <1>1, <1>2, <2>1, RowTypes
<1>4. att \in Attempt
  BY <1>1, <1>2, Instants DEF Saved, NoAttempt, Attempt, AttemptStates
<1>5. units \in [Txs -> Nat]
  BY <1>1, <1>2
<1>6. /\ fee \in Accounted \cup {"none", "reserved", "pending"}
      /\ deferred \in {"none", "verifying", "direct", "crosschain"}
      /\ {lease, ledger, settled, delivery} \subseteq BOOLEAN
      /\ prov \in ProvStates /\ asked \in Statuses
  BY DEF Init, ProvStates, Statuses
<1>7. /\ payments \subseteq Txs /\ chain \in [Txs -> {"none", "seen", "mined"}]
      /\ heard \in [Tabs \cup {"worker"} -> ProvStates] /\ prepared \in [Tabs -> Nat]
      /\ DOMAIN pc = Tabs \cup {"worker", "scanner"}
      /\ {swaps, sends, requotes, stops} \subseteq Nat
  BY DEF Init, ProvStates
<1>8. QED
  BY <1>1, <1>3, <1>4, <1>5, <1>6, <1>7 DEF Init, TypeOK, Attempt

\* The types of the invoice's row and of the attempt's survive every step.
LEMMA RowStep ==
  ASSUME TypeOK, [Next]_vars
  PROVE  inv' \in Row /\ att' \in Attempt
<1> USE DEF TypeOK
<1>1. inv \in Row /\ att \in Attempt /\ cast.prices \subseteq Nat
  BY CastsAssumption DEF Attempt
<1>2. \A x \in Txs : Credit(x) => inv' \in Row
  <2> SUFFICES ASSUME NEW x \in Txs, Credit(x) PROVE inv' \in Row
    OBVIOUS
  <2>1. PICK n \in Nat :
          inv' = IF n >= Minimum(inv) THEN MarkedDetected(ReceivedUpdated(inv, n), n)
                 ELSE MarkedUnderpaid(ReceivedUpdated(inv, n), n)
    <3>1. \A ids : Sum(ids) \in Nat
      BY SumType
    <3>2. PICK ids : inv' = Recorded(inv, ids)
      BY DEF Credit, Scan, FindDelivery, Record
    <3>3. QED
      BY <3>1, <3>2 DEF Recorded
  <2>2. ReceivedUpdated(inv, n) \in Row
    BY <1>1, <2>1, RowTypes
  <2>3. QED
    BY <2>1, <2>2, RowTypes
<1>3. Confirm => inv' \in Row
  <2>1. \A ids : Sum(ids) \in Nat
    BY SumType
  <2>2. Confirm => \E ids : inv' = MarkedConfirmed(ConfirmedTotalStored(inv, Sum(ids)))
    BY DEF Confirm
  <2>3. \A n \in Nat : MarkedConfirmed(ConfirmedTotalStored(inv, n)) \in Row
    <3> SUFFICES ASSUME NEW n \in Nat
                 PROVE  MarkedConfirmed(ConfirmedTotalStored(inv, n)) \in Row
      OBVIOUS
    <3>1. ConfirmedTotalStored(inv, n) \in Row
      BY <1>1, RowTypes
    <3>2. QED
      BY <3>1, RowTypes
  <2>4. QED
    BY <2>1, <2>2, <2>3
<1>4. inv' \in Row
  <2>1. Recover \/ Refund \/ CancelInvoice \/ Expire \/ Tick => inv' \in Row
    BY <1>1, RowTypes DEF Recover, Refund, CancelInvoice, Expire, Tick
  <2>2. Requote => inv' \in Row
    <3>1. \A n \in Nat : Finalized(inv, n) \in Row
      BY <1>1, RowTypes
    <3>2. Requote => \E n \in cast.prices : inv' = Finalized(inv, n)
      BY DEF Requote
    <3>3. QED
      BY <1>1, <3>1, <3>2
  <2>3. \A t \in Tabs : Reserve(t) => inv' \in Row
    BY <1>1, RowTypes DEF Reserve
  <2>4. QED
    BY <1>1, <1>2, <1>3, <2>1, <2>2, <2>3, Moves
<1>5. att' \in Attempt
  <2>1. Settle => att' \in Attempt
    BY <1>1 DEF Settle, Attempt, AttemptStates
  <2>2. Tick => att' \in Attempt
    <3>1. \A n \in Int : Older(n) \in Int
      BY DEF Older
    <3>2. \A a, b, c \in Int :
            [att EXCEPT !.priceLeft = a, !.fundLeft = b, !.provLeft = c] \in Attempt
      BY <1>1 DEF Attempt
    <3>3. att.priceLeft \in Int /\ att.fundLeft \in Int /\ att.provLeft \in Int
      BY <1>1 DEF Attempt
    <3>4. QED
      <4>1. Tick => att' = [att EXCEPT !.priceLeft = Older(att.priceLeft),
                                       !.fundLeft = Older(att.fundLeft),
                                       !.provLeft = Older(att.provLeft)]
        BY DEF Tick
      <4>2. /\ Older(att.priceLeft) \in Int /\ Older(att.fundLeft) \in Int
            /\ Older(att.provLeft) \in Int
        BY <3>1, <3>3
      <4> HIDE DEF TypeOK
      <4>3. QED
        BY <3>2, <4>1, <4>2
  <2>3. ASSUME NEW t \in Tabs,
               \/ Reserve(t) \/ SaveQuote(t) \/ Review(t) \/ HearStatus(t)
               \/ StartSend(t) \/ RejectSend(t) \/ SubmitSend(t)
        PROVE  att' \in Attempt
    <3> USE DEF Attempt, AttemptStates
    <3>1. CASE Reserve(t)
      <4>1. inv.left \in Int
        BY <1>1 DEF Row
      <4>2. [NoAttempt EXCEPT !.state = "CREATING", !.priceLeft = inv.left] \in Attempt
        BY <4>1, Instants DEF NoAttempt
      <4>3. QED
        BY <1>1, <3>1, <4>2 DEF Reserve
    <3>2. CASE SaveQuote(t)
      <4>1. Lesser(att.priceLeft, FundTTL) \in Int /\ prepared[t] \in Nat
        BY <1>1, Instants DEF Lesser
      <4>2. QED
        BY <1>1, <3>2, <4>1, Instants DEF SaveQuote
    <3>3. CASE HearStatus(t)
      <4>1. heard[t] \in AttemptStates
        BY DEF ProvStates
      <4>2. QED
        BY <1>1, <3>3, <4>1 DEF HearStatus
    <3>4. CASE Review(t) \/ StartSend(t) \/ RejectSend(t) \/ SubmitSend(t)
      <4>1. CASE Review(t)
        BY <1>1, <4>1 DEF Review
      <4>2. CASE StartSend(t)
        BY <1>1, <4>2 DEF StartSend
      <4>3. CASE RejectSend(t) \/ SubmitSend(t)
        BY <1>1, <4>3 DEF RejectSend, SubmitSend
      <4>4. QED
        BY <3>4, <4>1, <4>2, <4>3
    <3>5. QED
      BY <2>3, <3>1, <3>2, <3>3, <3>4
  <2>4. QED
    BY <1>1, <2>1, <2>2, <2>3, Moves
<1>6. QED
  BY <1>4, <1>5

\* Every step keeps the types.
LEMMA NextType == TypeOK /\ [Next]_vars => TypeOK'
<1> SUFFICES ASSUME TypeOK, [Next]_vars PROVE TypeOK'
  OBVIOUS
<1>1. inv' \in Row /\ att' \in Attempt
  BY RowStep
<1>2. cast' \in Casts /\ terms' \in cast'.terms
  BY Moves DEF TypeOK
<1>3. fee' \in Accounted \cup {"none", "reserved", "pending"}
  <2>1. Settle \/ Collect \/ CloseFee => fee' \in Accounted \cup {fee}
    BY DEF Settle, Collect, CloseFee, Accounted
  <2>2. \A t : Reserve(t) \/ SaveQuote(t) => fee' \in {fee, "reserved", "pending"}
    BY DEF Reserve, SaveQuote
  <2>3. QED
    BY <2>1, <2>2, Moves DEF TypeOK
<1>4. deferred' \in {"none", "verifying", "direct", "crosschain"}
  BY Moves DEF TypeOK, Settle, ResolveDeferred, EnterFee, Bill, FeeEntered
<1>5. {lease, ledger, settled, delivery}' \subseteq BOOLEAN
  <2>1. lease' \in BOOLEAN
    BY Moves DEF TypeOK
  <2>2. ledger' \in BOOLEAN
    BY Moves DEF TypeOK, EnterFee, Bill, FeeEntered
  <2>3. settled' \in BOOLEAN /\ delivery' \in BOOLEAN
    BY Moves DEF TypeOK, Settle, Recover
  <2>4. QED
    BY <2>1, <2>2, <2>3
<1>6. payments' \subseteq Txs
  BY Moves DEF TypeOK, Credit, Scan, FindDelivery, Record
<1>7. chain' \in [Txs -> {"none", "seen", "mined"}]
  BY Moves DEF TypeOK, Deliver, PayDirect, Mine
<1>8. units' \in [Txs -> Nat]
  <2>1. inv.price \in Nat /\ \A t \in Tabs : prepared[t] \in Nat
    BY DEF TypeOK, Row
  <2>2. PayDirect => units' \in [Txs -> Nat]
    <3>1. \A n \in Nat : [units EXCEPT !["direct"] = n] \in [Txs -> Nat]
      BY DEF TypeOK
    <3>2. PayDirect => \E n \in {1, inv.price} : units' = [units EXCEPT !["direct"] = n]
      BY DEF PayDirect
    <3>3. QED
      BY <2>1, <3>1, <3>2
  <2>3. \A t \in Tabs : AskQuote(t) => units' \in [Txs -> Nat]
    BY <2>1 DEF TypeOK, AskQuote
  <2>4. QED
    BY <2>2, <2>3, Moves DEF TypeOK
<1>9. prov' \in ProvStates
  BY Moves DEF TypeOK, ProvStates, Notice, Finish, AskQuote
<1>10. swaps' \in Nat /\ sends' \in Nat /\ requotes' \in Nat /\ stops' \in Nat
  <2>1. /\ swaps \in Nat /\ sends \in Nat /\ requotes \in Nat /\ stops \in Nat
        /\ cast \in Casts
    BY DEF TypeOK
  <2>2. swaps' \in {swaps, swaps + 1}
    BY <2>1, Moves DEF AskQuote
  <2>3. sends' \in {sends, sends + 1}
    BY <2>1, Moves DEF Sign
  <2>4. requotes' \in {requotes, requotes + 1} /\ stops' \in {stops, stops + 1}
    BY <2>1, Moves
  <2>5. QED
    BY <2>1, <2>2, <2>3, <2>4
<1>11. heard' \in [Tabs \cup {"worker"} -> ProvStates]
  <2>1. "none" \in ProvStates /\ prov \in ProvStates
    BY DEF ProvStates, TypeOK
  <2>2. \A t \in Tabs \cup {"worker"} :
          Hear(t, prov) \/ Hear(t, "none") => heard' \in [Tabs \cup {"worker"} -> ProvStates]
    BY <2>1 DEF Hear, TypeOK
  <2>3. \/ heard' = heard
        \/ \E t \in Tabs \cup {"worker"} : Hear(t, prov) \/ Hear(t, "none")
        \/ \E t \in Tabs \cup {"worker", "scanner"} : Stop(t)
    BY HandMoves DEF Pick, Judge, Poll, HearStatus
  <2>4. \A t : Stop(t) => heard' \in [Tabs \cup {"worker"} -> ProvStates]
    BY <2>1 DEF Stop, TypeOK
  <2>5. QED
    BY <2>2, <2>3, <2>4 DEF TypeOK
<1>12. prepared' \in [Tabs -> Nat]
  <2>1. inv.price \in Nat
    BY DEF TypeOK, Row
  <2>2. \A t : Stop(t) => prepared' \in [Tabs -> Nat]
    BY DEF Stop, TypeOK
  <2>3. \A t \in Tabs, n \in Nat : [prepared EXCEPT ![t] = n] \in [Tabs -> Nat]
    BY DEF TypeOK
  <2>4. QED
    BY <2>1, <2>2, <2>3, HandMoves DEF TypeOK
<1>13. asked' \in Statuses
  BY HandMoves DEF TypeOK, Statuses, Row
<1>14. DOMAIN pc' = Tabs \cup {"worker", "scanner"}
  BY PcMoves DEF TypeOK
<1>15. QED
  BY <1>1, <1>2, <1>3, <1>4, <1>5, <1>6, <1>7, <1>8, <1>9, <1>10, <1>11, <1>12, <1>13, <1>14
  DEF TypeOK, Attempt
-----------------------------------------------------------------------------
(* The attempt and the tab that makes it.                                  *)

\* A tab that may have the provider make a swap.
InHand(t) == pc[t] \in {"quote", "save"}

\* A tab comes to the provider by reserving the invoice, which nobody else has.
LEMMA ReserveStep ==
  ASSUME TypeOK, NEW t \in Tabs, Reserve(t)
  PROVE  /\ pc[t] = "reserve" /\ \A u \in Tabs \ {t} : pc'[u] = pc[u]
         /\ UNCHANGED provVars /\ heard' = heard
         /\ pc'[t] = "quote" =>
              /\ att.state = "none" /\ att'.state = "CREATING"
              /\ ~att'.quoted /\ att'.token = "none"
         /\ pc'[t] # "quote" => att' = att
<1>1. DOMAIN pc = Tabs \cup {"worker", "scanner"} /\ t \in DOMAIN pc
  BY DEF TypeOK
<1>2. QED
  BY <1>1 DEF Reserve, Goto, Unreserved, NoAttempt

\* It asks once, and has the swap when the reply comes.
LEMMA AskStep ==
  ASSUME TypeOK, NEW t \in Tabs, AskQuote(t)
  PROVE  /\ pc[t] = "quote" /\ pc'[t] # "quote" /\ att' = att
         /\ pc'[t] = "save" => prov' = "PENDING_DEPOSIT"
         /\ \/ swaps' = swaps /\ prov' = prov
            \/ swaps' = swaps + 1 /\ prov' = "PENDING_DEPOSIT"
<1>1. DOMAIN pc = Tabs \cup {"worker", "scanner"} /\ t \in DOMAIN pc
  BY DEF TypeOK
<1>2. QED
  BY <1>1 DEF AskQuote, Goto, rowVars

\* What becomes of the attempt in a step.
LEMMA AttSteps ==
  ASSUME TypeOK, [Next]_vars
  PROVE  \/ (att'.state = att.state /\ att'.quoted = att.quoted /\ att'.token = att.token)
         \/ (\E t \in Tabs : Reserve(t) /\ pc'[t] = "quote")
         \/ (\E t \in Tabs : /\ SaveQuote(t) /\ pc[t] = "save" /\ pc'[t] = "idle"
                            /\ att'.quoted /\ att'.token = att.token
                            /\ att'.state = "PENDING_DEPOSIT")
         \/ (\E t \in Tabs : /\ Review(t) /\ pc[t] = "review" /\ att'.token = att.token
                            /\ att'.quoted = att.quoted /\ att'.state = "NEEDS_REVIEW")
         \/ (\E t \in Tabs : /\ HearStatus(t) /\ pc[t] = "hear" /\ att'.token = att.token
                            /\ att'.quoted = att.quoted /\ att'.state = heard[t])
         \/ (\E t \in Tabs : /\ StartSend(t) /\ att.quoted /\ att.token = "none"
                            /\ att'.token = t /\ att'.quoted /\ att'.state = att.state)
         \/ (\E t \in Tabs : /\ RejectSend(t) /\ pc[t] = "reject" /\ att.token = t
                            /\ att'.token = "none" /\ att'.quoted = att.quoted
                            /\ att'.state = att.state)
         \/ /\ Settle /\ att'.state = "SUCCESS" /\ att'.quoted = att.quoted
            /\ att'.token = att.token
<1> DEFINE Same == att'.state = att.state /\ att'.quoted = att.quoted /\ att'.token = att.token
<1>1. att \in Attempt /\ cast \in Casts
      /\ DOMAIN pc = Tabs \cup {"worker", "scanner"}
  BY DEF TypeOK, Attempt
<1>2. \A t \in Tabs : Reserve(t) => Same \/ pc'[t] = "quote"
  BY ReserveStep
<1>3. \A t \in Tabs : SaveQuote(t) =>
        /\ pc[t] = "save" /\ pc'[t] = "idle" /\ att'.quoted /\ att'.token = att.token
        /\ att'.state = "PENDING_DEPOSIT"
  BY <1>1 DEF SaveQuote, Goto, Attempt
<1>4. \A t \in Tabs : Review(t) =>
        \/ Same
        \/ /\ pc[t] = "review" /\ att'.token = att.token
           /\ att'.quoted = att.quoted /\ att'.state = "NEEDS_REVIEW"
  BY <1>1 DEF Review, Attempt
<1>5. \A t \in Tabs : HearStatus(t) =>
        \/ Same
        \/ /\ pc[t] = "hear" /\ att'.token = att.token
           /\ att'.quoted = att.quoted /\ att'.state = heard[t]
  BY <1>1 DEF HearStatus, Attempt
<1>6. \A t \in Tabs : StartSend(t) =>
        /\ att.quoted /\ att.token = "none"
        /\ att'.token = t /\ att'.quoted /\ att'.state = att.state
  BY <1>1 DEF StartSend, Unlocked, Attempt
<1>7. \A t \in Tabs : RejectSend(t) =>
        \/ Same
        \/ /\ pc[t] = "reject" /\ att.token = t
           /\ att'.token = "none" /\ att'.quoted = att.quoted
           /\ att'.state = att.state
  BY <1>1 DEF RejectSend, Rejects, Attempt
<1>8. \A t \in Tabs : SubmitSend(t) => Same
  BY <1>1 DEF SubmitSend, Attempt
<1>9. Settle => \/ Same
                \/ /\ att'.state = "SUCCESS" /\ att'.quoted = att.quoted
                   /\ att'.token = att.token
  BY <1>1 DEF Settle, Attempt
<1>10. Tick => Same
  BY <1>1 DEF Tick, Attempt
<1>11. att' = att => Same
  OBVIOUS
<1>12. \/ att' = att \/ Settle \/ Tick
       \/ \E t \in Tabs : \/ Reserve(t) \/ SaveQuote(t) \/ Review(t) \/ HearStatus(t)
                          \/ StartSend(t) \/ RejectSend(t) \/ SubmitSend(t)
  BY <1>1, Moves
<1> HIDE DEF Same
<1>13. \/ Same
       \/ (\E t \in Tabs : Reserve(t) /\ pc'[t] = "quote")
       \/ (\E t \in Tabs : SaveQuote(t))
       \/ (\E t \in Tabs : Review(t) /\ ~Same)
       \/ (\E t \in Tabs : HearStatus(t) /\ ~Same)
       \/ (\E t \in Tabs : StartSend(t))
       \/ (\E t \in Tabs : RejectSend(t) /\ ~Same)
       \/ (Settle /\ ~Same)
  BY <1>2, <1>8, <1>10, <1>11, <1>12
<1>14. QED
  BY <1>3, <1>4, <1>5, <1>6, <1>7, <1>9, <1>13 DEF Same

\* The provider does not forget a swap.
LEMMA ProvSteps ==
  ASSUME TypeOK, [Next]_vars
  PROVE  /\ prov # "none" => prov' # "none"
         /\ \/ swaps' = swaps /\ (prov = "none" => prov' = "none")
            \/ \E t \in Tabs : AskQuote(t) /\ swaps' = swaps + 1 /\ prov' # "none"
<1>1. cast \in Casts
  BY DEF TypeOK
<1>2. Notice \/ Finish => prov # "none" /\ prov' # "none" /\ swaps' = swaps
  BY DEF Notice, Finish
<1>3. \A t \in Tabs : AskQuote(t) =>
        \/ swaps' = swaps /\ prov' = prov
        \/ swaps' = swaps + 1 /\ prov' = "PENDING_DEPOSIT"
  BY AskStep
<1>4. prov' = prov \/ Notice \/ Finish \/ (\E t \in Tabs : AskQuote(t))
  BY <1>1, Moves
<1>5. swaps' = swaps \/ (\E t \in Tabs : AskQuote(t))
  BY <1>1, Moves
<1>6. QED
  BY <1>2, <1>3, <1>4, <1>5

\* A task that stays where it is keeps the answer it was given.
LEMMA HeardKept ==
  ASSUME TypeOK, [Next]_vars, NEW t \in Tabs \cup {"worker"},
         pc'[t] = pc[t], pc[t] # "idle"
  PROVE  heard'[t] = heard[t]
<1>1. /\ DOMAIN pc = Tabs \cup {"worker", "scanner"} /\ DOMAIN heard = Tabs \cup {"worker"}
      /\ \A u \in Tabs : u # "worker"
  BY TabsAssumption DEF TypeOK
<1>2. \A u \in Tabs : Poll(u) \/ HearStatus(u) => heard'[t] = heard[t]
  BY <1>1 DEF Poll, HearStatus, Hear, Goto
<1>3. Pick \/ Judge => heard'[t] = heard[t]
  BY <1>1 DEF Pick, Judge, Hear, Goto
<1>4. \A u \in Tabs \cup {"worker", "scanner"} : Stop(u) => heard'[t] = heard[t]
  BY <1>1 DEF Stop, Goto
<1>5. QED
  BY <1>2, <1>3, <1>4, HandMoves

\* Who has a swap in hand after a step had it before, or has just reserved.
LEMMA HandSteps ==
  ASSUME TypeOK, [Next]_vars, NEW t \in Tabs, pc'[t] \in {"quote", "save", "review"}
  PROVE  \/ pc[t] = pc'[t]
         \/ pc[t] = "quote" /\ AskQuote(t) /\ pc'[t] # "quote"
         \/ Reserve(t) /\ pc'[t] = "quote"
BY PcMoves, AskStep

\* The attempt is made once, by one tab.
LEMMA NextAttempt == TypeOK /\ AttemptInv /\ [Next]_vars => AttemptInv'
<1> SUFFICES ASSUME TypeOK, AttemptInv, [Next]_vars PROVE AttemptInv'
  OBVIOUS
<1> DEFINE Busy(t) == pc[t] \in {"quote", "save", "review"}
<1>0. swaps \in Nat
  BY DEF TypeOK
<1>1. ASSUME NEW t \in Tabs, Reserve(t), pc'[t] = "quote"
      PROVE  AttemptInv'
  <2>1. /\ att.state = "none" /\ att'.state = "CREATING"
        /\ ~att'.quoted /\ att'.token = "none" /\ pc[t] = "reserve"
        /\ swaps' = swaps /\ prov' = prov /\ heard' = heard
        /\ \A u \in Tabs \ {t} : pc'[u] = pc[u]
    BY <1>1, ReserveStep DEF provVars
  <2>2. swaps = 0 /\ \A u \in Tabs : ~InHand(u)
    BY <2>1 DEF AttemptInv, InHand
  <2>3. \A u \in Tabs \ {t} : ~InHand(u)' /\ (pc'[u] = "hear" => heard[u] # "none")
    BY <2>1, <2>2 DEF AttemptInv, InHand
  <2>4. QED
    BY <1>1, <2>1, <2>2, <2>3 DEF AttemptInv, InHand
<1>2. ASSUME \A t \in Tabs : ~(Reserve(t) /\ pc'[t] = "quote")
      PROVE  AttemptInv'
  <2>1. \A t \in Tabs : Busy(t)' =>
          pc[t] = pc'[t] \/ (pc[t] = "quote" /\ AskQuote(t) /\ pc'[t] # "quote")
    BY <1>2, HandSteps
  <2>2. \A t \in Tabs : InHand(t)' => InHand(t)
    BY <2>1 DEF InHand
  <2>3. \A t, u \in Tabs : InHand(t)' /\ InHand(u)' => t = u
    BY <2>2 DEF AttemptInv, InHand
  <2>4. \A t \in Tabs : AskQuote(t) => pc[t] = "quote" /\ pc'[t] # "quote"
    BY AskStep
  <2>5. swaps' <= 1 /\ (swaps' = 0 => prov' = "none")
    BY <1>0, <2>4, ProvSteps DEF AttemptInv
  <2>6. \A t \in Tabs : pc'[t] = "quote" => swaps' = 0
    <3> SUFFICES ASSUME NEW t \in Tabs, pc'[t] = "quote" PROVE swaps' = 0
      OBVIOUS
    <3>1. pc[t] = "quote" /\ swaps = 0
      BY <2>1 DEF AttemptInv
    <3>2. \A u \in Tabs : ~AskQuote(u)
      BY <2>4, <3>1 DEF AttemptInv
    <3>3. QED
      BY <3>1, <3>2, ProvSteps
  <2>7. \A t \in Tabs : pc'[t] = "save" => prov' # "none"
    BY <2>1, AskStep, ProvSteps DEF AttemptInv
  <2>8. att'.quoted => prov' # "none"
    BY <1>2, AttSteps, ProvSteps DEF AttemptInv
  <2>9. \A t \in Tabs : InHand(t)' => ~att'.quoted
    <3> SUFFICES ASSUME NEW t \in Tabs, InHand(t)', att'.quoted PROVE FALSE
      OBVIOUS
    <3>1. InHand(t) /\ ~att.quoted
      BY <2>2 DEF AttemptInv, InHand
    <3>2. PICK u \in Tabs : pc[u] = "save" /\ pc'[u] = "idle"
      BY <1>2, <3>1, AttSteps
    <3>3. u = t
      BY <3>1, <3>2 DEF AttemptInv, InHand
    <3>4. QED
      BY <3>2, <3>3 DEF InHand
  <2>10. \A t \in Tabs : pc'[t] = "hear" => heard'[t] # "none"
    <3> SUFFICES ASSUME NEW t \in Tabs, pc'[t] = "hear" PROVE heard'[t] # "none"
      OBVIOUS
    <3>1. CASE Poll(t)
      <4>1. heard' = heard \/ heard' = [heard EXCEPT ![t] = prov]
        BY <3>1 DEF Poll, Hear
      <4>2. t \in DOMAIN heard /\ DOMAIN pc = Tabs \cup {"worker", "scanner"}
        BY DEF TypeOK
      <4>3. heard'[t] = prov \/ pc[t] = "hear"
        BY <3>1, <4>1, <4>2 DEF Poll, Hear
      <4>4. pc[t] # "hear" /\ prov # "none"
        BY <3>1 DEF Poll, AttemptInv
      <4>5. QED
        BY <4>3, <4>4
    <3>2. CASE pc[t] = "hear"
      <4>1. heard[t] # "none" /\ t \in DOMAIN heard
        BY <3>2 DEF AttemptInv, TypeOK
      <4>2. heard'[t] = heard[t]
        BY <3>2, HeardKept
      <4>3. QED
        BY <4>1, <4>2
    <3>3. QED
      BY <3>1, <3>2, PcMoves
  <2>11. att'.state = "none" =>
           /\ ~att'.quoted /\ att'.token = "none" /\ swaps' = 0 /\ pc'["worker"] = "idle"
           /\ \A t \in Tabs : pc'[t] \notin {"quote", "save", "review"}
    <3> SUFFICES ASSUME att'.state = "none"
                 PROVE  /\ ~att'.quoted /\ att'.token = "none" /\ swaps' = 0
                        /\ pc'["worker"] = "idle" /\ \A t \in Tabs : ~Busy(t)'
      OBVIOUS
    <3>1. att.state = "none" /\ att'.quoted = att.quoted /\ att'.token = att.token
      BY <1>2, AttSteps DEF AttemptInv
    <3>2. /\ ~att.quoted /\ att.token = "none" /\ swaps = 0 /\ pc["worker"] = "idle"
          /\ \A t \in Tabs : ~Busy(t)
      BY <3>1 DEF AttemptInv
    <3>3. swaps' = 0 /\ \A t \in Tabs : ~Busy(t)'
      BY <2>1, <2>4, <3>2, ProvSteps
    <3>4. pc'["worker"] = "idle"
      BY <3>1, <3>2, PcMoves
      DEF Pick, Judge, Recover, Match, Settle, ResolveDeferred, EnterFee
    <3>5. QED
      BY <3>1, <3>2, <3>3, <3>4
  <2>12. QED
    BY <2>3, <2>5, <2>6, <2>7, <2>8, <2>9, <2>10, <2>11 DEF AttemptInv, InHand
<1>3. QED
  BY <1>1, <1>2

-----------------------------------------------------------------------------
(* The lock of a wallet's deposit.                                         *)

\* A wallet sends once for a lock, or tells that it has not.
LEMMA SignStep ==
  ASSUME TypeOK, NEW t \in Tabs, Sign(t)
  PROVE  /\ pc[t] = "sign" /\ pc'[t] # "sign" /\ att' = att
         /\ \A u \in Tabs \ {t} : pc'[u] = pc[u]
         /\ \/ sends' = sends
            \/ sends' = sends + 1 /\ pc'[t] # "reject"
<1>1. DOMAIN pc = Tabs \cup {"worker", "scanner"} /\ t \in DOMAIN pc
  BY DEF TypeOK
<1>2. QED
  BY <1>1 DEF Sign, Goto, rowVars

\* While a tab is about to send, or has sent, no other gets the lock.
LEMMA NextLock == TypeOK /\ AttemptInv /\ LockInv /\ [Next]_vars => LockInv'
<1> SUFFICES ASSUME TypeOK, AttemptInv, LockInv, [Next]_vars PROVE LockInv'
  OBVIOUS
<1>1. sends \in Nat /\ cast \in Casts /\ \A t \in Tabs : t # "none"
  BY TabsAssumption DEF TypeOK
<1>2. ASSUME NEW t \in Tabs, Sign(t) PROVE LockInv'
  <2>1. /\ att' = att /\ att.token = t /\ att.quoted /\ sends = 0 /\ pc'[t] # "sign"
        /\ sends' = 0 \/ (sends' = 1 /\ pc'[t] # "reject")
    BY <1>1, <1>2, SignStep DEF LockInv
  <2>2. \A u \in Tabs \ {t} : pc'[u] = pc[u] /\ pc'[u] # "sign"
    BY <1>2, <2>1, SignStep DEF LockInv
  <2>3. QED
    BY <1>1, <2>1, <2>2 DEF LockInv
<1>3. ASSUME \A t \in Tabs : ~Sign(t) PROVE LockInv'
  <2>1. sends' = sends
    BY <1>1, <1>3, Moves
  <2>2. \A t \in Tabs : /\ pc'[t] = "sign" => pc[t] = "sign" \/ StartSend(t)
                        /\ pc'[t] = "reject" => pc[t] = "reject"
    BY <1>3, PcMoves
  <2>3. ASSUME NEW t \in Tabs, att.token = "none", att'.token = t, att'.quoted PROVE LockInv'
    <3>1. sends = 0
      BY <1>1, <2>3 DEF LockInv
    <3>2. \A u \in Tabs : pc[u] # "sign"
      BY <1>1, <2>3 DEF LockInv
    <3>3. \A u \in Tabs : StartSend(u) => u = t
      BY <2>3 DEF StartSend, TypeOK
    <3>4. QED
      BY <1>1, <2>1, <2>2, <2>3, <3>1, <3>2, <3>3 DEF LockInv
  <2>4. ASSUME att'.token = "none" PROVE LockInv'
    <3>1. sends = 0
      BY <1>1, <2>4, AttSteps, ReserveStep DEF LockInv, AttemptInv
    <3>2. \A t \in Tabs : ~StartSend(t)
      BY <1>1, <2>4 DEF StartSend, TypeOK
    <3>3. \A t \in Tabs : pc'[t] # "sign"
      <4> SUFFICES ASSUME NEW t \in Tabs, pc'[t] = "sign" PROVE FALSE
        OBVIOUS
      <4>1. pc[t] = "sign" /\ att.token = t
        BY <2>2, <3>2 DEF LockInv
      <4>2. att.state # "none"
        BY <1>1, <4>1 DEF AttemptInv
      <4>3. \A u \in Tabs : Reserve(u) => pc'[u] # "quote"
        BY <4>2, ReserveStep
      <4>4. PICK u \in Tabs : pc[u] = "reject" /\ att.token = u
        BY <1>1, <2>4, <4>1, <4>3, AttSteps
      <4>5. QED
        BY <4>1, <4>4
    <3>4. QED
      BY <1>1, <2>1, <2>4, <3>1, <3>3 DEF LockInv
  <2>5. ASSUME att'.token = att.token, att.token # "none" PROVE LockInv'
    <3>1. att.quoted /\ att.state # "none"
      BY <2>5 DEF LockInv, AttemptInv
    <3>2. att'.quoted
      BY <2>5, <3>1, AttSteps, ReserveStep
    <3>3. \A t \in Tabs : ~StartSend(t)
      BY <2>5 DEF StartSend, Unlocked
    <3>4. QED
      BY <1>1, <2>1, <2>2, <2>5, <3>2, <3>3 DEF LockInv
  <2>6. \/ att'.token = "none"
        \/ att'.token = att.token /\ att.token # "none"
        \/ \E t \in Tabs : att.token = "none" /\ att'.token = t /\ att'.quoted
    BY AttSteps, ReserveStep
  <2>7. QED
    BY <2>3, <2>4, <2>5, <2>6
<1>4. QED
  BY <1>2, <1>3

-----------------------------------------------------------------------------
(* The provider, the delivery and what is known of it.                     *)

\* How the provider's swap goes on, and what else may change then.
LEMMA SwapSteps ==
  ASSUME TypeOK, AttemptInv, [Next]_vars
  PROVE  \/ prov' = prov
         \/ prov = "none" /\ prov' = "PENDING_DEPOSIT" /\ UNCHANGED <<chain, att>>
         \/ /\ prov = "PENDING_DEPOSIT" /\ (sends > 0 \/ att.quoted)
            /\ prov' = (IF att.provLeft < 0 THEN "REFUNDED" ELSE "PROCESSING")
            /\ UNCHANGED <<chain, att>>
         \/ /\ prov = "PROCESSING" /\ UNCHANGED <<chain, att>>
            /\ prov' \in IF chain["swap"] = "none" THEN {"REFUNDED", "FAILED"} ELSE {"SUCCESS"}
<1>1. cast \in Casts
  BY DEF TypeOK
<1>2. \A t \in Tabs : AskQuote(t) =>
        \/ prov' = prov
        \/ prov = "none" /\ prov' = "PENDING_DEPOSIT" /\ UNCHANGED <<chain, att>>
  BY DEF AskQuote, AttemptInv, rowVars
<1>3. Notice => /\ prov = "PENDING_DEPOSIT" /\ (sends > 0 \/ att.quoted)
                /\ prov' = (IF att.provLeft < 0 THEN "REFUNDED" ELSE "PROCESSING")
                /\ UNCHANGED <<chain, att>>
  BY DEF Notice, rowVars, chainVars
<1>4. Finish => /\ prov = "PROCESSING" /\ UNCHANGED <<chain, att>>
                /\ prov' \in IF chain["swap"] = "none" THEN {"REFUNDED", "FAILED"}
                             ELSE {"SUCCESS"}
  BY DEF Finish, rowVars, chainVars
<1>5. prov' = prov \/ Notice \/ Finish \/ (\E t \in Tabs : AskQuote(t))
  BY <1>1, Moves
<1>6. QED
  BY <1>2, <1>3, <1>4, <1>5

\* A transaction that is on the chain stays there; the swap's is the provider's.
LEMMA ChainSteps ==
  ASSUME TypeOK, [Next]_vars
  PROVE  /\ \A x \in Txs : chain[x] # "none" => chain'[x] # "none"
         /\ chain["swap"] = "mined" => chain'["swap"] = "mined"
         /\ chain'["swap"] # "none" => chain["swap"] # "none" \/ (prov = "PROCESSING" /\ prov' = prov)
<1>1. cast \in Casts /\ DOMAIN chain = Txs /\ "swap" \in Txs /\ "direct" \in Txs
  BY DEF TypeOK, Txs
<1>2. Deliver => /\ chain' = [chain EXCEPT !["swap"] = "seen"] /\ chain["swap"] = "none"
                 /\ prov = "PROCESSING" /\ prov' = prov
  BY DEF Deliver, provVars
<1>3. PayDirect => chain' = [chain EXCEPT !["direct"] = "seen"]
  BY DEF PayDirect
<1>4. \A x \in Txs : Mine(x) => chain' = [chain EXCEPT ![x] = "mined"] /\ chain[x] = "seen"
  BY DEF Mine
<1>5. chain' = chain \/ Deliver \/ PayDirect \/ (\E x \in Txs : Mine(x))
  BY <1>1, Moves
<1>6. QED
  BY <1>1, <1>2, <1>3, <1>4, <1>5

\* A quote is kept for good.
LEMMA QuotedSteps ==
  ASSUME TypeOK, AttemptInv, [Next]_vars
  PROVE  /\ att.quoted => att'.quoted
         /\ pc["worker"] = "judge" => att'.provLeft = att.provLeft \/ att'.provLeft >= 0
<1>1. cast \in Casts /\ att \in Attempt /\ FundTTL \in Nat
  BY CrossChainBoundAssumption DEF TypeOK, Attempt
<1>2. att.quoted => att'.quoted
  BY AttSteps, ReserveStep DEF AttemptInv
<1>3. \A t \in Tabs : /\ Review(t) => att'.provLeft = att.provLeft
                      /\ HearStatus(t) => att'.provLeft = att.provLeft
                      /\ StartSend(t) => att'.provLeft = att.provLeft
                      /\ RejectSend(t) => att'.provLeft = att.provLeft
                      /\ SubmitSend(t) => att'.provLeft = att.provLeft
                      /\ SaveQuote(t) => att'.provLeft = FundTTL
  BY <1>1 DEF Review, HearStatus, StartSend, RejectSend, SubmitSend, SaveQuote, Attempt
<1>4. Settle => att'.provLeft = att.provLeft
  BY <1>1 DEF Settle, Attempt
<1>5. pc["worker"] = "judge" => ~Tick /\ \A t \in Tabs : Reserve(t) => att' = att
  BY ReserveStep DEF Tick, AttemptInv
<1>6. \/ att' = att \/ Settle \/ Tick
      \/ \E t \in Tabs : \/ Reserve(t) \/ SaveQuote(t) \/ Review(t) \/ HearStatus(t)
                         \/ StartSend(t) \/ RejectSend(t) \/ SubmitSend(t)
  BY <1>1, Moves
<1>7. pc["worker"] = "judge" => att'.provLeft = att.provLeft \/ att'.provLeft = FundTTL
  BY <1>3, <1>4, <1>5, <1>6
<1>8. QED
  BY <1>1, <1>2, <1>7

\* What is delivered was sent by the provider, and what the worker has heard is
\* still so when it judges.
LEMMA NextDelivery ==
  TypeOK /\ AttemptInv /\ LockInv /\ DeliveryInv /\ [Next]_vars => DeliveryInv'
<1> SUFFICES ASSUME TypeOK, AttemptInv, LockInv, DeliveryInv, [Next]_vars
             PROVE  DeliveryInv'
  OBVIOUS
<1>1. cast \in Casts /\ "swap" \in Txs /\ sends \in Nat
  BY DEF TypeOK, Txs
<1>2. chain'["swap"] # "none" => prov' \in {"PROCESSING", "SUCCESS"}
  BY SwapSteps, ChainSteps DEF DeliveryInv
<1>3. prov' = "SUCCESS" => chain'["swap"] # "none"
  BY <1>1, SwapSteps, ChainSteps DEF DeliveryInv
<1>4. prov' \notin {"none", "PENDING_DEPOSIT"} => att'.quoted
  <2>1. sends > 0 => att.quoted
    BY <1>1 DEF LockInv
  <2>2. QED
    BY <2>1, SwapSteps, QuotedSteps DEF DeliveryInv
<1>5. "swap" \in payments' \/ delivery' => chain'["swap"] # "none"
  <2>1. Recover => chain["swap"] # "none"
    BY DEF Recover, DeliveryInv
  <2>2. \A x \in Txs : Credit(x) => chain["swap"] # "none" \/ payments' = payments \cup {"direct"}
    BY DEF Credit, Scan, FindDelivery, Record, DeliveryInv, Txs
  <2>3. QED
    BY <1>1, <2>1, <2>2, Moves, ChainSteps DEF DeliveryInv
<1>6. pc'["worker"] = "judge" =>
        /\ heard'["worker"] \in {"SUCCESS", "REFUNDED"} => prov' = heard'["worker"]
        /\ heard'["worker"] = "PENDING_DEPOSIT" /\ att'.provLeft < 0
             => prov' \in {"PENDING_DEPOSIT", "REFUNDED"}
  <2> SUFFICES ASSUME pc'["worker"] = "judge"
               PROVE  /\ heard'["worker"] \in {"SUCCESS", "REFUNDED"} => prov' = heard'["worker"]
                      /\ heard'["worker"] = "PENDING_DEPOSIT" /\ att'.provLeft < 0
                           => prov' \in {"PENDING_DEPOSIT", "REFUNDED"}
    OBVIOUS
  <2>1. CASE Pick
    <3>1. heard'["worker"] = prov /\ prov' = prov
      <4>1. DOMAIN heard = Tabs \cup {"worker"} /\ DOMAIN pc = Tabs \cup {"worker", "scanner"}
        BY DEF TypeOK
      <4>2. QED
        BY <2>1, <4>1 DEF Pick, Hear, Goto, provVars
    <3>2. QED
      BY <3>1
  <2>2. CASE pc["worker"] = "judge"
    <3>1. heard'["worker"] = heard["worker"]
      BY <2>2, HeardKept
    <3>2. att'.provLeft = att.provLeft \/ att'.provLeft >= 0
      BY <2>2, QuotedSteps
    <3>3. att.provLeft \in Int /\ att'.provLeft \in Int
      BY RowStep DEF TypeOK, Attempt
    <3>4. QED
      BY <2>2, <3>1, <3>2, <3>3, SwapSteps DEF DeliveryInv
  <2>3. QED
    BY <2>1, <2>2, PcMoves
<1>7. pc'["worker"] = "recover" => prov' = "SUCCESS"
  <2>1. DOMAIN heard = Tabs \cup {"worker"} /\ DOMAIN pc = Tabs \cup {"worker", "scanner"}
    BY DEF TypeOK
  <2>2. Judge /\ pc'["worker"] = "recover" => prov = "SUCCESS" /\ prov' = prov
    BY <2>1 DEF Judge, Goto, DeliveryInv, provVars
  <2>3. prov = "SUCCESS" => prov' = "SUCCESS"
    BY SwapSteps
  <2>4. QED
    BY <2>2, <2>3, PcMoves DEF DeliveryInv
<1>8. QED
  BY <1>2, <1>3, <1>4, <1>5, <1>6, <1>7 DEF DeliveryInv

-----------------------------------------------------------------------------
(* The invoice's row.                                                      *)

\* No statement but a new price changes the price, and none of an invoice with a
\* payment; none forgets a payment, or leaves the end.
LEMMA RowFacts ==
  ASSUME NEW row \in Row, NEW n \in Nat, NEW new,
         \/ new = [row EXCEPT !.exact = TRUE] \/ new = Reopened(row)
         \/ new = MarkedRefunded(row) \/ new = MarkedExpired(row)
         \/ new = Finalized(row, n) \/ new = ExpiredIfOld(row) \/ new = Aged(row)
  PROVE  /\ row.touched => new.touched /\ new.price = row.price
         /\ new.status \in {"underpaid", "detected"} => new.status = row.status
         /\ row.status \in {"confirmed", "refunded"} => new.status \in {"confirmed", "refunded"}
<1> USE DEF Row
<1>1. CASE new = [row EXCEPT !.exact = TRUE]
  BY <1>1
<1>2. CASE new = Reopened(row)
  BY <1>2 DEF Reopened, Awaiting
<1>3. CASE new = MarkedRefunded(row)
  BY <1>3 DEF MarkedRefunded
<1>4. CASE new = MarkedExpired(row)
  BY <1>4 DEF MarkedExpired
<1>5. CASE new = Finalized(row, n)
  BY <1>5 DEF Finalized, CanFinalize
<1>6. CASE new = ExpiredIfOld(row)
  BY <1>6 DEF ExpiredIfOld, Awaiting
<1>7. CASE new = Aged(row)
  BY <1>7 DEF Aged
<1>8. QED
  BY <1>1, <1>2, <1>3, <1>4, <1>5, <1>6, <1>7

\* A payment is told from the row once it is recorded, and only an invoice that
\* is not done takes one.
LEMMA CreditFacts ==
  ASSUME TypeOK, TouchedInv, NEW x \in Txs, Credit(x)
  PROVE  /\ inv'.touched /\ inv'.price = inv.price
         /\ inv.status \notin {"confirmed", "refunded"}
<1>1. inv \in Row
  BY DEF TypeOK
<1>2. inv.status \in {"pending", "underpaid", "detected"}
  BY DEF Credit, Scan, FindDelivery, InScannerView, Awaiting
<1>3. PICK n \in Nat :
        inv' = IF n >= Minimum(inv) THEN MarkedDetected(ReceivedUpdated(inv, n), n)
               ELSE MarkedUnderpaid(ReceivedUpdated(inv, n), n)
  <2>1. \A ids : Sum(ids) \in Nat
    BY SumType
  <2>2. PICK ids : inv' = Recorded(inv, ids)
    BY DEF Credit, Scan, FindDelivery, Record
  <2>3. QED
    BY <2>1, <2>2 DEF Recorded
<1>4. CASE inv.status = "detected"
  <2>1. inv' = inv
    BY <1>1, <1>3, <1>4 DEF MarkedDetected, MarkedUnderpaid, ReceivedUpdated, Awaiting
  <2>2. QED
    BY <1>4, <2>1 DEF TouchedInv
<1>5. CASE inv.status \in Awaiting
  <2> DEFINE row == [inv EXCEPT !.received = n, !.left = TopUpTTL]
  <2>1. ReceivedUpdated(inv, n) = row
    BY <1>5 DEF ReceivedUpdated
  <2>2. /\ row.status = inv.status /\ row.price = inv.price /\ row.exact = inv.exact
        /\ row.touched = inv.touched /\ row \in Row
    BY <1>1, Instants DEF Row
  <2> HIDE DEF row
  <2>3. CASE n >= Minimum(inv)
    <3>1. inv.exact => n >= inv.price
      BY <2>3 DEF Minimum
    <3>2. inv' = [row EXCEPT !.status = "detected", !.received = n, !.touched = TRUE,
                             !.left = DetectTTL]
      BY <1>3, <1>5, <2>1, <2>2, <2>3, <3>1 DEF MarkedDetected
    <3>3. QED
      BY <1>2, <2>2, <3>2 DEF Row
  <2>4. CASE ~(n >= Minimum(inv)) /\ inv.status = "pending"
    <3>1. inv' = [row EXCEPT !.status = "underpaid", !.received = n, !.touched = TRUE,
                             !.left = TopUpTTL]
      BY <1>3, <2>1, <2>2, <2>4 DEF MarkedUnderpaid
    <3>2. QED
      BY <1>2, <2>2, <3>1 DEF Row
  <2>5. CASE ~(n >= Minimum(inv)) /\ inv.status = "underpaid"
    <3>1. inv' = row
      BY <1>3, <2>1, <2>2, <2>5 DEF MarkedUnderpaid
    <3>2. QED
      BY <1>2, <2>2, <2>5, <3>1 DEF TouchedInv
  <2>6. QED
    BY <1>5, <2>3, <2>4, <2>5 DEF Awaiting
<1>6. QED
  BY <1>2, <1>4, <1>5 DEF Awaiting

\* The scanner confirms an invoice that has been paid.
LEMMA ConfirmFacts ==
  ASSUME TypeOK, Confirm
  PROVE  /\ inv'.status = "confirmed" /\ inv'.price = inv.price
         /\ inv'.touched = inv.touched /\ inv.status = "detected"
<1>1. inv \in Row /\ \A ids : Sum(ids) \in Nat
  BY SumType DEF TypeOK
<1>2. PICK n \in Nat : /\ n >= Minimum(inv)
                       /\ inv' = MarkedConfirmed(ConfirmedTotalStored(inv, n))
  BY <1>1 DEF Confirm
<1>3. inv.status = "detected" /\ (inv.exact => n >= inv.price)
  BY <1>2 DEF Confirm, Minimum
<1> DEFINE row == [inv EXCEPT !.received = n]
<1>4. /\ row.status = "detected" /\ row.received = n /\ row.price = inv.price
      /\ row.exact = inv.exact /\ row.touched = inv.touched /\ row \in Row
  BY <1>1, <1>3 DEF Row
<1>5. ConfirmedTotalStored(inv, n) = row
  BY <1>3 DEF ConfirmedTotalStored
<1> HIDE DEF row
<1>6. inv' = [row EXCEPT !.status = "confirmed", !.left = Past]
  BY <1>2, <1>3, <1>4, <1>5 DEF MarkedConfirmed
<1>7. QED
  BY <1>3, <1>4, <1>6 DEF Row

\* What a step may do to the invoice.
LEMMA InvSteps ==
  ASSUME TypeOK, TouchedInv, [Next]_vars
  PROVE  /\ inv.touched => inv'.touched /\ inv'.price = inv.price
         /\ inv'.status \in {"underpaid", "detected"} => inv'.status = inv.status \/ inv'.touched
         /\ Done => Done'
<1>1. inv \in Row /\ cast \in Casts /\ cast.prices \subseteq Nat
  BY CastsAssumption DEF TypeOK
<1>2. CASE \/ Recover \/ Refund \/ CancelInvoice \/ Requote \/ Expire \/ Tick
           \/ \E t \in Tabs : Reserve(t)
  <2>1. \/ inv' = inv
        \/ \E n \in Nat : \/ inv' = [inv EXCEPT !.exact = TRUE] \/ inv' = Reopened(inv)
                          \/ inv' = MarkedRefunded(inv) \/ inv' = MarkedExpired(inv)
                          \/ inv' = Finalized(inv, n) \/ inv' = ExpiredIfOld(inv)
                          \/ inv' = Aged(inv)
    <3>1. Requote => \E n \in Nat : inv' = Finalized(inv, n)
      BY <1>1 DEF Requote
    <3>2. Recover => inv' = Reopened(inv)
      BY DEF Recover
    <3>3. Refund => inv' = MarkedRefunded(inv)
      BY DEF Refund
    <3>4. CancelInvoice => inv' = MarkedExpired(inv)
      BY DEF CancelInvoice
    <3>5. Expire => inv' = ExpiredIfOld(inv)
      BY DEF Expire
    <3>6. Tick => inv' = Aged(inv)
      BY DEF Tick
    <3>7. \A t \in Tabs : Reserve(t) => inv' = inv \/ inv' = [inv EXCEPT !.exact = TRUE]
      BY DEF Reserve
    <3>8. 0 \in Nat
      OBVIOUS
    <3>9. QED
      BY <1>2, <3>1, <3>2, <3>3, <3>4, <3>5, <3>6, <3>7, <3>8
  <2>2. QED
    BY <1>1, <2>1, RowFacts DEF Done
<1>3. CASE Confirm
  BY <1>3, ConfirmFacts DEF Done
<1>4. CASE \E x \in Txs : Credit(x)
  BY <1>4, CreditFacts DEF Done
<1>5. CASE inv' = inv
  BY <1>5 DEF Done
<1>6. QED
  BY <1>1, <1>2, <1>3, <1>4, <1>5, Moves

\* A payment is never lost sight of.
LEMMA NextTouched == TypeOK /\ TouchedInv /\ [Next]_vars => TouchedInv'
<1> SUFFICES ASSUME TypeOK, TouchedInv, [Next]_vars PROVE TouchedInv'
  OBVIOUS
<1>1. payments' # {} => inv'.touched
  BY Moves, InvSteps, CreditFacts DEF TouchedInv, TypeOK
<1>2. QED
  BY <1>1, InvSteps DEF TouchedInv

-----------------------------------------------------------------------------
(* The fee.                                                                *)

\* Once the invoice is paid without the swap it stays so, and once by the swap too.
LEMMA PaidStays ==
  ASSUME TypeOK, AttemptInv, DeliveryInv, TouchedInv, [Next]_vars
  PROVE  /\ PaidOtherwise => PaidOtherwise'
         /\ PaidBySwap => PaidBySwap'
<1>1. cast \in Casts /\ "swap" \in Txs /\ DOMAIN units = Txs
  BY DEF TypeOK, Txs
<1>2. \A x \in Txs : Credit(x) => payments' = payments \cup {x}
  BY DEF Credit, Scan, FindDelivery, Record
<1>3. PaidOtherwise => PaidOtherwise'
  BY <1>1, <1>2, Moves, InvSteps, CreditFacts DEF PaidOtherwise, Done
<1>4. ASSUME PaidBySwap PROVE PaidBySwap'
  <2>1. "swap" \in payments' /\ chain'["swap"] = "mined" /\ inv'.price = inv.price
    BY <1>1, <1>2, <1>4, Moves, ChainSteps, InvSteps DEF PaidBySwap, TouchedInv
  <2>2. units'["swap"] = units["swap"]
    <3>1. \A t \in Tabs : ~AskQuote(t)
      BY <1>4 DEF AskQuote, AttemptInv, DeliveryInv, PaidBySwap
    <3>2. PayDirect => units'["swap"] = units["swap"]
      BY <1>1 DEF PayDirect
    <3>3. QED
      BY <1>1, <3>1, <3>2, Moves
  <2>3. QED
    BY <1>4, <2>1, <2>2 DEF PaidBySwap
<1>5. QED
  BY <1>3, <1>4

\* An invoice that is confirmed without a swap in sight is paid otherwise.
LEMMA NoSwap ==
  ASSUME DeliveryInv, prov \notin {"PROCESSING", "SUCCESS"}
  PROVE  "swap" \notin payments
BY DEF DeliveryInv

\* The fee is entered in the ledger only if the swap has not paid.
LEMMA EnteredFacts ==
  ASSUME TypeOK, AttemptInv, DeliveryInv, FeeInv, EnterFee \/ Bill, ledger'
  PROVE  PaidOtherwise
<1>1. Done
  BY DEF EnterFee, Bill, FeeInv, PaidOtherwise
<1>2. att.state = "none" => prov = "none"
  BY DEF AttemptInv
<1>3. ledger \/ deferred = "direct" \/ att.state = "none"
  BY DEF EnterFee, Bill, FeeEntered, OwnFee
<1>4. QED
  BY <1>1, <1>2, <1>3, NoSwap DEF FeeInv, PaidOtherwise

\* The worker goes after a direct payment only when the swap cannot have paid.
LEMMA DirectFacts ==
  ASSUME TypeOK, AttemptInv, DeliveryInv, Pick \/ Judge, pc'["worker"] = "direct"
  PROVE  PaidOtherwise
<1>1. DOMAIN heard = Tabs \cup {"worker"} /\ DOMAIN pc = Tabs \cup {"worker", "scanner"}
  BY DEF TypeOK
<1>2. CASE Pick
  <2>1. ~att.quoted /\ inv.status = "confirmed"
    BY <1>1, <1>2 DEF Pick, Goto
  <2>2. QED
    BY <2>1, NoSwap DEF DeliveryInv, PaidOtherwise, Done
<1>3. CASE Judge
  <2>1. /\ pc["worker"] = "judge" /\ inv.status = "confirmed" /\ OutOfRace(heard["worker"])
    BY <1>1, <1>3 DEF Judge, Goto
  <2>2. prov \in {"PENDING_DEPOSIT", "REFUNDED"}
    BY <2>1 DEF DeliveryInv, OutOfRace
  <2>3. QED
    BY <2>1, <2>2, NoSwap DEF PaidOtherwise, Done
<1>4. QED
  BY <1>2, <1>3

\* The worker settles a swap that has paid, once the invoice is confirmed if the
\* fee is the provider's.
LEMMA SettleFacts ==
  ASSUME TypeOK, FeeInv, Settle
  PROVE  /\ PaidBySwap
         /\ \/ /\ settled' = settled /\ fee' = fee /\ deferred' = deferred
               /\ pc'["worker"] = "idle"
            \/ settled' = TRUE /\ deferred' # "direct" /\ (fee' = fee \/ Done)
<1>1. DOMAIN pc = Tabs \cup {"worker", "scanner"}
  BY DEF TypeOK
<1>2. PaidBySwap
  BY DEF Settle, FeeInv
<1>3. CASE terms = "basic" /\ (inv.status # "confirmed" \/ fee \in Accounted)
  BY <1>1, <1>2, <1>3 DEF Settle, Goto
<1>4. CASE ~(terms = "basic" /\ (inv.status # "confirmed" \/ fee \in Accounted))
  <2>1. terms = "basic" => Done
    BY <1>4 DEF Done
  <2>2. /\ settled' = TRUE /\ deferred' = (IF deferred = "none" THEN "none" ELSE "crosschain")
        /\ fee' = IF terms = "basic" THEN "provider_handled" ELSE fee
    BY <1>4 DEF Settle
  <2>3. QED
    BY <1>2, <2>1, <2>2
<1>5. QED
  BY <1>3, <1>4

\* The fee is taken on one side only.
LEMMA NextFee ==
  /\ TypeOK /\ AttemptInv /\ DeliveryInv /\ TouchedInv /\ FeeInv
  /\ [Next]_vars
  => FeeInv'
<1> SUFFICES ASSUME TypeOK, AttemptInv, DeliveryInv, TouchedInv, FeeInv, [Next]_vars
             PROVE  FeeInv'
  OBVIOUS
<1>1. /\ cast \in Casts /\ ledger \in BOOLEAN /\ settled \in BOOLEAN
      /\ DOMAIN pc = Tabs \cup {"worker", "scanner"}
  BY DEF TypeOK
<1>2. pc'["scanner"] = "bill" => Done'
  <2>1. Confirm => Done'
    BY ConfirmFacts DEF Done
  <2>2. QED
    BY <2>1, PcMoves, InvSteps DEF FeeInv
<1>3. ledger' => PaidOtherwise'
  BY <1>1, Moves, EnteredFacts, PaidStays DEF FeeInv
<1>4. deferred' = "direct" => PaidOtherwise'
  <2>1. ResolveDeferred => pc["worker"] = "direct"
    BY DEF ResolveDeferred
  <2>2. EnterFee \/ Bill => deferred' \in {deferred, "verifying"}
    BY DEF EnterFee, Bill, FeeEntered
  <2>3. Settle => deferred' # "direct" \/ deferred' = deferred
    BY SettleFacts
  <2>4. QED
    BY <1>1, <2>1, <2>2, <2>3, Moves, PaidStays DEF FeeInv
<1>5. pc'["worker"] \in {"direct", "enter"} => PaidOtherwise'
  <2>1. ResolveDeferred => pc["worker"] = "direct"
    BY DEF ResolveDeferred
  <2>2. QED
    BY <2>1, PcMoves, DirectFacts, PaidStays DEF FeeInv
<1>6. settled' \/ pc'["worker"] = "settle" => PaidBySwap'
  <2>1. Match /\ pc'["worker"] = "settle" => PaidBySwap
    BY <1>1 DEF Match, Goto, Delivered, PaidBySwap
  <2>2. Settle => PaidBySwap
    BY SettleFacts
  <2>3. QED
    BY <1>1, <2>1, <2>2, Moves, PcMoves, PaidStays DEF FeeInv
<1>7. settled => settled'
  BY <1>1, Moves, SettleFacts
<1>8. pc'["worker"] = "collect" => settled'
  BY <1>1, <1>7, PcMoves, SettleFacts DEF FeeInv
<1>9. /\ fee' \in {"collected", "provider_handled"} => settled'
      /\ fee' = "provider_handled" => Done'
  <2>1. Done => Done'
    BY InvSteps
  <2>2. Settle => (settled' \/ fee' = fee) /\ (fee' = fee \/ Done)
    BY SettleFacts
  <2>3. Collect => settled /\ fee' \in {fee, "collected"}
    BY DEF Collect, FeeInv
  <2>4. CloseFee => fee' \in {fee, "direct"}
    BY DEF CloseFee
  <2>5. \A t \in Tabs : Reserve(t) \/ SaveQuote(t) => fee' \in {fee, "reserved", "pending"}
    BY DEF Reserve, SaveQuote
  <2>6. QED
    BY <1>1, <1>7, <2>1, <2>2, <2>3, <2>4, <2>5, Moves DEF FeeInv
<1>10. QED
  BY <1>2, <1>3, <1>4, <1>5, <1>6, <1>8, <1>9 DEF FeeInv

-----------------------------------------------------------------------------
(* The theorems.                                                           *)

\* The invariant holds at first: of a quote saved before, the provider has the
\* swap, and nothing else has happened.
LEMMA InitSwap == Init => SwapInv
<1> SUFFICES ASSUME Init PROVE SwapInv
  OBVIOUS
<1>1. TypeOK
  BY InitType
<1>2. PICK price \in cast.prices :
        /\ inv = Created(price, terms = "public")
        /\ att = IF terms = "public" THEN Saved(price) ELSE NoAttempt
  BY DEF Init
<1>3. /\ att.token = "none" /\ (att.quoted <=> terms = "public")
      /\ att.state = "none" => terms # "public"
      /\ inv.status = "pending"
  BY <1>2 DEF Saved, NoAttempt, Created, NoRow
<1>4. /\ swaps = IF terms = "public" THEN 1 ELSE 0
      /\ prov = IF terms = "public" THEN "PENDING_DEPOSIT" ELSE "none"
      /\ \A t \in Tabs \cup {"worker", "scanner"} : pc[t] = "idle"
      /\ chain["swap"] = "none"
  BY DEF Init, Txs
<1>5. AttemptInv
  BY <1>3, <1>4 DEF AttemptInv
<1>6. LockInv
  BY <1>3, <1>4 DEF LockInv, Init
<1>7. DeliveryInv
  BY <1>4 DEF DeliveryInv, Init
<1>8. TouchedInv
  BY <1>3 DEF TouchedInv, Init
<1>9. FeeInv
  BY <1>2, <1>4 DEF FeeInv, Init
<1>10. QED
  BY <1>1, <1>5, <1>6, <1>7, <1>8, <1>9 DEF SwapInv

\* Every step keeps it.
LEMMA NextSwap == SwapInv /\ [Next]_vars => SwapInv'
BY NextType, NextAttempt, NextLock, NextDelivery, NextTouched, NextFee DEF SwapInv

\* So it holds in every state.
LEMMA Swap == Spec => []SwapInv
BY InitSwap, NextSwap, PTL DEF Spec

\* The rows and the tasks of a swap are always what the schema and the code make
\* them, for any tabs, prices, terms and faults.
THEOREM TypeCorrect == Spec => []TypeOK
<1>1. SwapInv => TypeOK
  BY DEF SwapInv
<1>2. QED
  BY <1>1, Swap, PTL

\* The primary key of crosschain_attempts has the provider make one swap at most
\* for an invoice, however many tabs ask and whatever dies half way.
THEOREM SwapsOnce == Spec => []OneSwap
<1>1. SwapInv => OneSwap
  BY DEF SwapInv, AttemptInv, OneSwap
<1>2. QED
  BY <1>1, Swap, PTL

\* The lock of wallet_send lets one deposit be sent from the buyer's wallets, with
\* any number of tabs, lost replies and reports of a rejection.
THEOREM SendsOnce == Spec => []OneSend
<1>1. SwapInv => OneSend
  BY DEF SwapInv, LockInv, OneSend
<1>2. QED
  BY <1>1, Swap, PTL

\* create_fee_entry and reconcile never both take the fee of an invoice, in
\* whatever order the scanner and the worker come to it.
THEOREM FeeOnOneSide == Spec => []FeeTakenOnce
<1>1. SwapInv => FeeTakenOnce
  BY DEF SwapInv, FeeInv, FeeTakenOnce, PaidOtherwise, PaidBySwap
<1>2. QED
  BY <1>1, Swap, PTL

\* A settlement rests on a mined delivery of the whole price that the scanner has
\* credited, at any price and with any number of new quotes.
THEOREM SettlementsDelivered == Spec => []SettledIsDelivered
<1>1. SwapInv => SettledIsDelivered
  BY DEF SwapInv, FeeInv, SettledIsDelivered, PaidBySwap, Done
<1>2. QED
  BY <1>1, Swap, PTL

=============================================================================
