------------------------ MODULE PaymentScannerProofs ------------------------
(***************************************************************************)
(* Proofs about PaymentScanner, for any number of invoices and             *)
(* transactions, any prices and amounts and any combination of faults:     *)
(* type correctness and three inductive invariants, each of which uses     *)
(* those before it.                                                        *)
(*  - IInv, what the views of the workers are good for: ConfirmedIsFunded, *)
(*    OnlyConfirmedFulfilled and the refinement of InvoicePromise;         *)
(*  - CountInv, what the totals are sums of: CountedOnce, ConfirmedOnChain;*)
(*  - ScanInv, which payments are still to be found: PaidIsNoticed and     *)
(*    CheckpointCoversView.                                                *)
(***************************************************************************)
EXTENDS PaymentScanner, Integers, Functions, FiniteSetTheorems, TLAPS

-----------------------------------------------------------------------------
(* The statements on one row.                                              *)

\* The minimum an invoice asks for is a number, and depends on its price and
\* its exactness only.
LEMMA MinimumType ==
  ASSUME NEW row \in [price : Nat, exact : BOOLEAN, status : Statuses]
  PROVE  Minimum(row) \in Nat
  BY DEF Minimum

\* The instants a statement sets expires_at to.
LEMMA InstantTypes ==
  /\ Past \in Int /\ QuoteTTL \in Int /\ TopUpTTL \in Int /\ DetectTTL \in Int
  BY TTLAssumption DEF Past

\* Every statement turns a row into a row.
LEMMA StatementTypes ==
  ASSUME NEW row \in Row, NEW n \in Nat
  PROVE  /\ \A x \in BOOLEAN : Created(n, x) \in Row
         /\ Drafted \in Row
         /\ Finalized(row, n) \in Row
         /\ ReceivedUpdated(row, n) \in Row
         /\ MarkedUnderpaid(row, n) \in Row
         /\ MarkedDetected(row, n) \in Row
         /\ ConfirmedTotalStored(row, n) \in Row
         /\ MarkedConfirmed(row) \in Row
         /\ MarkedRefunded(row) \in Row
         /\ MarkedExpired(row) \in Row
         /\ ExpiredIfOld(row) \in Row
         /\ Aged(row) \in Row
         /\ Reopened(row) \in Row
         /\ [row EXCEPT !.exact = TRUE] \in Row
         /\ [row EXCEPT !.status = "expired"] \in Row
         /\ [row EXCEPT !.status = "expired", !.left = Past] \in Row
  <1> USE InstantTypes DEF Row, Statuses, Awaiting
  <1>1. \A x \in BOOLEAN : Created(n, x) \in Row
    BY DEF Created, NoRow
  <1>2. Drafted \in Row
    BY DEF Drafted, NoRow
  <1>3. Finalized(row, n) \in Row
    BY DEF Finalized
  <1>4. ReceivedUpdated(row, n) \in Row /\ MarkedUnderpaid(row, n) \in Row
    BY DEF ReceivedUpdated, MarkedUnderpaid
  <1>5. MarkedDetected(row, n) \in Row /\ ConfirmedTotalStored(row, n) \in Row
    BY DEF MarkedDetected, ConfirmedTotalStored
  <1>6. /\ MarkedConfirmed(row) \in Row
        /\ MarkedRefunded(row) \in Row
        /\ MarkedExpired(row) \in Row
    BY DEF MarkedConfirmed, MarkedRefunded, MarkedExpired
  <1>7. ExpiredIfOld(row) \in Row
    BY DEF ExpiredIfOld
  <1>8. Aged(row) \in Row
    <2>1. row.left - 1 \in Int
      OBVIOUS
    <2>2. [row EXCEPT !.left = row.left - 1] \in Row
      BY <2>1
    <2>3. QED
      BY <2>2 DEF Aged
  <1>9. Reopened(row) \in Row
    <2> DEFINE s == IF row.status = "expired" THEN "pending" ELSE row.status
               l == IF row.left < RecoverTTL THEN RecoverTTL ELSE row.left
    <2>1. s \in Statuses /\ l \in Int
      BY PayAssumption
    <2>2. [row EXCEPT !.status = s, !.left = l] \in Row
      BY <2>1
    <2>3. QED
      BY <2>2 DEF Reopened
  <1>10. /\ [row EXCEPT !.exact = TRUE] \in Row
         /\ [row EXCEPT !.status = "expired"] \in Row
         /\ [row EXCEPT !.status = "expired", !.left = Past] \in Row
    OBVIOUS
  <1>11. QED
    BY <1>1, <1>2, <1>3, <1>4, <1>5, <1>6, <1>7, <1>8, <1>9, <1>10

\* The absence of a row is a row.
LEMMA InitRow == NoRow \in Row
  BY InstantTypes DEF NoRow, Row, Statuses

\* What a worker remembers of a row.
LEMMA RememberType ==
  ASSUME NEW row \in Row
  PROVE  Remember(row) \in ViewRow /\ Seen(row) \in ViewRow
  BY DEF Remember, Seen, ViewRow, Row, Hidden, Statuses

\* So the snapshots and the empty view are views.
LEMMA ViewTypes ==
  ASSUME TypeOK
  PROVE  Snapshot \in [Invoices -> ViewRow] /\ NoView \in [Invoices -> ViewRow]
  BY RememberType DEF Snapshot, NoView, TypeOK, ViewRow, Hidden, Statuses

\* Whatever its view, the decision of a worker turns a row into a row.
LEMMA DecidedType ==
  ASSUME NEW w, NEW row \in Row, NEW seenRow \in ViewRow, NEW n \in Nat
  PROVE  Decided(w, row, seenRow, n) \in Row
  BY StatementTypes DEF Decided

-----------------------------------------------------------------------------
(* Type correctness.                                                       *)

TypeInv == TypeOK /\ PointersOK

\* The initial state is well typed.
LEMMA InitType == Init => TypeInv
  <1> SUFFICES ASSUME Init PROVE TypeInv
    OBVIOUS
  <1>1. inv \in [Invoices -> Row]
    BY InstantTypes DEF Init, Row, NoRow, Statuses
  <1>2. view \in [Workers -> [Invoices -> ViewRow]]
    BY DEF Init, NoView, Hidden, ViewRow, Statuses
  <1>3. swap \in [Invoices -> SwapRow]
    BY DEF Init, SwapRow, NoSwap
  <1>4. PointersOK
    BY DEF Init, PointersOK, InRecord, Workers
  <1>5. QED
    BY <1>1, <1>2, <1>3, <1>4 DEF Init, TypeInv, TypeOK, Labels, Workers

\* Every step keeps the types, and the pointers the types depend on.
LEMMA NextType == TypeInv /\ [Next]_vars => TypeInv'
  <1> SUFFICES ASSUME TypeInv, [Next]_vars PROVE TypeInv'
    OBVIOUS
  <1> USE DEF Workers, TypeInv, PointersOK, InRecord, swapVars, lossVars
  <1>1. ASSUME NEW i \in Invoices, NEW p \in Prices, NEW x \in Exactness,
               Create(i, p, x)
        PROVE  TypeInv'
    <2>1. Created(p, x) \in Row
      BY StatementTypes, InitRow, PayAssumption
    <2>2. QED
      BY <1>1, <2>1 DEF TypeOK, Create, SetRow, chainVars, workVars, recheckVars
  <1>2. ASSUME NEW i \in Invoices, CreateDraft(i) PROVE TypeInv'
    <2>1. Drafted \in Row
      BY StatementTypes, InitRow
    <2>2. QED
      BY <1>2, <2>1
      DEF TypeOK, CreateDraft, SetRow, chainVars, workVars, recheckVars
  <1>3. ASSUME NEW i \in Invoices, NEW p \in Prices, Finalize(i, p) PROVE TypeInv'
    <2>1. Finalized(inv[i], p) \in Row
      BY StatementTypes, PayAssumption DEF TypeOK
    <2>2. QED
      BY <1>3, <2>1
      DEF TypeOK, Finalize, SetRow, chainVars, workVars, recheckVars
  <1>4. ASSUME NEW i \in Invoices, Cancel(i) \/ Refund(i) \/ LapseDraft(i)
        PROVE  TypeInv'
    <2>0. inv[i] \in Row /\ 0 \in Nat
      BY DEF TypeOK
    <2>1. PICK row \in Row : RowOnly(i, row)
      BY <1>4, <2>0, StatementTypes DEF Cancel, Refund, LapseDraft
    <2>2. QED
      BY <2>1 DEF TypeOK, RowOnly, SetRow, chainVars, workVars, recheckVars,
                  historyVars
  <1>5. CASE Tick
    <2>1. \A i \in Invoices : Aged(inv[i]) \in Row
      BY StatementTypes DEF TypeOK
    <2>2. ASSUME NEW i \in Invoices PROVE Aged(swap[i]) \in SwapRow
      <3>1. swap[i] \in SwapRow /\ swap[i].left \in Int
        BY DEF TypeOK, SwapRow
      <3>2. swap[i].left - 1 \in Int
        BY <3>1
      <3>3. [swap[i] EXCEPT !.left = swap[i].left - 1] \in SwapRow
        BY <3>1, <3>2 DEF SwapRow
      <3>4. QED
        BY <3>1, <3>3 DEF Aged
    <2>3. swap' \in [Invoices -> SwapRow]
      BY <1>5, <2>2 DEF TypeOK, Tick
    <2>4. QED
      BY <1>5, <2>1, <2>3
      DEF TypeOK, Tick, chainVars, workVars, recheckVars, historyVars
  <1>6. CASE Chain
    <2> USE DEF OffChain, dbVars, workVars, recheckVars, historyVars
    <2>1. CASE \E t \in Txids : Send(t)
      BY <2>1 DEF TypeOK, Send
    <2>2. CASE \E S \in SUBSET Txids : Mine(S)
      BY <2>2 DEF TypeOK, Mine
    <2>3. CASE \E S \in SUBSET Txids : Reorg(S)
      BY <2>3 DEF TypeOK, Reorg
    <2>4. QED
      BY <1>6, <2>1, <2>2, <2>3 DEF Chain
  <1>7. ASSUME NEW w \in Workers, (\E t \in Txids : Take(w, t)) \/ Accept(w) \/ Insert(w)
        PROVE  TypeInv'
    <2>1. ASSUME NEW t \in Txids, Take(w, t) PROVE TypeInv'
      <3>1. pc' \in [Workers -> Labels] /\ PointersOK'
        BY <2>1 DEF Take, TypeOK, Goto, Labels, recheckVars
      <3>2. cur' \in [Workers -> Txids \cup {NoTx}] /\ todo' \in [Workers -> SUBSET Txids]
        BY <2>1 DEF Take, TypeOK
      <3>3. /\ seen' \in SUBSET Txids /\ missed' \in SUBSET Txids
            /\ refused' \in SUBSET Txids
        BY <2>1 DEF Take, Cached, TypeOK
      <3>4. QED
        BY <2>1, <3>1, <3>2, <3>3
        DEF Take, TypeOK, dbVars, chainVars, recheckVars, historyVars
    <2>2. CASE Accept(w)
      <3>1. cur[w] \in Txids /\ PaysTo[cur[w]] \in Invoices
        BY <2>2, PayAssumption DEF Accept
      <3>2. inv[PaysTo[cur[w]]].received \in Nat
        BY <3>1 DEF TypeOK, Row
      <3>3. total' \in [Workers -> Nat]
        BY <2>2, <3>2 DEF Accept, TypeOK
      <3>4. pc' \in [Workers -> Labels] /\ PointersOK'
        BY <2>2, <3>1 DEF Accept, TypeOK, Goto, Labels, recheckVars
      <3>5. missed' \in SUBSET Txids /\ refused' \in SUBSET Txids
        BY <2>2, <3>1 DEF Accept, TypeOK
      <3>6. QED
        BY <2>2, <3>3, <3>4, <3>5
        DEF Accept, TypeOK, dbVars, chainVars, recheckVars, historyVars
    <2>3. CASE Insert(w)
      <3> DEFINE i == PaysTo[cur[w]]
      <3>1. cur[w] \in Txids /\ i \in Invoices /\ Amount[cur[w]] \in Nat
        BY <2>3, PayAssumption DEF Insert
      <3>2. sum[i] + Amount[cur[w]] \in Nat
        BY <3>1 DEF TypeOK
      <3>3. sum' \in [Invoices -> Nat]
        BY <2>3, <3>1, <3>2 DEF Insert, TypeOK
      <3>4. recorded' \in [Invoices -> SUBSET Txids]
        BY <2>3, <3>1 DEF Insert, TypeOK
      <3>5. pc' \in [Workers -> Labels] /\ PointersOK'
        BY <2>3 DEF Insert, TypeOK, Goto, Labels, workVars, recheckVars
      <3>6. QED
        BY <2>3, <3>3, <3>4, <3>5
        DEF Insert, TypeOK, chainVars, workVars, recheckVars, historyVars
    <2>4. QED
      BY <1>7, <2>1, <2>2, <2>3
  <1>8. ASSUME NEW w \in Workers, Sum(w) PROVE TypeInv'
    <2>1. cur[w] \in Txids => PaysTo[cur[w]] \in Invoices
      BY PayAssumption
    <2>2. total' \in [Workers -> Nat]
      BY <1>8, <2>1 DEF Sum, TypeOK
    <2>3. pc' \in [Workers -> Labels]
      BY <1>8 DEF Sum, Goto, TypeOK, Labels
    <2>4. PointersOK'
      BY <1>8 DEF Sum, Goto, TypeOK, recheckVars
    <2>5. QED
      BY <1>8, <2>2, <2>3, <2>4
      DEF Sum, TypeOK, dbVars, chainVars, recheckVars, historyVars
  <1>9. ASSUME NEW w \in Workers, Update(w) PROVE TypeInv'
    <2>1. PaysTo[cur[w]] \in Invoices
      BY <1>9, PayAssumption DEF Update
    <2>2. ReceivedUpdated(inv[PaysTo[cur[w]]], total[w]) \in Row
      BY <2>1, StatementTypes DEF TypeOK
    <2>3. pc' \in [Workers -> Labels] /\ PointersOK'
      BY <1>9 DEF Update, Goto, TypeOK, Labels, recheckVars, workVars
    <2>4. QED
      BY <1>9, <2>1, <2>2, <2>3
      DEF Update, SetRow, TypeOK, chainVars, workVars, recheckVars, historyVars
  <1>10. ASSUME NEW w \in Workers, Decide(w) PROVE TypeInv'
    <2> DEFINE i == PaysTo[cur[w]]
    <2>1. cur[w] \in Txids /\ i \in Invoices
      BY <1>10, PayAssumption DEF Decide
    <2>2. Decided(w, inv[i], view[w][i], total[w]) \in Row
      BY <2>1, DecidedType DEF TypeOK
    <2>3. pc' \in [Workers -> Labels] /\ PointersOK'
      BY <1>10 DEF Decide, Goto, TypeOK, Labels, recheckVars
    <2>4. /\ todo' \in [Workers -> SUBSET Txids] /\ seen' \in SUBSET Txids
          /\ missed' \in SUBSET Txids
      BY <1>10, <2>1 DEF Decide, Cached, TypeOK
    <2>5. cur' \in [Workers -> Txids \cup {NoTx}] /\ total' \in [Workers -> Nat]
      BY <1>10 DEF Decide, TypeOK
    <2>6. inv' \in [Invoices -> Row]
      BY <1>10, <2>1, <2>2 DEF Decide, SetRow, TypeOK
    <2>7. QED
      BY <1>10, <2>3, <2>4, <2>5, <2>6
      DEF Decide, TypeOK, chainVars, recheckVars, historyVars
  <1>11. ASSUME Poll \/ (\E S \in SUBSET Txids : Fetch(S))
                \/ (\E t \in Txids : Push(t))
         PROVE  TypeInv'
    <2>1. view' \in [Workers -> [Invoices -> ViewRow]]
      BY <1>11, ViewTypes DEF Poll, Fetch, Push, TypeOK
    <2>2. pc' \in [Workers -> Labels] /\ PointersOK'
      BY <1>11 DEF Poll, Fetch, Push, Goto, TypeOK, Labels, recheckVars
    <2>3. todo' \in [Workers -> SUBSET Txids] /\ seen' \in SUBSET Txids
      BY <1>11 DEF Poll, Fetch, Push, TypeOK
    <2>4. QED
      BY <1>11, <2>1, <2>2, <2>3
      DEF Poll, Fetch, Push, TypeOK, dbVars, chainVars, recheckVars, historyVars
  <1>12. CASE MempoolDone \/ DeliveryDone
    <2>1. PICK w \in {"mempool", "delivery"} : Rest(w)
      BY <1>12 DEF MempoolDone, DeliveryDone
    <2>2. NoView \in [Invoices -> ViewRow] /\ "idle" \in Labels
      BY ViewTypes DEF Labels
    <2>3. /\ pc' \in [Workers -> Labels]
          /\ view' \in [Workers -> [Invoices -> ViewRow]]
          /\ todo' \in [Workers -> SUBSET Txids]
          /\ cur' \in [Workers -> Txids \cup {NoTx}]
          /\ total' \in [Workers -> Nat]
      BY <2>1, <2>2 DEF Rest, Forget, TypeOK
    <2>4. PointersOK'
      BY <1>12, <2>1
      DEF MempoolDone, DeliveryDone, Rest, Forget, TypeOK, recheckVars
    <2>5. QED
      BY <1>12, <2>3, <2>4
      DEF MempoolDone, DeliveryDone, TypeOK, dbVars, chainVars, recheckVars,
          historyVars
  <1>13. ASSUME NEW t \in Txids, Evict(t) PROVE TypeInv'
    BY <1>13 DEF Evict, TypeOK, dbVars, chainVars, workVars, recheckVars,
                 historyVars
  <1>14. CASE ExpireOld \/ SkipScan
    <2>1. \A i \in Invoices : ExpiredIfOld(inv[i]) \in Row
      BY StatementTypes DEF TypeOK
    <2>2. pc' \in [Workers -> Labels] /\ PointersOK'
      BY <1>14 DEF ExpireOld, SkipScan, Goto, TypeOK, Labels, recheckVars,
                   workVars
    <2>3. QED
      BY <1>14, <2>1, <2>2
      DEF ExpireOld, SkipScan, TypeOK, dbVars, chainVars, workVars,
          recheckVars, historyVars
  <1>15. CASE TakeView
    <2>1. view' \in [Workers -> [Invoices -> ViewRow]]
      BY <1>15, ViewTypes DEF TakeView, TypeOK
    <2>2. pc' \in [Workers -> Labels] /\ PointersOK'
      BY <1>15 DEF TakeView, Goto, TypeOK, Labels
    <2>3. QED
      BY <1>15, <2>1, <2>2 DEF TakeView, TypeOK, dbVars, chainVars, historyVars
  <1>16. ASSUME NEW i \in Invoices, Recheck(i) PROVE TypeInv'
    <2>1. pc' \in [Workers -> Labels] /\ PointersOK'
      BY <1>16 DEF Recheck, Goto, TypeOK, Labels
    <2>2. todo' \in [Workers -> SUBSET Txids] /\ checked' \in Invoices
      BY <1>16 DEF Recheck, TypeOK
    <2>3. QED
      BY <1>16, <2>1, <2>2 DEF Recheck, TypeOK, dbVars, chainVars, historyVars
  <1>17. ASSUME NEW t \in Txids, Check(t) PROVE TypeInv'
    <2>1. total["block"] + Amount[t] \in Nat
      BY PayAssumption DEF TypeOK
    <2>2. total' \in [Workers -> Nat]
      BY <1>17, <2>1 DEF Check, TypeOK
    <2>3. todo' \in [Workers -> SUBSET Txids]
      BY <1>17 DEF Check, TypeOK
    <2>4. QED
      BY <1>17, <2>2, <2>3
      DEF Check, TypeOK, dbVars, chainVars, recheckVars, historyVars
  <1>18. CASE CheckFails \/ StoreTotal \/ Mark \/ Fulfil
    <2>1. checked \in confirming /\ checked \in Invoices
      BY <1>18 DEF CheckFails, StoreTotal, StoredAnd, Mark, Fulfil, TypeOK
    <2>2. /\ ConfirmedTotalStored(inv[checked], total["block"]) \in Row
          /\ MarkedConfirmed(inv[checked]) \in Row
      BY <2>1, StatementTypes DEF TypeOK
    <2>3. inv' \in [Invoices -> Row]
      BY <1>18, <2>2
      DEF CheckFails, StoreTotal, StoredAnd, Mark, Fulfil, SetRow, TypeOK, dbVars
    <2>4. /\ pc' \in [Workers -> Labels]
          /\ \A w \in {"mempool", "delivery"} : pc'[w] = pc[w]
          /\ pc'["block"] \in {"confirm", "mark", "fulfil"}
          /\ pc["block"] # "snapshot"
      BY <1>18
      DEF CheckFails, StoreTotal, StoredAnd, Mark, Fulfil, NextInvoice, Goto, TypeOK, Labels
    <2>5. /\ cur' = cur
          /\ \/ pc'["block"] = "confirm" /\ confirming' = confirming \ {checked}
                /\ checked' = NoInvoice
             \/ confirming' = confirming /\ checked' = checked
      BY <1>18, <2>1
      DEF CheckFails, StoreTotal, StoredAnd, Mark, Fulfil, NextInvoice, Goto, TypeOK,
          recheckVars
    <2>6. PointersOK'
      BY <2>1, <2>4, <2>5
    <2>7. todo' \in [Workers -> SUBSET Txids] /\ total' \in [Workers -> Nat]
      BY <1>18 DEF CheckFails, StoreTotal, StoredAnd, Mark, Fulfil, NextInvoice, TypeOK
    <2>8. /\ fulfilled' \in SUBSET Invoices
          /\ UNCHANGED <<born, missed, reorged, refused, cut, voided>>
      BY <1>18, <2>1
      DEF CheckFails, StoreTotal, StoredAnd, Mark, Fulfil, TypeOK, historyVars
    <2>9. UNCHANGED <<swapVars, recorded, sum, saved, chainVars, seen, last, view,
                      cur, target>>
      BY <1>18 DEF CheckFails, StoreTotal, StoredAnd, Mark, Fulfil, dbVars
    <2>10. QED
      BY <2>3, <2>4, <2>5, <2>6, <2>7, <2>8, <2>9 DEF TypeOK, chainVars
  <1>19. CASE JumpToTip \/ BlockDone
    <2>1. NoView \in [Invoices -> ViewRow] /\ "idle" \in Labels
      BY ViewTypes DEF Labels
    <2>2. /\ last' \in Nat /\ saved' \in Nat /\ missed' \in SUBSET Txids
          /\ target' \in Nat
      BY <1>19 DEF JumpToTip, BlockDone, Advance, TypeOK
    <2>3. Rest("block")
      BY <1>19 DEF JumpToTip, BlockDone
    <2>4. /\ pc' \in [Workers -> Labels]
          /\ view' \in [Workers -> [Invoices -> ViewRow]]
          /\ todo' \in [Workers -> SUBSET Txids]
          /\ cur' \in [Workers -> Txids \cup {NoTx}]
          /\ total' \in [Workers -> Nat]
      BY <2>1, <2>3 DEF Rest, Forget, TypeOK
    <2>5. PointersOK'
      BY <1>19, <2>3 DEF JumpToTip, BlockDone, Rest, Forget, TypeOK, recheckVars
    <2>6. QED
      BY <1>19, <2>2, <2>4, <2>5
      DEF JumpToTip, BlockDone, TypeOK, chainVars, recheckVars
  <1>20. ASSUME NEW h \in 1 .. MaxHeight + 1, FetchBlocks(h) PROVE TypeInv'
    <2>1. target' \in Nat
      BY <1>20, ChainAssumption DEF FetchBlocks, TypeOK
    <2>2. pc' \in [Workers -> Labels] /\ PointersOK'
      BY <1>20 DEF FetchBlocks, Goto, TypeOK, Labels, recheckVars
    <2>3. todo' \in [Workers -> SUBSET Txids]
      BY <1>20 DEF FetchBlocks, TypeOK
    <2>4. QED
      BY <1>20, <2>1, <2>2, <2>3
      DEF FetchBlocks, TypeOK, dbVars, chainVars, recheckVars, historyVars
  <1>21. ASSUME NEW w \in Workers, Fail(w) PROVE TypeInv'
    <2>1. NoView \in [Invoices -> ViewRow] /\ "idle" \in Labels
      BY ViewTypes DEF Labels
    <2>2. /\ pc' \in [Workers -> Labels]
          /\ view' \in [Workers -> [Invoices -> ViewRow]]
          /\ todo' \in [Workers -> SUBSET Txids]
          /\ cur' \in [Workers -> Txids \cup {NoTx}]
          /\ total' \in [Workers -> Nat]
      BY <1>21, <2>1 DEF Fail, Forget, TypeOK
    <2>3. PointersOK'
      BY <1>21 DEF Fail, Forget, TypeOK, recheckVars
    <2>4. /\ confirming' \in SUBSET Invoices
          /\ checked' \in Invoices \cup {NoInvoice}
          /\ target' \in Nat
      BY <1>21 DEF Fail, TypeOK, recheckVars
    <2>5. QED
      BY <1>21, <2>2, <2>3, <2>4
      DEF Fail, TypeOK, dbVars, chainVars, historyVars
  <1>22. CASE Crash
    <2>1. NoView \in [Invoices -> ViewRow] /\ "idle" \in Labels
      BY ViewTypes DEF Labels
    <2>2. cut' \in SUBSET Invoices
      BY <1>22 DEF Crash, TypeOK
    <2>3. QED
      BY <1>22, <2>1, <2>2 DEF Crash, TypeOK, dbVars, chainVars
  <1>23. CASE UNCHANGED vars
    BY <1>23 DEF TypeOK, vars, dbVars, chainVars, workVars, recheckVars,
                 historyVars
  <1>24. CASE Handlers
    BY <1>24, <1>1, <1>2, <1>3, <1>4 DEF Handlers
  <1>25. ASSUME NEW w \in Workers, RecordStep(w) PROVE TypeInv'
    BY <1>25, <1>7, <1>8, <1>9, <1>10 DEF RecordStep
  <1>26. ASSUME NEW t \in Txids, TakeDelivery(t) PROVE TypeInv'
    <2> DEFINE i == PaysTo[t]
    <2>1. i \in Invoices
      BY PayAssumption
    <2>2. Seen(inv[i]) \in ViewRow /\ NoView \in [Invoices -> ViewRow]
      BY <2>1, RememberType, ViewTypes DEF TypeOK
    <2>3. view' \in [Workers -> [Invoices -> ViewRow]]
      BY <1>26, <2>2 DEF TakeDelivery, TypeOK
    <2>4. pc' \in [Workers -> Labels] /\ PointersOK'
      BY <1>26 DEF TakeDelivery, Goto, TypeOK, Labels, recheckVars
    <2>5. todo' \in [Workers -> SUBSET Txids]
      BY <1>26 DEF TakeDelivery, TypeOK
    <2>6. QED
      BY <1>26, <2>3, <2>4, <2>5
      DEF TakeDelivery, TypeOK, dbVars, chainVars, recheckVars, historyVars
  <1>27. ASSUME NEW i \in Invoices,
                \/ ReserveSwap(i) \/ (\E S \in SUBSET Txids : QueueDeliveries(i, S))
                \/ LookPause(i) \/ VoidPause(i)
         PROVE  TypeInv'
    <2>1. inv[i] \in Row /\ 0 \in Nat /\ inv[i].left \in Int
      BY DEF TypeOK, Row
    <2>2. inv' \in [Invoices -> Row]
      <3>1. /\ [inv[i] EXCEPT !.exact = TRUE] \in Row /\ Reopened(inv[i]) \in Row
            /\ [inv[i] EXCEPT !.status = "expired", !.left = Past] \in Row
        BY <2>1, StatementTypes
      <3>2. \/ inv' = inv
            \/ inv' = [inv EXCEPT ![i] = [inv[i] EXCEPT !.exact = TRUE]]
            \/ inv' = [inv EXCEPT ![i] = Reopened(inv[i])]
            \/ inv' = [inv EXCEPT ![i] =
                         [inv[i] EXCEPT !.status = "expired", !.left = Past]]
        BY <1>27
        DEF ReserveSwap, QueueDeliveries, LookPause, VoidPause, SetRow, dbVars
      <3>3. QED
        BY <3>1, <3>2 DEF TypeOK
    <2>3. swap' \in [Invoices -> SwapRow]
      <3>1. [tried |-> TRUE, left |-> inv[i].left] \in SwapRow
        BY <2>1 DEF SwapRow
      <3>2. \/ swap' = swap
            \/ swap' = [swap EXCEPT ![i] = [tried |-> TRUE, left |-> inv[i].left]]
        BY <1>27 DEF ReserveSwap, QueueDeliveries, LookPause, VoidPause
      <3>3. QED
        BY <3>1, <3>2 DEF TypeOK
    <2>4. /\ delivered' \in SUBSET Txids /\ pausing' \in SUBSET Invoices
          /\ missed' \in SUBSET Txids /\ voided' \in SUBSET Invoices
      BY <1>27
      DEF ReserveSwap, QueueDeliveries, LookPause, VoidPause, TypeOK, historyVars
    <2>5. UNCHANGED <<recorded, sum, saved, chainVars, seen, last, pc, workVars,
                      recheckVars, target, born, fulfilled, reorged, refused, cut>>
      BY <1>27
      DEF ReserveSwap, QueueDeliveries, LookPause, VoidPause, dbVars, historyVars
    <2>6. QED
      BY <2>2, <2>3, <2>4, <2>5 DEF TypeOK, chainVars, workVars, recheckVars
  <1>28. CASE Others
    BY <1>28, <1>27, <1>4 DEF Others
  <1>29. CASE MempoolStep
    BY <1>29, <1>11, <1>12, <1>25 DEF MempoolStep
  <1>30. CASE BlockStep
    BY <1>30, <1>12, <1>14, <1>15, <1>16, <1>17, <1>18, <1>19, <1>20, <1>25, <1>26
    DEF BlockStep, RecheckStep, DeliveryStep
  <1>31. CASE Fault
    BY <1>31, <1>14, <1>18, <1>21, <1>22 DEF Fault
  <1>32. QED
    BY <1>5, <1>6, <1>13, <1>23, <1>24, <1>29, <1>30, <1>31, <1>28 DEF Next

\* Every variable keeps its type, and every worker holds the transaction or
\* the invoice its next step needs.
THEOREM TypeCorrect == Spec => []TypeOK
  <1>1. TypeInv => TypeOK
    BY DEF TypeInv
  <1>2. QED
    BY <1>1, InitType, NextType, PTL DEF Spec

-----------------------------------------------------------------------------
(* The statements on a row whose payment is detected.                      *)

Funded(row) == row.status \in Settled => row.received >= Minimum(row)

\* A statement keeps a funded row funded, and while the payment is detected it
\* keeps what was received.
Paid(old, new) ==
  /\ Funded(old) => Funded(new)
  /\ new.status = "detected" =>
       \/ old.status = "detected" /\ new.received = old.received
       \/ old.status \in Awaiting

\* A statement never forgets a payment, and then it keeps the quote; an exact
\* invoice stays exact.
Shaped(old, new) ==
  /\ new.status = "none" => old.status = "none"
  /\ new.status = "draft" => old.status \in {"none", "draft"}
  /\ old.status # "none" /\ old.exact => new.exact
  /\ new.touched => old.touched \/ new.status \in {"underpaid", "detected"}
  /\ new.status = "detected" => old.status = "detected" \/ new.touched
  /\ old.touched /\ old.status \notin {"none", "draft"} =>
       new.touched /\ new.price = old.price /\ new.exact = old.exact

\* A statement opens no invoice that was paid, and takes no settlement back.
Closed(old, new) ==
  /\ new.status = "draft" => old.status = "draft"
  /\ old.touched =>
       /\ new.status \in Awaiting => old.status \in Awaiting
       /\ new.status = "pending" => old.status = "pending"
  /\ old.status \in Settled => new.status \in Settled

Steady(old, new) == Paid(old, new) /\ Shaped(old, new) /\ Closed(old, new)

\* Every statement but the two of the recheck is steady, whatever its inputs.
LEMMA StatementsSteady ==
  ASSUME NEW row \in Row, NEW n \in Nat
  PROVE  /\ Steady(row, Finalized(row, n))
         /\ Steady(row, ReceivedUpdated(row, n))
         /\ Steady(row, MarkedUnderpaid(row, n))
         /\ Steady(row, MarkedDetected(row, n))
         /\ Steady(row, MarkedRefunded(row))
         /\ Steady(row, MarkedExpired(row))
         /\ Steady(row, ExpiredIfOld(row))
         /\ Steady(row, Aged(row))
         /\ Steady(row, row)
  <1> USE InstantTypes
      DEF Row, Awaiting, Settled, Funded, Paid, Shaped, Closed, Steady
  <1>1. Steady(row, Finalized(row, n))
    BY DEF Finalized, CanFinalize
  <1>2. Steady(row, ReceivedUpdated(row, n)) /\ Steady(row, MarkedUnderpaid(row, n))
    BY DEF ReceivedUpdated, MarkedUnderpaid
  <1>3. Steady(row, MarkedDetected(row, n))
    BY DEF MarkedDetected
  <1>4. Steady(row, MarkedRefunded(row)) /\ Steady(row, MarkedExpired(row))
    BY DEF MarkedRefunded, MarkedExpired, Minimum
  <1>5. Steady(row, ExpiredIfOld(row))
    BY DEF ExpiredIfOld
  <1>6. Steady(row, Aged(row))
    BY DEF Aged, Minimum
  <1>7. QED
    BY <1>1, <1>2, <1>3, <1>4, <1>5, <1>6

\* An invoice that is created was not paid before.
LEMMA CreationsSteady ==
  ASSUME NEW row \in Row, row.status = "none", ~row.touched,
         NEW n \in Nat, NEW x \in BOOLEAN
  PROVE  Steady(row, Created(n, x)) /\ Paid(row, Drafted) /\ Shaped(row, Drafted)
  BY DEF Row, Awaiting, Settled, Funded, Paid, Shaped, Closed, Steady, Created,
         Drafted, NoRow

\* What the other components write keeps the shape of the row; a swap makes an
\* unpaid invoice exact, or one that is exact already.
LEMMA OthersShaped ==
  ASSUME NEW row \in Row
  PROVE  /\ row.status = "pending" /\ ~row.touched =>
              Steady(row, [row EXCEPT !.exact = TRUE])
         /\ row.status = "draft" => Steady(row, [row EXCEPT !.status = "expired"])
         /\ Paid(row, Reopened(row)) /\ Shaped(row, Reopened(row))
         /\ row.status \in Settled => Reopened(row) = row
         /\ Reopened(row).status = "draft" => row.status = "draft"
         /\ row.status # "none" =>
              LET new == [row EXCEPT !.status = "expired", !.left = Past]
              IN  Paid(row, new) /\ Shaped(row, new) /\ new.status = "expired"
  <1> USE InstantTypes
      DEF Row, Awaiting, Settled, Funded, Paid, Shaped, Closed, Steady
  <1>1. row.status = "pending" /\ ~row.touched =>
          Steady(row, [row EXCEPT !.exact = TRUE])
    OBVIOUS
  <1>2. row.status = "draft" => Steady(row, [row EXCEPT !.status = "expired"])
    OBVIOUS
  <1>3. /\ Paid(row, Reopened(row)) /\ Shaped(row, Reopened(row))
        /\ row.status \in Settled => Reopened(row) = row
        /\ Reopened(row).status = "draft" => row.status = "draft"
    BY DEF Reopened
  <1>4. row.status # "none" =>
          LET new == [row EXCEPT !.status = "expired", !.left = Past]
          IN  Paid(row, new) /\ Shaped(row, new) /\ new.status = "expired"
    OBVIOUS
  <1>5. QED
    BY <1>1, <1>2, <1>3, <1>4

\* The decision of a worker is steady, whatever its view.
LEMMA DecidedSteady ==
  ASSUME NEW w, NEW row \in Row, NEW seenRow \in ViewRow, NEW n \in Nat
  PROVE  Steady(row, Decided(w, row, seenRow, n))
  BY StatementsSteady DEF Decided

\* A worker that remembers an invoice as detected remembers its quote.
LEMMA RememberSafe ==
  ASSUME NEW row \in Row, Remember(row).status = "detected"
  PROVE  /\ row.status = "detected"
         /\ row.price = Remember(row).price
         /\ row.exact = Remember(row).exact
  BY DEF Remember, Seen, Hidden

-----------------------------------------------------------------------------
(* What steps that are safe for every invoice preserve.                    *)

\* A step keeps the shape of the row of i; only the swap of i opens it again
\* once it was paid.
ShapedStep(i) ==
  /\ Shaped(inv[i], inv'[i])
  /\ inv'[i].status = "draft" => inv[i].status = "draft" \/ i \in Renewals
  /\ inv[i].touched =>
       /\ inv'[i].status \in Awaiting => inv[i].status \in Awaiting \/ swap[i].tried
       /\ inv'[i].status = "pending" => inv[i].status = "pending" \/ swap[i].tried
  /\ swap[i].tried => swap'[i].tried
  /\ swap'[i].tried =>
       \/ swap[i].tried
       \/ i \in Swappable /\ inv'[i].exact /\ inv'[i].status # "none"
  /\ i \in pausing' => i \in pausing \/ (i \in Renewals /\ inv[i].status # "none")

\* And only a pause takes a settlement back.
SafeStep(i) ==
  /\ ShapedStep(i)
  /\ Paid(inv[i], inv'[i])
  /\ inv[i].status \in Settled => inv'[i].status \in Settled \/ i \in voided'
  /\ i \in voided => i \in voided'

\* Swaps are not started, and pauses only end.
KeepsMarks ==
  /\ \A i \in Invoices : swap'[i].tried = swap[i].tried
  /\ pausing' \subseteq pausing
  /\ voided' = voided

\* A steady statement is safe where nobody swaps or pauses.
LEMMA SteadySafe ==
  ASSUME TypeOK, KeepsMarks, NEW i \in Invoices, Steady(inv[i], inv'[i])
  PROVE  SafeStep(i)
  BY DEF KeepsMarks, Steady, Closed, SafeStep, ShapedStep

\* Views that a step leaves alone, drops or takes afresh.
FreshViews ==
  \A w \in Workers, i \in Invoices :
    \/ view'[w][i] = view[w][i]
    \/ view'[w][i].status # "detected"
    \/ view'[w][i] = Remember(inv[i]) /\ inv'[i] = inv[i]

\* A step that takes no view and stores no total for the recheck.
QuietRecheck ==
  /\ confirming' \subseteq confirming
  /\ pc'["block"] \notin {"confirm", "check", "mark", "fulfil"} =>
       \/ confirming' = {}
       \/ pc'["block"] = pc["block"] /\ confirming' = confirming
  /\ view'["block"] = view["block"] \/ confirming' = {}
  /\ pc'["block"] \in {"mark", "fulfil"} =>
       /\ pc'["block"] = pc["block"]
       /\ view'["block"] = view["block"]
       /\ total'["block"] = total["block"]
       /\ checked' = checked

\* Shaped steps keep RowSafe.
LEMMA ShapedRow ==
  ASSUME IInv, NEW i \in Invoices, ShapedStep(i)
  PROVE  RowSafe(i)'
  <1>1. RowSafe(i) /\ Shaped(inv[i], inv'[i])
    BY DEF IInv, ShapedStep
  <1>2. swap'[i].tried =>
          i \in Swappable /\ inv'[i].exact /\ inv'[i].status # "none"
    BY <1>1 DEF ShapedStep, Shaped, RowSafe
  <1>3. /\ inv'[i].status = "detected" => inv'[i].touched
        /\ inv'[i].touched => inv'[i].status \notin {"none", "draft"}
    BY <1>1 DEF Shaped, RowSafe
  <1>4. inv'[i].touched /\ inv'[i].status = "pending" => swap'[i].tried
    BY <1>1 DEF ShapedStep, Shaped, RowSafe
  <1>5. /\ inv'[i].status = "draft" => i \in Renewals
        /\ i \in pausing' => i \in Renewals /\ inv'[i].status # "none"
    BY <1>1 DEF ShapedStep, Shaped, RowSafe
  <1>6. QED
    BY <1>2, <1>3, <1>4, <1>5 DEF RowSafe

\* With fresh views they keep ViewSafe.
LEMMA ShapedView ==
  ASSUME IInv, FreshViews, NEW w \in Workers, NEW i \in Invoices, ShapedStep(i)
  PROVE  ViewSafe(w, i)'
  <1>1. ViewSafe(w, i) /\ RowSafe(i) /\ Shaped(inv[i], inv'[i]) /\ inv[i] \in Row
    BY DEF IInv, ShapedStep, TypeOK
  <1>2. CASE view'[w][i] = view[w][i]
    BY <1>1, <1>2 DEF ViewSafe, RowSafe, ShapedStep, Shaped
  <1>3. CASE view'[w][i].status # "detected"
    BY <1>3 DEF ViewSafe
  <1>4. CASE view'[w][i] = Remember(inv[i]) /\ inv'[i] = inv[i]
    BY <1>1, <1>4, RememberSafe DEF ViewSafe, RowSafe, Awaiting
  <1>5. QED
    BY <1>2, <1>3, <1>4 DEF FreshViews

\* The invoice being rechecked keeps what the block worker stored for it: the
\* mempool worker and the handlers cannot disturb it.
LEMMA SafeRecheck ==
  ASSUME IInv, \A i \in Invoices : SafeStep(i), QuietRecheck
  PROVE  RecheckSafe'
  <1>1. RecheckSafe /\ PointersOK /\ TypeOK
    BY DEF IInv
  <1>2. \A i \in confirming' : view'["block"][i].status = "detected"
    BY <1>1 DEF QuietRecheck, RecheckSafe
  <1>3. ASSUME pc'["block"] = "mark"
        PROVE  /\ total'["block"] >= Minimum(view'["block"][checked'])
               /\ inv'[checked'].status = "detected" /\ ~inv'[checked'].exact =>
                    inv'[checked'].received = total'["block"]
    <2>1. /\ pc["block"] = "mark" /\ checked' = checked
          /\ total'["block"] = total["block"] /\ view'["block"] = view["block"]
      BY <1>3 DEF QuietRecheck
    <2>2. checked \in confirming /\ checked \in Invoices
      BY <1>1, <2>1 DEF PointersOK, TypeOK
    <2>3. /\ view["block"][checked].status = "detected"
          /\ ViewSafe("block", checked) /\ RowSafe(checked)
      BY <1>1, <2>2 DEF RecheckSafe, IInv, Workers
    <2>4. /\ Paid(inv[checked], inv'[checked]) /\ Shaped(inv[checked], inv'[checked])
          /\ inv[checked].touched
      BY <2>2, <2>3 DEF ViewSafe, SafeStep, ShapedStep
    <2>5. inv'[checked].exact = inv[checked].exact
      BY <2>3, <2>4 DEF Shaped, RowSafe
    <2>6. inv[checked].status = "detected" /\ ~inv[checked].exact =>
            inv[checked].received = total["block"]
      BY <1>1, <2>1 DEF RecheckSafe
    <2>7. inv[checked].status \in Awaiting => inv[checked].exact
      BY <2>3 DEF ViewSafe, RowSafe
    <2>8. inv'[checked].status = "detected" /\ ~inv'[checked].exact =>
            inv'[checked].received = total["block"]
      BY <2>4, <2>5, <2>6, <2>7 DEF Paid
    <2>9. QED
      BY <1>1, <2>1, <2>8 DEF RecheckSafe
  <1>4. pc'["block"] \notin {"confirm", "check", "mark", "fulfil"} =>
          confirming' = {}
    BY <1>1 DEF QuietRecheck, RecheckSafe
  <1>5. ASSUME pc'["block"] = "fulfil"
        PROVE  inv'[checked'].status \in Settled \/ checked' \in voided'
    <2>1. pc["block"] = "fulfil" /\ checked' = checked
      BY <1>5 DEF QuietRecheck
    <2>2. checked \in Invoices /\ (inv[checked].status \in Settled \/ checked \in voided)
      BY <1>1, <2>1 DEF PointersOK, RecheckSafe, TypeOK
    <2>3. QED
      BY <2>1, <2>2 DEF SafeStep
  <1>6. QED
    BY <1>2, <1>3, <1>4, <1>5 DEF RecheckSafe

-----------------------------------------------------------------------------
(* The inductive invariant.                                                *)

\* Nothing is settled and nobody works at first.
LEMMA InitIInv == Init => IInv
  <1> SUFFICES ASSUME Init PROVE IInv
    OBVIOUS
  <1>1. TypeOK /\ PointersOK
    BY InitType DEF TypeInv
  <1>2. \A i \in Invoices : RowSafe(i)
    BY DEF Init, RowSafe, NoRow, NoSwap
  <1>3. QED
    BY <1>1, <1>2 DEF Init, IInv, ConfirmedIsFunded, Settled, NoRow, ViewSafe,
                      NoView, Hidden, RecheckSafe, Workers

\* What is settled stays settled, unless a pause expires it.
SettledStep ==
  \A i \in Invoices :
    /\ inv[i].status \in Settled => inv'[i].status \in Settled \/ i \in voided'
    /\ i \in voided => i \in voided'

\* A step that is safe for every invoice, with fresh views and a quiet recheck,
\* keeps IInv.
LEMMA SafeIInv ==
  ASSUME IInv, TypeInv', \A i \in Invoices : SafeStep(i), FreshViews, QuietRecheck
  PROVE  IInv' /\ SettledStep
  <1>1. ConfirmedIsFunded'
    BY DEF IInv, SafeStep, Paid, Funded, ConfirmedIsFunded
  <1>2. ASSUME NEW i \in Invoices PROVE RowSafe(i)'
    BY ShapedRow DEF SafeStep
  <1>3. ASSUME NEW w \in Workers, NEW i \in Invoices PROVE ViewSafe(w, i)'
    BY ShapedView DEF SafeStep
  <1>4. SettledStep
    BY DEF SettledStep, SafeStep
  <1>5. QED
    BY <1>1, <1>2, <1>3, <1>4, SafeRecheck DEF IInv, TypeInv

\* Every step preserves IInv and what is settled.
LEMMA NextKeeps == IInv /\ [Next]_vars => IInv' /\ SettledStep
  <1> DEFINE Kept == IInv' /\ SettledStep
  <1> SUFFICES ASSUME IInv, [Next]_vars PROVE Kept
    OBVIOUS
  <1> DEFINE Safe == \A i \in Invoices : SafeStep(i)
  <1>1. TypeInv'
    BY NextType DEF IInv, TypeInv
  <1>2. /\ TypeOK /\ PointersOK /\ RecheckSafe
        /\ \A i \in Invoices : inv[i] \in Row /\ RowSafe(i)
    BY DEF IInv, TypeOK
  <1>3. UNCHANGED <<swap, pausing, voided>> => KeepsMarks
    BY DEF KeepsMarks
  <1>4. inv' = inv /\ KeepsMarks => Safe
    BY <1>2, StatementsSteady, SteadySafe
  <1>5. ASSUME NEW i \in Invoices, NEW row, SetRow(i, row),
               inv'[i] = row => SafeStep(i),
               \A j \in Invoices \ {i} :
                 /\ swap'[j].tried = swap[j].tried
                 /\ j \in pausing' => j \in pausing
                 /\ j \in voided => j \in voided'
        PROVE  Safe
    <2>1. inv'[i] = row /\ \A j \in Invoices \ {i} : inv'[j] = inv[j]
      BY <1>2, <1>5 DEF SetRow, TypeOK
    <2>2. ASSUME NEW j \in Invoices \ {i} PROVE SafeStep(j)
      <3>1. inv'[j] = inv[j] /\ Steady(inv[j], inv'[j])
        BY <1>2, <2>1, StatementsSteady
      <3>2. QED
        BY <1>5, <3>1 DEF Steady, SafeStep, ShapedStep
    <2>3. QED
      BY <1>5, <2>1, <2>2
  <1>6. ASSUME NEW i \in Invoices, NEW row, SetRow(i, row), KeepsMarks,
               Steady(inv[i], row)
        PROVE  Safe
    <2>1. inv'[i] = row => SafeStep(i)
      BY <1>2, <1>6, SteadySafe
    <2>2. QED
      BY <1>5, <1>6, <2>1 DEF KeepsMarks
  <1>7. view' = view => FreshViews
    BY DEF FreshViews
  <1>8. UNCHANGED <<confirming, checked, view, total, pc>> => QuietRecheck
    BY DEF QuietRecheck
  <1> HIDE DEF Safe
  <1>9. ASSUME Safe, FreshViews, QuietRecheck PROVE Kept
    BY <1>1, <1>9, SafeIInv DEF Safe
  <1> USE DEF swapVars, lossVars, chainVars, workVars, recheckVars, historyVars,
              dbVars
  <1>10. CASE Handlers
    <2>1. UNCHANGED <<confirming, checked, view, total, pc, swap, pausing, voided>>
      BY <1>10 DEF Handlers, Create, CreateDraft, Finalize, Cancel, Refund, RowOnly
    <2>2. Safe
      <3>1. ASSUME NEW i \in Invoices, NEW p \in Prices, NEW x \in Exactness,
                   Create(i, p, x)
            PROVE  Safe
        <4>1. p \in Nat /\ x \in BOOLEAN
          BY PayAssumption
        <4>2. Steady(inv[i], Created(p, x))
          BY <1>2, <3>1, <4>1, CreationsSteady DEF Create, RowSafe
        <4>3. QED
          BY <1>3, <1>6, <2>1, <3>1, <4>2 DEF Create
      <3>2. ASSUME NEW i \in Invoices, CreateDraft(i) PROVE Safe
        <4>1. Paid(inv[i], Drafted) /\ Shaped(inv[i], Drafted)
          BY <1>2, <3>2, CreationsSteady DEF CreateDraft, RowSafe
        <4>2. /\ SetRow(i, Drafted) /\ i \in Renewals
              /\ ~inv[i].touched /\ inv[i].status = "none"
          BY <1>2, <3>2 DEF CreateDraft, RowSafe
        <4>3. inv'[i] = Drafted => SafeStep(i)
          BY <2>1, <4>1, <4>2 DEF SafeStep, ShapedStep, Settled
        <4>4. QED
          BY <1>5, <2>1, <4>2, <4>3
      <3>3. ASSUME NEW i \in Invoices, NEW p \in Prices, Finalize(i, p) PROVE Safe
        <4>1. Steady(inv[i], Finalized(inv[i], p))
          BY <1>2, StatementsSteady, PayAssumption
        <4>2. QED
          BY <1>3, <1>6, <2>1, <3>3, <4>1 DEF Finalize
      <3>4. ASSUME NEW i \in Invoices, Cancel(i) \/ Refund(i) PROVE Safe
        <4>1. 0 \in Nat
          OBVIOUS
        <4>2. Steady(inv[i], MarkedExpired(inv[i])) /\ Steady(inv[i], MarkedRefunded(inv[i]))
          BY <1>2, <4>1, StatementsSteady
        <4>3. QED
          BY <1>3, <1>6, <2>1, <3>4, <4>2 DEF Cancel, Refund, RowOnly
      <3>5. QED
        BY <1>10, <3>1, <3>2, <3>3, <3>4 DEF Handlers
    <2>3. QED
      BY <1>7, <1>8, <1>9, <2>1, <2>2
  <1>11. CASE Others
    <2>1. UNCHANGED <<confirming, checked, view, total, pc>>
      BY <1>11 DEF Others, ReserveSwap, QueueDeliveries, LookPause, VoidPause,
                   LapseDraft, RowOnly
    <2>2. ASSUME NEW i \in Invoices, ReserveSwap(i) PROVE Safe
      <3> DEFINE row == [inv[i] EXCEPT !.exact = TRUE]
      <3>1. /\ inv[i].status = "pending" /\ ~swap[i].tried /\ i \in Swappable
            /\ swap' = [swap EXCEPT ![i] = [tried |-> TRUE, left |-> inv[i].left]]
            /\ SetRow(i, row) /\ UNCHANGED <<pausing, voided>>
        BY <2>2 DEF ReserveSwap
      <3>2. Steady(inv[i], row)
        BY <1>2, <3>1, OthersShaped DEF RowSafe
      <3>3. row.exact /\ row.status = "pending"
        BY <1>2, <3>1 DEF Row
      <3> HIDE DEF row
      <3>4. inv'[i] = row => SafeStep(i)
        BY <3>1, <3>2, <3>3 DEF Steady, Closed, SafeStep, ShapedStep
      <3>5. \A j \in Invoices \ {i} : swap'[j] = swap[j]
        BY <1>2, <3>1 DEF TypeOK
      <3>6. QED
        BY <1>5, <3>1, <3>4, <3>5
    <2>3. ASSUME NEW i \in Invoices, NEW S \in SUBSET Txids, QueueDeliveries(i, S)
          PROVE  Safe
      <3>1. /\ swap[i].tried /\ SetRow(i, Reopened(inv[i]))
            /\ UNCHANGED <<swap, pausing, voided>>
        BY <2>3 DEF QueueDeliveries
      <3> DEFINE row == Reopened(inv[i])
      <3>2. /\ Paid(inv[i], row) /\ Shaped(inv[i], row)
            /\ inv[i].status \in Settled => row = inv[i]
            /\ row.status = "draft" => inv[i].status = "draft"
        BY <1>2, OthersShaped
      <3> HIDE DEF row
      <3>3. inv'[i] = row => SafeStep(i)
        BY <3>1, <3>2 DEF SafeStep, ShapedStep
      <3>4. QED
        BY <1>5, <3>1, <3>3 DEF row
    <2>4. ASSUME NEW i \in Invoices, LookPause(i) PROVE Safe
      <3>1. /\ UNCHANGED <<inv, swap, voided>> /\ pausing' = pausing \cup {i}
            /\ i \in Renewals /\ inv[i].status # "none"
        BY <2>4 DEF LookPause, Awaiting
      <3>2. ASSUME NEW j \in Invoices PROVE SafeStep(j)
        <4>1. Steady(inv[j], inv'[j])
          BY <1>2, <3>1, StatementsSteady
        <4>2. QED
          BY <3>1, <4>1 DEF Steady, Closed, SafeStep, ShapedStep
      <3>3. QED
        BY <3>2 DEF Safe
    <2>5. ASSUME NEW i \in Invoices, VoidPause(i) PROVE Safe
      <3> DEFINE row == [inv[i] EXCEPT !.status = "expired", !.left = Past]
      <3>1. /\ SetRow(i, row) /\ swap' = swap /\ i \in pausing
            /\ pausing' \subseteq pausing /\ voided \subseteq voided'
            /\ inv[i].status \in Settled => i \in voided'
        BY <2>5 DEF VoidPause, Settled
      <3>2. Paid(inv[i], row) /\ Shaped(inv[i], row) /\ row.status = "expired"
        BY <1>2, <3>1, OthersShaped DEF RowSafe
      <3> HIDE DEF row
      <3>3. inv'[i] = row => SafeStep(i)
        BY <3>1, <3>2 DEF SafeStep, ShapedStep, Awaiting
      <3>4. QED
        BY <1>5, <3>1, <3>3
    <2>6. ASSUME NEW i \in Invoices, LapseDraft(i) PROVE Safe
      <3>1. Steady(inv[i], [inv[i] EXCEPT !.status = "expired"])
        BY <1>2, <2>6, OthersShaped DEF LapseDraft
      <3>2. QED
        BY <1>3, <1>6, <2>6, <3>1 DEF LapseDraft, RowOnly
    <2>7. Safe
      BY <1>11, <2>2, <2>3, <2>4, <2>5, <2>6 DEF Others
    <2>8. QED
      BY <1>7, <1>8, <1>9, <2>1, <2>7
  <1>12. CASE Tick
    <2>1. \A i \in Invoices : Steady(inv[i], inv'[i])
      <3>1. 0 \in Nat
        OBVIOUS
      <3>2. QED
        BY <1>2, <1>12, <3>1, StatementsSteady DEF Tick
    <2>2. KeepsMarks
      BY <1>2, <1>12 DEF Tick, KeepsMarks, Aged, TypeOK, SwapRow
    <2>3. Safe
      BY <1>2, <2>1, <2>2, SteadySafe DEF Safe
    <2>4. QED
      BY <1>7, <1>8, <1>9, <1>12, <2>3 DEF Tick
  <1>13. CASE Chain \/ (\E t \in Txids : Evict(t))
    <2>1. UNCHANGED <<inv, confirming, checked, view, total, pc, swap, pausing, voided>>
      BY <1>13 DEF Chain, Send, Mine, Reorg, Evict, OffChain
    <2>2. QED
      BY <1>3, <1>4, <1>7, <1>8, <1>9, <2>1
  <1>14. ASSUME NEW w \in Workers, RecordStep(w) PROVE Kept
    <2>1. QuietRecheck
      BY <1>2, <1>14
      DEF RecordStep, Take, Accept, Insert, Sum, Update, Decide, Goto, QuietRecheck,
          TypeOK, PointersOK, InRecord, Workers, RecheckSafe
    <2>2. FreshViews /\ KeepsMarks
      BY <1>3, <1>7, <1>14
      DEF RecordStep, Take, Accept, Insert, Sum, Update, Decide
    <2>3. Safe
      <3>1. CASE (\E t \in Txids : Take(w, t)) \/ Accept(w) \/ Insert(w) \/ Sum(w)
        BY <1>4, <2>2, <3>1 DEF Take, Accept, Insert, Sum
      <3>2. CASE Update(w) \/ Decide(w)
        <4> DEFINE i == PaysTo[cur[w]]
        <4>1. /\ i \in Invoices /\ inv[i] \in Row /\ total[w] \in Nat
              /\ view[w][i] \in ViewRow
          BY <3>2, <1>2, PayAssumption
          DEF Update, Decide, PointersOK, InRecord, TypeOK
        <4>2. CASE Update(w)
          BY <1>6, <2>2, <4>1, <4>2, StatementsSteady DEF Update
        <4>3. CASE Decide(w)
          BY <1>6, <2>2, <4>1, <4>3, DecidedSteady DEF Decide
        <4>4. QED
          BY <3>2, <4>2, <4>3
      <3>3. QED
        BY <1>14, <3>1, <3>2 DEF RecordStep
    <2>4. QED
      BY <1>9, <2>1, <2>2, <2>3
  <1>15. CASE Poll \/ (\E S \in SUBSET Txids : Fetch(S))
              \/ (\E t \in Txids : Push(t)) \/ MempoolDone
              \/ (\E t \in Txids : TakeDelivery(t)) \/ DeliveryDone
    <2>1. UNCHANGED <<inv, confirming, checked, swap, pausing, voided>>
      BY <1>15 DEF Poll, Fetch, Push, MempoolDone, TakeDelivery, DeliveryDone
    <2>2. \A w \in Workers :
            \/ view'[w] = view[w]
            \/ w # "block" /\ view'[w] \in {Snapshot, NoView}
            \/ /\ w = "delivery"
               /\ \E j \in Invoices : /\ inv[j].status \in Awaiting
                                      /\ view'[w] = [NoView EXCEPT ![j] = Seen(inv[j])]
      <3>1. CASE ~(\E t \in Txids : TakeDelivery(t))
        BY <1>2, <1>15, <3>1
        DEF Poll, Fetch, Push, MempoolDone, DeliveryDone, Rest, Forget, TypeOK, Workers
      <3>2. ASSUME NEW t \in Txids, TakeDelivery(t)
            PROVE  /\ \A w \in Workers \ {"delivery"} : view'[w] = view[w]
                   /\ inv[PaysTo[t]].status \in Awaiting
                   /\ view'["delivery"] = [NoView EXCEPT ![PaysTo[t]] = Seen(inv[PaysTo[t]])]
        BY <1>2, <3>2 DEF TakeDelivery, TypeOK, Workers
      <3>3. \A t \in Txids : PaysTo[t] \in Invoices
        BY PayAssumption
      <3>4. ASSUME NEW t \in Txids, TakeDelivery(t), NEW w \in Workers
            PROVE  \/ view'[w] = view[w]
                   \/ /\ w = "delivery"
                      /\ \E j \in Invoices :
                           /\ inv[j].status \in Awaiting
                           /\ view'[w] = [NoView EXCEPT ![j] = Seen(inv[j])]
        <4> DEFINE j == PaysTo[t]
        <4>1. j \in Invoices /\ inv[j].status \in Awaiting
          BY <3>2, <3>3, <3>4
        <4>2. \/ view'[w] = view[w]
              \/ w = "delivery" /\ view'[w] = [NoView EXCEPT ![j] = Seen(inv[j])]
          BY <3>2, <3>4
        <4> HIDE DEF j
        <4>3. QED
          BY <4>1, <4>2
      <3>5. QED
        BY <3>1, <3>4
    <2>3. FreshViews
      <3>1. ASSUME NEW j \in Invoices, inv[j].status \in Awaiting, NEW i \in Invoices
            PROVE  [NoView EXCEPT ![j] = Seen(inv[j])][i].status # "detected"
        <4>1. NoView[i].status # "detected" /\ Seen(inv[j]).status # "detected"
          BY <3>1 DEF NoView, Seen, Hidden, Awaiting
        <4>2. [NoView EXCEPT ![j] = Seen(inv[j])][i] \in {NoView[i], Seen(inv[j])}
          BY DEF NoView
        <4>3. QED
          BY <4>1, <4>2
      <3>2. \A i \in Invoices : NoView[i].status # "detected"
        BY DEF NoView, Hidden
      <3>3. \A i \in Invoices : Snapshot[i] = Remember(inv[i])
        BY DEF Snapshot
      <3>4. ASSUME NEW w \in Workers, NEW i \in Invoices
            PROVE  \/ view'[w][i] = view[w][i]
                   \/ view'[w][i].status # "detected"
                   \/ view'[w][i] = Remember(inv[i])
        <4>1. CASE view'[w] = view[w] \/ view'[w] \in {Snapshot, NoView}
          BY <3>2, <3>3, <4>1
        <4>2. ASSUME NEW j \in Invoices, inv[j].status \in Awaiting,
                     view'[w] = [NoView EXCEPT ![j] = Seen(inv[j])]
              PROVE  view'[w][i].status # "detected"
          BY <3>1, <4>2
        <4>3. QED
          BY <2>2, <4>1, <4>2
      <3>5. QED
        BY <2>1, <3>4 DEF FreshViews
    <2>4. /\ pc'["block"] = pc["block"] /\ total'["block"] = total["block"]
          /\ view'["block"] = view["block"]
      BY <1>2, <1>15
      DEF Poll, Fetch, Push, MempoolDone, TakeDelivery, DeliveryDone, Rest, Forget,
          Goto, TypeOK, Workers
    <2>5. QuietRecheck
      BY <2>1, <2>4 DEF QuietRecheck
    <2>6. QED
      BY <1>3, <1>4, <1>9, <2>1, <2>3, <2>5
  <1>16. CASE ExpireOld \/ SkipScan
    <2>1. Safe
      <3>1. KeepsMarks
        BY <1>3, <1>16 DEF ExpireOld, SkipScan
      <3>2. \A i \in Invoices : Steady(inv[i], inv'[i])
        <4>1. 0 \in Nat
          OBVIOUS
        <4>2. QED
          BY <1>2, <1>16, <4>1, StatementsSteady DEF ExpireOld, SkipScan
      <3>3. QED
        BY <1>2, <3>1, <3>2, SteadySafe DEF Safe
    <2>2. QuietRecheck
      BY <1>2, <1>16
      DEF ExpireOld, SkipScan, Goto, QuietRecheck, RecheckSafe, TypeOK, Workers
    <2>3. QED
      BY <1>7, <1>9, <1>16, <2>1, <2>2 DEF ExpireOld, SkipScan
  <1>17. CASE TakeView
    <2>1. /\ view'["block"] = Snapshot
          /\ \A w \in Workers \ {"block"} : view'[w] = view[w]
          /\ UNCHANGED <<inv, swap, pausing, voided>>
      BY <1>2, <1>17 DEF TakeView, TypeOK, Workers
    <2>2. FreshViews
      BY <2>1 DEF FreshViews, Snapshot, Workers
    <2>3. Safe
      BY <1>3, <1>4, <2>1
    <2>4. ConfirmedIsFunded'
      BY <2>3 DEF Safe, IInv, SafeStep, Paid, Funded, ConfirmedIsFunded
    <2>5. ASSUME NEW i \in Invoices
          PROVE  RowSafe(i)' /\ \A w \in Workers : ViewSafe(w, i)'
      BY <2>2, <2>3, ShapedRow, ShapedView DEF Safe, SafeStep
    <2>6. RecheckSafe'
      BY <1>2, <1>17, <2>1 DEF TakeView, RecheckSafe, Goto, TypeOK, Workers
    <2>7. SettledStep
      BY <2>3 DEF Safe, SettledStep, SafeStep
    <2>8. QED
      BY <1>1, <2>4, <2>5, <2>6, <2>7 DEF IInv, TypeInv
  <1>18. CASE (\E i \in Invoices : Recheck(i)) \/ (\E t \in Txids : Check(t))
              \/ CheckFails \/ Fulfil
    <2>1. /\ UNCHANGED <<inv, view, swap, pausing, voided>>
          /\ confirming' \subseteq confirming
      BY <1>18 DEF Recheck, Check, CheckFails, Fulfil, NextInvoice
    <2>2. pc'["block"] \in {"confirm", "check"}
      BY <1>2, <1>18
      DEF Recheck, Check, CheckFails, Fulfil, NextInvoice, Goto, TypeOK, Workers
    <2>3. QuietRecheck
      BY <2>1, <2>2 DEF QuietRecheck
    <2>4. QED
      BY <1>3, <1>4, <1>7, <1>9, <2>1, <2>3
  <1>19. CASE StoreTotal
    <2> DEFINE row == ConfirmedTotalStored(inv[checked], total["block"])
    <2>1. /\ checked \in Invoices /\ checked \in confirming
          /\ total["block"] \in Nat /\ inv[checked] \in Row
      BY <1>2, <1>19 DEF StoreTotal, StoredAnd, PointersOK, TypeOK, Workers
    <2>2. /\ row.status = inv[checked].status
          /\ row.price = inv[checked].price /\ row.exact = inv[checked].exact
          /\ row.touched = inv[checked].touched
          /\ row.status = "detected" => row.received = total["block"]
          /\ row.status # "detected" => row = inv[checked]
      BY <2>1 DEF ConfirmedTotalStored, Row
    <2>3. /\ inv' = [inv EXCEPT ![checked] = row] /\ view' = view
          /\ confirming' \subseteq confirming
          /\ UNCHANGED <<swap, pausing, voided>>
      BY <1>19 DEF StoreTotal, StoredAnd, SetRow, NextInvoice
    <2>4. inv'[checked] = row /\ \A i \in Invoices \ {checked} : inv'[i] = inv[i]
      BY <1>2, <2>1, <2>3 DEF TypeOK
    <2> HIDE DEF row
    <2>5. ConfirmedIsFunded'
      BY <2>2, <2>4 DEF IInv, ConfirmedIsFunded, Settled
    <2>6. \A i \in Invoices : ShapedStep(i)
      BY <2>2, <2>3, <2>4 DEF ShapedStep, Shaped
    <2>7. ASSUME NEW i \in Invoices
          PROVE  RowSafe(i)' /\ \A w \in Workers : ViewSafe(w, i)'
      BY <1>7, <2>3, <2>6, ShapedRow, ShapedView
    <2>8. RecheckSafe'
      <3>1. \A i \in confirming' : view'["block"][i].status = "detected"
        BY <1>2, <2>3 DEF RecheckSafe
      <3>2. pc'["block"] \in {"mark", "confirm"}
        BY <1>2, <1>19 DEF StoreTotal, StoredAnd, NextInvoice, Goto, TypeOK, Workers
      <3>3. CASE pc'["block"] = "mark"
        <4>1. /\ total["block"] >= Minimum(view["block"][checked])
              /\ total' = total /\ checked' = checked
          BY <1>2, <1>19, <3>3
          DEF StoreTotal, StoredAnd, NextInvoice, Goto, TypeOK, Workers
        <4>2. QED
          BY <2>2, <2>3, <2>4, <3>1, <3>3, <4>1 DEF RecheckSafe
      <3>4. QED
        BY <3>1, <3>2, <3>3 DEF RecheckSafe
    <2>9. SettledStep
      BY <2>2, <2>3, <2>4 DEF SettledStep
    <2>10. QED
      BY <1>1, <2>5, <2>7, <2>8, <2>9 DEF IInv, TypeInv
  <1>20. CASE Mark
    <2> DEFINE row == MarkedConfirmed(inv[checked])
    <2>1. /\ checked \in Invoices /\ checked \in confirming
          /\ inv[checked] \in Row /\ pc["block"] = "mark" /\ total["block"] \in Nat
      BY <1>2, <1>20 DEF Mark, PointersOK, TypeOK, Workers
    <2>2. /\ view["block"][checked].status = "detected"
          /\ ViewSafe("block", checked)
      BY <1>2, <2>1 DEF RecheckSafe, IInv, Workers
    <2>3. Minimum(view["block"][checked]) = Minimum(inv[checked])
      BY <2>2 DEF ViewSafe, Minimum
    <2>4. row # inv[checked] =>
            /\ inv[checked].status = "detected" /\ row.status = "confirmed"
            /\ inv[checked].received >= Minimum(inv[checked])
      <3>1. row # inv[checked] =>
              /\ inv[checked].status = "detected" /\ row.status = "confirmed"
              /\ inv[checked].exact => inv[checked].received >= inv[checked].price
        BY <2>1 DEF MarkedConfirmed, Row
      <3>2. inv[checked].status = "detected" /\ ~inv[checked].exact =>
              inv[checked].received >= Minimum(inv[checked])
        BY <1>2, <2>1, <2>3 DEF RecheckSafe
      <3>3. inv[checked].exact => Minimum(inv[checked]) = inv[checked].price
        BY DEF Minimum
      <3>4. QED
        BY <3>1, <3>2, <3>3
    <2>5. /\ row.price = inv[checked].price /\ row.exact = inv[checked].exact
          /\ row.received = inv[checked].received
          /\ row.touched = inv[checked].touched
      BY <2>1 DEF MarkedConfirmed, Row
    <2>6. Minimum(row) = Minimum(inv[checked])
      BY <2>5 DEF Minimum
    <2>7. /\ inv' = [inv EXCEPT ![checked] = row] /\ view' = view
          /\ confirming' \subseteq confirming
          /\ pc'["block"] \in {"confirm", "fulfil"}
          /\ UNCHANGED <<swap, pausing, voided>>
      BY <1>2, <1>20 DEF Mark, SetRow, NextInvoice, Goto, TypeOK, Workers
    <2>8. inv'[checked] = row /\ \A i \in Invoices \ {checked} : inv'[i] = inv[i]
      BY <1>2, <2>1, <2>7 DEF TypeOK
    <2>9. pc'["block"] = "fulfil" => row # inv[checked] /\ checked' = checked
      BY <1>2, <1>20 DEF Mark, NextInvoice, Goto, TypeOK, Workers
    <2> HIDE DEF row
    <2>10. ConfirmedIsFunded'
      BY <2>4, <2>5, <2>6, <2>8 DEF IInv, ConfirmedIsFunded
    <2>11. \A i \in Invoices : ShapedStep(i)
      BY <2>4, <2>5, <2>7, <2>8 DEF ShapedStep, Shaped, Awaiting
    <2>12. ASSUME NEW i \in Invoices
           PROVE  RowSafe(i)' /\ \A w \in Workers : ViewSafe(w, i)'
      BY <1>7, <2>7, <2>11, ShapedRow, ShapedView
    <2>13. RecheckSafe'
      BY <1>2, <2>4, <2>7, <2>8, <2>9 DEF RecheckSafe, Settled
    <2>14. SettledStep
      BY <2>4, <2>7, <2>8 DEF SettledStep, Settled
    <2>15. QED
      BY <1>1, <2>10, <2>12, <2>13, <2>14 DEF IInv, TypeInv
  <1>21. CASE JumpToTip \/ BlockDone \/ (\E w \in Workers : Fail(w)) \/ Crash
    <2>1. /\ UNCHANGED <<inv, swap, voided>> /\ pausing' \subseteq pausing
      BY <1>21 DEF JumpToTip, BlockDone, Fail, Crash
    <2>2. \A w \in Workers : view'[w] = view[w] \/ view'[w] = NoView
      BY <1>2, <1>21
      DEF JumpToTip, BlockDone, Fail, Crash, Rest, Forget, TypeOK, Workers
    <2>3. FreshViews
      BY <2>2 DEF FreshViews, NoView, Hidden
    <2>4. QuietRecheck
      <3>1. CASE JumpToTip \/ BlockDone \/ Crash
        BY <1>2, <3>1
        DEF JumpToTip, BlockDone, Crash, Rest, Forget, QuietRecheck, RecheckSafe,
            TypeOK, Workers
      <3>2. ASSUME NEW w \in Workers, Fail(w) PROVE QuietRecheck
        BY <1>2, <3>2
        DEF Fail, Forget, QuietRecheck, RecheckSafe, PointersOK, TypeOK, Workers
      <3>3. QED
        BY <1>21, <3>1, <3>2
    <2>5. QED
      BY <1>4, <1>9, <2>1, <2>3, <2>4 DEF KeepsMarks
  <1>22. ASSUME NEW h \in 1 .. MaxHeight + 1, FetchBlocks(h) PROVE Kept
    <2>1. QuietRecheck
      BY <1>2, <1>22 DEF FetchBlocks, Goto, QuietRecheck, TypeOK, Workers
    <2>2. QED
      BY <1>3, <1>4, <1>7, <1>9, <1>22, <2>1 DEF FetchBlocks
  <1>23. CASE UNCHANGED vars
    BY <1>3, <1>4, <1>7, <1>8, <1>9, <1>23 DEF vars
  <1>24. CASE MempoolStep
    BY <1>24, <1>14, <1>15 DEF MempoolStep, Workers
  <1>25. CASE BlockStep
    BY <1>25, <1>14, <1>15, <1>16, <1>17, <1>18, <1>19, <1>20, <1>21, <1>22
    DEF BlockStep, DeliveryStep, RecheckStep, Workers
  <1>26. CASE Fault
    BY <1>26, <1>16, <1>18, <1>21 DEF Fault
  <1>27. QED
    BY <1>10, <1>11, <1>12, <1>13, <1>23, <1>24, <1>25, <1>26 DEF Next

LEMMA NextIInv == IInv /\ [Next]_vars => IInv'
  BY NextKeeps

\* A confirmed or refunded invoice holds the minimum it asks for, in every
\* reachable state.
THEOREM ConfirmedFunded == Spec => []ConfirmedIsFunded
  <1>1. IInv => ConfirmedIsFunded
    BY DEF IInv
  <1>2. QED
    BY <1>1, InitIInv, NextIInv, PTL DEF Spec

-----------------------------------------------------------------------------
(* The scanner keeps the promise.                                          *)

\* No invoice exists at first.
LEMMA InitPromise == Init => Promise!Init
  BY DEF Init, Promise!Init, NoRow

\* What InvoicePromise lets one invoice do, stated of its row.
PromisedStep(i, old, new) ==
  \/ /\ old.status = "none" /\ new.status \in {"draft", "pending"}
     /\ new.received = 0
  \/ /\ old.status \in {"draft", "expired"} /\ new.status = "pending"
     /\ old.received = 0 /\ ~old.exact
     /\ new.received = old.received /\ new.exact = old.exact
  \/ /\ old.status \in {"pending", "underpaid", "detected"}
     /\ \/ new.status = old.status
        \/ old.status = "pending" /\ new.status = "underpaid"
        \/ old.status \in {"pending", "underpaid"} /\ new.status = "detected"
     /\ new.price = old.price /\ new.exact = old.exact
  \/ /\ old.status = "detected" /\ new.status = "confirmed"
     /\ old.received >= Minimum(old)
     /\ new.price = old.price /\ new.exact = old.exact
     /\ new.received = old.received
  \/ /\ old.status = "confirmed" /\ new.status = "refunded"
     /\ new.price = old.price /\ new.exact = old.exact
     /\ new.received = old.received
  \/ /\ old.status \in {"pending", "underpaid"} /\ new.status = "expired"
     /\ new.price = old.price /\ new.exact = old.exact
     /\ new.received = old.received
  \/ /\ i \in Swappable
     /\ old.status = "pending" /\ old.received = 0
     /\ new.exact /\ new.status = "pending" /\ new.price = old.price
     /\ new.received = old.received
  \/ /\ i \in Swappable /\ old.exact
     /\ old.status = "expired" /\ new.status = "pending"
     /\ new.price = old.price /\ new.exact = old.exact
     /\ new.received = old.received
  \/ /\ i \in Renewals
     /\ old.status # "none" /\ new.status = "expired"
     /\ new.price = old.price /\ new.exact = old.exact
     /\ new.received = old.received
  \/ /\ new.status = old.status
     /\ new.price = old.price /\ new.exact = old.exact
     /\ new.received = old.received

\* Every statement but mark_confirmed is such a step, whatever its inputs.
LEMMA StatementsPromised ==
  ASSUME NEW i \in Invoices, NEW row \in Row, NEW n \in Nat
  PROVE  /\ row.status = "none" =>
              /\ \A x \in BOOLEAN : PromisedStep(i, row, Created(n, x))
              /\ PromisedStep(i, row, Drafted)
         /\ PromisedStep(i, row, Finalized(row, n))
         /\ PromisedStep(i, row, ReceivedUpdated(row, n))
         /\ PromisedStep(i, row, MarkedUnderpaid(row, n))
         /\ PromisedStep(i, row, MarkedDetected(row, n))
         /\ PromisedStep(i, row, ConfirmedTotalStored(row, n))
         /\ PromisedStep(i, row, MarkedRefunded(row))
         /\ PromisedStep(i, row, MarkedExpired(row))
         /\ PromisedStep(i, row, ExpiredIfOld(row))
         /\ PromisedStep(i, row, Aged(row))
         /\ PromisedStep(i, row, row)
  <1> USE InstantTypes DEF Row, Awaiting, PromisedStep
  <1>1. /\ \A x \in BOOLEAN : Created(n, x).status = "pending"
                                /\ Created(n, x).received = 0
        /\ Drafted.status = "draft" /\ Drafted.received = 0
    BY DEF Created, Drafted, NoRow
  <1>2. PromisedStep(i, row, Finalized(row, n))
    BY DEF Finalized, CanFinalize
  <1>3. /\ PromisedStep(i, row, ReceivedUpdated(row, n))
        /\ PromisedStep(i, row, MarkedUnderpaid(row, n))
    BY DEF ReceivedUpdated, MarkedUnderpaid
  <1>4. /\ PromisedStep(i, row, MarkedDetected(row, n))
        /\ PromisedStep(i, row, ConfirmedTotalStored(row, n))
    BY DEF MarkedDetected, ConfirmedTotalStored
  <1>5. PromisedStep(i, row, MarkedRefunded(row)) /\ PromisedStep(i, row, MarkedExpired(row))
    BY DEF MarkedRefunded, MarkedExpired
  <1>6. PromisedStep(i, row, ExpiredIfOld(row))
    BY DEF ExpiredIfOld
  <1>7. PromisedStep(i, row, Aged(row))
    BY DEF Aged
  <1>8. QED
    BY <1>1, <1>2, <1>3, <1>4, <1>5, <1>6, <1>7

\* Promised steps of all the rows are a step of InvoicePromise.
LEMMA RowsPromised ==
  ASSUME TypeOK, TypeOK', \A i \in Invoices : PromisedStep(i, inv[i], inv'[i])
  PROVE  Promise!Next
  BY DEF PromisedStep, Promise!Next, Promise!Open, Promise!Quote,
         Promise!Account, Promise!Confirm, Promise!Refund, Promise!Expire,
         Promise!Fix, Promise!Reopen, Promise!Void, Promise!Rest, Promise!SameQuote, Promise!SameMoney, Covers, Minimum,
         TypeOK, Row

\* What the other components write is such a step.
LEMMA OthersPromised ==
  ASSUME NEW i \in Invoices, NEW row \in Row
  PROVE  /\ row.status = "pending" /\ row.received = 0 /\ i \in Swappable =>
              PromisedStep(i, row, [row EXCEPT !.exact = TRUE])
         /\ row.exact /\ i \in Swappable => PromisedStep(i, row, Reopened(row))
         /\ row.status # "none" /\ i \in Renewals =>
              /\ PromisedStep(i, row, [row EXCEPT !.status = "expired", !.left = Past])
              /\ PromisedStep(i, row, [row EXCEPT !.status = "expired"])
  <1>1. row.exact /\ i \in Swappable => PromisedStep(i, row, Reopened(row))
    BY DEF Reopened, Row, Awaiting, PromisedStep
  <1>2. QED
    BY <1>1 DEF Row, Awaiting, PromisedStep

\* Every step of the system is a step of InvoicePromise.  Only mark_confirmed
\* and what other components write need the invariant: what is confirmed was
\* checked against the quote.
LEMMA NextPromise == IInv /\ [Next]_vars => Promise!Next
  <1> SUFFICES ASSUME IInv, [Next]_vars PROVE Promise!Next
    OBVIOUS
  <1>1. TypeOK /\ TypeOK' /\ PointersOK /\ RecheckSafe
    BY NextIInv DEF IInv
  <1> DEFINE Promised == \A i \in Invoices : PromisedStep(i, inv[i], inv'[i])
  <1> SUFFICES Promised
    BY <1>1, RowsPromised
  <1>2. \A i \in Invoices : inv[i] \in Row /\ 0 \in Nat
    BY <1>1 DEF TypeOK
  <1>3. inv' = inv => Promised
    BY <1>2, StatementsPromised
  <1>4. ASSUME NEW i \in Invoices, NEW row,
               inv' = [inv EXCEPT ![i] = row], PromisedStep(i, inv[i], row)
        PROVE  Promised
    BY <1>1, <1>2, <1>4, StatementsPromised DEF TypeOK
  <1> HIDE DEF Promised
  <1>5. CASE Handlers
    <2>1. ASSUME NEW i \in Invoices, NEW p \in Prices, NEW x \in Exactness,
                 Create(i, p, x)
          PROVE  Promised
      <3>1. PromisedStep(i, inv[i], Created(p, x))
        BY <2>1, <1>2, StatementsPromised, PayAssumption DEF Create
      <3>2. QED
        BY <2>1, <3>1, <1>4 DEF Create, SetRow
    <2>2. ASSUME NEW i \in Invoices, CreateDraft(i) \/ Cancel(i) \/ Refund(i)
          PROVE  Promised
      BY <2>2, <1>2, <1>4, StatementsPromised
      DEF CreateDraft, Cancel, Refund, RowOnly, SetRow
    <2>3. ASSUME NEW i \in Invoices, NEW p \in Prices, Finalize(i, p)
          PROVE  Promised
      BY <2>3, <1>2, <1>4, StatementsPromised, PayAssumption DEF Finalize, SetRow
    <2>4. QED
      BY <1>5, <2>1, <2>2, <2>3 DEF Handlers
  <1> USE DEF swapVars, dbVars
  <1>5a. CASE Others
    <2>1. \A i \in Invoices : RowSafe(i)
      BY DEF IInv
    <2>2. ASSUME NEW i \in Invoices, ReserveSwap(i) PROVE Promised
      <3>1. PromisedStep(i, inv[i], [inv[i] EXCEPT !.exact = TRUE])
        BY <1>2, <2>2, OthersPromised DEF ReserveSwap
      <3>2. QED
        BY <1>4, <2>2, <3>1 DEF ReserveSwap, SetRow
    <2>3. ASSUME NEW i \in Invoices, NEW S \in SUBSET Txids, QueueDeliveries(i, S)
          PROVE  Promised
      <3>1. PromisedStep(i, inv[i], Reopened(inv[i]))
        BY <1>2, <2>1, <2>3, OthersPromised DEF QueueDeliveries, RowSafe
      <3>2. QED
        BY <1>4, <2>3, <3>1 DEF QueueDeliveries, SetRow
    <2>4. ASSUME NEW i \in Invoices, VoidPause(i) PROVE Promised
      <3>1. PromisedStep(i, inv[i], [inv[i] EXCEPT !.status = "expired", !.left = Past])
        BY <1>2, <2>1, <2>4, OthersPromised DEF VoidPause, RowSafe
      <3>2. QED
        BY <1>4, <2>4, <3>1 DEF VoidPause, SetRow
    <2>5. ASSUME NEW i \in Invoices, LapseDraft(i) PROVE Promised
      <3>1. PromisedStep(i, inv[i], [inv[i] EXCEPT !.status = "expired"])
        BY <1>2, <2>1, <2>5, OthersPromised DEF LapseDraft, RowSafe
      <3>2. QED
        BY <1>4, <2>5, <3>1 DEF LapseDraft, RowOnly, SetRow
    <2>6. ASSUME NEW i \in Invoices, LookPause(i) PROVE Promised
      BY <1>3, <2>6 DEF LookPause
    <2>7. QED
      BY <1>5a, <2>2, <2>3, <2>4, <2>5, <2>6 DEF Others
  <1>6. CASE Tick \/ ExpireOld
    <2>1. CASE Tick
      BY <1>2, <2>1, StatementsPromised DEF Tick, Promised
    <2>2. CASE ExpireOld
      BY <1>2, <2>2, StatementsPromised DEF ExpireOld, Promised
    <2>3. QED
      BY <1>6, <2>1, <2>2
  <1>7. CASE Chain \/ (\E t \in Txids : Evict(t))
    BY <1>3, <1>7 DEF Chain, Send, Mine, Reorg, Evict, OffChain, dbVars
  <1>8. ASSUME NEW w \in Workers, RecordStep(w) PROVE Promised
    <2>1. CASE (\E t \in Txids : Take(w, t)) \/ Accept(w) \/ Insert(w) \/ Sum(w)
      BY <1>3, <2>1 DEF Take, Accept, Insert, Sum
    <2>2. CASE Update(w) \/ Decide(w)
      <3> DEFINE i == PaysTo[cur[w]]
      <3>1. i \in Invoices /\ total[w] \in Nat
        BY <1>1, <2>2, PayAssumption DEF Update, Decide, PointersOK, TypeOK, InRecord
      <3>2. PromisedStep(i, inv[i], ReceivedUpdated(inv[i], total[w]))
        BY <1>2, <3>1, StatementsPromised
      <3>3. PromisedStep(i, inv[i], Decided(w, inv[i], view[w][i], total[w]))
        BY <1>2, <3>1, StatementsPromised DEF Decided
      <3>4. QED
        BY <1>4, <2>2, <3>1, <3>2, <3>3 DEF Update, Decide, SetRow
    <2>3. QED
      BY <1>8, <2>1, <2>2 DEF RecordStep
  <1>9. CASE Poll \/ (\E S \in SUBSET Txids : Fetch(S))
             \/ (\E t \in Txids : Push(t)) \/ MempoolDone
             \/ (\E t \in Txids : TakeDelivery(t)) \/ DeliveryDone
    BY <1>3, <1>9 DEF Poll, Fetch, Push, MempoolDone, TakeDelivery, DeliveryDone
  <1>10. CASE TakeView \/ (\E i \in Invoices : Recheck(i))
              \/ (\E t \in Txids : Check(t)) \/ Fulfil
              \/ (\E h \in 1 .. MaxHeight + 1 : FetchBlocks(h))
              \/ JumpToTip \/ BlockDone
    BY <1>3, <1>10 DEF TakeView, Recheck, Check, Fulfil, FetchBlocks, JumpToTip,
                       BlockDone, dbVars
  <1>11. CASE StoreTotal \/ Mark
    <2>1. checked \in Invoices /\ checked \in confirming
      BY <1>1, <1>11 DEF StoreTotal, StoredAnd, Mark, PointersOK, TypeOK
    <2>2. total["block"] \in Nat
      BY <1>1 DEF TypeOK, Workers
    <2>3. PromisedStep(checked, inv[checked],
                       ConfirmedTotalStored(inv[checked], total["block"]))
      BY <1>2, <2>1, <2>2, StatementsPromised
    <2>4. CASE Mark
      <3>1. /\ view["block"][checked].status = "detected"
            /\ ViewSafe("block", checked)
            /\ total["block"] >= Minimum(view["block"][checked])
            /\ inv[checked].status = "detected" /\ ~inv[checked].exact =>
                 inv[checked].received = total["block"]
        BY <1>1, <2>1, <2>4 DEF RecheckSafe, IInv, Workers, Mark
      <3>2. inv[checked].status = "detected" /\ ~inv[checked].exact =>
              inv[checked].received >= Minimum(inv[checked])
        BY <3>1 DEF ViewSafe, Minimum
      <3>3. inv[checked].exact => Minimum(inv[checked]) = inv[checked].price
        BY DEF Minimum
      <3>5. PromisedStep(checked, inv[checked], MarkedConfirmed(inv[checked]))
        BY <1>2, <2>1, <3>2, <3>3 DEF MarkedConfirmed, Row, PromisedStep
      <3>4. QED
        BY <1>4, <2>1, <2>4, <3>5 DEF Mark, SetRow
    <2>5. QED
      BY <1>4, <1>11, <2>1, <2>3, <2>4 DEF StoreTotal, StoredAnd, SetRow
  <1>12. CASE Fault
    BY <1>3, <1>12 DEF Fault, SkipScan, CheckFails, Fail, Crash, dbVars
  <1>13. CASE UNCHANGED vars
    BY <1>3, <1>13 DEF vars, dbVars
  <1>14. CASE MempoolStep
    BY <1>14, <1>8, <1>9 DEF MempoolStep, Workers
  <1>15. CASE BlockStep
    BY <1>15, <1>6, <1>8, <1>9, <1>10, <1>11
    DEF BlockStep, DeliveryStep, RecheckStep, Workers
  <1>16. QED
    BY <1>5a, <1>5, <1>6, <1>7, <1>12, <1>13, <1>14, <1>15 DEF Next

\* The scanner, the clock, the handlers and the faults implement
\* InvoicePromise: an invoice is confirmed only from "detected" and with
\* enough money, never expires once detected, and keeps its quote.
THEOREM PromiseKept == Spec => KeepsPromise
  <1>1. IInv /\ [Next]_vars => [Promise!Next]_Promise!vars
    BY NextPromise
  <1>2. QED
    BY <1>1, InitIInv, NextIInv, InitPromise, PTL
    DEF Spec, Promise!Spec, KeepsPromise

\* Side effects run for confirmed invoices only.
THEOREM FulfilledConfirmed == Spec => []OnlyConfirmedFulfilled
  <1>1. Init => OnlyConfirmedFulfilled
    BY DEF Init, OnlyConfirmedFulfilled
  <1>2. IInv /\ OnlyConfirmedFulfilled /\ [Next]_vars => OnlyConfirmedFulfilled'
    <2> SUFFICES ASSUME IInv, OnlyConfirmedFulfilled, [Next]_vars,
                        NEW i \in fulfilled'
                 PROVE  inv'[i].status \in Settled \/ i \in voided'
      BY DEF OnlyConfirmedFulfilled
    <2>1. CASE i \in fulfilled
      BY <2>1, NextKeeps DEF SettledStep, OnlyConfirmedFulfilled, IInv, TypeOK
    <2>2. CASE i \notin fulfilled
      <3>1. Fulfil
        BY <2>2 DEF Next, Handlers, Create, CreateDraft, Finalize, Cancel, Refund,
                    RowOnly, Tick, Chain, Send, Mine, Reorg, OffChain, MempoolStep,
                    Poll, Fetch, Push, MempoolDone, RecordStep, Insert, Sum,
                    Update, Decide, Evict, BlockStep, ExpireOld, TakeView,
                    RecheckStep, Recheck, Check, StoreTotal, StoredAnd, Mark,
                    JumpToTip, FetchBlocks, BlockDone, Fault, SkipScan, CheckFails,
                    Fail, Crash, historyVars, vars, Others, ReserveSwap,
                    QueueDeliveries, LookPause, VoidPause, LapseDraft, Take,
                    Accept, DeliveryStep, TakeDelivery, DeliveryDone, Forget,
                    Cached, swapVars, lossVars
      <3>2. i = checked /\ pc["block"] = "fulfil"
        BY <2>2, <3>1 DEF Fulfil
      <3>3. /\ checked \in Invoices
            /\ inv[checked].status \in Settled \/ checked \in voided
        BY <3>2 DEF IInv, RecheckSafe, PointersOK, TypeOK
      <3>4. QED
        BY <3>2, <3>3, NextKeeps DEF SettledStep
    <2>3. QED
      BY <2>1, <2>2
  <1>3. QED
    BY <1>1, <1>2, InitIInv, NextIInv, PTL DEF Spec

-----------------------------------------------------------------------------
(* Sums of amounts.                                                        *)

\* A sum counts its coins: f[x] of them for each x of S.
Coins(f, S) == UNION {{x} \X (1..f[x]) : x \in S}
CoinSums(f, S) == [T \in SUBSET S |-> Cardinality(Coins(f, T))]

\* Coins of a finite set are finitely many, and those of one element more are
\* as many more.
LEMMA CoinsAdd ==
  ASSUME NEW f, NEW S, IsFiniteSet(S), \A x \in S : f[x] \in Nat,
         NEW T \in SUBSET S, NEW y \in T
  PROVE  /\ IsFiniteSet(Coins(f, T)) /\ Cardinality(Coins(f, T)) \in Nat
         /\ Cardinality(Coins(f, T)) = f[y] + Cardinality(Coins(f, T \ {y}))
<1> DEFINE Of(x) == {x} \X (1..f[x])
<1>1. IsFiniteSet(T) /\ f[y] \in Nat
  BY FS_Subset
<1>2. ASSUME NEW x \in T PROVE IsFiniteSet(Of(x)) /\ Cardinality(Of(x)) = f[x]
  <2>1. f[x] \in Nat
    OBVIOUS
  <2>2. IsFiniteSet(1..f[x]) /\ Cardinality(1..f[x]) = f[x]
    <3>1. \A n \in Int : /\ IsFiniteSet(1..n)
                         /\ Cardinality(1..n) = IF 1 > n THEN 0 ELSE n - 1 + 1
      BY FS_Interval
    <3>2. \A n \in Nat : n = IF 1 > n THEN 0 ELSE n - 1 + 1
      OBVIOUS
    <3> QED  BY <2>1, <3>1, <3>2
  <2>3. IsFiniteSet({x}) /\ Cardinality({x}) = 1
    BY FS_Singleton
  <2>4. IsFiniteSet(Of(x)) /\ Cardinality(Of(x)) = 1 * f[x]
    BY <2>2, <2>3, FS_Product
  <2>5. 1 * f[x] = f[x]
    BY <2>1
  <2> QED  BY <2>4, <2>5
<1>3. ASSUME NEW U \in SUBSET T PROVE IsFiniteSet(Coins(f, U))
  <2>1. IsFiniteSet(U)
    BY <1>1, FS_Subset
  <2> DEFINE W == {Of(x) : x \in U}
             h == [x \in U |-> Of(x)]
  <2>2. h \in Surjection(U, W)
    BY DEF Surjection
  <2>3. IsFiniteSet(W)
    BY <2>1, <2>2, FS_Surjection
  <2>4. \A V \in W : IsFiniteSet(V)
    BY <1>2
  <2> QED  BY <2>3, <2>4, FS_UNION DEF Coins
<1>4. /\ Coins(f, T) = Coins(f, T \ {y}) \cup Of(y)
      /\ Coins(f, T \ {y}) \cap Of(y) = {}
  BY DEF Coins
<1>5. IsFiniteSet(Coins(f, T \ {y})) /\ IsFiniteSet(Of(y)) /\ Cardinality(Of(y)) = f[y]
  BY <1>2, <1>3
<1>6. /\ Cardinality(Coins(f, T)) = Cardinality(Coins(f, T \ {y})) + f[y] - Cardinality({})
      /\ Cardinality(Coins(f, T \ {y})) \in Nat
  <2> HIDE DEF Of
  <2> QED  BY <1>4, <1>5, FS_Union, FS_CardinalityType
<1> QED  BY <1>1, <1>3, <1>6, FS_EmptySet

\* The fold is the one solution of this recursion.
IsFold(g, f, S) ==
  g = [T \in SUBSET S |->
         IF T = {} THEN 0 ELSE f[CHOOSE x \in T : TRUE] + g[T \ {CHOOSE x \in T : TRUE}]]

\* A sum of naturals is the number of its coins.
LEMMA SumIsCoins ==
  ASSUME NEW f, NEW S, IsFiniteSet(S), \A x \in S : f[x] \in Nat
  PROVE  SumFunctionOnSet(f, S) = Cardinality(Coins(f, S))
<1> DEFINE c == CoinSums(f, S)
           pick(T) == CHOOSE x \in T : TRUE
<1>1. SumFunctionOnSet(f, S) = (CHOOSE g : IsFold(g, f, S))[S]
  BY DEF SumFunctionOnSet, FoldFunctionOnSet, MapThenFoldSet, IsFold
<1>2. \A T \in SUBSET S : T # {} => pick(T) \in T
  OBVIOUS
<1>3. Cardinality(Coins(f, {})) = 0
  BY FS_EmptySet DEF Coins
<1>4. ASSUME NEW T \in SUBSET S, T # {} PROVE c[T] = f[pick(T)] + c[T \ {pick(T)}]
  <2> DEFINE y == pick(T)
  <2>1. y \in T
    BY <1>2, <1>4
  <2> HIDE DEF y
  <2>2. Cardinality(Coins(f, T)) = f[y] + Cardinality(Coins(f, T \ {y}))
    BY <2>1, CoinsAdd
  <2>3. c[T] = Cardinality(Coins(f, T)) /\ c[T \ {y}] = Cardinality(Coins(f, T \ {y}))
    BY DEF CoinSums
  <2> QED  BY <2>2, <2>3 DEF y
<1>5. c[{}] = 0
  BY <1>3 DEF CoinSums
<1>6. c = [T \in SUBSET S |-> c[T]]
  BY DEF CoinSums
<1>7. IsFold(c, f, S)
  <2> HIDE DEF c
  <2> QED  BY <1>4, <1>5, <1>6 DEF IsFold
<1>8. ASSUME NEW g, IsFold(g, f, S) PROVE g = c
  <2> DEFINE Bad == {T \in FiniteSubsetsOf(S) : g[T] # c[T]}
  <2>1. SUFFICES ASSUME Bad # {} PROVE FALSE
    <3>1. \A T \in SUBSET S : T \in FiniteSubsetsOf(S)
      BY FS_Subset DEF FiniteSubsetsOf
    <3>2. g = [T \in SUBSET S |-> g[T]]
      BY <1>8 DEF IsFold
    <3>3. \A T \in SUBSET S : g[T] = c[T]
      BY <2>1, <3>1
    <3> HIDE DEF c
    <3> QED  BY <3>2, <3>3, <1>6
  <2>2. PICK B \in Bad : \A A \in Bad : ~ (<<A, B>> \in StrictSubsetOrdering(S))
    BY <2>1, WFMin, FS_StrictSubsetOrderingWellFounded
  <2>3. B \in SUBSET S /\ IsFiniteSet(B)
    BY <2>2 DEF FiniteSubsetsOf
  <2>4. B # {}
    BY <1>5, <1>8, <2>2, <2>3 DEF IsFold
  <2> DEFINE A == B \ {pick(B)}
  <2>5. A \in FiniteSubsetsOf(S) /\ <<A, B>> \in StrictSubsetOrdering(S)
    <3>1. A \subseteq S /\ A \subseteq B /\ A # B
      BY <1>2, <2>3, <2>4
    <3>2. IsFiniteSet(A)
      BY <2>3, FS_RemoveElement
    <3> HIDE DEF A
    <3> QED  BY <2>3, <3>1, <3>2 DEF FiniteSubsetsOf, StrictSubsetOrdering
  <2>6. g[A] = c[A]
    BY <2>2, <2>5
  <2>7. g[B] = f[pick(B)] + g[A]
    BY <1>8, <2>3, <2>4 DEF IsFold
  <2>8. c[B] = f[pick(B)] + c[A]
    BY <1>4, <2>3, <2>4
  <2> HIDE DEF c
  <2> QED  BY <2>2, <2>6, <2>7, <2>8
<1>9. (CHOOSE g : IsFold(g, f, S)) = c
  BY <1>7, <1>8
<1> HIDE DEF c
<1>10. SumFunctionOnSet(f, S) = c[S]
  BY <1>1, <1>9
<1> QED  BY <1>10 DEF c, CoinSums

LEMMA SumEmpty == \A f : SumFunctionOnSet(f, {}) = 0
<1> TAKE f
<1>1. IsFiniteSet({}) /\ Cardinality({}) = 0 /\ Coins(f, {}) = {}
  BY FS_EmptySet DEF Coins
<1>2. SumFunctionOnSet(f, {}) = Cardinality(Coins(f, {}))
  BY <1>1, SumIsCoins
<1> QED  BY <1>1, <1>2

\* A sum of naturals is a natural.
LEMMA SumIsNat ==
  ASSUME NEW f, NEW S, IsFiniteSet(S), \A x \in S : f[x] \in Nat
  PROVE  SumFunctionOnSet(f, S) \in Nat
<1>1. CASE S = {}
  BY <1>1, SumEmpty
<1>2. CASE S # {}
  <2>1. PICK y \in S : TRUE
    BY <1>2
  <2>2. S \in SUBSET S
    OBVIOUS
  <2>3. Cardinality(Coins(f, S)) \in Nat
    BY <2>1, <2>2, CoinsAdd
  <2> QED  BY <2>3, SumIsCoins
<1> QED  BY <1>1, <1>2

\* One element more.
LEMMA SumAdd ==
  ASSUME NEW f, NEW S, IsFiniteSet(S), NEW y, y \notin S,
         \A x \in S \cup {y} : f[x] \in Nat
  PROVE  /\ SumFunctionOnSet(f, S) \in Nat
         /\ SumFunctionOnSet(f, S \cup {y}) = SumFunctionOnSet(f, S) + f[y]
<1> DEFINE T == S \cup {y}
<1>1. IsFiniteSet(T) /\ T \in SUBSET T /\ y \in T /\ T \ {y} = S /\ S \in SUBSET T
  BY FS_AddElement
<1>2. \A x \in T : f[x] \in Nat
  OBVIOUS
<1> HIDE DEF T
<1>3. /\ SumFunctionOnSet(f, T) = Cardinality(Coins(f, T))
      /\ SumFunctionOnSet(f, S) = Cardinality(Coins(f, S))
  BY <1>1, <1>2, SumIsCoins
<1>4. Cardinality(Coins(f, T)) = f[y] + Cardinality(Coins(f, T \ {y}))
  <2>1. IsFiniteSet(T) /\ T \in SUBSET T /\ y \in T
    BY <1>1
  <2> QED  BY <1>2, <2>1, CoinsAdd
<1>5. SumFunctionOnSet(f, S) \in Nat /\ f[y] \in Nat
  BY SumIsNat
<1>6. SumFunctionOnSet(f, T) = f[y] + SumFunctionOnSet(f, S)
  BY <1>1, <1>3, <1>4
<1>7. SumFunctionOnSet(f, T) = SumFunctionOnSet(f, S) + f[y]
  BY <1>5, <1>6
<1> QED  BY <1>5, <1>7 DEF T

\* Fewer elements, no larger a sum.
LEMMA SumSmaller ==
  ASSUME NEW f, NEW S, IsFiniteSet(S), \A x \in S : f[x] \in Nat, NEW T \in SUBSET S
  PROVE  SumFunctionOnSet(f, T) <= SumFunctionOnSet(f, S)
<1>1. IsFiniteSet(T)
  BY FS_Subset
<1>2. /\ SumFunctionOnSet(f, T) = Cardinality(Coins(f, T))
      /\ SumFunctionOnSet(f, S) = Cardinality(Coins(f, S))
  BY <1>1, SumIsCoins
<1>3. IsFiniteSet(Coins(f, S))
  <2>1. CASE S = {}
    BY <2>1, FS_EmptySet DEF Coins
  <2>2. CASE S # {}
    <3>1. PICK y \in S : TRUE
      BY <2>2
    <3>2. S \in SUBSET S
      OBVIOUS
    <3> QED  BY <3>1, <3>2, CoinsAdd
  <2> QED  BY <2>1, <2>2
<1>4. Coins(f, T) \in SUBSET Coins(f, S)
  BY DEF Coins
<1> QED  BY <1>2, <1>3, <1>4, FS_Subset

\* The sum of a set of transactions is the sum of its amounts.
LEMMA SumOfIsSum == \A S : SumOf(S) = SumFunctionOnSet(Amount, S)
  BY DEF SumOf, MapThenSumSet, SumFunctionOnSet, FoldFunctionOnSet

\* A transaction more adds its amount.
LEMMA SumOfAdd ==
  ASSUME NEW S \in SUBSET Txids, IsFiniteSet(S), NEW t \in Txids, t \notin S
  PROVE  SumOf(S \cup {t}) = SumOf(S) + Amount[t]
  <1>1. \A x \in S \cup {t} : Amount[x] \in Nat
    BY PayAssumption
  <1>2. QED
    BY <1>1, SumAdd, SumOfIsSum

\* More transactions, no smaller a sum.
LEMMA SumOfMonotone ==
  ASSUME NEW S \in SUBSET Txids, IsFiniteSet(S), NEW T \in SUBSET S
  PROVE  SumOf(T) \in Nat /\ SumOf(S) \in Nat /\ SumOf(T) <= SumOf(S)
  <1>1. IsFiniteSet(T) /\ \A x \in S : Amount[x] \in Nat
    BY PayAssumption, FS_Subset
  <1>2. SumOf(T) \in Nat /\ SumOf(S) \in Nat
    BY <1>1, SumIsNat, SumOfIsSum
  <1>3. SumOf(T) <= SumOf(S)
    BY <1>1, SumSmaller, SumOfIsSum
  <1>4. QED
    BY <1>2, <1>3

-----------------------------------------------------------------------------
(* What a step does to the payments, the totals and the rows.              *)

\* Only INSERT touches the payments ...
LEMMA InsertOnly ==
  ASSUME [Next]_vars
  PROVE  UNCHANGED <<recorded, sum>> \/ \E w \in Workers : Insert(w)
  BY DEF Next, Handlers, Create, CreateDraft, Finalize, Cancel, Refund,
         RowOnly, Tick, Chain, Send, Mine, Reorg, OffChain, MempoolStep, Poll,
         Fetch, Push, MempoolDone, RecordStep, Sum, Update, Decide, Evict,
         BlockStep, ExpireOld, TakeView, RecheckStep, Recheck, Check,
         StoreTotal, StoredAnd, Mark, JumpToTip, FetchBlocks, BlockDone,
         Fault, Fulfil, SkipScan, CheckFails, Fail, Crash, vars, dbVars,
         Workers, Others, ReserveSwap, QueueDeliveries, LookPause, VoidPause,
         LapseDraft, Take, Accept, DeliveryStep, TakeDelivery, DeliveryDone,
         Forget, Cached, swapVars, lossVars

\* ... and it adds one to the set and its amount to the sum.
LEMMA RowsStep ==
  ASSUME TypeInv, RowsCounted, [Next]_vars
  PROVE  /\ RowsCounted'
         /\ \A i \in Invoices :
              /\ recorded[i] \subseteq recorded'[i]
              /\ sum[i] \in Nat /\ sum'[i] \in Nat /\ sum[i] <= sum'[i]
  <1>1. UNCHANGED <<recorded, sum>> \/ \E w \in Workers : Insert(w)
    BY InsertOnly
  <1>2. ASSUME UNCHANGED <<recorded, sum>> PROVE RowsCounted'
    BY <1>2 DEF RowsCounted
  <1>3. ASSUME NEW w \in Workers, Insert(w)
        PROVE  /\ RowsCounted'
               /\ \A i \in Invoices :
                    recorded[i] \subseteq recorded'[i] /\ sum[i] <= sum'[i]
    <2> DEFINE t == cur[w]
               j == PaysTo[t]
    <2>1. /\ j \in Invoices /\ Amount[t] \in Nat /\ t \in Txids
          /\ recorded \in [Invoices -> SUBSET Txids] /\ sum \in [Invoices -> Nat]
      BY <1>3, PayAssumption DEF Insert, InRecord, PointersOK, TypeInv, TypeOK
    <2>2. /\ recorded' = [recorded EXCEPT ![j] = @ \cup {t}]
          /\ sum' = IF t \in recorded[j] THEN sum
                    ELSE [sum EXCEPT ![j] = @ + Amount[t]]
      BY <1>3 DEF Insert
    <2> HIDE DEF j, t
    <2>3. IsFiniteSet(recorded[j]) /\ sum[j] = SumOf(recorded[j])
      BY <2>1 DEF RowsCounted
    <2>4. recorded'[j] = recorded[j] \cup {t} /\ IsFiniteSet(recorded'[j])
      BY <2>1, <2>2, <2>3, FS_AddElement
    <2>5. sum'[j] = SumOf(recorded'[j]) /\ sum[j] <= sum'[j]
      <3>1. CASE t \in recorded[j]
        <4>1. recorded'[j] = recorded[j] /\ sum' = sum
          BY <3>1, <2>2, <2>4
        <4>2. QED
          BY <4>1, <2>1, <2>3
      <3>2. CASE t \notin recorded[j]
        <4>1. sum'[j] = sum[j] + Amount[t]
          BY <3>2, <2>1, <2>2
        <4>2. SumOf(recorded'[j]) = SumOf(recorded[j]) + Amount[t]
          BY <3>2, <2>1, <2>3, <2>4, SumOfAdd
        <4>3. sum[j] \in Nat /\ Amount[t] \in Nat
          BY <2>1
        <4>4. QED
          BY <4>1, <4>2, <4>3, <2>3
      <3>3. QED
        BY <3>1, <3>2
    <2>6. ASSUME NEW i \in Invoices, i # j
          PROVE  recorded'[i] = recorded[i] /\ sum'[i] = sum[i] /\ sum[i] \in Nat
      BY <2>1, <2>2, <2>6
    <2>7. ASSUME NEW i \in Invoices
          PROVE  /\ IsFiniteSet(recorded'[i]) /\ sum'[i] = SumOf(recorded'[i])
                 /\ recorded[i] \subseteq recorded'[i] /\ sum[i] <= sum'[i]
      <3>1. IsFiniteSet(recorded[i]) /\ sum[i] = SumOf(recorded[i])
        BY DEF RowsCounted
      <3>2. CASE i = j
        BY <3>2, <2>4, <2>5
      <3>3. CASE i # j
        BY <3>1, <3>3, <2>6
      <3>4. QED
        BY <3>2, <3>3
    <2>8. RowsCounted'
      BY <2>7 DEF RowsCounted
    <2>9. QED
      BY <2>7, <2>8
  <1>4. \A i \in Invoices : sum[i] \in Nat /\ sum'[i] \in Nat
    BY NextType DEF TypeInv, TypeOK
  <1>5. QED
    BY <1>1, <1>2, <1>3, <1>4

\* A payment that is or was in a block goes on to be so.
LEMMA OnChainGrows ==
  ASSUME TypeInv, RowsCounted, [Next]_vars, NEW i \in Invoices
  PROVE  /\ OnChain(i) \subseteq OnChain(i)'
         /\ OnChain(i)' \subseteq recorded'[i] /\ IsFiniteSet(OnChain(i)')
         /\ OnChain(i)' \in SUBSET Txids
  <1>1. recorded[i] \subseteq recorded'[i] /\ IsFiniteSet(recorded'[i])
    BY RowsStep DEF RowsCounted
  <1>2. /\ mined \in [Txids -> Nat] /\ tip \in Nat /\ reorged \in SUBSET Txids
        /\ recorded[i] \in SUBSET Txids /\ recorded'[i] \in SUBSET Txids
    BY NextType DEF TypeInv, TypeOK
  <1>3. \/ UNCHANGED <<mined, reorged>>
        \/ \E S \in SUBSET Txids : Mine(S) \/ Reorg(S)
    BY DEF Next, Handlers, Create, CreateDraft, Finalize, Cancel, Refund,
           RowOnly, Tick, Chain, Send, MempoolStep, Poll, Fetch, Push,
           MempoolDone, RecordStep, Insert, Sum, Update, Decide, Evict,
           BlockStep, ExpireOld, TakeView, RecheckStep, Recheck, Check,
           StoreTotal, StoredAnd, Mark, JumpToTip, FetchBlocks, BlockDone,
           Fault, Fulfil, SkipScan, CheckFails, Fail, Crash, vars, chainVars,
           historyVars, Others, ReserveSwap, QueueDeliveries, LookPause,
           VoidPause, LapseDraft, Take, Accept, DeliveryStep, TakeDelivery,
           DeliveryDone, Forget, Cached, swapVars, lossVars
  <1>4. ASSUME NEW t \in recorded[i], mined[t] > 0 \/ t \in reorged
        PROVE  mined'[t] > 0 \/ t \in reorged'
    <2>1. CASE UNCHANGED <<mined, reorged>>
      BY <1>4, <2>1
    <2>2. ASSUME NEW S \in SUBSET Txids, Mine(S) PROVE mined'[t] > 0 \/ t \in reorged'
      BY <1>2, <1>4, <2>2 DEF Mine
    <2>3. ASSUME NEW S \in SUBSET Txids, Reorg(S) PROVE mined'[t] > 0 \/ t \in reorged'
      BY <1>2, <1>4, <2>3 DEF Reorg
    <2>4. QED
      BY <1>3, <2>1, <2>2, <2>3
  <1>5. OnChain(i) \subseteq OnChain(i)'
    BY <1>1, <1>4 DEF OnChain
  <1>6. OnChain(i)' \subseteq recorded'[i]
    BY DEF OnChain
  <1>7. QED
    BY <1>1, <1>2, <1>5, <1>6, FS_Subset

\* How a worker comes to hold a total for a payment.
LEMMA TotalsStep ==
  ASSUME TypeInv, [Next]_vars, NEW w \in Workers, pc'[w] \in {"update", "decide"}
  PROVE  \/ Sum(w)
         \/ Accept(w) /\ cur' = cur /\ total'[w] = inv[PaysTo[cur[w]]].received
         \/ /\ pc[w] \in {"update", "decide"}
            /\ total'[w] = total[w] /\ cur'[w] = cur[w]
  <1> USE DEF TypeInv, TypeOK, Workers, Goto, Forget, chainVars, workVars,
              swapVars, lossVars, dbVars, recheckVars, historyVars
  <1>1. CASE Handlers \/ Others \/ Tick \/ Chain \/ (\E t \in Txids : Evict(t))
             \/ UNCHANGED vars
    BY <1>1 DEF Handlers, Create, CreateDraft, Finalize, Cancel, Refund, RowOnly,
                Others, ReserveSwap, QueueDeliveries, LookPause, VoidPause,
                LapseDraft, Tick, Chain, Send, Mine, Reorg, OffChain, Evict, vars
  <1>2. CASE Fault
    BY <1>2 DEF Fault, SkipScan, CheckFails, NextInvoice, Fail, Crash
  <1>3. ASSUME NEW v \in Workers, RecordStep(v)
        PROVE  \/ Sum(w)
               \/ Accept(w) /\ cur' = cur /\ total'[w] = inv[PaysTo[cur[w]]].received
               \/ /\ pc[w] \in {"update", "decide"}
                  /\ total'[w] = total[w] /\ cur'[w] = cur[w]
    BY <1>3 DEF RecordStep, Take, Accept, Insert, Sum, Update, Decide
  <1>4. CASE \/ Poll \/ (\E S \in SUBSET Txids : Fetch(S))
             \/ (\E t \in Txids : Push(t)) \/ MempoolDone
             \/ (\E t \in Txids : TakeDelivery(t)) \/ DeliveryDone
             \/ ExpireOld \/ TakeView \/ RecheckStep \/ JumpToTip
             \/ (\E h \in 1 .. MaxHeight + 1 : FetchBlocks(h)) \/ BlockDone
    BY <1>4 DEF Poll, Fetch, Push, MempoolDone, TakeDelivery, DeliveryDone,
                ExpireOld, TakeView, RecheckStep, Recheck, Check, StoreTotal,
                StoredAnd, Mark, Fulfil, NextInvoice, JumpToTip, FetchBlocks,
                BlockDone, Rest
  <1>5. QED
    BY <1>1, <1>2, <1>3, <1>4 DEF Next, MempoolStep, BlockStep, DeliveryStep

\* How the block worker comes to the total of its recheck.
LEMMA RecheckTotals ==
  ASSUME TypeInv, [Next]_vars
  PROVE  /\ pc'["block"] \in {"idle", "snapshot", "confirm"} =>
              \/ total'["block"] = 0
              \/ /\ pc["block"] \in {"idle", "snapshot", "confirm"}
                 /\ total'["block"] = total["block"]
         /\ pc'["block"] = "check" =>
              \/ \E i \in Invoices : Recheck(i)
              \/ \E t \in Txids : Check(t)
              \/ /\ pc["block"] = "check" /\ checked' = checked
                 /\ total'["block"] = total["block"]
                 /\ todo'["block"] = todo["block"]
         /\ pc'["block"] = "mark" =>
              \/ StoreTotal /\ checked' = checked /\ total' = total
              \/ /\ pc["block"] = "mark" /\ checked' = checked
                 /\ total'["block"] = total["block"]
  <1> DEFINE Goal ==
        /\ pc'["block"] \in {"idle", "snapshot", "confirm"} =>
             \/ total'["block"] = 0
             \/ /\ pc["block"] \in {"idle", "snapshot", "confirm"}
                /\ total'["block"] = total["block"]
        /\ pc'["block"] = "check" =>
             \/ \E i \in Invoices : Recheck(i)
             \/ \E t \in Txids : Check(t)
             \/ /\ pc["block"] = "check" /\ checked' = checked
                /\ total'["block"] = total["block"]
                /\ todo'["block"] = todo["block"]
        /\ pc'["block"] = "mark" =>
             \/ StoreTotal /\ checked' = checked /\ total' = total
             \/ /\ pc["block"] = "mark" /\ checked' = checked
                /\ total'["block"] = total["block"]
  <1> USE DEF TypeInv, TypeOK, PointersOK, Workers, Goto, Forget, chainVars,
              workVars, swapVars, lossVars, dbVars, recheckVars, historyVars
  <1>1. CASE Handlers \/ Others \/ Tick \/ Chain \/ (\E t \in Txids : Evict(t))
             \/ UNCHANGED vars
    BY <1>1 DEF Handlers, Create, CreateDraft, Finalize, Cancel, Refund, RowOnly,
                Others, ReserveSwap, QueueDeliveries, LookPause, VoidPause,
                LapseDraft, Tick, Chain, Send, Mine, Reorg, OffChain, Evict, vars
  <1>2. CASE Fault
    BY <1>2 DEF Fault, SkipScan, CheckFails, NextInvoice, Fail, Crash
  <1>3. ASSUME NEW v \in Workers, RecordStep(v) PROVE Goal
    BY <1>3 DEF RecordStep, Take, Accept, Insert, Sum, Update, Decide, InRecord
  <1>4. CASE \/ Poll \/ (\E S \in SUBSET Txids : Fetch(S))
             \/ (\E t \in Txids : Push(t)) \/ MempoolDone
             \/ (\E t \in Txids : TakeDelivery(t)) \/ DeliveryDone
    BY <1>4 DEF Poll, Fetch, Push, MempoolDone, TakeDelivery, DeliveryDone, Rest
  <1>5. CASE \/ ExpireOld \/ TakeView \/ JumpToTip \/ BlockDone
             \/ \E h \in 1 .. MaxHeight + 1 : FetchBlocks(h)
    BY <1>5 DEF ExpireOld, TakeView, JumpToTip, FetchBlocks, BlockDone, Rest
  <1>6. CASE RecheckStep
    BY <1>6 DEF RecheckStep, Recheck, Check, StoreTotal, StoredAnd, Mark, Fulfil,
                NextInvoice
  <1>7. QED
    BY <1>1, <1>2, <1>3, <1>4, <1>5, <1>6
    DEF Next, MempoolStep, BlockStep, DeliveryStep

\* A statement that neither confirms nor quotes, and that sets what was
\* received, if at all, to nothing or to n.
Plain(old, new, n) ==
  /\ new.received \in {old.received, 0, n}
  /\ new.status = "confirmed" => old.status = "confirmed"
  /\ old.status \in {"draft", "expired"} => new.status # "pending"

\* Every statement but mark_confirmed and finalize is one.
LEMMA StatementsPlain ==
  ASSUME NEW row \in Row, NEW n \in Nat
  PROVE  /\ row.status = "none" =>
              \A p \in Nat, x \in BOOLEAN :
                Plain(row, Created(p, x), n) /\ Plain(row, Drafted, n)
         /\ Plain(row, ReceivedUpdated(row, n), n)
         /\ Plain(row, MarkedUnderpaid(row, n), n)
         /\ Plain(row, MarkedDetected(row, n), n)
         /\ Plain(row, ConfirmedTotalStored(row, n), n)
         /\ Plain(row, MarkedRefunded(row), n)
         /\ Plain(row, MarkedExpired(row), n)
         /\ Plain(row, ExpiredIfOld(row), n)
         /\ Plain(row, Aged(row), n)
         /\ Plain(row, row, n)
  <1> USE InstantTypes DEF Row, Awaiting, Plain
  <1>1. /\ \A p \in Nat, x \in BOOLEAN : /\ Created(p, x).status = "pending"
                                         /\ Created(p, x).received = 0
        /\ Drafted.status = "draft" /\ Drafted.received = 0
    BY DEF Created, Drafted, NoRow
  <1>2. /\ Plain(row, ReceivedUpdated(row, n), n)
        /\ Plain(row, MarkedUnderpaid(row, n), n)
    BY DEF ReceivedUpdated, MarkedUnderpaid
  <1>3. /\ Plain(row, MarkedDetected(row, n), n)
        /\ Plain(row, ConfirmedTotalStored(row, n), n)
    BY DEF MarkedDetected, ConfirmedTotalStored
  <1>4. Plain(row, MarkedRefunded(row), n) /\ Plain(row, MarkedExpired(row), n)
    BY DEF MarkedRefunded, MarkedExpired
  <1>5. Plain(row, ExpiredIfOld(row), n)
    BY DEF ExpiredIfOld
  <1>6. Plain(row, Aged(row), n)
    BY DEF Aged
  <1>7. QED
    BY <1>1, <1>2, <1>3, <1>4, <1>5, <1>6

\* What a step does to the row of i.
RowStep(i) ==
  \/ Plain(inv[i], inv'[i], 0)
  \/ \E w \in Workers :
       /\ pc[w] \in {"update", "decide"} /\ PaysTo[cur[w]] = i
       /\ Plain(inv[i], inv'[i], total[w])
  \/ StoreTotal /\ i = checked /\ Plain(inv[i], inv'[i], total["block"])
  \/ Mark /\ i = checked /\ inv'[i] = MarkedConfirmed(inv[i])
  \/ \E p \in Prices : Finalize(i, p)
  \/ \E S \in SUBSET Txids : QueueDeliveries(i, S)

\* Every step does one of these.
LEMMA RowSteps ==
  ASSUME TypeInv, [Next]_vars
  PROVE  \A i \in Invoices : RowStep(i)
  <1> USE DEF TypeInv
  <1>1. \A i \in Invoices : inv[i] \in Row /\ 0 \in Nat
    BY DEF TypeOK
  <1>2. \A i \in Invoices : Plain(inv[i], inv[i], 0)
    BY <1>1, StatementsPlain
  <1>3. inv' = inv => \A i \in Invoices : RowStep(i)
    BY <1>2 DEF RowStep
  <1>4. ASSUME NEW i \in Invoices, NEW row, SetRow(i, row),
               inv'[i] = row => RowStep(i)
        PROVE  \A j \in Invoices : RowStep(j)
    <2>1. inv'[i] = row /\ \A j \in Invoices \ {i} : inv'[j] = inv[j]
      BY <1>4 DEF SetRow, TypeOK
    <2>2. \A j \in Invoices \ {i} : RowStep(j)
      BY <2>1, <1>2 DEF RowStep
    <2>3. QED
      BY <1>4, <2>1, <2>2
  <1>5. CASE Handlers
    <2>1. ASSUME NEW i \in Invoices, NEW p \in Prices, NEW x \in Exactness,
                 Create(i, p, x)
          PROVE  \A j \in Invoices : RowStep(j)
      <3>1. Plain(inv[i], Created(p, x), 0)
        BY <2>1, <1>1, StatementsPlain, PayAssumption DEF Create
      <3>2. QED
        BY <2>1, <3>1, <1>4 DEF Create, RowStep
    <2>2. ASSUME NEW i \in Invoices, CreateDraft(i)
          PROVE  \A j \in Invoices : RowStep(j)
      <3>1. Plain(inv[i], Drafted, 0)
        BY <2>2, <1>1, StatementsPlain DEF CreateDraft
      <3>2. QED
        BY <2>2, <3>1, <1>4 DEF CreateDraft, RowStep
    <2>3. ASSUME NEW i \in Invoices, NEW p \in Prices, Finalize(i, p)
          PROVE  \A j \in Invoices : RowStep(j)
      BY <2>3, <1>4 DEF Finalize, RowStep
    <2>4. ASSUME NEW i \in Invoices, Cancel(i) \/ Refund(i)
          PROVE  \A j \in Invoices : RowStep(j)
      BY <2>4, <1>1, <1>4, StatementsPlain DEF Cancel, Refund, RowOnly, RowStep
    <2>5. QED
      BY <1>5, <2>1, <2>2, <2>3, <2>4 DEF Handlers
  <1>6. CASE Tick \/ ExpireOld
    BY <1>1, <1>6, StatementsPlain DEF Tick, ExpireOld, RowStep
  <1>7. ASSUME NEW w \in Workers, Update(w) \/ Decide(w)
        PROVE  \A i \in Invoices : RowStep(i)
    <2> DEFINE i == PaysTo[cur[w]]
    <2>1. i \in Invoices /\ total[w] \in Nat
      BY <1>7, PayAssumption DEF Update, Decide, InRecord, PointersOK, TypeOK
    <2>2. Plain(inv[i], ReceivedUpdated(inv[i], total[w]), total[w])
      BY <1>1, <2>1, StatementsPlain
    <2>3. Plain(inv[i], Decided(w, inv[i], view[w][i], total[w]), total[w])
      BY <1>1, <2>1, StatementsPlain DEF Decided
    <2>4. pc[w] \in {"update", "decide"}
      BY <1>7 DEF Update, Decide
    <2>5. QED
      BY <1>4, <1>7, <2>1, <2>2, <2>3, <2>4 DEF Update, Decide, RowStep
  <1>8. CASE StoreTotal
    <2>1. checked \in Invoices /\ total["block"] \in Nat
      BY <1>8 DEF StoreTotal, StoredAnd, PointersOK, TypeOK, Workers
    <2>2. Plain(inv[checked], ConfirmedTotalStored(inv[checked], total["block"]),
                total["block"])
      BY <1>1, <2>1, StatementsPlain
    <2>3. SetRow(checked, ConfirmedTotalStored(inv[checked], total["block"]))
      BY <1>8 DEF StoreTotal, StoredAnd
    <2>4. QED
      BY <1>4, <1>8, <2>1, <2>2, <2>3 DEF RowStep
  <1>9. CASE Mark
    <2>1. checked \in Invoices
      BY <1>9 DEF Mark, PointersOK, TypeOK
    <2>2. SetRow(checked, MarkedConfirmed(inv[checked]))
      BY <1>9 DEF Mark
    <2>3. QED
      BY <1>4, <1>9, <2>1, <2>2 DEF RowStep
  <1>9a. CASE Others
    <2>1. ASSUME NEW i \in Invoices, ReserveSwap(i) \/ VoidPause(i) \/ LapseDraft(i)
          PROVE  \A j \in Invoices : RowStep(j)
      <3>1. /\ Plain(inv[i], [inv[i] EXCEPT !.exact = TRUE], 0)
            /\ Plain(inv[i], [inv[i] EXCEPT !.status = "expired", !.left = Past], 0)
            /\ Plain(inv[i], [inv[i] EXCEPT !.status = "expired"], 0)
        BY <1>1, <2>1 DEF Plain, Row, ReserveSwap
      <3>2. QED
        BY <1>4, <2>1, <3>1 DEF ReserveSwap, VoidPause, LapseDraft, RowOnly, RowStep
    <2>2. ASSUME NEW i \in Invoices, NEW S \in SUBSET Txids, QueueDeliveries(i, S)
          PROVE  \A j \in Invoices : RowStep(j)
      BY <1>4, <2>2 DEF QueueDeliveries, RowStep
    <2>3. QED
      BY <1>3, <1>9a, <2>1, <2>2 DEF Others, LookPause, dbVars
  <1>10. \/ Handlers \/ Others \/ Tick \/ ExpireOld \/ StoreTotal \/ Mark \/ inv' = inv
         \/ \E w \in Workers : Update(w) \/ Decide(w)
    BY DEF Next, Chain, Send, Mine, Reorg, OffChain, MempoolStep, Poll, Fetch,
           Push, MempoolDone, RecordStep, Insert, Sum, Evict, BlockStep,
           TakeView, RecheckStep, Recheck, Check, Fulfil, JumpToTip,
           FetchBlocks, BlockDone, Fault, SkipScan, CheckFails, Fail, Crash,
           Workers, vars, dbVars, Take, Accept, DeliveryStep, TakeDelivery, DeliveryDone, Forget, Cached, swapVars,
           lossVars
  <1>11. QED
    BY <1>3, <1>5, <1>6, <1>7, <1>8, <1>9, <1>9a, <1>10

\* Only mark_confirmed settles an invoice, and it finds the money there.
LEMMA Settles ==
  ASSUME IInv, [Next]_vars, NEW i \in Invoices, inv'[i].status \in Settled
  PROVE  \/ inv[i].status \in Settled
         \/ /\ Mark /\ i = checked
            /\ inv[i].status = "detected" /\ inv'[i].status = "confirmed"
            /\ inv'[i] = MarkedConfirmed(inv[i])
  <1>1. \/ inv[i].status \in Settled
        \/ inv[i].status = "detected" /\ inv'[i].status = "confirmed"
    BY NextPromise
    DEF Promise!Next, Promise!Open, Promise!Quote, Promise!Account,
        Promise!Confirm, Promise!Refund, Promise!Expire, Promise!Fix,
        Promise!Reopen, Promise!Void, Promise!Rest, Settled
  <1>2. RowStep(i)
    BY RowSteps DEF IInv, TypeInv
  <1>3. QED
    BY <1>1, <1>2
    DEF RowStep, Plain, Finalize, CanFinalize, QueueDeliveries, SetRow, Reopened,
        Awaiting, IInv, TypeOK

-----------------------------------------------------------------------------
(* What is confirmed has its side effects.                                 *)

\* A step never forgets that they ran, or were cut off, and only these end the
\* wait for them.
LEMMA FulfilSteps ==
  ASSUME TypeInv, [Next]_vars
  PROVE  /\ fulfilled \subseteq fulfilled' /\ cut \subseteq cut'
         /\ pc["block"] = "fulfil" =>
              \/ checked \in fulfilled' \cup cut'
              \/ pc'["block"] = "fulfil" /\ checked' = checked
  <1> DEFINE Goal ==
        /\ fulfilled \subseteq fulfilled' /\ cut \subseteq cut'
        /\ pc["block"] = "fulfil" =>
             \/ checked \in fulfilled' \cup cut'
             \/ pc'["block"] = "fulfil" /\ checked' = checked
  <1> USE DEF TypeInv, TypeOK, PointersOK, Workers, Goto, Forget, chainVars,
              workVars, swapVars, lossVars, dbVars, recheckVars, historyVars
  <1>1. CASE Handlers \/ Others \/ Tick \/ Chain \/ (\E t \in Txids : Evict(t))
             \/ UNCHANGED vars
    BY <1>1 DEF Handlers, Create, CreateDraft, Finalize, Cancel, Refund, RowOnly,
                Others, ReserveSwap, QueueDeliveries, LookPause, VoidPause,
                LapseDraft, Tick, Chain, Send, Mine, Reorg, OffChain, Evict, vars
  <1>2. CASE Fault
    BY <1>2 DEF Fault, SkipScan, CheckFails, NextInvoice, Fail, Crash
  <1>3. ASSUME NEW v \in Workers, RecordStep(v) PROVE Goal
    BY <1>3 DEF RecordStep, Take, Accept, Insert, Sum, Update, Decide, InRecord
  <1>4. CASE \/ Poll \/ (\E S \in SUBSET Txids : Fetch(S))
             \/ (\E t \in Txids : Push(t)) \/ MempoolDone
             \/ (\E t \in Txids : TakeDelivery(t)) \/ DeliveryDone
    BY <1>4 DEF Poll, Fetch, Push, MempoolDone, TakeDelivery, DeliveryDone, Rest
  <1>5. CASE \/ ExpireOld \/ TakeView \/ JumpToTip \/ BlockDone
             \/ \E h \in 1 .. MaxHeight + 1 : FetchBlocks(h)
    BY <1>5 DEF ExpireOld, TakeView, JumpToTip, FetchBlocks, BlockDone, Rest
  <1>6. CASE RecheckStep
    BY <1>6 DEF RecheckStep, Recheck, Check, StoreTotal, StoredAnd, Mark, Fulfil,
                NextInvoice
  <1>7. QED
    BY <1>1, <1>2, <1>3, <1>4, <1>5, <1>6
    DEF Next, MempoolStep, BlockStep, DeliveryStep

\* A confirmed invoice has had its side effects, or is about to, or a crash
\* cut them off; a failed statement never does.
THEOREM ConfirmedFulfilled == Spec => []FulfilledOrCut
  <1>1. Init => FulfilledOrCut
    BY DEF Init, FulfilledOrCut, NoRow, Settled
  <1>2. IInv /\ FulfilledOrCut /\ [Next]_vars => FulfilledOrCut'
    <2> SUFFICES ASSUME IInv, FulfilledOrCut, [Next]_vars, NEW i \in Invoices,
                        inv'[i].status \in Settled
                 PROVE  \/ i \in fulfilled' \cup cut'
                        \/ pc'["block"] = "fulfil" /\ checked' = i
      BY DEF FulfilledOrCut
    <2>1. TypeInv
      BY DEF IInv, TypeInv
    <2>2. CASE inv[i].status \in Settled
      BY <2>1, <2>2, FulfilSteps DEF FulfilledOrCut
    <2>3. CASE Mark /\ i = checked /\ inv'[i] = MarkedConfirmed(inv[i])
               /\ inv'[i].status # inv[i].status
      BY <2>1, <2>3 DEF Mark, Goto, recheckVars, TypeInv, TypeOK, Workers
    <2>4. QED
      BY <2>2, <2>3, Settles
  <1>3. QED
    BY <1>1, <1>2, InitIInv, NextIInv, PTL DEF Spec

-----------------------------------------------------------------------------
(* Payments count once, and in blocks.                                     *)

\* The sum of what is on the chain never falls.
LEMMA OnChainSum ==
  ASSUME TypeInv, RowsCounted, [Next]_vars, NEW i \in Invoices, NEW n \in Nat,
         NEW S, n <= SumOf(OnChain(i) \ S)
  PROVE  /\ n <= SumOf(OnChain(i)' \ S) /\ n <= SumOf(OnChain(i)')
         /\ SumOf(OnChain(i)') \in Nat /\ sum'[i] \in Nat
         /\ SumOf(OnChain(i)') <= sum'[i]
  <1>1. /\ OnChain(i) \subseteq OnChain(i)' /\ OnChain(i)' \subseteq recorded'[i]
        /\ IsFiniteSet(OnChain(i)') /\ OnChain(i)' \in SUBSET Txids
    BY OnChainGrows
  <1>2. /\ IsFiniteSet(OnChain(i)' \ S) /\ OnChain(i)' \ S \in SUBSET Txids
        /\ OnChain(i) \ S \in SUBSET (OnChain(i)' \ S)
        /\ OnChain(i)' \ S \in SUBSET OnChain(i)'
    BY <1>1, FS_Subset
  <1>3. /\ SumOf(OnChain(i) \ S) \in Nat /\ SumOf(OnChain(i)' \ S) \in Nat
        /\ SumOf(OnChain(i) \ S) <= SumOf(OnChain(i)' \ S)
    BY <1>2, SumOfMonotone
  <1>4. SumOf(OnChain(i)') \in Nat /\ SumOf(OnChain(i)' \ S) <= SumOf(OnChain(i)')
    BY <1>1, <1>2, SumOfMonotone
  <1>5. IsFiniteSet(recorded'[i]) /\ sum'[i] = SumOf(recorded'[i])
    BY RowsStep DEF RowsCounted
  <1>6. recorded'[i] \in SUBSET Txids
    BY NextType DEF TypeInv, TypeOK
  <1>7. SumOf(recorded'[i]) \in Nat /\ SumOf(OnChain(i)') <= SumOf(recorded'[i])
    BY <1>1, <1>5, <1>6, SumOfMonotone
  <1>8. QED
    BY <1>3, <1>4, <1>5, <1>7

\* Nothing is recorded at first.
LEMMA InitCount == Init => CountInv
  <1> SUFFICES ASSUME Init PROVE CountInv
    OBVIOUS
  <1>1. SumOf({}) = 0 /\ IsFiniteSet({})
    BY SumEmpty, SumOfIsSum, FS_EmptySet
  <1>2. RowsCounted
    BY <1>1 DEF Init, RowsCounted
  <1>3. TotalsCounted
    BY DEF Init, TotalsCounted, Workers
  <1>4. QED
    BY <1>2, <1>3 DEF Init, CountInv, ConfirmedOnChain, NoRow, Settled

\* A worker's total is at most the sum of the rows.
LEMMA NextTotals ==
  ASSUME TypeInv, CountInv, [Next]_vars PROVE TotalsCounted'
  <1>1. TypeInv' /\ RowsCounted /\ TotalsCounted
    BY NextType DEF CountInv
  <1>2. \A i \in Invoices : sum[i] \in Nat /\ sum'[i] \in Nat /\ sum[i] <= sum'[i]
    BY <1>1, RowsStep
  <1>3. ASSUME NEW w \in Workers, pc'[w] \in {"update", "decide"}
        PROVE  total'[w] <= sum'[PaysTo[cur'[w]]]
    <2>1. CASE Sum(w)
      <3>1. /\ total'[w] = sum[PaysTo[cur[w]]] /\ cur'[w] = cur[w]
            /\ cur[w] \in Txids
        BY <2>1 DEF Sum, InRecord, TypeInv, TypeOK, PointersOK
      <3>2. QED
        BY <3>1, <1>2, PayAssumption
    <2>2. CASE /\ pc[w] \in {"update", "decide"}
               /\ total'[w] = total[w] /\ cur'[w] = cur[w]
      <3>1. cur[w] \in Txids /\ total[w] \in Nat /\ PaysTo[cur[w]] \in Invoices
        BY <2>2, PayAssumption DEF InRecord, TypeInv, TypeOK, PointersOK
      <3>2. total[w] <= sum[PaysTo[cur[w]]]
        BY <1>1, <2>2 DEF TotalsCounted
      <3>3. QED
        BY <2>2, <3>1, <3>2, <1>2
    <2>3. CASE Accept(w) /\ cur' = cur /\ total'[w] = inv[PaysTo[cur[w]]].received
      <3>1. cur[w] \in Txids /\ PaysTo[cur[w]] \in Invoices
        BY <2>3, PayAssumption DEF Accept, InRecord, TypeInv, PointersOK
      <3>2. /\ inv[PaysTo[cur[w]]].received <= sum[PaysTo[cur[w]]]
            /\ inv[PaysTo[cur[w]]].received \in Nat
        BY <3>1 DEF CountInv, TypeInv, TypeOK, Row
      <3>3. QED
        BY <2>3, <3>1, <3>2, <1>2
    <2>4. QED
      BY <1>3, <2>1, <2>2, <2>3, TotalsStep
  <1>4. ASSUME pc'["block"] \in {"idle", "snapshot", "confirm"}
        PROVE  total'["block"] = 0
    BY <1>1, <1>4, RecheckTotals DEF TotalsCounted
  <1>5. ASSUME pc'["block"] = "check", NEW i \in Invoices, checked' = i
        PROVE  /\ todo'["block"] \subseteq recorded'[i]
               /\ total'["block"] <= SumOf(OnChain(i)' \ todo'["block"])
    <2>1. ASSUME NEW j \in Invoices, Recheck(j)
          PROVE  /\ todo'["block"] \subseteq recorded'[i]
                 /\ total'["block"] <= SumOf(OnChain(i)' \ todo'["block"])
      <3>1. /\ j = i /\ todo'["block"] = recorded[i] /\ recorded' = recorded
            /\ total'["block"] = 0
        BY <1>1, <1>5, <2>1
        DEF Recheck, TypeInv, TypeOK, Workers, dbVars, TotalsCounted
      <3>2. IsFiniteSet(OnChain(i)' \ recorded[i])
            /\ OnChain(i)' \ recorded[i] \in SUBSET Txids
        BY <1>1, OnChainGrows, FS_Subset
      <3>3. SumOf(OnChain(i)' \ recorded[i]) \in Nat
        BY <3>2, SumOfMonotone
      <3>4. QED
        BY <3>1, <3>3
    <2>2. ASSUME NEW t \in Txids, Check(t)
          PROVE  /\ todo'["block"] \subseteq recorded'[i]
                 /\ total'["block"] <= SumOf(OnChain(i)' \ todo'["block"])
      <3> DEFINE S == OnChain(i) \ todo["block"]
                 T == OnChain(i) \ (todo["block"] \ {t})
      <3>1. /\ pc["block"] = "check" /\ t \in todo["block"]
            /\ todo'["block"] = todo["block"] \ {t}
            /\ total'["block"] = IF mined[t] > 0 THEN total["block"] + Amount[t]
                                 ELSE total["block"]
            /\ checked' = checked /\ recorded' = recorded /\ mined' = mined
            /\ reorged' = reorged /\ total["block"] \in Nat
        BY <2>2 DEF Check, TypeInv, TypeOK, Workers, dbVars, chainVars, recheckVars,
                    historyVars
      <3>2. /\ todo["block"] \subseteq recorded[i]
            /\ total["block"] <= SumOf(S)
        BY <1>1, <1>5, <3>1 DEF TotalsCounted
      <3>3. OnChain(i)' = OnChain(i)
        BY <3>1 DEF OnChain
      <3>4. IsFiniteSet(OnChain(i)) /\ OnChain(i) \in SUBSET Txids
        BY <1>1, <3>3, OnChainGrows
      <3>5. IsFiniteSet(S) /\ IsFiniteSet(T) /\ S \in SUBSET T /\ T \in SUBSET Txids
            /\ S \in SUBSET Txids
        BY <3>4, FS_Subset
      <3>6. t \in OnChain(i) => T = S \cup {t} /\ t \notin S
        BY <3>1
      <3>7. mined[t] > 0 => t \in OnChain(i)
        BY <3>1, <3>2 DEF OnChain
      <3>8. todo'["block"] \subseteq recorded'[i]
        BY <3>1, <3>2
      <3>9. OnChain(i)' \ todo'["block"] = T
        BY <3>1, <3>3
      <3> HIDE DEF S, T
      <3>10. SumOf(S) \in Nat /\ SumOf(T) \in Nat /\ SumOf(S) <= SumOf(T)
        BY <3>5, SumOfMonotone
      <3>11. mined[t] > 0 => SumOf(T) = SumOf(S) + Amount[t]
        BY <3>5, <3>6, <3>7, SumOfAdd
      <3>12. Amount[t] \in Nat
        BY PayAssumption
      <3>13. total'["block"] <= SumOf(T)
        BY <3>1, <3>2, <3>10, <3>11, <3>12
      <3>14. QED
        BY <3>8, <3>9, <3>13
    <2>3. CASE /\ pc["block"] = "check" /\ checked' = checked
               /\ total'["block"] = total["block"]
               /\ todo'["block"] = todo["block"]
      <3>1. /\ total["block"] \in Nat
            /\ todo["block"] \subseteq recorded[i]
            /\ total["block"] <= SumOf(OnChain(i) \ todo["block"])
        BY <1>1, <1>5, <2>3 DEF TotalsCounted, TypeInv, TypeOK, Workers
      <3>2. recorded[i] \subseteq recorded'[i]
        BY <1>1, RowsStep
      <3>3. total["block"] <= SumOf(OnChain(i)' \ todo["block"])
        BY <1>1, <3>1, OnChainSum
      <3>4. QED
        BY <2>3, <3>1, <3>2, <3>3
    <2>4. QED
      BY <1>5, <2>1, <2>2, <2>3, RecheckTotals
  <1>6. ASSUME pc'["block"] = "mark", NEW i \in Invoices, checked' = i
        PROVE  total'["block"] <= SumOf(OnChain(i)')
    <2>1. /\ total["block"] \in Nat /\ total'["block"] = total["block"]
          /\ total["block"] <= SumOf(OnChain(i) \ {})
      <3>1. CASE StoreTotal /\ checked' = checked /\ total' = total
        BY <1>1, <1>6, <3>1
        DEF StoreTotal, StoredAnd, TotalsCounted, TypeInv, TypeOK, Workers
      <3>2. CASE /\ pc["block"] = "mark" /\ checked' = checked
                 /\ total'["block"] = total["block"]
        <4>1. OnChain(i) \ {} = OnChain(i)
          OBVIOUS
        <4>2. QED
          BY <1>1, <1>6, <3>2, <4>1 DEF TotalsCounted, TypeInv, TypeOK, Workers
      <3>3. QED
        BY <1>6, <3>1, <3>2, RecheckTotals
    <2>2. total["block"] <= SumOf(OnChain(i)')
      BY <1>1, <2>1, OnChainSum
    <2>3. QED
      BY <2>1, <2>2
  <1>7. QED
    BY <1>3, <1>4, <1>5, <1>6 DEF TotalsCounted

\* Every step keeps CountInv.
LEMMA NextCount == IInv /\ CountInv /\ [Next]_vars => CountInv'
  <1> SUFFICES ASSUME IInv, CountInv, [Next]_vars PROVE CountInv'
    OBVIOUS
  <1>1. TypeInv /\ TypeInv' /\ RowsCounted /\ TotalsCounted
    BY NextType DEF CountInv, IInv, TypeInv
  <1>2. RowsCounted' /\ TotalsCounted'
    BY <1>1, RowsStep, NextTotals
  <1>3. \A i \in Invoices : sum[i] \in Nat /\ sum'[i] \in Nat /\ sum[i] <= sum'[i]
    BY <1>1, RowsStep
  <1>4. ASSUME NEW i \in Invoices PROVE inv'[i].received <= sum'[i]
    <2>1. /\ inv[i].received \in Nat /\ inv[i].received <= sum[i] /\ RowStep(i)
          /\ inv[i] \in Row
      BY <1>1, RowSteps DEF CountInv, TypeInv, TypeOK, Row
    <2>2. CASE Plain(inv[i], inv'[i], 0)
      BY <1>3, <2>1, <2>2 DEF Plain
    <2>3. ASSUME NEW w \in Workers, pc[w] \in {"update", "decide"},
                 PaysTo[cur[w]] = i, Plain(inv[i], inv'[i], total[w])
          PROVE  inv'[i].received <= sum'[i]
      <3>1. total[w] <= sum[i] /\ total[w] \in Nat
        BY <1>1, <2>3 DEF TotalsCounted, TypeInv, TypeOK
      <3>2. QED
        BY <1>3, <2>1, <2>3, <3>1 DEF Plain
    <2>4. CASE StoreTotal /\ i = checked /\ Plain(inv[i], inv'[i], total["block"])
      <3>1. /\ total["block"] \in Nat
            /\ total["block"] <= SumOf(OnChain(i) \ {})
        BY <1>1, <2>4
        DEF StoreTotal, StoredAnd, TotalsCounted, TypeInv, TypeOK, Workers
      <3>2. total["block"] <= SumOf(OnChain(i)') /\ SumOf(OnChain(i)') \in Nat
            /\ SumOf(OnChain(i)') <= sum'[i]
        BY <1>1, <3>1, OnChainSum
      <3>3. total["block"] <= sum'[i]
        BY <1>3, <3>1, <3>2
      <3>4. QED
        BY <1>3, <2>1, <2>4, <3>3 DEF Plain
    <2>5. CASE Mark /\ i = checked /\ inv'[i] = MarkedConfirmed(inv[i])
      <3>1. inv'[i].received = inv[i].received
        BY <2>1, <2>5 DEF MarkedConfirmed, Row
      <3>2. QED
        BY <1>3, <2>1, <3>1
    <2>6. CASE \E p \in Prices : Finalize(i, p)
      <3>1. inv'[i].received = inv[i].received
        BY <1>1, <2>1, <2>6
        DEF Finalize, SetRow, Finalized, Row, TypeInv, TypeOK
      <3>2. QED
        BY <1>3, <2>1, <3>1
    <2>7. CASE \E S \in SUBSET Txids : QueueDeliveries(i, S)
      <3>1. Reopened(inv[i]).received = inv[i].received
        BY <2>1 DEF Reopened, Row
      <3>2. inv'[i].received = inv[i].received
        BY <1>1, <2>7, <3>1 DEF QueueDeliveries, SetRow, TypeInv, TypeOK
      <3>3. QED
        BY <1>3, <2>1, <3>2
    <2>8. QED
      BY <2>1, <2>2, <2>3, <2>4, <2>5, <2>6, <2>7 DEF RowStep
  <1>5. ASSUME NEW i \in Invoices, inv'[i].status \in Settled
        PROVE  SumOf(OnChain(i)') >= Minimum(inv'[i])
    <2>1. inv[i] \in Row /\ inv'[i] \in Row
      BY <1>1 DEF TypeInv, TypeOK
    <2>2. Minimum(inv[i]) \in Nat
      BY <2>1, MinimumType DEF Row, Minimum
    <2>3. \/ inv[i].status \in Settled
          \/ /\ Mark /\ i = checked
             /\ inv[i].status = "detected" /\ inv'[i].status = "confirmed"
      BY <1>5, Settles
    <2>4. Minimum(inv'[i]) = Minimum(inv[i])
      BY <1>5, <2>3, NextPromise
      DEF Promise!Next, Promise!Open, Promise!Quote, Promise!Account,
          Promise!Confirm, Promise!Refund, Promise!Expire, Promise!Fix,
          Promise!Reopen, Promise!Void, Promise!Rest, Settled,
          Promise!SameQuote, Minimum
    <2>5. Minimum(inv[i]) <= SumOf(OnChain(i) \ {})
      <3>1. OnChain(i) \ {} = OnChain(i)
        OBVIOUS
      <3>2. CASE inv[i].status \in Settled
        BY <2>2, <3>1, <3>2 DEF CountInv, ConfirmedOnChain
      <3>3. CASE Mark /\ i = checked
        <4>1. /\ pc["block"] = "mark" /\ i \in confirming
              /\ view["block"][i].status = "detected" /\ ViewSafe("block", i)
          BY <3>3 DEF Mark, IInv, PointersOK, RecheckSafe, Workers
        <4>2. Minimum(view["block"][i]) = Minimum(inv[i])
          BY <4>1 DEF ViewSafe, Minimum
        <4>3. /\ total["block"] >= Minimum(inv[i]) /\ total["block"] \in Nat
              /\ total["block"] <= SumOf(OnChain(i))
          BY <1>1, <3>3, <4>1, <4>2
          DEF IInv, RecheckSafe, TotalsCounted, TypeInv, TypeOK, Workers
        <4>4. IsFiniteSet(OnChain(i)) /\ OnChain(i) \in SUBSET Txids
          <5>1. OnChain(i) \subseteq recorded[i] /\ recorded[i] \in SUBSET Txids
            BY <1>1 DEF OnChain, TypeInv, TypeOK
          <5>2. QED
            BY <1>1, <5>1, FS_Subset DEF RowsCounted
        <4>5. SumOf(OnChain(i)) \in Nat
          BY <4>4, SumOfMonotone
        <4>6. QED
          BY <2>2, <3>1, <4>3, <4>5
      <3>4. QED
        BY <2>3, <3>2, <3>3
    <2>6. Minimum(inv[i]) <= SumOf(OnChain(i)') /\ SumOf(OnChain(i)') \in Nat
      BY <1>1, <2>2, <2>5, OnChainSum
    <2>7. QED
      BY <2>2, <2>4, <2>6
  <1>6. ConfirmedOnChain'
    BY <1>5 DEF ConfirmedOnChain
  <1>7. QED
    BY <1>2, <1>4, <1>6 DEF CountInv

\* Replays, evictions and the two scanners never count a transaction twice.
THEOREM CountsOnce == Spec => []CountedOnce
  <1>1. CountInv => CountedOnce
    BY DEF CountInv, CountedOnce, RowsCounted
  <1>2. QED
    BY <1>1, InitIInv, NextIInv, InitCount, NextCount, PTL DEF Spec

\* What is confirmed was paid in blocks.
THEOREM ConfirmsOnChain == Spec => []ConfirmedOnChain
  <1>1. CountInv => ConfirmedOnChain
    BY DEF CountInv
  <1>2. QED
    BY <1>1, InitIInv, NextIInv, InitCount, NextCount, PTL DEF Spec

-----------------------------------------------------------------------------
(* No payment is lost.                                                     *)

\* How the chain changes.
LEMMA ChainSteps ==
  ASSUME [Next]_vars
  PROVE  \/ UNCHANGED <<sent, mined, tip, reorged>>
         \/ \E t \in Txids : Send(t)
         \/ \E S \in SUBSET Txids : Mine(S)
         \/ \E S \in SUBSET Txids : Reorg(S)
  BY DEF Next, Handlers, Create, CreateDraft, Finalize, Cancel, Refund,
         RowOnly, Tick, Chain, MempoolStep, Poll, Fetch, Push, MempoolDone,
         RecordStep, Insert, Sum, Update, Decide, Evict, BlockStep, ExpireOld,
         TakeView, RecheckStep, Recheck, Check, StoreTotal, StoredAnd, Mark,
         JumpToTip, FetchBlocks, BlockDone, Fault, Fulfil, SkipScan,
         CheckFails, Fail, Crash, vars, chainVars, historyVars, Others,
         ReserveSwap, QueueDeliveries, LookPause, VoidPause, LapseDraft, Take,
         Accept, DeliveryStep, TakeDelivery, DeliveryDone, Forget, Cached,
         swapVars, lossVars

\* How the checkpoint, the history and the caches change.
LEMMA PassSteps ==
  ASSUME TypeInv, [Next]_vars
  PROVE  /\ UNCHANGED <<last, saved>> \/ JumpToTip \/ BlockDone \/ Crash
         /\ missed \subseteq missed' /\ reorged \subseteq reorged'
         /\ refused \subseteq refused'
         /\ \/ seen' \subseteq seen
            \/ \E w \in Workers, t \in Txids : Take(w, t)
            \/ \E w \in Workers : Decide(w)
            \/ \E t \in Txids : Push(t)
  <1> DEFINE Goal ==
        /\ UNCHANGED <<last, saved>> \/ JumpToTip \/ BlockDone \/ Crash
        /\ missed \subseteq missed' /\ reorged \subseteq reorged'
        /\ refused \subseteq refused'
        /\ \/ seen' \subseteq seen
           \/ \E w \in Workers, t \in Txids : Take(w, t)
           \/ \E w \in Workers : Decide(w)
           \/ \E t \in Txids : Push(t)
  <1> USE DEF TypeInv, TypeOK, PointersOK, Workers, Goto, Forget, InRecord,
              chainVars, workVars, swapVars, lossVars, dbVars, recheckVars,
              historyVars, Advance
  <1>1. CASE Handlers \/ Others \/ Tick \/ Chain \/ (\E u \in Txids : Evict(u))
             \/ UNCHANGED vars
    BY <1>1 DEF Handlers, Create, CreateDraft, Finalize, Cancel, Refund, RowOnly,
                Others, ReserveSwap, QueueDeliveries, LookPause, VoidPause,
                LapseDraft, Tick, Chain, Send, Mine, Reorg, OffChain, Evict, vars
  <1>2. CASE Fault
    BY <1>2 DEF Fault, SkipScan, CheckFails, NextInvoice, Fail, Crash
  <1>3. ASSUME NEW v \in Workers, RecordStep(v) PROVE Goal
    BY <1>3 DEF RecordStep, Take, Accept, Insert, Sum, Update, Decide
  <1>4. CASE \/ Poll \/ (\E S \in SUBSET Txids : Fetch(S))
             \/ (\E u \in Txids : Push(u)) \/ MempoolDone
             \/ (\E u \in Txids : TakeDelivery(u)) \/ DeliveryDone
    BY <1>4 DEF Poll, Fetch, Push, MempoolDone, TakeDelivery, DeliveryDone, Rest
  <1>5. CASE \/ ExpireOld \/ TakeView \/ JumpToTip \/ BlockDone
             \/ \E h \in 1 .. MaxHeight + 1 : FetchBlocks(h)
    BY <1>5 DEF ExpireOld, TakeView, JumpToTip, FetchBlocks, BlockDone, Rest
  <1>6. CASE RecheckStep
    BY <1>6 DEF RecheckStep, Recheck, Check, StoreTotal, StoredAnd, Mark, Fulfil,
                NextInvoice
  <1>7. QED
    BY <1>1, <1>2, <1>3, <1>4, <1>5, <1>6
    DEF Next, MempoolStep, BlockStep, DeliveryStep

\* Where a payment is refused, and where a delivery is queued.
LEMMA RefusedSteps ==
  ASSUME TypeInv, [Next]_vars
  PROVE  /\ \/ refused' = refused
            \/ \E w \in Workers : Accept(w) \/ \E t \in Txids : Take(w, t)
         /\ \/ delivered' = delivered
            \/ \E i \in Invoices, S \in SUBSET Txids : QueueDeliveries(i, S)
  <1> DEFINE Goal ==
        /\ \/ refused' = refused
           \/ \E w \in Workers : Accept(w) \/ \E t \in Txids : Take(w, t)
        /\ \/ delivered' = delivered
           \/ \E i \in Invoices, S \in SUBSET Txids : QueueDeliveries(i, S)
  <1> USE DEF TypeInv, TypeOK, PointersOK, Workers, Goto, Forget, InRecord,
              chainVars, workVars, swapVars, lossVars, dbVars, recheckVars,
              historyVars
  <1>1. CASE Handlers \/ Others \/ Tick \/ Chain \/ (\E u \in Txids : Evict(u))
             \/ UNCHANGED vars
    BY <1>1 DEF Handlers, Create, CreateDraft, Finalize, Cancel, Refund, RowOnly,
                Others, ReserveSwap, QueueDeliveries, LookPause, VoidPause,
                LapseDraft, Tick, Chain, Send, Mine, Reorg, OffChain, Evict, vars
  <1>2. CASE Fault
    BY <1>2 DEF Fault, SkipScan, CheckFails, NextInvoice, Fail, Crash
  <1>3. ASSUME NEW v \in Workers, RecordStep(v) PROVE Goal
    BY <1>3 DEF RecordStep, Take, Accept, Insert, Sum, Update, Decide
  <1>4. CASE \/ Poll \/ (\E S \in SUBSET Txids : Fetch(S))
             \/ (\E u \in Txids : Push(u)) \/ MempoolDone
             \/ (\E u \in Txids : TakeDelivery(u)) \/ DeliveryDone
    BY <1>4 DEF Poll, Fetch, Push, MempoolDone, TakeDelivery, DeliveryDone, Rest
  <1>5. CASE \/ ExpireOld \/ TakeView \/ JumpToTip \/ BlockDone
             \/ \E h \in 1 .. MaxHeight + 1 : FetchBlocks(h)
    BY <1>5 DEF ExpireOld, TakeView, JumpToTip, FetchBlocks, BlockDone, Rest
  <1>6. CASE RecheckStep
    BY <1>6 DEF RecheckStep, Recheck, Check, StoreTotal, StoredAnd, Mark, Fulfil,
                NextInvoice
  <1>7. QED
    BY <1>1, <1>2, <1>3, <1>4, <1>5, <1>6
    DEF Next, MempoolStep, BlockStep, DeliveryStep

\* How the block worker's batch changes.
LEMMA BatchSteps ==
  ASSUME TypeInv, [Next]_vars, InBatch'
  PROVE  \/ \E h \in 1 .. MaxHeight + 1 : FetchBlocks(h)
         \/ /\ InBatch
            /\ UNCHANGED <<target, last, saved>> /\ view'["block"] = view["block"]
            /\ \/ todo'["block"] = todo["block"]
               \/ \E t \in Txids : Take("block", t)
               \/ Decide("block")
  <1> DEFINE Goal ==
        \/ \E h \in 1 .. MaxHeight + 1 : FetchBlocks(h)
        \/ /\ InBatch
           /\ UNCHANGED <<target, last, saved>> /\ view'["block"] = view["block"]
           /\ \/ todo'["block"] = todo["block"]
              \/ \E t \in Txids : Take("block", t)
              \/ Decide("block")
  <1> USE DEF TypeInv, TypeOK, PointersOK, Workers, Goto, Forget, InRecord,
              chainVars, workVars, swapVars, lossVars, dbVars, recheckVars,
              historyVars, InBatch
  <1>1. CASE Handlers \/ Others \/ Tick \/ Chain \/ (\E u \in Txids : Evict(u))
             \/ UNCHANGED vars
    BY <1>1 DEF Handlers, Create, CreateDraft, Finalize, Cancel, Refund, RowOnly,
                Others, ReserveSwap, QueueDeliveries, LookPause, VoidPause,
                LapseDraft, Tick, Chain, Send, Mine, Reorg, OffChain, Evict, vars
  <1>2. CASE Fault
    BY <1>2 DEF Fault, SkipScan, CheckFails, NextInvoice, Fail, Crash
  <1>3. ASSUME NEW v \in Workers, RecordStep(v) PROVE Goal
    BY <1>3 DEF RecordStep, Take, Accept, Insert, Sum, Update, Decide
  <1>4. CASE \/ Poll \/ (\E S \in SUBSET Txids : Fetch(S))
             \/ (\E u \in Txids : Push(u)) \/ MempoolDone
             \/ (\E u \in Txids : TakeDelivery(u)) \/ DeliveryDone
    BY <1>4 DEF Poll, Fetch, Push, MempoolDone, TakeDelivery, DeliveryDone, Rest
  <1>5. CASE \/ ExpireOld \/ TakeView \/ JumpToTip \/ BlockDone
             \/ \E h \in 1 .. MaxHeight + 1 : FetchBlocks(h)
    BY <1>5 DEF ExpireOld, TakeView, JumpToTip, FetchBlocks, BlockDone, Rest
  <1>6. CASE RecheckStep
    BY <1>6 DEF RecheckStep, Recheck, Check, StoreTotal, StoredAnd, Mark, Fulfil,
                NextInvoice
  <1>7. QED
    BY <1>1, <1>2, <1>3, <1>4, <1>5, <1>6
    DEF Next, MempoolStep, BlockStep, DeliveryStep

\* A worker's list grows in five places ...
LEMMA TodoTaken ==
  ASSUME TypeInv, [Next]_vars, NEW w \in Workers
  PROVE  \/ todo'[w] \subseteq todo[w]
         \/ \E S \in SUBSET Txids : Fetch(S)
         \/ \E t \in Txids : Push(t) \/ TakeDelivery(t)
         \/ \E i \in Invoices : Recheck(i)
         \/ \E h \in 1 .. MaxHeight + 1 : FetchBlocks(h)
  <1> DEFINE Goal ==
        \/ todo'[w] \subseteq todo[w]
        \/ \E S \in SUBSET Txids : Fetch(S)
        \/ \E t \in Txids : Push(t) \/ TakeDelivery(t)
        \/ \E i \in Invoices : Recheck(i)
        \/ \E h \in 1 .. MaxHeight + 1 : FetchBlocks(h)
  <1> USE DEF TypeInv, TypeOK, PointersOK, Workers, Goto, Forget, InRecord,
              chainVars, workVars, swapVars, lossVars, dbVars, recheckVars,
              historyVars
  <1>1. CASE Handlers \/ Others \/ Tick \/ Chain \/ (\E u \in Txids : Evict(u))
             \/ UNCHANGED vars
    BY <1>1 DEF Handlers, Create, CreateDraft, Finalize, Cancel, Refund, RowOnly,
                Others, ReserveSwap, QueueDeliveries, LookPause, VoidPause,
                LapseDraft, Tick, Chain, Send, Mine, Reorg, OffChain, Evict, vars
  <1>2. CASE Fault
    BY <1>2 DEF Fault, SkipScan, CheckFails, NextInvoice, Fail, Crash
  <1>3. ASSUME NEW v \in Workers, RecordStep(v) PROVE Goal
    BY <1>3 DEF RecordStep, Take, Accept, Insert, Sum, Update, Decide
  <1>4. CASE \/ Poll \/ (\E S \in SUBSET Txids : Fetch(S))
             \/ (\E u \in Txids : Push(u)) \/ MempoolDone
             \/ (\E u \in Txids : TakeDelivery(u)) \/ DeliveryDone
    BY <1>4 DEF Poll, Fetch, Push, MempoolDone, TakeDelivery, DeliveryDone, Rest
  <1>5. CASE \/ ExpireOld \/ TakeView \/ JumpToTip \/ BlockDone
             \/ \E h \in 1 .. MaxHeight + 1 : FetchBlocks(h)
    BY <1>5 DEF ExpireOld, TakeView, JumpToTip, FetchBlocks, BlockDone, Rest
  <1>6. CASE RecheckStep
    BY <1>6 DEF RecheckStep, Recheck, Check, StoreTotal, StoredAnd, Mark, Fulfil,
                NextInvoice
  <1>7. QED
    BY <1>1, <1>2, <1>3, <1>4, <1>5, <1>6
    DEF Next, MempoolStep, BlockStep, DeliveryStep

\* ... and this is what it takes there.
LEMMA TodoSteps ==
  ASSUME TypeInv, [Next]_vars, NEW w \in Workers
  PROVE  \/ todo'[w] \subseteq todo[w]
         \/ \E S \in SUBSET Txids : Fetch(S) /\ todo'[w] \subseteq InMempool
         \/ \E t \in Txids : Push(t) /\ todo'[w] = {t}
         \/ \E t \in Txids : TakeDelivery(t) /\ todo'[w] = {t}
         \/ \E i \in Invoices : Recheck(i) /\ todo'[w] \subseteq recorded[i]
         \/ \E h \in 1 .. MaxHeight + 1 :
              FetchBlocks(h) /\ todo'[w] \subseteq {t \in Txids : mined[t] >= h}
  <1> USE DEF TypeInv, TypeOK, Workers
  <1>1. \/ todo'[w] \subseteq todo[w]
        \/ \E S \in SUBSET Txids : Fetch(S)
        \/ \E t \in Txids : Push(t) \/ TakeDelivery(t)
        \/ \E i \in Invoices : Recheck(i)
        \/ \E h \in 1 .. MaxHeight + 1 : FetchBlocks(h)
    BY TodoTaken
  <1>2. ASSUME NEW S \in SUBSET Txids, Fetch(S)
        PROVE  todo'[w] \subseteq todo[w] \/ todo'[w] \subseteq InMempool
    BY <1>2 DEF Fetch
  <1>3. ASSUME NEW t \in Txids, Push(t)
        PROVE  todo'[w] \subseteq todo[w] \/ todo'[w] = {t}
    BY <1>3 DEF Push
  <1>3a. ASSUME NEW t \in Txids, TakeDelivery(t)
         PROVE  todo'[w] \subseteq todo[w] \/ todo'[w] = {t}
    BY <1>3a DEF TakeDelivery
  <1>4. ASSUME NEW i \in Invoices, Recheck(i)
        PROVE  todo'[w] \subseteq todo[w] \/ todo'[w] \subseteq recorded[i]
    BY <1>4 DEF Recheck
  <1>5. ASSUME NEW h \in 1 .. MaxHeight + 1, FetchBlocks(h)
        PROVE  \/ todo'[w] \subseteq todo[w]
               \/ todo'[w] \subseteq {t \in Txids : mined[t] >= h}
    <2>1. todo' = [todo EXCEPT !["block"] = {t \in Txids : mined[t] \in h .. target'}]
      BY <1>5 DEF FetchBlocks
    <2>2. {t \in Txids : mined[t] \in h .. target'} \subseteq {t \in Txids : mined[t] >= h}
      OBVIOUS
    <2>3. QED
      BY <2>1, <2>2
  <1>6. QED
    BY <1>1, <1>2, <1>3, <1>3a, <1>4, <1>5

\* An invoice once created stays in the table.
LEMMA NeverNone ==
  ASSUME IInv, [Next]_vars, NEW i \in Invoices, inv[i].status # "none"
  PROVE  inv'[i].status # "none"
  BY NextPromise
  DEF Promise!Next, Promise!Open, Promise!Quote, Promise!Account,
      Promise!Confirm, Promise!Refund, Promise!Expire, Promise!Fix,
      Promise!Reopen, Promise!Void, Promise!Rest

\* How a worker comes to have a payment in hand.
LEMMA HandSteps ==
  ASSUME TypeInv, [Next]_vars, NEW w \in Workers, pc'[w] \in InRecord
  PROVE  /\ view'[w] = view[w] /\ todo'[w] = todo[w]
         /\ \/ \E t \in Txids : /\ t \in todo[w] /\ Matches(w, t) /\ cur'[w] = t
                                /\ pc'[w] = "accept"
            \/ /\ pc[w] \in InRecord /\ cur'[w] = cur[w]
               /\ \/ pc'[w] = pc[w]
                  \/ pc'[w] = "insert"
                  \/ pc'[w] = "decide" /\ cur[w] \in refused'
                  \/ Insert(w) /\ pc'[w] = "sum"
                  \/ pc[w] = "sum" /\ pc'[w] = "update"
                  \/ pc[w] = "update" /\ pc'[w] = "decide"
  <1> DEFINE Goal ==
        /\ view'[w] = view[w] /\ todo'[w] = todo[w]
        /\ \/ \E t \in Txids : /\ t \in todo[w] /\ Matches(w, t) /\ cur'[w] = t
                               /\ pc'[w] = "accept"
           \/ /\ pc[w] \in InRecord /\ cur'[w] = cur[w]
              /\ \/ pc'[w] = pc[w]
                 \/ pc'[w] = "insert"
                 \/ pc'[w] = "decide" /\ cur[w] \in refused'
                 \/ Insert(w) /\ pc'[w] = "sum"
                 \/ pc[w] = "sum" /\ pc'[w] = "update"
                 \/ pc[w] = "update" /\ pc'[w] = "decide"
  <1> USE DEF TypeInv, TypeOK, PointersOK, Workers, Goto, Forget, InRecord,
              chainVars, workVars, swapVars, lossVars, dbVars, recheckVars,
              historyVars
  <1>1. CASE Handlers \/ Others \/ Tick \/ Chain \/ (\E u \in Txids : Evict(u))
             \/ UNCHANGED vars
    BY <1>1 DEF Handlers, Create, CreateDraft, Finalize, Cancel, Refund, RowOnly,
                Others, ReserveSwap, QueueDeliveries, LookPause, VoidPause,
                LapseDraft, Tick, Chain, Send, Mine, Reorg, OffChain, Evict, vars
  <1>2. CASE Fault
    BY <1>2 DEF Fault, SkipScan, CheckFails, NextInvoice, Fail, Crash
  <1>3. ASSUME NEW v \in Workers, RecordStep(v) PROVE Goal
    BY <1>3 DEF RecordStep, Take, Accept, Insert, Sum, Update, Decide
  <1>4. CASE \/ Poll \/ (\E S \in SUBSET Txids : Fetch(S))
             \/ (\E u \in Txids : Push(u)) \/ MempoolDone
             \/ (\E u \in Txids : TakeDelivery(u)) \/ DeliveryDone
    BY <1>4 DEF Poll, Fetch, Push, MempoolDone, TakeDelivery, DeliveryDone, Rest
  <1>5. CASE \/ ExpireOld \/ TakeView \/ JumpToTip \/ BlockDone
             \/ \E h \in 1 .. MaxHeight + 1 : FetchBlocks(h)
    BY <1>5 DEF ExpireOld, TakeView, JumpToTip, FetchBlocks, BlockDone, Rest
  <1>6. CASE RecheckStep
    BY <1>6 DEF RecheckStep, Recheck, Check, StoreTotal, StoredAnd, Mark, Fulfil,
                NextInvoice
  <1>7. QED
    BY <1>1, <1>2, <1>3, <1>4, <1>5, <1>6
    DEF Next, MempoolStep, BlockStep, DeliveryStep

\* A worker's view stays, is dropped or is taken afresh.
LEMMA ViewSteps ==
  ASSUME TypeInv, [Next]_vars, NEW w \in Workers
  PROVE  \/ view'[w] \in {view[w], NoView, Snapshot}
         \/ \E t \in Txids : TakeDelivery(t)
  <1> DEFINE Goal ==
        \/ view'[w] \in {view[w], NoView, Snapshot}
        \/ \E t \in Txids : TakeDelivery(t)
  <1> USE DEF TypeInv, TypeOK, PointersOK, Workers, Goto, Forget, InRecord,
              chainVars, workVars, swapVars, lossVars, dbVars, recheckVars,
              historyVars
  <1>1. CASE Handlers \/ Others \/ Tick \/ Chain \/ (\E u \in Txids : Evict(u))
             \/ UNCHANGED vars
    BY <1>1 DEF Handlers, Create, CreateDraft, Finalize, Cancel, Refund, RowOnly,
                Others, ReserveSwap, QueueDeliveries, LookPause, VoidPause,
                LapseDraft, Tick, Chain, Send, Mine, Reorg, OffChain, Evict, vars
  <1>2. CASE Fault
    BY <1>2 DEF Fault, SkipScan, CheckFails, NextInvoice, Fail, Crash
  <1>3. ASSUME NEW v \in Workers, RecordStep(v) PROVE Goal
    BY <1>3 DEF RecordStep, Take, Accept, Insert, Sum, Update, Decide
  <1>4. CASE \/ Poll \/ (\E S \in SUBSET Txids : Fetch(S))
             \/ (\E u \in Txids : Push(u)) \/ MempoolDone
             \/ (\E u \in Txids : TakeDelivery(u)) \/ DeliveryDone
    BY <1>4 DEF Poll, Fetch, Push, MempoolDone, TakeDelivery, DeliveryDone, Rest
  <1>5. CASE \/ ExpireOld \/ TakeView \/ JumpToTip \/ BlockDone
             \/ \E h \in 1 .. MaxHeight + 1 : FetchBlocks(h)
    BY <1>5 DEF ExpireOld, TakeView, JumpToTip, FetchBlocks, BlockDone, Rest
  <1>6. CASE RecheckStep
    BY <1>6 DEF RecheckStep, Recheck, Check, StoreTotal, StoredAnd, Mark, Fulfil,
                NextInvoice
  <1>7. QED
    BY <1>1, <1>2, <1>3, <1>4, <1>5, <1>6
    DEF Next, MempoolStep, BlockStep, DeliveryStep

\* Every step keeps InHand.
LEMMA NextInHand ==
  ASSUME TypeInv, RowsCounted, InHand, [Next]_vars PROVE InHand'
  <1>1. ASSUME NEW w \in Workers, NEW i \in Invoices, view'[w][i] # Hidden
        PROVE  view'[w][i].status \in Awaiting \cup {"detected"}
    <2>1. CASE view'[w] = view[w]
      BY <1>1, <2>1 DEF InHand, InView
    <2>2. CASE view'[w] = NoView
      BY <1>1, <2>2 DEF NoView
    <2>3. CASE view'[w] = Snapshot
      <3>1. Remember(inv[i]) # Hidden
        BY <1>1, <2>3 DEF Snapshot
      <3>2. Remember(inv[i]).status \in Awaiting \cup {"detected"}
        BY <3>1 DEF Remember, Seen, InScannerView
      <3>3. QED
        BY <2>3, <3>2 DEF Snapshot
    <2>4. ASSUME NEW t \in Txids, TakeDelivery(t)
          PROVE  view'[w][i].status \in Awaiting \cup {"detected"}
      <3> DEFINE j == PaysTo[t]
      <3>1. /\ j \in Invoices /\ inv[j].status \in Awaiting
            /\ \/ view'[w] = view[w]
               \/ view'[w] = [NoView EXCEPT ![j] = Seen(inv[j])]
        BY <2>4, PayAssumption DEF TakeDelivery, TypeInv, TypeOK, Workers
      <3>2. [NoView EXCEPT ![j] = Seen(inv[j])][i] \in {Hidden, Seen(inv[j])}
        BY DEF NoView
      <3>3. Seen(inv[j]).status = inv[j].status
        BY DEF Seen
      <3> HIDE DEF j
      <3>4. QED
        BY <1>1, <2>1, <3>1, <3>2, <3>3
    <2>5. QED
      BY <2>1, <2>2, <2>3, <2>4, ViewSteps
  <1>2. ASSUME NEW i \in Invoices PROVE recorded[i] \subseteq recorded'[i]
    BY RowsStep
  <1>3. refused \subseteq refused' /\ refused' \subseteq missed'
    <2>1. refused \subseteq refused' /\ missed \subseteq missed'
      BY PassSteps
    <2>2. refused' \ refused \subseteq missed'
      <3>1. \/ refused' = refused
            \/ \E w \in Workers : Accept(w) \/ \E t \in Txids : Take(w, t)
        BY RefusedSteps
      <3>2. QED
        BY <3>1 DEF Accept, Take
    <2>3. QED
      BY <2>1, <2>2 DEF InHand
  <1>4. ASSUME NEW w \in Workers, pc'[w] \in InRecord
        PROVE  /\ cur'[w] \in todo'[w]
               /\ view'[w][PaysTo[cur'[w]]] # Hidden
               /\ pc'[w] \in {"sum", "update"} =>
                    cur'[w] \in recorded'[PaysTo[cur'[w]]]
               /\ pc'[w] = "decide" =>
                    cur'[w] \in recorded'[PaysTo[cur'[w]]] \cup refused'
    <2>1. view'[w] = view[w] /\ todo'[w] = todo[w]
      BY <1>4, HandSteps
    <2>2. ASSUME NEW t \in Txids, t \in todo[w], Matches(w, t), cur'[w] = t,
                 pc'[w] = "accept"
          PROVE  /\ cur'[w] \in todo'[w]
                 /\ view'[w][PaysTo[cur'[w]]] # Hidden
                 /\ pc'[w] \notin {"sum", "update", "decide"}
      BY <2>1, <2>2 DEF Matches, InView
    <2>3. CASE pc[w] \in InRecord /\ cur'[w] = cur[w]
      <3> DEFINE t == cur[w]
      <3>1. /\ t \in Txids /\ PaysTo[t] \in Invoices
            /\ t \in todo[w] /\ view[w][PaysTo[t]] # Hidden
            /\ pc[w] \in {"sum", "update"} => t \in recorded[PaysTo[t]]
            /\ pc[w] = "decide" => t \in recorded[PaysTo[t]] \cup refused
        BY <2>3, PayAssumption DEF InHand, InView, TypeInv, PointersOK
      <3>2. Insert(w) => t \in recorded'[PaysTo[t]]
        BY <3>1 DEF Insert, TypeInv, TypeOK
      <3>3. \/ pc'[w] = "accept"
            \/ pc'[w] = pc[w]
            \/ pc'[w] = "insert"
            \/ pc'[w] = "decide" /\ t \in refused'
            \/ Insert(w) /\ pc'[w] = "sum"
            \/ pc[w] = "sum" /\ pc'[w] = "update"
            \/ pc[w] = "update" /\ pc'[w] = "decide"
        BY <1>4, HandSteps
      <3>4. recorded[PaysTo[t]] \subseteq recorded'[PaysTo[t]]
        BY <1>2, <3>1
      <3> HIDE DEF t
      <3>5. /\ pc'[w] \in {"sum", "update"} => t \in recorded'[PaysTo[t]]
            /\ pc'[w] = "decide" => t \in recorded'[PaysTo[t]] \cup refused'
        BY <1>3, <3>1, <3>2, <3>3, <3>4
      <3>6. QED
        BY <2>1, <2>3, <3>1, <3>5 DEF t
    <2>4. QED
      BY <1>4, <2>2, <2>3, HandSteps
  <1>5. QED
    BY <1>1, <1>3, <1>4 DEF InHand, InView

\* Every step keeps SentFirst.
LEMMA NextSent == IInv /\ InHand /\ SentFirst /\ [Next]_vars => SentFirst'
  <1> SUFFICES ASSUME IInv, InHand, SentFirst, [Next]_vars PROVE SentFirst'
    OBVIOUS
  <1>1. TypeInv /\ TypeInv'
    BY NextType DEF IInv, TypeInv
  <1>2. sent \subseteq sent'
    BY ChainSteps DEF Send, Mine, Reorg
  <1>3. ASSUME NEW t \in Txids, mined'[t] > 0 PROVE t \in sent'
    <2>1. mined[t] > 0 \/ t \in sent
      <3>1. ASSUME NEW S \in SUBSET Txids, Mine(S) PROVE mined[t] > 0 \/ t \in sent
        BY <1>1, <1>3, <3>1 DEF Mine, InMempool, TypeInv, TypeOK
      <3>2. ASSUME NEW S \in SUBSET Txids, Reorg(S) PROVE mined[t] > 0 \/ t \in sent
        BY <1>1, <1>3, <3>2 DEF Reorg, InMempool, TypeInv, TypeOK
      <3>3. QED
        BY <1>3, <3>1, <3>2, ChainSteps DEF Send
    <2>2. QED
      BY <1>2, <2>1 DEF SentFirst
  <1>4. ASSUME NEW t \in sent' PROVE inv'[PaysTo[t]].status # "none"
    <2>1. t \in Txids /\ PaysTo[t] \in Invoices
      BY <1>1, PayAssumption DEF TypeInv, TypeOK
    <2>2. CASE t \in sent
      BY <2>1, <2>2, NeverNone DEF SentFirst
    <2>3. CASE t \notin sent
      <3>1. PICK u \in Txids : Send(u)
        BY <2>3, ChainSteps DEF Mine, Reorg
      <3>2. u = t /\ inv' = inv
        BY <2>3, <3>1 DEF Send, OffChain, dbVars
      <3>3. QED
        BY <3>1, <3>2 DEF Send
    <2>4. QED
      BY <2>2, <2>3
  <1>5. ASSUME NEW i \in Invoices, NEW t \in recorded'[i]
        PROVE  t \in sent' /\ PaysTo[t] = i
    <2>1. CASE t \in recorded[i]
      BY <1>2, <2>1 DEF SentFirst
    <2>2. CASE t \notin recorded[i]
      <3>1. PICK w \in Workers : Insert(w)
        BY <2>2, InsertOnly
      <3> DEFINE u == cur[w]
      <3>2. /\ u \in todo[w] /\ recorded' = [recorded EXCEPT ![PaysTo[u]] = @ \cup {u}]
        BY <3>1 DEF Insert, InHand, InRecord
      <3> HIDE DEF u
      <3>3. u = t /\ PaysTo[u] = i
        BY <1>1, <2>2, <3>2 DEF TypeInv, TypeOK
      <3>4. QED
        BY <1>2, <3>2, <3>3 DEF SentFirst
    <2>3. QED
      BY <2>1, <2>2
  <1>6. ASSUME NEW w \in Workers PROVE todo'[w] \subseteq sent'
    <2>1. todo[w] \subseteq sent
      BY DEF SentFirst
    <2>2. \A t \in Txids : Push(t) \/ TakeDelivery(t) => t \in sent
      BY DEF Push, TakeDelivery, SentFirst
    <2>3. \A i \in Invoices : recorded[i] \subseteq sent
      BY DEF SentFirst
    <2>4. \A h \in 1 .. MaxHeight + 1 : {t \in Txids : mined[t] >= h} \subseteq sent
      BY <1>1 DEF SentFirst, TypeInv, TypeOK
    <2>5. InMempool \subseteq sent
      BY DEF InMempool
    <2>6. QED
      BY <1>1, <1>2, <2>1, <2>2, <2>3, <2>4, <2>5, TodoSteps
  <1>7. delivered' \subseteq sent'
    BY <1>1, <1>2, RefusedSteps DEF QueueDeliveries, SentFirst
  <1>8. QED
    BY <1>3, <1>4, <1>5, <1>6, <1>7 DEF SentFirst

\* Only the two ways of creating an invoice give it a time of birth.
LEMMA BornSteps ==
  ASSUME TypeInv, [Next]_vars, NEW i \in Invoices
  PROVE  born'[i] = born[i] \/ (born'[i] = tip /\ inv[i].status = "none")
  <1>1. \/ born' = born
        \/ \E j \in Invoices, p \in Prices, x \in Exactness : Create(j, p, x)
        \/ \E j \in Invoices : CreateDraft(j)
    BY DEF Next, Handlers, Finalize, Cancel, Refund, RowOnly, Tick, Chain,
           Send, Mine, Reorg, OffChain, MempoolStep, Poll, Fetch, Push,
           MempoolDone, RecordStep, Insert, Sum, Update, Decide, Evict,
           BlockStep, ExpireOld, TakeView, RecheckStep, Recheck, Check,
           StoreTotal, StoredAnd, Mark, JumpToTip, FetchBlocks, BlockDone,
           Fault, Fulfil, SkipScan, CheckFails, Fail, Crash, vars,
           historyVars, Others, ReserveSwap, QueueDeliveries, LookPause,
           VoidPause, LapseDraft, Take, Accept, DeliveryStep, TakeDelivery,
           DeliveryDone, Forget, Cached, swapVars, lossVars
  <1>2. QED
    BY <1>1 DEF Create, CreateDraft, TypeInv, TypeOK

\* Every step keeps HeightsOK.
LEMMA NextHeights == IInv /\ SentFirst /\ HeightsOK /\ [Next]_vars => HeightsOK'
  <1> SUFFICES ASSUME IInv, SentFirst, HeightsOK, [Next]_vars PROVE HeightsOK'
    OBVIOUS
  <1>1. TypeInv /\ TypeInv'
    BY NextType DEF IInv, TypeInv
  <1>2. /\ tip \in Nat /\ tip' \in Nat /\ last \in Nat /\ saved \in Nat
        /\ target \in Nat /\ mined \in [Txids -> Nat] /\ born \in [Invoices -> Nat]
    BY <1>1 DEF TypeInv, TypeOK
  <1>3. /\ tip <= tip'
        /\ \A t \in Txids : mined'[t] <= tip'
        /\ \A t \in Txids \ reorged' :
             mined'[t] = mined[t] \/ (mined'[t] > tip /\ t \in sent)
    <2>1. \A t \in Txids : mined[t] <= tip /\ mined[t] \in Nat
      BY <1>2 DEF HeightsOK
    <2>2. CASE UNCHANGED <<sent, mined, tip, reorged>> \/ \E t \in Txids : Send(t)
      BY <1>2, <2>1, <2>2 DEF Send
    <2>3. ASSUME NEW S \in SUBSET Txids, Mine(S)
          PROVE  /\ tip <= tip'
                 /\ \A t \in Txids : mined'[t] <= tip'
                 /\ \A t \in Txids \ reorged' :
                      mined'[t] = mined[t] \/ (mined'[t] > tip /\ t \in sent)
      <3>1. /\ tip' = tip + 1 /\ S \subseteq sent
            /\ \A t \in Txids : mined'[t] = IF t \in S THEN tip + 1 ELSE mined[t]
        BY <2>3 DEF Mine, InMempool
      <3>2. QED
        BY <1>2, <2>1, <3>1
    <2>4. ASSUME NEW S \in SUBSET Txids, Reorg(S)
          PROVE  /\ tip <= tip'
                 /\ \A t \in Txids : mined'[t] <= tip'
                 /\ \A t \in Txids \ reorged' : mined'[t] = mined[t]
      <3> DEFINE old == {t \in Txids : mined[t] = tip}
      <3>1. /\ tip' = tip
            /\ \A t \in Txids : mined'[t] = IF t \in S THEN tip
                                            ELSE IF t \in old THEN 0 ELSE mined[t]
            /\ reorged' = reorged \cup (S \ old) \cup (old \ S)
        BY <2>4 DEF Reorg
      <3>2. QED
        BY <1>2, <2>1, <3>1
    <2>5. QED
      BY <2>2, <2>3, <2>4, ChainSteps
  <1>4. \A i \in Invoices : born'[i] <= tip'
    BY <1>1, <1>2, <1>3, BornSteps DEF HeightsOK
  <1>5. ASSUME NEW t \in Txids \ reorged', mined'[t] > 0
        PROVE  mined'[t] > born'[PaysTo[t]]
    <2>1. PaysTo[t] \in Invoices /\ t \notin reorged
      BY <1>1, PayAssumption, PassSteps
    <2>2. mined[t] \in Nat /\ born[PaysTo[t]] \in Nat /\ born[PaysTo[t]] <= tip
      BY <1>2, <2>1 DEF HeightsOK
    <2>3. t \in sent
      BY <1>3, <1>5, <2>1 DEF SentFirst
    <2>4. born'[PaysTo[t]] = born[PaysTo[t]]
      BY <1>1, <2>1, <2>3, BornSteps DEF SentFirst
    <2>5. CASE mined'[t] = mined[t]
      BY <1>5, <2>1, <2>4, <2>5 DEF HeightsOK
    <2>6. CASE mined'[t] > tip
      BY <1>1, <2>2, <2>4, <2>6, <1>2 DEF TypeInv, TypeOK
    <2>7. QED
      BY <1>3, <2>5, <2>6
  <1>6. saved' <= last' /\ last' <= tip'
    <2>1. CASE UNCHANGED <<last, saved>>
      BY <1>2, <1>3, <2>1 DEF HeightsOK
    <2>2. CASE JumpToTip
      BY <1>2, <2>2 DEF JumpToTip, Advance, HeightsOK, chainVars
    <2>3. CASE BlockDone
      BY <1>2, <2>3 DEF BlockDone, Advance, HeightsOK, chainVars, InBatch
    <2>4. CASE Crash
      BY <1>2, <2>4 DEF Crash, dbVars, chainVars, HeightsOK
    <2>5. QED
      BY <1>1, <2>1, <2>2, <2>3, <2>4, PassSteps
  <1>7. ASSUME InBatch' PROVE last' <= target' /\ target' <= tip'
    <2>1. ASSUME NEW h \in 1 .. MaxHeight + 1, FetchBlocks(h)
          PROVE  last' <= target' /\ target' <= tip'
      <3>1. h \in Nat /\ h >= last + 1 /\ Batch \in Nat /\ Batch >= 1
        BY <1>2, <2>1, ChainAssumption DEF FetchBlocks, Starts
      <3>2. /\ target' = IF tip < h + Batch - 1 THEN tip ELSE h + Batch - 1
            /\ last' = last /\ tip' = tip
        BY <2>1 DEF FetchBlocks, chainVars
      <3>3. last <= tip
        BY DEF HeightsOK
      <3>4. QED
        BY <1>2, <3>1, <3>2, <3>3
    <2>2. CASE InBatch /\ UNCHANGED <<target, last, saved>>
      BY <1>2, <1>3, <2>2 DEF HeightsOK
    <2>3. QED
      BY <1>1, <1>7, <2>1, <2>2, BatchSteps
  <1>8. QED
    BY <1>3, <1>4, <1>5, <1>6, <1>7 DEF HeightsOK

\* Every set of naturals has a lowest one.
LEMMA LowestIs ==
  ASSUME NEW S \in SUBSET Nat, S # {}
  PROVE  Lowest(S) \in S /\ \A g \in S : Lowest(S) <= g
  <1> DEFINE R == OpToRel(<, Nat)
  <1>1. \A x, y \in Nat : <<x, y>> \in R <=> x < y
    BY DEF OpToRel
  <1>2. IsWellFoundedOn(R, Nat)
    BY NatLessThanWellFounded
  <1> HIDE DEF R
  <1>3. PICK x \in S : \A y \in S : ~ (<<y, x>> \in R)
    BY <1>2, WFMin
  <1>4. x \in Nat /\ \A y \in S : y \in Nat /\ ~ (y < x)
    BY <1>1, <1>3
  <1>5. \A y \in S : x <= y
    BY <1>4
  <1>6. QED
    BY <1>5 DEF Lowest

\* The blocks a batch leaves out below its start hold no payment of the view.
LEMMA FetchCovers ==
  ASSUME TypeInv, HeightsOK, NEW h \in 1 .. MaxHeight + 1, FetchBlocks(h),
         NEW t \in Txids, InRange(t)'
  PROVE  t \in todo'["block"]
  <1>1. /\ mined' = mined /\ last' = last /\ view' = view /\ reorged' = reorged
        /\ todo'["block"] = {u \in Txids : mined[u] \in h .. target'}
        /\ h \in Starts
    BY DEF FetchBlocks, dbVars, chainVars, historyVars, TypeInv, TypeOK, Workers
  <1>2. /\ t \notin reorged /\ mined[t] \in (last + 1) .. target'
        /\ InView("block", PaysTo[t])
    BY <1>1 DEF InRange, InView
  <1>3. /\ PaysTo[t] \in Invoices /\ last \in Nat /\ mined[t] \in Nat
        /\ born \in [Invoices -> Nat]
    BY PayAssumption DEF TypeInv, TypeOK
  <1>4. mined[t] > born[PaysTo[t]]
    BY <1>2, <1>3 DEF HeightsOK
  <1> DEFINE B == {born[i] : i \in {j \in Invoices : InView("block", j)}}
  <1>5. born[PaysTo[t]] \in B /\ B \in SUBSET Nat
    BY <1>2, <1>3
  <1>6. Lowest(B) \in Nat /\ Lowest(B) <= born[PaysTo[t]]
    BY <1>5, LowestIs
  <1>7. h = last + 1 \/ h <= Lowest(B)
    BY <1>1, <1>3, <1>6 DEF Starts
  <1> HIDE DEF B
  <1>8. h <= mined[t]
    BY <1>2, <1>3, <1>4, <1>6, <1>7
  <1>9. QED
    BY <1>1, <1>2, <1>8

\* A transaction of a block changes height only by a reorganisation.
LEMMA MinedSteps ==
  ASSUME TypeInv, HeightsOK, [Next]_vars, NEW t \in Txids, t \notin reorged'
  PROVE  /\ t \notin reorged
         /\ \/ mined'[t] = mined[t]
            \/ mined[t] = 0 /\ mined'[t] = tip + 1 /\ UNCHANGED <<last, target>>
  <1>1. t \notin reorged /\ mined \in [Txids -> Nat]
    BY PassSteps DEF TypeInv, TypeOK
  <1>2. ASSUME NEW S \in SUBSET Txids, Mine(S)
        PROVE  \/ mined'[t] = mined[t]
               \/ mined[t] = 0 /\ mined'[t] = tip + 1 /\ UNCHANGED <<last, target>>
    <2>1. /\ S \subseteq InMempool /\ UNCHANGED <<last, target>>
          /\ mined' = [u \in Txids |-> IF u \in S THEN tip + 1 ELSE mined[u]]
      BY <1>2 DEF Mine, OffChain
    <2>2. QED
      BY <2>1 DEF InMempool
  <1>3. ASSUME NEW S \in SUBSET Txids, Reorg(S) PROVE mined'[t] = mined[t]
    <2> DEFINE old == {u \in Txids : mined[u] = tip}
    <2>1. /\ \A u \in Txids : mined'[u] = IF u \in S THEN tip
                                          ELSE IF u \in old THEN 0 ELSE mined[u]
          /\ reorged' = reorged \cup (S \ old) \cup (old \ S)
      BY <1>3 DEF Reorg
    <2>2. QED
      BY <2>1
  <1>4. QED
    BY <1>1, <1>2, <1>3, ChainSteps DEF Send

\* A transaction in range was in range before, unless the batch is new.
LEMMA RangeSteps ==
  ASSUME TypeInv, HeightsOK, [Next]_vars, InBatch', NEW t \in Txids, InRange(t)'
  PROVE  \/ \E h \in 1 .. MaxHeight + 1 : FetchBlocks(h)
         \/ /\ InBatch /\ InRange(t) /\ UNCHANGED <<target, last, saved>>
            /\ view'["block"] = view["block"]
            /\ \/ todo'["block"] = todo["block"]
               \/ \E u \in Txids : Take("block", u)
               \/ Decide("block")
  <1>1. /\ t \notin reorged' /\ mined'[t] \in (last' + 1) .. target'
        /\ view'["block"][PaysTo[t]] # Hidden
    BY DEF InRange, InView
  <1>2. SUFFICES ASSUME InBatch, UNCHANGED <<target, last, saved>>,
                        view'["block"] = view["block"]
                 PROVE  InRange(t)
    BY BatchSteps
  <1>3. last \in Nat /\ target \in Nat /\ tip \in Nat /\ target <= tip
    BY <1>2 DEF TypeInv, TypeOK, HeightsOK
  <1>4. mined'[t] <= tip
    BY <1>1, <1>2, <1>3
  <1>5. t \notin reorged /\ mined'[t] = mined[t]
    BY <1>1, <1>3, <1>4, MinedSteps
  <1>6. QED
    BY <1>1, <1>2, <1>5 DEF InRange, InView

\* What Take and Decide take off a worker's list.
LEMMA TakenOff ==
  ASSUME TypeInv, NEW w \in Workers, NEW t \in todo[w], t \notin todo'[w],
         (\E u \in Txids : Take(w, u)) \/ Decide(w)
  PROVE  \/ t \in missed' /\ (Matches(w, t) => t \in refused')
         \/ Decide(w) /\ cur[w] = t
  <1>1. todo \in [Workers -> SUBSET Txids]
    BY DEF TypeInv, TypeOK
  <1>2. ASSUME NEW u \in Txids, Take(w, u)
        PROVE  t \in missed' /\ (Matches(w, t) => t \in refused')
    <2>1. ~ (Matches(w, u) /\ Accepts(u)) /\ t = u
      BY <1>1, <1>2 DEF Take
    <2>2. QED
      BY <1>2, <2>1 DEF Take
  <1>3. CASE Decide(w)
    BY <1>1, <1>3 DEF Decide
  <1>4. QED
    BY <1>2, <1>3

\* Every step keeps BatchOK.
LEMMA NextBatch ==
  ASSUME TypeInv, RowsCounted, InHand, HeightsOK, BatchOK, [Next]_vars
  PROVE  BatchOK'
  <1>1. SUFFICES ASSUME InBatch', NEW t \in Txids, InRange(t)',
                        t \notin todo'["block"]
                 PROVE  /\ Matches("block", t)' => t \in recorded'[PaysTo[t]] \cup refused'
                        /\ t \in recorded'[PaysTo[t]] \cup missed'
    BY DEF BatchOK
  <1>2. /\ InBatch /\ InRange(t) /\ view'["block"] = view["block"]
        /\ \/ todo'["block"] = todo["block"]
           \/ \E u \in Txids : Take("block", u)
           \/ Decide("block")
    BY <1>1, RangeSteps, FetchCovers
  <1>3. /\ PaysTo[t] \in Invoices /\ recorded[PaysTo[t]] \subseteq recorded'[PaysTo[t]]
        /\ missed \subseteq missed' /\ refused \subseteq refused'
        /\ refused \subseteq missed
    BY PayAssumption, RowsStep, PassSteps DEF InHand
  <1>4. Matches("block", t)' <=> Matches("block", t)
    BY <1>2 DEF Matches, InView
  <1>5. CASE t \notin todo["block"]
    BY <1>2, <1>3, <1>4, <1>5 DEF BatchOK
  <1>6. CASE t \in todo["block"]
    <2>1. "block" \in Workers
      BY DEF Workers
    <2>2. \/ t \in missed' /\ (Matches("block", t) => t \in refused')
          \/ Decide("block") /\ cur["block"] = t
      BY <1>1, <1>2, <1>6, <2>1, TakenOff
    <2>3. Decide("block") /\ cur["block"] = t => t \in recorded[PaysTo[t]] \cup refused
      BY <2>1 DEF Decide, InHand, InRecord
    <2>4. QED
      BY <1>3, <1>4, <2>2, <2>3
  <1>7. QED
    BY <1>5, <1>6

\* What the checkpoint newly passes is in the batch, or outside the view.
LEMMA PassedOver ==
  ASSUME TypeInv, HeightsOK, [Next]_vars, NEW t \in Txids, t \notin reorged',
         mined[t] \in (last + 1) .. last'
  PROVE  /\ mined'[t] = mined[t]
         /\ \/ t \in missed' /\ ~ InView("block", PaysTo[t])
            \/ InBatch /\ InRange(t) /\ todo["block"] = {}
  <1>1. /\ t \notin reorged /\ mined \in [Txids -> Nat] /\ last \in Nat
        /\ last' \in Nat /\ tip \in Nat /\ target \in Nat /\ saved \in Nat
        /\ saved <= last
    BY NextType, PassSteps DEF TypeInv, TypeOK, HeightsOK
  <1>2. JumpToTip \/ BlockDone
    <2>1. last' # last /\ ~ (last' <= last)
      BY <1>1
    <2>2. Crash => last' = saved
      BY DEF Crash
    <2>3. QED
      BY <1>1, <2>1, <2>2, PassSteps
  <1>3. mined' = mined
    BY <1>2 DEF JumpToTip, BlockDone, chainVars
  <1>4. ~ InView("block", PaysTo[t]) => t \in missed'
    BY <1>2 DEF JumpToTip, BlockDone, Advance
  <1>5. ASSUME InView("block", PaysTo[t])
        PROVE  InBatch /\ InRange(t) /\ todo["block"] = {}
    <2>1. PaysTo[t] \in Invoices
      BY PayAssumption
    <2>2. BlockDone
      BY <1>2, <1>5, <2>1 DEF JumpToTip, InView, NoView
    <2>3. last' = target
      BY <2>2 DEF BlockDone, Advance
    <2>4. QED
      BY <1>1, <1>5, <2>2, <2>3 DEF BlockDone, InBatch, InRange, InRecord
  <1>6. QED
    BY <1>3, <1>4, <1>5

\* What enters a cache of seen transactions is decided or passed over.
LEMMA SeenSteps ==
  ASSUME TypeInv, [Next]_vars, NEW t \in seen', t \notin seen
  PROVE  \/ t \in missed'
         \/ \E w \in Workers : Decide(w) /\ cur[w] = t
  <1>1. ASSUME NEW w \in Workers, NEW u \in Txids, Take(w, u) PROVE t \in missed'
    BY <1>1 DEF Take, Cached
  <1>2. ASSUME NEW w \in Workers, Decide(w) PROVE cur[w] = t
    BY <1>2 DEF Decide, Cached
  <1>3. ASSUME NEW u \in Txids, Push(u) PROVE t \in missed'
    BY <1>3 DEF Push
  <1>4. QED
    BY <1>1, <1>2, <1>3, PassSteps

\* Every step keeps PastIsRecorded.
LEMMA NextPast ==
  ASSUME TypeInv, RowsCounted, InHand, HeightsOK, BatchOK, PastIsRecorded,
         [Next]_vars
  PROVE  PastIsRecorded'
  <1>1. SUFFICES ASSUME NEW t \in Txids, t \in seen' \/ mined'[t] \in 1 .. last',
                        t \notin missed', t \notin reorged'
                 PROVE  t \in recorded'[PaysTo[t]]
    BY DEF PastIsRecorded
  <1>2. /\ PaysTo[t] \in Invoices /\ recorded[PaysTo[t]] \subseteq recorded'[PaysTo[t]]
        /\ t \notin missed /\ t \notin reorged /\ t \notin refused
    BY <1>1, PayAssumption, RowsStep, PassSteps DEF InHand
  <1>3. SUFFICES ASSUME t \notin seen, mined[t] \notin 1 .. last
                 PROVE  t \in recorded'[PaysTo[t]]
    BY <1>2 DEF PastIsRecorded
  <1>4. CASE t \in seen'
    <2>1. PICK w \in Workers : Decide(w) /\ cur[w] = t
      BY <1>1, <1>3, <1>4, SeenSteps
    <2>2. t \in recorded[PaysTo[t]]
      BY <1>2, <2>1 DEF InHand, InRecord, Decide
    <2>3. QED
      BY <1>2, <2>2
  <1>5. CASE mined'[t] \in 1 .. last'
    <2>1. /\ mined[t] \in Nat /\ last \in Nat /\ last' \in Nat /\ tip \in Nat
          /\ last <= tip
      BY NextType DEF TypeInv, TypeOK, HeightsOK
    <2>2. mined'[t] = mined[t]
      BY <1>1, <1>5, <2>1, MinedSteps
    <2>3. mined[t] \in (last + 1) .. last'
      BY <1>3, <1>5, <2>1, <2>2
    <2>4. InBatch /\ InRange(t) /\ todo["block"] = {}
      BY <1>1, <2>3, PassedOver
    <2>5. t \in recorded[PaysTo[t]]
      BY <1>2, <2>4 DEF BatchOK
    <2>6. QED
      BY <1>2, <2>5
  <1>6. QED
    BY <1>1, <1>4, <1>5

\* What a step adds to the payments of an invoice.
LEMMA RecordedSteps ==
  ASSUME TypeInv, [Next]_vars, NEW i \in Invoices
  PROVE  \/ recorded'[i] = recorded[i] /\ sum'[i] = sum[i]
         \/ \E w \in Workers, t \in Txids :
              /\ Insert(w) /\ cur[w] = t /\ PaysTo[t] = i
              /\ t \notin recorded[i] /\ t \in recorded'[i]
  <1>1. ASSUME NEW w \in Workers, NEW t \in Txids, Insert(w), cur[w] = t
        PROVE  \/ recorded'[i] = recorded[i] /\ sum'[i] = sum[i]
               \/ PaysTo[t] = i /\ t \notin recorded[i] /\ t \in recorded'[i]
    <2>1. /\ recorded \in [Invoices -> SUBSET Txids] /\ sum \in [Invoices -> Nat]
          /\ PaysTo[t] \in Invoices
      BY PayAssumption DEF TypeInv, TypeOK
    <2>2. /\ recorded' = [recorded EXCEPT ![PaysTo[t]] = @ \cup {t}]
          /\ sum' = IF t \in recorded[PaysTo[t]] THEN sum
                    ELSE [sum EXCEPT ![PaysTo[t]] = @ + Amount[t]]
      BY <1>1 DEF Insert
    <2>3. CASE PaysTo[t] # i
      BY <2>1, <2>2, <2>3
    <2>4. CASE PaysTo[t] = i
      BY <2>1, <2>2, <2>4
    <2>5. QED
      BY <2>3, <2>4
  <1>2. \A w \in Workers : Insert(w) => cur[w] \in Txids
    BY DEF Insert, TypeInv, PointersOK, InRecord
  <1>3. QED
    BY <1>1, <1>2, InsertOnly

\* An open invoice with a payment was open before the step and asked no more,
\* unless the payment is now one for an earlier quote.
LEMMA StillOwed ==
  ASSUME IInv, SentFirst, [Next]_vars, NEW i \in Invoices,
         NEW t \in recorded[i], t \notin missed', inv'[i].status \in Awaiting
  PROVE  /\ inv[i].status \in Awaiting
         /\ Minimum(inv[i]) \in Nat /\ Minimum(inv'[i]) \in Nat
         /\ Minimum(inv[i]) <= Minimum(inv'[i])
  <1>1. TypeInv /\ t \in sent /\ PaysTo[t] = i /\ inv[i].status # "none"
    BY DEF IInv, TypeInv, SentFirst
  <1>2. inv[i] \in Row /\ inv'[i] \in Row
    BY <1>1, NextType DEF TypeInv, TypeOK
  <1>3. inv[i].status \in {"draft", "expired"} => inv'[i].status # "pending"
    <2>1. RowStep(i)
      BY <1>1, RowSteps
    <2>2. ~ \E p \in Prices : Finalize(i, p)
      BY <1>1 DEF Finalize
    <2>3. ASSUME NEW S \in SUBSET Txids, QueueDeliveries(i, S)
          PROVE  inv[i].status \in {"draft", "expired"} => inv'[i].status # "pending"
      <3>1. inv[i].status # "expired" /\ inv'[i] = Reopened(inv[i])
        BY <1>1, <2>3 DEF QueueDeliveries, SetRow, TypeInv, TypeOK
      <3>2. QED
        BY <3>1 DEF Reopened, Awaiting
    <2>4. QED
      BY <2>1, <2>2, <2>3 DEF RowStep, Plain, MarkedConfirmed
  <1>4. /\ inv[i].status \in Awaiting /\ inv'[i].price = inv[i].price
        /\ inv'[i].exact = inv[i].exact \/ inv'[i].exact
    BY <1>1, <1>3, NextPromise
    DEF Promise!Next, Promise!Open, Promise!Quote, Promise!Account,
        Promise!Confirm, Promise!Refund, Promise!Expire, Promise!Fix,
        Promise!Reopen, Promise!Void, Promise!Rest, Promise!SameQuote, Awaiting
  <1>5. \A n \in Nat : /\ (n * 995) \div 1000 \in Nat
                      /\ (n * 995) \div 1000 <= n
    OBVIOUS
  <1>6. QED
    BY <1>2, <1>4, <1>5 DEF Minimum, Row

\* A payment nobody decides on stays one that a scan is to find.
LEMMA StillPending ==
  ASSUME TypeInv, HeightsOK, [Next]_vars, NEW t \in Txids,
         t \notin missed', t \notin reorged', Pending(t),
         InBatch /\ InRange(t) => t \in todo["block"],
         ~ \E w \in Workers : Decide(w) /\ cur[w] = t
  PROVE  /\ Pending(t)'
         /\ InBatch' /\ InRange(t)' => t \in todo'["block"]
  <1>1. /\ mined[t] \in Nat /\ last \in Nat /\ last' \in Nat /\ tip \in Nat
        /\ last <= tip
    BY NextType DEF TypeInv, TypeOK, HeightsOK
  <1>2. Pending(t)'
    <2>1. CASE mined[t] = 0 /\ mined'[t] = tip + 1 /\ last' = last
      BY <1>1, <2>1 DEF Pending
    <2>2. CASE mined'[t] = mined[t]
      <3>1. CASE mined[t] = 0 /\ t \notin seen
        BY <2>2, <3>1, SeenSteps DEF Pending
      <3>2. CASE mined[t] > last
        <4>1. ~ (mined[t] \in (last + 1) .. last')
          BY PassedOver
        <4>2. mined[t] > last'
          BY <1>1, <3>2, <4>1
        <4>3. QED
          BY <2>2, <4>2 DEF Pending
      <3>3. QED
        BY <3>1, <3>2 DEF Pending
    <2>3. QED
      BY <2>1, <2>2, MinedSteps
  <1>3. ASSUME InBatch', InRange(t)' PROVE t \in todo'["block"]
    <2>1. "block" \in Workers
      BY DEF Workers
    <2>2. QED
      BY <1>3, <2>1, RangeSteps, FetchCovers, TakenOff
  <1>4. QED
    BY <1>2, <1>3

\* Whoever decides on the whole sum of the quote it saw marks it detected.
LEMMA Noticed ==
  ASSUME IInv, InHand, NEW w \in Workers, Decide(w), cur[w] \notin missed',
         NEW i \in Invoices, PaysTo[cur[w]] = i, total[w] = sum[i],
         inv[i].status \in Awaiting, sum[i] >= Minimum(inv[i])
  PROVE  inv'[i].status = "detected"
  <1>1. /\ inv \in [Invoices -> Row]
        /\ view[w][i].status \in Awaiting \cup {"detected"}
    BY DEF IInv, TypeOK, InHand, InRecord, Decide
  <1>2. SameQuote(w, i) /\ inv'[i] = Decided(w, inv[i], view[w][i], total[w])
    BY <1>1 DEF Decide, SetRow
  <1>3. view[w][i].status \in Awaiting
    BY <1>1, <1>2 DEF SameQuote
  <1>4. Minimum(view[w][i]) = Minimum(inv[i])
    BY <1>2 DEF SameQuote, Minimum
  <1>5. inv'[i] = MarkedDetected(inv[i], sum[i])
    BY <1>2, <1>3, <1>4 DEF Decided
  <1>6. inv[i].exact => sum[i] >= inv[i].price
    BY DEF Minimum
  <1>7. QED
    BY <1>1, <1>5, <1>6 DEF MarkedDetected, Row

\* Every open invoice with payments has a newest one.
NewestInv ==
  \A i \in Invoices : recorded[i] # {} => \E t \in recorded[i] : Newest(i, t)

\* A payment just inserted is the newest.
LEMMA InsertedNewest ==
  ASSUME TypeInv, InHand, HeightsOK, BatchOK, PastIsRecorded, [Next]_vars,
         NEW i \in Invoices, NEW w \in Workers, NEW t \in Txids,
         Insert(w), cur[w] = t, PaysTo[t] = i,
         t \notin recorded[i], t \in recorded'[i]
  PROVE  Newest(i, t)'
  <1>1. UNCHANGED <<mined, last, seen, todo, reorged>> /\ missed' = missed
    BY DEF Insert, chainVars, workVars, historyVars
  <1>2. ASSUME NEW v \in Workers, cur'[v] = t, pc'[v] \in {"update", "decide"},
               t \notin missed
        PROVE  FALSE
    <2>1. ~ Sum(v) /\ ~ Accept(v)
      BY DEF Sum, Accept, dbVars
    <2>2. pc[v] \in {"update", "decide"} /\ cur[v] = t
      BY <1>2, <2>1, TotalsStep
    <2>3. QED
      BY <1>2, <2>2 DEF InHand, InRecord
  <1>3. ASSUME t \notin missed \cup reorged PROVE Pending(t)'
    <2>1. t \notin seen /\ mined[t] \notin 1 .. last
      BY <1>3 DEF PastIsRecorded
    <2>2. mined[t] \in Nat /\ last \in Nat
      BY DEF TypeInv, TypeOK
    <2>3. mined[t] = 0 \/ mined[t] > last
      BY <2>1, <2>2
    <2>4. QED
      BY <1>1, <2>1, <2>3 DEF Pending
  <1>4. ASSUME t \notin missed \cup reorged, InBatch', InRange(t)'
        PROVE  t \in todo'["block"]
    <2>1. ~ \E h \in 1 .. MaxHeight + 1 : FetchBlocks(h)
      BY DEF FetchBlocks, dbVars
    <2>2. InBatch /\ InRange(t)
      BY <1>4, <2>1, RangeSteps
    <2>3. QED
      BY <1>1, <1>4, <2>2 DEF BatchOK
  <1>5. QED
    BY <1>1, <1>2, <1>3, <1>4 DEF Newest

\* The newest payment stays the newest until another one is inserted.
LEMMA StaysNewest ==
  ASSUME IInv, SentFirst, InHand, HeightsOK, [Next]_vars, NEW i \in Invoices,
         recorded'[i] = recorded[i], sum'[i] = sum[i],
         NEW t \in recorded[i], Newest(i, t)
  PROVE  Newest(i, t)'
  <1>1. TypeInv /\ t \in Txids /\ PaysTo[t] = i
    BY DEF IInv, TypeInv, TypeOK, SentFirst
  <1>2. ASSUME NEW w \in Workers, cur'[w] = t, pc'[w] \in {"update", "decide"},
               t \notin missed' \cup reorged'
        PROVE  total'[w] = sum'[i]
    <2>0. t \notin missed \cup reorged
      BY <1>1, <1>2, PassSteps
    <2>1. CASE Sum(w)
      BY <1>1, <1>2, <2>1 DEF Sum, TypeInv, TypeOK
    <2>2. CASE /\ pc[w] \in {"update", "decide"}
               /\ total'[w] = total[w] /\ cur'[w] = cur[w]
      BY <1>2, <2>0, <2>2 DEF Newest
    <2>3. CASE Accept(w) /\ cur' = cur
      BY <1>1, <1>2, <2>3 DEF Accept, Goto, TypeInv, TypeOK
    <2>4. QED
      BY <1>1, <1>2, <2>1, <2>2, <2>3, TotalsStep
  <1>3. ASSUME inv'[i].status \in Awaiting, sum'[i] >= Minimum(inv'[i]),
               t \notin missed' \cup reorged'
        PROVE  /\ Pending(t)'
               /\ InBatch' /\ InRange(t)' => t \in todo'["block"]
    <2>1. /\ inv[i].status \in Awaiting /\ sum[i] >= Minimum(inv[i])
          /\ t \notin missed \cup reorged
      <3>1. t \notin missed \cup reorged
        BY <1>1, <1>3, PassSteps
      <3>2. sum[i] \in Nat
        BY <1>1 DEF TypeInv, TypeOK
      <3>3. QED
        BY <1>3, <3>1, <3>2, StillOwed
    <2>2. Pending(t) /\ (InBatch /\ InRange(t) => t \in todo["block"])
      BY <2>1 DEF Newest
    <2>3. ASSUME NEW w \in Workers, Decide(w), cur[w] = t PROVE FALSE
      <3>1. total[w] = sum[i]
        BY <2>1, <2>3 DEF Newest, Decide
      <3>2. inv'[i].status = "detected"
        BY <1>1, <1>3, <2>1, <2>3, <3>1, Noticed
      <3>3. QED
        BY <1>3, <3>2 DEF Awaiting
    <2>4. QED
      BY <1>1, <1>3, <2>2, <2>3, StillPending
  <1>4. QED
    BY <1>2, <1>3 DEF Newest

\* Every step keeps NewestInv.
LEMMA NextNewest ==
  ASSUME IInv, ScanInv, [Next]_vars PROVE NewestInv'
  <1>1. TypeInv
    BY DEF IInv, TypeInv
  <1>2. SUFFICES ASSUME NEW i \in Invoices, recorded'[i] # {}
                 PROVE  \E t \in recorded'[i] : Newest(i, t)'
    BY DEF NewestInv
  <1>3. CASE recorded'[i] = recorded[i] /\ sum'[i] = sum[i]
    BY <1>2, <1>3, StaysNewest DEF ScanInv
  <1>4. ASSUME NEW w \in Workers, NEW t \in Txids,
               Insert(w), cur[w] = t, PaysTo[t] = i,
               t \notin recorded[i], t \in recorded'[i]
        PROVE  \E u \in recorded'[i] : Newest(i, u)'
    BY <1>1, <1>4, InsertedNewest DEF ScanInv
  <1>5. QED
    BY <1>1, <1>3, <1>4, RecordedSteps

-----------------------------------------------------------------------------
(* A payment is noticed, and the checkpoint passes none.                   *)

\* The initial state satisfies the strengthening.
LEMMA InitScan == Init => ScanInv
  <1> SUFFICES ASSUME Init PROVE ScanInv
    OBVIOUS
  <1>1. SentFirst /\ InHand
    BY DEF Init, SentFirst, InHand, InView, InRecord, NoView, NoRow, Workers
  <1>2. HeightsOK /\ BatchOK
    BY DEF Init, HeightsOK, BatchOK, InBatch, InRecord, Workers
  <1>3. PastIsRecorded
    BY DEF Init, PastIsRecorded
  <1>4. QED
    BY <1>1, <1>2, <1>3 DEF Init, ScanInv

\* Every step preserves it, given what is already proved.
LEMMA NextScan == IInv /\ CountInv /\ ScanInv /\ [Next]_vars => ScanInv'
  <1> SUFFICES ASSUME IInv, CountInv, ScanInv, [Next]_vars PROVE ScanInv'
    OBVIOUS
  <1>1. /\ TypeInv /\ RowsCounted /\ SentFirst /\ InHand /\ HeightsOK /\ BatchOK
        /\ PastIsRecorded
    BY DEF IInv, TypeInv, CountInv, ScanInv
  <1>2. SentFirst' /\ InHand' /\ HeightsOK'
    BY <1>1, NextSent, NextInHand, NextHeights
  <1>3. BatchOK' /\ PastIsRecorded'
    BY <1>1, NextBatch, NextPast
  <1>4. NewestInv'
    BY NextNewest
  <1>5. QED
    BY <1>2, <1>3, <1>4 DEF ScanInv, NewestInv

\* A fully paid invoice is detected, or a scan that will find one of its
\* payments is still to come.
THEOREM PaidNoticed == Spec => []PaidIsNoticed
  <1>1. ScanInv => PaidIsNoticed
    BY DEF ScanInv, Newest, PaidIsNoticed
  <1>2. QED
    BY <1>1, InitIInv, NextIInv, InitCount, NextCount, InitScan, NextScan, PTL
    DEF Spec

\* The checkpoint moves past recorded payments only, or past refused ones.
THEOREM CheckpointCovered == Spec => CheckpointCoversView
  <1> DEFINE Covered == \A t \in Txids :
                          /\ t \notin reorged
                          /\ mined[t] \in (last + 1) .. last'
                          /\ Matches("block", t)
                          => t \in recorded[PaysTo[t]] \cup refused
  <1>1. IInv /\ ScanInv /\ [Next]_vars => [Covered]_last
    <2> SUFFICES ASSUME IInv, ScanInv, [Next]_vars, last' # last,
                        NEW t \in Txids, t \notin reorged,
                        mined[t] \in (last + 1) .. last', Matches("block", t)
                 PROVE  t \in recorded[PaysTo[t]] \cup refused
      OBVIOUS
    <2>1. TypeInv /\ HeightsOK /\ BatchOK
      BY DEF IInv, TypeInv, ScanInv
    <2>2. t \notin reorged'
      BY <2>1, PassSteps DEF JumpToTip, BlockDone, Crash, historyVars
    <2>3. InView("block", PaysTo[t])
      BY DEF Matches
    <2>4. InBatch /\ InRange(t) /\ todo["block"] = {}
      BY <2>1, <2>2, <2>3, PassedOver
    <2>5. QED
      BY <2>1, <2>4 DEF BatchOK
  <1>2. QED
    BY <1>1, InitIInv, NextIInv, InitCount, NextCount, InitScan, NextScan, PTL
    DEF Spec, CheckpointCoversView
=====================
