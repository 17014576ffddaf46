------------------------- MODULE SubscriptionsProofs -------------------------
(***************************************************************************)
(* Proofs about Subscriptions: type correctness, and from the invariant    *)
(* IInv that a confirmed invoice buys exactly one period, for any number   *)
(* of invoices, requests and restarts and any lengths of time.             *)
(***************************************************************************)
EXTENDS Subscriptions, TLAPS

-----------------------------------------------------------------------------
(* Type correctness.                                                       *)

\* The statements turn rows into rows.
LEMMA StatementTypes ==
  ASSUME NEW row \in Row
  PROVE  /\ Drafted \in Row
         /\ Finalized(row, Price) \in Row
         /\ MarkedDetected(row, Price) \in Row
         /\ MarkedConfirmed(row) \in Row
         /\ MarkedRefunded(row) \in Row
         /\ ExpiredIfOld(row) \in Row
         /\ DroppedDraft(row) \in Row
         /\ Voided(row) \in Row
         /\ Aged(row) \in Row
  <1>1. Past \in Int /\ QuoteTTL \in Int /\ DetectTTL \in Int /\ Price \in Nat
    BY TTLAssumption DEF Past, Price
  <1> USE <1>1 DEF Row, Statuses, Awaiting
  <1>2. Drafted \in Row
    BY DEF Drafted, NoRow
  <1>3. Finalized(row, Price) \in Row /\ MarkedDetected(row, Price) \in Row
    BY DEF Finalized, MarkedDetected
  <1>4. MarkedConfirmed(row) \in Row /\ MarkedRefunded(row) \in Row
    BY DEF MarkedConfirmed, MarkedRefunded
  <1>5. ExpiredIfOld(row) \in Row /\ DroppedDraft(row) \in Row /\ Voided(row) \in Row
    BY DEF ExpiredIfOld, DroppedDraft, Voided
  <1>6. [row EXCEPT !.left = row.left - 1] \in Row
    <2>1. row.left - 1 \in Int
      OBVIOUS
    <2>2. QED
      BY <2>1
  <1>7. QED
    BY <1>2, <1>3, <1>4, <1>5, <1>6 DEF Aged

\* A new subscription, as a row.
LEMMA NewSubType == NewSub \in Subscription
  BY PeriodAssumption, SubscriptionBoundAssumption DEF Subscription, NewSub, SubStatuses

\* A task that goes to a step of its own keeps every task at one of its steps.
LEMMA GotoLabels ==
  ASSUME LabelsOK, NEW l
  PROVE  /\ l \in EngineLabels /\ Goto("engine", l) => LabelsOK'
         /\ l \in ScannerLabels /\ Goto("scanner", l) => LabelsOK'
         /\ l \in PayerLabels /\ Goto("payer", l) => LabelsOK'
         /\ l \in PauseLabels /\ Goto("pause", l) => LabelsOK'
         /\ l \in ResumeLabels /\ Goto("resume", l) => LabelsOK'
         /\ l \in CancelLabels /\ Goto("cancel", l) => LabelsOK'
  BY DEF LabelsOK, Goto, Tasks, Renewers, Requests, Labels

\* Nor does it lose its invoice.
LEMMA GotoPointers ==
  ASSUME PointersOK, LabelsOK, NEW t \in Tasks, NEW l
  PROVE  /\ Goto(t, l) /\ at' = at /\ (l \in Holding => at[t] \in Invoices) => PointersOK'
         /\ Done(t) => PointersOK'
         /\ \A i \in Invoices : Goto(t, l) /\ at' = [at EXCEPT ![t] = i] => PointersOK'
         /\ \A i \in 0 .. MaxInvoices :
              Goto(t, l) /\ l \notin Holding /\ at' = [at EXCEPT ![t] = i] => PointersOK'
  BY SubscriptionBoundAssumption DEF PointersOK, LabelsOK, Goto, Done, Holding, Invoices

\* Columns of the subscription written together.
LEMMA OlderType ==
  ASSUME NEW s \in Subscription
  PROVE  Older(s) \in Subscription
  <1>1. s.left - 1 \in Int
    BY DEF Subscription
  <1>2. QED
    BY <1>1 DEF Subscription, Older

\* A period and its link written together.
LEMMA PeriodType ==
  ASSUME NEW s \in Subscription, NEW l \in Int
  PROVE  /\ [s EXCEPT !.status = "active", !.left = l, !.cur = 0] \in Subscription
         /\ [s EXCEPT !.status = "active", !.pausing = FALSE, !.left = l, !.cur = 0]
              \in Subscription
  <1>1. 0 \in 0 .. MaxInvoices
    BY SubscriptionBoundAssumption
  <1>2. QED
    BY <1>1 DEF Subscription, SubStatuses

\* The initial state is well typed.
LEMMA InitType == Init => TypeOK
  <1> SUFFICES ASSUME Init PROVE TypeOK
    OBVIOUS
  <1>1. NoRow \in Row
    BY DEF NoRow, Row, Statuses, Past
  <1>2. LabelsOK
    BY DEF Init, LabelsOK, Tasks, Requests, Renewers, Labels, EngineLabels,
           ScannerLabels, PayerLabels, PauseLabels, ResumeLabels, CancelLabels
  <1>3. PointersOK
    BY SubscriptionBoundAssumption DEF Init, PointersOK, Holding
  <1>4. QED
    BY <1>1, <1>2, <1>3, NewSubType DEF Init, TypeOK

\* Every step keeps the types.
LEMMA NextType == TypeOK /\ [Next]_vars => TypeOK'
  <1> SUFFICES ASSUME TypeOK, [Next]_vars PROVE TypeOK'
    OBVIOUS
  <1> USE SubscriptionBoundAssumption
  <1>1. CASE StartPass
    <2>1. sub' \in Subscription
      BY <1>1 DEF TypeOK, StartPass, Subscription, SubStatuses, dbVars
    <2>2. inv' \in [Invoices -> Row] /\ paid' \subseteq Invoices /\ active' \in BOOLEAN
      BY <1>1, StatementTypes DEF TypeOK, StartPass, dbVars
    <2>3. LabelsOK'
      BY <1>1, GotoLabels DEF TypeOK, StartPass, Done, Look, taskVars, EngineLabels
    <2>4. PointersOK'
      BY <1>1, GotoPointers DEF TypeOK, StartPass, Look, Tasks, Renewers, Requests, Holding
    <2>5. seen' \in [Renewers -> Subscription]
      BY <1>1, NewSubType DEF TypeOK, StartPass, Renewers, Look, Forget, taskVars
    <2>6. /\ age' \in Nat /\ renewals' \in [Invoices -> Nat]
          /\ crashes' \in Nat /\ requests' \in Nat
      BY <1>1 DEF TypeOK, StartPass, countVars
    <2>7. QED
      BY <2>1, <2>2, <2>3, <2>4, <2>5, <2>6 DEF TypeOK
  <1>2. CASE CancelAtEnd
    <2>1. sub' \in Subscription
      BY <1>2 DEF TypeOK, CancelAtEnd, Subscription, SubStatuses, dbVars
    <2>2. inv' \in [Invoices -> Row] /\ paid' \subseteq Invoices /\ active' \in BOOLEAN
      BY <1>2, StatementTypes DEF TypeOK, CancelAtEnd, dbVars
    <2>3. LabelsOK'
      BY <1>2, GotoLabels DEF TypeOK, CancelAtEnd, Done, Look, taskVars, EngineLabels
    <2>4. PointersOK'
      BY <1>2, GotoPointers DEF TypeOK, CancelAtEnd, Look, Tasks, Renewers, Requests,
         Holding
    <2>5. seen' \in [Renewers -> Subscription]
      BY <1>2, NewSubType DEF TypeOK, CancelAtEnd, Renewers, Look, Forget, taskVars
    <2>6. /\ age' \in Nat /\ renewals' \in [Invoices -> Nat]
          /\ crashes' \in Nat /\ requests' \in Nat
      BY <1>2 DEF TypeOK, CancelAtEnd, countVars
    <2>7. QED
      BY <2>1, <2>2, <2>3, <2>4, <2>5, <2>6 DEF TypeOK
  <1>3. CASE ReadDue
    <2>1. sub' \in Subscription
      BY <1>3 DEF TypeOK, ReadDue, Subscription, SubStatuses, dbVars
    <2>2. inv' \in [Invoices -> Row] /\ paid' \subseteq Invoices /\ active' \in BOOLEAN
      BY <1>3, StatementTypes DEF TypeOK, ReadDue, dbVars
    <2>3. LabelsOK'
      BY <1>3, GotoLabels DEF TypeOK, ReadDue, Done, Look, taskVars, EngineLabels
    <2>4. PointersOK'
      BY <1>3, GotoPointers DEF TypeOK, ReadDue, Look, Tasks, Renewers, Requests, Holding
    <2>5. seen' \in [Renewers -> Subscription]
      BY <1>3, NewSubType DEF TypeOK, ReadDue, Renewers, Look, Forget, taskVars
    <2>6. /\ age' \in Nat /\ renewals' \in [Invoices -> Nat]
          /\ crashes' \in Nat /\ requests' \in Nat
      BY <1>3 DEF TypeOK, ReadDue, countVars
    <2>7. QED
      BY <2>1, <2>2, <2>3, <2>4, <2>5, <2>6 DEF TypeOK
  <1>4. CASE LookDue
    <2>1. sub' \in Subscription
      BY <1>4 DEF TypeOK, LookDue, Subscription, SubStatuses, dbVars
    <2>2. inv' \in [Invoices -> Row] /\ paid' \subseteq Invoices /\ active' \in BOOLEAN
      BY <1>4, StatementTypes DEF TypeOK, LookDue, dbVars
    <2>3. LabelsOK'
      BY <1>4, GotoLabels DEF TypeOK, LookDue, Done, Look, taskVars, EngineLabels
    <2>4. PointersOK'
      BY <1>4, GotoPointers DEF TypeOK, LookDue, Look, Tasks, Renewers, Requests, Holding
    <2>5. seen' \in [Renewers -> Subscription]
      BY <1>4, NewSubType DEF TypeOK, LookDue, Renewers, Look, Forget, taskVars
    <2>6. /\ age' \in Nat /\ renewals' \in [Invoices -> Nat]
          /\ crashes' \in Nat /\ requests' \in Nat
      BY <1>4 DEF TypeOK, LookDue, countVars
    <2>7. QED
      BY <2>1, <2>2, <2>3, <2>4, <2>5, <2>6 DEF TypeOK
  <1>5. CASE LosePrice
    <2>1. sub' \in Subscription
      BY <1>5 DEF TypeOK, LosePrice, Subscription, SubStatuses, dbVars
    <2>2. inv' \in [Invoices -> Row] /\ paid' \subseteq Invoices /\ active' \in BOOLEAN
      BY <1>5, StatementTypes DEF TypeOK, LosePrice, dbVars
    <2>3. LabelsOK'
      BY <1>5, GotoLabels DEF TypeOK, LosePrice, Done, Look, taskVars, EngineLabels
    <2>4. PointersOK'
      BY <1>5, GotoPointers DEF TypeOK, LosePrice, Look, Tasks, Renewers, Requests, Holding
    <2>5. seen' \in [Renewers -> Subscription]
      BY <1>5, NewSubType DEF TypeOK, LosePrice, Renewers, Look, Forget, taskVars
    <2>6. /\ age' \in Nat /\ renewals' \in [Invoices -> Nat]
          /\ crashes' \in Nat /\ requests' \in Nat
      BY <1>5 DEF TypeOK, LosePrice, countVars
    <2>7. QED
      BY <2>1, <2>2, <2>3, <2>4, <2>5, <2>6 DEF TypeOK
  <1>6. CASE Draft
    <2>1. sub' \in Subscription
      BY <1>6 DEF TypeOK, Draft, Subscription, SubStatuses, dbVars
    <2>2. inv' \in [Invoices -> Row] /\ paid' \subseteq Invoices /\ active' \in BOOLEAN
      BY <1>6, StatementTypes DEF TypeOK, Draft, dbVars
    <2>3. LabelsOK'
      BY <1>6, GotoLabels DEF TypeOK, Draft, Done, Look, taskVars, EngineLabels
    <2>4. PointersOK'
      BY <1>6, GotoPointers DEF TypeOK, Draft, Look, Tasks, Renewers, Requests, Holding
    <2>5. seen' \in [Renewers -> Subscription]
      BY <1>6, NewSubType DEF TypeOK, Draft, Renewers, Look, Forget, taskVars
    <2>6. /\ age' \in Nat /\ renewals' \in [Invoices -> Nat]
          /\ crashes' \in Nat /\ requests' \in Nat
      BY <1>6 DEF TypeOK, Draft, countVars
    <2>7. QED
      BY <2>1, <2>2, <2>3, <2>4, <2>5, <2>6 DEF TypeOK
  <1>7. CASE LinkDraft
    <2>1. sub' \in Subscription
      BY <1>7 DEF TypeOK, LinkDraft, Subscription, PointersOK, Tasks, Renewers
    <2>2. inv' \in [Invoices -> Row] /\ paid' \subseteq Invoices /\ active' \in BOOLEAN
      BY <1>7, StatementTypes DEF TypeOK, LinkDraft, dbVars
    <2>3. LabelsOK'
      BY <1>7, GotoLabels DEF TypeOK, LinkDraft, Done, Look, taskVars, EngineLabels
    <2>4. PointersOK'
      <3>1. 0 \in 0 .. MaxInvoices
        OBVIOUS
      <3>2. QED
        BY <1>7, <3>1, GotoPointers DEF TypeOK, LinkDraft, Tasks, Renewers, Holding
    <2>5. seen' \in [Renewers -> Subscription]
      BY <1>7, NewSubType DEF TypeOK, LinkDraft, Renewers, Look, Forget, taskVars
    <2>6. /\ age' \in Nat /\ renewals' \in [Invoices -> Nat]
          /\ crashes' \in Nat /\ requests' \in Nat
      BY <1>7 DEF TypeOK, LinkDraft, countVars
    <2>7. QED
      BY <2>1, <2>2, <2>3, <2>4, <2>5, <2>6 DEF TypeOK
  <1>8. CASE ReadEnded
    <2>1. sub' \in Subscription
      BY <1>8 DEF TypeOK, ReadEnded, Subscription, SubStatuses, dbVars
    <2>2. inv' \in [Invoices -> Row] /\ paid' \subseteq Invoices /\ active' \in BOOLEAN
      BY <1>8, StatementTypes DEF TypeOK, ReadEnded, dbVars
    <2>3. LabelsOK'
      BY <1>8, GotoLabels DEF TypeOK, ReadEnded, Done, Look, taskVars, EngineLabels
    <2>4. PointersOK'
      BY <1>8, GotoPointers DEF TypeOK, ReadEnded, Look, Tasks, Renewers, Requests, Holding
    <2>5. seen' \in [Renewers -> Subscription]
      BY <1>8, NewSubType DEF TypeOK, ReadEnded, Renewers, Look, Forget, taskVars
    <2>6. /\ age' \in Nat /\ renewals' \in [Invoices -> Nat]
          /\ crashes' \in Nat /\ requests' \in Nat
      BY <1>8 DEF TypeOK, ReadEnded, countVars
    <2>7. QED
      BY <2>1, <2>2, <2>3, <2>4, <2>5, <2>6 DEF TypeOK
  <1>9. CASE Judge
    <2>1. sub' \in Subscription
      BY <1>9 DEF TypeOK, Judge, Status, Subscription, SubStatuses, dbVars
    <2>2. inv' \in [Invoices -> Row] /\ paid' \subseteq Invoices /\ active' \in BOOLEAN
      BY <1>9, StatementTypes DEF TypeOK, Judge, Status, dbVars
    <2>3. LabelsOK'
      BY <1>9, GotoLabels DEF TypeOK, Judge, Status, Done, Look, taskVars, EngineLabels
    <2>4. PointersOK'
      <3>1. seen["engine"].cur \in 0 .. MaxInvoices
        BY DEF TypeOK, Subscription, Renewers
      <3>2. Status(seen["engine"].cur) = "confirmed" => seen["engine"].cur \in Invoices
        BY <3>1 DEF Status, Invoices
      <3>3. QED
        BY <1>9, <3>2, GotoPointers DEF TypeOK, Judge, Tasks, Renewers, Holding
    <2>5. seen' \in [Renewers -> Subscription]
      BY <1>9, NewSubType DEF TypeOK, Judge, Status, Renewers, Look, Forget, taskVars
    <2>6. /\ age' \in Nat /\ renewals' \in [Invoices -> Nat]
          /\ crashes' \in Nat /\ requests' \in Nat
      BY <1>9 DEF TypeOK, Judge, Status, countVars
    <2>7. QED
      BY <2>1, <2>2, <2>3, <2>4, <2>5, <2>6 DEF TypeOK
  <1>10. CASE Overdue
    <2>1. sub' \in Subscription
      BY <1>10 DEF TypeOK, Overdue, Subscription, SubStatuses, dbVars
    <2>2. inv' \in [Invoices -> Row] /\ paid' \subseteq Invoices /\ active' \in BOOLEAN
      BY <1>10, StatementTypes DEF TypeOK, Overdue, dbVars
    <2>3. LabelsOK'
      BY <1>10, GotoLabels DEF TypeOK, Overdue, Done, Look, taskVars, EngineLabels
    <2>4. PointersOK'
      BY <1>10, GotoPointers DEF TypeOK, Overdue, Look, Tasks, Renewers, Requests, Holding
    <2>5. seen' \in [Renewers -> Subscription]
      BY <1>10, NewSubType DEF TypeOK, Overdue, Renewers, Look, Forget, taskVars
    <2>6. /\ age' \in Nat /\ renewals' \in [Invoices -> Nat]
          /\ crashes' \in Nat /\ requests' \in Nat
      BY <1>10 DEF TypeOK, Overdue, countVars
    <2>7. QED
      BY <2>1, <2>2, <2>3, <2>4, <2>5, <2>6 DEF TypeOK
  <1>11. CASE DropDraft
    <2>1. sub' \in Subscription
      BY <1>11 DEF TypeOK, DropDraft, Subscription, SubStatuses, dbVars
    <2>2. inv' \in [Invoices -> Row] /\ paid' \subseteq Invoices /\ active' \in BOOLEAN
      BY <1>11, StatementTypes DEF TypeOK, DropDraft, dbVars
    <2>3. LabelsOK'
      BY <1>11, GotoLabels DEF TypeOK, DropDraft, Done, Look, taskVars, EngineLabels
    <2>4. PointersOK'
      BY <1>11, GotoPointers DEF TypeOK, DropDraft, Look, Tasks, Renewers, Requests, Holding
    <2>5. seen' \in [Renewers -> Subscription]
      BY <1>11, NewSubType DEF TypeOK, DropDraft, Renewers, Look, Forget, taskVars
    <2>6. /\ age' \in Nat /\ renewals' \in [Invoices -> Nat]
          /\ crashes' \in Nat /\ requests' \in Nat
      BY <1>11 DEF TypeOK, DropDraft, countVars
    <2>7. QED
      BY <2>1, <2>2, <2>3, <2>4, <2>5, <2>6 DEF TypeOK
  <1>12. CASE Confirm
    <2>1. sub' \in Subscription
      BY <1>12 DEF TypeOK, Confirm, Subscription, SubStatuses, dbVars
    <2>2. inv' \in [Invoices -> Row] /\ paid' \subseteq Invoices /\ active' \in BOOLEAN
      BY <1>12, StatementTypes DEF TypeOK, Confirm, PointersOK, Holding, Tasks, Renewers,
         Requests
    <2>3. LabelsOK'
      BY <1>12, GotoLabels DEF TypeOK, Confirm, Done, Look, taskVars, ScannerLabels
    <2>4. PointersOK'
      <3>1. at["scanner"] \in Invoices
        BY <1>12 DEF TypeOK, Confirm, PointersOK, Holding, Tasks, Renewers
      <3>2. QED
        BY <1>12, <3>1, GotoPointers DEF TypeOK, Confirm, Tasks, Renewers
    <2>5. seen' \in [Renewers -> Subscription]
      BY <1>12, NewSubType DEF TypeOK, Confirm, Renewers, Look, Forget, taskVars
    <2>6. /\ age' \in Nat /\ renewals' \in [Invoices -> Nat]
          /\ crashes' \in Nat /\ requests' \in Nat
      BY <1>12 DEF TypeOK, Confirm, countVars
    <2>7. QED
      BY <2>1, <2>2, <2>3, <2>4, <2>5, <2>6 DEF TypeOK
  <1>13. CASE Quote
    <2>1. sub' \in Subscription
      BY <1>13 DEF TypeOK, Quote, Subscription, SubStatuses, dbVars
    <2>2. inv' \in [Invoices -> Row] /\ paid' \subseteq Invoices /\ active' \in BOOLEAN
      BY <1>13, StatementTypes DEF TypeOK, Quote, PointersOK, Holding, Tasks, Renewers,
         Requests
    <2>3. LabelsOK'
      BY <1>13, GotoLabels DEF TypeOK, Quote, Done, Look, taskVars, PayerLabels
    <2>4. PointersOK'
      BY <1>13, GotoPointers DEF TypeOK, Quote, Look, Tasks, Renewers, Requests, Holding
    <2>5. seen' \in [Renewers -> Subscription]
      BY <1>13, NewSubType DEF TypeOK, Quote, Renewers, Look, Forget, taskVars
    <2>6. /\ age' \in Nat /\ renewals' \in [Invoices -> Nat]
          /\ crashes' \in Nat /\ requests' \in Nat
      BY <1>13 DEF TypeOK, Quote, countVars
    <2>7. QED
      BY <2>1, <2>2, <2>3, <2>4, <2>5, <2>6 DEF TypeOK
  <1>14. CASE ExpireOld
    <2>1. sub' \in Subscription
      BY <1>14 DEF TypeOK, ExpireOld, Subscription, SubStatuses, dbVars
    <2>2. inv' \in [Invoices -> Row] /\ paid' \subseteq Invoices /\ active' \in BOOLEAN
      BY <1>14, StatementTypes DEF TypeOK, ExpireOld, dbVars
    <2>3. LabelsOK'
      BY <1>14 DEF TypeOK, LabelsOK, taskVars, ExpireOld
    <2>4. PointersOK'
      BY <1>14 DEF TypeOK, ExpireOld, PointersOK, taskVars
    <2>5. seen' \in [Renewers -> Subscription]
      BY <1>14, NewSubType DEF TypeOK, ExpireOld, Renewers, Look, Forget, taskVars
    <2>6. /\ age' \in Nat /\ renewals' \in [Invoices -> Nat]
          /\ crashes' \in Nat /\ requests' \in Nat
      BY <1>14 DEF TypeOK, ExpireOld, countVars
    <2>7. QED
      BY <2>1, <2>2, <2>3, <2>4, <2>5, <2>6 DEF TypeOK
  <1>15. CASE AskPause
    <2>1. sub' \in Subscription
      BY <1>15 DEF TypeOK, AskPause, Request, Subscription, SubStatuses, dbVars
    <2>2. inv' \in [Invoices -> Row] /\ paid' \subseteq Invoices /\ active' \in BOOLEAN
      BY <1>15, StatementTypes DEF TypeOK, AskPause, Request, dbVars
    <2>3. LabelsOK'
      BY <1>15, GotoLabels DEF TypeOK, AskPause, Request, Done, Look, taskVars, PauseLabels
    <2>4. PointersOK'
      <3>1. sub.cur \in 0 .. MaxInvoices
        BY DEF TypeOK, Subscription
      <3>2. QED
        BY <1>15, <3>1, GotoPointers DEF TypeOK, AskPause, Tasks, Requests, Holding
    <2>5. seen' \in [Renewers -> Subscription]
      BY <1>15, NewSubType DEF TypeOK, AskPause, Request, Renewers, Look, Forget, taskVars
    <2>6. /\ age' \in Nat /\ renewals' \in [Invoices -> Nat]
          /\ crashes' \in Nat /\ requests' \in Nat
      BY <1>15 DEF TypeOK, AskPause, Request, countVars
    <2>7. QED
      BY <2>1, <2>2, <2>3, <2>4, <2>5, <2>6 DEF TypeOK
  <1>16. CASE LookPause
    <2>1. sub' \in Subscription
      BY <1>16 DEF TypeOK, LookPause, Status, InProgress, Subscription, SubStatuses, dbVars
    <2>2. inv' \in [Invoices -> Row] /\ paid' \subseteq Invoices /\ active' \in BOOLEAN
      BY <1>16, StatementTypes DEF TypeOK, LookPause, Status, InProgress, dbVars
    <2>3. LabelsOK'
      BY <1>16, GotoLabels DEF TypeOK, LookPause, Status, InProgress, Done, Look, taskVars,
         PauseLabels
    <2>4. PointersOK'
      <3>1. at["pause"] \in 0 .. MaxInvoices
        BY DEF TypeOK, PointersOK, Tasks, Requests
      <3>2. Status(at["pause"]) \in InProgress => at["pause"] \in Invoices
        BY <3>1 DEF Status, Invoices, InProgress
      <3>3. QED
        BY <1>16, <3>2, GotoPointers DEF TypeOK, LookPause, Tasks, Requests, Holding
    <2>5. seen' \in [Renewers -> Subscription]
      BY <1>16, NewSubType DEF TypeOK, LookPause, Status, InProgress, Renewers, Look,
         Forget, taskVars
    <2>6. /\ age' \in Nat /\ renewals' \in [Invoices -> Nat]
          /\ crashes' \in Nat /\ requests' \in Nat
      BY <1>16 DEF TypeOK, LookPause, Status, InProgress, countVars
    <2>7. QED
      BY <2>1, <2>2, <2>3, <2>4, <2>5, <2>6 DEF TypeOK
  <1>17. CASE VoidPause
    <2>1. sub' \in Subscription
      BY <1>17 DEF TypeOK, VoidPause, Subscription, SubStatuses, dbVars
    <2>2. inv' \in [Invoices -> Row] /\ paid' \subseteq Invoices /\ active' \in BOOLEAN
      BY <1>17, StatementTypes DEF TypeOK, VoidPause, PointersOK, Holding, Tasks, Renewers,
         Requests
    <2>3. LabelsOK'
      BY <1>17, GotoLabels DEF TypeOK, VoidPause, Done, Look, taskVars, PauseLabels
    <2>4. PointersOK'
      BY <1>17, GotoPointers DEF TypeOK, VoidPause, Look, Tasks, Renewers, Requests, Holding
    <2>5. seen' \in [Renewers -> Subscription]
      BY <1>17, NewSubType DEF TypeOK, VoidPause, Renewers, Look, Forget, taskVars
    <2>6. /\ age' \in Nat /\ renewals' \in [Invoices -> Nat]
          /\ crashes' \in Nat /\ requests' \in Nat
      BY <1>17 DEF TypeOK, VoidPause, countVars
    <2>7. QED
      BY <2>1, <2>2, <2>3, <2>4, <2>5, <2>6 DEF TypeOK
  <1>18. CASE DetachPause
    <2>1. sub' \in Subscription
      BY <1>18 DEF TypeOK, DetachPause, Subscription, PointersOK, Tasks, Renewers
    <2>2. inv' \in [Invoices -> Row] /\ paid' \subseteq Invoices /\ active' \in BOOLEAN
      BY <1>18, StatementTypes DEF TypeOK, DetachPause, dbVars
    <2>3. LabelsOK'
      BY <1>18, GotoLabels DEF TypeOK, DetachPause, Done, Look, taskVars, PauseLabels
    <2>4. PointersOK'
      BY <1>18, GotoPointers DEF TypeOK, DetachPause, Look, Tasks, Renewers, Requests,
         Holding
    <2>5. seen' \in [Renewers -> Subscription]
      BY <1>18, NewSubType DEF TypeOK, DetachPause, Renewers, Look, Forget, taskVars
    <2>6. /\ age' \in Nat /\ renewals' \in [Invoices -> Nat]
          /\ crashes' \in Nat /\ requests' \in Nat
      BY <1>18 DEF TypeOK, DetachPause, countVars
    <2>7. QED
      BY <2>1, <2>2, <2>3, <2>4, <2>5, <2>6 DEF TypeOK
  <1>19. CASE FlagPause
    <2>1. sub' \in Subscription
      BY <1>19 DEF TypeOK, FlagPause, Subscription, SubStatuses, dbVars
    <2>2. inv' \in [Invoices -> Row] /\ paid' \subseteq Invoices /\ active' \in BOOLEAN
      BY <1>19, StatementTypes DEF TypeOK, FlagPause, dbVars
    <2>3. LabelsOK'
      BY <1>19, GotoLabels DEF TypeOK, FlagPause, Done, Look, taskVars, PauseLabels
    <2>4. PointersOK'
      BY <1>19, GotoPointers DEF TypeOK, FlagPause, Look, Tasks, Renewers, Requests, Holding
    <2>5. seen' \in [Renewers -> Subscription]
      BY <1>19, NewSubType DEF TypeOK, FlagPause, Renewers, Look, Forget, taskVars
    <2>6. /\ age' \in Nat /\ renewals' \in [Invoices -> Nat]
          /\ crashes' \in Nat /\ requests' \in Nat
      BY <1>19 DEF TypeOK, FlagPause, countVars
    <2>7. QED
      BY <2>1, <2>2, <2>3, <2>4, <2>5, <2>6 DEF TypeOK
  <1>20. CASE AskResume
    <2>1. sub' \in Subscription
      BY <1>20 DEF TypeOK, AskResume, Request, Subscription, SubStatuses, dbVars
    <2>2. inv' \in [Invoices -> Row] /\ paid' \subseteq Invoices /\ active' \in BOOLEAN
      BY <1>20, StatementTypes DEF TypeOK, AskResume, Request, dbVars
    <2>3. LabelsOK'
      BY <1>20, GotoLabels DEF TypeOK, AskResume, Request, Done, Look, taskVars,
         ResumeLabels
    <2>4. PointersOK'
      BY <1>20, GotoPointers DEF TypeOK, AskResume, Request, Look, Tasks, Renewers,
         Requests, Holding
    <2>5. seen' \in [Renewers -> Subscription]
      BY <1>20, NewSubType DEF TypeOK, AskResume, Request, Renewers, Look, Forget, taskVars
    <2>6. /\ age' \in Nat /\ renewals' \in [Invoices -> Nat]
          /\ crashes' \in Nat /\ requests' \in Nat
      BY <1>20 DEF TypeOK, AskResume, Request, countVars
    <2>7. QED
      BY <2>1, <2>2, <2>3, <2>4, <2>5, <2>6 DEF TypeOK
  <1>21. CASE FreshPeriod
    <2>1. sub' \in Subscription
      <3>1. Period \in Int
        BY PeriodAssumption
      <3>2. QED
        BY <1>21, <3>1, PeriodType DEF TypeOK, FreshPeriod
    <2>2. inv' \in [Invoices -> Row] /\ paid' \subseteq Invoices /\ active' \in BOOLEAN
      BY <1>21, StatementTypes DEF TypeOK, FreshPeriod, dbVars
    <2>3. LabelsOK'
      BY <1>21, GotoLabels DEF TypeOK, FreshPeriod, Done, Look, taskVars, ResumeLabels
    <2>4. PointersOK'
      BY <1>21, GotoPointers DEF TypeOK, FreshPeriod, Look, Tasks, Renewers, Requests,
         Holding
    <2>5. seen' \in [Renewers -> Subscription]
      BY <1>21, NewSubType DEF TypeOK, FreshPeriod, Renewers, Look, Forget, taskVars
    <2>6. /\ age' \in Nat /\ renewals' \in [Invoices -> Nat]
          /\ crashes' \in Nat /\ requests' \in Nat
      BY <1>21 DEF TypeOK, FreshPeriod, countVars
    <2>7. QED
      BY <2>1, <2>2, <2>3, <2>4, <2>5, <2>6 DEF TypeOK
  <1>22. CASE Unflag
    <2>1. sub' \in Subscription
      BY <1>22 DEF TypeOK, Unflag, Subscription, SubStatuses, dbVars
    <2>2. inv' \in [Invoices -> Row] /\ paid' \subseteq Invoices /\ active' \in BOOLEAN
      BY <1>22, StatementTypes DEF TypeOK, Unflag, dbVars
    <2>3. LabelsOK'
      BY <1>22, GotoLabels DEF TypeOK, Unflag, Done, Look, taskVars, ResumeLabels
    <2>4. PointersOK'
      BY <1>22, GotoPointers DEF TypeOK, Unflag, Look, Tasks, Renewers, Requests, Holding
    <2>5. seen' \in [Renewers -> Subscription]
      BY <1>22, NewSubType DEF TypeOK, Unflag, Renewers, Look, Forget, taskVars
    <2>6. /\ age' \in Nat /\ renewals' \in [Invoices -> Nat]
          /\ crashes' \in Nat /\ requests' \in Nat
      BY <1>22 DEF TypeOK, Unflag, countVars
    <2>7. QED
      BY <2>1, <2>2, <2>3, <2>4, <2>5, <2>6 DEF TypeOK
  <1>23. CASE AskCancel
    <2>1. sub' \in Subscription
      BY <1>23 DEF TypeOK, AskCancel, Request, Subscription, SubStatuses, dbVars
    <2>2. inv' \in [Invoices -> Row] /\ paid' \subseteq Invoices /\ active' \in BOOLEAN
      BY <1>23, StatementTypes DEF TypeOK, AskCancel, Request, dbVars
    <2>3. LabelsOK'
      BY <1>23, GotoLabels DEF TypeOK, AskCancel, Request, Done, Look, taskVars,
         CancelLabels
    <2>4. PointersOK'
      BY <1>23, GotoPointers DEF TypeOK, AskCancel, Request, Look, Tasks, Renewers,
         Requests, Holding
    <2>5. seen' \in [Renewers -> Subscription]
      BY <1>23, NewSubType DEF TypeOK, AskCancel, Request, Renewers, Look, Forget, taskVars
    <2>6. /\ age' \in Nat /\ renewals' \in [Invoices -> Nat]
          /\ crashes' \in Nat /\ requests' \in Nat
      BY <1>23 DEF TypeOK, AskCancel, Request, countVars
    <2>7. QED
      BY <2>1, <2>2, <2>3, <2>4, <2>5, <2>6 DEF TypeOK
  <1>24. CASE WriteCancel
    <2>1. sub' \in Subscription
      BY <1>24 DEF TypeOK, WriteCancel, Subscription, SubStatuses, dbVars
    <2>2. inv' \in [Invoices -> Row] /\ paid' \subseteq Invoices /\ active' \in BOOLEAN
      BY <1>24, StatementTypes DEF TypeOK, WriteCancel, dbVars
    <2>3. LabelsOK'
      BY <1>24, GotoLabels DEF TypeOK, WriteCancel, Done, Look, taskVars, CancelLabels
    <2>4. PointersOK'
      BY <1>24, GotoPointers DEF TypeOK, WriteCancel, Look, Tasks, Renewers, Requests,
         Holding
    <2>5. seen' \in [Renewers -> Subscription]
      BY <1>24, NewSubType DEF TypeOK, WriteCancel, Renewers, Look, Forget, taskVars
    <2>6. /\ age' \in Nat /\ renewals' \in [Invoices -> Nat]
          /\ crashes' \in Nat /\ requests' \in Nat
      BY <1>24 DEF TypeOK, WriteCancel, countVars
    <2>7. QED
      BY <2>1, <2>2, <2>3, <2>4, <2>5, <2>6 DEF TypeOK
  <1>25. CASE Deactivate
    <2>1. sub' \in Subscription
      BY <1>25 DEF TypeOK, Deactivate, Subscription, SubStatuses, dbVars
    <2>2. inv' \in [Invoices -> Row] /\ paid' \subseteq Invoices /\ active' \in BOOLEAN
      BY <1>25, StatementTypes DEF TypeOK, Deactivate, dbVars
    <2>3. LabelsOK'
      BY <1>25 DEF TypeOK, LabelsOK, taskVars, Deactivate
    <2>4. PointersOK'
      BY <1>25 DEF TypeOK, Deactivate, PointersOK, taskVars
    <2>5. seen' \in [Renewers -> Subscription]
      BY <1>25, NewSubType DEF TypeOK, Deactivate, Renewers, Look, Forget, taskVars
    <2>6. /\ age' \in Nat /\ renewals' \in [Invoices -> Nat]
          /\ crashes' \in Nat /\ requests' \in Nat
      BY <1>25 DEF TypeOK, Deactivate, countVars
    <2>7. QED
      BY <2>1, <2>2, <2>3, <2>4, <2>5, <2>6 DEF TypeOK
  <1>26. CASE Tick
    <2>1. sub' \in Subscription
      BY <1>26, OlderType, PeriodType, PeriodAssumption DEF TypeOK, Tick
    <2>2. inv' \in [Invoices -> Row] /\ paid' \subseteq Invoices /\ active' \in BOOLEAN
      BY <1>26, StatementTypes DEF TypeOK, Tick, Older, dbVars
    <2>3. LabelsOK'
      BY <1>26 DEF TypeOK, LabelsOK, taskVars, Tick, Older
    <2>4. PointersOK'
      BY <1>26 DEF TypeOK, Tick, Older, PointersOK, taskVars
    <2>5. seen' \in [Renewers -> Subscription]
      BY <1>26, OlderType DEF TypeOK, Tick, Renewers
    <2>6. /\ age' \in Nat /\ renewals' \in [Invoices -> Nat]
          /\ crashes' \in Nat /\ requests' \in Nat
      BY <1>26 DEF TypeOK, Tick, Older, countVars
    <2>7. QED
      BY <2>1, <2>2, <2>3, <2>4, <2>5, <2>6 DEF TypeOK
  <1>27. CASE Crash
    <2>1. sub' \in Subscription
      BY <1>27 DEF TypeOK, Crash, Subscription, SubStatuses, dbVars
    <2>2. inv' \in [Invoices -> Row] /\ paid' \subseteq Invoices /\ active' \in BOOLEAN
      BY <1>27, StatementTypes DEF TypeOK, Crash, dbVars
    <2>3. LabelsOK'
      BY <1>27 DEF Crash, LabelsOK, Tasks, Requests, Renewers, Labels, EngineLabels,
             ScannerLabels, PayerLabels, PauseLabels, ResumeLabels, CancelLabels
    <2>4. PointersOK'
      BY <1>27 DEF Crash, PointersOK, Holding
    <2>5. seen' \in [Renewers -> Subscription]
      BY <1>27, NewSubType DEF TypeOK, Crash, Renewers, Look, Forget, taskVars
    <2>6. /\ age' \in Nat /\ renewals' \in [Invoices -> Nat]
          /\ crashes' \in Nat /\ requests' \in Nat
      BY <1>27 DEF TypeOK, Crash, countVars
    <2>7. QED
      BY <2>1, <2>2, <2>3, <2>4, <2>5, <2>6 DEF TypeOK
  <1>28. ASSUME NEW t \in Renewers, ReadRenewal(t) PROVE TypeOK'
    <2>1. sub' \in Subscription
      BY <1>28 DEF TypeOK, ReadRenewal, Renewable, Subscription, SubStatuses, dbVars
    <2>2. inv' \in [Invoices -> Row] /\ paid' \subseteq Invoices /\ active' \in BOOLEAN
      BY <1>28, StatementTypes DEF TypeOK, ReadRenewal, Renewable, dbVars
    <2>3. LabelsOK'
      BY <1>28, GotoLabels DEF TypeOK, Renewers, ReadRenewal, Renewable, Done, Look,
         EngineLabels, ScannerLabels
    <2>4. PointersOK'
      BY <1>28, GotoPointers DEF TypeOK, ReadRenewal, Renewable, Look, Tasks, Renewers,
         Requests, Holding
    <2>5. seen' \in [Renewers -> Subscription]
      BY <1>28, NewSubType DEF TypeOK, ReadRenewal, Renewable, Renewers, Look, Forget,
         taskVars
    <2>6. /\ age' \in Nat /\ renewals' \in [Invoices -> Nat]
          /\ crashes' \in Nat /\ requests' \in Nat
      BY <1>28 DEF TypeOK, ReadRenewal, Renewable, countVars
    <2>7. QED
      BY <2>1, <2>2, <2>3, <2>4, <2>5, <2>6 DEF TypeOK
  <1>29. ASSUME NEW t \in Renewers, ApplyRenewal(t) PROVE TypeOK'
    <2>1. sub' \in Subscription
      <3>1. RenewedLeft(t) \in Int
        BY PeriodAssumption DEF TypeOK, RenewedLeft, Subscription, Renewers
      <3>2. [sub EXCEPT !.status = "active", !.left = RenewedLeft(t),
         !.cur = 0] \in Subscription
        BY <3>1, PeriodType DEF TypeOK
      <3>3. QED
        BY <1>29, <3>2 DEF TypeOK, ApplyRenewal
    <2>2. inv' \in [Invoices -> Row] /\ paid' \subseteq Invoices /\ active' \in BOOLEAN
      BY <1>29, StatementTypes DEF TypeOK, ApplyRenewal, CanApply, RenewedLeft, Renewable,
         dbVars
    <2>3. LabelsOK'
      BY <1>29, GotoLabels DEF TypeOK, Renewers, ApplyRenewal, CanApply, RenewedLeft,
         Renewable, Done, Look, EngineLabels, ScannerLabels
    <2>4. PointersOK'
      BY <1>29, GotoPointers DEF TypeOK, ApplyRenewal, CanApply, RenewedLeft, Renewable,
         Look, Tasks, Renewers, Requests, Holding
    <2>5. seen' \in [Renewers -> Subscription]
      BY <1>29, NewSubType DEF TypeOK, ApplyRenewal, CanApply, RenewedLeft, Renewable,
         Renewers, Look, Forget, taskVars
    <2>6. /\ age' \in Nat /\ renewals' \in [Invoices -> Nat]
          /\ crashes' \in Nat /\ requests' \in Nat
      BY <1>29 DEF TypeOK, ApplyRenewal, CanApply, RenewedLeft, Renewable, countVars
    <2>7. QED
      BY <2>1, <2>2, <2>3, <2>4, <2>5, <2>6 DEF TypeOK
  <1>30. ASSUME NEW i \in Invoices, See(i) PROVE TypeOK'
    <2>1. sub' \in Subscription
      BY <1>30 DEF TypeOK, See, Subscription, SubStatuses, dbVars
    <2>2. inv' \in [Invoices -> Row] /\ paid' \subseteq Invoices /\ active' \in BOOLEAN
      BY <1>30, StatementTypes DEF TypeOK, See, dbVars
    <2>3. LabelsOK'
      BY <1>30, GotoLabels DEF TypeOK, See, Done, Look, taskVars, ScannerLabels
    <2>4. PointersOK'
      BY <1>30, GotoPointers DEF TypeOK, See, Look, Tasks, Renewers, Requests, Holding
    <2>5. seen' \in [Renewers -> Subscription]
      BY <1>30, NewSubType DEF TypeOK, See, Renewers, Look, Forget, taskVars
    <2>6. /\ age' \in Nat /\ renewals' \in [Invoices -> Nat]
          /\ crashes' \in Nat /\ requests' \in Nat
      BY <1>30 DEF TypeOK, See, countVars
    <2>7. QED
      BY <2>1, <2>2, <2>3, <2>4, <2>5, <2>6 DEF TypeOK
  <1>31. ASSUME NEW i \in Invoices, Detect(i) PROVE TypeOK'
    <2>1. sub' \in Subscription
      BY <1>31 DEF TypeOK, Detect, Subscription, SubStatuses, dbVars
    <2>2. inv' \in [Invoices -> Row] /\ paid' \subseteq Invoices /\ active' \in BOOLEAN
      BY <1>31, StatementTypes DEF TypeOK, Detect, dbVars
    <2>3. LabelsOK'
      BY <1>31 DEF TypeOK, LabelsOK, taskVars, Detect
    <2>4. PointersOK'
      BY <1>31 DEF TypeOK, Detect, PointersOK, taskVars
    <2>5. seen' \in [Renewers -> Subscription]
      BY <1>31, NewSubType DEF TypeOK, Detect, Renewers, Look, Forget, taskVars
    <2>6. /\ age' \in Nat /\ renewals' \in [Invoices -> Nat]
          /\ crashes' \in Nat /\ requests' \in Nat
      BY <1>31 DEF TypeOK, Detect, countVars
    <2>7. QED
      BY <2>1, <2>2, <2>3, <2>4, <2>5, <2>6 DEF TypeOK
  <1>32. ASSUME NEW i \in Invoices, ReadQuote(i) PROVE TypeOK'
    <2>1. sub' \in Subscription
      BY <1>32 DEF TypeOK, ReadQuote, Subscription, SubStatuses, dbVars
    <2>2. inv' \in [Invoices -> Row] /\ paid' \subseteq Invoices /\ active' \in BOOLEAN
      BY <1>32, StatementTypes DEF TypeOK, ReadQuote, dbVars
    <2>3. LabelsOK'
      BY <1>32, GotoLabels DEF TypeOK, ReadQuote, Done, Look, taskVars, PayerLabels
    <2>4. PointersOK'
      BY <1>32, GotoPointers DEF TypeOK, ReadQuote, Look, Tasks, Renewers, Requests, Holding
    <2>5. seen' \in [Renewers -> Subscription]
      BY <1>32, NewSubType DEF TypeOK, ReadQuote, Renewers, Look, Forget, taskVars
    <2>6. /\ age' \in Nat /\ renewals' \in [Invoices -> Nat]
          /\ crashes' \in Nat /\ requests' \in Nat
      BY <1>32 DEF TypeOK, ReadQuote, countVars
    <2>7. QED
      BY <2>1, <2>2, <2>3, <2>4, <2>5, <2>6 DEF TypeOK
  <1>33. ASSUME NEW i \in Invoices, Refund(i) PROVE TypeOK'
    <2>1. sub' \in Subscription
      BY <1>33 DEF TypeOK, Refund, Subscription, SubStatuses, dbVars
    <2>2. inv' \in [Invoices -> Row] /\ paid' \subseteq Invoices /\ active' \in BOOLEAN
      BY <1>33, StatementTypes DEF TypeOK, Refund, dbVars
    <2>3. LabelsOK'
      BY <1>33 DEF TypeOK, LabelsOK, taskVars, Refund
    <2>4. PointersOK'
      BY <1>33 DEF TypeOK, Refund, PointersOK, taskVars
    <2>5. seen' \in [Renewers -> Subscription]
      BY <1>33, NewSubType DEF TypeOK, Refund, Renewers, Look, Forget, taskVars
    <2>6. /\ age' \in Nat /\ renewals' \in [Invoices -> Nat]
          /\ crashes' \in Nat /\ requests' \in Nat
      BY <1>33 DEF TypeOK, Refund, countVars
    <2>7. QED
      BY <2>1, <2>2, <2>3, <2>4, <2>5, <2>6 DEF TypeOK
  <1>34. CASE UNCHANGED vars
    BY <1>34 DEF vars, dbVars, taskVars, countVars, TypeOK, LabelsOK, PointersOK
  <1>35. QED
    BY <1>1, <1>2, <1>3, <1>4, <1>5, <1>6, <1>7, <1>8, <1>9, <1>10, <1>11, <1>12, <1>13,
       <1>14, <1>15, <1>16, <1>17, <1>18, <1>19, <1>20, <1>21, <1>22, <1>23, <1>24, <1>25,
       <1>26, <1>27, <1>28, <1>29, <1>30, <1>31, <1>32, <1>33, <1>34
    DEF Next, Engine, Scanner, Pause, Resume, Cancel, Renew, Renewers

\* Every reachable state is well typed.
THEOREM TypeCorrect == Spec => []TypeOK
  BY InitType, NextType, PTL DEF Spec

-----------------------------------------------------------------------------
(* Each confirmed invoice buys one period.                                 *)

\* No statement removes a row.
LEMMA StatementsKeep ==
  ASSUME NEW row \in Row, row.status # "none"
  PROVE  /\ Drafted.status # "none"
         /\ Finalized(row, Price).status # "none"
         /\ MarkedDetected(row, Price).status # "none"
         /\ MarkedConfirmed(row).status # "none"
         /\ MarkedRefunded(row).status # "none"
         /\ ExpiredIfOld(row).status # "none"
         /\ DroppedDraft(row).status # "none"
         /\ Voided(row).status # "none"
         /\ Aged(row).status # "none"
  BY DEF Row, Drafted, NoRow, Finalized, MarkedDetected, MarkedConfirmed, MarkedRefunded,
         ExpiredIfOld, DroppedDraft, Voided, Aged

\* What most steps leave as it is.
Steady ==
  /\ sub'.cur = sub.cur
  /\ renewals' = renewals
  /\ paid \subseteq paid'
  /\ \A j \in Invoices : inv[j].status # "none" => inv'[j].status # "none"
  /\ pc'["engine"] = "link" => pc["engine"] = "link" /\ at'["engine"] = at["engine"]
  /\ \A t \in Renewers : pc'[t] = "apply" => at'[t] \in paid'

\* They keep the invariant.
LEMMA SteadyIInv == IInv /\ TypeOK' /\ Steady => IInv'
  <1> SUFFICES ASSUME IInv, TypeOK', Steady PROVE IInv'
    OBVIOUS
  <1>1. RenewedOnce'
    BY DEF IInv, RenewedOnce, Steady
  <1>2. SpentUnlinked'
    BY DEF IInv, SpentUnlinked, Steady
  <1>3. LinkFresh'
    <2>1. SUFFICES ASSUME pc'["engine"] = "link"
                   PROVE  sub'.cur # at'["engine"] /\ inv'[at'["engine"]].status # "none"
      BY DEF LinkFresh
    <2>2. at["engine"] \in Invoices
      BY <2>1 DEF Steady, IInv, TypeOK, PointersOK, Tasks, Renewers, Holding
    <2>3. QED
      BY <2>1, <2>2 DEF IInv, LinkFresh, Steady
  <1>4. LinkedExists'
    <2>1. sub.cur # 0 => sub.cur \in Invoices
      BY DEF IInv, TypeOK, Subscription, Invoices
    <2>2. QED
      BY <2>1 DEF IInv, LinkedExists, Steady
  <1>5. AppliedPaid'
    BY DEF AppliedPaid, Steady
  <1>6. QED
    BY <1>1, <1>2, <1>3, <1>4, <1>5 DEF IInv

\* The initial state satisfies the invariant.
LEMMA InitIInv == Init => IInv
  BY InitType DEF Init, IInv, RenewedOnce, SpentUnlinked, LinkFresh, LinkedExists,
     AppliedPaid, NewSub, Tasks, Renewers

\* Every step keeps it.
LEMMA NextIInv == IInv /\ [Next]_vars => IInv'
  <1> SUFFICES ASSUME IInv, [Next]_vars PROVE IInv'
    OBVIOUS
  <1>0. TypeOK /\ TypeOK'
    BY NextType DEF IInv
  <1>1. CASE StartPass
    <2>1. sub'.cur = sub.cur
      BY <1>1, <1>0 DEF TypeOK, Subscription, dbVars, StartPass
    <2>2. /\ renewals' = renewals
          /\ paid \subseteq paid'
      BY <1>1 DEF StartPass, dbVars, countVars
    <2>3. \A j \in Invoices : inv[j].status # "none" => inv'[j].status # "none"
      BY <1>1, <1>0, StatementsKeep DEF TypeOK, StartPass, dbVars
    <2>4. pc'["engine"] = "link" => pc["engine"] = "link" /\ at'["engine"] = at["engine"]
      BY <1>1, <1>0 DEF TypeOK, LabelsOK, PointersOK, Tasks, Requests, Renewers, Goto,
         Done, Look, taskVars, StartPass
    <2>5. \A t \in Renewers : pc'[t] = "apply" => at'[t] \in paid'
      BY <1>1, <1>0, <2>2 DEF IInv, AppliedPaid, TypeOK, LabelsOK, PointersOK, Tasks,
         Requests,
         Renewers, Goto, Done, Look, taskVars, StartPass
    <2>6. QED
      BY <1>0, <2>1, <2>2, <2>3, <2>4, <2>5, SteadyIInv DEF Steady
  <1>2. CASE CancelAtEnd
    <2>1. sub'.cur = sub.cur
      BY <1>2, <1>0 DEF TypeOK, Subscription, dbVars, CancelAtEnd
    <2>2. /\ renewals' = renewals
          /\ paid \subseteq paid'
      BY <1>2 DEF CancelAtEnd, dbVars, countVars
    <2>3. \A j \in Invoices : inv[j].status # "none" => inv'[j].status # "none"
      BY <1>2, <1>0, StatementsKeep DEF TypeOK, CancelAtEnd, dbVars
    <2>4. pc'["engine"] = "link" => pc["engine"] = "link" /\ at'["engine"] = at["engine"]
      BY <1>2, <1>0 DEF TypeOK, LabelsOK, PointersOK, Tasks, Requests, Renewers, Goto,
         Done, Look, taskVars, CancelAtEnd
    <2>5. \A t \in Renewers : pc'[t] = "apply" => at'[t] \in paid'
      BY <1>2, <1>0, <2>2 DEF IInv, AppliedPaid, TypeOK, LabelsOK, PointersOK, Tasks,
         Requests,
         Renewers, Goto, Done, Look, taskVars, CancelAtEnd
    <2>6. QED
      BY <1>0, <2>1, <2>2, <2>3, <2>4, <2>5, SteadyIInv DEF Steady
  <1>3. CASE ReadDue
    <2>1. sub'.cur = sub.cur
      BY <1>3, <1>0 DEF TypeOK, Subscription, dbVars, ReadDue
    <2>2. /\ renewals' = renewals
          /\ paid \subseteq paid'
      BY <1>3 DEF ReadDue, dbVars, countVars
    <2>3. \A j \in Invoices : inv[j].status # "none" => inv'[j].status # "none"
      BY <1>3, <1>0, StatementsKeep DEF TypeOK, ReadDue, dbVars
    <2>4. pc'["engine"] = "link" => pc["engine"] = "link" /\ at'["engine"] = at["engine"]
      BY <1>3, <1>0 DEF TypeOK, LabelsOK, PointersOK, Tasks, Requests, Renewers, Goto,
         Done, Look, taskVars, ReadDue
    <2>5. \A t \in Renewers : pc'[t] = "apply" => at'[t] \in paid'
      BY <1>3, <1>0, <2>2 DEF IInv, AppliedPaid, TypeOK, LabelsOK, PointersOK, Tasks,
         Requests,
         Renewers, Goto, Done, Look, taskVars, ReadDue
    <2>6. QED
      BY <1>0, <2>1, <2>2, <2>3, <2>4, <2>5, SteadyIInv DEF Steady
  <1>4. CASE LookDue
    <2>1. sub'.cur = sub.cur
      BY <1>4, <1>0 DEF TypeOK, Subscription, dbVars, LookDue
    <2>2. /\ renewals' = renewals
          /\ paid \subseteq paid'
      BY <1>4 DEF LookDue, dbVars, countVars
    <2>3. \A j \in Invoices : inv[j].status # "none" => inv'[j].status # "none"
      BY <1>4, <1>0, StatementsKeep DEF TypeOK, LookDue, dbVars
    <2>4. pc'["engine"] = "link" => pc["engine"] = "link" /\ at'["engine"] = at["engine"]
      BY <1>4, <1>0 DEF TypeOK, LabelsOK, PointersOK, Tasks, Requests, Renewers, Goto,
         Done, Look, taskVars, LookDue
    <2>5. \A t \in Renewers : pc'[t] = "apply" => at'[t] \in paid'
      BY <1>4, <1>0, <2>2 DEF IInv, AppliedPaid, TypeOK, LabelsOK, PointersOK, Tasks,
         Requests,
         Renewers, Goto, Done, Look, taskVars, LookDue
    <2>6. QED
      BY <1>0, <2>1, <2>2, <2>3, <2>4, <2>5, SteadyIInv DEF Steady
  <1>5. CASE LosePrice
    <2>1. sub'.cur = sub.cur
      BY <1>5, <1>0 DEF TypeOK, Subscription, dbVars, LosePrice
    <2>2. /\ renewals' = renewals
          /\ paid \subseteq paid'
      BY <1>5 DEF LosePrice, dbVars, countVars
    <2>3. \A j \in Invoices : inv[j].status # "none" => inv'[j].status # "none"
      BY <1>5, <1>0, StatementsKeep DEF TypeOK, LosePrice, dbVars
    <2>4. pc'["engine"] = "link" => pc["engine"] = "link" /\ at'["engine"] = at["engine"]
      BY <1>5, <1>0 DEF TypeOK, LabelsOK, PointersOK, Tasks, Requests, Renewers, Goto,
         Done, Look, taskVars, LosePrice
    <2>5. \A t \in Renewers : pc'[t] = "apply" => at'[t] \in paid'
      BY <1>5, <1>0, <2>2 DEF IInv, AppliedPaid, TypeOK, LabelsOK, PointersOK, Tasks,
         Requests,
         Renewers, Goto, Done, Look, taskVars, LosePrice
    <2>6. QED
      BY <1>0, <2>1, <2>2, <2>3, <2>4, <2>5, SteadyIInv DEF Steady
  <1>6. CASE ReadEnded
    <2>1. sub'.cur = sub.cur
      BY <1>6, <1>0 DEF TypeOK, Subscription, dbVars, ReadEnded
    <2>2. /\ renewals' = renewals
          /\ paid \subseteq paid'
      BY <1>6 DEF ReadEnded, dbVars, countVars
    <2>3. \A j \in Invoices : inv[j].status # "none" => inv'[j].status # "none"
      BY <1>6, <1>0, StatementsKeep DEF TypeOK, ReadEnded, dbVars
    <2>4. pc'["engine"] = "link" => pc["engine"] = "link" /\ at'["engine"] = at["engine"]
      BY <1>6, <1>0 DEF TypeOK, LabelsOK, PointersOK, Tasks, Requests, Renewers, Goto,
         Done, Look, taskVars, ReadEnded
    <2>5. \A t \in Renewers : pc'[t] = "apply" => at'[t] \in paid'
      BY <1>6, <1>0, <2>2 DEF IInv, AppliedPaid, TypeOK, LabelsOK, PointersOK, Tasks,
         Requests,
         Renewers, Goto, Done, Look, taskVars, ReadEnded
    <2>6. QED
      BY <1>0, <2>1, <2>2, <2>3, <2>4, <2>5, SteadyIInv DEF Steady
  <1>7. CASE Judge
    <2>1. sub'.cur = sub.cur
      BY <1>7, <1>0 DEF TypeOK, Subscription, dbVars, Judge, Status
    <2>2. /\ renewals' = renewals
          /\ paid \subseteq paid'
      BY <1>7 DEF Judge, Status, dbVars, countVars
    <2>3. \A j \in Invoices : inv[j].status # "none" => inv'[j].status # "none"
      BY <1>7, <1>0, StatementsKeep DEF TypeOK, Judge, Status, dbVars
    <2>4. pc'["engine"] = "link" => pc["engine"] = "link" /\ at'["engine"] = at["engine"]
      BY <1>7, <1>0 DEF TypeOK, LabelsOK, PointersOK, Tasks, Requests, Renewers, Goto,
         Done, Look, taskVars, Judge, Status
    <2>5. \A t \in Renewers : pc'[t] = "apply" => at'[t] \in paid'
      BY <1>7, <1>0, <2>2 DEF IInv, AppliedPaid, TypeOK, LabelsOK, PointersOK, Tasks,
         Requests,
         Renewers, Goto, Done, Look, taskVars, Judge, Status
    <2>6. QED
      BY <1>0, <2>1, <2>2, <2>3, <2>4, <2>5, SteadyIInv DEF Steady
  <1>8. CASE Overdue
    <2>1. sub'.cur = sub.cur
      BY <1>8, <1>0 DEF TypeOK, Subscription, dbVars, Overdue
    <2>2. /\ renewals' = renewals
          /\ paid \subseteq paid'
      BY <1>8 DEF Overdue, dbVars, countVars
    <2>3. \A j \in Invoices : inv[j].status # "none" => inv'[j].status # "none"
      BY <1>8, <1>0, StatementsKeep DEF TypeOK, Overdue, dbVars
    <2>4. pc'["engine"] = "link" => pc["engine"] = "link" /\ at'["engine"] = at["engine"]
      BY <1>8, <1>0 DEF TypeOK, LabelsOK, PointersOK, Tasks, Requests, Renewers, Goto,
         Done, Look, taskVars, Overdue
    <2>5. \A t \in Renewers : pc'[t] = "apply" => at'[t] \in paid'
      BY <1>8, <1>0, <2>2 DEF IInv, AppliedPaid, TypeOK, LabelsOK, PointersOK, Tasks,
         Requests,
         Renewers, Goto, Done, Look, taskVars, Overdue
    <2>6. QED
      BY <1>0, <2>1, <2>2, <2>3, <2>4, <2>5, SteadyIInv DEF Steady
  <1>9. CASE DropDraft
    <2>1. sub'.cur = sub.cur
      BY <1>9, <1>0 DEF TypeOK, Subscription, dbVars, DropDraft
    <2>2. /\ renewals' = renewals
          /\ paid \subseteq paid'
      BY <1>9 DEF DropDraft, dbVars, countVars
    <2>3. \A j \in Invoices : inv[j].status # "none" => inv'[j].status # "none"
      BY <1>9, <1>0, StatementsKeep DEF TypeOK, DropDraft, dbVars
    <2>4. pc'["engine"] = "link" => pc["engine"] = "link" /\ at'["engine"] = at["engine"]
      BY <1>9, <1>0 DEF TypeOK, LabelsOK, PointersOK, Tasks, Requests, Renewers, Goto,
         Done, Look, taskVars, DropDraft
    <2>5. \A t \in Renewers : pc'[t] = "apply" => at'[t] \in paid'
      BY <1>9, <1>0, <2>2 DEF IInv, AppliedPaid, TypeOK, LabelsOK, PointersOK, Tasks,
         Requests,
         Renewers, Goto, Done, Look, taskVars, DropDraft
    <2>6. QED
      BY <1>0, <2>1, <2>2, <2>3, <2>4, <2>5, SteadyIInv DEF Steady
  <1>10. CASE Confirm
    <2>1. sub'.cur = sub.cur
      BY <1>10, <1>0 DEF TypeOK, Subscription, dbVars, Confirm
    <2>2. /\ renewals' = renewals
          /\ paid \subseteq paid'
      BY <1>10 DEF Confirm, dbVars, countVars
    <2>3. \A j \in Invoices : inv[j].status # "none" => inv'[j].status # "none"
      BY <1>10, <1>0, StatementsKeep DEF TypeOK, Confirm, dbVars
    <2>4. pc'["engine"] = "link" => pc["engine"] = "link" /\ at'["engine"] = at["engine"]
      BY <1>10, <1>0 DEF TypeOK, LabelsOK, PointersOK, Tasks, Requests, Renewers, Goto,
         Done, Look, taskVars, Confirm
    <2>5. \A t \in Renewers : pc'[t] = "apply" => at'[t] \in paid'
      BY <1>10, <1>0, <2>2 DEF IInv, AppliedPaid, TypeOK, LabelsOK, PointersOK, Tasks,
         Requests,
         Renewers, Goto, Done, Look, taskVars, Confirm
    <2>6. QED
      BY <1>0, <2>1, <2>2, <2>3, <2>4, <2>5, SteadyIInv DEF Steady
  <1>11. CASE Quote
    <2>1. sub'.cur = sub.cur
      BY <1>11, <1>0 DEF TypeOK, Subscription, dbVars, Quote
    <2>2. /\ renewals' = renewals
          /\ paid \subseteq paid'
      BY <1>11 DEF Quote, dbVars, countVars
    <2>3. \A j \in Invoices : inv[j].status # "none" => inv'[j].status # "none"
      BY <1>11, <1>0, StatementsKeep DEF TypeOK, Quote, dbVars
    <2>4. pc'["engine"] = "link" => pc["engine"] = "link" /\ at'["engine"] = at["engine"]
      BY <1>11, <1>0 DEF TypeOK, LabelsOK, PointersOK, Tasks, Requests, Renewers, Goto,
         Done, Look, taskVars, Quote
    <2>5. \A t \in Renewers : pc'[t] = "apply" => at'[t] \in paid'
      BY <1>11, <1>0, <2>2 DEF IInv, AppliedPaid, TypeOK, LabelsOK, PointersOK, Tasks,
         Requests,
         Renewers, Goto, Done, Look, taskVars, Quote
    <2>6. QED
      BY <1>0, <2>1, <2>2, <2>3, <2>4, <2>5, SteadyIInv DEF Steady
  <1>12. CASE ExpireOld
    <2>1. sub'.cur = sub.cur
      BY <1>12, <1>0 DEF TypeOK, Subscription, dbVars, ExpireOld
    <2>2. /\ renewals' = renewals
          /\ paid \subseteq paid'
      BY <1>12 DEF ExpireOld, dbVars, countVars
    <2>3. \A j \in Invoices : inv[j].status # "none" => inv'[j].status # "none"
      BY <1>12, <1>0, StatementsKeep DEF TypeOK, ExpireOld, dbVars
    <2>4. pc'["engine"] = "link" => pc["engine"] = "link" /\ at'["engine"] = at["engine"]
      BY <1>12, <1>0 DEF TypeOK, LabelsOK, PointersOK, Tasks, Requests, Renewers, Goto,
         Done, Look, taskVars, ExpireOld
    <2>5. \A t \in Renewers : pc'[t] = "apply" => at'[t] \in paid'
      BY <1>12, <1>0, <2>2 DEF IInv, AppliedPaid, TypeOK, LabelsOK, PointersOK, Tasks,
         Requests,
         Renewers, Goto, Done, Look, taskVars, ExpireOld
    <2>6. QED
      BY <1>0, <2>1, <2>2, <2>3, <2>4, <2>5, SteadyIInv DEF Steady
  <1>13. CASE AskPause
    <2>1. sub'.cur = sub.cur
      BY <1>13, <1>0 DEF TypeOK, Subscription, dbVars, AskPause, Request
    <2>2. /\ renewals' = renewals
          /\ paid \subseteq paid'
      BY <1>13 DEF AskPause, Request, dbVars, countVars
    <2>3. \A j \in Invoices : inv[j].status # "none" => inv'[j].status # "none"
      BY <1>13, <1>0, StatementsKeep DEF TypeOK, AskPause, Request, dbVars
    <2>4. pc'["engine"] = "link" => pc["engine"] = "link" /\ at'["engine"] = at["engine"]
      BY <1>13, <1>0 DEF TypeOK, LabelsOK, PointersOK, Tasks, Requests, Renewers, Goto,
         Done, Look, taskVars, AskPause, Request
    <2>5. \A t \in Renewers : pc'[t] = "apply" => at'[t] \in paid'
      BY <1>13, <1>0, <2>2 DEF IInv, AppliedPaid, TypeOK, LabelsOK, PointersOK, Tasks,
         Requests,
         Renewers, Goto, Done, Look, taskVars, AskPause, Request
    <2>6. QED
      BY <1>0, <2>1, <2>2, <2>3, <2>4, <2>5, SteadyIInv DEF Steady
  <1>14. CASE LookPause
    <2>1. sub'.cur = sub.cur
      BY <1>14, <1>0 DEF TypeOK, Subscription, dbVars, LookPause, Status, InProgress
    <2>2. /\ renewals' = renewals
          /\ paid \subseteq paid'
      BY <1>14 DEF LookPause, Status, InProgress, dbVars, countVars
    <2>3. \A j \in Invoices : inv[j].status # "none" => inv'[j].status # "none"
      BY <1>14, <1>0, StatementsKeep DEF TypeOK, LookPause, Status, InProgress, dbVars
    <2>4. pc'["engine"] = "link" => pc["engine"] = "link" /\ at'["engine"] = at["engine"]
      BY <1>14, <1>0 DEF TypeOK, LabelsOK, PointersOK, Tasks, Requests, Renewers, Goto,
         Done, Look, taskVars, LookPause, Status, InProgress
    <2>5. \A t \in Renewers : pc'[t] = "apply" => at'[t] \in paid'
      BY <1>14, <1>0, <2>2 DEF IInv, AppliedPaid, TypeOK, LabelsOK, PointersOK, Tasks,
         Requests,
         Renewers, Goto, Done, Look, taskVars, LookPause, Status, InProgress
    <2>6. QED
      BY <1>0, <2>1, <2>2, <2>3, <2>4, <2>5, SteadyIInv DEF Steady
  <1>15. CASE VoidPause
    <2>1. sub'.cur = sub.cur
      BY <1>15, <1>0 DEF TypeOK, Subscription, dbVars, VoidPause
    <2>2. /\ renewals' = renewals
          /\ paid \subseteq paid'
      BY <1>15 DEF VoidPause, dbVars, countVars
    <2>3. \A j \in Invoices : inv[j].status # "none" => inv'[j].status # "none"
      BY <1>15, <1>0, StatementsKeep DEF TypeOK, VoidPause, dbVars
    <2>4. pc'["engine"] = "link" => pc["engine"] = "link" /\ at'["engine"] = at["engine"]
      BY <1>15, <1>0 DEF TypeOK, LabelsOK, PointersOK, Tasks, Requests, Renewers, Goto,
         Done, Look, taskVars, VoidPause
    <2>5. \A t \in Renewers : pc'[t] = "apply" => at'[t] \in paid'
      BY <1>15, <1>0, <2>2 DEF IInv, AppliedPaid, TypeOK, LabelsOK, PointersOK, Tasks,
         Requests,
         Renewers, Goto, Done, Look, taskVars, VoidPause
    <2>6. QED
      BY <1>0, <2>1, <2>2, <2>3, <2>4, <2>5, SteadyIInv DEF Steady
  <1>16. CASE FlagPause
    <2>1. sub'.cur = sub.cur
      BY <1>16, <1>0 DEF TypeOK, Subscription, dbVars, FlagPause
    <2>2. /\ renewals' = renewals
          /\ paid \subseteq paid'
      BY <1>16 DEF FlagPause, dbVars, countVars
    <2>3. \A j \in Invoices : inv[j].status # "none" => inv'[j].status # "none"
      BY <1>16, <1>0, StatementsKeep DEF TypeOK, FlagPause, dbVars
    <2>4. pc'["engine"] = "link" => pc["engine"] = "link" /\ at'["engine"] = at["engine"]
      BY <1>16, <1>0 DEF TypeOK, LabelsOK, PointersOK, Tasks, Requests, Renewers, Goto,
         Done, Look, taskVars, FlagPause
    <2>5. \A t \in Renewers : pc'[t] = "apply" => at'[t] \in paid'
      BY <1>16, <1>0, <2>2 DEF IInv, AppliedPaid, TypeOK, LabelsOK, PointersOK, Tasks,
         Requests,
         Renewers, Goto, Done, Look, taskVars, FlagPause
    <2>6. QED
      BY <1>0, <2>1, <2>2, <2>3, <2>4, <2>5, SteadyIInv DEF Steady
  <1>17. CASE AskResume
    <2>1. sub'.cur = sub.cur
      BY <1>17, <1>0 DEF TypeOK, Subscription, dbVars, AskResume, Request
    <2>2. /\ renewals' = renewals
          /\ paid \subseteq paid'
      BY <1>17 DEF AskResume, Request, dbVars, countVars
    <2>3. \A j \in Invoices : inv[j].status # "none" => inv'[j].status # "none"
      BY <1>17, <1>0, StatementsKeep DEF TypeOK, AskResume, Request, dbVars
    <2>4. pc'["engine"] = "link" => pc["engine"] = "link" /\ at'["engine"] = at["engine"]
      BY <1>17, <1>0 DEF TypeOK, LabelsOK, PointersOK, Tasks, Requests, Renewers, Goto,
         Done, Look, taskVars, AskResume, Request
    <2>5. \A t \in Renewers : pc'[t] = "apply" => at'[t] \in paid'
      BY <1>17, <1>0, <2>2 DEF IInv, AppliedPaid, TypeOK, LabelsOK, PointersOK, Tasks,
         Requests,
         Renewers, Goto, Done, Look, taskVars, AskResume, Request
    <2>6. QED
      BY <1>0, <2>1, <2>2, <2>3, <2>4, <2>5, SteadyIInv DEF Steady
  <1>18. CASE Unflag
    <2>1. sub'.cur = sub.cur
      BY <1>18, <1>0 DEF TypeOK, Subscription, dbVars, Unflag
    <2>2. /\ renewals' = renewals
          /\ paid \subseteq paid'
      BY <1>18 DEF Unflag, dbVars, countVars
    <2>3. \A j \in Invoices : inv[j].status # "none" => inv'[j].status # "none"
      BY <1>18, <1>0, StatementsKeep DEF TypeOK, Unflag, dbVars
    <2>4. pc'["engine"] = "link" => pc["engine"] = "link" /\ at'["engine"] = at["engine"]
      BY <1>18, <1>0 DEF TypeOK, LabelsOK, PointersOK, Tasks, Requests, Renewers, Goto,
         Done, Look, taskVars, Unflag
    <2>5. \A t \in Renewers : pc'[t] = "apply" => at'[t] \in paid'
      BY <1>18, <1>0, <2>2 DEF IInv, AppliedPaid, TypeOK, LabelsOK, PointersOK, Tasks,
         Requests,
         Renewers, Goto, Done, Look, taskVars, Unflag
    <2>6. QED
      BY <1>0, <2>1, <2>2, <2>3, <2>4, <2>5, SteadyIInv DEF Steady
  <1>19. CASE AskCancel
    <2>1. sub'.cur = sub.cur
      BY <1>19, <1>0 DEF TypeOK, Subscription, dbVars, AskCancel, Request
    <2>2. /\ renewals' = renewals
          /\ paid \subseteq paid'
      BY <1>19 DEF AskCancel, Request, dbVars, countVars
    <2>3. \A j \in Invoices : inv[j].status # "none" => inv'[j].status # "none"
      BY <1>19, <1>0, StatementsKeep DEF TypeOK, AskCancel, Request, dbVars
    <2>4. pc'["engine"] = "link" => pc["engine"] = "link" /\ at'["engine"] = at["engine"]
      BY <1>19, <1>0 DEF TypeOK, LabelsOK, PointersOK, Tasks, Requests, Renewers, Goto,
         Done, Look, taskVars, AskCancel, Request
    <2>5. \A t \in Renewers : pc'[t] = "apply" => at'[t] \in paid'
      BY <1>19, <1>0, <2>2 DEF IInv, AppliedPaid, TypeOK, LabelsOK, PointersOK, Tasks,
         Requests,
         Renewers, Goto, Done, Look, taskVars, AskCancel, Request
    <2>6. QED
      BY <1>0, <2>1, <2>2, <2>3, <2>4, <2>5, SteadyIInv DEF Steady
  <1>20. CASE WriteCancel
    <2>1. sub'.cur = sub.cur
      BY <1>20, <1>0 DEF TypeOK, Subscription, dbVars, WriteCancel
    <2>2. /\ renewals' = renewals
          /\ paid \subseteq paid'
      BY <1>20 DEF WriteCancel, dbVars, countVars
    <2>3. \A j \in Invoices : inv[j].status # "none" => inv'[j].status # "none"
      BY <1>20, <1>0, StatementsKeep DEF TypeOK, WriteCancel, dbVars
    <2>4. pc'["engine"] = "link" => pc["engine"] = "link" /\ at'["engine"] = at["engine"]
      BY <1>20, <1>0 DEF TypeOK, LabelsOK, PointersOK, Tasks, Requests, Renewers, Goto,
         Done, Look, taskVars, WriteCancel
    <2>5. \A t \in Renewers : pc'[t] = "apply" => at'[t] \in paid'
      BY <1>20, <1>0, <2>2 DEF IInv, AppliedPaid, TypeOK, LabelsOK, PointersOK, Tasks,
         Requests,
         Renewers, Goto, Done, Look, taskVars, WriteCancel
    <2>6. QED
      BY <1>0, <2>1, <2>2, <2>3, <2>4, <2>5, SteadyIInv DEF Steady
  <1>21. CASE Deactivate
    <2>1. sub'.cur = sub.cur
      BY <1>21, <1>0 DEF TypeOK, Subscription, dbVars, Deactivate
    <2>2. /\ renewals' = renewals
          /\ paid \subseteq paid'
      BY <1>21 DEF Deactivate, dbVars, countVars
    <2>3. \A j \in Invoices : inv[j].status # "none" => inv'[j].status # "none"
      BY <1>21, <1>0, StatementsKeep DEF TypeOK, Deactivate, dbVars
    <2>4. pc'["engine"] = "link" => pc["engine"] = "link" /\ at'["engine"] = at["engine"]
      BY <1>21, <1>0 DEF TypeOK, LabelsOK, PointersOK, Tasks, Requests, Renewers, Goto,
         Done, Look, taskVars, Deactivate
    <2>5. \A t \in Renewers : pc'[t] = "apply" => at'[t] \in paid'
      BY <1>21, <1>0, <2>2 DEF IInv, AppliedPaid, TypeOK, LabelsOK, PointersOK, Tasks,
         Requests,
         Renewers, Goto, Done, Look, taskVars, Deactivate
    <2>6. QED
      BY <1>0, <2>1, <2>2, <2>3, <2>4, <2>5, SteadyIInv DEF Steady
  <1>22. CASE Tick
    <2>1. sub'.cur = sub.cur
      BY <1>22, <1>0 DEF TypeOK, Subscription, dbVars, Tick, Older
    <2>2. /\ renewals' = renewals
          /\ paid \subseteq paid'
      BY <1>22 DEF Tick, Older, dbVars, countVars
    <2>3. \A j \in Invoices : inv[j].status # "none" => inv'[j].status # "none"
      BY <1>22, <1>0, StatementsKeep DEF TypeOK, Tick, Older, dbVars
    <2>4. pc'["engine"] = "link" => pc["engine"] = "link" /\ at'["engine"] = at["engine"]
      BY <1>22, <1>0 DEF TypeOK, LabelsOK, PointersOK, Tasks, Requests, Renewers, Goto,
         Done, Look, taskVars, Tick, Older
    <2>5. \A t \in Renewers : pc'[t] = "apply" => at'[t] \in paid'
      BY <1>22, <1>0, <2>2 DEF IInv, AppliedPaid, TypeOK, LabelsOK, PointersOK, Tasks,
         Requests,
         Renewers, Goto, Done, Look, taskVars, Tick, Older
    <2>6. QED
      BY <1>0, <2>1, <2>2, <2>3, <2>4, <2>5, SteadyIInv DEF Steady
  <1>23. CASE Crash
    <2>1. sub'.cur = sub.cur
      BY <1>23, <1>0 DEF TypeOK, Subscription, dbVars, Crash
    <2>2. /\ renewals' = renewals
          /\ paid \subseteq paid'
      BY <1>23 DEF Crash, dbVars, countVars
    <2>3. \A j \in Invoices : inv[j].status # "none" => inv'[j].status # "none"
      BY <1>23, <1>0, StatementsKeep DEF TypeOK, Crash, dbVars
    <2>4. pc'["engine"] = "link" => pc["engine"] = "link" /\ at'["engine"] = at["engine"]
      BY <1>23, <1>0 DEF TypeOK, LabelsOK, PointersOK, Tasks, Requests, Renewers, Goto,
         Done, Look, taskVars, Crash
    <2>5. \A t \in Renewers : pc'[t] = "apply" => at'[t] \in paid'
      BY <1>23, <1>0, <2>2 DEF IInv, AppliedPaid, TypeOK, LabelsOK, PointersOK, Tasks,
         Requests,
         Renewers, Goto, Done, Look, taskVars, Crash
    <2>6. QED
      BY <1>0, <2>1, <2>2, <2>3, <2>4, <2>5, SteadyIInv DEF Steady
  <1>24. ASSUME NEW r \in Renewers, ReadRenewal(r) PROVE IInv'
    <2>1. sub'.cur = sub.cur
      BY <1>24, <1>0 DEF TypeOK, Subscription, dbVars, ReadRenewal
    <2>2. /\ renewals' = renewals
          /\ paid \subseteq paid'
      BY <1>24 DEF ReadRenewal, dbVars, countVars
    <2>3. \A j \in Invoices : inv[j].status # "none" => inv'[j].status # "none"
      BY <1>24, <1>0, StatementsKeep DEF TypeOK, ReadRenewal, dbVars
    <2>4. pc'["engine"] = "link" => pc["engine"] = "link" /\ at'["engine"] = at["engine"]
      BY <1>24, <1>0 DEF TypeOK, LabelsOK, PointersOK, Tasks, Requests, Renewers, Goto,
         Done, Look, taskVars, ReadRenewal
    <2>5. \A t \in Renewers : pc'[t] = "apply" => at'[t] \in paid'
      BY <1>24, <1>0, <2>2 DEF IInv, AppliedPaid, TypeOK, LabelsOK, PointersOK, Tasks,
         Requests,
         Renewers, Goto, Done, Look, taskVars, ReadRenewal
    <2>6. QED
      BY <1>0, <2>1, <2>2, <2>3, <2>4, <2>5, SteadyIInv DEF Steady
  <1>25. ASSUME NEW i \in Invoices, See(i) PROVE IInv'
    <2>1. sub'.cur = sub.cur
      BY <1>25, <1>0 DEF TypeOK, Subscription, dbVars, See
    <2>2. /\ renewals' = renewals
          /\ paid \subseteq paid'
      BY <1>25 DEF See, dbVars, countVars
    <2>3. \A j \in Invoices : inv[j].status # "none" => inv'[j].status # "none"
      BY <1>25, <1>0, StatementsKeep DEF TypeOK, See, dbVars
    <2>4. pc'["engine"] = "link" => pc["engine"] = "link" /\ at'["engine"] = at["engine"]
      BY <1>25, <1>0 DEF TypeOK, LabelsOK, PointersOK, Tasks, Requests, Renewers, Goto,
         Done, Look, taskVars, See
    <2>5. \A t \in Renewers : pc'[t] = "apply" => at'[t] \in paid'
      BY <1>25, <1>0, <2>2 DEF IInv, AppliedPaid, TypeOK, LabelsOK, PointersOK, Tasks,
         Requests,
         Renewers, Goto, Done, Look, taskVars, See
    <2>6. QED
      BY <1>0, <2>1, <2>2, <2>3, <2>4, <2>5, SteadyIInv DEF Steady
  <1>26. ASSUME NEW i \in Invoices, Detect(i) PROVE IInv'
    <2>1. sub'.cur = sub.cur
      BY <1>26, <1>0 DEF TypeOK, Subscription, dbVars, Detect
    <2>2. /\ renewals' = renewals
          /\ paid \subseteq paid'
      BY <1>26 DEF Detect, dbVars, countVars
    <2>3. \A j \in Invoices : inv[j].status # "none" => inv'[j].status # "none"
      BY <1>26, <1>0, StatementsKeep DEF TypeOK, Detect, dbVars
    <2>4. pc'["engine"] = "link" => pc["engine"] = "link" /\ at'["engine"] = at["engine"]
      BY <1>26, <1>0 DEF TypeOK, LabelsOK, PointersOK, Tasks, Requests, Renewers, Goto,
         Done, Look, taskVars, Detect
    <2>5. \A t \in Renewers : pc'[t] = "apply" => at'[t] \in paid'
      BY <1>26, <1>0, <2>2 DEF IInv, AppliedPaid, TypeOK, LabelsOK, PointersOK, Tasks,
         Requests,
         Renewers, Goto, Done, Look, taskVars, Detect
    <2>6. QED
      BY <1>0, <2>1, <2>2, <2>3, <2>4, <2>5, SteadyIInv DEF Steady
  <1>27. ASSUME NEW i \in Invoices, ReadQuote(i) PROVE IInv'
    <2>1. sub'.cur = sub.cur
      BY <1>27, <1>0 DEF TypeOK, Subscription, dbVars, ReadQuote
    <2>2. /\ renewals' = renewals
          /\ paid \subseteq paid'
      BY <1>27 DEF ReadQuote, dbVars, countVars
    <2>3. \A j \in Invoices : inv[j].status # "none" => inv'[j].status # "none"
      BY <1>27, <1>0, StatementsKeep DEF TypeOK, ReadQuote, dbVars
    <2>4. pc'["engine"] = "link" => pc["engine"] = "link" /\ at'["engine"] = at["engine"]
      BY <1>27, <1>0 DEF TypeOK, LabelsOK, PointersOK, Tasks, Requests, Renewers, Goto,
         Done, Look, taskVars, ReadQuote
    <2>5. \A t \in Renewers : pc'[t] = "apply" => at'[t] \in paid'
      BY <1>27, <1>0, <2>2 DEF IInv, AppliedPaid, TypeOK, LabelsOK, PointersOK, Tasks,
         Requests,
         Renewers, Goto, Done, Look, taskVars, ReadQuote
    <2>6. QED
      BY <1>0, <2>1, <2>2, <2>3, <2>4, <2>5, SteadyIInv DEF Steady
  <1>28. ASSUME NEW i \in Invoices, Refund(i) PROVE IInv'
    <2>1. sub'.cur = sub.cur
      BY <1>28, <1>0 DEF TypeOK, Subscription, dbVars, Refund
    <2>2. /\ renewals' = renewals
          /\ paid \subseteq paid'
      BY <1>28 DEF Refund, dbVars, countVars
    <2>3. \A j \in Invoices : inv[j].status # "none" => inv'[j].status # "none"
      BY <1>28, <1>0, StatementsKeep DEF TypeOK, Refund, dbVars
    <2>4. pc'["engine"] = "link" => pc["engine"] = "link" /\ at'["engine"] = at["engine"]
      BY <1>28, <1>0 DEF TypeOK, LabelsOK, PointersOK, Tasks, Requests, Renewers, Goto,
         Done, Look, taskVars, Refund
    <2>5. \A t \in Renewers : pc'[t] = "apply" => at'[t] \in paid'
      BY <1>28, <1>0, <2>2 DEF IInv, AppliedPaid, TypeOK, LabelsOK, PointersOK, Tasks,
         Requests,
         Renewers, Goto, Done, Look, taskVars, Refund
    <2>6. QED
      BY <1>0, <2>1, <2>2, <2>3, <2>4, <2>5, SteadyIInv DEF Steady
  <1>29. CASE Draft
    <2>1. /\ sub' = sub /\ renewals' = renewals /\ paid' = paid
          /\ pc["engine"] = "price"
      BY <1>29 DEF Draft, countVars
    <2>2. \A j \in Invoices : inv[j].status # "none" => inv'[j].status # "none"
      BY <1>29, <1>0, StatementsKeep DEF Draft, TypeOK
    <2>3. pc'["engine"] = "link" => /\ at'["engine"] \in Invoices
                                    /\ inv[at'["engine"]].status = "none"
                                    /\ inv'[at'["engine"]].status # "none"
      <3>1. SUFFICES ASSUME pc'["engine"] = "link"
                     PROVE  /\ at'["engine"] \in Invoices
                            /\ inv[at'["engine"]].status = "none"
                            /\ inv'[at'["engine"]].status # "none"
        OBVIOUS
      <3>2. PICK i \in Invoices : /\ Unused(i)
                                  /\ inv' = [inv EXCEPT ![i] = Drafted]
                                  /\ at' = [at EXCEPT !["engine"] = i]
        BY <1>29, <1>0, <3>1 DEF Draft, Goto, TypeOK, LabelsOK, Tasks, Renewers
      <3>3. QED
        BY <1>0, <3>2 DEF Unused, TypeOK, PointersOK, Tasks, Renewers, Drafted, NoRow
    <2>4. sub.cur # 0 => sub.cur \in Invoices
      BY <1>0 DEF TypeOK, Subscription, Invoices
    <2>5. RenewedOnce'
      BY <2>1 DEF IInv, RenewedOnce
    <2>6. SpentUnlinked'
      BY <2>1, <2>2, <2>3 DEF IInv, SpentUnlinked
    <2>7. 0 \notin Invoices
      BY DEF Invoices
    <2>8. LinkFresh'
      BY <2>1, <2>3, <2>4, <2>7 DEF IInv, LinkFresh, LinkedExists
    <2>9. LinkedExists'
      BY <2>1, <2>2, <2>4 DEF IInv, LinkedExists
    <2>10. AppliedPaid'
      BY <1>29, <1>0, <2>1 DEF IInv, AppliedPaid, Draft, Goto, TypeOK, LabelsOK, PointersOK,
         Tasks, Renewers
    <2>11. QED
      BY <1>0, <2>5, <2>6, <2>8, <2>9, <2>10 DEF IInv
  <1>30. CASE LinkDraft
    <2>1. /\ inv' = inv /\ renewals' = renewals /\ paid' = paid
          /\ pc["engine"] = "link"
          /\ sub'.cur = at["engine"]
          /\ pc' = [pc EXCEPT !["engine"] = "ended"]
          /\ at' = [at EXCEPT !["engine"] = 0]
      BY <1>30, <1>0 DEF LinkDraft, countVars, Goto, TypeOK, Subscription
    <2>2. pc'["engine"] = "ended"
      BY <1>0, <2>1 DEF TypeOK, LabelsOK, Tasks, Renewers
    <2>3. RenewedOnce' /\ LinkFresh'
      BY <2>1, <2>2 DEF IInv, RenewedOnce, LinkFresh
    <2>4. SpentUnlinked'
      BY <2>1, <2>2 DEF IInv, SpentUnlinked
    <2>5. LinkedExists'
      BY <2>1 DEF IInv, LinkFresh, LinkedExists
    <2>6. AppliedPaid'
      BY <1>0, <2>1 DEF IInv, AppliedPaid, TypeOK, LabelsOK, PointersOK, Tasks, Renewers
    <2>7. QED
      BY <1>0, <2>3, <2>4, <2>5, <2>6 DEF IInv
  <1>31. CASE DetachPause \/ FreshPeriod
    <2>1. /\ inv' = inv /\ renewals' = renewals /\ paid' = paid
          /\ sub'.cur = 0
          /\ pc'["engine"] = pc["engine"] /\ pc'["scanner"] = pc["scanner"]
          /\ at'["engine"] = at["engine"] /\ at'["scanner"] = at["scanner"]
      BY <1>31, <1>0 DEF DetachPause, FreshPeriod, countVars, Goto, Done, TypeOK,
         Subscription,
         LabelsOK, PointersOK, Tasks, Renewers, Requests
    <2>2. 0 \notin Invoices
      BY DEF Invoices
    <2>3. pc["engine"] = "link" => at["engine"] \in Invoices
      BY <1>0 DEF TypeOK, PointersOK, Holding, Tasks, Renewers
    <2>4. RenewedOnce' /\ LinkedExists'
      BY <2>1 DEF IInv, RenewedOnce, LinkedExists
    <2>5. SpentUnlinked' /\ LinkFresh'
      BY <2>1, <2>2, <2>3 DEF IInv, SpentUnlinked, LinkFresh
    <2>6. AppliedPaid'
      BY <2>1 DEF IInv, AppliedPaid, Renewers
    <2>7. QED
      BY <1>0, <2>4, <2>5, <2>6 DEF IInv
  <1>32. ASSUME NEW t \in Renewers, ApplyRenewal(t) PROVE IInv'
    <2> DEFINE i == at[t]
    <2>1. i \in Invoices /\ i \in paid /\ t \in Tasks
      BY <1>32, <1>0 DEF ApplyRenewal, IInv, AppliedPaid, TypeOK, PointersOK, Holding, Tasks
    <2>2. /\ inv' = inv /\ paid' = paid
          /\ pc' = [pc EXCEPT ![t] = "idle"] /\ at' = [at EXCEPT ![t] = 0]
      BY <1>32 DEF ApplyRenewal, Goto, Done
    <2>3. /\ \A r \in Renewers : pc'[r] = "apply" => pc[r] = "apply" /\ at'[r] = at[r]
          /\ pc'["engine"] = "link" => pc["engine"] = "link" /\ at'["engine"] = at["engine"]
      BY <1>0, <2>2 DEF TypeOK, LabelsOK, PointersOK, Tasks, Renewers
    <2>4. AppliedPaid'
      BY <2>2, <2>3 DEF IInv, AppliedPaid
    <2>5. CASE CanApply(t)
      <3>1. /\ sub.cur = i /\ sub'.cur = 0
            /\ renewals' = [renewals EXCEPT ![i] = @ + 1]
        BY <1>32, <1>0, <2>5 DEF ApplyRenewal, CanApply, Renewable, TypeOK, Subscription
      <3>2. renewals[i] = 0
        BY <1>0, <2>1, <3>1 DEF IInv, SpentUnlinked, RenewedOnce, TypeOK
      <3>3. renewals'[i] = 1 /\ \A j \in Invoices : j # i => renewals'[j] = renewals[j]
        BY <1>0, <2>1, <3>1, <3>2 DEF TypeOK
      <3>4. RenewedOnce'
        BY <2>1, <2>2, <3>3 DEF IInv, RenewedOnce
      <3>5. inv[i].status # "none" /\ i # 0
        BY <2>1, <3>1 DEF IInv, LinkedExists, Invoices
      <3>6. \A j \in Invoices : j # 0
        BY DEF Invoices
      <3>7. pc["engine"] = "link" => at["engine"] # i /\ at["engine"] # 0
        BY <1>0, <3>1, <3>6 DEF IInv, LinkFresh, TypeOK, PointersOK, Holding, Tasks,
           Renewers
      <3>8. SpentUnlinked'
        BY <2>2, <2>3, <3>1, <3>3, <3>5, <3>6, <3>7 DEF IInv, SpentUnlinked
      <3>9. LinkFresh' /\ LinkedExists'
        BY <2>2, <2>3, <3>1, <3>7 DEF IInv, LinkFresh, LinkedExists
      <3>10. QED
        BY <1>0, <2>4, <3>4, <3>8, <3>9 DEF IInv
    <2>6. CASE ~CanApply(t)
      <3>1. sub' = sub /\ renewals' = renewals
        BY <1>32, <2>6 DEF ApplyRenewal
      <3>2. QED
        BY <1>0, <2>2, <2>3, <2>4, <3>1, SteadyIInv DEF Steady, AppliedPaid
    <2>7. QED
      BY <2>5, <2>6
  <1>33. CASE UNCHANGED vars
    BY <1>33, <1>0, SteadyIInv DEF Steady, vars, dbVars, taskVars, countVars, IInv,
       AppliedPaid
  <1>34. QED
    BY <1>1, <1>2, <1>3, <1>4, <1>5, <1>6, <1>7, <1>8, <1>9, <1>10, <1>11, <1>12, <1>13,
       <1>14, <1>15, <1>16, <1>17, <1>18, <1>19, <1>20, <1>21, <1>22, <1>23, <1>24, <1>25,
       <1>26, <1>27, <1>28, <1>29, <1>30, <1>31, <1>32, <1>33
    DEF Next, Engine, Scanner, Pause, Resume, Cancel, Renew, Renewers

\* A confirmed renewal is applied exactly once, and only if it was paid in time.
THEOREM AppliedOnce == Spec => []RenewedOnce
  <1>1. IInv => RenewedOnce
    BY DEF IInv
  <1>2. QED
    BY <1>1, InitIInv, NextIInv, PTL DEF Spec

-----------------------------------------------------------------------------
(* What a renewal adds, and when access is taken away.                     *)

\* Only the last statement of a renewal adds a period, to the time there is.
LEMMA StepAddsUp == TypeOK /\ [Next]_vars => (renewals' # renewals => sub'.left = sub.left + Period)
  <1> SUFFICES ASSUME TypeOK, [Next]_vars, renewals' # renewals
               PROVE  sub'.left = sub.left + Period
    OBVIOUS
  <1>1. PICK t \in Renewers : ApplyRenewal(t)
    BY DEF Next, Engine, Scanner, Pause, Resume, Cancel, Renew, Renewers, Request, vars,
       countVars, StartPass, CancelAtEnd, ReadDue, LookDue, LosePrice, Draft, LinkDraft,
       ReadEnded, Judge, Overdue, DropDraft, Confirm, Quote,
       ExpireOld, AskPause, LookPause, VoidPause, DetachPause, FlagPause,
       AskResume, FreshPeriod, Unflag, AskCancel, WriteCancel, Deactivate, Tick, Crash,
       ReadRenewal, See, Detect, ReadQuote, Refund
  <1>2. CanApply(t) /\ sub' = [sub EXCEPT !.status = "active", !.left = RenewedLeft(t),
     !.cur = 0]
    BY <1>1 DEF ApplyRenewal
  <1>3. sub'.left = RenewedLeft(t) /\ seen[t].left = sub.left
    BY <1>2 DEF TypeOK, Subscription, CanApply
  <1>4. QED
    BY <1>3 DEF RenewedLeft

\* A renewal adds one period to what the subscription has left.
THEOREM RenewalAddsPeriod == Spec => PeriodsAddUp
  <1>1. TypeOK /\ [Next]_vars => [renewals' # renewals => sub'.left = sub.left + Period]_vars
    BY StepAddsUp
  <1>2. QED
    BY <1>1, TypeCorrect, PTL DEF Spec, PeriodsAddUp

\* The engine judges a subscription whose period was over when it was read.
JudgedEnded ==
  pc["engine"] \in {"judge", "overdue"} => seen["engine"].left + age <= 0

\* Nothing is judged at first.
LEMMA InitJudged == Init => JudgedEnded
  BY DEF Init, JudgedEnded, Tasks, Renewers

\* The clock moves both readings together, and no other step disturbs them.
LEMMA NextJudged == TypeOK /\ JudgedEnded /\ [Next]_vars => JudgedEnded'
  <1> SUFFICES ASSUME TypeOK, JudgedEnded, [Next]_vars PROVE JudgedEnded'
    OBVIOUS
  <1> USE DEF TypeOK, JudgedEnded, LabelsOK, Tasks, Renewers, Requests, Goto, Done
  <1>1. CASE StartPass
    BY <1>1 DEF StartPass
  <1>2. CASE CancelAtEnd
    BY <1>2 DEF CancelAtEnd
  <1>3. CASE ReadDue
    BY <1>3 DEF ReadDue, Look
  <1>4. CASE LookDue
    BY <1>4 DEF LookDue
  <1>5. CASE LosePrice
    BY <1>5 DEF LosePrice
  <1>6. CASE Draft
    BY <1>6 DEF Draft
  <1>7. CASE LinkDraft
    BY <1>7 DEF LinkDraft
  <1>8. CASE ReadEnded
    BY <1>8 DEF ReadEnded, EndedUnsettled, Ended, Look, Subscription
  <1>9. CASE Judge
    BY <1>9 DEF Judge, Look
  <1>10. CASE Overdue
    BY <1>10 DEF Overdue, Look
  <1>11. CASE DropDraft
    BY <1>11 DEF DropDraft
  <1>12. CASE Confirm
    BY <1>12 DEF Confirm
  <1>13. CASE Quote
    BY <1>13 DEF Quote
  <1>14. CASE ExpireOld
    BY <1>14 DEF ExpireOld, taskVars
  <1>15. CASE AskPause
    BY <1>15 DEF AskPause, Request
  <1>16. CASE LookPause
    BY <1>16 DEF LookPause
  <1>17. CASE VoidPause
    BY <1>17 DEF VoidPause
  <1>18. CASE DetachPause
    BY <1>18 DEF DetachPause
  <1>19. CASE FlagPause
    BY <1>19 DEF FlagPause
  <1>20. CASE AskResume
    BY <1>20 DEF AskResume, Request
  <1>21. CASE FreshPeriod
    BY <1>21 DEF FreshPeriod
  <1>22. CASE Unflag
    BY <1>22 DEF Unflag
  <1>23. CASE AskCancel
    BY <1>23 DEF AskCancel, Request
  <1>24. CASE WriteCancel
    BY <1>24 DEF WriteCancel
  <1>25. CASE Deactivate
    BY <1>25 DEF Deactivate, taskVars
  <1>26. CASE Tick
    <2>1. pc' = pc
      BY <1>26 DEF Tick
    <2>2. SUFFICES ASSUME pc["engine"] \in {"judge", "overdue"}
                   PROVE  seen'["engine"].left + age' <= 0
      BY <2>1
    <2>3. seen'["engine"] = Older(seen["engine"]) /\ age' = age + 1
      BY <1>26, <2>2 DEF Tick
    <2>4. seen'["engine"].left = seen["engine"].left - 1
      BY <2>3 DEF Older, Subscription
    <2>5. seen["engine"].left \in Int
      BY DEF Subscription
    <2>6. QED
      BY <2>2, <2>3, <2>4, <2>5
  <1>27. CASE Crash
    BY <1>27 DEF Crash
  <1>28. ASSUME NEW t \in Renewers, ReadRenewal(t) PROVE JudgedEnded'
    BY <1>28 DEF ReadRenewal, Look, Forget
  <1>29. ASSUME NEW t \in Renewers, ApplyRenewal(t) PROVE JudgedEnded'
    BY <1>29 DEF ApplyRenewal, Forget
  <1>30. ASSUME NEW i \in Invoices, See(i) PROVE JudgedEnded'
    BY <1>30 DEF See
  <1>31. ASSUME NEW i \in Invoices, Detect(i) PROVE JudgedEnded'
    BY <1>31 DEF Detect, taskVars
  <1>32. ASSUME NEW i \in Invoices, ReadQuote(i) PROVE JudgedEnded'
    BY <1>32 DEF ReadQuote
  <1>33. ASSUME NEW i \in Invoices, Refund(i) PROVE JudgedEnded'
    BY <1>33 DEF Refund, taskVars
  <1>34. CASE UNCHANGED vars
    BY <1>34 DEF vars, taskVars
  <1>35. QED
    BY <1>1, <1>2, <1>3, <1>4, <1>5, <1>6, <1>7, <1>8, <1>9, <1>10, <1>11, <1>12, <1>13,
       <1>14, <1>15, <1>16, <1>17, <1>18, <1>19, <1>20, <1>21, <1>22, <1>23, <1>24, <1>25,
       <1>26, <1>27, <1>28, <1>29, <1>30, <1>31, <1>32, <1>33, <1>34
    DEF Next, Engine, Scanner, Pause, Resume, Cancel, Renew

\* The guard on current_period_end refuses what has been renewed since.
LEMMA StepOverdue ==
  TypeOK /\ JudgedEnded /\ [Next]_vars =>
    (sub.status = "active" /\ sub'.status = "past_due" => sub.left <= 0 \/ ~active)
  <1> SUFFICES ASSUME TypeOK, JudgedEnded, [Next]_vars,
                      sub.status = "active", sub'.status = "past_due", active
               PROVE  sub.left <= 0
    OBVIOUS
  <1>1. CASE Overdue
    <2>1. pc["engine"] = "overdue" /\ sub.left = seen["engine"].left
      BY <1>1 DEF Overdue, StillOverdue
    <2>2. age \in Nat /\ seen["engine"].left \in Int
      BY DEF TypeOK, Subscription, Renewers
    <2>3. QED
      BY <2>1, <2>2 DEF JudgedEnded
  <1>2. CASE ~Overdue
    <2> USE DEF TypeOK, Subscription, dbVars
    <2>1. CASE Tick
      BY <2>1 DEF Tick, Older
    <2>2. CASE LinkDraft \/ DetachPause \/ FlagPause \/ FreshPeriod \/ Unflag \/ WriteCancel
      BY <2>2 DEF LinkDraft, DetachPause, FlagPause, FreshPeriod, Unflag, WriteCancel
    <2>3. CASE StartPass \/ CancelAtEnd
      BY <2>3 DEF StartPass, CancelAtEnd
    <2>4. ASSUME NEW t \in Renewers, ApplyRenewal(t) PROVE FALSE
      BY <2>4 DEF ApplyRenewal
    <2>5. CASE sub' = sub
      BY <2>5
    <2>6. QED
      BY <1>2, <2>1, <2>2, <2>3, <2>4, <2>5
      DEF Next, Engine, Scanner, Pause, Resume, Cancel, Renew, Renewers, Request, vars,
          ReadDue, LookDue, LosePrice, Draft, ReadEnded, Judge, DropDraft, Confirm, Quote,
          ExpireOld, AskPause, LookPause, VoidPause, AskResume, AskCancel, Deactivate, Crash,
          ReadRenewal, See, Detect, ReadQuote, Refund
  <1>3. QED
    BY <1>1, <1>2

\* A subscription with a price is past due only once its period is over.
THEOREM OverdueInTime == Spec => OverdueOnlyWhenEnded
  <1>1. TypeOK /\ JudgedEnded /\ [Next]_vars =>
          [sub.status = "active" /\ sub'.status = "past_due" => sub.left <= 0 \/ ~active]_vars
    BY StepOverdue
  <1>2. Spec => []JudgedEnded
    BY InitJudged, NextJudged, TypeCorrect, PTL DEF Spec
  <1>3. QED
    BY <1>1, <1>2, TypeCorrect, PTL DEF Spec, OverdueOnlyWhenEnded
=============================================================================
