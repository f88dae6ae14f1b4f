--------------------------- MODULE DeliveryProofs ---------------------------
(***************************************************************************)
(* Theorems about the way of a submission to its endpoints:                *)
(*                                                                         *)
(*   Delivery and the page over it, for any sets of deliveries, workers,   *)
(*   ticks and operators, any attempt budget, batch size and bounds;       *)
(*   EventLog, for any members of the group and any numbers of events,     *)
(*   failures and boxes;                                                   *)
(*   Pipeline, the two together, which implements each of them.            *)
(*                                                                         *)
(* IInv, LogIInv and, on top of both, PipeIInv are inductive: one lemma    *)
(* per action, or group of actions that touch the same state, shows that   *)
(* it keeps the invariant.  Everything else follows from them.             *)
(***************************************************************************)
EXTENDS DeliveriesPage, Pipeline, FiniteSetTheorems, TLAPS

-----------------------------------------------------------------------------
(* Delivery: lemmas *)

\* The facts relating rows, outbox and ledger survive a step that writes none.
LEMMA RowFactsKept ==
    ASSUME UnprocessedEventIsAwaited, PendingDeliveryIsCarried, RowsAreConsistent,
           UNCHANGED <<status, attemptCount, eventNo, outbox, processed>>
    PROVE  UnprocessedEventIsAwaited' /\ PendingDeliveryIsCarried' /\ RowsAreConsistent'
BY DEF UnprocessedEventIsAwaited, PendingDeliveryIsCarried, RowsAreConsistent

\* An event is determined by its three fields.
LEMMA EventIdentity ==
    ASSUME NEW e \in Events, NEW f \in Events,
           e.delivery = f.delivery, e.no = f.no, e.attempt = f.attempt
    PROVE  e = f
BY DEF Events

\* The empty database satisfies IInv.
LEMMA InitInv == Init => IInv
<1> SUFFICES ASSUME Init PROVE IInv
  OBVIOUS
<1>1. TypeOK
  BY BudgetAssumption DEF Init, TypeOK, Events, AttemptRows, Status, RetryTimes, Stages, Results, Agents
<1>2. /\ UnprocessedEventIsAwaited /\ PendingDeliveryIsCarried /\ RetryingHasRetryTime
      /\ AckedIsProcessed
  BY DEF Init, UnprocessedEventIsAwaited, PendingDeliveryIsCarried, RetryingHasRetryTime,
     AckedIsProcessed
<1>3. RowsAreConsistent /\ WorkersAreConsistent /\ ClaimsAreExclusive /\ ReadRowsAreLocked
  BY DEF Init, RowsAreConsistent, WorkersAreConsistent, ClaimsAreExclusive, ReadRowsAreLocked
<1> QED
  BY <1>1, <1>2, <1>3 DEF IInv

\* IInv is kept when a submission creates deliveries.
LEMMA SubmitInv ==
    ASSUME IInv, NEW D \in SUBSET Deliveries, Submit(D)
    PROVE  IInv'
<1> USE DEF IInv, Submit, workerVars, txVars, histVars
<1>1. \A d \in D : EventOf(d, 1, 1) \in Events
  BY BudgetAssumption DEF EventOf, Events
<1>2. TypeOK'
  BY <1>1 DEF TypeOK, Status
<1>3. \A d \in D : EventOf(d, 1, 1) \notin outbox
  BY DEF EventOf, RowsAreConsistent, TypeOK
<1>4. UnprocessedEventIsAwaited'
  BY DEF EventOf, TypeOK, Events, UnprocessedEventIsAwaited, RowsAreConsistent
<1>5. PendingDeliveryIsCarried'
  <2> SUFFICES ASSUME NEW d \in Deliveries, status'[d] = "pending"
               PROVE  \E e \in outbox' \ processed' : e.delivery = d
    BY DEF PendingDeliveryIsCarried
  <2>1. CASE d \in D
    <3> EventOf(d, 1, 1).delivery = d  BY DEF EventOf
    <3> EventOf(d, 1, 1) \in outbox' \ processed'  BY <2>1, <1>3 DEF TypeOK
    <3> QED  OBVIOUS
  <2>2. CASE d \notin D
    BY <2>2 DEF PendingDeliveryIsCarried, TypeOK
  <2> QED
    BY <2>1, <2>2
<1>6. RetryingHasRetryTime' /\ AckedIsProcessed'
  BY DEF TypeOK, RetryingHasRetryTime, AckedIsProcessed
<1>7. RowsAreConsistent'
  BY BudgetAssumption DEF TypeOK, Events, EventOf, RowsAreConsistent
<1>8. WorkersAreConsistent' /\ ClaimsAreExclusive' /\ ReadRowsAreLocked'
  BY DEF TypeOK, WorkersAreConsistent, ClaimsAreExclusive, ReadRowsAreLocked
<1> QED
  BY <1>2, <1>4, <1>5, <1>6, <1>7, <1>8

\* IInv is kept when a message is handed to a worker.
LEMMA ReceiveInv ==
    ASSUME IInv, NEW w \in Workers, NEW e \in outbox, Receive(w, e)
    PROVE  IInv'
<1> USE DEF IInv, Receive, rowVars, tableVars, workerVars, txVars, histVars
<1>1. TypeOK'
  BY DEF TypeOK, Stages
<1>2. UnprocessedEventIsAwaited' /\ PendingDeliveryIsCarried' /\ RowsAreConsistent'
  BY RowFactsKept
<1>3. RetryingHasRetryTime' /\ AckedIsProcessed'
  BY DEF TypeOK, RetryingHasRetryTime, AckedIsProcessed, WorkersAreConsistent
<1>4. WorkersAreConsistent'
  BY AgentAssumption DEF TypeOK, Agents, Events, WorkersAreConsistent, ReadRowsAreLocked,
     ClaimsAreExclusive, UnprocessedEventIsAwaited
<1>5. ClaimsAreExclusive'
  BY DEF TypeOK, ClaimsAreExclusive
<1>6. ReadRowsAreLocked'
  BY AgentAssumption DEF TypeOK, Agents, Events, ReadRowsAreLocked, WorkersAreConsistent
<1> QED
  BY <1>1, <1>2, <1>3, <1>4, <1>5, <1>6

\* IInv is kept when a worker claims the event id.
LEMMA ClaimInv ==
    ASSUME IInv, NEW w \in Workers, Claim(w)
    PROVE  IInv'
<1> USE DEF IInv, Claim, rowVars, tableVars, workerVars, txVars, histVars
<1>1. TypeOK'
  BY DEF TypeOK, Stages
<1>2. UnprocessedEventIsAwaited' /\ PendingDeliveryIsCarried' /\ RowsAreConsistent'
  BY RowFactsKept
<1>3. RetryingHasRetryTime' /\ AckedIsProcessed'
  BY DEF TypeOK, RetryingHasRetryTime, AckedIsProcessed, WorkersAreConsistent
<1>4. WorkersAreConsistent'
  BY AgentAssumption DEF TypeOK, Agents, Events, WorkersAreConsistent, ReadRowsAreLocked,
     ClaimsAreExclusive, UnprocessedEventIsAwaited, Claiming
<1>5. ClaimsAreExclusive'
  BY DEF TypeOK, ClaimsAreExclusive, Claiming
<1>6. ReadRowsAreLocked'
  BY AgentAssumption DEF TypeOK, Agents, Events, ReadRowsAreLocked, WorkersAreConsistent, Claiming
<1> QED
  BY <1>1, <1>2, <1>3, <1>4, <1>5, <1>6

\* IInv is kept when a worker locks the delivery row.
LEMMA LockRowInv ==
    ASSUME IInv, NEW w \in Workers, LockRow(w)
    PROVE  IInv'
<1> USE DEF IInv, LockRow, rowVars, tableVars, workerVars, txVars, histVars
<1>1. TypeOK'
  <2>1. ev[w] \in Events /\ attemptCount[ev[w].delivery] < MaxAttempts
    BY DEF TypeOK, Events, WorkersAreConsistent, UnprocessedEventIsAwaited, RowsAreConsistent
  <2>2. attemptCount[ev[w].delivery] + 1 \in 0..MaxAttempts
    BY <2>1, BudgetAssumption DEF TypeOK, Events
  <2> QED
    BY <2>1, <2>2 DEF TypeOK, Stages, Results, Agents
<1>2. UnprocessedEventIsAwaited' /\ PendingDeliveryIsCarried' /\ RowsAreConsistent'
  BY RowFactsKept
<1>3. RetryingHasRetryTime' /\ AckedIsProcessed'
  BY DEF TypeOK, RetryingHasRetryTime, AckedIsProcessed, WorkersAreConsistent
<1>4. WorkersAreConsistent'
  BY AgentAssumption DEF TypeOK, Agents, Events, WorkersAreConsistent, ReadRowsAreLocked,
     ClaimsAreExclusive, UnprocessedEventIsAwaited
<1>5. ClaimsAreExclusive'
  BY DEF TypeOK, ClaimsAreExclusive
<1>6. ReadRowsAreLocked'
  BY AgentAssumption DEF TypeOK, Agents, Events, ReadRowsAreLocked, WorkersAreConsistent
<1> QED
  BY <1>1, <1>2, <1>3, <1>4, <1>5, <1>6

\* IInv is kept when a worker sends the webhook.
LEMMA SendInv ==
    ASSUME IInv, NEW w \in Workers, Send(w)
    PROVE  IInv'
<1> USE DEF IInv, Send, rowVars, tableVars, workerVars, txVars, histVars
<1>1. TypeOK'
  <2>1. ev[w].delivery \in Deliveries
    BY DEF TypeOK, WorkersAreConsistent, Events
  <2>2. sends' \in [Deliveries -> Nat]
    BY <2>1 DEF TypeOK
  <2>3. stage' \in [Workers -> Stages] /\ result' \in [Workers -> Results]
    BY DEF TypeOK, Stages, Results
  <2> QED
    BY <2>2, <2>3 DEF TypeOK
<1>2. UnprocessedEventIsAwaited' /\ PendingDeliveryIsCarried' /\ RowsAreConsistent'
  BY RowFactsKept
<1>3. RetryingHasRetryTime' /\ AckedIsProcessed'
  BY DEF TypeOK, RetryingHasRetryTime, AckedIsProcessed, WorkersAreConsistent
<1>4. WorkersAreConsistent'
  BY AgentAssumption DEF TypeOK, Agents, Events, WorkersAreConsistent, ReadRowsAreLocked,
     ClaimsAreExclusive, UnprocessedEventIsAwaited
<1>5. ClaimsAreExclusive'
  BY DEF TypeOK, ClaimsAreExclusive
<1>6. ReadRowsAreLocked'
  BY AgentAssumption DEF TypeOK, Agents, Events, ReadRowsAreLocked, WorkersAreConsistent
<1> QED
  BY <1>1, <1>2, <1>3, <1>4, <1>5, <1>6

\* A worker at the write stage handles the one unprocessed event of a pending
\* delivery it has locked, at the attempt that event announces.
LEMMA WriterFacts ==
    ASSUME IInv, NEW w \in Workers, stage[w] = "write"
    PROVE  /\ ev[w] \in outbox \ processed /\ ev[w] \in Events
           /\ ev[w].delivery \in Deliveries
           /\ lock[ev[w].delivery] = w /\ status[ev[w].delivery] = "pending"
           /\ attemptNo[w] = attemptCount[ev[w].delivery] + 1 /\ attemptNo[w] \in 1..MaxAttempts
           /\ ev[w].no = eventNo[ev[w].delivery] /\ ev[w].attempt = attemptNo[w]
           /\ result[w] \in {"ok", "failed"}
BY BudgetAssumption DEF IInv, TypeOK, Events, WorkersAreConsistent,
   UnprocessedEventIsAwaited, RowsAreConsistent

\* IInv is kept when a worker's transaction commits.
LEMMA CommitInv ==
    ASSUME IInv, NEW w \in Workers, Commit(w)
    PROVE  IInv'
<1> DEFINE e == ev[w]
           d == ev[w].delivery
           n == attemptNo[w]
<1> USE DEF IInv
<1>1. /\ e \in outbox \ processed /\ e \in Events
      /\ d \in Deliveries /\ e.delivery = d
      /\ lock[d] = w /\ status[d] = "pending"
      /\ n = attemptCount[d] + 1 /\ n \in 1..MaxAttempts
      /\ e.no = eventNo[d] /\ e.attempt = n
      /\ result[w] \in {"ok", "failed"}
  BY WriterFacts DEF Commit
<1>2. /\ WriteOutcome(d, n, result[w])
      /\ processed' = processed \cup {e}
      /\ lock' = Released(w)
      /\ stage' = [stage EXCEPT ![w] = "ack"]
      /\ UNCHANGED <<eventNo, outbox, ev, attemptNo, result, acked, batch, retrying,
                     sends, lostSends, aborts>>
  BY <1>1 DEF Commit, txVars, histVars
<1> HIDE DEF e, d, n
\* The event is the only unprocessed one of its delivery.
<1>3. \A f \in outbox \ processed : f.delivery = d => f = e
  <2> SUFFICES ASSUME NEW f \in outbox \ processed, f.delivery = d
               PROVE  f = e
    OBVIOUS
  <2>1. f \in Events /\ f.no = e.no /\ f.attempt = e.attempt
    BY <1>1 DEF TypeOK, UnprocessedEventIsAwaited
  <2> QED
    BY <1>1, <2>1, EventIdentity
<1>4. TypeOK'
  <2>1. [no |-> n, ok |-> result[w] = "ok"] \in AttemptRows
    BY <1>1 DEF AttemptRows
  <2>2. attempts' \in [Deliveries -> Seq(AttemptRows)]
    BY <1>1, <1>2, <2>1 DEF TypeOK, WriteOutcome, Events
  <2>3. /\ status' \in [Deliveries -> Status] /\ nextRetryAt' \in [Deliveries -> RetryTimes]
        /\ attemptCount' \in [Deliveries -> 0..MaxAttempts]
    BY <1>1, <1>2 DEF TypeOK, WriteOutcome, StatusAfter, RetryTimeAfter, Status, RetryTimes
  <2> QED
    BY <1>1, <1>2, <2>2, <2>3 DEF TypeOK, Released, Stages
<1>5. UnprocessedEventIsAwaited'
  BY <1>1, <1>2, <1>3 DEF UnprocessedEventIsAwaited, WriteOutcome, TypeOK, Events
<1>6. PendingDeliveryIsCarried'
  BY <1>1, <1>2 DEF PendingDeliveryIsCarried, WriteOutcome, StatusAfter, TypeOK
<1>7. RetryingHasRetryTime' /\ AckedIsProcessed'
  BY <1>1, <1>2 DEF RetryingHasRetryTime, AckedIsProcessed, WriteOutcome, StatusAfter,
     RetryTimeAfter, TypeOK
<1>8. RowsAreConsistent'
  BY <1>1, <1>2, BudgetAssumption DEF RowsAreConsistent, WriteOutcome, StatusAfter,
     IsTerminalAttempt, TypeOK
<1>9. ClaimsAreExclusive' /\ WorkersAreConsistent'
  <2>1. \A v \in Workers \ {w} : stage[v] \in {"lock", "send", "write"} => ev[v] # e
    BY <1>1, <1>2 DEF Commit, ClaimsAreExclusive, TypeOK, e
  <2>2. \A v \in Workers \ {w} : stage[v] \in {"send", "write"} => ev[v].delivery # d
    BY <1>1 DEF WorkersAreConsistent
  <2>3. ClaimsAreExclusive'
    BY <1>2 DEF ClaimsAreExclusive, TypeOK
  <2>4. WorkersAreConsistent'
    <3> SUFFICES ASSUME NEW v \in Workers PROVE WorkersAreConsistent!(v)'
      BY DEF WorkersAreConsistent
    <3>1. CASE v = w
      BY <3>1, <1>1, <1>2 DEF TypeOK, e
    <3>2. CASE v # w
      BY <3>2, <1>1, <1>2, <2>1, <2>2 DEF TypeOK, WorkersAreConsistent, WriteOutcome, Released, Events
    <3> QED BY <3>1, <3>2
  <2> QED BY <2>3, <2>4
<1>10. ReadRowsAreLocked'
  BY <1>1, <1>2, AgentAssumption DEF ReadRowsAreLocked, WriteOutcome, Released, TypeOK, Agents
<1> QED
  BY <1>4, <1>5, <1>6, <1>7, <1>8, <1>9, <1>10

\* IInv is kept when a worker commits the offset.
LEMMA AckInv ==
    ASSUME IInv, NEW w \in Workers, Ack(w)
    PROVE  IInv'
<1> USE DEF IInv, Ack, rowVars, tableVars, workerVars, txVars, histVars
<1>1. TypeOK'
  BY DEF TypeOK, Stages, WorkersAreConsistent
<1>2. UnprocessedEventIsAwaited' /\ PendingDeliveryIsCarried' /\ RowsAreConsistent'
  BY RowFactsKept
<1>3. RetryingHasRetryTime' /\ AckedIsProcessed'
  BY DEF TypeOK, RetryingHasRetryTime, AckedIsProcessed, WorkersAreConsistent
<1>4. WorkersAreConsistent'
  BY AgentAssumption DEF TypeOK, Agents, Events, WorkersAreConsistent, ReadRowsAreLocked,
     ClaimsAreExclusive, UnprocessedEventIsAwaited
<1>5. ClaimsAreExclusive'
  BY DEF TypeOK, ClaimsAreExclusive
<1>6. ReadRowsAreLocked'
  BY AgentAssumption DEF TypeOK, Agents, Events, ReadRowsAreLocked, WorkersAreConsistent
<1> QED
  BY <1>1, <1>2, <1>3, <1>4, <1>5, <1>6

\* IInv is kept when a worker's transaction rolls back.
LEMMA WorkerAbortsInv ==
    ASSUME IInv, NEW w \in Workers, WorkerAborts(w)
    PROVE  IInv'
<1> USE DEF IInv, WorkerAborts, rowVars, tableVars, workerVars, txVars, histVars
<1>1. TypeOK'
  <2>1. ev[w].delivery \in Deliveries
    BY DEF TypeOK, WorkersAreConsistent, Events
  <2>2. lostSends' \in [Deliveries -> Nat]
    BY <2>1 DEF TypeOK
  <2>3. stage' \in [Workers -> Stages] /\ lock' \in [Deliveries -> Agents \cup {Free}]
    BY DEF TypeOK, Stages, Released
  <2> QED
    BY <2>2, <2>3 DEF TypeOK
<1>2. UnprocessedEventIsAwaited' /\ PendingDeliveryIsCarried' /\ RowsAreConsistent'
  BY RowFactsKept
<1>3. RetryingHasRetryTime' /\ AckedIsProcessed'
  BY DEF TypeOK, RetryingHasRetryTime, AckedIsProcessed, WorkersAreConsistent
<1>4. WorkersAreConsistent'
  BY AgentAssumption DEF TypeOK, Agents, Events, WorkersAreConsistent, ReadRowsAreLocked,
     ClaimsAreExclusive, UnprocessedEventIsAwaited, Released
<1>5. ClaimsAreExclusive'
  BY DEF TypeOK, ClaimsAreExclusive, Released
<1>6. ReadRowsAreLocked'
  BY AgentAssumption DEF TypeOK, Agents, Events, ReadRowsAreLocked, WorkersAreConsistent, Released
<1> QED
  BY <1>1, <1>2, <1>3, <1>4, <1>5, <1>6

\* IInv is kept when a retry falls due.
LEMMA RetryFallsDueInv ==
    ASSUME IInv, NEW d \in Deliveries, RetryFallsDue(d)
    PROVE  IInv'
<1> USE DEF IInv, RetryFallsDue, rowVars, tableVars, workerVars, txVars, histVars
<1>1. TypeOK'
  BY DEF TypeOK, RetryTimes
<1>2. UnprocessedEventIsAwaited' /\ PendingDeliveryIsCarried' /\ RowsAreConsistent'
  BY RowFactsKept
<1>3. RetryingHasRetryTime' /\ AckedIsProcessed'
  BY DEF TypeOK, RetryingHasRetryTime, AckedIsProcessed, WorkersAreConsistent
<1>4. WorkersAreConsistent'
  BY AgentAssumption DEF TypeOK, Agents, Events, WorkersAreConsistent, ReadRowsAreLocked,
     ClaimsAreExclusive, UnprocessedEventIsAwaited
<1>5. ClaimsAreExclusive'
  BY DEF TypeOK, ClaimsAreExclusive
<1>6. ReadRowsAreLocked'
  BY AgentAssumption DEF TypeOK, Agents, Events, ReadRowsAreLocked, WorkersAreConsistent
<1> QED
  BY <1>1, <1>2, <1>3, <1>4, <1>5, <1>6

\* IInv is kept when a tick locks due rows.
LEMMA ClaimDueInv ==
    ASSUME IInv, NEW t \in Tickers, ClaimDue(t)
    PROVE  IInv'
<1> USE DEF IInv, ClaimDue, rowVars, tableVars, workerVars, txVars, histVars
<1>1. TypeOK'
  BY DEF TypeOK, DueRows, Agents
<1>2. UnprocessedEventIsAwaited' /\ PendingDeliveryIsCarried' /\ RowsAreConsistent'
  BY RowFactsKept
<1>3. RetryingHasRetryTime' /\ AckedIsProcessed'
  BY DEF TypeOK, RetryingHasRetryTime, AckedIsProcessed, WorkersAreConsistent
<1>4. WorkersAreConsistent'
  BY AgentAssumption DEF TypeOK, Agents, Events, WorkersAreConsistent, ReadRowsAreLocked,
     ClaimsAreExclusive, UnprocessedEventIsAwaited, DueRows
<1>5. ClaimsAreExclusive'
  BY DEF TypeOK, ClaimsAreExclusive, DueRows
<1>6. ReadRowsAreLocked'
  BY AgentAssumption DEF TypeOK, Agents, Events, ReadRowsAreLocked, WorkersAreConsistent, DueRows
<1> QED
  BY <1>1, <1>2, <1>3, <1>4, <1>5, <1>6

\* IInv is kept when a tick commits.
LEMMA CommitTickInv ==
    ASSUME IInv, NEW t \in Tickers, CommitTick(t)
    PROVE  IInv'
<1> DEFINE D == batch[t]
           E(d) == EventOf(d, eventNo[d] + 1, attemptCount[d] + 1)
<1> USE DEF IInv
<1>1. /\ D \subseteq Deliveries
      /\ \A d \in D : lock[d] = t /\ status[d] = "retrying"
  BY DEF TypeOK, ReadRowsAreLocked
<1>2. \A d \in D : /\ E(d) \in Events /\ E(d) \notin outbox
                   /\ E(d).delivery = d /\ E(d).no = eventNo[d] + 1
                   /\ E(d).attempt = attemptCount[d] + 1
  BY <1>1, BudgetAssumption DEF EventOf, Events, RowsAreConsistent, TypeOK
<1>3. outbox' = outbox \cup {E(d) : d \in D}
  BY DEF CommitTick
<1> HIDE DEF E
<1>4. \A e \in outbox' : e \in outbox \/ (e.delivery \in D /\ e = E(e.delivery))
  BY <1>2, <1>3
<1>5. \A e \in outbox' \ outbox : /\ e \in Events /\ e.delivery \in D
                                 /\ e.no = eventNo[e.delivery] + 1
                                 /\ e.attempt = attemptCount[e.delivery] + 1
  BY <1>2, <1>4
<1> USE DEF CommitTick, workerVars, histVars
\* No event of a retrying delivery is unprocessed.
<1>6. \A e \in outbox \ processed : e.delivery \notin D
  BY <1>1 DEF UnprocessedEventIsAwaited
<1>7. TypeOK'
  <2>1. outbox' \subseteq Events
    BY <1>5 DEF TypeOK
  <2>2. eventNo' \in [Deliveries -> Nat]
    BY DEF TypeOK
  <2>3. status' \in [Deliveries -> Status] /\ nextRetryAt' \in [Deliveries -> RetryTimes]
    BY DEF TypeOK, Status, RetryTimes
  <2>4. lock' \in [Deliveries -> Agents \cup {Free}] /\ batch' \in [Tickers -> SUBSET Deliveries]
    BY DEF TypeOK, Released
  <2> QED
    BY <1>3, <2>1, <2>2, <2>3, <2>4 DEF TypeOK
<1>8. UnprocessedEventIsAwaited'
  <2> SUFFICES ASSUME NEW e \in outbox', e \notin processed
               PROVE  /\ status'[e.delivery] = "pending"
                      /\ e.no = eventNo'[e.delivery]
                      /\ e.attempt = attemptCount'[e.delivery] + 1
    BY DEF UnprocessedEventIsAwaited
  <2>1. CASE e \in outbox
    BY <2>1, <1>6 DEF UnprocessedEventIsAwaited, TypeOK, Events
  <2>2. CASE e \notin outbox
    BY <2>2, <1>1, <1>5
  <2> QED
    BY <2>1, <2>2
<1>9. PendingDeliveryIsCarried'
  <2> SUFFICES ASSUME NEW d \in Deliveries, status'[d] = "pending"
               PROVE  \E e \in outbox' \ processed' : e.delivery = d
    BY DEF PendingDeliveryIsCarried
  <2>1. CASE d \in D
    <3>1. E(d) \in outbox' /\ E(d) \notin processed' /\ E(d).delivery = d
      BY <2>1, <1>2, <1>3 DEF TypeOK
    <3> QED
      BY <3>1
  <2>2. CASE d \notin D
    BY <2>2, <1>3 DEF PendingDeliveryIsCarried, TypeOK
  <2> QED
    BY <2>1, <2>2
<1>10. RetryingHasRetryTime' /\ AckedIsProcessed'
  BY DEF RetryingHasRetryTime, AckedIsProcessed, TypeOK
<1>11. RowsAreConsistent'
  BY <1>1, <1>5 DEF RowsAreConsistent, TypeOK, Events
<1>12. WorkersAreConsistent'
  BY <1>3, AgentAssumption DEF WorkersAreConsistent, Released, TypeOK, Events
<1>13. ReadRowsAreLocked'
  BY <1>1, AgentAssumption DEF ReadRowsAreLocked, Released, TypeOK, Agents
<1>14. ClaimsAreExclusive'
  BY DEF ClaimsAreExclusive
<1> QED
  BY <1>7, <1>8, <1>9, <1>10, <1>11, <1>12, <1>13, <1>14

\* IInv is kept when a tick rolls back.
LEMMA TickAbortsInv ==
    ASSUME IInv, NEW t \in Tickers, TickAborts(t)
    PROVE  IInv'
<1> USE DEF IInv, TickAborts, rowVars, tableVars, workerVars, txVars, histVars
<1>1. TypeOK'
  BY DEF TypeOK, Released
<1>2. UnprocessedEventIsAwaited' /\ PendingDeliveryIsCarried' /\ RowsAreConsistent'
  BY RowFactsKept
<1>3. RetryingHasRetryTime' /\ AckedIsProcessed'
  BY DEF TypeOK, RetryingHasRetryTime, AckedIsProcessed, WorkersAreConsistent
<1>4. WorkersAreConsistent'
  BY AgentAssumption DEF TypeOK, Agents, Events, WorkersAreConsistent, ReadRowsAreLocked,
     ClaimsAreExclusive, UnprocessedEventIsAwaited, Released
<1>5. ClaimsAreExclusive'
  BY DEF TypeOK, ClaimsAreExclusive, Released
<1>6. ReadRowsAreLocked'
  BY AgentAssumption DEF TypeOK, Agents, Events, ReadRowsAreLocked, WorkersAreConsistent, Released
<1> QED
  BY <1>1, <1>2, <1>3, <1>4, <1>5, <1>6

\* IInv is kept when a manual retry locks its row.
LEMMA LockFailedInv ==
    ASSUME IInv, NEW o \in Operators, NEW d \in Deliveries, LockFailed(o, d)
    PROVE  IInv'
<1> USE DEF IInv, LockFailed, rowVars, tableVars, workerVars, txVars, histVars
<1>1. TypeOK'
  BY DEF TypeOK, Agents
<1>2. UnprocessedEventIsAwaited' /\ PendingDeliveryIsCarried' /\ RowsAreConsistent'
  BY RowFactsKept
<1>3. RetryingHasRetryTime' /\ AckedIsProcessed'
  BY DEF TypeOK, RetryingHasRetryTime, AckedIsProcessed, WorkersAreConsistent
<1>4. WorkersAreConsistent'
  BY AgentAssumption DEF TypeOK, Agents, Events, WorkersAreConsistent, ReadRowsAreLocked,
     ClaimsAreExclusive, UnprocessedEventIsAwaited, CanRetry
<1>5. ClaimsAreExclusive'
  BY DEF TypeOK, ClaimsAreExclusive, CanRetry
<1>6. ReadRowsAreLocked'
  BY AgentAssumption DEF TypeOK, Agents, Events, ReadRowsAreLocked, WorkersAreConsistent, CanRetry
<1> QED
  BY <1>1, <1>2, <1>3, <1>4, <1>5, <1>6

\* IInv is kept when a manual retry commits.
LEMMA CommitRetryInv ==
    ASSUME IInv, NEW o \in Operators, CommitRetry(o)
    PROVE  IInv'
<1> USE DEF IInv, workerVars, histVars
<1>1. PICK d \in retrying[o] : CommitRetry(o)!(d)
  BY DEF CommitRetry
<1> DEFINE e == EventOf(d, eventNo[d] + 1, 1)
<1>2. d \in Deliveries /\ lock[d] = o /\ status[d] = "failed"
  BY <1>1 DEF TypeOK, ReadRowsAreLocked
<1>3. e \in Events /\ e \notin outbox /\ e.delivery = d /\ e.no = eventNo[d] + 1 /\ e.attempt = 1
  BY <1>2, BudgetAssumption DEF EventOf, Events, RowsAreConsistent, TypeOK
<1>4. outbox' = outbox \cup {e}
  BY <1>1
<1> HIDE DEF e
<1>5. \A f \in outbox \ processed : f.delivery # d
  BY <1>2 DEF UnprocessedEventIsAwaited
<1>6. TypeOK'
  <2>1. outbox' \subseteq Events
    BY <1>3, <1>4 DEF TypeOK
  <2>2. /\ eventNo' \in [Deliveries -> Nat] /\ status' \in [Deliveries -> Status]
        /\ nextRetryAt' \in [Deliveries -> RetryTimes]
        /\ attemptCount' \in [Deliveries -> 0..MaxAttempts]
    BY <1>1, BudgetAssumption DEF TypeOK, Status, RetryTimes
  <2>3. lock' \in [Deliveries -> Agents \cup {Free}] /\ retrying' \in [Operators -> SUBSET Deliveries]
    BY <1>1 DEF TypeOK, Released
  <2> QED
    BY <1>1, <1>4, <2>1, <2>2, <2>3 DEF TypeOK
<1>7. UnprocessedEventIsAwaited'
  BY <1>1, <1>2, <1>3, <1>4, <1>5 DEF UnprocessedEventIsAwaited, TypeOK, Events
<1>8. PendingDeliveryIsCarried'
  BY <1>1, <1>2, <1>3, <1>4 DEF PendingDeliveryIsCarried, TypeOK
<1>9. RetryingHasRetryTime' /\ AckedIsProcessed'
  BY <1>1 DEF RetryingHasRetryTime, AckedIsProcessed, TypeOK
<1>10. RowsAreConsistent'
  BY <1>1, <1>2, <1>3, <1>4, BudgetAssumption DEF RowsAreConsistent, TypeOK, Events
<1>11. WorkersAreConsistent'
  BY <1>1, <1>2, <1>4, AgentAssumption DEF WorkersAreConsistent, Released, TypeOK, Events
<1>12. ReadRowsAreLocked'
  BY <1>1, <1>2, AgentAssumption DEF ReadRowsAreLocked, Released, TypeOK, Agents
<1>13. ClaimsAreExclusive'
  BY <1>1 DEF ClaimsAreExclusive
<1> QED
  BY <1>6, <1>7, <1>8, <1>9, <1>10, <1>11, <1>12, <1>13

\* IInv is kept when a manual retry rolls back.
LEMMA RetryAbortsInv ==
    ASSUME IInv, NEW o \in Operators, RetryAborts(o)
    PROVE  IInv'
<1> USE DEF IInv, RetryAborts, rowVars, tableVars, workerVars, txVars, histVars
<1>1. TypeOK'
  BY DEF TypeOK, Released
<1>2. UnprocessedEventIsAwaited' /\ PendingDeliveryIsCarried' /\ RowsAreConsistent'
  BY RowFactsKept
<1>3. RetryingHasRetryTime' /\ AckedIsProcessed'
  BY DEF TypeOK, RetryingHasRetryTime, AckedIsProcessed, WorkersAreConsistent
<1>4. WorkersAreConsistent'
  BY AgentAssumption DEF TypeOK, Agents, Events, WorkersAreConsistent, ReadRowsAreLocked,
     ClaimsAreExclusive, UnprocessedEventIsAwaited, Released
<1>5. ClaimsAreExclusive'
  BY DEF TypeOK, ClaimsAreExclusive, Released
<1>6. ReadRowsAreLocked'
  BY AgentAssumption DEF TypeOK, Agents, Events, ReadRowsAreLocked, WorkersAreConsistent, Released
<1> QED
  BY <1>1, <1>2, <1>3, <1>4, <1>5, <1>6

\* Every step keeps IInv.
LEMMA NextInv == IInv /\ [Next]_vars => IInv'
<1> SUFFICES ASSUME IInv, [Next]_vars PROVE IInv'
  OBVIOUS
<1>1. ASSUME NEW D \in SUBSET Deliveries \ {{}}, Submit(D) PROVE IInv'
  BY <1>1, SubmitInv
<1>2. ASSUME NEW w \in Workers, WorkerStep(w) PROVE IInv'
  BY <1>2, ReceiveInv, ClaimInv, LockRowInv, SendInv, CommitInv, AckInv, WorkerAbortsInv
     DEF WorkerStep
<1>3. ASSUME NEW d \in Deliveries, RetryFallsDue(d) PROVE IInv'
  BY <1>3, RetryFallsDueInv
<1>4. ASSUME NEW t \in Tickers, TickerStep(t) PROVE IInv'
  BY <1>4, ClaimDueInv, CommitTickInv, TickAbortsInv DEF TickerStep
<1>5. ASSUME NEW o \in Operators, OperatorStep(o) PROVE IInv'
  BY <1>5, LockFailedInv, CommitRetryInv, RetryAbortsInv DEF OperatorStep
<1>6. CASE UNCHANGED vars
  BY <1>6 DEF vars, rowVars, tableVars, workerVars, txVars, histVars, IInv, TypeOK,
     UnprocessedEventIsAwaited, PendingDeliveryIsCarried, RetryingHasRetryTime,
     AckedIsProcessed, RowsAreConsistent, WorkersAreConsistent, ClaimsAreExclusive,
     ReadRowsAreLocked
<1> QED
  BY <1>1, <1>2, <1>3, <1>4, <1>5, <1>6 DEF Next

\* A submission creates, the commit of a processed event is an attempt, the
\* commit of a tick reschedules, the commit of a manual retry retries; no
\* other step is visible.
LEMMA LifecycleStep == IInv /\ [Next]_vars => [Lifecycle!Next]_Lifecycle!vars
<1> SUFFICES ASSUME IInv, [Next]_vars PROVE [Lifecycle!Next]_Lifecycle!vars
  OBVIOUS
<1> USE DEF rowVars, tableVars, txVars, histVars, workerVars, Lifecycle!vars
<1>1. ASSUME NEW D \in SUBSET Deliveries \ {{}}, Submit(D) PROVE Lifecycle!Next
  <2>1. Lifecycle!Create(D)
    BY <1>1 DEF Submit, Lifecycle!Create
  <2> QED
    BY <2>1 DEF Lifecycle!Next
<1>2. ASSUME NEW w \in Workers, Commit(w) PROVE Lifecycle!Next
  <2> DEFINE d == ev[w].delivery
             ok == result[w] = "ok"
  <2>1. /\ d \in Deliveries /\ status[d] = "pending" /\ ok \in BOOLEAN
        /\ attemptNo[w] = attemptCount[d] + 1
        /\ WriteOutcome(d, attemptNo[w], result[w])
    BY <1>2, WriterFacts DEF Commit
  <2>2. Lifecycle!Attempt(d, ok)
    BY <2>1 DEF WriteOutcome, StatusAfter, IsTerminalAttempt, Lifecycle!Attempt
  <2> QED
    BY <2>1, <2>2 DEF Lifecycle!Next
<1>3. ASSUME NEW w \in Workers, WorkerStep(w), ~Commit(w) PROVE UNCHANGED Lifecycle!vars
  BY <1>3 DEF WorkerStep, Receive, Claim, LockRow, Send, Ack, WorkerAborts
<1>4. ASSUME NEW d \in Deliveries, RetryFallsDue(d) PROVE UNCHANGED Lifecycle!vars
  BY <1>4 DEF RetryFallsDue
<1>5. ASSUME NEW t \in Tickers, CommitTick(t) PROVE Lifecycle!Next
  <2>1. batch[t] \in SUBSET Deliveries /\ Lifecycle!Reschedule(batch[t])
    BY <1>5 DEF CommitTick, IInv, TypeOK, ReadRowsAreLocked, Lifecycle!Reschedule
  <2> QED
    BY <2>1 DEF Lifecycle!Next
<1>6. ASSUME NEW t \in Tickers, TickerStep(t), ~CommitTick(t) PROVE UNCHANGED Lifecycle!vars
  BY <1>6 DEF TickerStep, ClaimDue, TickAborts
<1>7. ASSUME NEW o \in Operators, CommitRetry(o) PROVE Lifecycle!Next
  <2>1. PICK d \in retrying[o] : CommitRetry(o)!(d)
    BY <1>7 DEF CommitRetry
  <2>2. d \in Deliveries /\ Lifecycle!Retry(d)
    BY <2>1 DEF IInv, TypeOK, ReadRowsAreLocked, Lifecycle!Retry
  <2> QED
    BY <2>2 DEF Lifecycle!Next
<1>8. ASSUME NEW o \in Operators, OperatorStep(o), ~CommitRetry(o) PROVE UNCHANGED Lifecycle!vars
  BY <1>8 DEF OperatorStep, LockFailed, RetryAborts
<1>9. CASE UNCHANGED vars
  BY <1>9 DEF vars
<1> QED
  BY <1>1, <1>2, <1>3, <1>4, <1>5, <1>6, <1>7, <1>8, <1>9 DEF Next

\* A history gets longer by an attempt.
LEMMA HistoryGrows ==
    ASSUME NEW h \in Seq(AttemptRows), NEW n \in 1..MaxAttempts, NEW ok \in BOOLEAN
    PROVE  LET g == Append(h, [no |-> n, ok |-> ok])
           IN  /\ g # << >> /\ Len(g) = Len(h) + 1
               /\ \A i \in 1..Len(h) : g[i] = h[i]
               /\ g[Len(g)] = [no |-> n, ok |-> ok]
  OBVIOUS

\* The history of a delivery is kept by every step of the life cycle.
LEMMA HistoryStep ==
    ASSUME TypeOK, TypeOK', RowsAreConsistent, HistoryExplainsRow, HistoryIsOpen,
           [Lifecycle!Next]_Lifecycle!vars
    PROVE  HistoryExplainsRow' /\ HistoryIsOpen'
<1> DEFINE H(d) == attempts[d]
           Open(d) == /\ status[d] = "none" => H(d) = << >>
                      /\ status[d] = "pending" =>
                           /\ H(d) # << >> => ~H(d)[Len(H(d))].ok
                           /\ attemptCount[d] = IF H(d) = << >> \/ H(d)[Len(H(d))].no = MaxAttempts
                                                THEN 0 ELSE H(d)[Len(H(d))].no
<1> SUFFICES ASSUME NEW d \in Deliveries
             PROVE  RowIsExplained(d)' /\ Open(d)'
  BY DEF HistoryExplainsRow, HistoryIsOpen
<1>1. RowIsExplained(d) /\ Open(d)
  BY DEF HistoryExplainsRow, HistoryIsOpen
<1>2. CASE UNCHANGED <<status[d], attemptCount[d], attempts[d]>>
  BY <1>1, <1>2 DEF RowIsExplained
<1>3. ASSUME NEW D \in SUBSET Deliveries, Lifecycle!Create(D), d \in D
      PROVE  RowIsExplained(d)' /\ Open(d)'
  <2>1. /\ status[d] = "none" /\ status'[d] = "pending"
        /\ attemptCount'[d] = 0 /\ attempts'[d] = attempts[d]
    BY <1>3 DEF Lifecycle!Create, RowsAreConsistent, TypeOK
  <2> QED
    BY <1>1, <2>1 DEF RowIsExplained
<1>4. ASSUME NEW D \in SUBSET Deliveries, Lifecycle!Reschedule(D), d \in D
      PROVE  RowIsExplained(d)' /\ Open(d)'
  <2>1. /\ status[d] = "retrying" /\ status'[d] = "pending"
        /\ attemptCount'[d] = attemptCount[d] /\ attempts'[d] = attempts[d]
    BY <1>4 DEF Lifecycle!Reschedule, TypeOK
  <2> QED
    BY <1>1, <2>1 DEF RowIsExplained
<1>5. CASE Lifecycle!Retry(d)
  <2>1. /\ status[d] = "failed" /\ status'[d] = "pending"
        /\ attemptCount'[d] = 0 /\ attempts'[d] = attempts[d]
    BY <1>5 DEF Lifecycle!Retry, TypeOK
  <2> QED
    BY <1>1, <2>1 DEF RowIsExplained
<1>6. ASSUME NEW ok \in BOOLEAN, Lifecycle!Attempt(d, ok)
      PROVE  RowIsExplained(d)' /\ Open(d)'
  <2> DEFINE h == attempts[d]
             n == attemptCount[d] + 1
             g == attempts'[d]
  <2>1. /\ status[d] = "pending" /\ attemptCount'[d] = n
        /\ g = Append(h, [no |-> n, ok |-> ok])
        /\ status'[d] = IF ok THEN "delivered" ELSE IF n >= MaxAttempts THEN "failed" ELSE "retrying"
    BY <1>6 DEF Lifecycle!Attempt, TypeOK
  <2>2. n \in 1..MaxAttempts /\ h \in Seq(AttemptRows) /\ MaxAttempts \in Nat \ {0}
    BY <2>1, BudgetAssumption DEF TypeOK, RowsAreConsistent
  <2>3. /\ g # << >> /\ Len(g) = Len(h) + 1 /\ Len(h) \in Nat
        /\ \A i \in 1..Len(h) : g[i] = h[i]
        /\ g[Len(g)] = [no |-> n, ok |-> ok]
    <3>1. Len(h) \in Nat
      BY <2>2
    <3> QED
      BY <2>1, <2>2, <3>1, HistoryGrows
  <2>4. g[Len(g)].no = n /\ g[Len(g)].ok = ok
    BY <2>3
  <2>5. \A i \in 1..Len(h) : ~h[i].ok
    BY <1>1, <2>1, <2>2 DEF RowIsExplained
  <2>6. \A i \in 1..Len(g) :
          /\ g[i].no = IF i = 1 \/ g[i-1].no = MaxAttempts THEN 1 ELSE g[i-1].no + 1
          /\ g[i].ok => i = Len(g)
    <3> SUFFICES ASSUME NEW i \in 1..Len(g)
                 PROVE  /\ g[i].no = IF i = 1 \/ g[i-1].no = MaxAttempts THEN 1 ELSE g[i-1].no + 1
                        /\ g[i].ok => i = Len(g)
      OBVIOUS
    <3>1. CASE i \in 1..Len(h)
      <4>1. g[i] = h[i] /\ (i # 1 => g[i-1] = h[i-1])
        BY <2>3, <3>1
      <4>2. h[i].no = IF i = 1 \/ h[i-1].no = MaxAttempts THEN 1 ELSE h[i-1].no + 1
        BY <1>1, <3>1 DEF RowIsExplained
      <4> QED
        BY <2>5, <3>1, <4>1, <4>2
    <3>2. CASE i = Len(g)
      <4>1. CASE h = << >>
        <5>1. Len(h) = 0 /\ n = 1
          BY <1>1, <2>1, <4>1
        <5> QED
          BY <2>3, <2>4, <3>2, <5>1
      <4>2. CASE h # << >>
        <5>1. Len(h) \in 1..Len(h) /\ i - 1 = Len(h) /\ i # 1
          BY <2>2, <2>3, <3>2, <4>2
        <5>2. g[i-1] = h[Len(h)]
          BY <2>3, <5>1
        <5>3. n = IF h[Len(h)].no = MaxAttempts THEN 1 ELSE h[Len(h)].no + 1
          BY <1>1, <2>1, <4>2
        <5> QED
          BY <2>4, <3>2, <5>1, <5>2, <5>3
      <4> QED
        BY <4>1, <4>2
    <3> QED
      BY <2>3, <3>1, <3>2
  <2>7. status'[d] = IF g[Len(g)].ok THEN "delivered"
                     ELSE IF g[Len(g)].no = MaxAttempts THEN "failed" ELSE "retrying"
    BY <2>1, <2>2, <2>4
  <2>8. status'[d] \in {"delivered", "failed", "retrying"}
    BY <2>1
  <2> HIDE DEF g, n, h
  <2>9. attemptCount'[d] = g[Len(g)].no
    BY <2>1, <2>4
  <2> USE DEF g
  <2>10. RowIsExplained(d)'
    BY <2>3, <2>6, <2>7, <2>8, <2>9 DEF RowIsExplained
  <2> QED
    BY <2>8, <2>10
<1>7. ASSUME NEW e \in Deliveries, e # d, Lifecycle!Retry(e) \/ \E ok \in BOOLEAN : Lifecycle!Attempt(e, ok)
      PROVE  UNCHANGED <<status[d], attemptCount[d], attempts[d]>>
  BY <1>7 DEF TypeOK, Lifecycle!Retry, Lifecycle!Attempt
<1>8. ASSUME NEW D \in SUBSET Deliveries, d \notin D, Lifecycle!Create(D) \/ Lifecycle!Reschedule(D)
      PROVE  UNCHANGED <<status[d], attemptCount[d], attempts[d]>>
  BY <1>8 DEF Lifecycle!Create, Lifecycle!Reschedule
<1>9. CASE UNCHANGED Lifecycle!vars
  BY <1>2, <1>9 DEF Lifecycle!vars
<1> QED
  BY <1>2, <1>3, <1>4, <1>5, <1>6, <1>7, <1>8, <1>9 DEF Lifecycle!Next

\* The lock of the row leaves room for one open send of a delivery.
LEMMA OneOpenSend ==
    ASSUME IInv, NEW d \in Deliveries, NEW v \in OpenSends(d)
    PROVE  OpenSends(d) = {v}
BY DEF IInv, OpenSends, WorkersAreConsistent

\* The account of a delivery balances again after a step of another actor.
LEMMA AccountKept ==
    ASSUME NEW d \in Deliveries, Account(d),
           UNCHANGED <<sends[d], lostSends[d], ProcessedOf(d), OpenSends(d)>>
    PROVE  Account(d)'
BY DEF Account

\* Every step keeps the accounts: a send opens one, the commit of the
\* processed event or the abort of the transaction settles it.
LEMMA AccountStep ==
    ASSUME IInv, IInv', RequestsAreAccounted, [Next]_vars, NEW d \in Deliveries
    PROVE  Account(d)'
<1> USE DEF rowVars, tableVars, txVars, histVars, workerVars
<1> DEFINE P == ProcessedOf(d)
           O == OpenSends(d)
           Kept == UNCHANGED <<sends[d], lostSends[d], P, O>>
<1>1. /\ IsFiniteSet(processed) /\ IsFiniteSet(P) /\ Cardinality(P) \in Nat
      /\ sends[d] \in Nat /\ lostSends[d] \in Nat
      /\ sends[d] = Cardinality(P) + lostSends[d] + Cardinality(O)
      /\ Account(d)
  <2>1. P \in SUBSET processed
    BY DEF ProcessedOf
  <2>2. IsFiniteSet(processed) /\ Account(d)
    BY DEF RequestsAreAccounted, SendsAreAccountedFor
  <2>3. IsFiniteSet(P)
    BY <2>1, <2>2, FS_Subset
  <2>4. Cardinality(P) \in Nat
    BY <2>3, FS_CardinalityType
  <2> QED
    BY <2>2, <2>3, <2>4 DEF Account, IInv, TypeOK
<1>2. \A v \in O : O = {v}
  BY OneOpenSend
<1>3. \A v \in O' : O' = {v}
  BY DEF IInv, OpenSends, WorkersAreConsistent
<1>4. ASSUME NEW w \in Workers, Send(w) PROVE Account(d)'
  <2>1. CASE ev[w].delivery = d
    <3>1. O = {}
      BY <1>2, <1>4, <2>1 DEF IInv, OpenSends, WorkersAreConsistent, Send
    <3>2. w \in O'
      BY <1>4, <2>1 DEF IInv, TypeOK, Send, OpenSends
    <3>3. Cardinality(O) = 0 /\ Cardinality(O') = 1
      BY <1>3, <3>1, <3>2, FS_EmptySet, FS_Singleton
    <3>4. P' = P /\ sends'[d] = sends[d] + 1 /\ lostSends'[d] = lostSends[d]
      BY <1>4, <2>1 DEF IInv, TypeOK, Send, ProcessedOf
    <3> QED
      BY <1>1, <3>3, <3>4 DEF Account
  <2>2. CASE ev[w].delivery # d
    <3>1. Kept
      BY <1>4, <2>2 DEF IInv, TypeOK, Send, OpenSends, ProcessedOf
    <3> QED
      BY <1>1, <3>1, AccountKept
  <2> QED
    BY <2>1, <2>2
<1>5. ASSUME NEW w \in Workers, Commit(w) PROVE Account(d)'
  <2>1. /\ stage[w] = "write" /\ result[w] \in {"ok", "failed"} /\ ev[w] \notin processed
        /\ processed' = processed \cup {ev[w]}
        /\ stage' = [stage EXCEPT ![w] = "ack"]
        /\ UNCHANGED <<ev, result, sends, lostSends>>
    BY <1>5 DEF IInv, Commit, WorkersAreConsistent
  <2>2. CASE ev[w].delivery = d
    <3>1. O = {w}
      BY <1>2, <2>1, <2>2 DEF OpenSends
    <3>2. O' = {}
      BY <1>3, <2>1, <3>1 DEF IInv, TypeOK, OpenSends
    <3>3. Cardinality(O) = 1 /\ Cardinality(O') = 0
      BY <3>1, <3>2, FS_EmptySet, FS_Singleton
    <3>4. P' = P \cup {ev[w]} /\ ev[w] \notin P
      BY <2>1, <2>2 DEF ProcessedOf
    <3>5. Cardinality(P') = Cardinality(P) + 1
      BY <1>1, <3>4, FS_AddElement
    <3> HIDE DEF P, O
    <3> QED
      BY <1>1, <2>1, <3>3, <3>5 DEF Account, P, O
  <2>3. CASE ev[w].delivery # d
    <3>1. Kept
      BY <2>1, <2>3 DEF IInv, TypeOK, OpenSends, ProcessedOf
    <3> QED
      BY <1>1, <3>1, AccountKept
  <2> QED
    BY <2>2, <2>3
<1>6. ASSUME NEW w \in Workers, WorkerAborts(w) PROVE Account(d)'
  <2>1. CASE stage[w] = "write" /\ ev[w].delivery = d
    <3>1. result[w] # "stale"
      BY <2>1 DEF IInv, WorkersAreConsistent
    <3>2. O = {w}
      BY <1>2, <2>1, <3>1 DEF OpenSends
    <3>3. O' = {}
      BY <1>3, <1>6, <3>2 DEF IInv, TypeOK, WorkerAborts, OpenSends
    <3>4. Cardinality(O) = 1 /\ Cardinality(O') = 0
      BY <3>2, <3>3, FS_EmptySet, FS_Singleton
    <3>5. P' = P /\ sends' = sends /\ lostSends'[d] = lostSends[d] + 1
      BY <1>6, <2>1, <3>1 DEF IInv, TypeOK, WorkerAborts, ProcessedOf
    <3> QED
      BY <1>1, <3>4, <3>5 DEF Account
  <2>2. CASE ~(stage[w] = "write" /\ ev[w].delivery = d)
    <3>1. O' = O
      BY <1>6, <2>2 DEF IInv, TypeOK, WorkerAborts, OpenSends
    <3>2. P' = P /\ sends' = sends
      BY <1>6 DEF WorkerAborts, ProcessedOf
    <3>3. lostSends'[d] = lostSends[d]
      BY <1>6, <2>2 DEF IInv, TypeOK, WorkerAborts
    <3> QED
      BY <1>1, <3>1, <3>2, <3>3, AccountKept
  <2> QED
    BY <2>1, <2>2
<1>7. ASSUME NEW w \in Workers, WorkerStep(w), ~Send(w), ~Commit(w), ~WorkerAborts(w)
      PROVE  Kept
  <2>1. UNCHANGED <<sends, lostSends, processed>>
    BY <1>7 DEF WorkerStep, Receive, Claim, LockRow, Ack
  <2>2. O' = O
    <3>1. CASE \E e \in outbox : Receive(w, e)
      BY <3>1 DEF IInv, TypeOK, Receive, OpenSends
    <3>2. CASE Claim(w)
      BY <3>2 DEF IInv, TypeOK, Claim, OpenSends
    <3>3. CASE LockRow(w)
      <4>1. ev[w] \in outbox \ processed
        BY <3>3 DEF IInv, LockRow, WorkersAreConsistent
      <4>2. status[ev[w].delivery] = "pending"
        BY <4>1 DEF IInv, UnprocessedEventIsAwaited
      <4> QED
        BY <3>3, <4>2 DEF IInv, TypeOK, LockRow, OpenSends
    <3>4. CASE Ack(w)
      BY <3>4 DEF IInv, TypeOK, Ack, OpenSends
    <3> QED
      BY <1>7, <3>1, <3>2, <3>3, <3>4 DEF WorkerStep
  <2> QED
    BY <2>1, <2>2 DEF ProcessedOf
<1>8. ASSUME UNCHANGED <<processed, sends, lostSends, workerVars>> PROVE Kept
  BY <1>8 DEF OpenSends, ProcessedOf
<1>9. ASSUME NEW D \in SUBSET Deliveries, Submit(D) PROVE Kept
  BY <1>8, <1>9 DEF Submit
<1>10. ASSUME NEW e \in Deliveries, RetryFallsDue(e) PROVE Kept
  BY <1>8, <1>10 DEF RetryFallsDue
<1>11. ASSUME NEW t \in Tickers, TickerStep(t) PROVE Kept
  BY <1>8, <1>11 DEF TickerStep, ClaimDue, CommitTick, TickAborts
<1>12. ASSUME NEW o \in Operators, OperatorStep(o) PROVE Kept
  BY <1>8, <1>12 DEF OperatorStep, LockFailed, CommitRetry, RetryAborts
<1>13. CASE UNCHANGED vars
  BY <1>1, <1>8, <1>13, AccountKept DEF vars
<1> HIDE DEF P, O
<1>14. Kept => Account(d)'
  BY <1>1, AccountKept DEF P, O
<1> QED
  BY <1>4, <1>5, <1>6, <1>7, <1>9, <1>10, <1>11, <1>12, <1>13, <1>14 DEF Next

\* Events are processed one at a time.
LEMMA ProcessedIsFinite ==
    ASSUME IsFiniteSet(processed), [Next]_vars
    PROVE  IsFiniteSet(processed')
<1> USE DEF rowVars, tableVars, txVars, histVars, workerVars
<1>1. ASSUME NEW w \in Workers, Commit(w) PROVE IsFiniteSet(processed')
  BY <1>1, FS_AddElement DEF Commit
<1>2. ASSUME NEW w \in Workers, WorkerStep(w), ~Commit(w) PROVE processed' = processed
  BY <1>2 DEF WorkerStep, Receive, Claim, LockRow, Send, Ack, WorkerAborts
<1>3. ASSUME NEW D \in SUBSET Deliveries, Submit(D) PROVE processed' = processed
  BY <1>3 DEF Submit
<1>4. ASSUME NEW d \in Deliveries, RetryFallsDue(d) PROVE processed' = processed
  BY <1>4 DEF RetryFallsDue
<1>5. ASSUME NEW t \in Tickers, TickerStep(t) PROVE processed' = processed
  BY <1>5 DEF TickerStep, ClaimDue, CommitTick, TickAborts
<1>6. ASSUME NEW o \in Operators, OperatorStep(o) PROVE processed' = processed
  BY <1>6 DEF OperatorStep, LockFailed, CommitRetry, RetryAborts
<1>7. CASE UNCHANGED vars
  BY <1>7 DEF vars
<1> QED
  BY <1>1, <1>2, <1>3, <1>4, <1>5, <1>6, <1>7 DEF Next

\* Events are numbered on.
LEMMA EventNumbersGrow ==
    ASSUME IInv, [Next]_vars, NEW d \in Deliveries
    PROVE  eventNo'[d] >= eventNo[d]
<1> USE DEF rowVars, tableVars, txVars, histVars, workerVars
<1>1. eventNo \in [Deliveries -> Nat]
  BY DEF IInv, TypeOK
<1>2. ASSUME NEW D \in SUBSET Deliveries, Submit(D) PROVE eventNo'[d] >= eventNo[d]
  <2>1. d \in D => eventNo[d] = 0
    BY <1>2 DEF Submit, IInv, RowsAreConsistent
  <2> QED
    BY <1>1, <1>2, <2>1 DEF Submit
<1>3. ASSUME NEW w \in Workers, WorkerStep(w) PROVE eventNo' = eventNo
  BY <1>3 DEF WorkerStep, Receive, Claim, LockRow, Send, Commit, Ack, WorkerAborts
<1>4. ASSUME NEW e \in Deliveries, RetryFallsDue(e) PROVE eventNo' = eventNo
  BY <1>4 DEF RetryFallsDue
<1>5. ASSUME NEW t \in Tickers, TickerStep(t) PROVE eventNo'[d] >= eventNo[d]
  BY <1>1, <1>5 DEF TickerStep, ClaimDue, CommitTick, TickAborts
<1>6. ASSUME NEW o \in Operators, OperatorStep(o) PROVE eventNo'[d] >= eventNo[d]
  BY <1>1, <1>6 DEF OperatorStep, LockFailed, CommitRetry, RetryAborts
<1>7. CASE UNCHANGED vars
  BY <1>1, <1>7 DEF vars
<1> QED
  BY <1>1, <1>2, <1>3, <1>4, <1>5, <1>6, <1>7 DEF Next

\* To the core the page is one more operator, whose requests may fail.
LEMMA PageStep == [PageNext]_allVars => [Next]_vars \/ Fails
<1> SUFFICES ASSUME [PageNext]_allVars PROVE [Next]_vars \/ Fails
  OBVIOUS
<1>1. CASE CoreStep
  BY <1>1 DEF CoreStep, Next
<1>2. CASE ServeRetry
  <2>1. OperatorStep(Ours)
    BY <1>2 DEF ServeRetry, OperatorStep
  <2> QED
    BY <2>1, PageAssumption DEF Next
<1>3. CASE LoseRetry
  BY <1>3, PageAssumption DEF LoseRetry, OperatorStep, Next
<1>4. CASE ListFails
  BY <1>4 DEF ListFails
<1>5. CASE \/ Poll \/ ServeList \/ ListArrives \/ RefuseRetry \/ RetryQueued \/ RetryFailed
           \/ \E d \in Deliveries : ClickRetry(d)
  BY <1>5 DEF Poll, ServeList, ListArrives, RefuseRetry, RetryQueued, RetryFailed, ClickRetry
<1>6. CASE UNCHANGED allVars
  BY <1>6 DEF allVars
<1> QED
  BY <1>1, <1>2, <1>3, <1>4, <1>5, <1>6 DEF PageNext

\* A request that fails before it reaches the core leaves no trace there.
LEMMA FailsInv == IInv /\ Fails => IInv' /\ UNCHANGED <<Lifecycle!vars, eventNo>>
<1> SUFFICES ASSUME IInv, Fails PROVE IInv' /\ UNCHANGED <<Lifecycle!vars, eventNo>>
  OBVIOUS
<1> USE DEF Fails, IInv, rowVars, tableVars, workerVars, txVars
<1>1. TypeOK'
  BY DEF TypeOK
<1>2. UnprocessedEventIsAwaited' /\ PendingDeliveryIsCarried' /\ RowsAreConsistent'
  BY RowFactsKept
<1>3. RetryingHasRetryTime' /\ AckedIsProcessed' /\ ClaimsAreExclusive' /\ ReadRowsAreLocked'
  BY DEF RetryingHasRetryTime, AckedIsProcessed, ClaimsAreExclusive, ReadRowsAreLocked
<1>4. WorkersAreConsistent'
  BY DEF WorkersAreConsistent
<1> QED
  BY <1>1, <1>2, <1>3, <1>4 DEF Lifecycle!vars

\* IInv is kept by the pipeline and the page together.
LEMMA PageNextInv == IInv /\ [PageNext]_allVars => IInv'
BY PageStep, NextInv, FailsInv

\* No list that is shown or on its way is older than a retry that was
\* confirmed, unless the page knows better.
LEMMA ConfirmedStep == IInv /\ ConfirmedInv /\ [PageNext]_allVars => ConfirmedInv'
<1> SUFFICES ASSUME IInv, ConfirmedInv, [PageNext]_allVars PROVE ConfirmedInv'
  OBVIOUS
<1>1. \A d \in Deliveries : eventNo'[d] >= eventNo[d] /\ {eventNo[d], eventNo'[d]} \subseteq Nat
  <2>1. CASE [Next]_vars
    BY <2>1, EventNumbersGrow, NextInv DEF IInv, TypeOK
  <2>2. CASE Fails
    BY <2>2, FailsInv DEF IInv, TypeOK
  <2> QED
    BY <2>1, <2>2, PageStep
<1>2. CASE UNCHANGED pageVars
  BY <1>1, <1>2 DEF ConfirmedInv, QueuedRetryIsShown, ShownRow, pageVars, listVars
<1>3. CASE UNCHANGED <<listVars, confirmed>>
  BY <1>1, <1>3 DEF ConfirmedInv, QueuedRetryIsShown, ShownRow, listVars
<1>4. CASE Poll
  BY <1>1, <1>4 DEF ConfirmedInv, QueuedRetryIsShown, ShownRow, Poll
<1>5. CASE ServeList
  BY <1>1, <1>5 DEF ConfirmedInv, QueuedRetryIsShown, ShownRow, ServeList, Listed, Row
<1>6. CASE ListArrives
  BY <1>1, <1>6 DEF ConfirmedInv, QueuedRetryIsShown, ShownRow, ListArrives
<1>7. CASE ListFails
  BY <1>1, <1>7 DEF ConfirmedInv, QueuedRetryIsShown, ShownRow, ListFails
<1>8. CASE RetryQueued
  BY <1>1, <1>8 DEF ConfirmedInv, QueuedRetryIsShown, RetryQueued, Invalidate, vars, rowVars
<1>9. CASE CoreStep \/ ServeRetry \/ LoseRetry \/ RefuseRetry \/ RetryFailed
           \/ \E d \in Deliveries : ClickRetry(d)
  BY <1>2, <1>3, <1>9 DEF CoreStep, ServeRetry, LoseRetry, RefuseRetry, RetryFailed, ClickRetry,
     pageVars
<1> QED
  BY <1>2, <1>4, <1>5, <1>6, <1>7, <1>8, <1>9 DEF PageNext, allVars

-----------------------------------------------------------------------------
(* Delivery: theorems *)

\* IInv holds throughout every execution.
THEOREM InductiveInvariant == Spec => []IInv
BY InitInv, NextInv, PTL DEF Spec

\* Every variable keeps its type; in particular attempt_count never exceeds
\* MAX_ATTEMPTS (backoff.ts) and the outbox only holds well-formed events.
THEOREM TypeCorrectness == Spec => []TypeOK
<1>1. IInv => TypeOK
  BY DEF IInv
<1> QED
  BY <1>1, InductiveInvariant, PTL

\* Every unprocessed event is the latest of a pending delivery and announces
\* its next attempt: ticks and manual retries never race an event in flight.
THEOREM EventsAreAwaited == Spec => []UnprocessedEventIsAwaited
<1>1. IInv => UnprocessedEventIsAwaited
  BY DEF IInv
<1> QED
  BY <1>1, InductiveInvariant, PTL

\* No pending delivery is without an unprocessed event in the outbox.
THEOREM PendingIsCarried == Spec => []PendingDeliveryIsCarried
<1>1. IInv => PendingDeliveryIsCarried
  BY DEF IInv
<1> QED
  BY <1>1, InductiveInvariant, PTL

\* An offset is committed only for an event whose transaction committed.
THEOREM AckAfterProcessing == Spec => []AckedIsProcessed
<1>1. IInv => AckedIsProcessed
  BY DEF IInv
<1> QED
  BY <1>1, InductiveInvariant, PTL

\* At most one transaction acts on a delivery at a time.
THEOREM MutualExclusion == Spec => []OneActorPerDelivery
<1>1. IInv => OneActorPerDelivery
  <2> SUFFICES ASSUME IInv, NEW d \in Deliveries, NEW a \in ActingOn(d), NEW b \in ActingOn(d)
               PROVE  a = b
    BY DEF OneActorPerDelivery
  <2>1. \A c \in ActingOn(d) : lock[d] = c
    BY DEF IInv, ActingOn, WorkersAreConsistent, ReadRowsAreLocked
  <2> QED
    BY <2>1
<1> QED
  BY <1>1, InductiveInvariant, PTL

\* A delivered delivery is never touched again and causes no further request.
THEOREM DeliveredStaysDelivered == Spec => DeliveredIsFinal
<1> DEFINE Final == \A d \in Deliveries : status[d] = "delivered" =>
                       /\ status'[d] = "delivered"
                       /\ UNCHANGED <<attempts[d], attemptCount[d], eventNo[d], sends[d]>>
<1>1. IInv /\ Next => Final
  <2> SUFFICES ASSUME IInv, Next, NEW d \in Deliveries, status[d] = "delivered"
               PROVE  /\ status'[d] = "delivered"
                      /\ UNCHANGED <<attempts[d], attemptCount[d], eventNo[d], sends[d]>>
    OBVIOUS
  <2> USE DEF IInv, rowVars, tableVars, txVars, histVars, workerVars
  <2>1. ASSUME NEW D \in SUBSET Deliveries \ {{}}, Submit(D) PROVE Final!(d)!2
    BY <2>1 DEF Submit
  <2>2. ASSUME NEW w \in Workers, Send(w) PROVE Final!(d)!2
    <3>1. ev[w].delivery # d
      BY <2>2 DEF Send, WorkersAreConsistent, UnprocessedEventIsAwaited
    <3> QED
      BY <2>2, <3>1 DEF Send, TypeOK
  <2>3. ASSUME NEW w \in Workers, Commit(w) PROVE Final!(d)!2
    <3>1. ev[w].delivery # d
      BY <2>3, WriterFacts DEF Commit
    <3> QED
      BY <2>3, <3>1 DEF Commit, WriteOutcome, TypeOK
  <2>4. ASSUME NEW w \in Workers, WorkerStep(w), ~Send(w), ~Commit(w) PROVE Final!(d)!2
    BY <2>4 DEF WorkerStep, Receive, Claim, LockRow, Ack, WorkerAborts
  <2>5. ASSUME NEW e \in Deliveries, RetryFallsDue(e) PROVE Final!(d)!2
    BY <2>5 DEF RetryFallsDue
  <2>6. ASSUME NEW t \in Tickers, TickerStep(t) PROVE Final!(d)!2
    BY <2>6 DEF TickerStep, ClaimDue, CommitTick, TickAborts, ReadRowsAreLocked
  <2>7. ASSUME NEW o \in Operators, OperatorStep(o) PROVE Final!(d)!2
    BY <2>7 DEF OperatorStep, LockFailed, CommitRetry, RetryAborts, ReadRowsAreLocked, TypeOK
  <2> QED
    BY <2>1, <2>2, <2>3, <2>4, <2>5, <2>6, <2>7 DEF Next
<1>2. IInv /\ [Next]_vars => [Final]_vars
  BY <1>1
<1> QED
  BY <1>2, InductiveInvariant, PTL DEF Spec, DeliveredIsFinal

\* The pipeline implements the promised life cycle: a submission creates, the
\* commit of a processed event is an attempt, the commit of a tick reschedules,
\* the commit of a manual retry retries; no other step is visible.
THEOREM Refinement == Spec => ImplementsLifecycle
<1>1. Init => Lifecycle!Init
  BY DEF Init, Lifecycle!Init
<1>2. IInv /\ [Next]_vars => [Lifecycle!Next]_Lifecycle!vars
  BY LifecycleStep
<1> QED
  BY <1>1, <1>2, InductiveInvariant, PTL DEF Spec, ImplementsLifecycle, Lifecycle!Spec

\* The rows of delivery_attempts explain status and counter of a delivery.
THEOREM HistoryExplains == Spec => []HistoryExplainsRow
<1> DEFINE Inv == HistoryExplainsRow /\ HistoryIsOpen
<1>1. Init => Inv
  BY DEF Init, HistoryExplainsRow, RowIsExplained, HistoryIsOpen
<1>2. IInv /\ Inv /\ [Next]_vars => Inv'
  BY NextInv, LifecycleStep, HistoryStep DEF IInv
<1>3. Inv => HistoryExplainsRow
  OBVIOUS
<1> HIDE DEF Inv
<1> QED
  BY <1>1, <1>2, <1>3, InductiveInvariant, PTL DEF Spec

\* One webhook request per processed event, save those lost with their
\* transaction: duplicates of an event never cause a second request.
THEOREM RequestsAreExplained == Spec => []SendsAreAccountedFor
<1>1. Init => RequestsAreAccounted
  <2> SUFFICES ASSUME Init PROVE IsFiniteSet(processed) /\ \A d \in Deliveries : Account(d)
    BY DEF RequestsAreAccounted, SendsAreAccountedFor
  <2>1. IsFiniteSet(processed)
    BY FS_EmptySet DEF Init
  <2>2. ASSUME NEW d \in Deliveries PROVE Account(d)
    <3>1. ProcessedOf(d) = {} /\ OpenSends(d) = {} /\ sends[d] = 0 /\ lostSends[d] = 0
      BY DEF Init, ProcessedOf, OpenSends
    <3>2. Cardinality(ProcessedOf(d)) = 0 /\ Cardinality(OpenSends(d)) = 0
      BY <3>1, FS_EmptySet
    <3> QED
      BY <3>1, <3>2 DEF Account
  <2> QED
    BY <2>1, <2>2
<1>2. IInv /\ RequestsAreAccounted /\ [Next]_vars => RequestsAreAccounted'
  BY NextInv, AccountStep, ProcessedIsFinite DEF RequestsAreAccounted, SendsAreAccountedFor
<1>3. RequestsAreAccounted => SendsAreAccountedFor
  BY DEF RequestsAreAccounted
<1> QED
  BY <1>1, <1>2, <1>3, InductiveInvariant, PTL DEF Spec

\* With the page the pipeline still implements the promised life cycle.
THEOREM PageRefinement == PageSpec => ImplementsLifecycle
<1>1. Init => IInv /\ Lifecycle!Init
  BY InitInv DEF Init, Lifecycle!Init
<1>2. IInv /\ [PageNext]_allVars => [Lifecycle!Next]_Lifecycle!vars
  BY PageStep, LifecycleStep, FailsInv
<1> QED
  BY <1>1, <1>2, PageNextInv, PTL DEF PageSpec, ImplementsLifecycle, Lifecycle!Spec

\* Once "Retry queued" was shown no list brings the failure back.
THEOREM PageKeepsUp == PageSpec => []QueuedRetryIsShown
<1>1. Init /\ PageInit => IInv /\ ConfirmedInv
  BY InitInv DEF Init, PageInit, ConfirmedInv, QueuedRetryIsShown, ShownRow
<1>2. ConfirmedInv => QueuedRetryIsShown
  BY DEF ConfirmedInv
<1> QED
  BY <1>1, <1>2, PageNextInv, ConfirmedStep, PTL DEF PageSpec

-----------------------------------------------------------------------------
(* EventLog: lemmas *)

\* A stack that never ran satisfies LogIInv.
LEMMA LogInitInv == LogInit => LogIInv
<1> SUFFICES ASSUME LogInit PROVE LogIInv
  OBVIOUS
<1>1. topic \in Seq(0..MaxProduced) /\ Len(topic) = 0
  BY DEF LogInit
<1>2. LogTypeOK
  BY <1>1, LogBoundAssumption DEF LogInit, LogTypeOK, Offsets, None
<1>3. PositionsAreOrdered /\ EntriesAreEvents /\ PassedIsPublished
  BY <1>1 DEF LogInit, PositionsAreOrdered, EntriesAreEvents, PassedIsPublished, None
<1>4. OffsetsAreHandled
  BY <1>1, MemberAssumption DEF LogInit, OffsetsAreHandled, HandledUpTo, None
<1> QED
  BY <1>2, <1>3, <1>4 DEF LogIInv

\* Entries of a topic that has one more.
LEMMA AppendFacts ==
    ASSUME LogTypeOK, NEW n \in 0..MaxProduced, topic' = Append(topic, n)
    PROVE  /\ topic' \in Seq(0..MaxProduced)
           /\ Len(topic') = Len(topic) + 1
           /\ \A i \in 1..Len(topic) : topic'[i] = topic[i]
           /\ topic'[Len(topic) + 1] = n
           /\ Entries(topic)' = Entries(topic) \cup {n}
<1>1. /\ topic' \in Seq(0..MaxProduced)
      /\ Len(topic') = Len(topic) + 1
      /\ \A i \in 1..Len(topic) : topic'[i] = topic[i]
      /\ topic'[Len(topic) + 1] = n
  BY DEF LogTypeOK
<1>2. Len(topic) \in Nat
  BY DEF LogTypeOK
<1>3. 1..Len(topic') = 1..Len(topic) \cup {Len(topic) + 1}
  BY <1>1, <1>2
<1>4. Entries(topic)' = Entries(topic) \cup {n}
  BY <1>1, <1>3 DEF Entries
<1> QED
  BY <1>1, <1>4

\* What was handled stays handled when entries are appended and more events
\* are processed or skipped.
LEMMA HandledStays ==
    ASSUME LogTypeOK, OffsetsAreHandled,
           Len(topic') \in Nat, Len(topic) <= Len(topic'),
           \A i \in 1..Len(topic) : topic'[i] = topic[i],
           handled \subseteq handled', skipped \subseteq skipped'
    PROVE  \A k \in Offsets : HandledUpTo(k) => HandledUpTo(k)'
<1> TAKE k \in Offsets
<1> HAVE HandledUpTo(k)
<1>1. k <= Len(topic) /\ Len(topic) \in Nat /\ k \in Int
  BY DEF HandledUpTo, LogTypeOK, Offsets, None
<1>2. k <= Len(topic')
  BY <1>1
<1>3. \A i \in 1..k : i \in 1..Len(topic)
  BY <1>1
<1>4. \A i \in 1..k : topic'[i] \in handled' \cup skipped' \cup {Malformed}
  BY <1>3 DEF HandledUpTo
<1> QED
  BY <1>2, <1>4 DEF HandledUpTo

\* The group's facts survive what appends to the topic.
LEMMA AppendKeepsOffsets ==
    ASSUME LogTypeOK, OffsetsAreHandled, NEW n \in 0..MaxProduced, topic' = Append(topic, n),
           UNCHANGED <<committed, owner, consumer, position, handled, skipped>>
    PROVE  OffsetsAreHandled'
<1>1. /\ Len(topic') \in Nat /\ Len(topic) \in Nat /\ Len(topic) <= Len(topic')
      /\ \A i \in 1..Len(topic) : topic'[i] = topic[i]
  BY AppendFacts DEF LogTypeOK
<1>2. \A k \in Offsets : HandledUpTo(k) => HandledUpTo(k)'
  BY <1>1, HandledStays
<1>3. HandledUpTo(committed)'
  BY <1>2 DEF OffsetsAreHandled, LogTypeOK, HandledUpTo
<1>4. ASSUME NEW w \in Members
      PROVE  /\ owner' = w => HandledUpTo(position[w])'
             /\ consumer'[w] \in {"handling", "handled"} => position'[w] < Len(topic')
             /\ consumer'[w] = "handled" => topic'[position'[w] + 1] \in handled' \cup {Malformed}
  <2>1. position[w] \in Nat /\ position[w] \in Offsets
    BY DEF LogTypeOK, Offsets
  <2>2. owner' = w => HandledUpTo(position[w])'
    BY <1>2, <2>1 DEF OffsetsAreHandled, HandledUpTo
  <2>3. consumer[w] \in {"handling", "handled"} => position[w] + 1 \in 1..Len(topic)
    BY <2>1, <1>1 DEF OffsetsAreHandled
  <2> QED
    BY <1>1, <2>1, <2>2, <2>3 DEF OffsetsAreHandled
<1> QED
  BY <1>3, <1>4 DEF OffsetsAreHandled, HandledUpTo

-----------------------------------------------------------------------------
(* EventLog: the outbox and Debezium *)

LEMMA ProduceInv == LogIInv /\ Produce => LogIInv'
<1> SUFFICES ASSUME LogIInv, Produce PROVE LogIInv'
  OBVIOUS
<1> USE DEF channelVars, groupVars, historyVars
<1>1. produced' \in 0..MaxProduced /\ produced \in Nat /\ produced < produced'
  BY LogBoundAssumption DEF LogIInv, LogTypeOK, Produce
<1>2. LogTypeOK'
  BY <1>1 DEF LogIInv, LogTypeOK, Produce
<1>3. PositionsAreOrdered'
  BY <1>1 DEF LogIInv, LogTypeOK, Offsets, None, PositionsAreOrdered, Produce
<1>4. EntriesAreEvents'
  BY <1>1 DEF LogIInv, EntriesAreEvents, Produce
<1>5. PassedIsPublished'
  <2>1. ResumePoint \in Int /\ ResumePoint <= produced /\ ResumePoint' = ResumePoint
    BY <1>1 DEF LogIInv, LogTypeOK, PositionsAreOrdered, ResumePoint, Offsets, None, Produce
  <2>2. \A n \in 1..produced' : n \in 1..produced \/ n > ResumePoint'
    BY <1>1, <2>1
  <2> QED
    BY <2>1, <2>2 DEF LogIInv, PassedIsPublished, Entries, Produce
<1>6. OffsetsAreHandled'
  BY DEF LogIInv, OffsetsAreHandled, HandledUpTo, Produce
<1> QED
  BY <1>2, <1>3, <1>4, <1>5, <1>6 DEF LogIInv

LEMMA PublishInv == LogIInv /\ Publish => LogIInv'
<1> SUFFICES ASSUME LogIInv, Publish PROVE LogIInv'
  OBVIOUS
<1> USE DEF groupVars, historyVars
<1>1. /\ reader # None /\ reader < produced /\ reader' = reader + 1
      /\ reader \in Nat /\ produced \in Nat /\ produced <= MaxProduced
      /\ reader' \in 0..MaxProduced /\ reader' \in 0..produced /\ reader' # None
  BY LogBoundAssumption DEF LogIInv, LogTypeOK, Offsets, None, Publish
<1>2. topic' = Append(topic, reader')
  BY DEF Publish
<1>3. /\ topic' \in Seq(0..MaxProduced)
      /\ Len(topic') = Len(topic) + 1
      /\ \A i \in 1..Len(topic) : topic'[i] = topic[i]
      /\ topic'[Len(topic) + 1] = reader'
      /\ Entries(topic)' = Entries(topic) \cup {reader'}
  BY <1>1, <1>2, AppendFacts DEF LogIInv
<1>4. LogTypeOK'
  BY <1>1, <1>3 DEF LogIInv, LogTypeOK, Offsets, Publish
<1>5. PositionsAreOrdered'
  BY <1>1 DEF LogIInv, LogTypeOK, Offsets, None, PositionsAreOrdered, Publish
<1>6. EntriesAreEvents'
  BY <1>1, <1>3 DEF LogIInv, LogTypeOK, EntriesAreEvents, Publish
<1>7. PassedIsPublished'
  <2>1. ResumePoint = reader /\ ResumePoint' = reader'
    BY <1>1 DEF ResumePoint
  <2>2. \A n \in 1..produced : n > reader => n > reader' \/ n = reader'
    BY <1>1
  <2> QED
    BY <1>3, <2>1, <2>2 DEF LogIInv, PassedIsPublished, Publish
<1>8. OffsetsAreHandled'
  BY <1>1, <1>2, AppendKeepsOffsets DEF LogIInv, Publish
<1> QED
  BY <1>4, <1>5, <1>6, <1>7, <1>8 DEF LogIInv

LEMMA PublishMalformedInv == LogIInv /\ PublishMalformed => LogIInv'
<1> SUFFICES ASSUME LogIInv, PublishMalformed PROVE LogIInv'
  OBVIOUS
<1> USE DEF groupVars, historyVars
<1>1. topic' = Append(topic, Malformed) /\ Malformed \in 0..MaxProduced
  BY LogBoundAssumption DEF PublishMalformed, Malformed
<1>2. UNCHANGED <<produced, slot, offsetFile, reader, committed, owner, consumer, position,
                  handled, unseen, skipped, lost, crashes, boxes>>
  BY DEF PublishMalformed
<1>3. /\ topic' \in Seq(0..MaxProduced)
      /\ Len(topic') = Len(topic) + 1
      /\ \A i \in 1..Len(topic) : topic'[i] = topic[i]
      /\ topic'[Len(topic) + 1] = Malformed
      /\ Entries(topic)' = Entries(topic) \cup {Malformed}
  BY <1>1, AppendFacts DEF LogIInv
<1>4. LogTypeOK'
  BY <1>2, <1>3 DEF LogIInv, LogTypeOK
<1>5. PositionsAreOrdered'
  BY <1>2 DEF LogIInv, PositionsAreOrdered
<1>6. EntriesAreEvents'
  BY <1>2, <1>3 DEF LogIInv, LogTypeOK, EntriesAreEvents, Malformed
<1>7. PassedIsPublished'
  BY <1>2, <1>3 DEF LogIInv, PassedIsPublished, ResumePoint
<1>8. OffsetsAreHandled'
  BY <1>1, <1>2, AppendKeepsOffsets DEF LogIInv
<1> QED
  BY <1>4, <1>5, <1>6, <1>7, <1>8 DEF LogIInv

LEMMA StartConnectorInv == LogIInv /\ StartConnector => LogIInv'
<1> SUFFICES ASSUME LogIInv, StartConnector PROVE LogIInv'
  OBVIOUS
<1> USE DEF groupVars
<1>1. LogTypeOK'
  BY DEF LogIInv, LogTypeOK, Offsets, StartConnector
<1>2. PositionsAreOrdered'
  BY DEF LogIInv, LogTypeOK, Offsets, None, PositionsAreOrdered, StartConnector
<1>3. PassedIsPublished'
  <2>1. CASE slot = None
    BY <2>1 DEF PassedIsPublished, StartConnector
  <2>2. CASE slot # None
    <3>1. ResumePoint' = ResumePoint
      BY <2>2 DEF LogIInv, LogTypeOK, Offsets, ResumePoint, StartConnector
    <3> QED
      BY <2>2, <3>1 DEF LogIInv, PassedIsPublished, Entries, StartConnector
  <2> QED
    BY <2>1, <2>2
<1>4. EntriesAreEvents' /\ OffsetsAreHandled'
  BY DEF LogIInv, EntriesAreEvents, OffsetsAreHandled, HandledUpTo, StartConnector
<1> QED
  BY <1>1, <1>2, <1>3, <1>4 DEF LogIInv

\* The rest of Debezium moves its positions, and the resume point only back.
LEMMA PositionsInv == LogIInv /\ (FlushOffset \/ ConfirmSlot \/ ConnectorDies) => LogIInv'
<1> SUFFICES ASSUME LogIInv, FlushOffset \/ ConfirmSlot \/ ConnectorDies PROVE LogIInv'
  OBVIOUS
<1> USE DEF groupVars, historyVars, Crash
<1>1. UNCHANGED <<produced, topic, committed, owner, consumer, position, handled,
                  unseen, skipped, lost, boxes>>
  BY DEF FlushOffset, ConfirmSlot, ConnectorDies
<1>2. LogTypeOK'
  <2>1. slot' \in Offsets /\ offsetFile' \in Offsets /\ reader' \in Offsets
    BY DEF LogIInv, LogTypeOK, Offsets, FlushOffset, ConfirmSlot, ConnectorDies
  <2>2. crashes' \in 0..MaxCrashes
    BY LogBoundAssumption DEF LogIInv, LogTypeOK, FlushOffset, ConfirmSlot, ConnectorDies
  <2> QED
    BY <1>1, <2>1, <2>2 DEF LogIInv, LogTypeOK
<1>3. PositionsAreOrdered'
  BY <1>1 DEF LogIInv, LogTypeOK, Offsets, None, PositionsAreOrdered, FlushOffset, ConfirmSlot, ConnectorDies
<1>4. PassedIsPublished'
  <2>1. ResumePoint' <= ResumePoint /\ ResumePoint \in Int /\ ResumePoint' \in Int
    BY DEF LogIInv, LogTypeOK, Offsets, None, PositionsAreOrdered, ResumePoint,
           FlushOffset, ConfirmSlot, ConnectorDies
  <2>2. \A n \in 1..produced : n > ResumePoint => n > ResumePoint'
    BY <2>1
  <2> QED
    BY <1>1, <2>2 DEF LogIInv, PassedIsPublished, Entries
<1>5. EntriesAreEvents' /\ OffsetsAreHandled'
  BY <1>1 DEF LogIInv, EntriesAreEvents, OffsetsAreHandled, HandledUpTo
<1> QED
  BY <1>2, <1>3, <1>4, <1>5 DEF LogIInv

\* A new box: what was in the topic and is behind the slot is lost.
LEMMA BoxReplacedInv == LogIInv /\ BoxReplaced => LogIInv'
<1> SUFFICES ASSUME LogIInv, BoxReplaced PROVE LogIInv'
  OBVIOUS
<1>1. /\ topic' = << >> /\ Len(topic') = 0 /\ committed' = None /\ owner' = NoMember
      /\ reader' = None /\ offsetFile' = None
      /\ consumer' = [w \in Members |-> "down"] /\ position' = [w \in Members |-> 0]
      /\ UNCHANGED <<produced, slot, handled, unseen, skipped, crashes>>
  BY DEF BoxReplaced
<1>2. lost' \subseteq 1..produced
  <2>1. Entries(topic) \subseteq 0..produced
    BY DEF LogIInv, EntriesAreEvents, Entries
  <2>2. produced \in Nat
    BY DEF LogIInv, LogTypeOK
  <2>3. \A n \in Entries(topic) : n \notin {Malformed} => n \in 1..produced
    BY <2>1, <2>2 DEF Malformed
  <2> QED
    BY <2>3 DEF LogIInv, LogTypeOK, BoxReplaced
<1>3. LogTypeOK'
  <2>1. boxes' \in 0..MaxBoxes
    BY LogBoundAssumption DEF LogIInv, LogTypeOK, BoxReplaced
  <2>2. topic' \in Seq(0..MaxProduced)
    BY <1>1
  <2> QED
    BY <1>1, <1>2, <2>1, <2>2 DEF LogIInv, LogTypeOK, Offsets
<1>4. PositionsAreOrdered' /\ EntriesAreEvents'
  BY <1>1 DEF LogIInv, PositionsAreOrdered, EntriesAreEvents
<1>5. PassedIsPublished'
  <2>1. slot <= ResumePoint /\ slot \in Int /\ ResumePoint \in Int /\ ResumePoint' = slot
    BY <1>1 DEF LogIInv, LogTypeOK, Offsets, None, PositionsAreOrdered, ResumePoint
  <2> SUFFICES ASSUME NEW n \in 1..produced,
                      n \notin handled \cup unseen \cup skipped \cup lost',
                      ~(n > slot)
               PROVE  FALSE
    BY <1>1, <2>1 DEF PassedIsPublished
  <2>2. n <= slot /\ ~(n > ResumePoint)
    BY <2>1
  <2>3. n \notin lost
    BY DEF BoxReplaced
  <2>4. n \in Entries(topic)
    BY <2>2, <2>3 DEF LogIInv, PassedIsPublished
  <2>5. n # Malformed
    BY DEF Malformed
  <2> QED
    BY <2>2, <2>4, <2>5 DEF BoxReplaced
<1>6. OffsetsAreHandled'
  BY <1>1, MemberAssumption DEF OffsetsAreHandled, HandledUpTo, None
<1> QED
  BY <1>3, <1>4, <1>5, <1>6 DEF LogIInv

-----------------------------------------------------------------------------
(* EventLog: the consumers *)

\* What a consumer's step leaves alone, and what follows when processed and
\* skipped only grow.
LEMMA ConsumerKeeps ==
    ASSUME LogIInv, UNCHANGED channelVars, UNCHANGED <<unseen, lost>>,
           handled \subseteq handled', skipped \subseteq skipped'
    PROVE  PositionsAreOrdered' /\ EntriesAreEvents' /\ PassedIsPublished'
<1> USE DEF channelVars
<1>1. PositionsAreOrdered' /\ EntriesAreEvents'
  BY DEF LogIInv, PositionsAreOrdered, EntriesAreEvents
<1>2. PassedIsPublished'
  BY DEF LogIInv, PassedIsPublished, ResumePoint, Entries
<1> QED
  BY <1>1, <1>2

\* Starting, fetching, failing and dying change stages, and take the partition
\* away at most.
LEMMA StageInv ==
    ASSUME LogIInv, NEW w \in Members,
           StartConsumer(w) \/ Fetch(w) \/ HandlingFails(w) \/ ConsumerDies(w)
    PROVE  LogIInv'
<1> USE DEF historyVars, Crash
<1>1. /\ UNCHANGED channelVars
      /\ UNCHANGED <<committed, position, handled, unseen, skipped, lost, boxes>>
  BY DEF StartConsumer, Fetch, HandlingFails, ConsumerDies
<1>2. /\ owner' \in {owner, NoMember}
      /\ consumer' \in [Members -> {"down", "polling", "handling", "handled"}]
      /\ \A v \in Members : consumer'[v] = "handled" => consumer[v] = "handled"
      /\ \A v \in Members : consumer'[v] = "handling" =>
           consumer[v] = "handling" \/ position[v] < Len(topic)
  BY DEF LogIInv, LogTypeOK, StartConsumer, Fetch, HandlingFails, ConsumerDies
<1>3. LogTypeOK'
  <2>1. crashes' \in 0..MaxCrashes
    BY LogBoundAssumption DEF LogIInv, LogTypeOK, StartConsumer, Fetch, HandlingFails, ConsumerDies
  <2> QED
    BY <1>1, <1>2, <2>1 DEF LogIInv, LogTypeOK, channelVars
<1>4. PositionsAreOrdered' /\ EntriesAreEvents' /\ PassedIsPublished'
  BY <1>1, ConsumerKeeps
<1>5. OffsetsAreHandled'
  BY <1>1, <1>2, MemberAssumption DEF LogIInv, OffsetsAreHandled, HandledUpTo, channelVars
<1> QED
  BY <1>3, <1>4, <1>5 DEF LogIInv

LEMMA AssignInv ==
    ASSUME LogIInv, NEW w \in Members, Assign(w)
    PROVE  LogIInv'
<1> USE DEF Crash
<1>1. UNCHANGED channelVars /\ UNCHANGED <<committed, consumer, handled, unseen, lost, boxes>>
  BY DEF Assign
<1>2. /\ owner' = w /\ consumer[w] = "polling"
      /\ position' = [position EXCEPT ![w] = StartOffset]
      /\ StartOffset \in Nat
  BY DEF Assign, StartOffset, LogIInv, LogTypeOK, Offsets
<1>3. skipped \subseteq skipped' /\ skipped' \subseteq 1..produced
  <2>1. Entries(topic) \ {Malformed} \subseteq 1..produced
    BY DEF LogIInv, LogTypeOK, EntriesAreEvents, Entries, Malformed
  <2> QED
    BY <2>1 DEF LogIInv, LogTypeOK, Assign
<1>4. LogTypeOK'
  <2>1. crashes' \in 0..MaxCrashes
    BY LogBoundAssumption DEF LogIInv, LogTypeOK, Assign
  <2>2. position' \in [Members -> Nat]
    BY <1>2 DEF LogIInv, LogTypeOK
  <2> QED
    BY <1>1, <1>2, <1>3, <2>1, <2>2 DEF LogIInv, LogTypeOK, channelVars
<1>5. PositionsAreOrdered' /\ EntriesAreEvents' /\ PassedIsPublished'
  BY <1>1, <1>3, ConsumerKeeps
<1>6. OffsetsAreHandled'
  <2>1. Len(topic) \in Nat /\ topic' = topic
    BY <1>1 DEF LogIInv, LogTypeOK, channelVars
  <2>2. HandledUpTo(StartOffset)'
    <3>1. CASE committed = None
      <4>1. \A i \in 1..Len(topic) : topic[i] \in Entries(topic)
        BY DEF Entries
      <4>2. \A i \in 1..Len(topic) : topic[i] \in handled \cup skipped' \cup {Malformed}
        BY <3>1, <4>1 DEF Assign
      <4> QED
        BY <1>1, <2>1, <3>1, <4>2 DEF StartOffset, HandledUpTo
    <3>2. CASE committed # None
      BY <1>1, <1>3, <2>1, <3>2 DEF LogIInv, OffsetsAreHandled, StartOffset, HandledUpTo
    <3> QED
      BY <3>1, <3>2
  <2>3. HandledUpTo(committed)'
    BY <1>1, <1>3, <2>1 DEF LogIInv, OffsetsAreHandled, HandledUpTo
  <2>4. StartOffset' = StartOffset
    BY <1>1, <2>1 DEF StartOffset
  <2>5. position'[w] = StartOffset
    BY <1>2 DEF LogIInv, LogTypeOK
  <2>6. HandledUpTo(position[w])'
    BY <2>2, <2>4, <2>5 DEF HandledUpTo
  <2>7. \A v \in Members : v # w => position'[v] = position[v]
    BY <1>2 DEF LogIInv, LogTypeOK
  <2> QED
    BY <1>1, <1>2, <2>1, <2>3, <2>6, <2>7 DEF LogIInv, OffsetsAreHandled
<1> QED
  BY <1>4, <1>5, <1>6 DEF LogIInv

LEMMA HandleInv ==
    ASSUME LogIInv, NEW w \in Members, Handle(w)
    PROVE  LogIInv'
<1> USE DEF historyVars
<1> DEFINE n == topic[position[w] + 1]
<1>1. /\ UNCHANGED channelVars
      /\ UNCHANGED <<committed, owner, position, unseen, skipped, lost, crashes, boxes>>
      /\ consumer[w] = "handling"
      /\ consumer' = [consumer EXCEPT ![w] = "handled"]
      /\ handled' = IF n = Malformed THEN handled ELSE handled \cup {n}
  BY DEF Handle
<1>2. n \in 0..produced
  <2>1. position[w] \in Nat /\ position[w] < Len(topic) /\ Len(topic) \in Nat
    BY <1>1 DEF LogIInv, LogTypeOK, OffsetsAreHandled
  <2>2. position[w] + 1 \in 1..Len(topic)
    BY <2>1
  <2> QED
    BY <2>2 DEF LogIInv, EntriesAreEvents
<1>3. handled \subseteq handled' /\ handled' \subseteq 1..produced
      /\ n \in handled' \cup {Malformed}
  <2>1. handled \subseteq 1..produced /\ produced \in Nat
    BY DEF LogIInv, LogTypeOK
  <2>2. CASE n = Malformed
    BY <1>1, <2>1, <2>2
  <2>3. CASE n # Malformed
    <3>1. n \in 1..produced
      BY <1>2, <2>1, <2>3 DEF Malformed
    <3>2. handled' = handled \cup {n}
      BY <1>1, <2>3
    <3> HIDE DEF n
    <3> QED
      BY <2>1, <3>1, <3>2
  <2> QED
    BY <2>2, <2>3
<1>4. LogTypeOK'
  <2>1. consumer' \in [Members -> {"down", "polling", "handling", "handled"}]
    BY <1>1 DEF LogIInv, LogTypeOK
  <2> QED
    BY <1>1, <1>3, <2>1 DEF LogIInv, LogTypeOK, channelVars
<1>5. PositionsAreOrdered' /\ EntriesAreEvents' /\ PassedIsPublished'
  BY <1>1, <1>3, ConsumerKeeps
<1>6. OffsetsAreHandled'
  <2>1. topic' = topic /\ position' = position /\ committed' = committed /\ owner' = owner
    BY <1>1 DEF channelVars
  <2>2. \A v \in Members : v # w => consumer'[v] = consumer[v]
    BY <1>1 DEF LogIInv, LogTypeOK
  <2>3. topic'[position'[w] + 1] \in handled' \cup {Malformed}
    BY <1>3, <2>1
  <2>5. HandledUpTo(committed)'
    BY <2>1, <1>1, <1>3 DEF LogIInv, OffsetsAreHandled, HandledUpTo
  <2>6. \A v \in Members : owner' = v => HandledUpTo(position[v])'
    BY <2>1, <1>1, <1>3 DEF LogIInv, OffsetsAreHandled, HandledUpTo
  <2>7. \A v \in Members :
          /\ consumer'[v] \in {"handling", "handled"} => position'[v] < Len(topic')
          /\ consumer'[v] = "handled" => topic'[position'[v] + 1] \in handled' \cup {Malformed}
    BY <1>1, <1>3, <2>1, <2>2, <2>3 DEF LogIInv, OffsetsAreHandled
  <2> QED
    BY <2>5, <2>6, <2>7 DEF OffsetsAreHandled
<1> QED
  BY <1>4, <1>5, <1>6 DEF LogIInv

\* The entry that is passed was processed, and those before it were.
LEMMA CommitOffsetInv ==
    ASSUME LogIInv, NEW w \in Members, CommitOffset(w)
    PROVE  LogIInv'
<1> USE DEF historyVars
<1>1. /\ UNCHANGED channelVars
      /\ UNCHANGED <<owner, handled, unseen, skipped, lost, crashes, boxes>>
      /\ consumer[w] = "handled"
      /\ consumer' = [consumer EXCEPT ![w] = "polling"]
      /\ position' = [position EXCEPT ![w] = @ + 1]
      /\ committed' = IF owner = w THEN position[w] + 1 ELSE committed
  BY DEF CommitOffset
<1>2. /\ position[w] \in Nat /\ position'[w] = position[w] + 1
      /\ Len(topic) \in Nat /\ position[w] < Len(topic)
      /\ \A v \in Members : v # w => position'[v] = position[v] /\ consumer'[v] = consumer[v]
      /\ consumer'[w] = "polling"
      /\ topic' = topic
  BY <1>1 DEF LogIInv, LogTypeOK, OffsetsAreHandled, channelVars
<1>3. LogTypeOK'
  <2>1. /\ consumer' \in [Members -> {"down", "polling", "handling", "handled"}]
        /\ position' \in [Members -> Nat]
        /\ committed' \in Offsets
    BY <1>1, <1>2 DEF LogIInv, LogTypeOK, Offsets
  <2> QED
    BY <1>1, <2>1 DEF LogIInv, LogTypeOK, channelVars
<1>4. PositionsAreOrdered' /\ EntriesAreEvents' /\ PassedIsPublished'
  BY <1>1, ConsumerKeeps
<1>5. owner = w => HandledUpTo(position[w] + 1)
  <2>1. owner = w => HandledUpTo(position[w])
    BY DEF LogIInv, OffsetsAreHandled
  <2>2. topic[position[w] + 1] \in handled \cup {Malformed}
    BY <1>1 DEF LogIInv, OffsetsAreHandled
  <2>3. \A i \in 1..(position[w] + 1) : i \in 1..position[w] \/ i = position[w] + 1
    BY <1>2
  <2> QED
    BY <1>2, <2>1, <2>2, <2>3 DEF HandledUpTo
<1>6. OffsetsAreHandled'
  <2>1. HandledUpTo(committed)'
    BY <1>1, <1>2, <1>5 DEF LogIInv, OffsetsAreHandled, HandledUpTo
  <2>2. \A v \in Members : owner' = v => HandledUpTo(position[v])'
    BY <1>1, <1>2, <1>5 DEF LogIInv, OffsetsAreHandled, HandledUpTo
  <2> QED
    BY <1>1, <1>2, <2>1, <2>2 DEF LogIInv, OffsetsAreHandled
<1> QED
  BY <1>3, <1>4, <1>6 DEF LogIInv

\* Every step keeps LogIInv.
LEMMA LogNextInv == LogIInv /\ [LogNext]_logVars => LogIInv'
<1> SUFFICES ASSUME LogIInv, [LogNext]_logVars PROVE LogIInv'
  OBVIOUS
<1>1. CASE Produce \/ PublishMalformed \/ BoxReplaced
  BY <1>1, ProduceInv, PublishMalformedInv, BoxReplacedInv
<1>2. CASE Connector
  BY <1>2, StartConnectorInv, PublishInv, PositionsInv DEF Connector
<1>3. ASSUME NEW w \in Members, Consumer(w) PROVE LogIInv'
  BY <1>3, StageInv, AssignInv, HandleInv, CommitOffsetInv DEF Consumer
<1>4. CASE UNCHANGED logVars
  BY <1>4 DEF logVars, channelVars, groupVars, historyVars, LogIInv, LogTypeOK, PositionsAreOrdered,
              EntriesAreEvents, PassedIsPublished, ResumePoint, Entries, OffsetsAreHandled, HandledUpTo
<1> QED
  BY <1>1, <1>2, <1>3, <1>4 DEF LogNext

-----------------------------------------------------------------------------
(* EventLog: theorems *)

\* LogIInv is an invariant: the positions of Debezium are ordered, and what has
\* been passed, by the connector or by the offset, is accounted for.
THEOREM LogInductiveInvariant == LogSpec => []LogIInv
BY LogInitInv, LogNextInv, PTL DEF LogSpec

\* The variables have their types.
THEOREM LogTypeCorrectness == LogSpec => []LogTypeOK
<1>1. LogIInv => LogTypeOK
  BY DEF LogIInv
<1> QED
  BY <1>1, LogInductiveInvariant, PTL

\* The committed offset never passes an entry that was not handled.
THEOREM OffsetPassesNothing == LogSpec => []CommittedIsHandled
<1>1. LogIInv => CommittedIsHandled
  <2> SUFFICES ASSUME LogIInv, NEW i \in 1..Len(topic), i <= committed
               PROVE  topic[i] \in handled \cup skipped \cup {Malformed}
    BY DEF CommittedIsHandled
  <2>1. committed \in Int
    BY DEF LogIInv, LogTypeOK, Offsets, None
  <2>2. i \in 1..committed
    BY <2>1
  <2> QED
    BY <2>2 DEF LogIInv, OffsetsAreHandled, HandledUpTo
<1> QED
  BY <1>1, LogInductiveInvariant, PTL

\* An event is processed, or still to come, or of one of the three kinds that
\* this configuration gives up.
THEOREM NoFourthLoss == LogSpec => []NothingElseIsLost
<1>1. LogIInv => NothingElseIsLost
  <2> SUFFICES ASSUME LogIInv,
                      NEW n \in 1..produced \ (handled \cup unseen \cup skipped \cup lost),
                      ~(n > ResumePoint)
               PROVE  \E i \in 1..Len(topic) : i > committed /\ topic[i] = n
    BY DEF NothingElseIsLost
  <2>1. PICK i \in 1..Len(topic) : topic[i] = n
    BY DEF LogIInv, PassedIsPublished, Entries
  <2>2. committed \in Int /\ i \in Int
    BY DEF LogIInv, LogTypeOK, Offsets, None
  <2>3. n # Malformed
    BY DEF Malformed
  <2>4. ~(i <= committed)
    <3> SUFFICES ASSUME i <= committed PROVE FALSE
      OBVIOUS
    <3>1. i \in 1..committed
      BY <2>2
    <3> QED
      BY <2>1, <2>3, <3>1 DEF LogIInv, OffsetsAreHandled, HandledUpTo
  <2> QED
    BY <2>1, <2>2, <2>4
<1> QED
  BY <1>1, LogInductiveInvariant, PTL

-----------------------------------------------------------------------------
(* Pipeline: lemmas *)

\* To the core every step of the pipeline is one of its own or a stutter.
LEMMA PipeCoreStep == [PipeNext]_pipeVars => [Next]_vars
<1> SUFFICES ASSUME [PipeNext]_pipeVars, ~UNCHANGED vars PROVE Next
  OBVIOUS
<1>1. CASE Emit
  BY <1>1 DEF Emit, Next, TickerStep, OperatorStep
<1>2. CASE Prepare
  BY <1>2 DEF Prepare, Next, TickerStep, OperatorStep
<1>3. ASSUME NEW w \in Workers, WorkerMoves(w) PROVE WorkerStep(w)
  <2>1. CASE TakeEntry(w)
    BY <2>1 DEF TakeEntry, Receive, WorkerStep
  <2>2. CASE Proceed(w) \/ Return(w) \/ Acknowledge(w) \/ Break(w) \/ Join(w)
    BY <2>2 DEF Proceed, Return, Acknowledge, Break, Join, WorkerStep
  <2> QED
    BY <1>3, <2>1, <2>2 DEF WorkerMoves
<1>4. ~(Channel \/ ReplaceBox \/ UNCHANGED pipeVars)
  BY DEF Channel, ReplaceBox, pipeVars
<1> QED
  BY <1>1, <1>2, <1>3, <1>4 DEF PipeNext, Next

\* And to the channel.
LEMMA PipeLogStep == [PipeNext]_pipeVars => [LogNext]_logVars
<1> SUFFICES ASSUME [PipeNext]_pipeVars, ~UNCHANGED logVars PROVE LogNext
  OBVIOUS
<1>1. CASE Emit
  BY <1>1 DEF Emit, AppendToWal, LogNext
<1>2. CASE Channel \/ ReplaceBox
  BY <1>2 DEF Channel, ReplaceBox, LogNext
<1>3. ASSUME NEW w \in Workers, WorkerMoves(w) PROVE w \in Members /\ Consumer(w)
  BY <1>3, MembersAreWorkers
     DEF WorkerMoves, TakeEntry, Proceed, Return, Acknowledge, Break, Join, Consumer
<1>4. ~(Prepare \/ UNCHANGED pipeVars)
  BY DEF Prepare, pipeVars
<1> QED
  BY <1>1, <1>2, <1>3, <1>4 DEF PipeNext, LogNext

\* A consumer in eachMessage is at an entry of the topic, of an event of the WAL.
LEMMA EntryFacts ==
    ASSUME LogIInv, WalIsOutbox, NEW w \in Workers,
           consumer[w] \in {"handling", "handled"} \/ position[w] < Len(topic)
    PROVE  /\ position[w] + 1 \in 1..Len(topic)
           /\ EntryOf(w) # Malformed => EntryOf(w) \in 1..Len(wal)
<1>1. position[w] \in Nat /\ Len(topic) \in Nat /\ produced \in Nat
  BY MembersAreWorkers, LogBoundAssumption DEF LogIInv, LogTypeOK
<1>2. position[w] < Len(topic)
  BY MembersAreWorkers DEF LogIInv, OffsetsAreHandled
<1>3. position[w] + 1 \in 1..Len(topic)
  BY <1>1, <1>2
<1>4. EntryOf(w) \in 0..produced
  BY <1>3 DEF LogIInv, EntriesAreEvents, EntryOf
<1> QED
  BY <1>1, <1>3, <1>4 DEF WalIsOutbox, Malformed

\* The WAL only grows, and is the outbox.
LEMMA WalStep ==
    IInv /\ IInv' /\ LogIInv /\ WalIsOutbox /\ [PipeNext]_pipeVars =>
        /\ WalIsOutbox'
        /\ Len(wal) <= Len(wal')
        /\ \A n \in 1..Len(wal) : wal'[n] = wal[n]
        /\ \A n \in 1..Len(wal') \ 1..Len(wal) : wal'[n] \notin outbox
<1> SUFFICES ASSUME IInv, IInv', LogIInv, WalIsOutbox, [PipeNext]_pipeVars
             PROVE  /\ WalIsOutbox'
                    /\ Len(wal) <= Len(wal')
                    /\ \A n \in 1..Len(wal) : wal'[n] = wal[n]
                    /\ \A n \in 1..Len(wal') \ 1..Len(wal) : wal'[n] \notin outbox
  OBVIOUS
<1>1. CASE Emit
  <2>1. outbox \subseteq outbox' /\ outbox' \subseteq Events
    BY <1>1 DEF Emit, Submit, CommitTick, CommitRetry, IInv, TypeOK
  <2> DEFINE E == outbox' \ outbox
  <2>2. PICK s \in Orders(E) : wal' = wal \o s
    BY <1>1 DEF Emit, AppendToWal
  <2>3. PICK n \in 1..MaxProduced : s \in [1..n -> E]
    BY <2>2 DEF Orders
  <2>4. /\ \A e \in E : \E i \in 1..n : s[i] = e
        /\ \A i, j \in 1..n : s[i] = s[j] => i = j
    BY <2>3 DEF Orders
  <2>5. s \in Seq(E) /\ s \in Seq(Events) /\ Len(s) = n /\ n \in Nat
    BY <2>1, <2>3, LogBoundAssumption
  <2>6. wal \in Seq(Events) /\ Len(wal) \in Nat
    BY DEF WalIsOutbox
  <2>7. /\ wal' \in Seq(Events)
        /\ Len(wal') = Len(wal) + n
        /\ \A i \in 1..Len(wal) : wal'[i] = wal[i]
        /\ \A i \in 1..n : wal'[Len(wal) + i] = s[i]
    <3> HIDE DEF E
    <3>1. /\ wal \o s \in Seq(Events)
          /\ Len(wal \o s) = Len(wal) + n
          /\ \A i \in 1..Len(wal) : (wal \o s)[i] = wal[i]
      BY <2>5, <2>6
    <3>2. \A i \in 1..n : (wal \o s)[Len(wal) + i] = s[i]
      <4> TAKE i \in 1..n
      <4>1. Len(wal) + i \in 1..Len(wal) + Len(s) /\ ~(Len(wal) + i <= Len(wal))
        BY <2>5, <2>6
      <4> QED
        BY <4>1, <2>5, <2>6
    <3> QED
      BY <2>2, <3>1, <3>2
  <2>8. \A i \in 1..Len(wal') : \/ i \in 1..Len(wal)
                                \/ \E j \in 1..n : i = Len(wal) + j
    <3> TAKE i \in 1..Len(wal')
    <3>1. i \notin 1..Len(wal) => i - Len(wal) \in 1..n /\ i = Len(wal) + (i - Len(wal))
      BY <2>5, <2>6, <2>7
    <3> QED
      BY <3>1
  <2>9. \A i \in 1..Len(wal') \ 1..Len(wal) : \E j \in 1..n : i = Len(wal) + j /\ wal'[i] = s[j] /\ s[j] \in E
    BY <2>3, <2>7, <2>8
  <2>10. outbox' = {wal'[i] : i \in 1..Len(wal')}
    <3>1. \A i \in 1..Len(wal') : wal'[i] \in outbox'
      BY <2>1, <2>7, <2>9 DEF WalIsOutbox
    <3>2. ASSUME NEW e \in outbox' PROVE \E i \in 1..Len(wal') : wal'[i] = e
      <4>1. CASE e \in outbox
        <5>1. PICK i \in 1..Len(wal) : wal[i] = e
          BY <4>1 DEF WalIsOutbox
        <5> QED
          BY <5>1, <2>5, <2>6, <2>7
      <4>2. CASE e \in E
        <5>1. PICK i \in 1..n : s[i] = e
          BY <4>2, <2>4
        <5>2. Len(wal) + i \in 1..Len(wal')
          BY <2>5, <2>6, <2>7
        <5> QED
          BY <5>1, <5>2, <2>7
      <4> QED
        BY <4>1, <4>2
    <3> QED
      BY <3>1, <3>2
  <2>11. \A i, j \in 1..Len(wal') : wal'[i] = wal'[j] => i = j
    <3> SUFFICES ASSUME NEW i \in 1..Len(wal'), NEW j \in 1..Len(wal'), wal'[i] = wal'[j]
                 PROVE  i = j
      OBVIOUS
    <3>1. \A k \in 1..Len(wal) : wal'[k] \in outbox
      BY <2>7 DEF WalIsOutbox
    <3>2. CASE i \in 1..Len(wal)
      BY <3>1, <3>2, <2>7, <2>9 DEF WalIsOutbox
    <3>3. CASE i \notin 1..Len(wal)
      <4>1. PICK k \in 1..n : i = Len(wal) + k /\ wal'[i] = s[k] /\ s[k] \in E
        BY <3>3, <2>9
      <4>2. j \notin 1..Len(wal)
        BY <4>1, <3>1
      <4>3. PICK m \in 1..n : j = Len(wal) + m /\ wal'[j] = s[m]
        BY <4>2, <2>9
      <4> QED
        BY <4>1, <4>3, <2>4
    <3> QED
      BY <3>2, <3>3
  <2>12. Len(wal') = produced'
    BY <1>1 DEF Emit, AppendToWal
  <2> QED
    BY <2>5, <2>6, <2>7, <2>9, <2>10, <2>11, <2>12 DEF WalIsOutbox
<1>2. CASE ~Emit
  <2>1. UNCHANGED <<wal, produced, outbox>>
    <3>1. CASE Channel \/ ReplaceBox
      BY <3>1 DEF Channel, ReplaceBox, Connector, StartConnector, Publish, FlushOffset, ConfirmSlot,
                  ConnectorDies, PublishMalformed, BoxReplaced, vars, tableVars, channelVars
    <3>2. CASE Prepare
      BY <3>2 DEF Prepare, RetryFallsDue, ClaimDue, TickAborts, RetryAborts, LockFailed,
                  logVars, tableVars, channelVars
    <3>3. ASSUME NEW w \in Workers, WorkerMoves(w) PROVE UNCHANGED <<wal, produced, outbox>>
      <4>1. UNCHANGED wal
        BY <3>3 DEF WorkerMoves, TakeEntry, Proceed, Return, Acknowledge, Break, Join
      <4>2. UNCHANGED outbox
        BY <3>3 DEF WorkerMoves, TakeEntry, Proceed, Return, Acknowledge, Break, Join, Receive, Claim,
                    LockRow, Send, Commit, Ack, WorkerAborts, vars, tableVars
      <4>3. UNCHANGED produced
        BY <3>3 DEF WorkerMoves, TakeEntry, Proceed, Return, Acknowledge, Break, Join, StartConsumer, Assign,
                    Fetch, Handle, HandlingFails, CommitOffset, ConsumerDies, logVars, channelVars
      <4> QED
        BY <4>1, <4>2, <4>3
    <3>4. CASE UNCHANGED pipeVars
      BY <3>4 DEF pipeVars, vars, logVars, tableVars, channelVars
    <3> QED
      BY <1>2, <3>1, <3>2, <3>3, <3>4 DEF PipeNext
  <2>2. Len(wal) \in Nat
    BY DEF WalIsOutbox
  <2> QED
    BY <2>1, <2>2 DEF WalIsOutbox
<1> QED
  BY <1>1, <1>2

\* handled and processed_events agree on the events there are.
LEMMA HandledStep ==
    IInv /\ LogIInv /\ PipeIInv /\ WalIsOutbox' /\ [PipeNext]_pipeVars
        /\ Len(wal) <= Len(wal') /\ (\A n \in 1..Len(wal) : wal'[n] = wal[n])
        /\ (\A n \in 1..Len(wal') \ 1..Len(wal) : wal'[n] \notin outbox)
    => HandledIsProcessed'
<1> SUFFICES ASSUME IInv, LogIInv, PipeIInv, WalIsOutbox', [PipeNext]_pipeVars,
                    Len(wal) <= Len(wal'), \A n \in 1..Len(wal) : wal'[n] = wal[n],
                    \A n \in 1..Len(wal') \ 1..Len(wal) : wal'[n] \notin outbox
             PROVE  HandledIsProcessed'
  OBVIOUS
<1>1. Len(wal) \in Nat /\ Len(wal') \in Nat /\ processed \subseteq outbox
  BY DEF PipeIInv, WalIsOutbox, IInv, TypeOK
<1>2. CASE UNCHANGED <<handled, processed>>
  <2>1. {n \in 1..Len(wal') : wal'[n] \in processed} = {n \in 1..Len(wal) : wal[n] \in processed}
    BY <1>1
  <2> QED
    BY <2>1, <1>2 DEF PipeIInv, HandledIsProcessed
<1>3. CASE Emit \/ Prepare
  BY <1>2, <1>3 DEF Emit, AppendToWal, Produce, Submit, CommitTick, CommitRetry, Prepare, RetryFallsDue,
                    ClaimDue, TickAborts, RetryAborts, LockFailed, logVars, tableVars
<1>4. CASE Channel \/ ReplaceBox
  BY <1>2, <1>4 DEF Channel, ReplaceBox, Connector, StartConnector, Publish, FlushOffset, ConfirmSlot,
                    ConnectorDies, PublishMalformed, BoxReplaced, vars, tableVars
<1>5. ASSUME NEW w \in Workers, WorkerMoves(w) PROVE HandledIsProcessed'
  <2>1. CASE TakeEntry(w) \/ Proceed(w) \/ Acknowledge(w) \/ Break(w) \/ Join(w)
    <3>1. UNCHANGED processed
      BY <2>1 DEF TakeEntry, Proceed, Acknowledge, Break, Join, Receive, Claim, LockRow, Send, Ack,
                  WorkerAborts, vars, tableVars
    <3>2. UNCHANGED handled
      BY <2>1 DEF TakeEntry, Proceed, Acknowledge, Break, Join, Fetch, CommitOffset, HandlingFails,
                  ConsumerDies, StartConsumer, Assign, logVars
    <3> QED
      BY <1>2, <3>1, <3>2
  <2>2. CASE Return(w)
    <3>1. consumer[w] = "handling" /\ UNCHANGED wal
          /\ handled' = IF EntryOf(w) = Malformed THEN handled ELSE handled \cup {EntryOf(w)}
      BY <2>2 DEF Return, Handle, EntryOf
    <3>2. CASE EntryOf(w) = Malformed
      <4>1. stage[w] = "idle"
        BY <3>1, <3>2 DEF PipeIInv, WorkersAreConsumers
      <4>2. UNCHANGED vars
        BY <2>2, <4>1 DEF Return, Commit, Claim
      <4> QED
        BY <1>2, <3>1, <3>2, <4>2 DEF vars, tableVars
    <3>3. CASE EntryOf(w) # Malformed
      <4> DEFINE n == EntryOf(w)
      <4>1. n \in 1..Len(wal)
        BY <3>1, <3>3, EntryFacts DEF PipeIInv
      <4>2. ev[w] = wal[n]
        BY <3>1, <3>3 DEF PipeIInv, WorkersAreConsumers
      <4>3. \A m \in 1..Len(wal) : wal[m] = wal[n] <=> m = n
        BY <4>1 DEF PipeIInv, WalIsOutbox
      <4>4. processed' = processed \cup {wal[n]}
        BY <2>2, <3>3, <4>2 DEF Return, Commit, Claim, tableVars
      <4> HIDE DEF n
      <4>5. handled = {m \in 1..Len(wal) : wal[m] \in processed}
        BY DEF PipeIInv, HandledIsProcessed
      <4>6. {m \in 1..Len(wal) : wal[m] \in processed'} = handled \cup {n}
        BY <4>1, <4>3, <4>4, <4>5
      <4> QED
        BY <3>1, <3>3, <4>6 DEF HandledIsProcessed, n
    <3> QED
      BY <3>2, <3>3
  <2> QED
    BY <1>5, <2>1, <2>2 DEF WorkerMoves
<1>6. CASE UNCHANGED pipeVars
  BY <1>2, <1>6 DEF pipeVars, vars, logVars, tableVars
<1> QED
  BY <1>3, <1>4, <1>5, <1>6 DEF PipeNext

\* What WorkersAreConsumers says of worker w.
LEMMA ConsumersKept ==
    ASSUME LogIInv, PipeIInv, NEW w \in Workers, Len(wal) <= Len(wal'),
           \A n \in 1..Len(wal) : wal'[n] = wal[n],
           \A i \in 1..Len(topic) : topic'[i] = topic[i],
           consumer'[w] = consumer[w], position'[w] = position[w],
           stage'[w] = stage[w], ev'[w] = ev[w]
    PROVE  IF consumer'[w] \in {"handling", "handled"} /\ EntryOf(w)' # Malformed
             THEN /\ ev'[w] = wal'[EntryOf(w)']
                  /\ consumer'[w] = "handling" => stage'[w] \in {"claim", "lock", "send", "write"}
                  /\ consumer'[w] = "handled" => stage'[w] = "ack"
             ELSE stage'[w] = "idle"
<1>1. CASE consumer[w] \in {"handling", "handled"}
  <2>1. /\ position[w] + 1 \in 1..Len(topic)
        /\ EntryOf(w) # Malformed => EntryOf(w) \in 1..Len(wal)
    BY <1>1, EntryFacts DEF PipeIInv
  <2>2. EntryOf(w)' = EntryOf(w)
    BY <2>1 DEF EntryOf
  <2> QED
    BY <2>1, <2>2 DEF PipeIInv, WorkersAreConsumers
<1>2. CASE consumer[w] \notin {"handling", "handled"}
  BY <1>2 DEF PipeIInv, WorkersAreConsumers
<1> QED
  BY <1>1, <1>2

\* Worker and consumer stay in step.
LEMMA ConsumersStep ==
    IInv /\ LogIInv /\ PipeIInv /\ [PipeNext]_pipeVars
        /\ Len(wal) <= Len(wal') /\ (\A n \in 1..Len(wal) : wal'[n] = wal[n])
    => WorkersAreConsumers'
<1> SUFFICES ASSUME IInv, LogIInv, PipeIInv, [PipeNext]_pipeVars,
                    Len(wal) <= Len(wal'), \A n \in 1..Len(wal) : wal'[n] = wal[n]
             PROVE  WorkersAreConsumers'
  OBVIOUS
<1> USE MembersAreWorkers
<1>1. /\ stage \in [Workers -> Stages] /\ ev \in [Workers -> Events \cup {NoEvent}]
      /\ consumer \in [Workers -> {"down", "polling", "handling", "handled"}]
      /\ position \in [Workers -> Nat] /\ topic \in Seq(0..MaxProduced)
  BY DEF IInv, TypeOK, LogIInv, LogTypeOK
<1>2. CASE /\ UNCHANGED <<stage, ev, consumer, position>>
           /\ \A i \in 1..Len(topic) : topic'[i] = topic[i]
  BY <1>2, ConsumersKept DEF WorkersAreConsumers
<1>3. CASE Emit \/ Prepare
  BY <1>2, <1>3 DEF Emit, AppendToWal, Produce, Submit, CommitTick, CommitRetry, Prepare, RetryFallsDue,
                    ClaimDue, TickAborts, RetryAborts, LockFailed, logVars, channelVars, groupVars, workerVars
<1>4. CASE Channel
  <2>1. \A i \in 1..Len(topic) : topic'[i] = topic[i]
    <3>1. CASE UNCHANGED topic
      BY <3>1
    <3>2. CASE Publish
      <4>1. reader + 1 \in 0..MaxProduced
        BY <3>2, LogBoundAssumption DEF Publish, LogIInv, LogTypeOK, Offsets, None
      <4> QED
        BY <3>2, <4>1, AppendFacts DEF Publish, LogIInv
    <3>3. CASE PublishMalformed
      <4>1. Malformed \in 0..MaxProduced
        BY LogBoundAssumption DEF Malformed
      <4> QED
        BY <3>3, <4>1, AppendFacts DEF PublishMalformed, LogIInv
    <3> QED
      BY <1>4, <3>1, <3>2, <3>3 DEF Channel, Connector, StartConnector, FlushOffset, ConfirmSlot, ConnectorDies
  <2> QED
    BY <1>2, <1>4, <2>1 DEF Channel, Connector, StartConnector, Publish, FlushOffset, ConfirmSlot,
                            ConnectorDies, PublishMalformed, vars, workerVars, groupVars
<1>5. CASE ReplaceBox
  BY <1>5 DEF ReplaceBox, BoxReplaced, WorkersAreConsumers, vars, workerVars
<1>6. ASSUME NEW w \in Workers, WorkerMoves(w) PROVE WorkersAreConsumers'
  <2>1. UNCHANGED topic
    BY <1>6 DEF WorkerMoves, TakeEntry, Proceed, Return, Acknowledge, Break, Join, StartConsumer, Assign,
                Fetch, Handle, HandlingFails, CommitOffset, ConsumerDies, logVars, channelVars
  <2>2. ASSUME NEW v \in Workers, v # w
        PROVE  consumer'[v] = consumer[v] /\ position'[v] = position[v]
    BY <1>1, <1>6, <2>2 DEF WorkerMoves, TakeEntry, Proceed, Return, Acknowledge, Break, Join, StartConsumer,
            Assign, Fetch, Handle, HandlingFails, CommitOffset, ConsumerDies, logVars, groupVars
  <2>3. ASSUME NEW v \in Workers, v # w
        PROVE  stage'[v] = stage[v] /\ ev'[v] = ev[v]
    BY <1>1, <1>6, <2>3 DEF WorkerMoves, TakeEntry, Proceed, Return, Acknowledge, Break, Join, Receive,
            Claim, LockRow, Send, Commit, Ack, WorkerAborts, vars, workerVars
  <2> DEFINE Matches ==
        IF consumer'[w] \in {"handling", "handled"} /\ EntryOf(w)' # Malformed
          THEN /\ ev'[w] = wal'[EntryOf(w)']
               /\ consumer'[w] = "handling" => stage'[w] \in {"claim", "lock", "send", "write"}
               /\ consumer'[w] = "handled" => stage'[w] = "ack"
          ELSE stage'[w] = "idle"
  <2>4. ASSUME TakeEntry(w) PROVE Matches
    <3>1. consumer'[w] = "handling" /\ EntryOf(w)' = EntryOf(w)
      BY <1>1, <2>1, <2>4 DEF TakeEntry, Fetch, EntryOf
    <3>2. EntryOf(w) # Malformed => EntryOf(w) \in 1..Len(wal)
      BY <2>4, EntryFacts DEF TakeEntry, Fetch, PipeIInv
    <3>3. stage[w] = "idle"
      BY <2>4 DEF TakeEntry, Fetch, PipeIInv, WorkersAreConsumers
    <3> QED
      BY <1>1, <2>4, <3>1, <3>2, <3>3 DEF TakeEntry, Receive, vars, workerVars
  <2>5. ASSUME Proceed(w) PROVE Matches
    <3>1. UNCHANGED <<consumer, position>> /\ EntryOf(w)' = EntryOf(w)
      BY <2>1, <2>5 DEF Proceed, logVars, groupVars, EntryOf
    <3>2. stage[w] \in {"claim", "lock", "send"} /\ stage'[w] \in {"lock", "send", "write"} /\ ev' = ev
      BY <1>1, <2>5 DEF Proceed, Claim, LockRow, Send
    <3>3. consumer[w] = "handling" /\ EntryOf(w) # Malformed /\ ev[w] = wal[EntryOf(w)]
      BY <3>2 DEF PipeIInv, WorkersAreConsumers
    <3>4. EntryOf(w) \in 1..Len(wal)
      BY <3>3, EntryFacts DEF PipeIInv
    <3> QED
      BY <3>1, <3>2, <3>3, <3>4
  <2>6. ASSUME Return(w) PROVE Matches
    <3>1. consumer[w] = "handling" /\ consumer'[w] = "handled" /\ EntryOf(w)' = EntryOf(w)
      BY <1>1, <2>1, <2>6 DEF Return, Handle, EntryOf
    <3>2. CASE EntryOf(w) = Malformed
      <4>1. stage[w] = "idle"
        BY <3>1, <3>2 DEF PipeIInv, WorkersAreConsumers
      <4> QED
        BY <2>6, <3>1, <3>2, <4>1 DEF Return, Commit, Claim, vars, workerVars
    <3>3. CASE EntryOf(w) # Malformed
      <4>1. stage'[w] = "ack" /\ ev' = ev
        BY <1>1, <2>6, <3>3 DEF Return, Commit, Claim
      <4>2. EntryOf(w) \in 1..Len(wal) /\ ev[w] = wal[EntryOf(w)]
        BY <3>1, <3>3, EntryFacts DEF PipeIInv, WorkersAreConsumers
      <4> QED
        BY <3>1, <3>3, <4>1, <4>2
    <3> QED
      BY <3>2, <3>3
  <2>7. ASSUME Acknowledge(w) PROVE Matches
    BY <1>1, <2>7 DEF Acknowledge, CommitOffset, Ack, vars, workerVars
  <2>8. ASSUME Break(w) PROVE Matches
    <3>1. consumer'[w] \in {"polling", "down"}
      BY <1>1, <2>8 DEF Break, HandlingFails, ConsumerDies
    <3>2. stage'[w] = "idle"
      BY <1>1, <2>8 DEF Break, WorkerAborts, vars, workerVars
    <3> QED
      BY <3>1, <3>2
  <2>9. ASSUME Join(w) PROVE Matches
    <3>1. consumer[w] \in {"down", "polling"} /\ consumer'[w] = "polling"
      BY <1>1, <2>9 DEF Join, StartConsumer, Assign
    <3>2. stage'[w] = "idle"
      BY <3>1, <2>9 DEF Join, PipeIInv, WorkersAreConsumers, vars, workerVars
    <3> QED
      BY <3>1, <3>2
  <2>10. Matches
    BY <1>6, <2>4, <2>5, <2>6, <2>7, <2>8, <2>9 DEF WorkerMoves
  <2> QED
    BY <2>1, <2>2, <2>3, <2>10, ConsumersKept DEF WorkersAreConsumers
<1>7. CASE UNCHANGED pipeVars
  BY <1>2, <1>7 DEF pipeVars, vars, logVars, channelVars, groupVars, workerVars
<1> QED
  BY <1>3, <1>4, <1>5, <1>6, <1>7 DEF PipeNext

LEMMA PipeNextInv ==
    IInv /\ IInv' /\ LogIInv /\ PipeIInv /\ [PipeNext]_pipeVars => PipeIInv'
BY WalStep, HandledStep, ConsumersStep DEF PipeIInv

-----------------------------------------------------------------------------
(* Pipeline: theorems *)

\* The set of events in Delivery is an abstraction of the real channel: with
\* WAL, Debezium, topic, group and box, the core still does only what Delivery
\* says.  So every safety property of Delivery holds of the pipeline.
THEOREM PipelineImplementsDelivery == PipeSpec => Spec
BY PipeCoreStep, PTL DEF PipeSpec, PipeInit, Spec

\* And the channel under the real core is the one of EventLog.
THEOREM PipelineImplementsEventLog == PipeSpec => LogSpec
BY PipeLogStep, PTL DEF PipeSpec, PipeInit, LogSpec

\* Core and channel stay in step.
THEOREM PipelineInvariant == PipeSpec => []PipeIInv
<1>1. PipeInit => PipeIInv
  <2> SUFFICES ASSUME PipeInit PROVE PipeIInv
    OBVIOUS
  <2>1. wal \in Seq(Events) /\ Len(wal) = 0 /\ 1..Len(wal) = {}
    BY DEF PipeInit
  <2> QED
    BY <2>1, MembersAreWorkers
       DEF PipeInit, Init, LogInit, PipeIInv, WalIsOutbox, HandledIsProcessed, WorkersAreConsumers
<1> QED
  BY <1>1, PipeNextInv, PipelineImplementsDelivery, PipelineImplementsEventLog,
     InductiveInvariant, LogInductiveInvariant, PTL DEF PipeSpec

\* A pending delivery's event is still to come or was given up in one of the
\* three ways: no interleaving of programs, failures and boxes strands a
\* delivery in another.
THEOREM NoneIsStrandedOtherwise == PipeSpec => []StrandedIsGivenUp
<1>1. PendingDeliveryIsCarried /\ NothingElseIsLost /\ PipeIInv => StrandedIsGivenUp
  <2> SUFFICES ASSUME PendingDeliveryIsCarried, NothingElseIsLost, PipeIInv,
                      NEW d \in Deliveries, status[d] = "pending"
               PROVE  \E n \in 1..Len(wal) :
                        /\ wal[n].delivery = d /\ wal[n] \notin processed
                        /\ n \in GivenUp \/ Awaited(n)
    BY DEF StrandedIsGivenUp
  <2>1. PICK e \in outbox \ processed : e.delivery = d
    BY DEF PendingDeliveryIsCarried
  <2>2. PICK n \in 1..Len(wal) : wal[n] = e
    BY <2>1 DEF PipeIInv, WalIsOutbox
  <2>3. n \in 1..produced /\ n \notin handled
    BY <2>1, <2>2 DEF PipeIInv, WalIsOutbox, HandledIsProcessed
  <2>4. n \in GivenUp \/ Awaited(n)
    BY <2>3 DEF NothingElseIsLost, GivenUp, Awaited
  <2> QED
    BY <2>1, <2>2, <2>4
<1> QED
  BY <1>1, PipelineInvariant, PipelineImplementsDelivery, PipelineImplementsEventLog,
     PendingIsCarried, NoFourthLoss, PTL

\* The offset of the group never passes an event whose transaction has not
\* committed, unless the event was skipped.
THEOREM OffsetIsBehindLedger == PipeSpec => []OffsetFollowsLedger
<1>1. CommittedIsHandled /\ PipeIInv => OffsetFollowsLedger
  BY DEF CommittedIsHandled, PipeIInv, HandledIsProcessed, OffsetFollowsLedger
<1> QED
  BY <1>1, PipelineInvariant, PipelineImplementsEventLog, OffsetPassesNothing, PTL
=============================================================================
