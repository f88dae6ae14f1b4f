------------------------------ MODULE Delivery ------------------------------
(***************************************************************************)
(* The delivery core of eventform: the rows of `deliveries`, `outbox`,     *)
(* `delivery_attempts` and `processed_events`, and the transactions of the *)
(* four programs that write them:                                          *)
(*                                                                         *)
(*   public submit    (API)     creates deliveries and their first events; *)
(*   event processor  (worker)  one transaction per event, HTTP send       *)
(*                              inside it;                                 *)
(*   retry scheduler  (worker)  re-emits retries that are due;             *)
(*   manual retry     (API)     re-emits a failed delivery.                *)
(*                                                                         *)
(* Between the outbox and the processor lies a channel (WAL, Debezium,     *)
(* Kafka topic, consumer group).  Here it is an at-least-once, unordered   *)
(* channel: an event whose insert committed may be received any number of  *)
(* times, by any worker, in any order.  EventLog.tla models it in detail.  *)
(*                                                                         *)
(* Postgres runs READ COMMITTED.  What a transaction writes is invisible   *)
(* until it commits, so the writes are made by the commit action; what it  *)
(* LOCKS (a row with FOR UPDATE, a key it has inserted) blocks others at   *)
(* once and is taken by an action of its own.                              *)
(***************************************************************************)
EXTENDS Naturals, Sequences, FiniteSets

CONSTANTS
    Deliveries,     \* ids of the rows of `deliveries`
    Workers,        \* consumers running eachMessage
    Tickers,        \* running calls of RetryScheduler.tick()
    Operators,      \* running manual-retry requests
    Free,           \* "no transaction holds the lock"
    MaxAttempts,    \* MAX_ATTEMPTS of backoff.ts
    Batch,          \* LIMIT of the scheduler's query
    MaxEvents,      \* bound: manual retries stop once a delivery had so many events
    MaxAborts       \* bound: transactions that abort, processes that die

Agents == Workers \cup Tickers \cup Operators

ASSUME BudgetAssumption == MaxAttempts \in Nat \ {0}
ASSUME BoundAssumption ==
    /\ Batch \in Nat \ {0}
    /\ MaxEvents \in Nat
    /\ MaxAborts \in Nat
ASSUME AgentAssumption ==
    /\ Workers \cap Tickers = {}
    /\ Workers \cap Operators = {}
    /\ Tickers \cap Operators = {}
    /\ Free \notin Agents

-----------------------------------------------------------------------------
(* Data *)

\* A message: the n-th event of a delivery and the attempt it announces.
\* (delivery, no) stands for the random eventId.
Events == [delivery : Deliveries, no : Nat \ {0}, attempt : 1..MaxAttempts]

\* A row of delivery_attempts: the attempt number and whether it got a 2xx.
AttemptRows == [no : 1..MaxAttempts, ok : BOOLEAN]

\* "none": the row does not exist yet.
Status == {"none", "pending", "delivered", "retrying", "failed"}

\* next_retry_at: NULL, later than now(), or reached.
RetryTimes == {"null", "later", "due"}

\* Where a worker stands in eachMessage / process() / run().
Stages == {"idle", "claim", "lock", "send", "write", "ack"}

Results == {"none", "ok", "failed", "stale"}

\* No event: what ev[w] is before w has received anything.
NoEvent == [delivery |-> Free, no |-> 0, attempt |-> 0]

VARIABLES
    status,         \* deliveries.status
    attemptCount,   \* deliveries.attempt_count
    eventNo,        \* deliveries.event_id, as the number of the event
    nextRetryAt,    \* deliveries.next_retry_at
    outbox,         \* committed outbox inserts: the channel carries these
    attempts,       \* rows of delivery_attempts, in commit order
    processed,      \* processed_events, committed
    lock,           \* holder of the row lock of each delivery
    stage,          \* worker: where it stands
    ev,             \* worker: the event it handles
    attemptNo,      \* worker: attempt_count + 1, read under the row lock
    result,         \* worker: what the send returned
    acked,          \* events whose offset has been committed
    batch,          \* ticker: the rows its query returned
    retrying,       \* operator: the rows (at most one) findByIdForUpdate returned
    sends,          \* history: webhook requests made per delivery
    lostSends,      \* history: those whose transaction then aborted
    aborts          \* history: aborts so far, bounded by MaxAborts

rowVars    == <<status, attemptCount, eventNo, nextRetryAt>>
tableVars  == <<outbox, attempts, processed>>
workerVars == <<stage, ev, attemptNo, result>>
txVars     == <<batch, retrying>>
histVars   == <<sends, lostSends, aborts>>
vars == <<rowVars, tableVars, lock, workerVars, acked, txVars, histVars>>

-----------------------------------------------------------------------------
(* Operators on the state *)

\* Operators named Faulty... are what a slip in the code would make of the
\* definition that follows them; nothing refers to them.

FaultyTerminalLate(n) == n > MaxAttempts

FaultyTerminalEarly(n) == n >= MaxAttempts - 1

\* nextRetryDelayMs returns null: no further attempt is scheduled.
IsTerminalAttempt(n) == n >= MaxAttempts

\* The status and the next_retry_at that run() writes when attempt n ends in r.
StatusAfter(n, r) ==
    IF r = "ok" THEN "delivered" ELSE IF IsTerminalAttempt(n) THEN "failed" ELSE "retrying"

FaultyRetryTimeForgotten(n, r) == "null"

RetryTimeAfter(n, r) ==
    IF r = "failed" /\ ~IsTerminalAttempt(n) THEN "later" ELSE "null"

FaultyCanRetrySettled(d) == status[d] \in {"failed", "delivered"}

\* canRetryDelivery: only a failed delivery may be retried by hand.
CanRetry(d) == status[d] = "failed"

FaultyClaimingUnseen(e) == {}

\* Workers that have inserted their event id and not committed yet.
Claiming(e) == {w \in Workers : /\ stage[w] \in {"lock", "send", "write"}
                                /\ ev[w] = e}

FaultyDueRowsNoSkip == {d \in Deliveries : status[d] = "retrying" /\ nextRetryAt[d] = "due"}

\* Rows the scheduler's WHERE clause selects and SKIP LOCKED does not skip.
DueRows == {d \in Deliveries : /\ status[d] = "retrying"
                               /\ nextRetryAt[d] = "due"
                               /\ lock[d] = Free}

\* The n-th event of d, announcing attempt a.
EventOf(d, n, a) == [delivery |-> d, no |-> n, attempt |-> a]

\* The locks left once agent a's transaction has ended.
Released(a) == [d \in Deliveries |-> IF lock[d] = a THEN Free ELSE lock[d]]

-----------------------------------------------------------------------------
Init ==
    /\ status = [d \in Deliveries |-> "none"]
    /\ attemptCount = [d \in Deliveries |-> 0]
    /\ eventNo = [d \in Deliveries |-> 0]
    /\ nextRetryAt = [d \in Deliveries |-> "null"]
    /\ outbox = {}
    /\ attempts = [d \in Deliveries |-> << >>]
    /\ processed = {}
    /\ lock = [d \in Deliveries |-> Free]
    /\ stage = [w \in Workers |-> "idle"]
    /\ ev = [w \in Workers |-> NoEvent]
    /\ attemptNo = [w \in Workers |-> 0]
    /\ result = [w \in Workers |-> "none"]
    /\ acked = {}
    /\ batch = [t \in Tickers |-> {}]
    /\ retrying = [o \in Operators |-> {}]
    /\ sends = [d \in Deliveries |-> 0]
    /\ lostSends = [d \in Deliveries |-> 0]
    /\ aborts = 0

\* WHO  PublicService.submit
\* WHAT one transaction inserts a pending delivery and its first event for
\*      every active endpoint.  Nobody can see or lock the new rows before
\*      the commit, so the transaction is one step.
Submit(D) ==
    /\ \A d \in D : status[d] = "none"
    /\ status' = [d \in Deliveries |-> IF d \in D THEN "pending" ELSE status[d]]
    /\ eventNo' = [d \in Deliveries |-> IF d \in D THEN 1 ELSE eventNo[d]]
    /\ outbox' = outbox \cup {EventOf(d, 1, 1) : d \in D}
    /\ UNCHANGED <<attemptCount, nextRetryAt, attempts, processed, lock,
                   workerVars, acked, txVars, histVars>>

-----------------------------------------------------------------------------
(* The worker: eachMessage and DeliveryProcessor *)

\* WHO  kafkajs, through eachMessage
\* WHAT hands an event to an idle worker: its first delivery, a redelivery
\*      after an abort, or a duplicate after a rebalance.
Receive(w, e) ==
    /\ stage[w] = "idle"
    /\ e \in outbox
    /\ stage' = [stage EXCEPT ![w] = "claim"]
    /\ ev' = [ev EXCEPT ![w] = e]
    /\ UNCHANGED <<rowVars, tableVars, lock, attemptNo, result, acked, txVars,
                   histVars>>

\* WHO  DeliveryProcessor.run
\* WHAT inserts the event id into processed_events.  The insert waits while
\*      another transaction has inserted the same id and not ended; if that
\*      id is there already the transaction commits nothing ("duplicate").
Claim(w) ==
    /\ stage[w] = "claim"
    /\ Claiming(ev[w]) = {}
    /\ stage' = [stage EXCEPT ![w] = IF ev[w] \in processed THEN "ack" ELSE "lock"]
    /\ UNCHANGED <<rowVars, tableVars, lock, ev, attemptNo, result, acked,
                   txVars, histVars>>

\* WHO  DeliveryProcessor.run
\* WHAT SELECT ... FOR UPDATE, waiting for the lock; a delivery that is
\*      delivered or failed makes the event "stale" and skips the send.  The
\*      row exists (deliveries are never deleted) and so does its endpoint
\*      (foreign key), hence no "orphan".
LockRow(w) ==
    LET d == ev[w].delivery
        stale == status[d] \in {"delivered", "failed"}
    IN  /\ stage[w] = "lock"
        /\ lock[d] = Free
        /\ lock' = [lock EXCEPT ![d] = w]
        /\ attemptNo' = [attemptNo EXCEPT ![w] = attemptCount[d] + 1]
        /\ stage' = [stage EXCEPT ![w] = IF stale THEN "write" ELSE "send"]
        /\ result' = [result EXCEPT ![w] = IF stale THEN "stale" ELSE "none"]
        /\ UNCHANGED <<rowVars, tableVars, ev, acked, txVars, histVars>>

\* WHO  WebhookSender.send
\* WHAT the request goes out; a 2xx, or anything else (another status, a
\*      redirect, a timeout, an error), comes back.  It never throws.
Send(w) ==
    /\ stage[w] = "send"
    /\ stage' = [stage EXCEPT ![w] = "write"]
    /\ \E r \in {"ok", "failed"} : result' = [result EXCEPT ![w] = r]
    /\ sends' = [sends EXCEPT ![ev[w].delivery] = @ + 1]
    /\ UNCHANGED <<rowVars, tableVars, lock, ev, attemptNo, acked, txVars,
                   lostSends, aborts>>

\* The row and attempt writes of run() after a send that returned r.
WriteOutcome(d, n, r) ==
    /\ attempts' = [attempts EXCEPT ![d] = Append(@, [no |-> n, ok |-> r = "ok"])]
    /\ attemptCount' = [attemptCount EXCEPT ![d] = n]
    /\ status' = [status EXCEPT ![d] = StatusAfter(n, r)]
    /\ nextRetryAt' = [nextRetryAt EXCEPT ![d] = RetryTimeAfter(n, r)]

\* WHO  DeliveryProcessor.process
\* WHAT the writes and the COMMIT: the attempt row, the next status and the
\*      processed_events row appear together and the row lock is released.
Commit(w) ==
    /\ stage[w] = "write"
    /\ IF result[w] = "stale"
         THEN UNCHANGED <<attempts, attemptCount, status, nextRetryAt>>
         ELSE WriteOutcome(ev[w].delivery, attemptNo[w], result[w])
    /\ processed' = processed \cup {ev[w]}
    /\ lock' = Released(w)
    /\ stage' = [stage EXCEPT ![w] = "ack"]
    /\ UNCHANGED <<eventNo, outbox, ev, attemptNo, result, acked, txVars, histVars>>

\* WHO  KafkaConsumerService, after process() returned
\* WHAT commitOffsets: the event need not be received again.
Ack(w) ==
    /\ stage[w] = "ack"
    /\ acked' = acked \cup {ev[w]}
    /\ stage' = [stage EXCEPT ![w] = "idle"]
    /\ UNCHANGED <<rowVars, tableVars, lock, ev, attemptNo, result, txVars, histVars>>

\* WHO  a worker
\* WHAT a query fails or the process dies anywhere in eachMessage: the
\*      transaction, if still open, rolls back; the offset is not committed.
WorkerAborts(w) ==
    LET d == ev[w].delivery
        sent == stage[w] = "write" /\ result[w] # "stale"
    IN  /\ stage[w] # "idle"
        /\ aborts < MaxAborts
        /\ aborts' = aborts + 1
        /\ lostSends' = IF sent THEN [lostSends EXCEPT ![d] = @ + 1] ELSE lostSends
        /\ lock' = Released(w)
        /\ stage' = [stage EXCEPT ![w] = "idle"]
        /\ UNCHANGED <<rowVars, tableVars, ev, attemptNo, result, acked, txVars, sends>>

-----------------------------------------------------------------------------
(* The retry scheduler *)

\* WHO  the clock
\* WHAT next_retry_at is reached.
RetryFallsDue(d) ==
    /\ nextRetryAt[d] = "later"
    /\ nextRetryAt' = [nextRetryAt EXCEPT ![d] = "due"]
    /\ UNCHANGED <<status, attemptCount, eventNo, tableVars, lock, workerVars,
                   acked, txVars, histVars>>

\* WHO  RetryScheduler.tick
\* WHAT SELECT ... FOR UPDATE SKIP LOCKED LIMIT: locks up to Batch due rows.
\*      Which ones, when there are more, is left open (the code orders by
\*      next_retry_at).  An empty tick changes nothing.
ClaimDue(t) ==
    /\ batch[t] = {}
    /\ \E D \in SUBSET DueRows :
         /\ D # {}
         /\ Cardinality(D) = Batch \/ (D = DueRows /\ Cardinality(D) < Batch)
         /\ batch' = [batch EXCEPT ![t] = D]
         /\ lock' = [d \in Deliveries |-> IF d \in D THEN t ELSE lock[d]]
    /\ UNCHANGED <<rowVars, tableVars, workerVars, acked, retrying, histVars>>

\* WHO  RetryScheduler.tick
\* WHAT for each claimed row a fresh event announcing attempt_count + 1, the
\*      row back to pending with that event, and the COMMIT.
CommitTick(t) ==
    LET D == batch[t]
    IN  /\ D # {}
        /\ outbox' = outbox \cup {EventOf(d, eventNo[d] + 1, attemptCount[d] + 1) : d \in D}
        /\ eventNo' = [d \in Deliveries |-> IF d \in D THEN eventNo[d] + 1 ELSE eventNo[d]]
        /\ status' = [d \in Deliveries |-> IF d \in D THEN "pending" ELSE status[d]]
        /\ nextRetryAt' = [d \in Deliveries |-> IF d \in D THEN "null" ELSE nextRetryAt[d]]
        /\ batch' = [batch EXCEPT ![t] = {}]
        /\ lock' = Released(t)
        /\ UNCHANGED <<attemptCount, attempts, processed, workerVars, acked,
                       retrying, histVars>>

\* WHO  RetryScheduler.tick
\* WHAT an error or a crash before the COMMIT: everything rolls back.
TickAborts(t) ==
    /\ batch[t] # {}
    /\ aborts < MaxAborts
    /\ aborts' = aborts + 1
    /\ batch' = [batch EXCEPT ![t] = {}]
    /\ lock' = Released(t)
    /\ UNCHANGED <<rowVars, tableVars, workerVars, acked, retrying, sends, lostSends>>

-----------------------------------------------------------------------------
(* Manual retry *)

\* WHO  DeliveriesService.retry
\* WHAT findByIdForUpdate, then the check that the delivery is failed.  Any
\*      other status is a 409, which changes nothing.
LockFailed(o, d) ==
    /\ retrying[o] = {}
    /\ lock[d] = Free
    /\ CanRetry(d)
    /\ eventNo[d] + MaxAttempts <= MaxEvents
    /\ retrying' = [retrying EXCEPT ![o] = {d}]
    /\ lock' = [lock EXCEPT ![d] = o]
    /\ UNCHANGED <<rowVars, tableVars, workerVars, acked, batch, histVars>>

\* WHO  DeliveriesService.retry, reEmitRetry and the COMMIT of withTenant
\* WHAT a fresh event announcing attempt 1; the row back to pending with
\*      that event and a full attempt budget.
CommitRetry(o) ==
    \E d \in retrying[o] :
        /\ outbox' = outbox \cup {EventOf(d, eventNo[d] + 1, 1)}
        /\ eventNo' = [eventNo EXCEPT ![d] = @ + 1]
        /\ status' = [status EXCEPT ![d] = "pending"]
        /\ attemptCount' = [attemptCount EXCEPT ![d] = 0]
        /\ nextRetryAt' = [nextRetryAt EXCEPT ![d] = "null"]
        /\ retrying' = [retrying EXCEPT ![o] = {}]
        /\ lock' = Released(o)
        /\ UNCHANGED <<attempts, processed, workerVars, acked, batch, histVars>>

\* The transaction is left open.
FaultyRetryAborts(o) ==
    /\ retrying[o] # {}
    /\ aborts < MaxAborts
    /\ aborts' = aborts + 1
    /\ retrying' = [retrying EXCEPT ![o] = {}]
    /\ UNCHANGED <<rowVars, tableVars, lock, workerVars, acked, batch, sends, lostSends>>

\* WHO  withTenant, on an error, or the API process dying
\* WHAT the transaction rolls back.
RetryAborts(o) ==
    /\ retrying[o] # {}
    /\ aborts < MaxAborts
    /\ aborts' = aborts + 1
    /\ retrying' = [retrying EXCEPT ![o] = {}]
    /\ lock' = Released(o)
    /\ UNCHANGED <<rowVars, tableVars, workerVars, acked, batch, sends, lostSends>>

-----------------------------------------------------------------------------
WorkerStep(w) ==
    \/ \E e \in outbox : Receive(w, e)
    \/ Claim(w)
    \/ LockRow(w)
    \/ Send(w)
    \/ Commit(w)
    \/ Ack(w)
    \/ WorkerAborts(w)

TickerStep(t) == ClaimDue(t) \/ CommitTick(t) \/ TickAborts(t)

OperatorStep(o) ==
    \/ \E d \in Deliveries : LockFailed(o, d)
    \/ CommitRetry(o)
    \/ RetryAborts(o)

Next ==
    \/ \E D \in SUBSET Deliveries \ {{}} : Submit(D)
    \/ \E w \in Workers : WorkerStep(w)
    \/ \E d \in Deliveries : RetryFallsDue(d)
    \/ \E t \in Tickers : TickerStep(t)
    \/ \E o \in Operators : OperatorStep(o)

Spec == Init /\ [][Next]_vars

\* Worker w receives the event numbered n of delivery d, not acknowledged yet.
ReceiveUnacked(w, d, n) ==
    \E e \in outbox \ acked : e.delivery = d /\ e.no = n /\ Receive(w, e)

\* Fairness of the code's scheduling.  A running transaction goes on (each
\* query and the 10 s send return), the interval timer keeps ticking, time
\* passes, and an event that is not acknowledged is fetched again however
\* often duplicates of others come first (the group resumes at its committed
\* offset): hence strong fairness.  Neither aborts, nor submissions, nor
\* manual retries are owed.
Fairness ==
    /\ \A w \in Workers :
         /\ WF_vars(Claim(w)) /\ WF_vars(LockRow(w)) /\ WF_vars(Send(w))
         /\ WF_vars(Commit(w)) /\ WF_vars(Ack(w))
    /\ \A d \in Deliveries, n \in 1..MaxEvents :
         SF_vars(\E w \in Workers : ReceiveUnacked(w, d, n))
    /\ \A d \in Deliveries : WF_vars(RetryFallsDue(d))
    /\ \A t \in Tickers : WF_vars(ClaimDue(t)) /\ WF_vars(CommitTick(t))
    /\ \A o \in Operators : WF_vars(CommitRetry(o))

FairSpec == Spec /\ Fairness

-----------------------------------------------------------------------------
(* Properties *)

TypeOK ==
    /\ status \in [Deliveries -> Status]
    /\ attemptCount \in [Deliveries -> 0..MaxAttempts]
    /\ eventNo \in [Deliveries -> Nat]
    /\ nextRetryAt \in [Deliveries -> RetryTimes]
    /\ outbox \subseteq Events
    /\ attempts \in [Deliveries -> Seq(AttemptRows)]
    /\ processed \subseteq outbox
    /\ lock \in [Deliveries -> Agents \cup {Free}]
    /\ stage \in [Workers -> Stages]
    /\ ev \in [Workers -> Events \cup {NoEvent}]
    /\ attemptNo \in [Workers -> 0..MaxAttempts]
    /\ result \in [Workers -> Results]
    /\ acked \subseteq outbox
    /\ batch \in [Tickers -> SUBSET Deliveries]
    /\ retrying \in [Operators -> SUBSET Deliveries]
    /\ sends \in [Deliveries -> Nat]
    /\ lostSends \in [Deliveries -> Nat]
    /\ aborts \in Nat

\* Every event that has not been processed is the latest one of a delivery
\* that is pending, and announces the attempt that will be made.  So neither
\* the scheduler nor a manual retry re-emits a delivery whose event is still
\* on its way or in a worker's hands, and no event is ever stale.
UnprocessedEventIsAwaited ==
    \A e \in outbox \ processed :
        /\ status[e.delivery] = "pending"
        /\ e.no = eventNo[e.delivery]
        /\ e.attempt = attemptCount[e.delivery] + 1

\* A pending delivery has an unprocessed event in the outbox (row and event
\* are written by one transaction, and an event is consumed only by the
\* transaction that moves the row on): none is stranded.
PendingDeliveryIsCarried ==
    \A d \in Deliveries :
        status[d] = "pending" => \E e \in outbox \ processed : e.delivery = d

\* A retrying delivery, and no other, has a next_retry_at for the scheduler.
RetryingHasRetryTime ==
    \A d \in Deliveries : status[d] = "retrying" <=> nextRetryAt[d] # "null"

\* The rows of delivery_attempts of d, its history.
RowIsExplained(d) ==
    LET h == attempts[d]
        last == h[Len(h)]
    IN  /\ \A i \in 1..Len(h) :
             /\ h[i].no = IF i = 1 \/ h[i-1].no = MaxAttempts
                            THEN 1 ELSE h[i-1].no + 1
             /\ h[i].ok => i = Len(h)
        /\ status[d] \in {"delivered", "failed", "retrying"} =>
             /\ h # << >>
             /\ attemptCount[d] = last.no
             /\ status[d] = IF last.ok THEN "delivered"
                            ELSE IF last.no = MaxAttempts THEN "failed" ELSE "retrying"
        /\ status[d] = "pending" =>
             attemptCount[d] \in {0} \cup IF h = << >> THEN {} ELSE {last.no} \ {MaxAttempts}

\* delivery_attempts explains the row: numbers count 1, 2, .. and start again
\* only after a full budget of failures; the last row is the attempt the
\* delivery has counted, and its success or number decides the status.
HistoryExplainsRow == \A d \in Deliveries : RowIsExplained(d)

\* Transactions that have read a delivery's row to act on it.
ActingOn(d) ==
    {w \in Workers : stage[w] \in {"send", "write"} /\ ev[w].delivery = d}
    \cup {t \in Tickers : d \in batch[t]}
    \cup {o \in Operators : d \in retrying[o]}

\* At most one transaction acts on a delivery at a time: an attempt in
\* flight, a scheduler tick and a manual retry never overlap.
OneActorPerDelivery ==
    \A d \in Deliveries : \A a, b \in ActingOn(d) : a = b

\* Sends made by transactions still open.
OpenSends(d) ==
    {w \in Workers : /\ stage[w] = "write"
                     /\ result[w] # "stale"
                     /\ ev[w].delivery = d}

\* The processed events of d.
ProcessedOf(d) == {e \in processed : e.delivery = d}

\* The requests made for d and what became of them.
Account(d) ==
    sends[d] = Cardinality(ProcessedOf(d)) + lostSends[d] + Cardinality(OpenSends(d))

\* Every webhook request belongs to an event that was processed, one request
\* per event, except those whose transaction aborted after the send: however
\* duplicates of an event interleave, they never cause a second request.
SendsAreAccountedFor == \A d \in Deliveries : Account(d)

\* An offset is committed only for an event whose transaction committed.
AckedIsProcessed == acked \subseteq processed

\* Once delivered, nothing about a delivery changes and no request is made
\* for it, whatever is redelivered, ticks or is retried.
DeliveredIsFinal ==
    [][\A d \in Deliveries : status[d] = "delivered" =>
          /\ status'[d] = "delivered"
          /\ UNCHANGED <<attempts[d], attemptCount[d], eventNo[d], sends[d]>>]_vars

\* The pipeline implements the life cycle a delivery is promised, and, under
\* the fairness above, makes the progress promised.
Lifecycle ==
    INSTANCE DeliveryLifecycle WITH
        Deliveries <- Deliveries, MaxAttempts <- MaxAttempts,
        status <- status, attemptCount <- attemptCount, attempts <- attempts
ImplementsLifecycle == Lifecycle!Spec
ImplementsFairLifecycle == Lifecycle!FairSpec

\* Every delivery ends delivered or failed, if aborts stop.
EverySubmissionSettles ==
    \A d \in Deliveries :
        status[d] = "pending" ~> status[d] \in {"delivered", "failed"}
-----------------------------------------------------------------------------
(* The inductive invariant behind these properties *)

\* A row that does not exist yet has its defaults, events are numbered up to
\* the row's own, and an attempt that can still be made is within the budget.
RowsAreConsistent ==
    /\ \A d \in Deliveries :
         /\ status[d] = "none" => eventNo[d] = 0 /\ attemptCount[d] = 0
         /\ status[d] \in {"pending", "retrying"} => attemptCount[d] < MaxAttempts
    /\ \A e \in outbox : e.no <= eventNo[e.delivery]

\* What a worker's stage says: it handles an event of the outbox; its claim
\* is on an event not processed; from the row lock on it holds the lock, and
\* what it has read is still so; it acknowledges an event only once processed.
WorkersAreConsistent ==
    \A w \in Workers :
        /\ stage[w] # "idle" => ev[w] \in outbox
        /\ stage[w] \in {"lock", "send", "write"} => ev[w] \notin processed
        /\ stage[w] \in {"send", "write"} =>
             /\ lock[ev[w].delivery] = w
             /\ attemptNo[w] = attemptCount[ev[w].delivery] + 1
        /\ stage[w] = "write" => result[w] \in {"ok", "failed"}
        /\ stage[w] = "ack" => ev[w] \in processed

\* Two workers never both have a claim on one event.
ClaimsAreExclusive ==
    \A v, w \in Workers :
        /\ {stage[v], stage[w]} \subseteq {"lock", "send", "write"}
        /\ ev[v] = ev[w]
        => v = w

\* Rows read by a tick or a manual retry stay locked, and as they were read.
ReadRowsAreLocked ==
    /\ \A t \in Tickers : \A d \in batch[t] : lock[d] = t /\ status[d] = "retrying"
    /\ \A o \in Operators : \A d \in retrying[o] : lock[d] = o /\ status[d] = "failed"

IInv ==
    /\ TypeOK
    /\ UnprocessedEventIsAwaited
    /\ PendingDeliveryIsCarried
    /\ RetryingHasRetryTime
    /\ AckedIsProcessed
    /\ RowsAreConsistent
    /\ WorkersAreConsistent
    /\ ClaimsAreExclusive
    /\ ReadRowsAreLocked

\* Where an attempt that can still be made continues the history of d.
HistoryIsOpen ==
    \A d \in Deliveries :
        LET h == attempts[d]
            last == h[Len(h)]
        IN  /\ status[d] = "none" => h = << >>
            /\ status[d] = "pending" =>
                 /\ h # << >> => ~last.ok
                 /\ attemptCount[d] = IF h = << >> \/ last.no = MaxAttempts THEN 0 ELSE last.no

\* What the requests and their accounts rest on.
RequestsAreAccounted == IsFiniteSet(processed) /\ SendsAreAccountedFor
=============================================================================
