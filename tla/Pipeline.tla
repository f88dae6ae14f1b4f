------------------------------ MODULE Pipeline ------------------------------
(***************************************************************************)
(* The delivery core over the channel it really has.  Delivery abstracts   *)
(* the way from the outbox to the workers as a set of events that may be   *)
(* received any number of times and in any order; EventLog models that way *)
(* with numbers for events and nothing known of what handling one does.    *)
(* Here the two run together: a transaction that inserts into the outbox   *)
(* is what the WAL grows by, an entry that kafkajs hands to eachMessage is *)
(* the event the processor receives, process() returning is its            *)
(* transaction having committed or found a duplicate, and a worker that    *)
(* dies takes its consumer with it.                                        *)
(***************************************************************************)
EXTENDS Delivery, EventLog

ASSUME MembersAreWorkers == Members = Workers

VARIABLE wal        \* the outbox inserts in commit order

pipeVars == <<vars, logVars, wal>>

\* The orders in which a transaction can have inserted the events E.
Orders(E) ==
    {s \in UNION {[1..n -> E] : n \in 1..MaxProduced} :
        /\ \A e \in E : \E i \in DOMAIN s : s[i] = e
        /\ \A i, j \in DOMAIN s : s[i] = s[j] => i = j}

\* The entry of the topic that consumer w is at.
EntryOf(w) == topic[position[w] + 1]

-----------------------------------------------------------------------------
PipeInit == Init /\ LogInit /\ wal = << >>

\* WHO  Postgres
\* WHAT a COMMIT appends the inserts of its transaction to the WAL.
AppendToWal ==
    /\ \E s \in Orders(outbox' \ outbox) : wal' = wal \o s
    /\ produced' = Len(wal')
    /\ Produce

\* WHO  PublicService.submit, RetryScheduler.tick, DeliveriesService.retry
\* WHAT a transaction that inserts into the outbox commits.
Emit ==
    /\ \/ \E D \in SUBSET Deliveries \ {{}} : Submit(D)
       \/ \E t \in Tickers : CommitTick(t)
       \/ \E o \in Operators : CommitRetry(o)
    /\ AppendToWal

-----------------------------------------------------------------------------
(* The worker: KafkaConsumerService and DeliveryProcessor *)

\* WHO  kafkajs
\* WHAT hands eachMessage the entry that its consumer is at.
TakeEntry(w) ==
    /\ Fetch(w)
    /\ IF EntryOf(w) = Malformed THEN UNCHANGED vars ELSE Receive(w, wal[EntryOf(w)])
    /\ UNCHANGED wal

\* WHO  DeliveryProcessor.run
\* WHAT goes on with its transaction: claim, row lock, request.
Proceed(w) ==
    /\ \/ ev[w] \notin processed /\ Claim(w)
       \/ LockRow(w)
       \/ Send(w)
    /\ UNCHANGED <<logVars, wal>>

\* WHO  eachMessage
\* WHAT process() returns, the transaction committed or the event a
\*      duplicate; or a message that cannot be parsed is passed over.
Return(w) ==
    /\ Handle(w)
    /\ \/ Commit(w)
       \/ ev[w] \in processed /\ Claim(w)
       \/ EntryOf(w) = Malformed /\ UNCHANGED vars
    /\ UNCHANGED wal

\* WHO  eachMessage
\* WHAT commits the offset behind the entry, an event's or a malformed one's.
Acknowledge(w) ==
    /\ CommitOffset(w)
    /\ IF stage[w] = "idle" THEN UNCHANGED vars ELSE Ack(w)
    /\ UNCHANGED wal

\* WHO  eachMessage, or the whole worker
\* WHAT process() throws, or the worker dies, in eachMessage or out of it: a
\*      transaction still open rolls back.
Break(w) ==
    /\ HandlingFails(w) \/ ConsumerDies(w)
    /\ IF stage[w] = "idle" THEN UNCHANGED vars ELSE WorkerAborts(w)
    /\ UNCHANGED wal

\* WHO  the supervisor, the group coordinator
\* WHAT a worker is started, or given the partition.
Join(w) == (StartConsumer(w) \/ Assign(w)) /\ UNCHANGED <<vars, wal>>

-----------------------------------------------------------------------------
\* WHO  Debezium, and anyone who can write to the topic
\* WHAT the channel's own steps.
Channel == (Connector \/ PublishMalformed) /\ UNCHANGED <<vars, wal>>

\* WHO  the scheduler, manual retry and the clock
\* WHAT what they do besides emitting events.
Prepare ==
    /\ \/ \E d \in Deliveries : RetryFallsDue(d)
       \/ \E t \in Tickers : ClaimDue(t) \/ TickAborts(t)
       \/ \E o \in Operators : RetryAborts(o) \/ \E d \in Deliveries : LockFailed(o, d)
    /\ UNCHANGED <<logVars, wal>>

\* WHO  the Auto Scaling group
\* WHAT replaces the box, once its processes have ended: worker, scheduler
\*      and API are containers on it.
ReplaceBox ==
    /\ BoxReplaced
    /\ \A w \in Workers : stage[w] = "idle"
    /\ \A t \in Tickers : batch[t] = {}
    /\ \A o \in Operators : retrying[o] = {}
    /\ UNCHANGED <<vars, wal>>

WorkerMoves(w) ==
    TakeEntry(w) \/ Proceed(w) \/ Return(w) \/ Acknowledge(w) \/ Break(w) \/ Join(w)

PipeNext ==
    \/ Emit \/ Channel \/ Prepare \/ ReplaceBox
    \/ \E w \in Workers : WorkerMoves(w)

PipeSpec == PipeInit /\ [][PipeNext]_pipeVars

\* As in Delivery and EventLog, with one difference: that an event is received
\* is not assumed, it is what Debezium and the consumers have to bring about.
PipeFairness ==
    /\ WF_pipeVars(StartConnector /\ UNCHANGED <<vars, wal>>)
    /\ WF_pipeVars(Publish /\ UNCHANGED <<vars, wal>>)
    /\ WF_pipeVars(\E w \in Workers : owner = NoMember /\ Assign(w) /\ UNCHANGED <<vars, wal>>)
    /\ \A w \in Workers :
         /\ WF_pipeVars(StartConsumer(w) /\ UNCHANGED <<vars, wal>>)
         /\ WF_pipeVars(TakeEntry(w)) /\ WF_pipeVars(Proceed(w))
         /\ WF_pipeVars(Return(w)) /\ WF_pipeVars(Acknowledge(w))
    /\ \A d \in Deliveries : WF_pipeVars(RetryFallsDue(d) /\ UNCHANGED <<logVars, wal>>)
    /\ \A t \in Tickers :
         /\ WF_pipeVars(ClaimDue(t) /\ UNCHANGED <<logVars, wal>>)
         /\ WF_pipeVars(CommitTick(t) /\ AppendToWal)
    /\ \A o \in Operators : WF_pipeVars(CommitRetry(o) /\ AppendToWal)

PipeFairSpec == PipeSpec /\ PipeFairness

-----------------------------------------------------------------------------
(* Properties *)

\* Events given up by the channel: older than the slot, than the start of a
\* consumer without a committed offset, or gone with a box.
GivenUp == unseen \cup skipped \cup lost

\* Event n is still to come: Debezium has not passed it, or the group has not.
Awaited(n) ==
    \/ n > ResumePoint
    \/ \E i \in 1..Len(topic) : i > committed /\ topic[i] = n

\* A pending delivery has an event, not processed, that is still to come
\* through WAL, topic and group; or that event is one the channel has given
\* up.  Whatever dies, is redelivered, rebalanced or replaced, no pending
\* delivery is stranded in another way.
StrandedIsGivenUp ==
    \A d \in Deliveries : status[d] = "pending" =>
        \E n \in 1..Len(wal) :
            /\ wal[n].delivery = d /\ wal[n] \notin processed
            /\ n \in GivenUp \/ Awaited(n)

\* The group's offset passes an event only once the transaction that
\* processed it is committed in Postgres, unless it was skipped at the start.
OffsetFollowsLedger ==
    \A i \in 1..Len(topic) : i <= committed =>
        topic[i] \in skipped \cup {Malformed} \/ wal[topic[i]] \in processed

\* Every submission is settled in the end, unless the channel gives up the
\* very event it waits for.
SettledUnlessGivenUp ==
    \A d \in Deliveries :
        status[d] = "pending" ~>
            \/ status[d] \in {"delivered", "failed"}
            \/ \E n \in GivenUp : wal[n].delivery = d /\ wal[n] \notin processed

\* README.md:76 and kafka-consumer.service.ts:74-75: delivery is at least
\* once, so a delivery whose event is in the topic is settled in the end.
PublishedIsSettled ==
    \A d \in Deliveries :
        (\E n \in Entries(topic) \ {Malformed} : wal[n].delivery = d) ~>
            status[d] \in {"delivered", "failed"}

-----------------------------------------------------------------------------
(* The inductive invariant that ties the two together *)

\* The WAL is the outbox, each event once.
WalIsOutbox ==
    /\ wal \in Seq(Events) /\ Len(wal) = produced
    /\ outbox = {wal[n] : n \in 1..Len(wal)}
    /\ \A m, n \in 1..Len(wal) : wal[m] = wal[n] => m = n

\* process() has returned for an event when its transaction has committed.
HandledIsProcessed == handled = {n \in 1..Len(wal) : wal[n] \in processed}

\* A worker is in a transaction for the entry that its consumer is handling,
\* and about to acknowledge it when process() has returned.
WorkersAreConsumers ==
    \A w \in Workers :
        IF consumer[w] \in {"handling", "handled"} /\ EntryOf(w) # Malformed
          THEN /\ ev[w] = wal[EntryOf(w)]
               /\ consumer[w] = "handling" => stage[w] \in {"claim", "lock", "send", "write"}
               /\ consumer[w] = "handled" => stage[w] = "ack"
          ELSE stage[w] = "idle"

PipeIInv == WalIsOutbox /\ HandledIsProcessed /\ WorkersAreConsumers
=============================================================================
