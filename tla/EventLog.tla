------------------------------ MODULE EventLog ------------------------------
(***************************************************************************)
(* The channel between the outbox and the event processor: the WAL of      *)
(* Postgres and its replication slot (both on Neon), Debezium Server and   *)
(* its offset file, the one-partition topic eventform.events and the       *)
(* offset of group eventform-worker (all three on the box's disk), and the *)
(* workers' consumers.  eventform configures Debezium, Kafka and kafkajs;  *)
(* their actions here are what that configuration asks of them.            *)
(*                                                                         *)
(* Events are numbered in commit order, so the WAL is 1..produced.         *)
(* Deleting old outbox rows (OutboxCleanup) leaves the WAL as it is.       *)
(***************************************************************************)
EXTENDS Integers, Sequences

CONSTANTS
    Members,        \* the workers, as consumers of the group
    NoMember,       \* "nobody owns the partition"
    MaxProduced,    \* bound: outbox inserts
    MaxCrashes,     \* bound: failures of a connector, a consumer or a handler
    MaxBoxes,       \* bound: replacements of the box
    MaxMalformed    \* bound: messages nobody can parse

ASSUME LogBoundAssumption ==
    /\ MaxProduced \in Nat /\ MaxCrashes \in Nat
    /\ MaxBoxes \in Nat /\ MaxMalformed \in Nat
ASSUME MemberAssumption == NoMember \notin Members

\* No offset: no slot, no offset file, no group offset, connector not running.
None == -1

\* A topic entry that submissionReceivedSchema does not accept.
Malformed == 0

VARIABLES
    produced,       \* outbox inserts in the WAL
    slot,           \* confirmed position of slot eventform_outbox
    offsetFile,     \* position in Debezium's offsets.dat
    reader,         \* WAL position of the running connector
    topic,          \* entries of eventform.events: event numbers
    committed,      \* committed offset of the group
    owner,          \* worker to which the partition is assigned
    consumer,       \* worker: "down", "polling", "handling", "handled"
    position,       \* worker: offset up to which it has read
    handled,        \* events process() returned for
    unseen,         \* history: events older than the slot
    skipped,        \* history: events before the offset where a consumer started
    lost,           \* history: events unprocessed in the topic of a replaced box
    crashes, boxes  \* history: failures and replacements so far

channelVars == <<produced, slot, offsetFile, reader, topic>>
groupVars   == <<committed, owner, consumer, position>>
historyVars == <<unseen, skipped, lost, crashes, boxes>>
logVars     == <<channelVars, groupVars, handled, historyVars>>

\* Operators named Faulty... are what a slip in the code would make of the
\* definition that follows them; nothing refers to them.

\* The events a topic holds.
Entries(t) == {t[i] : i \in 1..Len(t)}

\* One more of the failures counted by MaxCrashes.
Crash == crashes < MaxCrashes /\ crashes' = crashes + 1

-----------------------------------------------------------------------------
LogInit ==
    /\ produced = 0
    /\ slot = None
    /\ offsetFile = None
    /\ reader = None
    /\ topic = << >>
    /\ committed = None
    /\ owner = NoMember
    /\ consumer = [w \in Members |-> "down"]
    /\ position = [w \in Members |-> 0]
    /\ handled = {}
    /\ unseen = {} /\ skipped = {} /\ lost = {}
    /\ crashes = 0 /\ boxes = 0

\* WHO  submit, scheduler tick or manual retry
\* WHAT a transaction with one or more outbox inserts commits.
Produce ==
    /\ produced' \in produced + 1 .. MaxProduced
    /\ UNCHANGED <<slot, offsetFile, reader, topic, groupVars, handled, historyVars>>

-----------------------------------------------------------------------------
(* Debezium *)

\* WHO  Debezium
\* WHAT starts.  The very first time it creates the slot at the end of the
\*      WAL and takes no snapshot (no_data); later it resumes from its offset
\*      file, or from the slot when the file is gone.
StartConnector ==
    /\ reader = None
    /\ slot' = IF slot = None THEN produced ELSE slot
    /\ reader' = IF offsetFile = None THEN slot' ELSE offsetFile
    /\ unseen' = IF slot = None THEN 1..produced ELSE unseen
    /\ UNCHANGED <<produced, offsetFile, topic, groupVars, handled, skipped,
                   lost, crashes, boxes>>

\* WHO  Debezium
\* WHAT reads the next insert and appends its payload to the topic.
Publish ==
    /\ reader # None
    /\ reader < produced
    /\ reader' = reader + 1
    /\ topic' = Append(topic, reader')
    /\ UNCHANGED <<produced, slot, offsetFile, groupVars, handled, historyVars>>

\* The offset recorded is the one received, published or not.
FaultyFlushReceived ==
    /\ reader # None
    /\ offsetFile' = produced
    /\ offsetFile # produced
    /\ UNCHANGED <<produced, slot, reader, topic, groupVars, handled, historyVars>>

\* WHO  Debezium (flush interval 0)
\* WHAT records in its offset file what it has published.
FlushOffset ==
    /\ reader # None
    /\ offsetFile' = reader
    /\ offsetFile # reader
    /\ UNCHANGED <<produced, slot, reader, topic, groupVars, handled, historyVars>>

\* WHO  Debezium, after flushing
\* WHAT confirms the flushed position: Postgres may drop the WAL before it.
ConfirmSlot ==
    /\ reader # None
    /\ offsetFile > slot
    /\ slot' = offsetFile
    /\ UNCHANGED <<produced, offsetFile, reader, topic, groupVars, handled, historyVars>>

ConnectorDies ==
    /\ reader # None
    /\ Crash
    /\ reader' = None
    /\ UNCHANGED <<produced, slot, offsetFile, topic, groupVars, handled,
                   unseen, skipped, lost, boxes>>

\* WHO  anyone who can write to the topic
\* WHAT appends a message that cannot be parsed.
PublishMalformed ==
    /\ Len(SelectSeq(topic, LAMBDA m : m = Malformed)) < MaxMalformed
    /\ topic' = Append(topic, Malformed)
    /\ UNCHANGED <<produced, slot, offsetFile, reader, groupVars, handled, historyVars>>

-----------------------------------------------------------------------------
(* The consumer group and KafkaConsumerService *)

\* WHO  KafkaConsumerService.onApplicationBootstrap
\* WHAT the topic is created if need be, the consumer subscribes and runs.
StartConsumer(w) ==
    /\ consumer[w] = "down"
    /\ consumer' = [consumer EXCEPT ![w] = "polling"]
    /\ UNCHANGED <<channelVars, committed, owner, position, handled, historyVars>>

FaultyStartAtEnd == Len(topic)

\* Where a consumer starts reading: at the committed offset or, as there is
\* none and fromBeginning is false, at the end of the topic.
StartOffset == IF committed = None THEN Len(topic) ELSE committed

\* WHO  the group coordinator and kafkajs
\* WHAT a rebalance gives the partition to w, which looks up where to start.
\*      The previous owner may still be in eachMessage.  A rebalance that
\*      takes the partition from a running consumer counts as a failure.
Assign(w) ==
    /\ consumer[w] = "polling"
    /\ IF owner = NoMember THEN UNCHANGED crashes ELSE Crash
    /\ owner' = w
    /\ position' = [position EXCEPT ![w] = StartOffset]
    /\ skipped' = IF committed = None
                    THEN skipped \cup (Entries(topic) \ (handled \cup {Malformed}))
                    ELSE skipped
    /\ UNCHANGED <<channelVars, committed, consumer, handled, unseen, lost, boxes>>

\* WHO  kafkajs
\* WHAT hands the next entry to eachMessage.
Fetch(w) ==
    /\ consumer[w] = "polling"
    /\ owner = w
    /\ position[w] < Len(topic)
    /\ consumer' = [consumer EXCEPT ![w] = "handling"]
    /\ UNCHANGED <<channelVars, committed, owner, position, handled, historyVars>>

\* WHO  eachMessage
\* WHAT process() commits and returns; a message that cannot be parsed is
\*      logged and passed over.
Handle(w) ==
    LET n == topic[position[w] + 1]
    IN  /\ consumer[w] = "handling"
        /\ handled' = IF n = Malformed THEN handled ELSE handled \cup {n}
        /\ consumer' = [consumer EXCEPT ![w] = "handled"]
        /\ UNCHANGED <<channelVars, committed, owner, position, historyVars>>

\* The error is swallowed and the offset committed.
FaultyFailureSwallowed(w) ==
    /\ consumer[w] = "handling"
    /\ Crash
    /\ consumer' = [consumer EXCEPT ![w] = "handled"]
    /\ UNCHANGED <<channelVars, committed, owner, position, handled, unseen,
                   skipped, lost, boxes>>

\* WHO  eachMessage
\* WHAT process() throws: the offset stays, kafkajs fetches the entry again.
HandlingFails(w) ==
    /\ consumer[w] = "handling"
    /\ Crash
    /\ consumer' = [consumer EXCEPT ![w] = "polling"]
    /\ UNCHANGED <<channelVars, committed, owner, position, handled, unseen,
                   skipped, lost, boxes>>

\* WHO  eachMessage
\* WHAT commitOffsets(offset + 1), which the coordinator refuses a consumer
\*      that has lost the partition.
CommitOffset(w) ==
    /\ consumer[w] = "handled"
    /\ committed' = IF owner = w THEN position[w] + 1 ELSE committed
    /\ position' = [position EXCEPT ![w] = @ + 1]
    /\ consumer' = [consumer EXCEPT ![w] = "polling"]
    /\ UNCHANGED <<channelVars, owner, handled, historyVars>>

\* WHO  a worker
\* WHAT exits (the CRASH handler, a kill) or shuts down; its supervisor
\*      starts it again.
ConsumerDies(w) ==
    /\ consumer[w] # "down"
    /\ Crash
    /\ consumer' = [consumer EXCEPT ![w] = "down"]
    /\ owner' = IF owner = w THEN NoMember ELSE owner
    /\ UNCHANGED <<channelVars, committed, position, handled, unseen, skipped,
                   lost, boxes>>

-----------------------------------------------------------------------------
\* WHO  the Auto Scaling group: idle-check.sh, or a failed instance
\* WHAT the box goes with its disk, and a fresh one is started: no topic, no
\*      group offset, no offset file.  WAL and slot are on Neon.
BoxReplaced ==
    /\ boxes < MaxBoxes
    /\ boxes' = boxes + 1
    /\ lost' = lost \cup {n \in Entries(topic) \ (handled \cup skipped \cup {Malformed}) : n <= slot}
    /\ reader' = None
    /\ offsetFile' = None
    /\ topic' = << >>
    /\ committed' = None
    /\ owner' = NoMember
    /\ consumer' = [w \in Members |-> "down"]
    /\ position' = [w \in Members |-> 0]
    /\ UNCHANGED <<produced, slot, handled, unseen, skipped, crashes>>

-----------------------------------------------------------------------------
Connector ==
    StartConnector \/ Publish \/ FlushOffset \/ ConfirmSlot \/ ConnectorDies

Consumer(w) ==
    \/ StartConsumer(w) \/ Assign(w) \/ Fetch(w) \/ Handle(w)
    \/ HandlingFails(w) \/ CommitOffset(w) \/ ConsumerDies(w)

LogNext ==
    \/ Produce \/ Connector \/ PublishMalformed
    \/ \E w \in Members : Consumer(w)
    \/ BoxReplaced

LogSpec == LogInit /\ [][LogNext]_logVars

-----------------------------------------------------------------------------
(* Properties *)

Offsets == Nat \cup {None}

LogTypeOK ==
    /\ produced \in 0..MaxProduced
    /\ slot \in Offsets /\ offsetFile \in Offsets /\ reader \in Offsets
    /\ topic \in Seq(0..MaxProduced)
    /\ committed \in Offsets
    /\ owner \in Members \cup {NoMember}
    /\ consumer \in [Members -> {"down", "polling", "handling", "handled"}]
    /\ position \in [Members -> Nat]
    /\ handled \subseteq 1..produced
    /\ unseen \subseteq 1..produced
    /\ skipped \subseteq 1..produced
    /\ lost \subseteq 1..produced
    /\ crashes \in 0..MaxCrashes /\ boxes \in 0..MaxBoxes

\* Where the connector, running or restarted, goes on reading the WAL.
ResumePoint ==
    IF reader # None THEN reader ELSE IF offsetFile # None THEN offsetFile ELSE slot

\* An event that has not been processed is still ahead of the connector, or
\* in the topic beyond the committed offset, unless it is one of the three
\* kinds this configuration gives up: older than the slot, older than the
\* start of a consumer without a committed offset, or gone with the box.
NothingElseIsLost ==
    \A n \in 1..produced \ (handled \cup unseen \cup skipped \cup lost) :
        \/ n > ResumePoint
        \/ \E i \in 1..Len(topic) : i > committed /\ topic[i] = n

\* The committed offset never passes an entry that was neither processed,
\* nor malformed, nor skipped: not after a failure, a crash between process()
\* and commitOffsets, a rebalance during eachMessage, or a duplicate.
CommittedIsHandled ==
    \A i \in 1..Len(topic) :
        i <= committed => topic[i] \in handled \cup skipped \cup {Malformed}

-----------------------------------------------------------------------------
(* The inductive invariant behind the first two of these properties *)

\* Debezium flushes what it has published and confirms what it has flushed.
PositionsAreOrdered ==
    /\ slot <= produced
    /\ offsetFile # None => slot # None /\ slot <= offsetFile /\ offsetFile <= produced
    /\ reader # None =>
         slot # None /\ slot <= reader /\ offsetFile <= reader /\ reader <= produced

EntriesAreEvents == \A i \in 1..Len(topic) : topic[i] \in 0..produced

\* What the connector has passed is in the topic, unless it is given up.
PassedIsPublished ==
    \A n \in 1..produced \ (handled \cup unseen \cup skipped \cup lost) :
        n > ResumePoint \/ n \in Entries(topic)

\* The first k entries of the topic need no handling any more.
HandledUpTo(k) ==
    /\ k <= Len(topic)
    /\ \A i \in 1..k : topic[i] \in handled \cup skipped \cup {Malformed}

\* The offset, and the position of whoever would commit it, have passed only
\* such entries; a consumer commits no entry that process() has not had.
OffsetsAreHandled ==
    /\ HandledUpTo(committed)
    /\ \A w \in Members :
         /\ owner = w => HandledUpTo(position[w])
         /\ consumer[w] \in {"handling", "handled"} => position[w] < Len(topic)
         /\ consumer[w] = "handled" => topic[position[w] + 1] \in handled \cup {Malformed}

LogIInv ==
    /\ LogTypeOK
    /\ PositionsAreOrdered
    /\ EntriesAreEvents
    /\ PassedIsPublished
    /\ OffsetsAreHandled
=============================================================================
