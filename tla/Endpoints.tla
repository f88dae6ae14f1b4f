------------------------------ MODULE Endpoints ------------------------------
(***************************************************************************)
(* Webhook endpoints of one tenant, and everything that depends on them:   *)
(*                                                                         *)
(*   - owners' requests that create (at most Cap), switch, re-key and      *)
(*     remove endpoints;                                                   *)
(*   - the fan-out of a submission, which lists the active endpoints and   *)
(*     then inserts one delivery for each of them;                         *)
(*   - the workers' senders, which read an endpoint's encrypted secret     *)
(*     from its row and keep decrypted ones in a cache.                    *)
(*                                                                         *)
(* They share rows and, except for the foreign key from deliveries to      *)
(* endpoints, take no locks.  Ids are never used again: they are random.   *)
(***************************************************************************)
EXTENDS Naturals, FiniteSets

CONSTANTS
    Ids,            \* ids of endpoints
    Creators,       \* running requests that create an endpoint
    Submitters,     \* running submissions
    Senders,        \* worker processes
    Cap,            \* 20: endpoints.service.ts:29
    MaxRotations,   \* bound: rotations of one secret
    MaxSubmissions  \* bound: committed submissions, told apart by endpoints

ASSUME CapAssumption == Cap \in Nat \ {0}
ASSUME RequestsAssumption == IsFiniteSet(Creators)
ASSUME BoundAssumption == MaxRotations \in Nat /\ MaxSubmissions \in Nat

VARIABLES
    live,           \* rows of `endpoints`
    removed,        \* ids that have been deleted
    active,         \* endpoints.active
    secret,         \* endpoints.secret_ciphertext: which secret is in it
    creating,       \* creators that have counted and may insert
    open,           \* submitters that have listed the active endpoints
    listed,         \* submitter: what it listed
    todo,           \* submitter: the endpoints its loop has not come to
    made,           \* submitter: deliveries inserted, not committed
    submissions,    \* committed submissions, with the deliveries they made
    stage,          \* sender: "idle", "read" or "sent"
    endpoint,       \* sender: the endpoint of its latest delivery
    cipher,         \* sender: the ciphertext it read
    used,           \* sender: the secret it signed with
    cache           \* sender: decrypted secrets by endpoint

rowVars    == <<live, removed, active, secret>>
fanoutVars == <<open, listed, todo, made, submissions>>
senderVars == <<stage, endpoint, cipher, used, cache>>
vars == <<rowVars, creating, fanoutVars, senderVars>>

Versions == 0..MaxRotations

\* No entry for this endpoint: it was never used, or its five minutes are over.
Missing == MaxRotations + 1

Submissions == [listed : SUBSET Ids, made : SUBSET Ids]

\* Submitter s has ended, and what it had inserted is its own no longer.
Close(s) ==
    /\ open' = open \ {s}
    /\ listed' = [listed EXCEPT ![s] = {}]
    /\ todo' = [todo EXCEPT ![s] = {}]
    /\ made' = [made EXCEPT ![s] = {}]

\* Endpoints with a committed delivery: those a foreign key protects.
Referenced == UNION {s.made : s \in submissions}

-----------------------------------------------------------------------------
Init ==
    /\ live = {}
    /\ removed = {}
    /\ active = {}
    /\ secret = [i \in Ids |-> 0]
    /\ creating = {}
    /\ open = {}
    /\ listed = [s \in Submitters |-> {}]
    /\ todo = [s \in Submitters |-> {}]
    /\ made = [s \in Submitters |-> {}]
    /\ submissions = {}
    /\ stage = [w \in Senders |-> "idle"]
    /\ endpoint \in [Senders -> Ids]
    /\ cipher = [w \in Senders |-> 0]
    /\ used = [w \in Senders |-> 0]
    /\ cache = [w \in Senders |-> [i \in Ids |-> Missing]]

-----------------------------------------------------------------------------
(* EndpointsService *)

\* Operators named Faulty... are what a slip in the code would make of the
\* definition that follows them; nothing refers to them.

FaultyCount(c) ==
    /\ c \notin creating
    /\ Cardinality(live) <= Cap
    /\ creating' = creating \cup {c}
    /\ UNCHANGED <<rowVars, fanoutVars, senderVars>>

\* WHO  EndpointsService.create
\* WHAT counts the committed rows; Cap of them are a 409 and change nothing.
Count(c) ==
    /\ c \notin creating
    /\ Cardinality(live) < Cap
    /\ creating' = creating \cup {c}
    /\ UNCHANGED <<rowVars, fanoutVars, senderVars>>

\* WHO  create and the COMMIT
\* WHAT inserts the row, switched on, with a secret of its own.
Insert(c, i) ==
    /\ c \in creating
    /\ i \notin live \cup removed
    /\ live' = live \cup {i}
    /\ active' = active \cup {i}
    /\ creating' = creating \ {c}
    /\ UNCHANGED <<removed, secret, fanoutVars, senderVars>>

\* WHO  withTenant, on an error, or the API process dying
\* WHAT nothing was inserted.
CreatorAborts(c) ==
    /\ c \in creating
    /\ creating' = creating \ {c}
    /\ UNCHANGED <<rowVars, fanoutVars, senderVars>>

\* WHO  EndpointsService.update
\* WHAT one UPDATE of `active`.  It does not wait for the key-share locks
\*      of a fan-out.  Name and url are left out.
Switch(i) ==
    /\ i \in live
    /\ active' = IF i \in active THEN active \ {i} ELSE active \cup {i}
    /\ UNCHANGED <<live, removed, secret, creating, fanoutVars, senderVars>>

\* WHO  EndpointsService.rotateSecret
\* WHAT one UPDATE with a new secret, encrypted beforehand.
Rotate(i) ==
    /\ i \in live
    /\ secret[i] < MaxRotations
    /\ secret' = [secret EXCEPT ![i] = @ + 1]
    /\ UNCHANGED <<live, removed, active, creating, fanoutVars, senderVars>>

\* WHO  EndpointsService.remove
\* WHAT one DELETE.  It waits for transactions that have inserted a delivery
\*      for the row; a committed delivery makes it fail (409).
Remove(i) ==
    /\ i \in live
    /\ \A s \in open : i \notin made[s]
    /\ i \notin Referenced
    /\ live' = live \ {i}
    /\ removed' = removed \cup {i}
    /\ active' = active \ {i}
    /\ UNCHANGED <<secret, creating, fanoutVars, senderVars>>

-----------------------------------------------------------------------------
(* PublicService.submit: the fan-out *)

\* WHO  PublicService.submit
\* WHAT has inserted the submission and lists the active endpoints.
ListActive(s) ==
    /\ s \notin open
    /\ Cardinality(submissions) < MaxSubmissions
    /\ open' = open \cup {s}
    /\ listed' = [listed EXCEPT ![s] = active]
    /\ todo' = [todo EXCEPT ![s] = active]
    /\ UNCHANGED <<rowVars, creating, made, submissions, senderVars>>

\* An error of one insert is logged and the loop goes on.
FaultyInsertDelivery(s, i) ==
    /\ i \in todo[s]
    /\ todo' = [todo EXCEPT ![s] = @ \ {i}]
    /\ made' = [made EXCEPT ![s] = IF i \in live THEN @ \cup {i} ELSE @]
    /\ UNCHANGED <<rowVars, creating, open, listed, submissions, senderVars>>

\* WHO  the same transaction, insertDeliveryWithOutbox
\* WHAT inserts one delivery and its event.  If the endpoint has been deleted
\*      in the meantime, the foreign key refuses the delivery and the
\*      whole submission rolls back (409).
InsertDelivery(s, i) ==
    /\ i \in todo[s]
    /\ IF i \in live
         THEN /\ todo' = [todo EXCEPT ![s] = @ \ {i}]
              /\ made' = [made EXCEPT ![s] = @ \cup {i}]
              /\ UNCHANGED <<open, listed>>
         ELSE Close(s)
    /\ UNCHANGED <<rowVars, creating, submissions, senderVars>>

\* WHO  the COMMIT of withTenant
\* WHAT the submission and all its deliveries appear.
Commit(s) ==
    /\ s \in open
    /\ todo[s] = {}
    /\ submissions' = submissions \cup {[listed |-> listed[s], made |-> made[s]]}
    /\ Close(s)
    /\ UNCHANGED <<rowVars, creating, senderVars>>

\* WHO  withTenant, on an error, or the API process dying
SubmitterAborts(s) ==
    /\ s \in open
    /\ Close(s)
    /\ UNCHANGED <<rowVars, creating, submissions, senderVars>>

-----------------------------------------------------------------------------
(* DeliveryProcessor.run and WebhookSender *)

\* WHO  DeliveryProcessor.run
\* WHAT reads the endpoint of a delivery, whether it is active or not.  The
\*      `orphan` branch of the code is the case i \notin live.
ReadEndpoint(w, i) ==
    /\ stage[w] = "idle"
    /\ i \in Referenced
    /\ endpoint' = [endpoint EXCEPT ![w] = i]
    /\ cipher' = [cipher EXCEPT ![w] = secret[i]]
    /\ stage' = [stage EXCEPT ![w] = IF i \in live THEN "read" ELSE "idle"]
    /\ UNCHANGED <<rowVars, creating, fanoutVars, used, cache>>

\* The entry is not compared with the ciphertext.
FaultyHit(w) == cache[w][endpoint[w]] # Missing

\* The cached secret is for the ciphertext that was read.
Hit(w) == cache[w][endpoint[w]] = cipher[w]

\* WHO  WebhookSender.send, secretFor
\* WHAT signs with the cached secret, or decrypts what was read and caches
\*      that; then the request goes out.
Send(w) ==
    /\ stage[w] = "read"
    /\ IF Hit(w)
         THEN /\ used' = [used EXCEPT ![w] = cache[w][endpoint[w]]]
              /\ UNCHANGED cache
         ELSE /\ used' = [used EXCEPT ![w] = cipher[w]]
              /\ cache' = [cache EXCEPT ![w][endpoint[w]] = cipher[w]]
    /\ stage' = [stage EXCEPT ![w] = "sent"]
    /\ UNCHANGED <<rowVars, creating, fanoutVars, endpoint, cipher>>

\* The answer has come, or the ten seconds are over.
Finish(w) ==
    /\ stage[w] = "sent"
    /\ stage' = [stage EXCEPT ![w] = "idle"]
    /\ cipher' = [cipher EXCEPT ![w] = 0]
    /\ used' = [used EXCEPT ![w] = 0]
    /\ UNCHANGED <<rowVars, creating, fanoutVars, endpoint, cache>>

\* An entry reaches its expiresAt, or the process restarts with an empty cache.
Expire(w, i) ==
    /\ cache[w][i] # Missing
    /\ cache' = [cache EXCEPT ![w][i] = Missing]
    /\ UNCHANGED <<rowVars, creating, fanoutVars, stage, endpoint, cipher, used>>

-----------------------------------------------------------------------------
OwnerStep ==
    \/ \E c \in Creators : Count(c) \/ CreatorAborts(c) \/ \E i \in Ids : Insert(c, i)
    \/ \E i \in Ids : Switch(i) \/ Rotate(i) \/ Remove(i)

SubmitterStep(s) ==
    \/ ListActive(s)
    \/ \E i \in Ids : InsertDelivery(s, i)
    \/ Commit(s)
    \/ SubmitterAborts(s)

SenderStep(w) ==
    \/ \E i \in Ids : ReadEndpoint(w, i) \/ Expire(w, i)
    \/ Send(w)
    \/ Finish(w)

Next ==
    \/ OwnerStep
    \/ \E s \in Submitters : SubmitterStep(s)
    \/ \E w \in Senders : SenderStep(w)

Spec == Init /\ [][Next]_vars
-----------------------------------------------------------------------------
(* Properties *)

TypeOK ==
    /\ live \subseteq Ids
    /\ removed \subseteq Ids
    /\ active \subseteq live
    /\ secret \in [Ids -> Versions]
    /\ creating \subseteq Creators
    /\ open \subseteq Submitters
    /\ listed \in [Submitters -> SUBSET Ids]
    /\ todo \in [Submitters -> SUBSET Ids]
    /\ made \in [Submitters -> SUBSET Ids]
    /\ submissions \subseteq Submissions
    /\ stage \in [Senders -> {"idle", "read", "sent"}]
    /\ endpoint \in [Senders -> Ids]
    /\ cipher \in [Senders -> Versions]
    /\ used \in [Senders -> Versions]
    /\ cache \in [Senders -> [Ids -> Versions \cup {Missing}]]

\* What count-then-insert does guarantee: the cap is passed by at most the
\* number of creates that run at once, less one.
CapOvershootIsBounded == Cardinality(live) <= Cap - 1 + Cardinality(Creators)

\* No delivery, committed or about to be, belongs to an endpoint that is gone,
\* although fan-outs and removals overlap; so the processor never finds
\* an orphan.
NoOrphanDelivery ==
    /\ Referenced \subseteq live
    /\ \A s \in open : made[s] \subseteq live

\* A submission that counts has a delivery for every endpoint it found
\* active, and no other: the fan-out is all or nothing.
FanOutIsWhole == \A s \in submissions : s.made = s.listed

\* A request is signed with the secret the row held when the processor
\* read it: no cache of any worker brings a rotated secret back.
SignedAsRead == \A w \in Senders : stage[w] = "sent" => used[w] = cipher[w]
-----------------------------------------------------------------------------
(* The inductive invariant behind these properties *)

\* Each open create may still add one row.
RoomIsLeft ==
    /\ IsFiniteSet(live)
    /\ Cardinality(live) + Cardinality(creating) <= Cap - 1 + Cardinality(Creators)

\* A fan-out has made what its loop has come to; a closed one has nothing.
LoopsAreConsistent ==
    \A s \in Submitters :
        /\ listed[s] = made[s] \cup todo[s]
        /\ s \notin open => made[s] = {} /\ todo[s] = {}

IInv ==
    /\ TypeOK
    /\ NoOrphanDelivery
    /\ FanOutIsWhole
    /\ SignedAsRead
    /\ RoomIsLeft
    /\ LoopsAreConsistent
=============================================================================
