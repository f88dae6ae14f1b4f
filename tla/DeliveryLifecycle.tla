------------------------- MODULE DeliveryLifecycle -------------------------
(***************************************************************************)
(* What the pipeline promises about one submission sent to one endpoint,   *)
(* with no outbox, events, workers, transactions or locks: a delivery is   *)
(* attempted while pending, an unsuccessful attempt is rescheduled until   *)
(* MaxAttempts have been made, delivered is final, and only a person takes *)
(* a delivery out of failed, with a fresh budget.  Each attempt is recorded*)
(* exactly once.  Delivery.tla implements this specification.              *)
(***************************************************************************)
EXTENDS Naturals, Sequences

CONSTANTS Deliveries, MaxAttempts

VARIABLES
    status,         \* deliveries.status
    attemptCount,   \* attempts made out of the current budget
    attempts        \* every recorded attempt, oldest first

vars == <<status, attemptCount, attempts>>

Init ==
    /\ status = [d \in Deliveries |-> "none"]
    /\ attemptCount = [d \in Deliveries |-> 0]
    /\ attempts = [d \in Deliveries |-> << >>]

\* A submission creates its deliveries, all together.
Create(D) ==
    /\ \A d \in D : status[d] = "none"
    /\ status' = [d \in Deliveries |-> IF d \in D THEN "pending" ELSE status[d]]
    /\ UNCHANGED <<attemptCount, attempts>>

\* One attempt is made, counted and recorded; ok says whether it succeeded.
Attempt(d, ok) ==
    LET n == attemptCount[d] + 1
    IN  /\ status[d] = "pending"
        /\ attemptCount' = [attemptCount EXCEPT ![d] = n]
        /\ attempts' = [attempts EXCEPT ![d] = Append(@, [no |-> n, ok |-> ok])]
        /\ status' = [status EXCEPT ![d] =
                         IF ok THEN "delivered"
                         ELSE IF n >= MaxAttempts THEN "failed" ELSE "retrying"]

\* The waiting time of some retries is over.
Reschedule(D) ==
    /\ \A d \in D : status[d] = "retrying"
    /\ status' = [d \in Deliveries |-> IF d \in D THEN "pending" ELSE status[d]]
    /\ UNCHANGED <<attemptCount, attempts>>

\* A person retries a failed delivery.
Retry(d) ==
    /\ status[d] = "failed"
    /\ status' = [status EXCEPT ![d] = "pending"]
    /\ attemptCount' = [attemptCount EXCEPT ![d] = 0]
    /\ UNCHANGED attempts

Next ==
    \/ \E D \in SUBSET Deliveries : Create(D) \/ Reschedule(D)
    \/ \E d \in Deliveries : Retry(d) \/ \E ok \in BOOLEAN : Attempt(d, ok)

Spec == Init /\ [][Next]_vars

\* A pending delivery is attempted and a retrying one is rescheduled.
Fairness ==
    \A d \in Deliveries :
        /\ WF_vars(\E ok \in BOOLEAN : Attempt(d, ok))
        /\ WF_vars(\E D \in SUBSET Deliveries : d \in D /\ Reschedule(D))

FairSpec == Spec /\ Fairness
=============================================================================
