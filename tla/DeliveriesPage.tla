-------------------------- MODULE DeliveriesPage --------------------------
(***************************************************************************)
(* The Deliveries page of the web application, open in one tab, over the   *)
(* delivery core: the list that it polls every 5 s and the Retry button of *)
(* a row that is shown as failed.  The API lists and retries rows while    *)
(* workers, ticks and other tabs write them.                               *)
(*                                                                         *)
(* The page stays open and visible, its filters as they are at first, and  *)
(* has one retry under way at a time.  The list has fewer rows than the    *)
(* 200 its query is limited to.  The attempts that a row is expanded to    *)
(* are left out.                                                           *)
(***************************************************************************)
EXTENDS Delivery

CONSTANTS
    Ours,           \* the operator that serves this page's retries; the
                    \* others serve other tabs
    Nothing,        \* no answer, request or row
    Pending         \* a fetch that has not been answered

ASSUME PageAssumption == Ours \in Operators

VARIABLES
    cache,          \* the rows of the last answer
    invalid,        \* it has been marked since
    fetch,          \* Pending, or the answer that is on its way
    request,        \* the retry under way: its row and where it stands
    confirmed       \* history: its event when the last retry of a delivery was
                    \* answered with success

listVars == <<cache, invalid, fetch>>
pageVars == <<listVars, request, confirmed>>
allVars  == <<vars, pageVars>>

\* A row as the API answers it; no stands for its payload's event.
Row(d) == [status |-> status[d], count |-> attemptCount[d], no |-> eventNo[d]]

\* DrizzleDeliveryRepository.list: the rows that exist.
Listed == [d \in Deliveries |-> IF status[d] # "none" THEN Row(d) ELSE Nothing]

\* The row of d on the page, if there is one.
ShownRow(d) == IF cache = Nothing THEN Nothing ELSE cache[d]

PageInit ==
    /\ cache = Nothing /\ invalid = FALSE /\ fetch = Pending
    /\ request = Nothing
    /\ confirmed = [d \in Deliveries |-> 0]

-----------------------------------------------------------------------------
(* The list *)

\* Only while a row that is shown is still under way.
FaultyPoll ==
    /\ fetch = Nothing
    /\ \E d \in Deliveries : ShownRow(d) # Nothing /\ ShownRow(d).status \in {"pending", "retrying"}
    /\ fetch' = Pending
    /\ UNCHANGED <<vars, cache, invalid, request, confirmed>>

\* WHO  refetchInterval
Poll ==
    /\ fetch = Nothing
    /\ fetch' = Pending
    /\ UNCHANGED <<vars, cache, invalid, request, confirmed>>

\* WHO  DeliveriesService.list
ServeList ==
    /\ fetch = Pending
    /\ fetch' = Listed
    /\ UNCHANGED <<vars, cache, invalid, request, confirmed>>

\* WHO  react-query
ListArrives ==
    /\ fetch \notin {Nothing, Pending}
    /\ cache' = fetch
    /\ invalid' = FALSE
    /\ fetch' = Nothing
    /\ UNCHANGED <<vars, request, confirmed>>

\* Of the failures that are bounded with the aborts.
Fails == /\ aborts < MaxAborts
         /\ aborts' = aborts + 1
         /\ UNCHANGED <<rowVars, tableVars, lock, workerVars, acked, txVars, sends, lostSends>>

ListFails ==
    /\ fetch # Nothing
    /\ Fails
    /\ fetch' = Nothing
    /\ UNCHANGED <<cache, invalid, request, confirmed>>

-----------------------------------------------------------------------------
(* Retry *)

ShowsRetry(d) == ShownRow(d) # Nothing /\ ShownRow(d).status = "failed"

\* WHO  DeliveryRow
ClickRetry(d) ==
    /\ ShowsRetry(d)
    /\ request = Nothing
    /\ request' = [delivery |-> d, at |-> "sent"]
    /\ UNCHANGED <<vars, listVars, confirmed>>

Asked(d) == request = [delivery |-> d, at |-> "sent"]

\* WHO  DeliveriesService.retry, for this page
ServeRetry ==
    \/ \E d \in Deliveries : Asked(d) /\ LockFailed(Ours, d) /\ UNCHANGED pageVars
    \/ /\ CommitRetry(Ours)
       /\ request' = [request EXCEPT !.at = "ok"]
       /\ UNCHANGED <<listVars, confirmed>>

\* WHAT the transaction, or the request before it got there, fails; or the
\*      answer is lost.
LoseRetry ==
    /\ \/ RetryAborts(Ours)
       \/ request # Nothing /\ retrying[Ours] = {} /\ request.at # "error" /\ Fails
    /\ request' = [request EXCEPT !.at = "error"]
    /\ UNCHANGED <<listVars, confirmed>>

\* WHAT the row lock is waited for; another status is a 409.  Nor is anything
\*      retried beyond the bound on events.
RefuseRetry ==
    \E d \in Deliveries :
        /\ Asked(d) /\ retrying[Ours] = {}
        /\ lock[d] = Free
        /\ ~CanRetry(d) \/ eventNo[d] + MaxAttempts > MaxEvents
        /\ request' = [request EXCEPT !.at = "error"]
        /\ UNCHANGED <<vars, listVars, confirmed>>

\* A fetch that is under way is left to answer.
FaultyInvalidate ==
    /\ invalid' = TRUE
    /\ fetch' = IF fetch = Nothing THEN Pending ELSE fetch

\* invalidateQueries(["deliveries"]) has the list fetched anew, cancelling a
\* poll that is under way.
Invalidate ==
    /\ invalid' = TRUE
    /\ fetch' = Pending

\* WHO  retryMutation: onSuccess, "Retry queued"
RetryQueued ==
    /\ request # Nothing /\ request.at = "ok"
    /\ Invalidate
    /\ confirmed' = [confirmed EXCEPT ![request.delivery] = eventNo[request.delivery]]
    /\ request' = Nothing
    /\ UNCHANGED <<vars, cache>>

\* WHO  retryMutation: onError
RetryFailed ==
    /\ request # Nothing /\ request.at = "error"
    /\ request' = Nothing
    /\ UNCHANGED <<vars, listVars, confirmed>>

-----------------------------------------------------------------------------
\* The core's steps on behalf of anyone but this page.
CoreStep ==
    /\ \/ \E D \in SUBSET Deliveries \ {{}} : Submit(D)
       \/ \E w \in Workers : WorkerStep(w)
       \/ \E d \in Deliveries : RetryFallsDue(d)
       \/ \E t \in Tickers : TickerStep(t)
       \/ \E o \in Operators \ {Ours} : OperatorStep(o)
    /\ UNCHANGED pageVars

PageNext ==
    \/ CoreStep
    \/ Poll \/ ServeList \/ ListArrives \/ ListFails
    \/ \E d \in Deliveries : ClickRetry(d)
    \/ ServeRetry \/ LoseRetry \/ RefuseRetry \/ RetryQueued \/ RetryFailed

PageSpec == Init /\ PageInit /\ [][PageNext]_allVars

\* Requests are answered and answers are handled; the poll goes on.
PageFairness ==
    /\ WF_allVars(Poll) /\ WF_allVars(ServeList) /\ WF_allVars(ListArrives)
    /\ WF_allVars(RefuseRetry) /\ WF_allVars(RetryQueued) /\ WF_allVars(RetryFailed)
    /\ SF_allVars(ServeRetry)

FairPageSpec == PageSpec /\ Fairness /\ PageFairness

-----------------------------------------------------------------------------
(* Properties *)

\* Once "Retry queued" was shown, a list that is up to date as far as the
\* page knows has the delivery as it is since that retry: no poll that was
\* under way brings back the failure, and the Retry button with it.
QueuedRetryIsShown ==
    \A d \in Deliveries :
        ~invalid /\ ShownRow(d) # Nothing => ShownRow(d).no >= confirmed[d]

\* A retry that is asked for is answered, in the end, whatever transaction
\* has the row locked.
RetryIsAnswered ==
    \A d \in Deliveries : Asked(d) ~> ~Asked(d)

\* A delivery that is delivered is shown so, in the end.
SettledIsShown ==
    \A d \in Deliveries :
        status[d] = "delivered" ~> ShownRow(d) # Nothing /\ ShownRow(d).status = "delivered"
-----------------------------------------------------------------------------
\* What QueuedRetryIsShown rests on: nothing later than the row's event was
\* confirmed, and an answer on its way was read since.
ConfirmedInv ==
    /\ QueuedRetryIsShown
    /\ \A d \in Deliveries : confirmed[d] \in Nat /\ confirmed[d] <= eventNo[d]
    /\ fetch \notin {Nothing, Pending} =>
         \A d \in Deliveries : fetch[d] # Nothing => fetch[d].no >= confirmed[d]
=============================================================================
