----------------------------- MODULE ScaleToZero -----------------------------
(***************************************************************************)
(* How the box is switched off when nobody uses it and on again when       *)
(* somebody comes:                                                         *)
(*                                                                         *)
(*   - the API stamps a file on start-up and on real requests;             *)
(*   - a timer on the box reads the file, and sets the desired capacity of *)
(*     the auto scaling group to 0 when the stamp is half an hour old;     *)
(*   - ApiHealthGate, in each visitor's browser, probes /health, calls the *)
(*     wake function each time it comes to find the API down, and polls;   *)
(*   - the wake function reads the desired capacity, and sets it to 1.     *)
(*                                                                         *)
(* Time is abstract: QuietTime is half an hour without a real request.     *)
(***************************************************************************)
EXTENDS Naturals

CONSTANTS
    Visitors,       \* browsers, with one tab each
    MaxCalls,       \* bound: calls of the wake function a browser has under way
    MaxFailures     \* bound: lost wakes, probes, writes and checks; crashes

ASSUME FailuresAssumption == MaxFailures \in Nat
ASSUME CallsAssumption == MaxCalls \in Nat \ {0}

VARIABLES
    desired,        \* desired capacity of the group: 0 or 1
    box,            \* "gone", "booting" or "up" (/health answers)
    stamp,          \* last-activity file: "none", "fresh" or "old" (30 min)
    writing,        \* the API is writing the file
    check,          \* idle-check.sh: "off", or "decided" to switch off
    gate,           \* visitor: "closed", or the gate's "checking", "up", "down"
    retry,          \* visitor's click on "Retry now": "none", its probe is "asked",
                    \* or has "missed" the API and its answer is not handled yet
    token,          \* visitor's access token: "none", "valid" or "expired"
    wake,           \* visitor's calls of the wake function: how many are "called",
                    \* and how many have read a capacity of 0 and are to "start"
    quiet,          \* history: half an hour without a real request
    excused,        \* history: a request that the check could not see
    failures        \* failures so far

boxVars  == <<box, stamp, writing, check>>
histVars == <<quiet, excused>>
gateVars == <<gate, retry>>
vars == <<desired, boxVars, gateVars, token, wake, histVars, failures>>

\* Operators named Faulty... are what a slip in the code would make of the
\* definition that follows them; nothing refers to them.

FaultyIsStamped(kind) == TRUE
FaultyIsStartUpOnly(kind) == FALSE

\* Which requests ActivityInterceptor stamps.
IsStamped(kind) == kind # "health"

FaultyMustStart(capacity) == capacity > 1

\* decideWake: whether to raise the desired capacity.
MustStart(capacity) == capacity < 1

\* A poll that will find the API up is due within 8 s, or a probe ends within 5 s.
AnswerIsDue ==
    \E v \in Visitors : retry[v] # "none" \/ (box = "up" /\ gate[v] = "down")

\* WHO  requestWake
\* WHAT without a token it does not call, and to an expired one API Gateway
\*      answers 401, which is ignored.
RequestWake(v) ==
    \/ /\ token[v] = "valid"
       /\ wake[v].called + wake[v].start < MaxCalls
       /\ wake' = [wake EXCEPT ![v].called = @ + 1]
    \/ token[v] # "valid" /\ UNCHANGED wake

Fail == failures < MaxFailures /\ failures' = failures + 1

-----------------------------------------------------------------------------
Init ==
    /\ desired = 1
    /\ box = "gone"
    /\ stamp = "none"
    /\ writing = FALSE
    /\ check = "off"
    /\ gate = [v \in Visitors |-> "closed"]
    /\ retry = [v \in Visitors |-> "none"]
    /\ token \in [Visitors -> {"none", "valid"}]
    /\ wake = [v \in Visitors |-> [called |-> 0, start |-> 0]]
    /\ quiet = FALSE
    /\ excused = FALSE
    /\ failures = 0

-----------------------------------------------------------------------------
(* The auto scaling group and the box *)

\* WHO  the auto scaling group
Launch ==
    /\ desired = 1 /\ box = "gone"
    /\ box' = "booting"
    /\ UNCHANGED <<desired, stamp, writing, check, gateVars, token, wake, histVars, failures>>

\* WHO  user data of the instance, main.ts
\* WHAT the stack is up; the API stamps its start.
BootDone ==
    /\ box = "booting"
    /\ box' = "up"
    /\ writing' = TRUE
    /\ UNCHANGED <<desired, stamp, check, gateVars, token, wake, histVars, failures>>

\* The instance and its disk go.
Gone ==
    /\ box' = "gone"
    /\ stamp' = "none"
    /\ writing' = FALSE
    /\ check' = "off"
    /\ quiet' = FALSE
    /\ excused' = FALSE
    /\ UNCHANGED <<desired, gateVars, token, wake>>

\* WHO  the auto scaling group
Terminate ==
    /\ desired = 0 /\ box # "gone"
    /\ Gone
    /\ UNCHANGED failures

\* The instance fails; the group will replace it.
InstanceFails ==
    /\ box # "gone"
    /\ Gone
    /\ Fail

\* Half an hour without a real request.  The container's own health checks go
\* on, every 10 s, and so do the polls of open tabs.
QuietTime ==
    /\ box = "up" /\ ~writing /\ check = "off" /\ ~AnswerIsDue
    /\ stamp' = IF stamp = "none" THEN "none" ELSE IF IsStamped("health") THEN "fresh" ELSE "old"
    /\ quiet' = TRUE
    /\ excused' = FALSE
    /\ UNCHANGED <<desired, box, writing, check, gateVars, token, wake, failures>>

\* WHO  stampActivity
\* WHAT writeFile, which no request waits for, ends.
WriteStamp ==
    /\ writing
    /\ writing' = FALSE
    /\ stamp' = "fresh"
    /\ excused' = (check = "decided" /\ excused)
    /\ UNCHANGED <<desired, box, check, gateVars, token, wake, quiet, failures>>

\* WHO  stampActivity
\* WHAT the error is swallowed.  The interceptor tries again at a later request.
WriteFails ==
    /\ writing
    /\ writing' = FALSE
    /\ excused' = TRUE
    /\ Fail
    /\ UNCHANGED <<desired, box, stamp, check, gateVars, token, wake, quiet>>

\* WHO  idle-check.sh, started by the timer
\* WHAT reads the stamp; a missing, unreadable or recent one ends the check.
Decide ==
    /\ box = "up" /\ check = "off"
    /\ stamp = "old"
    /\ check' = "decided"
    /\ excused' = (excused \/ writing)
    /\ UNCHANGED <<desired, box, stamp, writing, gateVars, token, wake, quiet, failures>>

\* WHO  idle-check.sh
\* WHAT the metadata service or the group does not answer: nothing happens
\*      until the timer's next run.
GiveUp ==
    /\ check = "decided"
    /\ check' = "off"
    /\ Fail
    /\ UNCHANGED <<desired, box, stamp, writing, gateVars, token, wake, histVars>>

\* WHO  idle-check.sh
\* WHAT sets the desired capacity to 0, without reading the stamp again.
SetZero ==
    /\ check = "decided"
    /\ check' = "off"
    /\ desired' = 0
    /\ UNCHANGED <<box, stamp, writing, gateVars, token, wake, histVars, failures>>

-----------------------------------------------------------------------------
(* ApiHealthGate and requestWake, in the browser of visitor v *)

\* WHO  the visitor
\* WHAT opens a route behind the gate, which starts to check.
Open(v) ==
    /\ gate[v] = "closed"
    /\ gate' = [gate EXCEPT ![v] = "checking"]
    /\ UNCHANGED <<desired, boxVars, retry, token, wake, histVars, failures>>

\* The visitor leaves; what a click on "Retry now" is answered concerns nobody.
Close(v) ==
    /\ gate[v] # "closed"
    /\ gate' = [gate EXCEPT ![v] = "closed"]
    /\ retry' = [retry EXCEPT ![v] = "none"]
    /\ UNCHANGED <<desired, boxVars, token, wake, histVars, failures>>

\* WHO  ApiHealthGate, checkApiHealth
\* WHAT one probe when the gate appears; the API is up.
FindUp(v) ==
    /\ gate[v] = "checking" /\ box = "up"
    /\ gate' = [gate EXCEPT ![v] = "up"]
    /\ UNCHANGED <<desired, boxVars, retry, token, wake, histVars, failures>>

\* WHO  ApiHealthGate
\* WHAT the API is down: the gate calls the wake function, once, with the
\*      stored token as it is.
FindDown(v) ==
    /\ gate[v] = "checking" /\ box # "up"
    /\ gate' = [gate EXCEPT ![v] = "down"]
    /\ RequestWake(v)
    /\ UNCHANGED <<desired, boxVars, retry, token, histVars, failures>>

\* WHO  checkApiHealth
\* WHAT the API is up but does not answer within 5 s, or the tunnel is
\*      broken: the gate takes it to be down.
ProbeTimesOut(v) ==
    /\ gate[v] = "checking" /\ box = "up"
    /\ gate' = [gate EXCEPT ![v] = "down"]
    /\ RequestWake(v)
    /\ Fail
    /\ UNCHANGED <<desired, boxVars, retry, token, histVars>>

\* WHO  requestWake
\* WHAT as FindDown, but the call does not reach the function or fails there.
FindDownInVain(v) ==
    /\ gate[v] = "checking" /\ box # "up"
    /\ gate' = [gate EXCEPT ![v] = "down"]
    /\ Fail
    /\ UNCHANGED <<desired, boxVars, retry, token, wake, histVars>>

\* WHO  ApiHealthGate: the poll every 8 s
\* WHAT once the API answers the gate opens; otherwise it stays as it is, and
\*      the wake function is not called again.
Poll(v) ==
    /\ gate[v] = "down" /\ box = "up"
    /\ gate' = [gate EXCEPT ![v] = "up"]
    /\ UNCHANGED <<desired, boxVars, retry, token, wake, histVars, failures>>

\* WHO  handleRetry
\* WHAT "Retry now" sends a probe, and is disabled until it is answered.
Retry(v) ==
    /\ gate[v] = "down" /\ retry[v] = "none"
    /\ retry' = [retry EXCEPT ![v] = "asked"]
    /\ UNCHANGED <<desired, boxVars, gate, token, wake, histVars, failures>>

\* WHO  handleRetry
\* WHAT the API answers: the gate opens, if a poll has not opened it.
RetryFindsUp(v) ==
    /\ retry[v] = "asked" /\ box = "up"
    /\ retry' = [retry EXCEPT ![v] = "none"]
    /\ gate' = [gate EXCEPT ![v] = "up"]
    /\ UNCHANGED <<desired, boxVars, token, wake, histVars, failures>>

\* WHO  checkApiHealth
\* WHAT the probe was sent while the API did not answer, or times out.
RetryMisses(v) ==
    /\ retry[v] = "asked"
    /\ retry' = [retry EXCEPT ![v] = "missed"]
    /\ \/ box # "up" /\ UNCHANGED failures
       \/ box = "up" /\ Fail
    /\ UNCHANGED <<desired, boxVars, gate, token, wake, histVars>>

\* WHO  handleRetry
\* WHAT sets the status without looking at it: a gate that a poll has opened
\*      meanwhile is down again, and coming to be down it calls the wake
\*      function once more, in vain perhaps.
RetryFails(v) ==
    /\ retry[v] = "missed"
    /\ retry' = [retry EXCEPT ![v] = "none"]
    /\ gate' = [gate EXCEPT ![v] = "down"]
    /\ \/ gate[v] = "down" /\ UNCHANGED <<wake, failures>>
       \/ gate[v] = "up" /\ RequestWake(v) /\ UNCHANGED failures
       \/ gate[v] = "up" /\ Fail /\ UNCHANGED wake
    /\ UNCHANGED <<desired, boxVars, token, histVars>>

\* WHO  the pages behind the gate, request(), ActivityInterceptor
\* WHAT a real request.  An expired token is refreshed first (the 401 comes
\*      from a guard, before the interceptor).  The interceptor starts to write
\*      the stamp; within 10 s of the last one it does not, and the
\*      stamp is recent.
Use(v) ==
    /\ gate[v] = "up" /\ box = "up"
    /\ token' = [token EXCEPT ![v] = IF @ = "expired" THEN "valid" ELSE @]
    /\ writing' = (writing \/ IsStamped("api"))
    /\ quiet' = FALSE
    /\ excused' = (excused \/ check = "decided")
    /\ UNCHANGED <<desired, box, stamp, check, gateVars, wake, failures>>

\* An hour passes for the access token.
Expire(v) ==
    /\ token[v] = "valid"
    /\ token' = [token EXCEPT ![v] = "expired"]
    /\ UNCHANGED <<desired, boxVars, gateVars, wake, histVars, failures>>

\* WHO  /login and /auth/callback, which need no box
SignIn(v) ==
    /\ gate[v] = "closed" /\ token[v] # "valid"
    /\ token' = [token EXCEPT ![v] = "valid"]
    /\ UNCHANGED <<desired, boxVars, gateVars, wake, histVars, failures>>

-----------------------------------------------------------------------------
(* The wake function *)

\* WHO  handler
\* WHAT describes the group and decides.
Describe(v) ==
    /\ wake[v].called > 0
    /\ wake' = [wake EXCEPT ![v] = [called |-> @.called - 1,
                                   start |-> @.start + (IF MustStart(desired) THEN 1 ELSE 0)]]
    /\ UNCHANGED <<desired, boxVars, gateVars, token, histVars, failures>>

\* WHO  handler
\* WHAT SetDesiredCapacity, whatever it is by now, and a mail about it.
SetOne(v) ==
    /\ wake[v].start > 0
    /\ wake' = [wake EXCEPT ![v].start = @ - 1]
    /\ desired' = 1
    /\ UNCHANGED <<boxVars, gateVars, token, histVars, failures>>

-----------------------------------------------------------------------------
BoxStep ==
    \/ Launch \/ BootDone \/ Terminate \/ InstanceFails
    \/ QuietTime
    \/ WriteStamp \/ WriteFails
    \/ Decide \/ GiveUp \/ SetZero

VisitorStep(v) ==
    \/ Open(v) \/ Close(v)
    \/ FindUp(v) \/ FindDown(v) \/ ProbeTimesOut(v) \/ FindDownInVain(v)
    \/ Poll(v)
    \/ Retry(v) \/ RetryFindsUp(v) \/ RetryMisses(v) \/ RetryFails(v)
    \/ Use(v) \/ Expire(v) \/ SignIn(v)
    \/ Describe(v) \/ SetOne(v)

Next == BoxStep \/ \E v \in Visitors : VisitorStep(v)

Spec == Init /\ [][Next]_vars

\* AWS acts, the timer fires, the poll of an open tab fires and a started function
\* ends.  What visitors do, how a retry ends, time passing and failures are not owed.
Fairness ==
    /\ WF_vars(Launch) /\ WF_vars(BootDone) /\ WF_vars(Terminate)
    /\ WF_vars(WriteStamp)
    /\ WF_vars(Decide) /\ WF_vars(SetZero)
    /\ \A v \in Visitors :
        /\ WF_vars(FindUp(v) \/ FindDown(v))
        /\ WF_vars(Poll(v))
        /\ WF_vars(Describe(v)) /\ WF_vars(SetOne(v))

FairSpec == Spec /\ Fairness
-----------------------------------------------------------------------------
(* Properties *)

TypeOK ==
    /\ desired \in {0, 1}
    /\ box \in {"gone", "booting", "up"}
    /\ stamp \in {"none", "fresh", "old"}
    /\ writing \in BOOLEAN
    /\ check \in {"off", "decided"}
    /\ gate \in [Visitors -> {"closed", "checking", "up", "down"}]
    /\ retry \in [Visitors -> {"none", "asked", "missed"}]
    /\ token \in [Visitors -> {"none", "valid", "expired"}]
    /\ wake \in [Visitors -> [called : Nat, start : Nat]]
    /\ quiet \in BOOLEAN
    /\ excused \in BOOLEAN
    /\ failures \in 0..MaxFailures

\* The box is switched off only after half an hour without a real request, but
\* for requests the check could not see: those that came after it read
\* the stamp, or whose stamp was not written (yet).
StopsAreJustified ==
    [][desired = 1 /\ desired' = 0 => quiet \/ excused]_vars

\* A box that nobody uses is switched off, although its health is asked for
\* all the time.
IdleBoxStops ==
    (box = "up" /\ quiet /\ stamp # "none") ~> (desired = 0 \/ ~quiet)

\* A tab that takes the API to be down and whose call of the wake function is on
\* its way gets to the application, whatever switches the box off or breaks it
\* meanwhile, and whether it was down when the tab was opened or was shut out of
\* the application by a late answer to "Retry now".  Not so if the idle check has,
\* just then, found the box idle or is about to: the function sees a capacity of
\* 1, which becomes 0 afterwards.
WakeRecovers ==
    \A v \in Visitors :
        (/\ wake[v].called > 0
         /\ gate[v] = "down" /\ check = "off" /\ stamp # "old") ~> (gate[v] # "down")

\* api.ts:57-58 and api-health-gate.tsx:55: a failed wake never blocks recovery
\* of a signed-in visitor, since the poll loop drives it regardless.
PollingRecovers ==
    \A v \in Visitors : (gate[v] = "down" /\ token[v] # "none") ~> (gate[v] # "down")
-----------------------------------------------------------------------------
(* The inductive invariant behind StopsAreJustified *)

\* An old stamp has a reason: nobody came, the stamp of who came was lost, or
\* it is being written.
StampIsHonest == stamp = "old" => quiet \/ excused \/ writing

\* A check that has decided was right when it read the stamp, or could not know.
DecisionsAreJustified == check = "decided" => quiet \/ excused

IInv == TypeOK /\ StampIsHonest /\ DecisionsAreJustified
=============================================================================
