-------------------------- MODULE ScaleToZeroProofs --------------------------
(***************************************************************************)
(* Theorems about ScaleToZero, for any set of visitors and any number of   *)
(* failures: the types, and that every switching off of the box is         *)
(* justified.                                                              *)
(***************************************************************************)
EXTENDS ScaleToZero, TLAPS

-----------------------------------------------------------------------------
(* Lemmas *)

\* A fresh stack satisfies IInv.
LEMMA InitInv == Init => IInv
<1> SUFFICES ASSUME Init PROVE IInv
  OBVIOUS
<1>1. /\ gate \in [Visitors -> {"closed", "checking", "up", "down"}]
      /\ token \in [Visitors -> {"none", "valid", "expired"}]
      /\ retry \in [Visitors -> {"none", "asked", "missed"}]
      /\ wake \in [Visitors -> [called : Nat, start : Nat]]
  BY DEF Init
<1>2. failures \in 0..MaxFailures
  BY FailuresAssumption DEF Init
<1>3. writing \in BOOLEAN /\ quiet \in BOOLEAN /\ excused \in BOOLEAN
  BY DEF Init
<1>4. TypeOK
  BY <1>1, <1>2, <1>3 DEF Init, TypeOK
<1>5. StampIsHonest /\ DecisionsAreJustified
  BY DEF Init, StampIsHonest, DecisionsAreJustified
<1> QED
  BY <1>4, <1>5 DEF IInv

\* A failure stays within the bound.
LEMMA FailureIsBounded ==
    ASSUME TypeOK, Fail
    PROVE  failures' \in 0..MaxFailures
BY FailuresAssumption DEF TypeOK, Fail

\* A gate that comes to be down counts its call of the wake function.
LEMMA RequestWakeTypes ==
    ASSUME TypeOK, NEW v \in Visitors, RequestWake(v)
    PROVE  wake' \in [Visitors -> [called : Nat, start : Nat]]
BY DEF TypeOK, RequestWake

\* The steps of the group, the box and the timer keep the types.
LEMMA BoxStepTypes ==
    ASSUME TypeOK, BoxStep
    PROVE  TypeOK'
<1> USE DEF TypeOK, boxVars, gateVars, histVars
<1>1. CASE Launch
  BY <1>1 DEF Launch
<1>2. CASE BootDone
  BY <1>2 DEF BootDone
<1>3. CASE Terminate
  BY <1>3 DEF Terminate, Gone
<1>4. CASE InstanceFails
  <2>1. failures' \in 0..MaxFailures
    BY <1>4, FailureIsBounded DEF InstanceFails
  <2>2. writing' \in BOOLEAN /\ quiet' \in BOOLEAN /\ excused' \in BOOLEAN
    BY <1>4 DEF InstanceFails, Gone
  <2> QED
    BY <1>4, <2>1, <2>2 DEF InstanceFails, Gone
<1>5. CASE QuietTime
  BY <1>5 DEF QuietTime
<1>6. CASE WriteStamp
  <2>1. excused' \in BOOLEAN
    BY <1>6 DEF WriteStamp
  <2> QED
    BY <1>6, <2>1 DEF WriteStamp
<1>7. CASE WriteFails
  <2>1. failures' \in 0..MaxFailures
    BY <1>7, FailureIsBounded DEF WriteFails
  <2>2. writing' \in BOOLEAN /\ excused' \in BOOLEAN
    BY <1>7 DEF WriteFails
  <2> QED
    BY <1>7, <2>1, <2>2 DEF WriteFails
<1>8. CASE Decide
  BY <1>8 DEF Decide
<1>9. CASE GiveUp
  BY <1>9, FailureIsBounded DEF GiveUp
<1>10. CASE SetZero
  BY <1>10 DEF SetZero
<1> QED
  BY <1>1, <1>2, <1>3, <1>4, <1>5, <1>6, <1>7, <1>8, <1>9, <1>10 DEF BoxStep

\* The steps of browsers and of the wake function keep the types.
LEMMA VisitorStepTypes ==
    ASSUME TypeOK, NEW v \in Visitors, VisitorStep(v)
    PROVE  TypeOK'
<1> USE DEF TypeOK, boxVars, gateVars, histVars
<1>1. CASE Open(v)
  BY <1>1 DEF Open
<1>2. CASE Close(v)
  BY <1>2 DEF Close
<1>3. CASE FindUp(v)
  BY <1>3 DEF FindUp
<1>4. CASE FindDown(v)
  BY <1>4, RequestWakeTypes DEF FindDown
<1>5. CASE ProbeTimesOut(v)
  BY <1>5, FailureIsBounded, RequestWakeTypes DEF ProbeTimesOut
<1>6. CASE FindDownInVain(v)
  BY <1>6, FailureIsBounded DEF FindDownInVain
<1>7. CASE Poll(v)
  BY <1>7 DEF Poll
<1>8. CASE Use(v)
  BY <1>8 DEF Use
<1>9. CASE Expire(v)
  BY <1>9 DEF Expire
<1>10. CASE SignIn(v)
  BY <1>10 DEF SignIn
<1>11. CASE Describe(v)
  <2>1. wake' \in [Visitors -> [called : Nat, start : Nat]]
    <3>1. wake[v].called - 1 \in Nat /\ wake[v].start \in Nat /\ wake[v].start + 1 \in Nat
      BY <1>11 DEF Describe
    <3> QED
      BY <1>11, <3>1 DEF Describe
  <2> QED
    BY <1>11, <2>1 DEF Describe
<1>12. CASE SetOne(v)
  <2>1. wake' \in [Visitors -> [called : Nat, start : Nat]]
    BY <1>12 DEF SetOne
  <2> QED
    BY <1>12, <2>1 DEF SetOne
<1>13. CASE Retry(v)
  BY <1>13 DEF Retry
<1>14. CASE RetryFindsUp(v)
  BY <1>14 DEF RetryFindsUp
<1>15. CASE RetryMisses(v)
  BY <1>15, FailureIsBounded DEF RetryMisses
<1>16. CASE RetryFails(v)
  <2>1. wake' \in [Visitors -> [called : Nat, start : Nat]]
    BY <1>16, RequestWakeTypes DEF RetryFails
  <2>2. failures' \in 0..MaxFailures
    BY <1>16, FailureIsBounded DEF RetryFails
  <2> QED
    BY <1>16, <2>1, <2>2 DEF RetryFails
<1> QED
  BY <1>1, <1>2, <1>3, <1>4, <1>5, <1>6, <1>7, <1>8, <1>9, <1>10, <1>11, <1>12, <1>13, <1>14,
     <1>15, <1>16 DEF VisitorStep

\* The steps of the group, the box and the timer leave no old stamp and no
\* decision without a reason.
LEMMA BoxStepReasons ==
    ASSUME TypeOK, StampIsHonest, DecisionsAreJustified, BoxStep
    PROVE  StampIsHonest' /\ DecisionsAreJustified'
<1> USE DEF StampIsHonest, DecisionsAreJustified, boxVars, gateVars, histVars
<1>1. CASE Launch \/ BootDone \/ GiveUp \/ SetZero
  BY <1>1 DEF Launch, BootDone, GiveUp, SetZero
<1>2. CASE Terminate \/ InstanceFails
  BY <1>2 DEF Terminate, InstanceFails, Gone
<1>3. CASE QuietTime
  BY <1>3 DEF QuietTime
<1>4. CASE WriteStamp
  BY <1>4 DEF WriteStamp
<1>5. CASE WriteFails
  BY <1>5 DEF WriteFails
<1>6. CASE Decide
  BY <1>6 DEF Decide
<1> QED
  BY <1>1, <1>2, <1>3, <1>4, <1>5, <1>6 DEF BoxStep

\* Nor do those of browsers and of the wake function: of them only real
\* requests matter, which are stamped.
LEMMA VisitorStepReasons ==
    ASSUME TypeOK, StampIsHonest, DecisionsAreJustified,
           NEW v \in Visitors, VisitorStep(v)
    PROVE  StampIsHonest' /\ DecisionsAreJustified'
<1> USE DEF StampIsHonest, DecisionsAreJustified, boxVars, gateVars, histVars
<1>1. CASE Use(v)
  <2>1. writing'
    BY <1>1 DEF Use, IsStamped
  <2>2. check = "decided" => excused'
    BY <1>1 DEF Use
  <2> QED
    BY <1>1, <2>1, <2>2 DEF Use
<1>2. CASE ~Use(v)
  <2>1. UNCHANGED <<boxVars, histVars>>
    BY <1>2 DEF VisitorStep, Open, Close, FindUp, FindDown, ProbeTimesOut, FindDownInVain,
                Poll, Retry, RetryFindsUp, RetryMisses, RetryFails, Expire, SignIn, Describe, SetOne
  <2> QED
    BY <2>1
<1> QED
  BY <1>1, <1>2

\* Every step keeps IInv.
LEMMA NextInv == IInv /\ [Next]_vars => IInv'
<1> SUFFICES ASSUME IInv, [Next]_vars PROVE IInv'
  OBVIOUS
<1> USE DEF IInv
<1>1. CASE BoxStep
  BY <1>1, BoxStepTypes, BoxStepReasons
<1>2. ASSUME NEW v \in Visitors, VisitorStep(v) PROVE IInv'
  BY <1>2, VisitorStepTypes, VisitorStepReasons
<1>3. CASE UNCHANGED vars
  BY <1>3 DEF vars, boxVars, gateVars, histVars, TypeOK, StampIsHonest, DecisionsAreJustified
<1> QED
  BY <1>1, <1>2, <1>3 DEF Next

-----------------------------------------------------------------------------
(* Theorems *)

\* IInv is an invariant: an old stamp, and a check that has read one, have a reason.
THEOREM InductiveInvariant == Spec => []IInv
BY InitInv, NextInv, PTL DEF Spec

\* The variables have their types; the group never wants more than one box.
THEOREM TypeCorrectness == Spec => []TypeOK
<1>1. IInv => TypeOK
  BY DEF IInv
<1> QED
  BY <1>1, InductiveInvariant, PTL

\* idle-check.sh switches the box off only after half an hour without a real
\* request, but for requests that it could not see.
THEOREM StopsAreAlwaysJustified == Spec => StopsAreJustified
<1>1. ASSUME IInv, Next, desired = 1, desired' = 0
      PROVE  quiet \/ excused
  <2>1. SetZero
    BY <1>1 DEF Next, BoxStep, VisitorStep, Launch, BootDone, Terminate, InstanceFails, Gone, QuietTime,
                WriteStamp, WriteFails, Decide, GiveUp, Open, Close, FindUp, FindDown,
                ProbeTimesOut, FindDownInVain, Poll, Retry, RetryFindsUp, RetryMisses, RetryFails, Use,
                Expire, SignIn, Describe, SetOne
  <2> QED
    BY <1>1, <2>1 DEF SetZero, IInv, DecisionsAreJustified
<1>2. IInv /\ [Next]_vars => [desired = 1 /\ desired' = 0 => quiet \/ excused]_vars
  BY <1>1
<1> QED
  BY <1>2, InductiveInvariant, PTL DEF Spec, StopsAreJustified
=============================================================================
