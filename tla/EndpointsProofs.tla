--------------------------- MODULE EndpointsProofs ---------------------------
(***************************************************************************)
(* Theorems about Endpoints, for any cap, any ids, any finite set of       *)
(* concurrent creates and any bounds.                                      *)
(***************************************************************************)
EXTENDS Endpoints, FiniteSetTheorems, TLAPS

-----------------------------------------------------------------------------
(* Lemmas *)

\* Running creates are finitely many.
LEMMA CreatingIsFinite == TypeOK => IsFiniteSet(creating) /\ Cardinality(creating) \in Nat
BY RequestsAssumption, FS_Subset, FS_CardinalityType DEF TypeOK

\* The number of creates that may run is a number.
LEMMA CreatorsAreCounted == Cardinality(Creators) \in Nat
BY RequestsAssumption, FS_CardinalityType

\* What is said of fan-outs survives a step that keeps fan-outs and rows.
LEMMA FanOutsKept ==
    ASSUME NoOrphanDelivery, FanOutIsWhole, LoopsAreConsistent,
           UNCHANGED fanoutVars, live \subseteq live'
    PROVE  NoOrphanDelivery' /\ FanOutIsWhole' /\ LoopsAreConsistent'
<1> USE DEF fanoutVars
<1>1. Referenced' = Referenced
  BY DEF Referenced
<1>2. NoOrphanDelivery'
  BY <1>1 DEF NoOrphanDelivery
<1> QED
  BY <1>2 DEF FanOutIsWhole, LoopsAreConsistent

\* Nothing that adds neither rows nor creates takes room.
LEMMA RoomKept ==
    ASSUME RoomIsLeft, UNCHANGED <<live, creating>>
    PROVE  RoomIsLeft'
BY DEF RoomIsLeft

\* The empty tables satisfy IInv.
LEMMA InitInv == Init => IInv
<1> SUFFICES ASSUME Init PROVE IInv
  OBVIOUS
<1>1. TypeOK
  BY BoundAssumption DEF Init, TypeOK, Versions, Missing, Submissions
<1>2. NoOrphanDelivery /\ FanOutIsWhole /\ SignedAsRead /\ LoopsAreConsistent
  BY DEF Init, NoOrphanDelivery, Referenced, FanOutIsWhole, SignedAsRead, LoopsAreConsistent
<1>3. RoomIsLeft
  BY CapAssumption, CreatorsAreCounted, FS_EmptySet DEF Init, RoomIsLeft
<1> QED
  BY <1>1, <1>2, <1>3 DEF IInv

\* IInv is kept when a create has counted: it found a row free.
LEMMA CountInv ==
    ASSUME IInv, NEW c \in Creators, Count(c)
    PROVE  IInv'
<1> USE DEF IInv, Count, rowVars, senderVars
<1>1. TypeOK'
  BY DEF TypeOK, fanoutVars
<1>2. NoOrphanDelivery' /\ FanOutIsWhole' /\ LoopsAreConsistent'
  BY FanOutsKept
<1>3. SignedAsRead'
  BY DEF SignedAsRead
<1>4. RoomIsLeft'
  <2>1. IsFiniteSet(creating') /\ creating' \subseteq Creators
    BY <1>1, CreatingIsFinite, FS_AddElement DEF TypeOK
  <2>2. Cardinality(creating') <= Cardinality(Creators)
    BY <2>1, RequestsAssumption, FS_Subset
  <2>3. Cardinality(live) \in Nat /\ Cardinality(creating') \in Nat
    BY <2>1, FS_CardinalityType DEF RoomIsLeft
  <2>4. Cardinality(live) <= Cap - 1
    BY <2>3, CapAssumption
  <2> QED
    BY <2>2, <2>3, <2>4, CapAssumption, CreatorsAreCounted DEF RoomIsLeft
<1> QED
  BY <1>1, <1>2, <1>3, <1>4

\* IInv is kept when a create inserts its row.
LEMMA InsertInv ==
    ASSUME IInv, NEW c \in Creators, NEW i \in Ids, Insert(c, i)
    PROVE  IInv'
<1> USE DEF IInv, Insert, senderVars
<1>1. TypeOK'
  BY DEF TypeOK, fanoutVars
<1>2. NoOrphanDelivery' /\ FanOutIsWhole' /\ LoopsAreConsistent'
  BY FanOutsKept
<1>3. SignedAsRead'
  BY DEF SignedAsRead
<1>4. RoomIsLeft'
  <2>1. IsFiniteSet(live') /\ Cardinality(live') = Cardinality(live) + 1
    BY FS_AddElement DEF RoomIsLeft
  <2>2. Cardinality(creating') = Cardinality(creating) - 1
    BY CreatingIsFinite, FS_RemoveElement
  <2>3. Cardinality(live) \in Nat /\ Cardinality(creating) \in Nat
    BY CreatingIsFinite, FS_CardinalityType DEF RoomIsLeft
  <2> QED
    BY <2>1, <2>2, <2>3, CapAssumption, CreatorsAreCounted DEF RoomIsLeft
<1> QED
  BY <1>1, <1>2, <1>3, <1>4

\* IInv is kept when a create ends without inserting.
LEMMA CreatorAbortsInv ==
    ASSUME IInv, NEW c \in Creators, CreatorAborts(c)
    PROVE  IInv'
<1> USE DEF IInv, CreatorAborts, rowVars, senderVars
<1>1. TypeOK'
  BY DEF TypeOK, fanoutVars
<1>2. NoOrphanDelivery' /\ FanOutIsWhole' /\ LoopsAreConsistent'
  BY FanOutsKept
<1>3. SignedAsRead'
  BY DEF SignedAsRead
<1>4. RoomIsLeft'
  <2>1. Cardinality(creating') = Cardinality(creating) - 1
    BY CreatingIsFinite, FS_RemoveElement
  <2>2. Cardinality(live) \in Nat /\ Cardinality(creating) \in Nat
    BY CreatingIsFinite, FS_CardinalityType DEF RoomIsLeft
  <2> QED
    BY <2>1, <2>2, CapAssumption, CreatorsAreCounted DEF RoomIsLeft
<1> QED
  BY <1>1, <1>2, <1>3, <1>4

\* IInv is kept when an endpoint is switched or gets a new secret.
LEMMA UpdateInv ==
    ASSUME IInv, NEW i \in Ids, Switch(i) \/ Rotate(i)
    PROVE  IInv'
<1> USE DEF IInv, Switch, Rotate, senderVars
<1>1. TypeOK'
  <2>1. CASE Switch(i)
    <3>1. active' \subseteq live
      BY <2>1 DEF TypeOK
    <3> QED
      BY <2>1, <3>1 DEF TypeOK, fanoutVars
  <2>2. CASE Rotate(i)
    <3>1. secret[i] + 1 \in Versions
      BY <2>2, BoundAssumption DEF TypeOK, Versions
    <3> QED
      BY <2>2, <3>1 DEF TypeOK, fanoutVars
  <2> QED
    BY <2>1, <2>2
<1>2. NoOrphanDelivery' /\ FanOutIsWhole' /\ LoopsAreConsistent'
  BY FanOutsKept
<1>3. SignedAsRead'
  BY DEF SignedAsRead
<1>4. RoomIsLeft'
  BY RoomKept
<1> QED
  BY <1>1, <1>2, <1>3, <1>4

\* IInv is kept when an endpoint is removed: nothing refers to it.
LEMMA RemoveInv ==
    ASSUME IInv, NEW i \in Ids, Remove(i)
    PROVE  IInv'
<1> USE DEF IInv, Remove, fanoutVars, senderVars
<1>1. TypeOK'
  BY DEF TypeOK
<1>2. NoOrphanDelivery'
  <2>1. Referenced' = Referenced
    BY DEF Referenced
  <2> QED
    BY <2>1 DEF NoOrphanDelivery
<1>3. FanOutIsWhole' /\ LoopsAreConsistent' /\ SignedAsRead'
  BY DEF FanOutIsWhole, LoopsAreConsistent, SignedAsRead
<1>4. RoomIsLeft'
  <2>1. IsFiniteSet(live') /\ Cardinality(live') = Cardinality(live) - 1
    BY FS_RemoveElement DEF RoomIsLeft
  <2>2. Cardinality(live) \in Nat /\ Cardinality(creating) \in Nat
    BY CreatingIsFinite, FS_CardinalityType DEF RoomIsLeft
  <2> QED
    BY <2>1, <2>2, CapAssumption, CreatorsAreCounted DEF RoomIsLeft
<1> QED
  BY <1>1, <1>2, <1>3, <1>4

\* IInv is kept by a fan-out.
LEMMA SubmitterInv ==
    ASSUME IInv, NEW s \in Submitters, SubmitterStep(s)
    PROVE  IInv'
<1> USE DEF IInv, rowVars, senderVars
<1>1. UNCHANGED <<live, removed, active, secret, creating, stage, endpoint, cipher, used, cache>>
  BY DEF SubmitterStep, ListActive, InsertDelivery, Commit, SubmitterAborts
<1>2. RoomIsLeft' /\ SignedAsRead'
  BY <1>1, RoomKept DEF SignedAsRead
<1>3. ASSUME UNCHANGED submissions
      PROVE  Referenced' = Referenced
  BY <1>3 DEF Referenced
<1>4. TypeOK' /\ NoOrphanDelivery' /\ FanOutIsWhole' /\ LoopsAreConsistent'
  <2> USE DEF TypeOK, NoOrphanDelivery, FanOutIsWhole, LoopsAreConsistent
  <2>1. CASE ListActive(s)
    <3>1. TypeOK' /\ FanOutIsWhole' /\ LoopsAreConsistent'
      BY <1>1, <2>1 DEF ListActive
    <3>2. NoOrphanDelivery'
      BY <1>1, <1>3, <2>1 DEF ListActive
    <3> QED
      BY <3>1, <3>2
  <2>2. ASSUME NEW i \in Ids, InsertDelivery(s, i)
        PROVE  TypeOK' /\ NoOrphanDelivery' /\ FanOutIsWhole' /\ LoopsAreConsistent'
    <3> USE <1>1, <2>2 DEF InsertDelivery, Close
    <3>1. TypeOK'
      <4>1. CASE i \in live
        BY <4>1
      <4>2. CASE i \notin live
        BY <4>2
      <4> QED
        BY <4>1, <4>2
    <3>2. NoOrphanDelivery'
      BY <1>3
    <3>3. FanOutIsWhole'
      OBVIOUS
    <3>4. LoopsAreConsistent'
      OBVIOUS
    <3> QED
      BY <3>1, <3>2, <3>3, <3>4
  <2>3. CASE Commit(s)
    <3>1. [listed |-> listed[s], made |-> made[s]] \in Submissions
      BY DEF Submissions
    <3>2. TypeOK' /\ LoopsAreConsistent'
      BY <1>1, <2>3, <3>1 DEF Commit, Close
    <3>3. Referenced' \subseteq Referenced \cup made[s]
      BY <2>3 DEF Commit, Referenced
    <3>4. NoOrphanDelivery'
      BY <1>1, <2>3, <3>3 DEF Commit, Close
    <3>5. made[s] = listed[s]
      BY <2>3 DEF Commit
    <3>6. FanOutIsWhole'
      BY <2>3, <3>5 DEF Commit
    <3> QED
      BY <3>2, <3>4, <3>6
  <2>4. CASE SubmitterAborts(s)
    BY <1>1, <1>3, <2>4 DEF SubmitterAborts, Close
  <2> QED
    BY <2>1, <2>2, <2>3, <2>4 DEF SubmitterStep
<1> QED
  BY <1>2, <1>4

\* IInv is kept by a sender.
LEMMA SenderInv ==
    ASSUME IInv, NEW w \in Senders, SenderStep(w)
    PROVE  IInv'
<1> USE DEF IInv, rowVars
<1>1. UNCHANGED <<live, removed, active, secret, creating, fanoutVars>>
  BY DEF SenderStep, ReadEndpoint, Send, Finish, Expire
<1>2. NoOrphanDelivery' /\ FanOutIsWhole' /\ LoopsAreConsistent'
  BY <1>1, FanOutsKept
<1>3. RoomIsLeft'
  BY <1>1, RoomKept
<1>4. TypeOK' /\ SignedAsRead'
  <2> USE DEF TypeOK, SignedAsRead, Versions, fanoutVars
  <2>1. ASSUME NEW i \in Ids, ReadEndpoint(w, i)
        PROVE  TypeOK' /\ SignedAsRead'
    BY <1>1, <2>1 DEF ReadEndpoint
  <2>2. ASSUME NEW i \in Ids, Expire(w, i)
        PROVE  TypeOK' /\ SignedAsRead'
    BY <1>1, <2>2 DEF Expire
  <2>3. CASE Send(w)
    <3>1. \/ Hit(w) /\ used' = [used EXCEPT ![w] = cache[w][endpoint[w]]] /\ UNCHANGED cache
          \/ /\ used' = [used EXCEPT ![w] = cipher[w]]
             /\ cache' = [cache EXCEPT ![w][endpoint[w]] = cipher[w]]
      BY <2>3 DEF Send
    <3>2. used' = [used EXCEPT ![w] = cipher[w]]
      BY <3>1 DEF Hit
    <3>3. cache' \in [Senders -> [Ids -> Versions \cup {Missing}]]
      <4>1. [cache[w] EXCEPT ![endpoint[w]] = cipher[w]] \in [Ids -> Versions \cup {Missing}]
        OBVIOUS
      <4>2. \/ UNCHANGED cache
            \/ cache' = [cache EXCEPT ![w] = [cache[w] EXCEPT ![endpoint[w]] = cipher[w]]]
        BY <3>1
      <4> QED
        BY <4>1, <4>2
    <3>4. UNCHANGED <<cipher, endpoint>> /\ stage' = [stage EXCEPT ![w] = "sent"]
      BY <2>3 DEF Send
    <3> QED
      BY <1>1, <3>2, <3>3, <3>4
  <2>4. CASE Finish(w)
    BY <1>1, <2>4, BoundAssumption DEF Finish
  <2> QED
    BY <2>1, <2>2, <2>3, <2>4 DEF SenderStep
<1> QED
  BY <1>1, <1>2, <1>3, <1>4

\* Every step keeps IInv.
LEMMA NextInv == IInv /\ [Next]_vars => IInv'
<1> SUFFICES ASSUME IInv, [Next]_vars PROVE IInv'
  OBVIOUS
<1>1. CASE OwnerStep
  BY <1>1, CountInv, InsertInv, CreatorAbortsInv, UpdateInv, RemoveInv DEF OwnerStep
<1>2. ASSUME NEW s \in Submitters, SubmitterStep(s) PROVE IInv'
  BY <1>2, SubmitterInv
<1>3. ASSUME NEW w \in Senders, SenderStep(w) PROVE IInv'
  BY <1>3, SenderInv
<1>4. CASE UNCHANGED vars
  BY <1>4 DEF vars, rowVars, fanoutVars, senderVars, IInv, TypeOK, NoOrphanDelivery, Referenced,
     FanOutIsWhole, SignedAsRead, RoomIsLeft, LoopsAreConsistent
<1> QED
  BY <1>1, <1>2, <1>3, <1>4 DEF Next

-----------------------------------------------------------------------------
(* Theorems *)

\* IInv holds in every reachable state.
THEOREM InductiveInvariant == Spec => []IInv
BY InitInv, NextInv, PTL DEF Spec

\* However many creates overlap, the cap is passed by less than their number.
THEOREM OvershootIsBounded == Spec => []CapOvershootIsBounded
<1>1. IInv => CapOvershootIsBounded
  <2> SUFFICES ASSUME IInv PROVE CapOvershootIsBounded
    OBVIOUS
  <2>1. Cardinality(live) \in Nat /\ Cardinality(creating) \in Nat
    BY CreatingIsFinite, FS_CardinalityType DEF IInv, RoomIsLeft
  <2> QED
    BY <2>1, CapAssumption, CreatorsAreCounted DEF IInv, RoomIsLeft, CapOvershootIsBounded
<1> QED
  BY <1>1, InductiveInvariant, PTL

\* Removal and fan-out never leave a delivery without its endpoint.
THEOREM NoOrphans == Spec => []NoOrphanDelivery
<1>1. IInv => NoOrphanDelivery
  BY DEF IInv
<1> QED
  BY <1>1, InductiveInvariant, PTL

\* A committed submission has all its deliveries.
THEOREM WholeFanOut == Spec => []FanOutIsWhole
<1>1. IInv => FanOutIsWhole
  BY DEF IInv
<1> QED
  BY <1>1, InductiveInvariant, PTL

\* No cache brings a rotated secret back.
THEOREM SignaturesAreCurrent == Spec => []SignedAsRead
<1>1. IInv => SignedAsRead
  BY DEF IInv
<1> QED
  BY <1>1, InductiveInvariant, PTL
=============================================================================
