---------------------------- MODULE TenancyProofs ----------------------------
(***************************************************************************)
(* Theorems about Tenancy, for any subjects, requests, forms and failures  *)
(* and a pool of any size.                                                 *)
(***************************************************************************)
EXTENDS Tenancy, FiniteSetTheorems, TLAPS

-----------------------------------------------------------------------------
(* Lemmas *)

\* A step that changes neither rows of tenants nor who requests are served
\* as, but may end requests, keeps what is said of tenants.
LEMMA TenantsKept ==
    ASSUME OneTenantPerSubject, subject' = subject,
           \A r \in Requests : \/ caller'[r] = None
                               \/ tenant'[r] = None
                               \/ caller'[r] = caller[r] /\ tenant'[r] = tenant[r]
    PROVE  OneTenantPerSubject'
BY DEF OneTenantPerSubject

\* The empty tables and the fresh pool satisfy IInv.
LEMMA InitInv == Init => IInv
BY NamesAssumption, BoundAssumption
   DEF Init, IInv, TypeOK, Stages, OneTenantPerSubject, FreeConnectionsAreClean, Free,
       Anonymous, RequestsAreConsistent, ConnectionsAreConsistent, RowsAreConsistent

\* IInv is kept when a request arrives.
LEMMA ArrivalInv ==
    ASSUME IInv, NEW r \in Requests, Visit(r) \/ \E s \in Subjects : Arrive(r, s)
    PROVE  IInv'
<1> USE DEF IInv, Arrive, Visit, Goto, tenantVars, formVars, connVars
<1>1. TypeOK'
  BY DEF TypeOK, Stages
<1>2. OneTenantPerSubject'
  <2>1. tenant[r] = None
    BY DEF RequestsAreConsistent
  <2> QED
    BY <2>1, TenantsKept DEF TypeOK
<1>3. FreeConnectionsAreClean' /\ RowsAreConsistent'
  BY DEF FreeConnectionsAreClean, Free, Anonymous, RowsAreConsistent
<1>4. RequestsAreConsistent'
  BY NamesAssumption DEF RequestsAreConsistent, TypeOK
<1>5. ConnectionsAreConsistent'
  BY DEF ConnectionsAreConsistent, Free, TypeOK
<1> QED
  BY <1>1, <1>2, <1>3, <1>4, <1>5

\* A row the guard's query found is the subject's.
LEMMA FoundIsTheSubjects ==
    ASSUME NEW s, Cardinality(RowsOf(s)) = 1
    PROVE  (CHOOSE i \in RowsOf(s) : TRUE) \in RowsOf(s)
<1>1. RowsOf(s) # {}
  BY FS_EmptySet
<1> QED
  BY <1>1

\* IInv is kept by the guard's first query.
LEMMA FindInv ==
    ASSUME IInv, NEW r \in Requests, Find(r)
    PROVE  IInv'
<1> DEFINE found == RowsOf(caller[r])
<1> USE DEF IInv, Goto, tenantVars, formVars, connVars
<1>1. CASE Cardinality(found) = 1
  <2> DEFINE i == CHOOSE j \in found : TRUE
  <2>1. i \in Ids /\ subject[i] = caller[r]
    BY <1>1, FoundIsTheSubjects DEF RowsOf
  <2>2. tenant' = [tenant EXCEPT ![r] = i] /\ stage' = [stage EXCEPT ![r] = "serve"]
    BY <1>1 DEF Find
  <2> HIDE DEF i
  <2> USE DEF Find
  <2>3. TypeOK'
    BY <2>1, <2>2 DEF TypeOK, Stages
  <2>4. OneTenantPerSubject'
    BY <2>1, <2>2 DEF OneTenantPerSubject, TypeOK
  <2>5. FreeConnectionsAreClean' /\ RowsAreConsistent'
    BY DEF FreeConnectionsAreClean, Free, Anonymous, RowsAreConsistent
  <2>6. RequestsAreConsistent'
    BY <2>1, <2>2, NamesAssumption DEF RequestsAreConsistent, TypeOK
  <2>7. ConnectionsAreConsistent'
    BY <2>2 DEF ConnectionsAreConsistent, Free, TypeOK
  <2> QED
    BY <2>3, <2>4, <2>5, <2>6, <2>7
<1>2. CASE Cardinality(found) # 1
  <2>1. tenant' = tenant /\ stage' = [stage EXCEPT ![r] = "provision"]
    BY <1>2 DEF Find
  <2> USE DEF Find
  <2>2. TypeOK'
    BY <2>1 DEF TypeOK, Stages
  <2>3. OneTenantPerSubject'
    BY <2>1 DEF OneTenantPerSubject
  <2>4. FreeConnectionsAreClean' /\ RowsAreConsistent'
    BY DEF FreeConnectionsAreClean, Free, Anonymous, RowsAreConsistent
  <2>5. RequestsAreConsistent'
    BY <2>1 DEF RequestsAreConsistent, TypeOK
  <2>6. ConnectionsAreConsistent'
    BY <2>1 DEF ConnectionsAreConsistent, Free, TypeOK
  <2> QED
    BY <2>2, <2>3, <2>4, <2>5, <2>6
<1> QED
  BY <1>1, <1>2

\* IInv is kept when a tenant is provisioned, or found to be there already.
LEMMA ProvisionInv ==
    ASSUME IInv, NEW r \in Requests, NEW i \in Ids, Provision(r, i)
    PROVE  IInv'
<1> USE DEF IInv, Provision, Goto, formVars, connVars
<1>1. caller[r] \in Subjects /\ caller[r] # None /\ tenant[r] = None
  BY DEF RequestsAreConsistent, TypeOK
<1>2. TypeOK'
  BY <1>1 DEF TypeOK, Stages
<1>3. OneTenantPerSubject'
  <2>1. ASSUME NEW j \in Ids, subject[j] = caller[r] PROVE j = i
    BY <2>1, <1>1 DEF RowsOf, OneTenantPerSubject
  <2>2. \A j \in Ids : subject'[j] = IF j = i THEN caller[r] ELSE subject[j]
    BY DEF TypeOK
  <2>3. \A j \in Ids : subject[j] # None => subject'[j] = subject[j]
    BY <2>2 DEF RowsOf
  <2>4. \A j, k \in Ids : subject'[j] # None /\ subject'[j] = subject'[k] => j = k
    BY <2>1, <2>2 DEF OneTenantPerSubject
  <2>5. ASSUME NEW q \in Requests, caller'[q] # None, tenant'[q] # None
        PROVE  subject'[tenant'[q]] = caller'[q]
    <3>1. CASE q = r
      BY <3>1, <2>2 DEF TypeOK
    <3>2. CASE q # r
      <4>1. tenant[q] \in Ids /\ subject[tenant[q]] = caller[q] /\ caller[q] # None
        BY <3>2, <2>5 DEF OneTenantPerSubject, TypeOK
      <4> QED
        BY <3>2, <4>1, <2>3 DEF TypeOK
    <3> QED
      BY <3>1, <3>2
  <2> QED
    BY <2>4, <2>5 DEF OneTenantPerSubject
<1>4. FreeConnectionsAreClean'
  BY DEF FreeConnectionsAreClean, Free, Anonymous
<1>5. RequestsAreConsistent'
  BY <1>1, NamesAssumption DEF RequestsAreConsistent, TypeOK
<1>6. ConnectionsAreConsistent'
  BY DEF ConnectionsAreConsistent, Free, TypeOK
<1>7. RowsAreConsistent'
  BY <1>1, NamesAssumption DEF RowsAreConsistent, TypeOK
<1> QED
  BY <1>2, <1>3, <1>4, <1>5, <1>6, <1>7

\* IInv is kept by PUT /me and GET /me.
LEMMA ServeMeInv ==
    ASSUME IInv, NEW r \in Requests, ServeMe(r)
    PROVE  IInv'
<1> USE DEF IInv, ServeMe, End, Goto, formVars, connVars
<1>1. tenant[r] \in Ids /\ subject[tenant[r]] = caller[r] /\ caller[r] # None
  BY DEF RequestsAreConsistent, OneTenantPerSubject, TypeOK
<1>2. TypeOK'
  BY DEF TypeOK, Stages
<1>3. OneTenantPerSubject'
  BY TenantsKept DEF TypeOK
<1>4. FreeConnectionsAreClean'
  BY DEF FreeConnectionsAreClean, Free, Anonymous
<1>5. RequestsAreConsistent'
  BY DEF RequestsAreConsistent, TypeOK
<1>6. ConnectionsAreConsistent'
  BY DEF ConnectionsAreConsistent, Free, TypeOK
<1>7. RowsAreConsistent'
  BY <1>1 DEF RowsAreConsistent, TypeOK
<1> QED
  BY <1>2, <1>3, <1>4, <1>5, <1>6, <1>7

\* IInv is kept by a visitor's query.
LEMMA LookInv ==
    ASSUME IInv, NEW r \in Requests, Look(r)
    PROVE  IInv'
<1> USE DEF IInv, Look, Goto, End, tenantVars, formVars, connVars
<1>1. caller[r] = None
  BY DEF RequestsAreConsistent
<1>2. TypeOK'
  BY DEF TypeOK, Stages, Readable
<1>3. OneTenantPerSubject'
  BY <1>1, TenantsKept DEF TypeOK
<1>4. FreeConnectionsAreClean'
  BY DEF FreeConnectionsAreClean, Free, Anonymous
<1>5. RequestsAreConsistent'
  BY <1>1 DEF RequestsAreConsistent, TypeOK, Readable
<1>6. ConnectionsAreConsistent'
  BY DEF ConnectionsAreConsistent, Free, TypeOK
<1>7. RowsAreConsistent'
  BY DEF RowsAreConsistent, TypeOK
<1> QED
  BY <1>2, <1>3, <1>4, <1>5, <1>6, <1>7

-----------------------------------------------------------------------------
(* withTenant, step by step *)

\* IInv is kept when a connection is checked out.
LEMMA ConnectInv ==
    ASSUME IInv, NEW r \in Requests, NEW c \in Conns, Connect(r, c)
    PROVE  IInv'
<1> USE DEF IInv, Connect, Goto, tenantVars, formVars
<1>1. TypeOK'
  BY DEF TypeOK, Stages
<1>2. OneTenantPerSubject'
  BY TenantsKept DEF TypeOK
<1>3. FreeConnectionsAreClean'
  BY NamesAssumption DEF FreeConnectionsAreClean, Free, Anonymous, TypeOK
<1>4. RequestsAreConsistent'
  BY DEF RequestsAreConsistent, TypeOK
<1>5. ConnectionsAreConsistent'
  BY NamesAssumption DEF ConnectionsAreConsistent, Free, TypeOK
<1>6. RowsAreConsistent'
  BY DEF RowsAreConsistent
<1> QED
  BY <1>1, <1>2, <1>3, <1>4, <1>5, <1>6

\* IInv is kept by BEGIN and set_config.
LEMMA BeginInv ==
    ASSUME IInv, NEW r \in Requests, NEW c \in Conns, Begin(r, c) \/ SetTenant(r, c)
    PROVE  IInv'
<1> USE DEF IInv, Begin, SetTenant, Goto, tenantVars, formVars
<1>1. tenant[r] \in Ids
  BY DEF RequestsAreConsistent, TypeOK
<1>2. TypeOK'
  BY <1>1 DEF TypeOK, Stages
<1>3. OneTenantPerSubject'
  BY TenantsKept DEF TypeOK
<1>4. FreeConnectionsAreClean'
  BY NamesAssumption DEF FreeConnectionsAreClean, Free, Anonymous, TypeOK
<1>5. RequestsAreConsistent'
  BY DEF RequestsAreConsistent, TypeOK
<1>6. ConnectionsAreConsistent'
  BY NamesAssumption DEF ConnectionsAreConsistent, Free, TypeOK
<1>7. RowsAreConsistent'
  BY DEF RowsAreConsistent
<1> QED
  BY <1>2, <1>3, <1>4, <1>5, <1>6, <1>7

\* IInv is kept by the handler's queries and by a failing step.
LEMMA WorkInv ==
    ASSUME IInv, NEW r \in Requests,
           \/ StepFails(r)
           \/ \E c \in Conns : \/ ListRows(r, c)
                              \/ \E f \in Forms : InsertRow(r, c, f) \/ UpdateRow(r, c, f)
    PROVE  IInv'
<1> USE DEF IInv, StepFails, ListRows, InsertRow, UpdateRow, Goto, Fail, tenantVars,
            formVars, connVars
<1>1. stage[r] \in {"begin", "set", "work", "commit"}
  OBVIOUS
<1>2. /\ subject' = subject /\ name' = name /\ owner' = owner /\ published' = published
      /\ holder' = holder /\ inTx' = inTx /\ setting' = setting
      /\ caller' = caller /\ tenant' = tenant
      /\ \E s \in {"commit", "rollback"} : stage' = [stage EXCEPT ![r] = s]
  OBVIOUS
<1>w. \/ write' = write
      \/ \E f \in Forms : \/ write' = [write EXCEPT ![r] = {<<f, "inserted">>}]
                          \/ owner[f] # None /\ write' = [write EXCEPT ![r] = {<<f, "published">>}]
  OBVIOUS
<1>f. failures' = failures \/ (failures < MaxFailures /\ failures' = failures + 1)
  OBVIOUS
<1>3. TypeOK'
  <2> USE ONLY IInv, <1>2 DEF IInv
  <2>1. write' \in [Requests -> SUBSET (Forms \X Writes)]
    <3>1. \A f \in Forms, b \in Writes : {<<f, b>>} \in SUBSET (Forms \X Writes)
      BY DEF Writes
    <3>2. \E W \in SUBSET (Forms \X Writes) : write' = write \/ write' = [write EXCEPT ![r] = W]
      BY <1>w, <3>1 DEF Writes
    <3> QED
      BY <3>2 DEF TypeOK
  <2>2. failures' \in 0..MaxFailures
    BY <1>f, BoundAssumption DEF TypeOK
  <2> QED
    BY <2>1, <2>2 DEF TypeOK, Stages
<1>4. OneTenantPerSubject'
  BY <1>2, TenantsKept
<1>5. FreeConnectionsAreClean'
  BY <1>2 DEF FreeConnectionsAreClean, Free, Anonymous
<1>6. RequestsAreConsistent'
  BY <1>1, <1>2 DEF RequestsAreConsistent, TypeOK
<1>7. ConnectionsAreConsistent'
  BY <1>2 DEF ConnectionsAreConsistent, Free, TypeOK
<1>8. RowsAreConsistent'
  <2> USE ONLY IInv, <1>2 DEF IInv
  <2>1. ASSUME NEW q \in Requests, NEW f \in Forms, <<f, "published">> \in write'[q]
        PROVE  owner[f] # None
    <3>1. <<f, "published">> \in write[q] \/ owner[f] # None
      BY <1>w, <2>1 DEF TypeOK
    <3> QED
      BY <3>1 DEF RowsAreConsistent
  <2> QED
    BY <2>1 DEF RowsAreConsistent
<1> QED
  BY <1>3, <1>4, <1>5, <1>6, <1>7, <1>8

\* IInv is kept by COMMIT, answered or not.
LEMMA CommitInv ==
    ASSUME IInv, NEW r \in Requests, NEW c \in Conns, Commit(r, c) \/ CommitUnanswered(r, c)
    PROVE  IInv'
<1> USE DEF IInv
<1>1. stage[r] = "commit" /\ holder[c] = r
  BY DEF Commit, CommitUnanswered
<1>2. tenant[r] \in Ids
  BY <1>1 DEF RequestsAreConsistent, TypeOK
<1>3. /\ subject' = subject /\ name' = name
      /\ Apply(r) /\ EndTx(c)
      /\ write' = [write EXCEPT ![r] = {}]
      /\ \/ /\ failures' = failures
            /\ holder' = [holder EXCEPT ![c] = None]
            /\ stage' = [stage EXCEPT ![r] = "idle"]
            /\ caller' = [caller EXCEPT ![r] = None]
            /\ tenant' = [tenant EXCEPT ![r] = None]
         \/ /\ failures < MaxFailures /\ failures' = failures + 1
            /\ stage' = [stage EXCEPT ![r] = "rollback"]
            /\ UNCHANGED <<holder, caller, tenant>>
  BY DEF Commit, CommitUnanswered, Fail, Release, End, Goto, tenantVars
<1> USE ONLY IInv, <1>1, <1>2, <1>3 DEF IInv
<1>4. /\ owner' \in [Forms -> Ids \cup {None}] /\ published' \in SUBSET Forms
      /\ \A f \in Forms : owner[f] # None => owner'[f] # None
      /\ \A f \in published' : f \in published \/ <<f, "published">> \in write[r]
  BY NamesAssumption DEF TypeOK, Apply
<1>5. TypeOK'
  <2>1. inTx' \in [Conns -> BOOLEAN] /\ setting' \in [Conns -> Ids \cup {Null, Empty}]
    BY DEF TypeOK, EndTx
  <2>2. failures' \in 0..MaxFailures
    BY BoundAssumption DEF TypeOK
  <2> QED
    BY <1>4, <2>1, <2>2 DEF TypeOK, Stages
<1>6. OneTenantPerSubject'
  BY TenantsKept DEF TypeOK
<1>7. FreeConnectionsAreClean'
  BY DEF FreeConnectionsAreClean, EndTx, Free, Anonymous, TypeOK
<1>8. RequestsAreConsistent'
  BY DEF RequestsAreConsistent, TypeOK
<1>9. ConnectionsAreConsistent'
  BY NamesAssumption DEF ConnectionsAreConsistent, EndTx, Free, TypeOK
<1>10. RowsAreConsistent'
  <2>1. ASSUME NEW f \in published' PROVE owner'[f] # None
    BY <1>4, <2>1 DEF RowsAreConsistent, TypeOK
  <2>2. ASSUME NEW q \in Requests, NEW f \in Forms, <<f, "published">> \in write'[q]
        PROVE  owner'[f] # None
    BY <1>4, <2>2 DEF RowsAreConsistent, TypeOK
  <2> QED
    BY <2>1, <2>2 DEF RowsAreConsistent
<1> QED
  BY <1>5, <1>6, <1>7, <1>8, <1>9, <1>10

\* IInv is kept when a request gives up: after ROLLBACK, after a ROLLBACK that
\* fails, after a query through the pool that fails; and when an idle
\* connection is closed.
LEMMA GiveUpInv ==
    ASSUME IInv, NEW c \in Conns,
           \/ IdleCloses(c)
           \/ \E r \in Requests : Rollback(r, c) \/ RollbackFails(r, c) \/ PoolQueryFails(r, c)
    PROVE  IInv'
<1> USE DEF IInv
<1>1. CASE IdleCloses(c)
  <2> USE <1>1 DEF IdleCloses, Discard, tenantVars, formVars, requestVars
  <2>1. TypeOK'
    BY DEF TypeOK
  <2>2. OneTenantPerSubject'
    BY DEF OneTenantPerSubject
  <2>3. FreeConnectionsAreClean' /\ ConnectionsAreConsistent'
    BY NamesAssumption DEF FreeConnectionsAreClean, ConnectionsAreConsistent, Free, Anonymous, TypeOK
  <2>4. RequestsAreConsistent' /\ RowsAreConsistent'
    BY DEF RequestsAreConsistent, RowsAreConsistent
  <2> QED
    BY <2>1, <2>2, <2>3, <2>4
<1>2. ASSUME NEW r \in Requests, Rollback(r, c) \/ RollbackFails(r, c) \/ PoolQueryFails(r, c)
      PROVE  IInv'
  <2> USE <1>2 DEF Rollback, RollbackFails, PoolQueryFails, EndTx, Release, Discard, End, Goto,
                   tenantVars, formVars
  <2>1. /\ subject' = subject /\ name' = name /\ owner' = owner /\ published' = published
        /\ holder[c] \in {r, None}
        /\ holder' = [holder EXCEPT ![c] = None]
        /\ inTx' = [inTx EXCEPT ![c] = FALSE]
        /\ setting'[c] \in {Null, Empty}
        /\ \A d \in Conns \ {c} : setting'[d] = setting[d] /\ holder[d] # r
        /\ setting' \in [Conns -> Ids \cup {Null, Empty}]
        /\ failures' \in 0..MaxFailures
        /\ stage' = [stage EXCEPT ![r] = "idle"] /\ caller' = [caller EXCEPT ![r] = None]
        /\ tenant' = [tenant EXCEPT ![r] = None] /\ write' = [write EXCEPT ![r] = {}]
    <3>1. holder[c] \in {r, None} /\ \A d \in Conns \ {c} : holder[d] # r
      BY NamesAssumption DEF ConnectionsAreConsistent, Free, TypeOK
    <3>2. /\ setting'[c] \in {Null, Empty}
          /\ \A d \in Conns \ {c} : setting'[d] = setting[d]
          /\ setting' \in [Conns -> Ids \cup {Null, Empty}]
      BY DEF TypeOK
    <3>3. failures' \in 0..MaxFailures
      BY BoundAssumption DEF TypeOK, Fail
    <3> QED
      BY <3>1, <3>2, <3>3
  <2>2. TypeOK'
    BY <2>1 DEF TypeOK, Stages
  <2>3. OneTenantPerSubject'
    BY <2>1, TenantsKept DEF TypeOK
  <2>4. FreeConnectionsAreClean'
    BY <2>1 DEF FreeConnectionsAreClean, Free, Anonymous, TypeOK
  <2>5. RequestsAreConsistent'
    BY <2>1 DEF RequestsAreConsistent, TypeOK
  <2>6. ConnectionsAreConsistent'
    BY <2>1, NamesAssumption DEF ConnectionsAreConsistent, Free, TypeOK
  <2>7. RowsAreConsistent'
    BY <2>1 DEF RowsAreConsistent, TypeOK
  <2> QED
    BY <2>2, <2>3, <2>4, <2>5, <2>6, <2>7
<1> QED
  BY <1>1, <1>2

\* IInv is kept when the process dies.
LEMMA ProcessDiesInv ==
    ASSUME IInv, ProcessDies
    PROVE  IInv'
BY NamesAssumption, BoundAssumption
   DEF IInv, ProcessDies, Fail, tenantVars, formVars, TypeOK, Stages, OneTenantPerSubject,
       FreeConnectionsAreClean, Free, Anonymous, RequestsAreConsistent,
       ConnectionsAreConsistent, RowsAreConsistent

\* Every step keeps IInv.
LEMMA NextInv == IInv /\ [Next]_vars => IInv'
<1> SUFFICES ASSUME IInv, [Next]_vars PROVE IInv'
  OBVIOUS
<1>1. ASSUME NEW r \in Requests, Visit(r) \/ \E s \in Subjects : Arrive(r, s) PROVE IInv'
  BY <1>1, ArrivalInv
<1>2. ASSUME NEW r \in Requests, GuardStep(r) PROVE IInv'
  BY <1>2, FindInv, ProvisionInv DEF GuardStep
<1>3. ASSUME NEW r \in Requests, ServeMe(r) \/ Look(r) PROVE IInv'
  BY <1>3, ServeMeInv, LookInv
<1>4. ASSUME NEW r \in Requests, NEW c \in Conns, Connect(r, c) \/ TxStep(r, c) PROVE IInv'
  BY <1>4, ConnectInv, BeginInv, WorkInv, CommitInv, GiveUpInv DEF TxStep
<1>5. ASSUME NEW r \in Requests, Failure(r) PROVE IInv'
  BY <1>5, WorkInv, CommitInv, GiveUpInv DEF Failure
<1>6. ASSUME NEW c \in Conns, IdleCloses(c) PROVE IInv'
  BY <1>6, GiveUpInv
<1>7. CASE ProcessDies
  BY <1>7, ProcessDiesInv
<1>8. CASE UNCHANGED vars
  BY <1>8 DEF vars, tenantVars, formVars, connVars, requestVars, IInv, TypeOK,
     OneTenantPerSubject, FreeConnectionsAreClean, Free, Anonymous, RequestsAreConsistent,
     ConnectionsAreConsistent, RowsAreConsistent
<1> QED
  BY <1>1, <1>2, <1>3, <1>4, <1>5, <1>6, <1>7, <1>8 DEF Next

-----------------------------------------------------------------------------
(* Theorems *)

\* IInv holds in every reachable state.
THEOREM InductiveInvariant == Spec => []IInv
BY InitInv, NextInv, PTL DEF Spec

\* Types of the variables.
THEOREM TypeCorrectness == Spec => []TypeOK
<1>1. IInv => TypeOK
  BY DEF IInv
<1> QED
  BY <1>1, InductiveInvariant, PTL

\* However many first requests of a subject overlap, it gets one tenant.
THEOREM SubjectsHaveOneTenant == Spec => []OneTenantPerSubject
<1>1. IInv => OneTenantPerSubject
  BY DEF IInv
<1> QED
  BY <1>1, InductiveInvariant, PTL

\* No connection returns to the pool with a transaction or a tenant.
THEOREM PoolIsClean == Spec => []FreeConnectionsAreClean
<1>1. IInv => FreeConnectionsAreClean
  BY DEF IInv
<1> QED
  BY <1>1, InductiveInvariant, PTL

\* Queries reach the rows of their tenant, or what is published, only.
THEOREM TenantsAreIsolated == Spec => []RowsAreScoped
<1>1. IInv => RowsAreScoped
  <2> SUFFICES ASSUME IInv PROVE RowsAreScoped
    OBVIOUS
  <2> USE DEF IInv
  <2>1. ASSUME NEW r \in Requests, NEW c \in Conns, stage[r] = "work", holder[c] = r
        PROVE  LET own == {f \in Forms : owner[f] # None /\ owner[f] = tenant[r]}
               IN  Readable(c) = own /\ {f \in Forms : Writable(c, f, owner[f])} = own
    <3>1. setting[c] = tenant[r] /\ setting[c] \in Ids
      BY <2>1 DEF ConnectionsAreConsistent, RequestsAreConsistent, TypeOK
    <3>2. ~Anonymous(c) /\ setting[c] # None
      BY <3>1, NamesAssumption DEF Anonymous
    <3> QED
      BY <3>1, <3>2 DEF Readable, Writable
  <2>2. ASSUME NEW c \in Conns, Free(c)
        PROVE  Readable(c) = published /\ \A f \in Forms, i \in Ids : ~Writable(c, f, i)
    <3>1. Anonymous(c) /\ setting[c] \notin Ids
      BY <2>2, NamesAssumption DEF FreeConnectionsAreClean, Anonymous
    <3>2. \A f \in Forms : owner[f] # None => owner[f] # setting[c]
      BY <3>1 DEF TypeOK
    <3> QED
      BY <3>1, <3>2 DEF Readable, Writable, RowsAreConsistent, TypeOK
  <2> QED
    BY <2>1, <2>2 DEF RowsAreScoped
<1> QED
  BY <1>1, InductiveInvariant, PTL

\* No provisioning takes back a name a user has chosen.
THEOREM NamesAreKept == Spec => ChosenNameStays
<1>1. IInv /\ [Next]_vars => [\A i \in Ids : name[i] = "chosen" => name'[i] = "chosen"]_vars
  <2> SUFFICES ASSUME IInv, Next, NEW i \in Ids, name[i] = "chosen" PROVE name'[i] = "chosen"
    OBVIOUS
  <2>1. ASSUME NEW r \in Requests, GuardStep(r) PROVE name'[i] = "chosen"
    BY <2>1 DEF GuardStep, Find, Provision, tenantVars, IInv, TypeOK, RowsAreConsistent
  <2>2. ASSUME NEW r \in Requests, ServeMe(r) PROVE name'[i] = "chosen"
    BY <2>2 DEF ServeMe, IInv, TypeOK
  <2>3. CASE UNCHANGED name
    BY <2>3
  <2>4. ASSUME NEW r \in Requests,
               \/ Visit(r) \/ \E s \in Subjects : Arrive(r, s)
               \/ Look(r) \/ Failure(r)
               \/ \E c \in Conns : Connect(r, c) \/ TxStep(r, c)
        PROVE  UNCHANGED name
    BY <2>4 DEF Visit, Arrive, Look, Failure, StepFails, CommitUnanswered, RollbackFails,
       PoolQueryFails, Connect, TxStep, Begin, SetTenant, ListRows, InsertRow, UpdateRow,
       Commit, Rollback, tenantVars
  <2>5. ASSUME ProcessDies \/ \E c \in Conns : IdleCloses(c) PROVE UNCHANGED name
    BY <2>5 DEF ProcessDies, IdleCloses, tenantVars
  <2> QED
    BY <2>1, <2>2, <2>3, <2>4, <2>5 DEF Next
<1> QED
  BY <1>1, InductiveInvariant, PTL DEF Spec, ChosenNameStays
=============================================================================
