------------------------------ MODULE Tenancy ------------------------------
(***************************************************************************)
(* Who a request of the API acts for, and what it can reach: the guard     *)
(* that turns a bearer token into a tenant and provisions it on first      *)
(* sight, withTenant, which runs a handler in a transaction with           *)
(* app.tenant_id set, the pool whose connections all requests share, and   *)
(* the row-level security policies, which know nothing of requests and     *)
(* look only at the setting of the connection a query comes through.       *)
(*                                                                         *)
(* The list queries have no condition on the tenant: the policies are all  *)
(* that keeps tenants apart.  The rows of `forms` stand for those of every *)
(* table with a tenant_id (the policies are the same); only forms and      *)
(* their fields can also be read by anybody, once published.  A request    *)
(* without a valid token is answered 401 before it changes anything.       *)
(*                                                                         *)
(* A connection is a slot of the pool: one that is not open, or has been   *)
(* destroyed, is as a fresh one.                                           *)
(***************************************************************************)
EXTENDS Naturals, FiniteSets

CONSTANTS
    Subjects,       \* sub claims of verified tokens
    Ids,            \* ids of the rows of `tenants`
    Requests,       \* requests the API handles at a time
    Conns,          \* slots of the pool (max: 10)
    Forms,          \* ids of the rows of `forms`
    None,           \* nobody, no row, no tenant
    Null,           \* app.tenant_id of a fresh connection: not set
    Empty,          \* ... after a transaction that had set it: ''
    MaxFailures     \* bound: failing queries, lost answers, dying processes

ASSUME NamesAssumption ==
    /\ None \notin Subjects \cup Ids \cup Requests
    /\ Null \notin Ids
    /\ Empty \notin Ids
ASSUME BoundAssumption == MaxFailures \in Nat

VARIABLES
    subject,        \* tenants.cognito_sub
    name,           \* tenants.name: the subject, or one the user has chosen
    owner,          \* forms.tenant_id
    published,      \* forms.status
    holder,         \* connection: the request it is checked out to
    inTx,           \* connection: a transaction is open
    setting,        \* connection: app.tenant_id
    stage,          \* request: where it stands
    caller,         \* request: the subject of its token; none for a visitor
    tenant,         \* request: req.tenant, or the owner of the visitor's form
    write,          \* request: the form it has inserted or published, not committed
    failures        \* failures so far

tenantVars  == <<subject, name>>
formVars    == <<owner, published>>
connVars    == <<holder, inTx, setting>>
requestVars == <<stage, caller, tenant, write>>
vars == <<tenantVars, formVars, connVars, requestVars, failures>>

\* "find", "provision": the guard's queries; "serve": the handler begins and
\* waits for a connection; "look": a visitor's query; the others are the steps of withTenant.
Stages == {"idle", "find", "provision", "serve", "look",
           "begin", "set", "work", "commit", "rollback"}

Writes == {"inserted", "published"}

Fail == failures < MaxFailures /\ failures' = failures + 1

Free(c) == holder[c] = None

\* Operators named Faulty... are what a slip in the code would make of the
\* definition that follows them; nothing refers to them.

-----------------------------------------------------------------------------
(* Row-level security *)

\* Without NULLIF, '' is a tenant like any other.
FaultyAnonymous(c) == setting[c] = Null

\* NULLIF(current_setting('app.tenant_id', true), '') IS NULL
Anonymous(c) == setting[c] \in {Null, Empty}

\* Rows that SELECT returns through connection c: those of the policy
\* tenant_isolation or those of the public one.
Readable(c) ==
    {f \in Forms : /\ owner[f] # None
                   /\ owner[f] = setting[c] \/ (Anonymous(c) /\ f \in published)}

\* Rows that UPDATE and DELETE reach, and that INSERT may make (WITH CHECK).
Writable(c, f, i) == setting[c] = i /\ owner[f] \in {None, i}

-----------------------------------------------------------------------------
Init ==
    /\ subject = [i \in Ids |-> None]
    /\ name = [i \in Ids |-> "subject"]
    /\ owner = [f \in Forms |-> None]
    /\ published = {}
    /\ holder = [c \in Conns |-> None]
    /\ inTx = [c \in Conns |-> FALSE]
    /\ setting = [c \in Conns |-> Null]
    /\ stage = [r \in Requests |-> "idle"]
    /\ caller = [r \in Requests |-> None]
    /\ tenant = [r \in Requests |-> None]
    /\ write = [r \in Requests |-> {}]
    /\ failures = 0

\* Request r goes on to stage s.
Goto(r, s) == stage' = [stage EXCEPT ![r] = s]

\* Request r is answered: nothing of it is left.
End(r) ==
    /\ Goto(r, "idle")
    /\ caller' = [caller EXCEPT ![r] = None]
    /\ tenant' = [tenant EXCEPT ![r] = None]
    /\ write' = [write EXCEPT ![r] = {}]

-----------------------------------------------------------------------------
(* AuthGuard, TenantsService, MeController *)

\* WHO  AuthGuard.canActivate
\* WHAT a bearer token is verified and names its subject.
Arrive(r, s) ==
    /\ stage[r] = "idle"
    /\ caller' = [caller EXCEPT ![r] = s]
    /\ Goto(r, "find")
    /\ UNCHANGED <<tenantVars, formVars, connVars, tenant, write, failures>>

\* The row of a subject; the query goes by a unique column.
RowsOf(s) == {i \in Ids : subject[i] = s}

\* WHO  TenantsService.findOrCreateBySub, findBySub
\* WHAT one query through any connection of the pool.
Find(r) ==
    LET found == RowsOf(caller[r])
    IN  /\ stage[r] = "find"
        /\ \E c \in Conns : Free(c)
        /\ IF Cardinality(found) = 1
             THEN /\ tenant' = [tenant EXCEPT ![r] = CHOOSE i \in found : TRUE]
                  /\ Goto(r, "serve")
             ELSE UNCHANGED tenant /\ Goto(r, "provision")
        /\ UNCHANGED <<tenantVars, formVars, connVars, caller, write, failures>>

\* No constraint on cognito_sub.
FaultyProvision(r, i) ==
    /\ stage[r] = "provision"
    /\ \E c \in Conns : Free(c)
    /\ subject[i] = None
    /\ subject' = [subject EXCEPT ![i] = caller[r]]
    /\ name' = [name EXCEPT ![i] = "subject"]
    /\ tenant' = [tenant EXCEPT ![r] = i]
    /\ Goto(r, "serve")
    /\ UNCHANGED <<formVars, connVars, caller, write, failures>>

\* ON CONFLICT (cognito_sub) DO UPDATE SET name = EXCLUDED.name
FaultyProvisionAgain(r, i) ==
    /\ stage[r] = "provision"
    /\ \E c \in Conns : Free(c)
    /\ IF RowsOf(caller[r]) = {} THEN subject[i] = None ELSE subject[i] = caller[r]
    /\ subject' = [subject EXCEPT ![i] = caller[r]]
    /\ name' = [name EXCEPT ![i] = "subject"]
    /\ tenant' = [tenant EXCEPT ![r] = i]
    /\ Goto(r, "serve")
    /\ UNCHANGED <<formVars, connVars, caller, write, failures>>

\* WHO  TenantsService.findOrCreateBySub, insertBySub
\* WHAT one INSERT: a new row, or, on a conflict with one that appeared in
\*      the meantime, that row, whose subject is written again and whose
\*      name stays.
Provision(r, i) ==
    /\ stage[r] = "provision"
    /\ \E c \in Conns : Free(c)
    /\ IF RowsOf(caller[r]) = {} THEN subject[i] = None ELSE subject[i] = caller[r]
    /\ subject' = [subject EXCEPT ![i] = caller[r]]
    /\ name' = [name EXCEPT ![i] = IF subject[i] = None THEN "subject" ELSE @]
    /\ tenant' = [tenant EXCEPT ![r] = i]
    /\ Goto(r, "serve")
    /\ UNCHANGED <<formVars, connVars, caller, write, failures>>

\* WHO  MeController.update (update) or me (the row as the guard found it)
\* WHAT one UPDATE by id through the pool, or nothing; the request ends.
ServeMe(r) ==
    /\ stage[r] = "serve"
    /\ caller[r] # None
    /\ \/ UNCHANGED name
       \/ /\ \E c \in Conns : Free(c)
          /\ name' = [name EXCEPT ![tenant[r]] = "chosen"]
    /\ End(r)
    /\ UNCHANGED <<subject, formVars, connVars, failures>>

-----------------------------------------------------------------------------
(* Visitors *)

\* WHO  a @Public handler
\* WHAT the guard lets it pass.
Visit(r) ==
    /\ stage[r] = "idle"
    /\ Goto(r, "look")
    /\ UNCHANGED <<tenantVars, formVars, connVars, caller, tenant, write, failures>>

\* WHO  findPublishedFormBySlug, through any connection of the pool
\* WHAT reads a form by its slug, with no tenant set.  A GET is answered with
\*      the page, or with 404 if there is nothing to read; a POST goes on in
\*      a transaction of the form's owner.
Look(r) ==
    /\ stage[r] = "look"
    /\ \E c \in Conns :
         /\ Free(c)
         /\ \/ \E f \in Readable(c) :
                 /\ tenant' = [tenant EXCEPT ![r] = owner[f]]
                 /\ Goto(r, "serve")
                 /\ UNCHANGED <<caller, write>>
            \/ End(r)
    /\ UNCHANGED <<tenantVars, formVars, connVars, failures>>

-----------------------------------------------------------------------------
(* withTenant *)

\* WHO  any handler that calls withTenant: pool.connect
\* WHAT checks a connection out: an idle one, or a new one while there are
\*      fewer than the maximum; otherwise the request waits.
Connect(r, c) ==
    /\ stage[r] = "serve"
    /\ Free(c)
    /\ holder' = [holder EXCEPT ![c] = r]
    /\ Goto(r, "begin")
    /\ UNCHANGED <<tenantVars, formVars, inTx, setting, caller, tenant, write, failures>>

\* WHAT BEGIN.
Begin(r, c) ==
    /\ stage[r] = "begin"
    /\ holder[c] = r
    /\ inTx' = [inTx EXCEPT ![c] = TRUE]
    /\ Goto(r, "set")
    /\ UNCHANGED <<tenantVars, formVars, holder, setting, caller, tenant, write, failures>>

\* WHAT set_config('app.tenant_id', tenantId, is_local = true).
SetTenant(r, c) ==
    /\ stage[r] = "set"
    /\ holder[c] = r
    /\ setting' = [setting EXCEPT ![c] = tenant[r]]
    /\ Goto(r, "work")
    /\ UNCHANGED <<tenantVars, formVars, holder, inTx, caller, tenant, write, failures>>

\* WHO  a handler that lists rows, or the listing of a handler that writes
\* WHAT a SELECT without a condition on the tenant.
ListRows(r, c) ==
    /\ stage[r] = "work"
    /\ holder[c] = r
    /\ Goto(r, "commit")
    /\ UNCHANGED <<tenantVars, formVars, connVars, caller, tenant, write, failures>>

\* WHO  FormsService.create
\* WHAT inserts a row with the tenant's id, which the policy must allow, under
\*      a fresh id; nobody sees it before the commit.
InsertRow(r, c, f) ==
    /\ stage[r] = "work"
    /\ holder[c] = r
    /\ caller[r] # None
    /\ owner[f] = None
    /\ \A q \in Requests : <<f, "inserted">> \notin write[q]
    /\ Writable(c, f, tenant[r])
    /\ write' = [write EXCEPT ![r] = {<<f, "inserted">>}]
    /\ Goto(r, "commit")
    /\ UNCHANGED <<tenantVars, formVars, connVars, caller, tenant, failures>>

\* WHO  FormsService.publish, for the form the request names
\* WHAT an UPDATE by id, which reaches the row if the policy lets it;
\*      otherwise the handler throws (404, or 409 for a published one).
UpdateRow(r, c, f) ==
    /\ stage[r] = "work"
    /\ holder[c] = r
    /\ caller[r] # None
    /\ owner[f] # None
    /\ IF Writable(c, f, owner[f]) /\ f \notin published
         THEN write' = [write EXCEPT ![r] = {<<f, "published">>}] /\ Goto(r, "commit")
         ELSE UNCHANGED write /\ Goto(r, "rollback")
    /\ UNCHANGED <<tenantVars, formVars, connVars, caller, tenant, failures>>

\* What the transaction of r has written appears.
Apply(r) ==
    LET made == {f \in Forms : <<f, "inserted">> \in write[r]}
    IN  /\ owner' = [f \in Forms |-> IF f \in made THEN tenant[r] ELSE owner[f]]
        /\ published' = published \cup {f \in Forms : <<f, "published">> \in write[r]}

\* The transaction of connection c is over, and its local setting with it.
EndTx(c) ==
    /\ inTx' = [inTx EXCEPT ![c] = FALSE]
    /\ setting' = [setting EXCEPT ![c] = IF @ \in Ids THEN Empty ELSE @]

Release(c) == holder' = [holder EXCEPT ![c] = None]

\* WHAT COMMIT and release(); the answer goes out.
Commit(r, c) ==
    /\ stage[r] = "commit"
    /\ holder[c] = r
    /\ Apply(r)
    /\ EndTx(c)
    /\ Release(c)
    /\ End(r)
    /\ UNCHANGED <<tenantVars, failures>>

\* WHAT the answer to COMMIT is lost: committed, and an error all the same.
CommitUnanswered(r, c) ==
    /\ stage[r] = "commit"
    /\ holder[c] = r
    /\ Fail
    /\ Apply(r)
    /\ EndTx(c)
    /\ write' = [write EXCEPT ![r] = {}]
    /\ Goto(r, "rollback")
    /\ UNCHANGED <<tenantVars, holder, caller, tenant>>

\* WHAT a query of the transaction, or anything else in fn, throws.
StepFails(r) ==
    /\ stage[r] \in {"begin", "set", "work", "commit"}
    /\ Fail
    /\ Goto(r, "rollback")
    /\ UNCHANGED <<tenantVars, formVars, connVars, caller, tenant, write>>

\* Whatever the error was, the transaction is tried again.
FaultyRollback(r, c) ==
    /\ stage[r] = "rollback"
    /\ holder[c] = r
    /\ EndTx(c)
    /\ Goto(r, "begin")
    /\ UNCHANGED <<tenantVars, formVars, holder, caller, tenant, write, failures>>

\* WHAT ROLLBACK and release(); the error goes to the exception filter.
Rollback(r, c) ==
    /\ stage[r] = "rollback"
    /\ holder[c] = r
    /\ EndTx(c)
    /\ Release(c)
    /\ End(r)
    /\ UNCHANGED <<tenantVars, formVars, failures>>

\* release() whether or not ROLLBACK succeeded.
FaultyRollbackFails(r, c) ==
    /\ stage[r] = "rollback"
    /\ holder[c] = r
    /\ Fail
    /\ Release(c)
    /\ End(r)
    /\ UNCHANGED <<tenantVars, formVars, inTx, setting>>

\* Slot c has no connection any more.
Discard(c) ==
    /\ holder' = [holder EXCEPT ![c] = None]
    /\ inTx' = [inTx EXCEPT ![c] = FALSE]
    /\ setting' = [setting EXCEPT ![c] = Null]

\* WHAT ROLLBACK fails: release(err) has the pool destroy the connection,
\*      and Postgres rolls back what it had open.
RollbackFails(r, c) ==
    /\ stage[r] = "rollback"
    /\ holder[c] = r
    /\ Fail
    /\ Discard(c)
    /\ End(r)
    /\ UNCHANGED <<tenantVars, formVars>>

-----------------------------------------------------------------------------
(* The pool and the process *)

\* WHAT a query through the pool fails: 500; pool.query destroys the
\*      connection it had checked out.
PoolQueryFails(r, c) ==
    /\ stage[r] \in {"find", "provision", "look"}
    /\ Free(c)
    /\ Fail
    /\ Discard(c)
    /\ End(r)
    /\ UNCHANGED <<tenantVars, formVars>>

\* WHAT the pool closes a connection that has been idle for ten seconds.
IdleCloses(c) ==
    /\ Free(c)
    /\ setting[c] # Null
    /\ Discard(c)
    /\ UNCHANGED <<tenantVars, formVars, requestVars, failures>>

\* WHAT the process dies and is started again.  An idle connection that the
\*      server closes is enough: nobody listens to the pool's error event.
ProcessDies ==
    /\ Fail
    /\ holder' = [c \in Conns |-> None]
    /\ inTx' = [c \in Conns |-> FALSE]
    /\ setting' = [c \in Conns |-> Null]
    /\ stage' = [r \in Requests |-> "idle"]
    /\ caller' = [r \in Requests |-> None]
    /\ tenant' = [r \in Requests |-> None]
    /\ write' = [r \in Requests |-> {}]
    /\ UNCHANGED <<tenantVars, formVars>>

-----------------------------------------------------------------------------
GuardStep(r) == Find(r) \/ \E i \in Ids : Provision(r, i)

\* The next step of withTenant for r, on its connection.
TxStep(r, c) ==
    \/ Begin(r, c) \/ SetTenant(r, c)
    \/ ListRows(r, c) \/ \E f \in Forms : InsertRow(r, c, f) \/ UpdateRow(r, c, f)
    \/ Commit(r, c) \/ Rollback(r, c)

Failure(r) ==
    \/ StepFails(r)
    \/ \E c \in Conns : CommitUnanswered(r, c) \/ RollbackFails(r, c) \/ PoolQueryFails(r, c)

Next ==
    \/ \E r \in Requests :
         \/ Visit(r) \/ \E s \in Subjects : Arrive(r, s)
         \/ GuardStep(r) \/ ServeMe(r) \/ Look(r)
         \/ \E c \in Conns : Connect(r, c) \/ TxStep(r, c)
         \/ Failure(r)
    \/ \E c \in Conns : IdleCloses(c)
    \/ ProcessDies

Spec == Init /\ [][Next]_vars

\* The step for which request r waits until a connection is free.
PoolStep(r) == GuardStep(r) \/ Look(r) \/ \E c \in Conns : Connect(r, c)

\* Queries return, and the pool serves those who wait for a connection in
\* their order: so a step that needs one, which others can take first any
\* number of times, is owed strongly.
Fairness ==
    \A r \in Requests :
        /\ SF_vars(PoolStep(r))
        /\ WF_vars(\E c \in Conns : TxStep(r, c))

FairSpec == Spec /\ Fairness
-----------------------------------------------------------------------------
(* Properties *)

TypeOK ==
    /\ subject \in [Ids -> Subjects \cup {None}]
    /\ name \in [Ids -> {"subject", "chosen"}]
    /\ owner \in [Forms -> Ids \cup {None}]
    /\ published \subseteq Forms
    /\ holder \in [Conns -> Requests \cup {None}]
    /\ inTx \in [Conns -> BOOLEAN]
    /\ setting \in [Conns -> Ids \cup {Null, Empty}]
    /\ stage \in [Requests -> Stages]
    /\ caller \in [Requests -> Subjects \cup {None}]
    /\ tenant \in [Requests -> Ids \cup {None}]
    /\ write \in [Requests -> SUBSET (Forms \X Writes)]
    /\ failures \in 0..MaxFailures

\* A subject has one row of `tenants` however many of its first requests are
\* handled at once, and every request is served as that row.
OneTenantPerSubject ==
    /\ \A i, j \in Ids : subject[i] # None /\ subject[i] = subject[j] => i = j
    /\ \A r \in Requests :
         caller[r] # None /\ tenant[r] # None => subject[tenant[r]] = caller[r]

\* A connection in the pool carries neither a transaction nor a tenant of the
\* request that had it before, however that request ended.
FreeConnectionsAreClean ==
    \A c \in Conns : Free(c) => ~inTx[c] /\ Anonymous(c)

\* A query made for a tenant reaches every row of the tenant and no other;
\* one made for a visitor, through any free connection, reads every published
\* form and no other and writes nothing, whatever the connection was used for
\* before.
RowsAreScoped ==
    /\ \A r \in Requests, c \in Conns :
         stage[r] = "work" /\ holder[c] = r =>
           LET own == {f \in Forms : owner[f] # None /\ owner[f] = tenant[r]}
           IN  Readable(c) = own /\ {f \in Forms : Writable(c, f, owner[f])} = own
    /\ \A c \in Conns : Free(c) =>
         /\ Readable(c) = published
         /\ \A f \in Forms, i \in Ids : ~Writable(c, f, i)

\* A name a user has chosen stays chosen, also when another first request of
\* the user is provisioned after it.
ChosenNameStays ==
    [][\A i \in Ids : name[i] = "chosen" => name'[i] = "chosen"]_vars

\* Every request ends: none waits for ever for a connection, although each
\* needs several, one after another, and some are destroyed.
EveryRequestEnds ==
    \A r \in Requests : stage[r] # "idle" ~> stage[r] = "idle"
-----------------------------------------------------------------------------
(* The inductive invariant behind these properties *)

\* Until the guard or a visitor's query has found it, a request has no tenant;
\* from then on it has one.  A protected request has a subject.
RequestsAreConsistent ==
    \A r \in Requests :
        /\ stage[r] \in {"idle", "look"} => caller[r] = None
        /\ stage[r] \in {"find", "provision"} => caller[r] # None
        /\ tenant[r] = None <=> stage[r] \in {"idle", "look", "find", "provision"}

\* A checked-out connection is its request's only one and has the request's
\* tenant when the handler's queries run.
ConnectionsAreConsistent ==
    /\ \A c, d \in Conns : holder[c] = holder[d] /\ ~Free(c) => c = d
    /\ \A r \in Requests, c \in Conns : holder[c] = r =>
         /\ stage[r] \in {"begin", "set", "work", "commit", "rollback"}
         /\ stage[r] = "work" => setting[c] = tenant[r]

\* What is published, is about to be, or has a chosen name, exists.
RowsAreConsistent ==
    /\ \A f \in published : owner[f] # None
    /\ \A r \in Requests, f \in Forms : <<f, "published">> \in write[r] => owner[f] # None
    /\ \A i \in Ids : name[i] = "chosen" => subject[i] # None

IInv ==
    /\ TypeOK
    /\ OneTenantPerSubject
    /\ FreeConnectionsAreClean
    /\ RequestsAreConsistent
    /\ ConnectionsAreConsistent
    /\ RowsAreConsistent
=============================================================================
