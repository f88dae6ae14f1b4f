-------------------------------- MODULE Forms --------------------------------
(***************************************************************************)
(* Forms and the public submit path of the API: owners' requests that      *)
(* replace the fields of a draft, publish it or delete it, each in one     *)
(* transaction that first locks the row of `forms`; and visitors, who read *)
(* a published form twice, once to fill it in and once, on the server, to  *)
(* have their answers validated, and whose submission is inserted by a     *)
(* third transaction.  The visitors' reads lock nothing and each of them   *)
(* is two separate queries.                                                *)
(*                                                                         *)
(* The contents of a field list matter only by identity: a row of          *)
(* `form_fields` is represented by the number of the request that inserted *)
(* it, so fields[f] = {1, 2} is a mixture of two lists.  Titles, which can *)
(* be changed at any time, are left out.                                   *)
(***************************************************************************)
EXTENDS Naturals

CONSTANTS
    Forms,          \* ids of the rows of `forms`
    Editors,        \* running requests of owners
    Visitors,       \* anonymous browsers
    Free,           \* "no transaction holds the lock"
    MaxSaves,       \* bound: requests that replace fields
    MaxAborts       \* bound: owners' transactions that abort

ASSUME FreeAssumption == Free \notin Editors
ASSUME BoundAssumption == MaxSaves \in Nat /\ MaxAborts \in Nat

VARIABLES
    status,         \* forms.status, or "none": no such row
    fields,         \* committed rows of form_fields
    lock,           \* holder of the row lock of each form
    step,           \* editor: what its transaction does next
    target,         \* editor: the form
    seen,           \* editor: the rows its DELETE removed
    saves,          \* lists of fields sent so far
    save,           \* editor: the number of its own list
    stage,          \* visitor: where it stands
    form,           \* visitor: the form
    shown,          \* visitor: the fields the page shows
    validated,      \* visitor: the fields its answers were validated against
    submissions,    \* rows of `submissions`
    aborts          \* aborts so far

editorVars  == <<step, target, seen, saves, save>>
visitorVars == <<stage, form, shown, validated>>
vars == <<status, fields, lock, editorVars, visitorVars, submissions, aborts>>

\* "lock" to "idle" are the queries of replaceFields ("delete", "insert"),
\* publish ("list", "publish") and remove ("remove").
Steps == {"idle", "delete", "insert", "list", "publish", "remove"}

\* A visitor has nothing, the form's row, a page to fill in, the row again
\* after POSTing, or valid answers.
Stages == {"away", "opening", "filling", "posted", "valid"}

\* Operators named Faulty... are what a slip in the code would make of the
\* definition that follows them; nothing refers to them.

\* The locks left once editor e's transaction has ended.
Released(e) == [f \in Forms |-> IF lock[f] = e THEN Free ELSE lock[f]]

FaultyPublicStatus == {"draft", "published"}

\* The forms that policies forms_public_read and form_fields_public_read let
\* anonymous sessions see.
PublicStatus == {"published"}

\* What an anonymous query sees of the fields of f.
PublicFields(f) == IF status[f] \in PublicStatus THEN fields[f] ELSE {}

-----------------------------------------------------------------------------
Init ==
    /\ status = [f \in Forms |-> "none"]
    /\ fields = [f \in Forms |-> {}]
    /\ lock = [f \in Forms |-> Free]
    /\ step = [e \in Editors |-> "idle"]
    /\ target \in [Editors -> Forms]
    /\ seen = [e \in Editors |-> {}]
    /\ saves = 0
    /\ save = [e \in Editors |-> 0]
    /\ stage = [v \in Visitors |-> "away"]
    /\ form \in [Visitors -> Forms]
    /\ shown = [v \in Visitors |-> {}]
    /\ validated = [v \in Visitors |-> {}]
    /\ submissions = {}
    /\ aborts = 0

-----------------------------------------------------------------------------
(* FormsService *)

\* WHO  FormsService.create
\* WHAT one insert: a draft without fields.
Create(f) ==
    /\ status[f] = "none"
    /\ status' = [status EXCEPT ![f] = "draft"]
    /\ UNCHANGED <<fields, lock, editorVars, visitorVars, submissions, aborts>>

\* The number of the list of fields that a request for `next` brings along.
Bring(e, next) ==
    IF next = "delete"
      THEN saves < MaxSaves /\ saves' = saves + 1 /\ save' = [save EXCEPT ![e] = saves + 1]
      ELSE UNCHANGED <<saves, save>>

\* The row is read with findById.
FaultyReadDraft(e, f, next) ==
    /\ step[e] = "idle"
    /\ status[f] = "draft"
    /\ step' = [step EXCEPT ![e] = next]
    /\ target' = [target EXCEPT ![e] = f]
    /\ Bring(e, next)
    /\ UNCHANGED <<status, fields, lock, seen, visitorVars, submissions, aborts>>

\* WHO  replaceFields, publish, remove
\* WHAT findByIdForUpdate, waiting for the lock.  A missing row is a 404 and
\*      a published one a 409: both roll back and change nothing.
LockDraft(e, f, next) ==
    /\ step[e] = "idle"
    /\ lock[f] = Free
    /\ status[f] = "draft"
    /\ lock' = [lock EXCEPT ![f] = e]
    /\ step' = [step EXCEPT ![e] = next]
    /\ target' = [target EXCEPT ![e] = f]
    /\ Bring(e, next)
    /\ UNCHANGED <<status, fields, seen, visitorVars, submissions, aborts>>

\* WHO  replaceFields
\* WHAT deletes the rows it can see.
DeleteFields(e) ==
    /\ step[e] = "delete"
    /\ seen' = [seen EXCEPT ![e] = fields[target[e]]]
    /\ step' = [step EXCEPT ![e] = "insert"]
    /\ UNCHANGED <<status, fields, lock, target, saves, save, visitorVars, submissions, aborts>>

\* The old rows are not deleted.
FaultyInsertFields(e) ==
    LET f == target[e]
    IN  /\ step[e] = "insert"
        /\ fields' = [fields EXCEPT ![f] = @ \cup {save[e]}]
        /\ step' = [step EXCEPT ![e] = "idle"]
        /\ lock' = Released(e)
        /\ UNCHANGED <<status, target, seen, saves, save, visitorVars, submissions, aborts>>

\* WHO  replaceFields and the COMMIT of withTenant
\* WHAT inserts the new rows, of which there is at least one; from now on the
\*      others see the deletion and the insertion.
InsertFields(e) ==
    LET f == target[e]
    IN  /\ step[e] = "insert"
        /\ fields' = [fields EXCEPT ![f] = (@ \ seen[e]) \cup {save[e]}]
        /\ step' = [step EXCEPT ![e] = "idle"]
        /\ lock' = Released(e)
        /\ UNCHANGED <<status, target, seen, saves, save, visitorVars, submissions, aborts>>

\* WHO  publish
\* WHAT lists the fields; none is a 409.
ListFields(e) ==
    LET empty == fields[target[e]] = {}
    IN  /\ step[e] = "list"
        /\ step' = [step EXCEPT ![e] = IF empty THEN "idle" ELSE "publish"]
        /\ lock' = IF empty THEN Released(e) ELSE lock
        /\ UNCHANGED <<status, fields, target, seen, saves, save, visitorVars,
                       submissions, aborts>>

\* WHO  publish and the COMMIT
\* WHAT the form is published, for good.
Publish(e) ==
    /\ step[e] = "publish"
    /\ status' = [status EXCEPT ![target[e]] = "published"]
    /\ step' = [step EXCEPT ![e] = "idle"]
    /\ lock' = Released(e)
    /\ UNCHANGED <<fields, target, seen, saves, save, visitorVars, submissions, aborts>>

\* WHO  remove and the COMMIT
\* WHAT the row goes and its fields with it (ON DELETE CASCADE).  Its id is
\*      free for another form.
Remove(e) ==
    LET f == target[e]
    IN  /\ step[e] = "remove"
        /\ status' = [status EXCEPT ![f] = "none"]
        /\ fields' = [fields EXCEPT ![f] = {}]
        /\ step' = [step EXCEPT ![e] = "idle"]
        /\ lock' = Released(e)
        /\ UNCHANGED <<target, seen, saves, save, visitorVars, submissions, aborts>>

\* WHO  withTenant, on an error, or the API process dying
\* WHAT the transaction rolls back.
EditorAborts(e) ==
    /\ step[e] # "idle"
    /\ aborts < MaxAborts
    /\ aborts' = aborts + 1
    /\ step' = [step EXCEPT ![e] = "idle"]
    /\ lock' = Released(e)
    /\ UNCHANGED <<status, fields, target, seen, saves, save, visitorVars, submissions>>

-----------------------------------------------------------------------------
(* The public path *)

\* WHO  GET /v1/forms/:slug, findPublishedFormBySlug
\* WHAT the first query finds a form by its slug.
OpenForm(v, f) ==
    /\ stage[v] = "away"
    /\ status[f] \in PublicStatus
    /\ form' = [form EXCEPT ![v] = f]
    /\ stage' = [stage EXCEPT ![v] = "opening"]
    /\ UNCHANGED <<status, fields, lock, editorVars, shown, validated, submissions, aborts>>

\* WHO  the same request
\* WHAT the second query reads the fields; the page shows them.
ShowFields(v) ==
    /\ stage[v] = "opening"
    /\ shown' = [shown EXCEPT ![v] = PublicFields(form[v])]
    /\ stage' = [stage EXCEPT ![v] = "filling"]
    /\ UNCHANGED <<status, fields, lock, editorVars, form, validated, submissions, aborts>>

\* WHO  POST /v1/forms/:slug, AnswersValidationInterceptor
\* WHAT the first query finds the form again; if not, 404.  Whatever becomes of
\*      the request, the page is still there and may send another one.
PostAnswers(v) ==
    /\ stage[v] = "filling"
    /\ stage' = [stage EXCEPT ![v] = IF status[form[v]] \in PublicStatus THEN "posted" ELSE "filling"]
    /\ UNCHANGED <<status, fields, lock, editorVars, form, shown, validated, submissions, aborts>>

\* WHO  the same request
\* WHAT the second query reads the fields and the answers are validated
\*      against them; 400 if they do not fit.
Validate(v) ==
    /\ stage[v] = "posted"
    /\ validated' = [validated EXCEPT ![v] = PublicFields(form[v])]
    /\ \E s \in {"valid", "filling"} : stage' = [stage EXCEPT ![v] = s]
    /\ UNCHANGED <<status, fields, lock, editorVars, form, shown, submissions, aborts>>

\* WHO  PublicService.submit
\* WHAT inserts the submission.  The foreign key waits for whoever has locked
\*      the form and needs its row.  (What else the transaction inserts is
\*      in Delivery and Endpoints.)
InsertSubmission(v) ==
    LET f == form[v]
    IN  /\ stage[v] = "valid"
        /\ lock[f] = Free
        /\ stage' = [stage EXCEPT ![v] = "filling"]
        /\ submissions' =
             IF status[f] = "none" THEN submissions
             ELSE submissions \cup {[form |-> f, shown |-> shown[v], validated |-> validated[v]]}
        /\ UNCHANGED <<status, fields, lock, editorVars, form, shown, validated, aborts>>

\* WHO  the same request
\* WHAT a query fails, or the API process dies: nothing is inserted.
PostFails(v) ==
    /\ stage[v] \in {"posted", "valid"}
    /\ stage' = [stage EXCEPT ![v] = "filling"]
    /\ UNCHANGED <<status, fields, lock, editorVars, form, shown, validated, submissions, aborts>>

\* WHO  a visitor, or its first request failing
Leave(v) ==
    /\ stage[v] \in {"opening", "filling"}
    /\ stage' = [stage EXCEPT ![v] = "away"]
    /\ UNCHANGED <<status, fields, lock, editorVars, form, shown, validated, submissions, aborts>>

-----------------------------------------------------------------------------
EditorStep(e) ==
    \/ \E f \in Forms, next \in {"delete", "list", "remove"} : LockDraft(e, f, next)
    \/ DeleteFields(e) \/ InsertFields(e)
    \/ ListFields(e) \/ Publish(e)
    \/ Remove(e)
    \/ EditorAborts(e)

VisitorStep(v) ==
    \/ \E f \in Forms : OpenForm(v, f)
    \/ ShowFields(v) \/ PostAnswers(v) \/ Validate(v) \/ InsertSubmission(v)
    \/ PostFails(v) \/ Leave(v)

Next ==
    \/ \E f \in Forms : Create(f)
    \/ \E e \in Editors : EditorStep(e)
    \/ \E v \in Visitors : VisitorStep(v)

Spec == Init /\ [][Next]_vars
-----------------------------------------------------------------------------
(* Properties *)

Submissions == [form : Forms, shown : SUBSET (1..MaxSaves), validated : SUBSET (1..MaxSaves)]

TypeOK ==
    /\ status \in [Forms -> {"none", "draft", "published"}]
    /\ fields \in [Forms -> SUBSET (1..MaxSaves)]
    /\ lock \in [Forms -> Editors \cup {Free}]
    /\ step \in [Editors -> Steps]
    /\ target \in [Editors -> Forms]
    /\ seen \in [Editors -> SUBSET (1..MaxSaves)]
    /\ saves \in 0..MaxSaves
    /\ save \in [Editors -> 0..MaxSaves]
    /\ stage \in [Visitors -> Stages]
    /\ form \in [Visitors -> Forms]
    /\ shown \in [Visitors -> SUBSET (1..MaxSaves)]
    /\ validated \in [Visitors -> SUBSET (1..MaxSaves)]
    /\ submissions \subseteq Submissions
    /\ aborts \in 0..MaxAborts

\* The fields of a form are one list that somebody sent, however saves
\* overlap, never a mixture of two.
FieldsAreOneList ==
    \A f \in Forms : \A m, n \in fields[f] : m = n

\* Publishing and saving or deleting the same draft at once never publishes a
\* form without fields.
PublishedHasFields ==
    \A f \in Forms : status[f] = "published" => fields[f] # {}

\* A published form never changes and never goes away, although the requests
\* that were under way when it was published read it as a draft.
PublishedIsFrozen ==
    [][\A f \in Forms : status[f] = "published" =>
          status'[f] = "published" /\ fields'[f] = fields[f]]_vars

\* Every submission is to a published form, was validated against the fields
\* that form has, and was filled in on a page that showed them: although
\* page, validation and insert are five queries without a common transaction.
SubmissionsFitTheForm ==
    \A s \in submissions :
        /\ status[s.form] = "published"
        /\ s.shown = fields[s.form]
        /\ s.validated = fields[s.form]
-----------------------------------------------------------------------------
(* The inductive invariant behind these properties *)

\* A form that does not exist has no fields.
NoOrphanFields == \A f \in Forms : status[f] = "none" => fields[f] = {}

\* A running editor holds the lock of a draft, and what it has read of it is
\* still so.
EditorsHoldDrafts ==
    \A e \in Editors :
        /\ step[e] # "idle" => lock[target[e]] = e /\ status[target[e]] = "draft"
        /\ step[e] \in {"delete", "insert"} => save[e] \in 1..MaxSaves
        /\ step[e] = "insert" => seen[e] = fields[target[e]]
        /\ step[e] = "publish" => fields[target[e]] # {}

\* What a visitor has read of a published form is still so.
VisitorsAreCurrent ==
    \A v \in Visitors :
        /\ stage[v] # "away" => status[form[v]] = "published"
        /\ stage[v] \in {"filling", "posted", "valid"} => shown[v] = fields[form[v]]
        /\ stage[v] = "valid" => validated[v] = fields[form[v]]

IInv ==
    /\ TypeOK
    /\ FieldsAreOneList
    /\ PublishedHasFields
    /\ SubmissionsFitTheForm
    /\ NoOrphanFields
    /\ EditorsHoldDrafts
    /\ VisitorsAreCurrent
=============================================================================
