----------------------------- MODULE FormsProofs -----------------------------
(***************************************************************************)
(* Theorems about Forms, for any sets of forms, editors and visitors and   *)
(* any bounds: IInv is inductive, and the properties follow from it.  Then *)
(* about PublicPage, for any contents of the lists, which implements Forms. *)
(***************************************************************************)
EXTENDS PublicPage, TLAPS

-----------------------------------------------------------------------------
(* Lemmas *)

\* What is said of the rows alone survives a step that changes no row.
LEMMA RowFactsKept ==
    ASSUME FieldsAreOneList, PublishedHasFields, NoOrphanFields,
           UNCHANGED <<status, fields>>
    PROVE  FieldsAreOneList' /\ PublishedHasFields' /\ NoOrphanFields'
BY DEF FieldsAreOneList, PublishedHasFields, NoOrphanFields

\* What a visitor and a submission rely on survives every step that changes
\* no visitor, no submission and no published form.
LEMMA PublicFactsKept ==
    ASSUME TypeOK, SubmissionsFitTheForm, VisitorsAreCurrent,
           UNCHANGED <<visitorVars, submissions>>,
           \A f \in Forms : status[f] = "published" =>
               status'[f] = "published" /\ fields'[f] = fields[f]
    PROVE  SubmissionsFitTheForm' /\ VisitorsAreCurrent'
<1>1. \A s \in submissions : s.form \in Forms
  BY DEF TypeOK, Submissions
<1>2. SubmissionsFitTheForm'
  BY <1>1 DEF SubmissionsFitTheForm
<1>3. VisitorsAreCurrent'
  BY DEF TypeOK, VisitorsAreCurrent, visitorVars
<1> QED
  BY <1>2, <1>3

\* Two editors never run on the same form.
LEMMA EditorsExclude ==
    ASSUME TypeOK, EditorsHoldDrafts, NEW e \in Editors, NEW d \in Editors,
           step[e] # "idle", step[d] # "idle", target[e] = target[d]
    PROVE  e = d
BY DEF EditorsHoldDrafts

\* The empty database satisfies IInv.
LEMMA InitInv == Init => IInv
<1> SUFFICES ASSUME Init PROVE IInv
  OBVIOUS
<1>1. TypeOK
  BY BoundAssumption DEF Init, TypeOK, Steps, Stages, Submissions
<1>2. FieldsAreOneList /\ PublishedHasFields /\ SubmissionsFitTheForm /\ NoOrphanFields
  BY DEF Init, FieldsAreOneList, PublishedHasFields, SubmissionsFitTheForm, NoOrphanFields
<1>3. EditorsHoldDrafts /\ VisitorsAreCurrent
  BY DEF Init, EditorsHoldDrafts, VisitorsAreCurrent
<1> QED
  BY <1>1, <1>2, <1>3 DEF IInv

\* IInv is kept when a draft is created.
LEMMA CreateInv ==
    ASSUME IInv, NEW f \in Forms, Create(f)
    PROVE  IInv'
<1> USE DEF IInv, Create, editorVars
<1>1. TypeOK'
  BY DEF TypeOK, visitorVars
<1>2. FieldsAreOneList' /\ PublishedHasFields' /\ NoOrphanFields'
  BY DEF TypeOK, FieldsAreOneList, PublishedHasFields, NoOrphanFields
<1>3. SubmissionsFitTheForm' /\ VisitorsAreCurrent'
  BY PublicFactsKept DEF TypeOK
<1>4. EditorsHoldDrafts'
  BY DEF TypeOK, EditorsHoldDrafts
<1> QED
  BY <1>1, <1>2, <1>3, <1>4

\* IInv is kept when an owner's request locks a draft.
LEMMA LockDraftInv ==
    ASSUME IInv, NEW e \in Editors, NEW f \in Forms, NEW next \in {"delete", "list", "remove"},
           LockDraft(e, f, next)
    PROVE  IInv'
<1> USE DEF IInv, LockDraft, Bring
<1>1. TypeOK'
  BY BoundAssumption DEF TypeOK, Steps, visitorVars
<1>2. FieldsAreOneList' /\ PublishedHasFields' /\ NoOrphanFields'
  BY RowFactsKept
<1>3. SubmissionsFitTheForm' /\ VisitorsAreCurrent'
  BY PublicFactsKept
<1>4. EditorsHoldDrafts'
  BY FreeAssumption, BoundAssumption DEF TypeOK, EditorsHoldDrafts
<1> QED
  BY <1>1, <1>2, <1>3, <1>4

\* IInv is kept when replaceFields deletes the old rows.
LEMMA DeleteFieldsInv ==
    ASSUME IInv, NEW e \in Editors, DeleteFields(e)
    PROVE  IInv'
<1> USE DEF IInv, DeleteFields
<1>1. TypeOK'
  BY DEF TypeOK, Steps, visitorVars
<1>2. FieldsAreOneList' /\ PublishedHasFields' /\ NoOrphanFields'
  BY RowFactsKept
<1>3. SubmissionsFitTheForm' /\ VisitorsAreCurrent'
  BY PublicFactsKept
<1>4. EditorsHoldDrafts'
  BY DEF TypeOK, EditorsHoldDrafts
<1> QED
  BY <1>1, <1>2, <1>3, <1>4

\* IInv is kept when replaceFields inserts the new rows and commits.
LEMMA InsertFieldsInv ==
    ASSUME IInv, NEW e \in Editors, InsertFields(e)
    PROVE  IInv'
<1> USE DEF IInv, InsertFields, Released
<1>1. /\ target[e] \in Forms /\ status[target[e]] = "draft"
      /\ seen[e] = fields[target[e]] /\ save[e] \in 1..MaxSaves
  BY DEF TypeOK, EditorsHoldDrafts
<1>2. fields' = [fields EXCEPT ![target[e]] = {save[e]}]
  BY <1>1 DEF TypeOK
<1>3. TypeOK'
  BY <1>1, <1>2 DEF TypeOK, Steps, visitorVars
<1>4. FieldsAreOneList' /\ PublishedHasFields' /\ NoOrphanFields'
  BY <1>1, <1>2 DEF TypeOK, FieldsAreOneList, PublishedHasFields, NoOrphanFields
<1>5. SubmissionsFitTheForm' /\ VisitorsAreCurrent'
  BY <1>1, <1>2, PublicFactsKept DEF TypeOK
<1>6. EditorsHoldDrafts'
  BY <1>1, <1>2, EditorsExclude DEF TypeOK, EditorsHoldDrafts
<1> QED
  BY <1>3, <1>4, <1>5, <1>6

\* IInv is kept when publish lists the fields.
LEMMA ListFieldsInv ==
    ASSUME IInv, NEW e \in Editors, ListFields(e)
    PROVE  IInv'
<1> USE DEF IInv, ListFields, Released
<1>1. TypeOK'
  BY DEF TypeOK, Steps, visitorVars
<1>2. FieldsAreOneList' /\ PublishedHasFields' /\ NoOrphanFields'
  BY RowFactsKept
<1>3. SubmissionsFitTheForm' /\ VisitorsAreCurrent'
  BY PublicFactsKept
<1>4. EditorsHoldDrafts'
  BY EditorsExclude DEF TypeOK, EditorsHoldDrafts
<1> QED
  BY <1>1, <1>2, <1>3, <1>4

\* IInv is kept when a form is published.
LEMMA PublishInv ==
    ASSUME IInv, NEW e \in Editors, Publish(e)
    PROVE  IInv'
<1> USE DEF IInv, Publish, Released
<1>1. target[e] \in Forms /\ status[target[e]] = "draft" /\ fields[target[e]] # {}
  BY DEF TypeOK, EditorsHoldDrafts
<1>2. TypeOK'
  BY <1>1 DEF TypeOK, Steps, visitorVars
<1>3. FieldsAreOneList' /\ PublishedHasFields' /\ NoOrphanFields'
  BY <1>1 DEF TypeOK, FieldsAreOneList, PublishedHasFields, NoOrphanFields
<1>4. SubmissionsFitTheForm' /\ VisitorsAreCurrent'
  BY <1>1, PublicFactsKept DEF TypeOK
<1>5. EditorsHoldDrafts'
  BY <1>1, EditorsExclude DEF TypeOK, EditorsHoldDrafts
<1> QED
  BY <1>2, <1>3, <1>4, <1>5

\* IInv is kept when a draft is deleted.
LEMMA RemoveInv ==
    ASSUME IInv, NEW e \in Editors, Remove(e)
    PROVE  IInv'
<1> USE DEF IInv, Remove, Released
<1>1. target[e] \in Forms /\ status[target[e]] = "draft"
  BY DEF TypeOK, EditorsHoldDrafts
<1>2. TypeOK'
  BY <1>1 DEF TypeOK, Steps, visitorVars
<1>3. FieldsAreOneList' /\ PublishedHasFields' /\ NoOrphanFields'
  BY <1>1 DEF TypeOK, FieldsAreOneList, PublishedHasFields, NoOrphanFields
<1>4. SubmissionsFitTheForm' /\ VisitorsAreCurrent'
  BY <1>1, PublicFactsKept DEF TypeOK
<1>5. EditorsHoldDrafts'
  BY <1>1, EditorsExclude DEF TypeOK, EditorsHoldDrafts
<1> QED
  BY <1>2, <1>3, <1>4, <1>5

\* IInv is kept when an owner's transaction rolls back.
LEMMA EditorAbortsInv ==
    ASSUME IInv, NEW e \in Editors, EditorAborts(e)
    PROVE  IInv'
<1> USE DEF IInv, EditorAborts, Released
<1>1. TypeOK'
  BY BoundAssumption DEF TypeOK, Steps, visitorVars
<1>2. FieldsAreOneList' /\ PublishedHasFields' /\ NoOrphanFields'
  BY RowFactsKept
<1>3. SubmissionsFitTheForm' /\ VisitorsAreCurrent'
  BY PublicFactsKept
<1>4. EditorsHoldDrafts'
  BY EditorsExclude DEF TypeOK, EditorsHoldDrafts
<1> QED
  BY <1>1, <1>2, <1>3, <1>4

\* IInv is kept when a visitor reads or posts: no row but `submissions` is
\* written, and what is read of a published form is what it will stay.
LEMMA VisitorInv ==
    ASSUME IInv, NEW v \in Visitors, VisitorStep(v)
    PROVE  IInv'
<1> USE DEF IInv, editorVars
<1>1. UNCHANGED <<status, fields, lock, editorVars, aborts>>
  BY DEF VisitorStep, OpenForm, ShowFields, PostAnswers, Validate, InsertSubmission,
     PostFails, Leave
<1>2. FieldsAreOneList' /\ PublishedHasFields' /\ NoOrphanFields'
  BY <1>1, RowFactsKept
<1>3. EditorsHoldDrafts'
  BY <1>1 DEF EditorsHoldDrafts
<1>4. TypeOK' /\ VisitorsAreCurrent' /\ SubmissionsFitTheForm'
  <2> USE DEF TypeOK, VisitorsAreCurrent, SubmissionsFitTheForm, PublicStatus, PublicFields,
              Stages
  <2>1. ASSUME NEW f \in Forms, OpenForm(v, f)
        PROVE  TypeOK' /\ VisitorsAreCurrent' /\ SubmissionsFitTheForm'
    BY <1>1, <2>1 DEF OpenForm
  <2>2. CASE ShowFields(v)
    BY <1>1, <2>2 DEF ShowFields
  <2>3. CASE PostAnswers(v)
    BY <1>1, <2>3 DEF PostAnswers
  <2>4. CASE Validate(v)
    BY <1>1, <2>4 DEF Validate
  <2>5. CASE InsertSubmission(v)
    <3>1. /\ form[v] \in Forms /\ status[form[v]] = "published"
          /\ shown[v] = fields[form[v]] /\ validated[v] = fields[form[v]]
      BY <2>5 DEF InsertSubmission
    <3>2. [form |-> form[v], shown |-> shown[v], validated |-> validated[v]] \in Submissions
      BY DEF Submissions
    <3>3. TypeOK'
      BY <1>1, <2>5, <3>2 DEF InsertSubmission
    <3>4. VisitorsAreCurrent'
      BY <1>1, <2>5 DEF InsertSubmission
    <3>5. SubmissionsFitTheForm'
      BY <1>1, <2>5, <3>1 DEF InsertSubmission
    <3> QED
      BY <3>3, <3>4, <3>5
  <2>6. CASE PostFails(v)
    BY <1>1, <2>6 DEF PostFails
  <2>7. CASE Leave(v)
    BY <1>1, <2>7 DEF Leave
  <2> QED
    BY <2>1, <2>2, <2>3, <2>4, <2>5, <2>6, <2>7 DEF VisitorStep
<1> QED
  BY <1>2, <1>3, <1>4

\* Every step keeps IInv.
LEMMA NextInv == IInv /\ [Next]_vars => IInv'
<1> SUFFICES ASSUME IInv, [Next]_vars PROVE IInv'
  OBVIOUS
<1>1. ASSUME NEW f \in Forms, Create(f) PROVE IInv'
  BY <1>1, CreateInv
<1>2. ASSUME NEW e \in Editors, EditorStep(e) PROVE IInv'
  BY <1>2, LockDraftInv, DeleteFieldsInv, InsertFieldsInv, ListFieldsInv, PublishInv,
     RemoveInv, EditorAbortsInv DEF EditorStep
<1>3. ASSUME NEW v \in Visitors, VisitorStep(v) PROVE IInv'
  BY <1>3, VisitorInv
<1>4. CASE UNCHANGED vars
  BY <1>4 DEF vars, editorVars, visitorVars, IInv, TypeOK, FieldsAreOneList, PublishedHasFields,
     SubmissionsFitTheForm, NoOrphanFields, EditorsHoldDrafts, VisitorsAreCurrent
<1> QED
  BY <1>1, <1>2, <1>3, <1>4 DEF Next

\* No step changes a published form: an editor's is on a draft.
LEMMA FrozenStep ==
    ASSUME IInv, [Next]_vars, NEW f \in Forms, status[f] = "published"
    PROVE  status'[f] = "published" /\ fields'[f] = fields[f]
<1> USE DEF IInv, TypeOK
<1>1. ASSUME NEW g \in Forms, Create(g)
      PROVE  status'[f] = "published" /\ fields'[f] = fields[f]
  BY <1>1 DEF Create
<1>2. ASSUME NEW e \in Editors, EditorStep(e)
      PROVE  status'[f] = "published" /\ fields'[f] = fields[f]
  <2>1. step[e] # "idle" => target[e] # f
    BY DEF EditorsHoldDrafts
  <2> QED
    BY <1>2, <2>1 DEF EditorStep, LockDraft, DeleteFields, InsertFields, ListFields, Publish,
       Remove, EditorAborts
<1>3. ASSUME NEW v \in Visitors, VisitorStep(v)
      PROVE  status'[f] = "published" /\ fields'[f] = fields[f]
  BY <1>3 DEF VisitorStep, OpenForm, ShowFields, PostAnswers, Validate, InsertSubmission,
     PostFails, Leave
<1>4. CASE UNCHANGED vars
  BY <1>4 DEF vars
<1> QED
  BY <1>1, <1>2, <1>3, <1>4 DEF Next

-----------------------------------------------------------------------------
(* Theorems *)

\* IInv holds in every reachable state.
THEOREM InductiveInvariant == Spec => []IInv
BY InitInv, NextInv, PTL DEF Spec

\* The variables keep their types.
THEOREM TypeCorrectness == Spec => []TypeOK
<1>1. IInv => TypeOK
  BY DEF IInv
<1> QED
  BY <1>1, InductiveInvariant, PTL

\* Overlapping saves never mix their lists.
THEOREM OneList == Spec => []FieldsAreOneList
<1>1. IInv => FieldsAreOneList
  BY DEF IInv
<1> QED
  BY <1>1, InductiveInvariant, PTL

\* No form is published without fields.
THEOREM PublishedWithFields == Spec => []PublishedHasFields
<1>1. IInv => PublishedHasFields
  BY DEF IInv
<1> QED
  BY <1>1, InductiveInvariant, PTL

\* Every submission fits the form as it is now, and as its visitor saw it.
THEOREM SubmissionsFit == Spec => []SubmissionsFitTheForm
<1>1. IInv => SubmissionsFitTheForm
  BY DEF IInv
<1> QED
  BY <1>1, InductiveInvariant, PTL

\* No request, however early it began, changes a published form.
THEOREM PublishedStaysFrozen == Spec => PublishedIsFrozen
<1>1. IInv /\ [Next]_vars => [\A f \in Forms : status[f] = "published" =>
                                 status'[f] = "published" /\ fields'[f] = fields[f]]_vars
  BY FrozenStep
<1> QED
  BY <1>1, InductiveInvariant, PTL DEF Spec, PublishedIsFrozen

-----------------------------------------------------------------------------
(* Lemmas about PublicPage *)

\* What visitor v does on the page, or the API does for it.
VisitorAct(v) ==
    \/ \E f \in Forms : Open(v, f)
    \/ Load(v) \/ Close(v) \/ Submit(v) \/ PostByHand(v) \/ GiveUp(v)
    \/ Refuse(v) \/ ServePost(v) \/ ServeValidate(v) \/ ServeInsert(v) \/ ServeFails(v)
    \/ Answered(v) \/ AnswerLost(v)

\* Every step of the page and its requests is one of Forms, or none there.
LEMMA PageStepIsStep == [PageNext]_allVars => [Next]_vars
<1> SUFFICES ASSUME [PageNext]_allVars PROVE [Next]_vars
  OBVIOUS
<1>1. CASE OwnersStep
  BY <1>1 DEF OwnersStep, Next
<1>2. ASSUME NEW v \in Visitors, VisitorAct(v) PROVE [Next]_vars
  <2>1. VisitorStep(v) \/ UNCHANGED vars
    BY <1>2 DEF VisitorAct, VisitorStep, Open, Load, Close, Submit, PostByHand, Post, GiveUp, Refuse,
       ServePost, ServeValidate, ServeInsert, ServeFails, Answered, AnswerLost
  <2> QED
    BY <2>1 DEF Next
<1>3. CASE UNCHANGED allVars
  BY <1>3 DEF allVars
<1> QED
  BY <1>1, <1>2, <1>3 DEF PageNext, VisitorAct

\* A visitor's step is of its own stage and request only, which go on from
\* one of the API's queries to the next and end with the last.
LEMMA RequestStep ==
    ASSUME IInv, RequestsAreConsistent, NEW v \in Visitors, VisitorAct(v)
    PROVE  RequestsAreConsistent'
<1> USE DEF RequestsAreConsistent, UnderWay, Finish, requestVars, tallyVars, vars, visitorVars
<1>1. stage \in [Visitors -> Stages]
  BY DEF IInv, TypeOK
<1>2. ASSUME NEW f \in Forms, Open(v, f) PROVE RequestsAreConsistent'
  BY <1>1, <1>2 DEF Open, OpenForm
<1>3. CASE Load(v)
  BY <1>1, <1>3 DEF Load, ShowFields
<1>4. CASE Close(v)
  BY <1>1, <1>4 DEF Close, Leave
<1>5. ASSUME NEW b, Post(v, b), stage[v] = "filling" PROVE RequestsAreConsistent'
  BY <1>1, <1>5 DEF Post
<1>6. CASE Submit(v) \/ PostByHand(v)
  BY <1>5, <1>6 DEF Submit, PostByHand
<1>7. CASE GiveUp(v)
  BY <1>1, <1>7 DEF GiveUp
<1>8. CASE Refuse(v)
  BY <1>1, <1>8 DEF Refuse
<1>9. CASE ServePost(v)
  BY <1>1, <1>9 DEF ServePost, PostAnswers
<1>10. CASE ServeValidate(v)
  <2>1. stage'[v] \in {"valid", "filling"} /\ \A u \in Visitors : u # v => stage'[u] = stage[u]
    BY <1>1, <1>10 DEF ServeValidate, Validate
  <2> QED
    BY <1>1, <1>10, <2>1 DEF ServeValidate, Validate
<1>11. CASE ServeInsert(v)
  BY <1>1, <1>11 DEF ServeInsert, InsertSubmission
<1>12. CASE ServeFails(v)
  BY <1>1, <1>12 DEF ServeFails, PostFails
<1>13. CASE Answered(v)
  BY <1>1, <1>13 DEF Answered
<1>14. CASE AnswerLost(v)
  BY <1>1, <1>14 DEF AnswerLost
<1> QED
  BY <1>2, <1>3, <1>4, <1>6, <1>7, <1>8, <1>9, <1>10, <1>11, <1>12, <1>13, <1>14 DEF VisitorAct

\* A row is inserted, its answer lost and its thanks shown one at a time.
LEMMA ThanksStep ==
    ASSUME IInv, RequestsAreConsistent, ThanksAreAccountedFor, NEW v \in Visitors, VisitorAct(v)
    PROVE  ThanksAreAccountedFor'
<1> USE DEF RequestsAreConsistent, ThanksAreAccountedFor, UnderWay, Finish, requestVars, tallyVars
<1>1. CASE (\E f \in Forms : Open(v, f)) \/ Load(v) \/ Close(v)
  BY <1>1 DEF Open, Load, Close
<1>2. ASSUME NEW b, Post(v, b) PROVE ThanksAreAccountedFor'
  BY <1>2 DEF Post
<1>3. CASE Submit(v) \/ PostByHand(v)
  BY <1>2, <1>3 DEF Submit, PostByHand
<1>4. CASE GiveUp(v)
  BY <1>4 DEF GiveUp
<1>5. CASE Refuse(v)
  BY <1>5 DEF Refuse
<1>6. CASE ServePost(v)
  BY <1>6 DEF ServePost, PostAnswers
<1>7. CASE ServeValidate(v)
  BY <1>7 DEF ServeValidate, Validate
<1>8. CASE ServeInsert(v)
  BY <1>8 DEF ServeInsert, InsertSubmission
<1>9. CASE ServeFails(v)
  BY <1>9 DEF ServeFails, PostFails
<1>10. CASE Answered(v)
  <2>1. CASE reply[v] = "ok"
    BY <1>10, <2>1 DEF Answered
  <2>2. CASE reply[v] = "error"
    BY <1>10, <2>2 DEF Answered
  <2> QED
    BY <1>10, <2>1, <2>2 DEF Answered
<1>11. CASE AnswerLost(v)
  BY <1>11 DEF AnswerLost
<1> QED
  BY <1>1, <1>3, <1>4, <1>5, <1>6, <1>7, <1>8, <1>9, <1>10, <1>11 DEF VisitorAct

\* What is sent does not change while it is under way, nor what the page shows.
LEMMA SentStep ==
    ASSUME IInv, RequestsAreConsistent, SentAnswersAreAccepted, NEW v \in Visitors, VisitorAct(v)
    PROVE  SentAnswersAreAccepted'
<1> USE DEF RequestsAreConsistent, UnderWay, Finish, requestVars, tallyVars, vars, visitorVars
<1>1. shown \in [Visitors -> SUBSET (1..MaxSaves)]
  BY DEF IInv, TypeOK
<1>2. CASE Submit(v)
  <2>1. PICK a \in [Labels(Questions(shown[v])) -> Values] :
             PageAccepts(Questions(shown[v]), a) /\ Post(v, a)
    BY <1>2 DEF Submit
  <2>2. /\ body'[v] = a /\ shown' = shown
        /\ \A u \in Visitors : u # v => body'[u] = body[u] /\ reply'[u] = reply[u]
    BY <2>1 DEF Post
  <2>3. DOMAIN a = Labels(Questions(shown[v]))
    OBVIOUS
  <2> QED
    BY <2>1, <2>2, <2>3 DEF SentAnswersAreAccepted
<1>3. CASE ~Submit(v)
  <2>1. \A u \in Visitors \ Scripts : UnderWay(u)' =>
          UnderWay(u) /\ body'[u] = body[u] /\ shown'[u] = shown[u]
    <3>1. CASE (\E f \in Forms : Open(v, f)) \/ Close(v)
      BY <3>1 DEF Open, OpenForm, Close, Leave
    <3>2. CASE Load(v)
      BY <1>1, <3>2 DEF Load, ShowFields
    <3>3. CASE PostByHand(v)
      BY <3>3 DEF PostByHand, Post
    <3>4. CASE GiveUp(v)
      BY <3>4 DEF GiveUp
    <3>5. CASE Refuse(v)
      BY <3>5 DEF Refuse
    <3>6. CASE ServePost(v)
      BY <3>6 DEF ServePost, PostAnswers
    <3>7. CASE ServeValidate(v)
      BY <3>7 DEF ServeValidate, Validate
    <3>8. CASE ServeInsert(v)
      BY <3>8 DEF ServeInsert, InsertSubmission
    <3>9. CASE ServeFails(v)
      BY <3>9 DEF ServeFails, PostFails
    <3>10. CASE Answered(v)
      BY <3>10 DEF Answered
    <3>11. CASE AnswerLost(v)
      BY <3>11 DEF AnswerLost
    <3> QED
      BY <1>3, <3>1, <3>2, <3>3, <3>4, <3>5, <3>6, <3>7, <3>8, <3>9, <3>10, <3>11 DEF VisitorAct
  <2> QED
    BY <2>1 DEF SentAnswersAreAccepted
<1> QED
  BY <1>2, <1>3

\* Answers that are valid were so when they were validated, against the
\* fields that the form still has.
LEMMA ValidStep ==
    ASSUME IInv, [Next]_vars, RequestsAreConsistent, ValidAnswersFit, NEW v \in Visitors, VisitorAct(v)
    PROVE  ValidAnswersFit'
<1> USE DEF RequestsAreConsistent, UnderWay, Finish, requestVars, tallyVars, vars, visitorVars
<1> SUFFICES ASSUME NEW u \in Visitors, stage'[u] = "valid"
             PROVE  Fits(Questions(fields[form[u]]), body[u])'
  BY DEF ValidAnswersFit
<1>1. stage \in [Visitors -> Stages] /\ form \in [Visitors -> Forms]
  BY DEF IInv, TypeOK
<1>2. /\ stage[u] \in {"posted", "valid"} /\ form'[u] = form[u] /\ body'[u] = body[u]
      /\ Fits(Questions(fields[form[u]]), body[u])
  <2>1. CASE ServeValidate(v)
    <3>1. /\ stage[v] = "posted" /\ form' = form /\ body' = body
          /\ \A w \in Visitors : w # v => stage'[w] = stage[w]
          /\ stage'[v] = IF Fits(Questions(validated'[v]), body[v]) THEN "valid" ELSE "filling"
          /\ validated'[v] = PublicFields(form[v])
      BY <1>1, <2>1 DEF ServeValidate, Validate, IInv, TypeOK
    <3>2. PublicFields(form[v]) = fields[form[v]]
      BY <1>1, <3>1 DEF PublicFields, PublicStatus, IInv, VisitorsAreCurrent
    <3>3. CASE u = v
      BY <3>1, <3>2, <3>3
    <3>4. CASE u # v
      BY <3>1, <3>4 DEF ValidAnswersFit
    <3> QED
      BY <3>3, <3>4
  <2>2. CASE ~ServeValidate(v)
    <3>1. stage[u] = "valid" /\ form'[u] = form[u] /\ body'[u] = body[u]
      <4> USE <1>1
      <4>1. ASSUME NEW f \in Forms, Open(v, f)
            PROVE  stage[u] = "valid" /\ form'[u] = form[u] /\ body'[u] = body[u]
        BY <4>1 DEF Open, OpenForm
      <4>2. CASE Load(v)
        BY <4>2 DEF Load, ShowFields
      <4>3. CASE Close(v)
        BY <4>3 DEF Close, Leave
      <4>4. CASE Submit(v) \/ PostByHand(v)
        BY <4>4 DEF Submit, PostByHand, Post
      <4>5. CASE GiveUp(v) \/ Refuse(v)
        BY <4>5 DEF GiveUp, Refuse
      <4>6. CASE ServePost(v)
        BY <4>6 DEF ServePost, PostAnswers
      <4>7. CASE ServeInsert(v)
        BY <4>7 DEF ServeInsert, InsertSubmission
      <4>8. CASE ServeFails(v)
        BY <4>8 DEF ServeFails, PostFails
      <4>9. CASE Answered(v)
        BY <4>9 DEF Answered
      <4>10. CASE AnswerLost(v)
        BY <4>10 DEF AnswerLost
      <4> QED
        BY <2>2, <4>1, <4>2, <4>3, <4>4, <4>5, <4>6, <4>7, <4>8, <4>9, <4>10 DEF VisitorAct
    <3> QED
      BY <3>1 DEF ValidAnswersFit
  <2> QED
    BY <2>1, <2>2
<1>3. form[u] \in Forms /\ status[form[u]] = "published"
  BY <1>1, <1>2 DEF IInv, VisitorsAreCurrent
<1>4. fields'[form[u]] = fields[form[u]]
  BY <1>3, FrozenStep
<1>5. Questions(fields[form[u]])' = Questions(fields[form[u]])
  BY <1>2, <1>4 DEF Questions
<1> QED
  BY <1>2, <1>5

\* What is saved was valid, and the form it is for does not change.
LEMMA SavedStep ==
    ASSUME IInv, [Next]_vars, ValidAnswersFit, SavedAreToPublished, SavedAnswersFit,
           \/ UNCHANGED saved
           \/ \E v \in Visitors : ServeInsert(v)
    PROVE  SavedAreToPublished' /\ SavedAnswersFit'
<1> SUFFICES ASSUME NEW s \in saved'
             PROVE  /\ s.form \in Forms /\ status'[s.form] = "published"
                    /\ Fits(Questions(fields'[s.form]), s.answers)
  BY DEF SavedAreToPublished, SavedAnswersFit, Questions
<1>1. /\ s.form \in Forms /\ status[s.form] = "published"
      /\ Fits(Questions(fields[s.form]), s.answers)
  <2>1. CASE s \in saved
    BY <2>1 DEF SavedAreToPublished, SavedAnswersFit
  <2>2. CASE s \notin saved
    <3>1. PICK v \in Visitors : ServeInsert(v)
      BY <2>2
    <3>2. stage[v] = "valid" /\ s = [form |-> form[v], answers |-> body[v]]
      BY <2>2, <3>1 DEF ServeInsert, InsertSubmission
    <3>3. s.form = form[v] /\ s.answers = body[v]
      BY <3>2
    <3>4. form[v] \in Forms /\ status[form[v]] = "published"
      BY <3>2 DEF IInv, TypeOK, VisitorsAreCurrent
    <3> QED
      BY <3>2, <3>3, <3>4 DEF ValidAnswersFit
  <2> QED
    BY <2>1, <2>2
<1>2. status'[s.form] = "published" /\ fields'[s.form] = fields[s.form]
  BY <1>1, FrozenStep
<1> QED
  BY <1>1, <1>2

\* A page nobody has opened satisfies PageIInv.
LEMMA PageInitInv == PageInit => PageIInv
<1> SUFFICES ASSUME PageInit PROVE PageIInv
  OBVIOUS
<1>1. IInv
  BY InitInv DEF PageInit
<1>2. RequestsAreConsistent
  BY DEF Init, PageInit, RequestsAreConsistent, UnderWay
<1>3. ThanksAreAccountedFor /\ SentAnswersAreAccepted
  BY DEF PageInit, ThanksAreAccountedFor, SentAnswersAreAccepted, UnderWay
<1>4. ValidAnswersFit /\ SavedAreToPublished /\ SavedAnswersFit
  BY DEF Init, PageInit, ValidAnswersFit, SavedAreToPublished, SavedAnswersFit
<1> QED
  BY <1>1, <1>2, <1>3, <1>4 DEF PageIInv

\* Every step keeps PageIInv.
LEMMA PageNextInv == PageIInv /\ [PageNext]_allVars => PageIInv'
<1> SUFFICES ASSUME PageIInv, [PageNext]_allVars PROVE PageIInv'
  OBVIOUS
<1> USE DEF PageIInv
<1>1. [Next]_vars
  BY PageStepIsStep
<1>2. IInv'
  BY <1>1, NextInv
<1>3. ASSUME NEW v \in Visitors, VisitorAct(v) PROVE PageIInv'
  <2>1. RequestsAreConsistent' /\ ThanksAreAccountedFor' /\ SentAnswersAreAccepted'
    BY <1>3, RequestStep, ThanksStep, SentStep
  <2>2. ValidAnswersFit'
    BY <1>1, <1>3, ValidStep
  <2>3. UNCHANGED saved \/ ServeInsert(v)
    BY <1>3 DEF VisitorAct, Open, Load, Close, Submit, PostByHand, Post, GiveUp, Refuse,
       ServePost, ServeValidate, ServeInsert, ServeFails, Answered, AnswerLost, tallyVars
  <2>4. SavedAreToPublished' /\ SavedAnswersFit'
    BY <1>1, <2>3, SavedStep
  <2> QED
    BY <1>2, <2>1, <2>2, <2>4
<1>4. ASSUME UNCHANGED visitorVars, UNCHANGED <<pageVars, requestVars, tallyVars>> PROVE PageIInv'
  <2>1. RequestsAreConsistent' /\ ThanksAreAccountedFor' /\ SentAnswersAreAccepted'
    BY <1>4 DEF RequestsAreConsistent, ThanksAreAccountedFor, SentAnswersAreAccepted, UnderWay,
       Questions, visitorVars, requestVars, tallyVars
  <2>2. ValidAnswersFit'
    <3> SUFFICES ASSUME NEW u \in Visitors, stage'[u] = "valid"
                 PROVE  Fits(Questions(fields[form[u]]), body[u])'
      BY DEF ValidAnswersFit
    <3>1. stage[u] = "valid" /\ form' = form /\ body' = body
      BY <1>4 DEF visitorVars, requestVars
    <3>2. form[u] \in Forms /\ status[form[u]] = "published"
      BY <3>1 DEF IInv, TypeOK, VisitorsAreCurrent
    <3>3. fields'[form[u]] = fields[form[u]]
      BY <1>1, <3>2, FrozenStep
    <3>4. Questions(fields[form[u]])' = Questions(fields[form[u]])
      BY <3>1, <3>3 DEF Questions
    <3> QED
      BY <3>1, <3>4 DEF ValidAnswersFit
  <2>3. SavedAreToPublished' /\ SavedAnswersFit'
    BY <1>1, <1>4, SavedStep DEF tallyVars
  <2> QED
    BY <1>2, <2>1, <2>2, <2>3
<1>5. CASE OwnersStep
  <2>1. UNCHANGED visitorVars
    BY <1>5 DEF OwnersStep, Create, EditorStep, LockDraft, DeleteFields, InsertFields, ListFields,
       Publish, Remove, EditorAborts
  <2> QED
    BY <1>4, <1>5, <2>1 DEF OwnersStep
<1>6. CASE UNCHANGED allVars
  BY <1>4, <1>6 DEF allVars, vars
<1> QED
  BY <1>3, <1>5, <1>6 DEF PageNext, VisitorAct

-----------------------------------------------------------------------------
(* Theorems about PublicPage *)

\* The page and its requests do to the forms what Forms allows, and nothing else.
THEOREM PageImplementsForms == PageSpec => Spec
<1>1. PageInit => Init
  BY DEF PageInit
<1> QED
  BY <1>1, PageStepIsStep, PTL DEF PageSpec, Spec

\* PageIInv holds in every reachable state.
THEOREM PageInvariant == PageSpec => []PageIInv
BY PageInitInv, PageNextInv, PTL DEF PageSpec

\* Thanks are for what was saved, and what was saved and not thanked for is
\* what a visitor was never told of.
THEOREM ThanksAreForSaved == PageSpec => []ThanksAreAccountedFor
<1>1. PageIInv => ThanksAreAccountedFor
  BY DEF PageIInv
<1> QED
  BY <1>1, PageInvariant, PTL

\* What is saved fits the form, whoever posted it.
THEOREM AnswersFit == PageSpec => []SavedAnswersFit
<1>1. PageIInv => SavedAnswersFit
  BY DEF PageIInv
<1> QED
  BY <1>1, PageInvariant, PTL

\* The API refuses nothing that the page accepts, but for the length of texts.
THEOREM PageIsAsStrict == PageSpec => []PageIsNoLaxer
<1>1. PageIInv => PageIsNoLaxer
  <2> SUFFICES ASSUME PageIInv, NEW v \in Visitors \ Scripts, stage[v] = "posted",
                      TooLong(Questions(PublicFields(form[v])), body[v]) = {}
               PROVE  Fits(Questions(PublicFields(form[v])), body[v])
    BY DEF PageIsNoLaxer
  <2>1. PublicFields(form[v]) = shown[v]
    BY DEF PageIInv, IInv, TypeOK, VisitorsAreCurrent, PublicFields, PublicStatus
  <2>2. /\ PageAccepts(Questions(shown[v]), body[v])
        /\ DOMAIN body[v] = Labels(Questions(shown[v]))
    BY DEF PageIInv, RequestsAreConsistent, SentAnswersAreAccepted
  <2>3. Missing(Questions(shown[v]), body[v]) = {}
    BY <2>2 DEF PageAccepts, Missing
  <2> QED
    BY <2>1, <2>2, <2>3 DEF Fits, PageAccepts
<1> QED
  BY <1>1, PageInvariant, PTL
=============================================================================
