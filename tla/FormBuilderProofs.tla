--------------------------- MODULE FormBuilderProofs ---------------------------
(***************************************************************************)
(* Theorems about FormBuilder, for any sets of lists and any bounds: IInv  *)
(* is inductive, and the safety properties follow from it.                 *)
(***************************************************************************)
EXTENDS FormBuilder, TLAPS

-----------------------------------------------------------------------------
(* Lemmas *)

\* What IInv says of requests and of the saved list does not depend on the
\* editor, the cache or the fetch.
LEMMA RequestFactsKept ==
    ASSUME PageWaitsForOneSave, SavesAreComplete, ServerListIsKnown,
           UNCHANGED <<form, page, lastSaved, requests, misled>>
    PROVE  PageWaitsForOneSave' /\ SavesAreComplete' /\ ServerListIsKnown'
BY DEF PageWaitsForOneSave, SavesAreComplete, ServerListIsKnown, Announced

\* An action that leaves the form, the saved list and the requests alone and
\* keeps the types and the dialog right keeps IInv.
LEMMA QuietInv ==
    ASSUME IInv, TypeOK', DialogIsOverSavedFields',
           UNCHANGED <<form, page, lastSaved, requests, misled>>
    PROVE  IInv'
BY RequestFactsKept DEF IInv

\* What a page is initialized with is clean, and true of the server unless it
\* is marked as misled.
LEMMA InitializeInv ==
    ASSUME IInv, page # "open", NEW copy \in Copies, Initialize(copy),
           UNCHANGED <<form, requests>>
    PROVE  /\ PageWaitsForOneSave' /\ SavesAreComplete' /\ ServerListIsKnown'
           /\ DialogIsOverSavedFields'
           /\ fields' \in Drafts /\ lastSaved' \in {Tidy(l) : l \in Lists \cup {NoFields}}
           /\ page' = "open" /\ dialog' \in BOOLEAN /\ publicUrl' \in BOOLEAN
           /\ misled' \in BOOLEAN
<1> USE DEF Initialize
<1>1. \A r \in requests : r.heard # "page"
  BY DEF IInv, PageWaitsForOneSave
<1>2. PageWaitsForOneSave' /\ SavesAreComplete'
  BY <1>1 DEF IInv, PageWaitsForOneSave, SavesAreComplete
<1>3. ServerListIsKnown'
  BY <1>1 DEF ServerListIsKnown, Announced
<1>4. DialogIsOverSavedFields'
  BY DEF DialogIsOverSavedFields
<1>5. copy.list \in Lists \cup {NoFields}
  BY DEF Copies
<1>6. fields' \in Drafts /\ lastSaved' \in {Tidy(l) : l \in Lists \cup {NoFields}}
  BY <1>5 DEF Drafts
<1> QED
  BY <1>2, <1>3, <1>4, <1>6

\* Before the page is first opened.
LEMMA InitInv == Init => IInv
<1> SUFFICES ASSUME Init PROVE IInv
  OBVIOUS
<1>1. Tidy(NoFields) \in Drafts /\ Tidy(NoFields) \in {Tidy(l) : l \in Lists \cup {NoFields}}
  BY DEF Drafts
<1>2. cache \in [data : Copies \cup {NoForm}, stale : BOOLEAN, failed : BOOLEAN]
  BY DEF Init
<1>3. fetch \in [phase : {"idle", "asked", "half", "read"}, copy : Copies \cup {NoForm}]
  BY DEF Init
<1>4. sent \in 0..MaxRequests /\ failures \in 0..MaxFailures
  BY BoundsAssumption DEF Init
<1>5. TypeOK
  BY <1>1, <1>2, <1>3, <1>4 DEF Init, TypeOK
<1>6. PageWaitsForOneSave /\ SavesAreComplete /\ ServerListIsKnown /\ DialogIsOverSavedFields
  BY DEF Init, PageWaitsForOneSave, SavesAreComplete, ServerListIsKnown, DialogIsOverSavedFields
<1> QED
  BY <1>5, <1>6 DEF IInv

\* Opening the page, with a copy or without one.
LEMMA OpenInv == ASSUME IInv, Open PROVE IInv'
<1> USE DEF Open
<1>1. CASE cache.data # NoForm
  <2>1. cache.data \in Copies
    BY <1>1 DEF IInv, TypeOK
  <2>2. /\ PageWaitsForOneSave' /\ SavesAreComplete' /\ ServerListIsKnown'
        /\ DialogIsOverSavedFields'
        /\ fields' \in Drafts /\ lastSaved' \in {Tidy(l) : l \in Lists \cup {NoFields}}
        /\ page' = "open" /\ dialog' \in BOOLEAN /\ publicUrl' \in BOOLEAN
        /\ misled' \in BOOLEAN
    BY <1>1, <2>1, InitializeInv
  <2>3. TypeOK'
    BY <1>1, <2>2 DEF IInv, TypeOK, Ask, bounds
  <2> QED
    BY <2>2, <2>3 DEF IInv
<1>2. CASE cache.data = NoForm
  <2>1. TypeOK'
    <3>1. cache' \in [data : Copies \cup {NoForm}, stale : BOOLEAN, failed : BOOLEAN]
      BY <1>2 DEF IInv, TypeOK
    <3>2. fetch' \in [phase : {"idle", "asked", "half", "read"}, copy : Copies \cup {NoForm}]
      BY <1>2 DEF IInv, TypeOK, Ask
    <3>3. fetch'.phase \in {"half", "read"} => fetch'.copy # NoForm
      BY <1>2 DEF IInv, TypeOK, Ask
    <3> QED
      BY <1>2, <3>1, <3>2, <3>3 DEF IInv, TypeOK, bounds
  <2>2. PageWaitsForOneSave' /\ SavesAreComplete' /\ ServerListIsKnown'
    BY <1>2 DEF IInv, PageWaitsForOneSave, SavesAreComplete, ServerListIsKnown
  <2>3. DialogIsOverSavedFields'
    BY <1>2 DEF IInv, DialogIsOverSavedFields
  <2> QED
    BY <2>1, <2>2, <2>3 DEF IInv
<1> QED
  BY <1>1, <1>2

\* Leaving the page: nothing waits at a page any more.
LEMMA LeaveInv == ASSUME IInv, Leave PROVE IInv'
<1> USE DEF Leave
<1>1. \A q \in requests' :
         /\ q \in Requests /\ q.heard # "page"
         /\ q.kind = "save" => q.list \in Lists
  <2> SUFFICES ASSUME NEW r \in requests
               PROVE  LET q == IF r.heard = "page" THEN [r EXCEPT !.heard = "cache"] ELSE r
                      IN  /\ q \in Requests /\ q.heard # "page"
                          /\ q.kind = "save" => q.list \in Lists
    OBVIOUS
  <2> QED
    BY DEF IInv, TypeOK, SavesAreComplete, Requests, Hearers
<1>2. Tidy(NoFields) \in Drafts /\ Tidy(NoFields) \in {Tidy(l) : l \in Lists \cup {NoFields}}
  BY DEF Drafts
<1>3. TypeOK'
  BY <1>1, <1>2 DEF IInv, TypeOK, bounds
<1>4. PageWaitsForOneSave' /\ SavesAreComplete'
  BY <1>1 DEF PageWaitsForOneSave, SavesAreComplete
<1>5. ServerListIsKnown' /\ DialogIsOverSavedFields'
  BY DEF ServerListIsKnown, DialogIsOverSavedFields
<1> QED
  BY <1>3, <1>4, <1>5 DEF IInv

\* The cache and the fetch, as long as no page is initialized.
LEMMA CacheInv ==
    ASSUME IInv, Forget \/ Age \/ Focus \/ ReadForm \/ ReadFields \/ FetchFails
    PROVE  IInv'
<1> USE DEF IInv
<1>1. UNCHANGED <<form, pageVars, requests, sent, misled>>
  BY DEF Forget, Age, Focus, ReadForm, ReadFields, FetchFails, bounds
<1>2. DialogIsOverSavedFields'
  BY <1>1 DEF DialogIsOverSavedFields, IsDirty, pageVars
<1>3. TypeOK'
  <2>1. CASE Forget \/ Age \/ Focus
    <3>1. cache' \in [data : Copies \cup {NoForm}, stale : BOOLEAN, failed : BOOLEAN]
      <4>1. CASE Forget
        BY <4>1 DEF Forget
      <4>2. CASE Age
        BY <4>2 DEF TypeOK, Age
      <4>3. CASE Focus
        <5>1. (cache.failed /\ cache.data # NoForm) \in BOOLEAN
          OBVIOUS
        <5> QED
          BY <4>3, <5>1 DEF TypeOK, Focus
      <4> QED
        BY <2>1, <4>1, <4>2, <4>3
    <3>2. page = "open" => cache'.data # NoForm
      BY <2>1 DEF TypeOK, Forget, Age, Focus
    <3>3. /\ fetch' \in [phase : {"idle", "asked", "half", "read"}, copy : Copies \cup {NoForm}]
          /\ fetch'.phase \in {"half", "read"} => fetch'.copy # NoForm
      BY <2>1 DEF TypeOK, Forget, Age, Focus, Ask
    <3>4. UNCHANGED bounds
      BY <2>1 DEF Forget, Age, Focus
    <3> QED
      BY <1>1, <3>1, <3>2, <3>3, <3>4 DEF TypeOK, pageVars, bounds
  <2>2. CASE ReadForm
    <3>1. [status |-> form.status, list |-> NoFields] \in Copies
      BY <2>2 DEF TypeOK, ReadForm, Copies
    <3> QED
      BY <2>2, <3>1, NoFormAssumption DEF TypeOK, ReadForm, pageVars, bounds
  <2>3. CASE ReadFields
    <3>1. fetch.copy \in Copies
      BY <2>3 DEF TypeOK, ReadFields
    <3>2. [fetch.copy EXCEPT !.list = form.list] \in Copies
      BY <3>1 DEF TypeOK, Copies
    <3> QED
      BY <2>3, <3>2, NoFormAssumption DEF TypeOK, ReadFields, pageVars, bounds
  <2>4. CASE FetchFails
    <3>1. cache' \in [data : Copies \cup {NoForm}, stale : BOOLEAN, failed : BOOLEAN]
      BY <2>4 DEF TypeOK, FetchFails
    <3>2. page = "open" => cache'.data # NoForm
      BY <2>4 DEF TypeOK, FetchFails
    <3>3. failures' \in 0..MaxFailures
      BY <2>4, BoundsAssumption DEF TypeOK, FetchFails
    <3> QED
      BY <1>1, <2>4, <3>1, <3>2, <3>3 DEF TypeOK, FetchFails, pageVars
  <2> QED
    BY <2>1, <2>2, <2>3, <2>4
<1> QED
  BY <1>1, <1>2, <1>3, QuietInv DEF pageVars

\* The arrival of a copy: at a page that waits for it, and at any other.
LEMMA FetchedInv == ASSUME IInv, Fetched PROVE IInv'
<1> USE DEF Fetched
<1>1. fetch.copy \in Copies
  BY DEF IInv, TypeOK
<1>2. CASE page = "loading"
  <2>1. /\ PageWaitsForOneSave' /\ SavesAreComplete' /\ ServerListIsKnown'
        /\ DialogIsOverSavedFields'
        /\ fields' \in Drafts /\ lastSaved' \in {Tidy(l) : l \in Lists \cup {NoFields}}
        /\ page' = "open" /\ dialog' \in BOOLEAN /\ publicUrl' \in BOOLEAN
        /\ misled' \in BOOLEAN
    BY <1>1, <1>2, InitializeInv
  <2>2. TypeOK'
    BY <1>1, <2>1, NoFormAssumption DEF IInv, TypeOK, bounds
  <2> QED
    BY <2>1, <2>2 DEF IInv
<1>3. CASE page # "loading"
  <2>1. TypeOK'
    BY <1>1, <1>3, NoFormAssumption DEF IInv, TypeOK, pageVars, bounds
  <2>2. DialogIsOverSavedFields'
    BY <1>3 DEF IInv, DialogIsOverSavedFields, IsDirty, pageVars
  <2> QED
    BY <1>3, <2>1, <2>2, QuietInv DEF pageVars
<1> QED
  BY <1>2, <1>3

\* Editing is over when the dialog opens, and until it closes.
LEMMA EditorInv ==
    ASSUME IInv, Edit \/ EditOptions \/ OpenDialog \/ CloseDialog
    PROVE  IInv'
<1> USE DEF Edit, EditOptions, OpenDialog, CloseDialog
<1>1. TypeOK'
  BY DEF IInv, TypeOK, bounds
<1>2. DialogIsOverSavedFields'
  BY DEF IInv, DialogIsOverSavedFields, IsDirty, CanPublish, Usable
<1> QED
  BY <1>1, <1>2, QuietInv

\* A request is sent by the open page, a save only when none is pending.
LEMMA SendInv == ASSUME IInv, Save \/ Confirm PROVE IInv'
<1> USE DEF IInv
<1>1. PICK kind \in {"save", "publish"}, list \in Lists \cup {NoFields} :
         /\ Send(kind, list)
         /\ kind = "save" => list \in Lists /\ ~Pending("save")
  BY DEF Save, Confirm, CanSave, Valid
<1>2. page = "open" /\ UNCHANGED <<form, cache, fetch, pageVars, failures, misled>>
  BY DEF Save, Confirm, Usable
<1> DEFINE new == [id |-> sent + 1, kind |-> kind, list |-> list,
                   phase |-> "sent", heard |-> "page"]
<1>3. new \in Requests /\ sent + 1 \in 0..MaxRequests /\ requests' = requests \cup {new} /\ sent' = sent + 1
  BY <1>1, BoundsAssumption DEF Send, TypeOK, Requests, Hearers
<1> HIDE DEF new
<1>4. new.kind = kind /\ new.list = list /\ new.phase = "sent" /\ new.heard = "page"
  BY DEF new
<1>5. TypeOK'
  BY <1>2, <1>3 DEF TypeOK, pageVars
<1>6. PageWaitsForOneSave'
  BY <1>1, <1>2, <1>3, <1>4 DEF PageWaitsForOneSave, Pending, pageVars
<1>7. SavesAreComplete'
  BY <1>1, <1>3, <1>4 DEF SavesAreComplete
<1>8. ServerListIsKnown'
  BY <1>2, <1>3, <1>4 DEF ServerListIsKnown, Announced, pageVars
<1>9. DialogIsOverSavedFields'
  BY <1>2 DEF DialogIsOverSavedFields, IsDirty, pageVars
<1> QED
  BY <1>5, <1>6, <1>7, <1>8, <1>9

\* A request as it is once the server has decided on it.
LEMMA VerdictIsRequest ==
    ASSUME NEW r \in Requests, NEW verdict \in {"accepted", "refused"}
    PROVE  LET q == [r EXCEPT !.phase = verdict]
           IN  /\ q \in Requests /\ q.phase = verdict
               /\ q.kind = r.kind /\ q.list = r.list /\ q.heard = r.heard
BY DEF Requests

\* The server handles a request: an accepted save of the page makes the server
\* hold the announced list, any other accepted save misleads the page.
LEMMA HandleInv == ASSUME IInv, NEW r \in requests, Handle(r) PROVE IInv'
<1> USE DEF IInv
<1>0. PICK ok \in Verdicts(r) :
          /\ requests' = LET others == requests \ {r}
                         IN IF r.heard = "nobody" THEN others
                            ELSE others \cup {[r EXCEPT !.phase = IF ok THEN "accepted" ELSE "refused"]}
          /\ form' = IF ok THEN Effect(r) ELSE form
          /\ misled' = IF ok /\ r.kind = "save" THEN r.heard # "page" ELSE misled
  BY DEF Handle
<1> DEFINE verdict == IF ok THEN "accepted" ELSE "refused"
           q == [r EXCEPT !.phase = verdict]
<1>1. /\ r \in Requests /\ r.phase = "sent" /\ UNCHANGED <<cache, fetch, pageVars, bounds>>
      /\ ok \in BOOLEAN /\ (ok => Accepts(r))
  BY DEF Handle, TypeOK, Verdicts
<1>2. requests' = IF r.heard = "nobody" THEN requests \ {r} ELSE (requests \ {r}) \cup {q}
  BY <1>0
<1>3. /\ q \in Requests /\ q.phase = verdict
      /\ q.kind = r.kind /\ q.list = r.list /\ q.heard = r.heard
  BY <1>1, VerdictIsRequest
<1>4. IF ok
      THEN form' = Effect(r) /\ misled' = IF r.kind = "save" THEN r.heard # "page" ELSE misled
      ELSE UNCHANGED <<form, misled>>
  BY <1>0
<1>5. (verdict = "accepted") <=> ok
  BY <1>1
<1> HIDE DEF q, verdict
<1>6. TypeOK'
  <2>1. form' \in [status : {"draft", "published", "deleted"}, list : Lists \cup {NoFields}]
    BY <1>1, <1>4 DEF TypeOK, Effect, Requests
  <2>2. misled' \in BOOLEAN
    BY <1>4 DEF TypeOK
  <2>3. requests' \subseteq Requests
    BY <1>2, <1>3 DEF TypeOK
  <2> QED
    BY <1>1, <2>1, <2>2, <2>3 DEF TypeOK, pageVars, bounds
<1>7. PageWaitsForOneSave'
  BY <1>1, <1>2, <1>3 DEF PageWaitsForOneSave, pageVars
<1>8. SavesAreComplete'
  BY <1>2, <1>3 DEF SavesAreComplete
<1>9. ServerListIsKnown'
  <2>1. CASE ok /\ r.kind = "save"
    <3> SUFFICES ASSUME r.heard = "page"
                 PROVE  ServerListIsKnown'
      BY <1>4, <2>1 DEF ServerListIsKnown
    <3>1. form'.list = r.list
      BY <1>4, <2>1 DEF Effect, TypeOK
    <3>2. q \in requests' /\ Announced(q)
      BY <1>2, <1>3, <1>5, <2>1 DEF Announced
    <3>3. \A p \in requests' : Announced(p) => p.list = form'.list
      BY <1>2, <1>3, <2>1, <3>1 DEF Announced, PageWaitsForOneSave
    <3> QED
      BY <3>2, <3>3 DEF ServerListIsKnown, Announced
  <2>2. CASE ~(ok /\ r.kind = "save")
    <3>1. form'.list = form.list /\ misled' = misled
          /\ (form'.status # "deleted" => form.status # "deleted")
      BY <1>4, <2>2, <1>1 DEF Effect, Accepts, TypeOK, Requests
    <3>2. ~Announced(r) /\ ~Announced(q)
      BY <1>1, <1>3, <1>5, <2>2 DEF Announced
    <3>3. \A p : p \in requests' /\ Announced(p) <=> p \in requests /\ Announced(p)
      BY <1>2, <3>2
    <3>4. UNCHANGED <<page, lastSaved>>
      BY <1>1 DEF pageVars
    <3> QED
      BY <3>1, <3>3, <3>4 DEF ServerListIsKnown, Announced
  <2> QED
    BY <2>1, <2>2
<1>10. DialogIsOverSavedFields'
  BY <1>1 DEF DialogIsOverSavedFields, IsDirty, pageVars
<1> QED
  BY <1>6, <1>7, <1>8, <1>9, <1>10

\* A change made elsewhere misleads the page if it changes the list.
LEMMA ChangeElsewhereInv == ASSUME IInv, ChangeElsewhere PROVE IInv'
<1> USE DEF IInv, ChangeElsewhere
<1>1. form' \in [status : {"draft", "published", "deleted"}, list : Lists \cup {NoFields}]
  BY DEF TypeOK
<1>2. misled' \in BOOLEAN
  BY DEF TypeOK
<1>3. TypeOK'
  BY <1>1, <1>2 DEF TypeOK, pageVars, bounds
<1>4. PageWaitsForOneSave' /\ SavesAreComplete'
  BY DEF PageWaitsForOneSave, SavesAreComplete, pageVars
<1>5. ServerListIsKnown'
  BY DEF ServerListIsKnown, Announced, pageVars
<1>6. DialogIsOverSavedFields'
  BY DEF DialogIsOverSavedFields, IsDirty, pageVars
<1> QED
  BY <1>3, <1>4, <1>5, <1>6

\* Ending a request whose answer the page does not take for a saved list.
LEMMA EndRequest ==
    ASSUME IInv, NEW r \in requests, requests' = requests \ {r},
           ~Announced(r) \/ misled', misled => misled',
           UNCHANGED <<form, page, lastSaved>>
    PROVE  PageWaitsForOneSave' /\ SavesAreComplete' /\ ServerListIsKnown'
<1>1. PageWaitsForOneSave' /\ SavesAreComplete'
  BY DEF IInv, PageWaitsForOneSave, SavesAreComplete
<1>2. ServerListIsKnown'
  <2> SUFFICES ASSUME ~misled', ~misled
               PROVE  ServerListIsKnown'
    BY DEF ServerListIsKnown
  <2>1. \A p : p \in requests' /\ Announced(p) <=> p \in requests /\ Announced(p)
    OBVIOUS
  <2> QED
    BY <2>1 DEF IInv, ServerListIsKnown, Announced
<1> QED
  BY <1>1, <1>2

\* An invalidation keeps the copy and asks for another one at most.
LEMMA InvalidateType ==
    ASSUME TypeOK, Invalidate
    PROVE  /\ cache' \in [data : Copies \cup {NoForm}, stale : BOOLEAN, failed : BOOLEAN]
           /\ cache'.data = cache.data
           /\ fetch' \in [phase : {"idle", "asked", "half", "read"}, copy : Copies \cup {NoForm}]
           /\ fetch'.phase \in {"half", "read"} => fetch'.copy # NoForm
BY DEF TypeOK, Invalidate, Refetch, Ask

\* The answer of a save makes the page agree with the server, and clean.
LEMMA SaveAnsweredInv == ASSUME IInv, NEW r \in requests, SaveAnswered(r) PROVE IInv'
<1> USE DEF IInv
<1>1. /\ r.kind = "save" /\ r.phase = "accepted" /\ r.list \in Lists
      /\ requests' = requests \ {r}
      /\ UNCHANGED <<form, page, dialog, publicUrl, bounds, misled>>
      /\ Invalidate
  BY DEF SaveAnswered, SavesAreComplete
<1>2. IF r.heard = "page" THEN fields' = Tidy(r.list) /\ lastSaved' = Tidy(r.list)
                          ELSE UNCHANGED <<fields, lastSaved>>
  BY DEF SaveAnswered
<1>3. fields' \in Drafts /\ lastSaved' \in {Tidy(l) : l \in Lists \cup {NoFields}}
  BY <1>1, <1>2 DEF TypeOK, Drafts
<1>4. TypeOK'
  BY <1>1, <1>3, InvalidateType DEF TypeOK, bounds
<1>5. PageWaitsForOneSave' /\ SavesAreComplete'
  BY <1>1 DEF PageWaitsForOneSave, SavesAreComplete
<1>6. ServerListIsKnown'
  <2>1. CASE r.heard = "page"
    <3>1. \A p \in requests' : ~Announced(p)
      BY <1>1, <2>1 DEF PageWaitsForOneSave, Announced
    <3> QED
      BY <1>1, <1>2, <2>1, <3>1 DEF ServerListIsKnown, Announced
  <2>2. CASE r.heard # "page"
    BY <1>1, <1>2, <2>2, EndRequest DEF Announced
  <2> QED
    BY <2>1, <2>2
<1>7. DialogIsOverSavedFields'
  <2>1. CASE r.heard = "page"
    <3>0. fields' = Tidy(r.list) /\ lastSaved' = Tidy(r.list)
      BY <1>2, <2>1
    <3>1. lastSaved'.list = r.list /\ fields' = lastSaved'
      BY <3>0 DEF Tidy
    <3>2. r.list # NoFields
      BY <1>1, ListsAssumption
    <3> QED
      BY <1>1, <3>1, <3>2 DEF DialogIsOverSavedFields, IsDirty
  <2>2. CASE r.heard # "page"
    BY <1>1, <1>2, <2>2 DEF DialogIsOverSavedFields, IsDirty
  <2> QED
    BY <2>1, <2>2
<1> QED
  BY <1>4, <1>5, <1>6, <1>7

\* The answer of a publication.
LEMMA PublishAnsweredInv == ASSUME IInv, NEW r \in requests, PublishAnswered(r) PROVE IInv'
<1>1. /\ r.kind = "publish" /\ requests' = requests \ {r} /\ Invalidate
      /\ UNCHANGED <<form, page, fields, lastSaved, bounds, misled>>
      /\ dialog' \in {dialog, FALSE} /\ publicUrl' \in {publicUrl, TRUE}
  BY DEF PublishAnswered
<1>2. TypeOK'
  BY <1>1, InvalidateType DEF IInv, TypeOK, bounds
<1>3. PageWaitsForOneSave' /\ SavesAreComplete' /\ ServerListIsKnown'
  BY <1>1, EndRequest DEF Announced
<1>4. DialogIsOverSavedFields'
  BY <1>1 DEF IInv, TypeOK, DialogIsOverSavedFields, IsDirty
<1> QED
  BY <1>2, <1>3, <1>4 DEF IInv

\* An error, said by the server or by the connection.
LEMMA ErrorInv ==
    ASSUME IInv, NEW r \in requests, Refused(r) \/ Breaks(r)
    PROVE  IInv'
<1>1. /\ ShowError(r)
      /\ UNCHANGED <<form, cache, fetch, sent>>
      /\ failures' \in 0..MaxFailures
      /\ misled => misled'
      /\ ~Announced(r) \/ misled'
      /\ misled' \in BOOLEAN
  <2>1. CASE Refused(r)
    BY <2>1 DEF IInv, TypeOK, Refused, bounds, Announced
  <2>2. CASE Breaks(r)
    <3>1. failures' \in 0..MaxFailures
      BY <2>2, BoundsAssumption DEF IInv, TypeOK, Breaks
    <3>2. misled' = (misled \/ (r.kind = "save" /\ r.phase = "accepted"))
      BY <2>2 DEF Breaks
    <3>3. misled' \in BOOLEAN /\ (misled => misled') /\ (~Announced(r) \/ misled')
      BY <3>2, Zenon DEF Announced
    <3>4. ShowError(r) /\ UNCHANGED <<form, cache, fetch, sent>>
      BY <2>2 DEF Breaks
    <3> QED
      BY <3>1, <3>3, <3>4
  <2> QED
    BY <2>1, <2>2
<1>2. /\ dialog' \in BOOLEAN /\ (dialog' => dialog)
      /\ UNCHANGED <<page, fields, lastSaved, publicUrl>>
  <2>1. dialog' = (dialog /\ ~(r.kind = "publish" /\ r.heard = "page"))
        /\ UNCHANGED <<page, fields, lastSaved, publicUrl>>
    BY <1>1 DEF ShowError
  <2> QED
    BY <2>1, Zenon
<1>3. DialogIsOverSavedFields'
  BY <1>2 DEF IInv, DialogIsOverSavedFields, IsDirty
<1>4. CASE requests' = requests \ {r}
  <2>1. TypeOK'
    BY <1>1, <1>2, <1>4 DEF IInv, TypeOK
  <2>2. PageWaitsForOneSave' /\ SavesAreComplete' /\ ServerListIsKnown'
    BY <1>1, <1>2, <1>4, EndRequest
  <2> QED
    BY <1>3, <2>1, <2>2 DEF IInv
<1>5. CASE requests' # requests \ {r}
  <2> DEFINE q == [r EXCEPT !.heard = "nobody"]
  <2>1. r.phase = "sent" /\ requests' = (requests \ {r}) \cup {q}
    BY <1>5 DEF Refused, Breaks
  <2>2. r \in Requests
    BY DEF IInv, TypeOK
  <2>3. /\ q \in Requests /\ q.heard = "nobody"
        /\ q.kind = r.kind /\ q.list = r.list
    BY <2>2 DEF Requests, Hearers
  <2> HIDE DEF q
  <2>4. TypeOK'
    BY <1>1, <1>2, <2>1, <2>3 DEF IInv, TypeOK
  <2>5. PageWaitsForOneSave' /\ SavesAreComplete'
    BY <1>2, <2>1, <2>3 DEF IInv, PageWaitsForOneSave, SavesAreComplete
  <2>6. ServerListIsKnown'
    <3>1. \A p : p \in requests' /\ Announced(p) <=> p \in requests /\ Announced(p)
      BY <2>1, <2>3 DEF Announced
    <3> QED
      BY <1>1, <1>2, <3>1 DEF IInv, ServerListIsKnown, Announced
  <2> QED
    BY <1>3, <2>4, <2>5, <2>6 DEF IInv
<1> QED
  BY <1>4, <1>5

-----------------------------------------------------------------------------
(* Theorems *)

\* IInv is an invariant of the form builder: what the page takes for saved is
\* explained at every moment, also while saves and publications are in flight.
THEOREM InductiveInvariant == Spec => []IInv
<1>1. IInv /\ [Next]_vars => IInv'
  <2> SUFFICES ASSUME IInv, [Next]_vars PROVE IInv'
    OBVIOUS
  <2>1. CASE Next
    BY <2>1, OpenInv, LeaveInv, CacheInv, FetchedInv, EditorInv, SendInv, ChangeElsewhereInv,
       HandleInv, SaveAnsweredInv, PublishAnsweredInv, ErrorInv DEF Next, Answer
  <2>2. CASE UNCHANGED vars
    BY <2>2 DEF vars, pageVars, bounds, IInv, TypeOK, PageWaitsForOneSave, SavesAreComplete,
       ServerListIsKnown, Announced, DialogIsOverSavedFields, IsDirty
  <2> QED
    BY <2>1, <2>2
<1> QED
  BY InitInv, <1>1, PTL DEF Spec

\* The types of FormBuilder, among them that an open page has a copy of the form.
THEOREM TypeCorrectness == Spec => []TypeOK
<1>1. IInv => TypeOK
  BY DEF IInv
<1> QED
  BY <1>1, InductiveInvariant, PTL

\* What the page takes for saved is what the server has, unless one of the four
\* things happened that the page cannot know of.
THEOREM SavedListIsTrue == Spec => []SavedIsWhatTheServerHas
<1>1. IInv => SavedIsWhatTheServerHas
  BY DEF IInv, ServerListIsKnown, SavedIsWhatTheServerHas, Announced, Pending
<1> QED
  BY <1>1, InductiveInvariant, PTL

\* The publish dialog is only ever open over a saved list that is not empty.
THEOREM DialogShowsSavedFields == Spec => []DialogIsOverSavedFields
<1>1. IInv => DialogIsOverSavedFields
  BY DEF IInv
<1> QED
  BY <1>1, InductiveInvariant, PTL

\* No fetch takes an edit away from an open page.
THEOREM NoFetchTakesAnEdit == Spec => EditsSurviveRefetch
<1> DEFINE Step == page = "open" /\ page' = "open" /\ fields' # fields
                     => \/ UNCHANGED <<form, cache, fetch, lastSaved, requests>>
                        \/ \E r \in requests : r.kind = "save" /\ r \notin requests'
                                               /\ fields' = Tidy(r.list)
<1>1. [Next]_vars => [Step]_vars
  <2> SUFFICES ASSUME Next, page = "open", page' = "open", fields' # fields
               PROVE  Step
    OBVIOUS
  <2>1. CASE Edit \/ EditOptions
    BY <2>1 DEF Edit, EditOptions
  <2>2. CASE \E r \in requests : SaveAnswered(r)
    BY <2>2 DEF SaveAnswered
  <2>3. CASE Open \/ Leave \/ Forget \/ Age \/ Focus
    BY <2>3 DEF Open, Leave, Forget, Age, Focus, pageVars
  <2>4. CASE ReadForm \/ ReadFields \/ Fetched \/ FetchFails
    BY <2>4 DEF ReadForm, ReadFields, Fetched, FetchFails, pageVars
  <2>5. CASE Save \/ OpenDialog \/ CloseDialog \/ Confirm \/ ChangeElsewhere
    BY <2>5 DEF Save, OpenDialog, CloseDialog, Confirm, ChangeElsewhere, pageVars
  <2>6. CASE \E r \in requests : Handle(r) \/ PublishAnswered(r) \/ Refused(r) \/ Breaks(r)
    BY <2>6 DEF Handle, PublishAnswered, Refused, Breaks, ShowError, pageVars
  <2> QED
    BY <2>1, <2>2, <2>3, <2>4, <2>5, <2>6 DEF Next, Answer
<1> QED
  BY <1>1, PTL DEF Spec, EditsSurviveRefetch
================================================================================
