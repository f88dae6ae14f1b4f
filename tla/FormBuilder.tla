------------------------------ MODULE FormBuilder ------------------------------
(***************************************************************************)
(* The form builder page of one browser tab (apps/web, pages/form-builder),*)
(* for one form: what the owner edits, what the page believes is saved,    *)
(* the tab's cached copy of the form, and the requests that are still on   *)
(* their way when the owner goes on working, leaves the page or comes back.*)
(*                                                                         *)
(* The server is one atomic step per request; that its transactions are    *)
(* atomic is the subject of module Forms.  Other tabs and other owners of  *)
(* the tenant appear as changes of the form that this tab is not told of.  *)
(* A list of fields is one value: what tells lists apart here is whether   *)
(* the page accepts them, and whether saving changes them (labels are      *)
(* trimmed, blank options dropped).  The title editor is left out.         *)
(***************************************************************************)
EXTENDS Naturals, FiniteSets

CONSTANTS
    Lists,          \* the field lists an owner may compose and save
    NoFields,       \* the empty list
    Unfinished,     \* any list the page refuses to save
    NoForm,         \* no copy of the form
    MaxRequests,    \* bound: saves and publications sent by this tab
    MaxFailures     \* bound: requests, answers and fetches that fail

ASSUME ListsAssumption ==
    /\ NoFields \notin Lists
    /\ Unfinished \notin Lists \cup {NoFields}

ASSUME BoundsAssumption == MaxRequests \in Nat /\ MaxFailures \in Nat

VARIABLES
    form,           \* the server's form: its status and its fields
    cache,          \* the tab's copy of it, invalidated or not, last fetch failed or not
    fetch,          \* the tab's fetch of the form: its phase and the copy it brings
    page,           \* "away", "loading" (mounted without a copy) or "open"
    fields,         \* what the page shows and the owner edits
    lastSaved,      \* what the page believes is saved
    dialog,         \* is the publish dialog open
    publicUrl,      \* is the public link known to the page
    requests,       \* saves and publications in flight
    sent,           \* how many were sent
    failures,       \* how many things failed
    misled          \* auxiliary: has something happened that the page cannot know of

pageVars  == <<page, fields, lastSaved, dialog, publicUrl>>
bounds    == <<sent, failures>>
vars      == <<form, cache, fetch, pageVars, requests, bounds, misled>>

-----------------------------------------------------------------------------
(* Field lists: a draft is a list as it stands in the editor, "tidy" when    *)
(* saving would not change it.                                               *)

Tidy(l)  == [list |-> l, tidy |-> TRUE]
Loose(l) == [list |-> l, tidy |-> FALSE]

Drafts == {Tidy(l) : l \in Lists \cup {NoFields, Unfinished}} \cup {Loose(l) : l \in Lists}

Copies == [status : {"draft", "published"}, list : Lists \cup {NoFields}]

ASSUME NoFormAssumption == NoForm \notin Copies

Hearers == {"page", "cache", "nobody"}

Requests == [id : 1..MaxRequests, kind : {"save", "publish"}, list : Lists \cup {NoFields},
             phase : {"sent", "accepted", "refused"}, heard : Hearers]

TypeOK ==
    /\ form \in [status : {"draft", "published", "deleted"}, list : Lists \cup {NoFields}]
    /\ cache \in [data : Copies \cup {NoForm}, stale : BOOLEAN, failed : BOOLEAN]
    /\ fetch \in [phase : {"idle", "asked", "half", "read"}, copy : Copies \cup {NoForm}]
    /\ page \in {"away", "loading", "open"}
    /\ fields \in Drafts
    /\ lastSaved \in {Tidy(l) : l \in Lists \cup {NoFields}}
    /\ dialog \in BOOLEAN
    /\ publicUrl \in BOOLEAN
    /\ requests \subseteq Requests
    /\ sent \in 0..MaxRequests
    /\ failures \in 0..MaxFailures
    /\ misled \in BOOLEAN
    /\ page = "open" => cache.data # NoForm
    /\ fetch.phase \in {"half", "read"} => fetch.copy # NoForm

Init ==
    /\ form = [status |-> "draft", list |-> NoFields]
    /\ cache = [data |-> NoForm, stale |-> FALSE, failed |-> FALSE]
    /\ fetch = [phase |-> "idle", copy |-> NoForm]
    /\ page = "away"
    /\ fields = Tidy(NoFields)
    /\ lastSaved = Tidy(NoFields)
    /\ dialog = FALSE
    /\ publicUrl = FALSE
    /\ requests = {}
    /\ sent = 0
    /\ failures = 0
    /\ misled = FALSE

-----------------------------------------------------------------------------
(* What the page shows, and which of its buttons are enabled.                *)

Usable         == page = "open" /\ ~cache.failed
ShownPublished == cache.data # NoForm /\ cache.data.status = "published"
IsDirty        == fields # lastSaved
Pending(kind)  == \E r \in requests : r.kind = kind /\ r.heard = "page"

Valid(draft)   == draft.list \in Lists

\* Mutant: "Save fields" stays enabled while a save is in flight.
FaultyCanSave == IsDirty /\ Valid(fields)

CanSave    == IsDirty /\ Valid(fields) /\ ~Pending("save")

CanPublish == /\ ~ShownPublished
              /\ lastSaved.list # NoFields
              /\ ~IsDirty
              /\ ~Pending("publish")

(* The fetch of the form. An invalidation drops the fetch in flight, unless  *)
(* there is no copy yet; everything else joins the fetch in flight.          *)

Ask == [phase |-> "asked", copy |-> NoForm]

\* Mutant: an invalidation joins the fetch in flight, whatever that has read.
FaultyRefetch == IF page # "away" /\ fetch.phase = "idle" THEN Ask ELSE fetch

Refetch == IF page # "away" /\ (cache.data # NoForm \/ fetch.phase = "idle") THEN Ask ELSE fetch

Invalidate ==
    /\ cache' = [cache EXCEPT !.stale = TRUE]
    /\ fetch' = Refetch

(* The first copy the page gets to see initializes it; it sees no later one. *)
Initialize(copy) ==
    /\ page' = "open"
    /\ fields' = Tidy(copy.list)
    /\ lastSaved' = Tidy(copy.list)
    /\ publicUrl' = (copy.status = "published")
    /\ dialog' = FALSE
    /\ misled' = (copy.list # form.list)

-----------------------------------------------------------------------------
(* Coming and going.                                                         *)

(* The owner opens the page. A copy of an earlier visit is used at once, and *)
(* fetched again in the background if it is stale; without one the page      *)
(* waits for the fetch.                                                      *)
Open ==
    /\ page = "away"
    /\ IF cache.data # NoForm
       THEN /\ Initialize(cache.data)
            /\ fetch' = IF cache.stale /\ fetch.phase = "idle" THEN Ask ELSE fetch
            /\ UNCHANGED cache
       ELSE /\ page' = "loading"
            /\ fetch' = IF fetch.phase = "idle" THEN Ask ELSE fetch
            /\ cache' = [cache EXCEPT !.failed = FALSE]
            /\ UNCHANGED <<fields, lastSaved, dialog, publicUrl, misled>>
    /\ UNCHANGED <<form, requests, bounds>>

(* The owner leaves: what was edited is gone; a request in flight goes on,   *)
(* and its answer reaches the tab's cache but no page.                       *)
Leave ==
    /\ page # "away"
    /\ page' = "away"
    /\ fields' = Tidy(NoFields)
    /\ lastSaved' = Tidy(NoFields)
    /\ dialog' = FALSE
    /\ publicUrl' = FALSE
    /\ requests' = {IF r.heard = "page" THEN [r EXCEPT !.heard = "cache"] ELSE r : r \in requests}
    /\ UNCHANGED <<form, cache, fetch, bounds, misled>>

(* Five minutes without the page, and nothing in flight.                     *)
Forget ==
    /\ page = "away"
    /\ cache.data # NoForm
    /\ fetch.phase = "idle"
    /\ requests = {}
    /\ cache' = [data |-> NoForm, stale |-> FALSE, failed |-> FALSE]
    /\ UNCHANGED <<form, fetch, pageVars, requests, bounds, misled>>

(* The copy is 30 seconds old.                                               *)
Age ==
    /\ cache.data # NoForm
    /\ ~cache.stale
    /\ cache' = [cache EXCEPT !.stale = TRUE]
    /\ UNCHANGED <<form, fetch, pageVars, requests, bounds, misled>>

(* The window gets the focus: a stale copy is fetched again.                 *)
Focus ==
    /\ page # "away"
    /\ fetch.phase = "idle"
    /\ cache.stale \/ cache.data = NoForm
    /\ fetch' = Ask
    /\ cache' = [cache EXCEPT !.failed = cache.failed /\ cache.data # NoForm]
    /\ UNCHANGED <<form, pageVars, requests, bounds, misled>>

-----------------------------------------------------------------------------
(* The fetch. The service reads the form and then its fields, two queries.   *)

ReadForm ==
    /\ fetch.phase = "asked"
    /\ form.status # "deleted"
    /\ fetch' = [phase |-> "half", copy |-> [status |-> form.status, list |-> NoFields]]
    /\ UNCHANGED <<form, cache, pageVars, requests, bounds, misled>>

ReadFields ==
    /\ fetch.phase = "half"
    /\ fetch' = [phase |-> "read", copy |-> [fetch.copy EXCEPT !.list = form.list]]
    /\ UNCHANGED <<form, cache, pageVars, requests, bounds, misled>>

\* Mutant: the page is initialized from every copy (no initializedRef).
FaultyFetched ==
    /\ fetch.phase = "read"
    /\ cache' = [data |-> fetch.copy, stale |-> FALSE, failed |-> FALSE]
    /\ fetch' = [phase |-> "idle", copy |-> NoForm]
    /\ IF page # "away"
       THEN Initialize(fetch.copy)
       ELSE UNCHANGED <<pageVars, misled>>
    /\ UNCHANGED <<form, requests, bounds>>

Fetched ==
    /\ fetch.phase = "read"
    /\ cache' = [data |-> fetch.copy, stale |-> FALSE, failed |-> FALSE]
    /\ fetch' = [phase |-> "idle", copy |-> NoForm]
    /\ IF page = "loading"
       THEN Initialize(fetch.copy)
       ELSE UNCHANGED <<pageVars, misled>>
    /\ UNCHANGED <<form, requests, bounds>>

(* The fetch and its one repetition fail, or the form is gone. The page shows *)
(* an error instead of the editor until a fetch succeeds.                     *)
FetchFails ==
    /\ fetch.phase # "idle"
    /\ \/ form.status = "deleted" /\ UNCHANGED failures
       \/ failures < MaxFailures /\ failures' = failures + 1
    /\ fetch' = [phase |-> "idle", copy |-> NoForm]
    /\ cache' = [cache EXCEPT !.failed = TRUE]
    /\ UNCHANGED <<form, pageVars, requests, sent, misled>>

-----------------------------------------------------------------------------
(* The editor.                                                               *)

(* Any change of the list: add, edit, move or remove a field.                *)
Edit ==
    /\ Usable
    /\ ~dialog
    /\ ~ShownPublished
    /\ fields' \in Drafts \ {fields}
    /\ UNCHANGED <<form, cache, fetch, page, lastSaved, dialog, publicUrl, requests, bounds, misled>>

(* The options of a multiple choice stay editable when the form is shown as  *)
(* published: their inputs are not disabled.                                 *)
EditOptions ==
    /\ Usable
    /\ ~dialog
    /\ ShownPublished
    /\ fields.list # NoFields
    /\ fields' \in {d \in Drafts : d.list # NoFields} \ {fields}
    /\ UNCHANGED <<form, cache, fetch, page, lastSaved, dialog, publicUrl, requests, bounds, misled>>

Send(kind, list) ==
    /\ sent < MaxRequests
    /\ sent' = sent + 1
    /\ requests' = requests \cup {[id |-> sent + 1, kind |-> kind, list |-> list,
                                   phase |-> "sent", heard |-> "page"]}

(* "Save fields": the labels are trimmed and blank options dropped.          *)
Save ==
    /\ Usable
    /\ ~dialog
    /\ ~ShownPublished
    /\ CanSave
    /\ Send("save", fields.list)
    /\ UNCHANGED <<form, cache, fetch, pageVars, failures, misled>>

OpenDialog ==
    /\ Usable
    /\ ~dialog
    /\ CanPublish
    /\ dialog' = TRUE
    /\ UNCHANGED <<form, cache, fetch, page, fields, lastSaved, publicUrl, requests, bounds, misled>>

CloseDialog ==
    /\ Usable
    /\ dialog
    /\ dialog' = FALSE
    /\ UNCHANGED <<form, cache, fetch, page, fields, lastSaved, publicUrl, requests, bounds, misled>>

(* "Publish" in the dialog: nothing is checked again.                        *)
Confirm ==
    /\ Usable
    /\ dialog
    /\ ~Pending("publish")
    /\ Send("publish", NoFields)
    /\ UNCHANGED <<form, cache, fetch, pageVars, failures, misled>>

-----------------------------------------------------------------------------
(* The server.                                                               *)

Accepts(r) == form.status = "draft" /\ (r.kind = "publish" => form.list # NoFields)

Effect(r) == IF r.kind = "save" THEN [form EXCEPT !.list = r.list]
                                ELSE [form EXCEPT !.status = "published"]

(* The API may refuse a list that the page accepts: its schema also bounds    *)
(* the length of labels and options.                                         *)
Verdicts(r) == {ok \in BOOLEAN : (ok => Accepts(r)) /\ (~ok => ~Accepts(r) \/ r.kind = "save")}

(* A request that nobody waits for any more is handled all the same.         *)
Handle(r) ==
    /\ r.phase = "sent"
    /\ \E ok \in Verdicts(r) :
        /\ requests' = LET others == requests \ {r}
                       IN IF r.heard = "nobody" THEN others
                          ELSE others \cup {[r EXCEPT !.phase = IF ok THEN "accepted" ELSE "refused"]}
        /\ form' = IF ok THEN Effect(r) ELSE form
        /\ misled' = IF ok /\ r.kind = "save" THEN r.heard # "page" ELSE misled
    /\ UNCHANGED <<cache, fetch, pageVars, bounds>>

(* Another tab or another owner saves, publishes or deletes.                 *)
ChangeElsewhere ==
    /\ form.status = "draft"
    /\ \/ \E l \in Lists \ {form.list} : form' = [form EXCEPT !.list = l]
       \/ form.list # NoFields /\ form' = [form EXCEPT !.status = "published"]
       \/ form' = [status |-> "deleted", list |-> NoFields]
    /\ misled' = (misled \/ form'.list # form.list)
    /\ UNCHANGED <<cache, fetch, pageVars, requests, bounds>>

-----------------------------------------------------------------------------
(* Answers.                                                                  *)

(* onSuccess of a save: whatever the page shows by now is replaced by what   *)
(* the server saved, and the copy is invalidated.                            *)
SaveAnswered(r) ==
    /\ r.kind = "save" /\ r.phase = "accepted"
    /\ IF r.heard = "page"
       THEN /\ fields' = Tidy(r.list)
            /\ lastSaved' = Tidy(r.list)
       ELSE UNCHANGED <<fields, lastSaved>>
    /\ Invalidate
    /\ requests' = requests \ {r}
    /\ UNCHANGED <<form, page, dialog, publicUrl, bounds, misled>>

(* onSuccess of a publication.                                               *)
PublishAnswered(r) ==
    /\ r.kind = "publish" /\ r.phase = "accepted"
    /\ IF r.heard = "page"
       THEN publicUrl' = TRUE /\ dialog' = FALSE
       ELSE UNCHANGED <<publicUrl, dialog>>
    /\ Invalidate
    /\ requests' = requests \ {r}
    /\ UNCHANGED <<form, page, fields, lastSaved, bounds, misled>>

(* onError: a message, and for a publication the dialog closes.              *)
ShowError(r) ==
    /\ dialog' = (dialog /\ ~(r.kind = "publish" /\ r.heard = "page"))
    /\ UNCHANGED <<page, fields, lastSaved, publicUrl>>

Refused(r) ==
    /\ r.phase = "refused"
    /\ ShowError(r)
    /\ requests' = requests \ {r}
    /\ UNCHANGED <<form, cache, fetch, bounds, misled>>

(* The connection fails: before the server had the request, while it still   *)
(* has it, or after it answered.                                             *)
Breaks(r) ==
    /\ failures < MaxFailures
    /\ r.heard # "nobody"
    /\ failures' = failures + 1
    /\ ShowError(r)
    /\ \/ requests' = requests \ {r}
       \/ r.phase = "sent" /\ requests' = (requests \ {r}) \cup {[r EXCEPT !.heard = "nobody"]}
    /\ misled' = (misled \/ (r.kind = "save" /\ r.phase = "accepted"))
    /\ UNCHANGED <<form, cache, fetch, sent>>

-----------------------------------------------------------------------------

Answer(r) == SaveAnswered(r) \/ PublishAnswered(r) \/ Refused(r)

Next ==
    \/ Open \/ Leave \/ Forget \/ Age \/ Focus
    \/ ReadForm \/ ReadFields \/ Fetched \/ FetchFails
    \/ Edit \/ EditOptions \/ Save \/ OpenDialog \/ CloseDialog \/ Confirm
    \/ ChangeElsewhere
    \/ \E r \in requests : Handle(r) \/ Answer(r) \/ Breaks(r)

Spec == Init /\ [][Next]_vars

(* A fetch that is asked for is answered or fails. Nothing is assumed of the *)
(* owner, nor that a failed fetch is ever repeated.                          *)
FairSpec == Spec /\ WF_vars(ReadForm \/ ReadFields \/ Fetched)
                 /\ WF_vars(FetchFails /\ form.status = "deleted")

-----------------------------------------------------------------------------
(* Properties.                                                               *)

(* What the page takes for saved is what the server has, unless a change was *)
(* made elsewhere, the answer of an accepted save was lost, the page was     *)
(* opened on a copy that was no longer true, or a save of an earlier visit   *)
(* arrived late: onSuccess of saveFieldsMutation and the first-load effect   *)
(* leave no fifth way, whatever is edited while a save is in flight and      *)
(* however often the page is left.                                           *)
SavedIsWhatTheServerHas ==
    page = "open" /\ ~Pending("save") /\ ~misled /\ form.status # "deleted"
        => lastSaved = Tidy(form.list)

(* The dialog that publishes is open only over a list that is not empty and  *)
(* that the page takes for saved, although saves are answered and the form   *)
(* is fetched behind the dialog and Publish checks nothing again.            *)
DialogIsOverSavedFields ==
    dialog => page = "open" /\ ~IsDirty /\ lastSaved.list # NoFields

(* A background fetch never takes an edit away: what the page shows changes  *)
(* under an open page only by the owner's edit, which touches nothing else,  *)
(* or by the answer of a save, which ends that request.                      *)
EditsSurviveRefetch ==
    [][page = "open" /\ page' = "open" /\ fields' # fields
        => \/ UNCHANGED <<form, cache, fetch, lastSaved, requests>>
           \/ \E r \in requests : r.kind = "save" /\ r \notin requests' /\ fields' = Tidy(r.list)]_vars

(* A page that was told that its form is published comes to show it as       *)
(* published, and so stops offering Save and Publish, unless the fetch that  *)
(* follows fails, which it shows, or the owner leaves.                       *)
PublishedIsShown ==
    page = "open" /\ publicUrl ~> page = "away" \/ cache.failed \/ ShownPublished

-----------------------------------------------------------------------------
(* The inductive invariant of the proofs, by parts.                          *)

\* Only an open page waits for answers, and for one save at a time.
PageWaitsForOneSave ==
    /\ \A r \in requests : r.heard = "page" => page = "open"
    /\ \A r, q \in requests :
           r.kind = "save" /\ q.kind = "save" /\ r.heard = "page" /\ q.heard = "page" => r = q

\* What is sent to be saved is a list the page accepts.
SavesAreComplete == \A r \in requests : r.kind = "save" => r.list \in Lists

Announced(r) == r.kind = "save" /\ r.heard = "page" /\ r.phase = "accepted"

\* What the server has is what the page takes for saved, or what the answer
\* that is on its way to the page will tell it.
ServerListIsKnown ==
    page = "open" /\ ~misled /\ form.status # "deleted" =>
        /\ \A r \in requests : Announced(r) => r.list = form.list
        /\ (\A r \in requests : ~Announced(r)) => lastSaved = Tidy(form.list)

\* The inductive invariant: it explains SavedIsWhatTheServerHas also while a
\* save is under way, and so at the moment its answer arrives.
IInv ==
    /\ TypeOK
    /\ PageWaitsForOneSave
    /\ SavesAreComplete
    /\ ServerListIsKnown
    /\ DialogIsOverSavedFields
================================================================================
