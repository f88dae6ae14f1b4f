------------------------------ MODULE Console ------------------------------
(***************************************************************************)
(* The two list pages of the web application, Endpoints and Forms (the     *)
(* dashboard), in one tab: the lists in the query cache, the dialogs that  *)
(* create, re-key and delete rows, the switch of a row, the dialog that    *)
(* shows a secret, and what becomes of a request when its dialog is        *)
(* cancelled or its page is left before the answer comes.                  *)
(*                                                                         *)
(* The options of a mutation outlive the component that began it: its      *)
(* callbacks run whenever the answer comes.  What they set is state of     *)
(* the page, so it has an effect as long as the page has not been left;    *)
(* the query cache and the router are there at all times.                  *)
(* The texts that are typed are left out.                                  *)
(***************************************************************************)
EXTENDS Naturals, FiniteSets

CONSTANTS
    Endpoints,      \* ids of endpoints
    FormRows,       \* ids of forms
    Slots,          \* requests under way at a time
    Pending,        \* a fetch that has not been answered
    Nothing,        \* no dialog, secret, request, answer or click
    Pinned,         \* rows that cannot be deleted: with deliveries, published
    MaxSent,        \* bound: requests the user sends
    MaxRotations,   \* bound: rotations of one secret
    MaxMoves,       \* bound: links the user follows, and returns to the window
    MaxUpsets       \* bound: requests, answers and fetches that are lost, and
                    \* changes made in another tab

Rows == Endpoints \cup FormRows
Lists == {"endpoints", "forms"}

\* A request: what it asks for (arg: the value of a switch), whether the
\* server has answered it, and where it was sent from: a dialog or switch
\* that is still there, a page that is, or one that has been left.
Requests ==
    [op : {"create", "rotate", "delete", "reveal", "switch"},
     row : Rows \cup {Nothing}, list : Lists, arg : BOOLEAN \cup {Nothing},
     at : {"sent", "ok", "error"}, got : 0..MaxRotations,
     from : {"dialog", "page", "left"}]

ASSUME RowsAssumption ==
    /\ Endpoints \cap FormRows = {}
    /\ Nothing \notin Rows
    /\ Nothing \notin Requests /\ Nothing \notin BOOLEAN
    /\ Pinned \subseteq Rows
ASSUME BoundAssumption ==
    MaxSent \in Nat /\ MaxRotations \in Nat /\ MaxMoves \in Nat /\ MaxUpsets \in Nat

VARIABLES
    live,           \* server: rows that exist
    gone,           \* server: ids that have been deleted
    active,         \* server: endpoints that are switched on
    version,        \* server: which secret an endpoint has
    route,          \* the page: one of Lists, or "elsewhere"
    dialog,         \* the dialog that is open: [op, row]
    secret,         \* what the secret dialog shows: [row, version]
    cache,          \* list: what the query cache has, see Answer
    stale,          \* list: has no data, or was invalidated since
    fetch,          \* list: Pending, or the answer that is on its way
    req,            \* requests: see Requests
    sent,           \* requests sent so far
    asked,          \* history: the endpoints whose secrets were asked for since
                    \* none was awaited, and those created for such an ask
    clicked,        \* history: the last value a switch was clicked to
    excused,        \* history: what the page cannot know of which row, and why:
                    \* "list" its place there, "secret", "switch"
    moves, upsets   \* moves, and losses and changes made elsewhere so far

serverVars  == <<live, gone, active, version>>
pageVars    == <<route, dialog, secret>>
cacheVars   == <<cache, stale, fetch>>
historyVars == <<asked, clicked, excused>>
vars == <<serverVars, pageVars, cacheVars, req, sent, historyVars, moves, upsets>>

ListOf(r) == IF r \in Endpoints THEN "endpoints" ELSE "forms"
RowsIn(l) == IF l = "endpoints" THEN Endpoints ELSE FormRows

\* A list as it is answered and cached: its rows, and those switched on.
Answer(l) == [rows |-> live \cap RowsIn(l), on |-> active \cap RowsIn(l)]

UnderWay == {q \in Slots : req[q] # Nothing}

\* Requests whose answer would show a secret on this page.
Asking == {q \in UnderWay : /\ req[q].op \in {"rotate", "reveal", "create"}
                            /\ req[q].from # "left"}

Upset == upsets < MaxUpsets /\ upsets' = upsets + 1 /\ UNCHANGED moves

\* Operators named Faulty... are what a slip in the code would make of the
\* definition that follows them; nothing refers to them.

-----------------------------------------------------------------------------
Init ==
    /\ live \in SUBSET Rows
    /\ gone = {}
    /\ active = live \cap Endpoints
    /\ version = [e \in Endpoints |-> 0]
    /\ route = "elsewhere"
    /\ dialog = Nothing
    /\ secret = Nothing
    /\ cache = [l \in Lists |-> Nothing]
    /\ stale = [l \in Lists |-> TRUE]
    /\ fetch = [l \in Lists |-> Nothing]
    /\ req = [q \in Slots |-> Nothing]
    /\ sent = 0
    /\ asked = {}
    /\ clicked = [e \in Endpoints |-> Nothing]
    /\ excused = {}
    /\ moves = 0 /\ upsets = 0

-----------------------------------------------------------------------------
(* The query cache: ["endpoints"] and ["forms"] *)

\* A fetch that is under way is left to answer.
FaultyRefetch(l) ==
    fetch' = [fetch EXCEPT ![l] = IF route = l /\ @ = Nothing THEN Pending ELSE @]

\* An invalidation has a list that is shown fetched again, and cancels the
\* fetch that was under way, unless that is the one that first loads it.
Refetch(l) ==
    fetch' = [fetch EXCEPT ![l] =
                IF route = l /\ (cache[l] # Nothing \/ @ = Nothing) THEN Pending ELSE @]

\* invalidateQueries
Invalidate(l) == /\ stale' = [stale EXCEPT ![l] = TRUE]
                 /\ Refetch(l)

\* An answer read before a change, that Refetch leaves under way, takes the
\* mark away again when it arrives.
Overtaken(l, r) ==
    IF (route = l /\ cache[l] # Nothing) \/ fetch[l] \in {Nothing, Pending}
      THEN {} ELSE {<<"list", r>>}

\* Rows of a list that is shown; nothing is shown before it is loaded.
ShownRows(l) == IF cache[l] = Nothing THEN {} ELSE cache[l].rows

\* WHO  the API: list
ServeList(l) ==
    /\ fetch[l] = Pending
    /\ fetch' = [fetch EXCEPT ![l] = Answer(l)]
    /\ UNCHANGED <<serverVars, pageVars, cache, stale, req, sent, historyVars, moves, upsets>>

\* WHO  react-query
\* WHAT the answer replaces what the cache has.
ListArrives(l) ==
    /\ fetch[l] \notin {Nothing, Pending}
    /\ cache' = [cache EXCEPT ![l] = fetch[l]]
    /\ stale' = [stale EXCEPT ![l] = FALSE]
    /\ fetch' = [fetch EXCEPT ![l] = Nothing]
    /\ UNCHANGED <<serverVars, pageVars, req, sent, historyVars, moves, upsets>>

\* WHAT the fetch and its one retry fail: what was cached stays.
ListFails(l) ==
    /\ fetch[l] # Nothing
    /\ Upset
    /\ fetch' = [fetch EXCEPT ![l] = Nothing]
    /\ UNCHANGED <<serverVars, pageVars, cache, stale, req, sent, historyVars>>

\* WHO  the user, coming back to the window; the browser, coming back online
\* WHAT a list that is marked or older than 30 s is fetched again, if it is
\*      shown and no fetch is under way.
Refocus(l) ==
    /\ route = l /\ fetch[l] = Nothing
    /\ moves < MaxMoves
    /\ moves' = moves + 1
    /\ fetch' = [fetch EXCEPT ![l] = Pending]
    /\ UNCHANGED <<serverVars, pageVars, cache, stale, req, sent, historyVars, upsets>>

-----------------------------------------------------------------------------
(* Pages and dialogs *)

\* Requests under way when their page is left.
Left == [q \in Slots |-> IF req[q] = Nothing THEN Nothing ELSE [req[q] EXCEPT !.from = "left"]]

\* WHAT the page is left with everything it had open.  A switch whose answer
\*      is awaited no longer keeps anyone from clicking it again.
Leave(p) ==
    /\ route' = p
    /\ dialog' = Nothing
    /\ secret' = Nothing

Unwatched ==
    {<<"switch", req[q].row>> : q \in {q \in UnderWay : req[q].op = "switch"}} \cup
    {<<"secret", req[q].row>> : q \in {q \in UnderWay : req[q].op = "rotate"}}

\* WHO  the user
\* WHAT follows a link.  The list of the page is fetched if it is not loaded
\*      or marked, or older than 30 s.
Go(p) ==
    /\ p # route
    /\ moves < MaxMoves
    /\ moves' = moves + 1
    /\ Leave(p)
    /\ fetch' \in {fetch} \cup
                  {[fetch EXCEPT ![l] = Pending] : l \in {l \in {p} \cap Lists : fetch[l] = Nothing}}
    /\ p \in Lists /\ stale[p] => fetch'[p] # Nothing
    /\ req' = Left
    /\ excused' = excused \cup Unwatched
    /\ UNCHANGED <<serverVars, cache, stale, sent, asked, clicked, upsets>>

\* Dialogs are modal: the page behind them cannot be used, nor a dialog that
\* a secret has been shown over.
Usable(l) == route = l /\ dialog = Nothing /\ secret = Nothing

\* WHO  the user: New endpoint, New form
OpenCreate(l) ==
    /\ Usable(l)
    /\ dialog' = [op |-> "create", row |-> Nothing]
    /\ UNCHANGED <<serverVars, route, secret, cacheVars, req, sent, historyVars, moves, upsets>>

\* WHO  the user: the buttons of a row, for Rotate and Delete
\* WHAT asks to confirm.  The page itself refuses to delete a form that its
\*      list has as published; those of Pinned have been published since.
OpenConfirm(l, op, r) ==
    /\ Usable(l)
    /\ r \in ShownRows(l)
    /\ op = "rotate" => l = "endpoints"
    /\ dialog' = [op |-> op, row |-> r]
    /\ UNCHANGED <<serverVars, route, secret, cacheVars, req, sent, historyVars, moves, upsets>>

\* Requests under way when the dialog for this operation is closed.
Detached(o) ==
    [q \in Slots |-> IF req[q] # Nothing /\ req[q].op = o /\ req[q].from = "dialog"
                       THEN [req[q] EXCEPT !.from = "page"] ELSE req[q]]

\* WHO  the user: Cancel, Escape
\* WHAT closes the dialog, whether or not its request is under way.
CancelDialog ==
    /\ dialog # Nothing /\ secret = Nothing
    /\ dialog' = Nothing
    /\ req' = Detached(dialog.op)
    /\ UNCHANGED <<serverVars, route, secret, cacheVars, sent, historyVars, moves, upsets>>

\* WHO  the user: Done
\* WHAT hides the secret and has the list fetched again.
CloseSecret ==
    /\ secret # Nothing
    /\ secret' = Nothing
    /\ Invalidate("endpoints")
    /\ UNCHANGED <<serverVars, route, dialog, cache, req, sent, historyVars, moves, upsets>>

-----------------------------------------------------------------------------
(* Requests *)

\* The user sends a request in a free slot.
SendRequest(q, o, r, l, a) ==
    /\ req[q] = Nothing
    /\ sent < MaxSent
    /\ sent' = sent + 1
    /\ req' = [req EXCEPT ![q] = [op |-> o, row |-> r, list |-> l, arg |-> a, at |-> "sent",
                                  got |-> 0, from |-> "dialog"]]

\* A secret is asked for; others may still be awaited.  When one of them is of
\* the same endpoint and one of the two asks is a rotation, it is open which
\* secret is shown in the end.
Ask(r, op) ==
    /\ asked' = (IF Asking = {} THEN {} ELSE asked) \cup ({r} \ {Nothing})
    /\ excused' = IF \E p \in Asking : req[p].row = r /\ "rotate" \in {op, req[p].op}
                    THEN excused \cup {<<"secret", r>>} ELSE excused

\* WHO  CreateEndpointDialog, NewFormDialog: Create
\* WHAT is disabled while a create of this page is awaited, also after Cancel
\*      (these dialogs stay mounted).
Create(q, l) ==
    /\ route = l /\ secret = Nothing
    /\ dialog = [op |-> "create", row |-> Nothing]
    /\ \A p \in UnderWay : ~(req[p].op = "create" /\ req[p].list = l /\ req[p].from # "left")
    /\ SendRequest(q, "create", Nothing, l, Nothing)
    /\ IF l = "endpoints" THEN Ask(Nothing, "create") ELSE UNCHANGED <<asked, excused>>
    /\ UNCHANGED <<serverVars, pageVars, cacheVars, clicked, moves, upsets>>

\* WHO  RotateDialog, DeleteEndpointDialog, DeleteFormDialog
\* WHAT the button is disabled while the dialog's own request is awaited.
Confirm(q) ==
    /\ dialog # Nothing /\ dialog.op # "create" /\ secret = Nothing
    /\ \A p \in UnderWay : ~(req[p].op = dialog.op /\ req[p].from = "dialog")
    /\ SendRequest(q, dialog.op, dialog.row, route, Nothing)
    /\ IF dialog.op = "rotate" THEN Ask(dialog.row, "rotate") ELSE UNCHANGED <<asked, excused>>
    /\ UNCHANGED <<serverVars, pageVars, cacheVars, clicked, moves, upsets>>

\* WHO  handleReveal
\* WHAT asks at once; nothing is disabled meanwhile.
Reveal(q, e) ==
    /\ Usable("endpoints")
    /\ e \in ShownRows("endpoints")
    /\ SendRequest(q, "reveal", e, "endpoints", Nothing)
    /\ Ask(e, "reveal")
    /\ UNCHANGED <<serverVars, pageVars, cacheVars, clicked, moves, upsets>>

\* WHO  ActiveSwitch
\* WHAT asks for the opposite of what the list shows; is disabled while its
\*      own request is awaited.
Toggle(q, e) ==
    /\ Usable("endpoints")
    /\ e \in ShownRows("endpoints")
    /\ \A p \in UnderWay : ~(req[p].op = "switch" /\ req[p].row = e /\ req[p].from = "dialog")
    /\ SendRequest(q, "switch", e, "endpoints", e \notin cache["endpoints"].on)
    /\ clicked' = [clicked EXCEPT ![e] = e \notin cache["endpoints"].on]
    /\ UNCHANGED <<serverVars, pageVars, cacheVars, asked, excused, moves, upsets>>

-----------------------------------------------------------------------------
(* The API *)

Served(q, r, v) ==
    req' = [req EXCEPT ![q] = [@ EXCEPT !.at = "ok", !.row = r, !.got = v]]

At(q, o) == req[q] # Nothing /\ req[q].at = "sent" /\ req[q].op = o

\* Ids that a new row of list l may get.
Fresh(l) == RowsIn(l) \ (live \cup gone)

ServeCreate(q) ==
    /\ At(q, "create")
    /\ \E r \in Fresh(req[q].list) :
         /\ live' = live \cup {r}
         /\ active' = active \cup ({r} \cap Endpoints)
         /\ asked' = IF q \in Asking THEN asked \cup ({r} \cap Endpoints) ELSE asked
         /\ Served(q, r, 0)
    /\ UNCHANGED <<gone, version, pageVars, cacheVars, sent, clicked, excused, moves, upsets>>

ServeRotate(q) ==
    /\ At(q, "rotate") /\ req[q].row \in live
    /\ version[req[q].row] < MaxRotations
    /\ version' = [version EXCEPT ![req[q].row] = @ + 1]
    /\ Served(q, req[q].row, version[req[q].row] + 1)
    /\ UNCHANGED <<live, gone, active, pageVars, cacheVars, sent, historyVars, moves, upsets>>

ServeDelete(q) ==
    /\ At(q, "delete") /\ req[q].row \in live \ Pinned
    /\ live' = live \ {req[q].row}
    /\ gone' = gone \cup {req[q].row}
    /\ active' = active \ {req[q].row}
    /\ Served(q, req[q].row, 0)
    /\ UNCHANGED <<version, pageVars, cacheVars, sent, historyVars, moves, upsets>>

\* The value is turned over, whichever was asked for.
FaultyServeSwitch(q) ==
    /\ At(q, "switch") /\ req[q].row \in live
    /\ active' = IF req[q].row \notin active THEN active \cup {req[q].row} ELSE active \ {req[q].row}
    /\ Served(q, req[q].row, 0)
    /\ UNCHANGED <<live, gone, version, pageVars, cacheVars, sent, historyVars, moves, upsets>>

ServeSwitch(q) ==
    /\ At(q, "switch") /\ req[q].row \in live
    /\ active' = IF req[q].arg THEN active \cup {req[q].row} ELSE active \ {req[q].row}
    /\ Served(q, req[q].row, 0)
    /\ UNCHANGED <<live, gone, version, pageVars, cacheVars, sent, historyVars, moves, upsets>>

\* A secret that was read before is kept.
FaultyServeReveal(q) ==
    /\ At(q, "reveal") /\ req[q].row \in live
    /\ Served(q, req[q].row, 0)
    /\ UNCHANGED <<serverVars, pageVars, cacheVars, sent, historyVars, moves, upsets>>

ServeReveal(q) ==
    /\ At(q, "reveal") /\ req[q].row \in live
    /\ Served(q, req[q].row, version[req[q].row])
    /\ UNCHANGED <<serverVars, pageVars, cacheVars, sent, historyVars, moves, upsets>>

\* WHAT no such row (404), or one that is in use (409); at the limit, a
\*      create is refused as well.
Refuse(q) ==
    /\ req[q] # Nothing /\ req[q].at = "sent"
    /\ \/ req[q].op = "create" /\ Fresh(req[q].list) = {}
       \/ req[q].op # "create" /\ req[q].row \notin live
       \/ req[q].op = "delete" /\ req[q].row \in Pinned
    /\ req' = [req EXCEPT ![q].at = "error"]
    /\ UNCHANGED <<serverVars, pageVars, cacheVars, sent, historyVars, moves, upsets>>

\* WHAT a request fails before it has any effect, or its answer does.
Lose(q) ==
    /\ req[q] # Nothing /\ req[q].at # "error"
    /\ Upset
    /\ req' = [req EXCEPT ![q].at = "error"]
    /\ excused' = IF req[q].at = "ok" THEN excused \cup {<<"list", req[q].row>>} ELSE excused
    /\ UNCHANGED <<serverVars, pageVars, cacheVars, sent, asked, clicked>>

\* WHO  another tab
\* WHAT changes a row.
Elsewhere(r) ==
    /\ Upset
    /\ \/ /\ r \in Fresh(ListOf(r))
          /\ live' = live \cup {r} /\ active' = active \cup ({r} \cap Endpoints)
          /\ UNCHANGED <<gone, version>>
       \/ /\ r \in live \ Pinned
          /\ live' = live \ {r} /\ active' = active \ {r} /\ gone' = gone \cup {r}
          /\ UNCHANGED version
       \/ /\ r \in live \cap Endpoints
          /\ active' = IF r \in active THEN active \ {r} ELSE active \cup {r}
          /\ UNCHANGED <<live, gone, version>>
       \/ /\ r \in live \cap Endpoints /\ version[r] < MaxRotations
          /\ version' = [version EXCEPT ![r] = @ + 1]
          /\ UNCHANGED <<live, gone, active>>
    /\ excused' = excused \cup {<<why, r>> : why \in {"list", "secret", "switch"}}
    /\ UNCHANGED <<pageVars, cacheVars, req, sent, asked, clicked>>

-----------------------------------------------------------------------------
(* Answers *)

Ok(q, o) == req[q] # Nothing /\ req[q].at = "ok" /\ req[q].op = o
Free(q) == req' = [req EXCEPT ![q] = Nothing]
Here(q) == req[q].from # "left"

\* The page closes its dialog of this kind, whichever row it is for by now,
\* and whichever request was sent from it.
Close(q) ==
    IF Here(q) /\ dialog # Nothing /\ dialog.op = req[q].op
      THEN dialog' = Nothing /\ req' = [Detached(req[q].op) EXCEPT ![q] = Nothing]
      ELSE Free(q) /\ UNCHANGED dialog

ShowSecret(q) ==
    secret' = IF Here(q) THEN [row |-> req[q].row, version |-> req[q].got] ELSE secret

EndpointCreated(q) ==
    /\ Ok(q, "create") /\ req[q].list = "endpoints"
    /\ Invalidate("endpoints") /\ Close(q) /\ ShowSecret(q)
    /\ excused' = excused \cup Overtaken("endpoints", req[q].row)
    /\ UNCHANGED <<serverVars, route, cache, sent, asked, clicked, moves, upsets>>

\* WHAT navigates to the new form, from whichever page the user is on by now.
FormCreated(q) ==
    /\ Ok(q, "create") /\ req[q].list = "forms"
    /\ Invalidate("forms")
    /\ Leave("elsewhere")
    /\ req' = [Left EXCEPT ![q] = Nothing]
    /\ excused' = excused \cup Overtaken("forms", req[q].row) \cup Unwatched
    /\ UNCHANGED <<serverVars, cache, sent, asked, clicked, moves, upsets>>

Rotated(q) ==
    /\ Ok(q, "rotate")
    /\ Close(q) /\ ShowSecret(q)
    /\ UNCHANGED <<serverVars, route, cacheVars, sent, historyVars, moves, upsets>>

Revealed(q) ==
    /\ Ok(q, "reveal")
    /\ ShowSecret(q) /\ Free(q)
    /\ UNCHANGED <<serverVars, route, dialog, cacheVars, sent, historyVars, moves, upsets>>

Deleted(q) ==
    /\ Ok(q, "delete")
    /\ Invalidate(req[q].list) /\ Close(q)
    /\ excused' = excused \cup Overtaken(req[q].list, req[q].row)
    /\ UNCHANGED <<serverVars, route, secret, cache, sent, asked, clicked, moves, upsets>>

Switched(q) ==
    /\ Ok(q, "switch")
    /\ Invalidate("endpoints") /\ Free(q)
    /\ excused' = excused \cup Overtaken("endpoints", req[q].row)
    /\ UNCHANGED <<serverVars, pageVars, cache, sent, asked, clicked, moves, upsets>>

\* WHAT an error is shown; a delete closes its dialog on it too.
Failed(q) ==
    /\ req[q] # Nothing /\ req[q].at = "error"
    /\ IF req[q].op = "delete" THEN Close(q) ELSE Free(q) /\ UNCHANGED dialog
    /\ excused' = IF req[q].op = "switch" THEN excused \cup {<<"switch", req[q].row>>} ELSE excused
    /\ UNCHANGED <<serverVars, route, secret, cacheVars, sent, asked, clicked, moves, upsets>>

-----------------------------------------------------------------------------
Next ==
    \/ \E l \in Lists : ServeList(l) \/ ListArrives(l) \/ ListFails(l) \/ Refocus(l) \/ OpenCreate(l)
    \/ \E p \in Lists \cup {"elsewhere"} : Go(p)
    \/ \E l \in Lists, r \in Rows : \E op \in {"rotate", "delete"} : OpenConfirm(l, op, r)
    \/ CancelDialog \/ CloseSecret
    \/ \E q \in Slots, l \in Lists : Create(q, l)
    \/ \E q \in Slots, e \in Endpoints : Reveal(q, e) \/ Toggle(q, e)
    \/ \E q \in Slots : \/ Confirm(q)
                        \/ ServeCreate(q) \/ ServeRotate(q) \/ ServeDelete(q)
                        \/ ServeSwitch(q) \/ ServeReveal(q) \/ Refuse(q) \/ Lose(q)
                        \/ EndpointCreated(q) \/ FormCreated(q) \/ Rotated(q) \/ Revealed(q)
                        \/ Deleted(q) \/ Switched(q) \/ Failed(q)
    \/ \E r \in Rows : Elsewhere(r)

Spec == Init /\ [][Next]_vars

-----------------------------------------------------------------------------
\* A list that is not marked stale has every row the server has and no other,
\* with its switch as it is: what this tab has changed, deleted or created is
\* in it once the answer has come, whatever else was under way meanwhile.
\* Changes of other tabs are excused, changes whose answer was lost, and those
\* overtaken by a fetch (see Overtaken).
ListIsTrue ==
    \A l \in Lists : cache[l] # Nothing /\ ~stale[l] =>
      \A r \in RowsIn(l) : <<"list", r>> \notin excused =>
        \/ /\ r \in cache[l].rows <=> r \in live
           /\ r \in cache[l].on <=> r \in active
        \/ \E q \in UnderWay : req[q].row = r /\ req[q].at = "ok"

\* The secret that is shown is that of an endpoint it was asked for since none
\* was awaited, or of one that such an ask has created: if no two asks overlap,
\* of the one asked for last; if they do, the answers show one over the other
\* in any order, and there is no name in the dialog to tell which.  And it is
\* the one deliveries are signed with, however the dialogs were closed and
\* opened and whatever other rotations were under way: unless another tab has
\* changed the endpoint, a rotation of it was under way when its page was left,
\* or a rotation and another ask for the same endpoint overlap.
ShownIsWhatWasAsked ==
    secret # Nothing =>
        /\ secret.row \in asked
        /\ <<"secret", secret.row>> \notin excused => secret.version = version[secret.row]

\* When no switch of an endpoint is under way the endpoint is as it was last
\* switched, if that did not fail and its page was not left before the answer
\* (after that the switch can be clicked again at once): clicks on a switch
\* that shows what is no longer so, before the list is fetched again, do no
\* harm, and two clicks never reach the server in the other order.
LastClickWins ==
    \A e \in live \cap Endpoints :
        \/ <<"switch", e>> \in excused \/ clicked[e] = Nothing
        \/ \E q \in UnderWay : req[q].op = "switch" /\ req[q].row = e
        \/ e \in active <=> clicked[e]
-----------------------------------------------------------------------------
(* The inductive invariant behind these properties *)

Answers == [rows : SUBSET Rows, on : SUBSET Rows]

TypeOK ==
    /\ live \subseteq Rows /\ gone \subseteq Rows /\ active \subseteq Rows
    /\ version \in [Endpoints -> 0..MaxRotations]
    /\ route \in Lists \cup {"elsewhere"}
    /\ dialog \in [op : {"create", "rotate", "delete"}, row : Rows \cup {Nothing}] \cup {Nothing}
    /\ secret \in [row : Rows, version : 0..MaxRotations] \cup {Nothing}
    /\ cache \in [Lists -> Answers \cup {Nothing}]
    /\ stale \in [Lists -> BOOLEAN]
    /\ fetch \in [Lists -> Answers \cup {Nothing, Pending}]
    /\ req \in [Slots -> Requests \cup {Nothing}]
    /\ sent \in 0..MaxSent
    /\ asked \subseteq Endpoints
    /\ clicked \in [Endpoints -> BOOLEAN \cup {Nothing}]
    /\ excused \subseteq {"list", "secret", "switch"} \X (Rows \cup {Nothing})
    /\ moves \in 0..MaxMoves /\ upsets \in 0..MaxUpsets

\* What a list can have had in it by now.
Known(l) == RowsIn(l) \cap (live \cup gone)

\* Ids are given once: one that has not been has no rotated secret, and is
\* in no list and under no switch that was clicked.
IdsAreFresh ==
    /\ live \cap gone = {}
    /\ \A e \in Endpoints \ (live \cup gone) : version[e] = 0 /\ clicked[e] = Nothing
    /\ \A l \in Lists :
         /\ cache[l] # Nothing => cache[l].rows \subseteq Known(l)
         /\ fetch[l] \notin {Nothing, Pending} => fetch[l].rows \subseteq Known(l)

\* A dialog is for a row of the page it is on; secrets are shown on the
\* endpoints page.
PageIsConsistent ==
    /\ dialog # Nothing =>
         /\ route \in Lists
         /\ dialog.op # "create" => dialog.row \in RowsIn(route)
         /\ dialog.op = "rotate" => route = "endpoints"
    /\ secret # Nothing => route = "endpoints" /\ secret.row \in Endpoints

\* A request that has not been left was sent from the page that is open; of
\* those that were, the page has an excuse.
RequestsAreConsistent ==
    \A q \in UnderWay :
        /\ req[q].from = "left" \/ req[q].list = route
        /\ req[q].op \in {"rotate", "reveal", "switch"} => req[q].list = "endpoints"
        /\ req[q].op # "create" \/ req[q].at = "ok" => req[q].row \in RowsIn(req[q].list)
        /\ req[q].op = "create" /\ req[q].at = "sent" => req[q].row = Nothing
        /\ req[q].op = "switch" =>
             /\ req[q].arg \in BOOLEAN
             /\ req[q].from = "dialog" \/ <<"switch", req[q].row>> \in excused
        /\ req[q].op = "rotate" /\ req[q].from = "left" => <<"secret", req[q].row>> \in excused

\* Dialogs and requests are for rows that exist or have existed; so no row that
\* is created later is one of theirs.
RowsAreKnown ==
    /\ dialog # Nothing /\ dialog.op # "create" => dialog.row \in live \cup gone
    /\ \A q \in UnderWay :
         req[q].op # "create" \/ req[q].at = "ok" => req[q].row \in live \cup gone

\* A change of r that this tab has made and has not been told of.
Owed(r) == \E q \in UnderWay : /\ req[q].row = r /\ req[q].at = "ok"
                               /\ req[q].op \in {"create", "delete", "switch"}

\* What an answer has of a row is so, or owed, or excused.
Agrees(answer, l) ==
    \A r \in RowsIn(l) : <<"list", r>> \notin excused =>
        \/ /\ r \in answer.rows <=> r \in live
           /\ r \in answer.on <=> r \in active
        \/ Owed(r)

ListsAreExplained ==
    \A l \in Lists :
        /\ cache[l] # Nothing /\ ~stale[l] => Agrees(cache[l], l)
        /\ fetch[l] \notin {Nothing, Pending} => Agrees(fetch[l], l)

\* Version v of the secret of row r is the one that is in use.
IsCurrent(r, v) == <<"secret", r>> \notin excused => v = version[r]

\* Secrets that are awaited, or shown, were asked for, and once they have been
\* read they are not rotated: a rotation under way has its endpoint to itself.
AskExplained(q) ==
    /\ req[q].row \in asked \cup {Nothing}
    /\ req[q].at = "ok" => IsCurrent(req[q].row, req[q].got)
    /\ req[q].op = "rotate" /\ <<"secret", req[q].row>> \notin excused =>
         /\ \A p \in Asking : req[p].row = req[q].row => p = q
         /\ secret # Nothing => secret.row # req[q].row

SecretsAreExplained ==
    /\ secret # Nothing => secret.row \in asked /\ IsCurrent(secret.row, secret.version)
    /\ \A q \in Asking : req[q].list = "endpoints" => AskExplained(q)

\* A switch that is under way and watched is the only one of its endpoint and
\* for the value last clicked; once it is served the endpoint has that value.
SwitchesAreExplained ==
    \A q \in UnderWay : req[q].op = "switch" /\ <<"switch", req[q].row>> \notin excused =>
        /\ \A p \in UnderWay : req[p].op = "switch" /\ req[p].row = req[q].row => p = q
        /\ req[q].arg = clicked[req[q].row]
        /\ req[q].at = "ok" /\ req[q].row \in live => (req[q].row \in active <=> req[q].arg)

IInv ==
    /\ TypeOK
    /\ IdsAreFresh
    /\ PageIsConsistent
    /\ RequestsAreConsistent
    /\ RowsAreKnown
    /\ ListsAreExplained
    /\ SecretsAreExplained
    /\ SwitchesAreExplained
    /\ LastClickWins
=============================================================================
