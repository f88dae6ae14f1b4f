---------------------------- MODULE ConsoleProofs ----------------------------
(***************************************************************************)
(* Theorems about Console, for any endpoints, forms and requests under way *)
(* and any bounds.                                                         *)
(*                                                                         *)
(* IInv is inductive: one lemma per conjunct shows that every step keeps   *)
(* it, the steps that cannot disturb it being taken together.              *)
(***************************************************************************)
EXTENDS Console, TLAPS

-----------------------------------------------------------------------------
(* Lemmas *)

\* The dialog that request p was sent from is closed.
LeavesDialog(p) ==
    /\ req[p] # Nothing /\ req'[p] # Nothing
    /\ req'[p].op = req[p].op /\ req'[p].row = req[p].row /\ req'[p].list = req[p].list
    /\ req'[p].arg = req[p].arg /\ req'[p].at = req[p].at /\ req'[p].got = req[p].got
    /\ req[p].from = "dialog" /\ req'[p].from = "page"
    /\ req[p].op \in {"create", "rotate", "delete"}

\* Closing the dialog for an operation changes nothing else of requests.
LEMMA DetachedFacts ==
    ASSUME TypeOK, NEW o \in {"create", "rotate", "delete"}
    PROVE  /\ Detached(o) \in [Slots -> Requests \cup {Nothing}]
           /\ \A p \in Slots : req'[p] = Detached(o)[p] => req'[p] = req[p] \/ LeavesDialog(p)
<1>1. \A p \in Slots : req[p] # Nothing => req[p] \in Requests
  BY DEF TypeOK
<1>2. ASSUME NEW x \in Requests
      PROVE  /\ [x EXCEPT !.from = "page"] \in Requests
             /\ [x EXCEPT !.from = "page"].op = x.op /\ [x EXCEPT !.from = "page"].row = x.row
             /\ [x EXCEPT !.from = "page"].list = x.list /\ [x EXCEPT !.from = "page"].arg = x.arg
             /\ [x EXCEPT !.from = "page"].at = x.at /\ [x EXCEPT !.from = "page"].got = x.got
             /\ [x EXCEPT !.from = "page"].from = "page"
  BY DEF Requests
<1>3. Detached(o) \in [Slots -> Requests \cup {Nothing}]
  BY <1>1, <1>2 DEF Detached
<1>4. ASSUME NEW p \in Slots, req'[p] = Detached(o)[p], req'[p] # req[p] PROVE LeavesDialog(p)
  <2>1. /\ req[p] # Nothing /\ req[p].op = o /\ req[p].from = "dialog"
        /\ req'[p] = [req[p] EXCEPT !.from = "page"]
    BY <1>4 DEF Detached
  <2> QED
    BY <1>1, <1>2, <2>1, RowsAssumption DEF LeavesDialog
<1> QED
  BY <1>3, <1>4

LEMMA Cancelled ==
    ASSUME TypeOK, CancelDialog
    PROVE  /\ req' \in [Slots -> Requests \cup {Nothing}]
           /\ \A p \in Slots : req'[p] = req[p] \/ LeavesDialog(p)
<1>1. req' = Detached(dialog.op) /\ dialog.op \in {"create", "rotate", "delete"}
  BY DEF CancelDialog, TypeOK
<1>2. \A p \in Slots : req'[p] = Detached(dialog.op)[p]
  BY <1>1
<1> QED
  BY <1>1, <1>2, DetachedFacts

\* The end of a request, with its dialog or without.
LEMMA Ended ==
    ASSUME TypeOK, NEW q \in Slots, req[q] # Nothing, Free(q) \/ Close(q)
    PROVE  /\ req' \in [Slots -> Requests \cup {Nothing}] /\ req'[q] = Nothing
           /\ \A p \in Slots \ {q} : req'[p] = req[p] \/ LeavesDialog(p)
<1>1. CASE Free(q)
  BY <1>1 DEF Free, TypeOK
<1>2. CASE ~Free(q)
  <2>1. /\ req' = [Detached(req[q].op) EXCEPT ![q] = Nothing]
        /\ req[q].op \in {"create", "rotate", "delete"}
    BY <1>2 DEF Close, TypeOK
  <2>2. Detached(req[q].op) \in [Slots -> Requests \cup {Nothing}]
    BY <2>1, DetachedFacts
  <2>3. /\ req' \in [Slots -> Requests \cup {Nothing}] /\ req'[q] = Nothing
        /\ \A p \in Slots \ {q} : req'[p] = Detached(req[q].op)[p]
    BY <2>1, <2>2
  <2> QED
    BY <2>1, <2>3, DetachedFacts
<1> QED
  BY <1>1, <1>2

\* Every step keeps the types.
LEMMA TypeInv ==
    ASSUME TypeOK, PageIsConsistent, RequestsAreConsistent, Next
    PROVE  TypeOK'
<1> USE BoundAssumption, RowsAssumption DEF serverVars, pageVars, cacheVars, historyVars
<1>a. \A l \in Lists : Invalidate(l) =>
         /\ stale' \in [Lists -> BOOLEAN]
         /\ fetch' \in [Lists -> Answers \cup {Nothing, Pending}]
  BY DEF TypeOK, Invalidate, Refetch
<1>b. \A q \in UnderWay : req[q] \in Requests
  BY DEF TypeOK, UnderWay
<1>c. Left \in [Slots -> Requests \cup {Nothing}]
  <2>1. \A q \in UnderWay : [req[q] EXCEPT !.from = "left"] \in Requests
    BY <1>b DEF Requests
  <2> QED
    BY <2>1 DEF Left, UnderWay
<1>d. Unwatched \subseteq {"list", "secret", "switch"} \X (Rows \cup {Nothing})
  BY <1>b DEF Unwatched, Requests
<1>e. ASSUME NEW q \in UnderWay, NEW l \in Lists
      PROVE Overtaken(l, req[q].row) \subseteq {"list", "secret", "switch"} \X (Rows \cup {Nothing})
  BY <1>b DEF Overtaken, Requests
<1>f. ASSUME NEW q \in Slots, req[q] # Nothing, Free(q) \/ Close(q)
      PROVE  req' \in [Slots -> Requests \cup {Nothing}]
  BY <1>f, Ended
<1>g. ASSUME NEW q \in UnderWay, Close(q)
      PROVE dialog' \in [op : {"create", "rotate", "delete"}, row : Rows \cup {Nothing}] \cup {Nothing}
  BY <1>g DEF TypeOK, Close
<1>h. ASSUME NEW q \in UnderWay, req[q].row \in Rows, ShowSecret(q)
      PROVE secret' \in [row : Rows, version : 0..MaxRotations] \cup {Nothing}
  BY <1>b, <1>h DEF TypeOK, ShowSecret, Requests
<1>i. ASSUME NEW q \in UnderWay, req[q].at = "ok" PROVE req[q].row \in Rows
  BY <1>b, <1>i DEF RequestsAreConsistent, RowsIn, Rows, Requests
<1>1. ASSUME NEW l \in Lists, ServeList(l) \/ ListArrives(l) PROVE TypeOK'
  <2>1. Answer(l) \in Answers
    BY DEF Answer, Answers, RowsIn, Rows
  <2> QED
    BY <1>1, <2>1 DEF TypeOK, ServeList, ListArrives
<1>2. ASSUME NEW l \in Lists, ListFails(l) \/ Refocus(l) \/ OpenCreate(l) PROVE TypeOK'
  BY <1>2 DEF TypeOK, ListFails, Refocus, OpenCreate, Upset
<1>3. ASSUME NEW p \in Lists \cup {"elsewhere"}, Go(p) PROVE TypeOK'
  <2>1. fetch' \in [Lists -> Answers \cup {Nothing, Pending}]
    BY <1>3 DEF TypeOK, Go
  <2>2. excused' \subseteq {"list", "secret", "switch"} \X (Rows \cup {Nothing})
    BY <1>3, <1>d DEF TypeOK, Go
  <2> QED
    BY <1>3, <1>c, <2>1, <2>2 DEF TypeOK, Go, Leave
<1>4. ASSUME NEW l \in Lists, NEW r \in Rows, NEW op \in {"rotate", "delete"}, OpenConfirm(l, op, r)
      PROVE TypeOK'
  BY <1>4 DEF TypeOK, OpenConfirm
<1>5. CASE CancelDialog
  BY <1>5, Cancelled DEF TypeOK, CancelDialog
<1>6. CASE CloseSecret
  BY <1>6, <1>a DEF TypeOK, CloseSecret, Lists
<1>7. ASSUME NEW q \in Slots, NEW o \in {"create", "rotate", "delete", "reveal", "switch"},
             NEW r \in Rows \cup {Nothing}, NEW l \in Lists, NEW a \in BOOLEAN \cup {Nothing},
             SendRequest(q, o, r, l, a)
      PROVE  /\ req' \in [Slots -> Requests \cup {Nothing}] /\ sent' \in 0..MaxSent
  <2>1. [op |-> o, row |-> r, list |-> l, arg |-> a, at |-> "sent", got |-> 0, from |-> "dialog"] \in Requests
    BY <1>7 DEF Requests
  <2> QED
    BY <1>7, <2>1 DEF TypeOK, SendRequest
<1>j. ASSUME NEW r \in Endpoints \cup {Nothing}, NEW op, Ask(r, op)
      PROVE  /\ asked' \subseteq Endpoints
             /\ excused' \subseteq {"list", "secret", "switch"} \X (Rows \cup {Nothing})
  BY <1>j DEF TypeOK, Ask, Rows
<1>8. ASSUME NEW q \in Slots, NEW l \in Lists, Create(q, l) PROVE TypeOK'
  <2>1. req' \in [Slots -> Requests \cup {Nothing}] /\ sent' \in 0..MaxSent
    BY <1>7, <1>8 DEF Create
  <2>2. /\ asked' \subseteq Endpoints
        /\ excused' \subseteq {"list", "secret", "switch"} \X (Rows \cup {Nothing})
    BY <1>8, <1>j DEF TypeOK, Create
  <2> QED
    BY <1>8, <2>1, <2>2 DEF TypeOK, Create
<1>9. ASSUME NEW q \in Slots, Confirm(q) PROVE TypeOK'
  <2>1. dialog.op \in {"rotate", "delete"} /\ dialog.row \in Rows /\ route \in Lists
        /\ (dialog.op = "rotate" => dialog.row \in Endpoints)
    BY <1>9 DEF Confirm, TypeOK, PageIsConsistent, RowsIn, Rows
  <2>2. req' \in [Slots -> Requests \cup {Nothing}] /\ sent' \in 0..MaxSent
    BY <1>7, <1>9, <2>1 DEF Confirm
  <2>3. /\ asked' \subseteq Endpoints
        /\ excused' \subseteq {"list", "secret", "switch"} \X (Rows \cup {Nothing})
    BY <1>9, <1>j, <2>1 DEF TypeOK, Confirm
  <2> QED
    BY <1>9, <2>2, <2>3 DEF TypeOK, Confirm
<1>10. ASSUME NEW q \in Slots, NEW e \in Endpoints, Reveal(q, e) PROVE TypeOK'
  <2>1. req' \in [Slots -> Requests \cup {Nothing}] /\ sent' \in 0..MaxSent
    BY <1>7, <1>10 DEF Reveal, Rows, Lists
  <2>2. /\ asked' \subseteq Endpoints
        /\ excused' \subseteq {"list", "secret", "switch"} \X (Rows \cup {Nothing})
    BY <1>10, <1>j DEF Reveal
  <2> QED
    BY <1>10, <2>1, <2>2 DEF TypeOK, Reveal
<1>11. ASSUME NEW q \in Slots, NEW e \in Endpoints, Toggle(q, e) PROVE TypeOK'
  <2> DEFINE a == e \notin cache["endpoints"].on
  <2>1. a \in BOOLEAN
    OBVIOUS
  <2>2. SendRequest(q, "switch", e, "endpoints", a) /\ clicked' = [clicked EXCEPT ![e] = a]
    BY <1>11 DEF Toggle
  <2> HIDE DEF a
  <2>3. req' \in [Slots -> Requests \cup {Nothing}] /\ sent' \in 0..MaxSent
    BY <1>7, <2>1, <2>2 DEF Rows, Lists
  <2>4. clicked' \in [Endpoints -> BOOLEAN \cup {Nothing}]
    BY <2>1, <2>2 DEF TypeOK
  <2> QED
    BY <1>11, <2>3, <2>4 DEF TypeOK, Toggle
<1>12. ASSUME NEW q \in UnderWay, NEW r \in Rows, NEW v \in 0..MaxRotations, Served(q, r, v)
       PROVE  req' \in [Slots -> Requests \cup {Nothing}]
  <2>1. [req[q] EXCEPT !.at = "ok", !.row = r, !.got = v] \in Requests
    BY <1>b DEF Requests
  <2> QED
    BY <1>12, <2>1 DEF TypeOK, Served, UnderWay
<1>13. ASSUME NEW q \in Slots, ServeCreate(q) PROVE TypeOK'
  <2>1. q \in UnderWay /\ req[q].list \in Lists
    BY <1>b, <1>13 DEF ServeCreate, At, UnderWay, Requests
  <2>2. PICK r \in Fresh(req[q].list) : ServeCreate(q)!2!(r)
    BY <1>13 DEF ServeCreate
  <2>3. r \in Rows /\ 0 \in 0..MaxRotations
    BY <2>1 DEF Fresh, RowsIn, Rows
  <2>4. req' \in [Slots -> Requests \cup {Nothing}]
    BY <1>12, <2>1, <2>2, <2>3
  <2> QED
    BY <1>13, <2>2, <2>3, <2>4 DEF TypeOK, ServeCreate
<1>14. ASSUME NEW q \in Slots, ServeRotate(q) PROVE TypeOK'
  <2>1. q \in UnderWay /\ req[q].row \in Endpoints
    BY <1>14 DEF ServeRotate, At, UnderWay, RequestsAreConsistent, RowsIn
  <2>2. version[req[q].row] + 1 \in 0..MaxRotations
    BY <1>14, <2>1 DEF ServeRotate, TypeOK
  <2>3. req' \in [Slots -> Requests \cup {Nothing}]
    BY <1>12, <1>14, <2>1, <2>2 DEF ServeRotate, Rows
  <2> QED
    BY <1>14, <2>2, <2>3 DEF TypeOK, ServeRotate
<1>15. ASSUME NEW q \in Slots, ServeDelete(q) \/ ServeSwitch(q) PROVE TypeOK'
  <2>1. q \in UnderWay /\ req[q].row \in Rows /\ Served(q, req[q].row, 0) /\ 0 \in 0..MaxRotations
    BY <1>15 DEF ServeDelete, ServeSwitch, At, UnderWay, TypeOK
  <2>2. req' \in [Slots -> Requests \cup {Nothing}]
    BY <1>12, <2>1
  <2> QED
    BY <1>15, <2>1, <2>2 DEF TypeOK, ServeDelete, ServeSwitch
<1>16. ASSUME NEW q \in Slots, ServeReveal(q) PROVE TypeOK'
  <2>1. q \in UnderWay /\ req[q].row \in Endpoints
    BY <1>16 DEF ServeReveal, At, UnderWay, RequestsAreConsistent, RowsIn
  <2>2. req' \in [Slots -> Requests \cup {Nothing}]
    BY <1>12, <1>16, <2>1 DEF ServeReveal, Rows, TypeOK
  <2> QED
    BY <1>16, <2>2 DEF TypeOK, ServeReveal
<1>17. ASSUME NEW q \in Slots, Refuse(q) \/ Lose(q) PROVE TypeOK'
  <2>1. q \in UnderWay
    BY <1>17 DEF Refuse, Lose, UnderWay
  <2>2. [req[q] EXCEPT !.at = "error"] \in Requests
    BY <1>b, <2>1 DEF Requests
  <2>3. req' \in [Slots -> Requests \cup {Nothing}]
    BY <1>17, <2>1, <2>2 DEF TypeOK, Refuse, Lose, UnderWay
  <2>4. excused' \subseteq {"list", "secret", "switch"} \X (Rows \cup {Nothing})
    BY <1>b, <1>17, <2>1 DEF TypeOK, Refuse, Lose, Requests
  <2> QED
    BY <1>17, <2>3, <2>4 DEF TypeOK, Refuse, Lose, Upset
<1>18. ASSUME NEW r \in Rows, Elsewhere(r) PROVE TypeOK'
  <2>1. excused' \subseteq {"list", "secret", "switch"} \X (Rows \cup {Nothing})
    BY <1>18 DEF TypeOK, Elsewhere
  <2>2. version' \in [Endpoints -> 0..MaxRotations]
    BY <1>18 DEF TypeOK, Elsewhere
  <2>3. live' \subseteq Rows /\ gone' \subseteq Rows /\ active' \subseteq Rows
    BY <1>18 DEF TypeOK, Elsewhere
  <2> QED
    BY <1>18, <2>1, <2>2, <2>3 DEF TypeOK, Elsewhere, Upset
<1>19. ASSUME NEW q \in Slots, EndpointCreated(q) PROVE TypeOK'
  <2>1. q \in UnderWay /\ req[q].row \in Rows /\ "endpoints" \in Lists
    BY <1>i, <1>19 DEF EndpointCreated, Ok, UnderWay, Lists
  <2>2. req' \in [Slots -> Requests \cup {Nothing}]
    BY <1>f, <1>19 DEF EndpointCreated, Ok
  <2>3. /\ stale' \in [Lists -> BOOLEAN]
        /\ fetch' \in [Lists -> Answers \cup {Nothing, Pending}]
    BY <1>a, <1>19, <2>1 DEF EndpointCreated
  <2>4. /\ dialog' \in [op : {"create", "rotate", "delete"}, row : Rows \cup {Nothing}] \cup {Nothing}
        /\ secret' \in [row : Rows, version : 0..MaxRotations] \cup {Nothing}
    BY <1>g, <1>h, <1>19, <2>1 DEF EndpointCreated
  <2>5. excused' \subseteq {"list", "secret", "switch"} \X (Rows \cup {Nothing})
    BY <1>e, <1>19, <2>1 DEF TypeOK, EndpointCreated
  <2> QED
    BY <1>19, <2>2, <2>3, <2>4, <2>5 DEF TypeOK, EndpointCreated
<1>20. ASSUME NEW q \in Slots, FormCreated(q) PROVE TypeOK'
  <2>1. q \in UnderWay /\ "forms" \in Lists
    BY <1>20 DEF FormCreated, Ok, UnderWay, Lists
  <2>2. req' \in [Slots -> Requests \cup {Nothing}]
    BY <1>c, <1>20 DEF FormCreated
  <2>3. /\ stale' \in [Lists -> BOOLEAN]
        /\ fetch' \in [Lists -> Answers \cup {Nothing, Pending}]
    BY <1>a, <1>20, <2>1 DEF FormCreated
  <2>4. excused' \subseteq {"list", "secret", "switch"} \X (Rows \cup {Nothing})
    BY <1>d, <1>e, <1>20, <2>1 DEF TypeOK, FormCreated
  <2> QED
    BY <1>20, <2>2, <2>3, <2>4 DEF TypeOK, FormCreated, Leave
<1>21. ASSUME NEW q \in Slots, Rotated(q) \/ Revealed(q) PROVE TypeOK'
  <2>1. q \in UnderWay /\ req[q].row \in Rows
    BY <1>i, <1>21 DEF Rotated, Revealed, Ok, UnderWay
  <2>2. req' \in [Slots -> Requests \cup {Nothing}]
    BY <1>f, <1>21 DEF Rotated, Revealed, Ok
  <2>3. /\ dialog' \in [op : {"create", "rotate", "delete"}, row : Rows \cup {Nothing}] \cup {Nothing}
        /\ secret' \in [row : Rows, version : 0..MaxRotations] \cup {Nothing}
    BY <1>g, <1>h, <1>21, <2>1 DEF Rotated, Revealed, TypeOK
  <2> QED
    BY <1>21, <2>2, <2>3 DEF TypeOK, Rotated, Revealed
<1>22. ASSUME NEW q \in Slots, Deleted(q) \/ Switched(q) PROVE TypeOK'
  <2>1. q \in UnderWay /\ req[q].list \in Lists /\ "endpoints" \in Lists
    BY <1>b, <1>22 DEF Deleted, Switched, Ok, UnderWay, Lists, Requests
  <2>2. req' \in [Slots -> Requests \cup {Nothing}]
    BY <1>f, <1>22 DEF Deleted, Switched, Ok
  <2>3. /\ stale' \in [Lists -> BOOLEAN]
        /\ fetch' \in [Lists -> Answers \cup {Nothing, Pending}]
    BY <1>a, <1>22, <2>1 DEF Deleted, Switched
  <2>4. dialog' \in [op : {"create", "rotate", "delete"}, row : Rows \cup {Nothing}] \cup {Nothing}
    BY <1>g, <1>22, <2>1 DEF TypeOK, Deleted, Switched
  <2>5. excused' \subseteq {"list", "secret", "switch"} \X (Rows \cup {Nothing})
    BY <1>e, <1>22, <2>1 DEF TypeOK, Deleted, Switched
  <2> QED
    BY <1>22, <2>2, <2>3, <2>4, <2>5 DEF TypeOK, Deleted, Switched
<1>23. ASSUME NEW q \in Slots, Failed(q) PROVE TypeOK'
  <2>1. q \in UnderWay
    BY <1>23 DEF Failed, UnderWay
  <2>2. req' \in [Slots -> Requests \cup {Nothing}]
    BY <1>f, <1>23 DEF Failed
  <2>3. dialog' \in [op : {"create", "rotate", "delete"}, row : Rows \cup {Nothing}] \cup {Nothing}
    BY <1>g, <1>23, <2>1 DEF TypeOK, Failed
  <2>4. excused' \subseteq {"list", "secret", "switch"} \X (Rows \cup {Nothing})
    BY <1>b, <1>23, <2>1 DEF TypeOK, Failed, Requests
  <2> QED
    BY <1>23, <2>2, <2>3, <2>4 DEF TypeOK, Failed
<1> QED
  BY <1>1, <1>2, <1>3, <1>4, <1>5, <1>6, <1>8, <1>9, <1>10, <1>11, <1>13, <1>14, <1>15, <1>16,
     <1>17, <1>18, <1>19, <1>20, <1>21, <1>22, <1>23 DEF Next

\* Ids are given once.
LEMMA IdsInv ==
    ASSUME TypeOK, IdsAreFresh, PageIsConsistent, RequestsAreConsistent, Next
    PROVE  IdsAreFresh'
<1> USE DEF serverVars, pageVars, cacheVars, historyVars
<1> DEFINE Seen == live \cup gone
<1>a. ASSUME UNCHANGED <<version, clicked, cache>>, live' \cap gone' = {}, Seen \subseteq Seen',
             \A l \in Lists : fetch'[l] \in {fetch[l], Nothing, Pending}
      PROVE  IdsAreFresh'
  BY <1>a DEF IdsAreFresh, Known
<1>b. ASSUME NEW l \in Lists, Invalidate(l)
      PROVE  \A m \in Lists : fetch'[m] \in {fetch[m], Nothing, Pending}
  BY <1>b DEF TypeOK, Invalidate, Refetch
<1>1. ASSUME NEW l \in Lists, ServeList(l) PROVE IdsAreFresh'
  <2>1. /\ fetch' = [fetch EXCEPT ![l] = Answer(l)] /\ Answer(l).rows \subseteq Known(l)
        /\ UNCHANGED <<live, gone, version, clicked, cache>>
    BY <1>1 DEF ServeList, Answer, Known
  <2> QED
    BY <2>1 DEF IdsAreFresh, TypeOK, Known
<1>2. ASSUME NEW l \in Lists, ListArrives(l) PROVE IdsAreFresh'
  BY <1>2 DEF IdsAreFresh, ListArrives, TypeOK, Known
<1>3. ASSUME NEW l \in Lists, ListFails(l) \/ Refocus(l) \/ OpenCreate(l) PROVE IdsAreFresh'
  BY <1>a, <1>3 DEF IdsAreFresh, ListFails, Refocus, OpenCreate, TypeOK
<1>4. ASSUME NEW p \in Lists \cup {"elsewhere"}, Go(p) PROVE IdsAreFresh'
  <2>1. \A l \in Lists : fetch'[l] \in {fetch[l], Nothing, Pending}
    BY <1>4 DEF Go, TypeOK
  <2> QED
    BY <1>a, <1>4, <2>1 DEF IdsAreFresh, Go
<1>5. CASE CancelDialog \/ \E l \in Lists, r \in Rows : \E op \in {"rotate", "delete"} : OpenConfirm(l, op, r)
  BY <1>a, <1>5 DEF IdsAreFresh, CancelDialog, OpenConfirm
<1>6. CASE CloseSecret
  BY <1>a, <1>b, <1>6 DEF IdsAreFresh, CloseSecret, Lists
<1>7. ASSUME NEW q \in Slots PROVE
         /\ \A l \in Lists : Create(q, l) => IdsAreFresh'
         /\ \A e \in Endpoints : Reveal(q, e) => IdsAreFresh'
         /\ Confirm(q) \/ ServeReveal(q) \/ Refuse(q) \/ Lose(q) => IdsAreFresh'
         /\ Rotated(q) \/ Revealed(q) \/ Failed(q) => IdsAreFresh'
  BY <1>a DEF IdsAreFresh, Create, Reveal, Confirm, ServeReveal, Refuse, Lose, Rotated, Revealed, Failed
<1>8. ASSUME NEW q \in Slots, NEW e \in Endpoints, Toggle(q, e) PROVE IdsAreFresh'
  <2>1. e \in live \cup gone
    BY <1>8 DEF Toggle, ShownRows, IdsAreFresh, Known, Lists
  <2> QED
    BY <1>8, <2>1 DEF Toggle, IdsAreFresh, TypeOK, Known
<1>9. ASSUME NEW q \in Slots, ServeCreate(q) PROVE IdsAreFresh'
  <2>1. PICK r \in Fresh(req[q].list) : ServeCreate(q)!2!(r)
    BY <1>9 DEF ServeCreate
  <2> QED
    BY <1>a, <1>9, <2>1 DEF ServeCreate, Fresh, IdsAreFresh
<1>10. ASSUME NEW q \in Slots, ServeRotate(q) PROVE IdsAreFresh'
  BY <1>10 DEF ServeRotate, IdsAreFresh, TypeOK, Known
<1>11. ASSUME NEW q \in Slots, ServeDelete(q) \/ ServeSwitch(q) PROVE IdsAreFresh'
  BY <1>a, <1>11 DEF ServeDelete, ServeSwitch, IdsAreFresh
<1>12. ASSUME NEW r \in Rows, Elsewhere(r) PROVE IdsAreFresh'
  BY <1>12 DEF Elsewhere, Fresh, IdsAreFresh, TypeOK, Known
<1>13. ASSUME NEW q \in Slots, EndpointCreated(q) \/ FormCreated(q) \/ Deleted(q) \/ Switched(q)
       PROVE  IdsAreFresh'
  <2>1. PICK l \in Lists : Invalidate(l)
    BY <1>13 DEF EndpointCreated, FormCreated, Deleted, Switched, Ok, Lists, TypeOK, Requests
  <2> QED
    BY <1>a, <1>b, <1>13, <2>1 DEF IdsAreFresh, EndpointCreated, FormCreated, Deleted, Switched
<1> QED
  BY <1>1, <1>2, <1>3, <1>4, <1>5, <1>6, <1>7, <1>8, <1>9, <1>10, <1>11, <1>12, <1>13 DEF Next

\* Dialogs and secrets belong to the page.
LEMMA PageInv ==
    ASSUME TypeOK, PageIsConsistent, RequestsAreConsistent, IdsAreFresh, Next
    PROVE  PageIsConsistent'
<1> USE DEF serverVars, pageVars, cacheVars, historyVars
<1>a. ASSUME UNCHANGED route, dialog' \in {dialog, Nothing}, secret' \in {secret, Nothing}
      PROVE  PageIsConsistent'
  BY <1>a DEF PageIsConsistent
<1>1. ASSUME NEW l \in Lists, ServeList(l) \/ ListArrives(l) \/ ListFails(l) \/ Refocus(l)
      PROVE  PageIsConsistent'
  BY <1>a, <1>1 DEF ServeList, ListArrives, ListFails, Refocus
<1>2. ASSUME NEW l \in Lists, OpenCreate(l) PROVE PageIsConsistent'
  BY <1>2 DEF OpenCreate, Usable, PageIsConsistent
<1>3. ASSUME NEW l \in Lists, NEW r \in Rows, NEW op \in {"rotate", "delete"}, OpenConfirm(l, op, r)
      PROVE  PageIsConsistent'
  <2>1. r \in RowsIn(l)
    BY <1>3 DEF OpenConfirm, ShownRows, IdsAreFresh, Known
  <2> QED
    BY <1>3, <2>1 DEF OpenConfirm, Usable, PageIsConsistent
<1>4. ASSUME NEW p \in Lists \cup {"elsewhere"}, Leave(p) PROVE PageIsConsistent'
  BY <1>4 DEF Leave, PageIsConsistent
<1>5. CASE CancelDialog \/ CloseSecret
  BY <1>a, <1>5 DEF CancelDialog, CloseSecret
<1>6. ASSUME NEW q \in Slots PROVE
         /\ \A l \in Lists : Create(q, l) => PageIsConsistent'
         /\ \A e \in Endpoints : Reveal(q, e) \/ Toggle(q, e) => PageIsConsistent'
         /\ Confirm(q) \/ ServeReveal(q) \/ Refuse(q) \/ Lose(q) => PageIsConsistent'
         /\ ServeCreate(q) \/ ServeRotate(q) \/ ServeDelete(q) \/ ServeSwitch(q) => PageIsConsistent'
  BY <1>a DEF Create, Reveal, Toggle, Confirm, ServeReveal, Refuse, Lose, ServeCreate, ServeRotate,
     ServeDelete, ServeSwitch
<1>7. ASSUME NEW r \in Rows, Elsewhere(r) PROVE PageIsConsistent'
  BY <1>a, <1>7 DEF Elsewhere
<1>8. ASSUME NEW q \in UnderWay, req[q].at = "ok", req[q].list = "endpoints", UNCHANGED route,
             ShowSecret(q), dialog' \in {dialog, Nothing}
      PROVE  PageIsConsistent'
  BY <1>8 DEF ShowSecret, Here, RequestsAreConsistent, PageIsConsistent, RowsIn
<1>9. ASSUME NEW q \in Slots, EndpointCreated(q) \/ Rotated(q) \/ Revealed(q) PROVE PageIsConsistent'
  BY <1>8, <1>9 DEF EndpointCreated, Rotated, Revealed, Ok, Close, UnderWay, RequestsAreConsistent
<1>10. ASSUME NEW q \in Slots, Deleted(q) \/ Switched(q) \/ Failed(q) PROVE PageIsConsistent'
  BY <1>a, <1>10 DEF Deleted, Switched, Failed, Close
<1> QED
  BY <1>1, <1>2, <1>3, <1>4, <1>5, <1>6, <1>7, <1>9, <1>10 DEF Next, Go, FormCreated

\* No excuse is taken back.
LEMMA ExcusesStay == Next => excused \subseteq excused'
<1> USE DEF serverVars, pageVars, cacheVars, historyVars
<1> SUFFICES ASSUME Next PROVE excused \subseteq excused'
  OBVIOUS
<1>1. ASSUME NEW q \in Slots PROVE
         /\ \A l \in Lists : Create(q, l) => excused \subseteq excused'
         /\ \A e \in Endpoints : Reveal(q, e) \/ Toggle(q, e) => excused \subseteq excused'
         /\ Confirm(q) \/ ServeReveal(q) \/ Refuse(q) \/ Lose(q) => excused \subseteq excused'
         /\ ServeCreate(q) \/ ServeRotate(q) \/ ServeDelete(q) \/ ServeSwitch(q) => excused \subseteq excused'
         /\ EndpointCreated(q) \/ FormCreated(q) \/ Rotated(q) \/ Revealed(q) => excused \subseteq excused'
         /\ Deleted(q) \/ Switched(q) \/ Failed(q) => excused \subseteq excused'
  BY DEF Create, Reveal, Toggle, Confirm, Ask, ServeReveal, Refuse, Lose, ServeCreate, ServeRotate, ServeDelete,
     ServeSwitch, EndpointCreated, FormCreated, Rotated, Revealed, Deleted, Switched, Failed
<1>2. ASSUME NEW l \in Lists,
             ServeList(l) \/ ListArrives(l) \/ ListFails(l) \/ Refocus(l) \/ OpenCreate(l)
      PROVE  excused \subseteq excused'
  BY <1>2 DEF ServeList, ListArrives, ListFails, Refocus, OpenCreate
<1>3. CASE CancelDialog \/ CloseSecret \/ (\E p \in Lists \cup {"elsewhere"} : Go(p))
           \/ (\E r \in Rows : Elsewhere(r))
           \/ \E l \in Lists, r \in Rows : \E op \in {"rotate", "delete"} : OpenConfirm(l, op, r)
  BY <1>3 DEF CancelDialog, CloseSecret, Go, Elsewhere, OpenConfirm
<1> QED
  BY <1>1, <1>2, <1>3 DEF Next

\* What is known of a request stays so while it is under way.
LEMMA RequestsInv ==
    ASSUME TypeOK, IdsAreFresh, PageIsConsistent, RequestsAreConsistent, Next
    PROVE  RequestsAreConsistent'
<1> USE DEF serverVars, pageVars, cacheVars, historyVars
<1>a. excused \subseteq excused'
  BY ExcusesStay
<1>b. \A q \in UnderWay : q \in Slots /\ req[q] \in Requests
  BY DEF UnderWay, TypeOK
<1>c. ASSUME UNCHANGED route, \A q \in Slots : req'[q] \in {req[q], Nothing} PROVE RequestsAreConsistent'
  BY <1>a, <1>c DEF RequestsAreConsistent, UnderWay
<1>d. ASSUME NEW q \in Slots, UNCHANGED route, \A p \in Slots \ {q} : req'[p] = req[p],
             /\ req'[q].from = "left" \/ req'[q].list = route
             /\ req'[q].op \in {"rotate", "reveal", "switch"} => req'[q].list = "endpoints"
             /\ req'[q].op # "create" \/ req'[q].at = "ok" => req'[q].row \in RowsIn(req'[q].list)
             /\ req'[q].op = "create" /\ req'[q].at = "sent" => req'[q].row = Nothing
             /\ req'[q].op = "switch" =>
                  /\ req'[q].arg \in BOOLEAN
                  /\ req'[q].from = "dialog" \/ <<"switch", req'[q].row>> \in excused'
             /\ req'[q].op = "rotate" /\ req'[q].from = "left" => <<"secret", req'[q].row>> \in excused'
      PROVE  RequestsAreConsistent'
  BY <1>a, <1>d DEF RequestsAreConsistent, UnderWay
<1>1. ASSUME NEW l \in Lists,
             ServeList(l) \/ ListArrives(l) \/ ListFails(l) \/ Refocus(l) \/ OpenCreate(l)
      PROVE  RequestsAreConsistent'
  BY <1>c, <1>1 DEF ServeList, ListArrives, ListFails, Refocus, OpenCreate
<1>2. CASE CloseSecret \/ (\E r \in Rows : Elsewhere(r))
           \/ \E l \in Lists, r \in Rows : \E op \in {"rotate", "delete"} : OpenConfirm(l, op, r)
  BY <1>c, <1>2 DEF CloseSecret, Elsewhere, OpenConfirm
<1>3. ASSUME Unwatched \subseteq excused', \A q \in Slots : req'[q] \in {Left[q], Nothing}
      PROVE  RequestsAreConsistent'
  <2> SUFFICES ASSUME NEW q \in Slots, req'[q] # Nothing
               PROVE  RequestsAreConsistent!(q)'
    BY DEF RequestsAreConsistent, UnderWay
  <2>1. q \in UnderWay /\ req'[q] = [req[q] EXCEPT !.from = "left"]
    BY <1>3 DEF Left, UnderWay
  <2>2. /\ req'[q].op = req[q].op /\ req'[q].row = req[q].row /\ req'[q].list = req[q].list
        /\ req'[q].arg = req[q].arg /\ req'[q].at = req[q].at /\ req'[q].from = "left"
    BY <1>b, <2>1 DEF Requests
  <2>3. req[q].op = "switch" => <<"switch", req[q].row>> \in excused'
    BY <1>3, <2>1 DEF Unwatched
  <2>4. req[q].op = "rotate" => <<"secret", req[q].row>> \in excused'
    BY <1>3, <2>1 DEF Unwatched
  <2> QED
    BY <2>1, <2>2, <2>3, <2>4 DEF RequestsAreConsistent
<1>4. ASSUME NEW p \in Lists \cup {"elsewhere"}, Go(p) PROVE RequestsAreConsistent'
  <2>1. Unwatched \subseteq excused' /\ \A q \in Slots : req'[q] = Left[q]
    BY <1>4 DEF Go
  <2> QED
    BY <1>3, <2>1
<1>5. ASSUME NEW q \in Slots, FormCreated(q) PROVE RequestsAreConsistent'
  <2>1. Unwatched \subseteq excused' /\ \A p \in Slots : req'[p] \in {Left[p], Nothing}
    BY <1>5 DEF FormCreated, Left
  <2> QED
    BY <1>3, <2>1
<1>e. ASSUME UNCHANGED route,
             \A q \in Slots : req'[q] \in {req[q], Nothing} \/ LeavesDialog(q)
      PROVE  RequestsAreConsistent'
  <2> SUFFICES ASSUME NEW q \in Slots, req'[q] # Nothing
               PROVE  RequestsAreConsistent!(q)'
    BY DEF RequestsAreConsistent, UnderWay
  <2>1. q \in UnderWay
    BY <1>e DEF LeavesDialog, UnderWay
  <2>2. CASE req'[q] = req[q]
    BY <1>a, <1>e, <2>1, <2>2 DEF RequestsAreConsistent
  <2>3. CASE LeavesDialog(q)
    BY <1>a, <1>e, <2>1, <2>3 DEF RequestsAreConsistent, LeavesDialog
  <2> QED
    BY <1>e, <2>2, <2>3
<1>6. CASE CancelDialog
  BY <1>e, <1>6, Cancelled DEF CancelDialog
<1>7. ASSUME NEW q \in Slots, NEW o, NEW r, NEW a, SendRequest(q, o, r, route, a), UNCHANGED route,
             o \in {"rotate", "reveal", "switch"} => route = "endpoints",
             o # "create" => r \in RowsIn(route), o = "create" => r = Nothing,
             o = "switch" => a \in BOOLEAN
      PROVE  RequestsAreConsistent'
  <2>1. /\ req'[q].op = o /\ req'[q].row = r /\ req'[q].list = route /\ req'[q].arg = a
        /\ req'[q].at = "sent" /\ req'[q].from = "dialog"
        /\ \A p \in Slots \ {q} : req'[p] = req[p]
    BY <1>7 DEF SendRequest, TypeOK
  <2> QED
    BY <1>7, <1>d, <2>1
<1>8. ASSUME NEW q \in Slots, NEW l \in Lists, Create(q, l) PROVE RequestsAreConsistent'
  BY <1>7, <1>8 DEF Create
<1>9. ASSUME NEW q \in Slots, Confirm(q) PROVE RequestsAreConsistent'
  <2>1. dialog.op \in {"rotate", "delete"} /\ SendRequest(q, dialog.op, dialog.row, route, Nothing)
        /\ UNCHANGED route /\ dialog # Nothing
    BY <1>9 DEF Confirm, TypeOK
  <2> QED
    BY <1>7, <2>1 DEF PageIsConsistent
<1>10. ASSUME NEW q \in Slots, NEW e \in Endpoints, Reveal(q, e) \/ Toggle(q, e)
       PROVE  RequestsAreConsistent'
  <2> DEFINE a == e \notin cache["endpoints"].on
  <2>1. /\ route = "endpoints" /\ UNCHANGED route /\ a \in BOOLEAN
        /\ SendRequest(q, "reveal", e, route, Nothing) \/ SendRequest(q, "switch", e, route, a)
    BY <1>10 DEF Reveal, Toggle, Usable
  <2> HIDE DEF a
  <2> QED
    BY <1>7, <2>1 DEF RowsIn
<1>11. ASSUME NEW q \in UnderWay, NEW r, NEW v, Served(q, r, v), UNCHANGED route,
              r \in RowsIn(req[q].list), r = req[q].row \/ req[q].op = "create"
       PROVE  RequestsAreConsistent'
  <2>1. /\ req'[q].op = req[q].op /\ req'[q].row = r /\ req'[q].list = req[q].list
        /\ req'[q].arg = req[q].arg /\ req'[q].at = "ok" /\ req'[q].from = req[q].from
        /\ \A p \in Slots \ {q} : req'[p] = req[p]
    BY <1>b, <1>11 DEF Served, TypeOK, Requests
  <2>2. q \in Slots /\ RequestsAreConsistent!(q)
    BY <1>b DEF RequestsAreConsistent
  <2> QED
    BY <1>11, <1>a, <1>d, <2>1, <2>2
<1>12. ASSUME NEW q \in Slots, ServeCreate(q) PROVE RequestsAreConsistent'
  <2>1. PICK r \in Fresh(req[q].list) : ServeCreate(q)!2!(r)
    BY <1>12 DEF ServeCreate
  <2>2. q \in UnderWay /\ req[q].op = "create" /\ r \in RowsIn(req[q].list) /\ UNCHANGED route
    BY <1>12, <2>1 DEF ServeCreate, At, UnderWay, Fresh
  <2> QED
    BY <1>11, <2>1, <2>2
<1>13. ASSUME NEW q \in Slots, ServeRotate(q) \/ ServeDelete(q) \/ ServeSwitch(q) \/ ServeReveal(q)
       PROVE  RequestsAreConsistent'
  <2>1. q \in UnderWay /\ req[q].row \in RowsIn(req[q].list) /\ UNCHANGED route
    BY <1>13 DEF ServeRotate, ServeDelete, ServeSwitch, ServeReveal, At, UnderWay, RequestsAreConsistent
  <2>2. \E v : Served(q, req[q].row, v)
    BY <1>13 DEF ServeRotate, ServeDelete, ServeSwitch, ServeReveal
  <2> QED
    BY <1>11, <2>1, <2>2
<1>14. ASSUME NEW q \in Slots, Refuse(q) \/ Lose(q) PROVE RequestsAreConsistent'
  <2>1. /\ q \in UnderWay /\ UNCHANGED route /\ req' = [req EXCEPT ![q].at = "error"]
    BY <1>14 DEF Refuse, Lose, UnderWay
  <2>2. /\ req'[q].op = req[q].op /\ req'[q].row = req[q].row /\ req'[q].list = req[q].list
        /\ req'[q].arg = req[q].arg /\ req'[q].at = "error" /\ req'[q].from = req[q].from
        /\ \A p \in Slots \ {q} : req'[p] = req[p]
    BY <1>b, <2>1 DEF TypeOK, Requests
  <2>3. RequestsAreConsistent!(q)
    BY <2>1 DEF RequestsAreConsistent
  <2> QED
    BY <1>a, <1>d, <2>1, <2>2, <2>3
<1>15. ASSUME NEW q \in Slots,
              \/ EndpointCreated(q) \/ Rotated(q) \/ Revealed(q) \/ Deleted(q) \/ Switched(q) \/ Failed(q)
       PROVE  RequestsAreConsistent'
  <2>1. req[q] # Nothing /\ (Free(q) \/ Close(q)) /\ UNCHANGED route
    BY <1>15 DEF EndpointCreated, Rotated, Revealed, Deleted, Switched, Failed, Ok
  <2> QED
    BY <1>e, <2>1, Ended
<1> QED
  BY <1>1, <1>2, <1>4, <1>5, <1>6, <1>8, <1>9, <1>10, <1>12, <1>13, <1>14, <1>15 DEF Next

\* What a step makes of a request that stays under way.
LEMMA RequestsCarried ==
    ASSUME TypeOK, Next, NEW q \in UnderWay, q \in UnderWay'
    PROVE  /\ req'[q].op = req[q].op /\ req'[q].list = req[q].list /\ req'[q].arg = req[q].arg
           /\ req[q].op # "create" \/ req[q].at # "sent" => req'[q].row = req[q].row
           /\ req'[q].from # "left" => req[q].from # "left"
           /\ req'[q].at = "ok" =>
                \/ req[q].at = "ok" /\ req'[q].got = req[q].got
                \/ /\ req[q].at = "sent"
                   /\ ServeCreate(q) \/ ServeRotate(q) \/ ServeDelete(q) \/ ServeSwitch(q) \/ ServeReveal(q)
<1> USE DEF serverVars, pageVars, cacheVars, historyVars
<1> DEFINE
     Serve == ServeCreate(q) \/ ServeRotate(q) \/ ServeDelete(q) \/ ServeSwitch(q) \/ ServeReveal(q)
     Goal == /\ req'[q].op = req[q].op /\ req'[q].list = req[q].list /\ req'[q].arg = req[q].arg
             /\ req[q].op # "create" \/ req[q].at # "sent" => req'[q].row = req[q].row
             /\ req'[q].from # "left" => req[q].from # "left"
             /\ req'[q].at = "ok" => \/ req[q].at = "ok" /\ req'[q].got = req[q].got
                                     \/ req[q].at = "sent" /\ Serve
<1>a. q \in Slots /\ req[q] \in Requests /\ req[q] # Nothing /\ req'[q] # Nothing
  BY DEF UnderWay, TypeOK
<1>b. ASSUME req'[q] = req[q] PROVE Goal
  BY <1>b
<1>c. ASSUME \/ req'[q] = [req[q] EXCEPT !.from = "left"]
             \/ req'[q] = [req[q] EXCEPT !.at = "error"]
      PROVE  Goal
  BY <1>a, <1>c DEF Requests
<1>d. ASSUME LeavesDialog(q) PROVE Goal
  BY <1>d DEF LeavesDialog
<1>1. ASSUME NEW l \in Lists,
             ServeList(l) \/ ListArrives(l) \/ ListFails(l) \/ Refocus(l) \/ OpenCreate(l)
      PROVE  Goal
  BY <1>b, <1>1 DEF ServeList, ListArrives, ListFails, Refocus, OpenCreate
<1>2. CASE CloseSecret \/ (\E r \in Rows : Elsewhere(r))
           \/ \E l \in Lists, r \in Rows : \E op \in {"rotate", "delete"} : OpenConfirm(l, op, r)
  BY <1>b, <1>2 DEF CloseSecret, Elsewhere, OpenConfirm
<1>3. CASE CancelDialog \/ \E p \in Lists \cup {"elsewhere"} : Go(p)
  <2>1. CASE CancelDialog
    BY <1>a, <1>b, <1>d, <2>1, Cancelled
  <2>2. CASE ~CancelDialog
    BY <1>a, <1>c, <1>3, <2>2 DEF Go, Left
  <2> QED
    BY <2>1, <2>2
<1>4. ASSUME NEW p \in Slots, NEW o, NEW r, NEW l, NEW a, SendRequest(p, o, r, l, a) PROVE Goal
  BY <1>a, <1>b, <1>4 DEF SendRequest, TypeOK
<1>5. CASE \/ \E p \in Slots, l \in Lists : Create(p, l)
           \/ \E p \in Slots, e \in Endpoints : Reveal(p, e) \/ Toggle(p, e)
           \/ \E p \in Slots : Confirm(p)
  BY <1>4, <1>5 DEF Create, Reveal, Toggle, Confirm
<1>6. ASSUME NEW p \in Slots, NEW r, NEW v, Served(p, r, v), p = q => Serve /\ req[q].at = "sent",
             p = q => r = req[q].row \/ req[q].op = "create"
      PROVE  Goal
  <2>1. CASE p # q
    BY <1>a, <1>b, <1>6, <2>1 DEF Served, TypeOK
  <2>2. CASE p = q
    <3>1. req'[q] = [req[q] EXCEPT !.at = "ok", !.row = r, !.got = v]
      BY <1>a, <1>6, <2>2 DEF Served, TypeOK
    <3>2. /\ req'[q].op = req[q].op /\ req'[q].list = req[q].list /\ req'[q].arg = req[q].arg
          /\ req'[q].row = r /\ req'[q].from = req[q].from
      BY <1>a, <3>1 DEF Requests
    <3>3. Serve /\ req[q].at = "sent" /\ (r = req[q].row \/ req[q].op = "create")
      BY <1>6, <2>2
    <3> HIDE DEF Serve
    <3> QED
      BY <3>2, <3>3
  <2> QED
    BY <2>1, <2>2
<1>7. ASSUME NEW p \in Slots, ServeCreate(p) \/ ServeRotate(p) \/ ServeDelete(p) \/ ServeSwitch(p) \/ ServeReveal(p)
      PROVE  Goal
  <2>1. \E r, v : Served(p, r, v) /\ (p = q => Serve /\ req[q].at = "sent")
                  /\ (p = q => r = req[q].row \/ req[q].op = "create")
    <3>1. CASE ServeCreate(p)
      BY <3>1 DEF ServeCreate, At
    <3>2. CASE ServeRotate(p)
      BY <3>2 DEF ServeRotate, At
    <3>3. CASE ServeDelete(p) \/ ServeSwitch(p) \/ ServeReveal(p)
      BY <3>3 DEF ServeDelete, ServeSwitch, ServeReveal, At
    <3> QED
      BY <1>7, <3>1, <3>2, <3>3
  <2> QED
    BY <1>6, <2>1
<1>8. ASSUME NEW p \in Slots, Refuse(p) \/ Lose(p) PROVE Goal
  <2>1. req' = [req EXCEPT ![p].at = "error"]
    BY <1>8 DEF Refuse, Lose
  <2> QED
    BY <1>a, <1>b, <1>c, <2>1 DEF TypeOK
<1>9. ASSUME NEW p \in Slots,
             \/ EndpointCreated(p) \/ Rotated(p) \/ Revealed(p) \/ Deleted(p) \/ Switched(p) \/ Failed(p)
      PROVE  Goal
  <2>1. req[p] # Nothing /\ (Free(p) \/ Close(p))
    BY <1>9 DEF EndpointCreated, Rotated, Revealed, Deleted, Switched, Failed, Ok
  <2> QED
    BY <1>a, <1>b, <1>d, <2>1, Ended
<1>10. ASSUME NEW p \in Slots, FormCreated(p) PROVE Goal
  BY <1>a, <1>c, <1>10 DEF FormCreated, Left, TypeOK
<1> QED
  BY <1>1, <1>2, <1>3, <1>5, <1>7, <1>8, <1>9, <1>10 DEF Next

\* Rows that a dialog or a request is for stay known.
LEMMA RowsInv ==
    ASSUME TypeOK, IdsAreFresh, PageIsConsistent, RequestsAreConsistent, RowsAreKnown, Next
    PROVE  RowsAreKnown'
<1> USE DEF serverVars, pageVars, cacheVars, historyVars
<1>1. live \cup gone \subseteq live' \cup gone'
  <2>1. ASSUME NEW q \in Slots PROVE
         /\ \A l \in Lists : Create(q, l) => UNCHANGED <<live, gone>>
         /\ \A e \in Endpoints : Reveal(q, e) \/ Toggle(q, e) => UNCHANGED <<live, gone>>
         /\ Confirm(q) \/ ServeReveal(q) \/ Refuse(q) \/ Lose(q) => UNCHANGED <<live, gone>>
         /\ ServeRotate(q) \/ ServeSwitch(q) => UNCHANGED <<live, gone>>
         /\ EndpointCreated(q) \/ FormCreated(q) \/ Rotated(q) \/ Revealed(q) => UNCHANGED <<live, gone>>
         /\ Deleted(q) \/ Switched(q) \/ Failed(q) => UNCHANGED <<live, gone>>
         /\ ServeCreate(q) \/ ServeDelete(q) => live \cup gone \subseteq live' \cup gone'
    BY DEF Create, Reveal, Toggle, Confirm, ServeReveal, Refuse, Lose, ServeCreate, ServeRotate,
       ServeDelete, ServeSwitch, EndpointCreated, FormCreated, Rotated, Revealed, Deleted, Switched, Failed
  <2>2. ASSUME NEW l \in Lists,
               ServeList(l) \/ ListArrives(l) \/ ListFails(l) \/ Refocus(l) \/ OpenCreate(l)
        PROVE  UNCHANGED <<live, gone>>
    BY <2>2 DEF ServeList, ListArrives, ListFails, Refocus, OpenCreate
  <2>3. CASE CancelDialog \/ CloseSecret \/ (\E p \in Lists \cup {"elsewhere"} : Go(p))
             \/ (\E r \in Rows : Elsewhere(r))
             \/ \E l \in Lists, r \in Rows : \E op \in {"rotate", "delete"} : OpenConfirm(l, op, r)
    BY <2>3 DEF CancelDialog, CloseSecret, Go, Elsewhere, OpenConfirm
  <2> QED
    BY <2>1, <2>2, <2>3 DEF Next
<1>2. dialog' # Nothing /\ dialog'.op # "create" => dialog'.row \in live \cup gone
  <2>1. ASSUME dialog' \in {dialog, Nothing} PROVE <1>2
    BY <2>1 DEF RowsAreKnown
  <2>2. ASSUME NEW q \in Slots PROVE
         /\ \A l \in Lists : Create(q, l) => dialog' \in {dialog, Nothing}
         /\ \A e \in Endpoints : Reveal(q, e) \/ Toggle(q, e) => dialog' \in {dialog, Nothing}
         /\ Confirm(q) \/ ServeReveal(q) \/ Refuse(q) \/ Lose(q) => dialog' \in {dialog, Nothing}
         /\ ServeCreate(q) \/ ServeRotate(q) \/ ServeDelete(q) \/ ServeSwitch(q) =>
               dialog' \in {dialog, Nothing}
         /\ EndpointCreated(q) \/ FormCreated(q) \/ Rotated(q) \/ Revealed(q) => dialog' \in {dialog, Nothing}
         /\ Deleted(q) \/ Switched(q) \/ Failed(q) => dialog' \in {dialog, Nothing}
    BY DEF Create, Reveal, Toggle, Confirm, ServeReveal, Refuse, Lose, ServeCreate, ServeRotate, ServeDelete,
       ServeSwitch, EndpointCreated, FormCreated, Rotated, Revealed, Deleted, Switched, Failed, Close, Leave
  <2>3. CASE CancelDialog \/ CloseSecret \/ (\E p \in Lists \cup {"elsewhere"} : Go(p))
             \/ (\E r \in Rows : Elsewhere(r))
             \/ \E l \in Lists : ServeList(l) \/ ListArrives(l) \/ ListFails(l) \/ Refocus(l)
    BY <2>1, <2>3 DEF CancelDialog, CloseSecret, Go, Leave, Elsewhere, ServeList, ListArrives, ListFails,
                      Refocus
  <2>4. CASE \E l \in Lists : OpenCreate(l)
    BY <2>4 DEF OpenCreate
  <2>5. CASE \E l \in Lists, r \in Rows : \E op \in {"rotate", "delete"} : OpenConfirm(l, op, r)
    BY <2>5 DEF OpenConfirm, ShownRows, IdsAreFresh, Known
  <2> QED
    BY <2>1, <2>2, <2>3, <2>4, <2>5 DEF Next
<1>3. ASSUME NEW q \in UnderWay', req'[q].op # "create" \/ req'[q].at = "ok"
      PROVE  req'[q].row \in live' \cup gone'
  <2>1. q \in Slots /\ req'[q] # Nothing
    BY DEF UnderWay
  <2>2. CASE q \in UnderWay /\ ~ServeCreate(q)
    <3>1. /\ req'[q].op = req[q].op
          /\ req[q].op # "create" \/ req[q].at # "sent" => req'[q].row = req[q].row
          /\ req'[q].at = "ok" => \/ req[q].at = "ok"
                                  \/ ServeRotate(q) \/ ServeDelete(q) \/ ServeSwitch(q) \/ ServeReveal(q)
      BY <2>2, RequestsCarried
    <3>2. req[q].op # "create" \/ req[q].at = "ok"
      BY <1>3, <3>1 DEF ServeRotate, ServeDelete, ServeSwitch, ServeReveal, At
    <3> QED
      BY <1>1, <2>2, <3>1, <3>2 DEF RowsAreKnown
  <2>3. CASE q \in UnderWay /\ ServeCreate(q)
    <3>1. PICK r \in Fresh(req[q].list) : ServeCreate(q)!2!(r)
      BY <2>3 DEF ServeCreate
    <3>2. req[q] \in Requests
      BY <2>3 DEF UnderWay, TypeOK
    <3>3. req'[q].row = r
      BY <2>1, <3>1, <3>2 DEF Served, TypeOK, Requests
    <3> QED
      BY <3>1, <3>3
  <2>4. CASE q \notin UnderWay
    <3>1. req[q] = Nothing
      BY <2>1, <2>4 DEF UnderWay
    <3>2. \/ \E l \in Lists : Create(q, l)
          \/ \E e \in Endpoints : Reveal(q, e) \/ Toggle(q, e)
          \/ Confirm(q)
      <4>1. ASSUME NEW p \in Slots, NEW o, NEW r, NEW l, NEW a, SendRequest(p, o, r, l, a) PROVE p = q
        BY <2>1, <3>1, <4>1 DEF SendRequest, TypeOK
      <4>2. ASSUME NEW p \in Slots, NEW r, NEW v, req[p] # Nothing, Served(p, r, v) PROVE FALSE
        BY <2>1, <3>1, <4>2 DEF Served, TypeOK
      <4>3. ASSUME NEW p \in Slots, req[p] # Nothing, Free(p) \/ Close(p) PROVE FALSE
        BY <2>1, <3>1, <4>3, Ended DEF LeavesDialog
      <4>4. CASE \E p \in Slots : \/ ServeCreate(p) \/ ServeRotate(p) \/ ServeDelete(p) \/ ServeSwitch(p)
                                  \/ ServeReveal(p)
        BY <4>2, <4>4 DEF ServeCreate, ServeRotate, ServeDelete, ServeSwitch, ServeReveal, At
      <4>5. CASE \E p \in Slots : \/ EndpointCreated(p) \/ Rotated(p) \/ Revealed(p) \/ Deleted(p)
                                  \/ Switched(p) \/ Failed(p)
        BY <4>3, <4>5 DEF EndpointCreated, Rotated, Revealed, Deleted, Switched, Failed, Ok
      <4>6. ~(\E p \in Slots : Refuse(p) \/ Lose(p) \/ FormCreated(p))
        BY <2>1, <3>1 DEF Refuse, Lose, FormCreated, Left, Ok, TypeOK
      <4>7. ~(\/ \E l \in Lists : ServeList(l) \/ ListArrives(l) \/ ListFails(l) \/ Refocus(l) \/ OpenCreate(l)
              \/ \E p \in Lists \cup {"elsewhere"} : Go(p)
              \/ \E l \in Lists, r \in Rows : \E op \in {"rotate", "delete"} : OpenConfirm(l, op, r)
              \/ CancelDialog \/ CloseSecret
              \/ \E r \in Rows : Elsewhere(r))
        BY <2>1, <3>1, Cancelled DEF ServeList, ListArrives, ListFails, Refocus, OpenCreate, Go, Left,
           OpenConfirm, CloseSecret, Elsewhere, LeavesDialog
      <4>8. CASE \E p \in Slots : \/ \E l \in Lists : Create(p, l)
                                  \/ \E e \in Endpoints : Reveal(p, e) \/ Toggle(p, e)
                                  \/ Confirm(p)
        BY <4>1, <4>8 DEF Create, Reveal, Toggle, Confirm
      <4> QED
        BY <4>4, <4>5, <4>6, <4>7, <4>8 DEF Next
    <3>3. ASSUME NEW o, NEW r, NEW l, NEW a, SendRequest(q, o, r, l, a)
          PROVE  req'[q].op = o /\ req'[q].at = "sent" /\ req'[q].row = r
      BY <2>1, <3>3 DEF SendRequest, TypeOK
    <3>4. \A l \in Lists : ~Create(q, l)
      BY <1>3, <3>3 DEF Create
    <3>5. ASSUME NEW e \in Endpoints, Reveal(q, e) \/ Toggle(q, e) PROVE req'[q].row \in live \cup gone
      <4>1. e \in ShownRows("endpoints") /\ req'[q].row = e
        BY <3>3, <3>5 DEF Reveal, Toggle
      <4> QED
        BY <4>1 DEF ShownRows, IdsAreFresh, Known, Lists
    <3>6. ASSUME Confirm(q) PROVE req'[q].row \in live \cup gone
      BY <3>3, <3>6 DEF Confirm, RowsAreKnown
    <3> QED
      BY <1>1, <3>2, <3>4, <3>5, <3>6
  <2> QED
    BY <2>2, <2>3, <2>4
<1> QED
  BY <1>1, <1>2, <1>3 DEF RowsAreKnown

\* The switch of an endpoint is clicked again only when the request before it
\* has been answered or left, so no two can cross unwatched.
LEMMA SwitchesInv ==
    ASSUME TypeOK, IdsAreFresh, PageIsConsistent, RequestsAreConsistent, SwitchesAreExplained,
           LastClickWins, Next
    PROVE  SwitchesAreExplained' /\ LastClickWins'
<1> USE DEF serverVars, pageVars, cacheVars, historyVars
<1> DEFINE
     Goal == SwitchesAreExplained' /\ LastClickWins'
     Same == \A e \in live' \cap Endpoints : e \in live /\ (e \in active' <=> e \in active)
     Ends(q) == q \in UnderWay /\ req[q].op = "switch" /\ q \notin UnderWay'
<1>a. excused \subseteq excused'
  BY ExcusesStay
<1>b. \A q \in UnderWay : q \in Slots /\ req[q] \in Requests
  BY DEF UnderWay, TypeOK
<1>c. \A q \in UnderWay : req[q].op = "switch" => req[q].row \in Endpoints /\ req[q].arg \in BOOLEAN
  BY DEF RequestsAreConsistent, RowsIn
<1>d. \A q \in UnderWay : q \in UnderWay' =>
         /\ req'[q].op = req[q].op /\ req'[q].arg = req[q].arg
         /\ req[q].op = "switch" => req'[q].row = req[q].row
  BY RequestsCarried
<1> DEFINE
     \* No switch is sent or served.
     NoneServed == \A q \in Slots : req'[q] # Nothing /\ req'[q].op = "switch" =>
                     req[q] # Nothing /\ (req'[q].at = "ok" => req[q].at = "ok")
     \* No switch is answered.
     NoneEnds == \A q \in Slots : req[q] # Nothing /\ req[q].op = "switch" => req'[q] # Nothing
<1>1. ASSUME UNCHANGED clicked, Same, NoneServed PROVE SwitchesAreExplained'
  <2> SUFFICES ASSUME NEW q \in Slots, req'[q] # Nothing, req'[q].op = "switch",
                      <<"switch", req'[q].row>> \notin excused'
               PROVE  SwitchesAreExplained!(q)!2'
    BY DEF SwitchesAreExplained, UnderWay
  <2>1. /\ q \in UnderWay /\ req[q].op = "switch" /\ req'[q].row = req[q].row /\ req'[q].arg = req[q].arg
        /\ req'[q].at = "ok" => req[q].at = "ok"
        /\ req[q].row \in Endpoints
    BY <1>1, <1>c, <1>d DEF UnderWay
  <2>2. SwitchesAreExplained!(q)!2
    BY <1>a, <2>1 DEF SwitchesAreExplained
  <2>3. ASSUME NEW p \in UnderWay', req'[p].op = "switch", req'[p].row = req'[q].row PROVE p = q
    BY <1>1, <1>d, <2>1, <2>2, <2>3 DEF UnderWay
  <2> QED
    BY <1>1, <2>1, <2>2, <2>3
<1>2. ASSUME UNCHANGED clicked, Same, NoneEnds PROVE LastClickWins'
  <2> SUFFICES ASSUME NEW e \in live' \cap Endpoints PROVE LastClickWins!(e)'
    BY DEF LastClickWins
  <2>1. e \in live /\ LastClickWins!(e)
    BY <1>2 DEF LastClickWins
  <2>2. ASSUME NEW q \in UnderWay, req[q].op = "switch", req[q].row = e
        PROVE  q \in UnderWay' /\ req'[q].op = "switch" /\ req'[q].row = e
    BY <1>2, <1>b, <1>d, <2>2 DEF UnderWay
  <2> QED
    BY <1>2, <1>a, <2>1, <2>2
<1>3. ASSUME UNCHANGED <<clicked, live, active>>, NoneServed, NoneEnds PROVE Goal
  BY <1>1, <1>2, <1>3
<1>4. ASSUME UNCHANGED <<clicked, live, active, req>> PROVE Goal
  BY <1>3, <1>4
<1>5. ASSUME NEW l \in Lists,
             ServeList(l) \/ ListArrives(l) \/ ListFails(l) \/ Refocus(l) \/ OpenCreate(l)
      PROVE  Goal
  BY <1>4, <1>5 DEF ServeList, ListArrives, ListFails, Refocus, OpenCreate
<1>6. ASSUME CloseSecret \/ \E l \in Lists, r \in Rows : \E op \in {"rotate", "delete"} : OpenConfirm(l, op, r)
      PROVE  Goal
  BY <1>4, <1>6 DEF CloseSecret, OpenConfirm
<1>7. ASSUME CancelDialog \/ \E p \in Lists \cup {"elsewhere"} : Go(p) PROVE Goal
  <2>1. ASSUME NEW q \in Slots
        PROVE  /\ req'[q] # Nothing => req[q] # Nothing /\ req'[q].at = req[q].at
               /\ req[q] # Nothing => req'[q] # Nothing
    <3>1. CASE CancelDialog
      BY <3>1, Cancelled DEF LeavesDialog
    <3>2. CASE ~CancelDialog
      <4>1. IF req[q] = Nothing THEN req'[q] = Nothing ELSE req'[q] = [req[q] EXCEPT !.from = "left"]
        BY <1>7, <3>2 DEF Go, Left
      <4>2. req[q] # Nothing => [req[q] EXCEPT !.from = "left"] \in Requests
        BY <1>b DEF UnderWay, Requests
      <4> QED
        BY <1>b, <4>1, <4>2, RowsAssumption DEF Requests, UnderWay
    <3> QED
      BY <3>1, <3>2
  <2>2. UNCHANGED <<clicked, live, active>>
    BY <1>7 DEF CancelDialog, Go
  <2> QED
    BY <1>3, <2>1, <2>2
<1>8. ASSUME NEW q \in Slots, NEW o, NEW r, NEW l, NEW a, SendRequest(q, o, r, l, a), o # "switch",
             UNCHANGED <<clicked, live, active>>
      PROVE  Goal
  <2>1. /\ req[q] = Nothing /\ req'[q].op = o
        /\ \A p \in Slots \ {q} : req'[p] = req[p]
    BY <1>8 DEF SendRequest, TypeOK
  <2> QED
    BY <1>3, <1>8, <2>1
<1>9. ASSUME NEW q \in Slots,
             \/ \E l \in Lists : Create(q, l)
             \/ \E e \in Endpoints : Reveal(q, e)
             \/ Confirm(q)
      PROVE  Goal
  BY <1>8, <1>9 DEF Create, Reveal, Confirm, TypeOK
<1>10. ASSUME NEW q \in Slots, NEW e \in Endpoints, Toggle(q, e) PROVE Goal
  <2> DEFINE a == e \notin cache["endpoints"].on
  <2>1. /\ req[q] = Nothing /\ req'[q] # Nothing
        /\ req'[q].op = "switch" /\ req'[q].row = e /\ req'[q].arg = a /\ req'[q].at = "sent"
        /\ clicked'[e] = a /\ \A d \in Endpoints \ {e} : clicked'[d] = clicked[d]
        /\ \A p \in Slots \ {q} : req'[p] = req[p]
        /\ UNCHANGED <<live, active, excused>>
    <3>1. [op |-> "switch", row |-> e, list |-> "endpoints", arg |-> a, at |-> "sent", got |-> 0,
           from |-> "dialog"] \in Requests
      BY BoundAssumption DEF Requests, Rows, Lists
    <3>2. SendRequest(q, "switch", e, "endpoints", a) /\ clicked' = [clicked EXCEPT ![e] = a]
      BY <1>10 DEF Toggle
    <3> HIDE DEF a
    <3> QED
      BY <1>10, <3>1, <3>2, RowsAssumption DEF SendRequest, Toggle, TypeOK
  <2> HIDE DEF a
  <2>2. \A p \in UnderWay : req[p].op = "switch" /\ req[p].row = e => <<"switch", e>> \in excused
    BY <1>10 DEF Toggle, RequestsAreConsistent
  <2>3. SwitchesAreExplained'
    <3> SUFFICES ASSUME NEW p \in Slots, req'[p] # Nothing, req'[p].op = "switch",
                        <<"switch", req'[p].row>> \notin excused'
                 PROVE  SwitchesAreExplained!(p)!2'
      BY DEF SwitchesAreExplained, UnderWay
    <3>1. CASE p = q
      BY <2>1, <2>2, <3>1 DEF UnderWay
    <3>2. CASE p # q
      <4>1. p \in UnderWay /\ req[p].row # e /\ req[p].row \in Endpoints /\ SwitchesAreExplained!(p)!2
        BY <1>c, <2>1, <2>2, <3>2 DEF SwitchesAreExplained, UnderWay
      <4> QED
        BY <2>1, <3>2, <4>1 DEF UnderWay
    <3> QED
      BY <3>1, <3>2
  <2>4. LastClickWins'
    <3> SUFFICES ASSUME NEW d \in live' \cap Endpoints PROVE LastClickWins!(d)'
      BY DEF LastClickWins
    <3>1. CASE d = e
      BY <2>1, <3>1 DEF UnderWay
    <3>2. CASE d # e
      BY <2>1, <3>2 DEF LastClickWins, UnderWay
    <3> QED
      BY <3>1, <3>2
  <2> QED
    BY <2>3, <2>4
<1>11. ASSUME NEW q \in UnderWay, NEW r \in Rows, NEW v \in 0..MaxRotations, Served(q, r, v)
       PROVE  NoneEnds /\ (req[q].op # "switch" => NoneServed)
  <2>1. req'[q] # Nothing /\ \A p \in Slots \ {q} : req'[p] = req[p]
    <3>1. req'[q] = [req[q] EXCEPT !.at = "ok", !.row = r, !.got = v]
          /\ \A p \in Slots \ {q} : req'[p] = req[p]
      BY <1>b, <1>11 DEF Served, TypeOK
    <3>2. [req[q] EXCEPT !.at = "ok", !.row = r, !.got = v] \in Requests
      BY <1>b DEF Requests
    <3> QED
      BY <3>1, <3>2, RowsAssumption
  <2> QED
    BY <1>d, <2>1 DEF UnderWay
<1>12. ASSUME NEW q \in Slots, ServeCreate(q) PROVE Goal
  <2>1. PICK r \in Fresh(req[q].list) : ServeCreate(q)!2!(r)
    BY <1>12 DEF ServeCreate
  <2>2. q \in UnderWay /\ req[q].op = "create" /\ r \in Rows /\ r \notin live \cup gone /\ UNCHANGED clicked
    BY <1>12 DEF ServeCreate, At, UnderWay, Fresh, RowsIn, Rows
  <2>3. NoneServed /\ NoneEnds
    BY <1>11, <2>1, <2>2, BoundAssumption
  <2>4. \A e \in live' \cap Endpoints : e = r \/ (e \in live /\ (e \in active' <=> e \in active))
    BY <2>1
  <2>5. r \in Endpoints => clicked[r] = Nothing
    BY <2>2 DEF IdsAreFresh
  <2>6. SwitchesAreExplained'
    <3> SUFFICES ASSUME NEW p \in Slots, req'[p] # Nothing, req'[p].op = "switch",
                        <<"switch", req'[p].row>> \notin excused'
                 PROVE  SwitchesAreExplained!(p)!2'
      BY DEF SwitchesAreExplained, UnderWay
    <3>1. /\ p \in UnderWay /\ req[p].op = "switch" /\ req'[p].row = req[p].row /\ req'[p].arg = req[p].arg
          /\ req'[p].at = "ok" => req[p].at = "ok"
          /\ req[p].row \in Endpoints /\ req[p].arg \in BOOLEAN
      BY <1>c, <1>d, <2>3 DEF UnderWay
    <3>2. SwitchesAreExplained!(p)!2
      BY <1>a, <3>1 DEF SwitchesAreExplained
    <3>3. req[p].row # r
      BY <2>5, <3>1, <3>2, RowsAssumption
    <3>4. ASSUME NEW o \in UnderWay', req'[o].op = "switch", req'[o].row = req'[p].row PROVE o = p
      BY <1>d, <2>3, <3>1, <3>2, <3>4 DEF UnderWay
    <3> QED
      BY <2>2, <2>4, <3>1, <3>2, <3>3, <3>4
  <2>7. LastClickWins'
    <3> SUFFICES ASSUME NEW e \in live' \cap Endpoints PROVE LastClickWins!(e)'
      BY DEF LastClickWins
    <3>1. CASE e = r
      BY <2>2, <2>5, <3>1
    <3>2. CASE e # r
      <4>1. e \in live /\ (e \in active' <=> e \in active) /\ LastClickWins!(e)
        BY <2>4, <3>2 DEF LastClickWins
      <4>2. ASSUME NEW p \in UnderWay, req[p].op = "switch", req[p].row = e
            PROVE  p \in UnderWay' /\ req'[p].op = "switch" /\ req'[p].row = e
        BY <1>b, <1>d, <2>3, <4>2 DEF UnderWay
      <4> QED
        BY <1>a, <2>2, <4>1, <4>2
    <3> QED
      BY <3>1, <3>2
  <2> QED
    BY <2>6, <2>7
<1>13. ASSUME NEW q \in Slots, ServeRotate(q) \/ ServeReveal(q) \/ ServeDelete(q) PROVE Goal
  <2>1. /\ q \in UnderWay /\ req[q].op # "switch" /\ req[q].row \in Rows
        /\ UNCHANGED clicked /\ Same
    <3>1. CASE ServeRotate(q) \/ ServeReveal(q)
      BY <3>1 DEF ServeRotate, ServeReveal, At, UnderWay, TypeOK
    <3>2. CASE ServeDelete(q)
      BY <3>2 DEF ServeDelete, At, UnderWay, TypeOK
    <3> QED
      BY <1>13, <3>1, <3>2
  <2>3. \E v \in 0..MaxRotations : Served(q, req[q].row, v)
    <3>1. CASE ServeRotate(q) \/ ServeReveal(q)
      <4>1. req[q].row \in Endpoints
        BY <2>1, <3>1 DEF ServeRotate, ServeReveal, At, RequestsAreConsistent, RowsIn
      <4>2. version[req[q].row] \in 0..MaxRotations
        BY <4>1 DEF TypeOK
      <4> QED
        BY <3>1, <4>2, BoundAssumption DEF ServeRotate, ServeReveal
    <3>2. CASE ServeDelete(q)
      BY <3>2, BoundAssumption DEF ServeDelete
    <3> QED
      BY <1>13, <3>1, <3>2
  <2>2. NoneServed /\ NoneEnds
    BY <1>11, <2>1, <2>3
  <2> QED
    BY <1>1, <1>2, <2>1, <2>2
<1>14. ASSUME NEW q \in Slots, ServeSwitch(q) PROVE Goal
  <2>1. /\ q \in UnderWay /\ req[q].op = "switch" /\ Served(q, req[q].row, 0)
        /\ UNCHANGED <<clicked, live, excused>> /\ req[q].row \in Endpoints /\ req[q].arg \in BOOLEAN
        /\ req[q].row \in Rows /\ 0 \in 0..MaxRotations
        /\ active' = IF req[q].arg THEN active \cup {req[q].row} ELSE active \ {req[q].row}
    BY <1>14, <1>c, BoundAssumption DEF ServeSwitch, At, UnderWay, Rows
  <2>2. NoneEnds
    BY <1>11, <2>1
  <2>3. \A p \in Slots \ {q} : req'[p] = req[p]
    BY <2>1 DEF Served, TypeOK
  <2>4. q \in UnderWay' /\ req'[q].op = "switch" /\ req'[q].row = req[q].row /\ req'[q].arg = req[q].arg
    BY <1>d, <1>b, <2>1, <2>2 DEF UnderWay
  <2>5. SwitchesAreExplained'
    <3> SUFFICES ASSUME NEW p \in Slots, req'[p] # Nothing, req'[p].op = "switch",
                        <<"switch", req'[p].row>> \notin excused'
                 PROVE  SwitchesAreExplained!(p)!2'
      BY DEF SwitchesAreExplained, UnderWay
    <3>1. /\ p \in UnderWay /\ req[p].op = "switch" /\ req'[p].row = req[p].row /\ req'[p].arg = req[p].arg
          /\ req[p].row \in Endpoints
      BY <1>c, <2>1, <2>3, <2>4 DEF UnderWay
    <3>2. SwitchesAreExplained!(p)!2
      BY <2>1, <3>1 DEF SwitchesAreExplained
    <3>3. ASSUME NEW o \in UnderWay', req'[o].op = "switch", req'[o].row = req'[p].row PROVE o = p
      BY <2>1, <2>3, <2>4, <3>1, <3>2, <3>3 DEF UnderWay
    <3>4. req'[p].at = "ok" /\ req'[p].row \in live' => (req'[p].row \in active' <=> req'[p].arg)
      <4>1. CASE p = q
        BY <2>1, <2>4, <4>1
      <4>2. CASE p # q
        BY <2>1, <2>3, <3>1, <3>2, <4>2
      <4> QED
        BY <4>1, <4>2
    <3> QED
      BY <2>1, <3>1, <3>2, <3>3, <3>4
  <2>6. LastClickWins'
    <3> SUFFICES ASSUME NEW e \in live' \cap Endpoints PROVE LastClickWins!(e)'
      BY DEF LastClickWins
    <3>1. CASE e = req[q].row
      BY <2>4, <3>1
    <3>2. CASE e # req[q].row
      <4>1. e \in live /\ (e \in active' <=> e \in active) /\ LastClickWins!(e)
        BY <2>1, <3>2 DEF LastClickWins
      <4>2. ASSUME NEW p \in UnderWay, req[p].op = "switch", req[p].row = e
            PROVE  p \in UnderWay' /\ req'[p].op = "switch" /\ req'[p].row = e
        BY <1>b, <1>d, <2>2, <4>2 DEF UnderWay
      <4> QED
        BY <2>1, <4>1, <4>2
    <3> QED
      BY <3>1, <3>2
  <2> QED
    BY <2>5, <2>6
<1>15. ASSUME NEW q \in Slots, Refuse(q) \/ Lose(q) PROVE Goal
  <2>1. req' = [req EXCEPT ![q].at = "error"] /\ req[q] # Nothing /\ UNCHANGED <<clicked, live, active>>
    BY <1>15 DEF Refuse, Lose
  <2>2. req'[q] # Nothing /\ req'[q].at = "error" /\ \A p \in Slots \ {q} : req'[p] = req[p]
    <3>1. [req[q] EXCEPT !.at = "error"] \in Requests
      BY <1>b, <2>1 DEF UnderWay, Requests
    <3>2. req'[q] = [req[q] EXCEPT !.at = "error"] /\ \A p \in Slots \ {q} : req'[p] = req[p]
      BY <2>1 DEF TypeOK
    <3> QED
      BY <1>b, <2>1, <3>1, <3>2, RowsAssumption DEF Requests, UnderWay
  <2> QED
    BY <1>3, <2>1, <2>2
<1>16. ASSUME NEW q \in Slots, req[q] # Nothing, Free(q) \/ Close(q), UNCHANGED <<clicked, live, active>>,
              req[q].op = "switch" => \/ <<"switch", req[q].row>> \in excused'
                                      \/ req[q].at = "ok"
       PROVE  Goal
  <2>1. /\ req'[q] = Nothing
        /\ \A p \in Slots \ {q} : req'[p] = req[p] \/ LeavesDialog(p)
    BY <1>16, Ended
  <2>2. NoneServed
    BY <2>1 DEF LeavesDialog
  <2>3. q \in UnderWay
    BY <1>16 DEF UnderWay
  <2>4. LastClickWins'
    <3> SUFFICES ASSUME NEW e \in live' \cap Endpoints PROVE LastClickWins!(e)'
      BY DEF LastClickWins
    <3>1. e \in live /\ LastClickWins!(e)
      BY <1>16 DEF LastClickWins
    <3>2. CASE req[q].op = "switch" /\ req[q].row = e
      <4>1. CASE <<"switch", e>> \in excused'
        BY <4>1
      <4>2. CASE req[q].at = "ok" /\ <<"switch", e>> \notin excused
        BY <1>16, <2>3, <3>1, <3>2, <4>2 DEF SwitchesAreExplained
      <4> QED
        BY <1>16, <1>a, <3>2, <4>1, <4>2
    <3>3. CASE ~(req[q].op = "switch" /\ req[q].row = e)
      <4>1. ASSUME NEW p \in UnderWay, req[p].op = "switch", req[p].row = e
            PROVE  p \in UnderWay' /\ req'[p].op = "switch" /\ req'[p].row = e
        BY <2>1, <3>3, <4>1 DEF UnderWay, LeavesDialog
      <4> QED
        BY <1>16, <1>a, <3>1, <4>1
    <3> QED
      BY <3>2, <3>3
  <2> QED
    BY <1>1, <1>16, <2>2, <2>4
<1>17. ASSUME NEW q \in Slots,
              \/ EndpointCreated(q) \/ Rotated(q) \/ Revealed(q) \/ Deleted(q) \/ Switched(q) \/ Failed(q)
       PROVE  Goal
  <2>1. CASE EndpointCreated(q) \/ Rotated(q) \/ Revealed(q) \/ Deleted(q)
    BY <1>16, <2>1 DEF EndpointCreated, Rotated, Revealed, Deleted, Ok
  <2>2. CASE Switched(q) \/ Failed(q)
    BY <1>16, <2>2 DEF Switched, Failed, Ok
  <2> QED
    BY <1>17, <2>1, <2>2
<1>18. ASSUME NEW q \in Slots, FormCreated(q) PROVE Goal
  <2>1. ASSUME NEW p \in Slots
        PROVE  /\ req'[p] # Nothing => req[p] # Nothing /\ req'[p].at = req[p].at
               /\ req[p] # Nothing /\ req[p].op = "switch" => req'[p] # Nothing
    <3>1. p # q => req'[p] = Left[p]
      BY <1>18 DEF FormCreated, Left
    <3>2. req'[q] = Nothing /\ req[q].op = "create"
      BY <1>18 DEF FormCreated, Left, Ok
    <3>3. req[p] # Nothing => [req[p] EXCEPT !.from = "left"] \in Requests
      BY <1>b DEF UnderWay, Requests
    <3> QED
      BY <1>b, <3>1, <3>2, <3>3, RowsAssumption DEF Requests, UnderWay, Left
  <2>2. UNCHANGED <<clicked, live, active>>
    BY <1>18 DEF FormCreated
  <2> QED
    BY <1>3, <2>1, <2>2
<1>19. ASSUME NEW r \in Rows, Elsewhere(r) PROVE Goal
  <2>1. /\ UNCHANGED <<clicked, req>> /\ <<"switch", r>> \in excused'
        /\ \A e \in live' \cap Endpoints : e = r \/ (e \in live /\ (e \in active' <=> e \in active))
    BY <1>19 DEF Elsewhere
  <2>2. SwitchesAreExplained'
    <3> SUFFICES ASSUME NEW q \in UnderWay, req[q].op = "switch", <<"switch", req[q].row>> \notin excused'
                 PROVE  SwitchesAreExplained!(q)!2'
      BY <2>1 DEF SwitchesAreExplained, UnderWay
    <3>1. req[q].row # r /\ req[q].row \in Endpoints
      BY <1>c, <2>1
    <3>2. SwitchesAreExplained!(q)!2
      BY <1>a DEF SwitchesAreExplained
    <3> QED
      BY <2>1, <3>1, <3>2 DEF UnderWay
  <2>3. LastClickWins'
    BY <1>a, <2>1 DEF LastClickWins, UnderWay
  <2> QED
    BY <2>2, <2>3
<1> HIDE DEF Goal
<1>20. Goal
  BY <1>5, <1>6, <1>7, <1>9, <1>10, <1>12, <1>13, <1>14, <1>15, <1>17, <1>18, <1>19 DEF Next
<1> QED
  BY <1>20 DEF Goal

\* A secret that is awaited or shown was asked for, and it is not rotated any
\* more, since a rotation under way has its endpoint to itself.
LEMMA SecretsInv ==
    ASSUME TypeOK, IdsAreFresh, PageIsConsistent, RequestsAreConsistent, RowsAreKnown,
           SecretsAreExplained, Next
    PROVE  SecretsAreExplained'
<1> USE DEF serverVars, pageVars, cacheVars, historyVars
<1> DEFINE
     Goal == SecretsAreExplained'
     VersionsKept == \A e \in Endpoints : <<"secret", e>> \in excused' \/ version'[e] = version[e]
     \* No secret is asked for or served.
     NoneAsked == \A q \in Slots : req'[q] # Nothing /\ req'[q].op \in {"rotate", "reveal", "create"} =>
                    /\ req[q] # Nothing
                    /\ req'[q].at = "ok" => req[q].at = "ok"
                    /\ req[q].op # "create" \/ req[q].at # "sent" \/ req'[q].row = req[q].row
<1>a. excused \subseteq excused'
  BY ExcusesStay
<1>b. \A q \in UnderWay : q \in Slots /\ req[q] \in Requests
  BY DEF UnderWay, TypeOK
<1>c. \A q \in UnderWay : q \in UnderWay' =>
         /\ req'[q].op = req[q].op /\ req'[q].list = req[q].list
         /\ req[q].op # "create" \/ req[q].at # "sent" => req'[q].row = req[q].row
         /\ req'[q].from # "left" => req[q].from # "left"
         /\ req'[q].at = "ok" /\ req[q].at = "ok" => req'[q].got = req[q].got
  BY RequestsCarried DEF ServeCreate, ServeRotate, ServeDelete, ServeSwitch, ServeReveal, At
<1>d. \A q \in UnderWay : req[q].list = "endpoints" /\ req[q].at = "ok" => req[q].row \in Endpoints
  BY DEF RequestsAreConsistent, RowsIn
<1>e. ASSUME NoneAsked, NEW q \in Asking'
      PROVE  /\ q \in Asking /\ req'[q].list = req[q].list /\ req'[q].row = req[q].row
             /\ req'[q].op = req[q].op
             /\ req'[q].at = "ok" => req[q].at = "ok" /\ req'[q].got = req[q].got
  BY <1>c, <1>e DEF Asking, UnderWay
<1>1. ASSUME UNCHANGED asked, secret' \in {secret, Nothing}, VersionsKept, NoneAsked
      PROVE  Goal
  <2>1. ASSUME NEW e \in Endpoints, NEW v, IsCurrent(e, v) PROVE IsCurrent(e, v)'
    BY <1>1, <1>a, <2>1 DEF IsCurrent
  <2>2. ASSUME secret' # Nothing PROVE secret'.row \in asked' /\ IsCurrent(secret.row, secret.version)'
    BY <1>1, <2>1, <2>2 DEF SecretsAreExplained, PageIsConsistent, IsCurrent
  <2>3. ASSUME NEW q \in Asking', req'[q].list = "endpoints" PROVE AskExplained(q)'
    <3>1. q \in Asking /\ req[q].list = "endpoints" /\ req'[q].row = req[q].row /\ req'[q].op = req[q].op
          /\ (req'[q].at = "ok" => req[q].at = "ok" /\ req'[q].got = req[q].got)
      BY <1>1, <1>e, <2>3
    <3>2. AskExplained(q)
      BY <3>1 DEF SecretsAreExplained
    <3>3. req'[q].row \in asked' \cup {Nothing}
      BY <1>1, <3>1, <3>2 DEF AskExplained
    <3>4. req'[q].at = "ok" => IsCurrent(req[q].row, req[q].got)'
      BY <1>d, <2>1, <3>1, <3>2 DEF Asking, AskExplained, IsCurrent
    <3>5. \A p \in Asking' : p \in Asking /\ req'[p].row = req[p].row
      BY <1>1, <1>e
    <3> QED
      BY <1>1, <1>a, <3>1, <3>2, <3>3, <3>4, <3>5 DEF AskExplained
  <2> QED
    BY <2>2, <2>3 DEF SecretsAreExplained
<1>2. ASSUME UNCHANGED <<asked, req, version>>, secret' \in {secret, Nothing} PROVE Goal
  BY <1>1, <1>2
<1>3. ASSUME NEW l \in Lists,
             ServeList(l) \/ ListArrives(l) \/ ListFails(l) \/ Refocus(l) \/ OpenCreate(l)
      PROVE  Goal
  BY <1>2, <1>3 DEF ServeList, ListArrives, ListFails, Refocus, OpenCreate
<1>4. ASSUME CloseSecret \/ \E l \in Lists, r \in Rows : \E op \in {"rotate", "delete"} : OpenConfirm(l, op, r)
      PROVE  Goal
  BY <1>2, <1>4 DEF CloseSecret, OpenConfirm
<1>5. ASSUME Asking' = {}, secret' = Nothing PROVE Goal
  BY <1>5 DEF SecretsAreExplained
<1>6. ASSUME NEW p \in Lists \cup {"elsewhere"}, Go(p) PROVE Goal
  <2>1. \A q \in UnderWay' : req'[q] = Left[q] /\ req'[q].from = "left"
    BY <1>b, <1>6 DEF Go, Left, UnderWay, Requests
  <2> QED
    BY <1>5, <1>6, <2>1 DEF Go, Leave, Asking
<1>7. ASSUME NEW q \in Slots, FormCreated(q) PROVE Goal
  <2>1. \A p \in UnderWay' : req'[p] = Left[p] /\ req'[p].from = "left"
    BY <1>b, <1>7 DEF FormCreated, Left, UnderWay, Requests
  <2> QED
    BY <1>5, <1>7, <2>1 DEF FormCreated, Leave, Asking
<1>8. ASSUME CancelDialog PROVE Goal
  <2>1. NoneAsked
    BY <1>8, Cancelled DEF LeavesDialog
  <2>2. UNCHANGED <<asked, secret, version>>
    BY <1>8 DEF CancelDialog
  <2> QED
    BY <1>1, <2>1, <2>2
<1>9. ASSUME NEW q \in Slots, NEW o, NEW r, NEW l, NEW a, SendRequest(q, o, r, l, a),
             o \notin {"rotate", "reveal", "create"}, UNCHANGED <<asked, secret, version>>
      PROVE  Goal
  <2>1. req'[q].op = o /\ \A p \in Slots \ {q} : req'[p] = req[p]
    BY <1>9 DEF SendRequest, TypeOK
  <2>2. NoneAsked
    BY <1>9, <2>1
  <2> QED
    BY <1>1, <1>9, <2>2
<1>10. ASSUME NEW q \in Slots, NEW o, NEW r, NEW a, SendRequest(q, o, r, "endpoints", a), Ask(r, o),
              secret' = Nothing, version' = version
       PROVE  Goal
  <2>1. /\ req[q] = Nothing /\ req'[q].op = o /\ req'[q].row = r /\ req'[q].at = "sent"
        /\ \A p \in Slots \ {q} : req'[p] = req[p]
    BY <1>10 DEF SendRequest, TypeOK
  <2>2. \A p \in Asking' : p = q \/ (p \in Asking /\ p # q /\ req'[p] = req[p])
    BY <2>1 DEF Asking, UnderWay
  <2>3. /\ r \in asked' \cup {Nothing} /\ (Asking # {} => asked \subseteq asked')
        /\ \A p \in Asking : req[p].row = r /\ "rotate" \in {o, req[p].op} => <<"secret", r>> \in excused'
    BY <1>10 DEF Ask
  <2> SUFFICES ASSUME NEW p \in Asking', req'[p].list = "endpoints" PROVE AskExplained(p)'
    BY <1>10 DEF SecretsAreExplained
  <2>4. CASE p = q
    BY <1>10, <2>1, <2>2, <2>3, <2>4 DEF AskExplained
  <2>5. CASE p # q
    <3>1. p \in Asking /\ req'[p] = req[p] /\ AskExplained(p)
      BY <2>2, <2>5 DEF SecretsAreExplained
    <3>2. req'[p].row \in asked' \cup {Nothing} /\ (req'[p].at = "ok" => IsCurrent(req[p].row, req[p].got)')
      BY <1>10, <1>a, <2>3, <3>1 DEF IsCurrent, AskExplained
    <3>3. ASSUME req'[p].op = "rotate", <<"secret", req'[p].row>> \notin excused'
          PROVE  \A c \in Asking' : req'[c].row = req'[p].row => c = p
      BY <1>a, <2>1, <2>2, <2>3, <3>1, <3>3 DEF AskExplained
    <3> QED
      BY <1>10, <3>2, <3>3 DEF AskExplained
  <2> QED
    BY <2>4, <2>5
<1>11. ASSUME NEW q \in Slots, Create(q, "forms") PROVE Goal
  <2>1. \A p \in Slots \ {q} : req'[p] = req[p]
    BY <1>11 DEF Create, SendRequest, TypeOK
  <2>2. req'[q].list = "forms"
    BY <1>11 DEF Create, SendRequest, TypeOK
  <2>3. route = "forms" /\ secret' = Nothing
    BY <1>11 DEF Create
  <2>4. \A p \in Asking' : req'[p].list # "endpoints"
    BY <2>1, <2>2, <2>3 DEF Asking, UnderWay, RequestsAreConsistent
  <2> QED
    BY <2>3, <2>4 DEF SecretsAreExplained
<1>12. ASSUME NEW q \in Slots, NEW l \in Lists, Create(q, l) PROVE Goal
  <2>1. CASE l = "endpoints"
    BY <1>10, <1>12, <2>1 DEF Create
  <2> QED
    BY <1>11, <1>12, <2>1 DEF Lists
<1>13. ASSUME NEW q \in Slots, Confirm(q) PROVE Goal
  <2>1. CASE dialog.op = "rotate"
    BY <1>10, <1>13, <2>1 DEF Confirm, PageIsConsistent
  <2>2. CASE dialog.op # "rotate"
    <3>1. dialog.op \notin {"rotate", "reveal", "create"}
      BY <1>13, <2>2 DEF Confirm, TypeOK
    <3> QED
      BY <1>9, <1>13, <2>2, <3>1 DEF Confirm
  <2> QED
    BY <2>1, <2>2
<1>14. ASSUME NEW q \in Slots, NEW e \in Endpoints, Reveal(q, e) \/ Toggle(q, e) PROVE Goal
  <2>1. CASE Reveal(q, e)
    BY <1>10, <2>1 DEF Reveal, Usable
  <2>2. CASE Toggle(q, e)
    BY <1>9, <2>2 DEF Toggle
  <2> QED
    BY <1>14, <2>1, <2>2
<1>15. ASSUME NEW q \in UnderWay, NEW r, NEW v, Served(q, r, v), UNCHANGED secret, asked \subseteq asked',
              q \in Asking /\ req[q].list = "endpoints" => r \in asked' \cup {Nothing},
              r = req[q].row \/ (req[q].row = Nothing /\ r \notin live \cup gone),
              q \in Asking /\ req[q].list = "endpoints" => <<"secret", r>> \in excused' \/ v = version'[r],
              \A e \in Endpoints : \/ <<"secret", e>> \in excused'
                                   \/ version'[e] = version[e]
                                   \/ /\ q \in Asking /\ req[q].list = "endpoints" /\ req[q].op = "rotate"
                                      /\ e = req[q].row
       PROVE  Goal
  <2>1. /\ req'[q].op = req[q].op /\ req'[q].list = req[q].list /\ req'[q].from = req[q].from
        /\ req'[q].row = r /\ req'[q].got = v
        /\ \A p \in Slots \ {q} : req'[p] = req[p]
    <3>1. req'[q] = [req[q] EXCEPT !.at = "ok", !.row = r, !.got = v]
          /\ \A p \in Slots \ {q} : req'[p] = req[p]
      BY <1>b, <1>15 DEF Served, TypeOK
    <3> QED
      BY <1>b, <3>1 DEF Requests
  <2>2. Asking' \subseteq Asking
    BY <2>1 DEF Asking, UnderWay
  <2>3. ASSUME NEW e \in Endpoints, NEW w, IsCurrent(e, w),
               \/ ~(q \in Asking /\ req[q].list = "endpoints" /\ req[q].op = "rotate")
               \/ e # req[q].row
        PROVE  IsCurrent(e, w)'
    BY <1>15, <1>a, <2>3 DEF IsCurrent
  <2>4. ASSUME q \in Asking, req[q].list = "endpoints", req[q].op = "rotate"
        PROVE  \/ <<"secret", req[q].row>> \in excused'
               \/ /\ \A p \in Asking : req[p].row = req[q].row => p = q
                  /\ secret # Nothing => secret.row # req[q].row
    BY <1>a, <2>4 DEF SecretsAreExplained, AskExplained
  <2>5. ASSUME secret' # Nothing PROVE secret'.row \in asked' /\ IsCurrent(secret.row, secret.version)'
    <3>1. secret'.row \in asked' /\ secret.row \in Endpoints /\ IsCurrent(secret.row, secret.version)
      BY <1>15, <2>5 DEF SecretsAreExplained, PageIsConsistent
    <3>2. IsCurrent(secret.row, secret.version)'
      BY <1>15, <2>3, <2>4, <2>5, <3>1 DEF IsCurrent
    <3> QED
      BY <1>15, <3>1, <3>2
  <2>6. ASSUME NEW o \in Asking', req'[o].list = "endpoints" PROVE AskExplained(o)'
    <3>1. o \in Asking /\ o \in UnderWay /\ o \in Slots /\ req[o].list = "endpoints" /\ req'[o].op = req[o].op
      BY <1>b, <2>1, <2>2, <2>6 DEF Asking, UnderWay
    <3>2. AskExplained(o)
      BY <3>1 DEF SecretsAreExplained
    <3>3. req'[o].row \in asked' \cup {Nothing}
      BY <1>15, <2>1, <3>1, <3>2 DEF AskExplained
    <3>4. ASSUME req'[o].at = "ok" PROVE IsCurrent(req[o].row, req[o].got)'
      <4>1. CASE o = q
        BY <1>15, <2>1, <3>1, <4>1 DEF IsCurrent
      <4>2. CASE o # q
        <5>1. req'[o] = req[o] /\ req[o].row \in Endpoints /\ IsCurrent(req[o].row, req[o].got)
          BY <1>d, <2>1, <3>1, <3>2, <3>4, <4>2 DEF AskExplained
        <5>2. IsCurrent(req[o].row, req[o].got)'
          BY <2>3, <2>4, <3>1, <4>2, <5>1 DEF IsCurrent
        <5> QED
          BY <5>1, <5>2 DEF IsCurrent
      <4> QED
        BY <4>1, <4>2
    <3>5. ASSUME req'[o].op = "rotate", <<"secret", req'[o].row>> \notin excused'
          PROVE  /\ \A p \in Asking' : req'[p].row = req'[o].row => p = o
                 /\ secret' # Nothing => secret'.row # req'[o].row
      <4>1. req[o].op = "rotate" /\ req[o].row \in live \cup gone /\ req[o].row \in Endpoints
        BY <3>1, <3>5 DEF RowsAreKnown, RequestsAreConsistent, RowsIn
      <4>2. req'[o].row = req[o].row
        BY <1>15, <2>1, <3>1, <4>1, RowsAssumption DEF Rows
      <4>3. /\ \A p \in Asking : req[p].row = req[o].row => p = o
            /\ secret # Nothing => secret.row # req[o].row
        BY <1>a, <3>2, <3>5, <4>1, <4>2 DEF AskExplained
      <4>4. \A p \in Asking' : p \in Asking /\ (req'[p].row = req[p].row \/ req'[p].row \notin live \cup gone)
        BY <1>b, <1>15, <2>1, <2>2 DEF Asking
      <4> QED
        BY <1>15, <4>1, <4>2, <4>3, <4>4
    <3> QED
      BY <3>3, <3>4, <3>5 DEF AskExplained
  <2> QED
    BY <2>5, <2>6 DEF SecretsAreExplained
<1>16. ASSUME NEW q \in Slots, ServeCreate(q) PROVE Goal
  <2>1. PICK r \in Fresh(req[q].list) : ServeCreate(q)!2!(r)
    BY <1>16 DEF ServeCreate
  <2>2. q \in UnderWay /\ req[q].row = Nothing /\ UNCHANGED <<secret, version>>
        /\ r \notin live \cup gone
    BY <1>16 DEF ServeCreate, At, UnderWay, RequestsAreConsistent, Fresh
  <2>3. req[q].list = "endpoints" => r \in Endpoints \ (live \cup gone)
    BY DEF Fresh, RowsIn
  <2>4. req[q].list = "endpoints" => version'[r] = 0
    BY <2>2, <2>3 DEF IdsAreFresh
  <2>5. asked \subseteq asked' /\ (q \in Asking /\ req[q].list = "endpoints" => r \in asked')
    BY <2>1, <2>3
  <2> HIDE DEF Goal
  <2> QED
    BY <1>15, <2>1, <2>2, <2>4, <2>5
<1>17. ASSUME NEW q \in Slots, ServeRotate(q) PROVE Goal
  <2>1. /\ q \in UnderWay /\ req[q].row \in Endpoints /\ req[q].list = "endpoints" /\ req[q].op = "rotate"
        /\ req[q].from = "left" => <<"secret", req[q].row>> \in excused'
        /\ req[q].from # "left" => q \in Asking
    BY <1>17, <1>a DEF ServeRotate, At, UnderWay, RequestsAreConsistent, RowsIn, Asking
  <2>2. /\ Served(q, req[q].row, version[req[q].row] + 1) /\ UNCHANGED <<asked, secret>>
        /\ version' = [version EXCEPT ![req[q].row] = @ + 1]
    BY <1>17 DEF ServeRotate
  <2>3. version'[req[q].row] = version[req[q].row] + 1
        /\ \A e \in Endpoints \ {req[q].row} : version'[e] = version[e]
    BY <2>1, <2>2 DEF TypeOK
  <2>4. q \in Asking /\ req[q].list = "endpoints" => req[q].row \in asked' \cup {Nothing}
    BY <2>2 DEF SecretsAreExplained, AskExplained
  <2> HIDE DEF Goal
  <2> QED
    BY <1>15, <2>1, <2>2, <2>3, <2>4
<1>18. ASSUME NEW q \in Slots, ServeReveal(q) PROVE Goal
  <2>1. /\ q \in UnderWay /\ Served(q, req[q].row, version[req[q].row])
        /\ UNCHANGED <<asked, secret, version>>
    BY <1>18 DEF ServeReveal, At, UnderWay
  <2>2. q \in Asking /\ req[q].list = "endpoints" => req[q].row \in asked' \cup {Nothing}
    BY <2>1 DEF SecretsAreExplained, AskExplained
  <2> HIDE DEF Goal
  <2> QED
    BY <1>15, <2>1, <2>2
<1>19. ASSUME NEW q \in Slots, ServeDelete(q) \/ ServeSwitch(q) PROVE Goal
  <2>1. /\ q \in UnderWay /\ req[q].op \notin {"rotate", "reveal", "create"} /\ Served(q, req[q].row, 0)
        /\ UNCHANGED <<asked, secret, version>>
    BY <1>19 DEF ServeDelete, ServeSwitch, At, UnderWay
  <2>2. \A p \in Slots \ {q} : req'[p] = req[p]
    BY <2>1 DEF Served, TypeOK
  <2>3. NoneAsked
    BY <1>c, <2>1, <2>2 DEF UnderWay
  <2> QED
    BY <1>1, <2>1, <2>3
<1>20. ASSUME NEW q \in Slots, Refuse(q) \/ Lose(q) PROVE Goal
  <2>1. req' = [req EXCEPT ![q].at = "error"] /\ req[q] # Nothing
        /\ UNCHANGED <<asked, secret, version>>
    BY <1>20 DEF Refuse, Lose
  <2>2. /\ req'[q].at = "error" /\ req'[q].row = req[q].row
        /\ \A p \in Slots \ {q} : req'[p] = req[p]
    BY <1>b, <2>1 DEF TypeOK, UnderWay, Requests
  <2>3. NoneAsked
    BY <2>1, <2>2
  <2> QED
    BY <1>1, <2>1, <2>3
<1>21. ASSUME NEW q \in Slots, req[q] # Nothing, Free(q) \/ Close(q)
       PROVE  NoneAsked /\ q \notin Asking'
  BY <1>21, Ended DEF LeavesDialog, Asking, UnderWay
<1>22. ASSUME NEW q \in Slots, Deleted(q) \/ Switched(q) \/ Failed(q) PROVE Goal
  <2>1. req[q] # Nothing /\ (Free(q) \/ Close(q)) /\ UNCHANGED <<asked, secret, version>>
    BY <1>22 DEF Deleted, Switched, Failed, Ok
  <2> QED
    BY <1>1, <1>21, <2>1
<1>23. ASSUME NEW q \in Slots, EndpointCreated(q) \/ Rotated(q) \/ Revealed(q) PROVE Goal
  <2>1. /\ q \in UnderWay /\ req[q].at = "ok" /\ req[q].op \in {"create", "rotate", "reveal"}
        /\ req[q].list = "endpoints" /\ req[q] # Nothing /\ (Free(q) \/ Close(q)) /\ ShowSecret(q)
        /\ UNCHANGED <<asked, version>>
    BY <1>23 DEF EndpointCreated, Rotated, Revealed, Ok, UnderWay, RequestsAreConsistent
  <2>2. NoneAsked /\ q \notin Asking'
    BY <1>21, <2>1
  <2>3. CASE ~Here(q)
    BY <1>1, <2>1, <2>2, <2>3 DEF ShowSecret
  <2>4. CASE Here(q)
    <3>1. q \in Asking
      BY <2>1, <2>4 DEF Asking, Here
    <3>2. req[q].row \in asked \cup {Nothing} /\ IsCurrent(req[q].row, req[q].got)
      BY <2>1, <3>1 DEF SecretsAreExplained, AskExplained
    <3>3. secret'.row = req[q].row /\ secret'.version = req[q].got
      <4>1. secret' = [row |-> req[q].row, version |-> req[q].got]
        BY <2>1, <2>4 DEF ShowSecret
      <4> QED
        BY <4>1
    <3>4. secret'.row \in asked' /\ IsCurrent(secret.row, secret.version)'
      BY <1>a, <1>d, <2>1, <3>1, <3>2, <3>3, RowsAssumption DEF Asking, IsCurrent, Rows
    <3>5. ASSUME NEW o \in Asking', req'[o].list = "endpoints" PROVE AskExplained(o)'
      <4>1. o \in Asking /\ o # q /\ req[o].list = "endpoints" /\ req'[o].row = req[o].row
            /\ req'[o].op = req[o].op
            /\ (req'[o].at = "ok" => req[o].at = "ok" /\ req'[o].got = req[o].got)
        BY <1>e, <2>2, <3>5
      <4>2. AskExplained(o)
        BY <4>1 DEF SecretsAreExplained
      <4>3. req'[o].row \in asked' \cup {Nothing} /\ (req'[o].at = "ok" => IsCurrent(req[o].row, req[o].got)')
        BY <1>a, <2>1, <4>1, <4>2 DEF IsCurrent, AskExplained
      <4>4. \A p \in Asking' : p \in Asking /\ req'[p].row = req[p].row
        BY <1>e, <2>2
      <4> QED
        BY <1>a, <3>1, <3>3, <4>1, <4>2, <4>3, <4>4 DEF AskExplained
    <3> QED
      BY <3>4, <3>5 DEF SecretsAreExplained
  <2> QED
    BY <2>3, <2>4
<1>24. ASSUME NEW r \in Rows, Elsewhere(r) PROVE Goal
  <2>1. /\ UNCHANGED <<asked, secret, req>> /\ <<"secret", r>> \in excused'
        /\ \A e \in Endpoints : e = r \/ version'[e] = version[e]
    BY <1>24 DEF Elsewhere, TypeOK
  <2> QED
    BY <1>1, <2>1
<1> HIDE DEF Goal
<1>25. Goal
  BY <1>3, <1>4, <1>6, <1>7, <1>8, <1>12, <1>13, <1>14, <1>16, <1>17, <1>18, <1>19, <1>20, <1>22, <1>23,
     <1>24 DEF Next
<1> QED
  BY <1>25 DEF Goal

\* What a list has of a row stays so, or owed until the answer of the request
\* that changed the row has the list marked or fetched again.
LEMMA ListsInv ==
    ASSUME TypeOK, IdsAreFresh, PageIsConsistent, RequestsAreConsistent, ListsAreExplained, Next
    PROVE  ListsAreExplained'
<1> USE DEF serverVars, pageVars, cacheVars, historyVars
<1> DEFINE
     Goal == ListsAreExplained'
     Changes == {"create", "delete", "switch"}
     Same(r) == (r \in live' <=> r \in live) /\ (r \in active' <=> r \in active)
     Kept(r) == <<"list", r>> \in excused' \/ Owed(r)' \/ (Same(r) /\ ~Owed(r))
     Again(l) == stale'[l] /\ fetch'[l] \in {Nothing, Pending}
     \* The answer of a change is not taken.
     Stays(q) == req[q] # Nothing /\ req[q].at = "ok" /\ req[q].op \in Changes =>
                   req'[q] # Nothing /\ req'[q].at = "ok"
     SameLists == UNCHANGED <<cache, stale>> /\ \A l \in Lists : fetch'[l] \in {fetch[l], Nothing, Pending}
<1>a. excused \subseteq excused'
  BY ExcusesStay
<1>b. \A q \in UnderWay : q \in Slots /\ req[q] \in Requests
  BY DEF UnderWay, TypeOK
<1>c. ASSUME NEW r, Owed(r), \A q \in Slots : req[q] # Nothing /\ req[q].row = r => Stays(q)
      PROVE  Owed(r)'
  <2>1. PICK q \in UnderWay : req[q].row = r /\ req[q].at = "ok" /\ req[q].op \in Changes
    BY <1>c DEF Owed
  <2>2. q \in UnderWay' /\ req'[q].at = "ok"
    BY <1>b, <1>c, <2>1 DEF UnderWay
  <2>3. req'[q].row = r /\ req'[q].op = req[q].op
    BY RequestsCarried, <2>1, <2>2
  <2> QED
    BY <2>1, <2>2, <2>3 DEF Owed
<1>1. ASSUME \A l \in Lists : \A r \in RowsIn(l) : Kept(r) \/ Again(l),
             \A l \in Lists : cache'[l] = cache[l] /\ (stale[l] => stale'[l]),
             \A l \in Lists : fetch'[l] \in {fetch[l], Nothing, Pending}
      PROVE  Goal
  <2> SUFFICES ASSUME NEW l \in Lists PROVE ListsAreExplained!(l)'
    BY DEF ListsAreExplained
  <2>1. ASSUME NEW answer, Agrees(answer, l), ~Again(l)
        PROVE  \A r \in RowsIn(l) : <<"list", r>> \notin excused' =>
                 \/ /\ r \in answer.rows <=> r \in live'
                    /\ r \in answer.on <=> r \in active'
                 \/ Owed(r)'
    BY <1>1, <1>a, <2>1 DEF Agrees
  <2>2. cache'[l] # Nothing /\ ~stale'[l] => Agrees(cache[l], l) /\ ~Again(l)
    BY <1>1 DEF ListsAreExplained, TypeOK
  <2>3. fetch'[l] \notin {Nothing, Pending} => Agrees(fetch[l], l) /\ fetch'[l] = fetch[l] /\ ~Again(l)
    BY <1>1 DEF ListsAreExplained
  <2> HIDE DEF Again
  <2>4. cache'[l] # Nothing /\ ~stale'[l] => Agrees(cache[l], l)'
    BY <1>1, <2>1, <2>2 DEF Agrees
  <2>5. fetch'[l] \notin {Nothing, Pending} => Agrees(fetch[l], l)'
    BY <1>1, <2>1, <2>3 DEF Agrees
  <2> QED
    BY <2>4, <2>5
<1>2. ASSUME UNCHANGED <<live, active>>, \A q \in Slots : Stays(q), SameLists PROVE Goal
  <2>1. \A r : Kept(r)
    BY <1>c, <1>2
  <2> QED
    BY <1>1, <1>2, <2>1
<1>3. ASSUME UNCHANGED <<live, active, req, cacheVars>> PROVE Goal
  BY <1>2, <1>3
<1>4. ASSUME NEW l \in Lists, ServeList(l) PROVE Goal
  <2>1. /\ UNCHANGED <<live, active, req, excused, cache, stale>>
        /\ fetch' = [fetch EXCEPT ![l] = Answer(l)]
    BY <1>4 DEF ServeList
  <2>2. Agrees(Answer(l), l)'
    BY <2>1 DEF Agrees, Answer
  <2>3. \A x : \A m \in Lists : Agrees(x, m) => Agrees(x, m)'
    BY <2>1 DEF Agrees, Owed, UnderWay
  <2>4. Answer(l)' = Answer(l) /\ fetch'[l] = Answer(l) /\ \A m \in Lists \ {l} : fetch'[m] = fetch[m]
    BY <2>1 DEF Answer, TypeOK
  <2> SUFFICES ASSUME NEW m \in Lists PROVE ListsAreExplained!(m)'
    BY DEF ListsAreExplained
  <2>5. cache'[m] # Nothing /\ ~stale'[m] => Agrees(cache[m], m)'
    BY <2>1, <2>3 DEF ListsAreExplained
  <2>6. fetch'[m] \notin {Nothing, Pending} => Agrees(fetch[m], m)'
    <3>1. CASE m = l
      BY <2>2, <2>4, <3>1 DEF Agrees
    <3>2. CASE m # l
      BY <2>1, <2>3, <2>4, <3>2 DEF ListsAreExplained, Agrees
    <3> QED
      BY <3>1, <3>2
  <2> QED
    BY <2>5, <2>6
<1>5. ASSUME NEW l \in Lists, ListArrives(l) PROVE Goal
  <2>1. /\ UNCHANGED <<live, active, req, excused>>
        /\ fetch[l] \notin {Nothing, Pending} /\ cache'[l] = fetch[l] /\ fetch'[l] = Nothing
        /\ \A m \in Lists \ {l} : cache'[m] = cache[m] /\ stale'[m] = stale[m] /\ fetch'[m] = fetch[m]
    BY <1>5 DEF ListArrives, TypeOK
  <2>2. \A x : \A m \in Lists : Agrees(x, m) => Agrees(x, m)'
    BY <2>1 DEF Agrees, Owed, UnderWay
  <2> SUFFICES ASSUME NEW m \in Lists PROVE ListsAreExplained!(m)'
    BY DEF ListsAreExplained
  <2>3. CASE m = l
    <3>1. Agrees(fetch[m], m)
      BY <2>1, <2>3 DEF ListsAreExplained
    <3> QED
      BY <2>1, <2>2, <2>3, <3>1 DEF Agrees
  <2>4. CASE m # l
    <3>1. cache[m] # Nothing /\ ~stale[m] => Agrees(cache[m], m)
      BY DEF ListsAreExplained
    <3>2. fetch[m] \notin {Nothing, Pending} => Agrees(fetch[m], m)
      BY DEF ListsAreExplained
    <3> QED
      BY <2>1, <2>2, <2>4, <3>1, <3>2 DEF Agrees
  <2> QED
    BY <2>3, <2>4
<1>6. ASSUME NEW l \in Lists, ListFails(l) \/ Refocus(l) \/ OpenCreate(l) PROVE Goal
  BY <1>2, <1>6 DEF ListFails, Refocus, OpenCreate, TypeOK
<1>7. ASSUME NEW l \in Lists, NEW r \in Rows, NEW op \in {"rotate", "delete"}, OpenConfirm(l, op, r)
      PROVE  Goal
  BY <1>3, <1>7 DEF OpenConfirm
<1>d. ASSUME NEW l \in Lists, Invalidate(l)
      PROVE  /\ stale'[l] /\ \A m \in Lists : fetch'[m] \in {fetch[m], Nothing, Pending}
             /\ \A m \in Lists : stale[m] => stale'[m]
             /\ \A r : fetch'[l] \in {Nothing, Pending} \/ <<"list", r>> \in Overtaken(l, r)
  BY <1>d DEF Invalidate, Refetch, Overtaken, TypeOK
<1>8. ASSUME CloseSecret PROVE Goal
  <2>1. /\ UNCHANGED <<live, active, req, cache>>
        /\ \A m \in Lists : fetch'[m] \in {fetch[m], Nothing, Pending}
        /\ \A m \in Lists : stale[m] => stale'[m]
    BY <1>d, <1>8 DEF CloseSecret, Lists
  <2>2. \A r : Kept(r)
    BY <1>c, <2>1
  <2> QED
    BY <1>1, <2>1, <2>2
<1>9. ASSUME NEW p \in Lists \cup {"elsewhere"}, Go(p) PROVE Goal
  <2>1. \A q \in Slots : req[q] # Nothing => req'[q] = [req[q] EXCEPT !.from = "left"]
    BY <1>9 DEF Go, Left
  <2>2. \A q \in Slots : Stays(q)
    <3>1. \A q \in Slots : req[q] # Nothing =>
             [req[q] EXCEPT !.from = "left"] \in Requests /\ [req[q] EXCEPT !.from = "left"].at = req[q].at
      BY <1>b DEF Requests, UnderWay
    <3> QED
      BY <2>1, <3>1, RowsAssumption
  <2>3. UNCHANGED <<live, active>> /\ SameLists
    BY <1>9 DEF Go, TypeOK
  <2> QED
    BY <1>2, <2>2, <2>3
<1>10. ASSUME CancelDialog PROVE Goal
  <2>2. \A q \in Slots : Stays(q)
    BY <1>10, Cancelled DEF LeavesDialog
  <2>3. UNCHANGED <<live, active, cache, stale, fetch>>
    BY <1>10 DEF CancelDialog
  <2> QED
    BY <1>2, <2>2, <2>3
<1>11. ASSUME NEW q \in Slots, NEW o, NEW r, NEW l, NEW a, SendRequest(q, o, r, l, a),
              UNCHANGED <<live, active, cacheVars>>
       PROVE  Goal
  <2>1. req[q] = Nothing /\ \A p \in Slots \ {q} : req'[p] = req[p]
    BY <1>11 DEF SendRequest, TypeOK
  <2>2. \A p \in Slots : Stays(p)
    BY <2>1
  <2> QED
    BY <1>2, <1>11, <2>2
<1>12. ASSUME NEW q \in Slots,
              \/ \E l \in Lists : Create(q, l)
              \/ \E e \in Endpoints : Reveal(q, e) \/ Toggle(q, e)
              \/ Confirm(q)
       PROVE  Goal
  <2>1. UNCHANGED <<live, active, cacheVars>> /\ \E o, r, l, a : SendRequest(q, o, r, l, a)
    BY <1>12 DEF Create, Reveal, Toggle, Confirm
  <2> QED
    BY <1>11, <2>1
<1>13. ASSUME NEW q \in UnderWay, req[q].at = "sent", NEW r \in Rows, NEW v \in 0..MaxRotations,
              Served(q, r, v), UNCHANGED cacheVars,
              \A x : Same(x) \/ (x = r /\ req[q].op \in Changes)
       PROVE  Goal
  <2>1. /\ req'[q] # Nothing /\ req'[q].at = "ok" /\ req'[q].op = req[q].op /\ req'[q].row = r
        /\ \A p \in Slots \ {q} : req'[p] = req[p]
    <3>1. req'[q] = [req[q] EXCEPT !.at = "ok", !.row = r, !.got = v]
          /\ \A p \in Slots \ {q} : req'[p] = req[p]
      BY <1>b, <1>13 DEF Served, TypeOK
    <3>2. [req[q] EXCEPT !.at = "ok", !.row = r, !.got = v] \in Requests
      BY <1>b DEF Requests
    <3>3. req'[q] # Nothing
      BY <3>1, <3>2, RowsAssumption
    <3>4. req'[q].at = "ok" /\ req'[q].op = req[q].op /\ req'[q].row = r
      BY <1>b, <3>1 DEF Requests
    <3> QED
      BY <3>1, <3>3, <3>4
  <2>2. \A p \in Slots : Stays(p)
    BY <1>13, <2>1
  <2>3. req[q].op \in Changes => Owed(r)'
    BY <1>b, <2>1 DEF Owed, UnderWay
  <2>4. \A x : Kept(x)
    BY <1>c, <1>13, <2>2, <2>3
  <2> QED
    BY <1>1, <1>13, <2>4
<1>14. ASSUME NEW q \in Slots, ServeCreate(q) PROVE Goal
  <2>1. PICK r \in Fresh(req[q].list) : ServeCreate(q)!2!(r)
    BY <1>14 DEF ServeCreate
  <2>2. /\ q \in UnderWay /\ req[q].at = "sent" /\ req[q].op \in Changes /\ UNCHANGED cacheVars
        /\ r \in Rows /\ 0 \in 0..MaxRotations
    BY <1>14, BoundAssumption DEF ServeCreate, At, UnderWay, Fresh, RowsIn, Rows
  <2>3. \A x : Same(x) \/ x = r
    BY <2>1
  <2> HIDE DEF Goal
  <2> QED
    BY <1>13, <2>1, <2>2, <2>3
<1>15. ASSUME NEW q \in Slots, ServeRotate(q) \/ ServeReveal(q) PROVE Goal
  <2>1. /\ q \in UnderWay /\ req[q].at = "sent" /\ UNCHANGED <<live, active, cacheVars>>
        /\ req[q].row \in Endpoints
    BY <1>15 DEF ServeRotate, ServeReveal, At, UnderWay, RequestsAreConsistent, RowsIn
  <2>2. version[req[q].row] \in 0..MaxRotations
    BY <2>1 DEF TypeOK
  <2>3. \E v \in 0..MaxRotations : Served(q, req[q].row, v)
    BY <1>15, <2>2, BoundAssumption DEF ServeRotate, ServeReveal
  <2>4. \A x : Same(x)
    BY <2>1
  <2> HIDE DEF Goal
  <2> QED
    BY <1>13, <2>1, <2>3, <2>4 DEF Rows
<1>16. ASSUME NEW q \in Slots, ServeDelete(q) \/ ServeSwitch(q) PROVE Goal
  <2>1. /\ q \in UnderWay /\ req[q].at = "sent" /\ UNCHANGED cacheVars /\ Served(q, req[q].row, 0)
        /\ req[q].op \in Changes /\ req[q].row \in Rows /\ 0 \in 0..MaxRotations
    BY <1>16, BoundAssumption DEF ServeDelete, ServeSwitch, At, UnderWay, TypeOK
  <2>2. \A x : Same(x) \/ x = req[q].row
    BY <1>16 DEF ServeDelete, ServeSwitch
  <2> HIDE DEF Goal
  <2> QED
    BY <1>13, <2>1, <2>2
<1>17. ASSUME NEW q \in Slots, Refuse(q) \/ Lose(q) PROVE Goal
  <2>1. /\ req[q] # Nothing /\ UNCHANGED <<live, active, cacheVars>>
        /\ req[q].at = "ok" => <<"list", req[q].row>> \in excused'
        /\ \A p \in Slots \ {q} : req'[p] = req[p]
    BY <1>17 DEF Refuse, Lose, TypeOK
  <2>2. \A p \in Slots \ {q} : Stays(p)
    BY <2>1
  <2>3. ASSUME NEW r PROVE Kept(r)
    BY <1>c, <2>1, <2>2
  <2> QED
    BY <1>1, <2>1, <2>3
<1>18. ASSUME NEW q \in Slots, Rotated(q) \/ Revealed(q) \/ Failed(q) PROVE Goal
  <2>1. /\ req[q] # Nothing /\ (Free(q) \/ Close(q)) /\ UNCHANGED <<live, active, cacheVars>>
        /\ req[q].op \notin Changes \/ req[q].at # "ok"
    BY <1>18 DEF Rotated, Revealed, Failed, Ok
  <2>2. \A p \in Slots : Stays(p)
    BY <2>1, Ended DEF LeavesDialog
  <2> QED
    BY <1>2, <2>1, <2>2
<1>19. ASSUME NEW q \in Slots, req[q] # Nothing, req[q].at = "ok", req[q].row \in RowsIn(req[q].list),
              Invalidate(req[q].list), Overtaken(req[q].list, req[q].row) \subseteq excused',
              UNCHANGED <<live, active, cache>>, \A p \in Slots \ {q} : Stays(p)
       PROVE  Goal
  <2> DEFINE l == req[q].list
  <2>1. q \in UnderWay /\ l \in Lists
    BY <1>b, <1>19 DEF UnderWay, Requests
  <2>2. /\ stale'[l] /\ \A m \in Lists : fetch'[m] \in {fetch[m], Nothing, Pending}
        /\ \A m \in Lists : stale[m] => stale'[m]
        /\ Again(l) \/ <<"list", req[q].row>> \in excused'
    BY <1>d, <1>19, <2>1
  <2>3. ASSUME NEW m \in Lists, NEW r \in RowsIn(m) PROVE Kept(r) \/ Again(m)
    <3>1. CASE r # req[q].row
      BY <1>c, <1>19, <3>1
    <3>2. CASE r = req[q].row
      <4>1. m = l
        BY <1>19, <2>1, <2>3, <3>2, RowsAssumption DEF RowsIn, Lists
      <4> QED
        BY <2>2, <3>2, <4>1
    <3> QED
      BY <3>1, <3>2
  <2> QED
    BY <1>1, <1>19, <2>2, <2>3
<1>20. ASSUME NEW q \in Slots, EndpointCreated(q) \/ Deleted(q) \/ Switched(q) PROVE Goal
  <2>1. /\ q \in UnderWay /\ req[q].at = "ok" /\ Invalidate(req[q].list)
        /\ Overtaken(req[q].list, req[q].row) \subseteq excused'
        /\ UNCHANGED <<live, active, cache>> /\ (Free(q) \/ Close(q))
    BY <1>20 DEF EndpointCreated, Deleted, Switched, Ok, UnderWay, RequestsAreConsistent
  <2>3. req[q] # Nothing /\ req[q].row \in RowsIn(req[q].list)
    BY <2>1 DEF UnderWay, RequestsAreConsistent
  <2>2. \A p \in Slots \ {q} : Stays(p)
    BY <2>1, <2>3, Ended DEF LeavesDialog
  <2> HIDE DEF Goal
  <2> QED
    BY <1>19, <2>1, <2>2, <2>3
<1>21. ASSUME NEW q \in Slots, FormCreated(q) PROVE Goal
  <2>1. /\ q \in UnderWay /\ req[q].at = "ok" /\ Invalidate(req[q].list)
        /\ Overtaken(req[q].list, req[q].row) \subseteq excused'
        /\ UNCHANGED <<live, active, cache>>
    BY <1>21 DEF FormCreated, Ok, UnderWay
  <2>2. \A p \in Slots \ {q} : req[p] # Nothing => req'[p] = [req[p] EXCEPT !.from = "left"]
    BY <1>21 DEF FormCreated, Left
  <2>3. \A p \in Slots \ {q} : Stays(p)
    <3>1. \A p \in Slots : req[p] # Nothing =>
             [req[p] EXCEPT !.from = "left"] \in Requests /\ [req[p] EXCEPT !.from = "left"].at = req[p].at
      BY <1>b DEF Requests, UnderWay
    <3> QED
      BY <2>2, <3>1, RowsAssumption
  <2>4. req[q] # Nothing /\ req[q].row \in RowsIn(req[q].list)
    BY <2>1 DEF UnderWay, RequestsAreConsistent
  <2> HIDE DEF Goal
  <2> QED
    BY <1>19, <2>1, <2>3, <2>4
<1>22. ASSUME NEW r \in Rows, Elsewhere(r) PROVE Goal
  <2>1. /\ UNCHANGED <<cacheVars, req>> /\ <<"list", r>> \in excused'
        /\ \A x : x = r \/ Same(x)
    BY <1>22 DEF Elsewhere
  <2>2. \A q \in Slots : Stays(q)
    BY <2>1
  <2>3. \A x : Kept(x)
    BY <1>c, <2>1, <2>2
  <2> QED
    BY <1>1, <2>1, <2>3
<1> HIDE DEF Goal
<1>23. Goal
  BY <1>4, <1>5, <1>6, <1>7, <1>8, <1>9, <1>10, <1>12, <1>14, <1>15, <1>16, <1>17, <1>18, <1>20, <1>21,
     <1>22 DEF Next
<1> QED
  BY <1>23 DEF Goal

-----------------------------------------------------------------------------
(* Theorems *)

LEMMA InitInv == Init => IInv
<1> SUFFICES ASSUME Init PROVE IInv
  OBVIOUS
<1> USE BoundAssumption, RowsAssumption
<1>1. TypeOK
  <2>1. live \subseteq Rows /\ gone \subseteq Rows /\ active \subseteq Rows /\ excused = {}
    BY DEF Init, Rows
  <2>2. version \in [Endpoints -> 0..MaxRotations] /\ clicked \in [Endpoints -> BOOLEAN \cup {Nothing}]
    BY DEF Init
  <2>3. /\ cache \in [Lists -> Answers \cup {Nothing}] /\ stale \in [Lists -> BOOLEAN]
        /\ fetch \in [Lists -> Answers \cup {Nothing, Pending}]
        /\ req \in [Slots -> Requests \cup {Nothing}]
    BY DEF Init
  <2>4. sent \in 0..MaxSent /\ moves \in 0..MaxMoves /\ upsets \in 0..MaxUpsets
    BY DEF Init
  <2> QED
    BY <2>1, <2>2, <2>3, <2>4 DEF Init, TypeOK
<1>2. UnderWay = {}
  BY DEF Init, UnderWay
<1>3. IdsAreFresh /\ PageIsConsistent /\ RequestsAreConsistent /\ RowsAreKnown
  BY <1>2 DEF Init, IdsAreFresh, PageIsConsistent, RequestsAreConsistent, RowsAreKnown
<1>4. ListsAreExplained /\ SecretsAreExplained
  BY <1>2 DEF Init, ListsAreExplained, SecretsAreExplained, Asking
<1>5. SwitchesAreExplained /\ LastClickWins
  BY <1>2 DEF Init, SwitchesAreExplained, LastClickWins
<1> QED
  BY <1>1, <1>3, <1>4, <1>5 DEF IInv

LEMMA NextInv == IInv /\ [Next]_vars => IInv'
<1> SUFFICES ASSUME IInv, [Next]_vars PROVE IInv'
  OBVIOUS
<1>1. CASE Next
  BY <1>1, TypeInv, IdsInv, PageInv, RequestsInv, RowsInv, ListsInv, SecretsInv, SwitchesInv DEF IInv
<1>2. CASE UNCHANGED vars
  <2> USE <1>2 DEF vars, serverVars, pageVars, cacheVars, historyVars
  <2>1. TypeOK' /\ IdsAreFresh' /\ PageIsConsistent'
    BY DEF IInv, TypeOK, IdsAreFresh, PageIsConsistent, Known
  <2>2. RequestsAreConsistent' /\ RowsAreKnown'
    BY DEF IInv, RequestsAreConsistent, RowsAreKnown, UnderWay
  <2>3. ListsAreExplained'
    BY DEF IInv, ListsAreExplained, Agrees, Owed, UnderWay
  <2>4. SecretsAreExplained'
    BY DEF IInv, SecretsAreExplained, AskExplained, Asking, IsCurrent, UnderWay
  <2>5. SwitchesAreExplained' /\ LastClickWins'
    BY DEF IInv, SwitchesAreExplained, LastClickWins, UnderWay
  <2> QED
    BY <2>1, <2>2, <2>3, <2>4, <2>5 DEF IInv
<1> QED
  BY <1>1, <1>2

\* The inductive invariant holds in every state.
THEOREM InductiveInvariant == Spec => []IInv
<1> QED
  BY InitInv, NextInv, PTL DEF Spec

\* The tab's state is well formed, whatever the bounds.
THEOREM TypeCorrectness == Spec => []TypeOK
<1>1. IInv => TypeOK
  BY DEF IInv
<1> QED
  BY <1>1, InductiveInvariant, PTL

\* A list that is not marked stale is as the server has it, but for rows the
\* page has an excuse for: whatever requests, fetches and clicks cross, what
\* this tab changes is in the list once the answer has come.
THEOREM ListsAreTrue == Spec => []ListIsTrue
<1>1. IInv => ListIsTrue
  BY DEF IInv, ListsAreExplained, ListIsTrue, Agrees, Owed
<1> QED
  BY <1>1, InductiveInvariant, PTL

\* The secret dialog shows the secret of an endpoint that was asked for since
\* none was awaited, or created since, and shows the one in use; but for
\* endpoints that another tab has changed, that were being rotated when the
\* page was left, or that were asked for twice at a time with a rotation.
THEOREM SecretsAreThoseAsked == Spec => []ShownIsWhatWasAsked
<1>1. IInv => ShownIsWhatWasAsked
  BY DEF IInv, SecretsAreExplained, ShownIsWhatWasAsked, IsCurrent
<1> QED
  BY <1>1, InductiveInvariant, PTL

\* An endpoint is as it was last switched, when nothing is under way and no
\* switch of it failed or was left.
THEOREM LastClicksWin == Spec => []LastClickWins
<1>1. IInv => LastClickWins
  BY DEF IInv
<1> QED
  BY <1>1, InductiveInvariant, PTL

=============================================================================
