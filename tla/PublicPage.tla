----------------------------- MODULE PublicPage -----------------------------
(***************************************************************************)
(* The public page of a form over the requests that Forms models: its      *)
(* visitor fills it in, has it validated twice, sends it, and is told that *)
(* the response was recorded or that something went wrong.  Answers of the *)
(* API may be lost, and whoever sees an error may send the form again.     *)
(* Other clients post what they like to the same path.                     *)
(***************************************************************************)
EXTENDS Forms, Answers

CONSTANTS
    Scripts,        \* visitors that are not this page
    Content,        \* the fields of each list that owners save
    Bodies,         \* answers that scripts post
    MaxPosts,       \* bound: requests sent by a visitor
    MaxLost         \* bound: requests and answers that are lost

ASSUME ContentAssumption ==
    /\ DOMAIN Content = 1..MaxSaves
    /\ \A n \in 1..MaxSaves : Content[n] # {} /\ Distinct(Content[n])
ASSUME PageBoundAssumption == Scripts \subseteq Visitors /\ MaxPosts \in Nat /\ MaxLost \in Nat

VARIABLES
    page,           \* what is shown: nothing, the form, or ThankYou
    submitting,     \* FormView: the request is awaited
    body,           \* the answers of the request under way
    reply,          \* the request: not there, under way, or what it ended in
    posts,          \* requests sent
    saved,          \* history: answers in rows of `submissions`, with the form
    made,           \* history: rows that a visitor's requests inserted
    thanked,        \* history: how often it was thanked
    unheard,        \* history: rows whose answer never reached it
    lost            \* requests and answers lost so far

pageVars == <<page, submitting>>
requestVars == <<body, reply, posts>>
tallyVars == <<saved, made, thanked, unheard, lost>>
allVars == <<vars, pageVars, requestVars, tallyVars>>

\* No body: answers to no question.
NoAnswers == [l \in {} |-> "empty"]

\* The fields that a set of rows of form_fields stands for.
Questions(rows) == UNION {Content[n] : n \in rows}

PageInit ==
    /\ Init
    /\ page = [v \in Visitors |-> "none"]
    /\ submitting = [v \in Visitors |-> FALSE]
    /\ body = [v \in Visitors |-> NoAnswers]
    /\ reply = [v \in Visitors |-> "none"]
    /\ posts = [v \in Visitors |-> 0]
    /\ saved = {}
    /\ made = [v \in Visitors |-> 0]
    /\ thanked = [v \in Visitors |-> 0]
    /\ unheard = [v \in Visitors |-> 0]
    /\ lost = 0

\* Operators named Faulty... are what a slip in the code would make of the
\* definition that follows them; nothing refers to them.

-----------------------------------------------------------------------------
(* The page *)

\* WHO  PublicFormPage
Open(v, f) == OpenForm(v, f) /\ UNCHANGED <<pageVars, requestVars, tallyVars>>

Load(v) ==
    /\ ShowFields(v)
    /\ page' = [page EXCEPT ![v] = "form"]
    /\ UNCHANGED <<submitting, requestVars, tallyVars>>

\* WHAT the page is closed; or "Form not found", whatever the error was.
Close(v) ==
    /\ Leave(v) /\ reply[v] = "none"
    /\ page' = [page EXCEPT ![v] = "none"]
    /\ UNCHANGED <<submitting, requestVars, tallyVars>>

Post(v, b) ==
    /\ reply[v] = "none" /\ posts[v] < MaxPosts
    /\ body' = [body EXCEPT ![v] = b]
    /\ reply' = [reply EXCEPT ![v] = "awaited"]
    /\ posts' = [posts EXCEPT ![v] = @ + 1]
    /\ submitting' = [submitting EXCEPT ![v] = TRUE]
    /\ UNCHANGED <<vars, page, tallyVars>>

\* WHO  handleSubmit
\* WHAT the answers as they are when the button is clicked, whatever is typed
\*      before and after, if it is not disabled and they are valid.
Submit(v) ==
    LET questions == Questions(shown[v])
    IN  /\ page[v] = "form" /\ stage[v] = "filling" /\ v \notin Scripts
        /\ ~submitting[v]
        /\ \E a \in [Labels(questions) -> Values] : PageAccepts(questions, a) /\ Post(v, a)

\* WHO  another client
PostByHand(v) ==
    /\ stage[v] = "filling" /\ v \in Scripts
    /\ ~submitting[v]
    /\ \E b \in Bodies : Post(v, b)

\* WHO  publicSubmit, its fetch failing
\* WHAT the page stops waiting for a request that may still be under way.
GiveUp(v) ==
    /\ reply[v] = "awaited"
    /\ lost < MaxLost /\ lost' = lost + 1
    /\ reply' = [reply EXCEPT ![v] = "unheard"]
    /\ submitting' = [submitting EXCEPT ![v] = FALSE]
    /\ UNCHANGED <<vars, page, body, posts, saved, made, thanked, unheard>>

-----------------------------------------------------------------------------
(* The API *)

UnderWay(v) == reply[v] \in {"awaited", "unheard"}

Finish(v, r) ==
    reply' = [reply EXCEPT ![v] = IF @ = "awaited" THEN r ELSE "none"]

\* WHO  CfThrottlerGuard, before anything else: 429; or the request is lost
\*      on its way.
Refuse(v) ==
    /\ UnderWay(v) /\ stage[v] = "filling"
    /\ Finish(v, "error")
    /\ UNCHANGED <<vars, pageVars, body, posts, tallyVars>>

ServePost(v) ==
    /\ UnderWay(v)
    /\ PostAnswers(v)
    /\ IF stage'[v] = "posted" THEN UNCHANGED reply ELSE Finish(v, "error")
    /\ UNCHANGED <<pageVars, body, posts, tallyVars>>

\* The rules of the page are applied again.
FaultyServeValidate(v) ==
    /\ Validate(v)
    /\ stage'[v] = IF PageAccepts(Questions(validated'[v]), body[v]) THEN "valid" ELSE "filling"
    /\ IF stage'[v] = "valid" THEN UNCHANGED reply ELSE Finish(v, "error")
    /\ UNCHANGED <<pageVars, body, posts, tallyVars>>

\* WHO  AnswersValidationInterceptor
ServeValidate(v) ==
    /\ Validate(v)
    /\ stage'[v] = IF Fits(Questions(validated'[v]), body[v]) THEN "valid" ELSE "filling"
    /\ IF stage'[v] = "valid" THEN UNCHANGED reply ELSE Finish(v, "error")
    /\ UNCHANGED <<pageVars, body, posts, tallyVars>>

\* The insert and its COMMIT; nothing comes of it if the form is gone.
ServeInsert(v) ==
    LET ok == status[form[v]] # "none"
    IN  /\ InsertSubmission(v)
        /\ saved' = IF ok THEN saved \cup {[form |-> form[v], answers |-> body[v]]} ELSE saved
        /\ made' = IF ok THEN [made EXCEPT ![v] = @ + 1] ELSE made
        /\ unheard' = IF ok /\ reply[v] = "unheard" THEN [unheard EXCEPT ![v] = @ + 1] ELSE unheard
        /\ Finish(v, IF ok THEN "ok" ELSE "error")
        /\ UNCHANGED <<pageVars, body, posts, thanked, lost>>

ServeFails(v) ==
    /\ PostFails(v)
    /\ lost < MaxLost /\ lost' = lost + 1
    /\ Finish(v, "error")
    /\ UNCHANGED <<pageVars, body, posts, saved, made, thanked, unheard>>

\* The thanks are shown whatever the answer was.
FaultyAnswered(v) ==
    /\ reply[v] \in {"ok", "error"}
    /\ page' = [page EXCEPT ![v] = "thanks"]
    /\ thanked' = [thanked EXCEPT ![v] = @ + 1]
    /\ submitting' = [submitting EXCEPT ![v] = FALSE]
    /\ reply' = [reply EXCEPT ![v] = "none"]
    /\ body' = [body EXCEPT ![v] = NoAnswers]
    /\ UNCHANGED <<vars, posts, saved, made, unheard, lost>>

\* WHO  handleSubmit, going on
\* WHAT a 201 is thanked for; anything else is an error message over the form
\*      as it was filled in.
Answered(v) ==
    /\ reply[v] \in {"ok", "error"}
    /\ page' = IF reply[v] = "ok" THEN [page EXCEPT ![v] = "thanks"] ELSE page
    /\ thanked' = IF reply[v] = "ok" THEN [thanked EXCEPT ![v] = @ + 1] ELSE thanked
    /\ submitting' = [submitting EXCEPT ![v] = FALSE]
    /\ reply' = [reply EXCEPT ![v] = "none"]
    /\ body' = [body EXCEPT ![v] = NoAnswers]
    /\ UNCHANGED <<vars, posts, saved, made, unheard, lost>>

\* WHAT the answer is lost after all.
AnswerLost(v) ==
    /\ reply[v] = "ok"
    /\ lost < MaxLost /\ lost' = lost + 1
    /\ unheard' = [unheard EXCEPT ![v] = @ + 1]
    /\ submitting' = [submitting EXCEPT ![v] = FALSE]
    /\ reply' = [reply EXCEPT ![v] = "none"]
    /\ body' = [body EXCEPT ![v] = NoAnswers]
    /\ UNCHANGED <<vars, page, posts, saved, made, thanked>>

-----------------------------------------------------------------------------
OwnersStep ==
    /\ \/ \E f \in Forms : Create(f)
       \/ \E e \in Editors : EditorStep(e)
    /\ UNCHANGED <<pageVars, requestVars, tallyVars>>

PageNext ==
    \/ OwnersStep
    \/ \E v \in Visitors :
         \/ \E f \in Forms : Open(v, f)
         \/ Load(v) \/ Close(v) \/ Submit(v) \/ PostByHand(v) \/ GiveUp(v)
         \/ Refuse(v) \/ ServePost(v) \/ ServeValidate(v) \/ ServeInsert(v) \/ ServeFails(v)
         \/ Answered(v) \/ AnswerLost(v)

PageSpec == PageInit /\ [][PageNext]_allVars

-----------------------------------------------------------------------------
(* Properties *)

\* A visitor is thanked once for each response that was saved, and for none
\* that was not: those it was not thanked for are the ones whose answer was
\* lost, and only they can be duplicates of one that is sent again.
ThanksAreAccountedFor ==
    \A v \in Visitors :
        made[v] = thanked[v] + unheard[v] + (IF reply[v] = "ok" THEN 1 ELSE 0)

\* The answers of every submission fit the form as it is, whoever posted
\* them and whatever its owner was doing to the form meanwhile.
SavedAnswersFit ==
    \A s \in saved : Fits(Questions(fields[s.form]), s.answers)

\* What the page lets through, the API refuses for nothing but the length of
\* a text, although the fields are read again and the rules are written twice.
PageIsNoLaxer ==
    \A v \in Visitors \ Scripts : stage[v] = "posted" =>
        \/ Fits(Questions(PublicFields(form[v])), body[v])
        \/ TooLong(Questions(PublicFields(form[v])), body[v]) # {}

-----------------------------------------------------------------------------
(* The inductive invariant behind these properties, with that of Forms *)

\* Between the insert of its row and its end, a request is nowhere else.
RequestsAreConsistent ==
    /\ DOMAIN body = Visitors
    /\ reply \in [Visitors -> {"none", "awaited", "unheard", "ok", "error"}]
    /\ made \in [Visitors -> Nat] /\ thanked \in [Visitors -> Nat] /\ unheard \in [Visitors -> Nat]
    /\ \A v \in Visitors :
         /\ stage[v] \in {"posted", "valid"} => UnderWay(v)
         /\ UnderWay(v) => stage[v] \in {"filling", "posted", "valid"}

\* What the page has sent it had accepted for the fields that it shows.
SentAnswersAreAccepted ==
    \A v \in Visitors \ Scripts : UnderWay(v) =>
        /\ PageAccepts(Questions(shown[v]), body[v])
        /\ DOMAIN body[v] = Labels(Questions(shown[v]))

ValidAnswersFit ==
    \A v \in Visitors : stage[v] = "valid" => Fits(Questions(fields[form[v]]), body[v])

SavedAreToPublished ==
    \A s \in saved : s.form \in Forms /\ status[s.form] = "published"

PageIInv ==
    /\ IInv
    /\ RequestsAreConsistent
    /\ ThanksAreAccountedFor
    /\ SentAnswersAreAccepted
    /\ ValidAnswersFit
    /\ SavedAreToPublished
    /\ SavedAnswersFit
=============================================================================
