------------------------------- MODULE WebAuth -------------------------------
(***************************************************************************)
(* Signing in, staying signed in and signing out (apps/web: lib/auth,      *)
(* lib/pkce, lib/api, pages/auth-callback), in the tabs of one browser.    *)
(*                                                                         *)
(* The tabs share the tokens in localStorage; what a tab knows of its own  *)
(* (the React state, the query cache, the requests that wait for an        *)
(* answer) lasts until its document is unloaded, and the attempt to sign   *)
(* in, in sessionStorage, longer. On the other side are Cognito and the    *)
(* API, which accept or refuse a token.                                    *)
(*                                                                         *)
(* The mode for development, which has no tokens, is left out, as is the   *)
(* e-mail address that is kept for the wake notification.                  *)
(***************************************************************************)
EXTENDS Naturals, FiniteSets

CONSTANTS
    Tabs,
    Users,
    Requests,       \* calls of the API that may be under way at once
    MaxAttempts,    \* bound: attempts to sign in
    None

ASSUME NoneAssumption == None \notin Users \cup Tabs

ASSUME BoundAssumption == MaxAttempts \in Nat

VARIABLES
    access,         \* localStorage: whose access token
    refresh,        \* localStorage: whose refresh token
    begun,          \* how many attempts to sign in have begun
    attempts,       \* for each: who consented, how often its code was sent
    stored,         \* sessionStorage: the attempt whose state and verifier are kept, or 0
    place,          \* where a tab is
    exchange,       \* the attempt whose code a tab exchanges, or 0
    sub,            \* AuthProvider's state: does the tab think it is signed in
    cache,          \* whose data is in a tab's query cache
    req,            \* the calls of the API
    disturbed,      \* auxiliary: tabs whose document has met tokens of two users
    session,        \* auxiliary: who signed in last, None when somebody signed out since
    overtaken       \* auxiliary: was another's refresh under way when session changed

storeVars == <<access, refresh>>
codeVars  == <<begun, attempts, stored>>
tabVars   == <<place, exchange, sub, cache>>
auxVars   == <<disturbed, session, overtaken>>
vars      == <<storeVars, codeVars, tabVars, req, auxVars>>

-----------------------------------------------------------------------------

Attempts == 1..MaxAttempts

Idle == [phase |-> "idle", kind |-> "get", tab |-> None, user |-> None, again |-> FALSE]

(* "login" stands for every page that needs no session, "cognito" for the    *)
(* hosted pages, "leaving" for a document that has signed out and is not yet *)
(* unloaded; the callback page exchanges the code and then saves the name.   *)
Places == {"login", "cognito", "exchanging", "naming", "app", "leaving"}

Calls == [phase : {"idle", "sent", "refreshing"}, kind : {"get", "name"},
          tab : Tabs \cup {None}, user : Users \cup {None}, again : BOOLEAN]

TypeOK ==
    /\ access \in Users \cup {None}
    /\ refresh \in Users \cup {None}
    /\ begun \in 0..MaxAttempts
    /\ attempts \in [Attempts -> [user : Users \cup {None}, sent : Nat]]
    /\ stored \in [Tabs -> 0..MaxAttempts]
    /\ place \in [Tabs -> Places]
    /\ exchange \in [Tabs -> 0..MaxAttempts]
    /\ sub \in [Tabs -> BOOLEAN]
    /\ cache \in [Tabs -> SUBSET Users]
    /\ req \in [Requests -> Calls]
    /\ disturbed \subseteq Tabs
    /\ session \in Users \cup {None}
    /\ overtaken \in BOOLEAN
    /\ \A t \in Tabs : place[t] = "app" => sub[t]
    /\ \A t \in Tabs : place[t] = "exchanging" => exchange[t] # 0

Init ==
    /\ access = None
    /\ refresh = None
    /\ begun = 0
    /\ attempts = [k \in Attempts |-> [user |-> None, sent |-> 0]]
    /\ stored = [t \in Tabs |-> 0]
    /\ place = [t \in Tabs |-> "login"]
    /\ exchange = [t \in Tabs |-> 0]
    /\ sub = [t \in Tabs |-> FALSE]
    /\ cache = [t \in Tabs |-> {}]
    /\ req = [r \in Requests |-> Idle]
    /\ disturbed = {}
    /\ session = None
    /\ overtaken = FALSE

-----------------------------------------------------------------------------
(* Documents.                                                                *)

SignedIn == access # None

(* Whose data a document has or has asked for.                               *)
Holds(t) == {u \in Users \cup {None} :
                \/ u \in cache[t]
                \/ \E r \in Requests : req[r].tab = t /\ req[r].user = u}

(* Documents that have something of somebody other than this user.           *)
Strange(user) == {t \in Tabs : \E u \in Holds(t) : u # user}

(* The tokens are of two users: the next refresh brings the other's.         *)
Split == refresh # None /\ access # refresh

(* A new document has met no tokens but those there are.                     *)
Renewed(t) == disturbed' = IF Split THEN disturbed \cup {t} ELSE disturbed \ {t}

\* Mutant: the router replaces the page, and the document lives on.
FaultyUnload(t, to) ==
    /\ place' = [place EXCEPT ![t] = to]
    /\ UNCHANGED cache
    /\ req' = [r \in Requests |-> IF req[r].tab = t THEN Idle ELSE req[r]]
    /\ Renewed(t)

(* The document of a tab is replaced by one at another place; nobody waits   *)
(* any longer for the answers to its calls.                                  *)
Unload(t, to) ==
    /\ place' = [place EXCEPT ![t] = to]
    /\ cache' = [cache EXCEPT ![t] = {}]
    /\ req' = [r \in Requests |-> IF req[r].tab = t THEN Idle ELSE req[r]]
    /\ Renewed(t)

(* AuthProvider is mounted.                                                  *)
Mount(t) == sub' = [sub EXCEPT ![t] = SignedIn]

(* The owner opens the application or reloads it. RequireAuth lets only a    *)
(* signed-in tab into the application.                                       *)
Load(t) ==
    /\ \/ Unload(t, "login")
       \/ SignedIn /\ Unload(t, "app")
    /\ Mount(t)
    /\ exchange' = [exchange EXCEPT ![t] = 0]
    /\ UNCHANGED <<storeVars, codeVars, session, overtaken>>

(* Within a document, by a link or the browser's back button, nothing is     *)
(* forgotten; RequireAuth asks AuthProvider only.                            *)
Navigate(t) ==
    /\ \/ place[t] = "app" /\ place' = [place EXCEPT ![t] = "login"]
       \/ place[t] = "login" /\ sub[t] /\ place' = [place EXCEPT ![t] = "app"]
    /\ UNCHANGED <<storeVars, codeVars, exchange, sub, cache, req, auxVars>>

-----------------------------------------------------------------------------
(* Signing in.                                                               *)

(* "Sign in with Google": state and verifier are drawn and kept, and the tab *)
(* goes to the hosted pages.                                                 *)
SignIn(t) ==
    /\ place[t] = "login"
    /\ begun < MaxAttempts
    /\ begun' = begun + 1
    /\ stored' = [stored EXCEPT ![t] = begun']
    /\ Unload(t, "cognito")
    /\ sub' = [sub EXCEPT ![t] = FALSE]
    /\ UNCHANGED <<storeVars, attempts, exchange, session, overtaken>>

\* Mutant: state and verifier stay in sessionStorage.
FaultyReturn(t, k) ==
    /\ stored' = stored
    /\ IF stored[t] = k
       THEN /\ Unload(t, "exchanging")
            /\ exchange' = [exchange EXCEPT ![t] = k]
       ELSE /\ Unload(t, "login")
            /\ exchange' = [exchange EXCEPT ![t] = 0]
    /\ Mount(t)

(* The callback page is loaded for the code of attempt k: only the attempt   *)
(* that is kept is exchanged, and it is kept no longer.                      *)
Return(t, k) ==
    /\ stored' = [stored EXCEPT ![t] = 0]
    /\ IF stored[t] = k
       THEN /\ Unload(t, "exchanging")
            /\ exchange' = [exchange EXCEPT ![t] = k]
       ELSE /\ Unload(t, "login")
            /\ exchange' = [exchange EXCEPT ![t] = 0]
    /\ Mount(t)

(* Somebody consents on the hosted page of an attempt, this tab's last one or *)
(* one found in the history, and Cognito sends the tab back.                 *)
Consent(t, k, u) ==
    /\ place[t] = "cognito"
    /\ k <= begun
    /\ attempts[k].user = None
    /\ Return(t, k)
    /\ attempts' = [attempts EXCEPT ![k].user = u, ![k].sent = IF exchange'[t] = k THEN @ + 1 ELSE @]
    /\ UNCHANGED <<storeVars, begun, session, overtaken>>

(* Nobody consents: the callback page has no code.                           *)
Deny(t) ==
    /\ place[t] = "cognito"
    /\ Unload(t, "login")
    /\ Mount(t)
    /\ stored' = [stored EXCEPT ![t] = 0]
    /\ exchange' = [exchange EXCEPT ![t] = 0]
    /\ UNCHANGED <<storeVars, begun, attempts, session, overtaken>>

(* The callback page of an attempt is loaded again, found in the history, or *)
(* its address is opened in another tab.                                     *)
Revisit(t, k) ==
    /\ attempts[k].user # None
    /\ Return(t, k)
    /\ attempts' = [attempts EXCEPT ![k].sent = IF exchange'[t] = k THEN @ + 1 ELSE @]
    /\ UNCHANGED <<storeVars, begun, session, overtaken>>

Refreshing(r) == req[r].phase = "refreshing"

(* Who is signed in changes, by a tab; refreshes under way are overtaken.    *)
NewSession(t, user) ==
    /\ session' = user
    /\ overtaken' = \E r \in Requests : Refreshing(r) /\ req[r].user # user
    /\ disturbed' = IF user = None THEN disturbed ELSE (disturbed \cup Strange(user)) \ {t}

(* completeSignIn, and on to the application: back to the login page when    *)
(* the tokens are gone.                                                      *)
Complete(t) ==
    /\ sub' = [sub EXCEPT ![t] = SignedIn]
    /\ place' = [place EXCEPT ![t] = IF SignedIn THEN "app" ELSE "login"]

\* Mutant: a refresh token that is there already is not replaced.
FaultyStoreTokens(user) ==
    /\ access' = user
    /\ refresh' = IF refresh = None THEN user ELSE refresh

StoreTokens(user) == access' = user /\ refresh' = user

(* The tokens arrive and are kept; the name in the ID token is sent to the   *)
(* API first, if there is one.                                               *)
ExchangeAnswered(t) ==
    /\ place[t] = "exchanging"
    /\ LET user == attempts[exchange[t]].user IN
        /\ StoreTokens(user)
        /\ NewSession(t, user)
        /\ \/ \E r \in Requests :
                /\ req[r] = Idle
                /\ req' = [req EXCEPT ![r] = [phase |-> "sent", kind |-> "name", tab |-> t,
                                              user |-> user, again |-> FALSE]]
                /\ place' = [place EXCEPT ![t] = "naming"]
                /\ UNCHANGED sub
           \/ /\ place' = [place EXCEPT ![t] = "app"]
              /\ sub' = [sub EXCEPT ![t] = TRUE]
              /\ UNCHANGED req
    /\ exchange' = [exchange EXCEPT ![t] = 0]
    /\ UNCHANGED <<codeVars, cache>>

ExchangeFails(t) ==
    /\ place[t] = "exchanging"
    /\ place' = [place EXCEPT ![t] = "login"]
    /\ exchange' = [exchange EXCEPT ![t] = 0]
    /\ UNCHANGED <<storeVars, codeVars, sub, cache, req, auxVars>>

-----------------------------------------------------------------------------
(* Signing out: the cache is dropped and the tokens are removed, and the tab *)
(* goes to the hosted page that ends the session there, and then to "/".     *)

ClearTokens == access' = None /\ refresh' = None

SignOut(t) ==
    /\ place[t] = "app"
    /\ ClearTokens
    /\ NewSession(t, None)
    /\ cache' = [cache EXCEPT ![t] = {}]
    /\ sub' = [sub EXCEPT ![t] = FALSE]
    /\ place' = [place EXCEPT ![t] = "leaving"]
    /\ UNCHANGED <<codeVars, exchange, req>>

SignedOut(t) ==
    /\ place[t] = "leaving"
    /\ Unload(t, "login")
    /\ Mount(t)
    /\ UNCHANGED <<storeVars, codeVars, exchange, session, overtaken>>

-----------------------------------------------------------------------------
(* Calls of the API. An access token may have expired, in storage or under   *)
(* way: any call with one may be accepted or refused.                        *)

(* A page of the application wants data; without a token nothing is sent.    *)
Fetch(t, r) ==
    /\ place[t] = "app"
    /\ SignedIn
    /\ req[r] = Idle
    /\ req' = [req EXCEPT ![r] = [phase |-> "sent", kind |-> "get", tab |-> t,
                                  user |-> access, again |-> FALSE]]
    /\ UNCHANGED <<storeVars, codeVars, tabVars, auxVars>>

(* A call fails for the page; the name may fail to be saved.                 *)
Fail(r) ==
    /\ req' = [req EXCEPT ![r] = Idle]
    /\ IF req[r].kind = "name"
       THEN Complete(req[r].tab)
       ELSE UNCHANGED <<place, sub>>

\* Mutant: every 401 is followed by a refresh, not only the first.
FaultyUnauthorized(r) ==
    /\ req[r].phase = "sent"
    /\ IF refresh # None
       THEN /\ req' = [req EXCEPT ![r].phase = "refreshing", ![r].user = refresh]
            /\ UNCHANGED <<place, sub>>
       ELSE Fail(r)
    /\ UNCHANGED <<storeVars, codeVars, exchange, cache, auxVars>>

(* 401: the token has expired, or could not be verified. The first time the  *)
(* refresh token, as it is now, is used for another.                         *)
Unauthorized(r) ==
    /\ req[r].phase = "sent"
    /\ IF ~req[r].again /\ refresh # None
       THEN /\ req' = [req EXCEPT ![r].phase = "refreshing", ![r].user = refresh]
            /\ UNCHANGED <<place, sub>>
       ELSE Fail(r)
    /\ UNCHANGED <<storeVars, codeVars, exchange, cache, auxVars>>

(* The new access token is kept, whoever is signed in by now, and the call   *)
(* is repeated with it. Cognito sends no new refresh token.                  *)
Refreshed(r) ==
    /\ Refreshing(r)
    /\ access' = req[r].user /\ refresh' = refresh
    /\ disturbed' = IF Split' THEN Tabs ELSE disturbed \cup Strange(access')
    /\ req' = [req EXCEPT ![r].phase = "sent", ![r].again = TRUE]
    /\ UNCHANGED <<codeVars, tabVars, session, overtaken>>

(* The answer: data for the cache, unless that was dropped meanwhile, or the *)
(* end of signing in.                                                        *)
Answered(r) ==
    /\ req[r].phase = "sent"
    /\ req' = [req EXCEPT ![r] = Idle]
    /\ LET q == req[r] IN
        /\ IF q.kind = "get" /\ place[q.tab] # "leaving"
           THEN cache' = [cache EXCEPT ![q.tab] = @ \cup {q.user}]
           ELSE UNCHANGED cache
        /\ IF q.kind = "name"
           THEN Complete(q.tab)
           ELSE UNCHANGED <<place, sub>>
    /\ UNCHANGED <<storeVars, codeVars, exchange, auxVars>>

(* The connection breaks, to the API or to Cognito, a refresh is refused, or *)
(* the API answers with another error.                                       *)
Breaks(r) ==
    /\ req[r] # Idle
    /\ Fail(r)
    /\ UNCHANGED <<storeVars, codeVars, exchange, cache, auxVars>>

-----------------------------------------------------------------------------

TabStep(t) ==
    \/ Load(t) \/ Navigate(t) \/ SignIn(t) \/ Deny(t) \/ SignOut(t) \/ SignedOut(t)
    \/ ExchangeAnswered(t) \/ ExchangeFails(t)
    \/ \E k \in Attempts : Revisit(t, k) \/ \E u \in Users : Consent(t, k, u)
    \/ \E r \in Requests : Fetch(t, r)

CallStep(r) == Unauthorized(r) \/ Refreshed(r) \/ Answered(r) \/ Breaks(r)

Next == (\E t \in Tabs : TabStep(t)) \/ (\E r \in Requests : CallStep(r))

Spec == Init /\ [][Next]_vars

(* Every call that was made gets an answer or fails, at Cognito and at the   *)
(* API. Nothing is assumed of people, tokens or what the answer is.          *)
FairSpec ==
    /\ Spec
    /\ \A r \in Requests : WF_vars(CallStep(r))
    /\ \A t \in Tabs : WF_vars(ExchangeAnswered(t) \/ ExchangeFails(t))

-----------------------------------------------------------------------------
(* Properties.                                                               *)

(* The refresh token in the browser is that of the last sign-in, and none is *)
(* left after a sign-out, in whichever tabs these happened and whatever was  *)
(* under way. The access token is the same user's, unless a refresh for      *)
(* another session was under way at that moment: storeTokens keeps what it   *)
(* brings, whoever is signed in by then, and until it expires the browser is *)
(* signed in as a user who left.                                             *)
SessionIsWhole ==
    /\ refresh = session
    /\ ~overtaken => access = session

(* A document has, and has asked for, data of one user only, but for two     *)
(* things that come upon it from outside. One: another tab signs in as       *)
(* somebody else while the document has something of the user before. The    *)
(* other: a refresh for a session that is over is answered, and storeTokens  *)
(* keeps the access token it brings (api.ts:83). That disturbs the documents *)
(* that have something of another user; and, if somebody else has signed in  *)
(* by then, every document that is open, the new user's own among them, or   *)
(* opened before the tokens are of one user again. Nothing else mixes them:  *)
(* not expired tokens and refreshes while the session lasts, not a failed    *)
(* exchange or a refused or old callback page whose document goes on to the  *)
(* application, not reloads and the back button, not signing out and in as   *)
(* somebody else in the same tab, nor in another before this one asks.       *)
OneUserPerDocument ==
    \A t \in Tabs \ disturbed : \A u, w \in Holds(t) : u = w

(* A code is sent to Cognito at most once, although callback pages can be    *)
(* loaded again, in any tab, while the answer is awaited or later.           *)
CodesAreSpentOnce == \A k \in Attempts : attempts[k].sent <= 1

(* api.ts:125: "never loops": every call ends, and with it signing in, even  *)
(* when every token is refused.                                              *)
NothingHangs ==
    /\ \A r \in Requests : []<>(req[r].phase = "idle")
    /\ \A t \in Tabs : []<>(place[t] \notin {"exchanging", "naming"})
==============================================================================
