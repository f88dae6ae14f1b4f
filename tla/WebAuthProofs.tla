---------------------------- MODULE WebAuthProofs ----------------------------
(***************************************************************************)
(* The safety properties of WebAuth, for any tabs, users, calls under way  *)
(* and attempts to sign in.                                                *)
(***************************************************************************)
EXTENDS WebAuth, TLAPS

(* A refresh under way is for the session, unless it was overtaken.          *)
RefreshesAreOfSession ==
    ~overtaken => \A r \in Requests : Refreshing(r) => req[r].user = session

(* A page asks for data of somebody.                                          *)
CallsAreSigned ==
    \A r \in Requests : req[r].phase # "idle" /\ req[r].kind = "get" =>
        req[r].user # None /\ req[r].tab # None

(* The tokens are of one user, or every document counts as disturbed.        *)
SplitDisturbs == Split => disturbed = Tabs

(* A document that is not disturbed has data of the user of the tokens only, *)
(* so that its next call and its next refresh are for that user too.         *)
TokensFitDocuments ==
    \A t \in Tabs \ disturbed : \A u \in Holds(t) :
        access \in {u, None} /\ refresh \in {u, None}

(* A document that waits for tokens has asked for nothing yet.               *)
ExchangingIsFresh ==
    \A t \in Tabs : place[t] = "exchanging" =>
        /\ cache[t] = {}
        /\ \A r \in Requests : req[r].tab # t

(* One tab keeps an attempt, and not once its code was sent.                 *)
StoredIsUnspent ==
    /\ \A k \in Attempts : k > begun => attempts[k].sent = 0
    /\ \A t \in Tabs : stored[t] # 0 => stored[t] <= begun /\ attempts[stored[t]].sent = 0
    /\ \A s, t \in Tabs : stored[s] # 0 /\ s # t => stored[s] # stored[t]

IInv ==
    /\ TypeOK
    /\ SessionIsWhole
    /\ RefreshesAreOfSession
    /\ CallsAreSigned
    /\ SplitDisturbs
    /\ TokensFitDocuments
    /\ ExchangingIsFresh
    /\ OneUserPerDocument
    /\ StoredIsUnspent
    /\ CodesAreSpentOnce

-----------------------------------------------------------------------------
(* Lemmas. *)

\* What IInv says of tabs and tokens, apart from the attempts to sign in.
Documents ==
    /\ SessionIsWhole
    /\ RefreshesAreOfSession
    /\ CallsAreSigned
    /\ SplitDisturbs
    /\ TokensFitDocuments
    /\ ExchangingIsFresh
    /\ OneUserPerDocument

\* What it says of the attempts.
Codes == StoredIsUnspent /\ CodesAreSpentOnce

LEMMA InitInv == Init => IInv
<1> SUFFICES ASSUME Init PROVE IInv
  OBVIOUS
<1>1. TypeOK
  <2>1. attempts \in [Attempts -> [user : Users \cup {None}, sent : Nat]] /\ begun \in 0..MaxAttempts
    BY BoundAssumption DEF Init
  <2>2. stored \in [Tabs -> 0..MaxAttempts] /\ exchange \in [Tabs -> 0..MaxAttempts]
    BY BoundAssumption DEF Init
  <2>3. /\ place \in [Tabs -> Places]
        /\ \A t \in Tabs : place[t] # "app" /\ place[t] # "exchanging"
    BY DEF Init, Places
  <2>4. req \in [Requests -> Calls]
    BY DEF Init, Calls, Idle
  <2>5. /\ sub \in [Tabs -> BOOLEAN] /\ cache \in [Tabs -> SUBSET Users]
        /\ disturbed \subseteq Tabs
    BY DEF Init
  <2>6. /\ access \in Users \cup {None} /\ refresh \in Users \cup {None}
        /\ session \in Users \cup {None} /\ overtaken \in BOOLEAN
    BY DEF Init
  <2> QED
    BY <2>1, <2>2, <2>3, <2>4, <2>5, <2>6 DEF TypeOK
<1>2. SessionIsWhole /\ RefreshesAreOfSession /\ SplitDisturbs /\ ExchangingIsFresh
  BY NoneAssumption DEF Init, SessionIsWhole, RefreshesAreOfSession, Refreshing, SplitDisturbs,
                        Split, ExchangingIsFresh, Idle
<1>3. OneUserPerDocument /\ TokensFitDocuments /\ CallsAreSigned
  <2>1. \A t \in Tabs : Holds(t) = {}
    BY NoneAssumption DEF Init, Holds, Idle
  <2> QED
    BY <2>1 DEF Init, OneUserPerDocument, TokensFitDocuments, CallsAreSigned, Idle
<1>4. StoredIsUnspent /\ CodesAreSpentOnce
  BY BoundAssumption DEF Init, StoredIsUnspent, CodesAreSpentOnce, Attempts
<1> QED
  BY <1>1, <1>2, <1>3, <1>4 DEF IInv

\* A document that is left has nothing any more, and the others what they had.
LEMMA UnloadHolds ==
    ASSUME TypeOK, NEW t \in Tabs, NEW to, Unload(t, to)
    PROVE  Holds(t)' = {} /\ \A s \in Tabs \ {t} : Holds(s)' = Holds(s)
<1>1. /\ \A s \in Tabs : cache'[s] = IF s = t THEN {} ELSE cache[s]
      /\ \A r \in Requests : req'[r] = IF req[r].tab = t THEN Idle ELSE req[r]
  BY DEF Unload, TypeOK
<1> QED
  BY <1>1, NoneAssumption DEF Holds, Idle

\* A new document asks for nothing yet and shows nothing; whether it counts as
\* disturbed depends on the tokens that are there.
LEMMA NewDocument ==
    ASSUME IInv, NEW t \in Tabs, NEW to \in Places, Unload(t, to),
           UNCHANGED <<storeVars, session, overtaken>>
    PROVE  Documents' /\ disturbed' \subseteq Tabs
<1> USE DEF storeVars
<1>1. SessionIsWhole'
  BY DEF IInv, SessionIsWhole
<1>2. RefreshesAreOfSession'
  BY DEF IInv, TypeOK, RefreshesAreOfSession, Refreshing, Idle, Unload
<1>3. SplitDisturbs' /\ disturbed' \subseteq Tabs
  BY DEF IInv, TypeOK, SplitDisturbs, Split, Unload, Renewed
<1>4. ExchangingIsFresh'
  BY NoneAssumption DEF IInv, TypeOK, ExchangingIsFresh, Idle, Unload
<1>5. OneUserPerDocument' /\ TokensFitDocuments'
  <2>1. Holds(t)' = {} /\ \A s \in Tabs \ {t} : Holds(s)' = Holds(s)
    BY UnloadHolds DEF IInv
  <2>2. \A s \in Tabs \ disturbed' : s = t \/ s \notin disturbed
    BY DEF Unload, Renewed
  <2> QED
    BY <2>1, <2>2 DEF IInv, OneUserPerDocument, TokensFitDocuments
<1>6. CallsAreSigned'
  BY DEF IInv, TypeOK, CallsAreSigned, Idle, Unload
<1> QED
  BY <1>1, <1>2, <1>3, <1>4, <1>5, <1>6 DEF Documents

\* How a return to the callback page is counted.
LEMMA ReturnCounts ==
    ASSUME TypeOK, NEW k \in Attempts, NEW u \in Users \cup {None}, NEW spent \in BOOLEAN,
           \/ attempts' = [attempts EXCEPT ![k].user = u, ![k].sent = IF spent THEN @ + 1 ELSE @]
           \/ attempts' = [attempts EXCEPT ![k].sent = IF spent THEN @ + 1 ELSE @]
    PROVE  /\ attempts' \in [Attempts -> [user : Users \cup {None}, sent : Nat]]
           /\ \A j \in Attempts :
                /\ j # k \/ ~spent => attempts'[j].sent = attempts[j].sent
                /\ j = k /\ spent => attempts'[j].sent = attempts[j].sent + 1
<1>1. attempts \in [Attempts -> [user : Users \cup {None}, sent : Nat]]
  BY DEF TypeOK
<1>2. CASE spent
  BY <1>1, <1>2
<1>3. CASE ~spent
  BY <1>1, <1>3
<1> QED
  BY <1>2, <1>3

\* The callback page of attempt k: it is sent if it is kept, and then it was
\* not sent before, and it is kept no longer.
LEMMA ReturnCodes ==
    ASSUME IInv, NEW t \in Tabs, NEW k \in Attempts, NEW spent \in BOOLEAN,
           spent => stored[t] = k,
           stored' = [stored EXCEPT ![t] = 0],
           begun' = begun,
           \A j \in Attempts :
                /\ j # k \/ ~spent => attempts'[j].sent = attempts[j].sent
                /\ j = k /\ spent => attempts'[j].sent = attempts[j].sent + 1
    PROVE  Codes'
<1>1. /\ begun \in Nat /\ k \in 1..MaxAttempts
      /\ \A s \in Tabs : stored[s] \in 0..MaxAttempts
  BY BoundAssumption DEF IInv, TypeOK, Attempts
<1>2. \A s \in Tabs : stored'[s] # 0 => s # t /\ stored'[s] = stored[s]
  BY DEF IInv, TypeOK
<1>3. \A j \in Attempts : attempts[j].sent \in Nat /\ attempts[j].sent <= 1
  BY DEF IInv, TypeOK, CodesAreSpentOnce
<1>4. spent => /\ attempts[k].sent = 0 /\ k <= begun
              /\ \A s \in Tabs : s # t /\ stored[s] # 0 => stored[s] # k
  BY <1>1, BoundAssumption DEF IInv, StoredIsUnspent
<1>5. StoredIsUnspent'
  <2>1. \A j \in Attempts : j > begun' => attempts'[j].sent = 0
    BY <1>1, <1>4 DEF IInv, StoredIsUnspent, Attempts
  <2>2. ASSUME NEW s \in Tabs, stored'[s] # 0
        PROVE  stored'[s] <= begun' /\ attempts'[stored'[s]].sent = 0
    <3>1. /\ s # t /\ stored'[s] = stored[s] /\ stored[s] # 0 /\ stored[s] <= begun
          /\ attempts[stored[s]].sent = 0 /\ stored[s] \in Attempts
      BY <1>1, <1>2, <2>2, BoundAssumption DEF IInv, StoredIsUnspent, Attempts
    <3>2. stored[s] # k \/ ~spent
      BY <1>4, <3>1
    <3> QED
      BY <3>1, <3>2
  <2>3. \A s, u \in Tabs : stored'[s] # 0 /\ s # u => stored'[s] # stored'[u]
    BY <1>2 DEF IInv, StoredIsUnspent
  <2> QED
    BY <2>1, <2>2, <2>3 DEF StoredIsUnspent
<1>6. CodesAreSpentOnce'
  BY <1>3, <1>4 DEF CodesAreSpentOnce
<1> QED
  BY <1>5, <1>6 DEF Codes

LEMMA CodesKept == ASSUME IInv, UNCHANGED codeVars PROVE Codes'
BY DEF codeVars, IInv, Codes, StoredIsUnspent, CodesAreSpentOnce

\* Mounting AuthProvider in a new document.
LEMMA MountInv ==
    ASSUME IInv, NEW t \in Tabs, NEW to \in Places, Unload(t, to), Mount(t),
           to = "app" => SignedIn,
           UNCHANGED <<storeVars, session, overtaken>>
    PROVE  /\ Documents'
           /\ place' \in [Tabs -> Places] /\ cache' \in [Tabs -> SUBSET Users]
           /\ req' \in [Requests -> Calls] /\ sub' \in [Tabs -> BOOLEAN]
           /\ disturbed' \subseteq Tabs
           /\ \A s \in Tabs : place'[s] = "app" => sub'[s]
<1>1. Documents' /\ disturbed' \subseteq Tabs
  BY NewDocument
<1>2. req' \in [Requests -> Calls]
  BY DEF IInv, TypeOK, Calls, Idle, Unload
<1>3. place' \in [Tabs -> Places] /\ cache' \in [Tabs -> SUBSET Users]
  BY DEF IInv, TypeOK, Unload
<1>4. sub' \in [Tabs -> BOOLEAN] /\ \A s \in Tabs : place'[s] = "app" => sub'[s]
  BY DEF IInv, TypeOK, Unload, Mount, SignedIn
<1> QED
  BY <1>1, <1>2, <1>3, <1>4

LEMMA LoadInv == ASSUME IInv, NEW t \in Tabs, Load(t) PROVE IInv'
<1> USE DEF Load
<1>1. PICK to \in {"login", "app"} : Unload(t, to) /\ (to = "app" => SignedIn)
  OBVIOUS
<1>2. to \in Places
  BY DEF Places
<1>3. /\ Documents'
      /\ place' \in [Tabs -> Places] /\ cache' \in [Tabs -> SUBSET Users]
      /\ req' \in [Requests -> Calls] /\ sub' \in [Tabs -> BOOLEAN]
      /\ disturbed' \subseteq Tabs
      /\ \A s \in Tabs : place'[s] = "app" => sub'[s]
  BY <1>1, <1>2, MountInv
<1>4. TypeOK'
  <2>1. /\ exchange' \in [Tabs -> 0..MaxAttempts]
        /\ \A s \in Tabs : place'[s] = "exchanging" => exchange'[s] # 0
    BY <1>1, BoundAssumption DEF IInv, TypeOK, Unload
  <2> QED
    BY <1>3, <2>1 DEF IInv, TypeOK, storeVars, codeVars
<1>5. Codes'
  BY CodesKept
<1> QED
  BY <1>3, <1>4, <1>5 DEF IInv, Documents, Codes

LEMMA NavigateInv == ASSUME IInv, NEW t \in Tabs, Navigate(t) PROVE IInv'
<1> USE DEF Navigate, storeVars, codeVars, auxVars
<1>1. TypeOK'
  BY DEF IInv, TypeOK, Places
<1>2. /\ SessionIsWhole' /\ RefreshesAreOfSession' /\ SplitDisturbs' /\ CallsAreSigned'
  BY DEF IInv, SessionIsWhole, RefreshesAreOfSession, Refreshing, SplitDisturbs, Split, CallsAreSigned
<1>3. ExchangingIsFresh'
  BY DEF IInv, TypeOK, ExchangingIsFresh
<1>4. OneUserPerDocument' /\ TokensFitDocuments'
  BY DEF IInv, OneUserPerDocument, TokensFitDocuments, Holds
<1>5. Codes'
  BY CodesKept
<1> QED
  BY <1>1, <1>2, <1>3, <1>4, <1>5 DEF IInv, Codes

LEMMA SignInInv == ASSUME IInv, NEW t \in Tabs, SignIn(t) PROVE IInv'
<1> USE DEF SignIn
<1>1. begun \in 0..MaxAttempts /\ begun + 1 \in Attempts /\ stored' = [stored EXCEPT ![t] = begun + 1]
  BY BoundAssumption DEF IInv, TypeOK, Attempts
<1>2. "cognito" \in Places /\ "cognito" # "exchanging"
  BY DEF Places
<1>3. disturbed' \subseteq Tabs
  BY <1>2, NewDocument
<1>4. Documents'
  BY <1>2, NewDocument
<1>5. Codes'
  <2>1. \A s \in Tabs : stored'[s] = IF s = t THEN begun + 1 ELSE stored[s]
    BY <1>1 DEF IInv, TypeOK
  <2>2. attempts[begun + 1].sent = 0
    BY <1>1, BoundAssumption DEF IInv, StoredIsUnspent
  <2>3. \A s \in Tabs : stored[s] \in 0..MaxAttempts /\ (stored[s] # 0 => stored[s] <= begun)
    BY DEF IInv, TypeOK, StoredIsUnspent
  <2>4. \A k \in Attempts : k > begun' => attempts'[k].sent = 0
    BY <1>1, BoundAssumption DEF IInv, StoredIsUnspent, Attempts
  <2>5. \A s \in Tabs : stored'[s] # 0 => stored'[s] <= begun' /\ attempts'[stored'[s]].sent = 0
    BY <1>1, <2>1, <2>2, <2>3, BoundAssumption DEF IInv, StoredIsUnspent
  <2>6. \A r, s \in Tabs : stored'[r] # 0 /\ r # s => stored'[r] # stored'[s]
    BY <1>1, <2>1, <2>3, BoundAssumption DEF IInv, StoredIsUnspent
  <2>7. StoredIsUnspent'
    BY <2>4, <2>5, <2>6 DEF StoredIsUnspent
  <2>8. CodesAreSpentOnce'
    BY DEF IInv, CodesAreSpentOnce
  <2> QED
    BY <2>7, <2>8 DEF Codes
<1>6. TypeOK'
  <2>1. attempts' \in [Attempts -> [user : Users \cup {None}, sent : Nat]] /\ begun' \in 0..MaxAttempts
    BY <1>1, BoundAssumption DEF IInv, TypeOK
  <2>2. stored' \in [Tabs -> 0..MaxAttempts]
    BY <1>1, BoundAssumption DEF IInv, TypeOK, Attempts
  <2>3. place' \in [Tabs -> Places] /\ cache' \in [Tabs -> SUBSET Users]
    BY <1>2 DEF IInv, TypeOK, Unload
  <2>4. req' \in [Requests -> Calls]
    BY DEF IInv, TypeOK, Unload, Calls, Idle
  <2>5. /\ sub' \in [Tabs -> BOOLEAN] /\ \A s \in Tabs : place'[s] = "app" => sub'[s]
        /\ \A s \in Tabs : place'[s] = "exchanging" => exchange'[s] # 0
    BY DEF IInv, TypeOK, Unload
  <2> QED
    BY <1>3, <2>1, <2>2, <2>3, <2>4, <2>5 DEF IInv, TypeOK, storeVars, codeVars
<1> QED
  BY <1>4, <1>5, <1>6 DEF IInv, Documents, Codes

\* The callback page is loaded.
LEMMA ReturnInv ==
    ASSUME IInv, NEW t \in Tabs, NEW k \in Attempts, Return(t, k),
           attempts' \in [Attempts -> [user : Users \cup {None}, sent : Nat]],
           \A j \in Attempts :
                /\ j # k \/ exchange'[t] # k => attempts'[j].sent = attempts[j].sent
                /\ j = k /\ exchange'[t] = k => attempts'[j].sent = attempts[j].sent + 1,
           UNCHANGED <<storeVars, begun, session, overtaken>>
    PROVE  IInv'
<1>1. PICK to \in {"exchanging", "login"} : Unload(t, to)
  BY DEF Return
<1>2. to \in Places /\ Mount(t)
  BY DEF Return, Places
<1>3. /\ Documents'
      /\ place' \in [Tabs -> Places] /\ cache' \in [Tabs -> SUBSET Users]
      /\ req' \in [Requests -> Calls] /\ sub' \in [Tabs -> BOOLEAN]
      /\ disturbed' \subseteq Tabs
      /\ \A s \in Tabs : place'[s] = "app" => sub'[s]
  BY <1>1, <1>2, MountInv
<1>4. stored' = [stored EXCEPT ![t] = 0] /\ k \in 1..MaxAttempts
  BY DEF Return, Attempts
<1>5. exchange'[t] = k => stored[t] = k
  BY <1>4, BoundAssumption DEF Return, IInv, TypeOK
<1>6. stored' \in [Tabs -> 0..MaxAttempts]
  BY <1>4, BoundAssumption DEF IInv, TypeOK
<1>7. /\ exchange' \in [Tabs -> 0..MaxAttempts]
      /\ \A s \in Tabs : place'[s] = "exchanging" => exchange'[s] # 0
  <2>1. CASE stored[t] = k
    BY <1>4, <2>1, BoundAssumption DEF Return, Unload, IInv, TypeOK
  <2>2. CASE stored[t] # k
    BY <1>4, <2>2, BoundAssumption DEF Return, Unload, IInv, TypeOK
  <2> QED
    BY <2>1, <2>2
<1>8. Codes'
  BY <1>4, <1>5, ReturnCodes
<1>9. TypeOK'
  BY <1>3, <1>6, <1>7 DEF IInv, TypeOK, storeVars, codeVars
<1> QED
  BY <1>3, <1>8, <1>9 DEF IInv, Documents, Codes

LEMMA ConsentInv == ASSUME IInv, NEW t \in Tabs, NEW k \in Attempts, NEW u \in Users, Consent(t, k, u)
                    PROVE  IInv'
<1> DEFINE spent == exchange'[t] = k
<1>1. attempts' = [attempts EXCEPT ![k].user = u, ![k].sent = IF spent THEN @ + 1 ELSE @]
  BY DEF Consent
<1>2. spent \in BOOLEAN /\ TypeOK
  BY DEF IInv
<1> HIDE DEF spent
<1>3. /\ attempts' \in [Attempts -> [user : Users \cup {None}, sent : Nat]]
      /\ \A j \in Attempts :
            /\ j # k \/ ~spent => attempts'[j].sent = attempts[j].sent
            /\ j = k /\ spent => attempts'[j].sent = attempts[j].sent + 1
  BY <1>1, <1>2, ReturnCounts
<1>4. Return(t, k) /\ UNCHANGED <<storeVars, begun, session, overtaken>>
  BY DEF Consent
<1> QED
  BY <1>3, <1>4, ReturnInv DEF spent

LEMMA RevisitInv == ASSUME IInv, NEW t \in Tabs, NEW k \in Attempts, Revisit(t, k)
                    PROVE  IInv'
<1> DEFINE spent == exchange'[t] = k
<1>1. attempts' = [attempts EXCEPT ![k].sent = IF spent THEN @ + 1 ELSE @]
  BY DEF Revisit
<1>2. spent \in BOOLEAN /\ TypeOK /\ attempts[k].user \in Users \cup {None}
  BY DEF IInv, TypeOK
<1> HIDE DEF spent
<1>3. /\ attempts' \in [Attempts -> [user : Users \cup {None}, sent : Nat]]
      /\ \A j \in Attempts :
            /\ j # k \/ ~spent => attempts'[j].sent = attempts[j].sent
            /\ j = k /\ spent => attempts'[j].sent = attempts[j].sent + 1
  BY <1>1, <1>2, ReturnCounts
<1>4. Return(t, k) /\ UNCHANGED <<storeVars, begun, session, overtaken>>
  BY DEF Revisit
<1> QED
  BY <1>3, <1>4, ReturnInv DEF spent

\* Back on a page that needs no session, with nothing kept.
LEMMA DenyInv == ASSUME IInv, NEW t \in Tabs, Deny(t) PROVE IInv'
<1> USE DEF Deny
<1>1. "login" \in Places
  BY DEF Places
<1>2. /\ Documents'
      /\ place' \in [Tabs -> Places] /\ cache' \in [Tabs -> SUBSET Users]
      /\ req' \in [Requests -> Calls] /\ sub' \in [Tabs -> BOOLEAN]
      /\ disturbed' \subseteq Tabs
      /\ \A s \in Tabs : place'[s] = "app" => sub'[s]
  BY <1>1, MountInv
<1>3. /\ stored' \in [Tabs -> 0..MaxAttempts] /\ exchange' \in [Tabs -> 0..MaxAttempts]
      /\ \A s \in Tabs : place'[s] = "exchanging" => exchange'[s] # 0
  BY BoundAssumption DEF IInv, TypeOK, Unload
<1>4. TypeOK'
  BY <1>2, <1>3 DEF IInv, TypeOK, storeVars, codeVars
<1>5. Codes'
  <2>1. \A s \in Tabs : stored'[s] # 0 => stored'[s] = stored[s] /\ s # t
    BY DEF IInv, TypeOK
  <2> QED
    BY <2>1 DEF IInv, Codes, StoredIsUnspent, CodesAreSpentOnce
<1> QED
  BY <1>2, <1>4, <1>5 DEF IInv, Documents, Codes

LEMMA SignedOutInv == ASSUME IInv, NEW t \in Tabs, SignedOut(t) PROVE IInv'
<1> USE DEF SignedOut
<1>1. "login" \in Places
  BY DEF Places
<1>2. /\ Documents'
      /\ place' \in [Tabs -> Places] /\ cache' \in [Tabs -> SUBSET Users]
      /\ req' \in [Requests -> Calls] /\ sub' \in [Tabs -> BOOLEAN]
      /\ disturbed' \subseteq Tabs
      /\ \A s \in Tabs : place'[s] = "app" => sub'[s]
  BY <1>1, MountInv
<1>3. \A s \in Tabs : place'[s] = "exchanging" => exchange'[s] # 0
  BY DEF IInv, TypeOK, Unload
<1>4. TypeOK'
  BY <1>2, <1>3 DEF IInv, TypeOK, storeVars, codeVars
<1>5. Codes'
  BY CodesKept
<1> QED
  BY <1>2, <1>4, <1>5 DEF IInv, Documents, Codes

\* A session begins or ends in tab t: documents of other tabs that have
\* something of anybody else are disturbed, and refreshes for anybody else are
\* overtaken.
LEMMA NewSessionInv ==
    ASSUME IInv, NEW t \in Tabs, NEW user \in Users \cup {None}, NewSession(t, user),
           access' = user, refresh' = user,
           \A r \in Requests : req'[r].phase = "refreshing" => req'[r] = req[r],
           \A s \in Tabs \ {t} : Holds(s)' \subseteq Holds(s),
           \/ Holds(t)' \subseteq {user}
           \/ user = None /\ Holds(t)' \subseteq Holds(t)
    PROVE  /\ SessionIsWhole' /\ RefreshesAreOfSession' /\ SplitDisturbs'
           /\ OneUserPerDocument' /\ TokensFitDocuments'
           /\ disturbed' \subseteq Tabs
           /\ session' \in Users \cup {None} /\ overtaken' \in BOOLEAN
<1> USE DEF NewSession
<1>1. SessionIsWhole'
  BY DEF SessionIsWhole
<1>2. RefreshesAreOfSession'
  BY DEF RefreshesAreOfSession, Refreshing
<1>3. SplitDisturbs'
  BY DEF SplitDisturbs, Split
<1>4. OneUserPerDocument' /\ TokensFitDocuments'
  <2>1. CASE user = None
    BY <2>1 DEF IInv, OneUserPerDocument, TokensFitDocuments
  <2>2. CASE user # None
    <3>1. \A s \in Tabs \ disturbed' : Holds(s)' \subseteq {user}
      BY <2>2 DEF Strange
    <3> QED
      BY <3>1 DEF OneUserPerDocument, TokensFitDocuments
  <2> QED
    BY <2>1, <2>2
<1>5. disturbed' \subseteq Tabs
  BY DEF IInv, TypeOK, Strange
<1>6. session' \in Users \cup {None} /\ overtaken' \in BOOLEAN
  OBVIOUS
<1> QED
  BY <1>1, <1>2, <1>3, <1>4, <1>5, <1>6

LEMMA ExchangeAnsweredInv == ASSUME IInv, NEW t \in Tabs, ExchangeAnswered(t) PROVE IInv'
<1> DEFINE user == attempts[exchange[t]].user
           call == [phase |-> "sent", kind |-> "name", tab |-> t, user |-> user, again |-> FALSE]
<1>1. /\ place[t] = "exchanging" /\ access' = user /\ refresh' = user /\ NewSession(t, user)
      /\ UNCHANGED <<codeVars, cache>>
      /\ exchange' = [exchange EXCEPT ![t] = 0]
  BY DEF ExchangeAnswered, StoreTokens
<1>2. user \in Users \cup {None}
  BY <1>1, BoundAssumption DEF IInv, TypeOK, Attempts
<1>3. /\ cache[t] = {}
      /\ \A r \in Requests : req[r].tab # t
  BY <1>1 DEF IInv, ExchangingIsFresh
<1>4. \/ /\ \E r \in Requests : req[r] = Idle /\ req' = [req EXCEPT ![r] = call]
         /\ place' = [place EXCEPT ![t] = "naming"]
         /\ sub' = sub
      \/ /\ place' = [place EXCEPT ![t] = "app"]
         /\ sub' = [sub EXCEPT ![t] = TRUE]
         /\ req' = req
  BY DEF ExchangeAnswered
<1> HIDE DEF user
<1>5. call \in Calls
  BY <1>2 DEF Calls
<1> HIDE DEF call
<1>6. /\ req' \in [Requests -> Calls]
      /\ \A r \in Requests : req'[r] = req[r] \/ req'[r] = call
  BY <1>4, <1>5 DEF IInv, TypeOK
<1>7. call.phase = "sent" /\ call.kind = "name" /\ call.tab = t /\ call.user = user
  BY DEF call
<1>8. /\ SessionIsWhole' /\ RefreshesAreOfSession' /\ SplitDisturbs'
      /\ OneUserPerDocument' /\ TokensFitDocuments'
      /\ disturbed' \subseteq Tabs
      /\ session' \in Users \cup {None} /\ overtaken' \in BOOLEAN
  <2>1. \A r \in Requests : req'[r].phase = "refreshing" => req'[r] = req[r]
    BY <1>6, <1>7
  <2>2. \A s \in Tabs \ {t} : Holds(s)' \subseteq Holds(s)
    BY <1>1, <1>6, <1>7 DEF Holds
  <2>3. Holds(t)' \subseteq {user}
    BY <1>1, <1>3, <1>6, <1>7 DEF Holds
  <2> QED
    BY <1>1, <1>2, <2>1, <2>2, <2>3, NewSessionInv
<1>9. /\ place' \in [Tabs -> Places] /\ sub' \in [Tabs -> BOOLEAN]
      /\ place'[t] \in {"naming", "app"} /\ (place'[t] = "app" => sub'[t])
      /\ \A s \in Tabs \ {t} : place'[s] = place[s] /\ sub'[s] = sub[s]
  BY <1>4 DEF IInv, TypeOK, Places
<1>10. TypeOK'
  <2>1. /\ exchange' \in [Tabs -> 0..MaxAttempts]
        /\ \A s \in Tabs \ {t} : exchange'[s] = exchange[s]
    BY <1>1, BoundAssumption DEF IInv, TypeOK
  <2>2. \A s \in Tabs : /\ place'[s] = "app" => sub'[s]
                        /\ place'[s] = "exchanging" => exchange'[s] # 0
    BY <1>9, <2>1 DEF IInv, TypeOK
  <2> QED
    BY <1>1, <1>2, <1>6, <1>8, <1>9, <2>1, <2>2 DEF IInv, TypeOK, codeVars
<1>11. ExchangingIsFresh'
  BY <1>1, <1>6, <1>7, <1>9 DEF IInv, ExchangingIsFresh
<1>12. CallsAreSigned'
  BY <1>6, <1>7 DEF IInv, CallsAreSigned
<1>13. Codes'
  BY <1>1, CodesKept
<1> QED
  BY <1>8, <1>10, <1>11, <1>12, <1>13 DEF IInv, Codes

LEMMA ExchangeFailsInv == ASSUME IInv, NEW t \in Tabs, ExchangeFails(t) PROVE IInv'
<1> USE DEF ExchangeFails, storeVars, codeVars, auxVars
<1>1. TypeOK'
  BY BoundAssumption DEF IInv, TypeOK, Places
<1>2. SessionIsWhole' /\ RefreshesAreOfSession' /\ SplitDisturbs' /\ CallsAreSigned'
  BY DEF IInv, SessionIsWhole, RefreshesAreOfSession, Refreshing, SplitDisturbs, Split, CallsAreSigned
<1>3. ExchangingIsFresh'
  BY DEF IInv, TypeOK, ExchangingIsFresh
<1>4. OneUserPerDocument' /\ TokensFitDocuments'
  BY DEF IInv, OneUserPerDocument, TokensFitDocuments, Holds
<1>5. Codes'
  BY CodesKept
<1> QED
  BY <1>1, <1>2, <1>3, <1>4, <1>5 DEF IInv, Codes

LEMMA SignOutInv == ASSUME IInv, NEW t \in Tabs, SignOut(t) PROVE IInv'
<1> USE DEF SignOut, ClearTokens, codeVars
<1>1. /\ SessionIsWhole' /\ RefreshesAreOfSession' /\ SplitDisturbs'
      /\ OneUserPerDocument' /\ TokensFitDocuments'
      /\ disturbed' \subseteq Tabs
      /\ session' \in Users \cup {None} /\ overtaken' \in BOOLEAN
  <2>1. \A s \in Tabs : Holds(s)' \subseteq Holds(s)
    BY DEF IInv, TypeOK, Holds
  <2> QED
    BY <2>1, NewSessionInv
<1>2. TypeOK'
  BY <1>1 DEF IInv, TypeOK, Places
<1>3. ExchangingIsFresh'
  BY DEF IInv, TypeOK, ExchangingIsFresh
<1>4. CallsAreSigned'
  BY DEF IInv, CallsAreSigned
<1>5. Codes'
  BY CodesKept
<1> QED
  BY <1>1, <1>2, <1>3, <1>4, <1>5 DEF IInv, Codes

-----------------------------------------------------------------------------
(* Calls of the API.                                                         *)

\* Leaving the tokens, the session and the attempts alone.
SameSession == UNCHANGED <<storeVars, session, overtaken, disturbed, codeVars, exchange>>

\* A call keeps what is said of calls if its document has something of the
\* same user, or if it is for the user of the tokens, and if tabs stay where
\* they are.
LEMMA CallInv ==
    ASSUME IInv, NEW r \in Requests, NEW q \in Calls, req' = [req EXCEPT ![r] = q],
           SameSession, UNCHANGED <<place, sub, cache>>,
           q.tab # None => place[q.tab] # "exchanging",
           q.kind = "get" => q.user # None /\ q.tab # None,
           ~overtaken /\ q.phase = "refreshing" => q.user = session,
           \A t \in Tabs \ disturbed : q.tab = t =>
                q.user \in Holds(t) \/ (q.user = access /\ access # None)
    PROVE  IInv'
<1> USE DEF SameSession, codeVars, storeVars
<1>1. /\ req' \in [Requests -> Calls]
      /\ \A c \in Requests : req'[c] = IF c = r THEN q ELSE req[c]
  BY DEF IInv, TypeOK
<1>2. TypeOK'
  BY <1>1 DEF IInv, TypeOK
<1>3. SessionIsWhole' /\ RefreshesAreOfSession' /\ SplitDisturbs' /\ CallsAreSigned'
  BY <1>1 DEF IInv, SessionIsWhole, RefreshesAreOfSession, Refreshing, SplitDisturbs, Split, CallsAreSigned
<1>4. ExchangingIsFresh'
  BY <1>1, NoneAssumption DEF IInv, ExchangingIsFresh
<1>5. OneUserPerDocument' /\ TokensFitDocuments'
  <2>1. \A t \in Tabs : Holds(t)' \subseteq Holds(t) \cup (IF q.tab = t THEN {q.user} ELSE {})
    BY <1>1 DEF Holds
  <2>2. \A t \in Tabs \ disturbed : refresh \in {access, None}
    BY DEF IInv, SplitDisturbs, Split
  <2>3. ASSUME NEW t \in Tabs \ disturbed
        PROVE  /\ \A u, w \in Holds(t)' : u = w
               /\ \A u \in Holds(t)' : access \in {u, None} /\ refresh \in {u, None}
    <3>1. /\ \A u, w \in Holds(t) : u = w
          /\ \A u \in Holds(t) : access \in {u, None} /\ refresh \in {u, None}
      BY DEF IInv, OneUserPerDocument, TokensFitDocuments
    <3>2. CASE Holds(t)' \subseteq Holds(t)
      BY <3>1, <3>2
    <3>3. CASE q.tab = t /\ q.user = access /\ access # None
      BY <2>1, <2>2, <3>1, <3>3
    <3> QED
      BY <2>1, <3>2, <3>3
  <2> QED
    BY <2>3 DEF OneUserPerDocument, TokensFitDocuments
<1>6. Codes'
  BY CodesKept
<1> QED
  BY <1>2, <1>3, <1>4, <1>5, <1>6 DEF IInv, Codes

\* The end of a call, and of signing in when it was to save the name; new data
\* are those of the call.
LEMMA EndInv ==
    ASSUME IInv, NEW r \in Requests, req' = [req EXCEPT ![r] = Idle], SameSession,
           \/ cache' = cache
           \/ /\ cache' = [cache EXCEPT ![req[r].tab] = @ \cup {req[r].user}]
              /\ req[r].user # None /\ req[r].tab # None /\ place[req[r].tab] # "exchanging",
           \/ Complete(req[r].tab)
           \/ UNCHANGED <<place, sub>>
    PROVE  IInv'
<1> USE DEF SameSession, codeVars, storeVars
<1>1. /\ req' \in [Requests -> Calls]
      /\ \A c \in Requests : req'[c] = IF c = r THEN Idle ELSE req[c]
  BY DEF IInv, TypeOK, Calls, Idle
<1>2. /\ place' \in [Tabs -> Places] /\ sub' \in [Tabs -> BOOLEAN]
      /\ \A t \in Tabs :
            /\ place'[t] = "exchanging" => place[t] = "exchanging"
            /\ place'[t] = "app" => sub'[t]
  <2>1. CASE UNCHANGED <<place, sub>>
    BY <2>1 DEF IInv, TypeOK
  <2>2. CASE Complete(req[r].tab)
    BY <2>2 DEF IInv, TypeOK, Complete, SignedIn, Places
  <2> QED
    BY <2>1, <2>2
<1>3. /\ cache' \in [Tabs -> SUBSET Users]
      /\ \A t \in Tabs :
            \/ cache'[t] = cache[t]
            \/ t = req[r].tab /\ cache'[t] = cache[t] \cup {req[r].user} /\ place[t] # "exchanging"
  BY DEF IInv, TypeOK, Calls
<1>4. TypeOK'
  BY <1>1, <1>2, <1>3 DEF IInv, TypeOK
<1>5. SessionIsWhole' /\ RefreshesAreOfSession' /\ SplitDisturbs' /\ CallsAreSigned'
  BY <1>1 DEF IInv, SessionIsWhole, RefreshesAreOfSession, Refreshing, Idle, SplitDisturbs, Split,
              CallsAreSigned
<1>6. ExchangingIsFresh'
  BY <1>1, <1>2, <1>3, NoneAssumption DEF IInv, ExchangingIsFresh, Idle
<1>7. OneUserPerDocument' /\ TokensFitDocuments'
  <2>1. \A t \in Tabs : Holds(t)' \subseteq Holds(t)
    BY <1>1, <1>3, NoneAssumption DEF Holds, Idle
  <2> QED
    BY <2>1 DEF IInv, OneUserPerDocument, TokensFitDocuments
<1>8. Codes'
  BY CodesKept
<1> QED
  BY <1>4, <1>5, <1>6, <1>7, <1>8 DEF IInv, Codes

LEMMA FetchInv == ASSUME IInv, NEW t \in Tabs, NEW r \in Requests, Fetch(t, r) PROVE IInv'
<1> DEFINE q == [phase |-> "sent", kind |-> "get", tab |-> t, user |-> access, again |-> FALSE]
<1>1. q \in Calls /\ access # None
  BY DEF Fetch, SignedIn, IInv, TypeOK, Calls
<1>2. q.user = access
  OBVIOUS
<1>3. q.tab # None /\ place[q.tab] # "exchanging" /\ q.phase # "refreshing" /\ q.user # None
  BY <1>1, NoneAssumption DEF Fetch
<1>4. req' = [req EXCEPT ![r] = q] /\ SameSession /\ UNCHANGED <<place, sub, cache>>
  BY DEF Fetch, SameSession, tabVars, auxVars
<1> HIDE DEF q
<1> QED
  BY <1>1, <1>2, <1>3, <1>4, CallInv

\* A call under way is for somebody whom its document has something of.
LEMMA CallFacts ==
    ASSUME IInv, NEW r \in Requests, req[r].phase # "idle"
    PROVE  /\ req[r] \in Calls
           /\ req[r].tab # None => place[req[r].tab] # "exchanging"
           /\ req[r].kind = "get" => req[r].user # None /\ req[r].tab # None
           /\ \A t \in Tabs : req[r].tab = t => req[r].user \in Holds(t)
<1>1. req[r] \in Calls /\ req[r].user \in Users \cup {None}
  BY DEF IInv, TypeOK, Calls
<1>2. \A t \in Tabs : req[r].tab = t => req[r].user \in Holds(t)
  BY <1>1 DEF Holds
<1>3. req[r].tab # None => place[req[r].tab] # "exchanging"
  BY <1>1 DEF IInv, Calls, ExchangingIsFresh
<1> QED
  BY <1>1, <1>2, <1>3 DEF IInv, CallsAreSigned

LEMMA FailInv ==
    ASSUME IInv, NEW r \in Requests, Fail(r), SameSession, cache' = cache
    PROVE  IInv'
BY EndInv DEF Fail

\* The refresh token that is used is the one of the user whose data the
\* document has, unless the document is disturbed.
LEMMA UnauthorizedInv == ASSUME IInv, NEW r \in Requests, Unauthorized(r) PROVE IInv'
<1>1. SameSession /\ cache' = cache /\ req[r].phase # "idle"
  BY DEF Unauthorized, SameSession, auxVars
<1>2. CASE ~req[r].again /\ refresh # None
  <2> DEFINE q == [req[r] EXCEPT !.phase = "refreshing", !.user = refresh]
  <2>1. req' = [req EXCEPT ![r] = q] /\ UNCHANGED <<place, sub>>
    <3>1. req' = [req EXCEPT ![r].phase = "refreshing", ![r].user = refresh]
      BY <1>2 DEF Unauthorized
    <3> QED
      BY <1>2, <3>1 DEF Unauthorized, IInv, TypeOK
  <2>2. q \in Calls /\ q.user = refresh /\ q.tab = req[r].tab /\ q.kind = req[r].kind
    BY DEF IInv, TypeOK, Calls
  <2>3. refresh = session
    BY DEF IInv, SessionIsWhole
  <2>4. \A t \in Tabs \ disturbed : q.tab = t => q.user \in Holds(t)
    <3>1. \A t \in Tabs \ disturbed : q.tab = t =>
            req[r].user \in Holds(t) /\ refresh \in {req[r].user, None}
      BY <1>1, <2>2, CallFacts DEF IInv, TokensFitDocuments
    <3> QED
      BY <1>2, <2>2, <3>1
  <2>5. /\ q.tab # None => place[q.tab] # "exchanging"
        /\ q.kind = "get" => q.user # None /\ q.tab # None
    BY <1>1, <1>2, <2>2, CallFacts
  <2> HIDE DEF q
  <2> QED
    BY <1>1, <2>1, <2>2, <2>3, <2>4, <2>5, CallInv
<1>3. CASE ~(~req[r].again /\ refresh # None)
  BY <1>1, <1>3, FailInv DEF Unauthorized
<1> QED
  BY <1>2, <1>3

LEMMA AnsweredInv == ASSUME IInv, NEW r \in Requests, Answered(r) PROVE IInv'
<1>1. SameSession /\ req[r].phase # "idle" /\ req' = [req EXCEPT ![r] = Idle]
  BY DEF Answered, SameSession, auxVars
<1>2. CASE req[r].kind = "name"
  BY <1>1, <1>2, EndInv DEF Answered
<1>3. CASE req[r].kind # "name"
  <2>1. req[r].kind = "get"
    BY <1>1, <1>3, CallFacts DEF Calls, Idle
  <2>2. req[r].user # None /\ req[r].tab # None /\ place[req[r].tab] # "exchanging"
    BY <1>1, <2>1, CallFacts
  <2>3. UNCHANGED <<place, sub>>
    BY <1>3 DEF Answered
  <2>4. CASE place[req[r].tab] # "leaving"
    BY <1>1, <2>1, <2>2, <2>3, <2>4, EndInv DEF Answered
  <2>5. CASE place[req[r].tab] = "leaving"
    BY <1>1, <2>3, <2>5, EndInv DEF Answered
  <2> QED
    BY <2>4, <2>5
<1> QED
  BY <1>2, <1>3

\* Keeping a refreshed access token: unless it was overtaken it is the
\* session's, as the one that it replaces; if not, whoever has something of
\* another user is disturbed, or everybody.
LEMMA RefreshedInv == ASSUME IInv, NEW r \in Requests, Refreshed(r) PROVE IInv'
<1>1. /\ UNCHANGED <<codeVars, place, exchange, sub, cache, session, overtaken, refresh>>
      /\ access' = req[r].user /\ req[r].phase = "refreshing"
      /\ req' = [req EXCEPT ![r].phase = "sent", ![r].again = TRUE]
  BY DEF Refreshed, Refreshing, tabVars
<1> USE DEF codeVars
<1>2. /\ req' \in [Requests -> Calls]
      /\ \A c \in Requests \ {r} : req'[c] = req[c]
      /\ req'[r].phase = "sent" /\ req'[r].user = req[r].user /\ req'[r].tab = req[r].tab
      /\ req'[r].kind = req[r].kind
  BY <1>1 DEF IInv, TypeOK, Calls
<1>3. ~overtaken => req[r].user = session
  BY <1>1 DEF IInv, RefreshesAreOfSession, Refreshing
<1>4. TypeOK'
  <2>1. access' \in Users \cup {None}
    BY <1>1 DEF IInv, TypeOK, Calls
  <2>2. disturbed' \subseteq Tabs
    BY DEF Refreshed, Strange, IInv, TypeOK
  <2> QED
    BY <1>1, <1>2, <2>1, <2>2 DEF IInv, TypeOK
<1>5. SessionIsWhole' /\ RefreshesAreOfSession' /\ SplitDisturbs'
  BY <1>1, <1>2, <1>3 DEF IInv, SessionIsWhole, RefreshesAreOfSession, Refreshing, Refreshed,
                          SplitDisturbs
<1>6. ExchangingIsFresh' /\ CallsAreSigned'
  BY <1>1, <1>2 DEF IInv, ExchangingIsFresh, CallsAreSigned
<1>7. OneUserPerDocument' /\ TokensFitDocuments'
  <2>1. \A t \in Tabs : Holds(t)' = Holds(t)
    BY <1>1, <1>2 DEF Holds
  <2>2. ASSUME NEW t \in Tabs \ disturbed'
        PROVE  /\ \A u \in Holds(t) : u = access'
               /\ refresh' \in {access', None}
    BY DEF Refreshed, Split, Strange
  <2> QED
    BY <2>1, <2>2 DEF OneUserPerDocument, TokensFitDocuments
<1>8. Codes'
  BY <1>1, CodesKept
<1> QED
  BY <1>4, <1>5, <1>6, <1>7, <1>8 DEF IInv, Codes

LEMMA BreaksInv == ASSUME IInv, NEW r \in Requests, Breaks(r) PROVE IInv'
BY FailInv DEF Breaks, SameSession, auxVars

-----------------------------------------------------------------------------
(* Theorems.                                                                 *)

LEMMA NextInv == IInv /\ [Next]_vars => IInv'
<1> SUFFICES ASSUME IInv, [Next]_vars PROVE IInv'
  OBVIOUS
<1>1. CASE UNCHANGED vars
  BY <1>1 DEF vars, storeVars, codeVars, tabVars, auxVars, IInv, TypeOK, SessionIsWhole, RefreshesAreOfSession,
              Refreshing, CallsAreSigned, SplitDisturbs, Split, TokensFitDocuments, Holds,
              ExchangingIsFresh, OneUserPerDocument, StoredIsUnspent, CodesAreSpentOnce
<1>2. ASSUME NEW t \in Tabs, TabStep(t) PROVE IInv'
  BY <1>2, LoadInv, NavigateInv, SignInInv, DenyInv, SignOutInv, SignedOutInv, ExchangeAnsweredInv,
     ExchangeFailsInv, RevisitInv, ConsentInv, FetchInv DEF TabStep
<1>3. ASSUME NEW r \in Requests, CallStep(r) PROVE IInv'
  BY <1>3, UnauthorizedInv, RefreshedInv, AnsweredInv, BreaksInv DEF CallStep
<1> QED
  BY <1>1, <1>2, <1>3 DEF Next

(* IInv holds in every state.                                                *)
THEOREM InductiveInvariant == Spec => []IInv
BY InitInv, NextInv, PTL DEF Spec

(* The tokens in the browser are those of the last sign-in or none, whatever *)
(* the tabs do, except for an access token revived by a refresh that was     *)
(* under way.                                                                *)
THEOREM TokensFollowTheSession == Spec => []SessionIsWhole
BY InductiveInvariant, PTL DEF IInv

(* A document that no other tab's sign-in and no late refresh for a session  *)
(* that is over has disturbed has data of one user and asks for no others,   *)
(* whichever page it began with.                                             *)
THEOREM DocumentsDoNotMixUsers == Spec => []OneUserPerDocument
BY InductiveInvariant, PTL DEF IInv

(* No authorization code is exchanged twice.                                 *)
THEOREM NoCodeIsSentTwice == Spec => []CodesAreSpentOnce
BY InductiveInvariant, PTL DEF IInv
==============================================================================
