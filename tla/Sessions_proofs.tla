-------------------------- MODULE Sessions_proofs --------------------------
(***************************************************************************)
(* What holds of the refresh tokens for any number of requests in flight   *)
(* and of tokens, whatever answers are lost and whatever requests die; and *)
(* of a browser with any number of tabs and calls, which uses them.        *)
(***************************************************************************)
EXTENDS BrowserSession, FiniteSetTheorems, TLAPS

\* A request in flight carries a token the server has issued.
Presented ==
    \A r \in Request : pc[r] # "idle" =>
        presented[r] \in Token /\ token[presented[r]] # "unissued"

\* The successor of an open rotation is no committed row and nobody else's.
Reserved ==
    \A r \in Request : pc[r] = "rotated" =>
        /\ issued[r] \in Token
        /\ token[issued[r]] = "unissued"
        /\ \A q \in Request \ {r} : issued[q] # issued[r]

\* What the jar holds, or is to be set to, has been issued.
JarIssued ==
    /\ cookie # NoToken => token[cookie] # "unissued"
    /\ \A r \in Request : pc[r] \in {"revoking", "answered"} /\ answer[r] = "set" =>
          issued[r] \in Token /\ token[issued[r]] # "unissued"

\* A family is named after a token that was issued, and only such are revoked.
Rooted == \A k \in Token : family[k] # NoToken => token[family[k]] # "unissued"
Targets == \A r \in Request : \A k \in target[r] : token[k] # "unissued"

TokenInv == TypeOK /\ Presented /\ Reserved /\ JarIssued /\ Rooted /\ Targets

-----------------------------------------------------------------------------
(* The inductive invariant. *)

LEMMA TokensAreNumbers == NoToken \notin Token
BY TokenAssumption DEF NoToken, Token

LEMMA InitTokens == Init => TokenInv
BY TokensAreNumbers
DEF Init, TokenInv, TypeOK, Place, Presented, Reserved, JarIssued, Rooted, Targets, NoToken

LEMMA LoginTokens ==
    ASSUME TokenInv, NEW r \in Request, Login(r)
    PROVE  TokenInv'
<1>1. PICK k \in Fresh :
          /\ token' = [token EXCEPT ![k] = "live"]
          /\ family' = [family EXCEPT ![k] = k]
          /\ issued' = [issued EXCEPT ![r] = k]
          /\ presented' = [presented EXCEPT ![r] = k]
  BY DEF Login
<1>2. k \in Token /\ token[k] = "unissued" /\ \A q \in Request : issued[q] # k
  BY DEF Fresh
<1>3. TypeOK'
  BY <1>1, <1>2, TokensAreNumbers DEF Login, Respond, Goto, historyVars, TokenInv, TypeOK, Place
<1>4. Presented' /\ Rooted' /\ Targets'
  BY <1>1, <1>2 DEF Login, Respond, Goto, TokenInv, TypeOK, Presented, Rooted, Targets
<1>5. Reserved' /\ JarIssued'
  BY <1>1, <1>2 DEF Login, Respond, Goto, TokenInv, TypeOK, Reserved, JarIssued
<1> QED
  BY <1>3, <1>4, <1>5 DEF TokenInv

LEMMA SendTokens ==
    ASSUME TokenInv, NEW r \in Request, SendRefresh(r) \/ SendLogout(r)
    PROVE  TokenInv'
<1>1. cookie \in Token /\ family[cookie] \in Token
  BY DEF SendRefresh, SendLogout, Send, TokenInv, TypeOK, JarIssued
<1>2. TypeOK'
  BY <1>1 DEF SendRefresh, SendLogout, Send, Goto, serverVars, TokenInv, TypeOK, Place
<1>3. Presented' /\ Reserved' /\ JarIssued' /\ Rooted' /\ Targets'
  BY <1>1 DEF SendRefresh, SendLogout, Send, Goto, serverVars, TokenInv, TypeOK,
         Presented, Reserved, JarIssued, Rooted, Targets
<1> QED
  BY <1>2, <1>3 DEF TokenInv

LEMMA LookupTokens ==
    ASSUME TokenInv, NEW r \in Request, Lookup(r)
    PROVE  TokenInv'
<1>1. TypeOK'
  BY DEF Lookup, Respond, Goto, serverVars, TokenInv, TypeOK, Place, Presented
<1>2. Presented' /\ Reserved' /\ JarIssued' /\ Rooted' /\ Targets'
  BY DEF Lookup, Respond, Goto, serverVars, TokenInv, TypeOK,
         Presented, Reserved, JarIssued, Rooted, Targets
<1> QED
  BY <1>1, <1>2 DEF TokenInv

LEMMA RotateTokens ==
    ASSUME TokenInv, NEW r \in Request, Rotate(r)
    PROVE  TokenInv'
<1>1. PICK k \in Fresh : issued' = [issued EXCEPT ![r] = k]
  BY DEF Rotate
<1>2. k \in Token /\ token[k] = "unissued" /\ \A q \in Request : issued[q] # k
  BY DEF Fresh
<1>3. TypeOK'
  BY <1>1, <1>2 DEF Rotate, Goto, serverVars, historyVars, TokenInv, TypeOK, Place
<1>4. Presented' /\ Reserved' /\ JarIssued' /\ Rooted' /\ Targets'
  BY <1>1, <1>2 DEF Rotate, Goto, serverVars, TokenInv, TypeOK,
         Presented, Reserved, JarIssued, Rooted, Targets
<1> QED
  BY <1>3, <1>4 DEF TokenInv

LEMMA CommitRotationTokens ==
    ASSUME TokenInv, NEW r \in Request, CommitRotation(r)
    PROVE  TokenInv'
<1>1. /\ presented[r] \in Token /\ token[presented[r]] # "unissued"
      /\ issued[r] \in Token /\ token[issued[r]] = "unissued"
      /\ \A q \in Request \ {r} : issued[q] # issued[r]
  BY DEF CommitRotation, TokenInv, Presented, Reserved
<1>2. family[presented[r]] \in Token
  BY <1>1 DEF TokenInv, TypeOK
<1>3. TypeOK'
  BY <1>1, <1>2, TokensAreNumbers
  DEF CommitRotation, Spends, FamilyOf, Respond, Goto, historyVars, TokenInv, TypeOK, Place
<1>4. Presented' /\ Rooted' /\ Targets'
  BY <1>1, <1>2 DEF CommitRotation, Spends, FamilyOf, Respond, Goto, TokenInv, TypeOK,
         Presented, Rooted, Targets
<1>5. Reserved' /\ JarIssued'
  BY <1>1, <1>2 DEF CommitRotation, Spends, Respond, Goto, TokenInv, TypeOK, Reserved, JarIssued
<1> QED
  BY <1>3, <1>4, <1>5 DEF TokenInv

LEMMA RevokeTokens ==
    ASSUME TokenInv, NEW r \in Request, BeginRevoke(r) \/ CommitRevoke(r)
    PROVE  TokenInv'
<1>1. CASE BeginRevoke(r)
  <2>1. TypeOK'
    BY <1>1 DEF BeginRevoke, ToRevoke, Live, Goto, serverVars, historyVars, TokenInv, TypeOK, Place
  <2>2. Presented' /\ Reserved' /\ JarIssued' /\ Rooted' /\ Targets'
    BY <1>1 DEF BeginRevoke, ToRevoke, Live, Goto, serverVars, TokenInv, TypeOK,
           Presented, Reserved, JarIssued, Rooted, Targets
  <2> QED
    BY <2>1, <2>2 DEF TokenInv
<1>2. CASE CommitRevoke(r)
  <2>1. family[presented[r]] \in Token
    BY <1>2 DEF CommitRevoke, TokenInv, TypeOK, Presented
  <2>2. TypeOK'
    BY <1>2, <2>1 DEF CommitRevoke, FamilyOf, Goto, TokenInv, TypeOK, Targets, Place
  <2>3. Presented' /\ Reserved' /\ JarIssued' /\ Rooted' /\ Targets'
    BY <1>2, <2>1 DEF CommitRevoke, Goto, TokenInv, TypeOK,
           Presented, Reserved, JarIssued, Rooted, Targets
  <2> QED
    BY <2>2, <2>3 DEF TokenInv
<1> QED
  BY <1>1, <1>2

LEMMA FinishTokens ==
    ASSUME TokenInv, NEW r \in Request, Deliver(r) \/ LoseAnswer(r) \/ Abort(r)
    PROVE  TokenInv'
<1>1. Presented' /\ Reserved' /\ Rooted' /\ Targets'
  BY TokensAreNumbers DEF Deliver, LoseAnswer, Abort, Finish, Goto, serverVars, TokenInv, TypeOK,
         Presented, Reserved, Rooted, Targets
<1>2. CASE Deliver(r)
  <2>1. cookie' \in Token \cup {NoToken} /\ (cookie' # NoToken => token[cookie'] # "unissued")
    BY <1>2 DEF Deliver, TokenInv, TypeOK, JarIssued
  <2>2. TypeOK' /\ JarIssued'
    BY <1>2, <2>1 DEF Deliver, Finish, Goto, serverVars, historyVars, TokenInv, TypeOK, Place, JarIssued
  <2> QED
    BY <1>1, <2>2 DEF TokenInv
<1>3. CASE LoseAnswer(r) \/ Abort(r)
  <2>1. pc[r] # "idle"
    BY <1>3 DEF LoseAnswer, Abort
  <2>2. family[presented[r]] \in Token
    BY <2>1 DEF TokenInv, TypeOK, Presented
  <2>3. TypeOK' /\ JarIssued'
    BY <1>3, <2>2 DEF LoseAnswer, Abort, FamilyOf, Finish, Goto, serverVars, historyVars,
           TokenInv, TypeOK, Place, JarIssued
  <2> QED
    BY <1>1, <2>3 DEF TokenInv
<1> QED
  BY <1>2, <1>3

LEMMA ExpireTokens ==
    ASSUME TokenInv, NEW k \in Token, Expire(k)
    PROVE  TokenInv'
BY DEF Expire, serverVars, requestVars, historyVars, TokenInv, TypeOK,
       Presented, Reserved, JarIssued, Rooted, Targets

LEMMA NextTokens == TokenInv /\ [Next]_vars => TokenInv'
<1> SUFFICES ASSUME TokenInv, [Next]_vars PROVE TokenInv'
  OBVIOUS
<1>1. ASSUME NEW r \in Request, RequestStep(r) PROVE TokenInv'
  BY <1>1, LoginTokens, SendTokens, LookupTokens, RotateTokens, CommitRotationTokens,
     RevokeTokens, FinishTokens DEF RequestStep
<1>2. CASE UNCHANGED vars
  BY <1>2 DEF vars, serverVars, requestVars, historyVars, TokenInv, TypeOK,
         Presented, Reserved, JarIssued, Rooted, Targets
<1> QED
  BY <1>1, <1>2, ExpireTokens DEF Next

LEMMA TokensInvariant == Spec => []TokenInv
BY InitTokens, NextTokens, PTL DEF Spec

\* The rows, the jar and the requests keep their types, and a row belongs to a
\* family exactly when it is there (token_service.issue).
THEOREM TokenTypes == Spec => []TypeOK
<1>1. TokenInv => TypeOK
  BY DEF TokenInv
<1> QED
  BY <1>1, TokensInvariant, PTL

-----------------------------------------------------------------------------
(* A dead family stays dead. *)

\* It has a member, no live one, and no rotation that was let through.
LEMMA DeadFacts ==
    ASSUME TokenInv, NEW f \in Token
    PROVE  Dead(f) <=> /\ \E k \in Token : family[k] = f
                       /\ \A k \in Token : family[k] = f => token[k] # "live"
                       /\ \A r \in Request : pc[r] \in {"rotate", "rotated"} =>
                              family[presented[r]] # f
BY TokensAreNumbers DEF Dead, Live, InFlight, FamilyOf, TokenInv, Presented

LEMMA DeadStep ==
    ASSUME TokenInv, [Next]_vars, NEW f \in Token, Dead(f)
    PROVE  Dead(f)'
<1> DEFINE Gone ==
        /\ \E k \in Token : family[k] = f
        /\ \A k \in Token : family[k] = f => token[k] # "live"
        /\ \A r \in Request : pc[r] \in {"rotate", "rotated"} => family[presented[r]] # f
<1>1. Gone
  BY DeadFacts
<1>2. TokenInv'
  BY NextTokens
<1>3. ASSUME NEW r \in Request, Login(r) PROVE Gone'
  <2>1. PICK k \in Fresh : /\ token' = [token EXCEPT ![k] = "live"]
                           /\ family' = [family EXCEPT ![k] = k]
                           /\ presented' = [presented EXCEPT ![r] = k]
    BY <1>3 DEF Login
  <2>2. k \in Token /\ token[k] = "unissued" /\ family[k] = NoToken
    BY DEF Fresh, TokenInv, TypeOK
  <2>3. token[f] # "unissued"
    BY <1>1, TokensAreNumbers DEF TokenInv, Rooted
  <2> QED
    BY <1>1, <1>3, <2>1, <2>2, <2>3, TokensAreNumbers
    DEF Login, Respond, Goto, TokenInv, TypeOK, Presented
<1>4. ASSUME NEW r \in Request, SendRefresh(r) \/ SendLogout(r) PROVE Gone'
  BY <1>1, <1>4 DEF SendRefresh, SendLogout, Send, Goto, serverVars, TokenInv, TypeOK
<1>5. ASSUME NEW r \in Request, Lookup(r) PROVE Gone'
  <2>1. presented[r] \in Token /\ token[presented[r]] # "unissued"
    BY <1>5 DEF Lookup, TokenInv, Presented
  <2>2. Spent(presented[r]) \/ family[presented[r]] # f
    BY <1>1, <2>1 DEF Spent, TokenInv, TypeOK
  <2> QED
    BY <1>1, <1>5, <2>2 DEF Lookup, Respond, Goto, serverVars, TokenInv, TypeOK
<1>6. ASSUME NEW r \in Request, Rotate(r) PROVE Gone'
  BY <1>1, <1>6 DEF Rotate, Goto, serverVars, TokenInv, TypeOK
<1>7. ASSUME NEW r \in Request, CommitRotation(r) PROVE Gone'
  <2>1. /\ presented[r] \in Token /\ family[presented[r]] # f
        /\ issued[r] \in Token /\ token[issued[r]] = "unissued" /\ family[issued[r]] = NoToken
    BY <1>1, <1>7 DEF CommitRotation, TokenInv, TypeOK, Presented, Reserved
  <2> QED
    BY <1>1, <1>7, <2>1, TokensAreNumbers
    DEF CommitRotation, Spends, FamilyOf, Respond, Goto, TokenInv, TypeOK, Presented
<1>8. ASSUME NEW r \in Request, BeginRevoke(r) \/ CommitRevoke(r) PROVE Gone'
  BY <1>1, <1>8 DEF BeginRevoke, CommitRevoke, Goto, serverVars, TokenInv, TypeOK
<1>9. ASSUME NEW r \in Request, Deliver(r) \/ LoseAnswer(r) \/ Abort(r) PROVE Gone'
  BY <1>1, <1>9 DEF Deliver, LoseAnswer, Abort, Finish, Goto, serverVars, TokenInv, TypeOK
<1>10. ASSUME NEW k \in Token, Expire(k) PROVE Gone'
  BY <1>1, <1>10 DEF Expire, serverVars, requestVars
<1>11. ASSUME UNCHANGED vars PROVE Gone'
  BY <1>1, <1>11 DEF vars, serverVars, requestVars
<1>12. Gone'
  BY <1>3, <1>4, <1>5, <1>6, <1>7, <1>8, <1>9, <1>10, <1>11 DEF Next, RequestStep
<1> QED
  BY <1>2, <1>12, TokensAreNumbers DEF Dead, Live, InFlight, FamilyOf, TokenInv, Presented

\* Nothing revives a session: once its tokens are spent or revoked and no
\* rotation is under way that passed the check before (token_service.rotate),
\* it never has a good token again.
THEOREM SessionsStayDead == Spec => DeadStaysDead
<1>1. TokenInv /\ [Next]_vars => [\A f \in Token : Dead(f) => Dead(f)']_vars
  BY DeadStep
<1> QED
  BY <1>1, TokensInvariant, PTL DEF Spec, DeadStaysDead

-----------------------------------------------------------------------------
(* A session whose requests never overlap. *)

FamilyAt(r) == family[presented[r]]

\* It has one request in flight,
Alone ==
    \A r, q \in Request :
        /\ pc[r] # "idle" /\ pc[q] # "idle"
        /\ FamilyAt(r) = FamilyAt(q)
        /\ FamilyAt(r) \notin raced
        => r = q

\* one good token,
OneGood ==
    \A k, l \in Token :
        /\ token[k] = "live" /\ token[l] = "live"
        /\ family[k] = family[l]
        /\ family[k] \notin raced
        => k = l

\* which is the one a rotation that was let through is to spend,
PassedIsLive ==
    \A r \in Request :
        pc[r] \in {"rotate", "rotated"} /\ FamilyAt(r) \notin raced => token[presented[r]] = "live"

\* and which no revocation misses.
AimsAtFamily ==
    \A r \in Request : pc[r] = "revoking" =>
        /\ \A k \in target[r] : family[k] = FamilyAt(r)
        /\ FamilyAt(r) \notin raced =>
              \A k \in Token : token[k] = "live" /\ family[k] = FamilyAt(r) => k \in target[r]

SoloInv == Alone /\ OneGood /\ PassedIsLive /\ AimsAtFamily

\* What all steps but those of the families' tokens leave as it is.
LEMMA SoloKept ==
    ASSUME TokenInv, SoloInv, UNCHANGED <<token, family, presented, raced>>,
           \A r \in Request : pc[r] = "idle" => pc'[r] = "idle",
           \A r \in Request : pc'[r] \in {"rotate", "rotated"} /\ FamilyAt(r) \notin raced =>
               token[presented[r]] = "live",
           \A r \in Request : pc'[r] = "revoking" => pc[r] = "revoking" /\ target'[r] = target[r]
    PROVE  SoloInv'
BY DEF SoloInv, Alone, OneGood, PassedIsLive, AimsAtFamily, FamilyAt

LEMMA LoginSolo ==
    ASSUME TokenInv, SoloInv, NEW r \in Request, Login(r)
    PROVE  SoloInv'
<1>1. PICK k \in Fresh : /\ token' = [token EXCEPT ![k] = "live"]
                         /\ family' = [family EXCEPT ![k] = k]
                         /\ presented' = [presented EXCEPT ![r] = k]
  BY DEF Login
<1>2. k \in Token /\ token[k] = "unissued" /\ family[k] = NoToken
  BY DEF Fresh, TokenInv, TypeOK
<1>3. \A l \in Token : family[l] # k
  BY <1>2, TokensAreNumbers DEF TokenInv, Rooted
<1>4. \A q \in Request \ {r} : pc'[q] # "idle" =>
         /\ presented[q] \in Token /\ presented[q] # k
         /\ pc'[q] = pc[q] /\ presented'[q] = presented[q] /\ family'[presented[q]] = FamilyAt(q)
  BY <1>1, <1>2 DEF Login, Respond, Goto, TokenInv, TypeOK, Presented, FamilyAt
<1>5. pc'[r] = "answered" /\ presented'[r] = k /\ family'[k] = k /\ UNCHANGED <<raced, target>>
  BY <1>1, <1>2 DEF Login, Respond, Goto, TokenInv, TypeOK, historyVars
<1>6. Alone'
  BY <1>3, <1>4, <1>5 DEF SoloInv, Alone, FamilyAt
<1>7. OneGood'
  BY <1>1, <1>2, <1>3, <1>5 DEF SoloInv, OneGood, TokenInv, TypeOK
<1>8. PassedIsLive'
  BY <1>1, <1>2, <1>4, <1>5 DEF SoloInv, PassedIsLive, FamilyAt, TokenInv, TypeOK
<1>9. AimsAtFamily'
  <2>1. \A q \in Request : \A l \in target[q] : l \in Token /\ l # k
    BY <1>2 DEF TokenInv, TypeOK, Targets
  <2> QED
    BY <1>1, <1>2, <1>3, <1>4, <1>5, <2>1 DEF SoloInv, AimsAtFamily, FamilyAt, TokenInv, TypeOK
<1> QED
  BY <1>6, <1>7, <1>8, <1>9 DEF SoloInv

LEMMA SendSolo ==
    ASSUME TokenInv, SoloInv, NEW r \in Request, SendRefresh(r) \/ SendLogout(r)
    PROVE  SoloInv'
<1>1. /\ pc[r] = "idle" /\ pc'[r] \in {"sent", "logout"}
      /\ presented'[r] = cookie /\ cookie \in Token
      /\ UNCHANGED <<token, family, target>>
      /\ \A q \in Request \ {r} : pc'[q] = pc[q] /\ presented'[q] = presented[q]
  BY DEF SendRefresh, SendLogout, Send, Goto, serverVars, TokenInv, TypeOK
<1>2. raced \subseteq raced'
  BY DEF SendRefresh, SendLogout, Send
<1>3. Alone'
  <2>1. family[cookie] \notin raced' =>
            \A q \in Request : pc[q] # "idle" => FamilyAt(q) # family[cookie]
    BY TokensAreNumbers
    DEF SendRefresh, SendLogout, Send, InFlight, FamilyOf, FamilyAt, TokenInv, Presented
  <2> QED
    BY <1>1, <1>2, <2>1 DEF SoloInv, Alone, FamilyAt
<1>4. OneGood' /\ PassedIsLive' /\ AimsAtFamily'
  BY <1>1, <1>2 DEF SoloInv, OneGood, PassedIsLive, AimsAtFamily, FamilyAt
<1> QED
  BY <1>3, <1>4 DEF SoloInv

LEMMA LookupSolo ==
    ASSUME TokenInv, SoloInv, NEW r \in Request, Lookup(r)
    PROVE  SoloInv'
<1>1. UNCHANGED <<token, family, presented, raced, target>> /\ pc[r] = "sent"
  BY DEF Lookup, serverVars
<1>2. \A q \in Request \ {r} : pc'[q] = pc[q]
  BY DEF Lookup, Respond, Goto, TokenInv, TypeOK
<1>3. pc'[r] \notin {"revoking", "rotated"} /\ (pc'[r] = "rotate" => token[presented[r]] = "live")
  BY DEF Lookup, Spent, Respond, Goto, TokenInv, TypeOK, Presented
<1> QED
  BY <1>1, <1>2, <1>3, SoloKept DEF SoloInv, PassedIsLive

LEMMA RotateSolo ==
    ASSUME TokenInv, SoloInv, NEW r \in Request, Rotate(r)
    PROVE  SoloInv'
<1>1. UNCHANGED <<token, family, presented, raced, target>> /\ pc[r] = "rotate"
  BY DEF Rotate, serverVars, historyVars
<1>2. pc' = [pc EXCEPT ![r] = "rotated"]
  BY DEF Rotate, Goto
<1> QED
  BY <1>1, <1>2, SoloKept DEF SoloInv, PassedIsLive, TokenInv, TypeOK

LEMMA CommitRotationSolo ==
    ASSUME TokenInv, SoloInv, NEW r \in Request, CommitRotation(r)
    PROVE  SoloInv'
<1> DEFINE spent == presented[r]
           next  == issued[r]
<1>1. /\ spent \in Token /\ token[spent] # "unissued"
      /\ next \in Token /\ token[next] = "unissued" /\ next # spent
  BY DEF CommitRotation, TokenInv, Presented, Reserved
<1>2. /\ token' = [token EXCEPT ![spent] = "revoked", ![next] = "live"]
      /\ family' = [family EXCEPT ![next] = FamilyAt(r)]
      /\ pc' = [pc EXCEPT ![r] = "answered"] /\ pc[r] = "rotated"
      /\ UNCHANGED <<presented, raced, target>>
  BY DEF CommitRotation, Spends, FamilyOf, FamilyAt, Respond, Goto, historyVars
<1>3. \A q \in Request : pc[q] # "idle" => presented[q] # next /\ FamilyAt(q)' = FamilyAt(q)
  BY <1>1, <1>2 DEF TokenInv, TypeOK, Presented, FamilyAt
<1>4. Alone'
  BY <1>2, <1>3 DEF SoloInv, Alone, TokenInv, TypeOK
<1>5. \A k \in Token : token'[k] = "live" /\ k # next =>
         k # spent /\ token[k] = "live" /\ family'[k] = family[k]
  BY <1>1, <1>2 DEF TokenInv, TypeOK
<1>6. \A k \in Token : token'[k] = "live" /\ k # next /\ FamilyAt(r) \notin raced =>
         family[k] # FamilyAt(r)
  BY <1>1, <1>2, <1>5 DEF SoloInv, OneGood, PassedIsLive, FamilyAt
<1>7. family'[next] = FamilyAt(r)
  BY <1>1, <1>2 DEF TokenInv, TypeOK
<1>8. OneGood'
  <2> SUFFICES ASSUME NEW k \in Token, NEW l \in Token, token'[k] = "live", token'[l] = "live",
                      family'[k] = family'[l], family'[k] \notin raced
               PROVE  k = l
    BY <1>2 DEF OneGood
  <2>1. CASE k = next \/ l = next
    BY <1>5, <1>6, <1>7, <2>1
  <2>2. CASE k # next /\ l # next
    BY <1>5, <2>2 DEF SoloInv, OneGood
  <2> QED
    BY <2>1, <2>2
<1>9. PassedIsLive'
  <2> SUFFICES ASSUME NEW q \in Request, pc'[q] \in {"rotate", "rotated"}, FamilyAt(q)' \notin raced
               PROVE  token'[presented'[q]] = "live"
    BY <1>2 DEF PassedIsLive
  <2>1. q # r /\ pc[q] = pc'[q] /\ pc[q] # "idle"
    BY <1>2 DEF TokenInv, TypeOK
  <2>2. FamilyAt(q) \notin raced /\ presented[q] # next /\ presented[q] \in Token
    BY <1>3, <2>1 DEF TokenInv, Presented
  <2>3. presented[q] # spent
    BY <1>2, <2>1, <2>2 DEF SoloInv, Alone, FamilyAt
  <2> QED
    BY <1>1, <1>2, <2>1, <2>2, <2>3 DEF SoloInv, PassedIsLive, TokenInv, TypeOK
<1>10. AimsAtFamily'
  <2> SUFFICES ASSUME NEW q \in Request, pc'[q] = "revoking"
               PROVE  /\ \A k \in target[q] : family'[k] = FamilyAt(q)'
                      /\ FamilyAt(q)' \notin raced =>
                            \A k \in Token : token'[k] = "live" /\ family'[k] = FamilyAt(q)' =>
                                k \in target[q]
    BY <1>2 DEF AimsAtFamily
  <2>1. q # r /\ pc[q] = "revoking" /\ FamilyAt(q)' = FamilyAt(q)
    BY <1>2, <1>3 DEF TokenInv, TypeOK
  <2>2. \A k \in target[q] : k \in Token /\ k # next /\ family'[k] = family[k]
    BY <1>1, <1>2 DEF TokenInv, TypeOK, Targets
  <2>3. FamilyAt(q) \notin raced => FamilyAt(q) # FamilyAt(r)
    BY <1>2, <2>1 DEF SoloInv, Alone
  <2> QED
    BY <1>5, <1>7, <2>1, <2>2, <2>3 DEF SoloInv, AimsAtFamily
<1> QED
  BY <1>4, <1>8, <1>9, <1>10 DEF SoloInv

LEMMA RevokeSolo ==
    ASSUME TokenInv, SoloInv, NEW r \in Request, BeginRevoke(r) \/ CommitRevoke(r)
    PROVE  SoloInv'
<1>1. CASE BeginRevoke(r)
  <2>1. /\ pc' = [pc EXCEPT ![r] = "revoking"] /\ pc[r] # "idle"
        /\ target' = [target EXCEPT ![r] = Live(FamilyAt(r))]
        /\ UNCHANGED <<token, family, presented, raced>>
    BY <1>1 DEF BeginRevoke, ToRevoke, Goto, serverVars, historyVars, FamilyOf, FamilyAt
  <2>2. Alone' /\ OneGood' /\ PassedIsLive'
    BY <2>1 DEF SoloInv, Alone, OneGood, PassedIsLive, FamilyAt, TokenInv, TypeOK
  <2>3. AimsAtFamily'
    BY <2>1 DEF SoloInv, AimsAtFamily, FamilyAt, Live, TokenInv, TypeOK
  <2> QED
    BY <2>2, <2>3 DEF SoloInv
<1>2. CASE CommitRevoke(r)
  <2>1. /\ pc' = [pc EXCEPT ![r] = "answered"] /\ pc[r] = "revoking"
        /\ target' = [target EXCEPT ![r] = {}]
        /\ token' = [k \in Token |-> IF k \in target[r] THEN "revoked" ELSE token[k]]
        /\ UNCHANGED <<family, presented, raced>>
    BY <1>2 DEF CommitRevoke, Goto
  <2>2. \A k \in Token : token'[k] = "live" => token[k] = "live" /\ k \notin target[r]
    BY <2>1
  <2>3. Alone' /\ OneGood'
    BY <2>1, <2>2 DEF SoloInv, Alone, OneGood, FamilyAt, TokenInv, TypeOK
  <2>4. PassedIsLive'
    <3> SUFFICES ASSUME NEW q \in Request, pc'[q] \in {"rotate", "rotated"}, FamilyAt(q) \notin raced
                 PROVE  token'[presented[q]] = "live"
      BY <2>1 DEF PassedIsLive, FamilyAt
    <3>1. q # r /\ pc[q] = pc'[q] /\ pc[q] # "idle" /\ presented[q] \in Token
      BY <2>1 DEF TokenInv, TypeOK, Presented
    <3>2. FamilyAt(q) # FamilyAt(r)
      BY <2>1, <3>1 DEF SoloInv, Alone
    <3>3. presented[q] \notin target[r]
      BY <2>1, <3>2 DEF SoloInv, AimsAtFamily, FamilyAt
    <3> QED
      BY <2>1, <3>1, <3>3 DEF SoloInv, PassedIsLive, FamilyAt
  <2>5. AimsAtFamily'
    BY <2>1, <2>2 DEF SoloInv, AimsAtFamily, FamilyAt, TokenInv, TypeOK
  <2> QED
    BY <2>3, <2>4, <2>5 DEF SoloInv
<1> QED
  BY <1>1, <1>2

LEMMA FinishSolo ==
    ASSUME TokenInv, SoloInv, NEW r \in Request, Deliver(r) \/ LoseAnswer(r) \/ Abort(r)
    PROVE  SoloInv'
<1>1. /\ pc' = [pc EXCEPT ![r] = "idle"]
      /\ presented' = [presented EXCEPT ![r] = NoToken]
      /\ target' = [target EXCEPT ![r] = {}]
      /\ UNCHANGED <<token, family, raced>>
  BY DEF Deliver, LoseAnswer, Abort, Finish, Goto, serverVars, historyVars
<1> QED
  BY <1>1 DEF SoloInv, Alone, OneGood, PassedIsLive, AimsAtFamily, FamilyAt, TokenInv, TypeOK

LEMMA NextSolo ==
    ASSUME TokenInv, SoloInv, [Next]_vars
    PROVE  SoloInv'
<1>1. ASSUME NEW r \in Request, RequestStep(r) PROVE SoloInv'
  BY <1>1, LoginSolo, SendSolo, LookupSolo, RotateSolo, CommitRotationSolo,
     RevokeSolo, FinishSolo DEF RequestStep
<1>2. ASSUME (\E k \in Token : Expire(k)) \/ UNCHANGED vars PROVE SoloInv'
  BY <1>2 DEF Expire, vars, serverVars, requestVars, historyVars,
     SoloInv, Alone, OneGood, PassedIsLive, AimsAtFamily, FamilyAt
<1> QED
  BY <1>1, <1>2 DEF Next

\* A family that a revocation has closed without a race is dead.
ClosedDead == \A f \in closed \ raced : Dead(f)

LEMMA NextClosed ==
    ASSUME TokenInv, SoloInv, ClosedDead, [Next]_vars
    PROVE  ClosedDead'
<1>1. raced \subseteq raced' /\ closed \subseteq Token
  BY DEF Next, RequestStep, Login, SendRefresh, SendLogout, Send, Lookup, Rotate, CommitRotation,
         BeginRevoke, CommitRevoke, Deliver, LoseAnswer, Abort, Expire, vars, historyVars,
         TokenInv, TypeOK
<1>2. \A f \in closed \ raced : Dead(f)'
  BY <1>1, DeadStep DEF ClosedDead
<1>3. ASSUME NEW r \in Request, CommitRevoke(r), NEW f \in Token, FamilyAt(r) = f, f \notin raced
      PROVE  Dead(f)'
  <2>1. presented[r] \in Token /\ pc[r] = "revoking"
    BY <1>3 DEF CommitRevoke, TokenInv, Presented
  <2>2. TokenInv'
    BY NextTokens
  <2>3. \A k \in Token : family'[k] = f => token'[k] # "live"
    BY <1>3, <2>1 DEF CommitRevoke, SoloInv, AimsAtFamily
  <2>4. \A q \in Request : pc'[q] \in {"rotate", "rotated"} => family'[presented'[q]] # f
    BY <1>3, <2>1 DEF CommitRevoke, Goto, SoloInv, Alone, FamilyAt, TokenInv, TypeOK
  <2>5. \E k \in Token : family'[k] = f
    BY <1>3, <2>1 DEF CommitRevoke, FamilyAt
  <2> QED
    BY <2>2, <2>3, <2>4, <2>5, TokensAreNumbers
    DEF Dead, Live, InFlight, FamilyOf, TokenInv, Presented
<1>4. closed' = closed \/ \E r \in Request : CommitRevoke(r) /\ closed' = closed \cup {FamilyAt(r)}
  BY DEF Next, RequestStep, Login, SendRefresh, SendLogout, Send, Lookup, Rotate, CommitRotation,
         BeginRevoke, CommitRevoke, Deliver, LoseAnswer, Abort, Expire, vars, historyVars,
         FamilyOf, FamilyAt
<1>5. closed' \subseteq Token
  BY NextTokens DEF TokenInv, TypeOK
<1> SUFFICES ASSUME NEW f \in closed' \ raced'
             PROVE  Dead(f)'
  BY DEF ClosedDead
<1> QED
  BY <1>1, <1>2, <1>3, <1>4, <1>5

SessionInv == TokenInv /\ SoloInv /\ ClosedDead

LEMMA SessionInvariant == Spec => []SessionInv
<1>1. Init => SessionInv
  BY InitTokens, TokensAreNumbers
  DEF Init, SessionInv, SoloInv, Alone, OneGood, PassedIsLive, AimsAtFamily, ClosedDead
<1>2. SessionInv /\ [Next]_vars => SessionInv'
  BY NextTokens, NextSolo, NextClosed DEF SessionInv
<1> QED
  BY <1>1, <1>2, PTL DEF Spec

\* After a logout or a detected reuse no token of the session is good, unless
\* two of its requests have overlapped (token_service.revoke_family).
THEOREM ClosedSessionsAreDead == Spec => []ClosedIsDead
<1>1. SessionInv => ClosedIsDead
  BY DEF SessionInv, ClosedDead, ClosedIsDead, Dead
<1> QED
  BY <1>1, SessionInvariant, PTL

\* A session that never had two requests in flight at one time has at most one
\* good token (token_service.rotate).
THEOREM OneTokenIsLive == Spec => []OneLiveToken
<1>1. SessionInv => OneLiveToken
  <2> SUFFICES ASSUME SessionInv, NEW f \in Token \ raced
               PROVE  Cardinality(Live(f)) <= 1
    BY DEF OneLiveToken
  <2>1. \A k, l \in Live(f) : k = l
    BY DEF SessionInv, SoloInv, OneGood, Live
  <2>2. CASE Live(f) = {}
    BY <2>2, FS_EmptySet
  <2>3. CASE Live(f) # {}
    <3>1. PICK k \in Live(f) : Live(f) = {k}
      BY <2>1, <2>3
    <3>2. Cardinality({k}) = 1
      BY FS_Singleton
    <3> QED
      BY <3>1, <3>2
  <2> QED
    BY <2>2, <2>3
<1> QED
  BY <1>1, SessionInvariant, PTL

-----------------------------------------------------------------------------
(* The reuse alarm. *)

\* A session whose requests did not overlap and whose answers all arrived.
Clean(f) == f \notin raced \cup lost

\* What it has sent is good until the request's own commit,
SentLive ==
    \A r \in Request :
        pc[r] \in {"sent", "rotate", "rotated", "logout", "revoking"} /\ Clean(FamilyAt(r)) =>
            token[presented[r]] = "live"

\* what it is about to be given is good,
AnswerLive ==
    \A r \in Request : pc[r] = "answered" /\ answer[r] = "set" =>
        /\ family[issued[r]] = FamilyAt(r)
        /\ Clean(FamilyAt(r)) => token[issued[r]] = "live"

\* what it holds is good, or an answer is on its way that replaces it.
JarLive ==
    cookie # NoToken /\ Clean(family[cookie]) =>
        \/ token[cookie] = "live"
        \/ \E r \in Request : /\ pc[r] = "answered" /\ answer[r] # "keep"
                              /\ FamilyAt(r) = family[cookie]

\* It is revoked by a logout alone.
RevokedByLogout ==
    \A r \in Request :
        /\ pc[r] = "revoking" => answer[r] # "set"
        /\ Clean(FamilyAt(r)) => /\ pc[r] # "reuse"
                                 /\ pc[r] = "revoking" => answer[r] = "clear"

GoodInv == SentLive /\ AnswerLive /\ JarLive /\ RevokedByLogout /\ NoFalseAlarm

LEMMA LoginGood ==
    ASSUME SessionInv, GoodInv, NEW r \in Request, Login(r)
    PROVE  GoodInv'
<1> USE DEF SessionInv, TokenInv, TypeOK, FamilyAt, Clean
<1>1. PICK k \in Fresh : /\ token' = [token EXCEPT ![k] = "live"]
                         /\ family' = [family EXCEPT ![k] = k]
                         /\ issued' = [issued EXCEPT ![r] = k]
                         /\ presented' = [presented EXCEPT ![r] = k]
  BY DEF Login
<1>2. /\ k \in Token /\ token[k] = "unissued" /\ family[k] = NoToken
      /\ pc[r] = "idle" /\ pc' = [pc EXCEPT ![r] = "answered"]
      /\ answer' = [answer EXCEPT ![r] = "set"]
      /\ UNCHANGED <<cookie, raced, lost, alarmed>>
  BY <1>1 DEF Fresh, Login, Respond, Goto, historyVars
<1>3. \A q \in Request \ {r} :
          /\ pc'[q] = pc[q] /\ answer'[q] = answer[q]
          /\ issued'[q] = issued[q] /\ presented'[q] = presented[q]
          /\ pc[q] # "idle" => /\ presented[q] \in Token /\ presented[q] # k
                               /\ FamilyAt(q)' = FamilyAt(q)
                               /\ token'[presented[q]] = token[presented[q]]
  BY <1>1, <1>2 DEF Presented
<1>4. /\ pc'[r] = "answered" /\ answer'[r] = "set" /\ issued'[r] = k /\ presented'[r] = k
      /\ token'[k] = "live" /\ family'[k] = k
  BY <1>1, <1>2
<1>5. SentLive'
  BY <1>2, <1>3, <1>4 DEF GoodInv, SentLive
<1>6. AnswerLive'
  <2>1. \A q \in Request \ {r} : pc[q] = "answered" /\ answer[q] = "set" =>
            issued[q] \in Token /\ issued[q] # k
    BY <1>2 DEF JarIssued
  <2> QED
    BY <1>1, <1>2, <1>3, <1>4, <2>1 DEF GoodInv, AnswerLive
<1>7. JarLive'
  <2> SUFFICES ASSUME cookie # NoToken, Clean(family[cookie]')
               PROVE  \/ token'[cookie] = "live"
                      \/ \E q \in Request : /\ pc'[q] = "answered" /\ answer'[q] # "keep"
                                            /\ FamilyAt(q)' = family'[cookie]
    BY <1>2 DEF JarLive
  <2>1. cookie \in Token /\ cookie # k /\ token'[cookie] = token[cookie]
        /\ family'[cookie] = family[cookie]
    BY <1>1, <1>2 DEF JarIssued
  <2>2. CASE token[cookie] = "live"
    BY <2>1, <2>2
  <2>3. ASSUME NEW q \in Request, pc[q] = "answered", answer[q] # "keep",
               FamilyAt(q) = family[cookie]
        PROVE  /\ pc'[q] = "answered" /\ answer'[q] # "keep"
               /\ FamilyAt(q)' = family'[cookie]
    <3>1. q # r
      BY <1>2, <2>3
    <3> QED
      BY <1>3, <2>1, <2>3, <3>1
  <2>4. token[cookie] = "live" \/ \E q \in Request : /\ pc[q] = "answered" /\ answer[q] # "keep"
                                                     /\ FamilyAt(q) = family[cookie]
    BY <1>2, <2>1 DEF GoodInv, JarLive
  <2> QED
    BY <2>2, <2>3, <2>4
<1>8. RevokedByLogout'
  BY <1>2, <1>3, <1>4 DEF GoodInv, RevokedByLogout
<1> QED
  BY <1>2, <1>5, <1>6, <1>7, <1>8 DEF GoodInv, NoFalseAlarm

LEMMA SendGood ==
    ASSUME SessionInv, GoodInv, NEW r \in Request, SendRefresh(r) \/ SendLogout(r)
    PROVE  GoodInv'
<1> USE DEF SessionInv, TokenInv, TypeOK, FamilyAt, Clean
<1>1. /\ pc[r] = "idle" /\ pc'[r] \in {"sent", "logout"}
      /\ presented'[r] = cookie /\ cookie \in Token
      /\ UNCHANGED <<token, family, issued, answer, cookie, lost, alarmed>>
      /\ \A q \in Request \ {r} : pc'[q] = pc[q] /\ presented'[q] = presented[q]
      /\ raced \subseteq raced'
  BY DEF SendRefresh, SendLogout, Send, Goto, serverVars
<1>2. family[cookie] \notin raced' =>
          \A q \in Request : pc[q] # "idle" => FamilyAt(q) # family[cookie]
  BY TokensAreNumbers
  DEF SendRefresh, SendLogout, Send, InFlight, FamilyOf, Presented
<1>3. SentLive'
  BY <1>1, <1>2, TokensAreNumbers DEF GoodInv, SentLive, JarLive
<1>4. AnswerLive' /\ RevokedByLogout'
  BY <1>1 DEF GoodInv, AnswerLive, RevokedByLogout
<1>5. JarLive'
  BY <1>1, <1>2 DEF GoodInv, JarLive
<1> QED
  BY <1>1, <1>3, <1>4, <1>5 DEF GoodInv, NoFalseAlarm

LEMMA LookupGood ==
    ASSUME SessionInv, GoodInv, NEW r \in Request, Lookup(r)
    PROVE  GoodInv'
<1> USE DEF SessionInv, TokenInv, TypeOK, FamilyAt, Clean
<1>1. /\ UNCHANGED <<token, family, presented, issued, cookie, raced, lost>> /\ pc[r] = "sent"
      /\ \A q \in Request \ {r} : pc'[q] = pc[q] /\ answer'[q] = answer[q]
  BY DEF Lookup, Respond, Goto, serverVars
<1>2. /\ pc'[r] = "reuse" => token[presented[r]] = "revoked"
      /\ pc'[r] \in {"reuse", "answered", "rotate"}
      /\ pc'[r] = "answered" => answer'[r] = "keep"
  BY DEF Lookup, Spent, Respond, Goto
<1>3. Clean(FamilyAt(r)) => token[presented[r]] = "live"
  BY <1>1 DEF GoodInv, SentLive
<1>4. SentLive' /\ AnswerLive' /\ RevokedByLogout'
  BY <1>1, <1>2, <1>3 DEF GoodInv, SentLive, AnswerLive, RevokedByLogout
<1>5. JarLive'
  BY <1>1 DEF GoodInv, JarLive
<1>6. NoFalseAlarm'
  <2>1. alarmed' = alarmed \/ (token[presented[r]] = "revoked" /\ alarmed' = alarmed \cup {FamilyAt(r)})
    BY DEF Lookup, Spent
  <2> QED
    BY <1>1, <1>3, <2>1 DEF GoodInv, NoFalseAlarm
<1> QED
  BY <1>4, <1>5, <1>6 DEF GoodInv

LEMMA RotateGood ==
    ASSUME SessionInv, GoodInv, NEW r \in Request, Rotate(r)
    PROVE  GoodInv'
<1> USE DEF SessionInv, TokenInv, TypeOK, FamilyAt, Clean
<1>1. /\ UNCHANGED <<token, family, presented, cookie, answer, raced, lost, alarmed>>
      /\ pc[r] = "rotate" /\ pc' = [pc EXCEPT ![r] = "rotated"]
      /\ \A q \in Request \ {r} : issued'[q] = issued[q]
  BY DEF Rotate, Goto, serverVars, historyVars
<1> QED
  BY <1>1 DEF GoodInv, SentLive, AnswerLive, JarLive, RevokedByLogout, NoFalseAlarm

LEMMA CommitRotationGood ==
    ASSUME SessionInv, GoodInv, NEW r \in Request, CommitRotation(r)
    PROVE  GoodInv'
<1> USE DEF SessionInv, TokenInv, TypeOK, FamilyAt, Clean
<1> DEFINE spent == presented[r]
           next  == issued[r]
<1>1. /\ spent \in Token /\ token[spent] # "unissued"
      /\ next \in Token /\ token[next] = "unissued" /\ next # spent
  BY DEF CommitRotation, Presented, Reserved
<1>2. /\ token' = [token EXCEPT ![spent] = "revoked", ![next] = "live"]
      /\ family' = [family EXCEPT ![next] = FamilyAt(r)]
      /\ pc[r] = "rotated" /\ pc' = [pc EXCEPT ![r] = "answered"]
      /\ answer' = [answer EXCEPT ![r] = "set"]
      /\ UNCHANGED <<presented, issued, cookie, raced, lost, alarmed>>
  BY DEF CommitRotation, Spends, FamilyOf, Respond, Goto, historyVars
<1>3. \A k \in Token : k # next /\ k # spent =>
          token'[k] = token[k] /\ family'[k] = family[k]
  BY <1>1, <1>2
<1>4. /\ token'[next] = "live" /\ family'[next] = FamilyAt(r)
      /\ family'[spent] = FamilyAt(r)
      /\ pc'[r] = "answered" /\ answer'[r] = "set"
      /\ \A q \in Request \ {r} : pc'[q] = pc[q] /\ answer'[q] = answer[q]
  BY <1>1, <1>2
<1>5. \A q \in Request \ {r} : pc[q] # "idle" =>
          /\ presented[q] \in Token /\ presented[q] # next
          /\ FamilyAt(q)' = FamilyAt(q)
          /\ FamilyAt(q) \notin raced => FamilyAt(q) # FamilyAt(r) /\ presented[q] # spent
  BY <1>1, <1>2 DEF Presented, SoloInv, Alone
<1>6. SentLive'
  BY <1>2, <1>3, <1>4, <1>5 DEF GoodInv, SentLive
<1>7. AnswerLive'
  <2>1. ASSUME NEW q \in Request, q # r, pc[q] = "answered", answer[q] = "set"
        PROVE  /\ family'[issued[q]] = FamilyAt(q)'
               /\ Clean(FamilyAt(q)) => token'[issued[q]] = "live"
    <3>1. issued[q] \in Token /\ issued[q] # next /\ family[issued[q]] = FamilyAt(q)
      BY <1>1, <2>1 DEF JarIssued, GoodInv, AnswerLive
    <3>2. family'[issued[q]] = FamilyAt(q)'
      BY <1>1, <1>2, <1>5, <2>1, <3>1
    <3>3. Clean(FamilyAt(q)) => issued[q] # spent
      BY <1>5, <2>1, <3>1
    <3> QED
      BY <1>3, <2>1, <3>1, <3>2, <3>3 DEF GoodInv, AnswerLive
  <2>2. FamilyAt(r)' = FamilyAt(r) /\ issued'[r] = next
    BY <1>1, <1>2
  <2> SUFFICES ASSUME NEW q \in Request, pc'[q] = "answered", answer'[q] = "set"
               PROVE  /\ family'[issued'[q]] = FamilyAt(q)'
                      /\ Clean(FamilyAt(q))' => token'[issued'[q]] = "live"
    BY DEF AnswerLive
  <2>3. CASE q = r
    BY <1>4, <2>2, <2>3
  <2>4. CASE q # r
    <3>1. pc[q] = "answered" /\ answer[q] = "set" /\ issued'[q] = issued[q]
      BY <1>2, <1>4, <2>4
    <3>2. FamilyAt(q)' = FamilyAt(q)
      BY <1>5, <2>4, <3>1
    <3>3. Clean(FamilyAt(q))' => Clean(FamilyAt(q))
      BY <1>2, <3>2
    <3> HIDE DEF FamilyAt, Clean
    <3> QED
      BY <2>1, <2>4, <3>1, <3>2, <3>3
  <2> QED
    BY <2>3, <2>4
<1>8. JarLive'
  <2> SUFFICES ASSUME cookie # NoToken, Clean(family'[cookie])
               PROVE  \/ token'[cookie] = "live"
                      \/ \E q \in Request : /\ pc'[q] = "answered" /\ answer'[q] # "keep"
                                            /\ FamilyAt(q)' = family'[cookie]
    BY <1>2 DEF JarLive
  <2>1. cookie \in Token /\ cookie # next /\ family'[cookie] = family[cookie]
    BY <1>1, <1>2 DEF JarIssued
  <2>2. CASE cookie = spent
    BY <1>4, <1>2, <2>2
  <2>3. CASE token[cookie] = "live" /\ cookie # spent
    BY <1>3, <2>1, <2>3
  <2>4. ASSUME NEW q \in Request, pc[q] = "answered", answer[q] # "keep",
               FamilyAt(q) = family[cookie]
        PROVE  /\ pc'[q] = "answered" /\ answer'[q] # "keep"
               /\ FamilyAt(q)' = family'[cookie]
    <3>1. q # r
      BY <1>2, <2>4
    <3> QED
      BY <1>4, <1>5, <2>1, <2>4, <3>1
  <2>5. token[cookie] = "live" \/ \E q \in Request : /\ pc[q] = "answered" /\ answer[q] # "keep"
                                                     /\ FamilyAt(q) = family[cookie]
    BY <1>2, <2>1 DEF GoodInv, JarLive
  <2> QED
    BY <2>2, <2>3, <2>4, <2>5
<1>9. RevokedByLogout'
  <2> SUFFICES ASSUME NEW q \in Request, q # r, pc[q] \in {"reuse", "revoking"}, Clean(FamilyAt(q)')
               PROVE  pc[q] # "reuse" /\ answer[q] = "clear"
    BY <1>2, <1>4 DEF GoodInv, RevokedByLogout
  <2> QED
    BY <1>5 DEF GoodInv, RevokedByLogout
<1> QED
  BY <1>2, <1>6, <1>7, <1>8, <1>9 DEF GoodInv, NoFalseAlarm

LEMMA RevokeGood ==
    ASSUME SessionInv, GoodInv, NEW r \in Request, BeginRevoke(r) \/ CommitRevoke(r)
    PROVE  GoodInv'
<1> USE DEF SessionInv, TokenInv, TypeOK, FamilyAt, Clean
<1>1. CASE BeginRevoke(r)
  <2>1. /\ UNCHANGED <<token, family, presented, issued, cookie, raced, lost, alarmed>>
        /\ pc[r] \in {"reuse", "logout"} /\ pc' = [pc EXCEPT ![r] = "revoking"]
        /\ answer' = [answer EXCEPT ![r] = IF pc[r] = "logout" THEN "clear" ELSE "keep"]
    BY <1>1 DEF BeginRevoke, Goto, serverVars, historyVars
  <2>2. SentLive' /\ AnswerLive' /\ RevokedByLogout'
    BY <2>1 DEF GoodInv, SentLive, AnswerLive, RevokedByLogout
  <2>3. JarLive'
    BY <2>1 DEF GoodInv, JarLive
  <2> QED
    BY <2>1, <2>2, <2>3 DEF GoodInv, NoFalseAlarm
<1>2. CASE CommitRevoke(r)
  <2>1. /\ UNCHANGED <<family, presented, issued, cookie, answer, raced, lost, alarmed>>
        /\ pc[r] = "revoking" /\ pc' = [pc EXCEPT ![r] = "answered"]
        /\ token' = [k \in Token |-> IF k \in target[r] THEN "revoked" ELSE token[k]]
    BY <1>2 DEF CommitRevoke, Goto
  <2>2. \A k \in Token : family[k] # FamilyAt(r) => token'[k] = token[k]
    BY <2>1 DEF SoloInv, AimsAtFamily
  <2>3. \A q \in Request \ {r} : pc[q] # "idle" /\ FamilyAt(q) \notin raced =>
            presented[q] \in Token /\ FamilyAt(q) # FamilyAt(r)
    BY <2>1 DEF SoloInv, Alone, Presented
  <2>4. Clean(FamilyAt(r)) => answer[r] = "clear"
    BY <2>1 DEF GoodInv, RevokedByLogout
  <2>5. SentLive'
    BY <2>1, <2>2, <2>3 DEF GoodInv, SentLive
  <2>6. \A q \in Request \ {r} : pc[q] = "answered" /\ answer[q] = "set" =>
            /\ issued[q] \in Token /\ family[issued[q]] = FamilyAt(q)
            /\ Clean(FamilyAt(q)) => token'[issued[q]] = "live"
    BY <2>2, <2>3 DEF GoodInv, AnswerLive, JarIssued
  <2>7. AnswerLive'
    <3>1. answer[r] # "set"
      BY <2>1 DEF GoodInv, RevokedByLogout
    <3> QED
      BY <2>1, <2>6, <3>1 DEF AnswerLive
  <2>8. JarLive'
    <3> SUFFICES ASSUME cookie # NoToken, Clean(family[cookie])
                 PROVE  \/ token'[cookie] = "live"
                        \/ \E q \in Request : /\ pc'[q] = "answered" /\ answer[q] # "keep"
                                              /\ FamilyAt(q) = family[cookie]
      BY <2>1 DEF JarLive
    <3>1. CASE family[cookie] = FamilyAt(r)
      BY <2>1, <2>4, <3>1
    <3>2. CASE family[cookie] # FamilyAt(r)
      BY <2>1, <2>2, <3>2 DEF GoodInv, JarLive
    <3> QED
      BY <3>1, <3>2
  <2>9. RevokedByLogout'
    BY <2>1 DEF GoodInv, RevokedByLogout
  <2> QED
    BY <2>1, <2>5, <2>7, <2>8, <2>9 DEF GoodInv, NoFalseAlarm
<1> QED
  BY <1>1, <1>2

LEMMA FinishGood ==
    ASSUME SessionInv, GoodInv, NEW r \in Request, Deliver(r) \/ LoseAnswer(r) \/ Abort(r)
    PROVE  GoodInv'
<1> USE DEF SessionInv, TokenInv, TypeOK, FamilyAt, Clean
<1>1. /\ pc' = [pc EXCEPT ![r] = "idle"]
      /\ presented' = [presented EXCEPT ![r] = NoToken]
      /\ issued' = [issued EXCEPT ![r] = NoToken]
      /\ answer' = [answer EXCEPT ![r] = "keep"]
      /\ UNCHANGED <<token, family, raced, alarmed>> /\ lost \subseteq lost'
  BY DEF Deliver, LoseAnswer, Abort, Finish, Goto, serverVars, historyVars
<1>2. SentLive' /\ AnswerLive'
  BY <1>1 DEF GoodInv, SentLive, AnswerLive
<1>3. RevokedByLogout'
  BY <1>1 DEF GoodInv, RevokedByLogout
<1>4. CASE Deliver(r)
  <2>1. pc[r] = "answered" /\ lost' = lost
        /\ cookie' = CASE answer[r] = "set"   -> issued[r]
                       [] answer[r] = "clear" -> NoToken
                       [] answer[r] = "keep"  -> cookie
    BY <1>4 DEF Deliver, historyVars
  <2>2. ASSUME answer[r] = "set" PROVE JarLive'
    <3>1. cookie' = issued[r] /\ issued[r] \in Token
      BY <2>1, <2>2 DEF JarIssued
    <3>2. /\ family[issued[r]] = FamilyAt(r)
          /\ Clean(FamilyAt(r)) => token[issued[r]] = "live"
      BY <2>1, <2>2 DEF GoodInv, AnswerLive
    <3>3. (Clean(family[cookie]))' => Clean(FamilyAt(r)) /\ token'[cookie'] = "live"
      BY <1>1, <2>1, <3>1, <3>2
    <3> QED
      BY <3>3 DEF JarLive
  <2>3. ASSUME answer[r] = "clear" PROVE JarLive'
    <3>1. cookie' = NoToken
      BY <2>1, <2>3
    <3> QED
      BY <3>1 DEF JarLive
  <2>4. ASSUME answer[r] = "keep" PROVE JarLive'
    <3>1. cookie' = cookie
      BY <2>1, <2>4
    <3> SUFFICES ASSUME cookie # NoToken, Clean(family[cookie])
                 PROVE  \/ token[cookie] = "live"
                        \/ \E q \in Request : /\ pc'[q] = "answered" /\ answer'[q] # "keep"
                                              /\ FamilyAt(q)' = family[cookie]
      BY <1>1, <2>1, <3>1 DEF JarLive
    <3>2. ASSUME NEW q \in Request, pc[q] = "answered", answer[q] # "keep",
                 FamilyAt(q) = family[cookie]
          PROVE  /\ pc'[q] = "answered" /\ answer'[q] # "keep"
                 /\ FamilyAt(q)' = family[cookie]
      BY <1>1, <2>4, <3>2
    <3> QED
      BY <3>2 DEF GoodInv, JarLive
  <2>5. answer[r] \in {"set", "clear", "keep"}
    OBVIOUS
  <2>6. JarLive'
    BY <2>2, <2>3, <2>4, <2>5
  <2> QED
    BY <1>1, <1>2, <1>3, <2>1, <2>6 DEF GoodInv, NoFalseAlarm
<1>5. CASE LoseAnswer(r)
  <2>1. cookie' = cookie /\ lost' = lost \cup {FamilyAt(r)}
    BY <1>5 DEF LoseAnswer, FamilyOf
  <2>2. JarLive'
    BY <1>1, <2>1 DEF GoodInv, JarLive
  <2> QED
    BY <1>1, <1>2, <1>3, <2>1, <2>2 DEF GoodInv, NoFalseAlarm
<1>6. CASE Abort(r)
  <2>1. cookie' = cookie /\ lost' = lost /\ pc[r] # "answered"
    BY <1>6 DEF Abort, historyVars
  <2>2. JarLive'
    BY <1>1, <2>1 DEF GoodInv, JarLive
  <2> QED
    BY <1>1, <1>2, <1>3, <2>1, <2>2 DEF GoodInv, NoFalseAlarm
<1> QED
  BY <1>4, <1>5, <1>6

LEMMA NextGood ==
    ASSUME SessionInv, GoodInv, [Next]_vars
    PROVE  GoodInv'
<1>1. ASSUME NEW r \in Request, RequestStep(r) PROVE GoodInv'
  BY <1>1, LoginGood, SendGood, LookupGood, RotateGood, CommitRotationGood,
     RevokeGood, FinishGood DEF RequestStep
<1>2. ASSUME (\E k \in Token : Expire(k)) \/ UNCHANGED vars PROVE GoodInv'
  BY <1>2 DEF Expire, vars, serverVars, requestVars, historyVars, GoodInv, SentLive,
     AnswerLive, JarLive, RevokedByLogout, NoFalseAlarm, Clean, FamilyAt
<1> QED
  BY <1>1, <1>2 DEF Next

LEMMA GoodInvariant == Spec => []GoodInv
<1>1. Init => GoodInv
  BY DEF Init, GoodInv, SentLive, AnswerLive, JarLive, RevokedByLogout, NoFalseAlarm
<1>2. SessionInv /\ GoodInv /\ [Next]_vars => GoodInv'
  BY NextGood
<1> QED
  BY SessionInvariant, <1>1, <1>2, PTL DEF Spec

\* A browser that gets its answers and sends one request of a session at a time
\* never presents a spent token (token_service.rotate).
THEOREM NoAlarmIsFalse == Spec => []NoFalseAlarm
<1>1. GoodInv => NoFalseAlarm
  BY DEF GoodInv
<1> QED
  BY GoodInvariant, <1>1, PTL

-----------------------------------------------------------------------------
(* The browser. *)

LEMMA RefreshKeepsTokens ==
    ASSUME NEW t \in Tab, NEW from, NEW place, Refresh(t, from, place)
    PROVE  [Next]_vars
BY DEF Refresh, StartRefresh, Next, RequestStep

LEMMA TabKeepsTokens ==
    ASSUME NEW t \in Tab, TabStep(t)
    PROVE  [Next]_vars
BY DEF TabStep, RefreshAnswered, RefreshLost, RefreshUnsent, RefreshTimesOut, Tick,
       SignIn, SignOut, SigningAnswered, SigningLost, Reload, Next, RequestStep

LEMMA CallKeepsTokens ==
    ASSUME NEW t \in Tab, CallStep(t)
    PROVE  [Next]_vars
<1>1. CASE Resume(t) \/ HandleRefusal(t)
  BY <1>1, RefreshKeepsTokens DEF Resume, HandleRefusal
<1>2. CASE OpenStream(t)
  BY <1>2, RefreshKeepsTokens DEF OpenStream
<1>3. CASE Fetch(t) \/ Answer(t)
  BY <1>3 DEF Fetch, Answer
<1> QED
  BY <1>1, <1>2, <1>3 DEF CallStep

LEMMA BrowserStepKeepsTokens == [BrowserNext]_allVars => [Next]_vars
<1>1. ASSUME NEW r \in Request, ServerStep(r) \/ Unheard(r) PROVE [Next]_vars
  BY <1>1 DEF ServerStep, Unheard, Next, RequestStep
<1>2. ASSUME NEW k \in Token, RefreshExpires(k) PROVE [Next]_vars
  BY <1>2 DEF RefreshExpires, Next
<1>3. UNCHANGED allVars => UNCHANGED vars
  BY DEF allVars
<1> QED
  BY <1>1, <1>2, <1>3, TabKeepsTokens, CallKeepsTokens DEF BrowserNext

\* Whatever the tabs of a browser do, the tokens see nothing but the requests of
\* TokenFamilies: what holds of those holds of this browser (lib/api.ts).
THEOREM BrowserKeepsTokens == BrowserSpec => Spec
<1>1. BrowserInit => Init
  BY DEF BrowserInit
<1> QED
  BY <1>1, BrowserStepKeepsTokens, PTL DEF BrowserSpec, Spec

LEMMA GoesOnPlace ==
    ASSUME NEW place, NEW ok \in BOOLEAN
    PROVE  GoesOn(place, ok) \in CallPlace
BY DEF GoesOn, CallPlace, Flying

LEMMA MoveTypes ==
    ASSUME BrowserTypeOK, NEW t \in Tab, NEW from \in CallPlace, NEW to \in CallPlace,
           Move(t, from, to)
    PROVE  calls' \in [Tab -> [CallPlace -> Nat]]
<1>1. calls[t] \in [CallPlace -> Nat] /\ calls[t][from] > 0
  BY DEF BrowserTypeOK, Move
<1>2. [calls[t] EXCEPT ![from] = @ - 1] \in [CallPlace -> Nat]
  BY <1>1
<1>3. [[calls[t] EXCEPT ![from] = @ - 1] EXCEPT ![to] = @ + 1] \in [CallPlace -> Nat]
  BY <1>2
<1>4. calls' = [calls EXCEPT ![t] = [[calls[t] EXCEPT ![from] = @ - 1] EXCEPT ![to] = @ + 1]]
  BY DEF Move, BrowserTypeOK
<1> QED
  BY <1>3, <1>4 DEF BrowserTypeOK

LEMMA WokenTypes ==
    ASSUME NEW n \in [CallPlace -> Nat], NEW ok
    PROVE  Woken(n, ok) \in [CallPlace -> Nat]
BY DEF Woken, CallPlace, Awaiting

LEMMA SettleTypes ==
    ASSUME BrowserTypeOK, TypeOK', NEW t \in Tab, NEW ok, NEW granted \in BOOLEAN,
           Settle(t, ok, granted), left' \subseteq Token
    PROVE  BrowserTypeOK'
<1>1. /\ shared' = [shared EXCEPT ![t] = IF ok THEN "true" ELSE "false"]
      /\ awaited' = [awaited EXCEPT ![t] = NoRequest]
      /\ access' = [access EXCEPT ![t] = granted]
      /\ UNCHANGED <<signing, out>>
  BY DEF Settle
<1>2. calls' \in [Tab -> [CallPlace -> Nat]]
  BY WokenTypes DEF Settle, BrowserTypeOK
<1> QED
  BY <1>1, <1>2 DEF BrowserTypeOK

LEMMA RefreshTypes ==
    ASSUME BrowserTypeOK, NEW t \in Tab, NEW from \in CallPlace, NEW place \in Awaiting,
           Refresh(t, from, place)
    PROVE  /\ shared' \in [Tab -> {"none", "pending", "true", "false"}]
           /\ awaited' \in [Tab -> Request \cup {NoRequest}]
           /\ calls' \in [Tab -> [CallPlace -> Nat]]
<1>1. place \in CallPlace /\ GoesOn(place, shared[t] = "true") \in CallPlace
  BY GoesOnPlace DEF CallPlace
<1>2. calls' \in [Tab -> [CallPlace -> Nat]]
  BY <1>1, MoveTypes DEF Refresh
<1> QED
  BY <1>2 DEF Refresh, StartRefresh, BrowserTypeOK

\* A request that a tab waits for is in flight, and is no other tab's.
Held ==
    \A t \in Tab :
        /\ awaited[t] # NoRequest =>
              /\ pc[awaited[t]] # "idle"
              /\ \A u \in Tab : signing[u] # awaited[t] /\ (u # t => awaited[u] # awaited[t])
        /\ signing[t] # NoRequest =>
              /\ pc[signing[t]] # "idle"
              /\ \A u \in Tab \ {t} : signing[u] # signing[t]

TabInv == BrowserTypeOK /\ Held

LEMMA TabTypes ==
    ASSUME TabInv, SessionInv, TypeOK', NEW t \in Tab, TabStep(t)
    PROVE  BrowserTypeOK'
<1> USE DEF SessionInv, TokenInv, TabInv
<1>1. \A r \in Request : pc[r] # "idle" => FamilyOf(r) \in Token
  BY DEF Presented, FamilyOf, TypeOK
<1>2. CASE RefreshAnswered(t)
  <2>1. PICK r \in Request : /\ pc[r] = "answered" /\ UNCHANGED left
                             /\ Settle(t, answer[r] = "set", answer[r] = "set" \/ access[t])
    BY <1>2 DEF RefreshAnswered, Deliver
  <2>2. (answer[r] = "set" \/ access[t]) \in BOOLEAN
    BY DEF BrowserTypeOK
  <2> QED
    BY <2>1, <2>2, SettleTypes DEF BrowserTypeOK
<1>3. CASE RefreshLost(t) \/ RefreshUnsent(t)
  BY <1>3, SettleTypes DEF RefreshLost, RefreshUnsent, BrowserTypeOK
<1>4. CASE RefreshTimesOut(t)
  <2>1. awaited[t] \in Request /\ pc[awaited[t]] # "idle"
    BY <1>4 DEF RefreshTimesOut, BrowserTypeOK, Held
  <2>2. left' \subseteq Token
    BY <1>1, <1>4, <2>1 DEF RefreshTimesOut, BrowserTypeOK
  <2> QED
    BY <1>4, <2>2, SettleTypes DEF RefreshTimesOut, BrowserTypeOK
<1>5. CASE Tick(t)
  BY <1>5 DEF Tick, BrowserTypeOK
<1>6. CASE SignIn(t)
  BY <1>6 DEF SignIn, BrowserTypeOK
<1>7. CASE SignOut(t)
  <2>1. left' \subseteq Token
    BY <1>7 DEF SignOut, SendLogout, Send, BrowserTypeOK, TypeOK, JarIssued
  <2>2. /\ signing' \in [Tab -> Request \cup {NoRequest}]
        /\ access' \in [Tab -> BOOLEAN]
        /\ UNCHANGED <<shared, awaited, calls, out>>
    BY <1>7 DEF SignOut, BrowserTypeOK
  <2> QED
    BY <2>1, <2>2 DEF BrowserTypeOK
<1>8. CASE SigningAnswered(t)
  BY <1>8 DEF SigningAnswered, AfterSignOut, Deliver, BrowserTypeOK, JarIssued
<1>9. CASE SigningLost(t)
  BY <1>9 DEF SigningLost, AfterSignOut, BrowserTypeOK
<1>10. CASE Reload(t)
  <2>1. \A r \in {awaited[t], signing[t]} \ {NoRequest} : r \in Request /\ pc[r] # "idle"
    BY DEF BrowserTypeOK, Held
  <2>2. left' \subseteq Token
    BY <1>1, <1>10, <2>1 DEF Reload, BrowserTypeOK
  <2>3. calls' \in [Tab -> [CallPlace -> Nat]]
    BY <1>10, BrowserAssumption DEF Reload, AllOver, BrowserTypeOK
  <2> QED
    BY <1>10, <2>2, <2>3 DEF Reload, BrowserTypeOK
<1> QED
  BY <1>2, <1>3, <1>4, <1>5, <1>6, <1>7, <1>8, <1>9, <1>10 DEF TabStep

LEMMA CallTypes ==
    ASSUME TabInv, TypeOK', NEW t \in Tab, CallStep(t)
    PROVE  BrowserTypeOK'
<1> USE DEF TabInv
<1>1. {"over", "sent", "bare", "last"} \cup Awaiting \cup Flying \subseteq CallPlace
  BY DEF CallPlace, Flying
<1>2. CASE Fetch(t)
  <2>1. calls' \in [Tab -> [CallPlace -> Nat]]
    BY <1>1, <1>2, MoveTypes DEF Fetch
  <2> QED
    BY <1>2, <2>1 DEF Fetch, BrowserTypeOK
<1>3. CASE Answer(t)
  <2>1. calls' \in [Tab -> [CallPlace -> Nat]]
    BY <1>1, <1>3, MoveTypes DEF Answer
  <2> QED
    BY <1>3, <2>1 DEF Answer, BrowserTypeOK
<1>4. CASE Resume(t) \/ HandleRefusal(t)
  <2>1. \E from \in CallPlace, place \in Awaiting : Refresh(t, from, place)
    BY <1>1, <1>4 DEF Resume, HandleRefusal, Awaiting
  <2> QED
    BY <1>4, <2>1, RefreshTypes DEF Resume, HandleRefusal, BrowserTypeOK
<1>5. CASE OpenStream(t)
  <2>1. CASE Refresh(t, "over", "opening")
    BY <1>1, <1>5, <2>1, RefreshTypes DEF OpenStream, Awaiting, BrowserTypeOK
  <2>2. CASE Move(t, "over", "last") /\ UNCHANGED <<vars, shared, awaited>>
    <3>1. calls' \in [Tab -> [CallPlace -> Nat]]
      BY <1>1, <2>2, MoveTypes
    <3> QED
      BY <1>5, <2>2, <3>1 DEF OpenStream, BrowserTypeOK
  <2> QED
    BY <1>5, <2>1, <2>2 DEF OpenStream
<1> QED
  BY <1>2, <1>3, <1>4, <1>5 DEF CallStep

\* Tabs that only let go of requests, and of every request that has ended.
LEMMA HeldShrinks ==
    ASSUME Held,
           \A t \in Tab : awaited'[t] \in {awaited[t], NoRequest} /\ signing'[t] \in {signing[t], NoRequest},
           \A t \in Tab : awaited'[t] # NoRequest => pc'[awaited[t]] # "idle",
           \A t \in Tab : signing'[t] # NoRequest => pc'[signing[t]] # "idle"
    PROVE  Held'
BY DEF Held

\* A tab that sends a request.
LEMMA HeldGrows ==
    ASSUME TabInv, NEW t \in Tab, NEW r \in Request, pc[r] = "idle", pc'[r] # "idle",
           \A q \in Request \ {r} : pc'[q] = pc[q],
           \/ awaited' = [awaited EXCEPT ![t] = r] /\ signing' = signing
           \/ signing' = [signing EXCEPT ![t] = r] /\ awaited' = awaited
    PROVE  Held'
<1>1. /\ \A u \in Tab : awaited[u] # r /\ signing[u] # r
      /\ \A u \in Tab : awaited[u] \in Request \cup {NoRequest}
      /\ \A u \in Tab : signing[u] \in Request \cup {NoRequest}
  BY BrowserAssumption DEF TabInv, Held, BrowserTypeOK
<1>2. CASE awaited' = [awaited EXCEPT ![t] = r] /\ signing' = signing
  <2>1. awaited'[t] = r /\ \A u \in Tab \ {t} : awaited'[u] = awaited[u]
    BY <1>2 DEF TabInv, BrowserTypeOK
  <2> QED
    BY <1>1, <1>2, <2>1, BrowserAssumption DEF TabInv, Held
<1>3. CASE signing' = [signing EXCEPT ![t] = r] /\ awaited' = awaited
  <2>1. signing'[t] = r /\ \A u \in Tab \ {t} : signing'[u] = signing[u]
    BY <1>3 DEF TabInv, BrowserTypeOK
  <2> QED
    BY <1>1, <1>3, <2>1, BrowserAssumption DEF TabInv, Held
<1> QED
  BY <1>2, <1>3

\* Where the steps of requests leave them.
LEMMA Sent ==
    ASSUME TypeOK, NEW r \in Request, Login(r) \/ SendRefresh(r) \/ SendLogout(r)
    PROVE  /\ pc[r] = "idle" /\ pc'[r] # "idle"
           /\ \A q \in Request \ {r} : pc'[q] = pc[q]
BY DEF Login, SendRefresh, SendLogout, Send, Respond, Goto, TypeOK

LEMMA Finished ==
    ASSUME TypeOK, NEW r \in Request, Deliver(r) \/ LoseAnswer(r) \/ Abort(r)
    PROVE  \A q \in Request \ {r} : pc'[q] = pc[q]
BY DEF Deliver, LoseAnswer, Abort, Finish, Goto, TypeOK

LEMMA Served ==
    ASSUME TypeOK, NEW r \in Request, ServerStep(r)
    PROVE  \A q \in Request : pc[q] # "idle" => pc'[q] # "idle"
BY DEF ServerStep, Lookup, Respond, Rotate, CommitRotation, BeginRevoke, CommitRevoke, Goto, TypeOK

LEMMA TabHeld ==
    ASSUME TabInv, TypeOK, NEW t \in Tab, TabStep(t)
    PROVE  Held'
<1> USE DEF TabInv
<1>1. CASE RefreshAnswered(t) \/ RefreshLost(t)
  <2>1. PICK r \in Request : awaited[t] = r /\ (Deliver(r) \/ LoseAnswer(r) \/ Abort(r))
    BY <1>1 DEF RefreshAnswered, RefreshLost
  <2>2. awaited' = [awaited EXCEPT ![t] = NoRequest] /\ signing' = signing
    BY <1>1 DEF RefreshAnswered, RefreshLost, Settle
  <2>3. \A q \in Request \ {r} : pc'[q] = pc[q]
    BY <2>1, Finished
  <2>4. \A u \in Tab : (u # t => awaited[u] # r) /\ signing[u] # r
    BY <2>1, BrowserAssumption DEF Held
  <2> QED
    BY <2>1, <2>2, <2>3, <2>4, HeldShrinks DEF Held, BrowserTypeOK
<1>2. CASE RefreshUnsent(t) \/ RefreshTimesOut(t)
  <2>1. awaited' = [awaited EXCEPT ![t] = NoRequest] /\ signing' = signing /\ pc' = pc
    BY <1>2 DEF RefreshUnsent, RefreshTimesOut, Settle, vars, requestVars
  <2> QED
    BY <2>1, HeldShrinks DEF Held, BrowserTypeOK
<1>3. CASE Tick(t)
  BY <1>3 DEF Tick, vars, requestVars, Held
<1>4. CASE SignIn(t)
  BY <1>4, Sent, HeldGrows DEF SignIn
<1>5. CASE SignOut(t)
  <2>1. CASE UNCHANGED <<vars, signing>>
    BY <1>5, <2>1 DEF SignOut, vars, requestVars, Held
  <2>2. CASE \E r \in Request : SendLogout(r) /\ signing' = [signing EXCEPT ![t] = r]
    BY <1>5, <2>2, Sent, HeldGrows DEF SignOut
  <2> QED
    BY <1>5, <2>1, <2>2 DEF SignOut
<1>6. CASE SigningAnswered(t) \/ SigningLost(t)
  <2>1. PICK r \in Request : signing[t] = r /\ (Deliver(r) \/ LoseAnswer(r) \/ Abort(r))
    BY <1>6 DEF SigningAnswered, SigningLost
  <2>2. signing' = [signing EXCEPT ![t] = NoRequest] /\ awaited' = awaited
    BY <1>6 DEF SigningAnswered, SigningLost
  <2>3. \A q \in Request \ {r} : pc'[q] = pc[q]
    BY <2>1, Finished
  <2>4. \A u \in Tab : (u # t => signing[u] # r) /\ awaited[u] # r
    BY <2>1, BrowserAssumption DEF Held
  <2> QED
    BY <2>1, <2>2, <2>3, <2>4, HeldShrinks DEF Held, BrowserTypeOK
<1>7. CASE Reload(t)
  <2>1. /\ awaited' = [awaited EXCEPT ![t] = NoRequest]
        /\ signing' = [signing EXCEPT ![t] = NoRequest] /\ pc' = pc
    BY <1>7 DEF Reload, vars, requestVars
  <2> QED
    BY <2>1, HeldShrinks DEF Held, BrowserTypeOK
<1> QED
  BY <1>1, <1>2, <1>3, <1>4, <1>5, <1>6, <1>7 DEF TabStep

LEMMA RefreshHeld ==
    ASSUME TabInv, TypeOK, NEW t \in Tab, NEW from, NEW place, Refresh(t, from, place),
           signing' = signing
    PROVE  Held'
<1>1. CASE UNCHANGED <<vars, awaited>>
  BY <1>1 DEF TabInv, Held, vars, requestVars
<1>2. CASE \E r \in Request : SendRefresh(r) /\ awaited' = [awaited EXCEPT ![t] = r]
  BY <1>2, Sent, HeldGrows
<1> QED
  BY <1>1, <1>2 DEF Refresh, StartRefresh

LEMMA NextTabInv ==
    ASSUME TabInv, SessionInv, [BrowserNext]_allVars
    PROVE  TabInv'
<1>1. TypeOK /\ TypeOK'
  BY BrowserStepKeepsTokens, NextTokens DEF SessionInv, TokenInv
<1>2. ASSUME NEW t \in Tab, TabStep(t) PROVE TabInv'
  BY <1>1, <1>2, TabTypes, TabHeld DEF TabInv
<1>3. ASSUME NEW t \in Tab, CallStep(t) PROVE TabInv'
  <2>1. CASE Fetch(t) \/ Answer(t) \/ UNCHANGED <<vars, awaited, signing>>
    BY <1>1, <1>3, <2>1, CallTypes
    DEF Fetch, Answer, TabInv, Held, vars, requestVars
  <2>2. CASE \E from, place : Refresh(t, from, place) /\ signing' = signing
    BY <1>1, <1>3, <2>2, CallTypes, RefreshHeld DEF TabInv
  <2> QED
    BY <1>3, <2>1, <2>2 DEF CallStep, Resume, OpenStream, HandleRefusal
<1>4. ASSUME NEW r \in Request, ServerStep(r) PROVE TabInv'
  <2>1. UNCHANGED browserVars
    BY <1>4 DEF ServerStep
  <2>2. \A t \in Tab : /\ awaited[t] # NoRequest => pc'[awaited[t]] # "idle"
                       /\ signing[t] # NoRequest => pc'[signing[t]] # "idle"
    BY <1>1, <1>4, Served DEF TabInv, Held, BrowserTypeOK
  <2> QED
    BY <1>1, <2>1, <2>2, HeldShrinks DEF TabInv, BrowserTypeOK, browserVars, tabVars
<1>5. ASSUME NEW r \in Request, Unheard(r) PROVE TabInv'
  <2>1. UNCHANGED browserVars
    BY <1>5 DEF Unheard
  <2>2. \A t \in Tab : /\ awaited[t] # NoRequest => pc'[awaited[t]] # "idle"
                       /\ signing[t] # NoRequest => pc'[signing[t]] # "idle"
    BY <1>1, <1>5, Finished DEF Unheard, TabInv, Held, BrowserTypeOK
  <2> QED
    BY <1>1, <2>1, <2>2, HeldShrinks DEF TabInv, BrowserTypeOK, browserVars, tabVars
<1>6. ASSUME NEW k \in Token, RefreshExpires(k) PROVE TabInv'
  BY <1>1, <1>6 DEF RefreshExpires, Expire, TabInv, BrowserTypeOK, Held,
     vars, requestVars, browserVars, tabVars
<1>7. CASE UNCHANGED allVars
  BY <1>1, <1>7 DEF allVars, vars, requestVars, browserVars, tabVars, TabInv, BrowserTypeOK, Held
<1> QED
  BY <1>2, <1>3, <1>4, <1>5, <1>6, <1>7 DEF BrowserNext

LEMMA TabInvariant == BrowserSpec => [](SessionInv /\ GoodInv /\ TabInv)
<1>1. BrowserInit => TabInv
  <2>1. Init => TypeOK
    BY InitTokens DEF TokenInv
  <2> QED
    BY <2>1, BrowserAssumption DEF BrowserInit, TabInv, BrowserTypeOK, Held, AllOver
<1>2. SessionInv /\ TabInv /\ [BrowserNext]_allVars => TabInv'
  BY NextTabInv
<1> QED
  BY <1>1, <1>2, BrowserKeepsTokens, SessionInvariant, GoodInvariant, PTL DEF BrowserSpec

\* The state of the tabs and their calls has its types.
THEOREM BrowserTypes == BrowserSpec => []BrowserTypeOK
<1>1. TabInv => BrowserTypeOK
  BY DEF TabInv
<1> QED
  BY <1>1, TabInvariant, PTL

-----------------------------------------------------------------------------
(* Sign-outs. *)

\* After a sign-out that nothing overlapped, nothing is under way that could
\* bring a session back, until somebody signs in.
Quiet ==
    out # {} => /\ cookie = NoToken
                /\ \A t \in out : ~access[t]
                /\ \A t \in Tab : awaited[t] = NoRequest /\ signing[t] = NoRequest

LEMMA RefreshQuiet ==
    ASSUME BrowserTypeOK, Quiet, NEW t \in Tab, NEW from, NEW place,
           Refresh(t, from, place), UNCHANGED <<access, signing, out>>
    PROVE  Quiet'
<1>1. CASE UNCHANGED <<vars, awaited>>
  BY <1>1 DEF Quiet, vars
<1>2. CASE \E r \in Request : SendRefresh(r)
  BY <1>2 DEF SendRefresh, Send, Quiet
<1> QED
  BY <1>1, <1>2 DEF Refresh, StartRefresh

LEMMA TabQuiet ==
    ASSUME BrowserTypeOK, Quiet, NEW t \in Tab, TabStep(t)
    PROVE  Quiet'
<1>1. CASE RefreshAnswered(t) \/ RefreshLost(t) \/ RefreshTimesOut(t) \/ SigningLost(t)
  <2>1. awaited[t] # NoRequest \/ signing[t] # NoRequest
    BY <1>1, BrowserAssumption DEF RefreshAnswered, RefreshLost, RefreshTimesOut, SigningLost
  <2>2. out' = out
    BY <1>1 DEF RefreshAnswered, RefreshLost, RefreshTimesOut, SigningLost, Settle
  <2> QED
    BY <2>1, <2>2 DEF Quiet
<1>2. CASE RefreshUnsent(t)
  BY <1>2 DEF RefreshUnsent, Settle, vars, Quiet, BrowserTypeOK
<1>3. CASE Tick(t)
  BY <1>3 DEF Tick, vars, Quiet
<1>4. CASE SignIn(t)
  BY <1>4 DEF SignIn, Quiet
<1>5. CASE SignOut(t)
  BY <1>5 DEF SignOut, SendLogout, Send, vars, Quiet, BrowserTypeOK
<1>6. CASE SigningAnswered(t)
  <2>1. PICK r \in Request :
            /\ signing[t] = r /\ Deliver(r)
            /\ signing' = [signing EXCEPT ![t] = NoRequest]
            /\ \/ UNCHANGED out
               \/ /\ answer[r] = "clear"
                  /\ access' = [access EXCEPT ![t] = FALSE]
                  /\ out' = IF JarIsQuiet(t) THEN out \cup {t} ELSE out
            /\ UNCHANGED awaited
    BY <1>6 DEF SigningAnswered, AfterSignOut
  <2>2. out = {}
    BY <2>1, BrowserAssumption DEF Quiet
  <2>3. ASSUME answer[r] = "clear", JarIsQuiet(t), out' = {t},
               access' = [access EXCEPT ![t] = FALSE]
        PROVE  Quiet'
    <3>1. cookie' = NoToken
      BY <2>1, <2>3 DEF Deliver
    <3>2. \A u \in Tab : awaited'[u] = NoRequest /\ signing'[u] = NoRequest
      BY <2>1, <2>3 DEF JarIsQuiet, BrowserTypeOK
    <3>3. ~access'[t]
      BY <2>3 DEF BrowserTypeOK
    <3> QED
      BY <2>3, <3>1, <3>2, <3>3 DEF Quiet
  <2>4. CASE out' = {}
    BY <2>4 DEF Quiet
  <2> QED
    BY <2>1, <2>2, <2>3, <2>4
<1>7. CASE Reload(t)
  BY <1>7 DEF Reload, vars, Quiet, BrowserTypeOK
<1> QED
  BY <1>1, <1>2, <1>3, <1>4, <1>5, <1>6, <1>7 DEF TabStep

LEMMA NextQuiet ==
    ASSUME BrowserTypeOK, Quiet, [BrowserNext]_allVars
    PROVE  Quiet'
<1>1. ASSUME NEW t \in Tab, CallStep(t) PROVE Quiet'
  <2>1. CASE UNCHANGED <<vars, access, awaited, signing, out>>
    BY <2>1 DEF Quiet, vars
  <2>2. CASE \E from, place : Refresh(t, from, place) /\ UNCHANGED <<access, signing, out>>
    BY <2>2, RefreshQuiet
  <2> QED
    BY <1>1, <2>1, <2>2
    DEF CallStep, Fetch, Resume, OpenStream, Answer, HandleRefusal
<1>2. ASSUME NEW r \in Request, ServerStep(r) PROVE Quiet'
  BY <1>2 DEF ServerStep, Lookup, Respond, Rotate, CommitRotation, BeginRevoke, CommitRevoke,
     browserVars, tabVars, Quiet
<1>3. ASSUME NEW r \in Request, Unheard(r) PROVE Quiet'
  BY <1>3 DEF Unheard, LoseAnswer, Abort, browserVars, tabVars, Quiet
<1>4. ASSUME NEW k \in Token, RefreshExpires(k) PROVE Quiet'
  BY <1>4 DEF RefreshExpires, Expire, vars, browserVars, tabVars, Quiet
<1>5. CASE UNCHANGED allVars
  BY <1>5 DEF allVars, vars, browserVars, tabVars, Quiet
<1> QED
  BY <1>1, <1>2, <1>3, <1>4, <1>5, TabQuiet DEF BrowserNext

\* After a sign-out that nothing overlapped, neither the jar nor the tab holds a
\* session again until somebody signs in (lib/api.ts, logout).
THEOREM SignOutsHold == BrowserSpec => []SignOutHolds
<1>1. BrowserInit => Quiet
  BY DEF BrowserInit, Quiet
<1>2. TabInv /\ Quiet /\ [BrowserNext]_allVars => Quiet'
  BY NextQuiet DEF TabInv
<1>3. Quiet => SignOutHolds
  BY DEF Quiet, SignOutHolds
<1> QED
  BY <1>1, <1>2, <1>3, TabInvariant, PTL DEF BrowserSpec

-----------------------------------------------------------------------------
(* One tab. *)

OneTab == \A t, u \in Tab : t = u

\* The answer of a sign-in, before it is taken: nothing else is of its session.
NewSession(r) ==
    /\ pc[r] = "answered"
    /\ cookie # NoToken => family[cookie] # FamilyOf(r)
    /\ \A q \in Request \ {r} : pc[q] # "idle" => FamilyOf(q) # FamilyOf(r)

\* What is in flight is the shared refresh, or such an answer, or of a session
\* that was signed out of or is not waited for any more.
Accounted(r) == FamilyOf(r) \in left \/ NewSession(r) \/ \E t \in Tab : awaited[t] = r
InFlightAccounted == \A r \in Request : pc[r] # "idle" => Accounted(r)

WaitsWhilePending == \A t \in Tab : shared[t] # "pending" => awaited[t] = NoRequest

CallsInv == InFlightAccounted /\ WaitsWhilePending /\ raced \subseteq left

LEMMA FamilyStays ==
    ASSUME SessionInv, [Next]_vars
    PROVE  /\ \A q \in Request : pc[q] # "idle" /\ pc'[q] # "idle" => FamilyOf(q)' = FamilyOf(q)
           /\ \A k \in Token : token[k] # "unissued" => family'[k] = family[k]
<1> USE DEF SessionInv, TokenInv, TypeOK, FamilyOf
<1>1. ASSUME NEW r \in Request, Login(r)
      PROVE  /\ \A q \in Request : pc[q] # "idle" /\ pc'[q] # "idle" => FamilyOf(q)' = FamilyOf(q)
             /\ \A k \in Token : token[k] # "unissued" => family'[k] = family[k]
  BY <1>1 DEF Login, Fresh, Presented
<1>2. ASSUME NEW r \in Request, CommitRotation(r)
      PROVE  /\ \A q \in Request : pc[q] # "idle" /\ pc'[q] # "idle" => FamilyOf(q)' = FamilyOf(q)
             /\ \A k \in Token : token[k] # "unissued" => family'[k] = family[k]
  BY <1>2 DEF CommitRotation, Presented, Reserved
<1>3. ASSUME NEW r \in Request, SendRefresh(r) \/ SendLogout(r)
      PROVE  /\ \A q \in Request : pc[q] # "idle" /\ pc'[q] # "idle" => FamilyOf(q)' = FamilyOf(q)
             /\ \A k \in Token : token[k] # "unissued" => family'[k] = family[k]
  BY <1>3 DEF SendRefresh, SendLogout, Send, serverVars
<1>4. ASSUME NEW r \in Request, Deliver(r) \/ LoseAnswer(r) \/ Abort(r)
      PROVE  /\ \A q \in Request : pc[q] # "idle" /\ pc'[q] # "idle" => FamilyOf(q)' = FamilyOf(q)
             /\ \A k \in Token : token[k] # "unissued" => family'[k] = family[k]
  BY <1>4 DEF Deliver, LoseAnswer, Abort, Finish, Goto, serverVars
<1>5. ASSUME NEW r \in Request, Lookup(r) \/ Rotate(r) \/ BeginRevoke(r) \/ CommitRevoke(r)
      PROVE  UNCHANGED <<presented, family>>
  BY <1>5 DEF Lookup, Rotate, BeginRevoke, CommitRevoke, serverVars
<1>6. (UNCHANGED vars \/ \E k \in Token : Expire(k)) => UNCHANGED <<presented, family>>
  BY DEF Expire, vars, serverVars, requestVars
<1> QED
  BY <1>1, <1>2, <1>3, <1>4, <1>5, <1>6 DEF Next, RequestStep

LEMMA NewSessionStays ==
    ASSUME SessionInv, GoodInv, [Next]_vars, NEW r \in Request, NewSession(r), pc'[r] # "idle"
    PROVE  NewSession(r)'
<1> USE DEF SessionInv, TokenInv, TypeOK, FamilyOf
<1>1. /\ pc[r] = "answered" /\ FamilyOf(r)' = FamilyOf(r)
      /\ presented[r] \in Token /\ token[presented[r]] # "unissued"
      /\ FamilyOf(r) \in Token /\ token[FamilyOf(r)] # "unissued"
  BY FamilyStays, TokensAreNumbers DEF NewSession, Presented, Rooted
<1>2. \A q \in Request \ {r} : pc[q] # "idle" /\ pc'[q] # "idle" => FamilyOf(q)' # FamilyOf(r)'
  BY <1>1, FamilyStays DEF NewSession
<1>3. ASSUME NEW q \in Request \ {r}, Login(q)
      PROVE  NewSession(r)'
  <2>1. PICK k \in Fresh : family' = [family EXCEPT ![k] = k] /\ presented' = [presented EXCEPT ![q] = k]
    BY <1>3 DEF Login
  <2>2. /\ k # FamilyOf(r) /\ k \in Token /\ (cookie # NoToken => cookie # k)
        /\ pc' = [pc EXCEPT ![q] = "answered"] /\ cookie' = cookie
    BY <1>1, <1>3, <2>1 DEF Fresh, Login, Respond, Goto, JarIssued
  <2>3. FamilyOf(q)' # FamilyOf(r)'
    BY <1>1, <2>1, <2>2
  <2> QED
    BY <1>1, <1>2, <2>1, <2>2, <2>3 DEF NewSession
<1>4. ASSUME NEW q \in Request \ {r}, SendRefresh(q) \/ SendLogout(q)
      PROVE  NewSession(r)'
  <2>1. /\ cookie' = cookie /\ family' = family /\ cookie # NoToken /\ FamilyOf(q)' = family[cookie]
        /\ \A p \in Request \ {q} : pc'[p] = pc[p]
    BY <1>4 DEF SendRefresh, SendLogout, Send, Goto, serverVars
  <2> QED
    BY <1>1, <1>2, <2>1 DEF NewSession
<1>5. ASSUME NEW q \in Request \ {r}, Deliver(q)
      PROVE  NewSession(r)'
  <2>1. /\ pc[q] = "answered" /\ family' = family
        /\ \A p \in Request \ {q} : pc'[p] = pc[p]
        /\ pc'[q] = "idle"
    BY <1>5 DEF Deliver, Finish, Goto, serverVars
  <2>2. cookie' # NoToken => family[cookie'] # FamilyOf(r)
    <3>1. answer[q] = "set" => cookie' = issued[q] /\ family[issued[q]] = FamilyOf(q)
      BY <1>5, <2>1 DEF Deliver, GoodInv, AnswerLive, FamilyAt
    <3>2. answer[q] = "clear" => cookie' = NoToken
      BY <1>5 DEF Deliver
    <3>3. answer[q] = "keep" => cookie' = cookie
      BY <1>5 DEF Deliver
    <3>4. answer[q] \in {"set", "clear", "keep"}
      OBVIOUS
    <3>5. FamilyOf(q) # FamilyOf(r)
      BY <2>1 DEF NewSession
    <3> QED
      BY <3>1, <3>2, <3>3, <3>4, <3>5 DEF NewSession
  <2> QED
    BY <1>1, <1>2, <2>1, <2>2 DEF NewSession
<1>6. ASSUME cookie' = cookie, pc'[r] = "answered",
             \A q \in Request : pc[q] = "idle" => pc'[q] = "idle"
      PROVE  NewSession(r)'
  <2>1. cookie # NoToken => family'[cookie] # FamilyOf(r)'
    BY <1>1, FamilyStays DEF NewSession, JarIssued
  <2> QED
    BY <1>1, <1>2, <1>6, <2>1 DEF NewSession
<1>7. ASSUME NEW q \in Request \ {r}, Lookup(q) \/ Rotate(q) \/ CommitRotation(q) \/ BeginRevoke(q)
             \/ CommitRevoke(q) \/ LoseAnswer(q) \/ Abort(q)
      PROVE  NewSession(r)'
  <2>1. cookie' = cookie /\ pc[q] # "idle" /\ \A p \in Request \ {q} : pc'[p] = pc[p]
    BY <1>7 DEF Lookup, Respond, Rotate, CommitRotation, BeginRevoke, CommitRevoke,
       LoseAnswer, Abort, Finish, Goto
  <2> QED
    BY <1>1, <1>6, <2>1
<1>8. ASSUME UNCHANGED vars \/ \E k \in Token : Expire(k)
      PROVE  NewSession(r)'
  <2>1. cookie' = cookie /\ pc' = pc
    BY <1>8 DEF Expire, vars, requestVars
  <2> QED
    BY <1>1, <1>6, <2>1
<1>9. ~ RequestStep(r)
  <2>1. ~ Lookup(r) /\ ~ Rotate(r) /\ ~ CommitRotation(r) /\ ~ BeginRevoke(r) /\ ~ CommitRevoke(r)
        /\ ~ Login(r) /\ ~ SendRefresh(r) /\ ~ SendLogout(r) /\ ~ Abort(r)
    BY <1>1 DEF Lookup, Rotate, CommitRotation, BeginRevoke, CommitRevoke, Login,
       SendRefresh, SendLogout, Send, Abort
  <2>2. ~ Deliver(r) /\ ~ LoseAnswer(r)
    BY DEF Deliver, LoseAnswer, Finish, Goto
  <2> QED
    BY <2>1, <2>2 DEF RequestStep
<1> QED
  BY <1>3, <1>4, <1>5, <1>7, <1>8, <1>9 DEF Next, RequestStep

LEMMA AccountedStays ==
    ASSUME SessionInv, GoodInv, InFlightAccounted, [Next]_vars, left \subseteq left',
           \A r \in Request : pc[r] = "idle" /\ pc'[r] # "idle" => Accounted(r)',
           \A t \in Tab : awaited[t] \in Request /\ pc'[awaited[t]] # "idle" =>
               awaited'[t] = awaited[t] \/ FamilyOf(awaited[t]) \in left'
    PROVE  InFlightAccounted'
<1> SUFFICES ASSUME NEW r \in Request, pc'[r] # "idle", pc[r] # "idle"
             PROVE  Accounted(r)'
  BY DEF InFlightAccounted
<1>1. FamilyOf(r)' = FamilyOf(r)
  BY FamilyStays
<1>2. CASE FamilyOf(r) \in left
  BY <1>1, <1>2 DEF Accounted
<1>3. CASE NewSession(r)
  BY <1>3, NewSessionStays DEF Accounted
<1>4. ASSUME NEW t \in Tab, awaited[t] = r PROVE Accounted(r)'
  BY <1>1, <1>4 DEF Accounted
<1> QED
  BY <1>2, <1>3, <1>4 DEF InFlightAccounted, Accounted

\* The shared refresh is sent when nothing of the session is in flight.
LEMMA RefreshCalls ==
    ASSUME OneTab, SessionInv, GoodInv, TabInv, CallsInv, NEW t \in Tab,
           NEW from, NEW place, Refresh(t, from, place), left' = left
    PROVE  CallsInv'
<1>1. [Next]_vars
  BY RefreshKeepsTokens
<1>2. TypeOK
  BY DEF SessionInv, TokenInv
<1>3. WaitsWhilePending'
  BY <1>1 DEF Refresh, StartRefresh, CallsInv, WaitsWhilePending, TabInv, BrowserTypeOK
<1>4. CASE UNCHANGED <<vars, awaited>>
  <2>1. pc' = pc /\ raced' = raced
    BY <1>4 DEF vars, requestVars, historyVars
  <2>2. InFlightAccounted'
    BY <1>1, <1>4, <2>1, AccountedStays DEF CallsInv
  <2> QED
    BY <1>3, <2>1, <2>2 DEF CallsInv
<1>5. ASSUME NEW r \in Request, SendRefresh(r), awaited' = [awaited EXCEPT ![t] = r],
             shared[t] = "none"
      PROVE  CallsInv'
  <2>1. \A u \in Tab : awaited[u] = NoRequest
    BY <1>1, <1>5 DEF CallsInv, WaitsWhilePending, OneTab
  <2>2. awaited'[t] = r /\ \A q \in Request \ {r} : pc'[q] = pc[q]
    BY <1>1, <1>2, <1>5, Sent DEF TabInv, BrowserTypeOK
  <2>3. Accounted(r)'
    BY <1>1, <2>2 DEF Accounted
  <2>4. InFlightAccounted'
    BY <1>1, <2>1, <2>2, <2>3, AccountedStays, BrowserAssumption DEF CallsInv
  <2>5. /\ cookie # NoToken
        /\ raced' = IF InFlight(family[cookie]) = {} THEN raced ELSE raced \cup {family[cookie]}
    BY <1>5 DEF SendRefresh, Send
  <2>6. ASSUME NEW q \in InFlight(family[cookie])
        PROVE  family[cookie] \in left
    <3>1. q \in Request /\ pc[q] # "idle" /\ FamilyOf(q) = family[cookie]
      BY DEF InFlight
    <3>2. ~ NewSession(q) /\ \A u \in Tab : awaited[u] # q
      BY <2>1, <2>5, <3>1, BrowserAssumption DEF NewSession
    <3> QED
      BY <3>1, <3>2 DEF CallsInv, InFlightAccounted, Accounted
  <2>7. raced' \subseteq left'
    BY <2>5, <2>6 DEF CallsInv
  <2> QED
    BY <1>3, <2>4, <2>7 DEF CallsInv
<1> QED
  BY <1>4, <1>5 DEF Refresh, StartRefresh

LEMMA TabCalls ==
    ASSUME SessionInv, GoodInv, TabInv, CallsInv, NEW t \in Tab, TabStep(t)
    PROVE  CallsInv'
<1>1. TypeOK /\ [Next]_vars
  BY TabKeepsTokens DEF SessionInv, TokenInv
<1>2. WaitsWhilePending'
  BY DEF TabStep, RefreshAnswered, RefreshLost, RefreshUnsent, RefreshTimesOut, Settle, Tick,
         SignIn, SignOut, SigningAnswered, SigningLost, Reload,
         CallsInv, WaitsWhilePending, TabInv, BrowserTypeOK
<1>3. CASE SignIn(t)
  <2>1. PICK r \in Request : Login(r)
    BY <1>3 DEF SignIn
  <2>2. UNCHANGED <<awaited, left>>
    BY <1>3 DEF SignIn
  <2>3. PICK k \in Fresh : family' = [family EXCEPT ![k] = k] /\ presented' = [presented EXCEPT ![r] = k]
    BY <2>1 DEF Login
  <2>4. /\ k \in Token /\ token[k] = "unissued"
        /\ pc[r] = "idle" /\ pc' = [pc EXCEPT ![r] = "answered"]
        /\ UNCHANGED <<cookie, raced>>
    BY <2>1, <2>3 DEF Fresh, Login, Respond, Goto, historyVars
  <2>5. NewSession(r)'
    <3> USE DEF SessionInv, TokenInv, TypeOK, FamilyOf
    <3>1. FamilyOf(r)' = k
      BY <2>3, <2>4
    <3>2. cookie # NoToken => family'[cookie] # k
      BY <2>3, <2>4 DEF JarIssued, Rooted
    <3>3. ASSUME NEW q \in Request \ {r}, pc'[q] # "idle" PROVE FamilyOf(q)' # k
      <4>1. presented[q] \in Token /\ token[presented[q]] # "unissued"
        BY <2>4, <3>3 DEF Presented
      <4>2. family[presented[q]] # NoToken /\ family[presented[q]] # k
        BY <2>4, <4>1 DEF Rooted
      <4> QED
        BY <2>3, <2>4, <4>1, <4>2
    <3> QED
      BY <2>4, <3>1, <3>2, <3>3 DEF NewSession
  <2>6. InFlightAccounted'
    BY <1>1, <2>2, <2>4, <2>5, AccountedStays DEF CallsInv, Accounted, TypeOK
  <2> QED
    BY <1>2, <2>2, <2>4, <2>6 DEF CallsInv
<1>4. CASE SignOut(t)
  <2>1. CASE UNCHANGED <<vars, left>>
    <3>1. pc' = pc /\ raced' = raced /\ awaited' = awaited
      BY <1>4, <2>1 DEF SignOut, vars, requestVars, historyVars
    <3>2. InFlightAccounted'
      BY <1>1, <2>1, <3>1, AccountedStays DEF CallsInv
    <3> QED
      BY <1>2, <2>1, <3>1, <3>2 DEF CallsInv
  <2>2. ASSUME NEW r \in Request, SendLogout(r), left' = left \cup {family[cookie]}
        PROVE  CallsInv'
    <3>1. awaited' = awaited /\ \A q \in Request \ {r} : pc'[q] = pc[q]
      BY <1>1, <1>4, <2>2, Sent DEF SignOut
    <3>2. FamilyOf(r)' = family[cookie]
      BY <1>1, <2>2 DEF SendLogout, Send, FamilyOf, serverVars, TypeOK
    <3>3. InFlightAccounted'
      BY <1>1, <2>2, <3>1, <3>2, AccountedStays DEF CallsInv, Accounted
    <3>4. raced' \subseteq left'
      BY <2>2 DEF SendLogout, Send, CallsInv
    <3> QED
      BY <1>2, <3>3, <3>4 DEF CallsInv
  <2> QED
    BY <1>4, <2>1, <2>2 DEF SignOut
<1>5. CASE RefreshAnswered(t) \/ RefreshLost(t)
  <2>1. PICK r \in Request : awaited[t] = r /\ (Deliver(r) \/ LoseAnswer(r) \/ Abort(r))
    BY <1>5 DEF RefreshAnswered, RefreshLost
  <2>2. awaited' = [awaited EXCEPT ![t] = NoRequest] /\ left' = left
    BY <1>5 DEF RefreshAnswered, RefreshLost, Settle
  <2>3. pc'[r] = "idle" /\ pc[r] # "idle" /\ raced' = raced /\ \A q \in Request \ {r} : pc'[q] = pc[q]
    BY <1>1, <2>1, Finished DEF Deliver, LoseAnswer, Abort, Finish, Goto, historyVars, TypeOK
  <2>4. InFlightAccounted'
    BY <1>1, <2>1, <2>2, <2>3, AccountedStays DEF CallsInv, TabInv, BrowserTypeOK
  <2> QED
    BY <1>2, <2>2, <2>3, <2>4 DEF CallsInv
<1>6. CASE RefreshUnsent(t) \/ RefreshTimesOut(t) \/ Reload(t) \/ Tick(t)
  <2>1. pc' = pc /\ raced' = raced
    BY <1>6 DEF RefreshUnsent, RefreshTimesOut, Reload, Tick, vars, requestVars, historyVars
  <2>2. left \subseteq left'
    BY <1>6 DEF RefreshUnsent, RefreshTimesOut, Reload, Tick
  <2>3. \A u \in Tab \ {t} : awaited'[u] = awaited[u]
    BY <1>6 DEF RefreshUnsent, RefreshTimesOut, Settle, Reload, Tick, TabInv, BrowserTypeOK
  <2>4. awaited[t] \in Request => awaited'[t] = awaited[t] \/ FamilyOf(awaited[t]) \in left'
    BY <1>6, BrowserAssumption DEF RefreshUnsent, RefreshTimesOut, Reload, Tick
  <2>5. InFlightAccounted'
    BY <1>1, <2>1, <2>2, <2>3, <2>4, AccountedStays DEF CallsInv
  <2> QED
    BY <1>2, <2>1, <2>2, <2>5 DEF CallsInv
<1>7. CASE SigningAnswered(t) \/ SigningLost(t)
  <2>1. PICK r \in Request : Deliver(r) \/ LoseAnswer(r) \/ Abort(r)
    BY <1>7 DEF SigningAnswered, SigningLost
  <2>2. UNCHANGED <<awaited, left>>
    BY <1>7 DEF SigningAnswered, SigningLost
  <2>3. pc[r] # "idle" /\ raced' = raced /\ \A q \in Request \ {r} : pc'[q] = pc[q]
    BY <1>1, <2>1, Finished DEF Deliver, LoseAnswer, Abort, historyVars
  <2>4. InFlightAccounted'
    BY <1>1, <2>2, <2>3, AccountedStays DEF CallsInv
  <2> QED
    BY <1>2, <2>2, <2>3, <2>4 DEF CallsInv
<1> QED
  BY <1>3, <1>4, <1>5, <1>6, <1>7 DEF TabStep

LEMMA NextCalls ==
    ASSUME OneTab, SessionInv, GoodInv, TabInv, CallsInv, [BrowserNext]_allVars
    PROVE  CallsInv'
<1>1. TypeOK /\ [Next]_vars
  BY BrowserStepKeepsTokens DEF SessionInv, TokenInv
<1>2. ASSUME UNCHANGED <<awaited, shared, left, raced>>,
             \A q \in Request : pc[q] = "idle" => pc'[q] = "idle"
      PROVE  CallsInv'
  <2>1. InFlightAccounted'
    BY <1>1, <1>2, AccountedStays DEF CallsInv
  <2> QED
    BY <1>2, <2>1 DEF CallsInv, WaitsWhilePending
<1>3. ASSUME NEW t \in Tab, CallStep(t) PROVE CallsInv'
  <2>1. CASE UNCHANGED <<vars, awaited, shared, left>>
    BY <1>2, <2>1 DEF vars, requestVars, historyVars
  <2>2. CASE \E from, place : Refresh(t, from, place) /\ left' = left
    BY <2>2, RefreshCalls
  <2> QED
    BY <1>3, <2>1, <2>2
    DEF CallStep, Fetch, Resume, OpenStream, Answer, HandleRefusal
<1>4. ASSUME NEW r \in Request, ServerStep(r) \/ Unheard(r) PROVE CallsInv'
  <2>1. UNCHANGED <<awaited, shared, left, raced>>
    BY <1>4 DEF ServerStep, Unheard, browserVars, tabVars, Lookup, Rotate, CommitRotation,
       BeginRevoke, CommitRevoke, LoseAnswer, Abort, historyVars
  <2>2. pc[r] # "idle" /\ \A q \in Request \ {r} : pc'[q] = pc[q]
    BY <1>1, <1>4 DEF ServerStep, Unheard, Lookup, Respond, Rotate, CommitRotation,
       BeginRevoke, CommitRevoke, LoseAnswer, Abort, Finish, Goto, TypeOK
  <2> QED
    BY <1>2, <2>1, <2>2
<1>5. ASSUME NEW k \in Token, RefreshExpires(k) PROVE CallsInv'
  <2>1. UNCHANGED <<awaited, shared, left, raced, pc>>
    BY <1>5 DEF RefreshExpires, Expire, vars, requestVars, historyVars,
       browserVars, tabVars
  <2> QED
    BY <1>2, <2>1
<1>6. CASE UNCHANGED allVars
  BY <1>2, <1>6 DEF allVars, vars, requestVars, historyVars, browserVars, tabVars
<1> QED
  BY <1>3, <1>4, <1>5, <1>6, TabCalls DEF BrowserNext

\* In a browser with one tab the shared refresh does what it is for: however
\* many calls are refused at a time, no refresh presents a token another has
\* spent, but in a session that was signed out of or missed an answer.
THEOREM CallsAreSafe == OneTab => (BrowserSpec => []CallsRaiseNoAlarm)
<1> SUFFICES ASSUME OneTab
             PROVE  BrowserSpec => []CallsRaiseNoAlarm
  OBVIOUS
<1>1. BrowserInit => CallsInv
  BY DEF BrowserInit, Init, CallsInv, InFlightAccounted, WaitsWhilePending
<1>2. SessionInv /\ GoodInv /\ TabInv /\ CallsInv /\ [BrowserNext]_allVars => CallsInv'
  BY NextCalls
<1>3. GoodInv /\ CallsInv => CallsRaiseNoAlarm
  BY DEF GoodInv, NoFalseAlarm, CallsInv, CallsRaiseNoAlarm
<1> QED
  BY <1>1, <1>2, <1>3, TabInvariant, PTL DEF BrowserSpec
=============================================================================
