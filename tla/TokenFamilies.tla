--------------------------- MODULE TokenFamilies ---------------------------
(***************************************************************************)
(* Refresh tokens (services/token_service.py) behind the requests of       *)
(* api/v1/auth.py, as one user's browser drives them: login, refresh with  *)
(* rotation and reuse detection, logout.                                   *)
(*                                                                         *)
(* A family is a login session: a token and its successors.  Requests run  *)
(* side by side, from several tabs or because a client gave up on one and  *)
(* sent another.  Postgres is READ COMMITTED: a statement sees what was    *)
(* committed when it began, and waits for the rows it updates.             *)
(* The cookie jar is the browser's, and takes the answers as they come.    *)
(***************************************************************************)
EXTENDS Naturals, FiniteSets

CONSTANTS
    Request,    \* requests that may be in flight at one time
    MaxToken,   \* bound: tokens ever issued
    Losses      \* what may go wrong: "answer" is lost, the "request" dies

ASSUME TokenAssumption ==
    /\ MaxToken \in Nat
    /\ Losses \subseteq {"answer", "request"}

VARIABLES
    token,      \* the committed row of each token: unissued, live, revoked
    family,     \* the family of each token: the token it began with
    expired,    \* tokens past expires_at
    cookie,     \* the token in the browser's jar, or NoToken
    pc,         \* where each request is
    presented,  \* the token it was sent with
    issued,     \* the successor its open transaction has inserted
    target,     \* the rows its UPDATE of a family is to revoke
    answer,     \* what its response does to the jar: set, clear or keep it
    closed,     \* history: families a logout or a detected reuse has revoked
    raced,      \* history: families with two requests in flight at one time
    lost,       \* history: families whose browser missed an answer
    alarmed     \* history: families in which a reuse was detected

serverVars  == <<token, family>>
requestVars == <<pc, presented, issued, target, answer>>
historyVars == <<closed, raced, lost, alarmed>>
vars == <<serverVars, expired, cookie, requestVars, historyVars>>

NoToken == 0
Token == 1 .. MaxToken
Place == {"idle", "sent", "rotate", "rotated", "logout", "reuse", "revoking", "answered"}

TypeOK ==
    /\ token \in [Token -> {"unissued", "live", "revoked"}]
    /\ family \in [Token -> Token \cup {NoToken}]
    /\ expired \subseteq Token
    /\ cookie \in Token \cup {NoToken}
    /\ pc \in [Request -> Place]
    /\ presented \in [Request -> Token \cup {NoToken}]
    /\ issued \in [Request -> Token \cup {NoToken}]
    /\ target \in [Request -> SUBSET Token]
    /\ answer \in [Request -> {"set", "clear", "keep"}]
    /\ closed \cup raced \cup lost \cup alarmed \subseteq Token
    /\ \A k \in Token : token[k] = "unissued" <=> family[k] = NoToken

Init ==
    /\ token = [k \in Token |-> "unissued"]
    /\ family = [k \in Token |-> NoToken]
    /\ expired = {}
    /\ cookie = NoToken
    /\ pc = [r \in Request |-> "idle"]
    /\ presented = [r \in Request |-> NoToken]
    /\ issued = [r \in Request |-> NoToken]
    /\ target = [r \in Request |-> {}]
    /\ answer = [r \in Request |-> "keep"]
    /\ closed = {}
    /\ raced = {}
    /\ lost = {}
    /\ alarmed = {}

-----------------------------------------------------------------------------

FamilyOf(r) == family[presented[r]]
InFlight(f) == {r \in Request : pc[r] # "idle" /\ presented[r] # NoToken /\ FamilyOf(r) = f}
Live(f) == {k \in Token : token[k] = "live" /\ family[k] = f}

Goto(r, place) == pc' = [pc EXCEPT ![r] = place]

\* generate_refresh_token: one no row and no open transaction has.
Fresh ==
    {k \in Token : /\ token[k] = "unissued"
                   /\ \A r \in Request : issued[r] # k
                   /\ \A i \in 1 .. k - 1 : token[i] # "unissued" \/ \E r \in Request : issued[r] = i}

KeepsOldCookie(r, what) ==                                    \* a mutant
    /\ Goto(r, "answered")
    /\ answer' = [answer EXCEPT ![r] = IF pc[r] = "rotated" THEN "keep" ELSE what]
Respond(r, what) ==
    /\ Goto(r, "answered")
    /\ answer' = [answer EXCEPT ![r] = what]

\* The cookie is read from the jar when the request is sent.
Send(r) ==
    /\ pc[r] = "idle"
    /\ cookie # NoToken
    /\ presented' = [presented EXCEPT ![r] = cookie]
    /\ raced' = IF InFlight(family[cookie]) = {} THEN raced ELSE raced \cup {family[cookie]}
    /\ UNCHANGED <<serverVars, expired, cookie, issued, target, answer, closed, lost, alarmed>>

-----------------------------------------------------------------------------

\* register and login: a new family, committed in one transaction.
Login(r) ==
    /\ pc[r] = "idle"
    /\ \E k \in Fresh :
          /\ token' = [token EXCEPT ![k] = "live"]
          /\ family' = [family EXCEPT ![k] = k]
          /\ issued' = [issued EXCEPT ![r] = k]
          /\ presented' = [presented EXCEPT ![r] = k]
    /\ Respond(r, "set")
    /\ UNCHANGED <<expired, cookie, target, historyVars>>

SendRefresh(r) == Send(r) /\ Goto(r, "sent")

\* record.revoked_at is not None
NeverSpent(k) == FALSE                                        \* a mutant
Spent(k) == token[k] = "revoked"

\* rotate reads the token, without locking it.  A request that fails leaves the
\* jar as it is: what it did to the response goes with the exception.
Lookup(r) ==
    LET k == presented[r]
    IN  /\ pc[r] = "sent"
        /\ \/ /\ Spent(k)
              /\ Goto(r, "reuse")
              /\ alarmed' = alarmed \cup {family[k]}
              /\ UNCHANGED answer
           \/ /\ ~Spent(k) /\ k \in expired
              /\ Respond(r, "keep")
              /\ UNCHANGED alarmed
           \/ /\ ~Spent(k) /\ k \notin expired
              /\ Goto(r, "rotate")
              /\ UNCHANGED <<answer, alarmed>>
        /\ UNCHANGED <<serverVars, expired, cookie, presented, issued, target, closed, raced, lost>>

\* The row of the presented token is locked by another rotation of it.
Locked(k) == \E r \in Request : pc[r] = "rotated" /\ presented[r] = k

\* INSERT the successor, then UPDATE the spent row, whatever it says by now.
Rotate(r) ==
    /\ pc[r] = "rotate"
    /\ ~Locked(presented[r])
    /\ \E k \in Fresh : issued' = [issued EXCEPT ![r] = k]
    /\ Goto(r, "rotated")
    /\ UNCHANGED <<serverVars, expired, cookie, presented, target, answer, historyVars>>

\* What a rotation's commit makes of the presented token.
StaysLive(k) == token[k]                                      \* a mutant
Spends(k) == "revoked"

CommitRotation(r) ==
    /\ pc[r] = "rotated"
    /\ token' = [token EXCEPT ![presented[r]] = Spends(presented[r]), ![issued[r]] = "live"]
    /\ family' = [family EXCEPT ![issued[r]] = FamilyOf(r)]
    /\ Respond(r, "set")
    /\ UNCHANGED <<expired, cookie, presented, issued, target, historyVars>>

SendLogout(r) == Send(r) /\ Goto(r, "logout")

\* revoke_family: WHERE family_id = ... AND revoked_at IS NULL, over the rows
\* committed when the statement begins.
OnlyPresented(r) == {presented[r]}                            \* a mutant
ToRevoke(r) == Live(FamilyOf(r))

BeginRevoke(r) ==
    /\ pc[r] \in {"reuse", "logout"}
    /\ Goto(r, "revoking")
    /\ target' = [target EXCEPT ![r] = ToRevoke(r)]
    /\ answer' = [answer EXCEPT ![r] = IF pc[r] = "logout" THEN "clear" ELSE "keep"]
    /\ UNCHANGED <<serverVars, expired, cookie, presented, issued, historyVars>>

\* It waits for the rows a rotation has locked; the commit follows, also when
\* the refresh itself fails.
CommitRevoke(r) ==
    /\ pc[r] = "revoking"
    /\ \A k \in target[r] : ~Locked(k)
    /\ token' = [k \in Token |-> IF k \in target[r] THEN "revoked" ELSE token[k]]
    /\ closed' = closed \cup {FamilyOf(r)}
    /\ target' = [target EXCEPT ![r] = {}]
    /\ Goto(r, "answered")
    /\ UNCHANGED <<family, expired, cookie, presented, issued, answer, raced, lost, alarmed>>

-----------------------------------------------------------------------------

Finish(r) ==
    /\ Goto(r, "idle")
    /\ presented' = [presented EXCEPT ![r] = NoToken]
    /\ issued' = [issued EXCEPT ![r] = NoToken]
    /\ target' = [target EXCEPT ![r] = {}]
    /\ answer' = [answer EXCEPT ![r] = "keep"]

\* The browser applies the Set-Cookie of the response.
Deliver(r) ==
    /\ pc[r] = "answered"
    /\ cookie' = CASE answer[r] = "set"   -> issued[r]
                   [] answer[r] = "clear" -> NoToken
                   [] answer[r] = "keep"  -> cookie
    /\ Finish(r)
    /\ UNCHANGED <<serverVars, expired, historyVars>>

\* The response is lost, or the client has given up waiting for it.
LoseAnswer(r) ==
    /\ "answer" \in Losses
    /\ pc[r] = "answered"
    /\ lost' = lost \cup {FamilyOf(r)}
    /\ Finish(r)
    /\ UNCHANGED <<serverVars, expired, cookie, closed, raced, alarmed>>

\* The request dies before its commit, and its transaction with it.
Abort(r) ==
    /\ "request" \in Losses
    /\ pc[r] \in {"sent", "rotate", "rotated", "logout", "reuse", "revoking"}
    /\ Finish(r)
    /\ UNCHANGED <<serverVars, expired, cookie, historyVars>>

Expire(k) ==
    /\ token[k] = "live"
    /\ expired' = expired \cup {k}
    /\ UNCHANGED <<serverVars, cookie, requestVars, historyVars>>

RequestStep(r) ==
    \/ Login(r) \/ SendRefresh(r) \/ Lookup(r) \/ Rotate(r) \/ CommitRotation(r)
    \/ SendLogout(r) \/ BeginRevoke(r) \/ CommitRevoke(r)
    \/ Deliver(r) \/ LoseAnswer(r) \/ Abort(r)

Next == (\E r \in Request : RequestStep(r)) \/ (\E k \in Token : Expire(k))

Spec == Init /\ [][Next]_vars

-----------------------------------------------------------------------------
(* Properties. *)

\* "Every refresh rotates the token and marks the old one spent": a session has
\* one token that is good, unless its requests overlapped and it forked.
OneLiveToken == \A f \in Token \ raced : Cardinality(Live(f)) <= 1

\* "So the entire family is revoked", and a logout "revokes the whole family":
\* once a family is closed nothing of it is good, unless a request overlapped.
ClosedIsDead == \A f \in closed \ raced : Live(f) = {}

\* The same for every family, as the code's comments have it.
ClosedIsDeadAlways == \A f \in closed : Live(f) = {}

\* A browser that gets its answers, and sends one request of a session at a
\* time, never presents a spent token: the reuse alarm stays silent.
NoFalseAlarm == alarmed \subseteq raced \cup lost

\* A family without a good token, and without a rotation that was let through
\* before, is dead: nothing revives a session.
Dead(f) ==
    /\ \E k \in Token : family[k] = f
    /\ Live(f) = {}
    /\ \A r \in InFlight(f) : pc[r] \notin {"rotate", "rotated"}

DeadStaysDead == [][\A f \in Token : Dead(f) => Dead(f)']_vars
=============================================================================
