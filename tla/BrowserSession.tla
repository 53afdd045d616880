--------------------------- MODULE BrowserSession ---------------------------
(***************************************************************************)
(* The session of one browser (frontend/src/lib/api.ts): its tabs, the     *)
(* calls they make of the API, and the refresh that calls refused with 401 *)
(* share, over the tokens and the cookie jar of TokenFamilies.             *)
(*                                                                         *)
(* An access token is held or not, and may expire at any time.  A step of  *)
(* a tab is one task of its event loop: what awaits a promise goes on in   *)
(* the task that settles it, before any timer.                             *)
(***************************************************************************)
EXTENDS TokenFamilies

CONSTANTS
    Tab,        \* tabs of the browser
    MaxCalls,   \* bound: calls a tab may have under way at one time
    NoRequest   \* no request of TokenFamilies

ASSUME BrowserAssumption ==
    /\ NoRequest \notin Request
    /\ MaxCalls \in Nat

VARIABLES
    access,     \* tabs that hold an access token
    shared,     \* refreshInFlight: none, pending, or settled until the next tick
    awaited,    \* the request whose answer it awaits
    signing,    \* the sign-in or sign-out a tab has under way
    calls,      \* how many calls of each tab are where
    left,       \* history: families a tab signed out of, or gave up a request of
    out         \* history: tabs that signed out, while nobody has signed in

tabVars == <<access, shared, awaited, signing, calls>>
browserVars == <<tabVars, left, out>>
allVars == <<vars, browserVars>>

Awaiting == {"waiting", "resuming", "opening"}
Flying == {"sent", "last"}
CallPlace == Awaiting \cup Flying \cup {"over", "bare"}

BrowserTypeOK ==
    /\ TypeOK
    /\ access \in [Tab -> BOOLEAN]
    /\ shared \in [Tab -> {"none", "pending", "true", "false"}]
    /\ awaited \in [Tab -> Request \cup {NoRequest}]
    /\ signing \in [Tab -> Request \cup {NoRequest}]
    /\ calls \in [Tab -> [CallPlace -> Nat]]
    /\ left \subseteq Token
    /\ out \subseteq Tab

AllOver == [p \in CallPlace |-> IF p = "over" THEN MaxCalls ELSE 0]

BrowserInit ==
    /\ Init
    /\ access = [t \in Tab |-> FALSE]
    /\ shared = [t \in Tab |-> "none"]
    /\ awaited = [t \in Tab |-> NoRequest]
    /\ signing = [t \in Tab |-> NoRequest]
    /\ calls = [t \in Tab |-> AllOver]
    /\ left = {}
    /\ out = {}

-----------------------------------------------------------------------------
(* The shared refresh. *)

\* A call of the tab goes from one place to another.
Move(t, from, to) ==
    /\ calls[t][from] > 0
    /\ calls' = [calls EXCEPT ![t][from] = @ - 1, ![t][to] = @ + 1]

\* How the awaiting caller goes on: a refused request is sent once more, the
\* page's resume sends its first, and a stream is opened with or without token.
GoesOn(place, ok) ==
    CASE place = "opening"          -> "last"
      [] place = "waiting" /\ ok    -> "last"
      [] place = "resuming" /\ ok   -> "sent"
      [] OTHER                      -> "over"

\* All who await the promise go on.
Woken(n, ok) ==
    LET From(place, p) == IF GoesOn(place, ok) = p THEN n[place] ELSE 0
    IN  [p \in CallPlace |->
            IF p \in Awaiting THEN 0
            ELSE n[p] + From("waiting", p) + From("resuming", p) + From("opening", p)]

Settle(t, ok, granted) ==
    /\ shared' = [shared EXCEPT ![t] = IF ok THEN "true" ELSE "false"]
    /\ awaited' = [awaited EXCEPT ![t] = NoRequest]
    /\ access' = [access EXCEPT ![t] = granted]
    /\ calls' = [calls EXCEPT ![t] = Woken(@, ok)]
    /\ UNCHANGED <<signing, out>>

\* The refresh is sent, or fails before a token is looked up.
StartRefresh(t) ==
    /\ shared' = [shared EXCEPT ![t] = "pending"]
    /\ \/ \E r \in Request : SendRefresh(r) /\ awaited' = [awaited EXCEPT ![t] = r]
       \/ /\ cookie = NoToken \/ "request" \in Losses
          /\ UNCHANGED <<vars, awaited>>

\* `if (!refreshInFlight)'
EachItsOwn(t, from, place) ==                                 \* a mutant
    StartRefresh(t) /\ Move(t, from, place)
Refresh(t, from, place) ==
    \/ /\ shared[t] = "none"
       /\ StartRefresh(t)
       /\ Move(t, from, place)
    \/ /\ shared[t] = "pending"
       /\ Move(t, from, place)
       /\ UNCHANGED <<vars, shared, awaited>>
    \/ /\ shared[t] \in {"true", "false"}
       /\ Move(t, from, GoesOn(place, shared[t] = "true"))
       /\ UNCHANGED <<vars, shared, awaited>>

RefreshAnswered(t) ==
    \E r \in Request :
        /\ awaited[t] = r
        /\ Deliver(r)
        /\ LET ok == answer[r] = "set"
           IN  Settle(t, ok, ok \/ access[t])
        /\ UNCHANGED left

RefreshLost(t) ==
    /\ \E r \in Request : awaited[t] = r /\ (LoseAnswer(r) \/ Abort(r))
    /\ Settle(t, FALSE, access[t])
    /\ UNCHANGED left

\* No cookie, or no server.
RefreshUnsent(t) ==
    /\ shared[t] = "pending" /\ awaited[t] = NoRequest
    /\ Settle(t, FALSE, access[t])
    /\ UNCHANGED <<vars, left>>

\* AbortSignal.timeout(REFRESH_TIMEOUT_MS): the server is not told.
NoTimer(t) == FALSE                                           \* a mutant
RefreshTimesOut(t) ==
    /\ "answer" \in Losses
    /\ awaited[t] # NoRequest
    /\ left' = left \cup {FamilyOf(awaited[t])}
    /\ Settle(t, FALSE, access[t])
    /\ UNCHANGED vars

\* setTimeout(() => (refreshInFlight = null), 0)
Tick(t) ==
    /\ shared[t] \in {"true", "false"}
    /\ shared' = [shared EXCEPT ![t] = "none"]
    /\ UNCHANGED <<vars, access, awaited, signing, calls, left, out>>

-----------------------------------------------------------------------------
(* Calls. *)

\* request(): without a token the API is bound to turn it away.
Fetch(t) ==
    /\ Move(t, "over", IF access[t] THEN "sent" ELSE "bare")
    /\ UNCHANGED <<vars, access, shared, awaited, signing, left, out>>

\* resume() without a token; with one it is a Fetch.
Resume(t) ==
    /\ ~access[t]
    /\ Refresh(t, "over", "resuming")
    /\ UNCHANGED <<access, signing, left, out>>

\* ensureFreshToken() and the stream it is for, which is never sent again.
OpenStream(t) ==
    /\ IF access[t]
       THEN Move(t, "over", "last") /\ UNCHANGED <<vars, shared, awaited>>
       ELSE Refresh(t, "over", "opening")
    /\ UNCHANGED <<access, signing, left, out>>

\* Let in, refused a second time, or failed.
Answer(t) ==
    /\ \E place \in Flying : Move(t, place, "over")
    /\ UNCHANGED <<vars, access, shared, awaited, signing, left, out>>

\* 401, with a token that has expired or with none.
HandleRefusal(t) ==
    /\ \E place \in {"sent", "bare"} : Refresh(t, place, "waiting")
    /\ UNCHANGED <<access, signing, left, out>>

-----------------------------------------------------------------------------
(* Signing in and out. *)

SignIn(t) ==
    /\ signing[t] = NoRequest
    /\ \E r \in Request : Login(r) /\ signing' = [signing EXCEPT ![t] = r]
    /\ out' = {}
    /\ UNCHANGED <<access, shared, awaited, calls, left>>

\* Without a cookie there is nothing to revoke.
SignOut(t) ==
    /\ signing[t] = NoRequest /\ access[t]
    /\ \/ /\ \E r \in Request : SendLogout(r) /\ signing' = [signing EXCEPT ![t] = r]
          /\ left' = left \cup {family[cookie]}
          /\ UNCHANGED access
       \/ /\ cookie = NoToken
          /\ access' = [access EXCEPT ![t] = FALSE]
          /\ UNCHANGED <<vars, signing, left>>
    /\ UNCHANGED <<shared, awaited, calls, out>>

\* `finally { accessToken = null }', answered or not.
KeepsAccess(t) == access[t]                                   \* a mutant
AfterSignOut(t) == FALSE

\* Nothing else is about to change the jar.
JarIsQuiet(t) == \A u \in Tab : awaited[u] = NoRequest /\ (u = t \/ signing[u] = NoRequest)

SigningAnswered(t) ==
    \E r \in Request :
        /\ signing[t] = r
        /\ Deliver(r)
        /\ signing' = [signing EXCEPT ![t] = NoRequest]
        /\ \/ /\ answer[r] = "set"
              /\ access' = [access EXCEPT ![t] = TRUE]
              /\ UNCHANGED out
           \/ /\ answer[r] = "clear"
              /\ access' = [access EXCEPT ![t] = AfterSignOut(t)]
              /\ out' = IF JarIsQuiet(t) THEN out \cup {t} ELSE out
        /\ UNCHANGED <<shared, awaited, calls, left>>

SigningLost(t) ==
    \E r \in Request :
        /\ signing[t] = r
        /\ LoseAnswer(r) \/ Abort(r)
        /\ signing' = [signing EXCEPT ![t] = NoRequest]
        /\ access' = [access EXCEPT ![t] = IF answer[r] = "set" THEN @ ELSE AfterSignOut(t)]
        /\ UNCHANGED <<shared, awaited, calls, left, out>>

\* The page is loaded again: module memory is gone, what is in flight given up.
Reload(t) ==
    /\ "answer" \in Losses
    /\ access' = [access EXCEPT ![t] = FALSE]
    /\ shared' = [shared EXCEPT ![t] = "none"]
    /\ awaited' = [awaited EXCEPT ![t] = NoRequest]
    /\ signing' = [signing EXCEPT ![t] = NoRequest]
    /\ calls' = [calls EXCEPT ![t] = AllOver]
    /\ left' = left \cup {FamilyOf(r) : r \in {awaited[t], signing[t]} \ {NoRequest}}
    /\ UNCHANGED <<vars, out>>

-----------------------------------------------------------------------------
(* The server and time. *)

ServerStep(r) ==
    /\ \/ Lookup(r) \/ Rotate(r) \/ CommitRotation(r)
       \/ BeginRevoke(r) \/ CommitRevoke(r)
    /\ UNCHANGED browserVars

\* Nobody listens to the answer of a request that was given up.
Unheard(r) ==
    /\ \A t \in Tab : awaited[t] # r /\ signing[t] # r
    /\ LoseAnswer(r) \/ Abort(r)
    /\ UNCHANGED browserVars

RefreshExpires(k) == Expire(k) /\ UNCHANGED browserVars

TabStep(t) ==
    \/ RefreshAnswered(t) \/ RefreshLost(t) \/ RefreshUnsent(t) \/ RefreshTimesOut(t)
    \/ Tick(t) \/ SignIn(t) \/ SignOut(t) \/ SigningAnswered(t) \/ SigningLost(t)
    \/ Reload(t)

CallStep(t) ==
    \/ Fetch(t) \/ Resume(t) \/ OpenStream(t) \/ Answer(t) \/ HandleRefusal(t)

BrowserNext ==
    \/ \E t \in Tab : TabStep(t) \/ CallStep(t)
    \/ \E r \in Request : ServerStep(r) \/ Unheard(r)
    \/ \E k \in Token : RefreshExpires(k)

\* Of all that may happen only the timer of a refresh, and the failure of a
\* fetch that was never sent, are bound to come: the server need not answer.
BrowserFairness == \A t \in Tab : WF_allVars(RefreshTimesOut(t) \/ RefreshUnsent(t))

BrowserSpec == BrowserInit /\ [][BrowserNext]_allVars /\ BrowserFairness

-----------------------------------------------------------------------------
(* Properties. *)

\* "Concurrent 401s share it" (api.ts): no refresh presents a token another one
\* has spent, however many calls are refused at a time, unless the browser
\* signs out or misses an answer meanwhile.
CallsRaiseNoAlarm == alarmed \subseteq lost \cup left

\* After a sign-out that nothing overlapped, there is no session in the jar and
\* none in the tab, whatever calls are still refused, resumed or sent again.
SignOutHolds == out # {} => cookie = NoToken /\ \A t \in out : ~access[t]

\* "A hanging request must never be able to wedge the caller": whoever waits for
\* the shared refresh is let go on, though no server ever answers and whatever
\* other calls join the wait or begin one of their own.
SomeWait(t) == \E place \in Awaiting : calls[t][place] > 0
EveryWaitEnds == \A t \in Tab : SomeWait(t) ~> ~SomeWait(t)
=============================================================================
