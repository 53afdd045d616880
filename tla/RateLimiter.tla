---------------------------- MODULE RateLimiter ----------------------------
(***************************************************************************)
(* check_rate_limit (core/rate_limit.py) for one action of one identity,   *)
(* called by requests that run side by side.                               *)
(*                                                                         *)
(* A call reads the clock and then runs one transaction on a Redis sorted  *)
(* set: prune what has left the window, count, add itself, extend the key. *)
(* Time is in steps, of which Window is the 60 seconds and Slack the one   *)
(* second the key outlives them.                                           *)
(***************************************************************************)
EXTENDS Integers, FiniteSets

CONSTANTS
    Call,       \* calls of the identity, each made at most once
    Limit,      \* calls to be let through in a window
    Window,     \* window_seconds
    Slack,      \* the second by which EXPIRE exceeds the window
    MaxDelay,   \* bound: from reading the clock to the transaction
    MaxTime     \* bound: the clock

ASSUME LimiterAssumption ==
    /\ Limit \in Nat \ {0} /\ Window \in Nat \ {0} /\ Slack \in Nat
    /\ MaxDelay \in Nat /\ MaxTime \in Nat
    /\ IsFiniteSet(Call)

VARIABLES
    now,        \* the clock, which Redis shares
    pc,         \* where each call is, or how it ended
    stamp,      \* its now_ms
    zset,       \* the calls in the sorted set, each with its stamp as score
    expires,    \* when Redis drops the key
    straggled   \* history: calls whose transaction came after a fresher call's,
                \* or more than Slack after their stamp

vars == <<now, pc, stamp, zset, expires, straggled>>

Time == 0 .. MaxTime
Place == {"new", "stamped", "resent", "admitted", "rejected", "open", "openCounted"}

TypeOK ==
    /\ now \in Time
    /\ pc \in [Call -> Place]
    /\ stamp \in [Call -> Nat]
    /\ zset \subseteq Call
    /\ expires \in Nat
    /\ straggled \subseteq Call

Init ==
    /\ now = 0
    /\ pc = [c \in Call |-> "new"]
    /\ stamp = [c \in Call |-> 0]
    /\ zset = {}
    /\ expires = 0
    /\ straggled = {}

-----------------------------------------------------------------------------

\* The calls whose transaction has been executed.
Counted == {c \in Call : pc[c] \in {"resent", "admitted", "rejected", "openCounted"}}

\* now_ms = int(time.time() * 1000)
ReadClock(c) ==
    /\ pc[c] = "new"
    /\ pc' = [pc EXCEPT ![c] = "stamped"]
    /\ stamp' = [stamp EXCEPT ![c] = now]
    /\ UNCHANGED <<now, zset, expires, straggled>>

\* What ZREMRANGEBYSCORE key 0 now_ms - window_ms leaves.
NotPruned(c) == zset                                          \* a mutant
Unpruned(c) == {d \in zset : stamp[d] > stamp[c] - Window}

\* EXPIRE key window_seconds + 1
Lifetime == now + Window + Slack

\* MULTI: prune, count, add oneself whatever the count, extend the key.
Transact(c) ==
    /\ zset' = Unpruned(c) \cup {c}
    /\ expires' = Lifetime
    /\ straggled' = IF \/ \E d \in Counted : stamp[d] > stamp[c]
                       \/ now > stamp[c] + Slack
                    THEN straggled \cup {c} ELSE straggled
    /\ UNCHANGED <<now, stamp>>

\* int(count) >= limit
OneTooMany(n) == n > Limit                                    \* a mutant
Exceeds(n) == n >= Limit

Check(c) ==
    /\ pc[c] \in {"stamped", "resent"}
    /\ Transact(c)
    /\ pc' = [pc EXCEPT ![c] =
                 IF Exceeds(Cardinality(Unpruned(c))) THEN "rejected" ELSE "admitted"]

\* The reply is lost: the client sends the transaction again, with the same
\* member (retry_on_timeout).
CheckUnheard(c) ==
    /\ pc[c] = "stamped"
    /\ Transact(c)
    /\ pc' = [pc EXCEPT ![c] = "resent"]

\* Redis cannot be reached: the limiter fails open, also when the transaction
\* was executed and its reply lost.
FailOpen(c) ==
    /\ pc[c] \in {"stamped", "resent"}
    /\ pc' = [pc EXCEPT ![c] = IF pc[c] = "resent" THEN "openCounted" ELSE "open"]
    /\ UNCHANGED <<now, stamp, zset, expires, straggled>>

\* Time passes, and with it the key; the timeouts of the socket bound a call.
Tick ==
    /\ now < MaxTime
    /\ \A c \in Call : pc[c] \in {"stamped", "resent"} => now < stamp[c] + MaxDelay
    /\ now' = now + 1
    /\ zset' = IF now + 1 >= expires THEN {} ELSE zset
    /\ UNCHANGED <<pc, stamp, expires, straggled>>

Next ==
    \/ \E c \in Call : ReadClock(c) \/ Check(c) \/ CheckUnheard(c) \/ FailOpen(c)
    \/ Tick

Spec == Init /\ [][Next]_vars

-----------------------------------------------------------------------------
(* Properties. *)

\* The calls that read the clock in the window that ends at t.
InWindow(t) == {c \in Call : pc[c] # "new" /\ t - Window < stamp[c] /\ stamp[c] <= t}

Admitted(t) == {c \in InWindow(t) : pc[c] = "admitted"}

\* No window lets more than Limit calls through, if none of its calls came late
\* to Redis: behind a fresher one, or after the key could have expired.
OrderlyWindow ==
    \A t \in Time :
        InWindow(t) \cap straggled = {} => Cardinality(Admitted(t)) <= Limit

\* A call is turned away only when its window holds Limit calls: others, or
\* itself when it had to be sent twice.
RejectsOnlyFullWindows ==
    [][\A c \in Call :
          pc[c] # "rejected" /\ pc'[c] = "rejected" =>
              Cardinality({d \in Counted : stamp[d] > stamp[c] - Window}) >= Limit]_vars
=============================================================================
