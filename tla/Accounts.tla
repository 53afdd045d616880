------------------------------ MODULE Accounts ------------------------------
(***************************************************************************)
(* Registrations and workspaces: register (services/auth_service.py, with  *)
(* its route in api/v1/auth.py) and the create and delete of               *)
(* api/v1/workspaces.py, over the unique indexes of                        *)
(* db/models/identity.py.                                                  *)
(*                                                                         *)
(* A registration is one transaction of several flushes.  A check sees     *)
(* what is committed; an insert also waits for an uncommitted row with its *)
(* key, and fails when that row is committed.                              *)
(***************************************************************************)
EXTENDS Naturals, Sequences, FiniteSets

CONSTANTS
    Registration,   \* requests to register, each an account once committed
    Creation,       \* requests to create a workspace, each a workspace
    Typed,          \* e-mail addresses as people type them
    Canon,          \* normalize_email, of every typed address
    Word,           \* what slugs are made of, numbers among them
    OrgName,        \* slugs of organization names, as sequences of words
    Owner,          \* the account whose organization a creation is for
    Named,          \* the slug of the name it gives
    General,        \* "general", the slug of the first workspace
    MaxSuffix       \* numbered slugs to try, 99 in the code

ASSUME AccountsAssumption ==
    /\ IsFiniteSet(Registration)
    /\ Registration \cap Creation = {}
    /\ Owner \in [Creation -> Registration]
    /\ OrgName \subseteq Seq(Word)
    /\ Registration \cap (Word \cup Nat) = {}
    /\ MaxSuffix \in Nat

VARIABLES
    pc,         \* where each registration is, or how it ended
    typed,      \* the address it gave
    base,       \* the slug of its organization's name
    slug,       \* the slug it chose
    wpc,        \* where each creation is, or how it ended
    live,       \* workspaces with a row
    seen        \* history: what was committed of its kind when a request made its check

accounts == <<pc, typed, base, slug>>
vars == <<accounts, wpc, live, seen>>

Workspace == Registration \cup Creation
Organization(w) == IF w \in Registration THEN w ELSE Owner[w]
WsSlug(w) == IF w \in Registration THEN General ELSE Named[w]

Init ==
    /\ pc = [r \in Registration |-> "new"]
    /\ typed \in [Registration -> Typed]
    /\ base \in [Registration -> OrgName]
    /\ slug = [r \in Registration |-> <<>>]
    /\ wpc = [w \in Creation |-> "new"]
    /\ live = {}
    /\ seen = [x \in Workspace |-> {}]

-----------------------------------------------------------------------------
(* Registering. *)

AsTyped(r) == typed[r]                                        \* a mutant
Email(r) == Canon[typed[r]]

Committed == {r \in Registration : pc[r] = "committed"}

\* The uncommitted transactions that hold a user row, or also an organization.
HoldsUser == {r \in Registration : pc[r] \in {"user", "slug", "organization"}}
LocksForever == {r \in Registration : slug[r] # <<>> /\ pc[r] # "slug"}   \* a mutant
HoldsOrganization == {r \in Registration : pc[r] = "organization"}

Ends(r, how) == pc' = [pc EXCEPT ![r] = how]

EmailTaken(r) == \E q \in Committed : Email(q) = Email(r)

CheckEmail(r) ==
    /\ pc[r] = "new"
    /\ Ends(r, IF EmailTaken(r) THEN "conflict" ELSE "checked")
    /\ seen' = [seen EXCEPT ![r] = Committed]
    /\ UNCHANGED <<typed, base, slug, wpc, live>>

\* The flush that inserts the user: a duplicate fails here, before the try.
InsertUser(r) ==
    /\ pc[r] = "checked"
    /\ \A q \in HoldsUser : Email(q) # Email(r)
    /\ Ends(r, IF \E q \in Committed : Email(q) = Email(r) THEN "failed" ELSE "user")
    /\ UNCHANGED <<typed, base, slug, wpc, live, seen>>

\* _unique_org_slug: the name, or the name with the first number that is not
\* taken, or with a random one that nobody else draws.
Candidate(r, n) == IF n = 0 THEN base[r] ELSE Append(base[r], n)
Taken(s) == \E q \in Committed : slug[q] = s
EveryNumber(r) == 0 .. MaxSuffix                              \* a mutant
FreeNumbers(r) == {n \in 0 .. MaxSuffix : ~Taken(Candidate(r, n))}

ChooseSlug(r) ==
    /\ pc[r] = "user"
    /\ Ends(r, "slug")
    /\ slug' = [slug EXCEPT ![r] =
                   IF FreeNumbers(r) = {} THEN Append(base[r], r)
                   ELSE Candidate(r, CHOOSE n \in FreeNumbers(r) :
                                         \A m \in FreeNumbers(r) : n <= m)]
    /\ UNCHANGED <<typed, base, wpc, live, seen>>

\* The flush that inserts the organization; a failure takes the user with it.
InsertOrganization(r) ==
    /\ pc[r] = "slug"
    /\ \A q \in HoldsOrganization : slug[q] # slug[r]
    /\ Ends(r, IF Taken(slug[r]) THEN "failed" ELSE "organization")
    /\ UNCHANGED <<typed, base, slug, wpc, live, seen>>

\* Membership and first workspace are new with the organization; the route
\* adds a token and commits.
CommitAccount(r) ==
    /\ pc[r] = "organization"
    /\ Ends(r, "committed")
    /\ live' = live \cup {r}
    /\ UNCHANGED <<typed, base, slug, wpc, seen>>

\* The process or its connection dies: nothing of the transaction stays.
Abort(r) ==
    /\ pc[r] \in {"checked", "user", "slug", "organization"}
    /\ Ends(r, "aborted")
    /\ UNCHANGED <<typed, base, slug, wpc, live, seen>>

-----------------------------------------------------------------------------
(* Workspaces of an organization: its owner creates and deletes them. *)

Created == {w \in Creation : wpc[w] = "created"}
SameSlug(w) ==
    {v \in live \ {w} : Organization(v) = Organization(w) /\ WsSlug(v) = WsSlug(w)}

CheckSlug(w) ==
    /\ wpc[w] = "new" /\ Owner[w] \in Committed
    /\ wpc' = [wpc EXCEPT ![w] = IF SameSlug(w) = {} THEN "checked" ELSE "conflict"]
    /\ seen' = [seen EXCEPT ![w] = Created]
    /\ UNCHANGED <<accounts, live>>

\* Insert and commit, on the index on (org_id, slug).
CommitWorkspace(w) ==
    /\ wpc[w] = "checked"
    /\ wpc' = [wpc EXCEPT ![w] = IF SameSlug(w) = {} THEN "created" ELSE "failed"]
    /\ live' = IF SameSlug(w) = {} THEN live \cup {w} ELSE live
    /\ UNCHANGED <<accounts, seen>>

\* Its slug is free again.
DeleteWorkspace(w) ==
    /\ w \in live
    /\ live' = live \ {w}
    /\ UNCHANGED <<accounts, wpc, seen>>

RegisterStep(r) ==
    \/ CheckEmail(r) \/ InsertUser(r) \/ ChooseSlug(r)
    \/ InsertOrganization(r) \/ CommitAccount(r)

Next ==
    \/ \E r \in Registration : RegisterStep(r) \/ Abort(r)
    \/ \E w \in Creation : CheckSlug(w) \/ CommitWorkspace(w)
    \/ \E w \in Workspace : DeleteWorkspace(w)

\* A request is served to its end, or dies.
Fairness == \A r \in Registration : WF_vars(RegisterStep(r))

Spec == Init /\ [][Next]_vars /\ Fairness

-----------------------------------------------------------------------------
(* Properties. *)

\* However many register side by side, an address has one account, however it
\* was typed; a slug has one organization, and within it one workspace.
OneAccountEach ==
    /\ \A q, r \in Committed :
          q # r => Canon[typed[q]] # Canon[typed[r]] /\ slug[q] # slug[r]
    /\ \A w \in live : Organization(w) \in Committed /\ SameSlug(w) = {}

\* A request that runs by itself does not fail: whoever passes the check and
\* still fails on an index lost it to another one made since.  A name that is
\* taken costs a registration its short slug and nothing else, however many
\* share it; a slug that was freed fails nobody.
FailsOnlyInARace ==
    /\ \A r \in Registration : pc[r] = "failed" =>
          \E q \in Committed \ seen[r] :
              Canon[typed[q]] = Canon[typed[r]] \/ slug[q] = slug[r]
    /\ \A w \in Creation : wpc[w] = "failed" =>
          \E v \in Created \ seen[w] : Owner[v] = Owner[w] /\ Named[v] = Named[w]

\* Registrations that wait for each other do not wait for ever.
RegistrationsEnd ==
    \A r \in Registration :
        pc[r] = "checked" ~> pc[r] \in {"committed", "failed", "aborted"}
=============================================================================
