-------------------------- MODULE Accounts_proofs --------------------------
(***************************************************************************)
(* What registrations and creations promise, however many run side by      *)
(* side.                                                                   *)
(*                                                                         *)
(* The indexes are what makes it true: of the transactions that have       *)
(* inserted a row no two have its key (Claims), so the checks before may   *)
(* be as stale as they like.  A workspace belongs to an account that is    *)
(* committed, which is why a new account's first workspace meets no other. *)
(*                                                                         *)
(* A failure takes a race because what a request saw at its check stays as *)
(* it was (RegistrationsSeen, CreationsSeen): the committed keys of that   *)
(* time are not the request's, so the one it fails on is younger.          *)
(***************************************************************************)
EXTENDS Accounts, WellFoundedInduction, TLAPS

Place == {"new", "checked", "user", "slug", "organization",
          "committed", "conflict", "failed", "aborted"}

TypeOK ==
    /\ pc \in [Registration -> Place]
    /\ typed \in [Registration -> Typed]
    /\ base \in [Registration -> OrgName]
    /\ DOMAIN slug = Registration
    /\ \A r \in Registration : slug[r] \in Seq(Word \cup Nat \cup {r})
    /\ seen \in [Workspace -> SUBSET Workspace]
    /\ wpc \in [Creation -> {"new", "checked", "conflict", "created", "failed"}]
    /\ live \subseteq Workspace

\* A key of an index has one transaction that inserted it, committed or not.
Claims ==
    /\ \A q, r \in Committed \cup HoldsUser : q # r => Email(q) # Email(r)
    /\ \A q, r \in Committed \cup HoldsOrganization : q # r => slug[q] # slug[r]

LiveOwned == \A w \in live : Organization(w) \in Committed
LiveApart == \A w \in live : SameSlug(w) = {}
LiveCreated == \A w \in live \cap Creation : wpc[w] = "created"
CheckedOwned == \A w \in Creation : wpc[w] = "checked" => Owner[w] \in Committed

\* No key of what a registration saw committed is its own.
RegistrationsSeen ==
    \A r \in Registration :
        /\ seen[r] \subseteq Committed
        /\ pc[r] = "checked" => \A q \in seen[r] : Email(q) # Email(r)
        /\ pc[r] = "slug" => \A q \in seen[r] : slug[q] # slug[r]

\* A workspace in the way of a creation that passed the check is younger.
CreationsSeen ==
    \A w \in Creation :
        /\ seen[w] \subseteq Created
        /\ wpc[w] = "checked" => SameSlug(w) \subseteq Created \ seen[w]

RegistrationsRace ==
    \A r \in Registration : pc[r] = "failed" =>
        \E q \in Committed \ seen[r] : Email(q) = Email(r) \/ slug[q] = slug[r]

CreationsRace ==
    \A w \in Creation : wpc[w] = "failed" =>
        \E v \in Created \ seen[w] : Owner[v] = Owner[w] /\ Named[v] = Named[w]

IInv ==
    /\ TypeOK /\ Claims
    /\ LiveOwned /\ LiveApart /\ LiveCreated /\ CheckedOwned
    /\ RegistrationsSeen /\ CreationsSeen
    /\ RegistrationsRace /\ CreationsRace

-----------------------------------------------------------------------------
LEMMA InitInv == Init => IInv
<1> SUFFICES ASSUME Init PROVE IInv
  OBVIOUS
<1>1. TypeOK
  BY AccountsAssumption DEF Init, TypeOK, Place, Workspace
<1>2. Claims /\ LiveOwned /\ LiveApart /\ LiveCreated /\ CheckedOwned
  BY DEF Init, Claims, LiveOwned, LiveApart, LiveCreated, CheckedOwned, Committed,
         HoldsUser, HoldsOrganization
<1>3. RegistrationsSeen /\ CreationsSeen /\ RegistrationsRace /\ CreationsRace
  BY DEF Init, RegistrationsSeen, CreationsSeen, RegistrationsRace, CreationsRace, Workspace
<1> QED
  BY <1>1, <1>2, <1>3 DEF IInv

\* A registration whose step does not commit leaves the workspaces alone.
LEMMA WorkspacesStay ==
  ASSUME IInv, NEW r \in Registration, NEW how \in Place \ {"committed"},
         pc[r] # "committed", Ends(r, how), UNCHANGED <<wpc, live>>,
         \A w \in Creation : seen'[w] = seen[w]
  PROVE  /\ LiveOwned' /\ LiveApart' /\ LiveCreated' /\ CheckedOwned'
         /\ CreationsSeen' /\ CreationsRace' /\ Committed' = Committed
<1>1. Committed' = Committed
  BY DEF IInv, TypeOK, Ends, Committed
<1>2. LiveOwned' /\ LiveApart' /\ LiveCreated' /\ CheckedOwned'
  BY <1>1 DEF IInv, LiveOwned, LiveApart, LiveCreated, CheckedOwned, SameSlug, Organization, WsSlug
<1>3. CreationsSeen' /\ CreationsRace'
  BY DEF IInv, CreationsSeen, CreationsRace, Created, SameSlug, Organization, WsSlug
<1> QED
  BY <1>1, <1>2, <1>3

\* And it needs to speak for itself only.
LEMMA OthersStay ==
  ASSUME IInv, NEW r \in Registration, NEW how \in Place \ {"committed"},
         pc[r] # "committed", Ends(r, how), typed' = typed,
         \A q \in Registration \ {r} : slug'[q] = slug[q] /\ seen'[q] = seen[q],
         seen'[r] \subseteq Committed,
         how = "checked" => \A q \in seen'[r] : Email(q) # Email(r),
         how = "slug" => \A q \in seen'[r] : slug[q] # slug'[r],
         how = "failed" =>
             \E q \in Committed \ seen'[r] : Email(q) = Email(r) \/ slug[q] = slug'[r]
  PROVE  RegistrationsSeen' /\ RegistrationsRace'
<1>1. Committed' = Committed /\ Committed \subseteq Registration \ {r}
  BY DEF IInv, TypeOK, Ends, Committed
<1>2. /\ pc'[r] = how
      /\ \A q \in Registration \ {r} : pc'[q] = pc[q]
  BY DEF IInv, TypeOK, Ends
<1>3. \A q \in Registration : Email(q)' = Email(q)
  BY DEF Email
<1>4. \A q \in Committed : slug'[q] = slug[q]
  BY <1>1
<1>5. RegistrationsSeen'
  <2> SUFFICES ASSUME NEW x \in Registration
               PROVE  /\ seen'[x] \subseteq Committed'
                      /\ pc'[x] = "checked" => \A q \in seen'[x] : Email(q)' # Email(x)'
                      /\ pc'[x] = "slug" => \A q \in seen'[x] : slug'[q] # slug'[x]
    BY DEF RegistrationsSeen
  <2>1. CASE x = r
    BY <1>1, <1>2, <1>3, <1>4, <2>1
  <2>2. CASE x # r
    <3>1. /\ seen'[x] = seen[x] /\ pc'[x] = pc[x] /\ slug'[x] = slug[x]
          /\ seen[x] \subseteq Committed
      BY <1>2, <2>2 DEF IInv, RegistrationsSeen
    <3> QED
      BY <1>1, <1>3, <1>4, <3>1 DEF IInv, RegistrationsSeen
  <2> QED
    BY <2>1, <2>2
<1>6. RegistrationsRace'
  <2> SUFFICES ASSUME NEW x \in Registration, pc'[x] = "failed"
               PROVE  \E q \in Committed' \ seen'[x] :
                          Email(q)' = Email(x)' \/ slug'[q] = slug'[x]
    BY DEF RegistrationsRace
  <2>1. CASE x = r
    BY <1>1, <1>2, <1>3, <1>4, <2>1
  <2>2. CASE x # r
    <3>1. PICK q \in Committed \ seen[x] : Email(q) = Email(x) \/ slug[q] = slug[x]
      BY <1>2, <2>2 DEF IInv, RegistrationsRace
    <3>2. seen'[x] = seen[x] /\ slug'[x] = slug[x] /\ slug'[q] = slug[q]
      BY <1>4, <2>2
    <3> QED
      BY <1>1, <1>3, <3>1, <3>2
  <2> QED
    BY <2>1, <2>2
<1> QED
  BY <1>5, <1>6

\* A set of numbers has a least one.
LEMMA Least ==
    ASSUME NEW S \in SUBSET Nat, S # {}
    PROVE  \E m \in S : \A x \in S : m <= x
<1>1. IsWellFoundedOn(OpToRel(<, Nat), Nat)
  BY NatLessThanWellFounded
<1>2. PICK m \in S : \A x \in S : ~ (<<x, m>> \in OpToRel(<, Nat))
  BY <1>1, WFMin
<1>3. \A x \in S : x < m => <<x, m>> \in OpToRel(<, Nat)
  BY DEF OpToRel
<1>4. ASSUME NEW x \in S PROVE m <= x
  <2>1. x \in Nat /\ m \in Nat /\ ~(x < m)
    BY <1>2, <1>3
  <2>2. QED BY <2>1
<1>5. QED BY <1>4

-----------------------------------------------------------------------------
(* One lemma per action. *)

\* The check reads committed rows only, and holds nothing.
LEMMA CheckEmailInv ==
  ASSUME IInv, NEW r \in Registration, CheckEmail(r)
  PROVE  IInv'
<1> DEFINE how == IF EmailTaken(r) THEN "conflict" ELSE "checked"
<1>1. /\ how \in Place \ {"committed"} /\ pc[r] = "new" /\ Ends(r, how)
      /\ seen' = [seen EXCEPT ![r] = Committed]
  BY DEF CheckEmail, Place
<1>2. UNCHANGED <<typed, base, slug, wpc, live>>
  BY DEF CheckEmail
<1>3. r \in Workspace /\ Committed \subseteq Workspace
  BY DEF Workspace, Committed
<1>4. /\ seen'[r] = Committed
      /\ \A x \in Workspace \ {r} : seen'[x] = seen[x]
      /\ Creation \subseteq Workspace \ {r} /\ Registration \subseteq Workspace
  BY <1>1, <1>3, AccountsAssumption DEF IInv, TypeOK, Workspace
<1>5. /\ LiveOwned' /\ LiveApart' /\ LiveCreated' /\ CheckedOwned'
      /\ CreationsSeen' /\ CreationsRace' /\ Committed' = Committed
  BY <1>1, <1>2, <1>4, WorkspacesStay
<1>6. TypeOK'
  BY <1>1, <1>2, <1>3 DEF IInv, TypeOK, Ends
<1>7. HoldsUser' = HoldsUser /\ HoldsOrganization' = HoldsOrganization
  BY <1>1 DEF IInv, TypeOK, Ends, HoldsUser, HoldsOrganization
<1>8. Claims'
  BY <1>2, <1>5, <1>7 DEF IInv, Claims, Email
<1>9. RegistrationsSeen' /\ RegistrationsRace'
  BY <1>1, <1>2, <1>4, OthersStay DEF EmailTaken
<1> QED
  BY <1>5, <1>6, <1>8, <1>9 DEF IInv

\* The insert succeeds only where no committed or uncommitted row has the key.
LEMMA InsertUserInv ==
  ASSUME IInv, NEW r \in Registration, InsertUser(r)
  PROVE  IInv'
<1> DEFINE taken == \E q \in Committed : Email(q) = Email(r)
<1> DEFINE how == IF taken THEN "failed" ELSE "user"
<1>1. how \in Place \ {"committed"} /\ pc[r] = "checked" /\ Ends(r, how)
  BY DEF InsertUser, Place
<1>2. UNCHANGED <<typed, base, slug, wpc, live, seen>>
  BY DEF InsertUser
<1>3. /\ LiveOwned' /\ LiveApart' /\ LiveCreated' /\ CheckedOwned'
      /\ CreationsSeen' /\ CreationsRace' /\ Committed' = Committed
  BY <1>1, <1>2, WorkspacesStay
<1>4. TypeOK'
  BY <1>1, <1>2 DEF IInv, TypeOK, Ends, Workspace
<1>5. /\ HoldsUser' = IF taken THEN HoldsUser ELSE HoldsUser \cup {r}
      /\ HoldsOrganization' = HoldsOrganization
  BY <1>1 DEF IInv, TypeOK, Ends, HoldsUser, HoldsOrganization
<1>6. ~taken => \A q \in Committed \cup HoldsUser : Email(q) # Email(r)
  BY DEF InsertUser
<1>7. Claims'
  BY <1>2, <1>3, <1>5, <1>6 DEF IInv, Claims, Email
<1>8. RegistrationsSeen' /\ RegistrationsRace'
  <2>1. how = "failed" => \E q \in Committed \ seen[r] : Email(q) = Email(r) \/ slug[q] = slug[r]
    BY <1>1 DEF IInv, RegistrationsSeen
  <2> QED
    BY <1>1, <1>2, <2>1, OthersStay DEF IInv, RegistrationsSeen
<1> QED
  BY <1>3, <1>4, <1>7, <1>8 DEF IInv

\* The slug is chosen before its key is held.
LEMMA ChooseSlugInv ==
  ASSUME IInv, NEW r \in Registration, ChooseSlug(r)
  PROVE  IInv'
<1> DEFINE new == IF FreeNumbers(r) = {} THEN Append(base[r], r)
                  ELSE Candidate(r, CHOOSE n \in FreeNumbers(r) :
                                        \A m \in FreeNumbers(r) : n <= m)
<1>1. /\ "slug" \in Place \ {"committed"} /\ pc[r] = "user" /\ Ends(r, "slug")
      /\ slug' = [slug EXCEPT ![r] = new]
  BY DEF ChooseSlug, Place
<1>2. UNCHANGED <<typed, base, wpc, live, seen>>
  BY DEF ChooseSlug
<1>3. base[r] \in Seq(Word)
  BY AccountsAssumption DEF IInv, TypeOK
<1>4. new \in Seq(Word \cup Nat \cup {r}) /\ \A q \in Committed : slug[q] # new
  <2>1. CASE FreeNumbers(r) = {}
    <3>1. new = Append(base[r], r)
      BY <2>1
    <3>2. new \in Seq(Word \cup Nat \cup {r}) /\ new[Len(new)] = r /\ Len(new) \in 1 .. Len(new)
      BY <1>3, <3>1
    <3>3. ASSUME NEW q \in Committed, slug[q] = new
          PROVE  FALSE
      <4>1. q \in Registration /\ q # r /\ new \in Seq(Word \cup Nat \cup {q})
        BY <1>1, <3>3 DEF IInv, TypeOK, Committed
      <4>2. r \in Word \cup Nat \cup {q}
        BY <3>2, <4>1
      <4> QED
        BY <4>1, <4>2, AccountsAssumption
    <3> QED
      BY <3>2, <3>3
  <2>2. CASE FreeNumbers(r) # {}
    <3>1. FreeNumbers(r) \subseteq Nat
      BY DEF FreeNumbers
    <3>2. \E n \in FreeNumbers(r) : \A m \in FreeNumbers(r) : n <= m
      BY <2>2, <3>1, Least
    <3>3. PICK n \in FreeNumbers(r) : new = Candidate(r, n)
      BY <2>2, <3>2
    <3>4. ~Taken(new)
      BY <3>3 DEF FreeNumbers
    <3>5. new \in Seq(Word \cup Nat \cup {r})
      BY <1>3, <3>1, <3>3 DEF Candidate
    <3> QED
      BY <3>4, <3>5 DEF Taken
  <2> QED
    BY <2>1, <2>2
<1> HIDE DEF new
<1>5. slug'[r] = new /\ \A q \in Registration \ {r} : slug'[q] = slug[q]
  BY <1>1 DEF IInv, TypeOK
<1>6. /\ LiveOwned' /\ LiveApart' /\ LiveCreated' /\ CheckedOwned'
      /\ CreationsSeen' /\ CreationsRace' /\ Committed' = Committed
  BY <1>1, <1>2, WorkspacesStay
<1>7. TypeOK'
  BY <1>1, <1>2, <1>4, <1>5 DEF IInv, TypeOK, Ends
<1>8. HoldsUser' = HoldsUser /\ HoldsOrganization' = HoldsOrganization
  BY <1>1 DEF IInv, TypeOK, Ends, HoldsUser, HoldsOrganization
<1>9. Committed \cup HoldsOrganization \subseteq Registration \ {r}
  BY <1>1 DEF Committed, HoldsOrganization
<1>10. Claims'
  BY <1>2, <1>5, <1>6, <1>8, <1>9 DEF IInv, Claims, Email
<1>11. RegistrationsSeen' /\ RegistrationsRace'
  <2>1. seen[r] \subseteq Committed
    BY DEF IInv, RegistrationsSeen
  <2> QED
    BY <1>1, <1>2, <1>4, <1>5, <2>1, OthersStay
<1> QED
  BY <1>6, <1>7, <1>10, <1>11 DEF IInv

\* Like the user's, on the slug.
LEMMA InsertOrganizationInv ==
  ASSUME IInv, NEW r \in Registration, InsertOrganization(r)
  PROVE  IInv'
<1> DEFINE taken == \E q \in Committed : slug[q] = slug[r]
<1> DEFINE how == IF taken THEN "failed" ELSE "organization"
<1>1. how \in Place \ {"committed"} /\ pc[r] = "slug" /\ Ends(r, how)
  BY DEF InsertOrganization, Place, Taken
<1>2. UNCHANGED <<typed, base, slug, wpc, live, seen>>
  BY DEF InsertOrganization
<1>3. /\ LiveOwned' /\ LiveApart' /\ LiveCreated' /\ CheckedOwned'
      /\ CreationsSeen' /\ CreationsRace' /\ Committed' = Committed
  BY <1>1, <1>2, WorkspacesStay
<1>4. TypeOK'
  BY <1>1, <1>2 DEF IInv, TypeOK, Ends, Workspace
<1>5. /\ HoldsUser' = IF taken THEN HoldsUser \ {r} ELSE HoldsUser
      /\ HoldsOrganization' = IF taken THEN HoldsOrganization ELSE HoldsOrganization \cup {r}
  BY <1>1 DEF IInv, TypeOK, Ends, HoldsUser, HoldsOrganization
<1>6. ~taken => \A q \in Committed \cup HoldsOrganization : slug[q] # slug[r]
  BY DEF InsertOrganization
<1>7. Claims'
  BY <1>2, <1>3, <1>5, <1>6 DEF IInv, Claims, Email
<1>8. RegistrationsSeen' /\ RegistrationsRace'
  <2>1. how = "failed" => \E q \in Committed \ seen[r] : Email(q) = Email(r) \/ slug[q] = slug[r]
    BY <1>1 DEF IInv, RegistrationsSeen
  <2> QED
    BY <1>1, <1>2, <2>1, OthersStay DEF IInv, RegistrationsSeen
<1> QED
  BY <1>3, <1>4, <1>7, <1>8 DEF IInv

\* What was held becomes committed; no workspace is the new account's yet.
LEMMA CommitAccountInv ==
  ASSUME IInv, NEW r \in Registration, CommitAccount(r)
  PROVE  IInv'
<1>1. pc[r] = "organization" /\ Ends(r, "committed") /\ live' = live \cup {r}
  BY DEF CommitAccount
<1>2. UNCHANGED <<typed, base, slug, wpc, seen>>
  BY DEF CommitAccount
<1>3. /\ Committed' = Committed \cup {r} /\ r \notin Committed
      /\ r \in HoldsUser /\ HoldsUser' = HoldsUser \ {r}
      /\ r \in HoldsOrganization /\ HoldsOrganization' = HoldsOrganization \ {r}
  BY <1>1 DEF IInv, TypeOK, Ends, Committed, HoldsUser, HoldsOrganization
<1>4. TypeOK'
  BY <1>1, <1>2 DEF IInv, TypeOK, Ends, Workspace, Place
<1>5. Claims'
  BY <1>2, <1>3 DEF IInv, Claims, Email
<1>6. r \notin Creation
  BY AccountsAssumption
<1>7. LiveOwned' /\ LiveCreated' /\ CheckedOwned'
  BY <1>1, <1>2, <1>3, <1>6
  DEF IInv, LiveOwned, LiveCreated, CheckedOwned, Organization
<1>8. LiveApart'
  <2>1. \A w \in live : Organization(w) # Organization(r)
    BY <1>3 DEF IInv, LiveOwned, Organization
  <2> QED
    BY <1>1, <2>1 DEF IInv, LiveApart, SameSlug, Organization, WsSlug
<1>9. RegistrationsSeen' /\ RegistrationsRace'
  <2>1. \A q \in Registration : pc'[q] \in {"checked", "slug", "failed"} => pc[q] = pc'[q]
    BY <1>1 DEF IInv, TypeOK, Ends
  <2>2. RegistrationsSeen'
    BY <1>2, <1>3, <2>1 DEF IInv, RegistrationsSeen, Email
  <2>3. RegistrationsRace'
    BY <1>2, <1>3, <2>1 DEF IInv, RegistrationsRace, Email
  <2> QED
    BY <2>2, <2>3
<1>10. CreationsSeen' /\ CreationsRace'
  <2>1. \A w \in Creation : wpc[w] = "checked" => SameSlug(w)' = SameSlug(w)
    BY <1>1, <1>3, <1>6 DEF IInv, CheckedOwned, SameSlug, Organization, WsSlug
  <2> QED
    BY <1>2, <2>1 DEF IInv, CreationsSeen, CreationsRace, Created
<1> QED
  BY <1>4, <1>5, <1>7, <1>8, <1>9, <1>10 DEF IInv

\* Nothing that was held is held any more.
LEMMA AbortInv ==
  ASSUME IInv, NEW r \in Registration, Abort(r)
  PROVE  IInv'
<1>1. /\ "aborted" \in Place \ {"committed"} /\ pc[r] # "committed"
      /\ Ends(r, "aborted")
  BY DEF Abort, Place
<1>2. UNCHANGED <<typed, base, slug, wpc, live, seen>>
  BY DEF Abort
<1>3. /\ LiveOwned' /\ LiveApart' /\ LiveCreated' /\ CheckedOwned'
      /\ CreationsSeen' /\ CreationsRace' /\ Committed' = Committed
  BY <1>1, <1>2, WorkspacesStay
<1>4. TypeOK'
  BY <1>1, <1>2 DEF IInv, TypeOK, Ends, Workspace
<1>5. HoldsUser' = HoldsUser \ {r} /\ HoldsOrganization' = HoldsOrganization \ {r}
  BY <1>1 DEF IInv, TypeOK, Ends, HoldsUser, HoldsOrganization
<1>6. Claims'
  BY <1>2, <1>3, <1>5 DEF IInv, Claims, Email
<1>7. RegistrationsSeen' /\ RegistrationsRace'
  BY <1>1, <1>2, OthersStay DEF IInv, RegistrationsSeen
<1> QED
  BY <1>3, <1>4, <1>6, <1>7 DEF IInv

-----------------------------------------------------------------------------
LEMMA CheckSlugInv ==
  ASSUME IInv, NEW w \in Creation, CheckSlug(w)
  PROVE  IInv'
<1> DEFINE how == IF SameSlug(w) = {} THEN "checked" ELSE "conflict"
<1>1. /\ wpc[w] = "new" /\ Owner[w] \in Committed
      /\ wpc' = [wpc EXCEPT ![w] = how] /\ UNCHANGED <<accounts, live>>
      /\ seen' = [seen EXCEPT ![w] = Created]
  BY DEF CheckSlug
<1>2. Created' = Created /\ w \in Workspace /\ Created \subseteq Workspace /\ w \notin Registration
  BY <1>1, AccountsAssumption DEF IInv, TypeOK, Created, Workspace
<1>3. TypeOK'
  BY <1>1, <1>2 DEF IInv, TypeOK, accounts
<1>4. Claims' /\ LiveOwned' /\ LiveApart'
  BY <1>1 DEF IInv, Claims, LiveOwned, LiveApart, accounts,
              Committed, HoldsUser, HoldsOrganization, Email, SameSlug, Organization, WsSlug
<1>5. LiveCreated' /\ CheckedOwned'
  BY <1>1 DEF IInv, TypeOK, LiveCreated, CheckedOwned, Committed, accounts
<1>6. \A x \in Workspace \ {w} : seen'[x] = seen[x]
  BY <1>1 DEF IInv, TypeOK
<1>7. RegistrationsSeen' /\ RegistrationsRace'
  BY <1>1, <1>2, <1>6
  DEF IInv, RegistrationsSeen, RegistrationsRace, Committed, accounts, Email, Workspace
<1>8. CreationsSeen' /\ CreationsRace'
  <2>1. \A x \in Creation : SameSlug(x)' = SameSlug(x)
    BY <1>1 DEF SameSlug, Organization, WsSlug
  <2>2. /\ seen'[w] = Created
        /\ wpc'[w] = how
        /\ \A x \in Creation \ {w} : wpc'[x] = wpc[x] /\ seen'[x] = seen[x]
    BY <1>1, <1>2, <1>6 DEF IInv, TypeOK, Workspace
  <2> QED
    BY <1>2, <2>1, <2>2 DEF IInv, CreationsSeen, CreationsRace
<1> QED
  BY <1>3, <1>4, <1>5, <1>7, <1>8 DEF IInv

\* The index decides, whatever the check had seen.
LEMMA CommitWorkspaceInv ==
  ASSUME IInv, NEW w \in Creation, CommitWorkspace(w)
  PROVE  IInv'
<1> DEFINE how == IF SameSlug(w) = {} THEN "created" ELSE "failed"
<1>1. /\ wpc[w] = "checked" /\ wpc' = [wpc EXCEPT ![w] = how] /\ UNCHANGED <<accounts, seen>>
      /\ live' = IF SameSlug(w) = {} THEN live \cup {w} ELSE live
  BY DEF CommitWorkspace
<1>2. Organization(w) \in Committed /\ w \notin Registration
  BY <1>1, AccountsAssumption DEF IInv, CheckedOwned, Organization
<1>3. TypeOK' /\ Claims'
  BY <1>1 DEF IInv, TypeOK, Claims, accounts, Workspace, Committed, HoldsUser,
              HoldsOrganization, Email
<1>4. LiveOwned' /\ LiveCreated' /\ CheckedOwned'
  BY <1>1, <1>2 DEF IInv, TypeOK, LiveOwned, LiveCreated, CheckedOwned, Committed,
                    accounts, Organization
<1>5. LiveApart'
  BY <1>1 DEF IInv, LiveApart, SameSlug, Organization, WsSlug
<1>6. RegistrationsSeen' /\ RegistrationsRace'
  BY <1>1 DEF IInv, RegistrationsSeen, RegistrationsRace, Committed, accounts, Email
<1>7. /\ wpc'[w] = how /\ \A x \in Creation \ {w} : wpc'[x] = wpc[x]
      /\ Created' = IF SameSlug(w) = {} THEN Created \cup {w} ELSE Created
      /\ w \notin Created
  BY <1>1 DEF IInv, TypeOK, Created
<1>8. CreationsSeen'
  <2> SUFFICES ASSUME NEW x \in Creation
               PROVE  /\ seen'[x] \subseteq Created'
                      /\ wpc'[x] = "checked" => SameSlug(x)' \subseteq Created' \ seen'[x]
    BY DEF CreationsSeen
  <2>1. seen'[x] = seen[x] /\ seen[x] \subseteq Created
    BY <1>1 DEF IInv, CreationsSeen
  <2>2. SameSlug(x)' \subseteq IF SameSlug(w) = {} THEN SameSlug(x) \cup {w} ELSE SameSlug(x)
    BY <1>1 DEF SameSlug, Organization, WsSlug
  <2>3. wpc'[x] = "checked" => wpc[x] = "checked"
    BY <1>7
  <2> QED
    BY <1>7, <2>1, <2>2, <2>3 DEF IInv, CreationsSeen
<1>9. CreationsRace'
  <2>1. SameSlug(w) \subseteq Created \ seen[w]
    BY <1>1 DEF IInv, CreationsSeen
  <2>2. \A v \in SameSlug(w) \cap Creation : Owner[v] = Owner[w] /\ Named[v] = Named[w]
    BY AccountsAssumption DEF SameSlug, Organization, WsSlug
  <2>3. Created \subseteq Creation
    BY DEF Created
  <2>4. SameSlug(w) # {} =>
            \E v \in Created \ seen[w] : Owner[v] = Owner[w] /\ Named[v] = Named[w]
    BY <2>1, <2>2, <2>3
  <2> QED
    BY <1>1, <1>7, <2>4 DEF IInv, CreationsRace
<1> QED
  BY <1>3, <1>4, <1>5, <1>6, <1>8, <1>9 DEF IInv

LEMMA DeleteWorkspaceInv ==
  ASSUME IInv, NEW w \in Workspace, DeleteWorkspace(w)
  PROVE  IInv'
<1>1. live' = live \ {w} /\ UNCHANGED <<accounts, wpc, seen>>
  BY DEF DeleteWorkspace
<1>2. TypeOK' /\ Claims' /\ LiveOwned' /\ LiveCreated' /\ CheckedOwned'
  BY <1>1 DEF IInv, TypeOK, Claims, LiveOwned, LiveCreated, CheckedOwned,
              accounts, Committed, HoldsUser, HoldsOrganization, Email, Organization, WsSlug
<1>3. LiveApart'
  BY <1>1 DEF IInv, LiveApart, SameSlug, Organization, WsSlug
<1>4. RegistrationsSeen' /\ RegistrationsRace'
  BY <1>1 DEF IInv, RegistrationsSeen, RegistrationsRace, Committed, accounts, Email
<1>5. CreationsSeen' /\ CreationsRace'
  BY <1>1 DEF IInv, CreationsSeen, CreationsRace, Created, SameSlug, Organization, WsSlug
<1> QED
  BY <1>2, <1>3, <1>4, <1>5 DEF IInv

-----------------------------------------------------------------------------
\* The invariant holds of every number of requests, addresses and names.
THEOREM Inductive == Spec => []IInv
<1>1. IInv /\ [Next]_vars => IInv'
  <2> SUFFICES ASSUME IInv, [Next]_vars
               PROVE  IInv'
    OBVIOUS
  <2>1. ASSUME NEW r \in Registration, RegisterStep(r) \/ Abort(r)
        PROVE  IInv'
    BY <2>1, CheckEmailInv, InsertUserInv, ChooseSlugInv, InsertOrganizationInv,
       CommitAccountInv, AbortInv DEF RegisterStep
  <2>2. ASSUME NEW w \in Creation, CheckSlug(w) \/ CommitWorkspace(w)
        PROVE  IInv'
    BY <2>2, CheckSlugInv, CommitWorkspaceInv
  <2>3. ASSUME NEW w \in Workspace, DeleteWorkspace(w)
        PROVE  IInv'
    BY <2>3, DeleteWorkspaceInv
  <2>4. CASE UNCHANGED vars
    BY <2>4 DEF IInv, TypeOK, Claims, LiveOwned, LiveApart, LiveCreated, CheckedOwned,
                RegistrationsSeen, CreationsSeen, RegistrationsRace, CreationsRace, Created, vars, accounts, Committed, HoldsUser,
                HoldsOrganization, Email, SameSlug, Organization, WsSlug
  <2> QED
    BY <2>1, <2>2, <2>3, <2>4 DEF Next
<1> QED
  BY InitInv, <1>1, PTL DEF Spec

\* However many register and create side by side, an address has one account, a
\* slug one organization, and within it one workspace.
THEOREM AccountsStayApart == Spec => []OneAccountEach
<1>1. IInv => OneAccountEach
  BY DEF IInv, Claims, LiveOwned, LiveApart, OneAccountEach, Email
<1> QED
  BY Inductive, <1>1, PTL

\* A registration, or a creation of a workspace, that passed its check fails
\* only because another with its address or its slug was committed meanwhile.
THEOREM FailuresTakeARace == Spec => []FailsOnlyInARace
<1>1. IInv => FailsOnlyInARace
  BY DEF IInv, RegistrationsRace, CreationsRace, FailsOnlyInARace, Email
<1> QED
  BY Inductive, <1>1, PTL
=============================================================================
