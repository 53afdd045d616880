-------------------------- MODULE Passages_proofs --------------------------
(***************************************************************************)
(* Theorems about Passages, for lists, limits and prompts of every length. *)
(*                                                                         *)
(* What a fold computes needs induction on the data.  NatSet is induction  *)
(* on the numbers stated for a set in place of an operator: the set of the *)
(* n for which the induction hypothesis holds is defined at each use.  A   *)
(* fold over a sequence comes with a run, the values it goes through; what *)
(* holds of the first and is kept by a step of the loop holds of the last. *)
(***************************************************************************)
EXTENDS Passages, FiniteSetTheorems, WellFoundedInduction, TLAPS

-----------------------------------------------------------------------------
(* Induction, and folds over sequences. *)

LEMMA NatSet ==
    ASSUME NEW T, 0 \in T, \A n \in Nat : n \in T => n + 1 \in T
    PROVE  Nat \subseteq T
<1> DEFINE Out == Nat \ T
<1>1. SUFFICES ASSUME Out # {} PROVE FALSE
  OBVIOUS
<1>2. IsWellFoundedOn(OpToRel(<, Nat), Nat)
  BY NatLessThanWellFounded
<1>3. PICK x \in Out : \A y \in Out : ~ (<<y, x>> \in OpToRel(<, Nat))
  <2>1. Out \subseteq Nat OBVIOUS
  <2> HIDE DEF Out
  <2>2. QED BY <1>1, <1>2, <2>1, WFMin
<1>4. x # 0 /\ x - 1 \in Nat
  OBVIOUS
<1>5. x - 1 \in Out
  BY <1>4
<1>6. <<x - 1, x>> \in OpToRel(<, Nat)
  BY <1>4 DEF OpToRel
<1>7. QED BY <1>3, <1>5, <1>6

LEMMA UpTo ==
    ASSUME NEW n \in Nat, NEW T, 0 \in T, \A k \in 0 .. n - 1 : k \in T => k + 1 \in T
    PROVE  0 .. n \subseteq T
<1> DEFINE Good == {k \in Nat : k <= n => k \in T}
<1>1. 0 \in Good
  OBVIOUS
<1>2. \A k \in Nat : k \in Good => k + 1 \in Good
  OBVIOUS
<1>3. Nat \subseteq Good
  <2> HIDE DEF Good
  <2>1. QED BY <1>1, <1>2, NatSet
<1>4. QED BY <1>3

LEMMA MaxIs ==
    ASSUME NEW s, s \subseteq Int, NEW m \in s, \A x \in s : x <= m
    PROVE  Max(s) = m
<1>1. m \in s /\ \A y \in s : m >= y
  OBVIOUS
<1>2. Max(s) \in s /\ \A y \in s : Max(s) >= y
  BY <1>1 DEF Max
<1>3. m \in Int /\ Max(s) \in Int /\ m >= Max(s) /\ Max(s) >= m
  BY <1>1, <1>2
<1>4. QED BY <1>3

LEMMA MaxIn ==
    ASSUME NEW n \in Nat, NEW s \in SUBSET (1 .. n), s # {}
    PROVE  Max(s) \in s /\ \A x \in s : x <= Max(s)
<1> DEFINE Good == {k \in 0 .. n : s \cap (1 .. k) # {} => \E m \in s : m <= k /\ \A x \in s : x <= k => x <= m}
<1>1. 0 \in Good
  OBVIOUS
<1>2. ASSUME NEW k \in 0 .. n - 1, k \in Good PROVE k + 1 \in Good
  <2>1. CASE k + 1 \in s
    BY <2>1
  <2>2. CASE k + 1 \notin s
    BY <1>2, <2>2
  <2>3. QED BY <2>1, <2>2
<1>3. n \in Good
  <2> HIDE DEF Good
  <2>1. 0 .. n \subseteq Good
    BY <1>1, <1>2, UpTo
  <2>2. QED BY <2>1
<1>4. \A x \in s : x \in Int /\ x <= n /\ x \in 1 .. n
  OBVIOUS
<1>5. s \cap (1 .. n) # {}
  OBVIOUS
<1>6. PICK m \in s : \A x \in s : x <= n => x <= m
  BY <1>3, <1>5
<1>7. s \subseteq Int /\ \A x \in s : x <= m
  BY <1>4, <1>6
<1>8. Max(s) = m
  BY <1>7, MaxIs
<1>9. QED BY <1>7, <1>8

LEMMA MaxUpTo ==
    ASSUME NEW k \in Nat \ {0}
    PROVE  Max(1 .. k) = k
<1>1. 1 .. k \subseteq Int /\ k \in 1 .. k /\ \A x \in 1 .. k : x <= k
  OBVIOUS
<1>2. QED BY <1>1, MaxIs

IsFold(F, A, n, b, G) ==
    /\ F \in [SUBSET (1 .. n) -> A]
    /\ F[{}] = b
    /\ \A s \in SUBSET (1 .. n) : s # {} => F[s] = G[<<F[s \ {Max(s)}], Max(s)>>]

LEMMA FoldExists ==
    ASSUME NEW A, NEW n \in Nat, NEW b \in A, NEW G \in [A \X (1 .. n) -> A]
    PROVE  \E F : IsFold(F, A, n, b, G)
<1> DEFINE Body(F, k) == [s \in SUBSET (1 .. k) |->
                     IF s = {} THEN b ELSE G[<<F[s \ {Max(s)}], Max(s)>>]]
           Some(k) == \E F \in [SUBSET (1 .. k) -> A] : F = Body(F, k)
           Good == {k \in 0 .. n : Some(k)}
<1>1. Some(0)
  <2> DEFINE F == [s \in SUBSET (1 .. 0) |-> b]
  <2>1. SUBSET (1 .. 0) = {{}}
    OBVIOUS
  <2>2. F = Body(F, 0)
    BY <2>1
  <2>3. QED BY <2>2
<1>2. ASSUME NEW k \in 0 .. n - 1, Some(k) PROVE Some(k + 1)
  <2>1. PICK E \in [SUBSET (1 .. k) -> A] : E = Body(E, k)
    BY <1>2
  <2> DEFINE F == [s \in SUBSET (1 .. k + 1) |->
                     IF k + 1 \in s THEN G[<<E[s \ {k + 1}], k + 1>>] ELSE E[s]]
  <2>2. ASSUME NEW s \in SUBSET (1 .. k + 1), k + 1 \in s
        PROVE  /\ Max(s) = k + 1 /\ s \ {k + 1} \in SUBSET (1 .. k)
               /\ F[s] \in A /\ F[s] = Body(F, k + 1)[s]
    <3>1. Max(s) = k + 1
      <4>1. s \subseteq Int /\ \A x \in s : x <= k + 1
        OBVIOUS
      <4>2. QED BY <2>2, <4>1, MaxIs
    <3>2. s \ {k + 1} \in SUBSET (1 .. k) /\ k + 1 \in 1 .. n
      OBVIOUS
    <3>3. s \ {k + 1} \in SUBSET (1 .. k + 1) /\ s # {} /\ k + 1 \notin s \ {k + 1}
      BY <2>2
    <3>4. F[s \ {k + 1}] = E[s \ {k + 1}]
      BY <3>3
    <3>5. F[s] = G[<<E[s \ {k + 1}], k + 1>>]
      BY <2>2
    <3>6. Body(F, k + 1)[s] = G[<<F[s \ {k + 1}], k + 1>>]
      BY <3>1, <3>3
    <3>7. E[s \ {k + 1}] \in A
      BY <3>2
    <3>8. QED BY <3>1, <3>2, <3>4, <3>5, <3>6, <3>7
  <2>3. ASSUME NEW s \in SUBSET (1 .. k + 1), k + 1 \notin s
        PROVE  F[s] \in A /\ F[s] = Body(F, k + 1)[s]
    <3>1. s \in SUBSET (1 .. k)
      BY <2>3
    <3>2. F[s] = E[s]
      BY <2>3
    <3>3. CASE s = {}
      BY <2>1, <3>1, <3>2, <3>3
    <3>4. CASE s # {}
      <4> DEFINE m == Max(s)
      <4>1. E[s] = G[<<E[s \ {m}], m>>]
        BY <2>1, <3>1, <3>4
      <4>2. s \ {m} \in SUBSET (1 .. k + 1) /\ k + 1 \notin s \ {m}
        BY <2>3
      <4>3. F[s \ {m}] = E[s \ {m}]
        BY <4>2
      <4>4. Body(F, k + 1)[s] = G[<<F[s \ {m}], m>>]
        BY <3>4
      <4>5. QED BY <3>1, <3>2, <4>1, <4>3, <4>4
    <3>5. QED BY <3>3, <3>4
  <2>4. F \in [SUBSET (1 .. k + 1) -> A]
    BY <2>2, <2>3
  <2>5. F = Body(F, k + 1)
    BY <2>2, <2>3
  <2>6. QED BY <2>4, <2>5
<1>3. Some(n)
  <2> HIDE DEF Some
  <2>1. 0 \in Good /\ \A k \in 0 .. n - 1 : k \in Good => k + 1 \in Good
    BY <1>1, <1>2
  <2>2. 0 .. n \subseteq Good
    <3> HIDE DEF Good
    <3>1. QED BY <2>1, UpTo
  <2>3. QED BY <2>2
<1>4. PICK F \in [SUBSET (1 .. n) -> A] : F = Body(F, n)
  BY <1>3
<1>5. IsFold(F, A, n, b, G)
  <2>1. F[{}] = b
    BY <1>4
  <2>2. ASSUME NEW s \in SUBSET (1 .. n), s # {} PROVE F[s] = G[<<F[s \ {Max(s)}], Max(s)>>]
    BY <1>4, <2>2
  <2>3. QED BY <2>1, <2>2 DEF IsFold
<1>6. QED BY <1>5

LEMMA GreedySteps ==
    ASSUME NEW corpus, NEW limit, NEW T, NEW hits \in Seq(T)
    PROVE  \E g : /\ g[0] = <<>>
                  /\ \A k \in 1 .. Len(hits) : g[k] = Pick(corpus, limit, g[k - 1], hits[k])
                  /\ g[Len(hits)] = Greedy(corpus, hits, limit)
<1> DEFINE n == Len(hits)
           Body(F) == [s \in SUBSET (DOMAIN hits) |->
                         IF s = {} THEN <<>>
                         ELSE Pick(corpus, limit, F[s \ {Max(s)}], hits[Max(s)])]
           it == CHOOSE F : F = Body(F)
<1>1. \E F : F = Body(F)
  <2> DEFINE G == [p \in Seq(T) \X (1 .. n) |-> Pick(corpus, limit, p[1], hits[p[2]])]
  <2>1. G \in [Seq(T) \X (1 .. n) -> Seq(T)]
    BY DEF Pick
  <2>2. PICK F : IsFold(F, Seq(T), n, <<>>, G)
    <3>1. n \in Nat /\ <<>> \in Seq(T)
      OBVIOUS
    <3> HIDE DEF G, n
    <3>2. QED BY <2>1, <3>1, FoldExists
  <2>3. ASSUME NEW s \in SUBSET (1 .. n), s # {}
        PROVE  G[<<F[s \ {Max(s)}], Max(s)>>] = Pick(corpus, limit, F[s \ {Max(s)}], hits[Max(s)])
    <3>1. Max(s) \in s
      <4>1. n \in Nat
        OBVIOUS
      <4> HIDE DEF n
      <4>2. QED BY <2>3, <4>1, MaxIn
    <3>2. F[s \ {Max(s)}] \in Seq(T)
      BY <2>2 DEF IsFold
    <3>3. QED BY <3>1, <3>2
  <2>4. F = Body(F)
    <3>1. DOMAIN hits = 1 .. n
      OBVIOUS
    <3> HIDE DEF G, n
    <3>2. \A s \in SUBSET (1 .. n) : F[s] = Body(F)[s]
      BY <2>2, <2>3, <3>1 DEF IsFold
    <3>3. F = [s \in SUBSET (1 .. n) |-> F[s]]
      BY <2>2 DEF IsFold
    <3>4. F = [s \in SUBSET (DOMAIN hits) |-> Body(F)[s]]
      BY <3>1, <3>2, <3>3
    <3>5. QED BY <3>4
  <2>5. QED BY <2>4
<1>2. it = Body(it)
  BY <1>1
<1>3. Greedy(corpus, hits, limit) = it[DOMAIN hits]
  BY DEF Greedy, FoldLeft, MapThenFoldSet
<1> DEFINE g == [k \in 0 .. n |-> it[1 .. k]]
<1>4. ASSUME NEW k \in 1 .. n
      PROVE  g[k] = Pick(corpus, limit, g[k - 1], hits[k])
  <2>1. 1 .. k \in SUBSET (DOMAIN hits) /\ 1 .. k # {}
    <3>1. DOMAIN hits = 1 .. n /\ n \in Nat
      OBVIOUS
    <3>2. k \in Int /\ 1 <= k /\ k <= n
      OBVIOUS
    <3> HIDE DEF n
    <3>3. \A x \in 1 .. k : x \in 1 .. n
      BY <3>1, <3>2
    <3>4. 1 \in 1 .. k
      BY <3>2
    <3>5. QED BY <3>1, <3>3, <3>4
  <2>2. Max(1 .. k) = k
    BY MaxUpTo
  <2>3. (1 .. k) \ {k} = 1 .. k - 1 /\ k - 1 \in 0 .. n /\ k \in 0 .. n
    OBVIOUS
  <2> HIDE DEF it
  <2>4. it[1 .. k] = Pick(corpus, limit, it[(1 .. k) \ {k}], hits[k])
    BY <1>2, <2>1, <2>2
  <2>5. QED BY <2>3, <2>4
<1>5. g[0] = <<>>
  <2>1. {} \in SUBSET (DOMAIN hits) /\ 1 .. 0 = {}
    OBVIOUS
  <2> HIDE DEF it
  <2>2. it[{}] = <<>>
    BY <1>2, <2>1
  <2>3. QED BY <2>1, <2>2
<1>6. g[n] = Greedy(corpus, hits, limit)
  <2> HIDE DEF it
  <2>1. g[n] = it[1 .. n] /\ DOMAIN hits = 1 .. n
    OBVIOUS
  <2>2. QED BY <1>3, <2>1
<1>7. QED BY <1>4, <1>5, <1>6

LEMMA BackfilledSteps ==
    ASSUME NEW corpus, NEW limit, NEW respectCap, NEW T,
           NEW hits \in Seq(T), NEW start \in Seq(T)
    PROVE  \E g : /\ g[0] = start
                  /\ \A k \in 1 .. Len(hits) : g[k] = Refill(corpus, limit, respectCap, g[k - 1], hits[k])
                  /\ g[Len(hits)] = Backfilled(corpus, hits, limit, respectCap, start)
<1> DEFINE n == Len(hits)
           Body(F) == [s \in SUBSET (DOMAIN hits) |->
                         IF s = {} THEN start
                         ELSE Refill(corpus, limit, respectCap, F[s \ {Max(s)}], hits[Max(s)])]
           it == CHOOSE F : F = Body(F)
<1>1. \E F : F = Body(F)
  <2> DEFINE G == [p \in Seq(T) \X (1 .. n) |-> Refill(corpus, limit, respectCap, p[1], hits[p[2]])]
  <2>1. G \in [Seq(T) \X (1 .. n) -> Seq(T)]
    BY DEF Refill
  <2>2. PICK F : IsFold(F, Seq(T), n, start, G)
    <3>1. n \in Nat /\ start \in Seq(T)
      OBVIOUS
    <3> HIDE DEF G, n
    <3>2. QED BY <2>1, <3>1, FoldExists
  <2>3. ASSUME NEW s \in SUBSET (1 .. n), s # {}
        PROVE  G[<<F[s \ {Max(s)}], Max(s)>>] = Refill(corpus, limit, respectCap, F[s \ {Max(s)}], hits[Max(s)])
    <3>1. Max(s) \in s
      <4>1. n \in Nat
        OBVIOUS
      <4> HIDE DEF n
      <4>2. QED BY <2>3, <4>1, MaxIn
    <3>2. F[s \ {Max(s)}] \in Seq(T)
      BY <2>2 DEF IsFold
    <3>3. QED BY <3>1, <3>2
  <2>4. F = Body(F)
    <3>1. DOMAIN hits = 1 .. n
      OBVIOUS
    <3> HIDE DEF G, n
    <3>2. \A s \in SUBSET (1 .. n) : F[s] = Body(F)[s]
      BY <2>2, <2>3, <3>1 DEF IsFold
    <3>3. F = [s \in SUBSET (1 .. n) |-> F[s]]
      BY <2>2 DEF IsFold
    <3>4. F = [s \in SUBSET (DOMAIN hits) |-> Body(F)[s]]
      BY <3>1, <3>2, <3>3
    <3>5. QED BY <3>4
  <2>5. QED BY <2>4
<1>2. it = Body(it)
  BY <1>1
<1>3. Backfilled(corpus, hits, limit, respectCap, start) = it[DOMAIN hits]
  BY DEF Backfilled, FoldLeft, MapThenFoldSet
<1> DEFINE g == [k \in 0 .. n |-> it[1 .. k]]
<1>4. ASSUME NEW k \in 1 .. n
      PROVE  g[k] = Refill(corpus, limit, respectCap, g[k - 1], hits[k])
  <2>1. 1 .. k \in SUBSET (DOMAIN hits) /\ 1 .. k # {}
    <3>1. DOMAIN hits = 1 .. n /\ n \in Nat
      OBVIOUS
    <3>2. k \in Int /\ 1 <= k /\ k <= n
      OBVIOUS
    <3> HIDE DEF n
    <3>3. \A x \in 1 .. k : x \in 1 .. n
      BY <3>1, <3>2
    <3>4. 1 \in 1 .. k
      BY <3>2
    <3>5. QED BY <3>1, <3>3, <3>4
  <2>2. Max(1 .. k) = k
    BY MaxUpTo
  <2>3. (1 .. k) \ {k} = 1 .. k - 1 /\ k - 1 \in 0 .. n /\ k \in 0 .. n
    OBVIOUS
  <2> HIDE DEF it
  <2>4. it[1 .. k] = Refill(corpus, limit, respectCap, it[(1 .. k) \ {k}], hits[k])
    BY <1>2, <2>1, <2>2
  <2>5. QED BY <2>3, <2>4
<1>5. g[0] = start
  <2>1. {} \in SUBSET (DOMAIN hits) /\ 1 .. 0 = {}
    OBVIOUS
  <2> HIDE DEF it
  <2>2. it[{}] = start
    BY <1>2, <2>1
  <2>3. QED BY <2>1, <2>2
<1>6. g[n] = Backfilled(corpus, hits, limit, respectCap, start)
  <2> HIDE DEF it
  <2>1. g[n] = it[1 .. n] /\ DOMAIN hits = 1 .. n
    OBVIOUS
  <2>2. QED BY <1>3, <2>1
<1>7. QED BY <1>4, <1>5, <1>6

-----------------------------------------------------------------------------
(* The diversity pass. *)

Injective(s) == \A i, j \in 1 .. Len(s) : s[i] = s[j] => i = j

Extends(s, t) == Len(s) <= Len(t) /\ \A i \in 1 .. Len(s) : t[i] = s[i]

Earlier(s, i) == SubSeq(s, 1, i - 1)

LEMMA ExtendsTransitive ==
    ASSUME NEW T, NEW s \in Seq(T), NEW t \in Seq(T), NEW u \in Seq(T),
           Extends(s, t), Extends(t, u)
    PROVE  Extends(s, u)
BY DEF Extends

LEMMA EarlierSame ==
    ASSUME NEW T, NEW s \in Seq(T), NEW t \in Seq(T), Extends(s, t),
           NEW i \in 1 .. Len(s)
    PROVE  i \in 1 .. Len(t) /\ t[i] = s[i] /\ Earlier(t, i) = Earlier(s, i)
<1>1. i \in 1 .. Len(t) /\ t[i] = s[i]
  BY DEF Extends
<1>2. \A k \in 1 .. i - 1 : s[k] = t[k]
  BY DEF Extends
<1>3. Earlier(s, i) = [k \in 1 .. i - 1 |-> s[k]] /\ Earlier(t, i) = [k \in 1 .. i - 1 |-> t[k]]
  BY <1>1 DEF Earlier
<1>4. QED BY <1>1, <1>2, <1>3

LEMMA EarlierAppended ==
    ASSUME NEW T, NEW s \in Seq(T), NEW c \in T
    PROVE  /\ Append(s, c) \in Seq(T) /\ Len(Append(s, c)) = Len(s) + 1
           /\ Extends(s, Append(s, c))
           /\ Append(s, c)[Len(s) + 1] = c
           /\ Earlier(Append(s, c), Len(s) + 1) = s
<1>1. /\ Append(s, c) \in Seq(T) /\ Len(Append(s, c)) = Len(s) + 1
      /\ Append(s, c)[Len(s) + 1] = c /\ Extends(s, Append(s, c))
  BY DEF Extends
<1>2. Earlier(Append(s, c), Len(s) + 1) = [k \in 1 .. Len(s) |-> Append(s, c)[k]]
  BY <1>1 DEF Earlier
<1>3. s = [k \in 1 .. Len(s) |-> s[k]]
  OBVIOUS
<1>4. QED BY <1>1, <1>2, <1>3 DEF Extends

LEMMA MembersOfSeq ==
    ASSUME NEW T, NEW s \in Seq(T), NEW c
    PROVE  c \in ToSet(s) <=> \E i \in 1 .. Len(s) : s[i] = c
BY DEF ToSet

LEMMA FromDocumentFinite ==
    ASSUME NEW T, NEW s \in Seq(T), NEW corpus, NEW d
    PROVE  IsFiniteSet(FromDocument(corpus, s, d))
<1>1. IsFiniteSet(1 .. Len(s))
  BY FS_Interval
<1>2. FromDocument(corpus, s, d) \subseteq 1 .. Len(s)
  BY DEF FromDocument
<1>3. QED BY <1>1, <1>2, FS_Subset

LEMMA CapStays ==
    ASSUME NEW T, NEW s \in Seq(T), NEW t \in Seq(T), Extends(s, t),
           NEW corpus, NEW c, CapReached(corpus, s, c)
    PROVE  CapReached(corpus, t, c)
<1> DEFINE S == FromDocument(corpus, s, corpus.doc[c])
           U == FromDocument(corpus, t, corpus.doc[c])
<1>1. S \subseteq U
  BY DEF FromDocument, Extends
<1>2. IsFiniteSet(U) /\ IsFiniteSet(S)
  BY FromDocumentFinite
<1>3. Cardinality(S) <= Cardinality(U)
  BY <1>1, <1>2, FS_Subset
<1>4. Cardinality(S) \in Nat /\ Cardinality(U) \in Nat
  BY <1>2, FS_CardinalityType
<1>5. Cardinality(S) >= MaxPerDocument
  BY DEF CapReached
<1> HIDE DEF S, U
<1>6. Cardinality(U) >= MaxPerDocument
  BY <1>3, <1>4, <1>5, FusionAssumption
<1>7. QED BY <1>6 DEF CapReached, U

LEMMA RepeatStays ==
    ASSUME NEW T, NEW s \in Seq(T), NEW t \in Seq(T), Extends(s, t),
           NEW corpus, NEW c, Repeats(corpus, s, c)
    PROVE  Repeats(corpus, t, c)
BY DEF Repeats, Extends

LEMMA NothingAgainstFirst ==
    ASSUME NEW corpus, NEW c
    PROVE  ~CapReached(corpus, <<>>, c) /\ ~Repeats(corpus, <<>>, c)
<1>1. FromDocument(corpus, <<>>, corpus.doc[c]) = {}
  BY DEF FromDocument
<1>2. Cardinality({}) = 0
  BY FS_EmptySet
<1>3. ~CapReached(corpus, <<>>, c)
  <2>1. ~(0 >= MaxPerDocument)
    BY FusionAssumption
  <2>2. CapReached(corpus, <<>>, c) <=> Cardinality({}) >= MaxPerDocument
    BY <1>1, Zenon DEF CapReached
  <2>3. QED BY <1>2, <2>1, <2>2
<1>4. ~Repeats(corpus, <<>>, c)
  BY DEF Repeats
<1>5. QED BY <1>3, <1>4

GreedyInv(corpus, limit, hits, k, s) ==
    /\ Len(s) <= limit
    /\ Injective(s)
    /\ \A i \in 1 .. Len(s) : \E j \in 1 .. k : s[i] = hits[j]
    /\ k # 0 => s # <<>> /\ s[1] = hits[1]
    /\ \A i \in 1 .. Len(s) :
          ~CapReached(corpus, Earlier(s, i), s[i]) /\ ~Repeats(corpus, Earlier(s, i), s[i])
    /\ \A j \in 1 .. k :
          \/ \E i \in 1 .. Len(s) : s[i] = hits[j]
          \/ Len(s) = limit
          \/ CapReached(corpus, s, hits[j])
          \/ Repeats(corpus, s, hits[j])

LEMMA GreedyStep ==
    ASSUME NEW T, NEW hits \in Seq(T), Injective(hits), NEW corpus, NEW limit \in Nat \ {0},
           NEW k \in 1 .. Len(hits), NEW s \in Seq(T), GreedyInv(corpus, limit, hits, k - 1, s)
    PROVE  /\ Pick(corpus, limit, s, hits[k]) \in Seq(T)
           /\ GreedyInv(corpus, limit, hits, k, Pick(corpus, limit, s, hits[k]))
<1> DEFINE c == hits[k]
<1>1. c \in T
  OBVIOUS
<1>2. CASE Len(s) >= limit \/ CapReached(corpus, s, c) \/ Repeats(corpus, s, c)
  <2>1. Pick(corpus, limit, s, c) = s
    BY <1>2 DEF Pick
  <2>2. k - 1 # 0
    <3>1. SUFFICES ASSUME k - 1 = 0 PROVE FALSE
      OBVIOUS
    <3>2. s = <<>>
      BY <3>1 DEF GreedyInv
    <3>3. QED BY <1>2, <3>2, NothingAgainstFirst
  <2>3. GreedyInv(corpus, limit, hits, k, s)
    <3>1. \A i \in 1 .. Len(s) : \E j \in 1 .. k : s[i] = hits[j]
      BY DEF GreedyInv
    <3>2. ASSUME NEW j \in 1 .. k
          PROVE  \/ \E i \in 1 .. Len(s) : s[i] = hits[j]
                 \/ Len(s) = limit
                 \/ CapReached(corpus, s, hits[j])
                 \/ Repeats(corpus, s, hits[j])
      <4>1. CASE j = k
        BY <1>2, <4>1 DEF GreedyInv
      <4>2. CASE j # k
        BY <4>2 DEF GreedyInv
      <4>3. QED BY <4>1, <4>2
    <3>3. QED BY <2>2, <3>1, <3>2 DEF GreedyInv
  <2>4. QED BY <2>1, <2>3
<1>3. CASE ~(Len(s) >= limit \/ CapReached(corpus, s, c) \/ Repeats(corpus, s, c))
  <2> DEFINE t == Append(s, c)
  <2>1. Pick(corpus, limit, s, c) = t
    BY <1>3 DEF Pick
  <2>2. /\ t \in Seq(T) /\ Len(t) = Len(s) + 1 /\ Extends(s, t)
        /\ t[Len(s) + 1] = c /\ Earlier(t, Len(s) + 1) = s
    BY <1>1, EarlierAppended
  <2> HIDE DEF t, c
  <2>3. Len(t) <= limit
    BY <1>3, <2>2 DEF GreedyInv
  <2>4. \A i \in 1 .. Len(s) : t[i] = s[i]
    BY <2>2 DEF Extends
  <2>5. \A i \in 1 .. Len(s) : \E j \in 1 .. k - 1 : s[i] = hits[j]
    BY DEF GreedyInv
  <2>6. \A i \in 1 .. Len(s) : s[i] # c
    BY <2>5 DEF Injective, c
  <2>7. Injective(t)
    <3>1. SUFFICES ASSUME NEW i \in 1 .. Len(t), NEW j \in 1 .. Len(t), t[i] = t[j] PROVE i = j
      BY DEF Injective
    <3>2. CASE i \in 1 .. Len(s) /\ j \in 1 .. Len(s)
      BY <2>4, <3>1, <3>2 DEF GreedyInv, Injective
    <3>3. CASE i = Len(s) + 1 /\ j \in 1 .. Len(s)
      BY <2>2, <2>4, <2>6, <3>1, <3>3
    <3>4. CASE j = Len(s) + 1 /\ i \in 1 .. Len(s)
      BY <2>2, <2>4, <2>6, <3>1, <3>4
    <3>5. QED BY <2>2, <3>2, <3>3, <3>4
  <2>8. \A i \in 1 .. Len(t) : \E j \in 1 .. k : t[i] = hits[j]
    <3>1. SUFFICES ASSUME NEW i \in 1 .. Len(t) PROVE \E j \in 1 .. k : t[i] = hits[j]
      OBVIOUS
    <3>2. CASE i \in 1 .. Len(s)
      BY <2>4, <2>5, <3>2
    <3>3. CASE i = Len(s) + 1
      BY <2>2, <3>3 DEF c
    <3>4. QED BY <2>2, <3>2, <3>3
  <2>9. t # <<>> /\ t[1] = hits[1]
    <3>1. CASE k - 1 = 0
      <4>1. Len(s) = 0
        BY <2>5, <3>1
      <4>2. t[1] = c /\ Len(t) = 1
        BY <2>2, <4>1
      <4>3. k = 1
        BY <3>1
      <4>4. c = hits[1]
        BY <4>3 DEF c
      <4>5. QED BY <2>2, <4>2, <4>4
    <3>2. CASE k - 1 # 0
      <4>1. s # <<>> /\ s[1] = hits[1]
        BY <3>2 DEF GreedyInv
      <4>2. Len(s) >= 1
        BY <4>1
      <4>3. QED BY <2>2, <2>4, <4>1, <4>2
    <3>3. QED BY <3>1, <3>2
  <2>10. ASSUME NEW i \in 1 .. Len(t)
         PROVE  ~CapReached(corpus, Earlier(t, i), t[i]) /\ ~Repeats(corpus, Earlier(t, i), t[i])
    <3>1. CASE i = Len(s) + 1
      BY <1>3, <2>2, <3>1
    <3>2. CASE i # Len(s) + 1
      <4>1. i \in 1 .. Len(s)
        BY <2>2, <3>2
      <4>2. Earlier(t, i) = Earlier(s, i) /\ t[i] = s[i]
        BY <2>2, <4>1, EarlierSame
      <4>3. QED BY <4>1, <4>2 DEF GreedyInv
    <3>3. QED BY <3>1, <3>2
  <2>11. ASSUME NEW j \in 1 .. k
         PROVE  \/ \E i \in 1 .. Len(t) : t[i] = hits[j]
                \/ Len(t) = limit
                \/ CapReached(corpus, t, hits[j])
                \/ Repeats(corpus, t, hits[j])
    <3>1. CASE j = k
      BY <2>2, <3>1 DEF c
    <3>2. CASE j # k
      <4>1. j \in 1 .. k - 1
        BY <3>2
      <4>2. Len(s) # limit
        BY <1>3 DEF GreedyInv
      <4>3. CASE \E i \in 1 .. Len(s) : s[i] = hits[j]
        BY <2>2, <2>4, <4>3
      <4>4. CASE CapReached(corpus, s, hits[j])
        BY <2>2, <4>4, CapStays
      <4>5. CASE Repeats(corpus, s, hits[j])
        BY <2>2, <4>5, RepeatStays
      <4>6. QED BY <4>1, <4>2, <4>3, <4>4, <4>5 DEF GreedyInv
    <3>3. QED BY <3>1, <3>2
  <2>12. GreedyInv(corpus, limit, hits, k, t)
    BY <2>3, <2>7, <2>8, <2>9, <2>10, <2>11 DEF GreedyInv
  <2>13. QED BY <2>1, <2>2, <2>12 DEF c
<1>4. QED BY <1>2, <1>3

LEMMA GreedyOutcome ==
    ASSUME NEW T, NEW hits \in Seq(T), Injective(hits), NEW corpus, NEW limit \in Nat \ {0}
    PROVE  /\ Greedy(corpus, hits, limit) \in Seq(T)
           /\ GreedyInv(corpus, limit, hits, Len(hits), Greedy(corpus, hits, limit))
<1> DEFINE n == Len(hits)
<1>1. PICK g : /\ g[0] = <<>>
               /\ \A k \in 1 .. n : g[k] = Pick(corpus, limit, g[k - 1], hits[k])
               /\ g[n] = Greedy(corpus, hits, limit)
  BY GreedySteps
<1> DEFINE Good == {k \in 0 .. n : g[k] \in Seq(T) /\ GreedyInv(corpus, limit, hits, k, g[k])}
<1>2. n \in Nat
  OBVIOUS
<1>3. 0 \in Good
  <2>1. <<>> \in Seq(T) /\ GreedyInv(corpus, limit, hits, 0, <<>>)
    BY DEF GreedyInv, Injective
  <2>2. 0 \in 0 .. n
    BY <1>2
  <2>3. QED BY <1>1, <2>1, <2>2
<1>4. ASSUME NEW k \in 0 .. n - 1, k \in Good PROVE k + 1 \in Good
  <2>1. k + 1 \in 1 .. n /\ (k + 1) - 1 = k
    OBVIOUS
  <2>2. g[k] \in Seq(T) /\ GreedyInv(corpus, limit, hits, k, g[k])
    BY <1>4
  <2>3. g[k + 1] = Pick(corpus, limit, g[k], hits[k + 1])
    BY <1>1, <2>1
  <2>4. g[k + 1] \in Seq(T) /\ GreedyInv(corpus, limit, hits, k + 1, g[k + 1])
    <3>1. GreedyInv(corpus, limit, hits, k, g[k]) /\ g[k] \in Seq(T) /\ k + 1 \in 1 .. Len(hits)
      BY <2>1, <2>2
    <3>2. GreedyInv(corpus, limit, hits, (k + 1) - 1, g[k])
      BY <2>1, <3>1
    <3>3. /\ Pick(corpus, limit, g[k], hits[k + 1]) \in Seq(T)
          /\ GreedyInv(corpus, limit, hits, k + 1, Pick(corpus, limit, g[k], hits[k + 1]))
      BY <3>1, <3>2, GreedyStep
    <3>4. QED BY <2>3, <3>3
  <2>5. QED BY <2>1, <2>4
<1>5. 0 .. n \subseteq Good
  <2> HIDE DEF Good, n
  <2>1. QED BY <1>2, <1>3, <1>4, UpTo
<1>6. QED BY <1>1, <1>2, <1>5

RefillInv(corpus, limit, respectCap, hits, start, k, s) ==
    /\ Len(s) <= limit
    /\ Injective(s)
    /\ Extends(start, s)
    /\ \A i \in 1 .. Len(s) : i <= Len(start) \/ \E j \in 1 .. Len(hits) : s[i] = hits[j]
    /\ \A i \in 1 .. Len(s) :
          i > Len(start) /\ respectCap => ~CapReached(corpus, Earlier(s, i), s[i])
    /\ \A j \in 1 .. k :
          \/ \E i \in 1 .. Len(s) : s[i] = hits[j]
          \/ Len(s) = limit
          \/ respectCap /\ CapReached(corpus, s, hits[j])

LEMMA RefillStep ==
    ASSUME NEW T, NEW hits \in Seq(T), NEW corpus, NEW limit \in Nat \ {0}, NEW respectCap,
           NEW start \in Seq(T), NEW k \in 1 .. Len(hits), NEW s \in Seq(T),
           RefillInv(corpus, limit, respectCap, hits, start, k - 1, s)
    PROVE  /\ Refill(corpus, limit, respectCap, s, hits[k]) \in Seq(T)
           /\ RefillInv(corpus, limit, respectCap, hits, start, k,
                        Refill(corpus, limit, respectCap, s, hits[k]))
<1> DEFINE c == hits[k]
<1>1. c \in T
  OBVIOUS
<1>2. c \in ToSet(s) <=> \E i \in 1 .. Len(s) : s[i] = c
  BY MembersOfSeq
<1>3. CASE Len(s) >= limit \/ c \in ToSet(s) \/ (respectCap /\ CapReached(corpus, s, c))
  <2>1. Refill(corpus, limit, respectCap, s, c) = s
    BY <1>3 DEF Refill
  <2>2. ASSUME NEW j \in 1 .. k
        PROVE  \/ \E i \in 1 .. Len(s) : s[i] = hits[j]
               \/ Len(s) = limit
               \/ respectCap /\ CapReached(corpus, s, hits[j])
    <3>1. CASE j = k
      BY <1>2, <1>3, <3>1 DEF RefillInv
    <3>2. CASE j # k
      <4>1. j \in 1 .. k - 1
        BY <3>2
      <4>2. QED BY <4>1 DEF RefillInv
    <3>3. QED BY <3>1, <3>2
  <2>3. RefillInv(corpus, limit, respectCap, hits, start, k, s)
    BY <2>2 DEF RefillInv
  <2>4. QED BY <2>1, <2>3
<1>4. CASE ~(Len(s) >= limit \/ c \in ToSet(s) \/ (respectCap /\ CapReached(corpus, s, c)))
  <2> DEFINE t == Append(s, c)
  <2>1. Refill(corpus, limit, respectCap, s, c) = t
    BY <1>4 DEF Refill
  <2>2. /\ t \in Seq(T) /\ Len(t) = Len(s) + 1 /\ Extends(s, t)
        /\ t[Len(s) + 1] = c /\ Earlier(t, Len(s) + 1) = s
    BY <1>1, EarlierAppended
  <2>3. \A i \in 1 .. Len(s) : s[i] # c
    BY <1>2, <1>4
  <2>4. \E j \in 1 .. Len(hits) : c = hits[j]
    OBVIOUS
  <2> HIDE DEF t
  <2>5. \A i \in 1 .. Len(s) : t[i] = s[i]
    BY <2>2 DEF Extends
  <2>6. Len(t) <= limit
    BY <1>4, <2>2 DEF RefillInv
  <2>7. Injective(t)
    <3> HIDE DEF c
    <3>1. SUFFICES ASSUME NEW i \in 1 .. Len(t), NEW j \in 1 .. Len(t), t[i] = t[j] PROVE i = j
      BY DEF Injective
    <3>2. CASE i \in 1 .. Len(s) /\ j \in 1 .. Len(s)
      BY <2>5, <3>1, <3>2 DEF RefillInv, Injective
    <3>3. CASE i = Len(s) + 1 /\ j \in 1 .. Len(s)
      BY <2>2, <2>3, <2>5, <3>1, <3>3
    <3>4. CASE j = Len(s) + 1 /\ i \in 1 .. Len(s)
      BY <2>2, <2>3, <2>5, <3>1, <3>4
    <3>5. QED BY <2>2, <3>2, <3>3, <3>4
  <2>8. Extends(start, t)
    BY <2>2, ExtendsTransitive DEF RefillInv
  <2>9. ASSUME NEW i \in 1 .. Len(t)
        PROVE  /\ i <= Len(start) \/ \E j \in 1 .. Len(hits) : t[i] = hits[j]
               /\ i > Len(start) /\ respectCap => ~CapReached(corpus, Earlier(t, i), t[i])
    <3> HIDE DEF c
    <3>1. CASE i = Len(s) + 1
      BY <1>4, <2>2, <2>4, <3>1
    <3>2. CASE i # Len(s) + 1
      <4>1. i \in 1 .. Len(s)
        BY <2>2, <3>2
      <4>2. Earlier(t, i) = Earlier(s, i) /\ t[i] = s[i]
        BY <2>2, <4>1, EarlierSame
      <4>3. QED BY <4>1, <4>2 DEF RefillInv
    <3>3. QED BY <3>1, <3>2
  <2>10. ASSUME NEW j \in 1 .. k
         PROVE  \/ \E i \in 1 .. Len(t) : t[i] = hits[j]
                \/ Len(t) = limit
                \/ respectCap /\ CapReached(corpus, t, hits[j])
    <3>1. CASE j = k
      BY <2>2, <3>1
    <3>2. CASE j # k
      <4>1. j \in 1 .. k - 1 /\ Len(s) # limit
        BY <1>4, <3>2
      <4>2. CASE \E i \in 1 .. Len(s) : s[i] = hits[j]
        BY <2>2, <2>5, <4>2
      <4>3. CASE respectCap /\ CapReached(corpus, s, hits[j])
        BY <2>2, <4>3, CapStays
      <4>4. QED BY <4>1, <4>2, <4>3 DEF RefillInv
    <3>3. QED BY <3>1, <3>2
  <2>11. RefillInv(corpus, limit, respectCap, hits, start, k, t)
    BY <2>6, <2>7, <2>8, <2>9, <2>10 DEF RefillInv
  <2>12. QED BY <2>1, <2>2, <2>11
<1>5. QED BY <1>3, <1>4

LEMMA RefillOutcome ==
    ASSUME NEW T, NEW hits \in Seq(T), NEW corpus, NEW limit \in Nat \ {0}, NEW respectCap,
           NEW start \in Seq(T), Len(start) <= limit, Injective(start)
    PROVE  /\ Backfilled(corpus, hits, limit, respectCap, start) \in Seq(T)
           /\ RefillInv(corpus, limit, respectCap, hits, start, Len(hits),
                        Backfilled(corpus, hits, limit, respectCap, start))
<1> DEFINE n == Len(hits)
<1>1. PICK g : /\ g[0] = start
               /\ \A k \in 1 .. n : g[k] = Refill(corpus, limit, respectCap, g[k - 1], hits[k])
               /\ g[n] = Backfilled(corpus, hits, limit, respectCap, start)
  BY BackfilledSteps
<1> DEFINE Good == {k \in 0 .. n : /\ g[k] \in Seq(T)
                                   /\ RefillInv(corpus, limit, respectCap, hits, start, k, g[k])}
<1>2. n \in Nat
  OBVIOUS
<1>3. 0 \in Good
  <2>1. RefillInv(corpus, limit, respectCap, hits, start, 0, start)
    BY DEF RefillInv, Extends
  <2>2. QED BY <1>1, <1>2, <2>1
<1>4. ASSUME NEW k \in 0 .. n - 1, k \in Good PROVE k + 1 \in Good
  <2>1. k + 1 \in 1 .. n /\ (k + 1) - 1 = k
    OBVIOUS
  <2>2. g[k] \in Seq(T) /\ RefillInv(corpus, limit, respectCap, hits, start, k, g[k])
    BY <1>4
  <2>3. g[k + 1] = Refill(corpus, limit, respectCap, g[k], hits[k + 1])
    BY <1>1, <2>1
  <2>4. g[k + 1] \in Seq(T) /\ RefillInv(corpus, limit, respectCap, hits, start, k + 1, g[k + 1])
    <3>1. RefillInv(corpus, limit, respectCap, hits, start, k, g[k]) /\ g[k] \in Seq(T) /\ k + 1 \in 1 .. Len(hits)
      BY <2>1, <2>2
    <3>2. RefillInv(corpus, limit, respectCap, hits, start, (k + 1) - 1, g[k])
      BY <2>1, <3>1
    <3>3. /\ Refill(corpus, limit, respectCap, g[k], hits[k + 1]) \in Seq(T)
          /\ RefillInv(corpus, limit, respectCap, hits, start, k + 1,
                       Refill(corpus, limit, respectCap, g[k], hits[k + 1]))
      BY <3>1, <3>2, RefillStep
    <3>4. QED BY <2>3, <3>3
  <2>5. QED BY <2>1, <2>4
<1>5. 0 .. n \subseteq Good
  <2> HIDE DEF Good, n
  <2>1. QED BY <1>2, <1>3, <1>4, UpTo
<1>6. QED BY <1>1, <1>2, <1>5

LEMMA InjectiveCount ==
    ASSUME NEW T, NEW s \in Seq(T), Injective(s)
    PROVE  IsFiniteSet(ToSet(s)) /\ Cardinality(ToSet(s)) = Len(s)
<1> DEFINE n == Len(s)
           D == 1 .. n
<1>1. n \in Nat /\ DOMAIN s = 1 .. n /\ s \in [D -> T]
  OBVIOUS
<1>2. IsFiniteSet(D) /\ Cardinality(D) = n
  BY <1>1, FS_Interval
<1>3. s \in [D -> ToSet(s)]
  BY <1>1 DEF ToSet
<1>4. \A a, b \in D : s[a] = s[b] => a = b
  BY DEF Injective
<1>5. \A c \in ToSet(s) : \E a \in D : s[a] = c
  BY <1>1 DEF ToSet
<1> HIDE DEF D, n
<1>6. s \in Bijection(D, ToSet(s))
  BY <1>3, <1>4, <1>5 DEF Bijection, Injection, Surjection, IsInjective
<1>7. ExistsBijection(D, ToSet(s))
  BY <1>6 DEF ExistsBijection
<1>8. QED BY <1>2, <1>7, FS_Bijection DEF n

LEMMA SelectionIsDiverse ==
    ASSUME NEW T, NEW hits \in Seq(T), Injective(hits), NEW corpus, NEW limit \in Nat \ {0}
    PROVE  DiverseAndFull(corpus, hits, limit)
<1> DEFINE n == Len(hits)
           s1 == Greedy(corpus, hits, limit)
           s2 == Backfilled(corpus, hits, limit, TRUE, s1)
           s3 == Backfilled(corpus, hits, limit, FALSE, s2)
<1>1. s1 \in Seq(T) /\ GreedyInv(corpus, limit, hits, n, s1)
  BY GreedyOutcome
<1>2. Len(s1) <= limit /\ Injective(s1)
  BY <1>1 DEF GreedyInv
<1>3. s2 \in Seq(T) /\ RefillInv(corpus, limit, TRUE, hits, s1, n, s2)
  <2> HIDE DEF s1
  <2>1. QED BY <1>1, <1>2, RefillOutcome
<1>4. Len(s2) <= limit /\ Injective(s2)
  BY <1>3 DEF RefillInv
<1>5. s3 \in Seq(T) /\ RefillInv(corpus, limit, FALSE, hits, s2, n, s3)
  <2> HIDE DEF s2
  <2>1. QED BY <1>3, <1>4, RefillOutcome
<1>6. Diversify(corpus, hits, limit) = s3
  BY DEF Diversify
<1> HIDE DEF s1, s2, s3
<1>7. Len(s3) <= limit /\ Injective(s3)
  BY <1>5 DEF RefillInv
<1>8. Extends(s1, s2) /\ Extends(s2, s3)
  BY <1>3, <1>5 DEF RefillInv
<1>9. Extends(s1, s3)
  BY <1>1, <1>3, <1>5, <1>8, ExtendsTransitive
<1>10. n \in Nat /\ hits \in [1 .. n -> T]
  OBVIOUS
<1>11. ToSet(s3) \subseteq ToSet(hits)
  <2>1. \A i \in 1 .. Len(s1) : \E j \in 1 .. n : s1[i] = hits[j]
    BY <1>1 DEF GreedyInv
  <2>2. \A i \in 1 .. Len(s2) : \E j \in 1 .. n : s2[i] = hits[j]
    BY <1>1, <1>3, <1>8, <2>1 DEF RefillInv, Extends
  <2>3. \A i \in 1 .. Len(s3) : \E j \in 1 .. n : s3[i] = hits[j]
    BY <1>3, <1>5, <1>8, <2>2 DEF RefillInv, Extends
  <2>4. QED BY <1>5, <2>3 DEF ToSet
<1>12. /\ IsFiniteSet(ToSet(s3)) /\ Cardinality(ToSet(s3)) = Len(s3)
       /\ IsFiniteSet(ToSet(hits)) /\ Cardinality(ToSet(hits)) = n
  BY <1>5, <1>7, InjectiveCount
<1>13. Len(s3) <= n
  BY <1>11, <1>12, FS_Subset
<1>14. Len(s3) = (IF n < limit THEN n ELSE limit)
  <2>1. CASE Len(s3) = limit
    <3> HIDE DEF n
    <3>1. QED BY <1>10, <1>13, <2>1
  <2>2. CASE Len(s3) # limit
    <3>1. \A j \in 1 .. n : \E i \in 1 .. Len(s3) : s3[i] = hits[j]
      BY <1>5, <2>2 DEF RefillInv
    <3>2. \A c \in ToSet(hits) : c \in ToSet(s3)
      BY <1>5, <3>1, MembersOfSeq
    <3>3. ToSet(s3) = ToSet(hits)
      BY <1>11, <3>2
    <3>4. Len(s3) = n
      BY <1>12, <3>3
    <3> HIDE DEF n
    <3>5. Len(s3) < limit
      BY <1>5, <1>7, <2>2
    <3>6. QED BY <3>4, <3>5
  <2>3. QED BY <2>1, <2>2
<1>15. s3 # <<>> => s3[1] = hits[1]
  <2>1. SUFFICES ASSUME s3 # <<>> PROVE s3[1] = hits[1]
    OBVIOUS
  <2>2. n # 0
    BY <1>5, <1>13, <2>1
  <2>3. s1 # <<>> /\ s1[1] = hits[1]
    BY <1>1, <2>2 DEF GreedyInv
  <2>4. 1 \in 1 .. Len(s1)
    BY <1>1, <2>3
  <2>5. QED BY <1>9, <2>3, <2>4 DEF Extends
<1>16. ASSUME NEW i \in 1 .. Len(s3), CapReached(corpus, Earlier(s3, i), s3[i]),
              NEW c \in ToSet(hits) \ ToSet(s3)
       PROVE  CapReached(corpus, s3, c)
  <2>1. ~(i \in 1 .. Len(s1))
    BY <1>1, <1>5, <1>9, <1>16, EarlierSame DEF GreedyInv
  <2>2. ~(i \in 1 .. Len(s2))
    <3>1. SUFFICES ASSUME i \in 1 .. Len(s2) PROVE FALSE
      OBVIOUS
    <3>2. Earlier(s3, i) = Earlier(s2, i) /\ s3[i] = s2[i]
      BY <1>3, <1>5, <1>8, <3>1, EarlierSame
    <3>3. i > Len(s1)
      BY <1>1, <2>1
    <3>4. QED BY <1>3, <1>16, <3>1, <3>2, <3>3 DEF RefillInv
  <2>3. Len(s2) # limit
    BY <1>3, <1>5, <1>7, <2>2
  <2>4. PICK j \in 1 .. n : hits[j] = c
    BY DEF ToSet
  <2>5. ~\E k \in 1 .. Len(s2) : s2[k] = c
    BY <1>3, <1>5, <1>8, <1>16 DEF Extends, ToSet
  <2>6. CapReached(corpus, s2, c)
    BY <1>3, <2>3, <2>4, <2>5 DEF RefillInv
  <2>7. QED BY <1>3, <1>5, <1>8, <2>6, CapStays
<1>17. ASSUME NEW i \in 1 .. Len(s3), Repeats(corpus, Earlier(s3, i), s3[i]),
              NEW c \in ToSet(hits) \ ToSet(s3)
       PROVE  CapReached(corpus, s3, c) \/ Repeats(corpus, s3, c)
  <2>1. ~(i \in 1 .. Len(s1))
    BY <1>1, <1>5, <1>9, <1>17, EarlierSame DEF GreedyInv
  <2>2. Len(s1) # limit
    BY <1>1, <1>5, <1>7, <2>1
  <2>3. PICK j \in 1 .. n : hits[j] = c
    BY DEF ToSet
  <2>4. ~\E k \in 1 .. Len(s1) : s1[k] = c
    BY <1>1, <1>5, <1>9, <1>17 DEF Extends, ToSet
  <2>5. CapReached(corpus, s1, c) \/ Repeats(corpus, s1, c)
    BY <1>1, <2>2, <2>3, <2>4 DEF GreedyInv
  <2>6. QED BY <1>1, <1>5, <1>9, <2>5, CapStays, RepeatStays
<1>18. QED
  <2>1. DOMAIN s3 = 1 .. Len(s3)
    BY <1>5
  <2>2. QED
    BY <1>6, <1>11, <1>12, <1>14, <1>15, <1>16, <1>17, <2>1 DEF DiverseAndFull, Earlier

-----------------------------------------------------------------------------
(* Fusion. *)

OneOf(s) == CHOOSE x \in s : TRUE

LEMMA ProductExists ==
    ASSUME NEW S \in SUBSET Nat, IsFiniteSet(S)
    PROVE  \E F \in [SUBSET S -> Nat] :
              /\ F[{}] = 1
              /\ \A s \in SUBSET S : s # {} => F[s] = OneOf(s) * F[s \ {OneOf(s)}]
<1> DEFINE Small(k) == {s \in SUBSET S : Cardinality(s) <= k}
           Is(F, k) == /\ F \in [Small(k) -> Nat]
                       /\ F[{}] = 1
                       /\ \A s \in Small(k) : s # {} => F[s] = OneOf(s) * F[s \ {OneOf(s)}]
           n == Cardinality(S)
           Good == {k \in 0 .. n : \E F : Is(F, k)}
<1>1. n \in Nat
  BY FS_CardinalityType
<1>2. ASSUME NEW s \in SUBSET S
      PROVE  IsFiniteSet(s) /\ Cardinality(s) \in Nat /\ Cardinality(s) <= n
  BY FS_Subset, FS_CardinalityType
<1>3. ASSUME NEW s \in SUBSET S, s # {}
      PROVE  /\ OneOf(s) \in s /\ OneOf(s) \in Nat
             /\ s \ {OneOf(s)} \in SUBSET S
             /\ Cardinality(s \ {OneOf(s)}) = Cardinality(s) - 1
  <2>1. OneOf(s) \in s
    BY <1>3 DEF OneOf
  <2>2. QED BY <1>2, <2>1, FS_RemoveElement
<1>4. \A s \in SUBSET S : Cardinality(s) = 0 <=> s = {}
  BY <1>2, FS_EmptySet
<1>5. \E F : Is(F, 0)
  <2> DEFINE F == [s \in Small(0) |-> 1]
  <2>1. Small(0) = {{}}
    <3>1. \A s \in SUBSET S : Cardinality(s) <= 0 <=> s = {}
      BY <1>2, <1>4
    <3>2. QED BY <3>1
  <2>2. Is(F, 0)
    BY <2>1
  <2>3. QED BY <2>2
<1>6. ASSUME NEW k \in 0 .. n - 1, \E F : Is(F, k) PROVE \E F : Is(F, k + 1)
  <2>1. PICK E : Is(E, k)
    BY <1>6
  <2> DEFINE F == [s \in Small(k + 1) |->
                     IF Cardinality(s) <= k THEN E[s] ELSE OneOf(s) * E[s \ {OneOf(s)}]]
  <2>2. ASSUME NEW s \in Small(k + 1), s # {}
        PROVE  /\ s \ {OneOf(s)} \in Small(k) /\ s \ {OneOf(s)} \in Small(k + 1)
               /\ F[s \ {OneOf(s)}] = E[s \ {OneOf(s)}]
               /\ E[s \ {OneOf(s)}] \in Nat /\ OneOf(s) \in Nat
    <3>1. /\ OneOf(s) \in Nat /\ s \ {OneOf(s)} \in SUBSET S
          /\ Cardinality(s \ {OneOf(s)}) = Cardinality(s) - 1
      BY <1>3, <2>2
    <3>2. Cardinality(s \ {OneOf(s)}) <= k
      BY <1>2, <3>1
    <3>3. s \ {OneOf(s)} \in Small(k) /\ s \ {OneOf(s)} \in Small(k + 1)
      BY <1>2, <3>1, <3>2
    <3>4. E[s \ {OneOf(s)}] \in Nat
      BY <2>1, <3>3
    <3>5. QED BY <3>1, <3>2, <3>3, <3>4
  <2>3. ASSUME NEW s \in Small(k + 1), s # {}
        PROVE  F[s] = OneOf(s) * F[s \ {OneOf(s)}]
    <3>1. CASE Cardinality(s) <= k
      <4>1. s \in Small(k)
        BY <3>1
      <4>2. E[s] = OneOf(s) * E[s \ {OneOf(s)}]
        BY <2>1, <2>3, <4>1
      <4>3. QED BY <2>2, <2>3, <3>1, <4>2
    <3>2. CASE ~(Cardinality(s) <= k)
      BY <2>2, <2>3, <3>2
    <3>3. QED BY <3>1, <3>2
  <2>4. {} \in Small(k + 1) /\ {} \in Small(k) /\ F[{}] = 1
    <3>1. Cardinality({}) = 0
      BY FS_EmptySet
    <3>2. QED BY <2>1, <3>1
  <2>5. ASSUME NEW s \in Small(k + 1) PROVE F[s] \in Nat
    <3>1. CASE s = {}
      BY <2>4, <3>1
    <3>2. CASE s # {}
      <4>1. \A x, y \in Nat : x * y \in Nat
        OBVIOUS
      <4>2. F[s] = OneOf(s) * E[s \ {OneOf(s)}]
        BY <2>2, <2>3, <3>2
      <4>3. E[s \ {OneOf(s)}] \in Nat /\ OneOf(s) \in Nat
        BY <2>2, <3>2
      <4> HIDE DEF F
      <4>4. OneOf(s) * E[s \ {OneOf(s)}] \in Nat
        BY <4>1, <4>3
      <4>5. QED BY <4>2, <4>4
    <3>3. QED BY <3>1, <3>2
  <2>6. F \in [Small(k + 1) -> Nat]
    BY <2>5
  <2>7. Is(F, k + 1)
    BY <2>3, <2>4, <2>6
  <2>8. QED BY <2>7
<1>7. \E F : Is(F, n)
  <2> HIDE DEF Is, n
  <2>1. 0 \in Good /\ \A k \in 0 .. n - 1 : k \in Good => k + 1 \in Good
    BY <1>1, <1>5, <1>6
  <2>2. 0 .. n \subseteq Good
    <3> HIDE DEF Good
    <3>1. QED BY <1>1, <2>1, UpTo
  <2>3. QED BY <1>1, <2>2
<1>8. Small(n) = SUBSET S
  BY <1>2
<1>9. PICK F : Is(F, n)
  BY <1>7
<1>10. QED BY <1>8, <1>9

LEMMA DenominatorDivides ==
    /\ Denominator \in Nat \ {0}
    /\ \A r \in 1 .. MaxRank : \E q \in Nat : Denominator = (RrfK + r) * q
<1> DEFINE S == {RrfK + r : r \in 1 .. MaxRank}
           Body(F) == [s \in SUBSET S |->
                         IF s = {} THEN 1
                         ELSE (CHOOSE x \in s : TRUE) * F[s \ {CHOOSE x \in s : TRUE}]]
           it == CHOOSE F : F = Body(F)
           top == RrfK + MaxRank
<1>1. RrfK \in Nat /\ MaxRank \in Nat /\ top \in Nat
  BY FusionAssumption
<1>2. S \in SUBSET (Nat \ {0}) /\ \A x \in S : x <= top
  BY <1>1
<1>3. IsFiniteSet(S)
  <2> HIDE DEF S, top
  <2>1. QED BY <1>1, <1>2, FS_BoundedSetOfNaturals
<1>4. \E F : F = Body(F)
  <2> HIDE DEF S
  <2>1. PICK F \in [SUBSET S -> Nat] :
              /\ F[{}] = 1
              /\ \A s \in SUBSET S : s # {} => F[s] = OneOf(s) * F[s \ {OneOf(s)}]
    BY <1>2, <1>3, ProductExists
  <2>2. F = Body(F)
    BY <2>1 DEF OneOf
  <2>3. QED BY <2>2
<1>5. it = Body(it)
  BY <1>4
<1>6. Denominator = it[S]
  BY DEF Denominator, ProductSet, FoldSet, MapThenFoldSet
<1> HIDE DEF S
<1>7. it[{}] = 1 /\ \A s \in SUBSET S : s # {} => it[s] = OneOf(s) * it[s \ {OneOf(s)}]
  BY <1>5 DEF OneOf
<1> HIDE DEF it
<1> DEFINE n == Cardinality(S)
           Fine(s) == it[s] \in Nat \ {0} /\ \A x \in s : \E q \in Nat : it[s] = x * q
           Good == {k \in 0 .. n : \A s \in SUBSET S : Cardinality(s) = k => Fine(s)}
<1>8. n \in Nat
  BY <1>3, FS_CardinalityType
<1>9. 0 \in Good
  <2>1. ASSUME NEW s \in SUBSET S, Cardinality(s) = 0 PROVE s = {}
    <3>1. IsFiniteSet(s)
      BY <1>3, FS_Subset
    <3>2. QED BY <2>1, <3>1, FS_EmptySet
  <2>2. Fine({})
    BY <1>7
  <2>3. QED BY <1>8, <2>1, <2>2
<1>10. ASSUME NEW k \in 0 .. n - 1, k \in Good PROVE k + 1 \in Good
  <2>1. SUFFICES ASSUME NEW s \in SUBSET S, Cardinality(s) = k + 1 PROVE Fine(s)
    BY <1>8
  <2> DEFINE a == OneOf(s)
             t == s \ {a}
  <2>2. IsFiniteSet(s)
    BY <1>3, FS_Subset
  <2>3. s # {}
    <3>1. Cardinality({}) = 0
      BY FS_EmptySet
    <3>2. QED BY <1>8, <2>1, <3>1
  <2>4. a \in s
    BY <2>3 DEF OneOf
  <2>5. a \in Nat \ {0} /\ t \in SUBSET S
    BY <1>2, <2>4
  <2>6. Cardinality(t) = k
    BY <2>1, <2>2, <2>4, FS_RemoveElement
  <2>7. it[s] = a * it[t]
    BY <1>7, <2>3
  <2> HIDE DEF a
  <2>8. Fine(t)
    BY <1>10, <2>5, <2>6
  <2>9. it[s] \in Nat \ {0}
    <3>1. \A x, y \in Nat \ {0} : x * y \in Nat \ {0}
      OBVIOUS
    <3>2. it[t] \in Nat \ {0}
      BY <2>8
    <3>3. QED BY <2>5, <2>7, <3>1, <3>2
  <2>10. ASSUME NEW x \in s PROVE \E q \in Nat : it[s] = x * q
    <3>1. CASE x = a
      BY <2>7, <2>8, <3>1
    <3>2. CASE x # a
      <4>1. PICK q \in Nat : it[t] = x * q
        BY <2>8, <3>2
      <4>2. x \in Nat
        BY <1>2
      <4>3. a * (x * q) = x * (a * q) /\ a * q \in Nat
        BY <2>5, <4>2
      <4>4. QED BY <2>7, <4>1, <4>3
    <3>3. QED BY <3>1, <3>2
  <2>11. QED BY <2>9, <2>10
<1>11. n \in Good
  <2>1. 0 .. n \subseteq Good
    <3> HIDE DEF Good, n
    <3>1. QED BY <1>8, <1>9, <1>10, UpTo
  <2>2. QED BY <1>8, <2>1
<1>12. Fine(S)
  BY <1>11
<1>13. QED BY <1>6, <1>12 DEF S

LEMMA ShareFacts ==
    /\ \A r \in 1 .. MaxRank : Share(r) \in Nat \ {0}
    /\ \A r, t \in 1 .. MaxRank : r < t => Share(t) < Share(r)
    /\ \A r, t \in 1 .. MaxRank : Share(r) < 2 * Share(t)
<1>1. RrfK \in Nat /\ MaxRank \in Nat \ {0} /\ MaxRank <= RrfK + 1
  BY FusionAssumption
<1>2. Denominator \in Nat \ {0}
  BY DenominatorDivides
<1>3. ASSUME NEW r \in 1 .. MaxRank
      PROVE  Share(r) \in Nat \ {0} /\ Denominator = (RrfK + r) * Share(r)
  <2>1. PICK q \in Nat : Denominator = (RrfK + r) * q
    BY DenominatorDivides
  <2>2. \A a \in Nat \ {0}, b \in Nat : (a * b) \div a = b
    OBVIOUS
  <2>3. RrfK + r \in Nat \ {0}
    BY <1>1
  <2>4. Share(r) = q
    BY <2>1, <2>2, <2>3 DEF Share
  <2>5. q # 0
    <3>1. \A a \in Nat : a * 0 = 0
      OBVIOUS
    <3>2. QED BY <1>2, <2>1, <2>3, <3>1
  <2>6. QED BY <2>1, <2>4, <2>5
<1>4. \A a, b, x, y \in Nat \ {0} : a * x = b * y /\ a < b => y < x
  <2>1. SUFFICES ASSUME NEW a \in Nat \ {0}, NEW b \in Nat \ {0}, NEW x \in Nat \ {0}, NEW y \in Nat \ {0},
                        a * x = b * y, a < b, x <= y
                 PROVE  FALSE
    OBVIOUS
  <2>2. a * x <= a * y /\ a * y < b * y
    BY <2>1
  <2>3. QED BY <2>1, <2>2
<1>5. ASSUME NEW r \in 1 .. MaxRank, NEW t \in 1 .. MaxRank, r < t
      PROVE  Share(t) < Share(r)
  <2>1. RrfK + r \in Nat \ {0} /\ RrfK + t \in Nat \ {0} /\ RrfK + r < RrfK + t
    BY <1>1, <1>5
  <2>2. (RrfK + r) * Share(r) = (RrfK + t) * Share(t)
    BY <1>3
  <2>3. Share(r) \in Nat \ {0} /\ Share(t) \in Nat \ {0}
    BY <1>3
  <2> DEFINE a == RrfK + r
             b == RrfK + t
  <2> HIDE DEF a, b
  <2>4. a \in Nat \ {0} /\ b \in Nat \ {0} /\ a < b /\ a * Share(r) = b * Share(t)
    BY <2>1, <2>2 DEF a, b
  <2>5. QED BY <1>4, <2>3, <2>4
<1>6. ASSUME NEW r \in 1 .. MaxRank, NEW t \in 1 .. MaxRank
      PROVE  Share(r) < 2 * Share(t)
  <2> DEFINE a == RrfK + r
             b == 2 * (RrfK + r)
             c == RrfK + t
             x == Share(r)
             y == Share(t)
  <2>1. a \in Nat \ {0} /\ c \in Nat \ {0} /\ c < 2 * a
    BY <1>1
  <2>2. a * x = c * y
    BY <1>3
  <2>3. x \in Nat \ {0} /\ y \in Nat \ {0}
    BY <1>3
  <2> HIDE DEF a, c, x, y
  <2>4. SUFFICES ASSUME 2 * y <= x PROVE FALSE
    BY <2>3 DEF x, y
  <2>5. a * (2 * y) <= a * x
    BY <2>1, <2>3, <2>4
  <2>6. c * y < (2 * a) * y
    BY <2>1, <2>3
  <2>7. a * (2 * y) = (2 * a) * y
    BY <2>1, <2>3
  <2>8. QED BY <2>1, <2>2, <2>3, <2>5, <2>6, <2>7
<1>7. QED BY <1>3, <1>5, <1>6

(* What is ordered: the lists, and the order fusion puts on their chunks. *)

Lists(dense, sparse) ==
    /\ dense \in Seq(Int) /\ sparse \in Seq(Int)
    /\ Injective(dense) /\ Injective(sparse)
    /\ Len(dense) <= MaxRank /\ Len(sparse) <= MaxRank

LEMMA RankFacts ==
    ASSUME NEW list \in Seq(Int), Injective(list), Len(list) <= MaxRank, NEW c
    PROVE  /\ Found(list, c) <=> c \in ToSet(list)
           /\ Found(list, c) => /\ Rank(list, c) \in 1 .. Len(list) /\ Rank(list, c) \in 1 .. MaxRank
                                /\ list[Rank(list, c)] = c
           /\ \A i \in 1 .. Len(list) : Found(list, list[i]) /\ Rank(list, list[i]) = i
<1>1. Found(list, c) <=> c \in ToSet(list)
  BY DEF Found, ToSet
<1>2. ASSUME NEW d, Found(list, d)
      PROVE  Rank(list, d) \in 1 .. Len(list) /\ list[Rank(list, d)] = d
  BY <1>2 DEF Found, Rank
<1>3. \A i \in 1 .. Len(list) : i \in 1 .. MaxRank
  BY FusionAssumption
<1>4. \A i \in 1 .. Len(list) : Found(list, list[i])
  BY DEF Found
<1>5. \A i \in 1 .. Len(list) : Rank(list, list[i]) = i
  BY <1>2, <1>4 DEF Injective
<1>6. QED BY <1>1, <1>2, <1>3, <1>4, <1>5

LEMMA ShareInFacts ==
    ASSUME NEW list \in Seq(Int), Injective(list), Len(list) <= MaxRank, NEW c
    PROVE  /\ ShareIn(list, c) \in Nat
           /\ ShareIn(list, c) <= Share(1)
           /\ Found(list, c) => \A r \in 1 .. MaxRank : Share(r) < 2 * ShareIn(list, c)
           /\ Found(list, c) => ShareIn(list, c) # 0
           /\ ~Found(list, c) => ShareIn(list, c) = 0
<1>1. MaxRank \in Nat \ {0} /\ 1 \in 1 .. MaxRank
  BY FusionAssumption
<1>2. CASE Found(list, c)
  <2>1. Rank(list, c) \in 1 .. MaxRank
    BY <1>2, RankFacts
  <2>2. ShareIn(list, c) = Share(Rank(list, c))
    BY <1>2 DEF ShareIn
  <2> DEFINE r == Rank(list, c)
  <2> HIDE DEF r
  <2>3. r \in 1 .. MaxRank
    BY <2>1 DEF r
  <2>4. Share(r) \in Nat \ {0} /\ Share(1) \in Nat /\ Share(r) <= Share(1)
    <3>1. CASE r = 1
      BY <1>1, <3>1, ShareFacts
    <3>2. CASE r # 1
      BY <1>1, <2>3, <3>2, ShareFacts
    <3>3. QED BY <3>1, <3>2
  <2>5. \A t \in 1 .. MaxRank : Share(t) < 2 * Share(r)
    BY <2>3, ShareFacts
  <2>6. QED BY <1>2, <2>2, <2>4, <2>5 DEF r
<1>3. CASE ~Found(list, c)
  BY <1>1, <1>3, ShareFacts DEF ShareIn
<1>4. QED BY <1>2, <1>3

LEMMA PrecedesIsOrder ==
    ASSUME NEW dense, NEW sparse, Lists(dense, sparse)
    PROVE  /\ \A c : Score(dense, sparse, c) \in Nat
           /\ \A c, d \in Int : c # d => \/ Precedes(dense, sparse, c, d)
                                         \/ Precedes(dense, sparse, d, c)
           /\ \A c \in Int : ~Precedes(dense, sparse, c, c)
           /\ \A c, d, e \in Int :
                 Precedes(dense, sparse, c, d) /\ Precedes(dense, sparse, d, e)
                 => Precedes(dense, sparse, c, e)
<1>1. \A c : Score(dense, sparse, c) \in Nat
  <2>1. ASSUME NEW c PROVE ShareIn(dense, c) \in Nat /\ ShareIn(sparse, c) \in Nat
    BY ShareInFacts DEF Lists
  <2>2. QED BY <2>1 DEF Score
<1>2. \A c, d \in Int : Precedes(dense, sparse, c, d) <=>
         \/ Score(dense, sparse, c) > Score(dense, sparse, d)
         \/ Score(dense, sparse, c) = Score(dense, sparse, d) /\ c < d
  BY DEF Precedes
<1>3. QED BY <1>1, <1>2

LEMMA MergedFacts ==
    ASSUME NEW dense, NEW sparse, Lists(dense, sparse)
    PROVE  /\ Merged(dense, sparse) \in SUBSET Int
           /\ IsFiniteSet(Merged(dense, sparse))
           /\ Cardinality(Merged(dense, sparse)) \in Nat
<1>1. dense \in Seq(Int) /\ sparse \in Seq(Int)
  BY DEF Lists
<1>2. ToSet(dense) \subseteq Int /\ ToSet(sparse) \subseteq Int
  BY <1>1 DEF ToSet
<1>3. IsFiniteSet(ToSet(dense)) /\ IsFiniteSet(ToSet(sparse))
  BY InjectiveCount DEF Lists
<1>4. QED BY <1>2, <1>3, FS_Union, FS_CardinalityType DEF Merged

LEMMA FusedOrder ==
    ASSUME NEW dense, NEW sparse, Lists(dense, sparse)
    PROVE  LET found == Merged(dense, sparse)
               hits  == Fused(dense, sparse)
           IN  /\ hits \in [1 .. Cardinality(found) -> found]
               /\ \A i \in 1 .. Cardinality(found) : Place(dense, sparse, hits[i]) = i
               /\ \A c, d \in found : Place(dense, sparse, c) = Place(dense, sparse, d) => c = d
               /\ \A i, j \in 1 .. Cardinality(found) :
                     Precedes(dense, sparse, hits[i], hits[j]) => i < j
               /\ \A c \in found : \E i \in 1 .. Cardinality(found) : hits[i] = c
<1> DEFINE found == Merged(dense, sparse)
           hits  == Fused(dense, sparse)
           P(c, d) == Precedes(dense, sparse, c, d)
           After(c) == {d \in found : ~P(c, d)}
           At(c) == Cardinality(After(c))
           n == Cardinality(found)
<1>1. found \in SUBSET Int /\ IsFiniteSet(found) /\ n \in Nat
  BY MergedFacts
<1>2. /\ \A c, d \in found : c # d => P(c, d) \/ P(d, c)
      /\ \A c \in found : ~P(c, c)
      /\ \A c, d, e \in found : P(c, d) /\ P(d, e) => P(c, e)
  BY <1>1, PrecedesIsOrder
<1>3. \A c : Place(dense, sparse, c) = At(c)
  BY DEF Place
<1>4. hits = [i \in 1 .. n |-> CHOOSE c \in found : At(c) = i]
  BY DEF Fused, Place
<1> HIDE DEF P, hits, found
<1>5. ASSUME NEW c \in found
      PROVE  After(c) \subseteq found /\ IsFiniteSet(After(c)) /\ At(c) \in 1 .. n
  <2>1. After(c) \subseteq found /\ c \in After(c)
    BY <1>2
  <2>2. IsFiniteSet(After(c)) /\ Cardinality(After(c)) <= n
    BY <1>1, <2>1, FS_Subset
  <2>3. At(c) \in Nat /\ At(c) # 0
    BY <2>1, <2>2, FS_CardinalityType, FS_EmptySet
  <2>4. QED BY <1>1, <2>1, <2>2, <2>3
<1>6. ASSUME NEW c \in found, NEW d \in found, P(c, d)
      PROVE  At(c) < At(d)
  <2>1. \A e \in found : ~P(c, e) => ~P(d, e)
    BY <1>2, <1>6
  <2>2. After(c) \subseteq After(d) /\ d \in After(d) /\ d \notin After(c)
    BY <1>2, <1>6, <2>1
  <2>3. IsFiniteSet(After(c)) /\ IsFiniteSet(After(d))
    BY <1>5
  <2>4. At(c) <= At(d) /\ At(c) # At(d)
    <3> HIDE DEF After
    <3>1. QED BY <2>2, <2>3, FS_Subset
  <2>5. QED BY <1>5, <2>4
<1>7. ASSUME NEW c \in found, NEW d \in found, At(c) = At(d) PROVE c = d
  <2>1. At(c) \in Int /\ At(d) \in Int
    BY <1>5
  <2>2. ~(At(c) < At(d)) /\ ~(At(d) < At(c))
    BY <1>7, <2>1
  <2>3. QED BY <1>2, <1>6, <2>2
<1>8. ASSUME NEW i \in 1 .. n PROVE \E c \in found : At(c) = i
  <2> DEFINE f == [c \in found |-> At(c)]
             D == 1 .. n
  <2>1. f \in [found -> D]
    BY <1>5
  <2>2. \A c, d \in found : f[c] = f[d] => c = d
    BY <1>7
  <2>3. IsFiniteSet(D) /\ Cardinality(D) = n
    BY <1>1, FS_Interval
  <2> HIDE DEF f, D, n
  <2>4. f \in Injection(found, D)
    BY <2>1, <2>2 DEF Injection, IsInjective
  <2>5. Cardinality(found) = Cardinality(D)
    BY <2>3 DEF n
  <2>6. f \in Surjection(found, D)
    BY <2>3, <2>4, <2>5, FS_Injection
  <2>7. i \in D
    BY DEF D
  <2>8. \E c \in found : f[c] = i
    BY <2>6, <2>7 DEF Surjection
  <2>9. QED BY <2>8 DEF f
<1>9. ASSUME NEW i \in 1 .. n PROVE hits[i] \in found /\ At(hits[i]) = i
  <2> HIDE DEF At
  <2>1. hits[i] = CHOOSE c \in found : At(c) = i
    BY <1>4
  <2>2. QED BY <1>8, <2>1
<1>10. hits \in [1 .. n -> found]
  BY <1>4, <1>9
<1>11. ASSUME NEW i \in 1 .. n, NEW j \in 1 .. n, P(hits[i], hits[j]) PROVE i < j
  <2> HIDE DEF At
  <2>1. QED BY <1>6, <1>9, <1>11
<1>12. ASSUME NEW c \in found PROVE \E i \in 1 .. n : hits[i] = c
  <2> HIDE DEF At
  <2>1. At(c) \in 1 .. n
    BY <1>5
  <2>2. hits[At(c)] = c
    BY <1>7, <1>9, <2>1
  <2>3. QED BY <2>1, <2>2
<1>13. QED BY <1>3, <1>7, <1>9, <1>10, <1>11, <1>12 DEF P, hits, found

LEMMA AgreementAlwaysWins ==
    ASSUME NEW dense, NEW sparse, Lists(dense, sparse)
    PROVE  AgreementWins(dense, sparse)
<1> DEFINE found == Merged(dense, sparse)
           hits  == Fused(dense, sparse)
           n     == Cardinality(found)
           S(c)  == Score(dense, sparse, c)
           Both(c) == Found(dense, c) /\ Found(sparse, c)
           Ahead(list, c, d) == Found(list, c) /\ (Found(list, d) => Rank(list, c) < Rank(list, d))
<1>1. /\ hits \in [1 .. n -> found]
      /\ \A i, j \in 1 .. n : Precedes(dense, sparse, hits[i], hits[j]) => i < j
      /\ \A c \in found : \E i \in 1 .. n : hits[i] = c
  BY FusedOrder
<1>2. MaxRank \in Nat \ {0} /\ 1 \in 1 .. MaxRank
  BY FusionAssumption
<1>3. Share(1) \in Nat \ {0}
  BY <1>2, ShareFacts
<1>4. \A c : S(c) = ShareIn(dense, c) + ShareIn(sparse, c)
  BY DEF Score
<1>5. ASSUME NEW c
      PROVE  /\ ShareIn(dense, c) \in Nat /\ ShareIn(sparse, c) \in Nat
             /\ ShareIn(dense, c) <= Share(1) /\ ShareIn(sparse, c) <= Share(1)
             /\ Found(dense, c) => ShareIn(dense, c) # 0 /\ Share(1) < 2 * ShareIn(dense, c)
             /\ Found(sparse, c) => ShareIn(sparse, c) # 0 /\ Share(1) < 2 * ShareIn(sparse, c)
             /\ ~Found(dense, c) => ShareIn(dense, c) = 0
             /\ ~Found(sparse, c) => ShareIn(sparse, c) = 0
  BY <1>2, ShareInFacts DEF Lists
<1>6. \A c : c \in found <=> Found(dense, c) \/ Found(sparse, c)
  BY RankFacts DEF Lists, Merged
<1>7. ASSUME NEW c, NEW d, Both(c), ~Both(d) PROVE S(c) > S(d)
  <2> HIDE DEF S
  <2>1. Share(1) < S(c)
    BY <1>3, <1>4, <1>5, <1>7
  <2>2. S(d) <= Share(1)
    BY <1>3, <1>4, <1>5, <1>7
  <2>3. S(c) \in Nat /\ S(d) \in Nat
    BY <1>4, <1>5
  <2>4. QED BY <1>3, <2>1, <2>2, <2>3
<1>8. ASSUME NEW list, list = dense \/ list = sparse, NEW c, NEW d, Ahead(list, c, d)
      PROVE  ShareIn(list, c) > ShareIn(list, d)
  <2>1. CASE Found(list, d)
    <3>1. list \in Seq(Int) /\ Injective(list) /\ Len(list) <= MaxRank
      BY <1>8 DEF Lists
    <3>2. Rank(list, c) \in 1 .. MaxRank /\ Rank(list, d) \in 1 .. MaxRank
      BY <1>8, <2>1, <3>1, RankFacts
    <3>3. Share(Rank(list, d)) < Share(Rank(list, c))
      BY <1>8, <2>1, <3>2, ShareFacts
    <3>4. ShareIn(list, c) = Share(Rank(list, c)) /\ ShareIn(list, d) = Share(Rank(list, d))
      BY <1>8, <2>1 DEF ShareIn
    <3>5. Share(Rank(list, c)) \in Nat /\ Share(Rank(list, d)) \in Nat
      BY <3>2, ShareFacts
    <3>6. QED BY <3>3, <3>4, <3>5
  <2>2. CASE ~Found(list, d)
    BY <1>5, <1>8, <2>2
  <2>3. QED BY <2>1, <2>2
<1>9. ASSUME NEW c, NEW d, Ahead(dense, c, d), Ahead(sparse, c, d) PROVE S(c) > S(d)
  <2>1. ShareIn(dense, c) > ShareIn(dense, d) /\ ShareIn(sparse, c) > ShareIn(sparse, d)
    BY <1>8, <1>9
  <2>2. QED BY <1>4, <1>5, <2>1
<1>10. \A c, d : S(c) > S(d) => Precedes(dense, sparse, c, d)
  BY DEF Precedes
<1> HIDE DEF S
<1>11. BestPossible = 2 * Share(1)
  BY DEF BestPossible
<1>12. ASSUME NEW c \in found PROVE S(c) \in 1 .. BestPossible
  <2>1. S(c) \in Nat /\ S(c) # 0
    BY <1>4, <1>5, <1>6
  <2>2. S(c) <= 2 * Share(1)
    BY <1>3, <1>4, <1>5
  <2>3. QED BY <1>3, <1>11, <2>1, <2>2
<1>13. DOMAIN hits = 1 .. n /\ ToSet(hits) \subseteq found
  BY <1>1 DEF ToSet
<1> DEFINE Must(c, d) == \/ Both(c) /\ ~Both(d)
                         \/ Ahead(dense, c, d) /\ Ahead(sparse, c, d)
<1>14. \A c, d : Must(c, d) => Precedes(dense, sparse, c, d)
  BY <1>7, <1>9, <1>10
<1>15. \A i, j \in DOMAIN hits : Must(hits[i], hits[j]) => i < j
  <2> HIDE DEF Must, hits, n
  <2>1. QED BY <1>1, <1>13, <1>14
<1>16. \A c \in ToSet(hits) : Score(dense, sparse, c) \in 1 .. BestPossible
  BY <1>12, <1>13 DEF S
<1>17. QED
  BY <1>15, <1>16 DEF AgreementWins

LEMMA ListAloneKeepsOrder ==
    ASSUME NEW dense, Lists(dense, <<>>)
    PROVE  Fused(dense, <<>>) = dense
<1> DEFINE found == Merged(dense, <<>>)
           hits  == Fused(dense, <<>>)
           n     == Cardinality(found)
           After(c) == {d \in found : ~Precedes(dense, <<>>, c, d)}
<1>1. dense \in Seq(Int) /\ Injective(dense) /\ Len(dense) <= MaxRank
  BY DEF Lists
<1>2. found = ToSet(dense)
  BY DEF ToSet, Merged
<1>3. n = Len(dense)
  BY <1>1, <1>2, InjectiveCount
<1>4. /\ hits \in [1 .. n -> found]
      /\ \A i \in 1 .. n : Place(dense, <<>>, hits[i]) = i
      /\ \A c, d \in found : Place(dense, <<>>, c) = Place(dense, <<>>, d) => c = d
  BY FusedOrder
<1>5. ASSUME NEW i \in 1 .. Len(dense)
      PROVE  dense[i] \in found /\ i \in 1 .. MaxRank /\ Score(dense, <<>>, dense[i]) = Share(i)
  <2>1. Found(dense, dense[i]) /\ Rank(dense, dense[i]) = i
    BY <1>1, RankFacts
  <2>2. ShareIn(dense, dense[i]) = Share(i)
    BY <2>1 DEF ShareIn
  <2>3. ShareIn(<<>>, dense[i]) = 0
    BY DEF ShareIn, Found
  <2>4. i \in 1 .. MaxRank
    BY <1>1, FusionAssumption
  <2>5. Share(i) \in Nat
    BY <2>4, ShareFacts
  <2>6. dense[i] \in found
    BY <1>1, <1>2, MembersOfSeq
  <2>7. QED BY <2>2, <2>3, <2>4, <2>5, <2>6 DEF Score
<1>6. ASSUME NEW i \in 1 .. Len(dense), NEW j \in 1 .. Len(dense)
      PROVE  Precedes(dense, <<>>, dense[i], dense[j]) <=> i < j
  <2>1. Share(i) \in Nat /\ Share(j) \in Nat
    BY <1>5, ShareFacts
  <2>2. i < j => Share(j) < Share(i)
    BY <1>5, ShareFacts
  <2>3. j < i => Share(i) < Share(j)
    BY <1>5, ShareFacts
  <2>4. Precedes(dense, <<>>, dense[i], dense[j]) <=>
           Share(i) > Share(j) \/ (Share(i) = Share(j) /\ dense[i] < dense[j])
    BY <1>5 DEF Precedes
  <2>5. i = j => ~(dense[i] < dense[j])
    BY <1>1
  <2>6. QED BY <2>1, <2>2, <2>3, <2>4, <2>5
<1>7. ASSUME NEW i \in 1 .. Len(dense) PROVE Place(dense, <<>>, dense[i]) = i
  <2> DEFINE head == SubSeq(dense, 1, i)
  <2>1. head \in Seq(Int) /\ Len(head) = i /\ \A j \in 1 .. i : head[j] = dense[j]
    BY <1>1
  <2>2. Injective(head)
    BY <1>1, <2>1 DEF Injective
  <2>3. \A c : c \in ToSet(head) <=> \E j \in 1 .. i : dense[j] = c
    <3> HIDE DEF head
    <3>1. QED BY <2>1, MembersOfSeq
  <2>4. \A c : c \in found <=> \E j \in 1 .. Len(dense) : dense[j] = c
    BY <1>1, <1>2, MembersOfSeq
  <2> HIDE DEF head, found
  <2>5. \A j \in 1 .. Len(dense) : dense[j] \in After(dense[i]) <=> j <= i
    BY <1>5, <1>6
  <2>6. After(dense[i]) = ToSet(head)
    <3>1. ASSUME NEW c \in ToSet(head) PROVE c \in After(dense[i])
      <4>1. PICK j \in 1 .. i : dense[j] = c
        BY <2>3
      <4>2. j \in 1 .. Len(dense) /\ j <= i
        BY <1>1
      <4>3. QED BY <2>5, <4>1, <4>2
    <3>2. ASSUME NEW c \in After(dense[i]) PROVE c \in ToSet(head)
      <4>1. PICK j \in 1 .. Len(dense) : dense[j] = c
        BY <2>4
      <4>2. j \in 1 .. i
        BY <2>5, <3>2, <4>1
      <4>3. QED BY <2>3, <4>1, <4>2
    <3>3. QED BY <3>1, <3>2
  <2>7. Cardinality(ToSet(head)) = i
    BY <2>1, <2>2, InjectiveCount
  <2>8. QED BY <2>6, <2>7 DEF Place, found
<1>8. \A i \in 1 .. n : hits[i] = dense[i]
  <2> HIDE DEF hits, n, found
  <2>1. QED BY <1>3, <1>4, <1>5, <1>7
<1>9. QED
  <2> HIDE DEF hits, n, found
  <2>1. hits = [i \in 1 .. n |-> dense[i]]
    BY <1>4, <1>8
  <2>2. dense = [i \in 1 .. Len(dense) |-> dense[i]]
    BY <1>1
  <2>3. hits = dense
    BY <1>3, <2>1, <2>2
  <2>4. QED BY <2>3 DEF hits

-----------------------------------------------------------------------------
(* The prompt. *)

LEMMA QueryTermsSteps ==
    ASSUME NEW W, NEW words \in Seq(W)
    PROVE  \E g : /\ g[0] = <<>>
                  /\ \A k \in 1 .. Len(words) : g[k] = AddTerm(g[k - 1], words[k])
                  /\ g[Len(words)] = QueryTerms(words)
<1> DEFINE n == Len(words)
           Body(F) == [s \in SUBSET (DOMAIN words) |->
                         IF s = {} THEN <<>>
                         ELSE AddTerm(F[s \ {Max(s)}], words[Max(s)])]
           it == CHOOSE F : F = Body(F)
<1>1. \E F : F = Body(F)
  <2> DEFINE G == [p \in Seq({words[i].name : i \in DOMAIN words}) \X (1 .. n) |-> AddTerm(p[1], words[p[2]])]
  <2>1. G \in [Seq({words[i].name : i \in DOMAIN words}) \X (1 .. n) -> Seq({words[i].name : i \in DOMAIN words})]
    BY DEF AddTerm
  <2>2. PICK F : IsFold(F, Seq({words[i].name : i \in DOMAIN words}), n, <<>>, G)
    <3>1. n \in Nat /\ <<>> \in Seq({words[i].name : i \in DOMAIN words})
      OBVIOUS
    <3> HIDE DEF G, n
    <3>2. QED BY <2>1, <3>1, FoldExists
  <2>3. ASSUME NEW s \in SUBSET (1 .. n), s # {}
        PROVE  G[<<F[s \ {Max(s)}], Max(s)>>] = AddTerm(F[s \ {Max(s)}], words[Max(s)])
    <3>1. Max(s) \in s
      <4>1. n \in Nat
        OBVIOUS
      <4> HIDE DEF n
      <4>2. QED BY <2>3, <4>1, MaxIn
    <3>2. F[s \ {Max(s)}] \in Seq({words[i].name : i \in DOMAIN words})
      BY <2>2 DEF IsFold
    <3>3. QED BY <3>1, <3>2
  <2>4. F = Body(F)
    <3>1. DOMAIN words = 1 .. n
      OBVIOUS
    <3> HIDE DEF G, n
    <3>2. \A s \in SUBSET (1 .. n) : F[s] = Body(F)[s]
      BY <2>2, <2>3, <3>1 DEF IsFold
    <3>3. F = [s \in SUBSET (1 .. n) |-> F[s]]
      BY <2>2 DEF IsFold
    <3>4. F = [s \in SUBSET (DOMAIN words) |-> Body(F)[s]]
      BY <3>1, <3>2, <3>3
    <3>5. QED BY <3>4
  <2>5. QED BY <2>4
<1>2. it = Body(it)
  BY <1>1
<1>3. QueryTerms(words) = it[DOMAIN words]
  BY DEF QueryTerms, FoldLeft, MapThenFoldSet
<1> DEFINE g == [k \in 0 .. n |-> it[1 .. k]]
<1>4. ASSUME NEW k \in 1 .. n
      PROVE  g[k] = AddTerm(g[k - 1], words[k])
  <2>1. 1 .. k \in SUBSET (DOMAIN words) /\ 1 .. k # {}
    <3>1. DOMAIN words = 1 .. n /\ n \in Nat
      OBVIOUS
    <3>2. k \in Int /\ 1 <= k /\ k <= n
      OBVIOUS
    <3> HIDE DEF n
    <3>3. \A x \in 1 .. k : x \in 1 .. n
      BY <3>1, <3>2
    <3>4. 1 \in 1 .. k
      BY <3>2
    <3>5. QED BY <3>1, <3>3, <3>4
  <2>2. Max(1 .. k) = k
    BY MaxUpTo
  <2>3. (1 .. k) \ {k} = 1 .. k - 1 /\ k - 1 \in 0 .. n /\ k \in 0 .. n
    OBVIOUS
  <2> HIDE DEF it
  <2>4. it[1 .. k] = AddTerm(it[(1 .. k) \ {k}], words[k])
    BY <1>2, <2>1, <2>2
  <2>5. QED BY <2>3, <2>4
<1>5. g[0] = <<>>
  <2>1. {} \in SUBSET (DOMAIN words) /\ 1 .. 0 = {}
    OBVIOUS
  <2> HIDE DEF it
  <2>2. it[{}] = <<>>
    BY <1>2, <2>1
  <2>3. QED BY <2>1, <2>2
<1>6. g[n] = QueryTerms(words)
  <2> HIDE DEF it
  <2>1. g[n] = it[1 .. n] /\ DOMAIN words = 1 .. n
    OBVIOUS
  <2>2. QED BY <1>3, <2>1
<1>7. QED BY <1>4, <1>5, <1>6

Taken == [costs : Seq(Int), used : Int, full : BOOLEAN]
Nothing == [costs |-> <<>>, used |-> 0, full |-> FALSE]

LEMMA TakeSourceType ==
    ASSUME NEW taken \in Taken, NEW cost \in Int, NEW budget \in Int
    PROVE  TakeSource(taken, cost, budget) \in Taken
<1>1. /\ taken.costs \in Seq(Int) /\ taken.used \in Int /\ taken.full \in BOOLEAN
      /\ taken = [costs |-> taken.costs, used |-> taken.used, full |-> taken.full]
  BY DEF Taken
<1>2. [taken EXCEPT !.full = TRUE] \in Taken
  BY <1>1 DEF Taken
<1>3. Append(taken.costs, cost) \in Seq(Int) /\ taken.used + cost \in Int
  BY <1>1
<1>4. [taken EXCEPT !.costs = Append(@, cost), !.used = @ + cost] \in Taken
  BY <1>1, <1>3 DEF Taken
<1>5. QED BY <1>2, <1>4 DEF TakeSource

LEMMA SourcesSteps ==
    ASSUME NEW costs \in Seq(Int), NEW budget \in Int
    PROVE  \E g : /\ g[0] = Nothing
                  /\ \A k \in 1 .. Len(costs) : g[k] = TakeSource(g[k - 1], costs[k], budget)
                  /\ g[Len(costs)] = FoldLeft(LAMBDA taken, cost : TakeSource(taken, cost, budget), Nothing, costs)
<1> DEFINE n == Len(costs)
           Body(F) == [s \in SUBSET (DOMAIN costs) |->
                         IF s = {} THEN Nothing
                         ELSE TakeSource(F[s \ {Max(s)}], costs[Max(s)], budget)]
           it == CHOOSE F : F = Body(F)
<1>1. \E F : F = Body(F)
  <2> DEFINE G == [p \in Taken \X (1 .. n) |-> TakeSource(p[1], costs[p[2]], budget)]
  <2>1. G \in [Taken \X (1 .. n) -> Taken]
    BY TakeSourceType
  <2>2. PICK F : IsFold(F, Taken, n, Nothing, G)
    <3>1. n \in Nat /\ Nothing \in Taken
      BY DEF Nothing, Taken
    <3> HIDE DEF G, n
    <3>2. QED BY <2>1, <3>1, FoldExists
  <2>3. ASSUME NEW s \in SUBSET (1 .. n), s # {}
        PROVE  G[<<F[s \ {Max(s)}], Max(s)>>] = TakeSource(F[s \ {Max(s)}], costs[Max(s)], budget)
    <3>1. Max(s) \in s
      <4>1. n \in Nat
        OBVIOUS
      <4> HIDE DEF n
      <4>2. QED BY <2>3, <4>1, MaxIn
    <3>2. F[s \ {Max(s)}] \in Taken
      BY <2>2 DEF IsFold
    <3>3. QED BY <3>1, <3>2
  <2>4. F = Body(F)
    <3>1. DOMAIN costs = 1 .. n
      OBVIOUS
    <3> HIDE DEF G, n
    <3>2. \A s \in SUBSET (1 .. n) : F[s] = Body(F)[s]
      BY <2>2, <2>3, <3>1 DEF IsFold
    <3>3. F = [s \in SUBSET (1 .. n) |-> F[s]]
      BY <2>2 DEF IsFold
    <3>4. F = [s \in SUBSET (DOMAIN costs) |-> Body(F)[s]]
      BY <3>1, <3>2, <3>3
    <3>5. QED BY <3>4
  <2>5. QED BY <2>4
<1>2. it = Body(it)
  BY <1>1
<1>3. FoldLeft(LAMBDA taken, cost : TakeSource(taken, cost, budget), Nothing, costs) = it[DOMAIN costs]
  BY DEF FoldLeft, MapThenFoldSet
<1> DEFINE g == [k \in 0 .. n |-> it[1 .. k]]
<1>4. ASSUME NEW k \in 1 .. n
      PROVE  g[k] = TakeSource(g[k - 1], costs[k], budget)
  <2>1. 1 .. k \in SUBSET (DOMAIN costs) /\ 1 .. k # {}
    <3>1. DOMAIN costs = 1 .. n /\ n \in Nat
      OBVIOUS
    <3>2. k \in Int /\ 1 <= k /\ k <= n
      OBVIOUS
    <3> HIDE DEF n
    <3>3. \A x \in 1 .. k : x \in 1 .. n
      BY <3>1, <3>2
    <3>4. 1 \in 1 .. k
      BY <3>2
    <3>5. QED BY <3>1, <3>3, <3>4
  <2>2. Max(1 .. k) = k
    BY MaxUpTo
  <2>3. (1 .. k) \ {k} = 1 .. k - 1 /\ k - 1 \in 0 .. n /\ k \in 0 .. n
    OBVIOUS
  <2> HIDE DEF it
  <2>4. it[1 .. k] = TakeSource(it[(1 .. k) \ {k}], costs[k], budget)
    BY <1>2, <2>1, <2>2
  <2>5. QED BY <2>3, <2>4
<1>5. g[0] = Nothing
  <2>1. {} \in SUBSET (DOMAIN costs) /\ 1 .. 0 = {}
    OBVIOUS
  <2> HIDE DEF it
  <2>2. it[{}] = Nothing
    BY <1>2, <2>1
  <2>3. QED BY <2>1, <2>2
<1>6. g[n] = FoldLeft(LAMBDA taken, cost : TakeSource(taken, cost, budget), Nothing, costs)
  <2> HIDE DEF it
  <2>1. g[n] = it[1 .. n] /\ DOMAIN costs = 1 .. n
    OBVIOUS
  <2>2. QED BY <1>3, <2>1
<1>7. QED BY <1>4, <1>5, <1>6

LEMMA SumSteps ==
    ASSUME NEW costs \in Seq(Int)
    PROVE  \E g : /\ g[0] = 0
                  /\ \A k \in 1 .. Len(costs) : g[k] = g[k - 1] + costs[k]
                  /\ g[Len(costs)] = FoldLeft(LAMBDA s, c : s + c, 0, costs)
<1> DEFINE n == Len(costs)
           Body(F) == [s \in SUBSET (DOMAIN costs) |->
                         IF s = {} THEN 0
                         ELSE F[s \ {Max(s)}] + costs[Max(s)]]
           it == CHOOSE F : F = Body(F)
<1>1. \E F : F = Body(F)
  <2> DEFINE G == [p \in Int \X (1 .. n) |-> p[1] + costs[p[2]]]
  <2>1. G \in [Int \X (1 .. n) -> Int]
    OBVIOUS
  <2>2. PICK F : IsFold(F, Int, n, 0, G)
    <3>1. n \in Nat /\ 0 \in Int
      OBVIOUS
    <3> HIDE DEF G, n
    <3>2. QED BY <2>1, <3>1, FoldExists
  <2>3. ASSUME NEW s \in SUBSET (1 .. n), s # {}
        PROVE  G[<<F[s \ {Max(s)}], Max(s)>>] = F[s \ {Max(s)}] + costs[Max(s)]
    <3>1. Max(s) \in s
      <4>1. n \in Nat
        OBVIOUS
      <4> HIDE DEF n
      <4>2. QED BY <2>3, <4>1, MaxIn
    <3>2. F[s \ {Max(s)}] \in Int
      BY <2>2 DEF IsFold
    <3>3. QED BY <3>1, <3>2
  <2>4. F = Body(F)
    <3>1. DOMAIN costs = 1 .. n
      OBVIOUS
    <3> HIDE DEF G, n
    <3>2. \A s \in SUBSET (1 .. n) : F[s] = Body(F)[s]
      BY <2>2, <2>3, <3>1 DEF IsFold
    <3>3. F = [s \in SUBSET (1 .. n) |-> F[s]]
      BY <2>2 DEF IsFold
    <3>4. F = [s \in SUBSET (DOMAIN costs) |-> Body(F)[s]]
      BY <3>1, <3>2, <3>3
    <3>5. QED BY <3>4
  <2>5. QED BY <2>4
<1>2. it = Body(it)
  BY <1>1
<1>3. FoldLeft(LAMBDA s, c : s + c, 0, costs) = it[DOMAIN costs]
  BY DEF FoldLeft, MapThenFoldSet
<1> DEFINE g == [k \in 0 .. n |-> it[1 .. k]]
<1>4. ASSUME NEW k \in 1 .. n
      PROVE  g[k] = g[k - 1] + costs[k]
  <2>1. 1 .. k \in SUBSET (DOMAIN costs) /\ 1 .. k # {}
    <3>1. DOMAIN costs = 1 .. n /\ n \in Nat
      OBVIOUS
    <3>2. k \in Int /\ 1 <= k /\ k <= n
      OBVIOUS
    <3> HIDE DEF n
    <3>3. \A x \in 1 .. k : x \in 1 .. n
      BY <3>1, <3>2
    <3>4. 1 \in 1 .. k
      BY <3>2
    <3>5. QED BY <3>1, <3>3, <3>4
  <2>2. Max(1 .. k) = k
    BY MaxUpTo
  <2>3. (1 .. k) \ {k} = 1 .. k - 1 /\ k - 1 \in 0 .. n /\ k \in 0 .. n
    OBVIOUS
  <2> HIDE DEF it
  <2>4. it[1 .. k] = it[(1 .. k) \ {k}] + costs[k]
    BY <1>2, <2>1, <2>2
  <2>5. QED BY <2>3, <2>4
<1>5. g[0] = 0
  <2>1. {} \in SUBSET (DOMAIN costs) /\ 1 .. 0 = {}
    OBVIOUS
  <2> HIDE DEF it
  <2>2. it[{}] = 0
    BY <1>2, <2>1
  <2>3. QED BY <2>1, <2>2
<1>6. g[n] = FoldLeft(LAMBDA s, c : s + c, 0, costs)
  <2> HIDE DEF it
  <2>1. g[n] = it[1 .. n] /\ DOMAIN costs = 1 .. n
    OBVIOUS
  <2>2. QED BY <1>3, <2>1
<1>7. QED BY <1>4, <1>5, <1>6

LEMMA SaidSteps ==
    ASSUME NEW W, NEW rows \in Seq(W)
    PROVE  \E g : /\ g[0] = <<>>
                  /\ \A k \in 1 .. Len(rows) : g[k] = AddTurn(g[k - 1], rows[k])
                  /\ g[Len(rows)] = Said(rows)
<1> DEFINE n == Len(rows)
           Body(F) == [s \in SUBSET (DOMAIN rows) |->
                         IF s = {} THEN <<>>
                         ELSE AddTurn(F[s \ {Max(s)}], rows[Max(s)])]
           it == CHOOSE F : F = Body(F)
<1>1. \E F : F = Body(F)
  <2> DEFINE G == [p \in Seq(W) \X (1 .. n) |-> AddTurn(p[1], rows[p[2]])]
  <2>1. G \in [Seq(W) \X (1 .. n) -> Seq(W)]
    BY DEF AddTurn
  <2>2. PICK F : IsFold(F, Seq(W), n, <<>>, G)
    <3>1. n \in Nat /\ <<>> \in Seq(W)
      OBVIOUS
    <3> HIDE DEF G, n
    <3>2. QED BY <2>1, <3>1, FoldExists
  <2>3. ASSUME NEW s \in SUBSET (1 .. n), s # {}
        PROVE  G[<<F[s \ {Max(s)}], Max(s)>>] = AddTurn(F[s \ {Max(s)}], rows[Max(s)])
    <3>1. Max(s) \in s
      <4>1. n \in Nat
        OBVIOUS
      <4> HIDE DEF n
      <4>2. QED BY <2>3, <4>1, MaxIn
    <3>2. F[s \ {Max(s)}] \in Seq(W)
      BY <2>2 DEF IsFold
    <3>3. QED BY <3>1, <3>2
  <2>4. F = Body(F)
    <3>1. DOMAIN rows = 1 .. n
      OBVIOUS
    <3> HIDE DEF G, n
    <3>2. \A s \in SUBSET (1 .. n) : F[s] = Body(F)[s]
      BY <2>2, <2>3, <3>1 DEF IsFold
    <3>3. F = [s \in SUBSET (1 .. n) |-> F[s]]
      BY <2>2 DEF IsFold
    <3>4. F = [s \in SUBSET (DOMAIN rows) |-> Body(F)[s]]
      BY <3>1, <3>2, <3>3
    <3>5. QED BY <3>4
  <2>5. QED BY <2>4
<1>2. it = Body(it)
  BY <1>1
<1>3. Said(rows) = it[DOMAIN rows]
  BY DEF Said, FoldLeft, MapThenFoldSet
<1> DEFINE g == [k \in 0 .. n |-> it[1 .. k]]
<1>4. ASSUME NEW k \in 1 .. n
      PROVE  g[k] = AddTurn(g[k - 1], rows[k])
  <2>1. 1 .. k \in SUBSET (DOMAIN rows) /\ 1 .. k # {}
    <3>1. DOMAIN rows = 1 .. n /\ n \in Nat
      OBVIOUS
    <3>2. k \in Int /\ 1 <= k /\ k <= n
      OBVIOUS
    <3> HIDE DEF n
    <3>3. \A x \in 1 .. k : x \in 1 .. n
      BY <3>1, <3>2
    <3>4. 1 \in 1 .. k
      BY <3>2
    <3>5. QED BY <3>1, <3>3, <3>4
  <2>2. Max(1 .. k) = k
    BY MaxUpTo
  <2>3. (1 .. k) \ {k} = 1 .. k - 1 /\ k - 1 \in 0 .. n /\ k \in 0 .. n
    OBVIOUS
  <2> HIDE DEF it
  <2>4. it[1 .. k] = AddTurn(it[(1 .. k) \ {k}], rows[k])
    BY <1>2, <2>1, <2>2
  <2>5. QED BY <2>3, <2>4
<1>5. g[0] = <<>>
  <2>1. {} \in SUBSET (DOMAIN rows) /\ 1 .. 0 = {}
    OBVIOUS
  <2> HIDE DEF it
  <2>2. it[{}] = <<>>
    BY <1>2, <2>1
  <2>3. QED BY <2>1, <2>2
<1>6. g[n] = Said(rows)
  <2> HIDE DEF it
  <2>1. g[n] = it[1 .. n] /\ DOMAIN rows = 1 .. n
    OBVIOUS
  <2>2. QED BY <1>3, <2>1
<1>7. QED BY <1>4, <1>5, <1>6

LEMMA Least ==
    ASSUME NEW S \in SUBSET Nat, S # {}
    PROVE  \E m \in S : \A x \in S : m <= x
<1>1. IsWellFoundedOn(OpToRel(<, Nat), Nat)
  BY NatLessThanWellFounded
<1>2. PICK m \in S : \A x \in S : ~ (<<x, m>> \in OpToRel(<, Nat))
  BY <1>1, WFMin
<1>3. \A x \in S : x < m => <<x, m>> \in OpToRel(<, Nat)
  BY DEF OpToRel
<1>4. ASSUME NEW x \in S PROVE m <= x
  <2>1. x \in Nat /\ m \in Nat /\ ~(x < m)
    BY <1>2, <1>3
  <2>2. QED BY <2>1
<1>5. QED BY <1>4

FirstOf(words, name) ==
    CHOOSE i \in DOMAIN words : words[i].name = name /\ \A j \in 1 .. i - 1 : words[j].name # name

LEMMA FirstFacts ==
    ASSUME NEW W, NEW words \in Seq(W), NEW i \in 1 .. Len(words)
    PROVE  LET f == FirstOf(words, words[i].name)
           IN  f \in 1 .. i /\ words[f].name = words[i].name
<1> DEFINE name == words[i].name
           S == {j \in 1 .. Len(words) : words[j].name = name}
<1>1. DOMAIN words = 1 .. Len(words) /\ Len(words) \in Nat
  OBVIOUS
<1>2. S \in SUBSET Nat /\ i \in S
  BY <1>1
<1>3. PICK m \in S : \A j \in S : m <= j
  <2> HIDE DEF S
  <2>1. QED BY <1>2, Least
<1>4. m \in DOMAIN words /\ words[m].name = name /\ \A j \in 1 .. m - 1 : words[j].name # name
  <2>1. m \in 1 .. Len(words) /\ words[m].name = name
    OBVIOUS
  <2>2. ASSUME NEW j \in 1 .. m - 1 PROVE words[j].name # name
    <3>1. j \in 1 .. Len(words) /\ ~(m <= j)
      BY <1>1, <2>1
    <3>2. QED BY <1>3, <3>1
  <2>3. QED BY <1>1, <2>1, <2>2
<1> DEFINE f == FirstOf(words, name)
<1> HIDE DEF name
<1>5. f \in DOMAIN words /\ words[f].name = name /\ \A j \in 1 .. f - 1 : words[j].name # name
  BY <1>4 DEF FirstOf
<1>6. ~(i \in 1 .. f - 1)
  BY <1>5 DEF name
<1>7. f \in 1 .. i
  BY <1>1, <1>5, <1>6
<1>8. QED BY <1>5, <1>7 DEF name

\* Whether a word carries a signal depends on its name alone.
SignalByName(words) ==
    \A i, j \in DOMAIN words : words[i].name = words[j].name => words[i].signal = words[j].signal

TermsInv(words, k, t) ==
    /\ Len(t) <= MaxTerms
    /\ \A p \in 1 .. Len(t) : \E i \in 1 .. k : words[i].signal /\ words[i].name = t[p]
    /\ \A p, q \in 1 .. Len(t) : p < q => FirstOf(words, t[p]) < FirstOf(words, t[q])
    /\ \A i \in 1 .. k :
          words[i].signal /\ ~Contains(t, words[i].name) =>
              Len(t) = MaxTerms /\ FirstOf(words, words[i].name) > FirstOf(words, t[Len(t)])

LEMMA TermsStep ==
    ASSUME NEW W, NEW words \in Seq(W), SignalByName(words), NEW N,
           NEW k \in 1 .. Len(words), words[k].name \in N,
           NEW t \in Seq(N), TermsInv(words, k - 1, t)
    PROVE  /\ AddTerm(t, words[k]) \in Seq(N)
           /\ TermsInv(words, k, AddTerm(t, words[k]))
<1> DEFINE name == words[k].name
           F(x) == FirstOf(words, x)
<1>1. /\ Len(words) \in Nat /\ DOMAIN words = 1 .. Len(words) /\ k \in Nat
      /\ \A i \in 1 .. k - 1 : i \in 1 .. Len(words) /\ i \in 1 .. k
      /\ \A i \in 1 .. k : i \in 1 .. k - 1 \/ i = k
  OBVIOUS
<1>2. MaxTerms \in Nat \ {0}
  BY GroundingAssumption
<1>3. Len(t) \in Nat
  OBVIOUS
<1>4. \A i \in 1 .. Len(words) : F(words[i].name) \in 1 .. i /\ words[F(words[i].name)].name = words[i].name
  BY FirstFacts
<1> HIDE DEF F
<1>5. \A p \in 1 .. Len(t) : F(t[p]) \in 1 .. k - 1
  <2>1. SUFFICES ASSUME NEW p \in 1 .. Len(t) PROVE F(t[p]) \in 1 .. k - 1
    OBVIOUS
  <2>2. PICK i \in 1 .. k - 1 : words[i].name = t[p]
    BY DEF TermsInv
  <2>3. F(t[p]) \in 1 .. i
    BY <1>1, <1>4, <2>2
  <2>4. QED BY <1>1, <2>3
<1>6. ASSUME words[k].signal, ~Contains(t, name), F(name) \in 1 .. k - 1
      PROVE  Len(t) = MaxTerms /\ F(name) > F(t[Len(t)])
  <2> DEFINE i == F(name)
  <2>1. words[i].name = name
    BY <1>4
  <2>2. i \in 1 .. k - 1 /\ i \in DOMAIN words /\ k \in DOMAIN words
    BY <1>1, <1>6
  <2>3. words[i].signal
    BY <1>6, <2>1, <2>2 DEF SignalByName
  <2> HIDE DEF i, name
  <2>4. QED BY <1>6, <2>1, <2>2, <2>3 DEF TermsInv, F, i
<1>7. CASE ~words[k].signal \/ Contains(t, name) \/ Len(t) >= MaxTerms
  <2>1. AddTerm(t, words[k]) = t
    BY <1>7 DEF AddTerm
  <2>2. ASSUME NEW i \in 1 .. k, words[i].signal, ~Contains(t, words[i].name)
        PROVE  Len(t) = MaxTerms /\ F(words[i].name) > F(t[Len(t)])
    <3>1. CASE i = k
      <4>1. Len(t) = MaxTerms
        BY <1>2, <1>3, <1>7, <2>2, <3>1 DEF TermsInv
      <4>2. CASE F(name) \in 1 .. k - 1
        BY <1>6, <2>2, <3>1, <4>2
      <4>3. CASE F(name) \notin 1 .. k - 1
        <5>1. F(name) = k
          BY <1>1, <1>4, <4>3
        <5>2. F(t[Len(t)]) \in 1 .. k - 1
          BY <1>2, <1>5, <4>1
        <5>3. QED BY <1>1, <3>1, <4>1, <5>1, <5>2
      <4>4. QED BY <4>2, <4>3
    <3>2. CASE i # k
      BY <1>1, <2>2, <3>2 DEF TermsInv, F
    <3>3. QED BY <3>1, <3>2
  <2>3. \A p \in 1 .. Len(t) : \E i \in 1 .. k : words[i].signal /\ words[i].name = t[p]
    BY <1>1 DEF TermsInv
  <2>4. TermsInv(words, k, t)
    BY <2>2, <2>3 DEF TermsInv, F
  <2>5. QED BY <2>1, <2>4
<1>8. CASE words[k].signal /\ ~Contains(t, name) /\ ~(Len(t) >= MaxTerms)
  <2> DEFINE u == Append(t, name)
  <2>1. AddTerm(t, words[k]) = u
    BY <1>8 DEF AddTerm
  <2>2. /\ u \in Seq(N) /\ Len(u) = Len(t) + 1 /\ u[Len(t) + 1] = name
        /\ \A p \in 1 .. Len(t) : u[p] = t[p]
        /\ \A p \in 1 .. Len(u) : p \in 1 .. Len(t) \/ p = Len(t) + 1
    OBVIOUS
  <2> HIDE DEF u
  <2>3. F(name) = k
    <3>1. F(name) \in 1 .. k
      BY <1>4
    <3>2. F(name) \notin 1 .. k - 1
      BY <1>2, <1>6, <1>8
    <3>3. QED BY <1>1, <3>1, <3>2
  <2>4. Len(u) <= MaxTerms
    BY <1>2, <1>3, <1>8, <2>2
  <2>5. ASSUME NEW p \in 1 .. Len(u)
        PROVE  \E i \in 1 .. k : words[i].signal /\ words[i].name = u[p]
    <3>1. CASE p \in 1 .. Len(t)
      BY <1>1, <2>2, <3>1 DEF TermsInv
    <3>2. CASE p = Len(t) + 1
      <4>1. words[k].signal /\ words[k].name = u[p] /\ k \in 1 .. k
        BY <1>1, <1>8, <2>2, <3>2
      <4>2. QED BY <4>1
    <3>3. QED BY <2>2, <3>1, <3>2
  <2>6. ASSUME NEW p \in 1 .. Len(u), NEW q \in 1 .. Len(u), p < q
        PROVE  F(u[p]) < F(u[q])
    <3>1. p \in 1 .. Len(t)
      BY <1>3, <2>2, <2>6
    <3>2. CASE q \in 1 .. Len(t)
      BY <2>2, <2>6, <3>1, <3>2 DEF TermsInv, F
    <3>3. CASE q = Len(t) + 1
      <4>1. F(u[p]) \in 1 .. k - 1
        BY <1>5, <2>2, <3>1
      <4>2. QED BY <1>1, <2>2, <2>3, <3>3, <4>1
    <3>4. QED BY <2>2, <3>2, <3>3
  <2>7. ASSUME NEW i \in 1 .. k, words[i].signal, ~Contains(u, words[i].name) PROVE FALSE
    <3>1. CASE i = k
      <4>1. Len(t) + 1 \in 1 .. Len(u)
        BY <1>3, <2>2
      <4>2. QED BY <2>2, <2>7, <3>1, <4>1 DEF Contains
    <3>2. CASE i \in 1 .. k - 1
      <4>1. ~Contains(t, words[i].name)
        <5>1. \A p \in 1 .. Len(t) : p \in 1 .. Len(u)
          BY <1>3, <2>2
        <5>2. QED BY <2>2, <2>7, <5>1 DEF Contains
      <4>2. Len(t) = MaxTerms
        BY <2>7, <3>2, <4>1 DEF TermsInv
      <4>3. QED BY <1>2, <1>8, <4>2
    <3>3. QED BY <1>1, <3>1, <3>2
  <2>8. TermsInv(words, k, u)
    BY <2>4, <2>5, <2>6, <2>7 DEF TermsInv, F
  <2>9. QED BY <2>1, <2>2, <2>8
<1>9. QED BY <1>7, <1>8

LEMMA QueryAlwaysSignificant ==
    ASSUME NEW W, NEW words \in Seq(W), SignalByName(words)
    PROVE  QueryIsSignificant(words)
<1> DEFINE n == Len(words)
           N == {words[i].name : i \in DOMAIN words}
           terms == QueryTerms(words)
<1>1. PICK g : /\ g[0] = <<>>
               /\ \A k \in 1 .. n : g[k] = AddTerm(g[k - 1], words[k])
               /\ g[n] = QueryTerms(words)
  BY QueryTermsSteps
<1> DEFINE Good == {k \in 0 .. n : g[k] \in Seq(N) /\ TermsInv(words, k, g[k])}
<1>2. n \in Nat /\ DOMAIN words = 1 .. n /\ \A k \in 1 .. n : words[k].name \in N
  OBVIOUS
<1> HIDE DEF N
<1>3. 0 \in Good
  <2>1. <<>> \in Seq(N) /\ Len(<<>>) = 0 /\ 0 <= MaxTerms /\ 0 \in 0 .. n
    BY <1>2, GroundingAssumption
  <2>2. TermsInv(words, 0, <<>>)
    BY <2>1 DEF TermsInv
  <2>3. QED BY <1>1, <2>1, <2>2
<1>4. ASSUME NEW k \in 0 .. n - 1, k \in Good PROVE k + 1 \in Good
  <2>1. k + 1 \in 1 .. n /\ k + 1 \in 0 .. n /\ (k + 1) - 1 = k
    BY <1>2
  <2>2. g[k] \in Seq(N) /\ TermsInv(words, k, g[k])
    BY <1>4
  <2>3. g[k + 1] = AddTerm(g[k], words[k + 1])
    BY <1>1, <2>1
  <2> DEFINE m == k + 1
             t == g[k]
  <2>4. m \in 1 .. Len(words) /\ words[m].name \in N /\ t \in Seq(N) /\ TermsInv(words, m - 1, t)
    BY <1>2, <2>1, <2>2
  <2> HIDE DEF m, t
  <2>5. AddTerm(t, words[m]) \in Seq(N) /\ TermsInv(words, m, AddTerm(t, words[m]))
    BY <2>4, TermsStep
  <2>6. g[k + 1] \in Seq(N) /\ TermsInv(words, k + 1, g[k + 1])
    BY <2>3, <2>5 DEF m, t
  <2>7. QED BY <2>1, <2>6
<1>5. 0 .. n \subseteq Good
  <2> HIDE DEF Good, n
  <2>1. QED BY <1>2, <1>3, <1>4, UpTo
<1>6. terms \in Seq(N) /\ TermsInv(words, n, terms)
  BY <1>1, <1>2, <1>5
<1> HIDE DEF terms
<1>7. DOMAIN terms = 1 .. Len(terms)
  BY <1>6
<1>8. QED
  <2>1. \A k \in DOMAIN terms : \E i \in DOMAIN words : words[i].signal /\ words[i].name = terms[k]
    BY <1>2, <1>6, <1>7 DEF TermsInv
  <2>2. \A k, l \in DOMAIN terms : k < l => FirstOf(words, terms[k]) < FirstOf(words, terms[l])
    BY <1>6, <1>7 DEF TermsInv
  <2>3. \A i \in DOMAIN words :
           words[i].signal /\ ~Contains(terms, words[i].name) =>
               Len(terms) = MaxTerms /\ FirstOf(words, words[i].name) > FirstOf(words, Last(terms))
    BY <1>2, <1>6 DEF TermsInv, Last
  <2>4. QED BY <2>1, <2>2, <2>3 DEF QueryIsSignificant, FirstOf, terms

LEMMA SumPrefixes ==
    ASSUME NEW costs \in Seq(Int)
    PROVE  LET Sum(m) == FoldLeft(LAMBDA s, c : s + c, 0, SubSeq(costs, 1, m))
           IN  /\ Sum(0) = 0
               /\ \A k \in 1 .. Len(costs) : Sum(k) = Sum(k - 1) + costs[k]
               /\ \A k \in 0 .. Len(costs) : Sum(k) \in Int
<1> DEFINE n == Len(costs)
           Part(m) == SubSeq(costs, 1, m)
           Summed(seq) == FoldLeft(LAMBDA s, c : s + c, 0, seq)
<1>1. n \in Nat
  OBVIOUS
<1>2. PICK h : h[0] = 0 /\ (\A k \in 1 .. n : h[k] = h[k - 1] + costs[k]) /\ h[n] = Summed(costs)
  BY SumSteps
<1>3. ASSUME NEW m \in 0 .. n PROVE Summed(Part(m)) = h[m]
  <2>1. /\ Part(m) \in Seq(Int) /\ Len(Part(m)) = m
        /\ \A k \in 1 .. m : Part(m)[k] = costs[k] /\ k \in 1 .. n
    OBVIOUS
  <2>2. PICK g : g[0] = 0 /\ (\A k \in 1 .. m : g[k] = g[k - 1] + Part(m)[k]) /\ g[m] = Summed(Part(m))
    <3> HIDE DEF Part, Summed
    <3>1. \E g : g[0] = 0 /\ (\A k \in 1 .. Len(Part(m)) : g[k] = g[k - 1] + Part(m)[k])
                 /\ g[Len(Part(m))] = Summed(Part(m))
      BY <2>1, SumSteps DEF Summed
    <3>2. QED BY <2>1, <3>1
  <2> HIDE DEF Part, Summed, n
  <2> DEFINE Good == {k \in 0 .. m : g[k] = h[k]}
  <2>3. 0 \in Good
    BY <1>1, <1>2, <2>2
  <2>4. ASSUME NEW k \in 0 .. m - 1, k \in Good PROVE k + 1 \in Good
    <3>1. k + 1 \in 1 .. m /\ (k + 1) - 1 = k /\ k + 1 \in 0 .. m
      BY <1>1
    <3>2. g[k + 1] = g[k] + costs[k + 1] /\ h[k + 1] = h[k] + costs[k + 1]
      BY <1>2, <2>1, <2>2, <3>1
    <3>3. g[k] = h[k]
      BY <2>4
    <3>4. QED BY <3>1, <3>2, <3>3
  <2>5. m \in Nat
    BY <1>1
  <2>6. 0 .. m \subseteq Good
    <3> HIDE DEF Good
    <3>1. QED BY <2>3, <2>4, <2>5, UpTo
  <2>7. QED BY <2>2, <2>5, <2>6
<1> DEFINE Typed == {k \in 0 .. n : h[k] \in Int}
<1>4. 0 \in Typed
  <2>1. 0 \in 0 .. n
    BY <1>1
  <2>2. h[0] = 0
    BY <1>2
  <2>3. QED BY <2>1, <2>2
<1>5. ASSUME NEW k \in 0 .. n - 1, k \in Typed PROVE k + 1 \in Typed
  <2>1. k + 1 \in 1 .. n /\ (k + 1) - 1 = k /\ k + 1 \in 0 .. n
    BY <1>1
  <2>2. costs[k + 1] \in Int /\ h[k] \in Int
    BY <1>5, <2>1
  <2>3. h[k + 1] = h[k] + costs[k + 1]
    BY <1>2, <2>1
  <2>4. QED BY <2>1, <2>2, <2>3
<1>6. 0 .. n \subseteq Typed
  <2> HIDE DEF Typed, n
  <2>1. QED BY <1>1, <1>4, <1>5, UpTo
<1> HIDE DEF Part, Summed
<1>7. \A k \in 1 .. n : Summed(Part(k)) = Summed(Part(k - 1)) + costs[k]
  <2>1. SUFFICES ASSUME NEW k \in 1 .. n PROVE Summed(Part(k)) = Summed(Part(k - 1)) + costs[k]
    OBVIOUS
  <2>2. k \in 0 .. n /\ k - 1 \in 0 .. n
    BY <1>1
  <2>3. QED BY <1>2, <1>3, <2>2
<1>8. Summed(Part(0)) = 0 /\ \A k \in 0 .. n : Summed(Part(k)) \in Int
  <2>1. 0 \in 0 .. n
    BY <1>1
  <2>2. \A k \in 0 .. n : h[k] \in Int
    BY <1>6
  <2>3. QED BY <1>2, <1>3, <2>1, <2>2
<1>9. QED BY <1>7, <1>8 DEF Part, Summed

\* What has been taken after k of the sources, and their cost.
SumTo(costs, m) == FoldLeft(LAMBDA s, c : s + c, 0, SubSeq(costs, 1, m))

TakenInv(costs, budget, k, taken) ==
    LET m == Len(taken.costs)
    IN  /\ m <= k
        /\ taken.costs = SubSeq(costs, 1, m)
        /\ taken.used = SumTo(costs, m)
        /\ k # 0 => m # 0
        /\ m > 1 => SumTo(costs, m) <= budget
        /\ ~taken.full => m = k
        /\ taken.full => m < k /\ SumTo(costs, m + 1) > budget

LEMMA TakenStep ==
    ASSUME NEW costs \in Seq(Int), NEW budget \in Int, NEW k \in 1 .. Len(costs),
           NEW taken \in Taken, TakenInv(costs, budget, k - 1, taken)
    PROVE  /\ TakeSource(taken, costs[k], budget) \in Taken
           /\ TakenInv(costs, budget, k, TakeSource(taken, costs[k], budget))
<1> DEFINE m == Len(taken.costs)
           Sum(x) == SumTo(costs, x)
           next == TakeSource(taken, costs[k], budget)
<1>1. /\ taken.costs \in Seq(Int) /\ taken.used \in Int /\ taken.full \in BOOLEAN
      /\ m \in Nat /\ k \in Nat /\ k # 0 /\ Len(costs) \in Nat /\ k <= Len(costs)
      /\ costs[k] \in Int
  BY DEF Taken
<1>2. next \in Taken
  <2>1. costs[k] \in Int
    OBVIOUS
  <2>2. QED BY <2>1, TakeSourceType
<1>3. /\ Sum(0) = 0
      /\ \A i \in 1 .. Len(costs) : Sum(i) = Sum(i - 1) + costs[i]
      /\ \A i \in 0 .. Len(costs) : Sum(i) \in Int
  BY SumPrefixes DEF SumTo
<1>4. Sum(k) = Sum(k - 1) + costs[k] /\ Sum(k) \in Int /\ Sum(k - 1) \in Int
  BY <1>1, <1>3
<1> HIDE DEF Sum
<1>5. /\ m <= k - 1
      /\ taken.costs = SubSeq(costs, 1, m)
      /\ taken.used = Sum(m)
      /\ k - 1 # 0 => m # 0
      /\ m > 1 => Sum(m) <= budget
      /\ ~taken.full => m = k - 1
      /\ taken.full => m < k - 1 /\ Sum(m + 1) > budget
  BY DEF TakenInv, Sum
<1>6. m # 0 <=> taken.costs # <<>>
  BY <1>1
<1>7. CASE taken.full \/ (taken.used + costs[k] > budget /\ taken.costs # <<>>)
  <2>1. next = [taken EXCEPT !.full = TRUE]
    BY <1>7 DEF TakeSource
  <2>2. next.costs = taken.costs /\ next.used = taken.used /\ next.full = TRUE
    BY <2>1 DEF Taken
  <2>3. m # 0 /\ m < k /\ Sum(m + 1) > budget
    <3>1. CASE taken.full
      BY <1>1, <1>5, <3>1
    <3>2. CASE ~taken.full
      <4>1. m = k - 1 /\ m + 1 = k
        BY <1>1, <1>5, <3>2
      <4>2. m # 0
        BY <1>6, <1>7, <3>2
      <4>3. Sum(m + 1) > budget
        BY <1>1, <1>4, <1>5, <1>7, <3>2, <4>1
      <4>4. QED BY <1>1, <4>1, <4>2, <4>3
    <3>3. QED BY <3>1, <3>2
  <2> HIDE DEF next
  <2>4. TakenInv(costs, budget, k, next)
    BY <1>1, <1>5, <2>2, <2>3 DEF TakenInv, Sum
  <2>5. QED BY <1>2, <2>4 DEF next
<1>8. CASE ~(taken.full \/ (taken.used + costs[k] > budget /\ taken.costs # <<>>))
  <2>1. next = [taken EXCEPT !.costs = Append(@, costs[k]), !.used = @ + costs[k]]
    BY <1>8 DEF TakeSource
  <2>2. /\ next.costs = Append(taken.costs, costs[k])
        /\ next.used = taken.used + costs[k] /\ next.full = FALSE
    BY <1>8, <2>1 DEF Taken
  <2>3. m = k - 1 /\ Len(next.costs) = k
    BY <1>1, <1>5, <1>8, <2>2
  <2>4. next.used = Sum(k)
    BY <1>4, <1>5, <2>2, <2>3
  <2>5. k > 1 => Sum(k) <= budget
    BY <1>1, <1>4, <1>5, <1>6, <1>8, <2>3
  <2>6. next.costs = SubSeq(costs, 1, k)
    <3>1. next.costs = Append(SubSeq(costs, 1, k - 1), costs[k])
      BY <1>5, <2>2, <2>3
    <3>2. Append(SubSeq(costs, 1, k - 1), costs[k]) = SubSeq(costs, 1, k)
      BY <1>1
    <3>3. QED BY <3>1, <3>2
  <2> HIDE DEF next
  <2>7. TakenInv(costs, budget, k, next)
    BY <1>1, <2>2, <2>3, <2>4, <2>5, <2>6 DEF TakenInv, Sum
  <2>8. QED BY <1>2, <2>7 DEF next
<1>9. QED BY <1>7, <1>8

LEMMA ContextAlwaysPrefix ==
    ASSUME NEW costs \in Seq(Int), NEW budget \in Int
    PROVE  ContextIsPrefix(costs, budget)
<1> DEFINE n == Len(costs)
           Fold == FoldLeft(LAMBDA taken, cost : TakeSource(taken, cost, budget), Nothing, costs)
           used == SourcesUsed(costs, budget)
<1>1. PICK g : /\ g[0] = Nothing
               /\ \A k \in 1 .. n : g[k] = TakeSource(g[k - 1], costs[k], budget)
               /\ g[n] = Fold
  BY SourcesSteps
<1> DEFINE Good == {k \in 0 .. n : g[k] \in Taken /\ TakenInv(costs, budget, k, g[k])}
<1>2. n \in Nat
  OBVIOUS
<1>3. 0 \in Good
  <2>1. Nothing \in Taken
    BY DEF Nothing, Taken
  <2>2. SumTo(costs, 0) = 0
    BY SumPrefixes DEF SumTo
  <2>3. SubSeq(costs, 1, 0) = <<>>
    OBVIOUS
  <2>4. TakenInv(costs, budget, 0, Nothing)
    BY <2>2, <2>3 DEF TakenInv, Nothing
  <2>5. 0 \in 0 .. n
    BY <1>2
  <2>6. QED BY <1>1, <2>1, <2>4, <2>5
<1>4. ASSUME NEW k \in 0 .. n - 1, k \in Good PROVE k + 1 \in Good
  <2>1. k + 1 \in 1 .. n /\ k + 1 \in 0 .. n /\ (k + 1) - 1 = k
    BY <1>2
  <2> DEFINE m == k + 1
             t == g[k]
  <2>2. m \in 1 .. Len(costs) /\ t \in Taken /\ TakenInv(costs, budget, m - 1, t)
    BY <1>4, <2>1
  <2>3. g[m] = TakeSource(t, costs[m], budget)
    BY <1>1, <2>1
  <2> HIDE DEF m, t
  <2>4. TakeSource(t, costs[m], budget) \in Taken /\ TakenInv(costs, budget, m, TakeSource(t, costs[m], budget))
    BY <2>2, TakenStep
  <2>5. g[m] \in Taken /\ TakenInv(costs, budget, m, g[m])
    BY <2>3, <2>4
  <2>6. QED BY <2>1, <2>5 DEF m
<1>5. 0 .. n \subseteq Good
  <2> HIDE DEF Good, n
  <2>1. QED BY <1>2, <1>3, <1>4, UpTo
<1>6. Fold \in Taken /\ TakenInv(costs, budget, n, Fold)
  <2>1. n \in 0 .. n
    BY <1>2
  <2>2. g[n] \in Taken /\ TakenInv(costs, budget, n, g[n])
    BY <1>5, <2>1
  <2>3. QED BY <1>1, <2>2
<1>7. used = Fold.costs
  BY DEF SourcesUsed, Nothing
<1> DEFINE m == Len(Fold.costs)
           full == Fold.full
<1> HIDE DEF Fold
<1>8. /\ m \in Nat /\ m <= n /\ Fold.costs = SubSeq(costs, 1, m)
      /\ n # 0 => m # 0
      /\ m > 1 => SumTo(costs, m) <= budget
      /\ ~full => m = n
      /\ full => SumTo(costs, m + 1) > budget
  BY <1>6 DEF TakenInv, Taken
<1> HIDE DEF used
<1>9. Len(used) = m /\ used = SubSeq(costs, 1, m)
  BY <1>7, <1>8
<1>10. IsPrefix(used, costs)
  <2>1. SubSeq(used, 1, m) = SubSeq(costs, 1, m)
    BY <1>8, <1>9
  <2>2. QED BY <1>8, <1>9, <2>1 DEF IsPrefix
<1>11. costs # <<>> => used # <<>>
  BY <1>8, <1>9
<1>12. m < n => SumTo(costs, m + 1) > budget
  BY <1>2, <1>8
<1>13. QED
  BY <1>8, <1>9, <1>10, <1>11, <1>12 DEF ContextIsPrefix, SumTo, used

LEMMA SaidPrefixes ==
    ASSUME NEW W, NEW rows \in Seq(W)
    PROVE  /\ Said(SubSeq(rows, 1, 0)) = <<>>
           /\ \A k \in 1 .. Len(rows) :
                 Said(SubSeq(rows, 1, k)) = AddTurn(Said(SubSeq(rows, 1, k - 1)), rows[k])
           /\ \A k \in 0 .. Len(rows) : Said(SubSeq(rows, 1, k)) \in Seq(W)
<1> DEFINE n == Len(rows)
           Part(m) == SubSeq(rows, 1, m)
<1>1. n \in Nat
  OBVIOUS
<1>2. PICK h : h[0] = <<>> /\ (\A k \in 1 .. n : h[k] = AddTurn(h[k - 1], rows[k])) /\ h[n] = Said(rows)
  BY SaidSteps
<1>3. ASSUME NEW m \in 0 .. n PROVE Said(Part(m)) = h[m]
  <2>1. /\ Part(m) \in Seq(W) /\ Len(Part(m)) = m
        /\ \A k \in 1 .. m : Part(m)[k] = rows[k] /\ k \in 1 .. n
    OBVIOUS
  <2>2. PICK g : g[0] = <<>> /\ (\A k \in 1 .. m : g[k] = AddTurn(g[k - 1], Part(m)[k])) /\ g[m] = Said(Part(m))
    <3> HIDE DEF Part
    <3>1. \E g : g[0] = <<>> /\ (\A k \in 1 .. Len(Part(m)) : g[k] = AddTurn(g[k - 1], Part(m)[k]))
                 /\ g[Len(Part(m))] = Said(Part(m))
      BY <2>1, SaidSteps
    <3>2. QED BY <2>1, <3>1
  <2> HIDE DEF Part, n
  <2> DEFINE Good == {k \in 0 .. m : g[k] = h[k]}
  <2>3. 0 \in Good
    BY <1>1, <1>2, <2>2
  <2>4. ASSUME NEW k \in 0 .. m - 1, k \in Good PROVE k + 1 \in Good
    <3>1. k + 1 \in 1 .. m /\ (k + 1) - 1 = k /\ k + 1 \in 0 .. m
      BY <1>1
    <3>2. g[k + 1] = AddTurn(g[k], rows[k + 1]) /\ h[k + 1] = AddTurn(h[k], rows[k + 1])
      BY <1>2, <2>1, <2>2, <3>1
    <3>3. g[k] = h[k]
      BY <2>4
    <3>4. QED BY <3>1, <3>2, <3>3
  <2>5. m \in Nat
    BY <1>1
  <2>6. 0 .. m \subseteq Good
    <3> HIDE DEF Good
    <3>1. QED BY <2>3, <2>4, <2>5, UpTo
  <2>7. QED BY <2>2, <2>5, <2>6
<1> DEFINE Typed == {k \in 0 .. n : h[k] \in Seq(W)}
<1>4. 0 \in Typed
  <2>1. 0 \in 0 .. n
    BY <1>1
  <2>2. h[0] \in Seq(W)
    BY <1>2
  <2>3. QED BY <2>1, <2>2
<1>5. ASSUME NEW k \in 0 .. n - 1, k \in Typed PROVE k + 1 \in Typed
  <2>1. k + 1 \in 1 .. n /\ (k + 1) - 1 = k /\ k + 1 \in 0 .. n
    BY <1>1
  <2>2. rows[k + 1] \in W /\ h[k] \in Seq(W)
    BY <1>5, <2>1
  <2>3. h[k + 1] = AddTurn(h[k], rows[k + 1])
    BY <1>2, <2>1
  <2>4. h[k + 1] \in Seq(W)
    BY <2>2, <2>3 DEF AddTurn
  <2>5. QED BY <2>1, <2>4
<1>6. 0 .. n \subseteq Typed
  <2> HIDE DEF Typed, n
  <2>1. QED BY <1>1, <1>4, <1>5, UpTo
<1> HIDE DEF Part
<1>7. \A k \in 1 .. n : Said(Part(k)) = AddTurn(Said(Part(k - 1)), rows[k])
  <2>1. SUFFICES ASSUME NEW k \in 1 .. n PROVE Said(Part(k)) = AddTurn(Said(Part(k - 1)), rows[k])
    OBVIOUS
  <2>2. k \in 0 .. n /\ k - 1 \in 0 .. n
    BY <1>1
  <2>3. QED BY <1>2, <1>3, <2>2
<1>8. Said(Part(0)) = <<>>
  <2>1. 0 \in 0 .. n
    BY <1>1
  <2>2. QED BY <1>2, <1>3, <2>1
<1>9. \A k \in 0 .. n : Said(Part(k)) \in Seq(W)
  BY <1>3, <1>6
<1>10. QED BY <1>7, <1>8, <1>9 DEF Part

\* What is kept of a list is not blank, and all of it where nothing is blank.
LEMMA SaidKeeps ==
    ASSUME NEW W, NEW rows \in Seq(W)
    PROVE  /\ Said(rows) \in Seq(W)
           /\ \A i \in 1 .. Len(Said(rows)) : Said(rows)[i].text # "blank"
           /\ (\A i \in 1 .. Len(rows) : rows[i].text # "blank") => Said(rows) = rows
<1> DEFINE n == Len(rows)
           P(k) == Said(SubSeq(rows, 1, k))
           Clear(k) == /\ \A i \in 1 .. Len(P(k)) : P(k)[i].text # "blank"
                       /\ (\A i \in 1 .. k : rows[i].text # "blank") => P(k) = SubSeq(rows, 1, k)
           Good == {k \in 0 .. n : Clear(k)}
<1>1. n \in Nat /\ SubSeq(rows, 1, n) = rows /\ SubSeq(rows, 1, 0) = <<>>
  OBVIOUS
<1>2. /\ P(0) = <<>>
      /\ \A k \in 1 .. n : P(k) = AddTurn(P(k - 1), rows[k])
      /\ \A k \in 0 .. n : P(k) \in Seq(W)
  BY SaidPrefixes
<1> HIDE DEF P
<1>3. 0 \in Good
  <2>1. 0 \in 0 .. n
    BY <1>1
  <2>2. Clear(0)
    BY <1>1, <1>2
  <2>3. QED BY <2>1, <2>2
<1>4. ASSUME NEW k \in 0 .. n - 1, k \in Good PROVE k + 1 \in Good
  <2> DEFINE m == k + 1
             t == P(k)
  <2>1. m \in 1 .. n /\ m - 1 = k /\ m \in 0 .. n /\ k \in 0 .. n /\ k \in Nat
    BY <1>1
  <2>2. P(m) = AddTurn(t, rows[m]) /\ t \in Seq(W)
    BY <1>2, <2>1
  <2>3. \A i \in 1 .. Len(t) : t[i].text # "blank"
    BY <1>4
  <2>4. (\A i \in 1 .. k : rows[i].text # "blank") => t = SubSeq(rows, 1, k)
    BY <1>4
  <2>5. rows[m] \in W /\ Append(SubSeq(rows, 1, k), rows[m]) = SubSeq(rows, 1, m)
    BY <2>1
  <2>6. \A i \in 1 .. k : i \in 1 .. m
    BY <2>1
  <2> HIDE DEF t, m
  <2>7. CASE rows[m].text = "blank"
    <3>1. P(m) = t
      BY <2>2, <2>7 DEF AddTurn
    <3>2. m \in 1 .. m
      BY <2>1
    <3>3. Clear(m)
      BY <2>3, <2>7, <3>1, <3>2
    <3>4. QED BY <2>1, <3>3 DEF m
  <2>8. CASE rows[m].text # "blank"
    <3>1. P(m) = Append(t, rows[m])
      BY <2>2, <2>8 DEF AddTurn
    <3>2. \A i \in 1 .. Len(P(m)) : P(m)[i].text # "blank"
      <4>1. SUFFICES ASSUME NEW i \in 1 .. Len(P(m)) PROVE P(m)[i].text # "blank"
        OBVIOUS
      <4>2. \/ i \in 1 .. Len(t) /\ P(m)[i] = t[i]
            \/ P(m)[i] = rows[m]
        BY <2>2, <2>5, <3>1
      <4>3. QED BY <2>3, <2>8, <4>2
    <3>3. (\A i \in 1 .. m : rows[i].text # "blank") => P(m) = SubSeq(rows, 1, m)
      BY <2>4, <2>5, <2>6, <3>1
    <3>4. QED BY <2>1, <3>2, <3>3 DEF m
  <2>9. QED BY <2>7, <2>8
<1>5. 0 .. n \subseteq Good
  <2> HIDE DEF Good, n
  <2>1. QED BY <1>1, <1>3, <1>4, UpTo
<1>6. n \in 0 .. n
  BY <1>1
<1>7. Clear(n) /\ P(n) \in Seq(W)
  BY <1>2, <1>5, <1>6
<1>8. P(n) = Said(rows)
  BY <1>1 DEF P
<1>9. QED
  BY <1>1, <1>7, <1>8

LEMMA SaidSplits ==
    ASSUME NEW W, NEW u \in Seq(W), NEW v \in Seq(W)
    PROVE  Said(u \o v) = Said(u) \o Said(v)
<1> DEFINE n == Len(v)
           m == Len(u)
           w == u \o v
           P(k) == Said(SubSeq(w, 1, k))
           Q(k) == Said(SubSeq(v, 1, k))
           Good == {k \in 0 .. n : P(m + k) = P(m) \o Q(k)}
<1>1. /\ n \in Nat /\ m \in Nat /\ w \in Seq(W) /\ Len(w) = m + n
      /\ SubSeq(w, 1, m + n) = w /\ SubSeq(v, 1, n) = v /\ SubSeq(w, 1, m) = u
      /\ \A k \in 1 .. n : w[m + k] = v[k] /\ v[k] \in W
  OBVIOUS
<1>2. /\ Q(0) = <<>>
      /\ \A k \in 1 .. n : Q(k) = AddTurn(Q(k - 1), v[k])
      /\ \A k \in 0 .. n : Q(k) \in Seq(W)
  BY SaidPrefixes
<1>3. /\ \A k \in 1 .. m + n : P(k) = AddTurn(P(k - 1), w[k])
      /\ \A k \in 0 .. m + n : P(k) \in Seq(W)
  <2> HIDE DEF w
  <2>1. /\ \A k \in 1 .. Len(w) : P(k) = AddTurn(P(k - 1), w[k])
        /\ \A k \in 0 .. Len(w) : P(k) \in Seq(W)
    BY <1>1, SaidPrefixes
  <2>2. QED BY <1>1, <2>1
<1> HIDE DEF P, Q, w, n, m
<1>4. m \in 0 .. m + n /\ P(m) \in Seq(W)
  BY <1>1, <1>3
<1>5. 0 \in Good
  <2>1. 0 \in 0 .. n /\ m + 0 = m
    BY <1>1
  <2>2. P(m) = P(m) \o Q(0)
    BY <1>2, <1>4
  <2>3. QED BY <2>1, <2>2
<1>6. ASSUME NEW k \in 0 .. n - 1, k \in Good PROVE k + 1 \in Good
  <2>1. /\ k + 1 \in 1 .. n /\ (k + 1) - 1 = k /\ k + 1 \in 0 .. n /\ k \in 0 .. n
        /\ m + (k + 1) \in 1 .. m + n /\ (m + (k + 1)) - 1 = m + k
    BY <1>1
  <2> DEFINE a == P(m)
             b == Q(k)
             t == v[k + 1]
  <2>2. P(m + (k + 1)) = AddTurn(P(m + k), w[m + (k + 1)])
    BY <1>3, <2>1
  <2>3. P(m + (k + 1)) = AddTurn(a \o b, t)
    BY <1>1, <1>6, <2>1, <2>2
  <2>4. Q(k + 1) = AddTurn(b, t)
    BY <1>2, <2>1
  <2>5. a \in Seq(W) /\ b \in Seq(W) /\ t \in W
    BY <1>1, <1>2, <1>4, <2>1
  <2> HIDE DEF a, b, t
  <2>6. AddTurn(a \o b, t) = a \o AddTurn(b, t)
    <3>1. Append(a \o b, t) = a \o Append(b, t)
      <4> DEFINE x == Append(a \o b, t)
                 y == a \o Append(b, t)
      <4>1. /\ x \in Seq(W) /\ Len(x) = Len(a) + Len(b) + 1
            /\ y \in Seq(W) /\ Len(y) = Len(a) + Len(b) + 1
        BY <2>5
      <4>2. \A i \in 1 .. Len(a) + Len(b) + 1 : x[i] = y[i]
        <5> DEFINE c == Append(b, t)
        <5>1. /\ c \in Seq(W) /\ Len(c) = Len(b) + 1 /\ c[Len(b) + 1] = t
              /\ \A i \in 1 .. Len(b) : c[i] = b[i]
              /\ Len(a) \in Nat /\ Len(b) \in Nat
          BY <2>5
        <5>2. \A i \in 1 .. Len(a) + Len(b) : x[i] = (a \o b)[i]
          BY <2>5, <5>1
        <5>3. x[Len(a) + Len(b) + 1] = t
          BY <2>5, <5>1
        <5> HIDE DEF x, c
        <5>4. \A i \in 1 .. Len(a) + Len(b) + 1 :
                 y[i] = IF i <= Len(a) THEN a[i] ELSE c[i - Len(a)]
          BY <2>5, <5>1 DEF c
        <5>5. \A i \in 1 .. Len(a) + Len(b) :
                 (a \o b)[i] = IF i <= Len(a) THEN a[i] ELSE b[i - Len(a)]
          BY <2>5
        <5> HIDE DEF y
        <5>6. ASSUME NEW i \in 1 .. Len(a) + Len(b) + 1 PROVE x[i] = y[i]
          <6>1. CASE i = Len(a) + Len(b) + 1
            BY <5>1, <5>3, <5>4, <6>1
          <6>2. CASE i <= Len(a)
            BY <5>1, <5>2, <5>4, <5>5, <6>2
          <6>3. CASE Len(a) < i /\ i <= Len(a) + Len(b)
            <7>1. i \in 1 .. Len(a) + Len(b) /\ i - Len(a) \in 1 .. Len(b) /\ ~(i <= Len(a))
              BY <5>1, <6>3
            <7>2. QED BY <5>1, <5>2, <5>4, <5>5, <7>1
          <6>4. QED BY <5>1, <6>1, <6>2, <6>3
        <5>7. QED BY <5>6
      <4>3. QED BY <4>1, <4>2
    <3>2. QED BY <3>1 DEF AddTurn
  <2>7. QED BY <2>1, <2>3, <2>4, <2>6 DEF a
<1>7. 0 .. n \subseteq Good
  <2> HIDE DEF Good
  <2>1. QED BY <1>1, <1>5, <1>6, UpTo
<1>8. n \in 0 .. n
  BY <1>1
<1>9. P(m + n) = P(m) \o Q(n)
  BY <1>7, <1>8
<1>10. P(m + n) = Said(w) /\ P(m) = Said(u) /\ Q(n) = Said(v)
  BY <1>1 DEF P, Q
<1>11. QED BY <1>9, <1>10 DEF w

Lower(a, b) == IF a < b THEN a ELSE b

LEMMA LastOfFacts ==
    ASSUME NEW W, NEW s \in Seq(W), NEW M \in Nat \ {0}
    PROVE  /\ LastOf(M, s) \in Seq(W)
           /\ Len(LastOf(M, s)) = Lower(M, Len(s))
           /\ \A i \in 1 .. Lower(M, Len(s)) : LastOf(M, s)[i] = s[(Len(s) - Lower(M, Len(s))) + i]
<1>1. Len(s) \in Nat
  OBVIOUS
<1>2. CASE M < Len(s)
  <2>1. LastOf(M, s) = SubSeq(s, Len(s) - M + 1, Len(s)) /\ Lower(M, Len(s)) = M
    BY <1>2 DEF LastOf, Lower
  <2>2. QED BY <1>1, <1>2, <2>1
<1>3. CASE ~(M < Len(s))
  <2>1. LastOf(M, s) = SubSeq(s, 1, Len(s)) /\ Lower(M, Len(s)) = Len(s)
    BY <1>3 DEF LastOf, Lower
  <2>2. QED BY <1>1, <1>3, <2>1
<1>4. QED BY <1>2, <1>3

LEMMA LastOfTail ==
    ASSUME NEW W, NEW u \in Seq(W), NEW v \in Seq(W), NEW M \in Nat \ {0}
    PROVE  /\ IsSuffix(LastOf(M, v), LastOf(M, u \o v))
           /\ Len(v) >= M => LastOf(M, v) = LastOf(M, u \o v)
<1> DEFINE w == u \o v
           x == LastOf(M, v)
           y == LastOf(M, w)
           a == Lower(M, Len(v))
           b == Lower(M, Len(w))
<1>1. /\ Len(u) \in Nat /\ Len(v) \in Nat /\ w \in Seq(W) /\ Len(w) = Len(u) + Len(v)
      /\ \A i \in 1 .. Len(v) : w[Len(u) + i] = v[i]
  OBVIOUS
<1>2. x \in Seq(W) /\ Len(x) = a /\ \A i \in 1 .. a : x[i] = v[(Len(v) - a) + i]
  BY LastOfFacts
<1>3. y \in Seq(W) /\ Len(y) = b /\ \A i \in 1 .. b : y[i] = w[(Len(w) - b) + i]
  <2> HIDE DEF w
  <2>1. QED BY <1>1, LastOfFacts
<1> HIDE DEF w, x, y
<1>4. a \in Nat /\ b \in Nat /\ a <= b /\ a <= Len(v) /\ b <= Len(w)
  BY <1>1 DEF Lower
<1>5. \A i \in 1 .. a : x[(a - i) + 1] = y[(b - i) + 1]
  <2>1. SUFFICES ASSUME NEW i \in 1 .. a PROVE x[(a - i) + 1] = y[(b - i) + 1]
    OBVIOUS
  <2> DEFINE p == (a - i) + 1
             q == (b - i) + 1
             r == (Len(v) - a) + p
  <2>2. p \in 1 .. a /\ q \in 1 .. b /\ r \in 1 .. Len(v) /\ (Len(w) - b) + q = Len(u) + r
    <3> HIDE DEF a, b
    <3>1. QED BY <1>1, <1>4
  <2>3. x[p] = v[r]
    BY <1>2, <2>2
  <2>4. y[q] = w[(Len(w) - b) + q]
    BY <1>3, <2>2
  <2>5. w[(Len(w) - b) + q] = w[Len(u) + r]
    BY <2>2
  <2>6. w[Len(u) + r] = v[r]
    <3> HIDE DEF r
    <3>1. QED BY <1>1, <2>2
  <2>7. QED BY <2>3, <2>4, <2>5, <2>6
<1> HIDE DEF a, b
<1>6. IsSuffix(x, y)
  <2> DEFINE rx == Reverse(x)
             ry == Reverse(y)
  <2>1. rx = [i \in 1 .. a |-> x[(a - i) + 1]] /\ ry = [i \in 1 .. b |-> y[(b - i) + 1]]
    BY <1>2, <1>3 DEF Reverse
  <2>2. rx \in Seq(W) /\ Len(rx) = a
    <3>1. \A i \in 1 .. a : x[(a - i) + 1] \in W
      BY <1>2, <1>4
    <3>2. QED BY <1>4, <2>1, <3>1
  <2>3. ry \in Seq(W) /\ Len(ry) = b
    <3>1. \A i \in 1 .. b : y[(b - i) + 1] \in W
      BY <1>3, <1>4
    <3>2. QED BY <1>4, <2>1, <3>1
  <2>4. \A i \in 1 .. a : rx[i] = ry[i]
    BY <1>4, <1>5, <2>1
  <2> HIDE DEF rx, ry
  <2>5. SubSeq(rx, 1, a) = SubSeq(ry, 1, a)
    BY <1>4, <2>2, <2>3, <2>4
  <2>6. IsPrefix(rx, ry)
    BY <1>4, <2>2, <2>3, <2>5 DEF IsPrefix
  <2>7. QED BY <2>6 DEF IsSuffix, rx, ry
<1>7. ASSUME Len(v) >= M PROVE x = y
  <2>1. a = b
    BY <1>1, <1>7 DEF a, b, Lower
  <2>2. \A i \in 1 .. a : x[i] = y[i]
    <3>1. SUFFICES ASSUME NEW i \in 1 .. a PROVE x[i] = y[i]
      OBVIOUS
    <3>2. (a - i) + 1 \in 1 .. a /\ (a - ((a - i) + 1)) + 1 = i
      BY <1>4
    <3>3. QED BY <1>5, <2>1, <3>2
  <2>3. QED BY <1>2, <1>3, <2>1, <2>2
<1>8. QED BY <1>6, <1>7 DEF w, x, y

LEMMA HeadFacts ==
    ASSUME NEW W, NEW s \in Seq(W), NEW m \in 0 .. Len(s)
    PROVE  /\ SubSeq(s, 1, m) \in Seq(W) /\ Len(SubSeq(s, 1, m)) = m
           /\ \A i \in 1 .. m : SubSeq(s, 1, m)[i] = s[i]
OBVIOUS

LEMMA CatFacts ==
    ASSUME NEW W, NEW u \in Seq(W), NEW v \in Seq(W)
    PROVE  /\ u \o v \in Seq(W) /\ Len(u \o v) = Len(u) + Len(v)
           /\ \A i \in 1 .. Len(u) + Len(v) :
                 (u \o v)[i] = IF i <= Len(u) THEN u[i] ELSE v[i - Len(u)]
OBVIOUS

\* Dropping the question takes at most the last turn off.
LEMMA DropFacts ==
    ASSUME NEW s \in Seq(Turn), NEW question
    PROVE  /\ DropQuestion(s, question) \in Seq(Turn)
           /\ Len(DropQuestion(s, question)) >= Len(s) - 1
<1> DEFINE d == DropQuestion(s, question)
<1>1. d = s \/ (s # <<>> /\ d = SubSeq(s, 1, Len(s) - 1))
  BY DEF DropQuestion, Front
<1> HIDE DEF d
<1>2. Len(s) \in Nat /\ (s # <<>> => Len(s) - 1 \in 0 .. Len(s))
  OBVIOUS
<1>3. s # <<>> => /\ SubSeq(s, 1, Len(s) - 1) \in Seq(Turn)
                  /\ Len(SubSeq(s, 1, Len(s) - 1)) = Len(s) - 1
  BY <1>2, HeadFacts
<1>4. d \in Seq(Turn) /\ Len(d) >= Len(s) - 1
  BY <1>1, <1>2, <1>3
<1>5. QED BY <1>4 DEF d

\* It looks at the last turn only.
LEMMA DropCat ==
    ASSUME NEW u \in Seq(Turn), NEW v \in Seq(Turn), v # <<>>, NEW question
    PROVE  DropQuestion(u \o v, question) = u \o DropQuestion(v, question)
<1> DEFINE m == Len(u)
           k == Len(v)
           w == u \o v
           f == SubSeq(v, 1, k - 1)
           h == SubSeq(w, 1, (m + k) - 1)
<1>1. m \in Nat /\ k \in Nat \ {0} /\ k - 1 \in 0 .. k /\ (m + k) - 1 \in 0 .. m + k
  OBVIOUS
<1>2. /\ w \in Seq(Turn) /\ Len(w) = m + k
      /\ \A i \in 1 .. m + k : w[i] = IF i <= m THEN u[i] ELSE v[i - m]
  BY CatFacts
<1>3. f \in Seq(Turn) /\ Len(f) = k - 1 /\ \A i \in 1 .. k - 1 : f[i] = v[i]
  BY <1>1, HeadFacts
<1> HIDE DEF w
<1>4. h \in Seq(Turn) /\ Len(h) = (m + k) - 1 /\ \A i \in 1 .. (m + k) - 1 : h[i] = w[i]
  BY <1>1, <1>2, HeadFacts
<1> HIDE DEF f, h, k, m
<1>5. w # <<>> /\ Last(w) = Last(v) /\ Front(w) = h /\ Front(v) = f
  <2>1. Len(w) # 0 /\ w[m + k] = v[k]
    BY <1>1, <1>2
  <2>2. QED BY <1>2, <2>1 DEF Last, Front, h, f, k
<1>6. h = u \o f
  <2> DEFINE z == u \o f
  <2>1. /\ z \in Seq(Turn) /\ Len(z) = Len(u) + Len(f)
        /\ \A i \in 1 .. Len(u) + Len(f) : z[i] = IF i <= Len(u) THEN u[i] ELSE f[i - Len(u)]
    BY <1>3, CatFacts
  <2>2. Len(z) = (m + k) - 1 /\ \A i \in 1 .. (m + k) - 1 : z[i] = IF i <= m THEN u[i] ELSE f[i - m]
    <3>1. Len(u) = m /\ Len(u) + Len(f) = (m + k) - 1
      BY <1>1, <1>3 DEF m
    <3>2. QED BY <2>1, <3>1
  <2> HIDE DEF z
  <2>3. ASSUME NEW i \in 1 .. (m + k) - 1 PROVE h[i] = z[i]
    <3>1. i \in 1 .. m + k /\ (~(i <= m) => i - m \in 1 .. k - 1)
      BY <1>1
    <3>2. QED BY <1>2, <1>3, <1>4, <2>2, <3>1
  <2>4. h = z
    BY <1>4, <2>1, <2>2, <2>3
  <2>5. QED BY <2>4 DEF z
<1>7. QED BY <1>5, <1>6 DEF DropQuestion, w

\* What the prompt says was said: the last of it, the question taken off where
\* it is the last that was said.
LEMMA AlwaysAskedLast ==
    ASSUME NEW rows \in Seq(Turn), NEW question \in STRING
    PROVE  AskedLast(rows, question)
<1> DEFINE n == Len(rows)
           asked == [role |-> "user", text |-> question]
           a == IF 2 * MaxTurns < n THEN (n - 2 * MaxTurns) + 1 ELSE 1
           pre == SubSeq(rows, 1, a - 1)
           B == SubSeq(rows, a, n)
           u == Said(pre)
           v == Said(B)
           said == Said(rows)
           D(list) == DropQuestion(list, question)
           T == LastOf(MaxTurns, D(v))
           turns == Turns(rows, question)
<1>1. MaxTurns \in Nat \ {0}
  BY GroundingAssumption
<1>2. n \in Nat
  OBVIOUS
<1>3. /\ a \in 1 .. n + 1 /\ (a = n + 1 => n = 0) /\ a - 1 \in 0 .. n
      /\ a # 1 => (n - a) + 1 = 2 * MaxTurns
  BY <1>1, <1>2
<1>4. LastOf(2 * MaxTurns, rows) = B
  BY <1>1, <1>2 DEF LastOf
<1>5. /\ B \in Seq(Turn) /\ Len(B) = (n - a) + 1
      /\ \A i \in 1 .. (n - a) + 1 : B[i] = rows[(a - 1) + i]
  <2> HIDE DEF a
  <2>1. a \in Int /\ 1 <= a /\ a <= n + 1
    BY <1>2, <1>3
  <2>2. QED BY <1>2, <2>1
<1> HIDE DEF a
<1>6. pre \in Seq(Turn) /\ Len(pre) = a - 1 /\ \A i \in 1 .. a - 1 : pre[i] = rows[i]
  BY <1>3, HeadFacts
<1> HIDE DEF B, pre
<1>7. rows = pre \o B
  <2> DEFINE z == pre \o B
  <2>1. /\ z \in Seq(Turn) /\ Len(z) = Len(pre) + Len(B)
        /\ \A i \in 1 .. Len(pre) + Len(B) :
              z[i] = IF i <= Len(pre) THEN pre[i] ELSE B[i - Len(pre)]
    BY <1>5, <1>6, CatFacts
  <2>2. Len(pre) + Len(B) = n
    BY <1>2, <1>3, <1>5, <1>6
  <2> HIDE DEF z
  <2>3. ASSUME NEW i \in 1 .. n PROVE z[i] = rows[i]
    <3>1. CASE i <= a - 1
      <4>1. i \in 1 .. a - 1
        BY <1>3, <3>1
      <4>2. QED BY <1>6, <2>1, <2>2, <3>1, <4>1
    <3>2. CASE ~(i <= a - 1)
      <4>1. i - (a - 1) \in 1 .. (n - a) + 1 /\ (a - 1) + (i - (a - 1)) = i
        BY <1>2, <1>3, <3>2
      <4>2. B[i - (a - 1)] = rows[i]
        BY <1>5, <4>1
      <4>3. QED BY <1>6, <2>1, <2>2, <3>2, <4>2
    <3>3. QED BY <3>1, <3>2
  <2>4. rows = z
    <3>1. Len(z) = Len(rows)
      BY <2>1, <2>2
    <3> HIDE DEF n
    <3>2. QED BY <2>1, <2>3, <3>1 DEF n
  <2>5. QED BY <2>4 DEF z
<1>8. u \in Seq(Turn) /\ v \in Seq(Turn) /\ said \in Seq(Turn)
  BY <1>5, <1>6, SaidKeeps
<1>9. said = u \o v
  BY <1>5, <1>6, <1>7, SaidSplits
<1>10. turns = Append(T, asked)
  BY <1>4 DEF Turns, LoadHistory
<1>11. asked \in Turn
  BY DEF Turn
<1> HIDE DEF n, u, v, said, turns, asked
<1>12. D(v) \in Seq(Turn) /\ Len(D(v)) >= Len(v) - 1 /\ D(u) \in Seq(Turn)
  BY <1>8, DropFacts
<1>13. T \in Seq(Turn)
  <2> HIDE DEF D
  <2>1. QED BY <1>1, <1>12, LastOfFacts
<1>14. Last(turns) = asked /\ Front(turns) = T
  <2> HIDE DEF T
  <2>1. /\ turns \in Seq(Turn) /\ Len(turns) = Len(T) + 1 /\ turns[Len(T) + 1] = asked
        /\ SubSeq(turns, 1, Len(T)) = T /\ Len(T) \in Nat
    BY <1>10, <1>11, <1>13
  <2>2. (Len(T) + 1) - 1 = Len(T)
    BY <2>1
  <2>3. QED BY <2>1, <2>2 DEF Last, Front
<1>15. ASSUME said = rows
       PROVE  pre = <<>> => u = <<>>
  <2>1. pre = <<>> => \A i \in 1 .. Len(pre) : pre[i].text # "blank"
    BY <1>6
  <2>2. QED BY <1>6, <2>1, SaidKeeps DEF u
<1>16. ASSUME said = rows PROVE v = B
  <2>1. \A i \in 1 .. Len(rows) : rows[i].text # "blank"
    <3>1. \A i \in 1 .. Len(Said(rows)) : Said(rows)[i].text # "blank"
      BY SaidKeeps
    <3>2. QED BY <1>16, <3>1 DEF said
  <2>2. \A i \in 1 .. Len(B) : B[i].text # "blank"
    <3>1. SUFFICES ASSUME NEW i \in 1 .. Len(B) PROVE B[i].text # "blank"
      OBVIOUS
    <3>2. (a - 1) + i \in 1 .. Len(rows) /\ i \in 1 .. (n - a) + 1
      BY <1>2, <1>3, <1>5 DEF n
    <3>3. QED BY <1>5, <2>1, <3>2
  <2>3. QED BY <1>5, <2>2, SaidKeeps DEF v
<1>17. /\ IsSuffix(T, LastOf(MaxTurns, D(said)))
       /\ said = rows => T = LastOf(MaxTurns, D(said))
  <2>1. CASE v = <<>>
    <3>1. said = u /\ D(v) = <<>>
      BY <1>8, <1>9, <2>1 DEF DropQuestion
    <3> DEFINE d == D(u)
    <3>2. d \in Seq(Turn) /\ D(said) = d \o <<>>
      <4>1. D(said) = d /\ d \in Seq(Turn)
        BY <1>12, <3>1
      <4> HIDE DEF d, D
      <4>2. QED BY <4>1
    <3>3. <<>> \in Seq(Turn)
      OBVIOUS
    <3> HIDE DEF d
    <3>4. IsSuffix(LastOf(MaxTurns, <<>>), LastOf(MaxTurns, d \o <<>>))
      BY <1>1, <3>2, <3>3, LastOfTail
    <3>5. ASSUME said = rows PROVE D(said) = <<>>
      <4>1. B = <<>>
        BY <1>16, <2>1, <3>5
      <4>2. n = 0
        BY <1>2, <1>3, <1>5, <4>1
      <4>3. said = <<>>
        BY <3>5, <4>2 DEF n
      <4>4. QED BY <4>3 DEF DropQuestion
    <3>6. QED BY <3>1, <3>2, <3>4, <3>5
  <2>2. CASE v # <<>>
    <3> DEFINE d == D(v)
    <3>1. D(said) = u \o d
      <4>1. DropQuestion(u \o v, question) = u \o DropQuestion(v, question)
        <5>1. \A x, y \in Seq(Turn) :
                 y # <<>> => DropQuestion(x \o y, question) = x \o DropQuestion(y, question)
          BY DropCat
        <5>2. QED BY <1>8, <2>2, <5>1
      <4>2. QED BY <1>9, <4>1
    <3>2. d \in Seq(Turn) /\ Len(d) >= Len(v) - 1
      BY <1>12
    <3> HIDE DEF d
    <3>3. /\ IsSuffix(LastOf(MaxTurns, d), LastOf(MaxTurns, u \o d))
          /\ Len(d) >= MaxTurns => LastOf(MaxTurns, d) = LastOf(MaxTurns, u \o d)
      BY <1>1, <1>8, <3>2, LastOfTail
    <3>4. ASSUME said = rows PROVE LastOf(MaxTurns, d) = LastOf(MaxTurns, u \o d)
      <4>1. CASE a = 1
        <5>1. pre = <<>>
          BY <1>6, <4>1
        <5>2. u \o d = d
          BY <1>15, <3>2, <3>4, <5>1
        <5>3. QED BY <5>2
      <4>2. CASE a # 1
        <5>1. Len(v) = 2 * MaxTurns
          BY <1>3, <1>5, <1>16, <3>4, <4>2
        <5>2. Len(d) \in Nat
          BY <3>2
        <5>3. Len(d) >= MaxTurns
          BY <1>1, <3>2, <5>1, <5>2
        <5>4. QED BY <3>3, <5>3
      <4>3. QED BY <4>1, <4>2
    <3>5. T = LastOf(MaxTurns, d)
      BY DEF d
    <3>6. QED BY <3>1, <3>3, <3>4, <3>5
  <2>3. QED BY <2>1, <2>2
<1> HIDE DEF T
<1>18. D(said) = IF said # <<>> /\ Last(said) = asked THEN Front(said) ELSE said
  BY DEF DropQuestion, asked
<1>19. QED
  BY <1>14, <1>17, <1>18 DEF AskedLast, turns, said, asked

-----------------------------------------------------------------------------
(* The metrics of the benchmark. *)

\* Where the best of the finitely many values of a function on 1 .. n is taken.
LEMMA Greatest ==
    ASSUME NEW n \in Nat \ {0}, NEW f \in [1 .. n -> 0 .. n]
    PROVE  \E p \in 1 .. n : \A i \in 1 .. n : f[i] <= f[p]
<1> DEFINE S == {f[i] + 1 : i \in 1 .. n}
<1>1. S \in SUBSET (1 .. n + 1) /\ S # {}
  <2>1. 1 \in 1 .. n
    OBVIOUS
  <2>2. \A i \in 1 .. n : f[i] \in 0 .. n
    OBVIOUS
  <2>3. \A i \in 1 .. n : f[i] + 1 \in 1 .. n + 1
    BY <2>2
  <2>4. QED BY <2>1, <2>3
<1>2. n + 1 \in Nat
  OBVIOUS
<1>3. Max(S) \in S /\ \A x \in S : x <= Max(S)
  <2> HIDE DEF S
  <2>1. QED BY <1>1, <1>2, MaxIn
<1>4. PICK p \in 1 .. n : Max(S) = f[p] + 1
  BY <1>3
<1>5. \A i \in 1 .. n : f[i] + 1 <= f[p] + 1
  BY <1>3, <1>4
<1>6. \A i \in 1 .. n : f[i] \in Nat
  OBVIOUS
<1>7. \A i \in 1 .. n : f[i] <= f[p]
  <2> HIDE DEF S
  <2>1. QED BY <1>5, <1>6
<1>8. QED BY <1>7

IsStatistic(numbers, k, v) ==
    /\ v \in ToSet(numbers)
    /\ Cardinality({i \in DOMAIN numbers : numbers[i] < v}) < k
    /\ k <= Cardinality({i \in DOMAIN numbers : numbers[i] <= v})

LEMMA StatisticExists ==
    ASSUME NEW numbers \in Seq(Nat), NEW k \in 1 .. Len(numbers)
    PROVE  IsStatistic(numbers, k, Statistic(numbers, k))
<1> DEFINE n == Len(numbers)
           UpToIt(v) == {i \in 1 .. n : numbers[i] <= v}
           Below(v) == {i \in 1 .. n : numbers[i] < v}
           Count(v) == Cardinality(UpToIt(v))
<1>1. /\ n \in Nat \ {0} /\ DOMAIN numbers = 1 .. n /\ k \in 1 .. n
      /\ \A i \in 1 .. n : numbers[i] \in Nat
  OBVIOUS
<1> HIDE DEF n
<1>2. IsFiniteSet(1 .. n) /\ Cardinality(1 .. n) = n
  BY <1>1, FS_Interval
<1>3. ASSUME NEW S \in SUBSET (1 .. n)
      PROVE  IsFiniteSet(S) /\ Cardinality(S) \in 0 .. n
  <2>1. IsFiniteSet(S) /\ Cardinality(S) <= n
    BY <1>2, FS_Subset
  <2>2. QED BY <1>1, <2>1, FS_CardinalityType
<1>4. ASSUME NEW S \in SUBSET (1 .. n), NEW R \in SUBSET (1 .. n), S \subseteq R, S # R
      PROVE  Cardinality(S) < Cardinality(R)
  <2>1. Cardinality(S) <= Cardinality(R) /\ (Cardinality(S) = Cardinality(R) => S = R)
    BY <1>3, <1>4, FS_Subset
  <2>2. QED BY <1>3, <1>4, <2>1
<1>5. \A v : UpToIt(v) \in SUBSET (1 .. n) /\ Below(v) \in SUBSET (1 .. n)
  OBVIOUS
\* Among the places of S there is one whose number is not exceeded by the others.
<1>6. ASSUME NEW S \in SUBSET (1 .. n), S # {}
      PROVE  \E p \in S : \A i \in S : numbers[i] <= numbers[p]
  <2> DEFINE f == [i \in 1 .. n |-> IF i \in S THEN Count(numbers[i]) ELSE 0]
  <2>1. f \in [1 .. n -> 0 .. n]
    <3>1. 0 \in 0 .. n
      BY <1>1
    <3> HIDE DEF UpToIt
    <3>2. QED BY <1>3, <1>5, <3>1
  <2>2. PICK p \in 1 .. n : \A i \in 1 .. n : f[i] <= f[p]
    <3> HIDE DEF f
    <3>1. QED BY <1>1, <2>1, Greatest
  <2>3. ASSUME NEW i \in S PROVE i \in UpToIt(numbers[i]) /\ Count(numbers[i]) \in Nat \ {0}
    <3>1. i \in UpToIt(numbers[i])
      BY <1>1
    <3> HIDE DEF UpToIt
    <3>2. IsFiniteSet(UpToIt(numbers[i])) /\ Cardinality(UpToIt(numbers[i])) \in Nat
      BY <1>1, <1>3, <1>5
    <3>3. Cardinality(UpToIt(numbers[i])) # 0
      BY <3>1, <3>2, FS_EmptySet
    <3>4. QED BY <3>1, <3>2, <3>3
  <2> HIDE DEF Count
  <2>4. p \in S
    <3>1. PICK i \in S : TRUE
      BY <1>6
    <3>2. f[i] = Count(numbers[i]) /\ f[i] <= f[p]
      BY <2>2, <3>1
    <3>3. f[p] # 0
      BY <2>3, <3>1, <3>2
    <3>4. QED BY <3>3
  <2>5. ASSUME NEW i \in S PROVE numbers[i] <= numbers[p]
    <3>1. SUFFICES ASSUME numbers[p] < numbers[i] PROVE FALSE
      BY <1>1, <2>4
    <3>2. UpToIt(numbers[p]) \subseteq UpToIt(numbers[i]) /\ i \notin UpToIt(numbers[p])
      BY <1>1, <2>4, <3>1
    <3>3. i \in UpToIt(numbers[i])
      BY <2>3
    <3>4. Count(numbers[p]) < Count(numbers[i])
      <4> HIDE DEF UpToIt
      <4>1. QED BY <1>4, <1>5, <3>2, <3>3 DEF Count
    <3>5. Count(numbers[i]) <= Count(numbers[p])
      BY <2>2, <2>4
    <3>6. Count(numbers[i]) \in Nat /\ Count(numbers[p]) \in Nat
      BY <2>3, <2>4
    <3>7. QED BY <3>4, <3>5, <3>6
  <2>6. QED BY <2>4, <2>5
<1> DEFINE Enough == {Count(numbers[p]) : p \in {i \in 1 .. n : k <= Count(numbers[i])}}
<1>7. Enough \in SUBSET Nat /\ Enough # {}
  <2>1. \A p \in 1 .. n : Count(numbers[p]) \in Nat
    <3> HIDE DEF UpToIt
    <3>1. QED BY <1>1, <1>3, <1>5
  <2>2. PICK p \in 1 .. n : \A i \in 1 .. n : numbers[i] <= numbers[p]
    <3>1. 1 .. n # {}
      BY <1>1
    <3>2. QED BY <1>6, <3>1
  <2>3. UpToIt(numbers[p]) = 1 .. n
    BY <2>2
  <2>4. k <= Count(numbers[p])
    <3> HIDE DEF UpToIt
    <3>1. Count(numbers[p]) = n
      BY <1>2, <2>3
    <3>2. QED BY <1>1, <3>1
  <2>5. QED BY <2>1, <2>4
<1>8. PICK least \in Enough : \A x \in Enough : least <= x
  <2> HIDE DEF Enough
  <2>1. QED BY <1>7, Least
<1>9. PICK p \in 1 .. n : least = Count(numbers[p]) /\ k <= Count(numbers[p])
  OBVIOUS
<1> DEFINE v == numbers[p]
<1>10. Cardinality(Below(v)) < k
  <2>1. Cardinality(Below(v)) \in 0 .. n
    <3> HIDE DEF Below, v
    <3>1. QED BY <1>3, <1>5
  <2>2. SUFFICES ASSUME k <= Cardinality(Below(v)) PROVE FALSE
    <3> HIDE DEF Below, v
    <3>1. QED BY <1>1, <2>1
  <2>3. Below(v) # {}
    <3> HIDE DEF Below, v
    <3>1. Cardinality({}) = 0
      BY FS_EmptySet
    <3>2. Cardinality(Below(v)) # 0
      BY <1>1, <2>1, <2>2
    <3>3. QED BY <3>1, <3>2
  <2>4. PICK q \in Below(v) : \A i \in Below(v) : numbers[i] <= numbers[q]
    <3> HIDE DEF Below, v
    <3>1. QED BY <1>5, <1>6, <2>3
  <2>5. q \in 1 .. n /\ UpToIt(numbers[q]) = Below(v)
    BY <1>1, <2>4
  <2>6. Count(numbers[q]) = Cardinality(Below(v)) /\ k <= Count(numbers[q])
    BY <2>2, <2>5
  <2>7. Count(numbers[p]) <= Count(numbers[q])
    <3> HIDE DEF Count
    <3>1. Count(numbers[q]) \in Enough
      BY <2>5, <2>6
    <3>2. QED BY <1>8, <1>9, <3>1
  <2>8. Below(v) \subseteq UpToIt(v) /\ p \in UpToIt(v) /\ p \notin Below(v)
    BY <1>1
  <2>9. Cardinality(Below(v)) < Count(v)
    <3> HIDE DEF Below, UpToIt, v
    <3>1. QED BY <1>4, <1>5, <2>8
  <2>10. Count(v) \in 0 .. n
    <3> HIDE DEF UpToIt, v
    <3>1. QED BY <1>3, <1>5
  <2>11. QED BY <1>1, <2>1, <2>6, <2>7, <2>9, <2>10
<1>11. v \in ToSet(numbers)
  BY <1>1 DEF ToSet
<1>12. IsStatistic(numbers, k, v)
  BY <1>1, <1>9, <1>10, <1>11 DEF IsStatistic
<1>13. \E u \in ToSet(numbers) :
          /\ Cardinality({i \in DOMAIN numbers : numbers[i] < u}) < k
          /\ k <= Cardinality({i \in DOMAIN numbers : numbers[i] <= u})
  BY <1>12 DEF IsStatistic
<1>14. QED BY <1>13 DEF IsStatistic, Statistic

LEMMA StatisticsOrdered ==
    ASSUME NEW numbers \in Seq(Nat),
           NEW k \in 1 .. Len(numbers), NEW l \in 1 .. Len(numbers), k <= l
    PROVE  /\ Statistic(numbers, k) \in Nat /\ Statistic(numbers, l) \in Nat
           /\ Statistic(numbers, k) <= Statistic(numbers, l)
<1> DEFINE n == Len(numbers)
           v == Statistic(numbers, k)
           w == Statistic(numbers, l)
           UpToIt == {i \in DOMAIN numbers : numbers[i] <= w}
           Below == {i \in DOMAIN numbers : numbers[i] < v}
<1>1. IsStatistic(numbers, k, v) /\ IsStatistic(numbers, l, w)
  BY StatisticExists
<1>2. DOMAIN numbers = 1 .. n /\ n \in Nat /\ \A i \in 1 .. n : numbers[i] \in Nat
  OBVIOUS
<1> HIDE DEF v, w
<1>3. v \in Nat /\ w \in Nat
  BY <1>1, <1>2 DEF IsStatistic, ToSet
<1>4. SUFFICES ASSUME w < v PROVE FALSE
  BY <1>3 DEF v, w
<1>5. UpToIt \subseteq Below /\ Below \subseteq 1 .. n
  BY <1>2, <1>3, <1>4
<1>6. IsFiniteSet(1 .. n)
  BY <1>2, FS_Interval
<1>7. Cardinality(Below) < k /\ l <= Cardinality(UpToIt)
  BY <1>1 DEF IsStatistic
<1> HIDE DEF UpToIt, Below
<1>8. IsFiniteSet(Below) /\ IsFiniteSet(UpToIt) /\ Cardinality(UpToIt) <= Cardinality(Below)
  BY <1>5, <1>6, FS_Subset
<1>9. Cardinality(Below) \in Nat /\ Cardinality(UpToIt) \in Nat
  BY <1>8, FS_CardinalityType
<1>10. QED BY <1>2, <1>7, <1>8, <1>9

LEMMA PercentilesOrdered ==
    ASSUME NEW numbers \in Seq(Nat)
    PROVE  P50(numbers) <= P95(numbers)
<1> DEFINE n == Len(numbers)
           at == (95 * n) \div 100 + 1
           top == IF at < n THEN at ELSE n
           S(k) == Statistic(numbers, k)
<1>1. n \in Nat
  OBVIOUS
<1>2. CASE n = 0
  BY <1>2 DEF P50, P95
<1>3. CASE n # 0
  <2>1. P95(numbers) = S(top)
    BY <1>3 DEF P95
  <2>2. at \in Nat /\ 100 * at >= 95 * n /\ at >= 1
    <3> HIDE DEF n
    <3>1. QED BY <1>1
  <2>3. top \in 1 .. n
    <3> HIDE DEF n, at
    <3>1. QED BY <1>1, <1>3, <2>2
  <2>4. CASE n % 2 = 1
    <3>1. P50(numbers) = S((n + 1) \div 2)
      BY <1>3, <2>4 DEF P50
    <3> HIDE DEF n
    <3>2. (n + 1) \div 2 \in 1 .. n /\ 2 * ((n + 1) \div 2) = n + 1
      BY <1>1, <1>3, <2>4
    <3> HIDE DEF at
    <3>3. (n + 1) \div 2 <= top
      <4> DEFINE h == (n + 1) \div 2
      <4>1. h \in Nat /\ 2 * h = n + 1
        BY <3>2
      <4> HIDE DEF h
      <4>2. h <= n
        BY <1>1, <1>3, <4>1
      <4>3. h <= at
        BY <1>1, <1>3, <2>2, <4>1
      <4>4. QED BY <4>2, <4>3 DEF h
    <3> HIDE DEF top
    <3>4. S((n + 1) \div 2) <= S(top)
      BY <2>3, <3>2, <3>3, StatisticsOrdered DEF n
    <3>5. QED BY <2>1, <3>1, <3>4
  <2>5. CASE n % 2 # 1
    <3> DEFINE h == n \div 2
    <3>1. P50(numbers) = (S(h) + S(h + 1)) \div 2
      BY <1>3, <2>5 DEF P50
    <3> HIDE DEF n
    <3>2. h \in Nat /\ 2 * h = n
      BY <1>1, <2>5
    <3> HIDE DEF h, at
    <3>3. h \in 1 .. n /\ h + 1 \in 1 .. n
      BY <1>1, <1>3, <3>2
    <3>4. h + 1 <= top
      <4>1. h + 1 <= n
        BY <3>3
      <4>2. h + 1 <= at
        BY <1>1, <1>3, <2>2, <3>2
      <4>3. QED BY <4>1, <4>2
    <3> HIDE DEF top
    <3>5. h <= h + 1
      BY <3>2
    <3>6. S(h) \in Nat /\ S(h + 1) \in Nat /\ S(h) <= S(h + 1)
      BY <3>3, <3>5, StatisticsOrdered DEF n
    <3>7. S(top) \in Nat /\ S(h + 1) <= S(top)
      BY <2>3, <3>3, <3>4, StatisticsOrdered DEF n
    <3>8. QED
      <4> HIDE DEF S
      <4>1. (S(h) + S(h + 1)) \div 2 <= S(top)
        BY <3>6, <3>7
      <4>2. QED BY <2>1, <3>1, <4>1
  <2>6. QED BY <2>4, <2>5
<1>4. QED BY <1>2, <1>3
ScoreType ==
    [recall5 : Nat \X Nat, recall10 : Nat \X Nat, precision5 : Nat \X Nat, mrr : Nat \X Nat,
     hit : BOOLEAN]
Scores == {s \in ScoreType : ScoreAgrees(s)}

LEMMA TopFacts ==
    ASSUME NEW list \in Seq(Int), NEW k \in Nat
    PROVE  /\ ToSet(Top(list, k)) = {list[i] : i \in {j \in 1 .. Len(list) : j <= k}}
           /\ Len(Top(list, k)) \in Nat
<1>1. Len(list) \in Nat
  OBVIOUS
<1> DEFINE m == IF k < Len(list) THEN k ELSE Len(list)
<1>2. m \in 0 .. Len(list) /\ \A j \in 1 .. Len(list) : j <= k <=> j \in 1 .. m
  BY <1>1
<1>3. Top(list, k) = SubSeq(list, 1, m)
  BY DEF Top
<1> HIDE DEF m
<1>4. /\ SubSeq(list, 1, m) \in Seq(Int) /\ Len(SubSeq(list, 1, m)) = m
      /\ \A i \in 1 .. m : SubSeq(list, 1, m)[i] = list[i]
  BY <1>2, HeadFacts
<1>5. DOMAIN SubSeq(list, 1, m) = 1 .. m
  BY <1>4
<1>6. ToSet(SubSeq(list, 1, m)) = {list[i] : i \in 1 .. m}
  BY <1>4, <1>5 DEF ToSet
<1>7. {j \in 1 .. Len(list) : j <= k} = 1 .. m
  BY <1>2
<1>8. QED BY <1>1, <1>2, <1>3, <1>4, <1>6, <1>7

LEMMA MinFacts ==
    ASSUME NEW S \in SUBSET Nat, S # {}
    PROVE  Min(S) \in S /\ \A x \in S : Min(S) <= x
<1>1. \E m \in S : \A x \in S : m <= x
  BY Least
<1>2. QED BY <1>1 DEF Min

LEMMA MetricsOfQuestion ==
    ASSUME NEW retrieved \in Seq(Int), Len(retrieved) <= TopK,
           NEW relevant, IsFiniteSet(relevant), relevant # {}
    PROVE  QuestionResult(retrieved, relevant) \in Scores
<1> DEFINE five == ToSet(Top(retrieved, 5)) \cap relevant
           ten == ToSet(Top(retrieved, 10)) \cap relevant
           found == {i \in DOMAIN retrieved : retrieved[i] \in relevant}
           s == QuestionResult(retrieved, relevant)
           n == Len(retrieved)
<1>1. n \in Nat /\ DOMAIN retrieved = 1 .. n /\ n <= 10
  BY DEF TopK
<1>2. /\ ToSet(Top(retrieved, 5)) = {retrieved[i] : i \in {j \in 1 .. n : j <= 5}}
      /\ ToSet(Top(retrieved, 10)) = {retrieved[i] : i \in {j \in 1 .. n : j <= 10}}
      /\ Len(Top(retrieved, 5)) \in Nat
  BY TopFacts
<1>3. five \subseteq ten /\ ten \subseteq relevant
  BY <1>2
<1>4. five # {} <=> \E i \in found : i <= 5
  BY <1>1, <1>2
<1>5. ten # {} <=> found # {}
  BY <1>1, <1>2
<1>6. IsFiniteSet(five) /\ IsFiniteSet(ten)
      /\ Cardinality(five) <= Cardinality(ten) /\ Cardinality(ten) <= Cardinality(relevant)
  <2> HIDE DEF five, ten
  <2>1. IsFiniteSet(ten) /\ Cardinality(ten) <= Cardinality(relevant)
    BY <1>3, FS_Subset
  <2>2. IsFiniteSet(five) /\ Cardinality(five) <= Cardinality(ten)
    BY <1>3, <2>1, FS_Subset
  <2>3. QED BY <2>1, <2>2
<1> DEFINE a == Cardinality(five)
           b == Cardinality(ten)
           r == Cardinality(relevant)
           l == Len(Top(retrieved, 5))
<1>7. a \in Nat /\ b \in Nat /\ r \in Nat /\ l \in Nat /\ a <= b /\ b <= r
  BY <1>2, <1>6, FS_CardinalityType
<1>8. (a > 0 <=> five # {}) /\ (b > 0 <=> ten # {}) /\ r > 0
  <2> HIDE DEF five, ten
  <2>1. (a = 0 <=> five = {}) /\ (b = 0 <=> ten = {}) /\ r # 0
    BY <1>6, FS_EmptySet
  <2>2. QED BY <1>7, <2>1
<1>9. found \in SUBSET Nat /\ \A i \in found : i \in Nat \ {0}
  BY <1>1
<1> DEFINE mrr == ReciprocalRank(retrieved, relevant)
<1>10. /\ mrr \in Nat \X Nat
       /\ mrr[1] > 0 <=> found # {}
       /\ mrr[1] > 0 /\ mrr[2] <= 5 <=> \E i \in found : i <= 5
  <2>1. mrr = IF found = {} THEN <<0, 1>> ELSE <<1, Min(found)>>
    BY DEF ReciprocalRank
  <2> HIDE DEF mrr, found
  <2>2. CASE found = {}
    BY <2>1, <2>2
  <2>3. CASE found # {}
    <3>1. mrr = <<1, Min(found)>>
      BY <2>1, <2>3
    <3>2. Min(found) \in found /\ \A x \in found : Min(found) <= x
      BY <1>9, <2>3, MinFacts
    <3>3. Min(found) \in Nat
      BY <1>9, <3>2
    <3>4. Min(found) <= 5 <=> \E i \in found : i <= 5
      BY <1>9, <3>2, <3>3
    <3>5. QED BY <2>3, <3>1, <3>3, <3>4
  <2>4. QED BY <2>2, <2>3
<1>11. /\ s.recall5 = <<a, r>> /\ s.recall10 = <<b, r>> /\ s.precision5 = <<a, l>>
       /\ s.mrr = mrr /\ s.hit = (ten # {})
  BY DEF QuestionResult, RecallAt, PrecisionAt, TopK
<1>12. s = [recall5 |-> <<a, r>>, recall10 |-> <<b, r>>, precision5 |-> <<a, l>>,
            mrr |-> mrr, hit |-> (ten # {})]
  BY DEF QuestionResult, RecallAt, PrecisionAt, TopK
<1>13. a * r <= b * r /\ b * 1 <= 1 * r
  <2> HIDE DEF a, b, r
  <2>1. \A x, y, z \in Nat : x <= y => x * z <= y * z
    OBVIOUS
  <2>2. QED BY <1>7, <2>1
<1> HIDE DEF a, b, r, l, mrr, five, ten, found, s
<1>14. s \in ScoreType
  BY <1>7, <1>10, <1>12 DEF ScoreType
<1>15. ScoreAgrees(s)
  <2>1. s.recall5[2] > 0 /\ AtMost(s.recall10, <<1, 1>>) /\ AtMost(s.recall5, s.recall10)
    BY <1>7, <1>8, <1>11, <1>13 DEF AtMost
  <2>2. /\ Positive(s.recall5) <=> Positive(s.precision5)
        /\ s.hit <=> Positive(s.recall10)
    <3>1. Positive(s.recall5) <=> Positive(s.precision5)
      BY <1>11 DEF Positive
    <3>2. Positive(s.recall10) <=> b > 0
      BY <1>11 DEF Positive
    <3>3. s.hit <=> ten # {}
      BY <1>11
    <3>4. QED BY <1>8, <3>1, <3>2, <3>3
  <2>3. s.hit <=> Positive(s.mrr)
    BY <1>5, <1>10, <1>11 DEF Positive
  <2>4. Positive(s.recall5) <=> Positive(s.mrr) /\ s.mrr[2] <= 5
    BY <1>4, <1>8, <1>10, <1>11 DEF Positive
  <2>5. QED BY <2>1, <2>2, <2>3, <2>4 DEF ScoreAgrees
<1>16. QED BY <1>14, <1>15 DEF Scores, s

ThosePath(S, list, g) ==
    /\ g[0] = <<>>
    /\ \A k \in 1 .. Len(list) : g[k] = KeepIn(S, g[k - 1], list[k])
    /\ g[Len(list)] = Those(S, list)

LEMMA KeepInType ==
    ASSUME NEW W, NEW S, NEW kept \in Seq(W), NEW x \in W
    PROVE  KeepIn(S, kept, x) \in Seq(W)
BY DEF KeepIn

LEMMA ThoseSteps ==
    ASSUME NEW W, NEW S, NEW list \in Seq(W)
    PROVE  \E g : ThosePath(S, list, g)
<1> DEFINE n == Len(list)
           Body(F) == [s \in SUBSET (DOMAIN list) |->
                         IF s = {} THEN <<>>
                         ELSE KeepIn(S, F[s \ {Max(s)}], list[Max(s)])]
           it == CHOOSE F : F = Body(F)
<1>1. \E F : F = Body(F)
  <2> DEFINE G == [p \in Seq(W) \X (1 .. n) |-> KeepIn(S, p[1], list[p[2]])]
  <2>1. G \in [Seq(W) \X (1 .. n) -> Seq(W)]
    <3>1. ASSUME NEW p \in Seq(W) \X (1 .. n) PROVE KeepIn(S, p[1], list[p[2]]) \in Seq(W)
      <4>1. p[1] \in Seq(W) /\ list[p[2]] \in W
        OBVIOUS
      <4>2. QED BY <4>1, KeepInType
    <3>2. QED BY <3>1
  <2>2. PICK F : IsFold(F, Seq(W), n, <<>>, G)
    <3>1. n \in Nat /\ <<>> \in Seq(W)
      OBVIOUS
    <3> HIDE DEF G, n
    <3>2. QED BY <2>1, <3>1, FoldExists
  <2>3. ASSUME NEW s \in SUBSET (1 .. n), s # {}
        PROVE  G[<<F[s \ {Max(s)}], Max(s)>>] = KeepIn(S, F[s \ {Max(s)}], list[Max(s)])
    <3>1. Max(s) \in s
      <4>1. n \in Nat
        OBVIOUS
      <4> HIDE DEF n
      <4>2. QED BY <2>3, <4>1, MaxIn
    <3>2. F[s \ {Max(s)}] \in Seq(W)
      BY <2>2 DEF IsFold
    <3>3. QED BY <3>1, <3>2
  <2>4. F = Body(F)
    <3>1. DOMAIN list = 1 .. n
      OBVIOUS
    <3> HIDE DEF G, n
    <3>2. \A s \in SUBSET (1 .. n) : F[s] = Body(F)[s]
      BY <2>2, <2>3, <3>1 DEF IsFold
    <3>3. F = [s \in SUBSET (1 .. n) |-> F[s]]
      BY <2>2 DEF IsFold
    <3>4. F = [s \in SUBSET (DOMAIN list) |-> Body(F)[s]]
      BY <3>1, <3>2, <3>3
    <3>5. QED BY <3>4
  <2>5. QED BY <2>4
<1>2. it = Body(it)
  BY <1>1
<1>3. Those(S, list) = it[DOMAIN list]
  BY DEF FoldLeft, MapThenFoldSet, Those
<1> DEFINE g == [k \in 0 .. n |-> it[1 .. k]]
<1>4. ASSUME NEW k \in 1 .. n
      PROVE  g[k] = KeepIn(S, g[k - 1], list[k])
  <2>1. 1 .. k \in SUBSET (DOMAIN list) /\ 1 .. k # {}
    <3>1. DOMAIN list = 1 .. n /\ n \in Nat
      OBVIOUS
    <3>2. k \in Int /\ 1 <= k /\ k <= n
      OBVIOUS
    <3> HIDE DEF n
    <3>3. \A x \in 1 .. k : x \in 1 .. n
      BY <3>1, <3>2
    <3>4. 1 \in 1 .. k
      BY <3>2
    <3>5. QED BY <3>1, <3>3, <3>4
  <2>2. Max(1 .. k) = k
    BY MaxUpTo
  <2>3. (1 .. k) \ {k} = 1 .. k - 1 /\ k - 1 \in 0 .. n /\ k \in 0 .. n
    OBVIOUS
  <2> HIDE DEF it
  <2>4. it[1 .. k] = KeepIn(S, it[(1 .. k) \ {k}], list[k])
    BY <1>2, <2>1, <2>2
  <2>5. QED BY <2>3, <2>4
<1>5. g[0] = <<>>
  <2>1. {} \in SUBSET (DOMAIN list) /\ 1 .. 0 = {}
    OBVIOUS
  <2> HIDE DEF it
  <2>2. it[{}] = <<>>
    BY <1>2, <2>1
  <2>3. QED BY <2>1, <2>2
<1>6. g[n] = Those(S, list)
  <2> HIDE DEF it
  <2>1. g[n] = it[1 .. n] /\ DOMAIN list = 1 .. n
    OBVIOUS
  <2>2. QED BY <1>3, <2>1
<1> HIDE DEF it, g
<1>7. ThosePath(S, list, g)
  BY <1>4, <1>5, <1>6 DEF ThosePath
<1>8. QED BY <1>7

\* Of a list without repetition the members of a set are one too.
LEMMA ThoseApart ==
    ASSUME NEW W, NEW S, NEW list \in Seq(W), Injective(list)
    PROVE  Those(S, list) \in Seq(W) /\ Injective(Those(S, list))
<1> DEFINE n == Len(list)
<1>1. n \in Nat /\ \A k \in 1 .. n : list[k] \in W
  OBVIOUS
<1>2. PICK g : ThosePath(S, list, g)
  BY ThoseSteps
<1>3. g[0] = <<>> /\ (\A k \in 1 .. n : g[k] = KeepIn(S, g[k - 1], list[k])) /\ g[n] = Those(S, list)
  BY <1>2 DEF ThosePath
<1>4. \A i, j \in 1 .. n : list[i] = list[j] => i = j
  BY DEF Injective
<1> HIDE DEF n
<1> DEFINE Apart(k) == /\ g[k] \in Seq(W)
                       /\ \A i, j \in 1 .. Len(g[k]) : g[k][i] = g[k][j] => i = j
                       /\ \A i \in 1 .. Len(g[k]) : \E j \in 1 .. k : g[k][i] = list[j]
           Good == {k \in 0 .. n : Apart(k)}
<1>5. 0 \in Good
  <2>1. 0 \in 0 .. n /\ <<>> \in Seq(W) /\ Len(<<>>) = 0
    BY <1>1
  <2>2. g[0] = <<>>
    BY <1>3
  <2> DEFINE t == g[0]
  <2>3. t \in Seq(W) /\ Len(t) = 0
    BY <2>1, <2>2
  <2> HIDE DEF t
  <2>4. 1 .. Len(t) = {}
    BY <2>3
  <2>5. /\ \A i, j \in 1 .. Len(t) : t[i] = t[j] => i = j
        /\ \A i \in 1 .. Len(t) : \E j \in 1 .. 0 : t[i] = list[j]
    BY <2>4
  <2>6. Apart(0)
    BY <2>3, <2>5 DEF t
  <2> HIDE DEF Apart
  <2>7. QED BY <2>1, <2>6
<1>6. ASSUME NEW k \in 0 .. n - 1, k \in Good PROVE k + 1 \in Good
  <2> DEFINE t == g[k]
             x == list[k + 1]
  <2>1. k + 1 \in 1 .. n /\ (k + 1) - 1 = k /\ k + 1 \in 0 .. n /\ k \in Nat
    BY <1>1
  <2>2. Apart(k)
    BY <1>6
  <2>3. /\ t \in Seq(W) /\ x \in W
        /\ \A i, j \in 1 .. Len(t) : t[i] = t[j] => i = j
        /\ \A i \in 1 .. Len(t) : \E j \in 1 .. k : t[i] = list[j]
    BY <1>1, <2>1, <2>2
  <2>4. g[k + 1] = KeepIn(S, t, x)
    BY <1>3, <2>1
  <2>5. \A j \in 1 .. k : list[j] # x /\ j \in 1 .. k + 1
    <3>1. SUFFICES ASSUME NEW j \in 1 .. k PROVE list[j] # x /\ j \in 1 .. k + 1
      OBVIOUS
    <3>2. j \in 1 .. n /\ j # k + 1 /\ j \in 1 .. k + 1
      BY <1>1, <2>1
    <3>3. QED BY <1>4, <2>1, <3>2
  <2>6. CASE x \notin S
    <3>1. g[k + 1] = t
      BY <2>4, <2>6 DEF KeepIn
    <3>2. \A i \in 1 .. Len(t) : \E j \in 1 .. k + 1 : t[i] = list[j]
      BY <2>3, <2>5
    <3>3. QED BY <2>1, <2>3, <3>1, <3>2
  <2>7. CASE x \in S
    <3>1. g[k + 1] = Append(t, x)
      BY <2>4, <2>7 DEF KeepIn
    <3> DEFINE y == Append(t, x)
               m == Len(t)
    <3>2. /\ y \in Seq(W) /\ Len(y) = m + 1 /\ y[m + 1] = x /\ m \in Nat
          /\ \A i \in 1 .. m : y[i] = t[i]
      BY <2>3
    <3>3. \A i \in 1 .. m : t[i] # x
      BY <2>3, <2>5
    <3> HIDE DEF t, x, y, m
    <3>4. \A i \in 1 .. m + 1 : i \in 1 .. m \/ i = m + 1
      BY <3>2
    <3>5. \A i, j \in 1 .. m + 1 : y[i] = y[j] => i = j
      BY <2>3, <3>2, <3>3, <3>4 DEF m
    <3>6. \A i \in 1 .. m + 1 : \E j \in 1 .. k + 1 : y[i] = list[j]
      <4>1. k + 1 \in 1 .. k + 1
        BY <2>1
      <4>2. y[m + 1] = list[k + 1]
        BY <3>2 DEF x
      <4>3. \A i \in 1 .. m : \E j \in 1 .. k + 1 : y[i] = list[j]
        BY <2>3, <2>5, <3>2 DEF m
      <4>4. QED BY <3>4, <4>1, <4>2, <4>3
    <3>7. g[k + 1] = y
      BY <3>1 DEF y
    <3>8. Apart(k + 1)
      BY <3>2, <3>5, <3>6, <3>7
    <3>9. QED BY <2>1, <3>8
  <2>8. QED BY <2>6, <2>7
<1>7. 0 .. n \subseteq Good
  <2> HIDE DEF Good
  <2>1. QED BY <1>1, <1>5, <1>6, UpTo
<1>8. n \in 0 .. n
  BY <1>1
<1>9. Apart(n)
  BY <1>7, <1>8
<1>10. QED BY <1>3, <1>9 DEF Injective

\* What fusion makes of two lists is a list without repetition.
LEMMA FusedApart ==
    ASSUME NEW dense, NEW sparse, Lists(dense, sparse)
    PROVE  Fused(dense, sparse) \in Seq(Int) /\ Injective(Fused(dense, sparse))
<1> DEFINE hits == Fused(dense, sparse)
           m == Cardinality(Merged(dense, sparse))
<1>1. Merged(dense, sparse) \in SUBSET Int /\ m \in Nat
  BY MergedFacts
<1>2. hits \in [1 .. m -> Merged(dense, sparse)]
      /\ \A i \in 1 .. m : Place(dense, sparse, hits[i]) = i
  BY FusedOrder
<1> HIDE DEF hits, m
<1>3. hits \in Seq(Int) /\ Len(hits) = m
  BY <1>1, <1>2
<1>4. Injective(hits)
  <2>1. SUFFICES ASSUME NEW i \in 1 .. m, NEW j \in 1 .. m, hits[i] = hits[j] PROVE i = j
    BY <1>3 DEF Injective
  <2>2. QED BY <1>2, <2>1
<1>5. QED BY <1>3, <1>4 DEF hits

\* What the selection makes of a list is a list within the limit.
LEMMA SelectedFacts ==
    ASSUME NEW hits \in Seq(Int), Injective(hits), NEW corpus, NEW limit \in Nat \ {0}
    PROVE  /\ Diversify(corpus, hits, limit) \in Seq(Int)
           /\ Len(Diversify(corpus, hits, limit)) <= limit
<1> DEFINE n == Len(hits)
           s1 == Greedy(corpus, hits, limit)
           s2 == Backfilled(corpus, hits, limit, TRUE, s1)
           s3 == Backfilled(corpus, hits, limit, FALSE, s2)
<1> HIDE DEF n
<1>1. s1 \in Seq(Int) /\ GreedyInv(corpus, limit, hits, n, s1)
  BY GreedyOutcome DEF n
<1>2. Len(s1) <= limit /\ Injective(s1)
  BY <1>1 DEF GreedyInv
<1>3. s2 \in Seq(Int) /\ RefillInv(corpus, limit, TRUE, hits, s1, n, s2)
  <2> HIDE DEF s1
  <2>1. QED BY <1>1, <1>2, RefillOutcome DEF n
<1>4. Len(s2) <= limit /\ Injective(s2)
  BY <1>3 DEF RefillInv
<1>5. s3 \in Seq(Int) /\ RefillInv(corpus, limit, FALSE, hits, s2, n, s3)
  <2> HIDE DEF s2
  <2>1. QED BY <1>3, <1>4, RefillOutcome DEF n
<1>6. Len(s3) <= limit
  BY <1>5 DEF RefillInv
<1>7. Diversify(corpus, hits, limit) = s3
  BY DEF Diversify
<1> HIDE DEF s3
<1>8. QED BY <1>5, <1>6, <1>7

\* A question the benchmark can put: what the retrievers answer it is a list.
Answered(q) == Lists(q.dense, q.sparse) /\ q.ms \in Nat

\* A question that has an answer: the chunks that hold it are a finite set.
Scorable(q) == Answered(q) /\ IsFiniteSet(q.relevant)

LEMMA RetrieveIsShort ==
    ASSUME NEW corpus, NEW q, Answered(q), NEW mode
    PROVE  LET retrieved == Retrieve(corpus, q, mode).chunks
           IN  retrieved \in Seq(Int) /\ Len(retrieved) <= TopK
<1> DEFINE dense  == IF mode = "sparse" THEN <<>> ELSE q.dense
           sparse == IF mode = "dense" THEN <<>> ELSE q.sparse
<1>1. Lists(<<>>, <<>>) /\ Lists(q.dense, <<>>) /\ Lists(<<>>, q.sparse) /\ Lists(q.dense, q.sparse)
  <2>1. <<>> \in Seq(Int) /\ Injective(<<>>) /\ Len(<<>>) <= MaxRank
    BY FusionAssumption DEF Injective
  <2>2. QED BY <2>1 DEF Answered, Lists
<1>2. Lists(dense, sparse)
  BY <1>1
<1>3. TopK \in Nat \ {0}
  BY DEF TopK
<1> DEFINE fused == Fused(dense, sparse)
           hits  == Resolved(corpus, fused)
<1>4. Retrieve(corpus, q, mode).chunks = Diversify(corpus, hits, TopK)
  BY DEF Retrieve
<1> HIDE DEF dense, sparse
<1>5. fused \in Seq(Int) /\ Injective(fused)
  BY <1>2, FusedApart
<1> HIDE DEF fused
<1>6. hits \in Seq(Int) /\ Injective(hits)
  BY <1>5, ThoseApart DEF Resolved
<1> HIDE DEF hits
<1>7. QED BY <1>3, <1>4, <1>6, SelectedFacts

LEMMA RefusedWithoutDense ==
    ASSUME NEW corpus, NEW q
    PROVE  Refused(corpus, q, "sparse")
<1>1. Retrieve(corpus, q, "sparse").relevance = 0
  BY DEF Retrieve
<1>2. QED BY <1>1, FloorAssumption DEF Refused

Runs == [scored : Seq(Scores), skipped : Nat, falseRefusals : Nat, latencies : Seq(Nat),
         refusalTotal : Nat, refusalCorrect : Nat]

\* After so many answerable and so many unanswerable questions.
RunInv(mode, answerable, unanswerable, run) ==
    /\ Len(run.scored) + run.skipped = answerable
    /\ Len(run.latencies) = Len(run.scored) + run.refusalTotal
    /\ run.falseRefusals <= Len(run.scored)
    /\ run.refusalCorrect <= run.refusalTotal
    /\ run.refusalTotal = (IF mode = "sparse" THEN 0 ELSE unanswerable)
    /\ mode = "sparse" => run.falseRefusals = Len(run.scored)

LEMMA AnswerableStep ==
    ASSUME NEW corpus, NEW mode, NEW q, Scorable(q), NEW run \in Runs
    PROVE  /\ ScoreAnswerable(corpus, q, mode, run) \in Runs
           /\ \A a \in Nat : RunInv(mode, a, 0, run) =>
                 RunInv(mode, a + 1, 0, ScoreAnswerable(corpus, q, mode, run))
<1> DEFINE next == ScoreAnswerable(corpus, q, mode, run)
<1>0. Answered(q) /\ IsFiniteSet(q.relevant)
  BY DEF Scorable
<1>1. /\ run.scored \in Seq(Scores) /\ run.skipped \in Nat /\ run.falseRefusals \in Nat
      /\ run.latencies \in Seq(Nat) /\ run.refusalTotal \in Nat /\ run.refusalCorrect \in Nat
      /\ Len(run.scored) \in Nat /\ Len(run.latencies) \in Nat
  BY DEF Runs
<1>2. CASE q.relevant = {}
  <2>1. next = [run EXCEPT !.skipped = @ + 1]
    BY <1>2 DEF ScoreAnswerable
  <2>2. next \in Runs
    <3>1. run.skipped + 1 \in Nat
      BY <1>1
    <3>2. QED BY <2>1, <3>1 DEF Runs
  <2>3. /\ next.scored = run.scored /\ next.skipped = run.skipped + 1
        /\ next.falseRefusals = run.falseRefusals /\ next.latencies = run.latencies
        /\ next.refusalTotal = run.refusalTotal /\ next.refusalCorrect = run.refusalCorrect
    BY <2>1 DEF Runs
  <2> HIDE DEF next
  <2>4. ASSUME NEW a \in Nat, RunInv(mode, a, 0, run) PROVE RunInv(mode, a + 1, 0, next)
    BY <1>1, <2>3, <2>4 DEF RunInv
  <2>5. QED BY <2>2, <2>4 DEF next
<1>3. CASE q.relevant # {}
  <2> DEFINE retrieved == Retrieve(corpus, q, mode).chunks
             score == QuestionResult(retrieved, q.relevant)
             more == IF Refused(corpus, q, mode) THEN 1 ELSE 0
  <2>1. retrieved \in Seq(Int) /\ Len(retrieved) <= TopK
    BY <1>0, RetrieveIsShort
  <2>2. score \in Scores
    <3> HIDE DEF retrieved
    <3>1. QED BY <1>0, <1>3, <2>1, MetricsOfQuestion
  <2>3. more \in {0, 1} /\ (mode = "sparse" => more = 1) /\ q.ms \in Nat
    BY <1>0, RefusedWithoutDense DEF Answered
  <2>4. next = [run EXCEPT !.latencies = Append(@, q.ms), !.falseRefusals = @ + more,
                           !.scored = Append(@, score)]
    BY <1>3 DEF ScoreAnswerable, Scored
  <2> HIDE DEF score, more, next
  <2>5. /\ next.scored = Append(run.scored, score) /\ next.skipped = run.skipped
        /\ next.falseRefusals = run.falseRefusals + more
        /\ next.latencies = Append(run.latencies, q.ms)
        /\ next.refusalTotal = run.refusalTotal /\ next.refusalCorrect = run.refusalCorrect
    BY <2>4 DEF Runs
  <2>6. /\ Append(run.scored, score) \in Seq(Scores)
        /\ Len(Append(run.scored, score)) = Len(run.scored) + 1
    BY <1>1, <2>2
  <2>7. /\ Append(run.latencies, q.ms) \in Seq(Nat)
        /\ Len(Append(run.latencies, q.ms)) = Len(run.latencies) + 1
    BY <1>1, <2>3
  <2>8. run.falseRefusals + more \in Nat
    BY <1>1, <2>3
  <2>9. next \in Runs
    BY <1>1, <2>4, <2>6, <2>7, <2>8 DEF Runs
  <2>10. ASSUME NEW a \in Nat, RunInv(mode, a, 0, run) PROVE RunInv(mode, a + 1, 0, next)
    <3>1. Len(next.scored) = Len(run.scored) + 1 /\ Len(next.latencies) = Len(run.latencies) + 1
      BY <2>5, <2>6, <2>7
    <3>2. /\ Len(run.scored) + run.skipped = a
          /\ Len(run.latencies) = Len(run.scored) + run.refusalTotal
          /\ run.falseRefusals <= Len(run.scored)
          /\ run.refusalCorrect <= run.refusalTotal
          /\ run.refusalTotal = (IF mode = "sparse" THEN 0 ELSE 0)
          /\ mode = "sparse" => run.falseRefusals = Len(run.scored)
      BY <2>10 DEF RunInv
    <3>3. /\ Len(next.scored) + next.skipped = a + 1
          /\ Len(next.latencies) = Len(next.scored) + next.refusalTotal
      <4>1. next.skipped = run.skipped /\ next.refusalTotal = run.refusalTotal
        BY <2>5
      <4>2. Len(run.scored) + run.skipped = a /\ Len(run.latencies) = Len(run.scored) + run.refusalTotal
        BY <3>2
      <4>3. Len(run.scored) \in Nat /\ run.refusalTotal \in Nat /\ run.skipped \in Nat
        BY <1>1
      <4>4. Len(next.scored) + next.skipped = a + 1
        BY <3>1, <4>1, <4>2, <4>3
      <4>5. Len(next.latencies) = Len(next.scored) + next.refusalTotal
        BY <3>1, <4>1, <4>2, <4>3
      <4>6. QED BY <4>4, <4>5
    <3>4. next.falseRefusals <= Len(next.scored)
      BY <1>1, <2>3, <2>5, <3>1, <3>2
    <3>5. mode = "sparse" => next.falseRefusals = Len(next.scored)
      BY <1>1, <2>3, <2>5, <3>1, <3>2
    <3>6. /\ next.refusalCorrect <= next.refusalTotal
          /\ next.refusalTotal = (IF mode = "sparse" THEN 0 ELSE 0)
      BY <2>5, <3>2
    <3>7. QED BY <3>3, <3>4, <3>5, <3>6 DEF RunInv
  <2>11. QED BY <2>9, <2>10 DEF next
<1>4. QED BY <1>2, <1>3

LEMMA UnanswerableStep ==
    ASSUME NEW corpus, NEW mode, NEW q, Answered(q), NEW run \in Runs
    PROVE  /\ ScoreUnanswerable(corpus, q, mode, run) \in Runs
           /\ \A a, u \in Nat : RunInv(mode, a, u, run) =>
                 RunInv(mode, a, u + 1, ScoreUnanswerable(corpus, q, mode, run))
<1> DEFINE next == ScoreUnanswerable(corpus, q, mode, run)
<1>1. /\ run.scored \in Seq(Scores) /\ run.skipped \in Nat /\ run.falseRefusals \in Nat
      /\ run.latencies \in Seq(Nat) /\ run.refusalTotal \in Nat /\ run.refusalCorrect \in Nat
      /\ Len(run.scored) \in Nat /\ Len(run.latencies) \in Nat
  BY DEF Runs
<1>2. CASE mode = "sparse"
  <2>1. next = run
    BY <1>2 DEF ScoreUnanswerable
  <2>2. QED BY <1>2, <2>1 DEF RunInv
<1>3. CASE mode # "sparse"
  <2> DEFINE more == IF Refused(corpus, q, mode) THEN 1 ELSE 0
  <2>1. next = [run EXCEPT !.latencies = Append(@, q.ms), !.refusalTotal = @ + 1,
                           !.refusalCorrect = @ + more]
    BY <1>3 DEF ScoreUnanswerable
  <2>2. more \in {0, 1} /\ q.ms \in Nat
    BY DEF Answered
  <2> HIDE DEF more, next
  <2>3. /\ next.scored = run.scored /\ next.skipped = run.skipped
        /\ next.falseRefusals = run.falseRefusals
        /\ next.latencies = Append(run.latencies, q.ms)
        /\ next.refusalTotal = run.refusalTotal + 1
        /\ next.refusalCorrect = run.refusalCorrect + more
    BY <2>1 DEF Runs
  <2>4. /\ Append(run.latencies, q.ms) \in Seq(Nat)
        /\ Len(Append(run.latencies, q.ms)) = Len(run.latencies) + 1
    BY <1>1, <2>2
  <2>5. run.refusalTotal + 1 \in Nat /\ run.refusalCorrect + more \in Nat
    BY <1>1, <2>2
  <2>6. next \in Runs
    BY <1>1, <2>1, <2>4, <2>5 DEF Runs
  <2>7. ASSUME NEW a \in Nat, NEW u \in Nat, RunInv(mode, a, u, run)
        PROVE  RunInv(mode, a, u + 1, next)
    <3>1. /\ Len(run.scored) + run.skipped = a
          /\ Len(run.latencies) = Len(run.scored) + run.refusalTotal
          /\ run.falseRefusals <= Len(run.scored)
          /\ run.refusalCorrect <= run.refusalTotal
          /\ run.refusalTotal = u
      BY <1>3, <2>7 DEF RunInv
    <3>2. /\ Len(next.scored) + next.skipped = a
          /\ next.falseRefusals <= Len(next.scored)
      BY <2>3, <3>1
    <3>3. Len(next.latencies) = Len(next.scored) + next.refusalTotal
      <4>1. Len(next.latencies) = Len(run.latencies) + 1 /\ Len(next.scored) = Len(run.scored)
        BY <2>3, <2>4
      <4>2. next.refusalTotal = run.refusalTotal + 1
        BY <2>3
      <4>3. Len(run.latencies) = Len(run.scored) + run.refusalTotal
        BY <3>1
      <4>4. Len(run.scored) \in Nat /\ run.refusalTotal \in Nat
        BY <1>1
      <4>5. \A x, y \in Nat : (x + y) + 1 = x + (y + 1)
        OBVIOUS
      <4>6. Len(next.latencies) = (Len(run.scored) + run.refusalTotal) + 1
        BY <4>1, <4>3
      <4>7. Len(next.scored) + next.refusalTotal = Len(run.scored) + (run.refusalTotal + 1)
        BY <4>1, <4>2
      <4>8. QED BY <4>4, <4>5, <4>6, <4>7
    <3>4. next.refusalCorrect <= next.refusalTotal /\ next.refusalTotal = u + 1
      BY <1>1, <2>2, <2>3, <3>1
    <3>5. QED BY <1>3, <3>2, <3>3, <3>4 DEF RunInv
  <2>8. QED BY <2>6, <2>7 DEF next
<1>4. QED BY <1>2, <1>3

\* The run after all the questions of a kind, from a run.
AfterAnswerable(corpus, mode, start, questions) ==
    FoldLeft(LAMBDA run, q : ScoreAnswerable(corpus, q, mode, run), start, questions)
AfterUnanswerable(corpus, mode, start, questions) ==
    FoldLeft(LAMBDA run, q : ScoreUnanswerable(corpus, q, mode, run), start, questions)

\* The runs a sitting goes through, one question at a time.
AnswerablePath(corpus, mode, start, questions, g) ==
    /\ g[0] = start
    /\ \A k \in 1 .. Len(questions) : g[k] = ScoreAnswerable(corpus, questions[k], mode, g[k - 1])
    /\ g[Len(questions)] = AfterAnswerable(corpus, mode, start, questions)
UnanswerablePath(corpus, mode, start, questions, g) ==
    /\ g[0] = start
    /\ \A k \in 1 .. Len(questions) : g[k] = ScoreUnanswerable(corpus, questions[k], mode, g[k - 1])
    /\ g[Len(questions)] = AfterUnanswerable(corpus, mode, start, questions)

LEMMA AnswerableSteps ==
    ASSUME NEW W, NEW questions \in Seq(W), NEW corpus, NEW mode, NEW start \in Runs,
           \A q \in W : Scorable(q)
    PROVE  \E g : AnswerablePath(corpus, mode, start, questions, g)
<1> DEFINE n == Len(questions)
           Body(F) == [s \in SUBSET (DOMAIN questions) |->
                         IF s = {} THEN start
                         ELSE ScoreAnswerable(corpus, questions[Max(s)], mode, F[s \ {Max(s)}])]
           it == CHOOSE F : F = Body(F)
<1>1. \E F : F = Body(F)
  <2> DEFINE G == [p \in Runs \X (1 .. n) |-> ScoreAnswerable(corpus, questions[p[2]], mode, p[1])]
  <2>1. G \in [Runs \X (1 .. n) -> Runs]
    <3>1. ASSUME NEW p \in Runs \X (1 .. n) PROVE ScoreAnswerable(corpus, questions[p[2]], mode, p[1]) \in Runs
      <4>1. p[1] \in Runs /\ questions[p[2]] \in W
        OBVIOUS
      <4>2. QED BY <4>1, AnswerableStep
    <3>2. QED BY <3>1
  <2>2. PICK F : IsFold(F, Runs, n, start, G)
    <3>1. n \in Nat /\ start \in Runs
      OBVIOUS
    <3> HIDE DEF G, n
    <3>2. QED BY <2>1, <3>1, FoldExists
  <2>3. ASSUME NEW s \in SUBSET (1 .. n), s # {}
        PROVE  G[<<F[s \ {Max(s)}], Max(s)>>] = ScoreAnswerable(corpus, questions[Max(s)], mode, F[s \ {Max(s)}])
    <3>1. Max(s) \in s
      <4>1. n \in Nat
        OBVIOUS
      <4> HIDE DEF n
      <4>2. QED BY <2>3, <4>1, MaxIn
    <3>2. F[s \ {Max(s)}] \in Runs
      BY <2>2 DEF IsFold
    <3>3. QED BY <3>1, <3>2
  <2>4. F = Body(F)
    <3>1. DOMAIN questions = 1 .. n
      OBVIOUS
    <3> HIDE DEF G, n
    <3>2. \A s \in SUBSET (1 .. n) : F[s] = Body(F)[s]
      BY <2>2, <2>3, <3>1 DEF IsFold
    <3>3. F = [s \in SUBSET (1 .. n) |-> F[s]]
      BY <2>2 DEF IsFold
    <3>4. F = [s \in SUBSET (DOMAIN questions) |-> Body(F)[s]]
      BY <3>1, <3>2, <3>3
    <3>5. QED BY <3>4
  <2>5. QED BY <2>4
<1>2. it = Body(it)
  BY <1>1
<1>3. AfterAnswerable(corpus, mode, start, questions) = it[DOMAIN questions]
  BY DEF FoldLeft, MapThenFoldSet, AfterAnswerable
<1> DEFINE g == [k \in 0 .. n |-> it[1 .. k]]
<1>4. ASSUME NEW k \in 1 .. n
      PROVE  g[k] = ScoreAnswerable(corpus, questions[k], mode, g[k - 1])
  <2>1. 1 .. k \in SUBSET (DOMAIN questions) /\ 1 .. k # {}
    <3>1. DOMAIN questions = 1 .. n /\ n \in Nat
      OBVIOUS
    <3>2. k \in Int /\ 1 <= k /\ k <= n
      OBVIOUS
    <3> HIDE DEF n
    <3>3. \A x \in 1 .. k : x \in 1 .. n
      BY <3>1, <3>2
    <3>4. 1 \in 1 .. k
      BY <3>2
    <3>5. QED BY <3>1, <3>3, <3>4
  <2>2. Max(1 .. k) = k
    BY MaxUpTo
  <2>3. (1 .. k) \ {k} = 1 .. k - 1 /\ k - 1 \in 0 .. n /\ k \in 0 .. n
    OBVIOUS
  <2> HIDE DEF it
  <2>4. it[1 .. k] = ScoreAnswerable(corpus, questions[k], mode, it[(1 .. k) \ {k}])
    BY <1>2, <2>1, <2>2
  <2>5. QED BY <2>3, <2>4
<1>5. g[0] = start
  <2>1. {} \in SUBSET (DOMAIN questions) /\ 1 .. 0 = {}
    OBVIOUS
  <2> HIDE DEF it
  <2>2. it[{}] = start
    BY <1>2, <2>1
  <2>3. QED BY <2>1, <2>2
<1>6. g[n] = AfterAnswerable(corpus, mode, start, questions)
  <2> HIDE DEF it
  <2>1. g[n] = it[1 .. n] /\ DOMAIN questions = 1 .. n
    OBVIOUS
  <2>2. QED BY <1>3, <2>1
<1> HIDE DEF it, g
<1>7. AnswerablePath(corpus, mode, start, questions, g)
  BY <1>4, <1>5, <1>6 DEF AnswerablePath
<1>8. QED BY <1>7

LEMMA UnanswerableSteps ==
    ASSUME NEW W, NEW questions \in Seq(W), NEW corpus, NEW mode, NEW start \in Runs,
           \A q \in W : Answered(q)
    PROVE  \E g : UnanswerablePath(corpus, mode, start, questions, g)
<1> DEFINE n == Len(questions)
           Body(F) == [s \in SUBSET (DOMAIN questions) |->
                         IF s = {} THEN start
                         ELSE ScoreUnanswerable(corpus, questions[Max(s)], mode, F[s \ {Max(s)}])]
           it == CHOOSE F : F = Body(F)
<1>1. \E F : F = Body(F)
  <2> DEFINE G == [p \in Runs \X (1 .. n) |-> ScoreUnanswerable(corpus, questions[p[2]], mode, p[1])]
  <2>1. G \in [Runs \X (1 .. n) -> Runs]
    <3>1. ASSUME NEW p \in Runs \X (1 .. n) PROVE ScoreUnanswerable(corpus, questions[p[2]], mode, p[1]) \in Runs
      <4>1. p[1] \in Runs /\ questions[p[2]] \in W
        OBVIOUS
      <4>2. QED BY <4>1, UnanswerableStep
    <3>2. QED BY <3>1
  <2>2. PICK F : IsFold(F, Runs, n, start, G)
    <3>1. n \in Nat /\ start \in Runs
      OBVIOUS
    <3> HIDE DEF G, n
    <3>2. QED BY <2>1, <3>1, FoldExists
  <2>3. ASSUME NEW s \in SUBSET (1 .. n), s # {}
        PROVE  G[<<F[s \ {Max(s)}], Max(s)>>] = ScoreUnanswerable(corpus, questions[Max(s)], mode, F[s \ {Max(s)}])
    <3>1. Max(s) \in s
      <4>1. n \in Nat
        OBVIOUS
      <4> HIDE DEF n
      <4>2. QED BY <2>3, <4>1, MaxIn
    <3>2. F[s \ {Max(s)}] \in Runs
      BY <2>2 DEF IsFold
    <3>3. QED BY <3>1, <3>2
  <2>4. F = Body(F)
    <3>1. DOMAIN questions = 1 .. n
      OBVIOUS
    <3> HIDE DEF G, n
    <3>2. \A s \in SUBSET (1 .. n) : F[s] = Body(F)[s]
      BY <2>2, <2>3, <3>1 DEF IsFold
    <3>3. F = [s \in SUBSET (1 .. n) |-> F[s]]
      BY <2>2 DEF IsFold
    <3>4. F = [s \in SUBSET (DOMAIN questions) |-> Body(F)[s]]
      BY <3>1, <3>2, <3>3
    <3>5. QED BY <3>4
  <2>5. QED BY <2>4
<1>2. it = Body(it)
  BY <1>1
<1>3. AfterUnanswerable(corpus, mode, start, questions) = it[DOMAIN questions]
  BY DEF FoldLeft, MapThenFoldSet, AfterUnanswerable
<1> DEFINE g == [k \in 0 .. n |-> it[1 .. k]]
<1>4. ASSUME NEW k \in 1 .. n
      PROVE  g[k] = ScoreUnanswerable(corpus, questions[k], mode, g[k - 1])
  <2>1. 1 .. k \in SUBSET (DOMAIN questions) /\ 1 .. k # {}
    <3>1. DOMAIN questions = 1 .. n /\ n \in Nat
      OBVIOUS
    <3>2. k \in Int /\ 1 <= k /\ k <= n
      OBVIOUS
    <3> HIDE DEF n
    <3>3. \A x \in 1 .. k : x \in 1 .. n
      BY <3>1, <3>2
    <3>4. 1 \in 1 .. k
      BY <3>2
    <3>5. QED BY <3>1, <3>3, <3>4
  <2>2. Max(1 .. k) = k
    BY MaxUpTo
  <2>3. (1 .. k) \ {k} = 1 .. k - 1 /\ k - 1 \in 0 .. n /\ k \in 0 .. n
    OBVIOUS
  <2> HIDE DEF it
  <2>4. it[1 .. k] = ScoreUnanswerable(corpus, questions[k], mode, it[(1 .. k) \ {k}])
    BY <1>2, <2>1, <2>2
  <2>5. QED BY <2>3, <2>4
<1>5. g[0] = start
  <2>1. {} \in SUBSET (DOMAIN questions) /\ 1 .. 0 = {}
    OBVIOUS
  <2> HIDE DEF it
  <2>2. it[{}] = start
    BY <1>2, <2>1
  <2>3. QED BY <2>1, <2>2
<1>6. g[n] = AfterUnanswerable(corpus, mode, start, questions)
  <2> HIDE DEF it
  <2>1. g[n] = it[1 .. n] /\ DOMAIN questions = 1 .. n
    OBVIOUS
  <2>2. QED BY <1>3, <2>1
<1> HIDE DEF it, g
<1>7. UnanswerablePath(corpus, mode, start, questions, g)
  BY <1>4, <1>5, <1>6 DEF UnanswerablePath
<1>8. QED BY <1>7

LEMMA RunAccounts ==
    ASSUME NEW corpus, NEW mode, NEW golden, NEW A, NEW U,
           golden.answerable \in Seq(A), golden.unanswerable \in Seq(U),
           \A q \in A : Scorable(q), \A q \in U : Answered(q)
    PROVE  /\ RunGolden(corpus, golden, mode) \in Runs
           /\ RunInv(mode, Len(golden.answerable), Len(golden.unanswerable),
                     RunGolden(corpus, golden, mode))
<1> DEFINE empty == [scored |-> <<>>, skipped |-> 0, falseRefusals |-> 0, latencies |-> <<>>,
                     refusalTotal |-> 0, refusalCorrect |-> 0]
           as == golden.answerable
           us == golden.unanswerable
           half == AfterAnswerable(corpus, mode, empty, as)
           whole == AfterUnanswerable(corpus, mode, half, us)
<1>1. empty \in Runs
  BY DEF Runs
<1>2. RunInv(mode, 0, 0, empty)
  BY DEF RunInv
<1>3. /\ as \in Seq(A) /\ Len(as) \in Nat /\ \A k \in 1 .. Len(as) : as[k] \in A
      /\ us \in Seq(U) /\ Len(us) \in Nat /\ \A k \in 1 .. Len(us) : us[k] \in U
  OBVIOUS
<1> HIDE DEF empty
<1>4. half \in Runs /\ RunInv(mode, Len(as), 0, half)
  <2> DEFINE n == Len(as)
  <2>1. \A q \in A : Scorable(q)
    OBVIOUS
  <2>2. PICK g : /\ g[0] = empty
                 /\ \A k \in 1 .. n : g[k] = ScoreAnswerable(corpus, as[k], mode, g[k - 1])
                 /\ g[n] = half
    <3>1. \E g : AnswerablePath(corpus, mode, empty, as, g)
      <4>1. as \in Seq(A) /\ empty \in Runs
        BY <1>1, <1>3
      <4> HIDE DEF as
      <4>2. QED BY <2>1, <4>1, AnswerableSteps
    <3>2. QED BY <3>1 DEF AnswerablePath
  <2> DEFINE Good == {k \in 0 .. n : g[k] \in Runs /\ RunInv(mode, k, 0, g[k])}
  <2> HIDE DEF half, as, n
  <2>3. n \in Nat /\ \A k \in 1 .. n : as[k] \in A
    BY <1>3 DEF n
  <2>4. 0 \in Good
    <3>1. 0 \in 0 .. n
      BY <2>3
    <3>2. QED BY <1>1, <1>2, <2>2, <3>1
  <2>5. ASSUME NEW k \in 0 .. n - 1, k \in Good PROVE k + 1 \in Good
    <3>1. k + 1 \in 1 .. n /\ k + 1 \in 0 .. n /\ (k + 1) - 1 = k /\ k \in Nat
      BY <2>3
    <3>2. g[k] \in Runs /\ RunInv(mode, k, 0, g[k])
      BY <2>5
    <3>3. g[k + 1] = ScoreAnswerable(corpus, as[k + 1], mode, g[k])
      BY <2>2, <3>1
    <3>4. Scorable(as[k + 1])
      BY <2>3, <3>1
    <3>5. g[k + 1] \in Runs /\ RunInv(mode, k + 1, 0, g[k + 1])
      BY <3>1, <3>2, <3>3, <3>4, AnswerableStep
    <3>6. QED BY <3>1, <3>5
  <2>6. 0 .. n \subseteq Good
    <3> HIDE DEF Good
    <3>1. QED BY <2>3, <2>4, <2>5, UpTo
  <2>7. n \in 0 .. n
    BY <2>3
  <2>8. QED BY <2>2, <2>6, <2>7 DEF n
<1> HIDE DEF half
<1>5. whole \in Runs /\ RunInv(mode, Len(as), Len(us), whole)
  <2> DEFINE n == Len(us)
             a == Len(as)
  <2>1. \A q \in U : Answered(q)
    OBVIOUS
  <2>2. PICK g : /\ g[0] = half
                 /\ \A k \in 1 .. n : g[k] = ScoreUnanswerable(corpus, us[k], mode, g[k - 1])
                 /\ g[n] = whole
    <3>1. \E g : UnanswerablePath(corpus, mode, half, us, g)
      <4>1. us \in Seq(U) /\ half \in Runs
        BY <1>3, <1>4
      <4> HIDE DEF us
      <4>2. QED BY <2>1, <4>1, UnanswerableSteps
    <3>2. QED BY <3>1 DEF UnanswerablePath
  <2> DEFINE Good == {k \in 0 .. n : g[k] \in Runs /\ RunInv(mode, a, k, g[k])}
  <2> HIDE DEF whole, us, n, as
  <2>3. n \in Nat /\ a \in Nat /\ \A k \in 1 .. n : us[k] \in U
    BY <1>3 DEF n
  <2>4. 0 \in Good
    <3>1. 0 \in 0 .. n
      BY <2>3
    <3>2. QED BY <1>4, <2>2, <3>1
  <2> HIDE DEF a
  <2>5. ASSUME NEW k \in 0 .. n - 1, k \in Good PROVE k + 1 \in Good
    <3>1. k + 1 \in 1 .. n /\ k + 1 \in 0 .. n /\ (k + 1) - 1 = k /\ k \in Nat
      BY <2>3
    <3>2. g[k] \in Runs /\ RunInv(mode, a, k, g[k])
      BY <2>5
    <3>3. g[k + 1] = ScoreUnanswerable(corpus, us[k + 1], mode, g[k])
      BY <2>2, <3>1
    <3>4. Answered(us[k + 1])
      BY <2>3, <3>1
    <3>5. g[k + 1] \in Runs /\ RunInv(mode, a, k + 1, g[k + 1])
      BY <2>3, <3>1, <3>2, <3>3, <3>4, UnanswerableStep
    <3>6. QED BY <3>1, <3>5
  <2>6. 0 .. n \subseteq Good
    <3> HIDE DEF Good
    <3>1. QED BY <2>3, <2>4, <2>5, UpTo
  <2>7. n \in 0 .. n
    BY <2>3
  <2>8. QED BY <2>2, <2>6, <2>7 DEF n, a
<1>6. RunGolden(corpus, golden, mode) = whole
  BY DEF RunGolden, half, empty, AfterAnswerable, AfterUnanswerable
<1> HIDE DEF whole
<1>7. QED BY <1>5, <1>6

LEMMA ReportAlwaysAgrees ==
    ASSUME NEW corpus, NEW mode, NEW golden, NEW A, NEW U,
           golden.answerable \in Seq(A), golden.unanswerable \in Seq(U),
           \A q \in A : Scorable(q), \A q \in U : Answered(q)
    PROVE  ReportAgrees(golden, mode, RunGolden(corpus, golden, mode))
<1> DEFINE run == RunGolden(corpus, golden, mode)
           n == Len(run.scored)
           a == Len(golden.answerable)
           u == Len(golden.unanswerable)
<1>1. run \in Runs /\ RunInv(mode, a, u, run)
  BY RunAccounts
<1>2. a \in Nat /\ u \in Nat /\ (u = 0 <=> golden.unanswerable = <<>>)
  OBVIOUS
<1> HIDE DEF run, a, u
<1>3. /\ run.scored \in Seq(Scores) /\ run.skipped \in Nat /\ run.falseRefusals \in Nat
      /\ run.latencies \in Seq(Nat) /\ run.refusalTotal \in Nat /\ run.refusalCorrect \in Nat
  BY <1>1 DEF Runs
<1>4. n \in Nat /\ DOMAIN run.scored = 1 .. n /\ (n = 0 <=> run.scored = <<>>)
  BY <1>3
<1>5. \A i \in 1 .. n : ScoreAgrees(run.scored[i])
  <2>1. \A i \in 1 .. n : run.scored[i] \in Scores
    BY <1>3
  <2>2. QED BY <2>1 DEF Scores
<1>6. P50(run.latencies) <= P95(run.latencies)
  BY <1>3, PercentilesOrdered
<1>7. /\ n + run.skipped = a /\ Len(run.latencies) = n + run.refusalTotal
      /\ run.falseRefusals <= n /\ run.refusalCorrect <= run.refusalTotal
      /\ run.refusalTotal = (IF mode = "sparse" THEN 0 ELSE u)
      /\ mode = "sparse" => run.falseRefusals = n
  BY <1>1 DEF RunInv
<1> DEFINE S == {i \in DOMAIN run.scored : run.scored[i].hit}
<1>8. Hits(run) = Cardinality(S) /\ S \subseteq 1 .. n /\ Hits(run) \in Nat /\ Hits(run) <= n
  <2>1. S \subseteq 1 .. n /\ Hits(run) = Cardinality(S)
    BY <1>4 DEF Hits
  <2> HIDE DEF S, n
  <2>2. IsFiniteSet(1 .. n) /\ Cardinality(1 .. n) = n
    BY <1>4, FS_Interval
  <2>3. IsFiniteSet(S) /\ Cardinality(S) <= Cardinality(1 .. n)
    BY <2>1, <2>2, FS_Subset
  <2>4. Cardinality(S) \in Nat
    BY <2>3, FS_CardinalityType
  <2>5. QED BY <2>1, <2>2, <2>3, <2>4
<1> HIDE DEF n, S
<1>9. \A x, y \in Nat : x <= y => AtMost(<<x, y>>, <<1, 1>>)
  BY DEF AtMost
<1>10. AtMost(<<0, 1>>, <<1, 1>>)
  BY DEF AtMost
<1>11. AtMost(HitRate(run), <<1, 1>>)
  BY <1>4, <1>8, <1>9, <1>10 DEF HitRate, n
<1>12. AtMost(RefusalAccuracy(run), <<1, 1>>)
  BY <1>3, <1>7, <1>9, <1>10 DEF RefusalAccuracy
<1>13. AtMost(FalseRefusalRate(run), <<1, 1>>)
  BY <1>3, <1>4, <1>7, <1>9, <1>10 DEF FalseRefusalRate, n
<1>14. ASSUME \A i \in DOMAIN run.scored : ~Positive(run.scored[i].mrr)
       PROVE  ~Positive(HitRate(run))
  <2>1. \A i \in 1 .. n : ~run.scored[i].hit
    BY <1>4, <1>5, <1>14 DEF ScoreAgrees
  <2>2. S = {}
    BY <1>4, <2>1 DEF S
  <2>3. Hits(run) = 0
    BY <1>8, <2>2, FS_EmptySet
  <2>4. HitRate(run)[1] = 0
    BY <2>3 DEF HitRate
  <2>5. QED BY <2>4 DEF Positive
<1>15. \A rate : Reported(run, rate) = {} <=> run.refusalTotal = 0
  BY DEF Reported
<1>16. run.refusalTotal = 0 <=> mode = "sparse" \/ golden.unanswerable = <<>>
  BY <1>2, <1>7
<1>17. QED
  BY <1>4, <1>5, <1>6, <1>7, <1>11, <1>12, <1>13, <1>14, <1>15, <1>16 DEF ReportAgrees, n, a, run

-----------------------------------------------------------------------------
(* The chunks of a file. *)

\* A sum of lengths, of which an empty paragraph has -1.
LEMMA TotalFacts ==
    ASSUME NEW f \in Seq(Int)
    PROVE  /\ Total(f) \in Int
           /\ (\A i \in 1 .. Len(f) : f[i] >= -1) => Total(f) >= 0 - Len(f)
           /\ Len(f) = 0 => Total(f) = 0
           /\ Len(f) = 1 => Total(f) = f[1]
<1> DEFINE n == Len(f)
<1>1. n \in Nat /\ \A i \in 1 .. n : f[i] \in Int
  OBVIOUS
<1>2. PICK h : h[0] = 0 /\ (\A k \in 1 .. n : h[k] = h[k - 1] + f[k]) /\ h[n] = Total(f)
  BY SumSteps DEF Total
<1> HIDE DEF n
<1> DEFINE Good == {k \in 0 .. n : h[k] \in Int /\ ((\A i \in 1 .. n : f[i] >= -1) => h[k] >= 0 - k)}
<1>3. 0 \in Good
  <2>1. 0 \in 0 .. n
    BY <1>1
  <2>2. QED BY <1>2, <2>1
<1>4. ASSUME NEW k \in 0 .. n - 1, k \in Good PROVE k + 1 \in Good
  <2>1. k + 1 \in 1 .. n /\ (k + 1) - 1 = k /\ k + 1 \in 0 .. n /\ k \in Nat
    BY <1>1
  <2>2. f[k + 1] \in Int /\ h[k] \in Int /\ h[k + 1] = h[k] + f[k + 1]
    BY <1>1, <1>2, <1>4, <2>1
  <2>3. h[k + 1] \in Int
    BY <2>2
  <2>4. ASSUME \A i \in 1 .. n : f[i] >= -1 PROVE h[k + 1] >= 0 - (k + 1)
    <3>1. h[k] >= 0 - k /\ f[k + 1] >= -1
      BY <1>4, <2>1, <2>4
    <3>2. QED BY <2>1, <2>2, <3>1
  <2>5. QED BY <2>1, <2>3, <2>4
<1>5. 0 .. n \subseteq Good
  <2> HIDE DEF Good
  <2>1. QED BY <1>1, <1>3, <1>4, UpTo
<1>6. n \in 0 .. n
  BY <1>1
<1>7. h[n] \in Int /\ ((\A i \in 1 .. n : f[i] >= -1) => h[n] >= 0 - n)
  BY <1>5, <1>6
<1>8. n = 1 => h[1] = f[1]
  <2>1. SUFFICES ASSUME n = 1 PROVE h[1] = f[1]
    OBVIOUS
  <2>2. h[1] = h[0] + f[1] /\ f[1] \in Int
    BY <1>1, <1>2, <2>1
  <2>3. QED BY <1>2, <2>2
<1>9. QED BY <1>2, <1>7, <1>8 DEF n

LEMMA TotalSplits ==
    ASSUME NEW f \in Seq(Int), NEW g \in Seq(Int)
    PROVE  Total(f \o g) = Total(f) + Total(g)
<1> DEFINE m == Len(f)
           n == Len(g)
           w == f \o g
<1>1. m \in Nat /\ n \in Nat /\ \A i \in 1 .. m : f[i] \in Int
  OBVIOUS
<1>2. \A i \in 1 .. n : g[i] \in Int
  OBVIOUS
<1>3. /\ w \in Seq(Int) /\ Len(w) = m + n
      /\ \A i \in 1 .. m + n : w[i] = IF i <= m THEN f[i] ELSE g[i - m]
  BY CatFacts
<1>4. PICK a : a[0] = 0 /\ (\A k \in 1 .. m : a[k] = a[k - 1] + f[k]) /\ a[m] = Total(f)
  BY SumSteps DEF Total
<1>5. PICK b : b[0] = 0 /\ (\A k \in 1 .. n : b[k] = b[k - 1] + g[k]) /\ b[n] = Total(g)
  BY SumSteps DEF Total
<1> HIDE DEF w
<1>6. \E c : c[0] = 0 /\ (\A k \in 1 .. Len(w) : c[k] = c[k - 1] + w[k]) /\ c[Len(w)] = Total(w)
  BY <1>3, SumSteps DEF Total
<1> HIDE DEF m, n
<1>7. PICK c : c[0] = 0 /\ (\A k \in 1 .. m + n : c[k] = c[k - 1] + w[k]) /\ c[m + n] = Total(w)
  BY <1>3, <1>6
<1> DEFINE First == {k \in 0 .. m : c[k] = a[k] /\ a[k] \in Int}
           Then == {k \in 0 .. n : c[m + k] = a[m] + b[k] /\ b[k] \in Int}
<1>8. 0 .. m \subseteq First
  <2>1. 0 \in First
    <3>1. 0 \in 0 .. m
      BY <1>1
    <3>2. QED BY <1>4, <1>7, <3>1
  <2>2. ASSUME NEW k \in 0 .. m - 1, k \in First PROVE k + 1 \in First
    <3>1. k + 1 \in 1 .. m /\ (k + 1) - 1 = k /\ k + 1 \in 0 .. m /\ k + 1 \in 1 .. m + n /\ k + 1 <= m
      BY <1>1
    <3>2. c[k + 1] = c[k] + w[k + 1] /\ a[k + 1] = a[k] + f[k + 1] /\ w[k + 1] = f[k + 1]
      BY <1>3, <1>4, <1>7, <3>1
    <3>3. f[k + 1] \in Int /\ a[k] \in Int /\ c[k] = a[k]
      BY <1>1, <2>2, <3>1
    <3>4. QED BY <3>1, <3>2, <3>3
  <2> HIDE DEF First
  <2>3. QED BY <1>1, <2>1, <2>2, UpTo
<1>9. m \in 0 .. m /\ n \in 0 .. n
  BY <1>1
<1>10. c[m] = a[m] /\ a[m] \in Int
  BY <1>8, <1>9
<1>11. 0 .. n \subseteq Then
  <2>1. 0 \in Then
    <3>1. 0 \in 0 .. n /\ m + 0 = m
      BY <1>1
    <3>2. a[m] = a[m] + 0
      BY <1>10
    <3>3. QED BY <1>5, <1>10, <3>1, <3>2
  <2>2. ASSUME NEW k \in 0 .. n - 1, k \in Then PROVE k + 1 \in Then
    <3>1. /\ k + 1 \in 1 .. n /\ (k + 1) - 1 = k /\ k + 1 \in 0 .. n
          /\ m + (k + 1) \in 1 .. m + n /\ (m + (k + 1)) - 1 = m + k
          /\ ~(m + (k + 1) <= m) /\ (m + (k + 1)) - m = k + 1
      BY <1>1
    <3>2. c[m + (k + 1)] = c[m + k] + w[m + (k + 1)] /\ w[m + (k + 1)] = g[k + 1]
      BY <1>3, <1>7, <3>1
    <3>3. b[k + 1] = b[k] + g[k + 1] /\ g[k + 1] \in Int
      BY <1>2, <1>5, <3>1
    <3>4. c[m + k] = a[m] + b[k] /\ b[k] \in Int
      BY <2>2
    <3>5. c[m + (k + 1)] = a[m] + b[k + 1] /\ b[k + 1] \in Int
      BY <1>10, <3>2, <3>3, <3>4
    <3>6. QED BY <3>1, <3>5
  <2> HIDE DEF Then
  <2>3. QED BY <1>1, <2>1, <2>2, UpTo
<1>12. c[m + n] = a[m] + b[n]
  BY <1>9, <1>11
<1>13. QED BY <1>4, <1>5, <1>7, <1>12 DEF w

\* What windows are made of.
WindowPart == [at : Seq(Nat), len : {n \in Int : n >= -1}, tail : BOOLEAN]

LEMMA SameList ==
    ASSUME NEW W, NEW s \in Seq(W), NEW t \in Seq(W), Len(s) = Len(t),
           \A i \in 1 .. Len(s) : s[i] = t[i]
    PROVE  s = t
<1>1. s = [i \in 1 .. Len(s) |-> s[i]] /\ t = [i \in 1 .. Len(t) |-> t[i]]
  OBVIOUS
<1>2. QED BY <1>1

LEMMA LensOf ==
    ASSUME NEW w \in Seq(WindowPart)
    PROVE  LET lens == [i \in DOMAIN w |-> w[i].len]
           IN  /\ lens \in Seq(Int) /\ Len(lens) = Len(w)
               /\ \A i \in 1 .. Len(w) : lens[i] = w[i].len /\ lens[i] >= -1
<1> DEFINE f == [i \in DOMAIN w |-> w[i].len]
<1>1. \A i \in 1 .. Len(w) : w[i] \in WindowPart
  OBVIOUS
<1>2. \A i \in 1 .. Len(w) : w[i].len \in Int /\ w[i].len >= -1
  BY <1>1 DEF WindowPart
<1>3. QED BY <1>2

LEMMA WidthFacts ==
    ASSUME NEW w \in Seq(WindowPart)
    PROVE  /\ Width(w) \in Int
           /\ w # <<>> => Width(w) >= -1
           /\ w = <<>> => Width(w) = -2
           /\ Len(w) = 1 => Width(w) = w[1].len
<1> DEFINE f == [i \in DOMAIN w |-> w[i].len]
<1>1. f \in Seq(Int) /\ Len(f) = Len(w) /\ Len(w) \in Nat
      /\ \A i \in 1 .. Len(f) : f[i] = w[i].len /\ f[i] >= -1
  <2>1. /\ f \in Seq(Int) /\ Len(f) = Len(w)
        /\ \A i \in 1 .. Len(w) : f[i] = w[i].len /\ f[i] >= -1
    BY LensOf
  <2>2. Len(w) \in Nat
    OBVIOUS
  <2> HIDE DEF f
  <2>3. QED BY <2>1, <2>2
<1>2. Width(w) = Total(f) + 2 * (Len(w) - 1)
  BY DEF Width
<1>3. w # <<>> => Len(w) >= 1
  OBVIOUS
<1>4. w = <<>> => Len(w) = 0
  OBVIOUS
<1> HIDE DEF f
<1>5. /\ Total(f) \in Int /\ Total(f) >= 0 - Len(f)
      /\ Len(f) = 0 => Total(f) = 0
      /\ Len(f) = 1 => Total(f) = f[1]
  BY <1>1, TotalFacts
<1>6. Len(w) = 1 => f[1] = w[1].len
  BY <1>1
<1>7. QED BY <1>1, <1>2, <1>3, <1>4, <1>5, <1>6

LEMMA WidthSplits ==
    ASSUME NEW v \in Seq(WindowPart), NEW w \in Seq(WindowPart)
    PROVE  v \o w \in Seq(WindowPart) /\ Width(v \o w) = Width(v) + Width(w) + 2
<1> DEFINE Lens(u) == [i \in DOMAIN u |-> u[i].len]
<1>1. ASSUME NEW u \in Seq(WindowPart)
      PROVE  Lens(u) \in Seq(Int) /\ Len(Lens(u)) = Len(u) /\ Width(u) = Total(Lens(u)) + 2 * (Len(u) - 1)
             /\ \A i \in 1 .. Len(u) : Lens(u)[i] = u[i].len
  BY LensOf DEF Width
<1>2. /\ v \o w \in Seq(WindowPart) /\ Len(v \o w) = Len(v) + Len(w)
      /\ \A i \in 1 .. Len(v) + Len(w) : (v \o w)[i] = IF i <= Len(v) THEN v[i] ELSE w[i - Len(v)]
  BY CatFacts
<1>3. Len(v) \in Nat /\ Len(w) \in Nat
  OBVIOUS
<1> HIDE DEF Lens
<1>4. /\ Lens(v) \o Lens(w) \in Seq(Int) /\ Len(Lens(v) \o Lens(w)) = Len(v) + Len(w)
      /\ \A i \in 1 .. Len(v) + Len(w) :
            (Lens(v) \o Lens(w))[i] = IF i <= Len(v) THEN Lens(v)[i] ELSE Lens(w)[i - Len(v)]
  <2>1. Lens(v) \in Seq(Int) /\ Lens(w) \in Seq(Int) /\ Len(Lens(v)) = Len(v) /\ Len(Lens(w)) = Len(w)
    BY <1>1
  <2> DEFINE a == Lens(v)
             b == Lens(w)
  <2> HIDE DEF a, b
  <2>2. a \in Seq(Int) /\ b \in Seq(Int) /\ Len(a) = Len(v) /\ Len(b) = Len(w)
    BY <2>1 DEF a, b
  <2>3. /\ a \o b \in Seq(Int) /\ Len(a \o b) = Len(a) + Len(b)
        /\ \A i \in 1 .. Len(a) + Len(b) : (a \o b)[i] = IF i <= Len(a) THEN a[i] ELSE b[i - Len(a)]
    BY <2>2, CatFacts
  <2>4. QED BY <2>2, <2>3 DEF a, b
<1>5. Lens(v \o w) \in Seq(Int) /\ Len(Lens(v \o w)) = Len(v) + Len(w)
      /\ \A i \in 1 .. Len(v) + Len(w) : Lens(v \o w)[i] = (v \o w)[i].len
  BY <1>1, <1>2
<1>6. \A i \in 1 .. Len(v) + Len(w) : Lens(v \o w)[i] = (Lens(v) \o Lens(w))[i]
  <2>1. SUFFICES ASSUME NEW i \in 1 .. Len(v) + Len(w)
                 PROVE  Lens(v \o w)[i] = (Lens(v) \o Lens(w))[i]
    OBVIOUS
  <2>2. CASE i <= Len(v)
    <3>1. i \in 1 .. Len(v)
      BY <1>3, <2>2
    <3>2. Lens(v)[i] = v[i].len
      BY <1>1, <3>1
    <3>3. QED BY <1>2, <1>4, <1>5, <2>2, <3>2
  <2>3. CASE ~(i <= Len(v))
    <3>1. i - Len(v) \in 1 .. Len(w)
      BY <1>3, <2>3
    <3>2. Lens(w)[i - Len(v)] = w[i - Len(v)].len
      BY <1>1, <3>1
    <3>3. QED BY <1>2, <1>4, <1>5, <2>3, <3>2
  <2>4. QED BY <2>2, <2>3
<1>7. Lens(v \o w) = Lens(v) \o Lens(w)
  BY <1>4, <1>5, <1>6, SameList
<1>8. Total(Lens(v) \o Lens(w)) = Total(Lens(v)) + Total(Lens(w))
      /\ Total(Lens(v)) \in Int /\ Total(Lens(w)) \in Int
  BY <1>1, TotalSplits, TotalFacts
<1>9. Width(v \o w) = Total(Lens(v \o w)) + 2 * ((Len(v) + Len(w)) - 1)
  BY <1>1, <1>2
<1>10. Width(v) = Total(Lens(v)) + 2 * (Len(v) - 1) /\ Width(w) = Total(Lens(w)) + 2 * (Len(w) - 1)
  BY <1>1
<1>11. QED BY <1>2, <1>3, <1>7, <1>8, <1>9, <1>10

IsFlat(seqs, F, k) == F = [i \in 1 .. k |-> IF i = 1 THEN seqs[i] ELSE F[i - 1] \o seqs[i]]

LEMMA FlatRun ==
    ASSUME NEW A, NEW seqs \in Seq(Seq(A)), seqs # <<>>
    PROVE  \E F : /\ \A i \in 1 .. Len(seqs) : F[i] = IF i = 1 THEN seqs[i] ELSE F[i - 1] \o seqs[i]
                  /\ F[Len(seqs)] = FlattenSeq(seqs)
<1> DEFINE n == Len(seqs)
           Some(k) == \E F : IsFlat(seqs, F, k)
           Good == {k \in 0 .. n : Some(k)}
           it == CHOOSE F : F = [i \in 1 .. n |-> IF i = 1 THEN seqs[i] ELSE F[i - 1] \o seqs[i]]
<1>1. n \in Nat \ {0}
  OBVIOUS
<1> HIDE DEF n
<1>2. 0 \in Good
  <2> DEFINE F == [i \in 1 .. 0 |-> {}]
  <2>1. 1 .. 0 = {} /\ 0 \in 0 .. n
    BY <1>1
  <2>2. F = [i \in 1 .. 0 |-> IF i = 1 THEN seqs[i] ELSE F[i - 1] \o seqs[i]]
    BY <2>1
  <2>3. IsFlat(seqs, F, 0)
    BY <2>2 DEF IsFlat
  <2>4. QED BY <2>1, <2>3
<1>3. ASSUME NEW k \in 0 .. n - 1, k \in Good PROVE k + 1 \in Good
  <2>1. PICK E : IsFlat(seqs, E, k)
    BY <1>3
  <2>2. E = [i \in 1 .. k |-> IF i = 1 THEN seqs[i] ELSE E[i - 1] \o seqs[i]]
    BY <2>1 DEF IsFlat
  <2> DEFINE F == [i \in 1 .. k + 1 |-> IF i = k + 1
                                        THEN IF i = 1 THEN seqs[i] ELSE E[i - 1] \o seqs[i]
                                        ELSE E[i]]
  <2>3. k \in Nat /\ k + 1 \in 0 .. n
    BY <1>1
  <2>4. ASSUME NEW i \in 1 .. k + 1
        PROVE  F[i] = IF i = 1 THEN seqs[i] ELSE F[i - 1] \o seqs[i]
    <3>1. i = 1 \/ (i - 1 \in 1 .. k + 1 /\ i - 1 # k + 1)
      BY <2>3
    <3>2. i # 1 => F[i - 1] = E[i - 1]
      BY <3>1
    <3>3. CASE i = k + 1
      <4>1. F[i] = IF i = 1 THEN seqs[i] ELSE E[i - 1] \o seqs[i]
        BY <3>3
      <4> HIDE DEF F
      <4>2. QED BY <3>2, <4>1
    <3>4. CASE i # k + 1
      <4>1. i \in 1 .. k
        BY <2>3, <3>4
      <4>2. E[i] = IF i = 1 THEN seqs[i] ELSE E[i - 1] \o seqs[i]
        BY <2>2, <4>1
      <4>3. F[i] = E[i]
        BY <3>4
      <4> HIDE DEF F
      <4>4. QED BY <3>2, <4>2, <4>3
    <3>5. QED BY <3>3, <3>4
  <2>5. F = [i \in 1 .. k + 1 |-> F[i]]
    OBVIOUS
  <2>6. IsFlat(seqs, F, k + 1)
    <3> HIDE DEF F
    <3>1. F = [i \in 1 .. k + 1 |-> IF i = 1 THEN seqs[i] ELSE F[i - 1] \o seqs[i]]
      BY <2>4, <2>5
    <3>2. QED BY <3>1 DEF IsFlat
  <2>7. QED BY <2>3, <2>6
<1>4. n \in Good
  <2> HIDE DEF Good
  <2>1. n \in Nat /\ n \in 0 .. n
    BY <1>1
  <2>2. 0 .. n \subseteq Good
    BY <1>2, <1>3, <2>1, UpTo
  <2>3. QED BY <2>1, <2>2
<1>5. it = [i \in 1 .. n |-> IF i = 1 THEN seqs[i] ELSE it[i - 1] \o seqs[i]]
  <2>1. \E F : F = [i \in 1 .. n |-> IF i = 1 THEN seqs[i] ELSE F[i - 1] \o seqs[i]]
    BY <1>4 DEF IsFlat
  <2>2. QED BY <2>1
<1>6. FlattenSeq(seqs) = it[n]
  BY <1>1 DEF FlattenSeq, n
<1> HIDE DEF it
<1>7. \A i \in 1 .. n : it[i] = IF i = 1 THEN seqs[i] ELSE it[i - 1] \o seqs[i]
  BY <1>5
<1>8. QED BY <1>6, <1>7 DEF n

\* Where each element of a flattened list comes from: a list, and a place in it.
From(seqs, n, flat, at) ==
    /\ \A k \in 1 .. Len(flat) :
          /\ at[k] \in (1 .. n) \X Nat
          /\ at[k][2] \in 1 .. Len(seqs[at[k][1]])
          /\ flat[k] = seqs[at[k][1]][at[k][2]]
    /\ \A k, j \in 1 .. Len(flat) : at[k] = at[j] => k = j

LEMMA FromStep ==
    ASSUME NEW A, NEW seqs \in Seq(Seq(A)), NEW n \in 1 .. Len(seqs) - 1, NEW flat \in Seq(A),
           NEW at, From(seqs, n, flat, at)
    PROVE  \E more : From(seqs, n + 1, flat \o seqs[n + 1], more)
<1> DEFINE m == Len(flat)
           next == seqs[n + 1]
           both == flat \o next
           l == Len(next)
           more == [k \in 1 .. m + l |-> IF k <= m THEN at[k] ELSE <<n + 1, k - m>>]
<1>1. n \in Nat /\ n + 1 \in 1 .. Len(seqs) /\ next \in Seq(A) /\ m \in Nat /\ l \in Nat
  OBVIOUS
<1>2. /\ both \in Seq(A) /\ Len(both) = m + l
      /\ \A k \in 1 .. m + l : both[k] = IF k <= m THEN flat[k] ELSE next[k - m]
  BY <1>1, CatFacts
<1>3. \A k \in 1 .. m : /\ at[k] \in (1 .. n) \X Nat
                        /\ at[k][2] \in 1 .. Len(seqs[at[k][1]])
                        /\ flat[k] = seqs[at[k][1]][at[k][2]]
  BY DEF From
<1>4. \A k, j \in 1 .. m : at[k] = at[j] => k = j
  BY DEF From
<1>5. \A k \in 1 .. m + l : more[k] = IF k <= m THEN at[k] ELSE <<n + 1, k - m>>
  OBVIOUS
<1>6. \A k \in 1 .. m + l : k <= m => k \in 1 .. m
  BY <1>1
<1>7. \A k \in 1 .. m + l : ~(k <= m) => k - m \in 1 .. l
  BY <1>1
<1>8. (1 .. n) \X Nat \subseteq (1 .. n + 1) \X Nat
  BY <1>1
<1> HIDE DEF more, both, m, l
<1>9. ASSUME NEW k \in 1 .. m + l
      PROVE  /\ more[k] \in (1 .. n + 1) \X Nat
             /\ more[k][2] \in 1 .. Len(seqs[more[k][1]])
             /\ both[k] = seqs[more[k][1]][more[k][2]]
  <2>1. CASE k <= m
    <3>1. more[k] = at[k] /\ both[k] = flat[k] /\ k \in 1 .. m
      BY <1>2, <1>5, <1>6, <2>1
    <3>2. QED BY <1>3, <1>8, <3>1
  <2>2. CASE ~(k <= m)
    <3>1. more[k] = <<n + 1, k - m>> /\ both[k] = next[k - m] /\ k - m \in 1 .. l
      BY <1>2, <1>5, <1>7, <2>2
    <3>2. more[k][1] = n + 1 /\ more[k][2] = k - m
      BY <3>1
    <3>3. more[k] \in (1 .. n + 1) \X Nat
      BY <1>1, <3>1
    <3>4. QED BY <3>1, <3>2, <3>3 DEF l
  <2>3. QED BY <2>1, <2>2
<1>10. ASSUME NEW k \in 1 .. m + l, NEW j \in 1 .. m + l, more[k] = more[j] PROVE k = j
  <2>1. CASE k <= m /\ j <= m
    BY <1>4, <1>5, <1>6, <1>10, <2>1
  <2>2. CASE ~(k <= m) /\ ~(j <= m)
    <3>1. more[k] = <<n + 1, k - m>> /\ more[j] = <<n + 1, j - m>>
      BY <1>5, <2>2
    <3>2. <<n + 1, k - m>> = <<n + 1, j - m>>
      BY <1>10, <3>1
    <3>3. k - m = j - m
      BY <3>2
    <3>4. QED BY <1>1, <3>3
  <2>3. \A x \in 1 .. m + l : x <= m => more[x][1] # n + 1
    <3>1. \A x \in 1 .. m : at[x][1] \in 1 .. n
      BY <1>3
    <3>2. \A x \in 1 .. m + l : x <= m => more[x] = at[x] /\ x \in 1 .. m
      BY <1>5, <1>6
    <3>3. n + 1 \notin 1 .. n
      BY <1>1
    <3>4. QED BY <3>1, <3>2, <3>3
  <2>4. \A x \in 1 .. m + l : ~(x <= m) => more[x][1] = n + 1
    <3>1. \A x \in 1 .. m + l : ~(x <= m) => more[x] = <<n + 1, x - m>>
      BY <1>5
    <3>2. \A x \in 1 .. m + l : <<n + 1, x - m>>[1] = n + 1
      OBVIOUS
    <3>3. QED BY <3>1, <3>2
  <2>5. QED BY <1>10, <2>1, <2>2, <2>3, <2>4
<1>11. From(seqs, n + 1, both, more)
  BY <1>2, <1>9, <1>10 DEF From
<1>12. QED BY <1>11 DEF both

LEMMA FlattenFacts ==
    ASSUME NEW A, NEW seqs \in Seq(Seq(A))
    PROVE  /\ FlattenSeq(seqs) \in Seq(A)
           /\ \E at : From(seqs, Len(seqs), FlattenSeq(seqs), at)
<1> DEFINE n == Len(seqs)
<1>1. CASE seqs = <<>>
  <2>1. Len(seqs) = 0 /\ FlattenSeq(seqs) = <<>>
    BY <1>1 DEF FlattenSeq
  <2>2. From(seqs, 0, <<>>, <<>>)
    BY DEF From
  <2>3. QED BY <2>1, <2>2
<1>2. CASE seqs # <<>>
  <2>1. n \in Nat \ {0} /\ \A i \in 1 .. n : seqs[i] \in Seq(A)
    BY <1>2
  <2>2. PICK F : /\ \A i \in 1 .. n : F[i] = IF i = 1 THEN seqs[i] ELSE F[i - 1] \o seqs[i]
                 /\ F[n] = FlattenSeq(seqs)
    BY <1>2, FlatRun
  <2> DEFINE Good == {k \in 0 .. n : k # 0 => F[k] \in Seq(A) /\ \E at : From(seqs, k, F[k], at)}
  <2> HIDE DEF n
  <2>3. 0 \in Good
    BY <2>1
  <2>4. ASSUME NEW k \in 0 .. n - 1, k \in Good PROVE k + 1 \in Good
    <3>1. k + 1 \in 1 .. n /\ k + 1 \in 0 .. n /\ (k + 1) - 1 = k /\ k \in Nat /\ seqs[k + 1] \in Seq(A)
      BY <2>1
    <3>2. CASE k = 0
      <4>1. F[1] = seqs[1] /\ seqs[1] \in Seq(A) /\ 1 \in 0 .. n
        BY <2>2, <3>1, <3>2
      <4> DEFINE at == [j \in 1 .. Len(seqs[1]) |-> <<1, j>>]
      <4>2. From(seqs, 1, seqs[1], at)
        <5>1. \A j \in 1 .. Len(seqs[1]) : at[j] = <<1, j>> /\ j \in Nat
          BY <4>1
        <5>2. \A j \in Nat : <<1, j>> \in (1 .. 1) \X Nat /\ <<1, j>>[1] = 1 /\ <<1, j>>[2] = j
          OBVIOUS
        <5> HIDE DEF at
        <5>3. \A j \in 1 .. Len(seqs[1]) : at[j] \in (1 .. 1) \X Nat /\ at[j][1] = 1 /\ at[j][2] = j
          <6>1. SUFFICES ASSUME NEW j \in 1 .. Len(seqs[1])
                         PROVE  at[j] \in (1 .. 1) \X Nat /\ at[j][1] = 1 /\ at[j][2] = j
            OBVIOUS
          <6>2. j \in Nat /\ at[j] = <<1, j>>
            BY <5>1
          <6>3. <<1, j>> \in (1 .. 1) \X Nat /\ <<1, j>>[1] = 1 /\ <<1, j>>[2] = j
            BY <5>2, <6>2
          <6>4. QED BY <6>2, <6>3
        <5>4. QED BY <5>3 DEF From
      <4>3. QED BY <3>2, <4>1, <4>2
    <3>3. CASE k # 0
      <4>1. F[k] \in Seq(A) /\ \E at : From(seqs, k, F[k], at)
        BY <2>4, <3>3
      <4>2. PICK at : From(seqs, k, F[k], at)
        BY <4>1
      <4>3. F[k + 1] = F[k] \o seqs[k + 1]
        <5>1. k + 1 # 1
          BY <3>1, <3>3
        <5>2. F[k + 1] = IF k + 1 = 1 THEN seqs[k + 1] ELSE F[(k + 1) - 1] \o seqs[k + 1]
          BY <2>2, <3>1
        <5>3. QED BY <3>1, <5>1, <5>2
      <4>4. k \in 1 .. Len(seqs) - 1
        BY <3>1, <3>3 DEF n
      <4>5. \E more : From(seqs, k + 1, F[k] \o seqs[k + 1], more)
        BY <4>1, <4>2, <4>4, FromStep
      <4>6. F[k] \o seqs[k + 1] \in Seq(A)
        BY <3>1, <4>1
      <4>7. QED BY <3>1, <4>3, <4>5, <4>6
    <3>4. QED BY <3>2, <3>3
  <2>5. 0 .. n \subseteq Good
    <3> HIDE DEF Good
    <3>1. QED BY <2>1, <2>3, <2>4, UpTo
  <2>6. n \in Good /\ n # 0
    <3> HIDE DEF Good
    <3>1. n \in 0 .. n /\ n # 0
      BY <2>1
    <3>2. QED BY <2>5, <3>1
  <2>7. QED BY <2>2, <2>6 DEF n
<1>3. QED BY <1>1, <1>2

\* What the loops of parsing and chunking hold.
Name == {"none"} \cup STRING
Paragraph == [at : Int, sentences : Seq(Nat)]
Section == [section : Name, body : Seq(Paragraph)]
FilePage == [number : Nat, section : Name, text : Seq(Paragraph) \ {<<>>}]
Packs == [done : Seq(Seq(WindowPart)), current : Seq(WindowPart), length : Int]
Passes == [fixed : Seq(Seq(WindowPart)), carry : Seq(WindowPart)]
Unpacked == [done |-> <<>>, current |-> <<>>, length |-> 0]
Uncarried == [fixed |-> <<>>, carry |-> <<>>]

LEMMA LastReplaced ==
    ASSUME NEW W, NEW s \in Seq(W), s # <<>>, NEW x \in W
    PROVE  /\ Last(s) \in W /\ Last(s) = s[Len(s)] /\ Len(s) \in Nat \ {0}
           /\ Front(s) \o <<x>> \in Seq(W) /\ Len(Front(s) \o <<x>>) = Len(s)
           /\ \A i \in 1 .. Len(s) : (Front(s) \o <<x>>)[i] = IF i = Len(s) THEN x ELSE s[i]
<1> DEFINE n == Len(s)
           f == SubSeq(s, 1, n - 1)
<1>1. n \in Nat \ {0} /\ n - 1 \in 0 .. n /\ s[n] \in W
  OBVIOUS
<1>2. f \in Seq(W) /\ Len(f) = n - 1 /\ \A i \in 1 .. n - 1 : f[i] = s[i]
  BY <1>1, HeadFacts
<1> HIDE DEF f, n
<1>3. <<x>> \in Seq(W) /\ Len(<<x>>) = 1 /\ <<x>>[1] = x
  OBVIOUS
<1>4. /\ f \o <<x>> \in Seq(W) /\ Len(f \o <<x>>) = Len(f) + Len(<<x>>)
      /\ \A i \in 1 .. Len(f) + Len(<<x>>) :
            (f \o <<x>>)[i] = IF i <= Len(f) THEN f[i] ELSE <<x>>[i - Len(f)]
  BY <1>2, <1>3, CatFacts
<1>5. Len(f \o <<x>>) = n
  BY <1>1, <1>2, <1>3, <1>4
<1>6. ASSUME NEW i \in 1 .. n PROVE (f \o <<x>>)[i] = IF i = n THEN x ELSE s[i]
  <2>1. CASE i = n
    <3>1. ~(i <= Len(f)) /\ i - Len(f) = 1 /\ i \in 1 .. Len(f) + Len(<<x>>)
      BY <1>1, <1>2, <1>3, <2>1
    <3>2. QED BY <1>3, <1>4, <2>1, <3>1
  <2>2. CASE i # n
    <3>1. i <= Len(f) /\ i \in 1 .. n - 1 /\ i \in 1 .. Len(f) + Len(<<x>>)
      BY <1>1, <1>2, <1>3, <2>2
    <3>2. QED BY <1>2, <1>4, <2>2, <3>1
  <2>3. QED BY <2>1, <2>2
<1>7. Front(s) = f /\ Last(s) = s[n]
  BY DEF Front, Last, f, n
<1>8. QED BY <1>1, <1>4, <1>5, <1>6, <1>7 DEF n

LEMMA FirstSectionsType ==
    ASSUME NEW format
    PROVE  FirstSections(format) \in Seq(Section)
<1>1. [section |-> "none", body |-> <<>>] \in Section
  <2>1. "none" \in Name
    BY DEF Name
  <2>2. <<>> \in Seq(Paragraph)
    OBVIOUS
  <2>3. QED BY <2>1, <2>2 DEF Section
<1>2. QED BY <1>1 DEF FirstSections

LEMMA AddLineType ==
    ASSUME NEW format, NEW done \in Seq(Section), NEW line \in FileLine
    PROVE  AddLine(format, done, line) \in Seq(Section)
<1>1. line.at \in Int /\ line.name \in STRING /\ line.sentences \in Seq(Nat)
  BY DEF FileLine
<1>2. CASE Opens(format, line)
  <2>1. Heading(format, line) \in Name
    <3>1. "none" \in Name
      BY DEF Name
    <3>2. line.name \in Name
      BY <1>1 DEF Name
    <3>3. QED BY <3>1, <3>2 DEF Heading
  <2>2. [section |-> Heading(format, line), body |-> <<>>] \in Section
    BY <2>1 DEF Section
  <2>3. QED BY <1>2, <2>2 DEF AddLine
<1>3. CASE ~Opens(format, line) /\ done = <<>>
  BY <1>3 DEF AddLine
<1>4. CASE ~Opens(format, line) /\ done # <<>>
  <2> DEFINE p == [at |-> line.at, sentences |-> line.sentences]
             s == [Last(done) EXCEPT !.body = Append(@, p)]
  <2>1. p \in Paragraph
    BY <1>1 DEF Paragraph
  <2>2. Last(done) \in Section
    <3>1. Len(done) \in 1 .. Len(done)
      BY <1>4
    <3>2. QED BY <3>1 DEF Last
  <2>3. s \in Section
    <3> HIDE DEF p
    <3>1. Last(done).body \in Seq(Paragraph)
      BY <2>2 DEF Section
    <3>2. Append(Last(done).body, p) \in Seq(Paragraph)
      BY <2>1, <3>1
    <3>3. QED BY <2>2, <3>2 DEF Section
  <2>4. AddLine(format, done, line) = Front(done) \o <<s>>
    BY <1>4 DEF AddLine
  <2> HIDE DEF s
  <2>5. Front(done) \o <<s>> \in Seq(Section)
    BY <1>4, <2>3, LastReplaced
  <2>6. QED BY <2>4, <2>5
<1>5. QED BY <1>2, <1>3, <1>4

LEMMA AddPageType ==
    ASSUME NEW sections \in Seq(Section), NEW pages \in Seq(FilePage), NEW i \in 1 .. Len(sections)
    PROVE  AddPage(sections, pages, i) \in Seq(FilePage)
<1>1. sections[i] \in Section
  OBVIOUS
<1>2. sections[i].section \in Name /\ sections[i].body \in Seq(Paragraph)
  BY <1>1 DEF Section
<1>3. sections[i].body # <<>> =>
         [number |-> i, section |-> sections[i].section, text |-> sections[i].body] \in FilePage
  BY <1>2 DEF FilePage
<1>4. QED BY <1>3 DEF AddPage

LEMMA PutPieceType ==
    /\ Unpacked \in Packs
    /\ \A filling \in Packs, piece \in WindowPart : PutPiece(filling, piece) \in Packs
<1>1. Unpacked \in Packs
  BY DEF Unpacked, Packs
<1>2. ASSUME NEW filling \in Packs, NEW piece \in WindowPart PROVE PutPiece(filling, piece) \in Packs
  <2> DEFINE addition == piece.len + (IF filling.current = <<>> THEN 0 ELSE 2)
  <2>1. piece.len \in Int
    BY DEF WindowPart
  <2>2. addition \in Int
    BY <2>1
  <2>3. /\ filling.done \in Seq(Seq(WindowPart)) /\ filling.current \in Seq(WindowPart)
        /\ filling.length \in Int
    BY DEF Packs
  <2>4. PutPiece(filling, piece) =
           IF Overfull(filling, addition)
           THEN [done |-> Append(filling.done, filling.current), current |-> <<piece>>, length |-> addition]
           ELSE [filling EXCEPT !.current = Append(@, piece), !.length = @ + addition]
    BY DEF PutPiece
  <2> HIDE DEF addition
  <2>5. [done |-> Append(filling.done, filling.current), current |-> <<piece>>, length |-> addition] \in Packs
    BY <2>2, <2>3 DEF Packs
  <2>6. [filling EXCEPT !.current = Append(@, piece), !.length = @ + addition] \in Packs
    <3>1. Append(filling.current, piece) \in Seq(WindowPart) /\ filling.length + addition \in Int
      BY <2>2, <2>3
    <3>2. QED BY <3>1 DEF Packs
  <2>7. QED BY <2>4, <2>5, <2>6
<1>3. QED BY <1>1, <1>2

LEMMA MergeBackType ==
    ASSUME NEW out \in Seq(Seq(WindowPart)), NEW window \in Seq(WindowPart)
    PROVE  MergeBack(out, window) \in Seq(Seq(WindowPart))
<1>1. CASE Fragment(window) /\ out # <<>> /\ HasRoomFor(Last(out), window)
  <2> DEFINE s == Last(out) \o window
  <2>1. Last(out) \in Seq(WindowPart)
    <3>1. Len(out) \in 1 .. Len(out)
      BY <1>1
    <3>2. QED BY <3>1 DEF Last
  <2>2. s \in Seq(WindowPart)
    BY <2>1, WidthSplits
  <2>3. MergeBack(out, window) = Front(out) \o <<s>>
    BY <1>1 DEF MergeBack
  <2> HIDE DEF s
  <2>4. Front(out) \o <<s>> \in Seq(Seq(WindowPart))
    BY <1>1, <2>2, LastReplaced
  <2>5. QED BY <2>3, <2>4
<1>2. CASE ~(Fragment(window) /\ out # <<>> /\ HasRoomFor(Last(out), window))
  BY <1>2 DEF MergeBack
<1>3. QED BY <1>1, <1>2

LEMMA MergeForwardType ==
    /\ Uncarried \in Passes
    /\ \A pass \in Passes, window \in Seq(WindowPart) : MergeForward(pass, window) \in Passes
<1>1. Uncarried \in Passes
  BY DEF Uncarried, Passes
<1>2. ASSUME NEW pass \in Passes, NEW window \in Seq(WindowPart) PROVE MergeForward(pass, window) \in Passes
  <2> DEFINE more == pass.carry \o window
  <2>1. pass.fixed \in Seq(Seq(WindowPart)) /\ pass.carry \in Seq(WindowPart)
    BY DEF Passes
  <2>2. more \in Seq(WindowPart)
    BY <2>1, WidthSplits
  <2>3. MergeForward(pass, window) =
           IF Fragment(window) THEN [pass EXCEPT !.carry = more]
           ELSE [fixed |-> Append(pass.fixed, more), carry |-> <<>>]
    BY DEF MergeForward
  <2> HIDE DEF more
  <2>4. [pass EXCEPT !.carry = more] \in Passes /\ [fixed |-> Append(pass.fixed, more), carry |-> <<>>] \in Passes
    <3>1. Append(pass.fixed, more) \in Seq(Seq(WindowPart)) /\ <<>> \in Seq(WindowPart)
      BY <2>1, <2>2
    <3>2. QED BY <2>2, <3>1 DEF Passes
  <2>5. QED BY <2>3, <2>4
<1>3. QED BY <1>1, <1>2

\* The loops, with the values they go through.
Divided(format, lines) ==
    FoldLeft(LAMBDA done, line : AddLine(format, done, line), FirstSections(format), lines)
Numbering(sections, index) == FoldLeft(LAMBDA pages, i : AddPage(sections, pages, i), <<>>, index)
Packing(pieces) == FoldLeft(PutPiece, Unpacked, pieces)
MergedBack(windows) == FoldLeft(MergeBack, <<>>, windows)
MergedForward(windows) == FoldLeft(MergeForward, Uncarried, windows)

SectionPath(format, lines, g) ==
    /\ g[0] = FirstSections(format)
    /\ \A k \in 1 .. Len(lines) : g[k] = AddLine(format, g[k - 1], lines[k])
    /\ g[Len(lines)] = Divided(format, lines)
PagePath(sections, index, g) ==
    /\ g[0] = <<>>
    /\ \A k \in 1 .. Len(index) : g[k] = AddPage(sections, g[k - 1], index[k])
    /\ g[Len(index)] = Numbering(sections, index)
PackPath(pieces, g) ==
    /\ g[0] = Unpacked
    /\ \A k \in 1 .. Len(pieces) : g[k] = PutPiece(g[k - 1], pieces[k])
    /\ g[Len(pieces)] = Packing(pieces)
BackPath(windows, g) ==
    /\ g[0] = <<>>
    /\ \A k \in 1 .. Len(windows) : g[k] = MergeBack(g[k - 1], windows[k])
    /\ g[Len(windows)] = MergedBack(windows)
ForwardPath(windows, g) ==
    /\ g[0] = Uncarried
    /\ \A k \in 1 .. Len(windows) : g[k] = MergeForward(g[k - 1], windows[k])
    /\ g[Len(windows)] = MergedForward(windows)

LEMMA SectionSteps ==
    ASSUME NEW format, NEW lines \in Seq(FileLine)
    PROVE  \E g : SectionPath(format, lines, g)
<1> DEFINE n == Len(lines)
           Body(F) == [s \in SUBSET (DOMAIN lines) |->
                         IF s = {} THEN FirstSections(format)
                         ELSE AddLine(format, F[s \ {Max(s)}], lines[Max(s)])]
           it == CHOOSE F : F = Body(F)
<1>1. \E F : F = Body(F)
  <2> DEFINE G == [p \in Seq(Section) \X (1 .. n) |-> AddLine(format, p[1], lines[p[2]])]
  <2>1. G \in [Seq(Section) \X (1 .. n) -> Seq(Section)]
    <3>1. ASSUME NEW p \in Seq(Section) \X (1 .. n) PROVE AddLine(format, p[1], lines[p[2]]) \in Seq(Section)
      <4>1. p[1] \in Seq(Section) /\ lines[p[2]] \in FileLine
        OBVIOUS
      <4>2. QED BY <4>1, AddLineType
    <3>2. QED BY <3>1
  <2>2. PICK F : IsFold(F, Seq(Section), n, FirstSections(format), G)
    <3>1. n \in Nat /\ FirstSections(format) \in Seq(Section)
      BY FirstSectionsType
    <3> HIDE DEF G, n
    <3>2. QED BY <2>1, <3>1, FoldExists
  <2>3. ASSUME NEW s \in SUBSET (1 .. n), s # {}
        PROVE  G[<<F[s \ {Max(s)}], Max(s)>>] = AddLine(format, F[s \ {Max(s)}], lines[Max(s)])
    <3>1. Max(s) \in s
      <4>1. n \in Nat
        OBVIOUS
      <4> HIDE DEF n
      <4>2. QED BY <2>3, <4>1, MaxIn
    <3>2. F[s \ {Max(s)}] \in Seq(Section)
      BY <2>2 DEF IsFold
    <3>3. QED BY <3>1, <3>2
  <2>4. F = Body(F)
    <3>1. DOMAIN lines = 1 .. n
      OBVIOUS
    <3> HIDE DEF G, n
    <3>2. \A s \in SUBSET (1 .. n) : F[s] = Body(F)[s]
      BY <2>2, <2>3, <3>1 DEF IsFold
    <3>3. F = [s \in SUBSET (1 .. n) |-> F[s]]
      BY <2>2 DEF IsFold
    <3>4. F = [s \in SUBSET (DOMAIN lines) |-> Body(F)[s]]
      BY <3>1, <3>2, <3>3
    <3>5. QED BY <3>4
  <2>5. QED BY <2>4
<1>2. it = Body(it)
  BY <1>1
<1>3. Divided(format, lines) = it[DOMAIN lines]
  BY DEF FoldLeft, MapThenFoldSet, Divided
<1> DEFINE g == [k \in 0 .. n |-> it[1 .. k]]
<1>4. ASSUME NEW k \in 1 .. n
      PROVE  g[k] = AddLine(format, g[k - 1], lines[k])
  <2>1. 1 .. k \in SUBSET (DOMAIN lines) /\ 1 .. k # {}
    <3>1. DOMAIN lines = 1 .. n /\ n \in Nat
      OBVIOUS
    <3>2. k \in Int /\ 1 <= k /\ k <= n
      OBVIOUS
    <3> HIDE DEF n
    <3>3. \A x \in 1 .. k : x \in 1 .. n
      BY <3>1, <3>2
    <3>4. 1 \in 1 .. k
      BY <3>2
    <3>5. QED BY <3>1, <3>3, <3>4
  <2>2. Max(1 .. k) = k
    BY MaxUpTo
  <2>3. (1 .. k) \ {k} = 1 .. k - 1 /\ k - 1 \in 0 .. n /\ k \in 0 .. n
    OBVIOUS
  <2> HIDE DEF it
  <2>4. it[1 .. k] = AddLine(format, it[(1 .. k) \ {k}], lines[k])
    BY <1>2, <2>1, <2>2
  <2>5. QED BY <2>3, <2>4
<1>5. g[0] = FirstSections(format)
  <2>1. {} \in SUBSET (DOMAIN lines) /\ 1 .. 0 = {}
    OBVIOUS
  <2> HIDE DEF it
  <2>2. it[{}] = FirstSections(format)
    BY <1>2, <2>1
  <2>3. QED BY <2>1, <2>2
<1>6. g[n] = Divided(format, lines)
  <2> HIDE DEF it
  <2>1. g[n] = it[1 .. n] /\ DOMAIN lines = 1 .. n
    OBVIOUS
  <2>2. QED BY <1>3, <2>1
<1> HIDE DEF it, g
<1>7. SectionPath(format, lines, g)
  BY <1>4, <1>5, <1>6 DEF SectionPath
<1>8. QED BY <1>7

LEMMA PageSteps ==
    ASSUME NEW sections \in Seq(Section), NEW index \in Seq(1 .. Len(sections))
    PROVE  \E g : PagePath(sections, index, g)
<1> DEFINE n == Len(index)
           Body(F) == [s \in SUBSET (DOMAIN index) |->
                         IF s = {} THEN <<>>
                         ELSE AddPage(sections, F[s \ {Max(s)}], index[Max(s)])]
           it == CHOOSE F : F = Body(F)
<1>1. \E F : F = Body(F)
  <2> DEFINE G == [p \in Seq(FilePage) \X (1 .. n) |-> AddPage(sections, p[1], index[p[2]])]
  <2>1. G \in [Seq(FilePage) \X (1 .. n) -> Seq(FilePage)]
    <3>1. ASSUME NEW p \in Seq(FilePage) \X (1 .. n) PROVE AddPage(sections, p[1], index[p[2]]) \in Seq(FilePage)
      <4>1. p[1] \in Seq(FilePage) /\ index[p[2]] \in 1 .. Len(sections)
        OBVIOUS
      <4>2. QED BY <4>1, AddPageType
    <3>2. QED BY <3>1
  <2>2. PICK F : IsFold(F, Seq(FilePage), n, <<>>, G)
    <3>1. n \in Nat /\ <<>> \in Seq(FilePage)
      OBVIOUS
    <3> HIDE DEF G, n
    <3>2. QED BY <2>1, <3>1, FoldExists
  <2>3. ASSUME NEW s \in SUBSET (1 .. n), s # {}
        PROVE  G[<<F[s \ {Max(s)}], Max(s)>>] = AddPage(sections, F[s \ {Max(s)}], index[Max(s)])
    <3>1. Max(s) \in s
      <4>1. n \in Nat
        OBVIOUS
      <4> HIDE DEF n
      <4>2. QED BY <2>3, <4>1, MaxIn
    <3>2. F[s \ {Max(s)}] \in Seq(FilePage)
      BY <2>2 DEF IsFold
    <3>3. QED BY <3>1, <3>2
  <2>4. F = Body(F)
    <3>1. DOMAIN index = 1 .. n
      OBVIOUS
    <3> HIDE DEF G, n
    <3>2. \A s \in SUBSET (1 .. n) : F[s] = Body(F)[s]
      BY <2>2, <2>3, <3>1 DEF IsFold
    <3>3. F = [s \in SUBSET (1 .. n) |-> F[s]]
      BY <2>2 DEF IsFold
    <3>4. F = [s \in SUBSET (DOMAIN index) |-> Body(F)[s]]
      BY <3>1, <3>2, <3>3
    <3>5. QED BY <3>4
  <2>5. QED BY <2>4
<1>2. it = Body(it)
  BY <1>1
<1>3. Numbering(sections, index) = it[DOMAIN index]
  BY DEF FoldLeft, MapThenFoldSet, Numbering
<1> DEFINE g == [k \in 0 .. n |-> it[1 .. k]]
<1>4. ASSUME NEW k \in 1 .. n
      PROVE  g[k] = AddPage(sections, g[k - 1], index[k])
  <2>1. 1 .. k \in SUBSET (DOMAIN index) /\ 1 .. k # {}
    <3>1. DOMAIN index = 1 .. n /\ n \in Nat
      OBVIOUS
    <3>2. k \in Int /\ 1 <= k /\ k <= n
      OBVIOUS
    <3> HIDE DEF n
    <3>3. \A x \in 1 .. k : x \in 1 .. n
      BY <3>1, <3>2
    <3>4. 1 \in 1 .. k
      BY <3>2
    <3>5. QED BY <3>1, <3>3, <3>4
  <2>2. Max(1 .. k) = k
    BY MaxUpTo
  <2>3. (1 .. k) \ {k} = 1 .. k - 1 /\ k - 1 \in 0 .. n /\ k \in 0 .. n
    OBVIOUS
  <2> HIDE DEF it
  <2>4. it[1 .. k] = AddPage(sections, it[(1 .. k) \ {k}], index[k])
    BY <1>2, <2>1, <2>2
  <2>5. QED BY <2>3, <2>4
<1>5. g[0] = <<>>
  <2>1. {} \in SUBSET (DOMAIN index) /\ 1 .. 0 = {}
    OBVIOUS
  <2> HIDE DEF it
  <2>2. it[{}] = <<>>
    BY <1>2, <2>1
  <2>3. QED BY <2>1, <2>2
<1>6. g[n] = Numbering(sections, index)
  <2> HIDE DEF it
  <2>1. g[n] = it[1 .. n] /\ DOMAIN index = 1 .. n
    OBVIOUS
  <2>2. QED BY <1>3, <2>1
<1> HIDE DEF it, g
<1>7. PagePath(sections, index, g)
  BY <1>4, <1>5, <1>6 DEF PagePath
<1>8. QED BY <1>7

LEMMA PackSteps ==
    ASSUME NEW pieces \in Seq(WindowPart)
    PROVE  \E g : PackPath(pieces, g)
<1> DEFINE n == Len(pieces)
           Body(F) == [s \in SUBSET (DOMAIN pieces) |->
                         IF s = {} THEN Unpacked
                         ELSE PutPiece(F[s \ {Max(s)}], pieces[Max(s)])]
           it == CHOOSE F : F = Body(F)
<1>1. \E F : F = Body(F)
  <2> DEFINE G == [p \in Packs \X (1 .. n) |-> PutPiece(p[1], pieces[p[2]])]
  <2>1. G \in [Packs \X (1 .. n) -> Packs]
    <3>1. ASSUME NEW p \in Packs \X (1 .. n) PROVE PutPiece(p[1], pieces[p[2]]) \in Packs
      <4>1. p[1] \in Packs /\ pieces[p[2]] \in WindowPart
        OBVIOUS
      <4>2. QED BY <4>1, PutPieceType
    <3>2. QED BY <3>1
  <2>2. PICK F : IsFold(F, Packs, n, Unpacked, G)
    <3>1. n \in Nat /\ Unpacked \in Packs
      BY PutPieceType
    <3> HIDE DEF G, n
    <3>2. QED BY <2>1, <3>1, FoldExists
  <2>3. ASSUME NEW s \in SUBSET (1 .. n), s # {}
        PROVE  G[<<F[s \ {Max(s)}], Max(s)>>] = PutPiece(F[s \ {Max(s)}], pieces[Max(s)])
    <3>1. Max(s) \in s
      <4>1. n \in Nat
        OBVIOUS
      <4> HIDE DEF n
      <4>2. QED BY <2>3, <4>1, MaxIn
    <3>2. F[s \ {Max(s)}] \in Packs
      BY <2>2 DEF IsFold
    <3>3. QED BY <3>1, <3>2
  <2>4. F = Body(F)
    <3>1. DOMAIN pieces = 1 .. n
      OBVIOUS
    <3> HIDE DEF G, n
    <3>2. \A s \in SUBSET (1 .. n) : F[s] = Body(F)[s]
      BY <2>2, <2>3, <3>1 DEF IsFold
    <3>3. F = [s \in SUBSET (1 .. n) |-> F[s]]
      BY <2>2 DEF IsFold
    <3>4. F = [s \in SUBSET (DOMAIN pieces) |-> Body(F)[s]]
      BY <3>1, <3>2, <3>3
    <3>5. QED BY <3>4
  <2>5. QED BY <2>4
<1>2. it = Body(it)
  BY <1>1
<1>3. Packing(pieces) = it[DOMAIN pieces]
  BY DEF FoldLeft, MapThenFoldSet, Packing, Unpacked
<1> DEFINE g == [k \in 0 .. n |-> it[1 .. k]]
<1>4. ASSUME NEW k \in 1 .. n
      PROVE  g[k] = PutPiece(g[k - 1], pieces[k])
  <2>1. 1 .. k \in SUBSET (DOMAIN pieces) /\ 1 .. k # {}
    <3>1. DOMAIN pieces = 1 .. n /\ n \in Nat
      OBVIOUS
    <3>2. k \in Int /\ 1 <= k /\ k <= n
      OBVIOUS
    <3> HIDE DEF n
    <3>3. \A x \in 1 .. k : x \in 1 .. n
      BY <3>1, <3>2
    <3>4. 1 \in 1 .. k
      BY <3>2
    <3>5. QED BY <3>1, <3>3, <3>4
  <2>2. Max(1 .. k) = k
    BY MaxUpTo
  <2>3. (1 .. k) \ {k} = 1 .. k - 1 /\ k - 1 \in 0 .. n /\ k \in 0 .. n
    OBVIOUS
  <2> HIDE DEF it
  <2>4. it[1 .. k] = PutPiece(it[(1 .. k) \ {k}], pieces[k])
    BY <1>2, <2>1, <2>2
  <2>5. QED BY <2>3, <2>4
<1>5. g[0] = Unpacked
  <2>1. {} \in SUBSET (DOMAIN pieces) /\ 1 .. 0 = {}
    OBVIOUS
  <2> HIDE DEF it
  <2>2. it[{}] = Unpacked
    BY <1>2, <2>1
  <2>3. QED BY <2>1, <2>2
<1>6. g[n] = Packing(pieces)
  <2> HIDE DEF it
  <2>1. g[n] = it[1 .. n] /\ DOMAIN pieces = 1 .. n
    OBVIOUS
  <2>2. QED BY <1>3, <2>1
<1> HIDE DEF it, g
<1>7. PackPath(pieces, g)
  BY <1>4, <1>5, <1>6 DEF PackPath
<1>8. QED BY <1>7

LEMMA BackSteps ==
    ASSUME NEW windows \in Seq(Seq(WindowPart))
    PROVE  \E g : BackPath(windows, g)
<1> DEFINE n == Len(windows)
           Body(F) == [s \in SUBSET (DOMAIN windows) |->
                         IF s = {} THEN <<>>
                         ELSE MergeBack(F[s \ {Max(s)}], windows[Max(s)])]
           it == CHOOSE F : F = Body(F)
<1>1. \E F : F = Body(F)
  <2> DEFINE G == [p \in Seq(Seq(WindowPart)) \X (1 .. n) |-> MergeBack(p[1], windows[p[2]])]
  <2>1. G \in [Seq(Seq(WindowPart)) \X (1 .. n) -> Seq(Seq(WindowPart))]
    <3>1. ASSUME NEW p \in Seq(Seq(WindowPart)) \X (1 .. n) PROVE MergeBack(p[1], windows[p[2]]) \in Seq(Seq(WindowPart))
      <4>1. p[1] \in Seq(Seq(WindowPart)) /\ windows[p[2]] \in Seq(WindowPart)
        OBVIOUS
      <4>2. QED BY <4>1, MergeBackType
    <3>2. QED BY <3>1
  <2>2. PICK F : IsFold(F, Seq(Seq(WindowPart)), n, <<>>, G)
    <3>1. n \in Nat /\ <<>> \in Seq(Seq(WindowPart))
      OBVIOUS
    <3> HIDE DEF G, n
    <3>2. QED BY <2>1, <3>1, FoldExists
  <2>3. ASSUME NEW s \in SUBSET (1 .. n), s # {}
        PROVE  G[<<F[s \ {Max(s)}], Max(s)>>] = MergeBack(F[s \ {Max(s)}], windows[Max(s)])
    <3>1. Max(s) \in s
      <4>1. n \in Nat
        OBVIOUS
      <4> HIDE DEF n
      <4>2. QED BY <2>3, <4>1, MaxIn
    <3>2. F[s \ {Max(s)}] \in Seq(Seq(WindowPart))
      BY <2>2 DEF IsFold
    <3>3. QED BY <3>1, <3>2
  <2>4. F = Body(F)
    <3>1. DOMAIN windows = 1 .. n
      OBVIOUS
    <3> HIDE DEF G, n
    <3>2. \A s \in SUBSET (1 .. n) : F[s] = Body(F)[s]
      BY <2>2, <2>3, <3>1 DEF IsFold
    <3>3. F = [s \in SUBSET (1 .. n) |-> F[s]]
      BY <2>2 DEF IsFold
    <3>4. F = [s \in SUBSET (DOMAIN windows) |-> Body(F)[s]]
      BY <3>1, <3>2, <3>3
    <3>5. QED BY <3>4
  <2>5. QED BY <2>4
<1>2. it = Body(it)
  BY <1>1
<1>3. MergedBack(windows) = it[DOMAIN windows]
  BY DEF FoldLeft, MapThenFoldSet, MergedBack
<1> DEFINE g == [k \in 0 .. n |-> it[1 .. k]]
<1>4. ASSUME NEW k \in 1 .. n
      PROVE  g[k] = MergeBack(g[k - 1], windows[k])
  <2>1. 1 .. k \in SUBSET (DOMAIN windows) /\ 1 .. k # {}
    <3>1. DOMAIN windows = 1 .. n /\ n \in Nat
      OBVIOUS
    <3>2. k \in Int /\ 1 <= k /\ k <= n
      OBVIOUS
    <3> HIDE DEF n
    <3>3. \A x \in 1 .. k : x \in 1 .. n
      BY <3>1, <3>2
    <3>4. 1 \in 1 .. k
      BY <3>2
    <3>5. QED BY <3>1, <3>3, <3>4
  <2>2. Max(1 .. k) = k
    BY MaxUpTo
  <2>3. (1 .. k) \ {k} = 1 .. k - 1 /\ k - 1 \in 0 .. n /\ k \in 0 .. n
    OBVIOUS
  <2> HIDE DEF it
  <2>4. it[1 .. k] = MergeBack(it[(1 .. k) \ {k}], windows[k])
    BY <1>2, <2>1, <2>2
  <2>5. QED BY <2>3, <2>4
<1>5. g[0] = <<>>
  <2>1. {} \in SUBSET (DOMAIN windows) /\ 1 .. 0 = {}
    OBVIOUS
  <2> HIDE DEF it
  <2>2. it[{}] = <<>>
    BY <1>2, <2>1
  <2>3. QED BY <2>1, <2>2
<1>6. g[n] = MergedBack(windows)
  <2> HIDE DEF it
  <2>1. g[n] = it[1 .. n] /\ DOMAIN windows = 1 .. n
    OBVIOUS
  <2>2. QED BY <1>3, <2>1
<1> HIDE DEF it, g
<1>7. BackPath(windows, g)
  BY <1>4, <1>5, <1>6 DEF BackPath
<1>8. QED BY <1>7

LEMMA ForwardSteps ==
    ASSUME NEW windows \in Seq(Seq(WindowPart))
    PROVE  \E g : ForwardPath(windows, g)
<1> DEFINE n == Len(windows)
           Body(F) == [s \in SUBSET (DOMAIN windows) |->
                         IF s = {} THEN Uncarried
                         ELSE MergeForward(F[s \ {Max(s)}], windows[Max(s)])]
           it == CHOOSE F : F = Body(F)
<1>1. \E F : F = Body(F)
  <2> DEFINE G == [p \in Passes \X (1 .. n) |-> MergeForward(p[1], windows[p[2]])]
  <2>1. G \in [Passes \X (1 .. n) -> Passes]
    <3>1. ASSUME NEW p \in Passes \X (1 .. n) PROVE MergeForward(p[1], windows[p[2]]) \in Passes
      <4>1. p[1] \in Passes /\ windows[p[2]] \in Seq(WindowPart)
        OBVIOUS
      <4>2. QED BY <4>1, MergeForwardType
    <3>2. QED BY <3>1
  <2>2. PICK F : IsFold(F, Passes, n, Uncarried, G)
    <3>1. n \in Nat /\ Uncarried \in Passes
      BY MergeForwardType
    <3> HIDE DEF G, n
    <3>2. QED BY <2>1, <3>1, FoldExists
  <2>3. ASSUME NEW s \in SUBSET (1 .. n), s # {}
        PROVE  G[<<F[s \ {Max(s)}], Max(s)>>] = MergeForward(F[s \ {Max(s)}], windows[Max(s)])
    <3>1. Max(s) \in s
      <4>1. n \in Nat
        OBVIOUS
      <4> HIDE DEF n
      <4>2. QED BY <2>3, <4>1, MaxIn
    <3>2. F[s \ {Max(s)}] \in Passes
      BY <2>2 DEF IsFold
    <3>3. QED BY <3>1, <3>2
  <2>4. F = Body(F)
    <3>1. DOMAIN windows = 1 .. n
      OBVIOUS
    <3> HIDE DEF G, n
    <3>2. \A s \in SUBSET (1 .. n) : F[s] = Body(F)[s]
      BY <2>2, <2>3, <3>1 DEF IsFold
    <3>3. F = [s \in SUBSET (1 .. n) |-> F[s]]
      BY <2>2 DEF IsFold
    <3>4. F = [s \in SUBSET (DOMAIN windows) |-> Body(F)[s]]
      BY <3>1, <3>2, <3>3
    <3>5. QED BY <3>4
  <2>5. QED BY <2>4
<1>2. it = Body(it)
  BY <1>1
<1>3. MergedForward(windows) = it[DOMAIN windows]
  BY DEF FoldLeft, MapThenFoldSet, MergedForward, Uncarried
<1> DEFINE g == [k \in 0 .. n |-> it[1 .. k]]
<1>4. ASSUME NEW k \in 1 .. n
      PROVE  g[k] = MergeForward(g[k - 1], windows[k])
  <2>1. 1 .. k \in SUBSET (DOMAIN windows) /\ 1 .. k # {}
    <3>1. DOMAIN windows = 1 .. n /\ n \in Nat
      OBVIOUS
    <3>2. k \in Int /\ 1 <= k /\ k <= n
      OBVIOUS
    <3> HIDE DEF n
    <3>3. \A x \in 1 .. k : x \in 1 .. n
      BY <3>1, <3>2
    <3>4. 1 \in 1 .. k
      BY <3>2
    <3>5. QED BY <3>1, <3>3, <3>4
  <2>2. Max(1 .. k) = k
    BY MaxUpTo
  <2>3. (1 .. k) \ {k} = 1 .. k - 1 /\ k - 1 \in 0 .. n /\ k \in 0 .. n
    OBVIOUS
  <2> HIDE DEF it
  <2>4. it[1 .. k] = MergeForward(it[(1 .. k) \ {k}], windows[k])
    BY <1>2, <2>1, <2>2
  <2>5. QED BY <2>3, <2>4
<1>5. g[0] = Uncarried
  <2>1. {} \in SUBSET (DOMAIN windows) /\ 1 .. 0 = {}
    OBVIOUS
  <2> HIDE DEF it
  <2>2. it[{}] = Uncarried
    BY <1>2, <2>1
  <2>3. QED BY <2>1, <2>2
<1>6. g[n] = MergedForward(windows)
  <2> HIDE DEF it
  <2>1. g[n] = it[1 .. n] /\ DOMAIN windows = 1 .. n
    OBVIOUS
  <2>2. QED BY <1>3, <2>1
<1> HIDE DEF it, g
<1>7. ForwardPath(windows, g)
  BY <1>4, <1>5, <1>6 DEF ForwardPath
<1>8. QED BY <1>7

\* Sequences joined, and the members of a set in them.
LEMMA Joined ==
    ASSUME NEW W, NEW a \in Seq(W), NEW b \in Seq(W), NEW c \in Seq(W)
    PROVE  (a \o b) \o c = a \o (b \o c)
OBVIOUS

LEMMA Appended ==
    ASSUME NEW W, NEW s \in Seq(W), NEW x \in W
    PROVE  Append(s, x) # <<>> /\ Append(s, x) = s \o <<x>>
<1>1. Len(Append(s, x)) = Len(s) + 1 /\ Len(s) \in Nat /\ Len(<<>>) = 0
  OBVIOUS
<1>2. Append(s, x) = s \o <<x>>
  OBVIOUS
<1>3. Len(Append(s, x)) # Len(<<>>)
  BY <1>1
<1>4. QED BY <1>2, <1>3

LEMMA ThoseType ==
    ASSUME NEW W, NEW S, NEW list \in Seq(W)
    PROVE  Those(S, list) \in Seq(W)
<1> DEFINE n == Len(list)
<1>1. n \in Nat /\ \A k \in 1 .. n : list[k] \in W
  OBVIOUS
<1>2. PICK g : ThosePath(S, list, g)
  BY ThoseSteps
<1>3. g[0] = <<>> /\ (\A k \in 1 .. n : g[k] = KeepIn(S, g[k - 1], list[k])) /\ g[n] = Those(S, list)
  BY <1>2 DEF ThosePath
<1> HIDE DEF n
<1> DEFINE Good == {k \in 0 .. n : g[k] \in Seq(W)}
<1>4. 0 \in Good
  <2>1. 0 \in 0 .. n /\ <<>> \in Seq(W)
    BY <1>1
  <2>2. QED BY <1>3, <2>1
<1>5. ASSUME NEW k \in 0 .. n - 1, k \in Good PROVE k + 1 \in Good
  <2>1. k + 1 \in 1 .. n /\ (k + 1) - 1 = k /\ k + 1 \in 0 .. n
    BY <1>1
  <2>2. g[k] \in Seq(W) /\ list[k + 1] \in W
    BY <1>1, <1>5, <2>1
  <2>3. g[k + 1] = KeepIn(S, g[k], list[k + 1])
    BY <1>3, <2>1
  <2>4. QED BY <2>1, <2>2, <2>3, KeepInType
<1>6. 0 .. n \subseteq Good
  <2> HIDE DEF Good
  <2>1. QED BY <1>1, <1>4, <1>5, UpTo
<1>7. n \in 0 .. n
  BY <1>1
<1>8. QED BY <1>3, <1>6, <1>7

\* A run is determined by its steps.
LEMMA ThoseIs ==
    ASSUME NEW W, NEW S, NEW list \in Seq(W), NEW h, h[0] = <<>>,
           \A k \in 1 .. Len(list) : h[k] = KeepIn(S, h[k - 1], list[k])
    PROVE  Those(S, list) = h[Len(list)]
<1> DEFINE n == Len(list)
<1>1. n \in Nat
  OBVIOUS
<1>2. PICK g : ThosePath(S, list, g)
  BY ThoseSteps
<1>3. g[0] = <<>> /\ (\A k \in 1 .. n : g[k] = KeepIn(S, g[k - 1], list[k])) /\ g[n] = Those(S, list)
  BY <1>2 DEF ThosePath
<1>4. \A k \in 1 .. n : h[k] = KeepIn(S, h[k - 1], list[k])
  OBVIOUS
<1> HIDE DEF n
<1> DEFINE Good == {k \in 0 .. n : g[k] = h[k]}
<1>5. 0 \in Good
  BY <1>1, <1>3
<1>6. ASSUME NEW k \in 0 .. n - 1, k \in Good PROVE k + 1 \in Good
  <2>1. k + 1 \in 1 .. n /\ (k + 1) - 1 = k /\ k + 1 \in 0 .. n
    BY <1>1
  <2>2. g[k] = h[k]
    BY <1>6
  <2>3. g[k + 1] = KeepIn(S, g[k], list[k + 1]) /\ h[k + 1] = KeepIn(S, h[k], list[k + 1])
    BY <1>3, <1>4, <2>1
  <2>4. QED BY <2>1, <2>2, <2>3
<1>7. 0 .. n \subseteq Good
  <2> HIDE DEF Good
  <2>1. QED BY <1>1, <1>5, <1>6, UpTo
<1>8. n \in 0 .. n
  BY <1>1
<1>9. QED BY <1>3, <1>7, <1>8 DEF n

LEMMA ThoseSame ==
    ASSUME NEW W, NEW S, NEW T, NEW list \in Seq(W),
           \A i \in 1 .. Len(list) : list[i] \in S <=> list[i] \in T
    PROVE  Those(S, list) = Those(T, list)
<1>1. PICK g : ThosePath(S, list, g)
  BY ThoseSteps
<1>2. g[0] = <<>> /\ (\A k \in 1 .. Len(list) : g[k] = KeepIn(S, g[k - 1], list[k]))
      /\ g[Len(list)] = Those(S, list)
  BY <1>1 DEF ThosePath
<1>3. \A k \in 1 .. Len(list) : g[k] = KeepIn(T, g[k - 1], list[k])
  BY <1>2 DEF KeepIn
<1>4. QED BY <1>2, <1>3, ThoseIs

LEMMA ThoseAll ==
    ASSUME NEW W, NEW S, NEW list \in Seq(W), \A i \in 1 .. Len(list) : list[i] \in S
    PROVE  Those(S, list) = list
<1> DEFINE n == Len(list)
           h == [k \in 0 .. n |-> SubSeq(list, 1, k)]
<1>1. n \in Nat /\ 0 \in 0 .. n /\ n \in 0 .. n
  OBVIOUS
<1>2. h[0] = <<>> /\ h[n] = list
  BY <1>1
<1>3. ASSUME NEW k \in 1 .. n PROVE h[k] = KeepIn(S, h[k - 1], list[k])
  <2>1. k \in 0 .. n /\ k - 1 \in 0 .. n
    BY <1>1
  <2>2. SubSeq(list, 1, k) = Append(SubSeq(list, 1, k - 1), list[k])
    BY <1>1
  <2>3. h[k] = Append(h[k - 1], list[k])
    BY <2>1, <2>2
  <2>4. list[k] \in S
    OBVIOUS
  <2>5. QED BY <2>3, <2>4 DEF KeepIn
<1> HIDE DEF h
<1>4. QED BY <1>2, <1>3, ThoseIs

LEMMA ThoseNone ==
    ASSUME NEW W, NEW S, NEW list \in Seq(W), \A i \in 1 .. Len(list) : list[i] \notin S
    PROVE  Those(S, list) = <<>>
<1> DEFINE n == Len(list)
           h == [k \in 0 .. n |-> <<>>]
<1>1. n \in Nat /\ h[0] = <<>> /\ h[n] = <<>>
  OBVIOUS
<1>2. ASSUME NEW k \in 1 .. n PROVE h[k] = KeepIn(S, h[k - 1], list[k])
  <2>1. k \in 0 .. n /\ k - 1 \in 0 .. n
    BY <1>1
  <2>2. QED BY <2>1 DEF KeepIn
<1> HIDE DEF h
<1>3. QED BY <1>1, <1>2, ThoseIs

LEMMA ThoseSplits ==
    ASSUME NEW W, NEW S, NEW a \in Seq(W), NEW b \in Seq(W)
    PROVE  Those(S, a \o b) = Those(S, a) \o Those(S, b)
<1> DEFINE m == Len(a)
           n == Len(b)
           w == a \o b
           first == Those(S, a)
<1>1. /\ w \in Seq(W) /\ Len(w) = m + n /\ m \in Nat /\ n \in Nat
      /\ \A i \in 1 .. m + n : w[i] = IF i <= m THEN a[i] ELSE b[i - m]
  BY CatFacts
<1>2. first \in Seq(W)
  BY ThoseType
<1>3. PICK f : ThosePath(S, a, f)
  BY ThoseSteps
<1>4. f[0] = <<>> /\ (\A k \in 1 .. m : f[k] = KeepIn(S, f[k - 1], a[k])) /\ f[m] = first
  BY <1>3 DEF ThosePath
<1>5. PICK g : ThosePath(S, b, g)
  BY ThoseSteps
<1>6. g[0] = <<>> /\ (\A k \in 1 .. n : g[k] = KeepIn(S, g[k - 1], b[k])) /\ g[n] = Those(S, b)
  BY <1>5 DEF ThosePath
<1>7. \A k \in 1 .. n : b[k] \in W
  OBVIOUS
<1> HIDE DEF m, n, w, first
<1> DEFINE h == [k \in 0 .. m + n |-> IF k <= m THEN f[k] ELSE first \o g[k - m]]
           Typed == {k \in 0 .. n : g[k] \in Seq(W)}
<1>8. 0 .. n \subseteq Typed
  <2>1. 0 \in Typed
    <3>1. 0 \in 0 .. n /\ <<>> \in Seq(W)
      BY <1>1
    <3>2. QED BY <1>6, <3>1
  <2>2. ASSUME NEW k \in 0 .. n - 1, k \in Typed PROVE k + 1 \in Typed
    <3>1. k + 1 \in 1 .. n /\ (k + 1) - 1 = k /\ k + 1 \in 0 .. n
      BY <1>1
    <3>2. g[k] \in Seq(W) /\ b[k + 1] \in W /\ g[k + 1] = KeepIn(S, g[k], b[k + 1])
      BY <1>6, <1>7, <2>2, <3>1
    <3>3. g[k + 1] \in Seq(W)
      BY <3>2, KeepInType
    <3>4. QED BY <3>1, <3>3
  <2> HIDE DEF Typed
  <2>3. QED BY <1>1, <2>1, <2>2, UpTo
<1>9. \A k \in 0 .. n : h[m + k] = first \o g[k]
  <2>1. SUFFICES ASSUME NEW k \in 0 .. n PROVE h[m + k] = first \o g[k]
    OBVIOUS
  <2>2. m + k \in 0 .. m + n /\ (m + k) - m = k /\ (m + k <= m => k = 0) /\ (k = 0 => m + k = m)
    BY <1>1
  <2>3. CASE k = 0
    <3>1. h[m + k] = f[m]
      BY <1>1, <2>2, <2>3
    <3>2. first \o <<>> = first
      BY <1>2
    <3>3. QED BY <1>4, <1>6, <2>3, <3>1, <3>2
  <2>4. CASE k # 0
    BY <2>2, <2>4
  <2>5. QED BY <2>3, <2>4
<1>10. h[0] = <<>>
  BY <1>1, <1>4
<1>11. ASSUME NEW k \in 1 .. m + n PROVE h[k] = KeepIn(S, h[k - 1], w[k])
  <2>1. CASE k <= m
    <3>1. k \in 1 .. m /\ k - 1 <= m /\ k \in 0 .. m + n /\ k - 1 \in 0 .. m + n
      BY <1>1, <2>1
    <3>2. h[k] = f[k] /\ h[k - 1] = f[k - 1] /\ w[k] = a[k]
      BY <1>1, <2>1, <3>1
    <3>3. QED BY <1>4, <3>1, <3>2
  <2>2. CASE ~(k <= m)
    <3> DEFINE j == k - m
    <3>1. j \in 1 .. n /\ j \in 0 .. n /\ j - 1 \in 0 .. n /\ m + j = k /\ m + (j - 1) = k - 1
      BY <1>1, <2>2
    <3>2. w[k] = b[j]
      BY <1>1, <2>2
    <3> HIDE DEF h, j
    <3>3. h[k] = first \o g[j] /\ h[k - 1] = first \o g[j - 1]
      BY <1>9, <3>1
    <3>4. g[j] = KeepIn(S, g[j - 1], b[j]) /\ g[j - 1] \in Seq(W) /\ b[j] \in W
      BY <1>6, <1>7, <1>8, <3>1
    <3>5. first \o Append(g[j - 1], b[j]) = Append(first \o g[j - 1], b[j])
      BY <1>2, <3>4
    <3>6. QED BY <3>2, <3>3, <3>4, <3>5 DEF KeepIn
  <2>3. QED BY <2>1, <2>2
<1> HIDE DEF h
<1>12. Those(S, w) = h[Len(w)]
  <2>1. w \in Seq(W) /\ Len(w) = m + n
    BY <1>1
  <2>2. \A k \in 1 .. Len(w) : h[k] = KeepIn(S, h[k - 1], w[k])
    BY <1>11, <2>1
  <2>3. QED BY <1>10, <2>1, <2>2, ThoseIs
<1>13. n \in 0 .. n
  BY <1>1
<1>14. QED BY <1>1, <1>6, <1>9, <1>12, <1>13 DEF w, first

\* A flattened list, by how it is put together.
Flattening(seqs, h) ==
    /\ h[0] = <<>>
    /\ \A k \in 1 .. Len(seqs) : h[k] = h[k - 1] \o seqs[k]
    /\ h[Len(seqs)] = FlattenSeq(seqs)

LEMMA FlattenSteps ==
    ASSUME NEW A, NEW seqs \in Seq(Seq(A))
    PROVE  \E h : Flattening(seqs, h) /\ \A k \in 0 .. Len(seqs) : h[k] \in Seq(A)
<1> DEFINE n == Len(seqs)
<1>1. n \in Nat /\ \A k \in 1 .. n : seqs[k] \in Seq(A)
  OBVIOUS
<1>2. \E h : h[0] = <<>> /\ (\A k \in 1 .. n : h[k] = h[k - 1] \o seqs[k]) /\ h[n] = FlattenSeq(seqs)
  <2>1. CASE seqs = <<>>
    <3> DEFINE h == [k \in 0 .. 0 |-> <<>>]
    <3>1. n = 0 /\ FlattenSeq(seqs) = <<>>
      BY <2>1 DEF FlattenSeq
    <3>2. h[0] = <<>>
      OBVIOUS
    <3>3. \A k \in 1 .. n : FALSE
      BY <3>1
    <3> HIDE DEF h, n
    <3>4. QED BY <3>1, <3>2, <3>3
  <2>2. CASE seqs # <<>>
    <3>1. PICK F : /\ \A i \in 1 .. n : F[i] = IF i = 1 THEN seqs[i] ELSE F[i - 1] \o seqs[i]
                   /\ F[n] = FlattenSeq(seqs)
      BY <2>2, FlatRun
    <3> DEFINE h == [k \in 0 .. n |-> IF k = 0 THEN <<>> ELSE F[k]]
    <3>2. n # 0
      BY <2>2
    <3> HIDE DEF n
    <3>3. h[0] = <<>> /\ h[n] = F[n]
      BY <1>1, <3>2
    <3>4. ASSUME NEW k \in 1 .. n PROVE h[k] = h[k - 1] \o seqs[k]
      <4>1. k \in 0 .. n /\ k - 1 \in 0 .. n /\ k # 0 /\ (k - 1 = 0 <=> k = 1)
        BY <1>1
      <4>2. h[k] = F[k] /\ (k # 1 => h[k - 1] = F[k - 1]) /\ (k = 1 => h[k - 1] = <<>>)
        BY <4>1
      <4>3. <<>> \o seqs[k] = seqs[k]
        BY <1>1
      <4> HIDE DEF h
      <4>4. QED BY <3>1, <4>2, <4>3
    <3> HIDE DEF h
    <3>5. QED BY <3>1, <3>3, <3>4
  <2>3. QED BY <2>1, <2>2
<1>3. PICK h : h[0] = <<>> /\ (\A k \in 1 .. n : h[k] = h[k - 1] \o seqs[k]) /\ h[n] = FlattenSeq(seqs)
  BY <1>2
<1>4. Flattening(seqs, h)
  BY <1>3 DEF Flattening
<1> HIDE DEF n
<1> DEFINE Good == {k \in 0 .. n : h[k] \in Seq(A)}
<1>5. 0 \in Good
  <2>1. 0 \in 0 .. n /\ <<>> \in Seq(A)
    BY <1>1
  <2>2. QED BY <1>3, <2>1
<1>6. ASSUME NEW k \in 0 .. n - 1, k \in Good PROVE k + 1 \in Good
  <2>1. k + 1 \in 1 .. n /\ (k + 1) - 1 = k /\ k + 1 \in 0 .. n
    BY <1>1
  <2>2. h[k] \in Seq(A) /\ seqs[k + 1] \in Seq(A) /\ h[k + 1] = h[k] \o seqs[k + 1]
    BY <1>1, <1>3, <1>6, <2>1
  <2>3. h[k + 1] \in Seq(A)
    BY <2>2
  <2>4. QED BY <2>1, <2>3
<1>7. 0 .. n \subseteq Good
  <2> HIDE DEF Good
  <2>1. QED BY <1>1, <1>5, <1>6, UpTo
<1>8. \A k \in 0 .. n : h[k] \in Seq(A)
  BY <1>7
<1>9. QED BY <1>4, <1>8 DEF n

LEMMA FlattenIs ==
    ASSUME NEW A, NEW seqs \in Seq(Seq(A)), NEW f, f[0] = <<>>,
           \A k \in 1 .. Len(seqs) : f[k] = f[k - 1] \o seqs[k]
    PROVE  FlattenSeq(seqs) = f[Len(seqs)]
<1> DEFINE n == Len(seqs)
<1>1. n \in Nat
  OBVIOUS
<1>2. PICK h : Flattening(seqs, h)
  BY FlattenSteps
<1>3. h[0] = <<>> /\ (\A k \in 1 .. n : h[k] = h[k - 1] \o seqs[k]) /\ h[n] = FlattenSeq(seqs)
  BY <1>2 DEF Flattening
<1>4. \A k \in 1 .. n : f[k] = f[k - 1] \o seqs[k]
  OBVIOUS
<1> HIDE DEF n
<1> DEFINE Good == {k \in 0 .. n : h[k] = f[k]}
<1>5. 0 \in Good
  BY <1>1, <1>3
<1>6. ASSUME NEW k \in 0 .. n - 1, k \in Good PROVE k + 1 \in Good
  <2>1. k + 1 \in 1 .. n /\ (k + 1) - 1 = k /\ k + 1 \in 0 .. n
    BY <1>1
  <2>2. h[k] = f[k] /\ h[k + 1] = h[k] \o seqs[k + 1] /\ f[k + 1] = f[k] \o seqs[k + 1]
    BY <1>3, <1>4, <1>6, <2>1
  <2>3. QED BY <2>1, <2>2
<1>7. 0 .. n \subseteq Good
  <2> HIDE DEF Good
  <2>1. QED BY <1>1, <1>5, <1>6, UpTo
<1>8. n \in 0 .. n
  BY <1>1
<1>9. QED BY <1>3, <1>7, <1>8 DEF n

LEMMA FlattenAppended ==
    ASSUME NEW A, NEW seqs \in Seq(Seq(A)), NEW x \in Seq(A)
    PROVE  /\ FlattenSeq(<<>>) = <<>>
           /\ FlattenSeq(Append(seqs, x)) = FlattenSeq(seqs) \o x
<1> DEFINE n == Len(seqs)
           more == Append(seqs, x)
<1>1. /\ n \in Nat /\ more \in Seq(Seq(A)) /\ Len(more) = n + 1 /\ more[n + 1] = x
      /\ \A k \in 1 .. n : more[k] = seqs[k]
  OBVIOUS
<1>2. PICK h : Flattening(seqs, h)
  BY FlattenSteps
<1>3. h[0] = <<>> /\ (\A k \in 1 .. n : h[k] = h[k - 1] \o seqs[k]) /\ h[n] = FlattenSeq(seqs)
  BY <1>2 DEF Flattening
<1> HIDE DEF n, more
<1> DEFINE f == [k \in 0 .. n + 1 |-> IF k = n + 1 THEN h[n] \o x ELSE h[k]]
<1>4. f[0] = <<>> /\ f[n + 1] = h[n] \o x
  BY <1>1, <1>3
<1>5. ASSUME NEW k \in 1 .. n + 1 PROVE f[k] = f[k - 1] \o more[k]
  <2>1. k \in 0 .. n + 1 /\ k - 1 \in 0 .. n + 1 /\ k - 1 # n + 1 /\ (k # n + 1 => k \in 1 .. n)
        /\ (k = n + 1 => k - 1 = n)
    BY <1>1
  <2>2. f[k - 1] = h[k - 1]
    BY <2>1
  <2>3. k # n + 1 => f[k] = h[k] /\ h[k] = h[k - 1] \o seqs[k] /\ more[k] = seqs[k]
    BY <1>1, <1>3, <2>1
  <2>4. k = n + 1 => f[k] = h[n] \o x /\ more[k] = x /\ h[k - 1] = h[n]
    BY <1>1, <2>1
  <2> HIDE DEF f
  <2>5. QED BY <2>2, <2>3, <2>4
<1> HIDE DEF f
<1>6. FlattenSeq(more) = f[Len(more)]
  BY <1>1, <1>4, <1>5, FlattenIs
<1>7. FlattenSeq(<<>>) = <<>>
  BY DEF FlattenSeq
<1>8. QED BY <1>1, <1>3, <1>4, <1>6, <1>7 DEF more

\* What is joined to the last of the lists comes at the end of all.
LEMMA FlattenExtended ==
    ASSUME NEW A, NEW seqs \in Seq(Seq(A)), seqs # <<>>, NEW x \in Seq(A)
    PROVE  FlattenSeq(Front(seqs) \o <<Last(seqs) \o x>>) = FlattenSeq(seqs) \o x
<1> DEFINE front == Front(seqs)
           last == Last(seqs)
           flat == FlattenSeq(front)
<1>1. last \in Seq(A) /\ last = seqs[Len(seqs)] /\ Len(seqs) \in Nat \ {0}
  <2>1. Last(seqs) \in Seq(A) /\ Last(seqs) = seqs[Len(seqs)] /\ Len(seqs) \in Nat \ {0}
    BY LastReplaced, <<>> \in Seq(A)
  <2>2. QED BY <2>1
<1>2. front \in Seq(Seq(A)) /\ Len(front) = Len(seqs) - 1
      /\ \A i \in 1 .. Len(seqs) - 1 : front[i] = seqs[i]
  <2>1. Len(seqs) - 1 \in 0 .. Len(seqs)
    BY <1>1
  <2>2. QED BY <2>1, HeadFacts DEF Front
<1> HIDE DEF front, last
<1>3. seqs = Append(front, last)
  <2> DEFINE n == Len(seqs)
  <2>1. Append(front, last) \in Seq(Seq(A)) /\ Len(Append(front, last)) = n
        /\ Append(front, last)[n] = last /\ \A i \in 1 .. n - 1 : Append(front, last)[i] = front[i]
    BY <1>1, <1>2
  <2>2. \A i \in 1 .. n : seqs[i] = Append(front, last)[i]
    <3>1. \A i \in 1 .. n : i = n \/ i \in 1 .. n - 1
      BY <1>1
    <3> HIDE DEF n
    <3>2. last = seqs[n]
      BY <1>1 DEF n
    <3>3. \A i \in 1 .. n - 1 : front[i] = seqs[i]
      BY <1>2 DEF n
    <3>4. QED BY <2>1, <3>1, <3>2, <3>3
  <2>3. QED BY <2>1, <2>2, SameList
<1>4. last \o x \in Seq(A)
  BY <1>1
<1>5. FlattenSeq(seqs) = flat \o last
  BY <1>1, <1>2, <1>3, FlattenAppended
<1>6. FlattenSeq(Append(front, last \o x)) = flat \o (last \o x)
  BY <1>2, <1>4, FlattenAppended
<1>7. flat \in Seq(A)
  BY <1>2, FlattenFacts
<1> HIDE DEF flat
<1>8. (flat \o last) \o x = flat \o (last \o x)
  <2>1. flat \in Seq(A) /\ last \in Seq(A) /\ x \in Seq(A)
    BY <1>1, <1>7
  <2>2. QED BY <2>1
<1>9. Append(front, last \o x) = front \o <<last \o x>>
  BY <1>2, <1>4, Appended
<1>10. QED BY <1>5, <1>6, <1>8, <1>9 DEF front, last

\* Pieces that fit a window, windows as they are filled, and with a tail.
OwnParts == {p \in WindowPart : ~p.tail}
Small == {p \in OwnParts : p.len <= Target}
Fitting == {w \in Seq(WindowPart) : w # <<>> /\ Width(w) <= Target}
Split == {w \in Seq(WindowPart) : w # <<>> /\ Width(w) <= (Target + Overlap) + 2}

LEMMA SizesTyped == Target \in Nat \ {0} /\ Overlap \in Nat /\ MinChunk \in Nat
<1>1. Target \in Nat /\ Overlap \in Nat /\ MinChunk \in Nat /\ Overlap < Target
  BY ChunkingAssumption
<1>2. QED BY <1>1

LEMMA PieceType ==
    ASSUME NEW p \in Nat, NEW s \in Nat, NEW k \in Nat, NEW n \in Int, n >= -1
    PROVE  Piece(<<p, s, k>>, n) \in OwnParts /\ Piece(<<p, s, k>>, n).len = n
<1>1. <<p, s, k>> \in Seq(Nat)
  OBVIOUS
<1>2. n \in {m \in Int : m >= -1}
  OBVIOUS
<1>3. Piece(<<p, s, k>>, n) \in WindowPart
  BY <1>1, <1>2 DEF Piece, WindowPart
<1>4. Piece(<<p, s, k>>, n).len = n /\ ~Piece(<<p, s, k>>, n).tail
  BY DEF Piece
<1>5. QED BY <1>3, <1>4 DEF OwnParts

LEMMA ParagraphWidthType ==
    ASSUME NEW paragraph \in Paragraph
    PROVE  ParagraphWidth(paragraph) \in Int /\ ParagraphWidth(paragraph) >= -1
<1> DEFINE f == paragraph.sentences
<1>1. f \in Seq(Nat)
  BY DEF Paragraph
<1> HIDE DEF f
<1>2. f \in Seq(Int) /\ Len(f) \in Nat /\ \A i \in 1 .. Len(f) : f[i] >= -1
  <2>1. \A i \in 1 .. Len(f) : f[i] \in Nat
    BY <1>1
  <2>2. QED BY <1>1, <2>1
<1>3. Total(f) \in Int /\ Total(f) >= 0 - Len(f)
  BY <1>2, TotalFacts
<1>4. ParagraphWidth(paragraph) = Total(f) + Len(f) - 1
  BY DEF ParagraphWidth, f
<1>5. QED BY <1>2, <1>3, <1>4

LEMMA WholeParagraphsFacts ==
    ASSUME NEW text \in Seq(Paragraph)
    PROVE  /\ WholeParagraphs(text) \in Seq(WindowPart) /\ WholeParagraphs(text) \in Seq(OwnParts)
           /\ Len(WholeParagraphs(text)) = Len(text)
           /\ \A p \in 1 .. Len(text) : WholeParagraphs(text)[p].len = ParagraphWidth(text[p])
<1> DEFINE whole == [p \in 1 .. Len(text) |-> Piece(<<p, 0, 0>>, ParagraphWidth(text[p]))]
<1>1. DOMAIN text = 1 .. Len(text) /\ Len(text) \in Nat /\ \A p \in 1 .. Len(text) : text[p] \in Paragraph
  OBVIOUS
<1>2. \A p \in 1 .. Len(text) : /\ Piece(<<p, 0, 0>>, ParagraphWidth(text[p])) \in OwnParts
                                /\ Piece(<<p, 0, 0>>, ParagraphWidth(text[p])).len = ParagraphWidth(text[p])
  <2>1. SUFFICES ASSUME NEW p \in 1 .. Len(text)
                 PROVE  /\ Piece(<<p, 0, 0>>, ParagraphWidth(text[p])) \in OwnParts
                        /\ Piece(<<p, 0, 0>>, ParagraphWidth(text[p])).len = ParagraphWidth(text[p])
    OBVIOUS
  <2>2. p \in Nat /\ 0 \in Nat
    OBVIOUS
  <2>3. ParagraphWidth(text[p]) \in Int /\ ParagraphWidth(text[p]) >= -1
    BY <1>1, ParagraphWidthType
  <2>4. QED BY <2>2, <2>3, PieceType
<1>3. WholeParagraphs(text) = whole
  BY <1>1 DEF WholeParagraphs
<1>4. whole \in Seq(OwnParts) /\ Len(whole) = Len(text)
  BY <1>1, <1>2
<1>5. whole \in Seq(WindowPart)
  <2> HIDE DEF whole
  <2>1. OwnParts \subseteq WindowPart
    BY DEF OwnParts
  <2>2. QED BY <1>4, <2>1
<1>6. QED BY <1>2, <1>3, <1>4, <1>5

LEMMA CutType ==
    ASSUME NEW p \in Nat, NEW s \in Nat, NEW n \in Nat
    PROVE  Cut(p, s, n) \in Seq(Small)
<1> DEFINE m == (n + Target - 1) \div Target
           Size(k) == IF k * Target <= n THEN Target ELSE n % Target
<1>1. Target \in Nat \ {0}
  BY SizesTyped
<1>2. m \in Nat
  <2> DEFINE a == n + Target - 1
  <2>1. a \in Nat
    BY <1>1
  <2> HIDE DEF a
  <2>2. a \div Target \in Nat
    BY <1>1, <2>1
  <2>3. QED BY <2>2 DEF a
<1>3. n % Target \in 0 .. Target - 1
  BY <1>1
<1>4. \A k \in 1 .. m : Size(k) \in Int /\ Size(k) >= -1 /\ Size(k) <= Target
  <2> HIDE DEF m
  <2>1. QED BY <1>1, <1>3
<1> HIDE DEF m, Size
<1>5. \A k \in 1 .. m : Piece(<<p, s, k>>, Size(k)) \in Small
  <2>1. SUFFICES ASSUME NEW k \in 1 .. m PROVE Piece(<<p, s, k>>, Size(k)) \in Small
    OBVIOUS
  <2>2. k \in Nat
    BY <1>2
  <2>3. Piece(<<p, s, k>>, Size(k)) \in OwnParts /\ Piece(<<p, s, k>>, Size(k)).len = Size(k)
    BY <1>4, <2>2, PieceType
  <2>4. QED BY <1>4, <2>3 DEF Small
<1>6. Cut(p, s, n) = [k \in 1 .. m |-> Piece(<<p, s, k>>, Size(k))]
  BY DEF Cut, m, Size
<1>7. QED BY <1>2, <1>5, <1>6

LEMMA SubdivideType ==
    ASSUME NEW p \in Nat, NEW paragraph \in Paragraph
    PROVE  Subdivide(p, paragraph) \in Seq(Small)
<1> DEFINE lengths == paragraph.sentences
           Parts(s) == IF lengths[s] <= Target THEN <<Piece(<<p, s, 1>>, lengths[s])>>
                       ELSE Cut(p, s, lengths[s])
           seqs == [s \in DOMAIN lengths |-> Parts(s)]
<1>1. lengths \in Seq(Nat)
  BY DEF Paragraph
<1>2. Subdivide(p, paragraph) = FlattenSeq(seqs)
  BY DEF Subdivide
<1> HIDE DEF lengths
<1>3. DOMAIN lengths = 1 .. Len(lengths) /\ Len(lengths) \in Nat
      /\ \A s \in 1 .. Len(lengths) : lengths[s] \in Nat /\ s \in Nat
  BY <1>1
<1>4. \A s \in 1 .. Len(lengths) : Parts(s) \in Seq(Small)
  <2>1. SUFFICES ASSUME NEW s \in 1 .. Len(lengths) PROVE Parts(s) \in Seq(Small)
    OBVIOUS
  <2>2. lengths[s] \in Nat /\ s \in Nat /\ 1 \in Nat /\ lengths[s] \in Int /\ lengths[s] >= -1
    BY <1>3
  <2>3. /\ Piece(<<p, s, 1>>, lengths[s]) \in OwnParts
        /\ Piece(<<p, s, 1>>, lengths[s]).len = lengths[s]
    BY <2>2, PieceType
  <2>4. lengths[s] <= Target => Piece(<<p, s, 1>>, lengths[s]) \in Small
    BY <2>3 DEF Small
  <2>5. Cut(p, s, lengths[s]) \in Seq(Small)
    BY <2>2, CutType
  <2>6. QED BY <2>4, <2>5
<1>5. seqs \in Seq(Seq(Small))
  <2> HIDE DEF Parts
  <2>1. QED BY <1>3, <1>4
<1> HIDE DEF seqs
<1>6. FlattenSeq(seqs) \in Seq(Small)
  BY <1>5, FlattenFacts
<1>7. QED BY <1>2, <1>6

LEMMA PiecesType ==
    ASSUME NEW text \in Seq(Paragraph)
    PROVE  ~FitsOneWindow(text) => Pieces(text) \in Seq(Small)
<1> DEFINE whole == WholeParagraphs(text)
           Parts(p) == IF ParagraphWidth(text[p]) <= Target THEN <<whole[p]>>
                       ELSE Subdivide(p, text[p])
           seqs == [p \in DOMAIN text |-> Parts(p)]
<1>1. whole \in Seq(OwnParts) /\ Len(whole) = Len(text)
      /\ \A p \in 1 .. Len(text) : whole[p].len = ParagraphWidth(text[p])
  BY WholeParagraphsFacts
<1>2. ~FitsOneWindow(text) => Pieces(text) = FlattenSeq(seqs)
  BY DEF Pieces
<1>3. DOMAIN text = 1 .. Len(text) /\ Len(text) \in Nat
      /\ \A p \in 1 .. Len(text) : text[p] \in Paragraph /\ p \in Nat
  OBVIOUS
<1> HIDE DEF whole
<1>4. \A p \in 1 .. Len(text) : Parts(p) \in Seq(Small)
  <2>1. SUFFICES ASSUME NEW p \in 1 .. Len(text) PROVE Parts(p) \in Seq(Small)
    OBVIOUS
  <2>2. whole[p] \in OwnParts /\ whole[p].len = ParagraphWidth(text[p])
    BY <1>1
  <2>3. ParagraphWidth(text[p]) <= Target => whole[p] \in Small
    BY <2>2 DEF Small
  <2>4. Subdivide(p, text[p]) \in Seq(Small)
    BY <1>3, SubdivideType
  <2>5. QED BY <2>3, <2>4
<1>5. seqs \in Seq(Seq(Small))
  <2> HIDE DEF Parts
  <2>1. QED BY <1>3, <1>4
<1> HIDE DEF seqs
<1>6. FlattenSeq(seqs) \in Seq(Small)
  BY <1>5, FlattenFacts
<1>7. QED BY <1>2, <1>6

\* A window being filled weighs no less than it measures.
PackInv(f) ==
    /\ f \in Packs /\ f.done \in Seq(Fitting)
    /\ f.current = <<>> => f.length = 0
    /\ f.current # <<>> => Width(f.current) <= f.length /\ Width(f.current) <= Target

LEMMA PackStep ==
    ASSUME NEW f, PackInv(f), NEW piece \in Small
    PROVE  PackInv(PutPiece(f, piece))
<1> DEFINE next == PutPiece(f, piece)
           addition == piece.len + (IF f.current = <<>> THEN 0 ELSE 2)
<1>1. piece \in WindowPart /\ piece.len \in Int /\ piece.len <= Target
  BY DEF Small, OwnParts, WindowPart
<1>2. f \in Packs /\ f.done \in Seq(Fitting)
  BY DEF PackInv
<1>3. f.current \in Seq(WindowPart) /\ f.length \in Int /\ Target \in Nat
  BY <1>2, SizesTyped DEF Packs
<1>4. next \in Packs
  BY <1>1, <1>2, PutPieceType
<1>5. <<piece>> \in Seq(WindowPart) /\ <<piece>> # <<>> /\ Width(<<piece>>) = piece.len
  <2>1. <<piece>> \in Seq(WindowPart) /\ Len(<<piece>>) = 1 /\ <<piece>>[1] = piece /\ <<piece>> # <<>>
    BY <1>1
  <2>2. Width(<<piece>>) = <<piece>>[1].len
    BY <2>1, WidthFacts
  <2>3. QED BY <2>1, <2>2
<1>6. CASE Overfull(f, addition)
  <2>1. f.current # <<>> /\ addition = piece.len + 2
    BY <1>6 DEF Overfull
  <2>2. next.done = Append(f.done, f.current) /\ next.current = <<piece>> /\ next.length = addition
    BY <1>6 DEF PutPiece
  <2>3. f.current \in Fitting
    BY <1>3, <2>1 DEF PackInv, Fitting
  <2>4. Append(f.done, f.current) \in Seq(Fitting)
    BY <1>2, <2>3
  <2> HIDE DEF next, addition
  <2>5. Width(next.current) <= next.length /\ Width(next.current) <= Target /\ next.current # <<>>
    BY <1>1, <1>5, <2>1, <2>2
  <2>6. QED BY <1>4, <2>2, <2>4, <2>5 DEF PackInv, next
<1>7. CASE ~Overfull(f, addition)
  <2>1. next.done = f.done /\ next.current = Append(f.current, piece) /\ next.length = f.length + addition
    BY <1>2, <1>7 DEF PutPiece, Packs
  <2>2. Append(f.current, piece) # <<>> /\ Append(f.current, piece) = f.current \o <<piece>>
    BY <1>1, <1>3
  <2>3. Width(f.current) \in Int /\ Width(f.current \o <<piece>>) = Width(f.current) + Width(<<piece>>) + 2
    BY <1>3, <1>5, WidthFacts, WidthSplits
  <2>4. f.current = <<>> => Width(f.current) = -2 /\ f.length = 0 /\ addition = piece.len
    <3>1. f.current = <<>> => f.length = 0
      BY DEF PackInv
    <3>2. f.current = <<>> => Width(f.current) = -2
      BY <1>3, WidthFacts
    <3>3. f.current = <<>> => addition = piece.len
      BY <1>1
    <3>4. QED BY <3>1, <3>2, <3>3
  <2>5. f.current # <<>> => /\ Width(f.current) <= f.length /\ f.length + addition <= Target
                            /\ addition = piece.len + 2
    <3>1. f.current # <<>> => ~(f.length + addition > Target)
      BY <1>7 DEF Overfull
    <3>2. addition \in Int
      BY <1>1
    <3> HIDE DEF addition
    <3>3. f.current # <<>> => f.length + addition <= Target
      BY <1>3, <3>1, <3>2
    <3>4. QED BY <3>3 DEF PackInv, addition
  <2> HIDE DEF next, addition
  <2>6. Width(next.current) = Width(f.current) + piece.len + 2
    BY <1>5, <2>1, <2>2, <2>3
  <2>7. Width(next.current) <= next.length /\ Width(next.current) <= Target
    <3>1. CASE f.current = <<>>
      BY <1>1, <1>3, <2>1, <2>4, <2>6, <3>1
    <3>2. CASE f.current # <<>>
      BY <1>1, <1>3, <2>1, <2>3, <2>5, <2>6, <3>2
    <3>3. QED BY <3>1, <3>2
  <2>8. next.current # <<>> /\ next.done \in Seq(Fitting)
    BY <1>2, <2>1, <2>2
  <2>9. QED BY <1>4, <2>7, <2>8 DEF PackInv, next
<1>8. QED BY <1>6, <1>7

LEMMA WindowsType ==
    ASSUME NEW pieces \in Seq(Small)
    PROVE  Windows(pieces) \in Seq(Fitting)
<1> DEFINE n == Len(pieces)
           filled == Packing(pieces)
<1>1. pieces \in Seq(WindowPart) /\ n \in Nat /\ \A k \in 1 .. n : pieces[k] \in Small
  BY DEF Small, OwnParts
<1>2. PICK g : PackPath(pieces, g)
  BY <1>1, PackSteps
<1>3. g[0] = Unpacked /\ (\A k \in 1 .. n : g[k] = PutPiece(g[k - 1], pieces[k])) /\ g[n] = filled
  BY <1>2 DEF PackPath
<1> HIDE DEF n, filled
<1> DEFINE Good == {k \in 0 .. n : PackInv(g[k])}
<1>4. 0 \in Good
  <2>1. PackInv(Unpacked)
    BY PutPieceType DEF PackInv, Unpacked
  <2>2. 0 \in 0 .. n
    BY <1>1
  <2>3. QED BY <1>3, <2>1, <2>2
<1>5. ASSUME NEW k \in 0 .. n - 1, k \in Good PROVE k + 1 \in Good
  <2>1. k + 1 \in 1 .. n /\ (k + 1) - 1 = k /\ k + 1 \in 0 .. n
    BY <1>1
  <2>2. PackInv(g[k]) /\ pieces[k + 1] \in Small
    BY <1>1, <1>5, <2>1
  <2>3. g[k + 1] = PutPiece(g[k], pieces[k + 1])
    BY <1>3, <2>1
  <2>4. QED BY <2>1, <2>2, <2>3, PackStep
<1>6. 0 .. n \subseteq Good
  <2> HIDE DEF Good
  <2>1. QED BY <1>1, <1>4, <1>5, UpTo
<1>7. PackInv(filled)
  <2>1. n \in 0 .. n
    BY <1>1
  <2>2. QED BY <1>3, <1>6, <2>1
<1>8. Windows(pieces) = IF filled.current = <<>> THEN filled.done ELSE Append(filled.done, filled.current)
  BY DEF Windows, Packing, Unpacked, filled
<1>9. filled.done \in Seq(Fitting) /\ (filled.current # <<>> => filled.current \in Fitting)
  BY <1>7 DEF PackInv, Packs, Fitting
<1>10. QED BY <1>8, <1>9

LEMMA CarriedTailFacts ==
    ASSUME NEW previous \in Seq(WindowPart), NEW skip \in Nat
    PROVE  LET tail == CarriedTail(previous, skip)
           IN  tail \in Seq(WindowPart) /\ Width(tail) <= Overlap
<1> DEFINE n == (IF Width(previous) < Overlap THEN Width(previous) ELSE Overlap) - skip
           part == [at |-> <<>>, len |-> n, tail |-> TRUE]
<1>1. Width(previous) \in Int /\ Overlap \in Nat
  BY WidthFacts, SizesTyped
<1>2. n \in Int /\ n <= Overlap
  BY <1>1
<1>3. CarriedTail(previous, skip) = IF n > 0 THEN <<part>> ELSE <<>>
  BY DEF CarriedTail
<1> HIDE DEF n
<1>4. CASE n > 0
  <2>1. n \in {m \in Int : m >= -1} /\ <<>> \in Seq(Nat)
    BY <1>2, <1>4
  <2>2. part \in WindowPart /\ part.len = n
    BY <2>1 DEF WindowPart
  <2> HIDE DEF part
  <2>3. <<part>> \in Seq(WindowPart) /\ Len(<<part>>) = 1 /\ <<part>>[1] = part
    BY <2>2
  <2>4. Width(<<part>>) = n
    BY <2>2, <2>3, WidthFacts
  <2>5. QED BY <1>2, <1>3, <1>4, <2>3, <2>4
<1>5. CASE ~(n > 0)
  <2>1. <<>> \in Seq(WindowPart)
    OBVIOUS
  <2>2. Width(<<>>) = -2
    BY <2>1, WidthFacts
  <2>3. QED BY <1>1, <1>3, <1>5, <2>1, <2>2
<1>6. QED BY <1>4, <1>5

LEMMA OverlappedType ==
    ASSUME NEW windows \in Seq(Fitting), NEW skip \in Nat
    PROVE  Overlapped(windows, skip) \in Seq(Split)
<1> DEFINE W(i) == IF i = 1 THEN windows[1] ELSE CarriedTail(windows[i - 1], skip) \o windows[i]
<1>1. DOMAIN windows = 1 .. Len(windows) /\ Len(windows) \in Nat
      /\ \A i \in 1 .. Len(windows) : windows[i] \in Fitting
  OBVIOUS
<1>2. Target \in Nat /\ Overlap \in Nat
  BY SizesTyped
<1>3. \A i \in 1 .. Len(windows) : W(i) \in Split
  <2>1. SUFFICES ASSUME NEW i \in 1 .. Len(windows) PROVE W(i) \in Split
    OBVIOUS
  <2>2. windows[i] \in Seq(WindowPart) /\ windows[i] # <<>> /\ Width(windows[i]) <= Target
    BY <1>1 DEF Fitting
  <2>3. Width(windows[i]) \in Int
    BY <2>2, WidthFacts
  <2>4. CASE i = 1
    <3>1. Width(windows[i]) <= (Target + Overlap) + 2
      BY <1>2, <2>2, <2>3
    <3>2. QED BY <2>2, <2>4, <3>1 DEF Split
  <2>5. CASE i # 1
    <3>1. i - 1 \in 1 .. Len(windows)
      BY <1>1, <2>5
    <3>2. windows[i - 1] \in Seq(WindowPart)
      BY <1>1, <3>1 DEF Fitting
    <3> DEFINE tail == CarriedTail(windows[i - 1], skip)
               w == windows[i]
    <3>3. tail \in Seq(WindowPart) /\ Width(tail) <= Overlap
      BY <3>2, CarriedTailFacts
    <3>4. W(i) = tail \o w
      BY <2>5
    <3> HIDE DEF tail, W, w
    <3>5. w \in Seq(WindowPart) /\ w # <<>> /\ Width(w) <= Target /\ Width(w) \in Int
      BY <2>2, <2>3 DEF w
    <3>6. Width(tail) \in Int /\ tail \o w \in Seq(WindowPart) /\ Width(tail \o w) = Width(tail) + Width(w) + 2
      BY <3>3, <3>5, WidthFacts, WidthSplits
    <3>7. tail \o w # <<>>
      <4>1. Len(w) \in Nat \ {0} /\ Len(tail) \in Nat /\ Len(tail \o w) = Len(tail) + Len(w)
        BY <3>3, <3>5
      <4>2. Len(tail \o w) # 0 /\ Len(<<>>) = 0
        BY <4>1
      <4>3. QED BY <4>2
    <3>8. Width(tail \o w) <= (Target + Overlap) + 2
      BY <1>2, <3>3, <3>5, <3>6
    <3>9. QED BY <3>4, <3>6, <3>7, <3>8 DEF Split
  <2>6. QED BY <2>4, <2>5
<1>4. Overlapped(windows, skip) = [i \in 1 .. Len(windows) |-> W(i)]
  BY <1>1 DEF Overlapped
<1> HIDE DEF W
<1>5. QED BY <1>1, <1>3, <1>4

LEMMA SplitPageType ==
    ASSUME NEW text \in Seq(Paragraph) \ {<<>>}, NEW skip \in Nat
    PROVE  SplitPage(text, skip) \in Seq(Split)
<1>1. CASE FitsOneWindow(text)
  <2> DEFINE whole == WholeParagraphs(text)
  <2>1. whole \in Seq(WindowPart) /\ Len(whole) = Len(text)
    BY WholeParagraphsFacts
  <2>2. Len(text) # 0
    OBVIOUS
  <2>3. whole # <<>>
    BY <2>1, <2>2
  <2>4. Width(whole) <= Target
    BY <1>1 DEF FitsOneWindow
  <2>5. SplitPage(text, skip) = <<whole>>
    BY <1>1 DEF SplitPage, Pieces
  <2> HIDE DEF whole
  <2>6. Width(whole) \in Int
    BY <2>1, WidthFacts
  <2>7. whole \in Split
    BY <2>1, <2>3, <2>4, <2>6, SizesTyped DEF Split
  <2>8. QED BY <2>5, <2>7
<1>2. CASE ~FitsOneWindow(text)
  <2>1. Pieces(text) \in Seq(Small)
    BY <1>2, PiecesType
  <2>2. Windows(Pieces(text)) \in Seq(Fitting)
    BY <2>1, WindowsType
  <2>3. Overlapped(Windows(Pieces(text)), skip) \in Seq(Split)
    BY <2>2, OverlappedType
  <2>4. QED BY <1>2, <2>3 DEF SplitPage
<1>3. QED BY <1>1, <1>2

\* What a window may grow to before a fragment is merged into either end.
Base == IF (13 * Target) \div 10 > (Target + Overlap) + 2 THEN (13 * Target) \div 10
        ELSE (Target + Overlap) + 2

Grown == {w \in Seq(WindowPart) : w # <<>> /\ Width(w) <= Base}

LEMMA BaseFacts ==
    /\ Base \in Int /\ Ceiling = Base + 2 * (MinChunk + 1) /\ Split \subseteq Grown
    /\ \A n \in Int : 10 * n <= 13 * Target => n <= Base
<1> DEFINE o == (Target + Overlap) + 2
           e == (13 * Target) \div 10
<1>1. Target \in Nat /\ Overlap \in Nat /\ MinChunk \in Nat
  BY SizesTyped
<1>2. o \in Int /\ e \in Int /\ \A n \in Int : 10 * n <= 13 * Target => n <= e
  BY <1>1
<1>3. Base = (IF e > o THEN e ELSE o)
  BY DEF Base
<1>4. Ceiling = (IF e > o THEN e ELSE o) + 2 * (MinChunk + 1)
  BY <1>1 DEF Ceiling
<1> HIDE DEF e
<1>5. Base \in Int /\ Base >= o /\ Base >= e
  BY <1>2, <1>3
<1>6. Split \subseteq Grown
  <2>1. SUFFICES ASSUME NEW w \in Split PROVE w \in Grown
    OBVIOUS
  <2>2. w \in Seq(WindowPart) /\ w # <<>> /\ Width(w) <= o
    BY DEF Split
  <2>3. Width(w) \in Int
    BY <2>2, WidthFacts
  <2>4. Width(w) <= Base
    BY <1>2, <1>5, <2>2, <2>3
  <2>5. QED BY <2>2, <2>4 DEF Grown
<1>7. \A n \in Int : 10 * n <= 13 * Target => n <= Base
  BY <1>2, <1>5
<1>8. QED BY <1>3, <1>4, <1>5, <1>6, <1>7

\* Merging a fragment back leaves no two fragments side by side, as the two
\* always fit one window.
Separate(out) ==
    \A i \in 1 .. Len(out) - 1 : ~(Fragment(out[i]) /\ Fragment(out[i + 1]))

LEMMA TwoFragmentsFit ==
    ASSUME NEW v \in Grown, NEW w \in Grown, Fragment(v), Fragment(w)
    PROVE  HasRoomFor(v, w)
<1>1. v \in Seq(WindowPart) /\ w \in Seq(WindowPart)
  BY DEF Grown
<1>2. Width(v) \in Int /\ Width(w) \in Int
  BY <1>1, WidthFacts
<1>3. Width(v) < MinChunk /\ Width(w) < MinChunk
  BY DEF Fragment
<1>4. Target \in Nat /\ MinChunk \in Nat /\ 2 * MinChunk + 2 <= Target
  BY ChunkingAssumption
<1>5. 10 * (Width(v) + Width(w) + 2) <= 13 * Target
  BY <1>2, <1>3, <1>4
<1>6. QED BY <1>5 DEF HasRoomFor

LEMMA JoinFacts ==
    ASSUME NEW v \in Seq(WindowPart), NEW w \in Seq(WindowPart), w # <<>>
    PROVE  /\ v \o w \in Seq(WindowPart) /\ v \o w # <<>>
           /\ Width(v) \in Int /\ Width(w) \in Int
           /\ Width(v \o w) = Width(v) + Width(w) + 2
           /\ Width(v \o w) >= Width(v) + 1 /\ Width(v \o w) >= Width(w)
<1>1. Width(v) \in Int /\ Width(v) >= -2 /\ Width(w) \in Int /\ Width(w) >= -1
  <2>1. v = <<>> => Width(v) = -2
    BY WidthFacts
  <2>2. v # <<>> => Width(v) >= -1 /\ Width(v) \in Int
    BY WidthFacts
  <2>3. w # <<>> => Width(w) >= -1
    BY WidthFacts
  <2>4. Width(w) \in Int
    BY WidthFacts
  <2>5. QED BY <2>1, <2>2, <2>3, <2>4
<1>2. v \o w \in Seq(WindowPart) /\ Width(v \o w) = Width(v) + Width(w) + 2
  BY WidthSplits
<1>3. v \o w # <<>>
  <2>1. Len(w) \in Nat \ {0} /\ Len(v) \in Nat /\ Len(v \o w) = Len(v) + Len(w)
    OBVIOUS
  <2>2. Len(v \o w) # 0 /\ Len(<<>>) = 0
    BY <2>1
  <2>3. QED BY <2>2
<1> DEFINE a == Width(v)
           b == Width(w)
           c == Width(v \o w)
<1> HIDE DEF a, b, c
<1>4. a \in Int /\ b \in Int /\ a >= -2 /\ b >= -1 /\ c = a + b + 2
  BY <1>1, <1>2 DEF a, b, c
<1>5. c >= a + 1 /\ c >= b
  BY <1>4
<1>6. QED BY <1>1, <1>2, <1>3, <1>5 DEF a, b, c

LEMMA BackStep ==
    ASSUME NEW out \in Seq(Grown), Separate(out), NEW window \in Split
    PROVE  MergeBack(out, window) \in Seq(Grown) /\ Separate(MergeBack(out, window))
<1> DEFINE n == Len(out)
<1>1. n \in Nat /\ \A i \in 1 .. n : out[i] \in Grown
  OBVIOUS
<1>2. window \in Grown /\ window \in Seq(WindowPart) /\ window # <<>>
  BY BaseFacts DEF Grown
<1>3. \A i \in 1 .. n - 1 : ~(Fragment(out[i]) /\ Fragment(out[i + 1]))
  BY DEF Separate
<1>4. CASE Fragment(window) /\ out # <<>> /\ HasRoomFor(Last(out), window)
  <2> DEFINE last == out[n]
             s == last \o window
             next == Front(out) \o <<s>>
  <2>1. n \in 1 .. n /\ Last(out) = last
    BY <1>1, <1>4 DEF Last
  <2>2. last \in Grown /\ last \in Seq(WindowPart)
    BY <1>1, <2>1 DEF Grown
  <2>3. MergeBack(out, window) = next
    BY <1>4, <2>1 DEF MergeBack
  <2> HIDE DEF last
  <2>4. s \in Seq(WindowPart) /\ s # <<>> /\ Width(last) \in Int /\ Width(window) \in Int
        /\ Width(s) = Width(last) + Width(window) + 2 /\ Width(s) >= Width(last) + 1
    BY <1>2, <2>2, JoinFacts
  <2> HIDE DEF s
  <2>5. Width(s) \in Int
    BY <2>4
  <2>6. 10 * Width(s) <= 13 * Target
    BY <1>4, <2>1, <2>4 DEF HasRoomFor
  <2>7. s \in Grown
    BY <2>4, <2>5, <2>6, BaseFacts DEF Grown
  <2>8. Fragment(s) => Fragment(last)
    <3>1. MinChunk \in Nat
      BY SizesTyped
    <3>2. QED BY <2>4, <2>5, <3>1 DEF Fragment
  <2>9. /\ next \in Seq(Grown) /\ Len(next) = n
        /\ \A i \in 1 .. n : next[i] = IF i = n THEN s ELSE out[i]
    BY <1>4, <2>7, LastReplaced
  <2> HIDE DEF next, n
  <2>10. ASSUME NEW i \in 1 .. n - 1 PROVE ~(Fragment(next[i]) /\ Fragment(next[i + 1]))
    <3>1. i \in 1 .. n /\ i # n /\ i + 1 \in 1 .. n
      BY <1>1
    <3>2. next[i] = out[i]
      BY <2>9, <3>1
    <3>3. i + 1 = n => next[i + 1] = s /\ out[i + 1] = last
      BY <2>9, <3>1 DEF last
    <3>4. i + 1 # n => next[i + 1] = out[i + 1]
      BY <2>9, <3>1
    <3>5. ~(Fragment(out[i]) /\ Fragment(out[i + 1]))
      BY <1>3
    <3>6. Fragment(next[i + 1]) => Fragment(out[i + 1])
      BY <2>8, <3>3, <3>4
    <3>7. QED BY <3>2, <3>5, <3>6
  <2>11. Separate(next)
    BY <2>9, <2>10 DEF Separate
  <2>12. QED BY <2>3, <2>9, <2>11
<1>5. CASE ~(Fragment(window) /\ out # <<>> /\ HasRoomFor(Last(out), window))
  <2> DEFINE next == Append(out, window)
  <2>1. MergeBack(out, window) = next
    BY <1>5 DEF MergeBack
  <2>2. /\ next \in Seq(Grown) /\ Len(next) = n + 1 /\ next[n + 1] = window
        /\ \A i \in 1 .. n : next[i] = out[i]
    BY <1>2
  <2>3. n # 0 => out # <<>> /\ Last(out) = out[n] /\ out[n] \in Grown
    BY <1>1 DEF Last
  <2>4. n # 0 => ~(Fragment(out[n]) /\ Fragment(window))
    BY <1>2, <1>5, <2>3, TwoFragmentsFit
  <2> HIDE DEF next, n
  <2>5. ASSUME NEW i \in 1 .. (n + 1) - 1 PROVE ~(Fragment(next[i]) /\ Fragment(next[i + 1]))
    <3>1. i \in 1 .. n /\ next[i] = out[i] /\ n # 0
      BY <1>1, <2>2
    <3>2. CASE i = n
      BY <2>2, <2>4, <3>1, <3>2
    <3>3. CASE i # n
      <4>1. i \in 1 .. n - 1 /\ i + 1 \in 1 .. n
        BY <1>1, <3>1, <3>3
      <4>2. next[i + 1] = out[i + 1]
        BY <2>2, <4>1
      <4>3. QED BY <1>3, <3>1, <4>1, <4>2
    <3>4. QED BY <3>2, <3>3
  <2>6. Separate(next)
    BY <2>2, <2>5 DEF Separate
  <2>7. QED BY <2>1, <2>2, <2>6
<1>6. QED BY <1>4, <1>5

LEMMA MergedBackFacts ==
    ASSUME NEW windows \in Seq(Split)
    PROVE  MergedBack(windows) \in Seq(Grown) /\ Separate(MergedBack(windows))
<1> DEFINE n == Len(windows)
           back == MergedBack(windows)
<1>1. windows \in Seq(Seq(WindowPart)) /\ n \in Nat /\ \A k \in 1 .. n : windows[k] \in Split
  BY DEF Split
<1>2. PICK g : BackPath(windows, g)
  BY <1>1, BackSteps
<1>3. g[0] = <<>> /\ (\A k \in 1 .. n : g[k] = MergeBack(g[k - 1], windows[k])) /\ g[n] = back
  BY <1>2 DEF BackPath
<1> HIDE DEF n, back
<1> DEFINE Good == {k \in 0 .. n : g[k] \in Seq(Grown) /\ Separate(g[k])}
<1>4. 0 \in Good
  <2>1. <<>> \in Seq(Grown) /\ Separate(<<>>)
    BY DEF Separate
  <2>2. 0 \in 0 .. n
    BY <1>1
  <2>3. QED BY <1>3, <2>1, <2>2
<1>5. ASSUME NEW k \in 0 .. n - 1, k \in Good PROVE k + 1 \in Good
  <2>1. k + 1 \in 1 .. n /\ (k + 1) - 1 = k /\ k + 1 \in 0 .. n
    BY <1>1
  <2>2. g[k] \in Seq(Grown) /\ Separate(g[k]) /\ windows[k + 1] \in Split
    BY <1>1, <1>5, <2>1
  <2>3. g[k + 1] = MergeBack(g[k], windows[k + 1])
    BY <1>3, <2>1
  <2>4. QED BY <2>1, <2>2, <2>3, BackStep
<1>6. 0 .. n \subseteq Good
  <2> HIDE DEF Good
  <2>1. QED BY <1>1, <1>4, <1>5, UpTo
<1>7. n \in 0 .. n
  BY <1>1
<1>8. QED BY <1>3, <1>6, <1>7 DEF back

\* What is carried forward is a fragment at most; what is done is none, and has
\* grown by a fragment at its head.
Headed == {w \in Seq(WindowPart) : w # <<>> /\ ~Fragment(w) /\ Width(w) <= Base + MinChunk + 1}

ForwardInv(out, k, pass) ==
    /\ pass \in Passes /\ pass.fixed \in Seq(Headed)
    /\ pass.carry = (IF k # 0 /\ Fragment(out[k]) THEN out[k] ELSE <<>>)

LEMMA ForwardStep ==
    ASSUME NEW out \in Seq(Grown), Separate(out), NEW k \in 1 .. Len(out),
           NEW pass, ForwardInv(out, k - 1, pass)
    PROVE  ForwardInv(out, k, MergeForward(pass, out[k]))
<1> DEFINE w == out[k]
           next == MergeForward(pass, w)
<1>1. k \in Nat /\ k # 0 /\ (k - 1 # 0 => k - 1 \in 1 .. Len(out) /\ k - 1 \in 1 .. Len(out) - 1 /\ (k - 1) + 1 = k)
  OBVIOUS
<1>2. w \in Grown
  OBVIOUS
<1>3. w \in Seq(WindowPart) /\ w # <<>> /\ Width(w) <= Base
  BY <1>2 DEF Grown
<1>4. pass \in Passes /\ pass.fixed \in Seq(Headed)
      /\ pass.carry = (IF k - 1 # 0 /\ Fragment(out[k - 1]) THEN out[k - 1] ELSE <<>>)
  BY DEF ForwardInv
<1>5. pass.carry \in Seq(WindowPart)
  BY <1>4 DEF Passes
<1>6. next \in Passes
  BY <1>3, <1>4, MergeForwardType
<1>7. CASE Fragment(w)
  <2>1. pass.carry = <<>>
    <3>1. k - 1 # 0 => ~(Fragment(out[k - 1]) /\ Fragment(w))
      BY <1>1 DEF Separate
    <3>2. QED BY <1>4, <1>7, <3>1
  <2>2. next.fixed = pass.fixed /\ next.carry = pass.carry \o w
    BY <1>4, <1>7 DEF MergeForward, Passes
  <2>3. <<>> \o w = w
    BY <1>3
  <2> HIDE DEF next
  <2>4. next.carry = w
    BY <2>1, <2>2, <2>3
  <2>5. QED BY <1>1, <1>4, <1>6, <1>7, <2>2, <2>4 DEF ForwardInv, next
<1>8. CASE ~Fragment(w)
  <2> DEFINE c == pass.carry
             s == c \o w
  <2>1. next.fixed = Append(pass.fixed, s) /\ next.carry = <<>>
    BY <1>8 DEF MergeForward
  <2>2. c = <<>> \/ Fragment(c)
    BY <1>4
  <2> HIDE DEF c, next, w
  <2>3. c \in Seq(WindowPart)
    BY <1>5 DEF c
  <2>4. /\ s \in Seq(WindowPart) /\ s # <<>> /\ Width(c) \in Int /\ Width(w) \in Int
        /\ Width(s) = Width(c) + Width(w) + 2 /\ Width(s) >= Width(w)
    BY <1>3, <2>3, JoinFacts
  <2>5. MinChunk \in Nat /\ Base \in Int
    BY SizesTyped, BaseFacts
  <2>6. Width(c) <= MinChunk - 1
    <3>1. c = <<>> => Width(c) = -2
      BY <2>3, WidthFacts
    <3>2. Fragment(c) => Width(c) < MinChunk
      BY DEF Fragment
    <3>3. QED BY <2>2, <2>4, <2>5, <3>1, <3>2
  <2> HIDE DEF s
  <2>7. Width(s) \in Int /\ Width(s) <= Base + MinChunk + 1
    BY <1>3, <2>4, <2>5, <2>6
  <2>8. ~Fragment(s)
    BY <1>8, <2>4, <2>5, <2>7 DEF Fragment
  <2>9. s \in Headed
    BY <2>4, <2>7, <2>8 DEF Headed
  <2>10. Append(pass.fixed, s) \in Seq(Headed)
    BY <1>4, <2>9
  <2>11. k # 0 /\ ~Fragment(out[k])
    BY <1>1, <1>8 DEF w
  <2>12. QED BY <1>6, <2>1, <2>10, <2>11 DEF ForwardInv, next, w
<1>9. QED BY <1>7, <1>8

LEMMA MergedForwardFacts ==
    ASSUME NEW out \in Seq(Grown), Separate(out)
    PROVE  LET pass == MergedForward(out)
           IN  /\ pass.fixed \in Seq(Headed) /\ pass.carry \in Seq(WindowPart)
               /\ pass.carry = <<>> \/ Fragment(pass.carry)
<1> DEFINE n == Len(out)
           pass == MergedForward(out)
<1>1. out \in Seq(Seq(WindowPart)) /\ n \in Nat
  BY DEF Grown
<1>2. PICK g : ForwardPath(out, g)
  BY <1>1, ForwardSteps
<1>3. g[0] = Uncarried /\ (\A k \in 1 .. n : g[k] = MergeForward(g[k - 1], out[k])) /\ g[n] = pass
  BY <1>2 DEF ForwardPath
<1> HIDE DEF pass
<1> DEFINE Good == {k \in 0 .. n : ForwardInv(out, k, g[k])}
<1>4. 0 \in Good
  <2>1. ForwardInv(out, 0, Uncarried)
    BY MergeForwardType DEF ForwardInv, Uncarried
  <2>2. 0 \in 0 .. n
    BY <1>1
  <2>3. QED BY <1>3, <2>1, <2>2
<1>5. ASSUME NEW k \in 0 .. n - 1, k \in Good PROVE k + 1 \in Good
  <2>1. k + 1 \in 1 .. n /\ (k + 1) - 1 = k /\ k + 1 \in 0 .. n
    BY <1>1
  <2>2. ForwardInv(out, (k + 1) - 1, g[k])
    BY <1>5, <2>1
  <2>3. g[k + 1] = MergeForward(g[k], out[k + 1])
    BY <1>3, <2>1
  <2>4. ForwardInv(out, k + 1, MergeForward(g[k], out[k + 1]))
    BY <2>1, <2>2, ForwardStep
  <2>5. QED BY <2>1, <2>3, <2>4
<1>6. 0 .. n \subseteq Good
  <2> HIDE DEF Good, n
  <2>1. QED BY <1>1, <1>4, <1>5, UpTo
<1>7. ForwardInv(out, n, pass)
  <2>1. n \in 0 .. n
    BY <1>1
  <2>2. QED BY <1>3, <1>6, <2>1
<1>8. QED BY <1>7 DEF ForwardInv, Passes, pass

\* A list of chunks has no fragment, or is one chunk; and none is too large.
Sized(chunks) ==
    \A k \in 1 .. Len(chunks) :
        Width(chunks[k]) <= Ceiling /\ (Fragment(chunks[k]) => Len(chunks) = 1)

LEMMA AbsorbedSized ==
    ASSUME NEW windows \in Seq(Split)
    PROVE  AbsorbFragments(windows) \in Seq(Seq(WindowPart)) /\ Sized(AbsorbFragments(windows))
<1>1. MinChunk \in Nat /\ Base \in Int /\ Ceiling = Base + 2 * (MinChunk + 1)
  BY SizesTyped, BaseFacts
<1>2. CASE Len(windows) = 1
  <2>1. AbsorbFragments(windows) = windows
    BY <1>2 DEF AbsorbFragments
  <2>2. windows \in Seq(Seq(WindowPart))
    BY DEF Split
  <2>3. ASSUME NEW k \in 1 .. Len(windows) PROVE Width(windows[k]) <= Ceiling
    <3>1. windows[k] \in Grown
      BY BaseFacts
    <3>2. Width(windows[k]) <= Base /\ Width(windows[k]) \in Int
      BY <3>1, WidthFacts DEF Grown
    <3>3. QED BY <1>1, <3>2
  <2>4. QED BY <1>2, <2>1, <2>2, <2>3 DEF Sized
<1>3. CASE Len(windows) # 1
  <2> DEFINE out == MergedBack(windows)
             pass == MergedForward(out)
             fixed == pass.fixed
             carry == pass.carry
  <2>1. AbsorbFragments(windows) = PlaceCarry(pass)
    BY <1>3 DEF AbsorbFragments, MergedForward, MergedBack, Uncarried
  <2>2. out \in Seq(Grown) /\ Separate(out)
    BY MergedBackFacts
  <2> HIDE DEF out
  <2>3. fixed \in Seq(Headed) /\ carry \in Seq(WindowPart) /\ (carry = <<>> \/ Fragment(carry))
    BY <2>2, MergedForwardFacts
  <2>4. PlaceCarry(pass) =
           IF carry = <<>> THEN fixed
           ELSE IF ~Fragment(carry) THEN Append(fixed, carry)
           ELSE IF fixed # <<>> THEN Front(fixed) \o <<Last(fixed) \o carry>>
           ELSE <<>>
    BY DEF PlaceCarry
  <2> HIDE DEF pass, fixed, carry
  <2> DEFINE Full == {w \in Seq(WindowPart) : ~Fragment(w) /\ Width(w) <= Ceiling}
  <2>5. Headed \subseteq Full
    <3>1. SUFFICES ASSUME NEW w \in Headed PROVE w \in Full
      OBVIOUS
    <3>2. w \in Seq(WindowPart) /\ ~Fragment(w) /\ Width(w) <= Base + MinChunk + 1
      BY DEF Headed
    <3>3. Width(w) \in Int
      BY <3>2, WidthFacts
    <3>4. Width(w) <= Ceiling
      BY <1>1, <3>2, <3>3
    <3>5. QED BY <3>2, <3>4
  <2>6. PlaceCarry(pass) \in Seq(Full)
    <3>1. CASE carry = <<>>
      <4>1. PlaceCarry(pass) = fixed
        BY <2>4, <3>1
      <4> HIDE DEF Full
      <4>2. QED BY <2>3, <2>5, <4>1
    <3>2. CASE carry # <<>> /\ fixed # <<>>
      <4> DEFINE last == Last(fixed)
                 s == last \o carry
      <4>1. Fragment(carry)
        BY <2>3, <3>2
      <4>2. PlaceCarry(pass) = Front(fixed) \o <<s>>
        BY <2>4, <3>2, <4>1
      <4>3. last \in Headed
        <5>1. Len(fixed) \in 1 .. Len(fixed)
          BY <2>3, <3>2
        <5>2. QED BY <2>3, <5>1 DEF Last
      <4> HIDE DEF last
      <4>4. last \in Seq(WindowPart) /\ ~Fragment(last) /\ Width(last) <= Base + MinChunk + 1
        BY <4>3 DEF Headed
      <4>5. /\ s \in Seq(WindowPart) /\ Width(last) \in Int /\ Width(carry) \in Int
            /\ Width(s) = Width(last) + Width(carry) + 2 /\ Width(s) >= Width(last) + 1
        BY <2>3, <3>2, <4>4, JoinFacts
      <4> HIDE DEF s
      <4>6. Width(carry) < MinChunk /\ ~(Width(last) < MinChunk)
        BY <4>1, <4>4 DEF Fragment
      <4>7. Width(s) \in Int /\ ~(Width(s) < MinChunk) /\ Width(s) <= Ceiling
        BY <1>1, <4>4, <4>5, <4>6
      <4>8. s \in Full
        BY <4>5, <4>7 DEF Fragment
      <4> HIDE DEF Full
      <4>9. fixed \in Seq(Full)
        BY <2>3, <2>5
      <4>10. Front(fixed) \o <<s>> \in Seq(Full)
        BY <3>2, <4>8, <4>9, LastReplaced
      <4>11. QED BY <4>2, <4>10
    <3>3. CASE carry # <<>> /\ fixed = <<>>
      <4>1. Fragment(carry)
        BY <2>3, <3>3
      <4>2. PlaceCarry(pass) = <<>>
        BY <2>4, <3>3, <4>1
      <4> HIDE DEF Full
      <4>3. QED BY <4>2
    <3>4. QED BY <3>1, <3>2, <3>3
  <2> DEFINE chunks == PlaceCarry(pass)
  <2> HIDE DEF chunks
  <2>7. chunks \in Seq(Full)
    BY <2>6 DEF chunks
  <2>8. \A k \in 1 .. Len(chunks) : chunks[k] \in Full
    <3> HIDE DEF Full
    <3>1. QED BY <2>7
  <2>9. \A k \in 1 .. Len(chunks) : ~Fragment(chunks[k]) /\ Width(chunks[k]) <= Ceiling
    BY <2>8
  <2>10. chunks \in Seq(Seq(WindowPart))
    BY <2>7
  <2>11. QED BY <2>1, <2>9, <2>10 DEF Sized, chunks
<1>4. QED BY <1>2, <1>3

-----------------------------------------------------------------------------
(* Chunking keeps the text. *)

\* The text of a window: what no other window before it has.
Own(parts) == Those(OwnParts, parts)

LEMMA OwnFacts ==
    ASSUME NEW a \in Seq(WindowPart), NEW b \in Seq(WindowPart)
    PROVE  Own(a) \in Seq(WindowPart) /\ Own(a \o b) = Own(a) \o Own(b)
<1>1. Those(OwnParts, a) \in Seq(WindowPart)
  BY ThoseType
<1>2. Those(OwnParts, a \o b) = Those(OwnParts, a) \o Those(OwnParts, b)
  BY ThoseSplits
<1>3. QED BY <1>1, <1>2 DEF Own

LEMMA OwnTextIsOwn ==
    ASSUME NEW chunks \in Seq(Seq(WindowPart))
    PROVE  OwnText(chunks) = Own(FlattenSeq(chunks))
<1> DEFINE parts == FlattenSeq(chunks)
           S == {part \in ToSet(parts) : ~part.tail}
<1>1. parts \in Seq(WindowPart)
  BY FlattenFacts
<1> HIDE DEF parts
<1>2. \A i \in 1 .. Len(parts) : parts[i] \in WindowPart /\ parts[i] \in ToSet(parts)
  <2>1. \A i \in 1 .. Len(parts) : parts[i] \in WindowPart /\ i \in DOMAIN parts
    BY <1>1
  <2>2. QED BY <2>1 DEF ToSet
<1>3. \A i \in 1 .. Len(parts) : parts[i] \in S <=> parts[i] \in OwnParts
  BY <1>2 DEF OwnParts
<1> HIDE DEF S
<1>4. Those(S, parts) = Those(OwnParts, parts)
  BY <1>1, <1>3, ThoseSame
<1>5. QED BY <1>4 DEF OwnText, Own, parts, S

\* Leaving something out makes no window larger.
LEMMA OwnIsSmaller ==
    ASSUME NEW parts \in Seq(WindowPart)
    PROVE  Width(Own(parts)) <= Width(parts)
<1> DEFINE n == Len(parts)
           Lead(k) == SubSeq(parts, 1, k)
<1>1. n \in Nat /\ \A k \in 1 .. n : parts[k] \in WindowPart
  OBVIOUS
<1>2. PICK g : ThosePath(OwnParts, parts, g)
  BY ThoseSteps
<1>3. g[0] = <<>> /\ (\A k \in 1 .. n : g[k] = KeepIn(OwnParts, g[k - 1], parts[k])) /\ g[n] = Own(parts)
  BY <1>2 DEF ThosePath, Own
<1>4. \A k \in 0 .. n : Lead(k) \in Seq(WindowPart)
  BY HeadFacts
<1>5. \A k \in 0 .. n - 1 : Lead(k + 1) = Lead(k) \o <<parts[k + 1]>>
  OBVIOUS
<1>6. Lead(0) = <<>> /\ Lead(n) = parts
  OBVIOUS
<1> HIDE DEF n, Lead
<1> DEFINE Good == {k \in 0 .. n : g[k] \in Seq(WindowPart) /\ Width(g[k]) <= Width(Lead(k))}
<1>7. 0 \in Good
  <2>1. 0 \in 0 .. n /\ <<>> \in Seq(WindowPart)
    BY <1>1
  <2>2. Width(<<>>) = -2
    BY <2>1, WidthFacts
  <2>3. Width(g[0]) = -2 /\ Width(Lead(0)) = -2 /\ g[0] \in Seq(WindowPart)
    BY <1>3, <1>6, <2>1, <2>2
  <2>4. Width(g[0]) <= Width(Lead(0))
    BY <2>3
  <2>5. QED BY <2>1, <2>3, <2>4
<1>8. ASSUME NEW k \in 0 .. n - 1, k \in Good PROVE k + 1 \in Good
  <2> DEFINE p == parts[k + 1]
  <2>1. k + 1 \in 1 .. n /\ (k + 1) - 1 = k /\ k + 1 \in 0 .. n /\ k \in 0 .. n
    BY <1>1
  <2>2. g[k] \in Seq(WindowPart) /\ Width(g[k]) <= Width(Lead(k)) /\ p \in WindowPart
    BY <1>1, <1>8, <2>1
  <2>3. Lead(k) \in Seq(WindowPart) /\ <<p>> \in Seq(WindowPart) /\ Lead(k + 1) = Lead(k) \o <<p>>
    BY <1>4, <1>5, <2>1, <2>2
  <2>4. g[k + 1] = KeepIn(OwnParts, g[k], p)
    BY <1>3, <2>1
  <2> HIDE DEF p
  <2>5. Width(Lead(k)) \in Int /\ Width(g[k]) \in Int /\ Width(<<p>>) \in Int /\ Width(<<p>>) >= -1
    <3>1. <<p>> # <<>>
      OBVIOUS
    <3>2. QED BY <2>2, <2>3, <3>1, WidthFacts
  <2>6. Width(Lead(k + 1)) = Width(Lead(k)) + Width(<<p>>) + 2
    BY <2>3, WidthSplits
  <2>7. CASE p \in OwnParts
    <3>1. g[k + 1] = g[k] \o <<p>>
      BY <2>2, <2>4, <2>7 DEF KeepIn
    <3>2. g[k] \o <<p>> \in Seq(WindowPart) /\ Width(g[k] \o <<p>>) = Width(g[k]) + Width(<<p>>) + 2
      BY <2>2, <2>3, WidthSplits
    <3>3. Width(g[k + 1]) <= Width(Lead(k + 1))
      BY <2>2, <2>5, <2>6, <3>1, <3>2
    <3>4. QED BY <2>1, <3>1, <3>2, <3>3
  <2>8. CASE p \notin OwnParts
    <3>1. g[k + 1] = g[k]
      BY <2>4, <2>8 DEF KeepIn
    <3>2. Width(g[k + 1]) <= Width(Lead(k + 1))
      BY <2>2, <2>5, <2>6, <3>1
    <3>3. QED BY <2>1, <2>2, <3>1, <3>2
  <2>9. QED BY <2>7, <2>8
<1>9. 0 .. n \subseteq Good
  <2> HIDE DEF Good
  <2>1. QED BY <1>1, <1>7, <1>8, UpTo
<1>10. n \in 0 .. n
  BY <1>1
<1>11. QED BY <1>3, <1>6, <1>9, <1>10

\* The windows filled so far and the one being filled are the pieces so far, and
\* a window is finished only for a text that is more than one window.
FillInv(pieces, k, f) ==
    /\ PackInv(f)
    /\ FlattenSeq(f.done) \o f.current = SubSeq(pieces, 1, k)
    /\ f.done = <<>> /\ f.current # <<>> => f.length = Width(f.current)
    /\ f.done # <<>> => f.current # <<>> /\ Width(SubSeq(pieces, 1, k)) > Target

LEMMA FillStep ==
    ASSUME NEW pieces \in Seq(Small), NEW k \in 0 .. Len(pieces) - 1, NEW f, FillInv(pieces, k, f)
    PROVE  FillInv(pieces, k + 1, PutPiece(f, pieces[k + 1]))
<1> DEFINE piece == pieces[k + 1]
           next == PutPiece(f, piece)
           addition == piece.len + (IF f.current = <<>> THEN 0 ELSE 2)
           head == SubSeq(pieces, 1, k)
           more == SubSeq(pieces, 1, k + 1)
<1>1. piece \in Small /\ pieces \in Seq(WindowPart) /\ k \in 0 .. Len(pieces) /\ k + 1 \in 0 .. Len(pieces)
  <2>1. Small \subseteq WindowPart
    BY DEF Small, OwnParts
  <2>2. pieces \in Seq(WindowPart)
    BY <2>1
  <2>3. QED BY <2>2
<1>2. piece \in WindowPart /\ piece.len \in Int
  BY <1>1 DEF Small, OwnParts, WindowPart
<1>3. head \in Seq(WindowPart) /\ more \in Seq(WindowPart)
  BY <1>1, HeadFacts
<1>4. more = head \o <<piece>>
  OBVIOUS
<1>5. PackInv(f) /\ PackInv(next)
  BY <1>1, PackStep DEF FillInv
<1>6. f \in Packs /\ f.done \in Seq(Seq(WindowPart)) /\ f.current \in Seq(WindowPart) /\ f.length \in Int
  BY <1>5 DEF PackInv, Packs
<1>7. FlattenSeq(f.done) \o f.current = head
  BY DEF FillInv
<1> HIDE DEF head, more, piece
<1>8. <<piece>> \in Seq(WindowPart) /\ <<piece>> # <<>> /\ Width(<<piece>>) = piece.len /\ piece.len >= -1
  <2>1. <<piece>> \in Seq(WindowPart) /\ Len(<<piece>>) = 1 /\ <<piece>>[1] = piece /\ <<piece>> # <<>>
    BY <1>2
  <2>2. Width(<<piece>>) = piece.len
    BY <2>1, WidthFacts
  <2>3. QED BY <1>2, <2>1, <2>2 DEF WindowPart
<1>9. Width(more) = Width(head) + piece.len + 2 /\ Width(head) \in Int
  <2>1. Width(head \o <<piece>>) = Width(head) + Width(<<piece>>) + 2
    BY <1>3, <1>8, WidthSplits
  <2>2. Width(head) \in Int
    BY <1>3, WidthFacts
  <2>3. QED BY <1>4, <1>8, <2>1, <2>2
<1>10. FlattenSeq(f.done) \in Seq(WindowPart)
  BY <1>6, FlattenFacts
<1>11. Target \in Nat
  BY SizesTyped
<1>12. f.done # <<>> => f.current # <<>> /\ Width(head) > Target
  BY DEF FillInv, head
<1>13. f.done = <<>> /\ f.current # <<>> => f.length = Width(f.current)
  BY DEF FillInv
<1>14. f.done = <<>> => f.current = head
  <2>1. FlattenSeq(<<>>) = <<>>
    BY DEF FlattenSeq
  <2>2. <<>> \o f.current = f.current
    BY <1>6
  <2>3. QED BY <1>7, <2>1, <2>2
<1>15. CASE Overfull(f, addition)
  <2>1. f.current # <<>> /\ addition = piece.len + 2 /\ f.length + addition > Target
    BY <1>15 DEF Overfull
  <2>2. next.done = Append(f.done, f.current) /\ next.current = <<piece>> /\ next.length = addition
    BY <1>15 DEF PutPiece
  <2> HIDE DEF next, addition
  <2>3. FlattenSeq(Append(f.done, f.current)) = FlattenSeq(f.done) \o f.current
    BY <1>6, FlattenAppended
  <2>4. FlattenSeq(next.done) \o next.current = more
    BY <1>4, <1>7, <2>2, <2>3
  <2>5. next.done # <<>>
    <3>1. Append(f.done, f.current) # <<>>
      BY <1>6, Appended
    <3>2. QED BY <2>2, <3>1
  <2>6. Width(more) > Target
    <3>1. CASE f.done = <<>>
      <4>1. f.length = Width(head)
        BY <1>13, <1>14, <2>1, <3>1
      <4>2. QED BY <1>2, <1>6, <1>9, <1>11, <2>1, <4>1
    <3>2. CASE f.done # <<>>
      BY <1>2, <1>8, <1>9, <1>11, <1>12, <3>2
    <3>3. QED BY <3>1, <3>2
  <2>7. next.current # <<>>
    BY <1>8, <2>2
  <2>8. QED BY <1>5, <2>4, <2>5, <2>6, <2>7 DEF FillInv, next, piece, more
<1>16. CASE ~Overfull(f, addition)
  <2>1. next.done = f.done /\ next.current = Append(f.current, piece) /\ next.length = f.length + addition
    BY <1>6, <1>16 DEF PutPiece, Packs
  <2>2. f.current = <<>> => addition = piece.len
    BY <1>2
  <2>3. f.current # <<>> => addition = piece.len + 2
    OBVIOUS
  <2>4. f.current = <<>> => f.length = 0
    BY <1>5 DEF PackInv
  <2> HIDE DEF next, addition
  <2>5. next.current = f.current \o <<piece>> /\ next.current # <<>>
    BY <1>2, <1>6, <2>1, Appended
  <2>6. FlattenSeq(next.done) \o next.current = more
    <3> DEFINE done == FlattenSeq(f.done)
               current == f.current
               last == <<piece>>
    <3>1. done \in Seq(WindowPart) /\ current \in Seq(WindowPart) /\ last \in Seq(WindowPart)
      BY <1>6, <1>8, <1>10
    <3> HIDE DEF done, current, last
    <3>2. done \o (current \o last) = (done \o current) \o last
      BY <3>1
    <3>3. QED BY <1>4, <1>7, <2>1, <2>5, <3>2 DEF done, current, last
  <2>7. Width(next.current) = Width(f.current) + piece.len + 2 /\ Width(f.current) \in Int
    <3>1. Width(f.current \o <<piece>>) = Width(f.current) + Width(<<piece>>) + 2
      BY <1>6, <1>8, WidthSplits
    <3>2. Width(f.current) \in Int
      BY <1>6, WidthFacts
    <3>3. QED BY <1>8, <2>5, <3>1, <3>2
  <2>8. next.done = <<>> => next.length = Width(next.current)
    <3>1. CASE f.current = <<>>
      <4>1. Width(f.current) = -2
        BY <1>6, <3>1, WidthFacts
      <4>2. QED BY <1>2, <2>1, <2>2, <2>4, <2>7, <3>1, <4>1
    <3>2. CASE f.current # <<>>
      <4>1. next.done = <<>> => next.length = Width(f.current) + (piece.len + 2)
        BY <1>13, <2>1, <2>3, <3>2
      <4>2. Width(next.current) = Width(f.current) + (piece.len + 2)
        BY <1>2, <2>7
      <4>3. QED BY <4>1, <4>2
    <3>3. QED BY <3>1, <3>2
  <2>9. next.done # <<>> => Width(more) > Target
    BY <1>2, <1>8, <1>9, <1>11, <1>12, <2>1
  <2>10. QED BY <1>5, <2>5, <2>6, <2>8, <2>9 DEF FillInv, next, piece, more
<1>17. QED BY <1>15, <1>16

LEMMA WindowsKeepPieces ==
    ASSUME NEW pieces \in Seq(Small)
    PROVE  /\ FlattenSeq(Windows(pieces)) = pieces
           /\ Len(Windows(pieces)) > 1 => Width(pieces) > Target
<1> DEFINE n == Len(pieces)
           filled == Packing(pieces)
<1>1. pieces \in Seq(WindowPart) /\ n \in Nat /\ SubSeq(pieces, 1, 0) = <<>> /\ SubSeq(pieces, 1, n) = pieces
  <2>1. Small \subseteq WindowPart
    BY DEF Small, OwnParts
  <2>2. pieces \in Seq(WindowPart)
    BY <2>1
  <2>3. QED BY <2>2
<1>2. PICK g : PackPath(pieces, g)
  BY <1>1, PackSteps
<1>3. g[0] = Unpacked /\ (\A k \in 1 .. n : g[k] = PutPiece(g[k - 1], pieces[k])) /\ g[n] = filled
  BY <1>2 DEF PackPath
<1> HIDE DEF filled
<1> DEFINE Good == {k \in 0 .. n : FillInv(pieces, k, g[k])}
<1>4. 0 \in Good
  <2>1. PackInv(Unpacked)
    BY PutPieceType DEF PackInv, Unpacked
  <2>2. FlattenSeq(<<>>) = <<>> /\ <<>> \o <<>> = <<>>
    BY DEF FlattenSeq
  <2>3. FillInv(pieces, 0, Unpacked)
    BY <1>1, <2>1, <2>2 DEF FillInv, Unpacked
  <2>4. 0 \in 0 .. n
    BY <1>1
  <2>5. QED BY <1>3, <2>3, <2>4
<1>5. ASSUME NEW k \in 0 .. n - 1, k \in Good PROVE k + 1 \in Good
  <2>1. k + 1 \in 1 .. n /\ (k + 1) - 1 = k /\ k + 1 \in 0 .. n
    BY <1>1
  <2>2. g[k + 1] = PutPiece(g[k], pieces[k + 1])
    BY <1>3, <2>1
  <2>3. FillInv(pieces, k, g[k])
    BY <1>5
  <2>4. FillInv(pieces, k + 1, PutPiece(g[k], pieces[k + 1]))
    BY <2>3, FillStep
  <2>5. QED BY <2>1, <2>2, <2>4
<1>6. 0 .. n \subseteq Good
  <2> HIDE DEF Good, n
  <2>1. QED BY <1>1, <1>4, <1>5, UpTo
<1>7. FillInv(pieces, n, filled)
  <2>1. n \in 0 .. n
    BY <1>1
  <2>2. QED BY <1>3, <1>6, <2>1
<1>8. Windows(pieces) = IF filled.current = <<>> THEN filled.done ELSE Append(filled.done, filled.current)
  BY DEF Windows, Packing, Unpacked, filled
<1>9. /\ FlattenSeq(filled.done) \o filled.current = pieces
      /\ filled.done # <<>> => filled.current # <<>> /\ Width(pieces) > Target
      /\ filled.done \in Seq(Seq(WindowPart)) /\ filled.current \in Seq(WindowPart)
  BY <1>1, <1>7 DEF FillInv, PackInv, Packs
<1>10. CASE filled.current = <<>>
  <2>1. filled.done = <<>> /\ Windows(pieces) = <<>>
    BY <1>8, <1>9, <1>10
  <2>2. FlattenSeq(<<>>) = <<>> /\ <<>> \o <<>> = <<>> /\ Len(<<>>) = 0
    BY DEF FlattenSeq
  <2>3. QED BY <1>9, <1>10, <2>1, <2>2
<1>11. CASE filled.current # <<>>
  <2>1. Windows(pieces) = Append(filled.done, filled.current)
    BY <1>8, <1>11
  <2>2. FlattenSeq(Append(filled.done, filled.current)) = FlattenSeq(filled.done) \o filled.current
    BY <1>9, FlattenAppended
  <2>3. filled.done = <<>> => Len(Append(filled.done, filled.current)) = 1
    OBVIOUS
  <2>4. QED BY <1>9, <2>1, <2>2, <2>3
<1>12. QED BY <1>10, <1>11

\* What is carried over is nobody's own.
LEMMA OverlapOwnsNothing ==
    ASSUME NEW windows \in Seq(Fitting), NEW skip \in Nat
    PROVE  Own(FlattenSeq(Overlapped(windows, skip))) = Own(FlattenSeq(windows))
<1> DEFINE n == Len(windows)
           over == Overlapped(windows, skip)
           Carry(i) == IF i = 1 THEN <<>> ELSE CarriedTail(windows[i - 1], skip)
<1>1. windows \in Seq(Seq(WindowPart)) /\ n \in Nat /\ DOMAIN windows = 1 .. n
      /\ \A i \in 1 .. n : windows[i] \in Seq(WindowPart)
  <2>1. Fitting \subseteq Seq(WindowPart)
    BY DEF Fitting
  <2>2. windows \in Seq(Seq(WindowPart))
    BY <2>1
  <2>3. QED BY <2>2
<1>2. over \in Seq(Seq(WindowPart)) /\ Len(over) = n
  <2>1. over \in Seq(Split)
    BY OverlappedType
  <2>2. Split \subseteq Seq(WindowPart)
    BY DEF Split
  <2>3. Len(over) = n
    BY <1>1 DEF Overlapped
  <2> HIDE DEF over
  <2>4. over \in Seq(Seq(WindowPart))
    BY <2>1, <2>2
  <2>5. QED BY <2>3, <2>4
<1>3. \A i \in 1 .. n : Carry(i) \in Seq(WindowPart) /\ over[i] = Carry(i) \o windows[i] /\ Own(Carry(i)) = <<>>
  <2>1. SUFFICES ASSUME NEW i \in 1 .. n
                 PROVE  Carry(i) \in Seq(WindowPart) /\ over[i] = Carry(i) \o windows[i] /\ Own(Carry(i)) = <<>>
    OBVIOUS
  <2>2. over[i] = IF i = 1 THEN windows[1] ELSE CarriedTail(windows[i - 1], skip) \o windows[i]
    BY <1>1 DEF Overlapped
  <2>3. \A j \in 1 .. Len(Carry(i)) : Carry(i)[j] \notin OwnParts
    <3>1. CASE Carry(i) = <<>>
      <4>1. Len(<<>>) = 0
        OBVIOUS
      <4>2. QED BY <3>1, <4>1
    <3>2. CASE Carry(i) # <<>>
      <4>1. \E m : Carry(i) = <<[at |-> <<>>, len |-> m, tail |-> TRUE]>>
        BY <3>2 DEF CarriedTail
      <4>2. PICK m : Carry(i) = <<[at |-> <<>>, len |-> m, tail |-> TRUE]>>
        BY <4>1
      <4> DEFINE part == [at |-> <<>>, len |-> m, tail |-> TRUE]
      <4>3. \A j \in 1 .. Len(Carry(i)) : j = 1 /\ Carry(i)[j].tail
        <5>1. part.tail
          OBVIOUS
        <5> HIDE DEF part, Carry
        <5>2. Carry(i) = <<part>>
          BY <4>2 DEF part
        <5>3. \A j \in 1 .. Len(<<part>>) : j = 1 /\ <<part>>[j] = part
          OBVIOUS
        <5>4. QED BY <5>1, <5>2, <5>3
      <4>4. QED BY <4>3 DEF OwnParts
    <3>3. QED BY <3>1, <3>2
  <2>4. Carry(i) \in Seq(WindowPart)
    <3>1. CASE i = 1
      BY <3>1
    <3>2. CASE i # 1
      <4>1. i - 1 \in 1 .. n
        BY <1>1, <3>2
      <4>2. CarriedTail(windows[i - 1], skip) \in Seq(WindowPart)
        BY <1>1, <4>1, CarriedTailFacts
      <4>3. QED BY <3>2, <4>2
    <3>3. QED BY <3>1, <3>2
  <2>5. over[i] = Carry(i) \o windows[i]
    <3>1. <<>> \o windows[i] = windows[i]
      BY <1>1
    <3>2. QED BY <2>2, <3>1
  <2> HIDE DEF Carry
  <2>6. Own(Carry(i)) = <<>>
    BY <2>3, <2>4, ThoseNone DEF Own
  <2>7. QED BY <2>4, <2>5, <2>6
<1> HIDE DEF over, Carry
<1>4. PICK f : Flattening(windows, f) /\ \A k \in 0 .. n : f[k] \in Seq(WindowPart)
  BY <1>1, FlattenSteps
<1>5. f[0] = <<>> /\ (\A k \in 1 .. n : f[k] = f[k - 1] \o windows[k]) /\ f[n] = FlattenSeq(windows)
  BY <1>4 DEF Flattening
<1>6. \E h : Flattening(over, h) /\ \A k \in 0 .. Len(over) : h[k] \in Seq(WindowPart)
  BY <1>2, FlattenSteps
<1>7. PICK h : Flattening(over, h) /\ \A k \in 0 .. n : h[k] \in Seq(WindowPart)
  BY <1>2, <1>6
<1>8. h[0] = <<>> /\ (\A k \in 1 .. n : h[k] = h[k - 1] \o over[k]) /\ h[n] = FlattenSeq(over)
  BY <1>2, <1>7 DEF Flattening
<1> HIDE DEF n
<1> DEFINE Good == {k \in 0 .. n : Own(h[k]) = Own(f[k])}
<1>9. 0 \in Good
  BY <1>1, <1>5, <1>8
<1>10. ASSUME NEW k \in 0 .. n - 1, k \in Good PROVE k + 1 \in Good
  <2> DEFINE i == k + 1
             t == Carry(i)
             w == windows[i]
  <2>1. i \in 1 .. n /\ i - 1 = k /\ i \in 0 .. n /\ k \in 0 .. n
    BY <1>1
  <2>2. h[k] \in Seq(WindowPart) /\ f[k] \in Seq(WindowPart) /\ t \in Seq(WindowPart) /\ w \in Seq(WindowPart)
    BY <1>1, <1>3, <1>4, <1>7, <2>1
  <2>3. h[i] = h[k] \o over[i] /\ f[i] = f[k] \o w /\ over[i] = t \o w /\ Own(t) = <<>>
    BY <1>3, <1>5, <1>8, <2>1
  <2>4. Own(h[k]) = Own(f[k])
    BY <1>10
  <2> HIDE DEF i, t, w
  <2>5. t \o w \in Seq(WindowPart)
    BY <2>2
  <2>6. Own(t \o w) = Own(w)
    <3>1. Own(t \o w) = Own(t) \o Own(w) /\ Own(w) \in Seq(WindowPart)
      BY <2>2, OwnFacts
    <3>2. <<>> \o Own(w) = Own(w)
      BY <3>1
    <3>3. QED BY <2>3, <3>1, <3>2
  <2>7. Own(h[k] \o (t \o w)) = Own(h[k]) \o Own(t \o w)
    BY <2>2, <2>5, OwnFacts
  <2>8. Own(f[k] \o w) = Own(f[k]) \o Own(w)
    BY <2>2, OwnFacts
  <2>9. Own(h[i]) = Own(f[i])
    BY <2>3, <2>4, <2>6, <2>7, <2>8
  <2>10. QED BY <2>1, <2>9 DEF i
<1>11. 0 .. n \subseteq Good
  <2> HIDE DEF Good
  <2>1. QED BY <1>1, <1>9, <1>10, UpTo
<1>12. n \in 0 .. n
  BY <1>1
<1>13. QED BY <1>5, <1>8, <1>11, <1>12 DEF over

\* No pass over the windows loses a part.
LEMMA BackKeeps ==
    ASSUME NEW out \in Seq(Seq(WindowPart)), NEW window \in Seq(WindowPart)
    PROVE  FlattenSeq(MergeBack(out, window)) = FlattenSeq(out) \o window
<1>1. CASE Fragment(window) /\ out # <<>> /\ HasRoomFor(Last(out), window)
  <2>1. MergeBack(out, window) = Front(out) \o <<Last(out) \o window>>
    BY <1>1 DEF MergeBack
  <2>2. FlattenSeq(Front(out) \o <<Last(out) \o window>>) = FlattenSeq(out) \o window
    BY <1>1, FlattenExtended
  <2>3. QED BY <2>1, <2>2
<1>2. CASE ~(Fragment(window) /\ out # <<>> /\ HasRoomFor(Last(out), window))
  <2>1. MergeBack(out, window) = Append(out, window)
    BY <1>2 DEF MergeBack
  <2>2. FlattenSeq(Append(out, window)) = FlattenSeq(out) \o window
    BY FlattenAppended
  <2>3. QED BY <2>1, <2>2
<1>3. QED BY <1>1, <1>2

LEMMA MergedBackKeeps ==
    ASSUME NEW windows \in Seq(Seq(WindowPart))
    PROVE  /\ MergedBack(windows) \in Seq(Seq(WindowPart))
           /\ FlattenSeq(MergedBack(windows)) = FlattenSeq(windows)
<1> DEFINE n == Len(windows)
           W == Seq(WindowPart)
<1>1. n \in Nat /\ \A k \in 1 .. n : windows[k] \in W
  OBVIOUS
<1>2. PICK g : BackPath(windows, g)
  BY BackSteps
<1>3. g[0] = <<>> /\ (\A k \in 1 .. n : g[k] = MergeBack(g[k - 1], windows[k])) /\ g[n] = MergedBack(windows)
  BY <1>2 DEF BackPath
<1> HIDE DEF n
<1> DEFINE Good == {k \in 0 .. n : g[k] \in Seq(W)}
<1>4. 0 \in Good
  <2>1. 0 \in 0 .. n /\ <<>> \in Seq(W)
    BY <1>1
  <2>2. QED BY <1>3, <2>1
<1>5. ASSUME NEW k \in 0 .. n - 1, k \in Good PROVE k + 1 \in Good
  <2>1. k + 1 \in 1 .. n /\ (k + 1) - 1 = k /\ k + 1 \in 0 .. n
    BY <1>1
  <2>2. g[k] \in Seq(W) /\ windows[k + 1] \in W
    BY <1>1, <1>5, <2>1
  <2>3. g[k + 1] = MergeBack(g[k], windows[k + 1])
    BY <1>3, <2>1
  <2>4. QED BY <2>1, <2>2, <2>3, MergeBackType
<1>6. 0 .. n \subseteq Good
  <2> HIDE DEF Good
  <2>1. QED BY <1>1, <1>4, <1>5, UpTo
<1> DEFINE f == [k \in 0 .. n |-> FlattenSeq(g[k])]
<1>7. \A k \in 1 .. n : f[k] = f[k - 1] \o windows[k]
  <2>1. SUFFICES ASSUME NEW k \in 1 .. n PROVE f[k] = f[k - 1] \o windows[k]
    OBVIOUS
  <2>2. k \in 0 .. n /\ k - 1 \in 0 .. n
    BY <1>1
  <2>3. g[k - 1] \in Seq(W) /\ windows[k] \in W /\ g[k] = MergeBack(g[k - 1], windows[k])
    BY <1>1, <1>3, <1>6, <2>2
  <2>4. FlattenSeq(g[k]) = FlattenSeq(g[k - 1]) \o windows[k]
    BY <2>3, BackKeeps
  <2>5. QED BY <2>2, <2>4
<1>8. f[0] = <<>>
  <2>1. 0 \in 0 .. n /\ FlattenSeq(<<>>) = <<>>
    BY <1>1 DEF FlattenSeq
  <2>2. QED BY <1>3, <2>1
<1>9. n \in 0 .. n
  BY <1>1
<1>10. f[n] = FlattenSeq(MergedBack(windows)) /\ g[n] \in Seq(W)
  BY <1>3, <1>6, <1>9
<1> HIDE DEF f
<1>11. FlattenSeq(windows) = f[n]
  BY <1>7, <1>8, FlattenIs DEF n
<1>12. QED BY <1>3, <1>10, <1>11

LEMMA ForwardKeeps ==
    ASSUME NEW pass \in Passes, NEW window \in Seq(WindowPart)
    PROVE  LET next == MergeForward(pass, window)
           IN  FlattenSeq(next.fixed) \o next.carry = (FlattenSeq(pass.fixed) \o pass.carry) \o window
<1> DEFINE next == MergeForward(pass, window)
           fixed == pass.fixed
           carry == pass.carry
           flat == FlattenSeq(fixed)
<1>1. fixed \in Seq(Seq(WindowPart)) /\ carry \in Seq(WindowPart)
  BY DEF Passes
<1> HIDE DEF fixed, carry
<1>2. flat \in Seq(WindowPart)
  BY <1>1, FlattenFacts
<1> HIDE DEF flat
<1>3. carry \o window \in Seq(WindowPart) /\ flat \o (carry \o window) = (flat \o carry) \o window
  BY <1>1, <1>2
<1>4. CASE Fragment(window)
  <2>1. next.fixed = fixed /\ next.carry = carry \o window
    BY <1>4 DEF MergeForward, Passes, fixed, carry
  <2>2. QED BY <1>3, <2>1 DEF flat, fixed, carry
<1>5. CASE ~Fragment(window)
  <2>1. next.fixed = Append(fixed, carry \o window) /\ next.carry = <<>>
    BY <1>5 DEF MergeForward, fixed, carry
  <2>2. FlattenSeq(Append(fixed, carry \o window)) = flat \o (carry \o window)
    BY <1>1, <1>3, FlattenAppended DEF flat
  <2> DEFINE all == flat \o (carry \o window)
  <2>3. all \in Seq(WindowPart)
    BY <1>2, <1>3
  <2> HIDE DEF all
  <2>4. all \o <<>> = all
    BY <2>3
  <2>5. QED BY <1>3, <2>1, <2>2, <2>4 DEF all, flat, fixed, carry
<1>6. QED BY <1>4, <1>5

LEMMA MergedForwardKeeps ==
    ASSUME NEW windows \in Seq(Seq(WindowPart))
    PROVE  LET pass == MergedForward(windows)
           IN  FlattenSeq(pass.fixed) \o pass.carry = FlattenSeq(windows)
<1> DEFINE n == Len(windows)
           All(pass) == FlattenSeq(pass.fixed) \o pass.carry
<1>1. n \in Nat /\ \A k \in 1 .. n : windows[k] \in Seq(WindowPart)
  OBVIOUS
<1>2. PICK g : ForwardPath(windows, g)
  BY ForwardSteps
<1>3. g[0] = Uncarried /\ (\A k \in 1 .. n : g[k] = MergeForward(g[k - 1], windows[k]))
      /\ g[n] = MergedForward(windows)
  BY <1>2 DEF ForwardPath
<1> HIDE DEF n
<1> DEFINE Good == {k \in 0 .. n : g[k] \in Passes}
<1>4. 0 \in Good
  <2>1. 0 \in 0 .. n
    BY <1>1
  <2>2. QED BY <1>3, <2>1, MergeForwardType
<1>5. ASSUME NEW k \in 0 .. n - 1, k \in Good PROVE k + 1 \in Good
  <2>1. k + 1 \in 1 .. n /\ (k + 1) - 1 = k /\ k + 1 \in 0 .. n
    BY <1>1
  <2>2. g[k] \in Passes /\ windows[k + 1] \in Seq(WindowPart)
    BY <1>1, <1>5, <2>1
  <2>3. g[k + 1] = MergeForward(g[k], windows[k + 1])
    BY <1>3, <2>1
  <2>4. QED BY <2>1, <2>2, <2>3, MergeForwardType
<1>6. 0 .. n \subseteq Good
  <2> HIDE DEF Good
  <2>1. QED BY <1>1, <1>4, <1>5, UpTo
<1> DEFINE f == [k \in 0 .. n |-> All(g[k])]
<1>7. \A k \in 1 .. n : f[k] = f[k - 1] \o windows[k]
  <2>1. SUFFICES ASSUME NEW k \in 1 .. n PROVE f[k] = f[k - 1] \o windows[k]
    OBVIOUS
  <2>2. k \in 0 .. n /\ k - 1 \in 0 .. n
    BY <1>1
  <2>3. g[k - 1] \in Passes /\ windows[k] \in Seq(WindowPart) /\ g[k] = MergeForward(g[k - 1], windows[k])
    BY <1>1, <1>3, <1>6, <2>2
  <2>4. All(g[k]) = All(g[k - 1]) \o windows[k]
    BY <2>3, ForwardKeeps
  <2> HIDE DEF All
  <2>5. QED BY <2>2, <2>4
<1>8. f[0] = <<>>
  <2>1. 0 \in 0 .. n /\ FlattenSeq(<<>>) = <<>> /\ <<>> \o <<>> = <<>>
    BY <1>1 DEF FlattenSeq
  <2>2. All(g[0]) = <<>>
    BY <1>3, <2>1 DEF Uncarried
  <2> HIDE DEF All
  <2>3. QED BY <2>1, <2>2
<1>9. n \in 0 .. n
  BY <1>1
<1>10. f[n] = All(MergedForward(windows))
  <2> HIDE DEF All
  <2>1. QED BY <1>3, <1>9
<1> HIDE DEF f
<1>11. FlattenSeq(windows) = f[n]
  BY <1>7, <1>8, FlattenIs DEF n
<1>12. QED BY <1>10, <1>11

\* The parts of what is left over are dropped only when the page has nothing
\* else.
LEMMA AbsorbKeeps ==
    ASSUME NEW windows \in Seq(Split),
           Len(windows) > 1 => Width(FlattenSeq(windows)) >= MinChunk
    PROVE  FlattenSeq(AbsorbFragments(windows)) = FlattenSeq(windows)
<1>1. windows \in Seq(Seq(WindowPart))
  BY DEF Split
<1>2. CASE Len(windows) = 1
  BY <1>2 DEF AbsorbFragments
<1>3. CASE Len(windows) # 1
  <2> DEFINE out == MergedBack(windows)
             pass == MergedForward(out)
             fixed == pass.fixed
             carry == pass.carry
             all == FlattenSeq(windows)
  <2>1. AbsorbFragments(windows) = PlaceCarry(pass)
    BY <1>3 DEF AbsorbFragments, MergedForward, MergedBack, Uncarried
  <2>2. out \in Seq(Grown) /\ Separate(out) /\ out \in Seq(Seq(WindowPart)) /\ FlattenSeq(out) = all
    BY <1>1, MergedBackFacts, MergedBackKeeps
  <2> HIDE DEF out
  <2>3. fixed \in Seq(Seq(WindowPart)) /\ carry \in Seq(WindowPart) /\ (carry = <<>> \/ Fragment(carry))
    <3>1. fixed \in Seq(Headed) /\ carry \in Seq(WindowPart) /\ (carry = <<>> \/ Fragment(carry))
      BY <2>2, MergedForwardFacts
    <3>2. Headed \subseteq Seq(WindowPart)
      BY DEF Headed
    <3> HIDE DEF pass, fixed, carry
    <3>3. fixed \in Seq(Seq(WindowPart))
      BY <3>1, <3>2
    <3>4. QED BY <3>1, <3>3
  <2>4. FlattenSeq(fixed) \o carry = all
    BY <2>2, MergedForwardKeeps
  <2>5. PlaceCarry(pass) =
           IF carry = <<>> THEN fixed
           ELSE IF ~Fragment(carry) THEN Append(fixed, carry)
           ELSE IF fixed # <<>> THEN Front(fixed) \o <<Last(fixed) \o carry>>
           ELSE <<>>
    BY DEF PlaceCarry
  <2>6. all \in Seq(WindowPart) /\ FlattenSeq(fixed) \in Seq(WindowPart)
    BY <1>1, <2>3, FlattenFacts
  <2> HIDE DEF pass, fixed, carry
  <2>7. CASE carry = <<>>
    <3>1. FlattenSeq(fixed) \o <<>> = FlattenSeq(fixed)
      BY <2>6
    <3>2. QED BY <2>1, <2>4, <2>5, <2>7, <3>1
  <2>8. CASE carry # <<>> /\ fixed # <<>>
    <3>1. PlaceCarry(pass) = Front(fixed) \o <<Last(fixed) \o carry>>
      BY <2>3, <2>5, <2>8
    <3>2. FlattenSeq(Front(fixed) \o <<Last(fixed) \o carry>>) = FlattenSeq(fixed) \o carry
      BY <2>3, <2>8, FlattenExtended
    <3>3. QED BY <2>1, <2>4, <3>1, <3>2
  <2>9. CASE carry # <<>> /\ fixed = <<>>
    <3>1. Fragment(carry)
      BY <2>3, <2>9
    <3>2. FlattenSeq(<<>>) = <<>> /\ <<>> \o carry = carry
      BY <2>3 DEF FlattenSeq
    <3>3. all = carry
      BY <2>4, <2>9, <3>2
    <3> HIDE DEF all
    <3>4. Width(all) \in Int /\ MinChunk \in Nat /\ Width(all) < MinChunk
      BY <2>6, <3>1, <3>3, WidthFacts, SizesTyped DEF Fragment
    <3>5. ~(Width(all) >= MinChunk)
      BY <3>4
    <3>6. Len(windows) = 0
      <4>1. ~(Len(windows) > 1)
        BY <3>5 DEF all
      <4>2. Len(windows) \in Nat
        BY <1>1
      <4> DEFINE m == Len(windows)
      <4>3. m \in Nat /\ m # 1 /\ ~(m > 1)
        BY <1>3, <4>1, <4>2
      <4> HIDE DEF m
      <4>4. m = 0
        BY <4>3
      <4>5. QED BY <4>4 DEF m
    <3>7. windows = <<>>
      BY <3>6
    <3>8. all = <<>>
      BY <3>2, <3>7 DEF all
    <3>9. QED BY <2>9, <3>3, <3>8
  <2>10. QED BY <2>7, <2>8, <2>9
<1>4. QED BY <1>2, <1>3

\* The chunks of a page hold its pieces, each once, in order.
LEMMA ChunkPageKeepsText ==
    ASSUME NEW text \in Seq(Paragraph) \ {<<>>}, NEW skip \in Nat
    PROVE  OwnText(ChunkPage(text, skip)) = Pieces(text)
<1> DEFINE pieces == Pieces(text)
           split == SplitPage(text, skip)
<1>1. split \in Seq(Split)
  BY SplitPageType
<1>2. split \in Seq(Seq(WindowPart))
  BY <1>1 DEF Split
<1>3. Split \subseteq Seq(WindowPart)
  BY DEF Split
<1>4. ChunkPage(text, skip) \in Seq(Seq(WindowPart))
  BY <1>1, AbsorbedSized DEF ChunkPage
<1>5. pieces \in Seq(OwnParts) /\ pieces \in Seq(WindowPart)
  <2>1. OwnParts \subseteq WindowPart /\ Small \subseteq OwnParts
    BY DEF OwnParts, Small
  <2>2. CASE FitsOneWindow(text)
    BY <2>2, WholeParagraphsFacts DEF Pieces
  <2>3. CASE ~FitsOneWindow(text)
    <3>1. pieces \in Seq(Small)
      BY <2>3, PiecesType
    <3> HIDE DEF pieces
    <3>2. QED BY <2>1, <3>1
  <2>4. QED BY <2>2, <2>3
<1>6. Own(pieces) = pieces
  <2> HIDE DEF pieces
  <2>1. \A i \in 1 .. Len(pieces) : pieces[i] \in OwnParts
    BY <1>5
  <2>2. QED BY <1>5, <2>1, ThoseAll DEF Own
<1>7. Own(FlattenSeq(split)) = pieces /\ (Len(split) > 1 => Width(FlattenSeq(split)) >= MinChunk)
  <2>1. CASE FitsOneWindow(text)
    <3>1. split = <<pieces>>
      BY <2>1 DEF SplitPage
    <3> HIDE DEF split, pieces
    <3>2. Len(split) = 1 /\ <<pieces>> = Append(<<>>, pieces) /\ <<>> \in Seq(Seq(WindowPart))
          /\ <<>> \o pieces = pieces
      BY <1>5, <3>1
    <3>3. FlattenSeq(split) = pieces
      <4>1. FlattenSeq(Append(<<>>, pieces)) = FlattenSeq(<<>>) \o pieces /\ FlattenSeq(<<>>) = <<>>
        BY <1>5, <3>2, FlattenAppended
      <4>2. QED BY <3>1, <3>2, <4>1
    <3>4. ~(Len(split) > 1)
      BY <3>2
    <3>5. QED BY <1>6, <3>3, <3>4
  <2>2. CASE ~FitsOneWindow(text)
    <3> DEFINE windows == Windows(pieces)
    <3>1. pieces \in Seq(Small)
      BY <2>2, PiecesType
    <3>2. split = Overlapped(windows, skip)
      BY <2>2 DEF SplitPage
    <3> HIDE DEF split, pieces
    <3>3. windows \in Seq(Fitting)
      BY <3>1, WindowsType
    <3>4. FlattenSeq(windows) = pieces /\ (Len(windows) > 1 => Width(pieces) > Target)
      BY <3>1, WindowsKeepPieces
    <3> HIDE DEF windows
    <3>5. Own(FlattenSeq(split)) = pieces
      BY <1>6, <3>2, <3>3, <3>4, OverlapOwnsNothing
    <3>6. Len(split) = Len(windows)
      BY <3>2, <3>3 DEF Overlapped
    <3>7. FlattenSeq(split) \in Seq(WindowPart)
      BY <1>2, FlattenFacts DEF split
    <3>8. Width(pieces) <= Width(FlattenSeq(split))
      BY <3>5, <3>7, OwnIsSmaller
    <3>9. Width(pieces) \in Int /\ Width(FlattenSeq(split)) \in Int
      BY <1>5, <3>7, WidthFacts
    <3>10. Target \in Nat /\ MinChunk \in Nat /\ 2 * MinChunk + 2 <= Target
      BY ChunkingAssumption
    <3> DEFINE a == Width(pieces)
               b == Width(FlattenSeq(split))
    <3> HIDE DEF a, b
    <3>11. a > Target => b >= MinChunk
      BY <3>8, <3>9, <3>10 DEF a, b
    <3>12. QED BY <3>4, <3>5, <3>6, <3>11 DEF a, b
  <2>3. QED BY <2>1, <2>2
<1> HIDE DEF split, pieces
<1>8. FlattenSeq(ChunkPage(text, skip)) = FlattenSeq(split)
  BY <1>1, <1>7, AbsorbKeeps DEF ChunkPage, split
<1>9. OwnText(ChunkPage(text, skip)) = Own(FlattenSeq(ChunkPage(text, skip)))
  BY <1>4, OwnTextIsOwn
<1>10. QED BY <1>7, <1>8, <1>9 DEF pieces

LEMMA OfKindsType ==
    ASSUME NEW W, NEW kinds, NEW lines \in Seq(W)
    PROVE  OfKinds(lines, kinds) \in Seq(W)
BY ThoseType DEF OfKinds

LEMMA DividedType ==
    ASSUME NEW format, NEW lines \in Seq(FileLine)
    PROVE  Divided(format, lines) \in Seq(Section)
<1> DEFINE n == Len(lines)
<1>1. n \in Nat /\ \A k \in 1 .. n : lines[k] \in FileLine
  OBVIOUS
<1>2. PICK g : SectionPath(format, lines, g)
  BY SectionSteps
<1>3. g[0] = FirstSections(format) /\ (\A k \in 1 .. n : g[k] = AddLine(format, g[k - 1], lines[k]))
      /\ g[n] = Divided(format, lines)
  BY <1>2 DEF SectionPath
<1> HIDE DEF n
<1> DEFINE Good == {k \in 0 .. n : g[k] \in Seq(Section)}
<1>4. 0 \in Good
  <2>1. 0 \in 0 .. n
    BY <1>1
  <2>2. QED BY <1>3, <2>1, FirstSectionsType
<1>5. ASSUME NEW k \in 0 .. n - 1, k \in Good PROVE k + 1 \in Good
  <2>1. k + 1 \in 1 .. n /\ (k + 1) - 1 = k /\ k + 1 \in 0 .. n
    BY <1>1
  <2>2. g[k] \in Seq(Section) /\ lines[k + 1] \in FileLine
    BY <1>1, <1>5, <2>1
  <2>3. g[k + 1] = AddLine(format, g[k], lines[k + 1])
    BY <1>3, <2>1
  <2>4. QED BY <2>1, <2>2, <2>3, AddLineType
<1>6. 0 .. n \subseteq Good
  <2> HIDE DEF Good
  <2>1. QED BY <1>1, <1>4, <1>5, UpTo
<1>7. n \in 0 .. n
  BY <1>1
<1>8. QED BY <1>3, <1>6, <1>7

\* Pages are numbered by the sections they come from, each once.
Numbered(pages, k) ==
    /\ pages \in Seq(FilePage)
    /\ \A i \in 1 .. Len(pages) : pages[i].number <= k
    /\ \A i, j \in 1 .. Len(pages) : pages[i].number = pages[j].number => i = j

LEMMA NumberedStep ==
    ASSUME NEW sections \in Seq(Section), NEW pages, NEW k \in Nat, Numbered(pages, k),
           k + 1 \in 1 .. Len(sections)
    PROVE  Numbered(AddPage(sections, pages, k + 1), k + 1)
<1> DEFINE n == Len(pages)
           page == [number |-> k + 1, section |-> sections[k + 1].section, text |-> sections[k + 1].body]
           next == AddPage(sections, pages, k + 1)
<1>1. pages \in Seq(FilePage)
  BY DEF Numbered
<1>2. n \in Nat /\ \A i \in 1 .. n : pages[i].number \in Nat
  <2>1. n \in Nat /\ \A i \in 1 .. n : pages[i] \in FilePage
    BY <1>1
  <2>2. QED BY <2>1 DEF FilePage
<1>3. \A i \in 1 .. n : pages[i].number <= k
  BY DEF Numbered
<1>4. \A i, j \in 1 .. n : pages[i].number = pages[j].number => i = j
  BY DEF Numbered
<1>5. next \in Seq(FilePage)
  BY <1>1, AddPageType
<1>6. CASE sections[k + 1].body = <<>>
  <2>1. next = pages
    BY <1>6 DEF AddPage
  <2>2. \A i \in 1 .. n : pages[i].number <= k + 1
    BY <1>2, <1>3
  <2> HIDE DEF next
  <2>3. QED BY <1>1, <1>4, <2>1, <2>2 DEF Numbered, next
<1>7. CASE sections[k + 1].body # <<>>
  <2>1. next = Append(pages, page)
    BY <1>7 DEF AddPage
  <2> HIDE DEF next
  <2>2. page.number = k + 1
    OBVIOUS
  <2> HIDE DEF page
  <2>3. Len(next) = n + 1 /\ next[n + 1] = page /\ \A i \in 1 .. n : next[i] = pages[i]
    BY <1>1, <2>1
  <2> HIDE DEF n
  <2>4. \A i \in 1 .. n + 1 : i # n + 1 => i \in 1 .. n
    BY <1>2
  <2>5. \A i \in 1 .. n : next[i].number = pages[i].number /\ next[i].number <= k /\ next[i].number \in Nat
    BY <1>2, <1>3, <2>3
  <2>6. next[n + 1].number = k + 1
    BY <2>2, <2>3
  <2>7. \A i \in 1 .. n + 1 : next[i].number <= k + 1
    <3>1. SUFFICES ASSUME NEW i \in 1 .. n + 1 PROVE next[i].number <= k + 1
      OBVIOUS
    <3>2. CASE i = n + 1
      BY <2>6, <3>2
    <3>3. CASE i # n + 1
      <4>1. next[i].number <= k /\ next[i].number \in Nat
        BY <2>4, <2>5, <3>3
      <4>2. QED BY <4>1
    <3>4. QED BY <3>2, <3>3
  <2>8. \A i \in 1 .. n : next[i].number # k + 1
    BY <2>5
  <2>9. ASSUME NEW i \in 1 .. n + 1, NEW j \in 1 .. n + 1, next[i].number = next[j].number PROVE i = j
    <3>1. CASE i \in 1 .. n /\ j \in 1 .. n
      BY <1>4, <2>5, <2>9, <3>1
    <3>2. CASE i = n + 1
      BY <2>4, <2>6, <2>8, <2>9, <3>2
    <3>3. CASE j = n + 1
      BY <2>4, <2>6, <2>8, <2>9, <3>3
    <3>4. QED BY <2>4, <3>1, <3>2, <3>3
  <2>10. Numbered(next, k + 1)
    BY <1>5, <2>3, <2>7, <2>9 DEF Numbered, next
  <2>11. QED BY <2>10 DEF next
<1>8. QED BY <1>6, <1>7

LEMMA NumberedPagesFacts ==
    ASSUME NEW sections \in Seq(Section)
    PROVE  /\ NumberedPages(sections) \in Seq(FilePage)
           /\ \A i, j \in 1 .. Len(NumberedPages(sections)) :
                 NumberedPages(sections)[i].number = NumberedPages(sections)[j].number => i = j
<1> DEFINE n == Len(sections)
           index == [i \in DOMAIN sections |-> i]
           pages == NumberedPages(sections)
<1>1. n \in Nat /\ index \in Seq(1 .. n) /\ Len(index) = n /\ \A k \in 1 .. n : index[k] = k
  OBVIOUS
<1>2. pages = Numbering(sections, index)
  BY DEF NumberedPages, Numbering
<1> HIDE DEF index
<1>3. PICK g : PagePath(sections, index, g)
  BY <1>1, PageSteps
<1>4. g[0] = <<>> /\ (\A k \in 1 .. n : g[k] = AddPage(sections, g[k - 1], index[k])) /\ g[n] = pages
  BY <1>1, <1>2, <1>3 DEF PagePath
<1> HIDE DEF pages
<1> DEFINE Good == {k \in 0 .. n : Numbered(g[k], k)}
<1>5. 0 \in Good
  <2>1. 0 \in 0 .. n
    BY <1>1
  <2>2. <<>> \in Seq(FilePage) /\ Len(<<>>) = 0
    OBVIOUS
  <2>3. Numbered(<<>>, 0)
    BY <2>2 DEF Numbered
  <2>4. QED BY <1>4, <2>1, <2>3
<1>6. ASSUME NEW k \in 0 .. n - 1, k \in Good PROVE k + 1 \in Good
  <2>1. k + 1 \in 1 .. n /\ (k + 1) - 1 = k /\ k + 1 \in 0 .. n /\ k \in Nat
    BY <1>1
  <2>2. g[k + 1] = AddPage(sections, g[k], k + 1)
    BY <1>1, <1>4, <2>1
  <2>3. Numbered(g[k], k)
    BY <1>6
  <2>4. Numbered(AddPage(sections, g[k], k + 1), k + 1)
    BY <2>1, <2>3, NumberedStep
  <2>5. QED BY <2>1, <2>2, <2>4
<1>7. 0 .. n \subseteq Good
  <2> HIDE DEF Good, n
  <2>1. QED BY <1>1, <1>5, <1>6, UpTo
<1>8. Numbered(pages, n)
  <2>1. n \in 0 .. n
    BY <1>1
  <2>2. QED BY <1>4, <1>7, <2>1
<1>9. QED BY <1>8 DEF Numbered, pages

LEMMA PagesFacts ==
    ASSUME NEW file, file.lines \in Seq(FileLine)
    PROVE  /\ Pages(file) \in Seq(FilePage)
           /\ \A i, j \in 1 .. Len(Pages(file)) : Pages(file)[i].number = Pages(file)[j].number => i = j
<1> DEFINE lines == file.lines
           placed == [i \in DOMAIN lines |-> [lines[i] EXCEPT !.at = i]]
           format == Format(file)
           read == InReadingOrder(format, placed)
<1>1. placed \in Seq(FileLine)
  <2> HIDE DEF lines
  <2>1. lines \in Seq(FileLine)
    BY DEF lines
  <2>2. DOMAIN lines = 1 .. Len(lines) /\ Len(lines) \in Nat
    BY <2>1
  <2>3. \A i \in 1 .. Len(lines) : [lines[i] EXCEPT !.at = i] \in FileLine
    <3>1. SUFFICES ASSUME NEW i \in 1 .. Len(lines) PROVE [lines[i] EXCEPT !.at = i] \in FileLine
      OBVIOUS
    <3>2. lines[i] \in FileLine /\ i \in Int
      BY <2>1
    <3>3. QED BY <3>2 DEF FileLine
  <2>4. QED BY <2>2, <2>3
<1> HIDE DEF placed, format
<1>2. read \in Seq(FileLine)
  <2> DEFINE shown == {placed[l] : l \in {l \in DOMAIN placed : ~Unread(format, placed, l)}}
  <2>1. /\ OfKinds(placed, Kinds \ {"table"}) \in Seq(FileLine)
        /\ OfKinds(placed, {"table"}) \in Seq(FileLine)
    BY <1>1, OfKindsType
  <2>2. OfKinds(placed, Kinds \ {"table"}) \o OfKinds(placed, {"table"}) \in Seq(FileLine)
    BY <2>1
  <2>3. format # "docx" => read = Those(shown, placed)
    BY DEF InReadingOrder
  <2>4. format = "docx" => read = OfKinds(placed, Kinds \ {"table"}) \o OfKinds(placed, {"table"})
    BY DEF InReadingOrder
  <2> HIDE DEF read, shown
  <2>5. Those(shown, placed) \in Seq(FileLine)
    BY <1>1, ThoseType
  <2>6. QED BY <2>2, <2>3, <2>4, <2>5
<1>3. Sections(format, placed) = Divided(format, read)
  BY DEF Sections, Divided
<1> HIDE DEF read
<1>4. Divided(format, read) \in Seq(Section)
  BY <1>2, DividedType
<1>5. Pages(file) = NumberedPages(Divided(format, read))
  BY <1>3 DEF Pages, placed, format
<1>6. QED BY <1>4, <1>5, NumberedPagesFacts

\* The chunks of one page, and those of all pages.
LEMMA ChunkPageSized ==
    ASSUME NEW text \in Seq(Paragraph) \ {<<>>}, NEW skip \in Nat
    PROVE  ChunkPage(text, skip) \in Seq(Seq(WindowPart)) /\ Sized(ChunkPage(text, skip))
<1>1. SplitPage(text, skip) \in Seq(Split)
  BY SplitPageType
<1>2. QED BY <1>1, AbsorbedSized DEF ChunkPage

FileChunk == [page : Nat, section : Name, content : Seq(WindowPart)]

ChunkLists(pages, skip) ==
    [i \in DOMAIN pages |->
        LET page == pages[i]
            bodies == ChunkPage(page.text, skip)
        IN  [k \in DOMAIN bodies |-> [page |-> page.number, section |-> page.section,
                                      content |-> bodies[k]]]]

LEMMA ChunkListsFacts ==
    ASSUME NEW pages \in Seq(FilePage), NEW skip \in Nat
    PROVE  LET lists == ChunkLists(pages, skip)
               bodies(i) == ChunkPage(pages[i].text, skip)
           IN  /\ lists \in Seq(Seq(FileChunk)) /\ Len(lists) = Len(pages)
               /\ \A i \in 1 .. Len(pages) :
                     /\ bodies(i) \in Seq(Seq(WindowPart)) /\ Sized(bodies(i))
                     /\ OwnText(bodies(i)) = Pieces(pages[i].text)
                     /\ Len(lists[i]) = Len(bodies(i))
                     /\ \A k \in 1 .. Len(bodies(i)) :
                           /\ lists[i][k].page = pages[i].number
                           /\ lists[i][k].section = pages[i].section
                           /\ lists[i][k].content = bodies(i)[k]
<1> DEFINE n == Len(pages)
           bodies(i) == ChunkPage(pages[i].text, skip)
           made(i, k) == [page |-> pages[i].number, section |-> pages[i].section, content |-> bodies(i)[k]]
           seqs == ChunkLists(pages, skip)
<1>1. n \in Nat /\ DOMAIN pages = 1 .. n /\ \A i \in 1 .. n : pages[i] \in FilePage
  OBVIOUS
<1>2. \A i \in 1 .. n : /\ pages[i].text \in Seq(Paragraph) \ {<<>>}
                        /\ pages[i].number \in Nat /\ pages[i].section \in Name
  BY <1>1 DEF FilePage
<1>3. \A i \in 1 .. n : /\ bodies(i) \in Seq(Seq(WindowPart)) /\ Sized(bodies(i))
                        /\ OwnText(bodies(i)) = Pieces(pages[i].text)
  BY <1>2, ChunkPageSized, ChunkPageKeepsText
<1> HIDE DEF bodies
<1>4. \A i \in 1 .. n : \A k \in 1 .. Len(bodies(i)) :
         /\ made(i, k) \in FileChunk
         /\ made(i, k).page = pages[i].number /\ made(i, k).section = pages[i].section
         /\ made(i, k).content = bodies(i)[k]
  <2>1. \A i \in 1 .. n : \A k \in 1 .. Len(bodies(i)) : bodies(i)[k] \in Seq(WindowPart)
    BY <1>3
  <2>2. QED BY <1>2, <2>1 DEF FileChunk
<1>5. seqs = [i \in 1 .. n |-> [k \in DOMAIN bodies(i) |-> made(i, k)]]
  BY <1>1 DEF ChunkLists, bodies
<1> HIDE DEF made, n, seqs
<1>6. \A i \in 1 .. n : seqs[i] = [k \in 1 .. Len(bodies(i)) |-> made(i, k)] /\ Len(bodies(i)) \in Nat
  BY <1>3, <1>5
<1>7. seqs \in Seq(Seq(FileChunk)) /\ Len(seqs) = n
  <2>1. \A i \in 1 .. n : seqs[i] \in Seq(FileChunk)
    <3>1. SUFFICES ASSUME NEW i \in 1 .. n PROVE seqs[i] \in Seq(FileChunk)
      OBVIOUS
    <3> DEFINE m == Len(bodies(i))
    <3>2. seqs[i] = [k \in 1 .. m |-> made(i, k)] /\ m \in Nat /\ \A k \in 1 .. m : made(i, k) \in FileChunk
      BY <1>4, <1>6
    <3> HIDE DEF m
    <3>3. QED BY <3>2
  <2>2. seqs = [i \in 1 .. n |-> seqs[i]]
    BY <1>5
  <2>3. QED BY <1>1, <2>1, <2>2
<1>8. \A i \in 1 .. n : Len(seqs[i]) = Len(bodies(i)) /\ \A k \in 1 .. Len(bodies(i)) : seqs[i][k] = made(i, k)
  <2>1. SUFFICES ASSUME NEW i \in 1 .. n
                 PROVE  Len(seqs[i]) = Len(bodies(i)) /\ \A k \in 1 .. Len(bodies(i)) : seqs[i][k] = made(i, k)
    OBVIOUS
  <2> DEFINE m == Len(bodies(i))
  <2>2. seqs[i] = [k \in 1 .. m |-> made(i, k)] /\ m \in Nat
    BY <1>6
  <2> HIDE DEF m
  <2>3. Len(seqs[i]) = m /\ \A k \in 1 .. m : seqs[i][k] = made(i, k)
    BY <2>2
  <2>4. QED BY <2>3 DEF m
<1>9. QED BY <1>3, <1>4, <1>7, <1>8 DEF n, bodies, seqs

LEMMA ChunksOfPages ==
    ASSUME NEW pages \in Seq(FilePage), NEW skip \in Nat,
           \A i, j \in 1 .. Len(pages) : pages[i].number = pages[j].number => i = j
    PROVE  WellSized(FlattenSeq(ChunkLists(pages, skip)))
<1> DEFINE n == Len(pages)
           bodies(i) == ChunkPage(pages[i].text, skip)
           seqs == ChunkLists(pages, skip)
           chunks == FlattenSeq(seqs)
<1>1. /\ seqs \in Seq(Seq(FileChunk)) /\ Len(seqs) = n
      /\ \A i \in 1 .. n :
            /\ Sized(bodies(i)) /\ Len(seqs[i]) = Len(bodies(i))
            /\ \A k \in 1 .. Len(bodies(i)) :
                  seqs[i][k].page = pages[i].number /\ seqs[i][k].content = bodies(i)[k]
  BY ChunkListsFacts
<1> HIDE DEF n, bodies, seqs
<1>2. chunks \in Seq(FileChunk) /\ \E at : From(seqs, n, chunks, at)
  BY <1>1, FlattenFacts
<1>3. PICK at : From(seqs, n, chunks, at)
  BY <1>2
<1> HIDE DEF chunks
<1>4. DOMAIN chunks = 1 .. Len(chunks)
  BY <1>2
<1>5. ASSUME NEW k \in 1 .. Len(chunks)
       PROVE  /\ at[k] \in (1 .. n) \X Nat
              /\ at[k][1] \in 1 .. n /\ at[k][2] \in 1 .. Len(bodies(at[k][1]))
              /\ chunks[k].page = pages[at[k][1]].number
              /\ chunks[k].content = bodies(at[k][1])[at[k][2]]
  <2>1. at[k] \in (1 .. n) \X Nat /\ at[k][2] \in 1 .. Len(seqs[at[k][1]])
        /\ chunks[k] = seqs[at[k][1]][at[k][2]]
    BY <1>3 DEF From
  <2>2. at[k][1] \in 1 .. n
    BY <2>1
  <2>3. at[k][2] \in 1 .. Len(bodies(at[k][1]))
    BY <1>1, <2>1, <2>2
  <2>4. QED BY <1>1, <2>1, <2>2, <2>3
<1>6. \A k, j \in 1 .. Len(chunks) : at[k] = at[j] => k = j
  BY <1>3 DEF From
<1>7. ASSUME NEW k \in 1 .. Len(chunks)
       PROVE  /\ Width(chunks[k].content) <= Ceiling
              /\ Fragment(chunks[k].content) => Len(bodies(at[k][1])) = 1
  <2>1. Sized(bodies(at[k][1]))
    BY <1>1, <1>5
  <2>2. QED BY <1>5, <2>1 DEF Sized
<1>8. ASSUME NEW k \in 1 .. Len(chunks), NEW j \in 1 .. Len(chunks), Fragment(chunks[k].content),
              chunks[j].page = chunks[k].page
       PROVE  j = k
  <2>1. at[j][1] = at[k][1]
    <3>1. at[j][1] \in 1 .. n /\ at[k][1] \in 1 .. n
      BY <1>5
    <3>2. pages[at[j][1]].number = pages[at[k][1]].number
      BY <1>5, <1>8
    <3>3. \A a, b \in 1 .. n : pages[a].number = pages[b].number => a = b
      BY DEF n
    <3>4. QED BY <3>1, <3>2, <3>3
  <2>2. Len(bodies(at[k][1])) = 1
    BY <1>7, <1>8
  <2>3. at[j][2] = 1 /\ at[k][2] = 1
    <3>1. at[j][2] \in 1 .. 1 /\ at[k][2] \in 1 .. 1
      BY <1>5, <2>1, <2>2
    <3>2. QED BY <3>1
  <2>4. \A p, q \in (1 .. n) \X Nat : p[1] = q[1] /\ p[2] = q[2] => p = q
    OBVIOUS
  <2>5. at[j] \in (1 .. n) \X Nat /\ at[k] \in (1 .. n) \X Nat
    BY <1>5
  <2>6. at[j] = at[k]
    BY <2>1, <2>3, <2>4, <2>5
  <2>7. QED BY <1>6, <2>6
<1>9. WellSized(chunks)
  BY <1>4, <1>7, <1>8 DEF WellSized
<1>10. QED BY <1>9 DEF chunks, seqs

LEMMA ChunksAlwaysSized ==
    ASSUME NEW file, file.lines \in Seq(FileLine), NEW skip \in Nat
    PROVE  WellSized(ChunkDocument(file, skip))
<1> DEFINE pages == IF Accepted(file) THEN Pages(file) ELSE <<>>
<1>1. pages \in Seq(FilePage) /\ \A i, j \in 1 .. Len(pages) : pages[i].number = pages[j].number => i = j
  <2>1. <<>> \in Seq(FilePage) /\ Len(<<>>) = 0
    OBVIOUS
  <2>2. CASE Accepted(file)
    BY <2>2, PagesFacts
  <2>3. CASE ~Accepted(file)
    BY <2>1, <2>3
  <2>4. QED BY <2>2, <2>3
<1> HIDE DEF pages
<1>2. WellSized(FlattenSeq(ChunkLists(pages, skip)))
  BY <1>1, ChunksOfPages
<1>3. QED BY <1>2 DEF ChunkDocument, ChunkLists, pages

\* Of the chunks of a file, those of one page are the chunks of that page.
LEMMA ChunksOfOnePage ==
    ASSUME NEW pages \in Seq(FilePage), NEW skip \in Nat, NEW i \in 1 .. Len(pages),
           \A a, b \in 1 .. Len(pages) : pages[a].number = pages[b].number => a = b
    PROVE  LET lists == ChunkLists(pages, skip)
           IN  Those({c \in FileChunk : c.page = pages[i].number}, FlattenSeq(lists)) = lists[i]
<1> DEFINE n == Len(pages)
           lists == ChunkLists(pages, skip)
           S == {c \in FileChunk : c.page = pages[i].number}
           chunks == FlattenSeq(lists)
<1>1. lists \in Seq(Seq(FileChunk)) /\ Len(lists) = n
  BY ChunkListsFacts
<1>2. n \in Nat /\ i \in 1 .. n /\ \A a \in 1 .. n : lists[a] \in Seq(FileChunk)
  BY <1>1
<1>3. \A a \in 1 .. n : \A k \in 1 .. Len(lists[a]) : lists[a][k] \in FileChunk /\ lists[a][k].page = pages[a].number
  <2>1. SUFFICES ASSUME NEW a \in 1 .. n, NEW k \in 1 .. Len(lists[a])
                 PROVE  lists[a][k] \in FileChunk /\ lists[a][k].page = pages[a].number
    OBVIOUS
  <2>2. lists[a][k].page = pages[a].number
    BY ChunkListsFacts
  <2> HIDE DEF lists
  <2>3. lists[a] \in Seq(FileChunk)
    BY <1>2
  <2>4. QED BY <2>2, <2>3
<1> HIDE DEF lists
<1>4. \A a \in 1 .. n : Those(S, lists[a]) = IF a = i THEN lists[i] ELSE <<>>
  <2>1. SUFFICES ASSUME NEW a \in 1 .. n PROVE Those(S, lists[a]) = IF a = i THEN lists[i] ELSE <<>>
    OBVIOUS
  <2>2. lists[a] \in Seq(FileChunk)
    BY <1>2
  <2>3. CASE a = i
    <3>1. \A k \in 1 .. Len(lists[a]) : lists[a][k] \in S
      BY <1>3, <2>3
    <3> HIDE DEF S
    <3>2. QED BY <2>2, <2>3, <3>1, ThoseAll
  <2>4. CASE a # i
    <3>1. pages[a].number # pages[i].number
      BY <2>4
    <3>2. \A k \in 1 .. Len(lists[a]) : lists[a][k] \notin S
      BY <1>3, <3>1
    <3> HIDE DEF S
    <3>3. QED BY <2>2, <2>4, <3>2, ThoseNone
  <2>5. QED BY <2>3, <2>4
<1>5. \E h : Flattening(lists, h) /\ \A k \in 0 .. Len(lists) : h[k] \in Seq(FileChunk)
  BY <1>1, FlattenSteps
<1>6. PICK h : Flattening(lists, h) /\ \A k \in 0 .. n : h[k] \in Seq(FileChunk)
  BY <1>1, <1>5
<1>7. h[0] = <<>> /\ (\A k \in 1 .. n : h[k] = h[k - 1] \o lists[k]) /\ h[n] = chunks
  BY <1>1, <1>6 DEF Flattening
<1> HIDE DEF n, S, chunks
<1> DEFINE Good == {k \in 0 .. n : Those(S, h[k]) = IF k >= i THEN lists[i] ELSE <<>>}
<1>8. 0 \in Good
  <2>1. 0 \in 0 .. n /\ ~(0 >= i)
    BY <1>2
  <2>2. <<>> \in Seq(FileChunk) /\ Len(<<>>) = 0
    OBVIOUS
  <2>3. Those(S, <<>>) = <<>>
    <3> DEFINE none == <<>>
    <3>1. none \in Seq(FileChunk) /\ \A k \in 1 .. Len(none) : none[k] \notin S
      BY <2>2
    <3> HIDE DEF none
    <3>2. Those(S, none) = <<>>
      BY <3>1, ThoseNone
    <3>3. QED BY <3>2 DEF none
  <2>4. QED BY <1>7, <2>1, <2>3
<1>9. ASSUME NEW k \in 0 .. n - 1, k \in Good PROVE k + 1 \in Good
  <2>1. k + 1 \in 1 .. n /\ (k + 1) - 1 = k /\ k + 1 \in 0 .. n /\ k \in 0 .. n
    BY <1>2
  <2>2. h[k + 1] = h[k] \o lists[k + 1] /\ h[k] \in Seq(FileChunk) /\ lists[k + 1] \in Seq(FileChunk)
    BY <1>2, <1>6, <1>7, <2>1
  <2>3. Those(S, h[k + 1]) = Those(S, h[k]) \o Those(S, lists[k + 1])
    BY <2>2, ThoseSplits
  <2>4. Those(S, h[k]) = (IF k >= i THEN lists[i] ELSE <<>>)
        /\ Those(S, lists[k + 1]) = (IF k + 1 = i THEN lists[i] ELSE <<>>)
    BY <1>4, <1>9, <2>1
  <2>5. lists[i] \in Seq(FileChunk)
    BY <1>2
  <2> DEFINE own == lists[i]
  <2> HIDE DEF own
  <2>6. own \o <<>> = own /\ <<>> \o own = own /\ <<>> \o <<>> = <<>>
    BY <2>5 DEF own
  <2>7. Those(S, h[k + 1]) = IF k + 1 >= i THEN own ELSE <<>>
    <3>1. CASE k >= i
      <4>1. k + 1 # i /\ k + 1 >= i
        BY <1>2, <2>1, <3>1
      <4>2. QED BY <2>3, <2>4, <2>6, <3>1, <4>1 DEF own
    <3>2. CASE k + 1 = i
      <4>1. ~(k >= i) /\ k + 1 >= i
        BY <1>2, <2>1, <3>2
      <4>2. QED BY <2>3, <2>4, <2>6, <3>2, <4>1 DEF own
    <3>3. CASE ~(k >= i) /\ k + 1 # i
      <4>1. ~(k + 1 >= i)
        BY <1>2, <2>1, <3>3
      <4>2. QED BY <2>3, <2>4, <2>6, <3>3, <4>1
    <3>4. QED BY <3>1, <3>2, <3>3
  <2>8. QED BY <2>1, <2>7 DEF own
<1>10. 0 .. n \subseteq Good
  <2> HIDE DEF Good
  <2>1. QED BY <1>2, <1>8, <1>9, UpTo
<1>11. n \in 0 .. n /\ n >= i
  BY <1>2
<1>12. Those(S, chunks) = lists[i]
  BY <1>7, <1>10, <1>11
<1>13. QED BY <1>12 DEF S, chunks, lists

\* What KeepsText says of the chunks, given the pages.
ChunksHold(pages, chunks) ==
    LET Of(n) == Those({c \in ToSet(chunks) : c.page = n}, chunks)
    IN  /\ \A i \in DOMAIN pages :
              LET own == Of(pages[i].number)
              IN  /\ OwnText([k \in DOMAIN own |-> own[k].content]) = Pieces(pages[i].text)
                  /\ \A k \in DOMAIN own : own[k].section = pages[i].section
        /\ \A c \in ToSet(chunks) : \E i \in DOMAIN pages : pages[i].number = c.page

LEMMA PagesKeepText ==
    ASSUME NEW pages \in Seq(FilePage), NEW skip \in Nat,
           \A i, j \in 1 .. Len(pages) : pages[i].number = pages[j].number => i = j
    PROVE  ChunksHold(pages, FlattenSeq(ChunkLists(pages, skip)))
<1> DEFINE n == Len(pages)
           lists == ChunkLists(pages, skip)
           chunks == FlattenSeq(lists)
           bodies(i) == ChunkPage(pages[i].text, skip)
           Of(number) == Those({c \in ToSet(chunks) : c.page = number}, chunks)
<1>1. /\ lists \in Seq(Seq(FileChunk)) /\ Len(lists) = n
      /\ \A i \in 1 .. n :
            /\ bodies(i) \in Seq(Seq(WindowPart)) /\ Sized(bodies(i))
            /\ OwnText(bodies(i)) = Pieces(pages[i].text)
            /\ Len(lists[i]) = Len(bodies(i))
            /\ \A k \in 1 .. Len(bodies(i)) :
                  /\ lists[i][k].page = pages[i].number
                  /\ lists[i][k].section = pages[i].section
                  /\ lists[i][k].content = bodies(i)[k]
  BY ChunkListsFacts
<1>2. \A i \in 1 .. n : Those({c \in FileChunk : c.page = pages[i].number}, chunks) = lists[i]
  BY ChunksOfOnePage
<1>3. DOMAIN pages = 1 .. n
  OBVIOUS
<1> HIDE DEF bodies, lists
<1>4. chunks \in Seq(FileChunk) /\ \E at : From(lists, n, chunks, at)
  BY <1>1, FlattenFacts
<1> HIDE DEF chunks, n
<1>5. \A k \in 1 .. Len(chunks) : chunks[k] \in FileChunk /\ chunks[k] \in ToSet(chunks)
  <2>1. \A k \in 1 .. Len(chunks) : chunks[k] \in FileChunk /\ k \in DOMAIN chunks
    BY <1>4
  <2>2. QED BY <2>1 DEF ToSet
<1>6. \A i \in 1 .. n : Of(pages[i].number) = lists[i]
  <2>1. SUFFICES ASSUME NEW i \in 1 .. n PROVE Of(pages[i].number) = lists[i]
    OBVIOUS
  <2> DEFINE S == {c \in ToSet(chunks) : c.page = pages[i].number}
             T == {c \in FileChunk : c.page = pages[i].number}
  <2>2. \A k \in 1 .. Len(chunks) : chunks[k] \in S <=> chunks[k] \in T
    BY <1>5
  <2>3. Those(T, chunks) = lists[i]
    BY <1>2
  <2> HIDE DEF S, T
  <2>4. Those(S, chunks) = Those(T, chunks)
    BY <1>4, <2>2, ThoseSame
  <2>5. QED BY <2>3, <2>4 DEF S
<1>7. ASSUME NEW i \in 1 .. n
      PROVE  /\ OwnText([k \in DOMAIN lists[i] |-> lists[i][k].content]) = Pieces(pages[i].text)
             /\ \A k \in DOMAIN lists[i] : lists[i][k].section = pages[i].section
  <2> DEFINE own == lists[i]
             body == bodies(i)
  <2>1. own \in Seq(FileChunk) /\ body \in Seq(Seq(WindowPart)) /\ Len(own) = Len(body)
    BY <1>1
  <2>2. \A k \in 1 .. Len(body) : own[k].section = pages[i].section /\ own[k].content = body[k]
    BY <1>1
  <2>3. OwnText(body) = Pieces(pages[i].text)
    BY <1>1
  <2> HIDE DEF own, body
  <2>4. DOMAIN own = 1 .. Len(body)
    BY <2>1
  <2>5. [k \in DOMAIN own |-> own[k].content] = body
    <3>1. [k \in DOMAIN own |-> own[k].content] = [k \in 1 .. Len(body) |-> body[k]]
      BY <2>2, <2>4
    <3>2. body = [k \in 1 .. Len(body) |-> body[k]]
      BY <2>1
    <3>3. QED BY <3>1, <3>2
  <2>6. QED BY <2>2, <2>3, <2>4, <2>5 DEF own
<1>8. ASSUME NEW c \in ToSet(chunks) PROVE \E i \in 1 .. n : pages[i].number = c.page
  <2>1. PICK k \in 1 .. Len(chunks) : c = chunks[k]
    BY <1>4 DEF ToSet
  <2>2. PICK at : From(lists, n, chunks, at)
    BY <1>4
  <2>3. at[k] \in (1 .. n) \X Nat /\ at[k][2] \in 1 .. Len(lists[at[k][1]])
        /\ chunks[k] = lists[at[k][1]][at[k][2]]
    BY <2>2 DEF From
  <2>4. at[k][1] \in 1 .. n
    BY <2>3
  <2>5. chunks[k].page = pages[at[k][1]].number
    <3> DEFINE i == at[k][1]
               j == at[k][2]
    <3>1. i \in 1 .. n /\ j \in 1 .. Len(lists[i]) /\ chunks[k] = lists[i][j]
      BY <2>3, <2>4
    <3> HIDE DEF i, j
    <3>2. j \in 1 .. Len(bodies(i))
      BY <1>1, <3>1
    <3>3. lists[i][j].page = pages[i].number
      BY <1>1, <3>1, <3>2
    <3>4. QED BY <3>1, <3>3 DEF i
  <2>6. QED BY <2>1, <2>4, <2>5
<1> HIDE DEF Of
<1>9. /\ \A i \in DOMAIN pages :
            LET own == Of(pages[i].number)
            IN  /\ OwnText([k \in DOMAIN own |-> own[k].content]) = Pieces(pages[i].text)
                /\ \A k \in DOMAIN own : own[k].section = pages[i].section
      /\ \A c \in ToSet(chunks) : \E i \in DOMAIN pages : pages[i].number = c.page
  BY <1>3, <1>6, <1>7, <1>8
<1>10. QED BY <1>9 DEF ChunksHold, Of, chunks, lists

-----------------------------------------------------------------------------
(* Parsing places the text. *)

\* The lines of some kinds keep their order, and none is left out.
Rising(list) == \A i, j \in 1 .. Len(list) : i < j => list[i].at < list[j].at

KeptOf(S, list, k, kept) ==
    /\ kept \in Seq(FileLine) /\ Rising(kept)
    /\ \A i \in 1 .. Len(kept) : kept[i] \in S /\ \E j \in 1 .. k : kept[i] = list[j]
    /\ \A j \in 1 .. k : list[j] \in S => \E i \in 1 .. Len(kept) : kept[i] = list[j]

LEMMA KeptStep ==
    ASSUME NEW S, NEW list \in Seq(FileLine), Rising(list), NEW k \in 0 .. Len(list) - 1,
           NEW kept, KeptOf(S, list, k, kept)
    PROVE  KeptOf(S, list, k + 1, KeepIn(S, kept, list[k + 1]))
<1> DEFINE x == list[k + 1]
           m == Len(kept)
           next == KeepIn(S, kept, x)
<1>1. k \in Nat /\ k + 1 \in 1 .. Len(list) /\ \A j \in 1 .. k : j \in 1 .. Len(list) /\ j < k + 1 /\ j \in 1 .. k + 1
  OBVIOUS
<1>2. x \in FileLine /\ \A j \in 1 .. k : list[j].at < x.at
  BY <1>1 DEF Rising
<1>3. kept \in Seq(FileLine) /\ m \in Nat
  BY DEF KeptOf
<1>4. \A i \in 1 .. m : kept[i] \in S /\ \E j \in 1 .. k : kept[i] = list[j]
  BY DEF KeptOf
<1>5. \A j \in 1 .. k : list[j] \in S => \E i \in 1 .. m : kept[i] = list[j]
  BY DEF KeptOf
<1>6. \A i, j \in 1 .. m : i < j => kept[i].at < kept[j].at
  BY DEF KeptOf, Rising
<1>7. CASE x \notin S
  <2>1. next = kept
    BY <1>7 DEF KeepIn
  <2>2. \A i \in 1 .. m : kept[i] \in S /\ \E j \in 1 .. k + 1 : kept[i] = list[j]
    BY <1>1, <1>4
  <2>3. \A j \in 1 .. k + 1 : j # k + 1 => j \in 1 .. k
    BY <1>1
  <2>4. \A j \in 1 .. k + 1 : list[j] \in S => \E i \in 1 .. m : kept[i] = list[j]
    BY <1>5, <1>7, <2>3
  <2> HIDE DEF next
  <2>5. QED BY <2>1, <2>2, <2>4 DEF KeptOf, next
<1>8. CASE x \in S
  <2>1. next = Append(kept, x)
    BY <1>8 DEF KeepIn
  <2> HIDE DEF next, x
  <2>2. next \in Seq(FileLine) /\ Len(next) = m + 1 /\ next[m + 1] = x /\ \A i \in 1 .. m : next[i] = kept[i]
    BY <1>2, <1>3, <2>1
  <2> HIDE DEF m
  <2>3. \A i \in 1 .. m + 1 : i # m + 1 => i \in 1 .. m
    BY <1>3
  <2>4. ASSUME NEW i \in 1 .. m + 1 PROVE next[i] \in S /\ \E j \in 1 .. k + 1 : next[i] = list[j]
    <3>1. CASE i = m + 1
      <4>1. k + 1 \in 1 .. k + 1
        BY <1>1
      <4>2. QED BY <1>8, <2>2, <3>1, <4>1 DEF x
    <3>2. CASE i # m + 1
      BY <1>1, <1>4, <2>2, <2>3, <3>2
    <3>3. QED BY <3>1, <3>2
  <2>5. ASSUME NEW j \in 1 .. k + 1, list[j] \in S PROVE \E i \in 1 .. m + 1 : next[i] = list[j]
    <3>1. CASE j = k + 1
      <4>1. m + 1 \in 1 .. m + 1
        BY <1>3
      <4>2. QED BY <2>2, <3>1, <4>1 DEF x
    <3>2. CASE j # k + 1
      <4>1. j \in 1 .. k
        BY <1>1, <3>2
      <4>2. PICK i \in 1 .. m : kept[i] = list[j]
        BY <1>5, <2>5, <4>1
      <4>3. i \in 1 .. m + 1
        BY <1>3
      <4>4. QED BY <2>2, <4>2, <4>3
    <3>3. QED BY <3>1, <3>2
  <2>6. ASSUME NEW i \in 1 .. m + 1, NEW j \in 1 .. m + 1, i < j PROVE next[i].at < next[j].at
    <3>1. i \in 1 .. m
      BY <1>3, <2>6
    <3>2. CASE j = m + 1
      <4>1. PICK l \in 1 .. k : kept[i] = list[l]
        BY <1>4, <3>1
      <4>2. QED BY <1>2, <2>2, <3>1, <3>2, <4>1
    <3>3. CASE j # m + 1
      BY <1>6, <2>2, <2>3, <2>6, <3>1, <3>3
    <3>4. QED BY <3>2, <3>3
  <2>7. Rising(next)
    BY <2>2, <2>6 DEF Rising
  <2>8. KeptOf(S, list, k + 1, next)
    BY <2>2, <2>4, <2>5, <2>7 DEF KeptOf
  <2>9. QED BY <2>8 DEF next, x
<1>9. QED BY <1>7, <1>8

LEMMA ThoseOfRising ==
    ASSUME NEW S, NEW list \in Seq(FileLine), Rising(list)
    PROVE  KeptOf(S, list, Len(list), Those(S, list))
<1> DEFINE n == Len(list)
<1>1. n \in Nat
  OBVIOUS
<1>2. PICK g : ThosePath(S, list, g)
  BY ThoseSteps
<1>3. g[0] = <<>> /\ (\A k \in 1 .. n : g[k] = KeepIn(S, g[k - 1], list[k])) /\ g[n] = Those(S, list)
  BY <1>2 DEF ThosePath
<1> DEFINE Good == {k \in 0 .. n : KeptOf(S, list, k, g[k])}
<1>4. 0 \in Good
  <2>1. <<>> \in Seq(FileLine) /\ Len(<<>>) = 0 /\ 0 \in 0 .. n
    BY <1>1
  <2>2. Rising(<<>>)
    BY <2>1 DEF Rising
  <2>3. KeptOf(S, list, 0, <<>>)
    BY <2>1, <2>2 DEF KeptOf
  <2>4. QED BY <1>3, <2>1, <2>3
<1>5. ASSUME NEW k \in 0 .. n - 1, k \in Good PROVE k + 1 \in Good
  <2>1. k + 1 \in 1 .. n /\ (k + 1) - 1 = k /\ k + 1 \in 0 .. n
    BY <1>1
  <2>2. g[k + 1] = KeepIn(S, g[k], list[k + 1]) /\ KeptOf(S, list, k, g[k])
    BY <1>3, <1>5, <2>1
  <2>3. KeptOf(S, list, k + 1, KeepIn(S, g[k], list[k + 1]))
    BY <2>2, KeptStep
  <2>4. QED BY <2>1, <2>2, <2>3
<1>6. 0 .. n \subseteq Good
  <2> HIDE DEF Good, n
  <2>1. QED BY <1>1, <1>4, <1>5, UpTo
<1>7. n \in 0 .. n
  BY <1>1
<1>8. QED BY <1>3, <1>6, <1>7

LEMMA OfKindsKept ==
    ASSUME NEW kinds, NEW list \in Seq(FileLine), Rising(list)
    PROVE  LET kept == OfKinds(list, kinds)
           IN  /\ kept \in Seq(FileLine) /\ Rising(kept)
               /\ \A i \in 1 .. Len(kept) :
                     kept[i].kind \in kinds /\ \E j \in 1 .. Len(list) : kept[i] = list[j]
               /\ \A j \in 1 .. Len(list) :
                     list[j].kind \in kinds => \E i \in 1 .. Len(kept) : kept[i] = list[j]
<1> DEFINE S == {line \in ToSet(list) : line.kind \in kinds}
           kept == Those(S, list)
<1>1. \A j \in 1 .. Len(list) : list[j].kind \in kinds => list[j] \in S
  <2>1. \A j \in 1 .. Len(list) : j \in DOMAIN list
    OBVIOUS
  <2>2. QED BY <2>1 DEF ToSet
<1>2. \A x \in S : x.kind \in kinds
  OBVIOUS
<1>3. OfKinds(list, kinds) = kept
  BY DEF OfKinds
<1> HIDE DEF S
<1>4. KeptOf(S, list, Len(list), kept)
  BY ThoseOfRising
<1> HIDE DEF kept
<1>5. QED BY <1>1, <1>2, <1>3, <1>4 DEF KeptOf

\* The order in which a parser meets the lines of a file: each that is read once,
\* those that are not the tables of a DOCX in the order of the file.
WellRead(format, placed, read) ==
    /\ read \in Seq(FileLine)
    /\ \A j \in 1 .. Len(read) : read[j].at \in 1 .. Len(placed) /\ read[j] = placed[read[j].at]
    /\ \A l \in 1 .. Len(placed) :
          ~Unread(format, placed, l) => \E j \in 1 .. Len(read) : read[j].at = l
    /\ \A j \in 1 .. Len(read) : ~Unread(format, placed, read[j].at)
    /\ \A i, j \in 1 .. Len(read) :
          i < j /\ (format # "docx" \/ read[j].kind # "table") => read[i].at < read[j].at
    /\ \A i, j \in 1 .. Len(read) : read[i].at = read[j].at => i = j

LEMMA RisingApart ==
    ASSUME NEW list \in Seq(FileLine), Rising(list)
    PROVE  \A i, j \in 1 .. Len(list) : list[i].at = list[j].at => i = j
<1>1. SUFFICES ASSUME NEW i \in 1 .. Len(list), NEW j \in 1 .. Len(list), list[i].at = list[j].at
               PROVE  i = j
  OBVIOUS
<1>2. list[i].at \in Int /\ list[j].at \in Int
  <2>1. list[i] \in FileLine /\ list[j] \in FileLine
    OBVIOUS
  <2>2. QED BY <2>1 DEF FileLine
<1>3. ~(list[i].at < list[j].at) /\ ~(list[j].at < list[i].at)
  BY <1>1, <1>2
<1>4. ~(i < j) /\ ~(j < i)
  BY <1>3 DEF Rising
<1>5. QED BY <1>4

LEMMA ReadingOrder ==
    ASSUME NEW format, NEW placed \in Seq(FileLine), \A l \in 1 .. Len(placed) : placed[l].at = l
    PROVE  WellRead(format, placed, InReadingOrder(format, placed))
<1> DEFINE n == Len(placed)
           read == InReadingOrder(format, placed)
<1>1. n \in Nat /\ Rising(placed)
  BY DEF Rising
<1>2. \A l \in 1 .. n : placed[l].kind \in Kinds /\ placed[l].at = l
  <2>1. \A l \in 1 .. n : placed[l] \in FileLine /\ placed[l].at = l
    OBVIOUS
  <2>2. QED BY <2>1 DEF FileLine
<1>3. CASE format = "docx"
  <2> DEFINE prose == Kinds \ {"table"}
             first == OfKinds(placed, prose)
             last == OfKinds(placed, {"table"})
             a == Len(first)
             b == Len(last)
  <2>1. /\ first \in Seq(FileLine) /\ Rising(first)
        /\ \A i \in 1 .. a : first[i].kind # "table" /\ \E l \in 1 .. n : first[i] = placed[l]
        /\ \A l \in 1 .. n : placed[l].kind # "table" => \E i \in 1 .. a : first[i] = placed[l]
    <3>1. \A l \in 1 .. n : placed[l].kind # "table" => placed[l].kind \in prose
      BY <1>2
    <3>2. \A kind \in prose : kind # "table"
      OBVIOUS
    <3> HIDE DEF prose
    <3>3. /\ first \in Seq(FileLine) /\ Rising(first)
          /\ \A i \in 1 .. a : first[i].kind \in prose /\ \E l \in 1 .. n : first[i] = placed[l]
          /\ \A l \in 1 .. n : placed[l].kind \in prose => \E i \in 1 .. a : first[i] = placed[l]
      BY <1>1, OfKindsKept
    <3> HIDE DEF first
    <3>4. QED BY <3>1, <3>2, <3>3
  <2>2. /\ last \in Seq(FileLine) /\ Rising(last)
        /\ \A i \in 1 .. b : last[i].kind = "table" /\ \E l \in 1 .. n : last[i] = placed[l]
        /\ \A l \in 1 .. n : placed[l].kind = "table" => \E i \in 1 .. b : last[i] = placed[l]
    <3>1. /\ last \in Seq(FileLine) /\ Rising(last)
          /\ \A i \in 1 .. b : last[i].kind \in {"table"} /\ \E l \in 1 .. n : last[i] = placed[l]
          /\ \A l \in 1 .. n : placed[l].kind \in {"table"} => \E i \in 1 .. b : last[i] = placed[l]
      BY <1>1, OfKindsKept
    <3> HIDE DEF last
    <3>2. QED BY <3>1
  <2>3. read = first \o last
    BY <1>3 DEF InReadingOrder
  <2> HIDE DEF prose, first, last, read
  <2>4. /\ read \in Seq(FileLine) /\ Len(read) = a + b /\ a \in Nat /\ b \in Nat
        /\ \A i \in 1 .. a + b : read[i] = IF i <= a THEN first[i] ELSE last[i - a]
    BY <2>1, <2>2, <2>3, CatFacts
  <2> HIDE DEF a, b
  <2>5. \A i \in 1 .. a + b : IF i <= a THEN i \in 1 .. a ELSE i - a \in 1 .. b
    BY <2>4
  <2>6. \A i \in 1 .. a + b : (\E l \in 1 .. n : read[i] = placed[l])
                             /\ (i <= a <=> read[i].kind # "table")
    <3>1. SUFFICES ASSUME NEW i \in 1 .. a + b
                   PROVE  (\E l \in 1 .. n : read[i] = placed[l]) /\ (i <= a <=> read[i].kind # "table")
      OBVIOUS
    <3>2. CASE i <= a
      BY <2>1, <2>4, <2>5, <3>2
    <3>3. CASE ~(i <= a)
      <4> DEFINE j == i - a
      <4>1. j \in 1 .. b /\ read[i] = last[j]
        BY <2>4, <2>5, <3>3
      <4> HIDE DEF j
      <4>2. last[j].kind = "table" /\ \E l \in 1 .. n : last[j] = placed[l]
        BY <2>2, <4>1
      <4>3. QED BY <3>3, <4>1, <4>2
    <3>4. QED BY <3>2, <3>3
  <2>7. \A i \in 1 .. a + b : read[i].at \in 1 .. n /\ read[i] = placed[read[i].at]
    BY <1>2, <2>6
  <2>8. \A l \in 1 .. n : \E j \in 1 .. a + b : read[j].at = l
    <3>1. SUFFICES ASSUME NEW l \in 1 .. n PROVE \E j \in 1 .. a + b : read[j].at = l
      OBVIOUS
    <3>2. CASE placed[l].kind # "table"
      <4>1. PICK i \in 1 .. a : first[i] = placed[l]
        BY <2>1, <3>2
      <4>2. i \in 1 .. a + b /\ i <= a
        BY <2>4
      <4>3. QED BY <1>2, <2>4, <4>1, <4>2
    <3>3. CASE placed[l].kind = "table"
      <4>1. PICK i \in 1 .. b : last[i] = placed[l]
        BY <2>2, <3>3
      <4>2. a + i \in 1 .. a + b /\ ~(a + i <= a) /\ (a + i) - a = i
        BY <2>4
      <4>3. QED BY <1>2, <2>4, <4>1, <4>2
    <3>4. QED BY <3>2, <3>3
  <2>9. ASSUME NEW i \in 1 .. a + b, NEW j \in 1 .. a + b, i < j, read[j].kind # "table"
        PROVE  read[i].at < read[j].at
    <3>1. j <= a
      BY <2>6, <2>9
    <3>2. i <= a /\ i \in 1 .. a /\ j \in 1 .. a
      BY <2>4, <2>9, <3>1
    <3>3. first[i].at < first[j].at
      BY <2>1, <2>9, <3>2 DEF Rising, a
    <3>4. QED BY <2>4, <3>1, <3>2, <3>3
  <2>10. ASSUME NEW i \in 1 .. a + b, NEW j \in 1 .. a + b, read[i].at = read[j].at PROVE i = j
    <3>1. read[i] = read[j]
      BY <2>7, <2>10
    <3>2. CASE i <= a
      <4>1. j <= a
        BY <2>6, <3>1, <3>2
      <4>2. i \in 1 .. a /\ j \in 1 .. a
        BY <2>5, <3>2, <4>1
      <4>3. read[i] = first[i] /\ read[j] = first[j]
        BY <2>4, <3>2, <4>1
      <4>4. \A p, q \in 1 .. a : first[p].at = first[q].at => p = q
        BY <2>1, RisingApart DEF a
      <4>5. QED BY <2>10, <4>2, <4>3, <4>4
    <3>3. CASE ~(i <= a)
      <4>1. ~(j <= a)
        BY <2>6, <3>1, <3>3
      <4>2. i - a \in 1 .. b /\ j - a \in 1 .. b
        BY <2>5, <3>3, <4>1
      <4>3. read[i] = last[i - a] /\ read[j] = last[j - a]
        BY <2>4, <3>3, <4>1
      <4>4. \A p, q \in 1 .. b : last[p].at = last[q].at => p = q
        BY <2>2, RisingApart DEF b
      <4>5. i - a = j - a
        BY <2>10, <4>2, <4>3, <4>4
      <4>6. QED BY <2>4, <4>5
    <3>4. QED BY <3>2, <3>3
  <2>11. \A l \in 1 .. n : ~Unread(format, placed, l)
    BY <1>3 DEF Unread
  <2>12. WellRead(format, placed, read)
    BY <1>3, <2>4, <2>7, <2>8, <2>9, <2>10, <2>11 DEF WellRead, n
  <2>13. QED BY <2>12 DEF read
<1>4. CASE format # "docx"
  <2> DEFINE kept == {l \in DOMAIN placed : ~Unread(format, placed, l)}
             shown == {placed[l] : l \in kept}
  <2>1. read = Those(shown, placed)
    BY <1>4 DEF InReadingOrder
  <2>2. \A l \in 1 .. n : ~Unread(format, placed, l) => placed[l] \in shown
    BY <1>1
  <2>3. \A x \in shown : \E l \in 1 .. n : x = placed[l] /\ ~Unread(format, placed, l)
    BY <1>1
  <2> HIDE DEF read, shown
  <2>4. /\ read \in Seq(FileLine) /\ Rising(read)
        /\ \A i \in 1 .. Len(read) : read[i] \in shown
        /\ \A l \in 1 .. n : placed[l] \in shown => \E i \in 1 .. Len(read) : read[i] = placed[l]
    BY <1>1, <2>1, ThoseOfRising DEF KeptOf
  <2>5. \A i \in 1 .. Len(read) : /\ read[i].at \in 1 .. n /\ read[i] = placed[read[i].at]
                                  /\ ~Unread(format, placed, read[i].at)
    <3>1. SUFFICES ASSUME NEW i \in 1 .. Len(read)
                   PROVE  /\ read[i].at \in 1 .. n /\ read[i] = placed[read[i].at]
                          /\ ~Unread(format, placed, read[i].at)
      OBVIOUS
    <3>2. PICK l \in 1 .. n : read[i] = placed[l] /\ ~Unread(format, placed, l)
      BY <2>3, <2>4
    <3>3. read[i].at = l
      BY <1>2, <3>2
    <3>4. QED BY <3>2, <3>3
  <2>6. \A l \in 1 .. n : ~Unread(format, placed, l) => \E i \in 1 .. Len(read) : read[i].at = l
    BY <1>2, <2>2, <2>4
  <2>7. \A i, j \in 1 .. Len(read) : read[i].at = read[j].at => i = j
    BY <2>4, RisingApart
  <2>8. WellRead(format, placed, read)
    BY <1>4, <2>4, <2>5, <2>6, <2>7 DEF WellRead, Rising, n
  <2>9. QED BY <2>8 DEF read
<1>5. QED BY <1>3, <1>4

\* What opens a section is read.
LEMMA OpenersAreRead ==
    ASSUME NEW format, NEW lines, NEW l, Opens(format, lines[l])
    PROVE  ~Unread(format, lines, l)
BY DEF Opens, Unread, OnFailingPage

\* What a line adds to the sections.
LEMMA OpeningLine ==
    ASSUME NEW format, NEW done \in Seq(Section), NEW line \in FileLine, Opens(format, line)
    PROVE  LET next == AddLine(format, done, line)
               n == Len(done)
           IN  /\ Len(next) = n + 1 /\ \A s \in 1 .. n : next[s] = done[s]
               /\ next[n + 1].section = Heading(format, line) /\ next[n + 1].body = <<>>
<1> DEFINE next == AddLine(format, done, line)
           n == Len(done)
           new == [section |-> Heading(format, line), body |-> <<>>]
<1>1. next = Append(done, new)
  BY DEF AddLine
<1>2. new.section = Heading(format, line) /\ new.body = <<>>
  OBVIOUS
<1>3. n \in Nat
  OBVIOUS
<1> HIDE DEF next, new
<1>4. Len(next) = n + 1 /\ next[n + 1] = new /\ \A s \in 1 .. n : next[s] = done[s]
  BY <1>1
<1>5. QED BY <1>2, <1>4 DEF next

LEMMA FilingLine ==
    ASSUME NEW format, NEW done \in Seq(Section), NEW line \in FileLine,
           ~Opens(format, line), done # <<>>
    PROVE  LET next == AddLine(format, done, line)
               n == Len(done)
           IN  /\ Len(next) = n /\ \A s \in 1 .. n : s # n => next[s] = done[s]
               /\ next[n].section = done[n].section
               /\ next[n].body = Append(done[n].body, [at |-> line.at, sentences |-> line.sentences])
<1> DEFINE next == AddLine(format, done, line)
           n == Len(done)
           p == [at |-> line.at, sentences |-> line.sentences]
           new == [Last(done) EXCEPT !.body = Append(@, p)]
<1>1. next = Front(done) \o <<new>>
  BY DEF AddLine
<1>2. Last(done) = done[n] /\ n \in 1 .. n /\ done[n] \in Section
  BY DEF Last
<1> HIDE DEF p
<1>3. new.section = done[n].section /\ new.body = Append(done[n].body, p)
  BY <1>2 DEF Section
<1> HIDE DEF next, new
<1>4. Len(next) = n /\ \A s \in 1 .. n : next[s] = IF s = n THEN new ELSE done[s]
  <2> DEFINE W == Section \cup {new}
  <2>1. done \in Seq(W) /\ new \in W
    <3>1. Section \subseteq W /\ new \in W
      OBVIOUS
    <3> HIDE DEF W
    <3>2. QED BY <3>1
  <2> HIDE DEF W
  <2>2. Len(Front(done) \o <<new>>) = Len(done)
        /\ \A s \in 1 .. Len(done) : (Front(done) \o <<new>>)[s] = IF s = Len(done) THEN new ELSE done[s]
    BY <2>1, LastReplaced
  <2>3. QED BY <1>1, <2>2
<1>5. QED BY <1>2, <1>3, <1>4 DEF next, p

\* Every line read so far is filed: q says under which section.
Filed(format, read, k, done, q) ==
    /\ done \in Seq(Section)
    /\ k > 0 \/ FirstSections(format) # <<>> => done # <<>>
    /\ FirstSections(format) # <<>> => done[1].section = "none"
    /\ \A j \in 1 .. k :
          /\ q[j] \in 1 .. Len(done)
          /\ Opens(format, read[j]) => done[q[j]].section = Heading(format, read[j])
          /\ ~Opens(format, read[j]) =>
                \E p \in 1 .. Len(done[q[j]].body) : done[q[j]].body[p].at = read[j].at
    /\ \A s \in 1 .. Len(done) : \A p \in 1 .. Len(done[s].body) :
          \E j \in 1 .. k : q[j] = s /\ done[s].body[p].at = read[j].at

LEMMA FiledStep ==
    ASSUME NEW format, NEW read \in Seq(FileLine), NEW k \in 0 .. Len(read) - 1, NEW done, NEW q,
           Filed(format, read, k, done, q),
           q[k + 1] = Len(AddLine(format, done, read[k + 1])),
           Opens(format, read[k + 1]) \/ done # <<>>
    PROVE  Filed(format, read, k + 1, AddLine(format, done, read[k + 1]), q)
<1> DEFINE line == read[k + 1]
           next == AddLine(format, done, line)
           n == Len(done)
           At(d, s, l) == \E p \in 1 .. Len(d[s].body) : d[s].body[p].at = l
<1>1. line \in FileLine /\ k \in Nat /\ k + 1 \in 1 .. k + 1
      /\ (\A j \in 1 .. k : j \in 1 .. k + 1) /\ \A j \in 1 .. k + 1 : j # k + 1 => j \in 1 .. k
  OBVIOUS
<1>2. done \in Seq(Section) /\ n \in Nat /\ next \in Seq(Section)
  <2>1. done \in Seq(Section)
    BY DEF Filed
  <2>2. QED BY <1>1, <2>1, AddLineType
<1>3. FirstSections(format) # <<>> => done # <<>> /\ done[1].section = "none"
  BY DEF Filed
<1>4. \A j \in 1 .. k :
          /\ q[j] \in 1 .. n
          /\ Opens(format, read[j]) => done[q[j]].section = Heading(format, read[j])
          /\ ~Opens(format, read[j]) => At(done, q[j], read[j].at)
  BY DEF Filed
<1>5. \A s \in 1 .. n : \A p \in 1 .. Len(done[s].body) :
          \E j \in 1 .. k : q[j] = s /\ done[s].body[p].at = read[j].at
  BY DEF Filed
<1>6. done # <<>> => n # 0
  BY <1>2
<1>7. q[k + 1] = Len(next)
  OBVIOUS
<1>8. CASE Opens(format, line)
  <2>1. /\ Len(next) = n + 1 /\ \A s \in 1 .. n : next[s] = done[s]
        /\ next[n + 1].section = Heading(format, line) /\ next[n + 1].body = <<>>
    BY <1>1, <1>2, <1>8, OpeningLine
  <2> HIDE DEF next, n, At, line
  <2>2. next # <<>>
    <3>1. Len(next) # 0 /\ Len(<<>>) = 0
      BY <1>2, <2>1
    <3>2. QED BY <3>1
  <2>3. FirstSections(format) # <<>> => next[1].section = "none"
    <3>1. done # <<>> => 1 \in 1 .. n
      BY <1>2, <1>6
    <3>2. QED BY <1>3, <2>1, <3>1
  <2>4. ASSUME NEW j \in 1 .. k + 1
        PROVE  /\ q[j] \in 1 .. n + 1
               /\ Opens(format, read[j]) => next[q[j]].section = Heading(format, read[j])
               /\ ~Opens(format, read[j]) => At(next, q[j], read[j].at)
    <3>1. CASE j = k + 1
      <4>1. q[j] = n + 1 /\ n + 1 \in 1 .. n + 1 /\ read[j] = line
        BY <1>2, <1>7, <2>1, <3>1 DEF line
      <4>2. QED BY <1>8, <2>1, <4>1
    <3>2. CASE j # k + 1
      <4>1. j \in 1 .. k
        BY <1>1, <3>2
      <4>2. q[j] \in 1 .. n
        BY <1>4, <4>1
      <4>3. q[j] \in 1 .. n + 1 /\ next[q[j]] = done[q[j]]
        BY <1>2, <2>1, <4>2
      <4>4. QED BY <1>4, <4>1, <4>3 DEF At
    <3>3. QED BY <3>1, <3>2
  <2>5. ASSUME NEW s \in 1 .. n + 1, NEW p \in 1 .. Len(next[s].body)
        PROVE  \E j \in 1 .. k + 1 : q[j] = s /\ next[s].body[p].at = read[j].at
    <3>1. s # n + 1
      <4>1. s = n + 1 => Len(next[s].body) = 0
        BY <2>1
      <4>2. QED BY <4>1
    <3>2. s \in 1 .. n
      BY <1>2, <3>1
    <3>3. next[s] = done[s]
      BY <2>1, <3>2
    <3>4. QED BY <1>1, <1>5, <3>2, <3>3
  <2>6. Filed(format, read, k + 1, next, q)
    BY <1>2, <2>1, <2>2, <2>3, <2>4, <2>5 DEF Filed, At
  <2>7. QED BY <2>6 DEF next, line
<1>9. CASE ~Opens(format, line)
  <2> DEFINE para == [at |-> line.at, sentences |-> line.sentences]
             body == done[n].body
             m == Len(body)
  <2>1. done # <<>> /\ n \in 1 .. n
    BY <1>2, <1>6, <1>9
  <2>2. /\ Len(next) = n /\ \A s \in 1 .. n : s # n => next[s] = done[s]
        /\ next[n].section = done[n].section /\ next[n].body = Append(body, para)
    <3>1. line \in FileLine /\ done \in Seq(Section) /\ ~Opens(format, line) /\ done # <<>>
      BY <1>1, <1>2, <1>9, <2>1
    <3> HIDE DEF line
    <3>2. LET added == AddLine(format, done, line)
              last == Len(done)
          IN  /\ Len(added) = last /\ \A s \in 1 .. last : s # last => added[s] = done[s]
              /\ added[last].section = done[last].section
              /\ added[last].body = Append(done[last].body, [at |-> line.at, sentences |-> line.sentences])
      BY <3>1, FilingLine
    <3>3. QED BY <3>2
  <2>3. para \in Paragraph /\ para.at = line.at
    BY <1>1 DEF FileLine, Paragraph
  <2>4. body \in Seq(Paragraph) /\ m \in Nat
    <3>1. done[n] \in Section
      BY <1>2, <2>1
    <3>2. QED BY <3>1 DEF Section
  <2> HIDE DEF next, n, At, line, para, body
  <2>5. Len(next[n].body) = m + 1 /\ next[n].body[m + 1] = para /\ \A p \in 1 .. m : next[n].body[p] = body[p]
    BY <2>2, <2>3, <2>4
  <2> HIDE DEF m
  <2>6. m + 1 \in 1 .. m + 1 /\ (\A p \in 1 .. m : p \in 1 .. m + 1) /\ \A p \in 1 .. m + 1 : p # m + 1 => p \in 1 .. m
    BY <2>4
  <2>7. next # <<>>
    <3>1. Len(next) # 0 /\ Len(<<>>) = 0
      BY <1>2, <2>1, <2>2
    <3>2. QED BY <3>1
  <2>8. \A s \in 1 .. n : next[s].section = done[s].section
    BY <2>2
  <2>9. ASSUME NEW s \in 1 .. n, NEW l, At(done, s, l) PROVE At(next, s, l)
    <3>1. CASE s = n
      <4>1. PICK p \in 1 .. m : body[p].at = l
        BY <2>9, <3>1 DEF At, m, body
      <4>2. p \in 1 .. Len(next[s].body) /\ next[s].body[p].at = l
        BY <2>5, <2>6, <3>1, <4>1
      <4>3. QED BY <4>2 DEF At
    <3>2. CASE s # n
      BY <2>2, <2>9, <3>2 DEF At
    <3>3. QED BY <3>1, <3>2
  <2>10. At(next, n, line.at)
    <3>1. m + 1 \in 1 .. Len(next[n].body) /\ next[n].body[m + 1].at = line.at
      BY <2>3, <2>5, <2>6
    <3>2. QED BY <3>1 DEF At
  <2>11. ASSUME NEW j \in 1 .. k + 1
         PROVE  /\ q[j] \in 1 .. n
                /\ Opens(format, read[j]) => next[q[j]].section = Heading(format, read[j])
                /\ ~Opens(format, read[j]) => At(next, q[j], read[j].at)
    <3>1. CASE j = k + 1
      <4>1. q[j] = n /\ read[j] = line
        BY <1>7, <2>2, <3>1 DEF line
      <4>2. QED BY <1>9, <2>1, <2>10, <4>1
    <3>2. CASE j # k + 1
      <4>1. j \in 1 .. k
        BY <1>1, <3>2
      <4>2. q[j] \in 1 .. n
        BY <1>4, <4>1
      <4>3. QED BY <1>4, <2>8, <2>9, <4>1, <4>2
    <3>3. QED BY <3>1, <3>2
  <2>12. ASSUME NEW s \in 1 .. n, NEW p \in 1 .. Len(next[s].body)
         PROVE  \E j \in 1 .. k + 1 : q[j] = s /\ next[s].body[p].at = read[j].at
    <3>1. CASE s = n /\ p = m + 1
      <4>1. q[k + 1] = s /\ next[s].body[p].at = read[k + 1].at
        BY <1>7, <2>2, <2>3, <2>5, <3>1 DEF line
      <4>2. QED BY <1>1, <4>1
    <3>2. CASE s = n /\ p # m + 1
      <4>1. p \in 1 .. m /\ next[s].body[p] = done[s].body[p]
        BY <2>5, <2>6, <3>2 DEF body
      <4>2. p \in 1 .. Len(done[s].body)
        BY <3>2, <4>1 DEF m, body
      <4>3. QED BY <1>1, <1>5, <4>1, <4>2
    <3>3. CASE s # n
      <4>1. next[s] = done[s]
        BY <2>2, <3>3
      <4>2. QED BY <1>1, <1>5, <4>1
    <3>4. QED BY <3>1, <3>2, <3>3
  <2>13. FirstSections(format) # <<>> => next[1].section = "none"
    <3>1. 1 \in 1 .. n
      BY <1>2, <2>1
    <3>2. QED BY <1>3, <2>8, <3>1
  <2>14. Filed(format, read, k + 1, next, q)
    BY <1>2, <2>2, <2>7, <2>11, <2>12, <2>13 DEF Filed, At
  <2>15. QED BY <2>14 DEF next, line
<1>10. QED BY <1>8, <1>9

\* The lines that have opened a section.
Openers(format, read, k) == {read[i].at : i \in {i \in 1 .. k : Opens(format, read[i])}}

LEMMA OpenersStep ==
    ASSUME NEW format, NEW read, NEW k \in Nat,
           \A i \in 1 .. k : read[i].at # read[k + 1].at
    PROVE  /\ Openers(format, read, 0) = {}
           /\ Opens(format, read[k + 1]) =>
                 /\ Openers(format, read, k + 1) = Openers(format, read, k) \cup {read[k + 1].at}
                 /\ read[k + 1].at \notin Openers(format, read, k)
           /\ ~Opens(format, read[k + 1]) => Openers(format, read, k + 1) = Openers(format, read, k)
<1>1. Openers(format, read, 0) = {}
  BY DEF Openers
<1>2. (\A i \in 1 .. k : i \in 1 .. k + 1) /\ k + 1 \in 1 .. k + 1 /\ \A i \in 1 .. k + 1 : i # k + 1 => i \in 1 .. k
  OBVIOUS
<1>3. Opens(format, read[k + 1]) => Openers(format, read, k + 1) = Openers(format, read, k) \cup {read[k + 1].at}
  BY <1>2 DEF Openers
<1>4. ~Opens(format, read[k + 1]) => Openers(format, read, k + 1) = Openers(format, read, k)
  BY <1>2 DEF Openers
<1>5. read[k + 1].at \notin Openers(format, read, k)
  BY DEF Openers
<1>6. QED BY <1>1, <1>3, <1>4, <1>5

LEMMA SectionsFiled ==
    ASSUME NEW format, NEW read \in Seq(FileLine),
           FirstSections(format) # <<>> \/ read = <<>> \/ Opens(format, read[1]),
           \A i, j \in 1 .. Len(read) : read[i].at = read[j].at => i = j
    PROVE  \E q : /\ Filed(format, read, Len(read), Divided(format, read), q)
                  /\ \A j \in 1 .. Len(read) :
                        q[j] = Len(FirstSections(format)) + Cardinality(Openers(format, read, j))
<1> DEFINE n == Len(read)
           first == FirstSections(format)
           O(k) == Openers(format, read, k)
<1>1. n \in Nat /\ (\A k \in 1 .. n : read[k] \in FileLine) /\ (n # 0 => read # <<>>)
  OBVIOUS
<1>2. PICK g : SectionPath(format, read, g)
  BY SectionSteps
<1>3. g[0] = first /\ (\A k \in 1 .. n : g[k] = AddLine(format, g[k - 1], read[k])) /\ g[n] = Divided(format, read)
  BY <1>2 DEF SectionPath
<1>4. \A i, j \in 1 .. n : read[i].at = read[j].at => i = j
  OBVIOUS
<1>5. first \in Seq(Section)
  BY FirstSectionsType
<1>6. first # <<>> => first[1].section = "none"
  BY DEF FirstSections
<1> HIDE DEF first, O
<1> DEFINE q == [j \in 0 .. n |-> Len(g[j])]
           Good == {k \in 0 .. n : /\ Filed(format, read, k, g[k], q) /\ IsFiniteSet(O(k))
                                   /\ Len(g[k]) = Len(first) + Cardinality(O(k))}
<1>7. \A s \in 1 .. Len(first) : Len(first[s].body) = 0
  BY DEF FirstSections, first
<1>8. 0 \in Good
  <2>1. 0 \in 0 .. n
    BY <1>1
  <2> HIDE DEF q
  <2>2. Filed(format, read, 0, first, q)
    BY <1>5, <1>6, <1>7 DEF Filed, first
  <2>3. O(0) = {}
    BY DEF O, Openers
  <2>4. IsFiniteSet(O(0)) /\ Cardinality(O(0)) = 0
    BY <2>3, FS_EmptySet
  <2>5. Len(first) = Len(first) + 0
    BY <1>5
  <2>6. QED BY <1>3, <2>1, <2>2, <2>4, <2>5
<1>9. ASSUME NEW k \in 0 .. n - 1, k \in Good PROVE k + 1 \in Good
  <2> DEFINE line == read[k + 1]
             next == AddLine(format, g[k], line)
  <2>1. k + 1 \in 1 .. n /\ (k + 1) - 1 = k /\ k + 1 \in 0 .. n /\ k \in Nat
    BY <1>1
  <2>2. g[k + 1] = next /\ line \in FileLine
    BY <1>1, <1>3, <2>1
  <2>3. Filed(format, read, k, g[k], q) /\ IsFiniteSet(O(k)) /\ Len(g[k]) = Len(first) + Cardinality(O(k))
    BY <1>9
  <2>4. q[k + 1] = Len(next)
    BY <2>1, <2>2
  <2> HIDE DEF q
  <2>5. g[k] \in Seq(Section) /\ (k > 0 => g[k] # <<>>)
    BY <2>3 DEF Filed
  <2>6. Opens(format, line) \/ g[k] # <<>>
    <3>1. CASE k = 0
      <4>1. read # <<>> /\ line = read[1]
        BY <1>1, <2>1, <3>1
      <4>2. QED BY <1>3, <3>1, <4>1 DEF first
    <3>2. CASE k # 0
      BY <2>1, <2>5, <3>2
    <3>3. QED BY <3>1, <3>2
  <2>7. Filed(format, read, k + 1, next, q)
    BY <2>3, <2>4, <2>6, FiledStep
  <2>8. \A i \in 1 .. k : read[i].at # read[k + 1].at
    <3>1. SUFFICES ASSUME NEW i \in 1 .. k, read[i].at = read[k + 1].at PROVE FALSE
      OBVIOUS
    <3>2. i \in 1 .. n /\ i # k + 1
      BY <1>1, <2>1
    <3>3. QED BY <1>4, <2>1, <3>1, <3>2
  <2>9. /\ Opens(format, line) => O(k + 1) = O(k) \cup {line.at} /\ line.at \notin O(k)
        /\ ~Opens(format, line) => O(k + 1) = O(k)
    BY <2>1, <2>8, OpenersStep DEF O
  <2> HIDE DEF next, line
  <2>10. Cardinality(O(k)) \in Nat /\ Len(first) \in Nat
    BY <1>5, <2>3, FS_CardinalityType
  <2>11. IsFiniteSet(O(k + 1)) /\ Len(next) = Len(first) + Cardinality(O(k + 1))
    <3>1. CASE Opens(format, line)
      <4>1. Len(next) = Len(g[k]) + 1
        BY <2>2, <2>5, <3>1, OpeningLine DEF next
      <4>2. IsFiniteSet(O(k) \cup {line.at}) /\ Cardinality(O(k) \cup {line.at}) = Cardinality(O(k)) + 1
        BY <2>3, <2>9, <3>1, FS_AddElement
      <4>3. IsFiniteSet(O(k + 1)) /\ Cardinality(O(k + 1)) = Cardinality(O(k)) + 1
        BY <2>9, <3>1, <4>2
      <4> DEFINE a == Len(first)
                 c == Cardinality(O(k))
      <4> HIDE DEF a, c
      <4>4. Len(g[k]) = a + c /\ a \in Nat /\ c \in Nat
        BY <2>3, <2>10 DEF a, c
      <4>5. Len(next) = a + (c + 1)
        BY <4>1, <4>4
      <4>6. QED BY <4>3, <4>5 DEF a, c
    <3>2. CASE ~Opens(format, line)
      <4>1. Len(next) = Len(g[k])
        <5> DEFINE done == g[k]
        <5>1. line \in FileLine /\ done \in Seq(Section) /\ ~Opens(format, line) /\ done # <<>>
          BY <2>2, <2>5, <2>6, <3>2
        <5> HIDE DEF done
        <5>2. Len(AddLine(format, done, line)) = Len(done)
          BY <5>1, FilingLine
        <5>3. QED BY <5>2 DEF next, done
      <4>2. QED BY <2>3, <2>9, <3>2, <4>1
    <3>3. QED BY <3>1, <3>2
  <2>12. QED BY <2>1, <2>2, <2>7, <2>11
<1>10. 0 .. n \subseteq Good
  <2> HIDE DEF Good, n
  <2>1. QED BY <1>1, <1>8, <1>9, UpTo
<1>11. \A j \in 1 .. n : q[j] = Len(first) + Cardinality(O(j))
  <2>1. SUFFICES ASSUME NEW j \in 1 .. n PROVE q[j] = Len(first) + Cardinality(O(j))
    OBVIOUS
  <2>2. j \in 0 .. n
    BY <1>1
  <2>3. Len(g[j]) = Len(first) + Cardinality(O(j))
    BY <1>10, <2>2
  <2>4. QED BY <2>2, <2>3
<1>12. Filed(format, read, n, g[n], q)
  <2>1. n \in 0 .. n
    BY <1>1
  <2>2. QED BY <1>10, <2>1
<1> HIDE DEF q
<1>13. QED BY <1>3, <1>11, <1>12 DEF n, first, O

\* Every section with text is a page, with its number, heading and text.
Covers(sections, pages, k) ==
    /\ pages \in Seq(FilePage)
    /\ \A i \in 1 .. Len(pages) :
          /\ pages[i].number \in 1 .. k
          /\ pages[i].section = sections[pages[i].number].section
          /\ pages[i].text = sections[pages[i].number].body
    /\ \A s \in 1 .. k : sections[s].body # <<>> => \E i \in 1 .. Len(pages) : pages[i].number = s

LEMMA CoversStep ==
    ASSUME NEW sections \in Seq(Section), NEW pages, NEW k \in Nat, Covers(sections, pages, k),
           k + 1 \in 1 .. Len(sections)
    PROVE  Covers(sections, AddPage(sections, pages, k + 1), k + 1)
<1> DEFINE n == Len(pages)
           page == [number |-> k + 1, section |-> sections[k + 1].section, text |-> sections[k + 1].body]
           next == AddPage(sections, pages, k + 1)
<1>1. pages \in Seq(FilePage) /\ n \in Nat
  BY DEF Covers
<1>2. \A i \in 1 .. n :
          /\ pages[i].number \in 1 .. k
          /\ pages[i].section = sections[pages[i].number].section
          /\ pages[i].text = sections[pages[i].number].body
  BY DEF Covers
<1>3. \A s \in 1 .. k : sections[s].body # <<>> => \E i \in 1 .. n : pages[i].number = s
  BY DEF Covers
<1>4. (\A s \in 1 .. k : s \in 1 .. k + 1) /\ k + 1 \in 1 .. k + 1 /\ \A s \in 1 .. k + 1 : s # k + 1 => s \in 1 .. k
  OBVIOUS
<1>5. next \in Seq(FilePage)
  BY <1>1, AddPageType
<1>6. CASE sections[k + 1].body = <<>>
  <2>1. next = pages
    BY <1>6 DEF AddPage
  <2>2. \A i \in 1 .. n : pages[i].number \in 1 .. k + 1
    BY <1>2, <1>4
  <2>3. \A s \in 1 .. k + 1 : sections[s].body # <<>> => \E i \in 1 .. n : pages[i].number = s
    BY <1>3, <1>4, <1>6
  <2> HIDE DEF next
  <2>4. QED BY <1>1, <1>2, <2>1, <2>2, <2>3 DEF Covers, next
<1>7. CASE sections[k + 1].body # <<>>
  <2>1. next = Append(pages, page)
    BY <1>7 DEF AddPage
  <2>2. page.number = k + 1 /\ page.section = sections[k + 1].section /\ page.text = sections[k + 1].body
    OBVIOUS
  <2> HIDE DEF next, page
  <2>3. Len(next) = n + 1 /\ next[n + 1] = page /\ \A i \in 1 .. n : next[i] = pages[i]
    BY <1>1, <2>1
  <2> HIDE DEF n
  <2>4. (\A i \in 1 .. n : i \in 1 .. n + 1) /\ n + 1 \in 1 .. n + 1 /\ \A i \in 1 .. n + 1 : i # n + 1 => i \in 1 .. n
    BY <1>1
  <2>5. ASSUME NEW i \in 1 .. n + 1
        PROVE  /\ next[i].number \in 1 .. k + 1
               /\ next[i].section = sections[next[i].number].section
               /\ next[i].text = sections[next[i].number].body
    <3>1. CASE i = n + 1
      BY <1>4, <2>2, <2>3, <3>1
    <3>2. CASE i # n + 1
      BY <1>2, <1>4, <2>3, <2>4, <3>2
    <3>3. QED BY <3>1, <3>2
  <2>6. ASSUME NEW s \in 1 .. k + 1, sections[s].body # <<>> PROVE \E i \in 1 .. n + 1 : next[i].number = s
    <3>1. CASE s = k + 1
      BY <2>2, <2>3, <2>4, <3>1
    <3>2. CASE s # k + 1
      <4>1. PICK i \in 1 .. n : pages[i].number = s
        BY <1>3, <1>4, <2>6, <3>2
      <4>2. QED BY <2>3, <2>4, <4>1
    <3>3. QED BY <3>1, <3>2
  <2>7. Covers(sections, next, k + 1)
    BY <1>5, <2>3, <2>5, <2>6 DEF Covers, next
  <2>8. QED BY <2>7 DEF next
<1>8. QED BY <1>6, <1>7

LEMMA PagesCover ==
    ASSUME NEW sections \in Seq(Section)
    PROVE  Covers(sections, NumberedPages(sections), Len(sections))
<1> DEFINE n == Len(sections)
           index == [i \in DOMAIN sections |-> i]
           pages == NumberedPages(sections)
<1>1. n \in Nat /\ index \in Seq(1 .. n) /\ Len(index) = n /\ \A k \in 1 .. n : index[k] = k
  OBVIOUS
<1>2. pages = Numbering(sections, index)
  BY DEF NumberedPages, Numbering
<1> HIDE DEF index
<1>3. PICK g : PagePath(sections, index, g)
  BY <1>1, PageSteps
<1>4. g[0] = <<>> /\ (\A k \in 1 .. n : g[k] = AddPage(sections, g[k - 1], index[k])) /\ g[n] = pages
  BY <1>1, <1>2, <1>3 DEF PagePath
<1> HIDE DEF pages
<1> DEFINE Good == {k \in 0 .. n : Covers(sections, g[k], k)}
<1>5. 0 \in Good
  <2>1. 0 \in 0 .. n
    BY <1>1
  <2>2. <<>> \in Seq(FilePage) /\ Len(<<>>) = 0
    OBVIOUS
  <2>3. Covers(sections, <<>>, 0)
    BY <2>2 DEF Covers
  <2>4. QED BY <1>4, <2>1, <2>3
<1>6. ASSUME NEW k \in 0 .. n - 1, k \in Good PROVE k + 1 \in Good
  <2>1. k + 1 \in 1 .. n /\ (k + 1) - 1 = k /\ k + 1 \in 0 .. n /\ k \in Nat
    BY <1>1
  <2>2. g[k + 1] = AddPage(sections, g[k], k + 1)
    BY <1>1, <1>4, <2>1
  <2>3. Covers(sections, g[k], k)
    BY <1>6
  <2>4. Covers(sections, AddPage(sections, g[k], k + 1), k + 1)
    BY <2>1, <2>3, CoversStep
  <2>5. QED BY <2>1, <2>2, <2>4
<1>7. 0 .. n \subseteq Good
  <2> HIDE DEF Good, n
  <2>1. QED BY <1>1, <1>5, <1>6, UpTo
<1>8. Covers(sections, pages, n)
  <2>1. n \in 0 .. n
    BY <1>1
  <2>2. QED BY <1>4, <1>7, <2>1
<1>9. QED BY <1>8 DEF pages

LEMMA LargestOf ==
    ASSUME NEW n \in Nat, NEW B \in SUBSET (1 .. n), B # {}
    PROVE  \E m \in B : \A j \in B : j <= m
<1> DEFINE Good == {k \in 0 .. n : B \cap (1 .. k) = {} \/ \E m \in B : \A j \in B \cap (1 .. k) : j <= m}
<1>1. 0 \in Good
  OBVIOUS
<1>2. ASSUME NEW k \in 0 .. n - 1, k \in Good PROVE k + 1 \in Good
  <2>1. k + 1 \in 0 .. n /\ \A j \in 1 .. k + 1 : j <= k + 1 /\ (j # k + 1 => j \in 1 .. k)
    OBVIOUS
  <2>2. CASE k + 1 \in B
    <3>1. \A j \in B \cap (1 .. k + 1) : j <= k + 1
      BY <2>1
    <3>2. QED BY <2>1, <2>2, <3>1
  <2>3. CASE k + 1 \notin B
    <3>1. B \cap (1 .. k + 1) \subseteq B \cap (1 .. k)
      BY <2>1, <2>3
    <3>2. QED BY <1>2, <2>1, <3>1
  <2>4. QED BY <2>2, <2>3
<1>3. 0 .. n \subseteq Good
  <2> HIDE DEF Good
  <2>1. QED BY <1>1, <1>2, UpTo
<1>4. n \in Good
  <2>1. n \in 0 .. n
    OBVIOUS
  <2> HIDE DEF Good
  <2>2. QED BY <1>3, <2>1
<1>5. B \cap (1 .. n) = B
  OBVIOUS
<1>6. QED BY <1>4, <1>5

LEMMA TypeAlwaysFits ==
    ASSUME NEW file, file.content \in {"pdf", "zip", "text", "bytes"}
    PROVE  TypeFits(file)
<1> DEFINE format == Format(file)
           e == file.extension
<1>1. format = SourceTypeFor(file.content, e)
  BY DEF Format
<1> HIDE DEF format, e
<1>2. CASE file.content = "pdf"
  <2>1. format = "pdf"
    BY <1>1, <1>2 DEF SourceTypeFor
  <2>2. QED BY <1>2, <2>1 DEF TypeFits, format
<1>3. CASE file.content = "zip"
  <2>1. format = IF e \in {"docx", "pptx"} THEN e ELSE "unsupported"
    BY <1>1, <1>3 DEF SourceTypeFor
  <2>2. format # "pdf"
    BY <2>1
  <2>3. format \in {"docx", "pptx"} => format = e
    BY <2>1
  <2>4. QED BY <1>3, <2>2, <2>3 DEF TypeFits, format, e
<1>4. CASE file.content = "text" \/ file.content = "bytes"
  <2>1. format = IF e \in Binary THEN "unsupported"
                 ELSE IF e \in {"md", "html"} THEN e
                 ELSE IF file.content = "text" THEN "md" ELSE "unsupported"
    BY <1>1, <1>4 DEF SourceTypeFor
  <2>2. format \in {"unsupported", "md", "html"}
    BY <2>1
  <2>3. format = "unsupported" => e \in Binary \/ file.content = "bytes"
    BY <1>4, <2>1
  <2>4. QED BY <1>4, <2>2, <2>3 DEF TypeFits, format, e
<1>5. QED BY <1>2, <1>3, <1>4

\* What the sections say of a line: its place is the number of lines up to it
\* that open a section.
LEMMA AlwaysWellPlaced ==
    ASSUME NEW file, file.lines \in Seq(FileLine),
           Format(file) \in {"pdf", "pptx"} /\ file.lines # <<>> =>
               file.lines[1].kind \in {"page", "failing"},
           Format(file) # "html" => \A l \in DOMAIN file.lines : file.lines[l].kind # "chrome"
    PROVE  WellPlaced(file, Pages(file))
<1> DEFINE lines == file.lines
           n == Len(lines)
           placed == [i \in DOMAIN lines |-> [lines[i] EXCEPT !.at = i]]
           format == Format(file)
           first == FirstSections(format)
           read == InReadingOrder(format, placed)
           sections == Divided(format, read)
           pages == Pages(file)
           Openings(l) == {k \in 1 .. l : Opens(format, lines[k])}
           Latest(l) == CHOOSE k \in Openings(l) : \A j \in Openings(l) : j <= k
           SectionOf(l) == IF Openings(l) = {} THEN "none" ELSE Heading(format, lines[Latest(l)])
           NumberOf(l) == Cardinality(Openings(l)) + Len(first)
           Lost(l) == \/ format = "pdf" /\ lines[Latest(l)].kind = "failing"
                      \/ format = "pptx" /\ lines[l].kind = "table"
           Texts(l) == {i \in DOMAIN pages : \E p \in DOMAIN pages[i].text : pages[i].text[p].at = l}
<1>1. DOMAIN lines = 1 .. n /\ n \in Nat /\ \A l \in 1 .. n : lines[l] \in FileLine
  OBVIOUS
<1>2. format # "html" => \A l \in 1 .. n : lines[l].kind # "chrome"
  OBVIOUS
<1>3. format \in {"pdf", "pptx"} /\ lines # <<>> => lines[1].kind \in {"page", "failing"}
  OBVIOUS
<1>4. pages = NumberedPages(sections)
  BY DEF Pages, Sections, Divided
<1> HIDE DEF lines, format, pages
<1>5. placed \in Seq(FileLine) /\ Len(placed) = n
      /\ \A l \in 1 .. n : placed[l].at = l /\ placed[l].kind = lines[l].kind /\ placed[l].name = lines[l].name
  <2>1. \A l \in 1 .. n : /\ placed[l] \in FileLine
                          /\ placed[l].at = l /\ placed[l].kind = lines[l].kind /\ placed[l].name = lines[l].name
    <3>1. SUFFICES ASSUME NEW l \in 1 .. n
                   PROVE  /\ placed[l] \in FileLine
                          /\ placed[l].at = l /\ placed[l].kind = lines[l].kind /\ placed[l].name = lines[l].name
      OBVIOUS
    <3>2. lines[l] \in FileLine /\ l \in Int /\ placed[l] = [lines[l] EXCEPT !.at = l]
      BY <1>1
    <3> HIDE DEF placed
    <3>3. QED BY <3>2 DEF FileLine
  <2>2. placed = [l \in 1 .. n |-> placed[l]]
    BY <1>1
  <2> HIDE DEF placed
  <2>3. placed \in Seq(FileLine) /\ Len(placed) = n
    BY <1>1, <2>1, <2>2
  <2>4. QED BY <2>1, <2>3
<1> HIDE DEF placed
<1>6. \A l \in 1 .. n : /\ Opens(format, placed[l]) <=> Opens(format, lines[l])
                        /\ Heading(format, placed[l]) = Heading(format, lines[l])
  BY <1>5 DEF Opens, Heading
<1>7. WellRead(format, placed, read)
  BY <1>5, ReadingOrder
<1>8. first # <<>> \/ read = <<>> \/ Opens(format, read[1])
  <2>1. SUFFICES ASSUME first = <<>>, read # <<>> PROVE Opens(format, read[1])
    OBVIOUS
  <2>2. format \in {"pdf", "pptx"}
    <3>1. <<[section |-> "none", body |-> <<>>]>> # <<>>
      OBVIOUS
    <3>2. QED BY <2>1, <3>1 DEF FirstSections
  <2> HIDE DEF read
  <2>3. /\ Len(read) \in Nat /\ 1 \in 1 .. Len(read)
        /\ \A j \in 1 .. Len(read) : read[j].at \in 1 .. n /\ read[j] = placed[read[j].at]
    <3>1. read \in Seq(FileLine)
      BY <1>7 DEF WellRead
    <3>2. Len(read) \in Nat /\ 1 \in 1 .. Len(read)
      BY <2>1, <3>1
    <3>3. QED BY <1>5, <1>7, <3>2 DEF WellRead
  <2>4. n # 0 /\ 1 \in 1 .. n
    BY <1>1, <2>3
  <2>5. lines # <<>>
    BY <2>4
  <2> HIDE DEF n
  <2>6. placed[1].kind \in {"page", "failing"} /\ Opens(format, placed[1])
    BY <1>3, <1>5, <2>2, <2>4, <2>5 DEF Opens
  <2>7. PICK j \in 1 .. Len(read) : read[j].at = 1
    BY <1>5, <1>7, <2>4, <2>6, OpenersAreRead DEF WellRead
  <2>8. j = 1
    <3>1. SUFFICES ASSUME 1 < j PROVE FALSE
      BY <2>3
    <3>2. format # "docx"
      BY <2>2
    <3>3. read[1].at < read[j].at
      BY <1>7, <2>3, <3>1, <3>2 DEF WellRead
    <3>4. QED BY <1>1, <2>3, <2>7, <3>3
  <2>9. QED BY <2>3, <2>6, <2>7, <2>8
<1> HIDE DEF read
<1>9. read \in Seq(FileLine) /\ \A i, j \in 1 .. Len(read) : read[i].at = read[j].at => i = j
  BY <1>7 DEF WellRead
<1>10. \E q : /\ Filed(format, read, Len(read), sections, q)
              /\ \A j \in 1 .. Len(read) : q[j] = Len(first) + Cardinality(Openers(format, read, j))
  BY <1>8, <1>9, SectionsFiled
<1>11. PICK q : /\ Filed(format, read, Len(read), sections, q)
                /\ \A j \in 1 .. Len(read) : q[j] = Len(first) + Cardinality(Openers(format, read, j))
  BY <1>10
<1>12. sections \in Seq(Section)
  BY <1>9, DividedType
<1>13. /\ pages \in Seq(FilePage) /\ Covers(sections, pages, Len(sections))
       /\ \A a, b \in 1 .. Len(pages) : pages[a].number = pages[b].number => a = b
  BY <1>4, <1>12, PagesCover, NumberedPagesFacts
<1> DEFINE m == Len(read)
<1>14. DOMAIN pages = 1 .. Len(pages)
       /\ \A i \in 1 .. Len(pages) : /\ pages[i].number \in 1 .. Len(sections)
                                     /\ pages[i].section = sections[pages[i].number].section
                                     /\ pages[i].text = sections[pages[i].number].body
                                     /\ DOMAIN pages[i].text = 1 .. Len(pages[i].text)
  <2>1. \A i \in 1 .. Len(pages) : pages[i] \in FilePage
    BY <1>13
  <2>2. \A i \in 1 .. Len(pages) : DOMAIN pages[i].text = 1 .. Len(pages[i].text)
    BY <2>1 DEF FilePage
  <2>3. DOMAIN pages = 1 .. Len(pages)
    BY <1>13
  <2>4. QED BY <1>13, <2>2, <2>3 DEF Covers
<1>15. \A j \in 1 .. m : /\ read[j].at \in 1 .. n /\ read[j] = placed[read[j].at]
                         /\ Opens(format, read[j]) <=> Opens(format, lines[read[j].at])
                         /\ Heading(format, read[j]) = Heading(format, lines[read[j].at])
  BY <1>5, <1>6, <1>7 DEF WellRead
<1> HIDE DEF first, sections
<1>16. ASSUME NEW j \in 1 .. m, format # "docx" \/ read[j].kind # "table"
       PROVE  Openers(format, read, j) = Openings(read[j].at)
  <2> DEFINE l == read[j].at
  <2>1. l \in 1 .. n /\ m \in Nat
    BY <1>9, <1>15
  <2>2. ASSUME NEW i \in 1 .. j, Opens(format, read[i]) PROVE read[i].at \in Openings(l)
    <3>1. i \in 1 .. m
      BY <2>1
    <3>2. read[i].at \in 1 .. n /\ Opens(format, lines[read[i].at])
      BY <1>15, <2>2, <3>1
    <3>3. i # j => read[i].at < l
      <4>1. i # j => i < j
        OBVIOUS
      <4>2. QED BY <1>7, <1>16, <3>1, <4>1 DEF WellRead
    <3>4. i = j => read[i].at = l
      OBVIOUS
    <3> DEFINE x == read[i].at
    <3> HIDE DEF x, l
    <3>5. x \in 1 .. n /\ (x < l \/ x = l) /\ Opens(format, lines[x])
      BY <3>2, <3>3, <3>4 DEF x, l
    <3>6. x \in 1 .. l
      BY <1>1, <2>1, <3>5
    <3>7. QED BY <3>5, <3>6 DEF x
  <2>3. ASSUME NEW x \in Openings(l) PROVE \E i \in 1 .. j : Opens(format, read[i]) /\ x = read[i].at
    <3>1. x \in 1 .. l /\ x \in 1 .. n /\ x <= l /\ Opens(format, lines[x])
      BY <1>1, <2>1
    <3>2. lines[x].kind # "table"
      BY <3>1 DEF Opens
    <3>3. placed[x].kind # "table" /\ ~Unread(format, placed, x)
      BY <1>5, <1>6, <3>1, <3>2, OpenersAreRead
    <3>4. PICK i \in 1 .. m : read[i].at = x
      BY <1>5, <1>7, <3>1, <3>3 DEF WellRead
    <3>5. read[i] = placed[x] /\ Opens(format, read[i])
      BY <1>15, <3>1, <3>4
    <3>6. ~(j < i)
      <4>1. SUFFICES ASSUME j < i PROVE FALSE
        OBVIOUS
      <4>2. read[i].kind # "table"
        BY <3>3, <3>5
      <4>3. read[j].at < read[i].at
        BY <1>7, <4>1, <4>2 DEF WellRead
      <4> HIDE DEF l
      <4>4. l < x
        BY <3>4, <4>3 DEF l
      <4>5. QED BY <1>1, <2>1, <3>1, <4>4
    <3>7. i \in 1 .. j
      BY <2>1, <3>6
    <3>8. QED BY <3>4, <3>5, <3>7
  <2> HIDE DEF l, Openings
  <2>4. Openers(format, read, j) \subseteq Openings(l)
    BY <2>2 DEF Openers
  <2>5. Openings(l) \subseteq Openers(format, read, j)
    BY <2>3 DEF Openers
  <2>6. QED BY <2>4, <2>5 DEF l
<1>17. ASSUME NEW j \in 1 .. m, ~Opens(format, read[j])
       PROVE  \E i \in 1 .. Len(pages) : /\ Texts(read[j].at) = {i}
                                         /\ pages[i].number = q[j] /\ pages[i].section = sections[q[j]].section
  <2>1. q[j] \in 1 .. Len(sections)
        /\ \E p \in 1 .. Len(sections[q[j]].body) : sections[q[j]].body[p].at = read[j].at
    BY <1>11, <1>17 DEF Filed
  <2>2. PICK p \in 1 .. Len(sections[q[j]].body) : sections[q[j]].body[p].at = read[j].at
    BY <2>1
  <2>3. sections[q[j]].body # <<>>
    <3>1. sections[q[j]].body = <<>> => Len(sections[q[j]].body) = 0
      OBVIOUS
    <3>2. QED BY <2>2, <3>1
  <2>4. PICK i \in 1 .. Len(pages) : pages[i].number = q[j]
    BY <1>13, <2>1, <2>3 DEF Covers
  <2>5. pages[i].text = sections[q[j]].body /\ pages[i].section = sections[q[j]].section
    BY <1>14, <2>4
  <2>6. i \in Texts(read[j].at)
    <3>1. p \in DOMAIN pages[i].text /\ pages[i].text[p].at = read[j].at
      BY <1>14, <2>2, <2>5
    <3>2. i \in DOMAIN pages
      BY <1>14
    <3>3. QED BY <3>1, <3>2
  <2>7. ASSUME NEW k \in Texts(read[j].at) PROVE k = i
    <3>1. k \in 1 .. Len(pages) /\ \E r \in DOMAIN pages[k].text : pages[k].text[r].at = read[j].at
      BY <1>14
    <3>2. PICK r \in 1 .. Len(pages[k].text) : pages[k].text[r].at = read[j].at
      BY <1>14, <3>1
    <3>3. pages[k].number \in 1 .. Len(sections) /\ pages[k].text = sections[pages[k].number].body
      BY <1>14, <3>1
    <3> DEFINE s == pages[k].number
    <3>4. s \in 1 .. Len(sections) /\ r \in 1 .. Len(sections[s].body) /\ sections[s].body[r].at = read[j].at
      BY <3>2, <3>3
    <3> HIDE DEF s
    <3>5. PICK h \in 1 .. m : q[h] = s /\ sections[s].body[r].at = read[h].at
      BY <1>11, <3>4 DEF Filed
    <3>6. h = j
      BY <1>9, <3>4, <3>5
    <3>7. QED BY <1>13, <2>4, <3>1, <3>5, <3>6 DEF s
  <2> HIDE DEF Texts
  <2>8. Texts(read[j].at) = {i}
    BY <2>6, <2>7
  <2>9. QED BY <2>4, <2>5, <2>8
<1>18. ASSUME NEW j \in 1 .. m, format # "docx" \/ read[j].kind # "table"
       PROVE  q[j] = NumberOf(read[j].at) /\ sections[q[j]].section = SectionOf(read[j].at)
  <2> DEFINE l == read[j].at
             B == Openings(l)
  <2>1. l \in 1 .. n /\ l \in Nat
    BY <1>1, <1>15
  <2>2. Openers(format, read, j) = B
    BY <1>16, <1>18
  <2>3. q[j] = Len(first) + Cardinality(B)
    BY <1>11, <2>2
  <2>4. B \in SUBSET (1 .. l)
    OBVIOUS
  <2> HIDE DEF l
  <2>5. IsFiniteSet(B) /\ Cardinality(B) \in Nat
    <3>1. IsFiniteSet(1 .. l)
      BY <2>1, FS_Interval
    <3> HIDE DEF B
    <3>2. IsFiniteSet(B)
      BY <2>4, <3>1, FS_Subset
    <3>3. QED BY <3>2, FS_CardinalityType
  <2>6. Len(first) \in Nat
    BY FirstSectionsType DEF first
  <2>7. q[j] = NumberOf(l)
    <3> DEFINE c == Cardinality(B)
               a == Len(first)
    <3> HIDE DEF c, a
    <3>1. q[j] = a + c /\ a \in Nat /\ c \in Nat
      BY <2>3, <2>5, <2>6 DEF a, c
    <3>2. q[j] = c + a
      BY <3>1
    <3>3. QED BY <3>2 DEF a, c
  <2>8. sections[q[j]].section = SectionOf(l)
    <3>1. CASE B = {}
      <4>1. Cardinality(B) = 0
        BY <3>1, FS_EmptySet
      <4>2. q[j] = Len(first)
        BY <2>3, <2>6, <4>1
      <4>3. q[j] \in 1 .. Len(sections)
        BY <1>11 DEF Filed
      <4>4. Len(first) \in {0, 1}
        BY DEF first, FirstSections
      <4>5. q[j] = 1
        BY <4>2, <4>3, <4>4
      <4>6. first # <<>>
        <5>1. Len(first) = 1
          BY <4>2, <4>5
        <5>2. QED BY <5>1
      <4>7. sections[1].section = "none"
        BY <1>11, <4>6 DEF Filed, first
      <4>8. QED BY <3>1, <4>5, <4>7
    <3>2. CASE B # {}
      <4>1. \E k \in B : \A i \in B : i <= k
        BY <2>1, <2>4, <3>2, LargestOf
      <4> DEFINE k == Latest(l)
      <4>2. k \in B /\ \A i \in B : i <= k
        BY <4>1
      <4> HIDE DEF k
      <4>3. PICK h \in 1 .. j : Opens(format, read[h]) /\ read[h].at = k
        BY <2>2, <4>2 DEF Openers
      <4>4. h \in 1 .. m /\ read[h].kind # "table"
        <5>1. h \in 1 .. m
          BY <1>9
        <5>2. QED BY <4>3, <5>1 DEF Opens
      <4>5. Openers(format, read, h) = Openings(k)
        BY <1>16, <4>3, <4>4
      <4>6. Openings(k) = B
        <5>1. k \in 1 .. l
          BY <4>2
        <5>2. \A i \in B : i \in 1 .. k
          BY <2>1, <4>2, <5>1
        <5>3. \A i \in 1 .. k : i \in 1 .. l
          BY <2>1, <5>1
        <5>4. QED BY <5>2, <5>3
      <4>7. q[h] = q[j]
        BY <1>11, <2>3, <4>4, <4>5, <4>6
      <4>8. sections[q[h]].section = Heading(format, read[h])
        BY <1>11, <4>3, <4>4 DEF Filed
      <4>9. Heading(format, read[h]) = Heading(format, lines[k])
        BY <1>15, <4>3, <4>4
      <4>10. QED BY <3>2, <4>7, <4>8, <4>9 DEF k
    <3>3. QED BY <3>1, <3>2
  <2>9. QED BY <2>7, <2>8 DEF l
<1>19. ASSUME NEW l \in 1 .. n, lines[l].kind \in {"paragraph", "table"}
       PROVE  Lost(l) <=> Unread(format, placed, l)
  <2>1. lines[l].kind # "chrome" /\ placed[l].kind = lines[l].kind
    BY <1>5, <1>19
  <2>2. CASE format # "pdf"
    BY <2>1, <2>2 DEF Unread
  <2>3. CASE format = "pdf"
    <3> DEFINE B == Openings(l)
               k == Latest(l)
    <3>1. Unread(format, placed, l) <=> OnFailingPage(placed, l)
      BY <2>3 DEF Unread
    <3>2. Lost(l) <=> lines[k].kind = "failing"
      BY <2>3
    <3>3. 1 \in B
      <4>1. lines # <<>> /\ 1 \in 1 .. l
        BY <1>1
      <4>2. QED BY <1>3, <2>3, <4>1 DEF Opens
    <3>4. k \in B /\ \A j \in B : j <= k
      <4>1. \E x \in B : \A j \in B : j <= x
        <5>1. B \in SUBSET (1 .. l) /\ l \in Nat /\ B # {}
          BY <1>1, <3>3
        <5> HIDE DEF B
        <5>2. QED BY <5>1, LargestOf
      <4>2. QED BY <4>1
    <3>5. \A j \in 1 .. l : j \in B <=> Opens("pdf", placed[j])
      BY <1>1, <1>6, <2>3
    <3>6. B \subseteq 1 .. l /\ 1 .. l \subseteq 1 .. n
      BY <1>1
    <3>7. ~Opens("pdf", placed[l])
      BY <1>19, <2>1 DEF Opens
    <3>8. \A j \in 1 .. l : placed[j].kind = "failing" => Opens("pdf", placed[j])
      BY DEF Opens
    <3>9. placed[k].kind = lines[k].kind
      BY <1>5, <3>4, <3>6
    <3> HIDE DEF B, k, Lost
    <3>10. ASSUME lines[k].kind = "failing" PROVE OnFailingPage(placed, l)
      <4>1. ASSUME NEW j \in k + 1 .. l PROVE ~Opens("pdf", placed[j])
        <5>1. k \in Int /\ j \in 1 .. l /\ ~(j <= k)
          BY <3>4, <3>6, <4>1
        <5>2. QED BY <3>4, <3>5, <5>1
      <4>2. QED BY <3>4, <3>6, <3>7, <3>9, <3>10, <4>1 DEF OnFailingPage
    <3>11. ASSUME OnFailingPage(placed, l) PROVE lines[k].kind = "failing"
      <4>1. PICK h \in 1 .. l : /\ placed[h].kind = "failing"
                               /\ \A j \in h + 1 .. l : ~Opens("pdf", placed[j])
        BY <3>11 DEF OnFailingPage
      <4>2. h \in B /\ h <= k /\ k \in 1 .. l /\ Opens("pdf", placed[k])
        BY <3>4, <3>5, <3>6, <3>8, <4>1
      <4>3. ~(k \in h + 1 .. l)
        BY <4>1, <4>2
      <4>4. k = h
        BY <4>2, <4>3
      <4>5. QED BY <3>9, <4>1, <4>4
    <3>12. QED BY <3>1, <3>2, <3>10, <3>11
  <2>4. QED BY <2>2, <2>3
<1>20. ASSUME NEW l \in 1 .. n, Unread(format, placed, l)
       PROVE  Texts(l) = {}
  <2>1. \A j \in 1 .. m : read[j].at # l
    BY <1>7, <1>20 DEF WellRead
  <2>2. ASSUME NEW k \in Texts(l) PROVE FALSE
    <3>1. k \in 1 .. Len(pages) /\ \E r \in DOMAIN pages[k].text : pages[k].text[r].at = l
      BY <1>14
    <3>2. PICK r \in 1 .. Len(pages[k].text) : pages[k].text[r].at = l
      BY <1>14, <3>1
    <3>3. pages[k].number \in 1 .. Len(sections) /\ pages[k].text = sections[pages[k].number].body
      BY <1>14, <3>1
    <3>4. PICK h \in 1 .. m : sections[pages[k].number].body[r].at = read[h].at
      BY <1>11, <3>2, <3>3 DEF Filed
    <3>5. QED BY <2>1, <3>2, <3>3, <3>4
  <2> HIDE DEF Texts
  <2>3. QED BY <2>2
<1> HIDE DEF Texts, NumberOf, SectionOf, Lost
<1>21. ASSUME NEW l \in 1 .. n
       PROVE  /\ lines[l].kind \in {"paragraph", "table"} =>
                    Cardinality(Texts(l)) = IF Lost(l) THEN 0 ELSE 1
              /\ lines[l].kind = "paragraph" =>
                    \A i \in Texts(l) : pages[i].number = NumberOf(l) /\ pages[i].section = SectionOf(l)
              /\ lines[l].kind = "chrome" => Texts(l) = {}
  <2>1. CASE lines[l].kind \in {"paragraph", "table"} /\ ~Unread(format, placed, l)
    <3>1. ~Lost(l) /\ lines[l].kind # "chrome"
      BY <1>19, <2>1
    <3>2. PICK j \in 1 .. m : read[j].at = l
      BY <1>5, <1>7, <2>1 DEF WellRead
    <3>3. ~Opens(format, read[j])
      <4>1. ~Opens(format, lines[l])
        BY <2>1 DEF Opens
      <4>2. QED BY <1>15, <3>2, <4>1
    <3>4. PICK i \in 1 .. Len(pages) : /\ Texts(l) = {i}
                                       /\ pages[i].number = q[j] /\ pages[i].section = sections[q[j]].section
      BY <1>17, <3>2, <3>3
    <3>5. Cardinality(Texts(l)) = 1
      BY <3>4, FS_Singleton
    <3>6. lines[l].kind = "paragraph" => q[j] = NumberOf(l) /\ sections[q[j]].section = SectionOf(l)
      <4>1. SUFFICES ASSUME lines[l].kind = "paragraph"
                     PROVE  q[j] = NumberOf(l) /\ sections[q[j]].section = SectionOf(l)
        OBVIOUS
      <4>2. read[j] = placed[l]
        BY <1>15, <3>2
      <4>3. read[j].kind # "table"
        BY <1>5, <4>1, <4>2
      <4>4. QED BY <1>18, <3>2, <4>3
    <3>7. QED BY <3>1, <3>4, <3>5, <3>6
  <2>2. CASE lines[l].kind \in {"paragraph", "table"} /\ Unread(format, placed, l)
    <3>1. Lost(l) /\ Texts(l) = {} /\ Cardinality({}) = 0
      BY <1>19, <1>20, <2>2, FS_EmptySet
    <3>2. QED BY <3>1
  <2>3. CASE lines[l].kind = "chrome"
    <3>1. format = "html"
      BY <1>2, <2>3
    <3>2. Unread(format, placed, l)
      BY <1>5, <2>3, <3>1 DEF Unread
    <3>3. QED BY <1>20, <2>3, <3>2
  <2>4. QED BY <2>1, <2>2, <2>3
<1>22. QED BY <1>1, <1>21 DEF WellPlaced, Texts, NumberOf, SectionOf, Lost, lines, format, pages, first


-----------------------------------------------------------------------------
(* The specification. *)

TaskInv ==
    /\ task \in Task
    /\ task.kind = "fuse" /\ result # <<>> => result = <<Fused(task.dense, task.sparse)>>
    /\ task.kind = "evaluate" /\ result # <<>> =>
          result = <<RunGolden(task.corpus, task.golden, task.mode)>>
    /\ task.kind = "parse" /\ result # <<>> => result = <<ChunkDocument(task.file, task.skip)>>

LEMMA AlwaysTask == Spec => []TaskInv
<1>1. Init => TaskInv
  BY DEF Init, TaskInv
<1>2. TaskInv /\ [Next]_vars => TaskInv'
  <2> SUFFICES ASSUME TaskInv, [Next]_vars PROVE TaskInv'
    OBVIOUS
  <2>1. CASE Fuse
    BY <2>1 DEF Fuse, Yields, TaskInv
  <2>2. CASE Measure
    BY <2>2 DEF Measure, Yields, TaskInv
  <2>3. CASE Select \/ Cite \/ Assemble \/ Respond
    <3>1. UNCHANGED task /\ task.kind \notin {"fuse", "evaluate", "parse"}
      BY <2>3 DEF Select, Cite, Assemble, Respond, Yields
    <3>2. QED BY <3>1 DEF TaskInv
  <2>4. CASE Ingest
    BY <2>4 DEF Ingest, Yields, TaskInv
  <2>5. CASE UNCHANGED vars
    BY <2>5 DEF vars, TaskInv
  <2>6. QED BY <2>1, <2>2, <2>3, <2>4, <2>5 DEF Next
<1>3. QED BY <1>1, <1>2, PTL DEF Spec

LEMMA PromptIsTyped ==
    ASSUME NEW p \in Prompt
    PROVE  /\ p.costs \in Seq(Int) /\ p.budget \in Int
           /\ p.rows \in Seq(Turn) /\ p.question \in STRING
           /\ p.words \in Seq(Word) /\ SignalByName(p.words)
BY PassagesAssumption DEF SignalByName

LEMMA RankingIsList ==
    ASSUME NEW list \in Ranking
    PROVE  list \in Seq(Int) /\ Injective(list) /\ Len(list) <= MaxRank
BY PassagesAssumption DEF IsInjective, Injective

\* A selection is as long as it can be and breaks its own rules only when
\* nothing else is left (diversify), whatever was found and asked for.
THEOREM SelectionIsAlwaysDiverse == Spec => []SelectionDiverse
<1>1. TaskInv => SelectionDiverse
  <2>1. SUFFICES ASSUME TaskInv, task.kind = "select"
                 PROVE  DiverseAndFull(task.corpus, task.hits, task.limit)
    BY DEF SelectionDiverse, Done
  <2>2. task \in [kind : {"select"}, corpus : Corpus, hits : Ranking, limit : Limit]
    BY <2>1 DEF TaskInv, Task
  <2>3. task.hits \in Ranking /\ task.limit \in Limit
    BY <2>2
  <2>4. task.hits \in Seq(Int) /\ Injective(task.hits)
    BY <2>3, RankingIsList
  <2>5. task.limit \in Nat \ {0}
    BY <2>3, PassagesAssumption
  <2>6. QED BY <2>4, <2>5, SelectionIsDiverse
<1>2. QED BY <1>1, AlwaysTask, PTL

\* What both retrievers found comes before what one of them found, and a list
\* alone keeps its order (reciprocal_rank_fusion).
THEOREM AgreementIsAlwaysFirst == Spec => []AgreementFirst
<1>1. TaskInv => AgreementFirst
  <2>1. SUFFICES ASSUME TaskInv, task.kind = "fuse", result # <<>>
                 PROVE  /\ AgreementWins(task.dense, task.sparse)
                        /\ task.sparse = <<>> => result[1] = task.dense
    BY DEF AgreementFirst, Done
  <2>2. task \in [kind : {"fuse"}, dense : Ranking, sparse : Ranking]
    BY <2>1 DEF TaskInv, Task
  <2>3. task.dense \in Ranking /\ task.sparse \in Ranking
    BY <2>2
  <2>4. Lists(task.dense, task.sparse)
    BY <2>3, RankingIsList DEF Lists
  <2>5. AgreementWins(task.dense, task.sparse)
    BY <2>4, AgreementAlwaysWins
  <2>6. result[1] = Fused(task.dense, task.sparse)
    BY <2>1 DEF TaskInv
  <2>7. ASSUME task.sparse = <<>> PROVE result[1] = task.dense
    <3>1. Lists(task.dense, <<>>)
      BY <2>4, <2>7
    <3>2. QED BY <2>6, <2>7, <3>1, ListAloneKeepsOrder
  <2>8. QED BY <2>5, <2>7
<1>2. QED BY <1>1, AlwaysTask, PTL

\* The lexical query asks for the words that matter, the sources are numbered
\* without a gap within the budget, and the question is asked last, after the
\* latest of what was said (_build_or_tsquery, build_chat_prompt, load_history),
\* for every question, budget and history: also for one to which other turns
\* were added after the question, which is then in what was said as well.
THEOREM PromptIsAlwaysFaithful == Spec => []PromptFaithful
<1>1. TaskInv => PromptFaithful
  <2>1. SUFFICES ASSUME TaskInv, task.kind = "prompt"
                 PROVE  /\ QueryIsSignificant(task.prompt.words)
                        /\ ContextIsPrefix(task.prompt.costs, task.prompt.budget)
                        /\ AskedLast(task.prompt.rows, task.prompt.question)
    BY DEF PromptFaithful, Done
  <2>2. task \in [kind : {"prompt"}, prompt : Prompt]
    BY <2>1 DEF TaskInv, Task
  <2> DEFINE p == task.prompt
  <2>3. p \in Prompt
    BY <2>2
  <2> HIDE DEF p
  <2>4. /\ p.costs \in Seq(Int) /\ p.budget \in Int
        /\ p.rows \in Seq(Turn) /\ p.question \in STRING
        /\ p.words \in Seq(Word) /\ SignalByName(p.words)
    BY <2>3, PromptIsTyped
  <2>5. QueryIsSignificant(p.words)
    BY <2>4, QueryAlwaysSignificant
  <2>6. ContextIsPrefix(p.costs, p.budget)
    BY <2>4, ContextAlwaysPrefix
  <2>7. AskedLast(p.rows, p.question)
    BY <2>4, AlwaysAskedLast
  <2>8. QED BY <2>5, <2>6, <2>7 DEF p
<1>2. QED BY <1>1, AlwaysTask, PTL

\* The report of the benchmark accounts for every question, its rates are rates
\* and its metrics agree on what a hit is (run, RunResult), for every golden
\* set and every ablation.
THEOREM MetricsAlwaysAgree == Spec => []MetricsAgree
<1>1. TaskInv => MetricsAgree
  <2>1. SUFFICES ASSUME TaskInv, task.kind = "evaluate", result # <<>>
                 PROVE  ReportAgrees(task.golden, task.mode, result[1])
    BY DEF MetricsAgree, Done
  <2>2. task \in [kind : {"evaluate"}, corpus : Corpus, golden : Golden,
                  mode : {"hybrid", "dense", "sparse"}]
    BY <2>1 DEF TaskInv, Task
  <2> DEFINE golden == task.golden
  <2>3. golden \in Golden
    BY <2>2
  <2> HIDE DEF golden
  <2>4. golden.answerable \in Seq(Labelled) /\ golden.unanswerable \in Seq(Unlabelled)
    BY <2>3, PassagesAssumption
  <2>5. \A q \in Labelled : Scorable(q)
    BY RankingIsList DEF Scorable, Labelled, Answered, Lists
  <2>6. \A q \in Unlabelled : Answered(q)
    BY RankingIsList DEF Unlabelled, Answered, Lists
  <2>7. result[1] = RunGolden(task.corpus, golden, task.mode)
    BY <2>1 DEF TaskInv, golden
  <2>8. QED BY <2>4, <2>5, <2>6, <2>7, ReportAlwaysAgrees DEF golden
<1>2. QED BY <1>1, AlwaysTask, PTL

\* No chunk outgrows what a full window with its overlap, or one extended by a
\* fragment, may measure with a fragment at either end; and a page with more
\* than one chunk has no fragment (chunk_document, _absorb_fragments), for every
\* file and every size of window, overlap and fragment.
THEOREM ChunksAreAlwaysWellSized == Spec => []ChunksWellSized
<1>1. TaskInv => ChunksWellSized
  <2>1. SUFFICES ASSUME TaskInv, task.kind = "parse", result # <<>> PROVE WellSized(result[1])
    BY DEF ChunksWellSized, Done
  <2>2. task \in [kind : {"parse"}, file : File, skip : Skip]
    BY <2>1 DEF TaskInv, Task
  <2> DEFINE file == task.file
             skip == task.skip
  <2>3. file \in File /\ skip \in Skip
    BY <2>2
  <2>4. result[1] = ChunkDocument(file, skip)
    BY <2>1 DEF TaskInv
  <2> HIDE DEF file, skip
  <2>5. file.lines \in Seq(FileLine) /\ skip \in Nat
    BY <2>3, PassagesAssumption
  <2>6. QED BY <2>4, <2>5, ChunksAlwaysSized
<1>2. QED BY <1>1, AlwaysTask, PTL

\* Parsing and chunking neither repeat nor reorder a paragraph, lose none but those
\* of a PDF page whose extraction raised (and the tables of a deck), and keep its
\* page and heading (formats.py, chunking.py), for every file and every size of
\* window, overlap and fragment.
THEOREM TextIsAlwaysKept == Spec => []TextKept
<1>1. TaskInv => TextKept
  <2>1. SUFFICES ASSUME TaskInv, task.kind = "parse", result # <<>>
                 PROVE  /\ TypeFits(task.file)
                        /\ IF Accepted(task.file) THEN KeepsText(task.file, result[1])
                           ELSE result[1] = <<>>
    BY DEF TextKept, Done
  <2>2. task \in [kind : {"parse"}, file : File, skip : Skip]
    BY <2>1 DEF TaskInv, Task
  <2> DEFINE file == task.file
             skip == task.skip
             pages == Pages(file)
  <2>3. file \in File /\ skip \in Skip
    BY <2>2
  <2>4. result[1] = ChunkDocument(file, skip)
    BY <2>1 DEF TaskInv
  <2> HIDE DEF file, skip
  <2>5. /\ file.content \in {"pdf", "zip", "text", "bytes"} /\ file.lines \in Seq(FileLine)
        /\ Format(file) \in {"pdf", "pptx"} /\ file.lines # <<>> =>
              file.lines[1].kind \in {"page", "failing"}
        /\ Format(file) # "html" => \A l \in DOMAIN file.lines : file.lines[l].kind # "chrome"
        /\ skip \in Nat
    BY <2>3, PassagesAssumption
  <2>6. TypeFits(file)
    BY <2>5, TypeAlwaysFits
  <2>7. ASSUME Accepted(file) PROVE KeepsText(file, result[1])
    <3>1. WellPlaced(file, pages)
      BY <2>5, AlwaysWellPlaced
    <3>2. /\ pages \in Seq(FilePage)
          /\ \A i, j \in 1 .. Len(pages) : pages[i].number = pages[j].number => i = j
      BY <2>5, PagesFacts
    <3>3. result[1] = FlattenSeq(ChunkLists(pages, skip))
      BY <2>4, <2>7 DEF ChunkDocument, ChunkLists
    <3> HIDE DEF pages
    <3>4. ChunksHold(pages, result[1])
      BY <2>5, <3>2, <3>3, PagesKeepText
    <3>5. QED BY <3>1, <3>4 DEF KeepsText, ChunksHold, pages
  <2>8. ASSUME ~Accepted(file) PROVE result[1] = <<>>
    <3>1. result[1] = FlattenSeq(ChunkLists(<<>>, skip))
      BY <2>4, <2>8 DEF ChunkDocument, ChunkLists
    <3>2. ChunkLists(<<>>, skip) = <<>>
      BY DEF ChunkLists
    <3>3. FlattenSeq(<<>>) = <<>>
      BY DEF FlattenSeq
    <3>4. QED BY <3>1, <3>2, <3>3
  <2>9. QED BY <2>6, <2>7, <2>8 DEF file
<1>2. QED BY <1>1, AlwaysTask, PTL
=============================================================================
