------------------------------- MODULE Fusion -------------------------------
(***************************************************************************)
(* Reciprocal rank fusion and the diversity pass (services/fusion.py), as  *)
(* functions of two ranked lists.                                          *)
(*                                                                         *)
(* A chunk is a number, in the order of str(chunk_id), which breaks ties.  *)
(* A score 1/(k + rank) is kept as an integer, over the common denominator *)
(* of the ranks that occur.                                                *)
(***************************************************************************)
EXTENDS Integers, Sequences, FiniteSets, SequencesExt, FiniteSetsExt, Keeping

CONSTANTS
    RrfK,           \* RRF_K
    MaxRank,        \* bound: the length of a list (retrieval_candidates)
    MaxPerDocument  \* max_per_document

\* RRF_K is 60 and a list holds 40: were lists longer than k, a chunk low in
\* both could lose to one at the top of a single list.
ASSUME FusionAssumption ==
    /\ RrfK \in Nat /\ MaxRank \in Nat \ {0} /\ MaxPerDocument \in Nat \ {0}
    /\ MaxRank <= RrfK + 1

\* 1/(k + rank), times Denominator.
Denominator == ProductSet({RrfK + r : r \in 1 .. MaxRank})
Share(rank) == Denominator \div (RrfK + rank)

Found(list, c) == \E r \in DOMAIN list : list[r] = c
Rank(list, c) == CHOOSE r \in DOMAIN list : list[r] = c

ShareIn(list, c) == IF Found(list, c) THEN Share(Rank(list, c)) ELSE 0
OneListOnly(dense, sparse, c) ==                              \* a mutant
    IF Found(dense, c) THEN ShareIn(dense, c) ELSE ShareIn(sparse, c)
Score(dense, sparse, c) == ShareIn(dense, c) + ShareIn(sparse, c)

\* 2/(k + 1) is the best there is: what normalize_scores divides by.
BestPossible == 2 * Share(1)

\* The better score first, then the smaller id.
Precedes(dense, sparse, c, d) ==
    LET sc == Score(dense, sparse, c)
        sd == Score(dense, sparse, d)
    IN  sc > sd \/ (sc = sd /\ c < d)

Merged(dense, sparse) == ToSet(dense) \cup ToSet(sparse)

\* How many chunks a chunk does not precede, itself among them.
Place(dense, sparse, c) ==
    Cardinality({d \in Merged(dense, sparse) : ~Precedes(dense, sparse, c, d)})

\* reciprocal_rank_fusion: the chunks of both lists, in their order.
Fused(dense, sparse) ==
    [i \in 1 .. Cardinality(Merged(dense, sparse)) |->
        CHOOSE c \in Merged(dense, sparse) : Place(dense, sparse, c) = i]

-----------------------------------------------------------------------------
(* Diversity.  A corpus gives every chunk its document and its words, and   *)
(* says which chunks the re-fetch resolves: visible in the workspace, of a  *)
(* READY document.                                                          *)

Resolved(corpus, hits) == Those(corpus.ready, hits)

\* The Jaccard overlap of the word sets reaches 0.75.
TooSimilar(corpus, c, d) ==
    LET both   == corpus.words[c] \cap corpus.words[d]
        either == corpus.words[c] \cup corpus.words[d]
    IN  both # {} /\ 4 * Cardinality(both) >= 3 * Cardinality(either)

FromDocument(corpus, selected, d) ==
    {i \in DOMAIN selected : corpus.doc[selected[i]] = d}

CapReached(corpus, selected, c) ==
    Cardinality(FromDocument(corpus, selected, corpus.doc[c])) >= MaxPerDocument

Repeats(corpus, selected, c) ==
    \E i \in DOMAIN selected : TooSimilar(corpus, selected[i], c)

\* The greedy pass.
PickUncapped(corpus, limit, selected, c) ==                   \* a mutant
    IF Len(selected) >= limit \/ Repeats(corpus, selected, c)
    THEN selected ELSE Append(selected, c)
Pick(corpus, limit, selected, c) ==
    IF Len(selected) >= limit \/ CapReached(corpus, selected, c) \/ Repeats(corpus, selected, c)
    THEN selected ELSE Append(selected, c)

\* The two passes that refill: the first still honours the cap.
Refill(corpus, limit, respectCap, selected, c) ==
    IF \/ Len(selected) >= limit
       \/ c \in ToSet(selected)
       \/ respectCap /\ CapReached(corpus, selected, c)
    THEN selected ELSE Append(selected, c)

Greedy(corpus, hits, limit) ==
    FoldLeft(LAMBDA sel, c : Pick(corpus, limit, sel, c), <<>>, hits)

Backfilled(corpus, hits, limit, respectCap, selected) ==
    FoldLeft(LAMBDA sel, c : Refill(corpus, limit, respectCap, sel, c), selected, hits)

Diversify(corpus, hits, limit) ==
    Backfilled(corpus, hits, limit, FALSE,
               Backfilled(corpus, hits, limit, TRUE, Greedy(corpus, hits, limit)))

-----------------------------------------------------------------------------
(* What fusion and selection have to be. *)

\* Agreement wins: a chunk both retrievers found comes before every chunk that
\* only one of them found, a chunk that is ahead in both lists stays ahead,
\* and no score exceeds the one the normalisation divides by.
AgreementWins(dense, sparse) ==
    LET hits == Fused(dense, sparse)
        Both(c) == Found(dense, c) /\ Found(sparse, c)
        Ahead(list, c, d) == Found(list, c) /\ (Found(list, d) => Rank(list, c) < Rank(list, d))
    IN  /\ \A i, j \in DOMAIN hits :
              \/ Both(hits[i]) /\ ~Both(hits[j])
              \/ Ahead(dense, hits[i], hits[j]) /\ Ahead(sparse, hits[i], hits[j])
              => i < j
        /\ \A c \in ToSet(hits) : Score(dense, sparse, c) \in 1 .. BestPossible

\* The selection is as long as it can be and repeats nothing; the best hit
\* leads; a document goes over the cap, and a near-duplicate gets in, only
\* when nothing else was left to fill the place.
DiverseAndFull(corpus, hits, limit) ==
    LET selected == Diversify(corpus, hits, limit)
        left     == ToSet(hits) \ ToSet(selected)
        Earlier(i) == SubSeq(selected, 1, i - 1)
    IN  /\ Len(selected) = (IF Len(hits) < limit THEN Len(hits) ELSE limit)
        /\ ToSet(selected) \subseteq ToSet(hits)
        /\ Cardinality(ToSet(selected)) = Len(selected)
        /\ selected # <<>> => selected[1] = hits[1]
        /\ \A i \in DOMAIN selected :
              /\ CapReached(corpus, Earlier(i), selected[i]) =>
                     \A c \in left : CapReached(corpus, selected, c)
              /\ Repeats(corpus, Earlier(i), selected[i]) =>
                     \A c \in left : CapReached(corpus, selected, c) \/ Repeats(corpus, selected, c)
=============================================================================
