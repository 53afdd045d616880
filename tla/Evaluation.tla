----------------------------- MODULE Evaluation -----------------------------
(***************************************************************************)
(* The retrieval benchmark (backend/evals/harness.py): its metrics, as     *)
(* fractions, and its run over a golden set, by the retrieval of Fusion.   *)
(*                                                                         *)
(* A question comes with what the retrievers answer it: two ranked lists,  *)
(* the best cosine and the time taken; an answerable one with its relevant *)
(* chunks, none when the phrases are not in the corpus.                    *)
(***************************************************************************)
EXTENDS Fusion

CONSTANT Floor      \* relevance_floor

ASSUME FloorAssumption == Floor \in Nat \ {0}

TopK == 10
Top(list, k) == SubSeq(list, 1, IF k < Len(list) THEN k ELSE Len(list))

\* The metrics, as fractions <<over, under>>; nDCG takes logarithms.
RecallAt(retrieved, relevant, k) ==
    <<Cardinality(ToSet(Top(retrieved, k)) \cap relevant), Cardinality(relevant)>>
PrecisionAt(retrieved, relevant, k) ==
    <<Cardinality(ToSet(Top(retrieved, k)) \cap relevant), Len(Top(retrieved, k))>>
ReciprocalRank(retrieved, relevant) ==
    LET found == {i \in DOMAIN retrieved : retrieved[i] \in relevant}
    IN  IF found = {} THEN <<0, 1>> ELSE <<1, Min(found)>>

\* The k-th smallest of a list.
Statistic(numbers, k) ==
    CHOOSE v \in ToSet(numbers) :
        /\ Cardinality({i \in DOMAIN numbers : numbers[i] < v}) < k
        /\ k <= Cardinality({i \in DOMAIN numbers : numbers[i] <= v})
P50(latencies) ==
    LET n == Len(latencies)
    IN  IF n = 0 THEN 0
        ELSE IF n % 2 = 1 THEN Statistic(latencies, (n + 1) \div 2)
        ELSE (Statistic(latencies, n \div 2) + Statistic(latencies, n \div 2 + 1)) \div 2
P95(latencies) ==
    LET n == Len(latencies)
        at == (95 * n) \div 100 + 1
    IN  IF n = 0 THEN 0 ELSE Statistic(latencies, IF at < n THEN at ELSE n)

\* _retrieve: the ablations answer one of the halves with an empty list; what
\* the re-fetch does not resolve is left out, though the relevance, that of the
\* dense half, may be due to it.
Retrieve(corpus, question, mode) ==
    LET dense  == IF mode = "sparse" THEN <<>> ELSE question.dense
        sparse == IF mode = "dense" THEN <<>> ELSE question.sparse
    IN  [chunks    |-> Diversify(corpus, Resolved(corpus, Fused(dense, sparse)), TopK),
         relevance |-> IF dense = <<>> THEN 0 ELSE question.best]

Refused(corpus, question, mode) == Retrieve(corpus, question, mode).relevance < Floor

QuestionResult(retrieved, relevant) ==
    [recall5    |-> RecallAt(retrieved, relevant, 5),
     recall10   |-> RecallAt(retrieved, relevant, 10),
     precision5 |-> PrecisionAt(retrieved, relevant, 5),
     mrr        |-> ReciprocalRank(retrieved, relevant),
     hit        |-> ToSet(Top(retrieved, TopK)) \cap relevant # {}]

Scored(corpus, question, mode, run) ==
    [run EXCEPT
        !.latencies = Append(@, question.ms),
        !.falseRefusals = @ + (IF Refused(corpus, question, mode) THEN 1 ELSE 0),
        !.scored = Append(@, QuestionResult(Retrieve(corpus, question, mode).chunks,
                                            question.relevant))]

\* An answerable question: skipped when nothing in the corpus is relevant.
ScoresAll(corpus, question, mode, run) ==                     \* a mutant
    Scored(corpus, question, mode, run)
ScoreAnswerable(corpus, question, mode, run) ==
    IF question.relevant = {} THEN [run EXCEPT !.skipped = @ + 1]
    ELSE Scored(corpus, question, mode, run)

\* One nothing in the corpus answers; not measured without the dense half.
ScoreUnanswerable(corpus, question, mode, run) ==
    IF mode = "sparse" THEN run
    ELSE [run EXCEPT
            !.latencies = Append(@, question.ms),
            !.refusalTotal = @ + 1,
            !.refusalCorrect = @ + (IF Refused(corpus, question, mode) THEN 1 ELSE 0)]

RunGolden(corpus, golden, mode) ==
    FoldLeft(LAMBDA run, q : ScoreUnanswerable(corpus, q, mode, run),
             FoldLeft(LAMBDA run, q : ScoreAnswerable(corpus, q, mode, run),
                      [scored |-> <<>>, skipped |-> 0, falseRefusals |-> 0, latencies |-> <<>>,
                       refusalTotal |-> 0, refusalCorrect |-> 0],
                      golden.answerable),
             golden.unanswerable)

\* The rates of a report, as fractions; none is reported of a gate that was not
\* measured (n/a).
Hits(run) == Cardinality({i \in DOMAIN run.scored : run.scored[i].hit})
HitRate(run) == IF run.scored = <<>> THEN <<0, 1>> ELSE <<Hits(run), Len(run.scored)>>
RefusalAccuracy(run) ==
    IF run.refusalTotal = 0 THEN <<0, 1>> ELSE <<run.refusalCorrect, run.refusalTotal>>
FalseRefusalRate(run) ==
    IF run.scored = <<>> THEN <<0, 1>> ELSE <<run.falseRefusals, Len(run.scored)>>
Reported(run, rate) == IF run.refusalTotal = 0 THEN {} ELSE {rate}

-----------------------------------------------------------------------------
(* What a report has to be. *)

Positive(fraction) == fraction[1] > 0
AtMost(f, g) == f[1] * g[2] <= g[1] * f[2]

\* The metrics of a question agree on what a hit is, and none exceeds one.
ScoreAgrees(s) ==
    /\ s.recall5[2] > 0 /\ AtMost(s.recall10, <<1, 1>>)
    /\ AtMost(s.recall5, s.recall10)
    /\ Positive(s.recall5) <=> Positive(s.precision5)
    /\ s.hit <=> Positive(s.recall10)
    /\ s.hit <=> Positive(s.mrr)
    /\ Positive(s.recall5) <=> Positive(s.mrr) /\ s.mrr[2] <= 5

\* A report accounts for every question once and divides by nothing that is
\* zero; its metrics agree on what a hit is; with the dense half ablated the
\* gate, which reads only that half, refuses everything and is not measured, and
\* the report says so instead of giving it full marks.
ReportAgrees(golden, mode, run) ==
    /\ Len(run.scored) + run.skipped = Len(golden.answerable)
    /\ Len(run.latencies) = Len(run.scored) + run.refusalTotal
    /\ run.falseRefusals <= Len(run.scored) /\ run.refusalCorrect <= run.refusalTotal
    /\ P50(run.latencies) <= P95(run.latencies)
    /\ \A i \in DOMAIN run.scored : ScoreAgrees(run.scored[i])
    /\ \A rate \in {HitRate(run), RefusalAccuracy(run), FalseRefusalRate(run)} :
          AtMost(rate, <<1, 1>>)
    /\ (\A i \in DOMAIN run.scored : ~Positive(run.scored[i].mrr)) => ~Positive(HitRate(run))
    /\ Reported(run, RefusalAccuracy(run)) = {} <=> mode = "sparse" \/ golden.unanswerable = <<>>
    /\ mode = "sparse" => run.falseRefusals = Len(run.scored)
                          /\ Reported(run, FalseRefusalRate(run)) = {}
=============================================================================
