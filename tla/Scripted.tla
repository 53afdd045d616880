------------------------------- MODULE Scripted -------------------------------
(***************************************************************************)
(* The offline responder (providers/llm/scripted_provider.py), from the    *)
(* prompt to an answer of quoted sentences, and the groundedness score of  *)
(* an answer (citation_service.py).                                        *)
(*                                                                         *)
(* A text is a sequence of words.  A sentence of a source also says        *)
(* whether it is long enough to be quoted and which sources it cites       *)
(* itself, as any text with numbers in brackets does.                      *)
(***************************************************************************)
EXTENDS Grounding, FiniteSets

CONSTANTS
    Insignificant,  \* the words among _STOPWORDS or of one or two letters
    Short,          \* the words of up to three letters
    MaxQuotes,      \* sentences an answer quotes
    MaxClosest      \* sources it names when it quotes none

ASSUME ScriptedAssumption ==
    MaxQuotes \in Nat \ {0} /\ MaxClosest \in Nat \ {0}

\* html.escape in build_chat_prompt, of a quotation mark; the responder does not
\* undo it.
Escaped(words) == [i \in DOMAIN words |-> IF words[i] = "QUOTE" THEN "quot" ELSE words[i]]

Significant(words) == ToSet(words) \ Insignificant

\* What follows the last "Question:" of the prompt, whose question may hold
\* the word itself.
ExtractQuestion(parts) == Last(parts)

Terms(sentence) == Significant(Escaped(sentence.words))

\* The sentences that may be quoted, in the order of the sources.
Quotable(question, sources) ==
    LET Shared(s) == Significant(question) \cap Terms(s)
        Of(k) == LET good == SelectSeq(sources[k], LAMBDA s : s.long /\ Shared(s) # {})
                 IN  [i \in DOMAIN good |->
                         [source  |-> k,
                          words   |-> Escaped(good[i].words),
                          cites   |-> good[i].cites,
                          overlap |-> Cardinality(Shared(good[i])),
                          terms   |-> Cardinality(Terms(good[i]))]]
    IN  FlattenSeq([k \in DOMAIN sources |-> Of(k)])

\* overlap / sqrt(terms), squared.
Outscores(s, t) == s.overlap * s.overlap * t.terms > t.overlap * t.overlap * s.terms

Before(quotable, i, j) ==
    \/ Outscores(quotable[i], quotable[j])
    \/ ~Outscores(quotable[j], quotable[i]) /\ i < j

Best(quotable) ==
    LET byScore == SortSeq([i \in DOMAIN quotable |-> i], LAMBDA i, j : Before(quotable, i, j))
    IN  SubSeq(byScore, 1, IF MaxQuotes < Len(byScore) THEN MaxQuotes ELSE Len(byScore))

\* The best, put back in the order of their sources.  The sort is stable: the
\* sentences of one source stay in the order of their scores.
Chosen(quotable) ==
    SortSeq(Best(quotable),
            LAMBDA i, j : \/ quotable[i].source < quotable[j].source
                          \/ quotable[i].source = quotable[j].source /\ Before(quotable, i, j))

Marker(n) == <<Atom("open"), Number(n), Atom("close")>>
Quote(sentence) ==
    [i \in DOMAIN sentence.words |-> Atom("word")]
    \o FlattenSeq([i \in DOMAIN sentence.cites |-> Marker(sentence.cites[i])])
    \o Marker(sentence.source)

\* The answer is never composed of no sources at all: the refusal gate has
\* answered before (chat_service.py, 114).
Compose(question, sources) ==
    LET quotable == Quotable(question, sources)
        chosen   == Chosen(quotable)
        closest  == IF MaxClosest < Len(sources) THEN MaxClosest ELSE Len(sources)
    IN  IF quotable = <<>>
        THEN [quotes |-> <<>>,
              text   |-> <<Atom("word")>> \o FlattenSeq([n \in 1 .. closest |-> Marker(n)])
                         \o <<Atom("word")>>]
        ELSE LET quotes == [i \in DOMAIN chosen |-> quotable[chosen[i]]]
             IN  [quotes |-> quotes,
                  text   |-> FlattenSeq([i \in DOMAIN quotes |-> Quote(quotes[i])])
                             \o <<Atom("word")>>]

StreamChat(parts, sources) == Compose(ExtractQuestion(parts), sources)

\* heuristic_groundedness, as <<supported, counted>>, of the quotes alone: the
\* note that follows them is the same in every answer.
Groundedness(quotes, sources) ==
    LET corpus == UNION {ToSet(s.words) : s \in UNION {ToSet(sources[k]) : k \in DOMAIN sources}}
        counted == SelectSeq(FlattenSeq([i \in DOMAIN quotes |-> quotes[i].words]),
                             LAMBDA w : w \notin Short)
    IN  <<Len(SelectSeq(counted, LAMBDA w : w \in corpus)), Len(counted)>>

-----------------------------------------------------------------------------
(* What an answer has to be. *)

\* The answer quotes the sentences that share most with the question, each
\* followed by the source it is of, in the order of the sources: nothing that
\* was left out scores higher, and fewer than the limit are quoted only when
\* there are no more.  The validation of its citations changes nothing, unless a
\* source cites something itself, and finds one to keep.  All its words are of
\* the sources, but for what escaping made of a quotation mark.
AnswerQuotes(answer, parts, sources) ==
    LET quotable == Quotable(Last(parts), sources)
        quotes   == answer.quotes
        checked  == Validate(answer.text, Len(sources))
        score    == Groundedness(quotes, sources)
        Times(s, list) == Cardinality({i \in DOMAIN list : list[i] = s})
    IN  /\ Len(quotes) = IF MaxQuotes < Len(quotable) THEN MaxQuotes ELSE Len(quotable)
        /\ \A i, j \in DOMAIN quotes : i < j => quotes[i].source <= quotes[j].source
        /\ \A i \in DOMAIN quotes :
              /\ Times(quotes[i], quotes) <= Times(quotes[i], quotable)
              /\ \E k \in DOMAIN sources[quotes[i].source] :
                    LET s == sources[quotes[i].source][k]
                    IN  /\ s.long /\ Escaped(s.words) = quotes[i].words
                        /\ Terms(s) \cap Significant(Last(parts)) # {}
        /\ \A i \in DOMAIN quotable :
              Times(quotable[i], quotes) < Times(quotable[i], quotable) =>
                  ~ \E j \in DOMAIN quotes : Outscores(quotable[i], quotes[j])
        /\ checked.validated # {}
        /\ (\A i \in DOMAIN quotes : quotes[i].cites = <<>>) =>
              checked.text = answer.text /\ checked.stripped = {}
        /\ (\A i \in DOMAIN quotes : ~Contains(quotes[i].words, "quot")) => score[1] = score[2]
=============================================================================
