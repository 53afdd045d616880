----------------------------- MODULE Grounding -----------------------------
(***************************************************************************)
(* From a question to a prompt, and from an answer to its citations: the   *)
(* lexical query (retrieval_service.py), the context budget and the        *)
(* history (prompt_builder.py, chat_service.py) and the validation of      *)
(* citation markers (citation_service.py), as functions.                   *)
(***************************************************************************)
EXTENDS Integers, Sequences, SequencesExt

CONSTANTS
    MaxTerms,       \* _MAX_QUERY_TERMS
    MaxTurns        \* MAX_HISTORY_TURNS; load_history reads twice as many rows

ASSUME GroundingAssumption == MaxTerms \in Nat \ {0} /\ MaxTurns \in Nat \ {0}

LastOf(n, list) ==
    SubSeq(list, IF n < Len(list) THEN Len(list) - n + 1 ELSE 1, Len(list))

-----------------------------------------------------------------------------
(* _build_or_tsquery.  A word has a name and carries a signal or not: one   *)
(* letter and the stopwords do not.                                         *)

AddTerm(terms, word) ==
    IF ~word.signal \/ Contains(terms, word.name) \/ Len(terms) >= MaxTerms
    THEN terms ELSE Append(terms, word.name)

\* The empty sequence is the None of the code: no lexical search is made.
QueryTerms(words) == FoldLeft(AddTerm, <<>>, words)

-----------------------------------------------------------------------------
(* build_chat_prompt. *)

\* Sources are taken best first; the first that exceeds the budget ends the
\* list, unless it is the first of all.
SkipsCostly(taken, cost, budget) ==                           \* a mutant
    IF taken.used + cost > budget
    THEN taken
    ELSE [taken EXCEPT !.costs = Append(@, cost), !.used = @ + cost]
TakeSource(taken, cost, budget) ==
    IF taken.full \/ (taken.used + cost > budget /\ taken.costs # <<>>)
    THEN [taken EXCEPT !.full = TRUE]
    ELSE [taken EXCEPT !.costs = Append(@, cost), !.used = @ + cost]

SourcesUsed(costs, budget) ==
    FoldLeft(LAMBDA taken, cost : TakeSource(taken, cost, budget),
             [costs |-> <<>>, used |-> 0, full |-> FALSE], costs).costs

\* load_history: the latest rows, in order, without blank ones.
AddTurn(said, turn) == IF turn.text = "blank" THEN said ELSE Append(said, turn)
Said(rows) == FoldLeft(AddTurn, <<>>, rows)
LoadHistory(rows) == Said(LastOf(2 * MaxTurns, rows))

\* The question was stored before it is answered: it is not history.
DropQuestion(history, question) ==
    IF history # <<>> /\ Last(history) = [role |-> "user", text |-> question]
    THEN Front(history) ELSE history

Turns(rows, question) ==
    Append(LastOf(MaxTurns, DropQuestion(LoadHistory(rows), question)),
           [role |-> "user", text |-> question])

-----------------------------------------------------------------------------
(* validate.  A text is a sequence of atoms: words, brackets, commas,       *)
(* numbers, and the white space next to a bracket or a comma.               *)

Atom(kind) == [kind |-> kind, number |-> 0]
Number(n) == [kind |-> "number", number |-> n]

\* [n] or [n, m ...], with white space around a comma only: no marker begins
\* inside another.
MarkerSpans(text) ==
    {span \in (DOMAIN text) \X (DOMAIN text) :
        LET i == span[1]  j == span[2]
            inside == SelectSeq(SubSeq(text, i + 1, j - 1), LAMBDA atom : atom.kind # "space")
        IN  /\ text[i].kind = "open" /\ text[j].kind = "close" /\ j > i + 1
            /\ text[i + 1].kind = "number" /\ text[j - 1].kind = "number"
            /\ \A p \in DOMAIN inside :
                  inside[p].kind = (IF p % 2 = 1 THEN "number" ELSE "comma")}

NumbersAt(text, span) ==
    LET inside == SubSeq(text, span[1] + 1, span[2] - 1)
        atoms  == SelectSeq(inside, LAMBDA atom : atom.kind = "number")
    IN  [k \in DOMAIN atoms |-> atoms[k].number]

Markers(text) == UNION {ToSet(NumbersAt(text, span)) : span \in MarkerSpans(text)}

AtMostAll(n, sources) == n <= sources                         \* a mutant
InRange(n, sources) == n \in 1 .. sources

\* What a marker becomes: one for each number that resolves.
Kept(numbers, sources) ==
    LET good == SelectSeq(numbers, LAMBDA n : InRange(n, sources))
    IN  FlattenSeq([k \in DOMAIN good |-> <<Atom("open"), Number(good[k]), Atom("close")>>])

Cleaned(text, sources) ==
    LET Within(p) == {span \in MarkerSpans(text) : span[1] <= p /\ p <= span[2]}
    IN  FlattenSeq([p \in DOMAIN text |->
            IF Within(p) = {} THEN <<text[p]>>
            ELSE LET span == CHOOSE s \in Within(p) : TRUE
                 IN  IF p = span[1] THEN Kept(NumbersAt(text, span), sources) ELSE <<>>])

Validate(text, sources) ==
    [text      |-> Cleaned(text, sources),
     validated |-> {n \in Markers(text) : InRange(n, sources)},
     stripped  |-> {n \in Markers(text) : ~InRange(n, sources)}]

-----------------------------------------------------------------------------
(* What they have to be. *)

\* A lexical query asks for every word that carries a signal, once, in the
\* order of the question, up to the cap; none of the others.
QueryIsSignificant(words) ==
    LET terms == QueryTerms(words)
        First(name) == CHOOSE i \in DOMAIN words :
                           words[i].name = name /\ \A j \in 1 .. i - 1 : words[j].name # name
    IN  /\ \A k \in DOMAIN terms : \E i \in DOMAIN words : words[i].signal /\ words[i].name = terms[k]
        /\ \A k, l \in DOMAIN terms : k < l => First(terms[k]) < First(terms[l])
        /\ \A i \in DOMAIN words :
              words[i].signal /\ ~Contains(terms, words[i].name) =>
                  Len(terms) = MaxTerms /\ First(words[i].name) > First(Last(terms))

\* The prompt holds the best sources and no gap, so that marker n is source n;
\* at least one whenever there is one; no more than the budget unless the best
\* alone exceeds it; and never fewer than would have fitted.
ContextIsPrefix(costs, budget) ==
    LET used == SourcesUsed(costs, budget)
        Sum(n) == FoldLeft(LAMBDA s, c : s + c, 0, SubSeq(costs, 1, n))
    IN  /\ IsPrefix(used, costs)
        /\ costs # <<>> => used # <<>>
        /\ Len(used) > 1 => Sum(Len(used)) <= budget
        /\ Len(used) < Len(costs) => Sum(Len(used) + 1) > budget

\* The question is asked last; before it comes what was said last, all of it
\* where nothing blank was stored.  Only the question itself is left out, when
\* nothing was said after it: one asked again does not swallow its first asking,
\* and one that another turn followed before the history was read is in twice.
AskedLast(rows, question) ==
    LET turns   == Turns(rows, question)
        asked   == [role |-> "user", text |-> question]
        said    == Said(rows)
        history == IF said # <<>> /\ Last(said) = asked THEN Front(said) ELSE said
    IN  /\ Last(turns) = asked
        /\ IsSuffix(Front(turns), LastOf(MaxTurns, history))
        /\ said = rows => Front(turns) = LastOf(MaxTurns, history)

\* Brackets within brackets: what a removed marker leaves may form a new one.
Nested(text) ==
    \E i, j \in DOMAIN text :
        /\ i < j /\ text[i].kind = "open" /\ text[j].kind = "open"
        /\ \A p \in i .. j : text[p].kind # "close"

\* The markers of the validated text are those of the citations, each of a
\* source that was supplied; what was stripped is gone; the words stay; and
\* validating again changes nothing.
MarkersResolve(text, sources) ==
    LET result == Validate(text, sources)
        Words(t) == SelectSeq(t, LAMBDA atom : atom.kind = "word")
    IN  /\ result.validated \subseteq 1 .. sources
        /\ Words(result.text) = Words(text)
        /\ ~Nested(text) =>
              /\ Markers(result.text) = result.validated
              /\ Validate(result.text, sources).text = result.text
=============================================================================
