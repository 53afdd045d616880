----------------------------- MODULE MCPassages -----------------------------
(* Values for TLC. *)
EXTENDS Passages

\* Files of every format.  Paragraphs have one or two sentences: below a
\* fragment, below a chunk, and longer than a chunk.
Lengths == {1, 8, 19, 27}
Line(kind, name, sentences) == [at |-> 0, kind |-> kind, name |-> name, sentences |-> sentences]
Prose(kind, sizes) ==
    {Line(kind, "none", <<n>>) : n \in sizes} \cup {Line(kind, "none", <<n, 8>>) : n \in sizes}
Paragraphs == Prose("paragraph", Lengths)
Title == Line("heading", "title", <<>>)
Page(name) == Line("page", name, <<>>)

FileOf(content, extension, lines) ==
    [content |-> content, extension |-> extension, damaged |-> FALSE, lines |-> lines]

Markdown == {FileOf("text", "md", l) : l \in BoundedSeq(Paragraphs \cup {Title}, 4)}
Docx == {FileOf("zip", "docx", l) :
            l \in BoundedSeq(Prose("paragraph", {1, 19}) \cup Prose("table", {19})
                             \cup {Title, Line("heading", "other", <<>>)}, 4)}
Failing == Line("failing", "second", <<>>)
Pdf == {FileOf("pdf", "pdf", <<p>> \o l) :
           p \in {Page("first"), Failing},
           l \in BoundedSeq(Prose("paragraph", {1, 19}) \cup {Page("second"), Failing}, 4)}
Deck == {FileOf("zip", "pptx", <<Page("first")>> \o l) :
            l \in BoundedSeq(Prose("paragraph", {1, 19}) \cup Prose("table", {19})
                             \cup {Page("second")}, 4)}
Html == {FileOf("text", "html", l) : l \in BoundedSeq(Paragraphs \cup Prose("chrome", {19}), 2)}

\* Names that do not say what the content is.
Misnamed ==
    {FileOf(c, e, <<Page("first"), Line("paragraph", "none", <<19>>)>>) :
        c \in {"pdf", "zip"}, e \in {"pdf", "pptx", "md", "html", "none"}}
    \cup {FileOf(c, e, <<Line("paragraph", "none", <<19>>)>>) :
        c \in {"text", "bytes"}, e \in {"pdf", "docx", "pptx", "md", "html", "none"}}

\* Too damaged to be opened, if it is opened at all.
Damaged == {[f EXCEPT !.damaged = TRUE] : f \in Misnamed}

MCFile == Markdown \cup Docx \cup Pdf \cup Deck \cup Html \cup Misnamed \cup Damaged

\* Rankings of up to four chunks, twice the cap of a document, and three others:
\* two lists may have more than five in all.
MCRanking == {r \in BoundedSeq(1 .. 4, 4) : IsInjective(r)} \cup {<<5, 6, 7>>}

\* Chunks of one document or of several, with the words of one another or not,
\* one of them not READY or all.
Documents == {<<1, 1, 1, 1>>, <<1, 1, 1, 2>>, <<1, 1, 2, 2>>, <<1, 2, 1, 2>>, <<1, 2, 3, 4>>}
Texts ==
    LET shared == {"a", "b", "c", "d"}
    IN  {<<shared, shared, shared, shared>>,
         <<shared, shared, {"b", "c", "d"}, {"e"}>>,
         <<shared, {"e"}, shared, {"e"}>>,
         <<{"a", "b"}, {"b", "c"}, {"c", "d"}, {"d", "e"}>>}
MCCorpus ==
    {[doc |-> d \o <<5, 6, 7>>, words |-> w \o <<{"f"}, {"g"}, {"h"}>>, ready |-> r] :
        d \in Documents, w \in Texts, r \in {1 .. 7, {1, 3, 4, 5}}}

\* Answers of up to three phrases: words, markers of one or two sources, some
\* out of range, white space, a bracket left open, and one marker inside another.
Open == Atom("open")
Close == Atom("close")
Space == Atom("space")
Phrases ==
    {<<Atom("word")>>, <<Open>>, <<Close>>, <<Open, Atom("word"), Close>>,
     <<Open, Space, Number(3), Space, Close>>,
     <<Open, Number(3), Space, Atom("comma"), Space, Number(1), Close>>,
     <<Open, Number(3), Number(1), Close>>,
     <<Open, Open, Number(3), Close, Number(3), Close>>}
    \cup {<<Open, Number(n), Close>> : n \in 0 .. 3}
    \cup {<<Open, Number(n), Atom("comma"), Number(1), Close>> : n \in {0, 2, 3}}
MCAnswer == {FlattenSeq(p) : p \in BoundedSeq(Phrases, 3)}

\* Prompts: costs of the sources around the budget, histories with a blank turn, a
\* repeated question or another's stored after it, or none as the conversation has
\* gone; questions with a word twice or without signal.
Row(role, text) == [role |-> role, text |-> text]
Question == Row("user", "q")
Histories ==
    {<<>>} \cup
    {h \in BoundedSeq({Question, Row("assistant", "q"), Row("assistant", "blank"), Row("user", "other")}, 5) :
        Question \in ToSet(h)}
Named(name) == [name |-> name, signal |-> name # "the"]
Questions == BoundedSeq({Named(n) : n \in {"the", "cat", "dog", "cow"}}, 4)
MCPrompt ==
    [costs : BoundedSeq({1, 3, 6}, 4), budget : {5}, rows : {<<Question>>}, question : {"q"}, words : {<<>>}]
    \cup [costs : {<<>>}, budget : {5}, rows : Histories, question : {"q"}, words : {<<>>}]
    \cup [costs : {<<>>}, budget : {5}, rows : {<<Question>>}, question : {"q"}, words : Questions]

\* Questions for the offline responder, one that holds the word "Question:", and
\* up to two sources: sentences that share one word with them or two, among few
\* words or many, one with a quotation mark, one that cites, one too short.
MCQuery == {<<<<"the", "cat">>>>, <<<<"tiger", "cat">>>>, <<<<"cat">>, <<"tiger", "quot">>>>, <<<<"it">>>>}
Sentence(words, cites, long) == [words |-> words, cites |-> cites, long |-> long]
Sentences ==
    {Sentence(<<"the", "cat">>, <<>>, TRUE), Sentence(<<"tiger", "cat">>, <<>>, TRUE),
     Sentence(<<"QUOTE", "tiger", "QUOTE">>, <<>>, TRUE), Sentence(<<"tiger">>, <<3, 1>>, TRUE),
     Sentence(<<"cat", "tiger">>, <<>>, FALSE), Sentence(<<"horse", "cat", "mouse", "sheep">>, <<>>, TRUE)}
MCSource ==
    {<<s>> : s \in BoundedSeq(Sentences, 4)}
    \cup {<<s, t>> : s, t \in BoundedSeq(Sentences, 2)}

\* Golden sets of two answerable questions and one that is not.
Asked(dense, sparse, best, ms) ==
    [dense |-> dense, sparse |-> sparse, best |-> best, ms |-> ms]
Relevant(q, chunks) ==
    [dense |-> q.dense, sparse |-> q.sparse, best |-> q.best, ms |-> q.ms, relevant |-> chunks]
Near == Asked(<<1, 2, 3>>, <<2, 4>>, 2, 30)
Far == Asked(<<4, 3>>, <<>>, 1, 20)
Wide == Asked(<<1, 2, 3, 4>>, <<5, 6, 7>>, 2, 10)
MCGolden ==
    {[answerable |-> <<Relevant(Near, r), Relevant(q, s)>>, unanswerable |-> <<u>>] :
        q \in {Near, Far, Wide}, u \in {Near, Far}, r, s \in {{}, {1}, {4}, {3, 4}, {2, 3, 4}}}
=============================================================================
