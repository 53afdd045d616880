------------------------------ MODULE Passages ------------------------------
(***************************************************************************)
(* The algorithms between a file and a cited answer, each applied to every *)
(* input of a bounded set: Parsing, Chunking, Fusion, Grounding, Scripted  *)
(* and Evaluation.                                                         *)
(*                                                                         *)
(* A task is an input and the algorithm it is for; its step computes the   *)
(* result, which the properties judge.                                     *)
(***************************************************************************)
EXTENDS Chunking, Scripted, Evaluation

CONSTANTS
    File,       \* files, as Parsing has them
    Skip,       \* where the word boundary lies in an overlap
    Ranking,    \* ranked lists of chunks
    Corpus,     \* documents and words of the chunks
    Limit,      \* top_k
    Answer,     \* answers, as sequences of atoms
    Prompt,     \* costs of the sources, budget, stored turns, question, words
    Query,      \* questions, as the parts between the words "Question:"
    Source,     \* sources of a prompt, as sequences of sentences
    Golden      \* golden sets

Turn == [role : {"user", "assistant"}, text : STRING]
Word == [name : STRING, signal : BOOLEAN]
Unlabelled == [dense : Ranking, sparse : Ranking, best : Int, ms : Nat]
Labelled == [dense : Ranking, sparse : Ranking, best : Int, ms : Nat,
             relevant : {chunks \in SUBSET Int : IsFiniteSet(chunks)}]

\* The lines of a PDF or a deck are on pages or slides, the extraction of a page
\* fails in a PDF only, and only a web page has chrome.  A ranked list names a
\* chunk once and is as long as retrieval_candidates at most; top_k is at least
\* one (schemas/search.py).  A word carries a signal or not by its name.
ASSUME PassagesAssumption ==
    /\ \A f \in File :
          /\ f.content \in {"pdf", "zip", "text", "bytes"} /\ f.lines \in Seq(FileLine)
          /\ f.damaged \in BOOLEAN
          /\ Format(f) \in {"pdf", "pptx"} /\ f.lines # <<>> =>
                f.lines[1].kind \in {"page", "failing"}
          /\ Format(f) # "pdf" => \A l \in DOMAIN f.lines : f.lines[l].kind # "failing"
          /\ Format(f) # "html" => \A l \in DOMAIN f.lines : f.lines[l].kind # "chrome"
    /\ Skip \subseteq Nat
    /\ \A list \in Ranking :
          list \in Seq(Int) /\ IsInjective(list) /\ Len(list) <= MaxRank
    /\ Limit \subseteq Nat \ {0}
    /\ \A p \in Prompt :
          /\ p.costs \in Seq(Int) /\ p.budget \in Int
          /\ p.rows \in Seq(Turn) /\ p.question \in STRING
          /\ p.words \in Seq(Word)
          /\ \A i, j \in DOMAIN p.words :
                p.words[i].name = p.words[j].name => p.words[i].signal = p.words[j].signal
    /\ \A g \in Golden : g.answerable \in Seq(Labelled) /\ g.unanswerable \in Seq(Unlabelled)

VARIABLES
    task,
    result      \* <<>> until the task is done, then <<what came out>>

vars == <<task, result>>

Task ==
         [kind : {"parse"}, file : File, skip : Skip]
    \cup [kind : {"fuse"}, dense : Ranking, sparse : Ranking]
    \cup [kind : {"select"}, corpus : Corpus, hits : Ranking, limit : Limit]
    \cup [kind : {"cite"}, text : Answer, sources : 0 .. 2]
    \cup [kind : {"prompt"}, prompt : Prompt]
    \cup [kind : {"respond"}, parts : Query, sources : Source]
    \cup [kind : {"evaluate"}, corpus : Corpus, golden : Golden, mode : {"hybrid", "dense", "sparse"}]

Init == task \in Task /\ result = <<>>

Yields(kind, value) ==
    /\ task.kind = kind /\ result = <<>>
    /\ result' = <<value>>
    /\ UNCHANGED task

Ingest == task.kind = "parse" /\ Yields("parse", ChunkDocument(task.file, task.skip))
Fuse == task.kind = "fuse" /\ Yields("fuse", Fused(task.dense, task.sparse))
Select == task.kind = "select" /\ Yields("select", Diversify(task.corpus, task.hits, task.limit))
Cite == task.kind = "cite" /\ Yields("cite", Validate(task.text, task.sources))
Assemble ==
    /\ task.kind = "prompt"
    /\ LET p == task.prompt
       IN  Yields("prompt", [terms   |-> QueryTerms(p.words),
                             sources |-> SourcesUsed(p.costs, p.budget),
                             turns   |-> Turns(p.rows, p.question)])
Respond ==
    task.kind = "respond" /\ Yields("respond", StreamChat(task.parts, task.sources))
Measure ==
    task.kind = "evaluate" /\ Yields("evaluate", RunGolden(task.corpus, task.golden, task.mode))

Next == Ingest \/ Fuse \/ Select \/ Cite \/ Assemble \/ Respond \/ Measure

Spec == Init /\ [][Next]_vars

Done(kind) == task.kind = kind /\ result # <<>>

-----------------------------------------------------------------------------
(* Properties. *)

\* A file is parsed as what its content is; parsing and chunking neither repeat
\* nor reorder text, lose none but that of a PDF page that failed and the tables
\* of a deck, and keep its page and heading: what a citation's "page 47" rests on.
TextKept ==
    Done("parse") =>
        /\ TypeFits(task.file)
        /\ IF Accepted(task.file) THEN KeepsText(task.file, result[1]) ELSE result[1] = <<>>

\* Chunks grow by an overlap and by merged fragments, and not beyond; no
\* fragment is left where it had a neighbour.
ChunksWellSized == Done("parse") => WellSized(result[1])

\* What both retrievers found beats what one of them found; a list alone keeps
\* its order, which is what the ablations of the benchmark rest on.
AgreementFirst ==
    Done("fuse") =>
        /\ AgreementWins(task.dense, task.sparse)
        /\ task.sparse = <<>> => result[1] = task.dense

\* The selection fills up to the limit, repeats nothing, and breaks its own
\* rules on diversity only when nothing else is left.
SelectionDiverse == Done("select") => DiverseAndFull(task.corpus, task.hits, task.limit)

\* No marker of an answer points to a source that was not supplied, unless the
\* answer nests brackets; those of the offline responder follow what they cite,
\* word for word.
CitationsResolve ==
    /\ Done("cite") => MarkersResolve(task.text, task.sources)
    /\ Done("respond") => AnswerQuotes(result[1], task.parts, task.sources)

\* The prompt: a lexical query that asks for what matters, sources numbered
\* without a gap within the budget, the question last, after what was said before
\* it.
PromptFaithful ==
    Done("prompt") =>
        /\ QueryIsSignificant(task.prompt.words)
        /\ ContextIsPrefix(task.prompt.costs, task.prompt.budget)
        /\ AskedLast(task.prompt.rows, task.prompt.question)

\* The report of the benchmark accounts for every question and its metrics
\* agree with each other.
MetricsAgree == Done("evaluate") => ReportAgrees(task.golden, task.mode, result[1])
=============================================================================
