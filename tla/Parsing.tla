------------------------------ MODULE Parsing ------------------------------
(***************************************************************************)
(* From a file to the pages of a ParsedDocument: source_type_for and the   *)
(* parsers of providers/parsers/formats.py, as functions.                  *)
(*                                                                         *)
(* A file has the kind of its content, the extension of its name, whether  *)
(* it is too damaged to be opened, and lines: headings, page breaks (a     *)
(* page of a PDF or a slide, with its title; a failing one is a page whose *)
(* extraction raises), paragraphs, tables, and the chrome of a web page.   *)
(* Of a paragraph only the lengths of its sentences matter, and which line *)
(* of the file it is.                                                      *)
(***************************************************************************)
EXTENDS Integers, Sequences, FiniteSets, SequencesExt, Keeping

CONSTANT MinText    \* characters below which a document is_empty, 20

ASSUME ParsingAssumption == MinText \in Nat

Kinds == {"heading", "page", "failing", "paragraph", "table", "chrome"}
FileLine == [at : Int, kind : Kinds, name : STRING, sentences : Seq(Nat)]

\* Content first, name second.  The name's extension tells the two kinds of
\* zip apart, and the two kinds of text.
Binary == {"pdf", "docx", "pptx"}

SourceTypeFor(content, extension) ==
    CASE content = "pdf" -> "pdf"
      [] content = "zip" -> IF extension \in {"docx", "pptx"} THEN extension ELSE "unsupported"
      [] content \in {"text", "bytes"} ->
             IF extension \in Binary THEN "unsupported"
             ELSE IF extension \in {"md", "html"} THEN extension
             ELSE IF content = "text" THEN "md" ELSE "unsupported"

-----------------------------------------------------------------------------
(* The parsers. *)

\* Headings divide a text and a DOCX, pages a PDF and a deck, whose slides
\* have their title among their paragraphs; a web page is one.
Opens(format, line) ==
    \/ format \in {"md", "docx"} /\ line.kind = "heading"
    \/ format \in {"pdf", "pptx"} /\ line.kind \in {"page", "failing"}

Heading(format, line) == IF format = "pdf" THEN "none" ELSE line.name

\* A PDF page whose extraction raises is logged and left empty; of a slide only
\* the shapes with a text frame are read, and a table has none; the chrome of a
\* web page is dropped.
OnFailingPage(lines, l) ==
    /\ ~Opens("pdf", lines[l])
    /\ \E k \in 1 .. l : /\ lines[k].kind = "failing"
                         /\ \A j \in k + 1 .. l : ~Opens("pdf", lines[j])
Unread(format, lines, l) ==
    \/ format = "pdf" /\ OnFailingPage(lines, l)
    \/ format = "pptx" /\ lines[l].kind = "table"
    \/ format = "html" /\ lines[l].kind = "chrome"

\* python-docx lists the tables apart from the paragraphs: they end up under
\* the last heading.
OfKinds(lines, kinds) == Those({line \in ToSet(lines) : line.kind \in kinds}, lines)
InReadingOrder(format, lines) ==
    IF format = "docx"
    THEN OfKinds(lines, Kinds \ {"table"}) \o OfKinds(lines, {"table"})
    ELSE Those({lines[l] : l \in {l \in DOMAIN lines : ~Unread(format, lines, l)}}, lines)

\* What precedes the first heading is a section too.
FirstSections(format) ==
    IF format \in {"pdf", "pptx"} THEN <<>> ELSE <<[section |-> "none", body |-> <<>>]>>

\* What is on no page of a PDF or a deck is not read.
AddLine(format, done, line) ==
    IF Opens(format, line)
    THEN Append(done, [section |-> Heading(format, line), body |-> <<>>])
    ELSE IF done = <<>> THEN done
    ELSE Front(done) \o <<[Last(done) EXCEPT !.body =
             Append(@, [at |-> line.at, sentences |-> line.sentences])]>>

Sections(format, lines) ==
    FoldLeft(LAMBDA done, line : AddLine(format, done, line),
             FirstSections(format), InReadingOrder(format, lines))

\* A section without text, an empty page or a slide without words is no page,
\* but keeps its number.
AddPage(sections, pages, i) ==
    IF sections[i].body = <<>> THEN pages
    ELSE Append(pages, [number |-> i, section |-> sections[i].section, text |-> sections[i].body])
NumberedPages(sections) ==
    FoldLeft(LAMBDA pages, i : AddPage(sections, pages, i), <<>>, [i \in DOMAIN sections |-> i])

Format(file) == SourceTypeFor(file.content, file.extension)

Pages(file) ==
    NumberedPages(Sections(Format(file),
        [i \in DOMAIN file.lines |-> [file.lines[i] EXCEPT !.at = i]]))

-----------------------------------------------------------------------------
(* Lengths, and whether there is anything to index. *)

Total(lengths) == FoldLeft(LAMBDA sum, n : sum + n, 0, lengths)

\* Sentences are a blank apart, paragraphs a blank line.
ParagraphWidth(paragraph) == Total(paragraph.sentences) + Len(paragraph.sentences) - 1
PageWidth(text) ==
    Total([p \in DOMAIN text |-> ParagraphWidth(text[p])]) + 2 * (Len(text) - 1)

TotalCharacters(pages) == Total([i \in DOMAIN pages |-> PageWidth(pages[i].text)])

\* The libraries open no damaged or password-protected file; a text always
\* decodes, somehow.
Opened(file) == Format(file) # "unsupported" /\ ~(file.damaged /\ Format(file) \in Binary)

Accepted(file) == Opened(file) /\ TotalCharacters(Pages(file)) >= MinText

-----------------------------------------------------------------------------
(* What the pages have to be. *)

\* The content decides: nothing is parsed as what it is not, and what is what
\* its name says is taken.
TypeFits(file) ==
    LET format == Format(file)
    IN  /\ (format = "pdf") <=> (file.content = "pdf")
        /\ format \in {"docx", "pptx"} => file.content = "zip" /\ format = file.extension
        /\ format = "unsupported" =>
              file.content = "bytes" \/ file.content = "zip" \/ file.extension \in Binary

\* A paragraph is on one page, with the number and under the heading that its
\* place in the file gives it; the tables of a DOCX are somewhere.  Lost are what
\* stands on a PDF page whose extraction raised and the tables of a deck, and
\* nothing else.
WellPlaced(file, pages) ==
    LET format == Format(file)
        Before(l) == {k \in 1 .. l : Opens(format, file.lines[k])}
        Latest(l) == CHOOSE k \in Before(l) : \A j \in Before(l) : j <= k
        SectionOf(l) == IF Before(l) = {} THEN "none" ELSE Heading(format, file.lines[Latest(l)])
        NumberOf(l) == Cardinality(Before(l)) + Len(FirstSections(format))
        Lost(l) == \/ format = "pdf" /\ file.lines[Latest(l)].kind = "failing"
                   \/ format = "pptx" /\ file.lines[l].kind = "table"
        Texts(l) == {i \in DOMAIN pages : \E p \in DOMAIN pages[i].text : pages[i].text[p].at = l}
    IN  \A l \in DOMAIN file.lines :
            /\ file.lines[l].kind \in {"paragraph", "table"} =>
                  Cardinality(Texts(l)) = IF Lost(l) THEN 0 ELSE 1
            /\ file.lines[l].kind = "paragraph" =>
                  \A i \in Texts(l) : /\ pages[i].number = NumberOf(l)
                                      /\ pages[i].section = SectionOf(l)
            /\ file.lines[l].kind = "chrome" => Texts(l) = {}
=============================================================================
