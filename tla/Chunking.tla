------------------------------ MODULE Chunking ------------------------------
(***************************************************************************)
(* From the pages of a document to retrievable chunks: chunk_document      *)
(* (services/chunking.py), as functions.                                   *)
(*                                                                         *)
(* A piece is a stretch of one paragraph that is not divided any more,     *)
(* with its place; a window is a sequence of parts joined by blank lines,  *)
(* each a piece or the tail carried over from the window before.           *)
(***************************************************************************)
EXTENDS Parsing

CONSTANTS
    Target,     \* chunk_size_chars
    Overlap,    \* chunk_overlap_chars
    MinChunk    \* MIN_CHUNK_CHARS

\* The defaults are 1200, 150 and 60.  chunk_document raises on the first
\* conjunct; the second says that two fragments always fit one window.
ASSUME ChunkingAssumption ==
    /\ Target \in Nat /\ Overlap \in Nat /\ MinChunk \in Nat
    /\ Overlap < Target
    /\ 2 * MinChunk + 2 <= Target

Width(window) ==
    Total([i \in DOMAIN window |-> window[i].len]) + 2 * (Len(window) - 1)

-----------------------------------------------------------------------------
(* The windows of a page. *)

Piece(at, n) == [at |-> at, len |-> n, tail |-> FALSE]

\* A sentence longer than a chunk is cut by character.
Cut(p, s, n) ==
    [k \in 1 .. (n + Target - 1) \div Target |->
        Piece(<<p, s, k>>, IF k * Target <= n THEN Target ELSE n % Target)]

Subdivide(p, paragraph) ==
    LET lengths == paragraph.sentences
    IN  FlattenSeq([s \in DOMAIN lengths |->
            IF lengths[s] <= Target THEN <<Piece(<<p, s, 1>>, lengths[s])>>
            ELSE Cut(p, s, lengths[s])])

WholeParagraphs(text) ==
    [p \in DOMAIN text |-> Piece(<<p, 0, 0>>, ParagraphWidth(text[p]))]

FitsOneWindow(text) == Width(WholeParagraphs(text)) <= Target

Pieces(text) ==
    IF FitsOneWindow(text)
    THEN WholeParagraphs(text)
    ELSE FlattenSeq([p \in DOMAIN text |->
             IF ParagraphWidth(text[p]) <= Target
             THEN <<WholeParagraphs(text)[p]>>
             ELSE Subdivide(p, text[p])])

\* Windows are filled greedily.  The separator is counted when the piece is
\* weighed, so the first piece of every window but the first costs two more
\* than it is long.
FullBefore(filling, addition) == filling.length > Target      \* a mutant
Overfull(filling, addition) ==
    filling.current # <<>> /\ filling.length + addition > Target

PutPiece(filling, piece) ==
    LET addition == piece.len + (IF filling.current = <<>> THEN 0 ELSE 2)
    IN  IF Overfull(filling, addition)
        THEN [done    |-> Append(filling.done, filling.current),
              current |-> <<piece>>,
              length  |-> addition]
        ELSE [filling EXCEPT !.current = Append(@, piece), !.length = @ + addition]

Windows(pieces) ==
    LET filled == FoldLeft(PutPiece,
                           [done |-> <<>>, current |-> <<>>, length |-> 0], pieces)
    IN  IF filled.current = <<>> THEN filled.done
        ELSE Append(filled.done, filled.current)

\* The tail of the previous window, from a word boundary on: skip says how
\* many characters of the overlap come before that boundary.
CarriedTail(previous, skip) ==
    LET n == (IF Width(previous) < Overlap THEN Width(previous) ELSE Overlap) - skip
    IN  IF n > 0 THEN <<[at |-> <<>>, len |-> n, tail |-> TRUE]>> ELSE <<>>

Overlapped(windows, skip) ==
    [i \in DOMAIN windows |->
        IF i = 1 THEN windows[1]
        ELSE CarriedTail(windows[i - 1], skip) \o windows[i]]

SplitPage(text, skip) ==
    IF FitsOneWindow(text) THEN <<Pieces(text)>>
    ELSE Overlapped(Windows(Pieces(text)), skip)

-----------------------------------------------------------------------------
(* Fragments are merged into a neighbour. *)

Fragment(window) == Width(window) < MinChunk

\* A window may grow to 1.3 times the target by a fragment that follows it.
HasRoomFor(window, fragment) ==
    10 * (Width(window) + Width(fragment) + 2) <= 13 * Target

MergeBack(out, window) ==
    IF Fragment(window) /\ out # <<>> /\ HasRoomFor(Last(out), window)
    THEN Front(out) \o <<Last(out) \o window>>
    ELSE Append(out, window)

MergeForward(pass, window) ==
    IF Fragment(window)
    THEN [pass EXCEPT !.carry = @ \o window]
    ELSE [fixed |-> Append(pass.fixed, pass.carry \o window), carry |-> <<>>]

\* What the forward pass leaves over.
DropsCarry(pass) == pass.fixed                                \* a mutant
PlaceCarry(pass) ==
    IF pass.carry = <<>> THEN pass.fixed
    ELSE IF ~Fragment(pass.carry) THEN Append(pass.fixed, pass.carry)
    ELSE IF pass.fixed # <<>> THEN Front(pass.fixed) \o <<Last(pass.fixed) \o pass.carry>>
    ELSE <<>>

AbsorbFragments(windows) ==
    IF Len(windows) = 1 THEN windows
    ELSE PlaceCarry(FoldLeft(MergeForward, [fixed |-> <<>>, carry |-> <<>>],
                             FoldLeft(MergeBack, <<>>, windows)))

ChunkPage(text, skip) == AbsorbFragments(SplitPage(text, skip))

\* The chunks of a file in order, each with its page; of a file that cannot be
\* parsed, or has no text to speak of, there are none.
ChunkDocument(file, skip) ==
    LET pages == IF Accepted(file) THEN Pages(file) ELSE <<>>
    IN  FlattenSeq([i \in DOMAIN pages |->
        LET page == pages[i]
            bodies == ChunkPage(page.text, skip)
        IN  [k \in DOMAIN bodies |-> [page |-> page.number, section |-> page.section,
                                      content |-> bodies[k]]]])

-----------------------------------------------------------------------------
(* What the chunks have to be. *)

\* The text of a page in reading order, carried tails left aside.
OwnText(chunks) ==
    LET parts == FlattenSeq(chunks)
    IN  Those({part \in ToSet(parts) : ~part.tail}, parts)

\* Every paragraph that was read of an accepted file is found in the chunks of
\* the page it belongs to: whole, once, in order, under the heading of the page.
KeepsText(file, chunks) ==
    LET pages == Pages(file)
        Of(n) == Those({c \in ToSet(chunks) : c.page = n}, chunks)
    IN  /\ WellPlaced(file, pages)
        /\ \A i \in DOMAIN pages :
              LET own == Of(pages[i].number)
              IN  /\ OwnText([k \in DOMAIN own |-> own[k].content]) = Pieces(pages[i].text)
                  /\ \A k \in DOMAIN own : own[k].section = pages[i].section
        /\ \A c \in ToSet(chunks) : \E i \in DOMAIN pages : pages[i].number = c.page

\* No fragment is left on a page that has more than one chunk, and no chunk
\* outgrows what a full window with its overlap, or one extended by a
\* fragment, may measure, plus a fragment merged into either end of it.
Ceiling ==
    LET overlapped == Target + Overlap + 2
        extended == (13 * Target) \div 10
    IN  (IF extended > overlapped THEN extended ELSE overlapped) + 2 * (MinChunk + 1)

WellSized(chunks) ==
    \A k \in DOMAIN chunks :
        /\ Width(chunks[k].content) <= Ceiling
        /\ Fragment(chunks[k].content) =>
               \A j \in DOMAIN chunks : chunks[j].page = chunks[k].page => j = k
=============================================================================
