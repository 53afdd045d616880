------------------------------ MODULE ChatTurn ------------------------------
(***************************************************************************)
(* Questions of one conversation, from the request to the stored answer:   *)
(* ask and event_stream (api/v1/chat.py), answer and persist               *)
(* (services/chat_service.py), retrieve (services/retrieval_service.py).   *)
(*                                                                         *)
(* Requests run side by side, while documents are published and deleted    *)
(* and the conversation may be deleted.  Each request has a transaction    *)
(* for the question and, on a session of its own, one that lasts as long   *)
(* as the stream; a message is dated when its transaction began.           *)
(*                                                                         *)
(* A chunk stands for a document of one chunk: its row in Postgres and its *)
(* vector in the store.                                                    *)
(***************************************************************************)
EXTENDS Naturals, FiniteSets

CONSTANTS
    Turn,       \* questions, each asked at most once
    Chunk,      \* chunks the searches may bring up
    Foreign,    \* those of other workspaces, which a drifted index returns
    Near,       \* to a question: those whose cosine reaches RELEVANCE_FLOOR
    Lexical     \* those that share a term with the questions

ASSUME ChatAssumption ==
    /\ IsFiniteSet(Turn) /\ IsFiniteSet(Chunk)
    /\ Foreign \subseteq Chunk /\ Lexical \subseteq Chunk
    /\ Near \in [Turn -> SUBSET Chunk]

VARIABLES
    row,            \* the workspace's chunks: being indexed, READY or deleted
    vector,         \* those with a vector in the store
    conversation,   \* "open" or "deleted"
    clock,          \* counts transactions of messages
    pc,             \* where each request is
    began,          \* when its stream's transaction began
    dense, sparse,  \* what the two searches found, None while they run
    aborted,        \* streams whose transaction is aborted, or connection lost
    sources,        \* those that went into the prompt
    cited,          \* those the answer cites
    last,           \* the last event sent
    billed,         \* the streams whose provider reported tokens
    left,           \* clients that disconnected
    askedAt,        \* created_at of the stored questions, 0 when there is none
    storedAt,       \* created_at of the stored answers, 0 when there is none
    usage,          \* turns with a UsageEvent
    heard           \* history: the turns whose "done" had been sent by the asking

corpus == <<row, vector>>
retrieval == <<dense, sparse, aborted, sources>>
stored == <<askedAt, storedAt, usage>>
vars == <<corpus, conversation, clock, pc, began, retrieval, cited, last, billed,
          left, stored, heard>>

None == {"pending"}

Init ==
    /\ row \in [Chunk \ Foreign -> {"indexing", "ready"}]
    /\ vector = Chunk \ Foreign
    /\ conversation = "open" /\ clock = 0
    /\ pc = [t \in Turn |-> "new"]
    /\ began = [t \in Turn |-> 0]
    /\ dense = [t \in Turn |-> None] /\ sparse = [t \in Turn |-> None]
    /\ aborted = {}
    /\ sources = [t \in Turn |-> {}]
    /\ cited = [t \in Turn |-> {}]
    /\ last = [t \in Turn |-> "none"]
    /\ billed = {} /\ left = {}
    /\ askedAt = [t \in Turn |-> 0] /\ storedAt = [t \in Turn |-> 0]
    /\ usage = {}
    /\ heard = [t \in Turn |-> {}]

Goto(t, place) == pc' = [pc EXCEPT ![t] = place]
Sends(t, event) == last' = [last EXCEPT ![t] = event]

Own == Chunk \ Foreign

Rows(status) == {c \in Own : row[c] = status}

-----------------------------------------------------------------------------
(* The request. *)

\* The conversation is loaded, in the transaction that dates the question; it
\* may be gone, or the user over the rate limit.
Ask(t) ==
    /\ pc[t] = "new"
    /\ \/ /\ conversation = "open"
          /\ Goto(t, "loaded") /\ clock' = clock + 1
          /\ heard' = [heard EXCEPT ![t] = {u \in Turn : last[u] = "done"}]
          /\ askedAt' = [askedAt EXCEPT ![t] = clock + 1]
       \/ /\ Goto(t, "refusedRequest")
          /\ UNCHANGED <<clock, heard, askedAt>>
    /\ UNCHANGED <<corpus, conversation, began, retrieval, cited, last, billed,
                   left, storedAt, usage>>

\* The question is committed before anything is streamed; it fails with the
\* database, or on the foreign key when the conversation has gone.
StoreQuestion(t) ==
    /\ pc[t] = "loaded"
    /\ \/ /\ conversation = "open"
          /\ Goto(t, "stored")
          /\ UNCHANGED askedAt
       \/ /\ Goto(t, "refusedRequest")
          /\ askedAt' = [askedAt EXCEPT ![t] = 0]
    /\ UNCHANGED <<corpus, conversation, clock, began, retrieval, cited, last,
                   billed, left, storedAt, usage, heard>>

\* event_stream opens its session and looks the conversation up again; there may
\* be no session to be had.
OpenStream(t) ==
    /\ pc[t] = "stored"
    /\ \/ /\ conversation = "open"
          /\ Goto(t, "retrieving")
          /\ clock' = clock + 1
          /\ began' = [began EXCEPT ![t] = clock + 1]
          /\ UNCHANGED <<last, aborted>>
       \/ /\ Goto(t, "closed") /\ Sends(t, "error")
          /\ \/ conversation = "deleted" /\ UNCHANGED aborted
             \/ aborted' = aborted \cup {t}
          /\ UNCHANGED <<clock, began>>
    /\ UNCHANGED <<corpus, conversation, dense, sparse, sources, cited, billed, left,
                   stored, heard>>

-----------------------------------------------------------------------------
(* Retrieval: two searches side by side, in two systems. *)

\* The vector search fails into an empty result; a drifted index returns more
\* than it should.
DenseSearch(t) ==
    /\ pc[t] = "retrieving" /\ dense[t] = None
    /\ \E hits \in {vector, vector \cup Foreign, {}} : dense' = [dense EXCEPT ![t] = hits]
    /\ UNCHANGED <<corpus, conversation, clock, pc, began, sparse, aborted, sources,
                   cited, last, billed, left, stored, heard>>

\* So does the lexical one, which leaves the transaction aborted.
SparseSearch(t) ==
    /\ pc[t] = "retrieving" /\ sparse[t] = None
    /\ \/ /\ sparse' = [sparse EXCEPT ![t] = Lexical \cap Rows("ready")]
          /\ UNCHANGED aborted
       \/ /\ sparse' = [sparse EXCEPT ![t] = {}]
          /\ aborted' = aborted \cup {t}
    /\ UNCHANGED <<corpus, conversation, clock, pc, began, dense, sources,
                   cited, last, billed, left, stored, heard>>

NeedsHits(t) == dense[t] \notin {None, {}} /\ sparse[t] # None   \* a mutant
Searched(t) == dense[t] # None /\ sparse[t] # None

Fused(t) == dense[t] \cup sparse[t]

\* The second isolation check: what is a row of this workspace, and READY.
TrustsIndex(t) == Fused(t)                                    \* a mutant
Resolved(t) == Fused(t) \cap Rows("ready")

\* The refusal gate: the best cosine is that of the raw dense hits.
Refuses(t) == Resolved(t) = {} \/ dense[t] \cap Near[t] = {}

\* The re-fetch fails on an aborted transaction; without hits there is none.
Decide(t) ==
    /\ pc[t] = "retrieving" /\ Searched(t)
    /\ IF t \in aborted /\ Fused(t) # {}
       THEN /\ Goto(t, "closed") /\ Sends(t, "error")
            /\ UNCHANGED sources
       ELSE IF Refuses(t)
       THEN /\ Goto(t, "apologising") /\ Sends(t, "refusal")
            /\ UNCHANGED sources
       ELSE /\ Goto(t, "streaming") /\ Sends(t, "meta")
            /\ \E kept \in (SUBSET Resolved(t)) \ {{}} : sources' = [sources EXCEPT ![t] = kept]
    /\ dense' = [dense EXCEPT ![t] = None] /\ sparse' = [sparse EXCEPT ![t] = None]
    /\ UNCHANGED <<corpus, conversation, clock, began, aborted, cited, billed, left,
                   stored, heard>>

-----------------------------------------------------------------------------
(* The stream. *)

\* Between two events the server looks whether the client is still there.
Emit(t, event) ==
    /\ t \notin left
    /\ Sends(t, event)
    /\ UNCHANGED <<corpus, conversation, clock, began, retrieval, left, stored, heard>>

Token(t) ==
    /\ pc[t] = "streaming" /\ last[t] = "meta"
    /\ Emit(t, "token")
    /\ UNCHANGED <<pc, cited, billed>>

\* A provider that ends has reported its tokens, or never does.
Reports(t) == billed' \in {billed, billed \cup {t}}

\* The provider has ended, and the markers are validated.
Citations(t) ==
    /\ pc[t] = "streaming" /\ last[t] \in {"meta", "token"}
    /\ Emit(t, "citations")
    /\ \E markers \in SUBSET sources[t] : cited' = [cited EXCEPT ![t] = markers]
    /\ Reports(t)
    /\ UNCHANGED pc

Usage(t) ==
    /\ pc[t] = "streaming" /\ last[t] = "citations"
    /\ Emit(t, "usage")
    /\ UNCHANGED <<pc, cited, billed>>

Word(t) ==
    /\ pc[t] = "apologising" /\ last[t] = "refusal"
    /\ Emit(t, "word")
    /\ UNCHANGED <<pc, cited, billed>>

SkipsCitations(t) == last[t] \in {"token", "word"}            \* a mutant
Complete(t) == last[t] \in {"usage", "word"}

Done(t) ==
    /\ Complete(t) /\ pc[t] \in {"streaming", "apologising"}
    /\ Emit(t, "done")
    /\ Goto(t, "outcome")
    /\ UNCHANGED <<cited, billed>>

\* The provider fails or times out: an error, and the partial text is kept.
ProviderFails(t) ==
    /\ pc[t] = "streaming" /\ last[t] \in {"meta", "token"}
    /\ Emit(t, "error")
    /\ Goto(t, "outcome")
    /\ Reports(t)
    /\ UNCHANGED cited

\* The client has gone: the generator is left, or cancelled where it waits.
Abandon(t) ==
    /\ t \in left
    /\ pc[t] \in {"retrieving", "streaming", "apologising", "outcome"}
    /\ Goto(t, "closed")
    /\ UNCHANGED <<corpus, conversation, clock, began, retrieval, cited, last, billed,
                   left, stored, heard>>

-----------------------------------------------------------------------------
(* The turn is stored after the last event. *)

\* The message needs its conversation, each citation its chunk and document, and
\* all of it a database.
ChecksIndex(t) ==                                             \* a mutant
    conversation = "deleted" \/ t \in aborted \/ ~(cited[t] \subseteq vector)
CannotStore(t) ==
    conversation = "deleted" \/ t \in aborted \/ cited[t] \cap Rows("gone") # {}

\* A refusal is no billable event, nor is a call that reported no tokens, as
\* one that breaks off most often has not.
RecordsCited(t) == t \in billed /\ cited[t] # {}              \* a mutant
RecordsUsage(t) == t \in billed

\* now() is the time the transaction began.
AtCommit(t) == clock                                          \* a mutant
CreatedAt(t) == began[t]

Persist(t) ==
    /\ pc[t] = "outcome"
    /\ Goto(t, "closed")
    /\ IF CannotStore(t)
       THEN /\ Sends(t, IF t \in left THEN last[t]
                        ELSE IF last[t] = "error" THEN "lastError" ELSE "error")
            /\ UNCHANGED stored
       ELSE /\ storedAt' = [storedAt EXCEPT ![t] = CreatedAt(t)]
            /\ usage' = IF RecordsUsage(t) THEN usage \cup {t} ELSE usage
            /\ UNCHANGED <<askedAt, last>>
    /\ UNCHANGED <<corpus, conversation, clock, began, retrieval, cited, billed, left, heard>>

-----------------------------------------------------------------------------
(* What goes on meanwhile. *)

Idle == UNCHANGED <<clock, pc, began, retrieval, cited, last, billed, heard>>

Leave(t) ==
    /\ pc[t] \notin {"new", "closed", "refusedRequest"} /\ t \notin left
    /\ left' = left \cup {t}
    /\ Idle /\ UNCHANGED <<corpus, conversation, stored>>

\* The connection of a stream breaks; the stream notices as it is to be stored.
LoseDatabase(t) ==
    /\ pc[t] = "outcome" /\ t \notin aborted
    /\ aborted' = aborted \cup {t}
    /\ UNCHANGED <<corpus, conversation, clock, pc, began, dense, sparse, sources, cited,
                   last, billed, left, stored, heard>>

Publish(c) ==
    /\ row[c] = "indexing"
    /\ row' = [row EXCEPT ![c] = "ready"]
    /\ Idle /\ UNCHANGED <<vector, conversation, left, stored>>

\* A document goes: its vectors first, then its rows.
DeleteVectors(c) ==
    /\ c \in vector /\ row[c] # "gone"
    /\ vector' = vector \ {c}
    /\ Idle /\ UNCHANGED <<row, conversation, left, stored>>

DeleteRows(c) ==
    /\ c \notin vector /\ row[c] # "gone"
    /\ row' = [row EXCEPT ![c] = "gone"]
    /\ Idle /\ UNCHANGED <<vector, conversation, left, stored>>

\* A run that was under way indexes what has been deleted.
IndexLate(c) ==
    /\ c \notin vector
    /\ vector' = vector \cup {c}
    /\ Idle /\ UNCHANGED <<row, conversation, left, stored>>

\* The messages and their citations go with the conversation.
DeleteConversation ==
    /\ conversation = "open"
    /\ conversation' = "deleted"
    /\ askedAt' = [t \in Turn |-> IF pc[t] = "loaded" THEN askedAt[t] ELSE 0]
    /\ storedAt' = [t \in Turn |-> 0]
    /\ Idle /\ UNCHANGED <<corpus, left, usage>>

Serve(t) ==
    \/ StoreQuestion(t) \/ OpenStream(t)
    \/ DenseSearch(t) \/ SparseSearch(t) \/ Decide(t)
    \/ Token(t) \/ Citations(t) \/ Usage(t) \/ Word(t) \/ Done(t)
    \/ ProviderFails(t) \/ Abandon(t) \/ Persist(t)

Meanwhile ==
    \/ \E t \in Turn : Leave(t) \/ LoseDatabase(t)
    \/ \E c \in Own : Publish(c) \/ DeleteVectors(c) \/ DeleteRows(c) \/ IndexLate(c)
    \/ DeleteConversation

Next ==
    \/ \E t \in Turn : Ask(t) \/ Serve(t)
    \/ Meanwhile

\* The server goes on with what it can; the provider ends or times out.
Fairness == \A t \in Turn : WF_vars(Serve(t))

Spec == Init /\ [][Next]_vars /\ Fairness

-----------------------------------------------------------------------------
(* Properties. *)

\* The stream keeps the order its reader relies on.
Stream == INSTANCE AnswerStream WITH
              closed <- {t \in Turn : pc[t] \in {"closed", "refusedRequest"}}
StreamContract == Stream!Spec

\* The provider is only called with sources, all READY rows of this workspace
\* whatever the index returned; and, when the index returned only such rows, only
\* with one near to the question: nothing but a stale hit fools the gate.
GroundedAnswers ==
    [][\A t \in Turn :
          /\ pc[t] # "streaming" /\ pc'[t] = "streaming" =>
                /\ sources'[t] # {} /\ sources'[t] \subseteq Rows("ready")
                /\ dense[t] \subseteq Rows("ready") => Rows("ready") \cap Near[t] # {}
          /\ cited'[t] \subseteq sources'[t]]_vars

\* What the client saw to its end, an answer, an apology or one that broke off,
\* is stored, unless the conversation or a cited document was deleted meanwhile,
\* the client left before it was, or the stream's transaction was broken.
LostAnswerExplained ==
    \A t \in Turn :
        pc[t] = "closed" /\ last[t] \in {"done", "error", "lastError"} /\ storedAt[t] = 0 =>
            \/ conversation = "deleted"
            \/ cited[t] \cap Rows("gone") # {}
            \/ t \in left
            \/ t \in aborted

\* An answer comes after its question, and before every question that was
\* asked when its "done" had been sent, though it may be stored after that.
TranscriptInOrder ==
    \A t \in Turn :
        storedAt[t] # 0 =>
            /\ askedAt[t] # 0 /\ askedAt[t] < storedAt[t]
            /\ \A u \in Turn : t \in heard[u] /\ askedAt[u] # 0 => storedAt[t] < askedAt[u]

\* A usage row is written with the answer it paid for; of the calls whose
\* provider reported tokens, broken off or not, one goes unrecorded only with
\* its answer.  What was never reported is not recorded, stored answer or not.
SpendExplained ==
    \A t \in Turn :
        /\ t \in usage => t \in billed /\ pc[t] = "closed"
        /\ t \in billed /\ pc[t] = "closed" /\ t \notin usage =>
               storedAt[t] = 0 /\ (t \in left \/ last[t] \in {"error", "lastError"})

\* Every question that was accepted comes to an end.
EveryTurnEnds == \A t \in Turn : pc[t] = "loaded" ~> pc[t] \in {"closed", "refusedRequest"}
=============================================================================
