# A TLA+ model of KnowledgeOS

KnowledgeOS answers questions about an organisation's documents. This directory models the parts of it whose
correctness depends on order, concurrency or failure, and its pure algorithms; model-checks them with TLC; and proves
the most important results with TLAPS for every number of workers, jobs, requests, questions and tokens. Paths are
relative to `backend/app/` unless they begin with `docs/`, `backend/` or `frontend/`.

## 1. The system

| Component | State it keeps | Operations | What makes it hard |
|---|---|---|---|
| Ingestion queue (`services/queue.py`) | Redis: a pending list, a processing list, a hash of claim times | `enqueue`, `claim`, `acknowledge`, `requeue`, `reap_orphans` | commands that are not one transaction; entries are equal strings; any process may die between two commands |
| Worker loop (`worker.py`) | the job in hand, the session it loaded it with | reap, claim, poison-pill guard, process, retry, shutdown | a job that kills its worker; the durable attempt count; several workers |
| Document intake (`services/document_service.py`, `api/v1/documents.py`) | `documents`, `ingestion_jobs`, blobs | upload, reprocess, delete | the queue is told before the database commits |
| Ingestion pipeline (`services/ingestion_pipeline.py`) | document and job status, chunk rows | `process_document`, `delete_document` | three transactions on two stores, interleaved with deletes and other runs |
| Vector stores (`providers/vector/`) | points in Qdrant, or a column of `chunks` | upsert, search, delete by document | writes at once, outside the caller's transaction |
| Sessions (`services/token_service.py`, `api/v1/auth.py`, `api/deps.py`) | `refresh_tokens`, the cookie, a Redis denylist | register, login, refresh, logout | rotation without a lock; lost answers look like theft |
| Rate limiter (`core/rate_limit.py`) | a Redis sorted set per action and identity | `check_rate_limit` | clock read outside the transaction; retried transactions |
| Chat turn (`services/chat_service.py`, `api/v1/chat.py`, `frontend/src/lib/stream.ts`) | conversations, messages, citations | ask, stream, persist | disconnects, provider errors and deletes in mid-stream |
| Retrieval (`services/retrieval_service.py`, `fusion.py`, `citation_service.py`, `prompt_builder.py`) | none | dense and sparse search, fusion, diversification, budget, citations | vectors that are ahead of or behind the database |
| Parsers and chunking (`providers/parsers/`, `services/chunking.py`) | none | detect, parse, split, pack, absorb | order, sizes and overlap at their boundaries |
| Evaluation (`backend/evals/harness.py`) | the report of a benchmark | run a golden set in three ablations | divisions by zero, questions counted twice or not at all |
| Ask page (`frontend/src/app/console/page.tsx`) | thread, turns, phase, timers, streams | ask, stop, open and start threads | callbacks of streams, timers and loads that are no longer wanted |
| Accounts, workspaces, roles (`services/auth_service.py`, `api/v1/workspaces.py`) | users, organisations, memberships | register, create and delete a workspace | check, then insert |
| Browser session (`frontend/src/lib/api.ts`, `components/Session.tsx`) | access token, the refresh in flight | request, refresh, sign out | tabs, time-outs, the retry after a 401 |
| Usage, analytics, embeddings, LLM clients, object storage, configuration, the other pages | rows written once, or none | aggregation, calls to services, rendering | little that interleaves |

How they interact: a request handler writes rows and pushes a queue entry; a worker takes the entry, works through
Postgres and the vector store, and acknowledges; the reaper of any worker returns what a dead one left behind. Chat
reads what ingestion wrote. Every request passes the limiter and carries a token of a session. Nothing else is shared.

What makes each correct:

- queue and worker: no job is lost, none is retried for ever, none is worked on with no trace of it in Redis;
- pipeline: READY means searchable, nothing is there twice, nothing is in progress for ever, deleted is gone;
- sessions: one good token, none after a logout, no false alarm, nothing revived;
- browser: calls refused together share one refresh, every wait for it ends, a sign-out lasts;
- limiter: no window over its limit, no call turned away without reason;
- chat: each question has one answer or an error, and what is shown is what is stored;
- retrieval: an answer cites only sources that exist and were shown; fused lists are complete and without repeats;
- parsing and chunking: nothing of what the parsers read is lost or misplaced, nothing unread but what section 4 names,
  sizes are bounded;
- evaluation: every question is accounted for, and the metrics agree with one another;
- accounts: one account per e-mail, one slug per organisation, and no failure but in a race that was lost;
- ask page: it shows the thread that is selected, and becomes ready again.

## 2. Modules

| Module | Models | State and actions |
|---|---|---|
| `IngestQueue` | queue and worker loop | Redis's three structures, the rows' visibility, each worker's place; one action per Redis command or commit |
| `JobDelivery` | what the queue promises: at-least-once delivery | `owed`, `settled`; Accept, Settle, Redeliver |
| `Ingestion` | requests, pipeline and vector stores, on `IngestQueue` | adds committed document state, row locks and the vector store; every action is one of `IngestQueue`'s or leaves its variables alone |
| `TokenFamilies` | refresh tokens behind login, refresh and logout of one browser | committed rows, the cookie jar, requests in flight |
| `BrowserSession` | the browser's tabs and calls, on `TokenFamilies` | each tab's access token, shared refresh and sign-in under way, how many of its calls are where |
| `RateLimiter` | `check_rate_limit` for one key | the sorted set, its expiry, the calls in flight |
| `ChatTurn` | questions of one conversation: request, retrieval, stream, storing | rows and vectors, the conversation, each turn's place, events, transaction dates and outcome |
| `AnswerStream` | what a stream of events promises its reader | `last` event, `closed`; used by `ChatTurn` (which implements it) and `AskPage` (which relies on it) |
| `AskPage` | the console's page and its stream reader | the page's React state, timers, streams; one action per callback |
| `Accounts` | registering, creating and deleting workspaces | each request's place in its transaction, what is committed, and what was when it made its check |
| `Parsing`, `Chunking` | file to pages, pages to chunks | functions |
| `Fusion`, `Grounding`, `Evaluation` | rank fusion and diversity; query, prompt and citations; the benchmark | functions |
| `Keeping` | a list comprehension with a condition, for the parsers and the re-fetch | functions |
| `Scripted` | the offline responder and the groundedness score, on `Grounding` | functions |
| `Passages` | composes those seven | a task is an input, its step computes the result |
| `MC...` | values for TLC | model values, symmetry, `OneDocument` |
| `..._proofs` | theorems | see section 5 |

### IngestQueue

An entry is the encoded job, so two deliveries of one attempt are the same string: `Raw` is a record of job and
attempt, `processing` counts equal entries, and `LREM` may remove another worker's copy. `claim` is two actions
(`Pop`, `Beat`), `requeue` two (`AckAndBackOff`, `PushRetry`), a reaper's pass one per command. `Enqueue` happens
before `CloseRequest` commits the row, as `document_service` pushes before the handler commits. `attempts` is the
durable count; `loaded` is what the session read, which `process_document` increments. Deaths and failing calls are
charged to `MaxFaults`, except that a job may kill its worker any number of times. Time is what the reaper sees of it:
a heartbeat is absent, fresh or expired. `Expire` needs the fault `slow_job` while a live worker is at work.

The Redis client is configured with `retry_on_timeout`: a command that was executed and whose reply is lost is executed
again. `ResendEnqueue` and `Resend` are these second executions, of the push of a request and of each command of a
worker that is not idempotent; they are charged to the fault `resent`. `Ingestion` leaves them out.

Left out: an entry that cannot be decoded (nothing writes one), `depth()`, and the collection check at start.

### Ingestion

`status`, `chunks`, `vectors` and `jobStatus` are what is committed; a version of a document's chunks is a number, so
that vectors of an older version can be told from the current one's. A transaction that has deleted chunk rows holds
locks (`rowLocks`), an open request that has updated a document too (`dirty`): others wait, as under READ COMMITTED.
On Qdrant an upsert always lands; on pgvector it reaches only rows that are there, and vectors die with their rows.
Parsing, chunking and embedding are a step that succeeds or raises.

### TokenFamilies

`Lookup` is the SELECT of `rotate`, which takes no lock; `Rotate` inserts the successor and updates the presented row,
`CommitRotation` publishes both. `BeginRevoke` fixes the rows an UPDATE sees, `CommitRevoke` waits for their locks. The
request that fails answers through the exception handler, so its `Set-Cookie` is not sent and the jar keeps the spent
token (`"keep"`). A browser sends what its jar holds; a token copied from it is outside the model, as are rows the
database has purged (nothing purges them). One user only: no operation that is called relates two users' tokens.

### BrowserSession

A tab runs one task at a time; `refreshInFlight` is `shared`: none, pending, or settled until the timer of the next
tick clears it. A call is refused, waits for the promise and is sent once more (`GoesOn`), a resume waits before its
first request, a stream is opened after the refresh with whatever token there is and is never sent again. A refresh is
a request of `TokenFamilies`, `awaited` until it is answered, lost or given up by its timer; the server goes on with a
request that nobody awaits, and the cookie of its answer no longer counts. Calls of a tab in the same place are alike, so
they are counted (`Move`), and all who await the promise go on in one step (`Woken`), since they await the same one. An
access token lives 30 minutes and may have expired at any call, so `Answer` lets a call in and `HandleRefusal` refuses it.
A sign-out drops the access token whether it is
answered or not. Reloading a page forgets the module's memory and gives up what is in flight. `left` and `out` are
history: sessions a tab signed out of or gave up a request of, and tabs that signed out with nothing else in flight.

Left out: a sign-in that is refused with 401 starts a refresh like any call; the page state of `Session.tsx` follows
the results of these calls.

### RateLimiter

`ReadClock` and `Check` are separate, as `now_ms` is read before `MULTI`; the transaction is one action. `CheckUnheard`
is a transaction executed whose reply is lost: the client is configured with `retry_on_timeout` and sends it again with
the same member. `FailOpen` is the `except` branch. `Tick` drops the key when it expires.

### ChatTurn and AnswerStream

A request is two transactions on two sessions: `Ask` and `StoreQuestion` store the question before the response
begins; `OpenStream` begins the one that lasts as long as the stream and is committed by `Persist`, after the last
event. `clock` counts the beginnings of these transactions, as `created_at` is Postgres's `now()`. The two searches are
separate steps, since deletions and publications come between them. `DenseSearch` may fail into an empty result or
return `Foreign` chunks; a failed `SparseSearch` leaves the transaction `aborted`, and `LoseDatabase` the same of a
connection that breaks before the turn is stored, which is all that the `except` of `chat.py:281` can be given. A request
may be refused by the rate limit or the database (`Ask`, `StoreQuestion`), and a stream may find no session (`OpenStream`). A
provider reports its tokens or never does, whether it ends or breaks off (`Reports`). `Decide` is the re-fetch by rows of
the workspace, the gate and the start of the prompt. `IndexLate` is what `Ingestion` shows can happen: a run indexes
vectors of a document that has gone. `Leave` is a client that disconnects; `Emit` looks for it between two events.
A chunk stands for a document of one chunk, tokens for their text.

Left out: creating, listing and reading conversations, titles, and the budget of tokens per answer.

### AskPage

Each action is one callback of the browser: a click, a timer (`Retrieving`, `Generating`), an answer of the API
(`Created`, `Loaded` and their failures), an event (`Receive`, by what `AnswerStream` allows next), the end or failure
of a stream. The conversation of a question has the question's name. `late` and `crossed` are history: the phase was
set by a timer whose stream was over; the user went on while a load or creation was under way.

### Accounts

A registration is one transaction of several flushes: `CheckEmail` reads what is committed; `InsertUser` and
`InsertOrganization` are inserts on a unique index, which wait for an uncommitted row with the same key and fail when
it is committed; `Abort` is a process or connection that dies. Normalising an address is the function `Canon`;
numbered slugs are sequences, so that a name may look like a numbered one. A slug with a random suffix is
`Append(base, r)`, which nobody else can draw. `seen` is history: what was committed when a request made its check, which
tells a failure in a race from one that the check should have prevented.

### Keeping, Parsing, Chunking, Fusion, Grounding, Scripted, Evaluation, Passages

Pure functions, written from the code with folds, and beside them definitions of what their result has to be, which
`Passages` compares over every bounded input. A file is a sequence of lines with a kind and the lengths of their
sentences, and may be too damaged, or too well protected, to be opened; a chunk is a sequence of pieces with their places,
so that order and loss can be told. `Unread` says which lines a parser leaves out: those on a PDF page whose extraction
raises, the tables of a deck, the chrome of a web page. A corpus says which chunks the re-fetch resolves (`Resolved`); a
marker has white space around its commas only, as `_MARKER` has. A score 1/(k + rank)
is an integer over a common denominator, and sorting by it puts each chunk at the place (`Place`) that the number of
those ahead of it gives: a stable sort leaves no choice. A metric of the benchmark is a pair of integers, a percentile
the value that enough others do not exceed, and a gate that was not measured the empty set. The offline responder ranks
sentences by overlap over the root of their length: its scores are compared squared.

## 3. Runs

| Run | Setting | What it shows |
|---|---|---|
| `queue_single` | 1 worker, 2 jobs (one requeued), 3 attempts, 1 fault and any number of killed runs | no loss, bounded attempts, the three properties of a single worker, and the liveness property `EveryJobSettles` |
| `queue_fleet` | 2 workers, 1 job, 2 attempts, slow jobs, a crash or a Redis command executed twice | bounded attempts, and refinement of `JobDelivery` (hence no loss) while reapers race |
| `queue_lost` (violation) | 1 worker dies in the backoff | the job is in no list |
| `ingestion` | 1 worker, 1 document, an upload and a reprocess, deletes that may be torn, both stores, 1 fault | READY is searchable, no doubled corpus, no stranded document |
| `ingestion_fleet` (violation) | 2 workers on one document, no fault | READY without vectors |
| `browser` | 1 tab with 2 calls, 2 requests at a time, 2 tokens, lost and late answers, dying requests, reloads | the four properties of sessions; calls raise no alarm, a sign-out holds, every wait for a refresh ends |
| `tokens_race` (violation) | 2 requests at a time, 3 tokens, nothing lost | a logout that leaves a live token |
| `rate_limit` | 4 calls, limit 2, window 3, delays up to 2, lost replies | no orderly window over its limit; no call turned away without reason |
| `chat` | 2 questions, a chunk of the workspace and a foreign one; deletions, failures, disconnects | the stream keeps `AnswerStream`, sources are READY rows, an answer or its cost is lost only for the reasons stated, answers are dated in order, every turn ends |
| `passages` | bounded inputs of the functional modules | text is kept, sizes, fusion, selection, citations and quotations, prompt, metrics |
| `ask_page` | 2 questions, 2 stored threads, streams that break off | the page shows what is selected, becomes ready, and no turn spins without a stream |
| `accounts` | 3 registrations, 2 creations in one organisation, 1 numbered slug | unique addresses and slugs, nobody fails but in a race, nobody waits for ever |

Why the bounds are enough. One job and one worker reach every path of the loop; a second job makes entries of
different strings share the lists, and a second worker makes each command race with every other. Two attempts reach a
retry, giving up and the guard; three reach a retry that is retried. One charged fault puts one death at each place;
killed runs are not charged. `MaxBacklog` bounds how often racing reapers multiply an entry: beyond it the reaper waits, and the
entries it would add are copies of ones already there. `MaxVersion` is the number of versions that can be referred to
at one time (committed, in the store, and in each run), so no run waits for a number. Two tokens are a login
and a rotation, or two sessions; two requests are enough for each race between two, and two calls for one that is
refused while the other refreshes, settles or is sent again: the calls of a tab differ in their places only, so two let
each place be held while another is entered. Four calls are a full window, a fresher call that
prunes it and a staler one. The refresh token that `Fresh` takes and the version that `StoreChunks` takes are the
least free ones: which number it is means nothing.

Two questions are what an answer can be out of order with, and the chunk they share is near to one and not to the
other, so both outcomes of the gate occur; the foreign chunk is near to both. Three registrations are one that has
committed, one that holds its rows and one that waits; two spellings of one address, another address, and the names
`acme` and `acme 1` make the keys collide in both ways. The two creations want the slug of the first workspace. Two
turns and two stored threads are what one callback needs to arrive in the place of another. In `passages`, a target of
20 characters with an overlap of 5 and fragments below 6 stands to sentences of 1, 8, 19 and 27 characters as the
defaults stand to real ones: below a fragment, two to a chunk, nearly a chunk, and cut. Up to four lines of a file,
rankings of up to four chunks of one document or several, three more beside them, answers of up to three phrases, four
words, four sources and five stored turns make each branch of the functions taken, and each bound of theirs
(`MaxPerDocument`, `MaxTerms`, `MaxTurns`, `MaxQuotes`, `MaxClosest`) exceeded: a ranking of four may have three chunks of
one document and one of another, with two places, so that the cap decides what is selected and what is left. A golden question that
finds seven chunks has other first five than first ten. The question of a prompt may be stored twice, last, or
before another's turn. A sentence shares one word of two or of four with a
question, cites, is too short, or holds a quotation mark (`QUOTE`).
`RrfK` is the code's 60.

`rate_limit`, `chat`, `passages`, `ask_page` and `accounts` do not check for deadlock: their systems stop
when the tokens, calls, questions, inputs, turns or registrations of the bound are used up. The others check it.

### Fairness

`EveryJobSettles` is checked under `FairSpec`: a worker that is up executes its loop and comes to reap
(`consume_forever` blocks at most for the pop's time-out), it is restarted when it dies (`restart: unless-stopped` in
`docker-compose.yml`), a request ends, and time passes. Nothing is assumed of clients, of runs that fail or kill, or of
faults. `EveryTurnEnds` assumes weak fairness of `Serve` for each turn: the server goes on with what it can do, the
provider ends or times out (`llm_request_timeout_seconds` in `core/config.py`); a client may leave or stay. `RegistrationsEnd` assumes
it of the steps of each registration: a request is served to its end, unless it dies; it shows that transactions that
wait for one another's rows do not wait in a circle. `EveryWaitEnds` assumes of a tab that the timer of a refresh under
way goes off, or that its fetch fails when it was never sent (`AbortSignal.timeout` in `frontend/src/lib/api.ts:63`), and
nothing else: no server need answer. Without the time-out it is violated. The other runs check safety only.

## 4. Disagreements between code and documentation

- **`requeue` loses a job when its worker dies in the backoff** (`queue_lost`). It acknowledges, sleeps up to 30
  seconds and then pushes, while the module says that no job is lost to a crash.
- **READY without vectors** (`ingestion_fleet`). Two workers on one document, one finishing after the other has wiped.
- **Logout leaves a live token** (`tokens_race`). `revoke_family` does not see a successor that is not committed yet.

Met on the way, stated as exemptions of properties or in the models, without a run of their own:

- Between `BRPOPLPUSH` and `HSET` an entry has no heartbeat, and a reaper returns a live worker's job (`services/queue.py:80`).
- An entry whose row never appears, since its requeueing request died after the push, is retried for ever: the
  poison-pill guard counts on the row.
- Calls that come to Redis in another order than they read the clock may let one too many through the limiter's window;
  `OrderlyWindow` is about the others.
- `frontend/src/lib/api.ts:9` has concurrent refusals share one refresh. Two tabs share the cookie and not the promise:
  their refreshes overlap and trip reuse detection (`CallsRaiseNoAlarm` is about one tab).
- `ensureFreshToken` (`api.ts:245`) refreshes when there is no token, not when the one there is has expired: the stream
  then fails, though its comment speaks of a fresh token.
- A refresh that was under way when somebody signed in or out is answered later and overwrites the access token
  (`SignOutHolds` is about sign-outs that nothing overlaps).
- `services/chunking.py:151` says that no input can produce an oversized chunk, and
  `backend/tests/unit/test_chunking.py:28` that the ceiling is target and overlap. A merged fragment may exceed both;
  `Ceiling` in `Chunking` is what holds.
- `services/auth_service.py:101` catches the error of a lost race for an e-mail address at the last flush, to answer it as
  a conflict. It occurs at the first one (line 78), outside the `try`, and is answered as an internal error: `InsertUser`
  ends in "failed", not in "conflict". So does a creation of a workspace that loses its race, which nothing catches.
  `FailsOnlyInARace` says that both take a race.
- A PDF page whose extraction raises is logged and left empty, and the file is accepted (`providers/parsers/formats.py:62`);
  of a slide only shapes with a text frame are read, so that its tables are lost (line 133). `TextKept` says that no other
  text is lost of what the model's files have. Those have no text boxes, headers or footnotes of a DOCX and no groups of
  shapes, which the parsers read no more than the tables of a deck.
- `services/chunking.py:25` and `:97` say that fragments are dropped. None is: a page of more than one window is wider than
  a fragment, so that one with no room before it is carried to what follows (`AbsorbKeeps`).
- `services/chat_service.py:157` takes the question off the history when it is the last turn of it. Another question of the
  conversation may be stored between the commit of this one and the reading of the history; the question is then in the
  prompt twice, in its place and at the end (`AskedLast`).
- A marker with white space inside its brackets, `[ 3 ]`, is no marker to `services/citation_service.py:26`: it is neither
  resolved nor removed, and stands in the answer (`MarkerSpans`).
- `db/models/conversation.py:122` keeps citations when a document is deleted. One that is cited by an answer still
  being streamed takes the answer with it (`LostAnswerExplained`).
- `services/usage_recorder.py:3` has every provider call write a row; a call that breaks off, or whose answer cannot be
  stored, writes none (`SpendExplained`, which is about calls that reported tokens).
- The page is busy again when one of its timers runs out after the end of its stream, and shows a thread loaded late
  under another one's selection (`ReadyWhenQuiet`, `ShownIsSelected`).
- The tables of a DOCX come after its last paragraph and under its last heading (`WellPlaced` asks less of them), and
  binary content is accepted under a text extension, though the comment at `providers/parsers/formats.py:265` reads
  otherwise (`TypeFits` allows it).
- The offline responder says that it quotes "verbatim" and "in document order" (`providers/llm/scripted_provider.py:213`
  and `222`). It quotes what `build_chat_prompt` has escaped, so a quotation mark of a source is shown as `&quot;`, and
  orders by source only: sentences of one source stay in the order of their scores (`AnswerQuotes` asks no more).
- `backend/evals/harness.py:219` leaves refusals unmeasured in the sparse run; its JSON output (line 487) nevertheless
  has a refusal accuracy of 0 and a false refusal rate of 1 for it. `Reported` is the report's column, which says "n/a".

## 5. What is proved

All proofs hold for every value of the constants that satisfies the named assumptions (`QueueAssumption`,
`IngestionAssumption`, `LimiterAssumption`, `TokenAssumption`, `BrowserAssumption`, `ChatAssumption`, `AccountsAssumption`, `PageAssumption`,
and for the functions `PassagesAssumption` and those of the modules it extends), that is for any
number of workers, jobs, documents, requests, tokens, tabs, calls, questions, chunks, threads and registrations, and for
files, rankings and prompts of any length. Those on
the queue include Redis commands executed twice, except where `OneWorker` says otherwise. The assumptions give the
constants their types. Four say more:

- `IngestionAssumption`: two uploads are not of one document, because an upload makes its document
  (`services/document_service.py:104`);
- `FusionAssumption` with `PassagesAssumption`: a ranking names a chunk once and is no longer than `MaxRank`, which is
  at most `RrfK + 1`; `retrieval_candidates` is 40 (`core/config.py:143`) and `RRF_K` 60. For longer lists
  AgreementIsAlwaysFirst is not true: one list's first beats what both have at the end;
- `PassagesAssumption`: whether a word matters depends on the word alone; of a file, the lines of a PDF or a deck are on
  pages or slides, so the first one opens such a page, extraction fails in a PDF alone, and navigation and scripts
  (`"chrome"`) occur in HTML alone, whose parser drops them. Of stored turns and the question nothing is assumed;
- `ChunkingAssumption`: the overlap is smaller than the window, on which `chunk_document` insists, and two fragments with
  a blank line fit one, which 1200 and 60 are far from breaking and ChunksAreAlwaysWellSized needs.

- `IngestQueue_proofs`: **TypeCorrect**. `TypeOK` is not inductive alone: a step that uses the entry in hand needs that
  there is one, so the invariant is `TypeInv = TypeOK /\ HandsFull`, where `HandsFull` says which places have one and
  that a worker backs off only for an attempt that remains. **AttemptsAreBounded**, with no assumption on faults: the
  count of a job may exceed `MAX_ATTEMPTS` because a worker whose guard found no row increments what it then reads.
  `CountInv` bounds the count *plus* the number of workers in that position (`Unseen`) by
  `MaxAttempts + Cardinality(Worker) - 1`.
- `IngestQueue_proofs`, on delivery: **NoJobIsLost** and **QueueDelivers**, under `NoBackoffCrash` (no death, and no failing
  push, in the backoff; without it `queue_lost` is the counterexample). A job is carried by three places: the pending list,
  the processing list and a backing-off worker. Lemmas say what each Redis command does to the set of carried jobs;
  each action then is quiet, carries one job more, or lets one go that is settled at that step, by a worker that is
  `Through` with it (`Moves`). `DeliveryInv` adds to `NoJobLost` that only jobs which were enqueued are in any list, hand
  or scan, which a step of `JobDelivery` needs.
- `IngestQueue_proofs`, on a single worker: **NoJobIsDoubled**, **NoHeartbeatIsLeft** and **WorkIsFound**, under `OneWorker` (one worker, no
  Redis command executed twice). `Sole` adds to `OneEntryPerJob` and `HeartbeatHasEntry` what keeps them: `Born`, no
  entry before its row, so the first push is the job's only entry; `ScanListed`, the reaper's list has nothing that
  left the processing list, so a reclaim moves an entry and does not make one; `HandListed`, the entry at work is its
  job's only one, and is missing only when an acknowledge was executed and its reply lost.
- `Ingestion_proofs`: **IngestionRefinesQueue**, every step of the pipeline is a step of the queue or leaves it alone,
  hence **IngestionDelivers**: the theorems above hold of the pipeline too.
- `Ingestion_proofs`, on the corpus: **DataTypesCorrect**; `RunsInside` is its addition to the types, that a worker is
  inside a run exactly where its place says so, and has a version once it has stored. **ReadyStaysSearchable** and
  **CorpusIsNotDoubled** hold for any number of workers, documents, jobs and faults as long as `RunsApart`: no two
  workers process one document at a time. That is what `ingestion_fleet` lacks, and **OneWorkerIsSound** that a single
  worker, the deployment of `docker-compose.yml`, has it. The invariant `CorpusInv` describes the unfinished run: `RunSound`,
  the document is not READY, its vectors are gone once wiped, what was stored is what is there, and what was indexed too
  unless a delete has begun; `ReadySound`, what READY means for chunks and vectors, on both backends; `RowsMatch`,
  a visible job row is of a document that is there, an open one of an upload is not yet.
- `Ingestion_proofs`, on progress: **NoDocumentIsStranded**, for any number of documents and jobs, under `Tolerated`: one
  worker, no command executed twice, no death in the backoff, and of the pipeline's own faults only the torn delete.
  Each exclusion is a way to strand a document that the code really has: the lost job of `queue_lost`, an upload that
  outlasts all the retries of its job, and a database that fails the worker outside its run. The proof stands on
  DeliveryInv, Sole and the corpus. `OwedInv`: a request that has yet to commit its PENDING finds no worker done with its
  job, because an upload is not there to be processed and a requeue's row lock holds up every outcome. `LastChance`: when
  a worker is through with a job, its document needs no more, or another job of it is carried. `Attends` then
  says of each step that a document comes to need work only with a job under way.
- `RateLimiter_proofs`: **WindowIsKept** and **RejectionsAreDue**, for any number of calls and any limit, window and delay,
  transactions sent twice or lost included. `WindowInv` says what became of a call once Redis has counted it: it is in
  the set, or was pruned by a call a window fresher, or the key expired after it was out of every window (`Kept`,
  `Outlives`). So the count an admitted call is given is at least that of the calls in its window that came in order.
- `Sessions_proofs`, on tokens: **TokenTypes**; **SessionsStayDead**, with no exemption; **ClosedSessionsAreDead** and
  **OneTokenIsLive**, for sessions whose requests do not overlap. `TokenInv` says that what is presented, in the jar or
  named as a family has been issued, and that a successor not yet committed is nobody else's. `SoloInv` says of an
  unraced session that one request is in flight, that the one good token is the one an admitted rotation will spend,
  and that a revocation aims at all of it. A closed family is `Dead`, and the step lemma of SessionsStayDead keeps it so.
  **NoAlarmIsFalse**: `GoodInv` says that in a session with nothing raced and nothing lost, what is presented, answered or
  in the jar is a good token, and that only a logout has revoked one.
- `Sessions_proofs`, on the browser: **BrowserKeepsTokens**, every step of a tab, call or the server is a step of
  `TokenFamilies` or leaves it alone, so that the four theorems hold of the browser. **BrowserTypes** adds to the types
  `Held`, which says that what a tab awaits is its own request. **SignOutsHold** holds for any number of tabs and calls: after a sign-out with nothing else under way, no step but a sign-in brings a cookie or a token.
  **CallsAreSafe**, under `OneTab`: `InFlightAccounted`, a request in flight is the tab's refresh or sign-in or belongs
  to a session it left, and `WaitsWhilePending`, a refresh is awaited only while it is pending, make two requests of one
  session overlap only in a session that was left; the rest is NoAlarmIsFalse.
- `ChatTurn_proofs`: **LostAnswersExplained**, **SpendIsExplained** (of calls that reported tokens), **TranscriptsInOrder** and **AnswersAreGrounded**.
  The invariant `IInv` adds to the types four parts: `Untouched`, a turn before its stream has sent, cited, been
  billed and stored nothing; `Dated`, the question's transaction began before the stream's, and both before `clock`;
  `HeardBefore`, a turn whose "done" was heard began its stream before the question of the one that heard it, which is
  why an answer stored late is dated early; `CitesSources`. AnswersAreGrounded is an action property, proved from the
  last of these. **StreamsKeepContract** is the refinement of `AnswerStream`: `Speaks` says what each place has sent
  last, and each step then sends an event that may follow, closes the stream with or without one, or stutters.
- `AskPage_proofs`: **PageShowsSelected**, **PageBecomesReady** and **SpinnersAreHonest**. `Waiting`: while nothing has
  crossed, one load or one creation is under way, for the thread that is selected, which is why its answer belongs on
  the page. `Awake`: a busy page has a timer running or a stream that is not over, whose end will clear it. `Spinning`:
  the stream Stop aborts is that of the last turn, whose spinner it takes away; a stream that has sent its last event
  spins no more.
- `Accounts_proofs`: **AccountsStayApart** and **FailuresTakeARace**. Uniqueness among committed rows is not inductive,
  since a transaction that has inserted may commit at any time: `Claims` states it of the committed and the holding
  transactions together, which is what the wait in an insert keeps. `LiveOwned`, `LiveApart`, `LiveCreated` and
  `CheckedOwned` say the same of workspaces. `RegistrationsSeen` and `CreationsSeen`, no key a request saw at its check is
  its own and a workspace in its way is younger than the check, make the row that fails an insert one that was
  committed after the check: `RegistrationsRace` and `CreationsRace`.
- `Passages_proofs`, on the functions between a file and a cited answer, for inputs of every length. Induction is stated for
  a set of numbers in place of an operator (`NatSet`, `UpTo`), and every loop of the code, a fold in the model, comes with
  a lemma `...Steps` that there is a run of it: a function from how often the body was executed to what the loop
  then holds. Each theorem is an invariant of such runs.
  - **AgreementIsAlwaysFirst**: `Merged` has every chunk of both lists once, `Precedes` orders it strictly, so that
    `Place` is a bijection to the places of the result; a chunk of both lists scores at least two last places, which is
    more than one first place as long as `MaxRank <= RrfK + 1`.
  - **SelectionIsAlwaysDiverse**: `GreedyInv` says of the first pass that what it passed over repeats a near-duplicate or
    exceeds the cap; `RefillInv` of the second that it takes from what was passed over, in order, and stops only at the
    limit. What is taken against the rules is then taken when all else is.
  - **PromptIsAlwaysFaithful**: `TakenInv`, the sources are the first ones with their costs added up, and once the budget
    has been exceeded nothing more is taken; the terms of the lexical query come in the order of their first occurrence;
    the rows read are the last ones stored (`SaidSplits`) and dropping looks at the last turn alone (`DropCat`), so what
    is taken ends what was said, whatever another request has stored after the question.
  - **MetricsAlwaysAgree**: `RunInv` counts what the loop over the questions records; the percentiles are ordered because what
    at least half of the questions do not exceed is at most what 95 percent do not.
  - **ChunksAreAlwaysWellSized**: `PackInv`, a window being filled measures no more than the length that is counted for it,
    which is at most the target; `Separate`, merging back leaves no two fragments side by side, as the two always fit one
    window; `ForwardInv`, so the pass forward carries one fragment at most and what it has fixed is none; hence a fragment
    is left only where it is all that the page has. `Numbered`: sections give pages with different numbers, so two chunks
    of one page number are of one page.
  - **TextIsAlwaysKept**, from both ends. Chunking: `FillInv`, the windows put side by side are the pieces so far, and a
    window is finished only for a text wider than the target; a carried tail is nobody's own (`OverlapOwnsNothing`);
    merging, back and forward, keeps that text (`AbsorbKeeps`), where the branch of `_absorb_fragments` that would let a
    fragment go is excluded, as the text of a page with two windows is wider than the target and so is no fragment;
    `ChunksOfOnePage` finds the chunks of a page again by its number. Parsing: `Filed`, each line read so far is in
    exactly one section, at the number of lines that have opened one; `PagesCover`, a section with text is a page with
    this number, and one without leaves its number unused; `WellRead`, reading order is file order except that the
    tables of a DOCX come last, so a paragraph's section is that of the last opening line above it in the file;
    what no parser reads, a failing page, a deck's table, chrome, opens no section (`OpenersAreRead`) and is `Lost`.

Only model-checked:

- `EveryJobSettles`, `EveryTurnEnds`, `RegistrationsEnd` and `EveryWaitEnds`: liveness and `ENABLED` are out of the proof system's reach;
- `CitationsResolve`, of `Passages`: it re-reads the answer it has written, marker by marker, and sorts with `SortSeq`,
  which is an arbitrary permutation with a property. The library's induction theorems have an operator for a parameter, which
  none of the installed provers can instantiate; the induction stated for sets that `Passages_proofs` uses would serve
  here too, with an invariant for every loop between a text and its citations.

## 6. Plan

What is left, in this order:

1. `CitationsResolve` as a theorem, from the fold over an answer's pieces.
2. Deleting a workspace, whose vectors go before its rows, on `Ingestion` with two documents.
3. The repeated commands of `IngestQueue` in `Ingestion`.

## 7. Not modelled

- Embedding, hosted LLM and storage clients are calls to services that fail or succeed: a step of `Ingestion` or `ChatTurn`.
- The aggregating queries of analytics, the console's other pages and components read what others write.
- The URL fetcher checks addresses before a fetch and keeps no state.
- Configuration, logging, the schema and start-up run once, before anything that is modelled.
- The browser's page state in `Session.tsx`, and the refresh that a sign-in refused with 401 starts.
- Roles are an order compared in one place; profile changes, password checks and listings touch one row or none.
- Of the benchmark, nDCG, a sum of logarithms, the means of its metrics, and the layout of its report.
- Quarantined documents: no endpoint sets that status.
- `denylist_access_token` and `revoke_all_for_user` have no caller, and `reset_rate_limit` none but the tests.
- Redis commands executed twice are in `IngestQueue` and `RateLimiter`, not in `Ingestion`; the run of a single worker
  has none, and with one `OneEntryPerJob` would not hold: a push repeated doubles an entry, which at-least-once delivery
  allows.
