-------------------------- MODULE ChatTurn_proofs --------------------------
(***************************************************************************)
(* What holds of the questions of a conversation, for any number of them   *)
(* side by side and of chunks, whatever is deleted, fails or leaves.       *)
(***************************************************************************)
EXTENDS ChatTurn, TLAPS

Early == {"new", "loaded", "stored"}
Streaming == {"retrieving", "streaming", "apologising", "outcome"}
Ended == {"closed", "refusedRequest"}

TypeOK ==
    /\ row \in [Own -> {"indexing", "ready", "gone"}]
    /\ conversation \in {"open", "deleted"} /\ clock \in Nat
    /\ pc \in [Turn -> Early \cup Streaming \cup Ended]
    /\ began \in [Turn -> Nat] /\ askedAt \in [Turn -> Nat] /\ storedAt \in [Turn -> Nat]
    /\ DOMAIN sources = Turn /\ DOMAIN cited = Turn
    /\ DOMAIN last = Turn /\ DOMAIN heard = Turn

\* What has not happened to a question yet.
Untouched ==
    \A t \in Turn :
        /\ pc[t] \in Early \cup {"refusedRequest"} =>
              began[t] = 0 /\ last[t] = "none"
        /\ pc[t] # "closed" => storedAt[t] = 0 /\ t \notin usage
        /\ t \in billed => pc[t] \in {"streaming", "outcome", "closed"}
        /\ pc[t] \notin {"streaming", "outcome", "closed"} => cited[t] = {}

\* A turn that is under way has the dates its answer will be stored with.
Dated ==
    \A t \in Turn :
        /\ began[t] <= clock /\ askedAt[t] <= clock
        /\ began[t] # 0 => askedAt[t] < began[t]
        /\ pc[t] \in Streaming \/ last[t] = "done" => began[t] # 0
        /\ pc[t] \in Streaming \cup {"stored"} /\ conversation = "open" => askedAt[t] # 0
        /\ pc[t] = "new" => askedAt[t] = 0
        /\ pc[t] = "loaded" => askedAt[t] # 0
        /\ storedAt[t] # 0 => askedAt[t] # 0 /\ storedAt[t] = began[t]

\* What had been heard to the end by a question began before it.
HeardBefore ==
    \A t, u \in Turn :
        t \in heard[u] => began[t] # 0 /\ (askedAt[u] # 0 => began[t] < askedAt[u])

CitesSources == \A t \in Turn : cited[t] \subseteq sources[t]

IInv ==
    /\ TypeOK /\ Untouched /\ Dated /\ HeardBefore /\ CitesSources
    /\ LostAnswerExplained /\ SpendExplained

-----------------------------------------------------------------------------
LEMMA InitInv == Init => IInv
  BY DEF Init, IInv, TypeOK, Untouched, Dated, HeardBefore, CitesSources,
         LostAnswerExplained, SpendExplained, Early, Streaming, Ended, Own

LEMMA AskInv ==
  ASSUME IInv, NEW t \in Turn, Ask(t)
  PROVE  IInv'
<1> USE DEF Ask, corpus, retrieval, Goto, IInv, TypeOK
<1>1. TypeOK'
  BY DEF Early, Ended
<1>2. Untouched' /\ CitesSources'
  BY DEF Untouched, CitesSources, Early
<1>3. Dated'
  BY DEF Untouched, Dated, Early, Streaming
<1>4. HeardBefore'
  BY DEF Untouched, Dated, HeardBefore, Early
<1>5. LostAnswerExplained' /\ SpendExplained'
  BY DEF LostAnswerExplained, SpendExplained, Rows, Own
<1> QED
  BY <1>1, <1>2, <1>3, <1>4, <1>5

\* Nothing is under way yet: a refused question leaves nothing.
LEMMA StoreQuestionInv ==
  ASSUME IInv, NEW t \in Turn, StoreQuestion(t)
  PROVE  IInv'
<1> USE DEF StoreQuestion, Goto, retrieval, corpus, stored, IInv, TypeOK
<1>1. TypeOK'
  BY DEF Own, Early, Streaming, Ended
<1>2. Untouched' /\ CitesSources'
  BY DEF Untouched, CitesSources, Early, Streaming
<1>3. Dated' /\ HeardBefore'
  BY DEF Untouched, Dated, HeardBefore, Early, Streaming
<1>4. LostAnswerExplained'
  BY DEF Untouched, Dated, LostAnswerExplained, Streaming, Rows, Own
<1>5. SpendExplained'
  BY DEF Untouched, SpendExplained
<1> QED
  BY <1>1, <1>2, <1>3, <1>4, <1>5

\* The answer is dated after its question, and after all that its question heard.
LEMMA OpenStreamInv ==
  ASSUME IInv, NEW t \in Turn, OpenStream(t)
  PROVE  IInv'
<1> USE DEF OpenStream, Goto, Sends, retrieval, corpus, stored, IInv, TypeOK
<1>1. TypeOK'
  BY DEF Own, Early, Streaming, Ended
<1>2. Untouched' /\ CitesSources'
  BY DEF Untouched, CitesSources, Early, Streaming
<1>3. Dated' /\ HeardBefore'
  BY DEF Untouched, Dated, HeardBefore, Early, Streaming
<1>4. LostAnswerExplained'
  BY DEF Untouched, Dated, LostAnswerExplained, Streaming, Rows, Own
<1>5. SpendExplained'
  BY DEF Untouched, SpendExplained
<1> QED
  BY <1>1, <1>2, <1>3, <1>4, <1>5

\* The searches only find.
LEMMA SearchInv ==
  ASSUME IInv, NEW t \in Turn, DenseSearch(t) \/ SparseSearch(t)
  PROVE  IInv'
<1> USE DEF DenseSearch, SparseSearch, corpus, stored, IInv, TypeOK
<1>1. TypeOK'
  BY DEF Own, Early, Streaming, Ended
<1>2. Untouched' /\ CitesSources'
  BY DEF Untouched, CitesSources, Early, Streaming
<1>3. Dated' /\ HeardBefore'
  BY DEF Untouched, Dated, HeardBefore, Early, Streaming
<1>4. LostAnswerExplained'
  BY DEF Untouched, Dated, LostAnswerExplained, Streaming, Rows, Own
<1>5. SpendExplained'
  BY DEF Untouched, SpendExplained
<1> QED
  BY <1>1, <1>2, <1>3, <1>4, <1>5

\* The sources are chosen while nothing is cited.
LEMMA DecideInv ==
  ASSUME IInv, NEW t \in Turn, Decide(t)
  PROVE  IInv'
<1> USE DEF Decide, Goto, Sends, Resolved, Fused, Rows, corpus, stored, IInv, TypeOK
<1>1. TypeOK'
  BY DEF Own, Early, Streaming, Ended
<1>2. Untouched' /\ CitesSources'
  BY DEF Untouched, CitesSources, Early, Streaming
<1>3. Dated' /\ HeardBefore'
  BY DEF Untouched, Dated, HeardBefore, Early, Streaming
<1>4. LostAnswerExplained'
  BY DEF Untouched, Dated, LostAnswerExplained, Streaming, Rows, Own
<1>5. SpendExplained'
  BY DEF Untouched, SpendExplained
<1> QED
  BY <1>1, <1>2, <1>3, <1>4, <1>5

\* An event moves the stream on, and no date.
LEMMA EventInv ==
  ASSUME IInv, NEW t \in Turn, Token(t) \/ Usage(t) \/ Word(t) \/ Done(t) \/ ProviderFails(t)
  PROVE  IInv'
<1> USE DEF Token, Usage, Word, Done, ProviderFails, Reports, Emit, Sends, Goto,
        retrieval, corpus, stored, IInv, TypeOK
<1>1. TypeOK'
  BY DEF Own, Early, Streaming, Ended
<1>2. Untouched' /\ CitesSources'
  BY DEF Untouched, CitesSources, Early, Streaming
<1>3. Dated' /\ HeardBefore'
  BY DEF Untouched, Dated, HeardBefore, Early, Streaming
<1>4. LostAnswerExplained'
  BY DEF Untouched, Dated, LostAnswerExplained, Streaming, Rows, Own
<1>5. SpendExplained'
  BY DEF Untouched, SpendExplained
<1> QED
  BY <1>1, <1>2, <1>3, <1>4, <1>5

\* The markers are among the sources; the tokens are reported.
LEMMA CitationsInv ==
  ASSUME IInv, NEW t \in Turn, Citations(t)
  PROVE  IInv'
<1> USE DEF Citations, Reports, Emit, Sends, retrieval, corpus, stored, IInv, TypeOK
<1>1. TypeOK'
  BY DEF Own, Early, Streaming, Ended
<1>2. Untouched' /\ CitesSources'
  BY DEF Untouched, CitesSources, Early, Streaming
<1>3. Dated' /\ HeardBefore'
  BY DEF Untouched, Dated, HeardBefore, Early, Streaming
<1>4. LostAnswerExplained'
  BY DEF Untouched, Dated, LostAnswerExplained, Streaming, Rows, Own
<1>5. SpendExplained'
  BY DEF Untouched, SpendExplained
<1> QED
  BY <1>1, <1>2, <1>3, <1>4, <1>5

\* Whoever abandons has left, and nothing was stored.
LEMMA AbandonInv ==
  ASSUME IInv, NEW t \in Turn, Abandon(t)
  PROVE  IInv'
<1> USE DEF Abandon, Goto, retrieval, corpus, stored, IInv, TypeOK
<1>1. TypeOK'
  BY DEF Own, Early, Streaming, Ended
<1>2. Untouched' /\ CitesSources'
  BY DEF Untouched, CitesSources, Early, Streaming
<1>3. Dated' /\ HeardBefore'
  BY DEF Untouched, Dated, HeardBefore, Early, Streaming
<1>4. LostAnswerExplained'
  BY DEF Untouched, Dated, LostAnswerExplained, Streaming, Rows, Own
<1>5. SpendExplained'
  BY DEF Untouched, SpendExplained
<1> QED
  BY <1>1, <1>2, <1>3, <1>4, <1>5

\* Stored with its date and its cost, or lost with both.
LEMMA PersistInv ==
  ASSUME IInv, NEW t \in Turn, Persist(t)
  PROVE  IInv'
<1> USE DEF Persist, CannotStore, RecordsUsage, CreatedAt, Goto, Sends, retrieval, corpus, stored, IInv, TypeOK
<1>1. TypeOK'
  BY DEF Own, Early, Streaming, Ended
<1>2. Untouched' /\ CitesSources'
  BY DEF Untouched, CitesSources, Early, Streaming
<1>3. Dated' /\ HeardBefore'
  <2>1. /\ UNCHANGED <<askedAt, began, clock, conversation, heard>>
        /\ \A u \in Turn : last'[u] = "done" => last[u] = "done"
        /\ \A u \in Turn : pc'[u] \in Streaming \cup {"stored", "new"} => pc'[u] = pc[u]
    BY DEF Streaming
  <2>2. \A u \in Turn : storedAt'[u] # 0 =>
            storedAt[u] # 0 \/ (u = t /\ storedAt'[u] = began[u] /\ conversation = "open")
    OBVIOUS
  <2>3. \A u \in Turn : storedAt[u] # 0 => storedAt'[u] = storedAt[u]
    BY DEF Untouched
  <2>4. pc[t] \in Streaming
    BY DEF Streaming
  <2> QED
    BY <2>1, <2>2, <2>3, <2>4 DEF Dated, HeardBefore
<1>4. LostAnswerExplained'
  BY DEF Untouched, Dated, LostAnswerExplained, Streaming, Rows, Own
<1>5. SpendExplained'
  BY DEF Untouched, SpendExplained
<1> QED
  BY <1>1, <1>2, <1>3, <1>4, <1>5

\* Who has left has left for good, and a connection lost is lost.
LEMMA LeaveInv ==
  ASSUME IInv, NEW t \in Turn, Leave(t) \/ LoseDatabase(t)
  PROVE  IInv'
<1> USE DEF Leave, LoseDatabase, Idle, retrieval, corpus, stored, IInv, TypeOK
<1>1. TypeOK'
  BY DEF Own, Early, Streaming, Ended
<1>2. Untouched' /\ CitesSources'
  BY DEF Untouched, CitesSources, Early, Streaming
<1>3. Dated' /\ HeardBefore'
  BY DEF Untouched, Dated, HeardBefore, Early, Streaming
<1>4. LostAnswerExplained'
  BY DEF Untouched, Dated, LostAnswerExplained, Streaming, Rows, Own
<1>5. SpendExplained'
  BY DEF Untouched, SpendExplained
<1> QED
  BY <1>1, <1>2, <1>3, <1>4, <1>5

\* What is deleted stays deleted.
LEMMA CorpusInv ==
  ASSUME IInv, NEW c \in Own, Publish(c) \/ DeleteVectors(c) \/ DeleteRows(c) \/ IndexLate(c)
  PROVE  IInv'
<1> USE DEF Publish, DeleteVectors, DeleteRows, IndexLate, Idle, retrieval, corpus, stored, IInv, TypeOK
<1>1. TypeOK'
  BY DEF Own, Early, Streaming, Ended
<1>2. Untouched' /\ CitesSources'
  BY DEF Untouched, CitesSources, Early, Streaming
<1>3. Dated' /\ HeardBefore'
  BY DEF Untouched, Dated, HeardBefore, Early, Streaming
<1>4. LostAnswerExplained'
  BY DEF Untouched, Dated, LostAnswerExplained, Streaming, Rows, Own
<1>5. SpendExplained'
  BY DEF Untouched, SpendExplained
<1> QED
  BY <1>1, <1>2, <1>3, <1>4, <1>5

\* The answers go together with their questions.
LEMMA DeleteConversationInv ==
  ASSUME IInv, DeleteConversation
  PROVE  IInv'
<1> USE DEF DeleteConversation, Idle, retrieval, corpus, stored, IInv, TypeOK
<1>1. TypeOK'
  BY DEF Own, Early, Streaming, Ended
<1>2. Untouched' /\ CitesSources'
  BY DEF Untouched, CitesSources, Early, Streaming
<1>3. Dated' /\ HeardBefore'
  BY DEF Untouched, Dated, HeardBefore, Early, Streaming
<1>4. LostAnswerExplained'
  BY DEF Untouched, Dated, LostAnswerExplained, Streaming, Rows, Own
<1>5. SpendExplained'
  BY DEF Untouched, SpendExplained
<1> QED
  BY <1>1, <1>2, <1>3, <1>4, <1>5

-----------------------------------------------------------------------------
LEMMA StepInv == IInv /\ [Next]_vars => IInv'
<1> SUFFICES ASSUME IInv, [Next]_vars
             PROVE  IInv'
  OBVIOUS
<1>1. ASSUME NEW t \in Turn, Ask(t) \/ Serve(t)
      PROVE  IInv'
  BY <1>1, AskInv, StoreQuestionInv, OpenStreamInv, SearchInv, DecideInv, EventInv,
     CitationsInv, AbandonInv, PersistInv DEF Serve
<1>2. CASE Meanwhile
  BY <1>2, LeaveInv, CorpusInv, DeleteConversationInv DEF Meanwhile
<1>3. CASE UNCHANGED vars
  BY <1>3 DEF IInv, TypeOK, Untouched, Dated, HeardBefore, CitesSources,
              LostAnswerExplained, SpendExplained, vars, corpus, retrieval, stored, Rows
<1> QED
  BY <1>1, <1>2, <1>3 DEF Next

THEOREM Inductive == Spec => []IInv
  BY InitInv, StepInv, PTL DEF Spec

\* What the client saw to its end is lost only by a deletion, a client that had
\* left, or a transaction that broke, by the lexical search or the connection.
THEOREM LostAnswersExplained == Spec => []LostAnswerExplained
<1>1. IInv => LostAnswerExplained
  BY DEF IInv
<1> QED
  BY Inductive, <1>1, PTL

\* Of the calls whose provider reported its tokens, one goes unrecorded only when
\* its answer, whole or broken off, is not stored either, with the client gone or
\* told of an error; and nothing is recorded that was not reported.
THEOREM SpendIsExplained == Spec => []SpendExplained
<1>1. IInv => SpendExplained
  BY DEF IInv
<1> QED
  BY Inductive, <1>1, PTL

\* The dates of the messages order the transcript as its reader saw it, although
\* answers are stored after questions that follow them.
THEOREM TranscriptsInOrder == Spec => []TranscriptInOrder
<1>1. IInv => TranscriptInOrder
  BY DEF IInv, TypeOK, Dated, HeardBefore, TranscriptInOrder
<1> QED
  BY Inductive, <1>1, PTL

-----------------------------------------------------------------------------
\* The provider is called with READY rows of the workspace only, one of them near
\* to the question unless the index misled the gate, and nothing else is cited.
THEOREM AnswersAreGrounded == Spec => GroundedAnswers
<1> DEFINE Grounded(t) ==
        /\ pc[t] # "streaming" /\ pc'[t] = "streaming" =>
              /\ sources'[t] # {} /\ sources'[t] \subseteq Rows("ready")
              /\ dense[t] \subseteq Rows("ready") => Rows("ready") \cap Near[t] # {}
        /\ cited'[t] \subseteq sources'[t]
<1>1. IInv /\ IInv' /\ [Next]_vars => [\A t \in Turn : Grounded(t)]_vars
  <2> SUFFICES ASSUME IInv, IInv', Next, NEW t \in Turn
               PROVE  Grounded(t)
    OBVIOUS
  <2>1. cited'[t] \subseteq sources'[t]
    BY DEF IInv, CitesSources
  <2>2. ASSUME pc[t] # "streaming", pc'[t] = "streaming"
        PROVE  Decide(t) /\ sources'[t] \in (SUBSET Resolved(t)) \ {{}} /\ ~Refuses(t)
    <3>1. ASSUME NEW u \in Turn, Ask(u) \/ Serve(u)
          PROVE  u = t /\ Decide(t)
      BY <2>2, <3>1
      DEF IInv, TypeOK, Serve, Ask, StoreQuestion, OpenStream, DenseSearch, SparseSearch,
          Decide, Token, Citations, Usage, Word, Done, ProviderFails, Abandon, Persist,
          Emit, Goto
    <3>2. ~Meanwhile
      BY <2>2 DEF Meanwhile, Leave, LoseDatabase, Publish, DeleteVectors, DeleteRows, IndexLate,
                  DeleteConversation, Idle
    <3>3. Decide(t)
      BY <3>1, <3>2 DEF Next
    <3> QED
      BY <2>2, <3>3 DEF Decide, Goto, IInv, TypeOK
  <2>3. ASSUME pc[t] # "streaming", pc'[t] = "streaming"
        PROVE  sources'[t] # {} /\ sources'[t] \subseteq Rows("ready")
    BY <2>2, <2>3 DEF Resolved
  <2>4. ASSUME pc[t] # "streaming", pc'[t] = "streaming", dense[t] \subseteq Rows("ready")
        PROVE  Rows("ready") \cap Near[t] # {}
    BY <2>2, <2>4 DEF Refuses
  <2> QED
    BY <2>1, <2>3, <2>4
<1> QED
  BY Inductive, <1>1, PTL DEF Spec, GroundedAnswers

-----------------------------------------------------------------------------
\* What each place has sent last.
Speaks ==
    /\ last \in [Turn -> Stream!Event \cup {"none"}]
    /\ \A t \in Turn :
          /\ pc[t] \in Early \cup {"retrieving", "refusedRequest"} => last[t] = "none"
          /\ pc[t] = "streaming" => last[t] \in {"meta", "token", "citations", "usage"}
          /\ pc[t] = "apologising" => last[t] \in {"refusal", "word"}
          /\ pc[t] = "outcome" => last[t] \in {"done", "error"}

Over == {t \in Turn : pc[t] \in Ended}

LEMMA SpeaksStep ==
  ASSUME TypeOK, Speaks, [Next]_vars
  PROVE  Speaks'
<1> USE DEF TypeOK, Speaks, Stream!Event, Early, Streaming, Ended
<1>1. ASSUME NEW t \in Turn, Ask(t) \/ StoreQuestion(t) \/ OpenStream(t)
      PROVE  Speaks'
  BY <1>1 DEF Ask, StoreQuestion, OpenStream, Goto, Sends
<1>2. ASSUME NEW t \in Turn, DenseSearch(t) \/ SparseSearch(t) \/ Abandon(t)
      PROVE  Speaks'
  BY <1>2 DEF DenseSearch, SparseSearch, Abandon, Goto
<1>3. ASSUME NEW t \in Turn, Decide(t)
      PROVE  Speaks'
  BY <1>3 DEF Decide, Goto, Sends
<1>4. ASSUME NEW t \in Turn, Token(t) \/ Citations(t) \/ Usage(t) \/ Word(t)
      PROVE  Speaks'
  BY <1>4 DEF Token, Citations, Usage, Word, Emit, Sends
<1>5. ASSUME NEW t \in Turn, Done(t) \/ ProviderFails(t)
      PROVE  Speaks'
  BY <1>5 DEF Done, ProviderFails, Emit, Sends, Goto
<1>6. ASSUME NEW t \in Turn, Persist(t)
      PROVE  Speaks'
  BY <1>6 DEF Persist, Sends, Goto
<1>7. CASE Meanwhile \/ UNCHANGED vars
  BY <1>7 DEF Meanwhile, Leave, LoseDatabase, Publish, DeleteVectors, DeleteRows, IndexLate,
              DeleteConversation, Idle, vars
<1> QED
  BY <1>1, <1>2, <1>3, <1>4, <1>5, <1>6, <1>7 DEF Next, Serve

\* An event that may follow, with the stream left open or closed by it.
LEMMA SendsOne ==
  ASSUME NEW t \in Turn, t \notin Over, Over' = Over,
         NEW event \in Stream!Follows(last[t]), last' = [last EXCEPT ![t] = event]
  PROVE  Stream!Next
BY DEF Stream!Next, Stream!Send, Over, Ended

LEMMA ClosesOne ==
  ASSUME NEW t \in Turn, t \notin Over, Over' = Over \cup {t},
         NEW event \in Stream!Follows(last[t]) \cup {last[t]}, last' = [last EXCEPT ![t] = event]
  PROVE  Stream!Next
BY DEF Stream!Next, Stream!Close, Over, Ended

\* A turn that goes to another place is over there or not; the others stay.
LEMMA GoesOver ==
  ASSUME TypeOK, NEW t \in Turn, t \notin Over, NEW place, Goto(t, place)
  PROVE  /\ place \in Ended => Over' = Over \cup {t}
         /\ place \notin Ended => Over' = Over
BY DEF TypeOK, Over, Goto

LEMMA StreamStep ==
  ASSUME TypeOK, Speaks, [Next]_vars
  PROVE  Stream!Next \/ UNCHANGED <<last, Over>>
<1> DEFINE Goal == Stream!Next \/ UNCHANGED <<last, Over>>
<1> USE DEF TypeOK, Speaks
<1>1. ASSUME NEW t \in Turn, t \notin Over, UNCHANGED last, NEW place, Goto(t, place)
      PROVE  Goal
  <2>1. last' = [last EXCEPT ![t] = last[t]]
    BY <1>1
  <2> QED
    BY <1>1, <2>1, GoesOver, ClosesOne
<1>2. ASSUME NEW t \in Turn, Ask(t) \/ StoreQuestion(t) \/ Abandon(t)
      PROVE  Goal
  <2>1. t \notin Over /\ UNCHANGED last /\ \E place : Goto(t, place)
    BY <1>2 DEF Ask, StoreQuestion, Abandon, Over, Ended
  <2> QED
    BY <1>1, <2>1
<1>3. ASSUME NEW t \in Turn, OpenStream(t)
      PROVE  Goal
  <2>1. t \notin Over /\ last[t] = "none"
    BY <1>3 DEF OpenStream, Over, Ended, Early
  <2>2. CASE Goto(t, "retrieving") /\ UNCHANGED last
    BY <1>1, <2>1, <2>2
  <2>3. CASE Goto(t, "closed") /\ Sends(t, "error")
    <3>1. Over' = Over \cup {t}
      BY <2>1, <2>3, GoesOver DEF Ended
    <3>2. "error" \in Stream!Follows(last[t]) /\ last' = [last EXCEPT ![t] = "error"]
      BY <2>1, <2>3 DEF Sends, Stream!Follows
    <3> QED
      BY <2>1, <3>1, <3>2, ClosesOne
  <2> QED
    BY <1>3, <2>2, <2>3 DEF OpenStream
<1>4. ASSUME NEW t \in Turn, Decide(t)
      PROVE  Goal
  <2>1. t \notin Over /\ last[t] = "none"
    BY <1>4 DEF Decide, Over, Ended, Early
  <2>2. Stream!Follows(last[t]) = {"meta", "refusal", "error"}
    BY <2>1 DEF Stream!Follows
  <2>3. \/ Goto(t, "closed") /\ Sends(t, "error")
        \/ Goto(t, "apologising") /\ Sends(t, "refusal")
        \/ Goto(t, "streaming") /\ Sends(t, "meta")
    BY <1>4 DEF Decide
  <2>4. CASE Goto(t, "closed") /\ Sends(t, "error")
    BY <2>1, <2>2, <2>4, GoesOver, ClosesOne DEF Sends, Ended
  <2>5. CASE Goto(t, "apologising") /\ Sends(t, "refusal")
    <3>1. "apologising" \notin Ended
      BY DEF Ended
    <3>2. Over' = Over
      BY <2>1, <2>5, <3>1, GoesOver
    <3> QED
      BY <2>1, <2>2, <2>5, <3>2, SendsOne DEF Sends
  <2>6. CASE Goto(t, "streaming") /\ Sends(t, "meta")
    <3>1. "streaming" \notin Ended
      BY DEF Ended
    <3>2. Over' = Over
      BY <2>1, <2>6, <3>1, GoesOver
    <3> QED
      BY <2>1, <2>2, <2>6, <3>2, SendsOne DEF Sends
  <2> QED
    BY <2>3, <2>4, <2>5, <2>6
<1>5. ASSUME NEW t \in Turn, Token(t) \/ Citations(t) \/ Usage(t) \/ Word(t)
      PROVE  Goal
  <2>1. t \notin Over /\ Over' = Over
    BY <1>5 DEF Token, Citations, Usage, Word, Over, Ended
  <2>2. \E event \in Stream!Follows(last[t]) : last' = [last EXCEPT ![t] = event]
    BY <1>5 DEF Token, Citations, Usage, Word, Emit, Sends, Stream!Follows
  <2> QED
    BY <2>1, <2>2, SendsOne
<1>6. ASSUME NEW t \in Turn, Done(t) \/ ProviderFails(t)
      PROVE  Goal
  <2>1. t \notin Over /\ Goto(t, "outcome")
    BY <1>6 DEF Done, ProviderFails, Over, Ended
  <2>2. \E event \in Stream!Follows(last[t]) : last' = [last EXCEPT ![t] = event]
    BY <1>6 DEF Done, ProviderFails, Complete, Emit, Sends, Stream!Follows
  <2>3. "outcome" \notin Ended
    BY DEF Ended
  <2>4. Over' = Over
    BY <2>1, <2>3, GoesOver
  <2> QED
    BY <2>1, <2>2, <2>4, SendsOne
<1>7. ASSUME NEW t \in Turn, Persist(t)
      PROVE  Goal
  <2>1. t \notin Over /\ last[t] \in {"done", "error"} /\ Goto(t, "closed")
    BY <1>7 DEF Persist, Over, Ended
  <2>2. CASE UNCHANGED last
    BY <1>1, <2>1, <2>2
  <2>3. CASE CannotStore(t) /\ t \notin left
    <3>1. \E event \in Stream!Follows(last[t]) : last' = [last EXCEPT ![t] = event]
      BY <1>7, <2>1, <2>3 DEF Persist, Sends, Stream!Follows
    <3> QED
      BY <2>1, <3>1, GoesOver, ClosesOne DEF Ended
  <2>4. UNCHANGED last \/ (CannotStore(t) /\ t \notin left)
    BY <1>7 DEF Persist, Sends
  <2> QED
    BY <2>2, <2>3, <2>4
<1>8. ASSUME NEW t \in Turn, DenseSearch(t) \/ SparseSearch(t)
      PROVE  Goal
  BY <1>8 DEF DenseSearch, SparseSearch, Over
<1>9. CASE Meanwhile \/ UNCHANGED vars
  BY <1>9 DEF Meanwhile, Leave, LoseDatabase, Publish, DeleteVectors, DeleteRows, IndexLate,
              DeleteConversation, Idle, vars, Over
<1> QED
  BY <1>2, <1>3, <1>4, <1>5, <1>6, <1>7, <1>8, <1>9 DEF Next, Serve

\* However searches, provider and storing fail, the events of a turn come in an
\* order its reader knows, and none after its stream has ended.
THEOREM StreamsKeepContract == Spec => StreamContract
<1>1. Init => Speaks /\ Stream!Init
  BY DEF Init, Speaks, Early, Stream!Init
<1>2. IInv /\ Speaks /\ [Next]_vars => Speaks' /\ [Stream!Next]_<<last, Over>>
  BY SpeaksStep, StreamStep DEF IInv
<1>3. UNCHANGED <<last, Over>> => UNCHANGED <<last, {t \in Turn : pc[t] \in {"closed", "refusedRequest"}}>>
  BY DEF Over, Ended
<1> QED
  BY Inductive, <1>1, <1>2, <1>3, PTL DEF Spec, StreamContract, Stream!Spec, Over, Ended
=============================================================================
