-------------------------- MODULE KnowledgeAnswers --------------------------
(***************************************************************************)
(* Answers with citations: POST /api/documents/ask (retrieval.ts,          *)
(* knowledge-retrieval.ts, rag-answer.ts), the page that asks              *)
(* (components/knowledge-ask.tsx) and the history it saves its answers to  *)
(* (GET, POST and DELETE /api/documents/history, document-sources.ts).     *)
(*                                                                         *)
(* A question is answered in many steps, and documents are withdrawn,      *)
(* processed again and purged, and articles edited and indexed, between    *)
(* any two of them.  A passage is one chunk of a document, or the text of  *)
(* an article.  Scores and excerpt lengths are not modelled: ranking keeps *)
(* any selection within its two limits, the context limit keeps any part   *)
(* of the citations.                                                       *)
(***************************************************************************)
EXTENDS Integers, Sequences, FiniteSets, Subsequence

CONSTANTS Passage,
          SourceOf,       \* passage |-> the document or article it is of
          ArticleSource,  \* the sources that are articles
          ForeignSource,  \* documents of another tenant
          Question,       \* questions; a history item is named by its question
          Clerk,          \* handlers of /api/documents/history
          Nothing,
          TopK,           \* HYBRID_TOP_K
          MaxPerSource,   \* HYBRID_MAX_CHUNKS_PER_DOCUMENT
          MaxReferences,  \* references of one item that the history looks at
          HistorySize,    \* length of the stored history
          MaxUpheavals    \* bound on what happens to documents and articles

Source == {SourceOf[p] : p \in Passage}
DocumentSource == Source \ ArticleSource

ASSUME AnswersAssumption ==
    /\ IsFiniteSet(Passage)
    /\ ArticleSource \cup ForeignSource \subseteq Source
    /\ ArticleSource \cap ForeignSource = {}
    /\ Nothing \notin Passage \cup Question /\ "ask" \notin Clerk
    /\ TopK \in Nat \ {0} /\ MaxPerSource \in Nat \ {0}
    /\ MaxReferences \in Nat \ {0} /\ HistorySize \in Nat \ {0}

VARIABLES
    shelf,     \* document |-> COMPLETED and not deleted, its chunks, its vectors
    board,     \* article |-> version, readable by the tenant, indexed versions
    upheavals,
    ask,       \* the question being answered
    page,      \* what the page shows, and the history it has loaded
    clerk,     \* history handler |-> its request
    history,   \* knowledge-history.json: items, the newest first
    taken,      \* questions some history item was named by (random UUIDs)
    known      \* ghost: reader |-> sources readable at some moment of its work

libraryVars == <<shelf, board, upheavals>>
answersVars == <<libraryVars, ask, page, clerk, history, taken, known>>

PassagesOf(s) == {p \in Passage : SourceOf[p] = s}

\* The document is COMPLETED and not deleted, and of the tenant; the article is
\* PUBLISHED, not quarantined and visible to the tenant.
Readable(s) ==
    IF s \in ArticleSource THEN board[s].open ELSE shelf[s].open /\ s \notin ForeignSource

ReadableSources == {s \in Source : Readable(s)}

Reader == {"ask"} \cup Clerk

NoAsk == [phase |-> "idle", todo |-> {}, found |-> {}, ranked |-> {},
          citing |-> Nothing, version |-> 0, cited |-> <<>>, selected |-> {}, markers |-> {}]

NoRequest == [phase |-> "idle", kind |-> "none", item |-> Nothing, refs |-> {},
              citing |-> Nothing, version |-> 0, kept |-> {}, copy |-> <<>>, mine |-> FALSE]

AnswersInit ==
    /\ shelf = [d \in DocumentSource |->
                   [open |-> TRUE, chunks |-> PassagesOf(d), vectors |-> PassagesOf(d)]]
    /\ board = [a \in ArticleSource |-> [version |-> 1, open |-> TRUE, search |-> 1, vector |-> 1]]
    /\ upheavals = 0
    /\ ask = NoAsk
    /\ page = [asked |-> Nothing, question |-> Nothing, answer |-> Nothing,
               loading |-> FALSE, list |-> {}, mount |-> "mounted", late |-> {}]
    /\ clerk = [h \in Clerk |-> NoRequest]
    /\ taken = {} /\ history = <<>>
    /\ known = [r \in Reader |-> {}]

-----------------------------------------------------------------------------
(* What happens to the sources meanwhile. *)

Reading(r) == IF r = "ask" THEN ask.phase # "idle" ELSE clerk[r].phase # "idle"

Upheaval ==
    /\ upheavals < MaxUpheavals
    /\ upheavals' = upheavals + 1
    /\ known' = [r \in Reader |-> IF Reading(r) THEN known[r] \cup {s \in Source : Readable(s)'} ELSE {}]
    /\ UNCHANGED <<ask, page, clerk, history, taken>>

\* A request deletes the document or queues it for processing again; its vectors
\* do not count while its embeddingStatus is not COMPLETED.
Withdraw(d) ==
    /\ shelf[d].open
    /\ shelf' = [shelf EXCEPT ![d].open = FALSE, ![d].vectors = {}]
    /\ UNCHANGED board /\ Upheaval

\* The worker saves new chunks, or cleanup and reprocessing remove them.
Rewrite(d, C) ==
    /\ ~ shelf[d].open /\ C # shelf[d].chunks
    /\ shelf' = [shelf EXCEPT ![d].chunks = C]
    /\ UNCHANGED board /\ Upheaval

CompleteAgain(d) ==
    /\ ~ shelf[d].open /\ shelf[d].chunks # {}
    /\ shelf' = [shelf EXCEPT ![d].open = TRUE]
    /\ UNCHANGED board /\ Upheaval

Vectorize(d) ==
    /\ shelf[d].open /\ shelf[d].vectors # shelf[d].chunks
    /\ shelf' = [shelf EXCEPT ![d].vectors = shelf[d].chunks]
    /\ UNCHANGED board /\ Upheaval

\* Every change of an article has a version of its own, indexed later.
Republish(a) ==
    /\ \E open \in BOOLEAN :
          board' = [board EXCEPT ![a].version = @ + 1, ![a].open = open]
    /\ UNCHANGED shelf /\ Upheaval

Index(a) ==
    /\ \E row \in {"search", "vector"} :
          /\ board[a][row] # board[a].version
          /\ board' = [board EXCEPT ![a][row] = board[a].version]
    /\ UNCHANGED shelf /\ Upheaval

-----------------------------------------------------------------------------
(* Retrieval: the lexical and the semantic side run in parallel. *)

Retrieving == ask.phase = "retrieving"

\* A finished task, the ones it leads to, and what it found.
Retrieved(task, next, passages) ==
    /\ ask' = [ask EXCEPT !.todo = (@ \ {task}) \cup next, !.found = @ \cup passages]
    /\ UNCHANGED <<libraryVars, page, clerk, history, taken, known>>

ListDocuments ==
    /\ Retrieving /\ "documents" \in ask.todo
    /\ Retrieved("documents", DocumentSource \cap ReadableSources, {})

\* readChunks does not look at the document's status again.
ScanChunks(d) ==
    /\ Retrieving /\ d \in ask.todo
    /\ Retrieved(d, {}, shelf[d].chunks)

\* The row of the index must be of the article's current version.
CurrentIn(row) ==
    UNION {PassagesOf(a) : a \in {b \in ArticleSource : board[b].open /\ board[b][row] = board[b].version}}

SearchArticles ==
    /\ Retrieving /\ "articles" \in ask.todo
    /\ Retrieved("articles", {}, CurrentIn("search"))

EmbedQuestion ==
    /\ Retrieving /\ "embedding" \in ask.todo
    /\ Retrieved("embedding", {"vectors", "article vectors"}, {})

SearchVectors ==
    /\ Retrieving /\ "vectors" \in ask.todo
    /\ Retrieved("vectors", {}, UNION {shelf[d].vectors : d \in DocumentSource \cap ReadableSources})

SearchArticleVectors ==
    /\ Retrieving /\ "article vectors" \in ask.todo
    /\ Retrieved("article vectors", {}, CurrentIn("vector"))

NoAnswer == [NoAsk EXCEPT !.phase = "no_answer"]

\* What is found are the passages with a positive score: any of those read.
Scored(passages) == SUBSET passages

\* The best results that reach the minimum score, within both limits.
Rank(S) ==
    /\ Retrieving /\ ask.todo = {}
    /\ S \in Scored(ask.found) /\ Cardinality(S) <= TopK
    /\ \A s \in Source : Cardinality(S \cap PassagesOf(s)) <= MaxPerSource
    /\ ask' = IF S = {} THEN NoAnswer ELSE [ask EXCEPT !.phase = "citing", !.found = {}, !.ranked = S]
    /\ known' = [known EXCEPT !["ask"] = ReadableSources]
    /\ UNCHANGED <<libraryVars, page, clerk, history, taken>>

-----------------------------------------------------------------------------
(* Citations.  A source is read twice: the document and then its chunks, the *)
(* article and then its row in the search index.                             *)

\* Mutation: any document of the tenant will do, whatever its status.
LooksReadableOfAnyStatus(p) == SourceOf[p] \in ArticleSource \/ SourceOf[p] \notin ForeignSource

\* The first read: findById, or the article's row.
LooksReadable(p) == Readable(SourceOf[p])

\* What the second read is compared with.
SeenVersion(p) == IF SourceOf[p] \in ArticleSource THEN board[SourceOf[p]].version ELSE 0

\* The second read: readChunks, or the row of the index.
Confirmed(p, version) ==
    IF SourceOf[p] \in ArticleSource THEN board[SourceOf[p]].search = version
    ELSE p \in shelf[SourceOf[p]].chunks

ReadSource(p) ==
    /\ ask.phase = "citing" /\ ask.citing = Nothing /\ p \in ask.ranked
    /\ ask' = [ask EXCEPT !.ranked = @ \ {p},
                          !.citing = IF LooksReadable(p) THEN p ELSE Nothing,
                          !.version = SeenVersion(p)]
    /\ UNCHANGED <<libraryVars, page, clerk, history, taken, known>>

\* The n-th citation built is source Sn.
Cite ==
    /\ ask.phase = "citing" /\ ask.citing # Nothing
    /\ ask' = [ask EXCEPT !.citing = Nothing,
                          !.cited = IF Confirmed(ask.citing, ask.version)
                                    THEN Append(@, ask.citing) ELSE @]
    /\ UNCHANGED <<libraryVars, page, clerk, history, taken, known>>

\* The context limit leaves out any of them; without any the provider is not asked.
FillContext(S) ==
    /\ ask.phase = "citing" /\ ask.citing = Nothing /\ ask.ranked = {}
    /\ S \subseteq DOMAIN ask.cited
    /\ ask' = IF S = {} THEN NoAnswer ELSE [ask EXCEPT !.phase = "generating", !.selected = S]
    /\ UNCHANGED <<libraryVars, page, clerk, history, taken, known>>

\* sanitizeAnswerCitations: markers of sources that were not supplied go.
Sanitized(M) == M \cap ask.selected

\* The provider answers, with any markers it likes; what is left of the answer
\* without the unknown ones may be empty.
Generate(M) ==
    /\ ask.phase = "generating"
    /\ \/ ask' = [ask EXCEPT !.phase = "answered", !.markers = Sanitized(M)]
       \/ ask' = NoAnswer
    /\ UNCHANGED <<libraryVars, page, clerk, history, taken, known>>

\* A store, the budget or the provider fails: 429 or 503.
AskFails ==
    /\ ask.phase \in {"retrieving", "citing", "generating"}
    /\ ask' = [NoAsk EXCEPT !.phase = "error"]
    /\ UNCHANGED <<libraryVars, page, clerk, history, taken, known>>

-----------------------------------------------------------------------------
(* The history route.  Every request reads the whole file and writes it back. *)

\* A request reaches a free handler; mine tells whether this page sent it.
Request(h, kind, q, refs, mine) ==
    /\ clerk[h].phase = "idle"
    /\ clerk' = [clerk EXCEPT ![h] = [NoRequest EXCEPT !.phase = "resolving", !.kind = kind,
                                       !.item = q, !.refs = refs, !.mine = mine]]
    /\ known' = [known EXCEPT ![h] = ReadableSources, !["ask"] = IF ask' = NoAsk THEN {} ELSE @]

\* resolveKnowledgeSources believes nothing the page sends: each source is read
\* again, in the same two steps.
ResolveSource(h, p) ==
    /\ clerk[h].phase = "resolving" /\ clerk[h].citing = Nothing /\ p \in clerk[h].refs
    /\ clerk' = [clerk EXCEPT ![h].refs = @ \ {p},
                              ![h].citing = IF LooksReadable(p) THEN p ELSE Nothing,
                              ![h].version = SeenVersion(p)]
    /\ UNCHANGED <<libraryVars, ask, page, history, taken, known>>

KeepSource(h) ==
    /\ clerk[h].phase = "resolving" /\ clerk[h].citing # Nothing
    /\ clerk' = [clerk EXCEPT ![h].citing = Nothing,
                              ![h].kept = IF Confirmed(clerk[h].citing, clerk[h].version)
                                          THEN @ \cup {clerk[h].citing} ELSE @]
    /\ UNCHANGED <<libraryVars, ask, page, history, taken, known>>

ListHistory(h) ==
    /\ clerk[h].phase = "resolving" /\ clerk[h].citing = Nothing /\ clerk[h].refs = {}
    /\ clerk' = [clerk EXCEPT ![h].phase = "listed", ![h].copy = history]
    /\ UNCHANGED <<libraryVars, ask, page, history, taken, known>>

\* What the handler writes over the file, from the copy it read.
Rewritten(r) ==
    CASE r.kind = "save" ->
             SubSeq(<<[question |-> r.item, sources |-> r.kept]>> \o r.copy, 1,
                    IF Len(r.copy) < HistorySize THEN Len(r.copy) + 1 ELSE HistorySize)
      [] r.kind = "delete" -> At(r.copy, {i \in DOMAIN r.copy : r.copy[i].question # r.item})
      [] r.kind = "clear" -> <<>>

SaveHistory(h) ==
    /\ clerk[h].phase = "listed"
    /\ IF clerk[h].kind = "delete" /\ Rewritten(clerk[h]) = clerk[h].copy
       THEN clerk' = [clerk EXCEPT ![h].phase = "failed"] /\ UNCHANGED history
       ELSE /\ clerk' = [clerk EXCEPT ![h].phase = "replied", ![h].copy = <<>>]
            /\ history' = Rewritten(clerk[h])
    /\ UNCHANGED <<libraryVars, ask, page, taken, known>>

ClerkFails(h) ==
    /\ clerk[h].phase \in {"resolving", "listed"}
    /\ clerk' = [clerk EXCEPT ![h] = [NoRequest EXCEPT !.phase = "failed", !.kind = clerk[h].kind,
                                       !.item = clerk[h].item, !.mine = clerk[h].mine]]
    /\ UNCHANGED <<libraryVars, ask, page, history, taken, known>>

\* Another member of the organisation uses the same history, and sends what it
\* likes as the sources of an item.
ColleagueSends(h) ==
    /\ UNCHANGED <<libraryVars, ask, page, history>>
    /\ \/ \E q \in Question \ taken, p \in Passage :
              Request(h, "save", q, {p}, FALSE) /\ taken' = taken \cup {q}
       \/ \E q \in taken : Request(h, "delete", q, {}, FALSE) /\ UNCHANGED taken
       \/ Request(h, "clear", Nothing, {}, FALSE) /\ UNCHANGED taken

-----------------------------------------------------------------------------
(* The page. *)

\* The form's buttons are off while a question is being answered; the list and
\* its buttons are only shown when it has been loaded.
FormEnabled == ~ page.loading
ListShown(q) == page.mount = "loaded" /\ q \in page.list

PageOnly == UNCHANGED <<libraryVars, ask, clerk, history, taken, known>>

\* The effect on mount: the file is read ...
ReadHistory ==
    /\ page.mount = "mounted"
    /\ page' = [page EXCEPT !.mount = "read", !.late = {history[i].question : i \in DOMAIN history}]
    /\ PageOnly

\* ... and the answer replaces the list, whatever has been added to it since.
LoadHistory ==
    /\ page.mount = "read"
    /\ page' \in {[page EXCEPT !.mount = "loaded", !.late = {}, !.list = list] :
                      list \in {page.late, page.list}}
    /\ PageOnly

Submit(q) ==
    /\ FormEnabled /\ q \notin taken
    /\ page' = [page EXCEPT !.loading = TRUE, !.asked = q, !.question = q, !.answer = Nothing]
    /\ ask' = [NoAsk EXCEPT !.phase = "retrieving", !.todo = {"documents", "articles", "embedding"}]
    /\ taken' = taken \cup {q}
    /\ UNCHANGED <<libraryVars, clerk, history, known>>

\* Of the references sent, resolveKnowledgeSources looks at the first few.
FirstFew(S) == {n \in S : Cardinality({m \in S : m <= n}) <= MaxReferences}

\* The answer is shown and then saved; no answer is an answer, too.
ReceiveAnswer(h) ==
    /\ page.loading /\ ask.phase \in {"answered", "no_answer"}
    /\ page' = [page EXCEPT !.answer = page.asked]
    /\ ask' = NoAsk
    /\ Request(h, "save", page.asked, {ask.cited[n] : n \in FirstFew(ask.selected)}, TRUE)
    /\ UNCHANGED <<libraryVars, history, taken>>

ReceiveError ==
    /\ page.loading /\ ask.phase = "error"
    /\ page' = [page EXCEPT !.loading = FALSE]
    /\ ask' = NoAsk /\ known' = [known EXCEPT !["ask"] = {}]
    /\ UNCHANGED <<libraryVars, clerk, history, taken>>

\* The reply to a request of the history route: one of this page changes its
\* list if it was successful, and ends the loading of a question either way.
ReceiveReply(h) ==
    /\ clerk[h].phase \in {"replied", "failed"}
    /\ clerk' = [clerk EXCEPT ![h] = NoRequest]
    /\ LET r == clerk[h]
           list == IF r.phase = "failed" THEN page.list
                   ELSE CASE r.kind = "save" -> page.list \cup {r.item}
                          [] r.kind = "delete" -> page.list \ {r.item}
                          [] r.kind = "clear" -> {}
       IN  page' = IF r.mine THEN [page EXCEPT !.list = list, !.loading = @ /\ r.kind # "save"]
                   ELSE page
    /\ known' = [known EXCEPT ![h] = {}]
    /\ UNCHANGED <<libraryVars, ask, history, taken>>

\* Items can be opened while a question is being answered.
OpenHistoryItem(q) ==
    /\ ListShown(q)
    /\ page' = [page EXCEPT !.question = q, !.answer = q]
    /\ PageOnly

ClearAnswer ==
    /\ FormEnabled
    /\ page' = [page EXCEPT !.question = Nothing, !.answer = Nothing]
    /\ PageOnly

DeleteHistoryItem(h, q) ==
    /\ ListShown(q)
    /\ UNCHANGED <<libraryVars, ask, page, history, taken>>
    /\ Request(h, "delete", q, {}, TRUE)

ClearHistory(h) ==
    /\ \E q \in page.list : ListShown(q)
    /\ UNCHANGED <<libraryVars, ask, page, history, taken>>
    /\ Request(h, "clear", Nothing, {}, TRUE)

-----------------------------------------------------------------------------
\* Other tenants' documents are left alone: nothing here may depend on them.
LibraryNext ==
    \/ \E d \in DocumentSource \ ForeignSource :
          \/ Withdraw(d) \/ CompleteAgain(d) \/ Vectorize(d)
          \/ \E C \in SUBSET PassagesOf(d) : Rewrite(d, C)
    \/ \E a \in ArticleSource : Republish(a) \/ Index(a)

AskNext ==
    \/ ListDocuments \/ (\E d \in DocumentSource : ScanChunks(d)) \/ SearchArticles
    \/ EmbedQuestion \/ SearchVectors \/ SearchArticleVectors
    \/ \E S \in SUBSET Passage : Rank(S)
    \/ (\E p \in Passage : ReadSource(p)) \/ Cite
    \/ \E S \in SUBSET (1..TopK) : FillContext(S)
    \/ \E M \in SUBSET (1..TopK) : Generate(M)
    \/ AskFails

ClerkNext(h) ==
    \/ ColleagueSends(h) \/ (\E p \in Passage : ResolveSource(h, p)) \/ KeepSource(h)
    \/ ListHistory(h) \/ SaveHistory(h) \/ ClerkFails(h)

PageNext ==
    \/ ReadHistory \/ LoadHistory \/ ReceiveError \/ ClearAnswer
    \/ \E q \in Question : Submit(q) \/ OpenHistoryItem(q)
    \/ \E h \in Clerk : ReceiveAnswer(h) \/ ReceiveReply(h) \/ ClearHistory(h)
    \/ \E h \in Clerk, q \in Question : DeleteHistoryItem(h, q)

AnswersNext == LibraryNext \/ AskNext \/ (\E h \in Clerk : ClerkNext(h)) \/ PageNext

AnswersSpec == AnswersInit /\ [][AnswersNext]_answersVars

-----------------------------------------------------------------------------
(* Type invariant. *)

\* Readers keep to the passages there are, the page and the file to the questions.
AnswersTypeOK ==
    /\ shelf \in [DocumentSource -> [open : BOOLEAN, chunks : SUBSET Passage, vectors : SUBSET Passage]]
    /\ board \in [ArticleSource -> [version : Nat, open : BOOLEAN, search : Nat, vector : Nat]]
    /\ ask.found \cup ask.ranked \subseteq Passage /\ ask.cited \in Seq(Passage)
    /\ page.list \cup page.late \subseteq taken /\ page.asked \in Question \cup {Nothing}
    /\ \A h \in Clerk : clerk[h].refs \cup clerk[h].kept \subseteq Passage
    /\ \A i \in DOMAIN history : history[i].question \in taken
    /\ known \in [Reader -> SUBSET Source]

-----------------------------------------------------------------------------
(* Safety. *)

\* An answer rests on sources its reader may open (docs/HYBRID_RAG.md:51 "повторно
\* проверяет metadata/chunk в текущем tenant"): whatever was withdrawn while the
\* question was being answered, every citation that comes with it names a source
\* of the tenant that was readable at some moment after the ranking, and every
\* marker left in the text has its citation.  And a
\* history item names no source that the tenant could not read while the item
\* was being saved, whatever references the page sent.
AnswersAreGrounded ==
    /\ ask.phase = "answered" =>
          /\ ask.selected # {} /\ ask.markers \subseteq ask.selected
          /\ \A n \in ask.selected : SourceOf[ask.cited[n]] \in known["ask"]
    /\ \A h \in Clerk : \A p \in clerk[h].kept : SourceOf[p] \in known[h]

\* What a reader of the code would expect, and it does not do; no run checks it.
\* Two requests that rewrite the file at once undo each other: a saved answer is
\* lost, or a cleared history comes back.
SavedIsKept ==
    [][\A h \in Clerk, i \in DOMAIN history :
         clerk[h].phase = "listed" /\ clerk[h].kind = "save" /\ clerk'[h].phase = "replied"
            /\ Len(clerk[h].copy) < HistorySize =>
              history[i].question \in {history'[k].question : k \in DOMAIN history'}]_answersVars

\* The page shows the answer to the question it shows; not if an item is opened
\* while a question is being answered: the late answer replaces the item's
\* answer under the item's question.
ShownAnswerIsAsked == page.answer # Nothing => page.answer = page.question
=============================================================================
