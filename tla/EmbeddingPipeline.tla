-------------------------- MODULE EmbeddingPipeline --------------------------
(***************************************************************************)
(* One document and its embedding: the job (PostgreSQLEmbeddingJobQueue in  *)
(* embedding-queue.ts), the columns embedding* of the document's row, and   *)
(* its vectors (vector-repository.ts).  Embedding workers                   *)
(* (document-embedding.ts) claim the job and bring the vectors in line with *)
(* the chunks; the document worker and reindex requests enqueue it;         *)
(* reprocessing, deletion and cleanup (document-services.ts) take job,      *)
(* vectors and chunks away, one after the other, while the others run.      *)
(*                                                                         *)
(* Every processing of the document gives its chunks a generation.  One     *)
(* embedding model and version is looked at.                                *)
(***************************************************************************)
EXTENDS Integers, FiniteSets

CONSTANTS Embedder,      \* embedding workers
          Enqueuer,      \* document workers and reindex requests
          Remover,       \* reprocessing, deletion and cleanup
          Nobody,        \* null
          Chunk,         \* chunk ids, the same for every generation
          ChunksOf,      \* generation |-> the ids of its chunks
          EmbeddingAttempts, \* embedding.maxAttempts
          MaxRequests,   \* bound on reindex requests and removals
          MaxMishaps     \* bound on crashes, failing calls and early lapses

Generation == DOMAIN ChunksOf

ASSUME EmbeddingAssumption ==
    /\ Generation = 1..Cardinality(Generation) /\ 1 \in Generation
    /\ \A g \in Generation : ChunksOf[g] \subseteq Chunk
    /\ EmbeddingAttempts \in Nat \ {0} /\ MaxRequests \in Nat /\ MaxMishaps \in Nat
    /\ Nobody \notin Embedder

VARIABLES
    document,  \* the row of DocumentMetadata
    chunks,    \* generation of the chunk file, 0 when there is none
    job,       \* the row of DocumentEmbeddingJob
    vectors,   \* chunk |-> generation its vector was made from, 0 without a row
    embedder, enqueuer, remover,  \* where each process is, and what it has read
    requests, mishaps,            \* how many are left
    overtaken  \* a worker lost its job, or its document was cleared, while it worked

embeddingVars ==
    <<document, chunks, job, vectors, embedder, enqueuer, remover, requests, mishaps, overtaken>>

EmbeddingStatus == {"PENDING", "QUEUED", "PROCESSING", "COMPLETED", "FAILED", "QUARANTINED"}

\* No row; ids are only compared, and the last one is kept to name the next.
NoEmbeddingJob(id) == [id |-> id, status |-> "NONE", owner |-> Nobody, token |-> 0, due |-> FALSE]
QueuedJob(id) == [NoEmbeddingJob(id) EXCEPT !.status = "QUEUED", !.due = TRUE]
IdleEmbedder == [pc |-> "idle", id |-> 0, token |-> 0, generation |-> 0, todo |-> {}]

IdleRemover == [pc |-> "idle", what |-> "none"]

\* A document that has just been processed and enqueued for the first time, or one
\* processed before embedding was configured.
EmbeddingInit ==
    /\ job \in {NoEmbeddingJob(0), QueuedJob(1)}
    /\ document = [status |-> "COMPLETED", hash |-> 0, worker |-> Nobody, token |-> 0,
                   embedding |-> IF job.status = "NONE" THEN "PENDING" ELSE "QUEUED"]
    /\ chunks = 1
    /\ vectors = [k \in Chunk |-> 0]
    /\ embedder = [w \in Embedder |-> IdleEmbedder]
    /\ enqueuer = [e \in Enqueuer |-> [pc |-> "idle", processed |-> FALSE, seen |-> 0]]
    /\ remover = [r \in Remover |-> IdleRemover]
    /\ requests = MaxRequests
    /\ mishaps = MaxMishaps
    /\ overtaken = FALSE

Stays == document.status \notin {"DELETED", "PURGED"}  \* deletedAt is null

Request == requests > 0 /\ requests' = requests - 1
Mishap == mishaps > 0 /\ mishaps' = mishaps - 1

Working == {w \in Embedder : embedder[w].pc # "idle"}

-----------------------------------------------------------------------------
\* The workers.  A lease is current until it lapses or its job is gone.
Holds(w) ==
    /\ job.status = "PROCESSING" /\ ~ job.due
    /\ job.id = embedder[w].id /\ job.owner = w /\ job.token = embedder[w].token

StepsTo(w, pc) == embedder' = [embedder EXCEPT ![w].pc = pc]
Idles(w) == embedder' = [embedder EXCEPT ![w] = IdleEmbedder]

\* A job whose time has come, queued or left by a worker whose lease is over.
ClaimableJob == job.status # "NONE" /\ job.due

ClaimJob(w) ==
    /\ embedder[w].pc = "idle"
    /\ ClaimableJob
    /\ job' = [job EXCEPT !.status = "PROCESSING", !.owner = w, !.token = @ + 1, !.due = FALSE]
    /\ embedder' = [embedder EXCEPT ![w] = [IdleEmbedder EXCEPT !.pc = "find", !.id = job.id,
                                                                !.token = job.token + 1]]
    /\ UNCHANGED <<document, chunks, vectors, enqueuer, remover, requests, mishaps, overtaken>>

FindDocument(w) ==
    /\ embedder[w].pc = "find"
    /\ StepsTo(w, IF document.status = "COMPLETED" THEN "begin" ELSE "skip")
    /\ UNCHANGED <<document, chunks, job, vectors, enqueuer, remover, requests, mishaps, overtaken>>

SkipDocument(w) ==
    /\ embedder[w].pc = "skip"
    /\ vectors' = [k \in Chunk |-> 0]
    /\ StepsTo(w, "acknowledge")
    /\ UNCHANGED <<document, chunks, job, enqueuer, remover, requests, mishaps, overtaken>>

\* Neither conditional on the lease nor looked at when it finds no row.
BeginEmbedding(w) ==
    /\ embedder[w].pc = "begin"
    /\ document' = IF Stays THEN [document EXCEPT !.embedding = "PROCESSING", !.worker = w,
                                                  !.token = embedder[w].token]
                   ELSE document
    /\ StepsTo(w, "read")
    /\ UNCHANGED <<chunks, job, vectors, enqueuer, remover, requests, mishaps, overtaken>>

\* The chunks, and which of them have no vector of the same content.
ReadChunks(w) ==
    /\ embedder[w].pc = "read"
    /\ IF chunks = 0 THEN StepsTo(w, "retry")
       ELSE embedder' = [embedder EXCEPT ![w].pc = "embed", ![w].generation = chunks,
                                         ![w].todo = {k \in ChunksOf[chunks] : vectors[k] # chunks}]
    /\ UNCHANGED <<document, chunks, job, vectors, enqueuer, remover, requests, mishaps, overtaken>>

\* The gateway answers, refuses for good or for now; then the lease is asserted.
Embed(w) ==
    /\ embedder[w].pc = "embed"
    /\ \/ embedder[w].todo # {} /\ StepsTo(w, IF Holds(w) THEN "upsert" ELSE "retry") /\ UNCHANGED mishaps
       \/ embedder[w].todo # {} /\ StepsTo(w, "give up") /\ Mishap
       \/ embedder[w].todo = {} /\ StepsTo(w, "sweep") /\ UNCHANGED mishaps
    /\ UNCHANGED <<document, chunks, job, vectors, enqueuer, remover, requests, overtaken>>

\* A row of a purged document is refused by its foreign key.
UpsertBatch(w) ==
    /\ embedder[w].pc = "upsert"
    /\ IF document.status = "PURGED" THEN StepsTo(w, "retry") /\ UNCHANGED vectors
       ELSE \E k \in embedder[w].todo :
              /\ vectors' = [vectors EXCEPT ![k] = embedder[w].generation]
              /\ embedder' = [embedder EXCEPT ![w].pc = "embed", ![w].todo = @ \ {k}]
    /\ UNCHANGED <<document, chunks, job, enqueuer, remover, requests, mishaps, overtaken>>

\* deleteStale, then assertOwned and the assertion of updateFenced.
Asserted(w) == Holds(w)

Swept(g) == [k \in Chunk |-> IF k \in ChunksOf[g] THEN vectors[k] ELSE 0]

DeleteStale(w) ==
    /\ embedder[w].pc = "sweep"
    /\ vectors' = Swept(embedder[w].generation)
    /\ StepsTo(w, "assert")
    /\ UNCHANGED <<document, chunks, job, enqueuer, remover, requests, mishaps, overtaken>>

AssertLease(w) ==
    /\ embedder[w].pc = "assert"
    /\ StepsTo(w, IF Asserted(w) THEN "complete" ELSE "retry")
    /\ UNCHANGED <<document, chunks, job, vectors, enqueuer, remover, requests, mishaps, overtaken>>

\* updateEmbeddingFenced: by worker and token, whatever the document's status.
RowIsMine(w) == Stays /\ document.worker = w /\ document.token = embedder[w].token

CompleteEmbedding(w) ==
    /\ embedder[w].pc = "complete"
    /\ IF RowIsMine(w)
       THEN /\ document' = [document EXCEPT !.embedding = "COMPLETED", !.worker = Nobody,
                                            !.hash = embedder[w].generation]
            /\ StepsTo(w, "acknowledge")
       ELSE StepsTo(w, "retry") /\ UNCHANGED document
    /\ UNCHANGED <<chunks, job, vectors, enqueuer, remover, requests, mishaps, overtaken>>

\* Without the lease this throws; what the handler does then is refused too.
AcknowledgeEmbedding(w) ==
    /\ embedder[w].pc = "acknowledge"
    /\ job' = IF Holds(w) THEN NoEmbeddingJob(job.id) ELSE job
    /\ Idles(w)
    /\ UNCHANGED <<document, chunks, vectors, enqueuer, remover, requests, mishaps, overtaken>>

\* The failure path: assert the lease, record the outcome, release or drop the
\* job.  Whatever throws here leaves the job to its lease.
Retries(w) == embedder[w].pc = "retry" /\ embedder[w].token < EmbeddingAttempts

AssertToFail(w) ==
    /\ embedder[w].pc \in {"retry", "give up"}
    /\ IF Holds(w) THEN StepsTo(w, IF Retries(w) THEN "requeue"
                                   ELSE IF embedder[w].pc = "retry" THEN "quarantine" ELSE "fail")
       ELSE Idles(w)
    /\ UNCHANGED <<document, chunks, job, vectors, enqueuer, remover, requests, mishaps, overtaken>>

RecordFailure(w) ==
    /\ embedder[w].pc \in {"requeue", "quarantine", "fail"}
    /\ IF RowIsMine(w)
       THEN /\ document' = [document EXCEPT !.worker = Nobody,
                  !.embedding = CASE embedder[w].pc = "requeue" -> "QUEUED"
                                  [] embedder[w].pc = "quarantine" -> "QUARANTINED"
                                  [] OTHER -> "FAILED"]
            /\ StepsTo(w, IF embedder[w].pc = "requeue" THEN "release" ELSE "acknowledge")
       ELSE Idles(w) /\ UNCHANGED document
    /\ UNCHANGED <<chunks, job, vectors, enqueuer, remover, requests, mishaps, overtaken>>

ReleaseEmbedding(w) ==
    /\ embedder[w].pc = "release"
    /\ job' = IF Holds(w) THEN [job EXCEPT !.status = "QUEUED", !.owner = Nobody] ELSE job
    /\ Idles(w)
    /\ UNCHANGED <<document, chunks, vectors, enqueuer, remover, requests, mishaps, overtaken>>

EmbedderStep(w) ==
    \/ FindDocument(w) \/ SkipDocument(w) \/ BeginEmbedding(w) \/ ReadChunks(w) \/ Embed(w)
    \/ UpsertBatch(w) \/ DeleteStale(w) \/ AssertLease(w) \/ CompleteEmbedding(w)
    \/ AcknowledgeEmbedding(w) \/ AssertToFail(w) \/ RecordFailure(w) \/ ReleaseEmbedding(w)

\* A call throws: inside the handler, or outside of it and ending the run.
EmbedderFault(w) ==
    /\ embedder[w].pc # "idle"
    /\ Mishap
    /\ \/ embedder[w].pc \in {"read", "embed", "upsert", "sweep", "assert", "complete"} /\ StepsTo(w, "retry")
       \/ Idles(w)
    /\ UNCHANGED <<document, chunks, job, vectors, enqueuer, remover, requests, overtaken>>

\* A retry comes due, or a lease that nobody works under runs out, ...
JobRipens ==
    /\ job.status # "NONE" /\ ~ job.due
    /\ \A w \in Working : ~ Holds(w)
    /\ job' = [job EXCEPT !.due = TRUE]
    /\ UNCHANGED <<document, chunks, vectors, embedder, enqueuer, remover, requests, mishaps, overtaken>>

\* ... or, rarely, one whose worker renews it.
EmbeddingLeaseLapses ==
    /\ \E w \in Working : Holds(w)
    /\ Mishap
    /\ job' = [job EXCEPT !.due = TRUE]
    /\ overtaken' = TRUE
    /\ UNCHANGED <<document, chunks, vectors, embedder, enqueuer, remover, requests>>

-----------------------------------------------------------------------------
\* The document worker, as far as it concerns the embedding: it saves the chunks
\* it has extracted, of the old content or of another, and then completes the
\* document.
SaveExtracted ==
    /\ document.status = "QUEUED"
    /\ chunks' \in Generation
    /\ UNCHANGED <<document, job, vectors, embedder, enqueuer, remover, requests, mishaps, overtaken>>

Ask(e, pc, processed) ==
    enqueuer' = [enqueuer EXCEPT ![e] = [pc |-> pc, processed |-> processed, seen |-> 0]]
AskOn(e, pc) == Ask(e, pc, enqueuer[e].processed)
AskEnds(e) == Ask(e, "idle", FALSE)

CompleteDocument(e) ==
    /\ enqueuer[e].pc = "idle"
    /\ document.status = "QUEUED"
    /\ chunks # 0
    /\ document' = [document EXCEPT !.status = "COMPLETED"]
    /\ Ask(e, "look", TRUE)
    /\ UNCHANGED <<chunks, job, vectors, embedder, remover, requests, mishaps, overtaken>>

RequestReindex(e) ==
    /\ enqueuer[e].pc = "idle"
    /\ Request
    /\ Ask(e, "look", FALSE)
    /\ UNCHANGED <<document, chunks, job, vectors, embedder, remover, mishaps, overtaken>>

\* The generation the row says it is embedded with.
EmbeddedWith == IF document.embedding = "COMPLETED" THEN document.hash ELSE 0

\* The document worker notes what is thrown, a reindex request reports it.
AskThrows(e) ==
    /\ document' = IF enqueuer[e].processed /\ Stays
                   THEN [document EXCEPT !.embedding = "FAILED"] ELSE document
    /\ AskEnds(e)

\* enqueueDocumentEmbedding: the row is read, later the chunks; in between either
\* may become another.
LookAtDocument(e) ==
    /\ enqueuer[e].pc = "look"
    /\ IF document.status = "COMPLETED"
       THEN enqueuer' = [enqueuer EXCEPT ![e].pc = "compare", ![e].seen = EmbeddedWith]
       ELSE AskEnds(e)
    /\ UNCHANGED <<document, chunks, job, vectors, embedder, remover, requests, mishaps, overtaken>>

CompareChunks(e) ==
    /\ enqueuer[e].pc = "compare"
    /\ IF chunks = 0 THEN AskThrows(e)
       ELSE /\ IF enqueuer[e].seen = chunks THEN AskEnds(e) ELSE AskOn(e, "enqueue")
            /\ UNCHANGED document
    /\ UNCHANGED <<chunks, job, vectors, embedder, remover, requests, mishaps, overtaken>>

\* INSERT ... ON CONFLICT DO NOTHING; a foreign key refuses purged documents.
EnqueueEmbedding(e) ==
    /\ enqueuer[e].pc = "enqueue"
    /\ document.status # "PURGED"
    /\ job' = IF job.status = "NONE" THEN QueuedJob(job.id + 1) ELSE job
    /\ AskOn(e, "mark")
    /\ UNCHANGED <<document, chunks, vectors, embedder, remover, requests, mishaps, overtaken>>

MarkQueued(e) ==
    /\ enqueuer[e].pc = "mark"
    /\ document' = IF Stays THEN [document EXCEPT !.embedding = "QUEUED"] ELSE document
    /\ AskEnds(e)
    /\ UNCHANGED <<chunks, job, vectors, embedder, remover, requests, mishaps, overtaken>>

EnqueuerFault(e) ==
    /\ enqueuer[e].pc # "idle"
    /\ AskThrows(e) \/ (AskEnds(e) /\ UNCHANGED document)
    /\ Mishap
    /\ UNCHANGED <<chunks, job, vectors, embedder, remover, requests, overtaken>>

-----------------------------------------------------------------------------
\* reprocessDocument, deleteDocument and cleanupDeletedDocuments.
Removing(r, pc, what) == remover' = [remover EXCEPT ![r] = [pc |-> pc, what |-> what]]
RemoverGoes(r, pc) == Removing(r, pc, remover[r].what)
RemoverEnds(r) == remover' = [remover EXCEPT ![r] = IdleRemover]

\* A worker in between is overtaken.
Overtakes == overtaken' = (overtaken \/ Working # {})

StartReprocessing(r) ==
    /\ remover[r] = IdleRemover
    /\ document.status = "COMPLETED"
    /\ Request
    /\ Removing(r, "job", "reprocess")
    /\ UNCHANGED <<document, chunks, job, vectors, embedder, enqueuer, mishaps, overtaken>>

DeleteDocument(r) ==
    /\ remover[r] = IdleRemover
    /\ Stays
    /\ Request
    /\ document' = [document EXCEPT !.status = "DELETED"]
    /\ Removing(r, "job", "delete")
    /\ Overtakes
    /\ UNCHANGED <<chunks, job, vectors, embedder, enqueuer, mishaps>>

StartCleanup(r) ==
    /\ remover[r] = IdleRemover
    /\ document.status = "DELETED"
    /\ Removing(r, "files", "cleanup")
    /\ UNCHANGED <<document, chunks, job, vectors, embedder, enqueuer, requests, mishaps, overtaken>>

RemoveEmbeddingJob(r) ==
    /\ remover[r].pc = "job"
    /\ job' = NoEmbeddingJob(job.id)
    /\ RemoverGoes(r, "vectors")
    /\ Overtakes
    /\ UNCHANGED <<document, chunks, vectors, embedder, enqueuer, requests, mishaps>>

DeleteVectors(r) ==
    /\ remover[r].pc = "vectors"
    /\ vectors' = [k \in Chunk |-> 0]
    /\ CASE remover[r].what = "reprocess" -> RemoverGoes(r, "reset")
         [] remover[r].what = "cleanup" -> RemoverGoes(r, "purge")
         [] OTHER -> RemoverEnds(r)
    /\ Overtakes
    /\ UNCHANGED <<document, chunks, job, embedder, enqueuer, requests, mishaps>>

\* Mutation: the embedding is left as it was.
ResetStatusOnly == [document EXCEPT !.status = "QUEUED"]

\* The worker and its token stay in the row.
ResetDocument == [document EXCEPT !.status = "QUEUED", !.embedding = "PENDING", !.hash = 0]

Reset(r) ==
    /\ remover[r].pc = "reset"
    /\ IF document.status = "COMPLETED"
       THEN document' = ResetDocument /\ RemoverGoes(r, "files")
       ELSE RemoverEnds(r) /\ UNCHANGED document
    /\ Overtakes
    /\ UNCHANGED <<chunks, job, vectors, embedder, enqueuer, requests, mishaps>>

DeleteChunks(r) ==
    /\ remover[r].pc = "files"
    /\ chunks' = 0
    /\ IF remover[r].what = "cleanup" THEN RemoverGoes(r, "job") ELSE RemoverEnds(r)
    /\ UNCHANGED <<document, job, vectors, embedder, enqueuer, requests, mishaps, overtaken>>

\* hardDelete; job and vectors go with the row.
Purge(r) ==
    /\ remover[r].pc = "purge"
    /\ document' = [document EXCEPT !.status = "PURGED"]
    /\ job' = NoEmbeddingJob(job.id)
    /\ vectors' = [k \in Chunk |-> 0]
    /\ RemoverEnds(r)
    /\ Overtakes
    /\ UNCHANGED <<chunks, embedder, enqueuer, requests, mishaps>>

RemoverFault(r) ==
    /\ remover[r] # IdleRemover
    /\ RemoverEnds(r)
    /\ Mishap
    /\ overtaken' = TRUE
    /\ UNCHANGED <<document, chunks, job, vectors, embedder, enqueuer, requests>>

EmbeddingNext ==
    \/ \E w \in Embedder : ClaimJob(w) \/ EmbedderStep(w) \/ EmbedderFault(w)
    \/ \E e \in Enqueuer :
          \/ CompleteDocument(e) \/ RequestReindex(e) \/ LookAtDocument(e) \/ CompareChunks(e)
          \/ EnqueueEmbedding(e) \/ MarkQueued(e) \/ EnqueuerFault(e)
    \/ \E r \in Remover :
          \/ StartReprocessing(r) \/ DeleteDocument(r) \/ StartCleanup(r)
          \/ RemoveEmbeddingJob(r) \/ DeleteVectors(r) \/ Reset(r) \/ DeleteChunks(r)
          \/ Purge(r) \/ RemoverFault(r)
    \/ SaveExtracted \/ JobRipens \/ EmbeddingLeaseLapses

EmbeddingSpec == EmbeddingInit /\ [][EmbeddingNext]_embeddingVars

\* Workers that are up keep polling and their calls return; JobRipens is time's part.
EmbeddersGoOn == \E w \in Embedder : ClaimJob(w) \/ EmbedderStep(w)

-----------------------------------------------------------------------------
\* State keeps its shape.
EmbeddingTypeOK ==
    /\ document \in [status : {"QUEUED", "COMPLETED", "DELETED", "PURGED"}, embedding : EmbeddingStatus,
                     hash : Generation \cup {0}, worker : Embedder \cup {Nobody}, token : Nat]
    /\ chunks \in Generation \cup {0}
    /\ job \in [id : Nat, status : {"NONE", "QUEUED", "PROCESSING"},
                owner : Embedder \cup {Nobody}, token : Nat, due : BOOLEAN]
    /\ vectors \in [Chunk -> Generation \cup {0}]
    /\ \A w \in Embedder : embedder[w].todo \subseteq Chunk
    /\ mishaps \in 0..MaxMishaps /\ requests \in 0..MaxRequests

\* What the search relies on: a document it may search has the vectors of its
\* chunks, and of nothing else.
Embedded == vectors = [k \in Chunk |-> IF k \in ChunksOf[chunks] THEN chunks ELSE 0]

Searchable ==
    document.status = "COMPLETED" /\ document.embedding = "COMPLETED" /\ document.hash = chunks

Undisturbed == ~ overtaken /\ \A r \in Remover : remover[r] = IdleRemover

\* However often workers die or fail half-way, and whoever enqueues meanwhile: a
\* document embedded with its present chunks has exactly their vectors, unless a
\* worker was overtaken by its lease or by a removal, or a removal was cut short.
EmbeddedUnlessOvertaken == Undisturbed /\ Searchable => Embedded

\* The job is done, given up or removed; so it ends when the requests have stopped.
EmbeddingIsOver == job.status = "NONE"
=============================================================================
