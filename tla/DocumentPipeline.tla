-------------------------- MODULE DocumentPipeline --------------------------
(***************************************************************************)
(* Document processing as a whole: the lease queue (FencedQueue), the      *)
(* metadata rows and files (DocumentStore), the workers (DocumentWorker)   *)
(* and the requests (DocumentRequests), all running at once.               *)
(***************************************************************************)
EXTENDS DocumentWorker, DocumentRequests

vars == <<queueVars, storeVars, wk, rq>>

\* Some uploads were answered 202 before we look: such a document is QUEUED, its
\* original is stored and its job is ready.
AcceptedAlready(accepted) ==
    /\ \E f \in [accepted -> JobId] :
          /\ \A d, e \in accepted : f[d] = f[e] => d = e
          /\ index = [d \in Document |-> IF d \in accepted THEN f[d] ELSE None]
          /\ job = [j \in JobId |->
                      IF \E d \in accepted : f[d] = j
                      THEN [phase |-> "ready", worker |-> None, token |-> 0,
                            document |-> CHOOSE d \in accepted : f[d] = j]
                      ELSE NoJob("absent")]
    /\ meta = [d \in Document |-> NewRow(IF d \in accepted THEN "QUEUED" ELSE "ABSENT")]
    /\ original = [d \in Document |-> d \in accepted]

Init ==
    /\ \E accepted \in SUBSET Document : AcceptedAlready(accepted)
    /\ removing = [c \in Client |-> None]
    /\ text = [d \in Document |-> FALSE]
    /\ chunks = [d \in Document |-> FALSE]
    /\ left = Allowance
    /\ wk = [w \in Worker |-> IdleWorker]
    /\ rq = [c \in Client |-> IdleRequest]

WorkerNext(w) == WorkerStep(w) /\ UNCHANGED rq
RequestNext(c) == RequestStep(c) /\ UNCHANGED wk
TimeNext(j) == (LeaseLapses(j) \/ RetryDue(j)) /\ UNCHANGED rq

Next ==
    \/ \E w \in Worker : WorkerNext(w)
    \/ \E w \in Worker : (Heartbeat(w) \/ WorkerCrash(w)) /\ UNCHANGED rq
    \/ \E c \in Client : RequestNext(c)
    \/ \E c \in Client : Interrupt(c) /\ UNCHANGED wk
    \/ \E j \in JobId : TimeNext(j)

Spec == Init /\ [][Next]_vars

\* runDocumentWorkerLoop polls for ever and each worker's awaits return; time
\* passes.  Nothing is assumed of requests, heartbeats or crashes.
Fairness ==
    /\ WF_vars(\E w \in Worker : WorkerNext(w))
    /\ WF_vars(\E j \in JobId : TimeNext(j))

-----------------------------------------------------------------------------
\* Every variable holds a value the code could have put there.
TypeOK ==
    /\ StoreTypeOK
    /\ index \in [Document -> JobId \cup {None}]
    /\ job \in [JobId -> Job]
    /\ removing \in [Client -> {None} \cup [document : Document, job : JobId]]
    /\ wk \in [Worker -> WorkerState]
    /\ rq \in [Client -> RequestState]

\* document-processing-state.ts: however requests, workers, crashes and
\* restarts interleave, a stored document only moves along ALLOWED_TRANSITIONS;
\* in particular a deleted one never comes back.  (The code checks the table
\* against the statuses an update expects, not against the row it changes.)
LegalTransitions ==
    [][\A d \in Document :
         Visible(d) /\ meta'[d].status # meta[d].status
           => meta'[d].status \in AllowedTransitions[meta[d].status]]_vars

\* docs/QUEUE_OPERATIONS.md:27 "A worker that lost the lease must abandon
\* completion": a document is never completed by a worker after a later claim
\* of the same job has begun to process it, although the lease check and the
\* completing update are two calls and Begin is not fenced.
NoStaleCompletion ==
    [][\A w \in Worker :
         wk[w].pc = "complete" /\ wk'[w].pc # "complete" /\ meta' # meta
           => \A v \in Worker :
                 wk[v].job = wk[w].job /\ wk[v].token > wk[w].token
                   => wk[v].pc \in BeforeFence \cup {"ack"}]_vars

\* No insert of an upload was committed without its answer being heard.
AllHeard == left["unheard"] = Allowance["unheard"]

\* document-services.ts, upload/route.ts: the original outlives the row's whole
\* visible life; no failed or interrupted upload and no cleanup leaves a row
\* whose original is gone (the worker would fail it with ORIGINAL_NOT_FOUND).  Not
\* so once the answer to a committed insert was lost: upload/route.ts:114-117 then
\* deletes the original of a row that exists.
RowHasOriginal == AllHeard => \A d \in Document : Visible(d) => original[d]

\* Nobody is working on the document.
Quiet(d) ==
    /\ \A w \in Worker : wk[w].document # d
    /\ \A c \in Client : rq[c].document # d

\* Once a document is purged and the last worker that had it in hand is done,
\* no file of it is left, even if that worker was saving derivatives while the
\* cleanup deleted them.  (Checked without crashes and failing storage calls.)
PurgedLeavesNothing ==
    \A d \in Document :
        meta[d].status = "PURGED" /\ Quiet(d)
          => ~ original[d] /\ ~ text[d] /\ ~ chunks[d]

\* Both together: the files of a document follow its row.
FilesFollowRows == RowHasOriginal /\ PurgedLeavesNothing

\* docs/DOCUMENT_PROCESSING.md:12,64: a document waiting for or in processing
\* has a job that some worker can still get, whatever workers do and wherever
\* they crash, deletions included.  (With requests that enqueue it does not hold.)
WorkIsRecoverable ==
    \A d \in Document :
        meta[d].status \in {"QUEUED", "PROCESSING"}
          => \E j \in JobId : Live(j) /\ job[j].document = d

\* Processing ends: whenever a document is queued or in processing, it is
\* eventually completed, failed, quarantined or deleted, in spite of crashes,
\* lost leases and retries.
ProcessingEnds ==
    \A d \in Document : []<>(meta[d].status \notin {"QUEUED", "PROCESSING"})

-----------------------------------------------------------------------------
(* What the documentation says and the code does not do. *)

\* docs/DOCUMENT_PROCESSING.md:14 "COMPLETED: text and chunks fully saved".
CompletedHasDerivatives ==
    \A d \in Document : meta[d].status = "COMPLETED" => text[d] /\ chunks[d]

\* docs/DOCUMENT_PROCESSING.md:12 "QUEUED: an idempotent job is available or
\* waits for nextRetryAt".
QueuedHasJob ==
    \A d \in Document :
        meta[d].status = "QUEUED" => \E j \in JobId : Live(j) /\ job[j].document = d
=============================================================================
