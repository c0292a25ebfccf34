-------------------------- MODULE DocumentRequests --------------------------
(***************************************************************************)
(* The requests of users and administrators that change a document while   *)
(* workers run: upload, reprocess, retry, resolve, permanently fail,       *)
(* delete, and the cleanup of deleted documents.  Each is a sequence of    *)
(* awaits, run by one Client (request handler or operations script), and   *)
(* any of them may be cut off between two awaits.                          *)
(***************************************************************************)
EXTENDS DocumentStore

CONSTANT Operations  \* the operations requested in a run

AllOperations == {"upload", "reprocess", "retry", "resolve", "fail", "delete", "cleanup"}

ASSUME OperationsAssumption == Operations \subseteq AllOperations

VARIABLE rq  \* client |-> where it is in its request and its local variables

RequestPc == {"idle", "create", "find", "enqueue", "enqueueOnly", "apply", "remove1",
              "removing1", "remove2", "removing2", "uploadFailed", "dropText",
              "dropChunks", "purgeOriginal", "purgeText", "purgeChunks", "purgeRow"}

RequestState == [pc : RequestPc, op : AllOperations \cup {None},
                 document : Document \cup {None},
                 seen : Status,         \* document.status as findById returned it
                 enqueued : BOOLEAN]    \* did enqueue create a job

IdleRequest == [pc |-> "idle", op |-> None, document |-> None,
                seen |-> "ABSENT", enqueued |-> FALSE]

Step(c, pc) == rq' = [rq EXCEPT ![c].pc = pc]
Done(c) == rq' = [rq EXCEPT ![c] = IdleRequest]

RqDoc(c) == rq[c].document
SeenStatus(c) == rq[c].seen

\* An upload stores the original first; the other operations start by reading.
Start(c, op, d) ==
    /\ rq[c].pc = "idle"
    /\ Spend("request")
    /\ op = "upload" => meta[d].status = "ABSENT" /\ ~ original[d]
    /\ original' = [original EXCEPT ![d] = @ \/ op = "upload"]
    /\ rq' = [rq EXCEPT ![c] = [IdleRequest EXCEPT !.op = op, !.document = d,
                                  !.pc = IF op = "upload" THEN "create" ELSE "find"]]
    /\ UNCHANGED <<queueVars, meta, text, chunks>>

InsertRow(c) == meta' = [meta EXCEPT ![RqDoc(c)] = NewRow("UPLOADED")]

\* metadata.create; when it throws the original is deleted again, even if the row
\* was inserted and only the answer lost.
Create(c) ==
    /\ rq[c].pc = "create"
    /\ \/ InsertRow(c) /\ Step(c, "find") /\ UNCHANGED <<original, left>>
       \/ /\ \/ Spend("interrupt") /\ UNCHANGED meta
             \/ Spend("unheard") /\ InsertRow(c)
          /\ original' = [original EXCEPT ![RqDoc(c)] = FALSE]
          /\ Done(c)
    /\ UNCHANGED <<queueVars, text, chunks>>

\* Mutation: cleanup does not look at deletedAt.
CleansUpAny(status) == status \in Stored \cup {"DELETED"}

CleansUp(status) == status = "DELETED"

\* What each operation does with the status it finds.
AfterFind(op, status) ==
    CASE op \in {"upload", "reprocess"} /\ status = "QUEUED" -> "enqueueOnly"
      [] op = "reprocess" /\ status = "UPLOADED" -> "enqueueOnly"
      [] op = "upload" /\ status = "UPLOADED" -> "enqueue"
      [] op = "reprocess" /\ status \in {"COMPLETED", "FAILED", "QUARANTINED"} -> "enqueue"
      [] op = "retry" /\ status \in {"FAILED", "QUARANTINED"} -> "enqueue"
      [] op = "delete" /\ status \in Stored -> "apply"
      [] op = "fail" -> "apply"
      [] op = "cleanup" /\ CleansUp(status) -> "purgeOriginal"
      [] OTHER -> "idle"

\* findById (listDeleted in cleanup); resolve reads the derivatives instead.
Find(c) ==
    /\ rq[c].pc = "find"
    /\ LET d == RqDoc(c)
           next == IF rq[c].op = "resolve"
                   THEN IF text[d] /\ chunks[d] THEN "apply" ELSE "idle"
                   ELSE AfterFind(rq[c].op, meta[d].status)
       IN  IF next = "idle"
           THEN Done(c)
           ELSE rq' = [rq EXCEPT ![c].pc = next, ![c].seen = meta[d].status]
    /\ UNCHANGED <<queueVars, storeVars>>

\* queue.enqueue, before the metadata says QUEUED.  When it throws, the job may be
\* there and nobody remembers it.
Enqueue(c) ==
    /\ rq[c].pc \in {"enqueue", "enqueueOnly"}
    /\ LET d == RqDoc(c)
           next == IF rq[c].pc = "enqueue" THEN "apply" ELSE "idle"
       IN  \/ /\ \E j \in JobId : CreateJob(d, j)
              /\ rq' = IF next = "idle" THEN [rq EXCEPT ![c] = IdleRequest]
                       ELSE [rq EXCEPT ![c].pc = next, ![c].enqueued = TRUE]
              /\ UNCHANGED left
           \/ /\ index[d] # None
              /\ IF next = "idle" THEN Done(c) ELSE Step(c, next)
              /\ UNCHANGED <<queueVars, left>>
           \/ /\ Spend("interrupt")
              /\ IF rq[c].op = "upload" /\ rq[c].pc = "enqueue"
                 THEN Step(c, "uploadFailed")
                 ELSE Done(c)
              /\ UNCHANGED queueVars \/ \E j \in JobId : CreateJob(d, j)
    /\ UNCHANGED <<meta, files>>

\* Statuses the conditional update of the operation accepts, and its result.
Expected(c) ==
    CASE rq[c].op = "upload" -> {"UPLOADED"}
      [] rq[c].op = "retry" -> {"FAILED", "QUARANTINED"}
      [] rq[c].op \in {"resolve", "fail"} -> {"QUARANTINED"}
      [] OTHER -> {SeenStatus(c)}

Target(op) ==
    CASE op \in {"upload", "reprocess", "retry"} -> "QUEUED"
      [] op = "resolve" -> "COMPLETED"
      [] op = "fail" -> "FAILED"
      [] OTHER -> "DELETED"

AfterSuccess(op) ==
    CASE op = "reprocess" -> "dropText"
      [] op = "delete" -> "remove2"
      [] OTHER -> "idle"

\* The update found another status: what was enqueued is removed again; upload
\* does it once here and once more in its catch block.
AfterConflict(c) ==
    CASE rq[c].op = "upload" -> IF rq[c].enqueued THEN "remove1" ELSE "uploadFailed"
      [] rq[c].op \in {"reprocess", "retry"} /\ rq[c].enqueued -> "remove2"
      [] OTHER -> "idle"

\* The database call itself threw: reprocess has no catch block.
AfterException(c) ==
    CASE rq[c].op = "upload" -> IF rq[c].enqueued THEN "remove2" ELSE "uploadFailed"
      [] rq[c].op = "retry" /\ rq[c].enqueued -> "remove2"
      [] OTHER -> "idle"

Continue(c, pc) == IF pc = "idle" THEN Done(c) ELSE Step(c, pc)

\* Mutation: the update applies whatever the status has become.
ApplicableAlways(c) == Visible(RqDoc(c))

Applicable(c) == meta[RqDoc(c)].status \in Expected(c)

ApplyToRow(c) == Applicable(c) /\ Transition(RqDoc(c), Status, Target(rq[c].op))

\* The conditional transition of the operation; one that throws may be committed.
Apply(c) ==
    /\ rq[c].pc = "apply"
    /\ \/ /\ ApplyToRow(c)
          /\ Continue(c, AfterSuccess(rq[c].op))
          /\ UNCHANGED left
       \/ /\ ~ Applicable(c)
          /\ Continue(c, AfterConflict(c))
          /\ UNCHANGED <<meta, left>>
       \/ /\ Spend("interrupt")
          /\ ApplyToRow(c) \/ UNCHANGED meta
          /\ Continue(c, AfterException(c))
    /\ UNCHANGED <<queueVars, files>>

AfterRemove(c) ==
    IF rq[c].pc \in {"remove1", "removing1"} THEN "remove2"
    ELSE IF rq[c].op = "upload" THEN "uploadFailed" ELSE "idle"

\* queue.removeForDocument, first round trip; nothing to do without an entry.
Remove(c) ==
    /\ rq[c].pc \in {"remove1", "remove2"}
    /\ \/ /\ LookupJob(c, RqDoc(c))
          /\ Step(c, IF rq[c].pc = "remove1" THEN "removing1" ELSE "removing2")
       \/ /\ index[RqDoc(c)] = None
          /\ Continue(c, AfterRemove(c))
          /\ UNCHANGED queueVars
    /\ UNCHANGED storeVars

\* queue.removeForDocument, second round trip.
Removing(c) ==
    /\ rq[c].pc \in {"removing1", "removing2"}
    /\ RemoveJob(c)
    /\ Continue(c, AfterRemove(c))
    /\ UNCHANGED storeVars

\* The catch block of enqueueUploadedDocument: UPLOADED -> FAILED, if still so.
UploadFailed(c) ==
    /\ rq[c].pc = "uploadFailed"
    /\ IF meta[RqDoc(c)].status = "UPLOADED"
       THEN meta' = [meta EXCEPT ![RqDoc(c)].status = "FAILED"]
       ELSE UNCHANGED meta
    /\ Done(c)
    /\ UNCHANGED <<queueVars, files, left>>

\* reprocessDocument and cleanupDeletedDocuments delete files one by one; an
\* exception ends the request with the rest undone.
DeleteFile(c) ==
    LET d == RqDoc(c) IN
    /\ \/ /\ rq[c].pc = "purgeOriginal"
          /\ original' = [original EXCEPT ![d] = FALSE]
          /\ Step(c, "purgeText")
          /\ UNCHANGED <<text, chunks>>
       \/ /\ rq[c].pc \in {"purgeText", "dropText"}
          /\ text' = [text EXCEPT ![d] = FALSE]
          /\ Step(c, IF rq[c].pc = "dropText" THEN "dropChunks" ELSE "purgeChunks")
          /\ UNCHANGED <<original, chunks>>
       \/ /\ rq[c].pc \in {"purgeChunks", "dropChunks"}
          /\ chunks' = [chunks EXCEPT ![d] = FALSE]
          /\ Continue(c, IF rq[c].pc = "dropChunks" THEN "idle" ELSE "purgeRow")
          /\ UNCHANGED <<original, text>>
    /\ UNCHANGED <<queueVars, meta, left>>

\* metadata.hardDelete
PurgeRow(c) ==
    /\ rq[c].pc = "purgeRow"
    /\ IF meta[RqDoc(c)].status = "DELETED"
       THEN meta' = [meta EXCEPT ![RqDoc(c)] = NewRow("PURGED")]
       ELSE UNCHANGED meta
    /\ Done(c)
    /\ UNCHANGED <<queueVars, files, left>>

\* The process that serves the request dies, or a storage or queue call throws
\* where no catch block follows.
Interrupt(c) ==
    /\ rq[c].pc # "idle"
    /\ Spend("interrupt")
    /\ Done(c)
    /\ removing' = [removing EXCEPT ![c] = None]
    /\ UNCHANGED <<index, job, meta, files>>

RequestStep(c) ==
    \/ \E op \in Operations, d \in Document : Start(c, op, d)
    \/ Create(c) \/ Find(c) \/ Enqueue(c) \/ Apply(c)
    \/ Remove(c) \/ Removing(c) \/ UploadFailed(c)
    \/ DeleteFile(c) \/ PurgeRow(c)
=============================================================================
