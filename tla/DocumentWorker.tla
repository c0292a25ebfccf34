--------------------------- MODULE DocumentWorker ---------------------------
(***************************************************************************)
(* DefaultDocumentProcessingWorker.runOnce, one action per await that      *)
(* reads or writes shared state.  A worker takes one job at a time; an     *)
(* exception that leaves runOnce ends the process, which is started again, *)
(* so it is the same as going back to "idle".                              *)
(***************************************************************************)
EXTENDS DocumentStore

VARIABLE wk  \* worker |-> where it is in runOnce and its local variables

WorkerPc == {"idle", "lookup", "accept", "begin", "extract", "saveText", "saveChunks",
             "assert", "complete", "conflictText", "conflictChunks", "undoText",
             "undoChunks", "settle", "release", "ack"}

\* heartbeat.start .. the last point where a lost heartbeat is looked at.
HeartbeatPc == {"extract", "saveText", "saveChunks", "assert"}

\* Not yet written its fence into the metadata row.
BeforeFence == {"idle", "lookup", "accept", "begin"}

WorkerState == [pc : WorkerPc, document : Document \cup {None},
                job : JobId \cup {None}, token : Nat,
                attempts : Nat,   \* document.processingAttempts as it was read
                lost : BOOLEAN,   \* WorkerLeaseHeartbeat.lostError
                error : {"none", "retryable", "permanent"}]

IdleWorker == [pc |-> "idle", document |-> None, job |-> None, token |-> 0,
               attempts |-> 0, lost |-> FALSE, error |-> "none"]

Goto(w, pc) == wk' = [wk EXCEPT ![w].pc = pc]
Throw(w) == wk' = [wk EXCEPT ![w] = IdleWorker]
Fail(w, error, pc) == wk' = [wk EXCEPT ![w].error = error, ![w].pc = pc]

Doc(w) == wk[w].document
HoldsFence(w) == Fenced(Doc(w), w, wk[w].token)
HoldsLease(w) == Owns(w, wk[w].job, wk[w].token)

ClaimJob(w, j) ==
    /\ wk[w].pc = "idle"
    /\ Claim(w, j)
    /\ wk' = [wk EXCEPT ![w] = [IdleWorker EXCEPT !.pc = "lookup", !.job = j,
                                  !.document = job[j].document,
                                  !.token = job[j].token + 1]]
    /\ UNCHANGED storeVars

\* Mutation: an abandoned PROCESSING is not taken over.
TakenUpOnlyQueued == {"QUEUED"}

TakenUp == {"QUEUED", "PROCESSING"}

\* metadata.findById: a vanished or terminal document's job is acknowledged.
LookUp(w) ==
    /\ wk[w].pc = "lookup"
    /\ wk' = [wk EXCEPT ![w].attempts = meta[Doc(w)].attempts,
                        ![w].pc = CASE meta[Doc(w)].status = "UPLOADED" -> "accept"
                                    [] meta[Doc(w)].status \in TakenUp -> "begin"
                                    [] OTHER -> "ack"]
    /\ UNCHANGED <<queueVars, storeVars>>

\* The worker was faster than the upload request: UPLOADED -> QUEUED.
Accept(w) ==
    /\ wk[w].pc = "accept"
    /\ IF meta[Doc(w)].status = "UPLOADED"
       THEN /\ meta' = [meta EXCEPT ![Doc(w)].status = "QUEUED"]
            /\ wk' = [wk EXCEPT ![w].attempts = meta[Doc(w)].attempts, ![w].pc = "begin"]
       ELSE Goto(w, "ack") /\ UNCHANGED meta
    /\ UNCHANGED <<queueVars, files, left>>

BeginFrom == {"QUEUED", "PROCESSING"}

\* Mutation: the counter runs backwards.
PreviousAttempt(w) == wk[w].attempts - 1

NextAttempt(w) == wk[w].attempts + 1

\* QUEUED or an abandoned PROCESSING becomes this worker's PROCESSING.  The
\* update has no lease guard: it only looks at the status.
Begin(w) ==
    /\ wk[w].pc = "begin"
    /\ IF meta[Doc(w)].status \in BeginFrom
       THEN /\ meta' = [meta EXCEPT ![Doc(w)] =
                          [status |-> "PROCESSING", worker |-> w, token |-> wk[w].token,
                           attempts |-> NextAttempt(w)]]
            /\ wk' = [wk EXCEPT ![w].attempts = NextAttempt(w), ![w].pc = "extract"]
       ELSE Goto(w, "ack") /\ UNCHANGED meta
    /\ UNCHANGED <<queueVars, files, left>>

\* Reading the original and extracting it: both may fail, for good or not.
Extract(w) ==
    /\ wk[w].pc = "extract"
    /\ IF original[Doc(w)]
       THEN \/ Goto(w, "saveText") /\ UNCHANGED left
            \/ Spend("fault") /\ \E e \in {"retryable", "permanent"} : Fail(w, e, "undoText")
       ELSE Fail(w, "permanent", "undoText") /\ UNCHANGED left
    /\ UNCHANGED <<queueVars, meta, files>>

\* processing.save writes the text, then the chunks, without looking at the fence.
SaveText(w) ==
    /\ wk[w].pc = "saveText"
    /\ \/ /\ text' = [text EXCEPT ![Doc(w)] = TRUE]
          /\ Goto(w, "saveChunks")
          /\ UNCHANGED left
       \/ /\ Spend("fault")
          /\ Fail(w, "retryable", "undoText")
          /\ UNCHANGED text
    /\ UNCHANGED <<queueVars, meta, original, chunks>>

SaveChunks(w) ==
    /\ wk[w].pc = "saveChunks"
    /\ \/ /\ chunks' = [chunks EXCEPT ![Doc(w)] = TRUE]
          /\ Goto(w, "assert")
          /\ UNCHANGED left
       \/ /\ Spend("fault")
          /\ Fail(w, "retryable", "undoText")
          /\ UNCHANGED chunks
    /\ UNCHANGED <<queueVars, meta, original, text>>

\* heartbeat.assertOwned: a failed renewal was remembered, or the queue says no.
AssertOwned(w) ==
    /\ wk[w].pc = "assert"
    /\ IF ~ wk[w].lost /\ HoldsLease(w)
       THEN Goto(w, "complete")
       ELSE Fail(w, "retryable", "undoText")
    /\ UNCHANGED <<queueVars, storeVars>>

\* Mutation: the completing update does not carry the lease guard.
MayCompleteUnguarded(w) == meta[Doc(w)].status = "PROCESSING"

MayComplete(w) == meta[Doc(w)].status = "PROCESSING" /\ HoldsFence(w)

CompleteRow(w) == MayComplete(w) /\ Transition(Doc(w), {"PROCESSING"}, "COMPLETED")

\* PROCESSING -> COMPLETED under the lease guard, or PROCESSING_STATE_CONFLICT.  An
\* update that throws, committed or not, goes to the catch block.
Complete(w) ==
    /\ wk[w].pc = "complete"
    /\ \/ CompleteRow(w) /\ Goto(w, "ack") /\ UNCHANGED left
       \/ ~ MayComplete(w) /\ Fail(w, "retryable", "conflictText") /\ UNCHANGED <<meta, left>>
       \/ /\ Spend("fault")
          /\ CompleteRow(w) \/ UNCHANGED meta
          /\ Fail(w, "retryable", "undoText")
    /\ UNCHANGED <<queueVars, files>>

\* processing.delete, first file: after a conflict an exception is one more
\* failure, in the catch block it is ignored.
DeleteText(w) ==
    /\ wk[w].pc \in {"conflictText", "undoText"}
    /\ LET undoing == wk[w].pc = "undoText"
       IN  \/ /\ text' = [text EXCEPT ![Doc(w)] = FALSE]
              /\ Goto(w, IF undoing THEN "undoChunks" ELSE "conflictChunks")
              /\ UNCHANGED left
           \/ /\ Spend("fault")
              /\ Goto(w, IF undoing THEN "settle" ELSE "undoText")
              /\ UNCHANGED text
    /\ UNCHANGED <<queueVars, meta, original, chunks>>

\* processing.delete, second file.
DeleteChunks(w) ==
    /\ wk[w].pc \in {"conflictChunks", "undoChunks"}
    /\ Goto(w, IF wk[w].pc = "undoChunks" THEN "settle" ELSE "undoText")
    /\ \/ chunks' = [chunks EXCEPT ![Doc(w)] = FALSE] /\ UNCHANGED left
       \/ Spend("fault") /\ UNCHANGED chunks
    /\ UNCHANGED <<queueVars, meta, original, text>>

LimitReached(attempts) == attempts >= MaxAttempts

\* decideDocumentRetry
Outcome(w) ==
    IF wk[w].error = "permanent" THEN "FAILED"
    ELSE IF LimitReached(wk[w].attempts) THEN "QUARANTINED" ELSE "QUEUED"

\* The fenced update that records the failure; without the fence it throws.
Settle(w) ==
    /\ wk[w].pc = "settle"
    /\ IF HoldsFence(w) /\ meta[Doc(w)].status = "PROCESSING"
       THEN /\ Transition(Doc(w), {"PROCESSING"}, Outcome(w))
            /\ Goto(w, IF Outcome(w) = "QUEUED" THEN "release" ELSE "ack")
       ELSE Throw(w) /\ UNCHANGED meta
    /\ UNCHANGED <<queueVars, files, left>>

\* Mutation: the job of a document to be retried is acknowledged.
AcknowledgeRetry(w) ==
    /\ wk[w].pc = "release"
    /\ Throw(w)
    /\ IF HoldsLease(w)
       THEN Acknowledge(w, wk[w].job, wk[w].token)
       ELSE UNCHANGED queueVars
    /\ UNCHANGED storeVars

\* queue.release with the backoff delay, or STALE_LEASE.
ReleaseJob(w) ==
    /\ wk[w].pc = "release"
    /\ Throw(w)
    /\ IF HoldsLease(w)
       THEN Release(w, wk[w].job, wk[w].token, "delayed")
       ELSE UNCHANGED queueVars
    /\ UNCHANGED storeVars

\* queue.acknowledge, or STALE_LEASE.
AcknowledgeJob(w) ==
    /\ wk[w].pc = "ack"
    /\ Throw(w)
    /\ IF HoldsLease(w)
       THEN Acknowledge(w, wk[w].job, wk[w].token)
       ELSE UNCHANGED queueVars
    /\ UNCHANGED storeVars

\* A heartbeat that fails: the lease is gone, or the fence is another's.  One
\* that succeeds only moves the lease's end, which FencedQueue does not show.
Heartbeat(w) ==
    /\ wk[w].pc \in HeartbeatPc
    /\ ~ wk[w].lost
    /\ ~ HoldsLease(w) \/ ~ HoldsFence(w) \/ meta[Doc(w)].status # "PROCESSING"
    /\ wk' = [wk EXCEPT ![w].lost = TRUE]
    /\ UNCHANGED <<queueVars, storeVars>>

\* The worker process dies between two steps.
WorkerCrash(w) ==
    /\ wk[w].pc # "idle"
    /\ Spend("crash")
    /\ Throw(w)
    /\ UNCHANGED <<queueVars, meta, files>>

WorkerStep(w) ==
    \/ \E j \in JobId : ClaimJob(w, j)
    \/ LookUp(w) \/ Accept(w) \/ Begin(w)
    \/ Extract(w) \/ SaveText(w) \/ SaveChunks(w)
    \/ AssertOwned(w) \/ Complete(w)
    \/ DeleteText(w) \/ DeleteChunks(w) \/ Settle(w)
    \/ ReleaseJob(w) \/ AcknowledgeJob(w)

\* A lease runs out.  While its holder still works on the job this is a stalled
\* process or a lost renewal and draws on the allowance; after the holder died
\* or threw it is only a matter of time.
Abandoned(j) ==
    ~ \E w \in Worker : wk[w].job = j /\ wk[w].token = job[j].token /\ job[j].worker = w

LeaseLapses(j) ==
    /\ TimePasses({j}, {})
    /\ IF Abandoned(j) THEN UNCHANGED left ELSE Spend("lapse")
    /\ UNCHANGED <<meta, files, wk>>

RetryDue(j) ==
    /\ TimePasses({}, {j})
    /\ UNCHANGED <<storeVars, wk>>
=============================================================================
