--------------------------- MODULE DocumentStore ---------------------------
(***************************************************************************)
(* What the document processing code keeps outside its queue: the metadata *)
(* row of every document (PostgreSQLDocumentMetadataRepository), its       *)
(* original file and its two derivatives, the extracted text and the       *)
(* chunks (LocalDocumentProcessingRepository over DocumentStorage).        *)
(*                                                                         *)
(* A row's conditional update is one SQL statement, hence one step.  Files *)
(* are written and deleted one by one.  What a file contains does not      *)
(* matter here, extraction is deterministic: only whether it exists.       *)
(***************************************************************************)
EXTENDS FencedQueue

CONSTANTS MaxAttempts,  \* DOCUMENT_PROCESSING_MAX_ATTEMPTS
          Allowance     \* bound: how often each disturbance happens in a run

\* A worker process dies; the lease of a running worker lapses; a call of a worker
\* throws; a request arrives; a request dies or a call of it throws; the insert of
\* an upload is committed and its answer lost.
Disturbance == {"crash", "lapse", "fault", "request", "interrupt", "unheard"}

ASSUME StoreAssumption ==
    /\ MaxAttempts \in Nat \ {0}
    /\ Allowance \in [Disturbance -> Nat]

VARIABLES
    meta,      \* document |-> its metadata row
    original,  \* document |-> does the original file exist
    text,      \* document |-> does <id>.txt exist
    chunks,    \* document |-> does <id>.json exist
    left       \* how much of the allowance is left

files == <<original, text, chunks>>
storeVars == <<meta, original, text, chunks, left>>

\* DOCUMENT_PROCESSING_STATUSES, before the row is created and after it is
\* hard-deleted.  Ids are random UUIDs: a purged document does not come back.
Stored == {"UPLOADED", "QUEUED", "PROCESSING", "COMPLETED", "FAILED", "QUARANTINED"}
Status == Stored \cup {"ABSENT", "DELETED", "PURGED"}

Row == [status : Status,
        worker : Worker \cup {None},  \* workerId
        token : Nat,                  \* processingFencingToken
        attempts : Nat]               \* processingAttempts

NewRow(status) == [status |-> status, worker |-> None, token |-> 0, attempts |-> 0]

\* ALLOWED_TRANSITIONS of document-processing-state.ts.
AllowedTransitions ==
    [UPLOADED    |-> {"QUEUED", "FAILED", "QUARANTINED", "DELETED"},
     QUEUED      |-> {"PROCESSING", "FAILED", "QUARANTINED", "DELETED"},
     PROCESSING  |-> {"PROCESSING", "QUEUED", "COMPLETED", "FAILED", "QUARANTINED", "DELETED"},
     COMPLETED   |-> {"QUEUED", "DELETED"},
     FAILED      |-> {"QUEUED", "QUARANTINED", "DELETED"},
     QUARANTINED |-> {"QUEUED", "COMPLETED", "FAILED", "DELETED"}]

\* findById and every conditional update skip rows with deletedAt set.
Visible(d) == meta[d].status \in Stored

\* The lease guard of transitionStatus.
Fenced(d, w, t) == meta[d].worker = w /\ meta[d].token = t

\* transitionStatus that succeeds: fencing token and attempts stay unless the
\* changes name them, workerId becomes null in every transition modelled here
\* but the claim.
Transition(d, expected, next) ==
    /\ meta[d].status \in expected
    /\ meta' = [meta EXCEPT ![d].status = next, ![d].worker = None]

Spend(kind) == left[kind] > 0 /\ left' = [left EXCEPT ![kind] = @ - 1]

StoreTypeOK ==
    /\ meta \in [Document -> Row]
    /\ original \in [Document -> BOOLEAN]
    /\ text \in [Document -> BOOLEAN]
    /\ chunks \in [Document -> BOOLEAN]
    /\ left \in [Disturbance -> Nat]
=============================================================================
