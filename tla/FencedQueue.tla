---------------------------- MODULE FencedQueue ----------------------------
(***************************************************************************)
(* What a lease queue of the platform promises its workers, without        *)
(* clocks, scores or index keys: a job of a document is handed to one      *)
(* worker at a time, every hand-over carries a greater fencing token, and  *)
(* only the worker that holds the current, unexpired lease may finish or   *)
(* return the job.  Renewing a lease changes nothing that is visible here. *)
(*                                                                         *)
(* It is the contract of DocumentProcessingQueue in                        *)
(* apps/web/lib/document-processing-queue.ts.  LeaseQueue (the Redis       *)
(* scripts) implements it, and DocumentPipeline is built on top of it.     *)
(***************************************************************************)
EXTENDS Integers

CONSTANTS Document,  \* the documents of one tenant
          JobId,     \* the supply of random UUIDs given to jobs
          Worker,    \* worker identities
          Client,    \* request handlers that may remove a document's job
          None       \* "no value": null, a missing hash field, no job

ASSUME NoneIsNoValue == None \notin Document \cup JobId \cup Worker

VARIABLES
    index,     \* document |-> its job, the idempotency key of enqueue
    job,       \* job id |-> phase, document, holder and fencing token
    removing   \* client |-> the index entry it read in removeForDocument

queueVars == <<index, job, removing>>

(***************************************************************************)
(* Phases of a job: never created, waiting for its availableAt, available, *)
(* held under a live lease, held under an expired lease, deleted.          *)
(***************************************************************************)
Phase == {"absent", "delayed", "ready", "held", "lapsed", "gone"}

Job == [phase : Phase, document : Document \cup {None},
        worker : Worker \cup {None}, token : Nat]

NoJob(phase) ==
    [phase |-> phase, document |-> None, worker |-> None, token |-> 0]

Live(j) == job[j].phase \in {"delayed", "ready", "held", "lapsed"}

\* The test every lease operation starts with; failing it is STALE_LEASE.
Owns(w, j, t) ==
    /\ job[j].phase = "held"
    /\ job[j].worker = w
    /\ job[j].token = t

QueueInit ==
    /\ index = [d \in Document |-> None]
    /\ job = [j \in JobId |-> NoJob("absent")]
    /\ removing = [c \in Client |-> None]

\* A fresh job, unless the document already has one.
CreateJob(d, j) ==
    /\ index[d] = None
    /\ job[j].phase = "absent"
    /\ job' = [job EXCEPT ![j] = [phase |-> "ready", document |-> d,
                                  worker |-> None, token |-> 0]]
    /\ index' = [index EXCEPT ![d] = j]
    /\ UNCHANGED removing

Claim(w, j) ==
    /\ job[j].phase \in {"ready", "lapsed"}
    /\ job' = [job EXCEPT ![j].phase = "held", ![j].worker = w,
                          ![j].token = @ + 1]
    /\ UNCHANGED <<index, removing>>

Acknowledge(w, j, t) ==
    /\ Owns(w, j, t)
    /\ index' = [index EXCEPT ![job[j].document] = None]
    /\ job' = [job EXCEPT ![j] = NoJob("gone")]
    /\ UNCHANGED removing

Release(w, j, t, phase) ==
    /\ Owns(w, j, t)
    /\ phase \in {"delayed", "ready"}
    /\ job' = [job EXCEPT ![j] = [phase |-> phase, document |-> job[j].document,
                                  worker |-> None, token |-> t]]
    /\ UNCHANGED <<index, removing>>

\* removeForDocument reads the index entry ...
LookupJob(c, d) ==
    /\ removing[c] = None
    /\ index[d] # None
    /\ removing' = [removing EXCEPT ![c] = [document |-> d, job |-> index[d]]]
    /\ UNCHANGED <<index, job>>

\* ... and, in a second round trip, drops the entry and the job it had read.
RemoveJob(c) ==
    /\ removing[c] # None
    /\ index' = [index EXCEPT ![removing[c].document] = None]
    /\ job' = [job EXCEPT ![removing[c].job] = NoJob("gone")]
    /\ removing' = [removing EXCEPT ![c] = None]

\* Leases of the jobs in L run out, retry delays of the jobs in R end.
TimePasses(L, R) ==
    /\ \A j \in L : job[j].phase = "held"
    /\ \A j \in R : job[j].phase = "delayed"
    /\ job' = [j \in JobId |->
                 IF j \in L THEN [job[j] EXCEPT !.phase = "lapsed"]
                 ELSE IF j \in R THEN [job[j] EXCEPT !.phase = "ready"]
                 ELSE job[j]]
    /\ UNCHANGED <<index, removing>>

QueueNext ==
    \/ \E d \in Document, j \in JobId : CreateJob(d, j)
    \/ \E w \in Worker, j \in JobId : Claim(w, j)
    \/ \E w \in Worker, j \in JobId : Acknowledge(w, j, job[j].token)
    \/ \E w \in Worker, j \in JobId, p \in {"delayed", "ready"} :
          Release(w, j, job[j].token, p)
    \/ \E c \in Client, d \in Document : LookupJob(c, d)
    \/ \E c \in Client : RemoveJob(c)
    \/ \E L, R \in SUBSET JobId : TimePasses(L, R)

QueueSpec == QueueInit /\ [][QueueNext]_queueVars
=============================================================================
