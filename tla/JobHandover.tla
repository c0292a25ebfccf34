---------------------------- MODULE JobHandover ----------------------------
(***************************************************************************)
(* What every lease queue of the platform keeps to, whichever of them a    *)
(* process is given: DocumentProcessingQueue in                            *)
(* apps/web/lib/document-processing-queue.ts and EmbeddingJobQueue in      *)
(* embedding-queue.ts.  A job is handed out under a token one greater than *)
(* the last, and only the lease of its last hand-over finishes or returns  *)
(* it.  When a lease may be taken away, in which order jobs are handed out *)
(* and whether a late holder is still heard is left to the implementation: *)
(* the Redis queue (LeaseQueue) refuses an expired lease, as FencedQueue   *)
(* demands, the file queue (LocalQueue) hears it until the next claim.     *)
(***************************************************************************)
EXTENDS Integers

CONSTANTS Document,  \* the documents of one tenant
          JobId,     \* the ids given to jobs
          Worker,    \* worker identities
          None       \* no document, no worker

VARIABLES
    job,     \* job id |-> state, document, holder and token
    leases   \* what the calls of claim have answered so far

handoverVars == <<job, leases>>

\* A job that is not in the queue: yet to come, or never to come back.
NoJob(state) == [state |-> state, document |-> None, worker |-> None, token |-> 0]

LeaseOf(j, w, t) == [job |-> j, worker |-> w, token |-> t]

\* The job is claimed, and this is the lease of its last hand-over.
LastLease(l) ==
    /\ job[l.job].state = "claimed"
    /\ job[l.job].worker = l.worker
    /\ job[l.job].token = l.token

HandoverInit ==
    /\ job = [j \in JobId |-> NoJob("absent")]
    /\ leases = {}

CreateJob(d, j) ==
    /\ job[j].state = "absent"
    /\ job' = [job EXCEPT ![j] = [state |-> "waiting", document |-> d, worker |-> None, token |-> 0]]
    /\ UNCHANGED leases

HandOver(w, j) ==
    /\ job[j].state \in {"waiting", "claimed"}
    /\ job' = [job EXCEPT ![j] = [state |-> "claimed", document |-> job[j].document,
                                  worker |-> w, token |-> job[j].token + 1]]
    /\ leases' = leases \cup {LeaseOf(j, w, job[j].token + 1)}

Finish(l) ==
    /\ LastLease(l)
    /\ job' = [job EXCEPT ![l.job] = NoJob("gone")]
    /\ UNCHANGED leases

Return(l) ==
    /\ LastLease(l)
    /\ job' = [job EXCEPT ![l.job] = [state |-> "waiting", document |-> job[l.job].document,
                                      worker |-> None, token |-> l.token]]
    /\ UNCHANGED leases

\* Jobs are removed with their documents, or their ids are never used.
Withdraw(J) ==
    /\ job' = [j \in JobId |-> IF j \in J THEN NoJob("gone") ELSE job[j]]
    /\ UNCHANGED leases

HandoverNext ==
    \/ \E J \in SUBSET JobId : Withdraw(J)
    \/ \E d \in Document, j \in JobId : CreateJob(d, j)
    \/ \E w \in Worker, j \in JobId : HandOver(w, j)
    \/ \E l \in leases : Finish(l) \/ Return(l)

HandoverSpec == HandoverInit /\ [][HandoverNext]_handoverVars
=============================================================================
