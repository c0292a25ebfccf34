----------------------------- MODULE LocalQueue -----------------------------
(***************************************************************************)
(* The file queues of a development machine: LocalDocumentProcessingQueue  *)
(* in document-processing-queue.ts and LocalEmbeddingJobQueue in           *)
(* embedding-queue.ts, which differ in wording only.  One JSON file holds  *)
(* the jobs of a tenant in the order of their enqueuing.  An operation     *)
(* waits for its turn in withFileLock, reads the whole file, changes its   *)
(* copy and renames a new file over the old one.  The turns are kept in    *)
(* the memory of a process: they order the calls of that process only.     *)
(***************************************************************************)
EXTENDS Integers, Sequences, Subsequence

CONSTANTS QueuedDocument, LocalWorker, NoOne,
          Caller,       \* calls that may be under way at the same time
          HomeOf,       \* caller |-> the process it runs in
          LeaseTicks,   \* leaseDurationMs
          LastTick,     \* bound on the clock
          MaxFence,     \* bound on the claims of one job
          MaxJobs       \* bound on the calls of enqueue

ASSUME LocalQueueAssumption ==
    /\ LeaseTicks \in Nat \ {0} /\ LastTick \in Nat /\ MaxFence \in Nat
    /\ MaxJobs \in Nat
    /\ NoOne \notin LocalWorker

VARIABLES
    clock,
    file,   \* the jobs in processing-queue.json, or in embedding-queue.json
    turns,  \* process |-> its callers in the order they asked for the lock
    call,   \* caller |-> what it asked for, and the copy of the file it has read
    minted, \* how many job ids were generated; they are numbered (random UUIDs)
    leases  \* claims answered so far

localVars == <<clock, file, turns, call, minted, leases>>

Process == {HomeOf[c] : c \in Caller}

QueuedJob(j, d, at) ==
    [id |-> j, document |-> d, state |-> "QUEUED", worker |-> NoOne, token |-> 0,
     available |-> at, expires |-> 0]

Idle == [stage |-> "idle", asked |-> [op |-> "none"], copy |-> <<>>]

LocalQueueInit ==
    /\ clock = 0 /\ file = <<>> /\ minted = 0 /\ leases = {}
    /\ turns = [p \in Process |-> <<>>]
    /\ call = [c \in Caller |-> Idle]

Owned(job, l) == job.state = "CLAIMED" /\ job.worker = l.worker /\ job.token = l.token

IndexOf(jobs, id) == {i \in DOMAIN jobs : jobs[i].id = id}

ClaimableLocal(job, at) ==
    job.available <= at /\ (job.state = "QUEUED" \/ job.expires <= at)

\* The jobs that claim would hand out now: none, or the one enqueued first.
Claimed(jobs, at) ==
    {i \in DOMAIN jobs : ClaimableLocal(jobs[i], at)
                         /\ \A k \in 1..(i - 1) : ~ ClaimableLocal(jobs[k], at)}

Handed(job, w, at) ==
    [job EXCEPT !.state = "CLAIMED", !.worker = w, !.token = @ + 1, !.expires = at + LeaseTicks]

\* What an operation makes of the jobs it has read.  acknowledge and release do
\* not ask whether the lease has expired, only whether it is still the last one;
\* an operation that throws writes nothing.
Applied(r, jobs) ==
    CASE r.op = "enqueue" ->
             IF \E i \in DOMAIN jobs : jobs[i].document = r.document THEN jobs
             ELSE Append(jobs, QueuedJob(r.id, r.document, clock))
      [] r.op = "claim" ->
             [i \in DOMAIN jobs |->
                 IF i \in Claimed(jobs, r.at) THEN Handed(jobs[i], r.worker, r.at) ELSE jobs[i]]
      [] r.op = "renew" ->
             [i \in DOMAIN jobs |->
                 IF i \in IndexOf(jobs, r.lease.job) /\ Owned(jobs[i], r.lease) /\ jobs[i].expires > clock
                 THEN [jobs[i] EXCEPT !.expires = clock + LeaseTicks] ELSE jobs[i]]
      [] r.op = "acknowledge" ->
             At(jobs, {i \in DOMAIN jobs : ~ (i \in IndexOf(jobs, r.lease.job) /\ Owned(jobs[i], r.lease))})
      [] r.op = "release" ->
             [i \in DOMAIN jobs |->
                 IF i \in IndexOf(jobs, r.lease.job) /\ Owned(jobs[i], r.lease)
                 THEN [jobs[i] EXCEPT !.state = "QUEUED", !.worker = NoOne, !.expires = 0,
                                      !.available = r.at]
                 ELSE jobs[i]]
      [] r.op = "remove" -> At(jobs, {i \in DOMAIN jobs : jobs[i].document # r.document})

\* An operation is called: it joins the turns of its process.  claim has read
\* the clock before it waits.
Enter(c, r) ==
    /\ call[c].stage = "idle"
    /\ call' = [call EXCEPT ![c] = [stage |-> "waiting", asked |-> r, copy |-> <<>>]]
    /\ turns' = [turns EXCEPT ![HomeOf[c]] = Append(@, c)]
    /\ UNCHANGED <<clock, file, leases>>

EnqueueLocal(c, d) ==
    /\ minted < MaxJobs /\ minted' = minted + 1
    /\ Enter(c, [op |-> "enqueue", document |-> d, id |-> minted + 1])

ClaimLocal(c, w) == Enter(c, [op |-> "claim", worker |-> w, at |-> clock]) /\ UNCHANGED minted
RenewLocal(c, l) == Enter(c, [op |-> "renew", lease |-> l]) /\ UNCHANGED minted
AcknowledgeLocal(c, l) == Enter(c, [op |-> "acknowledge", lease |-> l]) /\ UNCHANGED minted
ReleaseLocal(c, l, at) == Enter(c, [op |-> "release", lease |-> l, at |-> at]) /\ UNCHANGED minted
RemoveLocal(c, d) == Enter(c, [op |-> "remove", document |-> d]) /\ UNCHANGED minted

\* Mutation: the lock is forgotten.
AnyTurn(c) == TRUE

MyTurn(c) == Head(turns[HomeOf[c]]) = c

ReadFile(c) ==
    /\ call[c].stage = "waiting" /\ MyTurn(c)
    /\ call' = [call EXCEPT ![c].stage = "read", ![c].copy = file]
    /\ UNCHANGED <<clock, file, turns, minted, leases>>

\* The lease that claim answers with: job, holder and token of its copy.
Answered(r, jobs) ==
    IF r.op # "claim" THEN {}
    ELSE {[job |-> jobs[i].id, worker |-> r.worker, token |-> jobs[i].token + 1] : i \in Claimed(jobs, r.at)}

\* The temporary file is renamed over the queue, the caller answered, and the
\* turn passed on.
WriteFile(c) ==
    /\ call[c].stage = "read"
    /\ \A l \in Answered(call[c].asked, call[c].copy) : l.token <= MaxFence
    /\ file' = Applied(call[c].asked, call[c].copy)
    /\ leases' = leases \cup Answered(call[c].asked, call[c].copy)
    /\ call' = [call EXCEPT ![c] = Idle]
    /\ turns' = [turns EXCEPT ![HomeOf[c]] = Tail(@)]
    /\ UNCHANGED <<clock, minted>>

\* A process dies, before or after it read the file.
ProcessDies(p) ==
    /\ turns[p] # <<>>
    /\ turns' = [turns EXCEPT ![p] = <<>>]
    /\ call' = [c \in Caller |-> IF HomeOf[c] = p THEN Idle ELSE call[c]]
    /\ UNCHANGED <<clock, file, minted, leases>>

ClockTicks ==
    /\ clock < LastTick /\ clock' = clock + 1
    /\ UNCHANGED <<file, turns, call, minted, leases>>

LocalQueueNext ==
    \/ \E c \in Caller :
          \/ \E d \in QueuedDocument : EnqueueLocal(c, d) \/ RemoveLocal(c, d)
          \/ \E w \in LocalWorker : ClaimLocal(c, w)
          \/ \E l \in leases : RenewLocal(c, l) \/ AcknowledgeLocal(c, l)
          \/ \E l \in leases, delay \in 0..1 : ReleaseLocal(c, l, clock + delay)
          \/ ReadFile(c) \/ WriteFile(c)
    \/ \E p \in Process : ProcessDies(p)
    \/ ClockTicks

LocalQueueSpec == LocalQueueInit /\ [][LocalQueueNext]_localVars

-----------------------------------------------------------------------------
(* Type invariant. *)

\* The file holds jobs with ids that were generated; a process only orders its
\* own callers.
LocalQueueTypeOK ==
    /\ \A i \in DOMAIN file : file[i].id \in 1..minted /\ file[i].token \in 0..MaxFence
    /\ leases \subseteq [job : 1..MaxJobs, worker : LocalWorker, token : 1..MaxFence]
    /\ \A p \in Process : \A i \in DOMAIN turns[p] : HomeOf[turns[p][i]] = p

-----------------------------------------------------------------------------
(* Safety. *)

\* All calls come from one process, which orders them with withFileLock.
OneProcess == \A b, c \in Caller : HomeOf[b] = HomeOf[c]

\* The file queue behaves like one operation at a time: although every operation
\* reads the file in one step and replaces it in another, what it writes is what
\* it would have made of the file as it is then, no document has two jobs, and
\* no two claims of a job are answered with one token.  It holds for OneProcess,
\* the deployment docs/DOCUMENT_PROCESSING.md:34 allows.
LocalQueueIsSequential ==
    [][/\ \A c \in Caller : call[c].stage = "read" /\ call'[c].stage = "idle" /\ file' # file =>
                                file' = Applied(call[c].asked, file)
       /\ \A i, k \in DOMAIN file' : file'[i].document = file'[k].document => i = k
       /\ \A l, m \in leases' : l.job = m.job /\ l.token = m.token => l = m]_localVars

-----------------------------------------------------------------------------
(* The file queue keeps to what every lease queue promises. *)

\* The id is not generated yet, or its job not yet written.
Unborn(j) ==
    j > minted \/ \E c \in Caller : call[c].asked.op = "enqueue" /\ call[c].asked.id = j

\* A job of the file, without the times.
Promised(queued) ==
    [state |-> IF queued.state = "QUEUED" THEN "waiting" ELSE "claimed",
     document |-> queued.document, worker |-> queued.worker, token |-> queued.token]

\* The job of id j among jobs, or one in the given state.
JobAmong(jobs, j, otherwise) ==
    IF \E i \in DOMAIN jobs : jobs[i].id = j
    THEN Promised(jobs[CHOOSE i \in DOMAIN jobs : jobs[i].id = j])
    ELSE [state |-> otherwise, document |-> NoOne, worker |-> NoOne, token |-> 0]

FileJobs ==
    [j \in 1..MaxJobs |-> JobAmong(file, j, IF Unborn(j) THEN "absent" ELSE "gone")]

Handover == INSTANCE JobHandover
    WITH Document <- QueuedDocument, JobId <- 1..MaxJobs, Worker <- LocalWorker,
         None <- NoOne, job <- FileJobs

\* Every operation on the file is a hand-over, a finish, a return, the creation
\* or the removal of jobs, or changes nothing a worker is promised, for OneProcess.
FileQueueHandsOver == Handover!HandoverSpec

\* What the workers of a development machine rely on: operations take effect one
\* at a time, and each does to a job what a lease queue may do to it.
FileQueueKeepsPromises == LocalQueueIsSequential /\ FileQueueHandsOver
=============================================================================
