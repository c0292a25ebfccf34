----------------------------- MODULE LeaseQueue -----------------------------
(***************************************************************************)
(* The Redis lease queue of apps/web/lib/redis-lease-queue.ts, used for    *)
(* both the document and the embedding jobs of one tenant (every key       *)
(* carries the tenant, so tenants do not interact).                        *)
(*                                                                         *)
(* Each Lua script is one atomic action and reads the server clock once.   *)
(* removeForDocument is the exception: it is an HGET followed by an EVAL,  *)
(* so it is two actions, and anything may happen in between.               *)
(*                                                                         *)
(* A worker may present any lease it was ever given, at any time: issued   *)
(* is the history of leases returned by claim.                             *)
(***************************************************************************)
EXTENDS Integers, FiniteSets

CONSTANTS Document, JobId, Worker, Client, None,
          LeaseDuration,  \* leaseDurationMs
          MaxDelay,       \* longest retry delay a worker asks for in release
          MaxTime,        \* bound: the clock stops here
          MaxClaims       \* bound: claims of one job

ASSUME LeaseAssumption ==
    /\ None \notin Document \cup JobId \cup Worker
    /\ LeaseDuration \in Nat \ {0}
    /\ MaxDelay \in Nat
    /\ MaxTime \in Nat
    /\ MaxClaims \in Nat

VARIABLES
    now,        \* redis TIME
    documents,  \* hash  documents: document |-> job id
    jobs,       \* set   jobs
    ready,      \* zset  ready: member |-> availableAtMs, Absent if no member
    leased,     \* zset  leased: member |-> leaseExpiresAtMs
    hash,       \* hashes job:<id>
    used,       \* job ids generated so far (randomUUID never repeats one)
    issued,     \* leases ever returned by claim
    removing    \* client |-> what its HGET returned in removeForDocument

vars == <<now, documents, jobs, ready, leased, hash, used, issued, removing>>

Absent == -1
Score == Nat \cup {Absent}

Hash == [state : {"MISSING", "QUEUED", "CLAIMED"},
         documentId : Document \cup {None},
         workerId : Worker \cup {None},
         fencingToken : Nat,
         availableAt : Nat,
         leaseExpiresAt : Nat]

NoHash == [state |-> "MISSING", documentId |-> None, workerId |-> None,
           fencingToken |-> 0, availableAt |-> 0, leaseExpiresAt |-> 0]

Lease == [job : JobId, worker : Worker, token : Nat]

Exists(j) == hash[j].state # "MISSING"

\* Members of a sorted set whose score has been reached, lowest score first.
Due(zset) == {j \in JobId : zset[j] # Absent /\ zset[j] <= now}
First(zset) == {j \in Due(zset) : \A k \in Due(zset) : zset[j] <= zset[k]}

\* Mutation: the expiry condition is forgotten.
CurrentForever(l) ==
    /\ hash[l.job].state = "CLAIMED"
    /\ hash[l.job].workerId = l.worker
    /\ hash[l.job].fencingToken = l.token

\* The four conditions renew, assertLease, acknowledge and release share.
Current(l) ==
    /\ hash[l.job].state = "CLAIMED"
    /\ hash[l.job].workerId = l.worker
    /\ hash[l.job].fencingToken = l.token
    /\ hash[l.job].leaseExpiresAt > now

Init ==
    /\ now = 0
    /\ documents = [d \in Document |-> None]
    /\ jobs = {}
    /\ ready = [j \in JobId |-> Absent]
    /\ leased = [j \in JobId |-> Absent]
    /\ hash = [j \in JobId |-> NoHash]
    /\ used = {}
    /\ issued = {}
    /\ removing = [c \in Client |-> None]

\* enqueueScript; a document that already has a job is returned unchanged.
Enqueue(d, j) ==
    /\ documents[d] = None
    /\ j \notin used
    /\ hash' = [hash EXCEPT ![j] = [state |-> "QUEUED", documentId |-> d,
                                    workerId |-> None, fencingToken |-> 0,
                                    availableAt |-> now, leaseExpiresAt |-> 0]]
    /\ documents' = [documents EXCEPT ![d] = j]
    /\ jobs' = jobs \cup {j}
    /\ ready' = [ready EXCEPT ![j] = now]
    /\ used' = used \cup {j}
    /\ UNCHANGED <<now, leased, issued, removing>>

\* The job claimScript picks: an expired lease before anything that is ready.
Claimable(j) == IF Due(leased) # {} THEN j \in First(leased) ELSE j \in First(ready)

NextToken(j) == hash[j].fencingToken + 1

\* claimScript; attempts moves in step with fencingToken and is not kept apart.
Claim(w, j) ==
    /\ Claimable(j)
    /\ hash[j].fencingToken < MaxClaims
    /\ ready' = IF Due(leased) = {} THEN [ready EXCEPT ![j] = Absent] ELSE ready
    /\ IF Exists(j)
       THEN /\ hash' = [hash EXCEPT ![j].state = "CLAIMED", ![j].workerId = w,
                                    ![j].fencingToken = NextToken(j),
                                    ![j].leaseExpiresAt = now + LeaseDuration]
            /\ leased' = [leased EXCEPT ![j] = now + LeaseDuration]
            /\ issued' = issued \cup
                 {[job |-> j, worker |-> w, token |-> NextToken(j)]}
            /\ UNCHANGED jobs
       ELSE /\ leased' = [leased EXCEPT ![j] = Absent]
            /\ jobs' = jobs \ {j}
            /\ UNCHANGED <<hash, issued>>
    /\ UNCHANGED <<now, documents, used, removing>>

\* Mutation: the heartbeat extends the hash but not the score in "leased".
RenewHashOnly(l) ==
    /\ Current(l)
    /\ hash' = [hash EXCEPT ![l.job].leaseExpiresAt = now + LeaseDuration]
    /\ UNCHANGED <<now, documents, jobs, ready, leased, used, issued, removing>>

\* renewScript, the worker heartbeat.
Renew(l) ==
    /\ Current(l)
    /\ hash' = [hash EXCEPT ![l.job].leaseExpiresAt = now + LeaseDuration]
    /\ leased' = [leased EXCEPT ![l.job] = now + LeaseDuration]
    /\ UNCHANGED <<now, documents, jobs, ready, used, issued, removing>>

\* Mutation: the job is deleted but its index entry stays.
AcknowledgeKeepingIndex(l) ==
    /\ Current(l)
    /\ hash' = [hash EXCEPT ![l.job] = NoHash]
    /\ jobs' = jobs \ {l.job}
    /\ ready' = [ready EXCEPT ![l.job] = Absent]
    /\ leased' = [leased EXCEPT ![l.job] = Absent]
    /\ UNCHANGED <<now, documents, used, issued, removing>>

\* acknowledgeScript
Acknowledge(l) ==
    /\ Current(l)
    /\ hash' = [hash EXCEPT ![l.job] = NoHash]
    /\ documents' = [documents EXCEPT ![hash[l.job].documentId] = None]
    /\ jobs' = jobs \ {l.job}
    /\ ready' = [ready EXCEPT ![l.job] = Absent]
    /\ leased' = [leased EXCEPT ![l.job] = Absent]
    /\ UNCHANGED <<now, used, issued, removing>>

\* Mutation: the job is queued again but not put back into "ready".
ReleaseUnscheduled(l, at) ==
    /\ Current(l)
    /\ hash' = [hash EXCEPT ![l.job].state = "QUEUED", ![l.job].workerId = None,
                            ![l.job].leaseExpiresAt = 0,
                            ![l.job].availableAt = at]
    /\ leased' = [leased EXCEPT ![l.job] = Absent]
    /\ UNCHANGED <<now, documents, jobs, ready, used, issued, removing>>

\* releaseScript; at is the availableAt the worker computed.
Release(l, at) ==
    /\ Current(l)
    /\ hash' = [hash EXCEPT ![l.job].state = "QUEUED", ![l.job].workerId = None,
                            ![l.job].leaseExpiresAt = 0,
                            ![l.job].availableAt = at]
    /\ leased' = [leased EXCEPT ![l.job] = Absent]
    /\ ready' = [ready EXCEPT ![l.job] = at]
    /\ UNCHANGED <<now, documents, jobs, used, issued, removing>>

\* removeForDocument, first round trip: HGET documents <document>.
RemoveLookup(c, d) ==
    /\ removing[c] = None
    /\ documents[d] # None
    /\ removing' = [removing EXCEPT ![c] = [document |-> d, job |-> documents[d]]]
    /\ UNCHANGED <<now, documents, jobs, ready, leased, hash, used, issued>>

\* removeForDocument, second round trip: the EVAL with the id read before.
RemoveExecute(c) ==
    /\ removing[c] # None
    /\ LET d == removing[c].document
           j == removing[c].job
       IN  /\ documents' = [documents EXCEPT ![d] = None]
           /\ jobs' = jobs \ {j}
           /\ ready' = [ready EXCEPT ![j] = Absent]
           /\ leased' = [leased EXCEPT ![j] = Absent]
           /\ hash' = [hash EXCEPT ![j] = NoHash]
    /\ removing' = [removing EXCEPT ![c] = None]
    /\ UNCHANGED <<now, used, issued>>

Tick ==
    /\ now < MaxTime
    /\ now' = now + 1
    /\ UNCHANGED <<documents, jobs, ready, leased, hash, used, issued, removing>>

Next ==
    \/ \E d \in Document, j \in JobId : Enqueue(d, j)
    \/ \E w \in Worker, j \in JobId : Claim(w, j)
    \/ \E l \in issued : Renew(l)
    \/ \E l \in issued : Acknowledge(l)
    \/ \E l \in issued : \E at \in now..(now + MaxDelay) : Release(l, at)
    \/ \E c \in Client, d \in Document : RemoveLookup(c, d)
    \/ \E c \in Client : RemoveExecute(c)
    \/ Tick

Spec == Init /\ [][Next]_vars

-----------------------------------------------------------------------------
(* Type invariant. *)

\* Every key holds a value of the shape the scripts write; a pending
\* removeForDocument remembers a job id that was really generated.
TypeOK ==
    /\ now \in Nat
    /\ documents \in [Document -> JobId \cup {None}]
    /\ jobs \in SUBSET JobId
    /\ ready \in [JobId -> Score]
    /\ leased \in [JobId -> Score]
    /\ hash \in [JobId -> Hash]
    /\ used \in SUBSET JobId
    /\ issued \in SUBSET Lease
    /\ removing \in [Client -> {None} \cup [document : Document, job : JobId]]

-----------------------------------------------------------------------------
(* Safety. *)

\* No job is lost: the scripts spread one job over a hash, a set and two
\* sorted sets, and after any sequence of them a queued job is scheduled in
\* "ready" at its availableAt, a claimed one in "leased" at its expiry, each
\* in exactly one of the two, and a deleted job is in none of them.
NoJobLost ==
    \A j \in JobId :
        /\ j \in jobs <=> Exists(j)
        /\ ready[j] = IF hash[j].state = "QUEUED" THEN hash[j].availableAt ELSE Absent
        /\ leased[j] = IF hash[j].state = "CLAIMED" THEN hash[j].leaseExpiresAt ELSE Absent

\* The idempotency index of enqueue never dangles: the job it names exists and
\* is that document's job, also while a removeForDocument is half done.
IndexSound ==
    \A d \in Document :
        documents[d] # None => /\ Exists(documents[d])
                               /\ hash[documents[d]].documentId = d

\* docs/QUEUE_OPERATIONS.md:14 "monotonically increasing fencing token": two
\* leases ever issued for one job, however often it lapsed, was released or
\* claimed again, never carry the same token.  That is what lets the scripts
\* tell the current holder from a late one.
TokenNamesOneClaim ==
    \A l, m \in issued :
        l.job = m.job /\ l.token = m.token => l = m

\* A live lease is exclusive: while it runs, renewed or not, claim does not
\* hand the job to anybody (claim decides on the score in "leased", the other
\* scripts on leaseExpiresAtMs in the hash: they must agree).
LiveLeaseIsExclusive ==
    [][\A l \in issued :
         Current(l) => ~ \E m \in issued' : m.job = l.job /\ m.token > l.token]_vars

\* docs/QUEUE_OPERATIONS.md:12 "idempotent enqueue": a document never has two
\* jobs in the queue.  removeForDocument breaks it; no run checks it.
OneJobPerDocument ==
    \A j, k \in jobs : hash[j].documentId = hash[k].documentId => j = k

-----------------------------------------------------------------------------
(* The queue implements FencedQueue. *)

AbstractPhase(j) ==
    CASE hash[j].state = "QUEUED" ->
             IF hash[j].availableAt <= now THEN "ready" ELSE "delayed"
      [] hash[j].state = "CLAIMED" ->
             IF hash[j].leaseExpiresAt <= now THEN "lapsed" ELSE "held"
      [] OTHER -> IF j \in used THEN "gone" ELSE "absent"

AbstractJob ==
    [j \in JobId |-> [phase |-> AbstractPhase(j),
                      document |-> hash[j].documentId,
                      worker |-> hash[j].workerId,
                      token |-> hash[j].fencingToken]]

Abstract == INSTANCE FencedQueue WITH index <- documents, job <- AbstractJob

\* Every step of the scripts is a step of the promised queue, or none at all.
ImplementsFencedQueue == Abstract!QueueSpec

\* The jobs as every lease queue has them, the file queues of a development
\* machine included: without the times.
HandedState(j) ==
    CASE hash[j].state = "QUEUED" -> "waiting"
      [] hash[j].state = "CLAIMED" -> "claimed"
      [] OTHER -> IF j \in used THEN "gone" ELSE "absent"

HandedJobs ==
    [j \in JobId |-> [state |-> HandedState(j), document |-> hash[j].documentId,
                      worker |-> hash[j].workerId, token |-> hash[j].fencingToken]]

Handover == INSTANCE JobHandover WITH job <- HandedJobs, leases <- issued

\* The Redis queue and the file queue are one queue to their workers.
ScriptsHandOver == Handover!HandoverSpec
=============================================================================
