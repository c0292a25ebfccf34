-------------------------- MODULE LeaseQueueProofs --------------------------
(***************************************************************************)
(* The safety properties of LeaseQueue for every set of documents, jobs,   *)
(* workers and clients and every value of the numeric constants.           *)
(*                                                                         *)
(* NoJobLost and IndexSound are not inductive together with TypeOK alone:  *)
(* a half-done removeForDocument writes with an id it read earlier, and a  *)
(* worker may present any lease of the past.  Inv adds what is known of    *)
(* those ids: they were generated before (UsedOnce), the removed job, if   *)
(* it still exists, belongs to the document it was read for                *)
(* (RemovalSound), and no lease is ahead of its job (FenceBound).          *)
(***************************************************************************)
EXTENDS LeaseQueue, TLAPS

UsedOnce ==
    /\ \A j \in JobId : Exists(j) => j \in used
    /\ \A l \in issued : l.job \in used
    /\ \A c \in Client : removing[c] # None => removing[c].job \in used

RemovalSound ==
    \A c \in Client :
        removing[c] # None /\ Exists(removing[c].job)
            => hash[removing[c].job].documentId = removing[c].document

FenceBound ==
    \A l \in issued : Exists(l.job) => l.token <= hash[l.job].fencingToken

JobHasDocument == \A j \in JobId : Exists(j) => hash[j].documentId \in Document

Inv ==
    /\ TypeOK
    /\ NoJobLost
    /\ IndexSound
    /\ UsedOnce
    /\ RemovalSound
    /\ FenceBound
    /\ JobHasDocument
    /\ TokenNamesOneClaim

\* The initial state satisfies the inductive invariant.
LEMMA InitInv == Init => Inv
  BY LeaseAssumption
  DEF Init, Inv, TypeOK, NoJobLost, IndexSound, UsedOnce, RemovalSound, FenceBound,
      JobHasDocument, TokenNamesOneClaim, Exists, NoHash, Hash, Score, Absent, Lease

\* enqueueScript keeps the invariant: the new id was never used before.
LEMMA EnqueueInv ==
    ASSUME Inv, NEW d \in Document, NEW j \in JobId, Enqueue(d, j)
    PROVE  Inv'
  <1> USE LeaseAssumption DEF Inv, Enqueue
  <1>1. TypeOK'
    BY DEF TypeOK, Hash, Score, Absent
  <1>2. NoJobLost'
    BY DEF TypeOK, NoJobLost, Exists, UsedOnce, Hash, Score, Absent
  <1>3. IndexSound'
    BY DEF TypeOK, IndexSound, Exists, UsedOnce, Hash
  <1>4. UsedOnce'
    BY DEF TypeOK, UsedOnce, Exists, Hash
  <1>5. RemovalSound'
    BY DEF TypeOK, RemovalSound, UsedOnce, Exists, Hash
  <1>6. FenceBound'
    BY DEF TypeOK, FenceBound, UsedOnce, Exists, Hash, Lease
  <1>7. JobHasDocument'
    BY DEF TypeOK, JobHasDocument, Exists, Hash
  <1>8. TokenNamesOneClaim'
    BY DEF TokenNamesOneClaim
  <1> QED BY <1>1, <1>2, <1>3, <1>4, <1>5, <1>6, <1>7, <1>8

\* A claimable job exists, so the branch of claimScript for a scheduled id
\* without a hash is never taken, and its lease, if any, has run out.
LEMMA ClaimableJob ==
    ASSUME Inv, NEW j \in JobId, Claimable(j)
    PROVE  /\ Exists(j)
           /\ hash[j].state = "CLAIMED" => hash[j].leaseExpiresAt <= now
           /\ hash[j].state = "QUEUED" => Due(leased) = {}
           /\ hash[j].state = "CLAIMED" => Due(leased) # {}
  BY LeaseAssumption
  DEF Inv, TypeOK, NoJobLost, Claimable, Due, First, Exists, Absent, Hash, Score

\* claimScript keeps the invariant: the new lease carries a greater token.
LEMMA ClaimInv ==
    ASSUME Inv, NEW w \in Worker, NEW j \in JobId, Claim(w, j)
    PROVE  Inv'
  <1>1. /\ Exists(j)
        /\ hash[j].state = "QUEUED" => Due(leased) = {}
        /\ hash[j].state = "CLAIMED" => Due(leased) # {}
    BY ClaimableJob DEF Claim
  <1>2. /\ hash' = [hash EXCEPT ![j].state = "CLAIMED", ![j].workerId = w,
                                ![j].fencingToken = hash[j].fencingToken + 1,
                                ![j].leaseExpiresAt = now + LeaseDuration]
        /\ leased' = [leased EXCEPT ![j] = now + LeaseDuration]
        /\ issued' = issued \cup
             {[job |-> j, worker |-> w, token |-> hash[j].fencingToken + 1]}
        /\ ready' = IF Due(leased) = {} THEN [ready EXCEPT ![j] = Absent] ELSE ready
        /\ UNCHANGED <<now, documents, jobs, used, removing>>
    BY <1>1 DEF Claim, NextToken
  <1> USE LeaseAssumption, <1>1, <1>2 DEF Inv
  <1>3. TypeOK'
    BY DEF TypeOK, Hash, Score, Absent, Lease
  <1>4. NoJobLost'
    <2> SUFFICES ASSUME NEW k \in JobId
                 PROVE  /\ k \in jobs' <=> Exists(k)'
                        /\ ready'[k] = IF hash'[k].state = "QUEUED"
                                       THEN hash'[k].availableAt ELSE Absent
                        /\ leased'[k] = IF hash'[k].state = "CLAIMED"
                                        THEN hash'[k].leaseExpiresAt ELSE Absent
      BY DEF NoJobLost
    <2>1. CASE k # j
      BY <2>1 DEF TypeOK, NoJobLost, Exists, Hash, Score
    <2>2. CASE k = j
      <3>1. ready'[j] = Absent
        BY DEF TypeOK, NoJobLost, Exists, Hash, Score
      <3> QED BY <2>2, <3>1 DEF TypeOK, NoJobLost, Exists, Hash, Score
    <2> QED BY <2>1, <2>2
  <1>5. IndexSound'
    BY DEF TypeOK, IndexSound, Exists, Hash
  <1>6. UsedOnce'
    BY DEF TypeOK, UsedOnce, Exists, Hash, Lease
  <1>7. RemovalSound'
    BY DEF TypeOK, RemovalSound, Exists, Hash
  <1>8. FenceBound'
    BY DEF TypeOK, FenceBound, Exists, Hash, Lease
  <1>9. JobHasDocument'
    BY DEF TypeOK, JobHasDocument, Exists, Hash
  <1>10. TokenNamesOneClaim'
    BY DEF TypeOK, TokenNamesOneClaim, FenceBound, Hash, Lease
  <1> QED BY <1>3, <1>4, <1>5, <1>6, <1>7, <1>8, <1>9, <1>10

\* renewScript keeps the invariant: hash and score move together.
LEMMA RenewInv ==
    ASSUME Inv, NEW l \in issued, Renew(l)
    PROVE  Inv'
  <1> USE LeaseAssumption DEF Inv, Renew, Current
  <1> l.job \in JobId
    BY DEF TypeOK, Lease
  <1>1. TypeOK'
    <2>1. now + LeaseDuration \in Nat /\ now + LeaseDuration \in Score
      BY DEF TypeOK, Score
    <2>2. hash' \in [JobId -> Hash]
      BY <2>1 DEF TypeOK, Hash
    <2>3. leased' \in [JobId -> Score]
      BY <2>1 DEF TypeOK
    <2> QED BY <2>2, <2>3 DEF TypeOK
  <1>2. NoJobLost'
    BY DEF TypeOK, NoJobLost, Exists, Hash, Score, Absent
  <1>3. IndexSound'
    BY DEF TypeOK, IndexSound, Exists, Hash
  <1>4. UsedOnce' /\ RemovalSound'
    BY DEF TypeOK, UsedOnce, RemovalSound, Exists, Hash
  <1>5. FenceBound' /\ JobHasDocument' /\ TokenNamesOneClaim'
    BY DEF TypeOK, FenceBound, JobHasDocument, TokenNamesOneClaim, Exists, Hash, Lease
  <1> QED BY <1>1, <1>2, <1>3, <1>4, <1>5

\* acknowledgeScript keeps the invariant: an index entry of another job of the
\* same document may go, an entry naming the deleted job cannot stay.
LEMMA AcknowledgeInv ==
    ASSUME Inv, NEW l \in issued, Acknowledge(l)
    PROVE  Inv'
  <1> USE LeaseAssumption DEF Inv, Acknowledge, Current
  <1> l.job \in JobId
    BY DEF TypeOK, Lease
  <1> hash[l.job].documentId \in Document
    BY DEF JobHasDocument, Exists
  <1>1. TypeOK'
    BY DEF TypeOK, Hash, NoHash, Score, Absent
  <1>2. NoJobLost'
    BY DEF TypeOK, NoJobLost, Exists, Hash, NoHash, Score, Absent
  <1>3. IndexSound'
    BY DEF TypeOK, IndexSound, Exists, Hash, NoHash
  <1>4. UsedOnce' /\ RemovalSound'
    BY DEF TypeOK, UsedOnce, RemovalSound, Exists, Hash, NoHash
  <1>5. FenceBound' /\ JobHasDocument' /\ TokenNamesOneClaim'
    BY DEF TypeOK, FenceBound, JobHasDocument, TokenNamesOneClaim, Exists, Hash, NoHash, Lease
  <1> QED BY <1>1, <1>2, <1>3, <1>4, <1>5

\* releaseScript keeps the invariant: the job moves from "leased" to "ready".
LEMMA ReleaseInv ==
    ASSUME Inv, NEW l \in issued, NEW at \in now..(now + MaxDelay), Release(l, at)
    PROVE  Inv'
  <1> USE DEF Inv
  <1>1. l.job \in JobId /\ at \in Nat /\ hash[l.job].state = "CLAIMED"
    BY LeaseAssumption DEF TypeOK, Lease, Release, Current
  <1> DEFINE h == [hash[l.job] EXCEPT !.state = "QUEUED", !.workerId = None,
                                     !.leaseExpiresAt = 0, !.availableAt = at]
  <1>a. hash \in [JobId -> Hash]
    BY DEF TypeOK
  <1>b. hash' = [hash EXCEPT ![l.job] = h]
    BY <1>1, <1>a DEF Release
  <1>c. /\ h \in Hash /\ h.state = "QUEUED" /\ h.availableAt = at
        /\ h.documentId = hash[l.job].documentId
        /\ h.fencingToken = hash[l.job].fencingToken
    <2>1. hash[l.job] \in Hash
      BY <1>1, <1>a
    <2> QED BY <1>1, <2>1 DEF Hash
  <1> HIDE DEF h
  <1>2. /\ hash' \in [JobId -> Hash]
        /\ hash'[l.job].state = "QUEUED" /\ hash'[l.job].availableAt = at
        /\ \A j \in JobId : j # l.job => hash'[j] = hash[j]
    BY <1>1, <1>a, <1>b, <1>c
  <1>3. \A j \in JobId : /\ hash'[j].documentId = hash[j].documentId
                         /\ hash'[j].fencingToken = hash[j].fencingToken
                         /\ Exists(j)' <=> Exists(j)
    BY <1>1, <1>a, <1>b, <1>c DEF Exists
  <1>4. /\ leased' = [leased EXCEPT ![l.job] = Absent] /\ ready' = [ready EXCEPT ![l.job] = at]
        /\ UNCHANGED <<now, documents, jobs, used, issued, removing>>
    BY DEF Release
  <1>5. TypeOK'
    <2>1. leased' \in [JobId -> Score] /\ ready' \in [JobId -> Score]
      BY <1>1, <1>4 DEF TypeOK, Score, Absent
    <2> QED BY <1>2, <1>4, <2>1 DEF TypeOK
  <1>6. NoJobLost'
    BY <1>1, <1>2, <1>3, <1>4 DEF TypeOK, NoJobLost, Absent
  <1>7. IndexSound'
    BY <1>3, <1>4 DEF TypeOK, IndexSound, Exists
  <1>8. UsedOnce' /\ RemovalSound'
    BY <1>3, <1>4 DEF TypeOK, UsedOnce, RemovalSound
  <1>9. FenceBound' /\ JobHasDocument' /\ TokenNamesOneClaim'
    BY <1>3, <1>4 DEF TypeOK, FenceBound, JobHasDocument, TokenNamesOneClaim, Lease
  <1> QED BY <1>5, <1>6, <1>7, <1>8, <1>9

\* The HGET of removeForDocument keeps the invariant: the entry it read names
\* a job of that document.
LEMMA RemoveLookupInv ==
    ASSUME Inv, NEW c \in Client, NEW d \in Document, RemoveLookup(c, d)
    PROVE  Inv'
  <1> USE LeaseAssumption DEF Inv, RemoveLookup
  <1>1. TypeOK'
    BY DEF TypeOK
  <1>2. NoJobLost' /\ IndexSound' /\ FenceBound' /\ JobHasDocument' /\ TokenNamesOneClaim'
    BY DEF NoJobLost, IndexSound, FenceBound, JobHasDocument, TokenNamesOneClaim, Exists
  <1>3. UsedOnce' /\ RemovalSound'
    BY DEF TypeOK, UsedOnce, RemovalSound, IndexSound, Exists
  <1> QED BY <1>1, <1>2, <1>3

\* The EVAL of removeForDocument keeps the invariant, whatever happened since
\* the HGET: it can only delete the job it read, and that job's document is
\* the one whose entry it drops.
LEMMA RemoveExecuteInv ==
    ASSUME Inv, NEW c \in Client, RemoveExecute(c)
    PROVE  Inv'
  <1> DEFINE d == removing[c].document
             j == removing[c].job
  <1>1. d \in Document /\ j \in JobId
    BY DEF Inv, TypeOK, RemoveExecute
  <1>2. Exists(j) => hash[j].documentId = d
    BY DEF Inv, RemovalSound, RemoveExecute
  <1>3. /\ documents' = [documents EXCEPT ![d] = None]
        /\ jobs' = jobs \ {j}
        /\ ready' = [ready EXCEPT ![j] = Absent]
        /\ leased' = [leased EXCEPT ![j] = Absent]
        /\ hash' = [hash EXCEPT ![j] = NoHash]
        /\ removing' = [removing EXCEPT ![c] = None]
        /\ UNCHANGED <<now, used, issued>>
    BY DEF RemoveExecute
  <1> HIDE DEF d, j
  <1> USE LeaseAssumption, <1>1, <1>2, <1>3 DEF Inv
  <1>4. TypeOK'
    BY DEF TypeOK, Hash, NoHash, Score, Absent
  <1>5. NoJobLost'
    BY DEF TypeOK, NoJobLost, Exists, Hash, NoHash, Score, Absent
  <1>6. IndexSound'
    BY DEF TypeOK, IndexSound, Exists, Hash, NoHash
  <1>7. UsedOnce' /\ RemovalSound'
    BY DEF TypeOK, UsedOnce, RemovalSound, Exists, Hash, NoHash
  <1>8. FenceBound' /\ JobHasDocument' /\ TokenNamesOneClaim'
    BY DEF TypeOK, FenceBound, JobHasDocument, TokenNamesOneClaim, Exists, Hash, NoHash, Lease
  <1> QED BY <1>4, <1>5, <1>6, <1>7, <1>8

\* The passing of time and stuttering keep the invariant.
LEMMA TickInv ==
    ASSUME Inv, Tick \/ UNCHANGED vars
    PROVE  Inv'
  BY DEF Inv, Tick, vars, TypeOK, NoJobLost, IndexSound, UsedOnce, RemovalSound,
         FenceBound, JobHasDocument, TokenNamesOneClaim, Exists

\* Every step of the queue keeps the inductive invariant.
LEMMA NextInv == Inv /\ [Next]_vars => Inv'
  <1> SUFFICES ASSUME Inv, [Next]_vars PROVE Inv'
    OBVIOUS
  <1>1. CASE \E d \in Document, j \in JobId : Enqueue(d, j)
    BY <1>1, EnqueueInv
  <1>2. CASE \E w \in Worker, j \in JobId : Claim(w, j)
    BY <1>2, ClaimInv
  <1>3. CASE \E l \in issued : Renew(l)
    BY <1>3, RenewInv
  <1>4. CASE \E l \in issued : Acknowledge(l)
    BY <1>4, AcknowledgeInv
  <1>5. CASE \E l \in issued : \E at \in now..(now + MaxDelay) : Release(l, at)
    BY <1>5, ReleaseInv
  <1>6. CASE \E c \in Client, d \in Document : RemoveLookup(c, d)
    BY <1>6, RemoveLookupInv
  <1>7. CASE \E c \in Client : RemoveExecute(c)
    BY <1>7, RemoveExecuteInv
  <1>8. CASE Tick \/ UNCHANGED vars
    BY <1>8, TickInv
  <1> QED BY <1>1, <1>2, <1>3, <1>4, <1>5, <1>6, <1>7, <1>8 DEF Next

\* The inductive invariant holds in every reachable state.
THEOREM Invariance == Spec => []Inv
  BY InitInv, NextInv, PTL DEF Spec

\* Every key always holds a value of the shape the scripts write.
THEOREM TypeCorrect == Spec => []TypeOK
  BY Invariance, PTL DEF Inv

\* After any sequence of scripts, and between the two round trips of
\* removeForDocument, every job is scheduled exactly once and consistently.
THEOREM NothingLost == Spec => []NoJobLost
  BY Invariance, PTL DEF Inv

\* The idempotency index of enqueue never names a deleted or foreign job.
THEOREM IndexNeverDangles == Spec => []IndexSound
  BY Invariance, PTL DEF Inv

\* No two claims of a job ever get the same fencing token.
THEOREM FencingTokensUnique == Spec => []TokenNamesOneClaim
  BY Invariance, PTL DEF Inv

\* While a lease is current, no step issues a newer lease for its job.
THEOREM LiveLeaseStep == Spec => LiveLeaseIsExclusive
  <1> DEFINE Exclusive ==
        \A l \in issued :
          Current(l) => ~ \E m \in issued' : m.job = l.job /\ m.token > l.token
  <1>1. ASSUME Inv, Next PROVE Exclusive
    <2> SUFFICES ASSUME NEW l \in issued, Current(l),
                        NEW m \in issued', m.job = l.job, m.token > l.token
                 PROVE  FALSE
      OBVIOUS
    <2>1. m \notin issued
      BY <1>1 DEF Inv, TypeOK, FenceBound, Exists, Current, Lease, Hash
    <2>2. PICK w \in Worker, j \in JobId : Claim(w, j)
      BY <1>1, <2>1 DEF Next, Enqueue, Renew, Acknowledge, Release, RemoveLookup,
                        RemoveExecute, Tick
    <2>3. Claimable(j)
      BY <2>2 DEF Claim
    <2>4. j = l.job
      BY <2>1, <2>2 DEF Claim
    <2>5. hash[j].leaseExpiresAt <= now
      BY <1>1, <2>3, <2>4, ClaimableJob DEF Current
    <2>6. now \in Nat /\ hash[j].leaseExpiresAt \in Nat
      BY <1>1 DEF Inv, TypeOK, Hash
    <2> QED BY <2>4, <2>5, <2>6 DEF Current
  <1>2. ASSUME Inv, [Next]_vars PROVE [Exclusive]_vars
    BY <1>1, <1>2
  <1> QED BY <1>2, Invariance, PTL DEF Spec, LiveLeaseIsExclusive

-----------------------------------------------------------------------------
(* The Redis queue implements FencedQueue: a step of a script is a step of  *)
(* the promised queue on AbstractJob, a heartbeat is no step at all, and a  *)
(* tick of the clock lets leases and retry delays run out.                  *)

\* AbstractJob, field by field, for a job whose hash and membership of used are
\* known; every simulation step below compares two of these.
LEMMA AbstractJobFields ==
    ASSUME NEW j \in JobId
    PROVE  /\ AbstractJob[j].phase = AbstractPhase(j)
           /\ AbstractJob[j].document = hash[j].documentId
           /\ AbstractJob[j].worker = hash[j].workerId
           /\ AbstractJob[j].token = hash[j].fencingToken
  BY DEF AbstractJob

\* The scripts start as the promised queue does: no job, no index entry.
LEMMA InitRefines == Init => Abstract!QueueInit
  BY DEF Init, Abstract!QueueInit, Abstract!NoJob, AbstractJob, AbstractPhase, NoHash

\* enqueueScript creates a ready job.
LEMMA EnqueueRefines ==
    ASSUME Inv, NEW d \in Document, NEW j \in JobId, Enqueue(d, j)
    PROVE  Abstract!CreateJob(d, j)
  <1> USE LeaseAssumption DEF Inv, TypeOK, UsedOnce, Enqueue, Exists, Hash
  <1>1. hash[j].state = "MISSING" /\ AbstractJob[j].phase = "absent"
    BY DEF AbstractJob, AbstractPhase
  <1>2. ASSUME NEW k \in JobId
        PROVE  AbstractJob'[k] = IF k = j
                 THEN [phase |-> "ready", document |-> d, worker |-> None, token |-> 0]
                 ELSE AbstractJob[k]
    <2>1. CASE k = j
      BY <2>1 DEF AbstractJob, AbstractPhase
    <2>2. CASE k # j
      <3>1. hash'[k] = hash[k] /\ (k \in used' <=> k \in used) /\ now' = now
        BY <2>2
      <3> QED BY <2>2, <3>1 DEF AbstractJob, AbstractPhase
    <2> QED BY <2>1, <2>2
  <1>3. AbstractJob' = [AbstractJob EXCEPT ![j] =
                          [phase |-> "ready", document |-> d, worker |-> None, token |-> 0]]
    BY <1>2, Zenon DEF AbstractJob
  <1> QED BY <1>3, <1>1, <1>2 DEF Abstract!CreateJob

\* claimScript hands out a ready or lapsed job under the next token.
LEMMA ClaimRefines ==
    ASSUME Inv, NEW w \in Worker, NEW j \in JobId, Claim(w, j)
    PROVE  Abstract!Claim(w, j)
  <1> USE LeaseAssumption DEF Inv, TypeOK, Hash
  <1>1. /\ Exists(j)
        /\ hash[j].state = "CLAIMED" => hash[j].leaseExpiresAt <= now
        /\ hash[j].state = "QUEUED" => Due(leased) = {}
    BY ClaimableJob DEF Claim
  <1>2. hash[j].state = "QUEUED" => hash[j].availableAt <= now
    BY <1>1 DEF Claim, Claimable, First, Due, NoJobLost
  <1>3. AbstractJob[j].phase \in {"ready", "lapsed"}
    BY <1>1, <1>2 DEF AbstractJob, AbstractPhase, Exists
  <1>4. /\ hash' = [hash EXCEPT ![j].state = "CLAIMED", ![j].workerId = w,
                                ![j].fencingToken = hash[j].fencingToken + 1,
                                ![j].leaseExpiresAt = now + LeaseDuration]
        /\ UNCHANGED <<now, documents, used, removing>>
    BY <1>1 DEF Claim, NextToken
  <1>5. AbstractJob' = [AbstractJob EXCEPT ![j].phase = "held", ![j].worker = w,
                                          ![j].token = AbstractJob[j].token + 1]
    BY <1>4 DEF AbstractJob, AbstractPhase
  <1> QED BY <1>3, <1>4, <1>5 DEF Abstract!Claim

\* A lease the scripts accept is the one the promised queue granted.
LEMMA CurrentOwns ==
    ASSUME Inv, NEW l \in issued, Current(l)
    PROVE  /\ l.job \in JobId
           /\ Abstract!Owns(l.worker, l.job, AbstractJob[l.job].token)
           /\ l.worker \in Worker
           /\ AbstractJob[l.job].document = hash[l.job].documentId
  <1>1. l.job \in JobId /\ l.worker \in Worker
    BY DEF Inv, TypeOK, Lease
  <1>2. now \in Nat /\ hash[l.job].leaseExpiresAt \in Nat
    BY <1>1 DEF Inv, TypeOK, Hash
  <1>3. AbstractPhase(l.job) = "held"
    BY <1>2 DEF Current, AbstractPhase
  <1> QED BY <1>1, <1>3, AbstractJobFields DEF Current, Abstract!Owns

\* renewScript is invisible: the lease was live and stays live.
LEMMA RenewRefines ==
    ASSUME Inv, NEW l \in issued, Renew(l)
    PROVE  UNCHANGED Abstract!queueVars
  <1> USE LeaseAssumption DEF Inv, TypeOK, Hash, Lease, Renew, Current
  <1>1. AbstractJob' = AbstractJob
    BY DEF AbstractJob, AbstractPhase
  <1> QED BY <1>1 DEF Abstract!queueVars

\* acknowledgeScript deletes the job of the lease's holder.
LEMMA AcknowledgeRefines ==
    ASSUME Inv, NEW l \in issued, Acknowledge(l)
    PROVE  Abstract!Acknowledge(l.worker, l.job, AbstractJob[l.job].token)
  <1>1. Current(l)
    BY DEF Acknowledge
  <1>2. AbstractJob' = [AbstractJob EXCEPT ![l.job] = Abstract!NoJob("gone")]
    BY <1>1, CurrentOwns
    DEF Inv, TypeOK, UsedOnce, Acknowledge, AbstractJob, AbstractPhase, NoHash, Abstract!NoJob
  <1> QED BY <1>1, <1>2, CurrentOwns DEF Acknowledge, Abstract!Acknowledge

\* releaseScript returns it, available now or later.
LEMMA ReleaseRefines ==
    ASSUME Inv, NEW l \in issued, NEW at \in now..(now + MaxDelay), Release(l, at)
    PROVE  \E p \in {"delayed", "ready"} :
              Abstract!Release(l.worker, l.job, AbstractJob[l.job].token, p)
  <1>1. Current(l)
    BY DEF Release
  <1> DEFINE p == IF at <= now THEN "ready" ELSE "delayed"
  <1> at \in Nat /\ now \in Nat
    BY LeaseAssumption DEF Inv, TypeOK
  <1>2. AbstractJob' = [AbstractJob EXCEPT ![l.job] =
                          [phase |-> p, document |-> AbstractJob[l.job].document,
                           worker |-> None, token |-> AbstractJob[l.job].token]]
    <2>1. l.job \in JobId
      BY <1>1, CurrentOwns
    <2>2. /\ hash'[l.job] = [hash[l.job] EXCEPT !.state = "QUEUED", !.workerId = None,
                                !.leaseExpiresAt = 0, !.availableAt = at]
          /\ \A k \in JobId : k # l.job => hash'[k] = hash[k]
          /\ now' = now /\ used' = used
      BY <2>1 DEF Release, Inv, TypeOK, Hash
    <2>3. AbstractPhase(l.job)' = p
      BY <2>1, <2>2 DEF AbstractPhase, Inv, TypeOK, Hash
    <2>4. /\ hash'[l.job].documentId = AbstractJob[l.job].document
          /\ hash'[l.job].workerId = None
          /\ hash'[l.job].fencingToken = AbstractJob[l.job].token
      BY <2>1, <2>2, AbstractJobFields DEF Inv, TypeOK, Hash
    <2>5. ASSUME NEW k \in JobId, k # l.job
          PROVE  AbstractJob'[k] = AbstractJob[k]
      BY <2>2, <2>5 DEF AbstractJob, AbstractPhase
    <2> HIDE DEF p
    <2>6. AbstractJob'[l.job] = [phase |-> p, document |-> AbstractJob[l.job].document,
                                 worker |-> None, token |-> AbstractJob[l.job].token]
      BY <2>1, <2>3, <2>4, Zenon DEF AbstractJob
    <2> QED BY <2>1, <2>5, <2>6, Zenon DEF AbstractJob
  <1>3. Abstract!Release(l.worker, l.job, AbstractJob[l.job].token, p)
    BY <1>1, <1>2, CurrentOwns DEF Release, Abstract!Release
  <1> QED BY <1>3

\* removeForDocument: the lookup and the deletion are those of FencedQueue.
LEMMA RemoveRefines ==
    ASSUME Inv, NEW c \in Client
    PROVE  /\ \A d \in Document : RemoveLookup(c, d) => Abstract!LookupJob(c, d)
           /\ RemoveExecute(c) => Abstract!RemoveJob(c)
  <1>1. ASSUME NEW d \in Document, RemoveLookup(c, d) PROVE Abstract!LookupJob(c, d)
    <2>1. AbstractJob' = AbstractJob
      BY <1>1 DEF RemoveLookup, AbstractJob, AbstractPhase
    <2> QED BY <1>1, <2>1 DEF RemoveLookup, Abstract!LookupJob
  <1>2. ASSUME RemoveExecute(c) PROVE Abstract!RemoveJob(c)
    <2> DEFINE j == removing[c].job
    <2>1. j \in JobId /\ j \in used
      BY <1>2 DEF RemoveExecute, Inv, TypeOK, UsedOnce
    <2>2. hash' = [hash EXCEPT ![j] = NoHash] /\ UNCHANGED <<now, used>>
      BY <1>2 DEF RemoveExecute
    <2> HIDE DEF j
    <2>3. AbstractJob' = [AbstractJob EXCEPT ![j] = Abstract!NoJob("gone")]
      BY <2>1, <2>2 DEF Inv, TypeOK, AbstractJob, AbstractPhase, NoHash, Abstract!NoJob
    <2> QED BY <1>2, <2>3 DEF j, RemoveExecute, Abstract!RemoveJob
  <1> QED BY <1>1, <1>2

\* A tick lapses the held leases and readies the delayed jobs that are due.
LEMMA TickRefines ==
    ASSUME Inv, Tick
    PROVE  \E L, R \in SUBSET JobId : Abstract!TimePasses(L, R)
  <1> DEFINE L == {j \in JobId : AbstractPhase(j) = "held" /\ AbstractPhase(j)' = "lapsed"}
             R == {j \in JobId : AbstractPhase(j) = "delayed" /\ AbstractPhase(j)' = "ready"}
  <1>1. L \in SUBSET JobId /\ R \in SUBSET JobId
    OBVIOUS
  <1>2. Abstract!TimePasses(L, R)
    <2>1. ASSUME NEW j \in JobId
          PROVE  AbstractPhase(j)' = IF j \in L THEN "lapsed"
                                     ELSE IF j \in R THEN "ready"
                                     ELSE AbstractPhase(j)
      BY DEF Inv, TypeOK, Hash, Tick, AbstractPhase
    <2>2. /\ \A j \in L : AbstractJob[j].phase = "held"
          /\ \A j \in R : AbstractJob[j].phase = "delayed"
      BY AbstractJobFields
    <2>3. AbstractJob' = [j \in JobId |->
                 IF j \in L THEN [AbstractJob[j] EXCEPT !.phase = "lapsed"]
                 ELSE IF j \in R THEN [AbstractJob[j] EXCEPT !.phase = "ready"]
                 ELSE AbstractJob[j]]
      <3> HIDE DEF L, R
      <3> QED BY <2>1 DEF Tick, AbstractJob
    <2> QED BY <2>2, <2>3 DEF Tick, Abstract!TimePasses
  <1> QED BY <1>1, <1>2

\* Every step of the Redis queue maps to a step of FencedQueue or to a stutter.
LEMMA StepRefines ==
    ASSUME Inv, [Next]_vars
    PROVE  [Abstract!QueueNext]_(Abstract!queueVars)
  <1>1. CASE \E d \in Document, j \in JobId : Enqueue(d, j)
    BY <1>1, EnqueueRefines DEF Abstract!QueueNext
  <1>2. CASE \E w \in Worker, j \in JobId : Claim(w, j)
    BY <1>2, ClaimRefines DEF Abstract!QueueNext
  <1>3. CASE \E l \in issued : Renew(l)
    BY <1>3, RenewRefines
  <1>4. CASE \E l \in issued : Acknowledge(l)
    BY <1>4, AcknowledgeRefines, CurrentOwns DEF Acknowledge, Abstract!QueueNext
  <1>5. CASE \E l \in issued : \E at \in now..(now + MaxDelay) : Release(l, at)
    <2>1. PICK l \in issued, at \in now..(now + MaxDelay) : Release(l, at)
      BY <1>5
    <2>2. l.worker \in Worker /\ l.job \in JobId
      BY <2>1, CurrentOwns DEF Release
    <2>3. \E p \in {"delayed", "ready"} :
             Abstract!Release(l.worker, l.job, AbstractJob[l.job].token, p)
      BY <2>1, ReleaseRefines
    <2> QED BY <2>2, <2>3 DEF Abstract!QueueNext
  <1>6. CASE \E c \in Client, d \in Document : RemoveLookup(c, d)
    BY <1>6, RemoveRefines DEF Abstract!QueueNext
  <1>7. CASE \E c \in Client : RemoveExecute(c)
    BY <1>7, RemoveRefines DEF Abstract!QueueNext
  <1>8. CASE Tick
    BY <1>8, TickRefines DEF Abstract!QueueNext
  <1>9. CASE UNCHANGED vars
    BY <1>9 DEF vars, Abstract!queueVars, AbstractJob, AbstractPhase
  <1> QED BY <1>1, <1>2, <1>3, <1>4, <1>5, <1>6, <1>7, <1>8, <1>9 DEF Next

\* The Redis scripts implement the queue the workers are promised.
THEOREM Refinement == Spec => ImplementsFencedQueue
  <1>1. Inv /\ [Next]_vars => [Abstract!QueueNext]_(Abstract!queueVars)
    BY StepRefines
  <1> QED BY InitRefines, Invariance, <1>1, PTL
          DEF Spec, ImplementsFencedQueue, Abstract!QueueSpec

-----------------------------------------------------------------------------
(* The Redis queue keeps to the promise all lease queues share.  What a      *)
(* worker sees of a job is its state, holder and token: a lapse, a renewal   *)
(* and a tick change none of them.                                           *)

\* The job of an id whose hash and membership of used are known.
LEMMA HandedJobFields ==
    ASSUME NEW j \in JobId
    PROVE  /\ HandedJobs[j] = [state |-> HandedState(j), document |-> hash[j].documentId,
                               worker |-> hash[j].workerId, token |-> hash[j].fencingToken]
           /\ HandedJobs[j].state = HandedState(j) /\ HandedJobs[j].document = hash[j].documentId
           /\ HandedJobs[j].worker = hash[j].workerId /\ HandedJobs[j].token = hash[j].fencingToken
  BY DEF HandedJobs

\* A hash that is not touched is the job it was.
LEMMA HandedStays ==
    ASSUME NEW j \in JobId, hash'[j] = hash[j], j \in used' <=> j \in used
    PROVE  HandedJobs'[j] = HandedJobs[j]
  BY DEF HandedJobs, HandedState

\* The scripts start with no job and no lease.
LEMMA InitHandsOver == Init => Handover!HandoverInit
  BY DEF Init, Handover!HandoverInit, Handover!NoJob, HandedJobs, HandedState, NoHash

\* enqueueScript creates a job under an id that was not used.
LEMMA EnqueueHandsOver ==
    ASSUME Inv, NEW d \in Document, NEW j \in JobId, Enqueue(d, j)
    PROVE  Handover!CreateJob(d, j)
  <1> DEFINE born == [state |-> "waiting", document |-> d, worker |-> None, token |-> 0]
  <1>1. HandedJobs[j].state = "absent"
    BY HandedJobFields DEF Inv, TypeOK, Hash, UsedOnce, Exists, Enqueue, HandedState
  <1>2. /\ hash'[j].state = "QUEUED" /\ hash'[j].documentId = d
        /\ hash'[j].workerId = None /\ hash'[j].fencingToken = 0
    BY DEF Inv, TypeOK, Enqueue
  <1>3. HandedJobs'[j] = born
    BY <1>2 DEF HandedJobs, HandedState
  <1>4. \A k \in JobId : k # j => HandedJobs'[k] = HandedJobs[k]
    BY HandedStays DEF Inv, TypeOK, Enqueue
  <1> HIDE DEF born
  <1>5. HandedJobs' = [HandedJobs EXCEPT ![j] = born]
    BY <1>3, <1>4, Zenon DEF HandedJobs
  <1> QED BY <1>1, <1>5 DEF born, Enqueue, Handover!CreateJob

\* claimScript hands a job out under its next token, and answers with it.
LEMMA ClaimHandsOver ==
    ASSUME Inv, NEW w \in Worker, NEW j \in JobId, Claim(w, j)
    PROVE  Handover!HandOver(w, j)
  <1>1. Exists(j)
    BY ClaimableJob DEF Claim
  <1>2. /\ hash' = [hash EXCEPT ![j].state = "CLAIMED", ![j].workerId = w,
                                ![j].fencingToken = hash[j].fencingToken + 1,
                                ![j].leaseExpiresAt = now + LeaseDuration]
        /\ issued' = issued \cup {[job |-> j, worker |-> w, token |-> hash[j].fencingToken + 1]}
        /\ used' = used
    BY <1>1 DEF Claim, NextToken
  <1>3. HandedJobs[j].state \in {"waiting", "claimed"} /\ HandedJobs[j].token = hash[j].fencingToken
    BY <1>1, HandedJobFields DEF Inv, TypeOK, Hash, Exists, HandedState
  <1> DEFINE handed == [state |-> "claimed", document |-> HandedJobs[j].document, worker |-> w,
                        token |-> HandedJobs[j].token + 1]
  <1>4. /\ hash'[j].state = "CLAIMED" /\ hash'[j].documentId = hash[j].documentId
        /\ hash'[j].workerId = w /\ hash'[j].fencingToken = hash[j].fencingToken + 1
        /\ \A k \in JobId : k # j => hash'[k] = hash[k]
    BY <1>2 DEF Inv, TypeOK, Hash
  <1>5. HandedJobs'[j] = handed
    BY <1>4, HandedJobFields DEF HandedJobs, HandedState
  <1>6. \A k \in JobId : k # j => HandedJobs'[k] = HandedJobs[k]
    BY <1>2, <1>4, HandedStays
  <1> HIDE DEF handed
  <1>7. HandedJobs' = [HandedJobs EXCEPT ![j] = handed]
    BY <1>5, <1>6, Zenon DEF HandedJobs
  <1> QED BY <1>2, <1>3, <1>7 DEF handed, Handover!HandOver, Handover!LeaseOf

\* The lease the scripts accept is the last of its job.
LEMMA CurrentIsLast ==
    ASSUME Inv, NEW l \in issued, Current(l)
    PROVE  l.job \in JobId /\ Handover!LastLease(l)
  <1>1. l.job \in JobId
    BY DEF Inv, TypeOK, Lease
  <1> QED BY <1>1, HandedJobFields DEF Current, HandedState, Handover!LastLease

\* renewScript changes nothing but times.
LEMMA RenewHandsOver ==
    ASSUME Inv, NEW l \in issued, Renew(l)
    PROVE  UNCHANGED Handover!handoverVars
  <1>1. HandedJobs' = HandedJobs
    BY DEF Inv, TypeOK, Hash, Lease, Renew, Current, HandedJobs, HandedState
  <1> QED BY <1>1 DEF Renew, Handover!handoverVars

LEMMA AcknowledgeHandsOver ==
    ASSUME Inv, NEW l \in issued, Acknowledge(l)
    PROVE  Handover!Finish(l)
  <1>1. Current(l)
    BY DEF Acknowledge
  <1>2. l.job \in JobId /\ l.job \in used
    BY <1>1, CurrentIsLast DEF Inv, UsedOnce, Exists, Current
  <1>3. HandedJobs' = [HandedJobs EXCEPT ![l.job] = Handover!NoJob("gone")]
    BY <1>2 DEF Inv, TypeOK, Acknowledge, HandedJobs, HandedState, NoHash, Handover!NoJob
  <1> QED BY <1>1, <1>3, CurrentIsLast DEF Acknowledge, Handover!Finish

LEMMA ReleaseHandsOver ==
    ASSUME Inv, NEW l \in issued, NEW at \in now..(now + MaxDelay), Release(l, at)
    PROVE  Handover!Return(l)
  <1>1. Current(l)
    BY DEF Release
  <1>2. l.job \in JobId
    BY <1>1, CurrentIsLast
  <1> DEFINE j == l.job
             back == [state |-> "waiting", document |-> HandedJobs[j].document, worker |-> None,
                      token |-> HandedJobs[j].token]
  <1>3. /\ hash'[j].state = "QUEUED" /\ hash'[j].documentId = hash[j].documentId
        /\ hash'[j].workerId = None /\ hash'[j].fencingToken = hash[j].fencingToken
        /\ \A k \in JobId : k # j => hash'[k] = hash[k]
        /\ used' = used
    BY <1>2 DEF Inv, TypeOK, Hash, Release
  <1>4. HandedJobs'[j] = back
    BY <1>2, <1>3, HandedJobFields DEF HandedJobs, HandedState
  <1>5. \A k \in JobId : k # j => HandedJobs'[k] = HandedJobs[k]
    BY <1>3, HandedStays
  <1> HIDE DEF back
  <1>6. HandedJobs' = [HandedJobs EXCEPT ![l.job] = back]
    BY <1>2, <1>4, <1>5, Zenon DEF HandedJobs
  <1>7. HandedJobs[l.job].token = l.token
    BY <1>1, <1>2, HandedJobFields DEF Current
  <1> QED BY <1>1, <1>6, <1>7, CurrentIsLast DEF back, Release, Handover!Return

\* removeForDocument withdraws the job its first round trip had read.
LEMMA RemoveHandsOver ==
    ASSUME Inv, NEW c \in Client, RemoveExecute(c)
    PROVE  \E J \in SUBSET JobId : Handover!Withdraw(J)
  <1> DEFINE j == removing[c].job
  <1>1. j \in JobId /\ j \in used
    BY DEF RemoveExecute, Inv, TypeOK, UsedOnce
  <1>2. hash' = [hash EXCEPT ![j] = NoHash] /\ used' = used /\ issued' = issued
    BY DEF RemoveExecute
  <1> HIDE DEF j
  <1>3. HandedJobs' = [k \in JobId |-> IF k \in {j} THEN Handover!NoJob("gone") ELSE HandedJobs[k]]
    BY <1>1, <1>2 DEF Inv, TypeOK, HandedJobs, HandedState, NoHash, Handover!NoJob
  <1> QED BY <1>1, <1>2, <1>3 DEF Handover!Withdraw

\* Every step of the scripts is a step of the shared promise, or none.
LEMMA StepHandsOver ==
    ASSUME Inv, [Next]_vars
    PROVE  [Handover!HandoverNext]_(Handover!handoverVars)
  <1>1. CASE \E d \in Document, j \in JobId : Enqueue(d, j)
    BY <1>1, EnqueueHandsOver DEF Handover!HandoverNext
  <1>2. CASE \E w \in Worker, j \in JobId : Claim(w, j)
    BY <1>2, ClaimHandsOver DEF Handover!HandoverNext
  <1>3. CASE \E l \in issued : Renew(l)
    BY <1>3, RenewHandsOver
  <1>4. CASE \E l \in issued : Acknowledge(l)
    BY <1>4, AcknowledgeHandsOver DEF Handover!HandoverNext
  <1>5. CASE \E l \in issued : \E at \in now..(now + MaxDelay) : Release(l, at)
    BY <1>5, ReleaseHandsOver DEF Handover!HandoverNext
  <1>6. ASSUME hash' = hash, used' = used, issued' = issued PROVE UNCHANGED Handover!handoverVars
    BY <1>6 DEF HandedJobs, HandedState, Handover!handoverVars
  <1>7. CASE \E c \in Client : RemoveExecute(c)
    BY <1>7, RemoveHandsOver DEF Handover!HandoverNext
  <1>8. CASE (\E c \in Client, d \in Document : RemoveLookup(c, d)) \/ Tick \/ UNCHANGED vars
    BY <1>6, <1>8 DEF RemoveLookup, Tick, vars
  <1> QED BY <1>1, <1>2, <1>3, <1>4, <1>5, <1>7, <1>8 DEF Next

\* To their workers the Redis scripts are the queue that the file queue of a
\* development machine is too.
THEOREM RedisQueueHandsOver == Spec => ScriptsHandOver
  <1>1. Inv /\ [Next]_vars => [Handover!HandoverNext]_(Handover!handoverVars)
    BY StepHandsOver
  <1> QED BY InitHandsOver, Invariance, <1>1, PTL
          DEF Spec, ScriptsHandOver, Handover!HandoverSpec
=============================================================================
