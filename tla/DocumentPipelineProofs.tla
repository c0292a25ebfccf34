----------------------- MODULE DocumentPipelineProofs -----------------------
(***************************************************************************)
(* Document processing for every set of documents, jobs, workers and       *)
(* clients, every allowance of disturbances and every number of attempts.  *)
(*                                                                         *)
(* PipelineInv says what the others may rely on while somebody is between  *)
(* two awaits: a worker that has a job in hand has one that was created,   *)
(* for its document and with a token that was given out (JobsAreKnown); a  *)
(* request that has read a row still knows of it what its next write needs *)
(* (RequestKnows).  Steps are not proved against it one conjunct at a      *)
(* time.  QueueKept, WorkerMoves, RowsMove and RequestMoves say what a     *)
(* step of the queue, a worker or a request may do at most; each action is *)
(* shown to do no more, and the invariant is shown once for each of these. *)
(*                                                                         *)
(* PurgeInv (nothing is left of a purged document) and WorkInv (a document *)
(* that waits has a job) come on top and are proved the same way, each     *)
(* under the condition that the property itself needs.                     *)
(***************************************************************************)
EXTENDS DocumentPipeline, TLAPS

\* A worker that has written its fence into the row and not yet finished.
PastFence(w) == wk[w].pc \notin BeforeFence \cup {"ack"}

\* Jobs are created once; what a worker has claimed is the job of its document,
\* under a token that has been given out.
JobsAreKnown ==
    /\ \A j \in JobId : Live(j) => job[j].document \in Document
    /\ \A w \in Worker :
          /\ wk[w].pc = "idle" => wk[w] = IdleWorker
          /\ wk[w].pc # "idle" =>
                /\ wk[w].job \in JobId /\ wk[w].document \in Document /\ job[wk[w].job].phase # "absent"
                /\ Live(wk[w].job) =>
                      job[wk[w].job].document = wk[w].document /\ wk[w].token <= job[wk[w].job].token
    /\ \A v, w \in Worker : wk[v].job = wk[w].job => wk[v].document = wk[w].document

\* Whoever has passed the lease check and was overtaken since has lost its fence
\* as soon as the later claim wrote its own.
OvertakenIsFenced ==
    \A v, w \in Worker :
        /\ wk[w].pc = "complete" /\ PastFence(v)
        /\ wk[v].job = wk[w].job /\ wk[v].token > wk[w].token
        => ~ HoldsFence(w)

Purging == {"purgeOriginal", "purgeText", "purgeChunks", "purgeRow"}

\* What a request still knows of its document when it writes.
RequestKnows(c) ==
    LET r == rq[c]
    IN  /\ r.pc # "idle" => r.document \in Document /\ r.op \in AllOperations
        /\ r.pc = "create" => meta[r.document].status = "ABSENT" /\ original[r.document]
        /\ r.pc = "apply" => r.op # "cleanup"
        /\ r.pc \in {"enqueue", "apply"} /\ r.op = "reprocess" =>
              r.seen \in {"COMPLETED", "FAILED", "QUARANTINED"}
        /\ r.pc = "apply" /\ r.op = "delete" => r.seen \in Stored
        /\ r.pc \in {"enqueue", "enqueueOnly"} => r.op \in {"upload", "reprocess", "retry"}
        /\ r.pc \in Purging => meta[r.document].status \in {"DELETED", "PURGED"}

OneUpload ==
    \A c, e \in Client :
        rq[c].pc = "create" /\ rq[e].pc = "create" /\ rq[c].document = rq[e].document => c = e

PipelineInv ==
    /\ TypeOK /\ (\A k \in Disturbance : left[k] <= Allowance[k])
    /\ JobsAreKnown /\ OvertakenIsFenced
    /\ (\A c \in Client : RequestKnows(c)) /\ OneUpload /\ RowHasOriginal

\* A step that the tables of statuses allow.
LegalStep ==
    \A d \in Document :
        Visible(d) /\ meta'[d].status # meta[d].status
            => meta'[d].status \in AllowedTransitions[meta[d].status]

-----------------------------------------------------------------------------
LEMMA PipelineInit == Init => PipelineInv
  <1> SUFFICES ASSUME Init PROVE PipelineInv
    OBVIOUS
  <1> USE NoneIsNoValue, StoreAssumption, OperationsAssumption
  <1>a. PICK accepted \in SUBSET Document : AcceptedAlready(accepted)
    BY DEF Init
  <1>0. PICK f \in [accepted -> JobId] :
            /\ \A d, e \in accepted : f[d] = f[e] => d = e
            /\ index = [d \in Document |-> IF d \in accepted THEN f[d] ELSE None]
            /\ job = [j \in JobId |->
                        IF \E d \in accepted : f[d] = j
                        THEN [phase |-> "ready", worker |-> None, token |-> 0,
                              document |-> CHOOSE d \in accepted : f[d] = j]
                        ELSE NoJob("absent")]
    BY <1>a DEF AcceptedAlready
  <1>1. /\ removing = [c \in Client |-> None]
        /\ meta = [d \in Document |-> NewRow(IF d \in accepted THEN "QUEUED" ELSE "ABSENT")]
        /\ original = [d \in Document |-> d \in accepted]
        /\ text = [d \in Document |-> FALSE] /\ chunks = [d \in Document |-> FALSE]
        /\ left = Allowance
        /\ wk = [w \in Worker |-> IdleWorker] /\ rq = [c \in Client |-> IdleRequest]
    BY <1>a DEF Init, AcceptedAlready
  <1>2. \A j \in JobId : job[j] \in Job /\ (Live(j) => job[j].document \in accepted)
    <2> SUFFICES ASSUME NEW j \in JobId PROVE job[j] \in Job /\ (Live(j) => job[j].document \in accepted)
      OBVIOUS
    <2>1. CASE \E d \in accepted : f[d] = j
      <3>1. (CHOOSE d \in accepted : f[d] = j) \in accepted
        BY <2>1
      <3> QED BY <1>0, <2>1, <3>1 DEF Job, Phase
    <2>2. CASE ~ \E d \in accepted : f[d] = j
      BY <1>0, <2>2 DEF Job, Phase, NoJob, Live
    <2> QED BY <2>1, <2>2
  <1>3. index \in [Document -> JobId \cup {None}]
    BY <1>0
  <1>4. job = [j \in JobId |-> job[j]]
    BY <1>0
  <1>5. StoreTypeOK
    BY <1>1 DEF StoreTypeOK, Row, NewRow, Status, Stored
  <1>6. IdleWorker \in WorkerState /\ IdleRequest \in RequestState
    BY DEF IdleWorker, WorkerState, WorkerPc, IdleRequest, RequestState, RequestPc, Status
  <1>7. TypeOK
    BY <1>1, <1>2, <1>3, <1>4, <1>5, <1>6 DEF TypeOK
  <1>8. JobsAreKnown
    BY <1>1, <1>2 DEF JobsAreKnown, IdleWorker
  <1>9. OvertakenIsFenced
    BY <1>1 DEF OvertakenIsFenced, IdleWorker
  <1>10. (\A c \in Client : RequestKnows(c)) /\ OneUpload
    BY <1>1 DEF RequestKnows, OneUpload, IdleRequest, Purging
  <1>11. RowHasOriginal
    BY <1>1 DEF RowHasOriginal, AllHeard, Visible, NewRow, Stored
  <1> QED BY <1>1, <1>7, <1>8, <1>9, <1>10, <1>11 DEF PipelineInv

-----------------------------------------------------------------------------
(* The queue: a step leaves jobs alone, takes them away, hands them on with *)
(* tokens that only grow, or makes a fresh one.                             *)

QueueKept ==
    /\ index' \in [Document -> JobId \cup {None}] /\ job' \in [JobId -> Job]
    /\ removing' \in [Client -> {None} \cup [document : Document, job : JobId]]
    /\ \A j \in JobId :
          /\ job[j].phase # "absent" => job'[j].phase # "absent"
          /\ Live(j)' /\ Live(j) => job'[j].document = job[j].document /\ job'[j].token >= job[j].token
          /\ Live(j)' /\ ~ Live(j) => job'[j].document \in Document /\ job[j].phase = "absent"

LEMMA QueueStands ==
    ASSUME PipelineInv, UNCHANGED queueVars
    PROVE  QueueKept
  BY DEF QueueKept, PipelineInv, TypeOK, queueVars, Live, Job

LEMMA AcknowledgeIsKept ==
    ASSUME PipelineInv, NEW w \in Worker, NEW j \in JobId, NEW t, Acknowledge(w, j, t)
    PROVE  QueueKept /\ Live(j) /\ ~ Live(j)' /\ \A k \in JobId \ {j} : job'[k] = job[k]
  <1>1. /\ index \in [Document -> JobId \cup {None}] /\ job \in [JobId -> Job]
        /\ removing \in [Client -> {None} \cup [document : Document, job : JobId]]
        /\ None \notin JobId
    BY NoneIsNoValue DEF PipelineInv, TypeOK
  <1>2. /\ job' = [job EXCEPT ![j] = NoJob("gone")] /\ removing' = removing
        /\ index' = [index EXCEPT ![job[j].document] = None] /\ job[j].phase = "held"
    BY DEF Acknowledge, Owns
  <1>3. NoJob("gone") \in Job /\ NoJob("gone").phase = "gone"
    BY DEF NoJob, Job, Phase
  <1>4. job' \in [JobId -> Job] /\ job'[j] = NoJob("gone") /\ \A k \in JobId \ {j} : job'[k] = job[k]
    BY <1>1, <1>2, <1>3
  <1>5. index' \in [Document -> JobId \cup {None}]
    BY <1>1, <1>2
  <1>6. Live(j) /\ ~ Live(j)' /\ \A k \in JobId \ {j} : Live(k)' <=> Live(k)
    BY <1>2, <1>3, <1>4 DEF Live
  <1>7. \A k \in JobId : job[k].token \in Nat
    BY <1>1 DEF Job
  <1> QED BY <1>1, <1>2, <1>3, <1>4, <1>5, <1>6, <1>7 DEF QueueKept

\* A live job that is changed and stays alive.
LEMMA ChangedJob ==
    ASSUME PipelineInv, NEW j \in JobId, Live(j), NEW new \in Job, job' = [job EXCEPT ![j] = new],
           UNCHANGED <<index, removing>>, new.phase \in {"delayed", "ready", "held", "lapsed"},
           new.document = job[j].document, new.token >= job[j].token
    PROVE  QueueKept /\ \A k \in JobId : (Live(k)' <=> Live(k)) /\ (k # j => job'[k] = job[k])
  <1>1. job \in [JobId -> Job]
    BY DEF PipelineInv, TypeOK
  <1>2. job' \in [JobId -> Job] /\ job'[j] = new /\ \A k \in JobId \ {j} : job'[k] = job[k]
    BY <1>1
  <1>3. \A k \in JobId : Live(k)' <=> Live(k)
    BY <1>2 DEF Live
  <1>4. \A k \in JobId : job[k].token \in Nat /\ job[k].phase \in Phase
    BY <1>1 DEF Job
  <1> QED BY <1>2, <1>3, <1>4 DEF QueueKept, PipelineInv, TypeOK

LEMMA ReleaseIsKept ==
    ASSUME PipelineInv, NEW w \in Worker, NEW j \in JobId, NEW t, Release(w, j, t, "delayed")
    PROVE  QueueKept /\ \A k \in JobId : (Live(k)' <=> Live(k)) /\ (k # j => job'[k] = job[k])
  <1> DEFINE new == [phase |-> "delayed", document |-> job[j].document, worker |-> None, token |-> t]
  <1>1. job' = [job EXCEPT ![j] = new] /\ UNCHANGED <<index, removing>> /\ Live(j) /\ job[j].token = t
    BY DEF Release, Owns, Live
  <1>2. job[j] \in Job
    BY DEF PipelineInv, TypeOK
  <1>3. /\ new \in Job /\ new.phase = "delayed" /\ new.document = job[j].document
        /\ new.token >= job[j].token
    BY <1>1, <1>2 DEF Job, Phase
  <1> HIDE DEF new
  <1> QED BY <1>1, <1>3, ChangedJob

LEMMA TimeIsKept ==
    ASSUME PipelineInv, NEW j \in JobId, TimePasses({j}, {}) \/ TimePasses({}, {j})
    PROVE  QueueKept /\ \A k \in JobId : (Live(k)' <=> Live(k)) /\ job'[k].document = job[k].document
  <1> DEFINE phase == IF job[j].phase = "held" THEN "lapsed" ELSE "ready"
             new == [job[j] EXCEPT !.phase = phase]
  <1>1. job \in [JobId -> Job]
    BY DEF PipelineInv, TypeOK
  <1>2. Live(j) /\ UNCHANGED <<index, removing>> /\ \A k \in JobId : job'[k] = IF k = j THEN new ELSE job[k]
    <2>1. CASE TimePasses({j}, {})
      <3>1. job[j].phase = "held"
        BY <2>1 DEF TimePasses
      <3> QED BY <2>1, <3>1 DEF TimePasses, Live
    <2>2. CASE TimePasses({}, {j})
      <3>1. job[j].phase = "delayed"
        BY <2>2 DEF TimePasses
      <3> QED BY <2>2, <3>1 DEF TimePasses, Live
    <2> QED BY <2>1, <2>2
  <1>3. /\ new \in Job /\ new.phase \in {"lapsed", "ready"} /\ new.document = job[j].document
        /\ new.token = job[j].token
    BY <1>1 DEF Job, Phase
  <1>4. job[j].token \in Nat
    BY <1>1 DEF Job
  <1>5. job' = [job EXCEPT ![j] = new]
    <2>1. job' = [k \in JobId |-> job'[k]]
      BY DEF TimePasses
    <2> QED BY <1>1, <1>2, <2>1
  <1> HIDE DEF phase, new
  <1>6. new.token >= job[j].token /\ Live(j) /\ UNCHANGED <<index, removing>>
    BY <1>2, <1>3, <1>4
  <1>7. QueueKept /\ \A k \in JobId : (Live(k)' <=> Live(k)) /\ (k # j => job'[k] = job[k])
    BY <1>3, <1>5, <1>6, ChangedJob
  <1> QED BY <1>2, <1>3, <1>7

-----------------------------------------------------------------------------
(* The worker that takes a step. *)

\* It stays with the job it has.
SameHand(w) ==
    /\ wk[w].pc # "idle" /\ wk'[w].pc \notin {"idle", "lookup"}
    /\ wk'[w].document = wk[w].document /\ wk'[w].job = wk[w].job /\ wk'[w].token = wk[w].token

OthersStay(w) ==
    wk' \in [Worker -> WorkerState] /\ \A v \in Worker \ {w} : wk'[v] = wk[v]

\* What runOnce may do with the worker's own state ...
WorkerMoves(w) ==
    /\ OthersStay(w)
    /\ wk'[w] = IdleWorker \/ SameHand(w)
    /\ wk'[w].pc = "complete" => wk[w].pc = "assert" /\ HoldsLease(w)
    /\ wk[w].pc = "complete" /\ wk'[w].pc # "complete" /\ meta' # meta => HoldsFence(w)
    /\ PastFence(w)' => PastFence(w) \/ HoldsFence(w)'

InHand == {"UPLOADED", "QUEUED", "PROCESSING"}

\* ... and with the rows and files: only documents in hand move, along the table,
\* nobody else is given the fence, and originals stay.
RowsMove(w) ==
    /\ StoreTypeOK' /\ original' = original
    /\ \A k \in Disturbance : left'[k] <= left[k]
    /\ \A d \in Document : meta'[d].status # meta[d].status =>
          /\ d = Doc(w) /\ meta[d].status \in InHand
          /\ meta'[d].status \in AllowedTransitions[meta[d].status]
    /\ \A x \in Worker \ {w}, d \in Document :
          meta'[d].worker = x => meta'[d] = [meta[d] EXCEPT !.status = meta'[d].status]

LEMMA TypesOf ==
    ASSUME PipelineInv
    PROVE  /\ wk \in [Worker -> WorkerState] /\ rq \in [Client -> RequestState]
           /\ meta \in [Document -> Row] /\ job \in [JobId -> Job]
           /\ index \in [Document -> JobId \cup {None}]
           /\ removing \in [Client -> {None} \cup [document : Document, job : JobId]]
           /\ original \in [Document -> BOOLEAN] /\ text \in [Document -> BOOLEAN]
           /\ chunks \in [Document -> BOOLEAN] /\ left \in [Disturbance -> Nat]
  BY DEF PipelineInv, TypeOK, StoreTypeOK

\* The allowance only shrinks.
LEMMA SpentOrNot ==
    ASSUME PipelineInv, left' = left \/ \E k \in Disturbance : Spend(k)
    PROVE  left' \in [Disturbance -> Nat] /\ (\A k \in Disturbance : left'[k] <= left[k] /\ left'[k] <= Allowance[k])
  <1>1. left \in [Disturbance -> Nat] /\ \A k \in Disturbance : left[k] <= Allowance[k] /\ Allowance[k] \in Nat
    BY TypesOf, StoreAssumption DEF PipelineInv
  <1>2. CASE left' = left
    BY <1>1, <1>2
  <1>3. ASSUME NEW k \in Disturbance, Spend(k)
        PROVE  left' \in [Disturbance -> Nat] /\ (\A i \in Disturbance : left'[i] <= left[i] /\ left'[i] <= Allowance[i])
    BY <1>1, <1>3 DEF Spend
  <1> QED BY <1>2, <1>3

\* As long as every answer was heard, the originals are where they were before.
LEMMA HeardBefore ==
    ASSUME PipelineInv, left' \in [Disturbance -> Nat], \A k \in Disturbance : left'[k] <= left[k], AllHeard'
    PROVE  \A d \in Document : Visible(d) => original[d]
  <1>1. /\ left["unheard"] \in Nat /\ left'["unheard"] \in Nat /\ Allowance["unheard"] \in Nat
        /\ left'["unheard"] <= left["unheard"] /\ left["unheard"] <= Allowance["unheard"]
    BY TypesOf, StoreAssumption DEF PipelineInv, Disturbance
  <1>2. AllHeard
    BY <1>1 DEF AllHeard
  <1> QED BY <1>2 DEF PipelineInv, RowHasOriginal

LEMMA GoesTo ==
    ASSUME PipelineInv, NEW w \in Worker, wk[w].pc # "idle", NEW p \in WorkerPc \ {"idle", "lookup"}, Goto(w, p)
    PROVE  OthersStay(w) /\ SameHand(w) /\ wk'[w].pc = p /\ wk'[w] = [wk[w] EXCEPT !.pc = p]
  <1>1. wk \in [Worker -> WorkerState]
    BY TypesOf
  <1>2. [wk[w] EXCEPT !.pc = p] \in WorkerState
    BY <1>1 DEF WorkerState
  <1>3. wk' = [wk EXCEPT ![w] = [wk[w] EXCEPT !.pc = p]]
    BY <1>1 DEF Goto
  <1>4. wk'[w] = [wk[w] EXCEPT !.pc = p] /\ OthersStay(w)
    BY <1>1, <1>2, <1>3 DEF OthersStay
  <1>5. /\ wk'[w].pc = p /\ wk'[w].document = wk[w].document /\ wk'[w].job = wk[w].job
        /\ wk'[w].token = wk[w].token
    BY <1>1, <1>4 DEF WorkerState
  <1> QED BY <1>4, <1>5 DEF SameHand

LEMMA FailsTo ==
    ASSUME PipelineInv, NEW w \in Worker, wk[w].pc # "idle", NEW e \in {"retryable", "permanent"},
           NEW p \in WorkerPc \ {"idle", "lookup"}, Fail(w, e, p)
    PROVE  OthersStay(w) /\ SameHand(w) /\ wk'[w].pc = p
  <1>1. wk \in [Worker -> WorkerState]
    BY TypesOf
  <1> DEFINE new == [wk[w] EXCEPT !.error = e, !.pc = p]
  <1>2. /\ new \in WorkerState /\ new.pc = p /\ new.document = wk[w].document /\ new.job = wk[w].job
        /\ new.token = wk[w].token
    BY <1>1 DEF WorkerState
  <1>3. wk' = [wk EXCEPT ![w] = new]
    BY <1>1 DEF Fail
  <1> HIDE DEF new
  <1>4. wk'[w] = new /\ OthersStay(w)
    BY <1>1, <1>2, <1>3 DEF OthersStay
  <1> QED BY <1>2, <1>4 DEF SameHand

LEMMA Throws ==
    ASSUME PipelineInv, NEW w \in Worker, Throw(w)
    PROVE  OthersStay(w) /\ wk'[w] = IdleWorker
  <1>1. wk \in [Worker -> WorkerState] /\ IdleWorker \in WorkerState
    BY TypesOf DEF IdleWorker, WorkerState, WorkerPc
  <1> QED BY <1>1 DEF Throw, OthersStay

\* A thrown exception keeps every promise.
LEMMA IdleMoves ==
    ASSUME NEW w \in Worker, OthersStay(w), wk'[w] = IdleWorker, meta' = meta
    PROVE  WorkerMoves(w)
  BY DEF WorkerMoves, IdleWorker, PastFence, BeforeFence

\* A step that leaves the rows alone.
LEMMA RowsStand ==
    ASSUME PipelineInv, NEW w \in Worker, UNCHANGED <<meta, original>>, text' \in [Document -> BOOLEAN],
           chunks' \in [Document -> BOOLEAN], left' = left \/ \E k \in Disturbance : Spend(k)
    PROVE  RowsMove(w)
  <1>1. left' \in [Disturbance -> Nat] /\ \A k \in Disturbance : left'[k] <= left[k]
    BY SpentOrNot
  <1>2. \A d \in Document : meta'[d] = [meta[d] EXCEPT !.status = meta'[d].status]
    BY TypesOf DEF Row
  <1> QED BY <1>1, <1>2, TypesOf DEF RowsMove, StoreTypeOK

\* A step that writes the row of the document in hand.
LEMMA RowWritten ==
    ASSUME PipelineInv, NEW w \in Worker, Doc(w) \in Document, NEW row \in Row, meta' = [meta EXCEPT ![Doc(w)] = row],
           UNCHANGED files, left' = left \/ \E k \in Disturbance : Spend(k),
           row.status # meta[Doc(w)].status =>
               meta[Doc(w)].status \in InHand /\ row.status \in AllowedTransitions[meta[Doc(w)].status],
           row.worker \in {w, None} \/ row = [meta[Doc(w)] EXCEPT !.status = row.status]
    PROVE  RowsMove(w) /\ meta'[Doc(w)] = row
  <1>1. meta' \in [Document -> Row] /\ meta'[Doc(w)] = row /\ \A d \in Document \ {Doc(w)} : meta'[d] = meta[d]
    BY TypesOf
  <1>2. \A d \in Document : meta[d] = [meta[d] EXCEPT !.status = meta[d].status]
    BY TypesOf DEF Row
  <1>3. \A d \in Document : meta'[d].status # meta[d].status =>
          /\ d = Doc(w) /\ meta[d].status \in InHand
          /\ meta'[d].status \in AllowedTransitions[meta[d].status]
    BY <1>1
  <1>4. \A x \in Worker \ {w}, d \in Document :
            meta'[d].worker = x => meta'[d] = [meta[d] EXCEPT !.status = meta'[d].status]
    <2> SUFFICES ASSUME NEW x \in Worker \ {w}, NEW d \in Document, meta'[d].worker = x
                 PROVE  meta'[d] = [meta[d] EXCEPT !.status = meta'[d].status]
      OBVIOUS
    <2>1. CASE d = Doc(w)
      BY <2>1, <1>1, NoneIsNoValue
    <2>2. CASE d # Doc(w)
      BY <2>2, <1>1, <1>2
    <2> QED BY <2>1, <2>2
  <1>5. left' \in [Disturbance -> Nat] /\ \A k \in Disturbance : left'[k] <= left[k]
    BY SpentOrNot
  <1> QED BY <1>1, <1>3, <1>4, <1>5, TypesOf DEF RowsMove, StoreTypeOK, files

\* What a transition writes.
LEMMA TransitionWrites ==
    ASSUME PipelineInv, NEW d \in Document, NEW expected, NEW next \in Status, Transition(d, expected, next)
    PROVE  /\ [meta[d] EXCEPT !.status = next, !.worker = None] \in Row
           /\ meta' = [meta EXCEPT ![d] = [meta[d] EXCEPT !.status = next, !.worker = None]]
  <1> DEFINE row == [meta[d] EXCEPT !.status = next, !.worker = None]
  <1>1. row \in Row /\ row.status = next /\ row.worker = None
    BY TypesOf DEF Row
  <1>2. meta' = [meta EXCEPT ![d] = row]
    BY TypesOf DEF Transition
  <1> QED BY <1>1, <1>2

LEMMA HandHasDocument ==
    ASSUME PipelineInv, NEW w \in Worker, wk[w].pc # "idle"
    PROVE  Doc(w) \in Document /\ wk[w].job \in JobId /\ wk[w].token \in Nat /\ meta[Doc(w)] \in Row
  <1>1. Doc(w) \in Document /\ wk[w].job \in JobId
    BY DEF PipelineInv, JobsAreKnown, Doc
  <1> QED BY <1>1, TypesOf DEF WorkerState

\* findById decides where to go.
LEMMA LookUpMoves ==
    ASSUME PipelineInv, NEW w \in Worker, LookUp(w)
    PROVE  /\ WorkerMoves(w) /\ RowsMove(w)
           /\ UNCHANGED <<queueVars, storeVars>> /\ ~ PastFence(w) /\ ~ PastFence(w)'
           /\ wk'[w].pc \in {"accept", "begin", "ack"}
           /\ wk'[w].pc = "accept" => meta[Doc(w)].status = "UPLOADED"
           /\ wk'[w].pc = "ack" => meta[Doc(w)].status \notin InHand
  <1> DEFINE p == CASE meta[Doc(w)].status = "UPLOADED" -> "accept"
                    [] meta[Doc(w)].status \in TakenUp -> "begin"
                    [] OTHER -> "ack"
             new == [wk[w] EXCEPT !.attempts = meta[Doc(w)].attempts, !.pc = p]
  <1>1. wk[w].pc = "lookup" /\ UNCHANGED <<queueVars, storeVars>> /\ wk \in [Worker -> WorkerState]
    BY TypesOf DEF LookUp
  <1>2. /\ p \in {"accept", "begin", "ack"} /\ (p = "accept" => meta[Doc(w)].status = "UPLOADED")
        /\ p = "ack" => meta[Doc(w)].status \notin InHand
    BY DEF TakenUp, InHand
  <1>a. wk' = [wk EXCEPT ![w].attempts = meta[Doc(w)].attempts, ![w].pc = p]
    BY DEF LookUp
  <1> HIDE DEF p
  <1>3. wk' = [wk EXCEPT ![w] = new]
    BY <1>1, <1>a
  <1>4. meta[Doc(w)].attempts \in Nat
    BY <1>1, HandHasDocument DEF Row
  <1>5. /\ new \in WorkerState /\ new.pc = p /\ new.document = wk[w].document /\ new.job = wk[w].job
        /\ new.token = wk[w].token
    BY <1>1, <1>2, <1>4 DEF WorkerState, WorkerPc
  <1> HIDE DEF new
  <1>6. OthersStay(w) /\ SameHand(w) /\ wk'[w].pc = p
    BY <1>1, <1>2, <1>3, <1>5 DEF OthersStay, SameHand
  <1>7. ~ PastFence(w) /\ ~ PastFence(w)'
    BY <1>1, <1>2, <1>6 DEF PastFence, BeforeFence
  <1>8. WorkerMoves(w)
    BY <1>1, <1>2, <1>6, <1>7 DEF WorkerMoves
  <1>9. RowsMove(w)
    BY <1>1, RowsStand, TypesOf DEF storeVars
  <1> QED BY <1>1, <1>2, <1>6, <1>7, <1>8, <1>9

\* UPLOADED -> QUEUED by the worker.
LEMMA AcceptMoves ==
    ASSUME PipelineInv, NEW w \in Worker, Accept(w)
    PROVE  /\ WorkerMoves(w) /\ RowsMove(w)
           /\ UNCHANGED <<queueVars, files, left>> /\ wk[w].pc = "accept" /\ wk'[w].pc \in {"begin", "ack"}
  <1>1. wk[w].pc = "accept" /\ UNCHANGED <<queueVars, files, left>> /\ wk \in [Worker -> WorkerState]
    BY TypesOf DEF Accept
  <1>2. Doc(w) \in Document /\ meta[Doc(w)] \in Row
    BY <1>1, HandHasDocument
  <1>3. CASE meta[Doc(w)].status = "UPLOADED"
    <2> DEFINE new == [wk[w] EXCEPT !.attempts = meta[Doc(w)].attempts, !.pc = "begin"]
               row == [meta[Doc(w)] EXCEPT !.status = "QUEUED"]
    <2>1. wk' = [wk EXCEPT ![w] = new] /\ meta' = [meta EXCEPT ![Doc(w)] = row]
      BY <1>1, <1>2, <1>3, TypesOf DEF Accept
    <2>2. /\ new \in WorkerState /\ new.pc = "begin" /\ new.document = wk[w].document
          /\ new.job = wk[w].job /\ new.token = wk[w].token
      BY <1>1, <1>2 DEF WorkerState, WorkerPc, Row
    <2>3. row \in Row /\ row.status = "QUEUED" /\ row = [meta[Doc(w)] EXCEPT !.status = row.status]
      BY <1>2 DEF Row, Status, Stored
    <2> HIDE DEF new, row
    <2>4. OthersStay(w) /\ SameHand(w) /\ wk'[w].pc = "begin"
      BY <1>1, <2>1, <2>2 DEF OthersStay, SameHand
    <2>5. WorkerMoves(w)
      BY <1>1, <2>4 DEF WorkerMoves, PastFence, BeforeFence
    <2>6. RowsMove(w)
      <3>1. meta[Doc(w)].status \in InHand /\ "QUEUED" \in AllowedTransitions[meta[Doc(w)].status]
        BY <1>3 DEF InHand, AllowedTransitions
      <3> QED BY <1>1, <1>2, <2>1, <2>3, <3>1, RowWritten
    <2> QED BY <1>1, <2>4, <2>5, <2>6
  <1>4. CASE meta[Doc(w)].status # "UPLOADED"
    <2>1. Goto(w, "ack") /\ UNCHANGED meta
      BY <1>4 DEF Accept
    <2>2. OthersStay(w) /\ SameHand(w) /\ wk'[w].pc = "ack"
      <3>1. "ack" \in WorkerPc \ {"idle", "lookup"} /\ wk[w].pc # "idle"
        BY <1>1 DEF WorkerPc
      <3> QED BY <2>1, <3>1, GoesTo
    <2>3. WorkerMoves(w)
      BY <1>1, <2>2 DEF WorkerMoves, PastFence, BeforeFence
    <2>4. RowsMove(w)
      BY <1>1, <2>1, RowsStand, TypesOf DEF files
    <2> QED BY <1>1, <2>2, <2>3, <2>4
  <1> QED BY <1>3, <1>4

\* The claiming update.
LEMMA BeginMoves ==
    ASSUME PipelineInv, NEW w \in Worker, Begin(w)
    PROVE  /\ WorkerMoves(w) /\ RowsMove(w)
           /\ UNCHANGED <<queueVars, files, left>> /\ wk[w].pc = "begin" /\ wk'[w].pc \in {"extract", "ack"}
           /\ wk'[w].pc = "ack" => meta[Doc(w)].status \notin {"QUEUED", "PROCESSING"} /\ meta' = meta
  <1>1. wk[w].pc = "begin" /\ UNCHANGED <<queueVars, files, left>> /\ wk \in [Worker -> WorkerState]
    BY TypesOf DEF Begin
  <1>2. Doc(w) \in Document /\ meta[Doc(w)] \in Row /\ wk[w].token \in Nat /\ NextAttempt(w) \in Nat
    BY <1>1, HandHasDocument, TypesOf DEF NextAttempt, WorkerState
  <1>3. CASE meta[Doc(w)].status \in BeginFrom
    <2> DEFINE new == [wk[w] EXCEPT !.attempts = NextAttempt(w), !.pc = "extract"]
               row == [status |-> "PROCESSING", worker |-> w, token |-> wk[w].token, attempts |-> NextAttempt(w)]
    <2>1. wk' = [wk EXCEPT ![w] = new] /\ meta' = [meta EXCEPT ![Doc(w)] = row]
      BY <1>1, <1>2, <1>3, TypesOf DEF Begin
    <2>2. /\ new \in WorkerState /\ new.pc = "extract" /\ new.document = wk[w].document
          /\ new.job = wk[w].job /\ new.token = wk[w].token
      BY <1>1, <1>2 DEF WorkerState, WorkerPc
    <2>3. row \in Row /\ row.status = "PROCESSING" /\ row.worker = w /\ row.token = wk[w].token
      BY <1>2 DEF Row, Status, Stored
    <2> HIDE DEF new, row
    <2>4. OthersStay(w) /\ SameHand(w) /\ wk'[w].pc = "extract"
      BY <1>1, <2>1, <2>2 DEF OthersStay, SameHand
    <2>5. RowsMove(w) /\ meta'[Doc(w)] = row
      <3>1. meta[Doc(w)].status \in InHand /\ "PROCESSING" \in AllowedTransitions[meta[Doc(w)].status]
        BY <1>3 DEF InHand, AllowedTransitions, BeginFrom
      <3> QED BY <1>1, <1>2, <2>1, <2>3, <3>1, RowWritten
    <2>6. HoldsFence(w)'
      BY <2>3, <2>4, <2>5 DEF HoldsFence, Fenced, Doc, SameHand
    <2>7. WorkerMoves(w)
      BY <1>1, <2>4, <2>6 DEF WorkerMoves
    <2> QED BY <1>1, <2>4, <2>5, <2>7
  <1>4. CASE meta[Doc(w)].status \notin BeginFrom
    <2>1. Goto(w, "ack") /\ UNCHANGED meta
      BY <1>4 DEF Begin
    <2>2. OthersStay(w) /\ SameHand(w) /\ wk'[w].pc = "ack"
      <3>1. "ack" \in WorkerPc \ {"idle", "lookup"} /\ wk[w].pc # "idle"
        BY <1>1 DEF WorkerPc
      <3> QED BY <2>1, <3>1, GoesTo
    <2>3. WorkerMoves(w)
      BY <1>1, <2>2 DEF WorkerMoves, PastFence, BeforeFence
    <2>4. RowsMove(w)
      BY <1>1, <2>1, RowsStand, TypesOf DEF files
    <2> QED BY <1>1, <1>4, <2>1, <2>2, <2>3, <2>4 DEF BeginFrom
  <1> QED BY <1>3, <1>4

\* Where a worker stands that will still delete the text, or the chunks, of a
\* document it cannot complete.
TextPc == {"saveChunks", "assert", "complete", "conflictText", "conflictChunks", "undoText"}
ChunksPc == {"assert", "complete", "conflictText", "conflictChunks", "undoText", "undoChunks"}

\* A worker writes only its document's files, and leaves none behind on its way
\* out if no call fails and the document is not its own to complete.
FilesMove(w) ==
    /\ \A d \in Document \ {Doc(w)} : text'[d] = text[d] /\ chunks'[d] = chunks[d]
    /\ left' = left /\ meta[Doc(w)].status # "PROCESSING" =>
          /\ text'[Doc(w)] => wk'[w].pc \in TextPc \/ (text[Doc(w)] /\ wk[w].pc \notin TextPc)
          /\ chunks'[Doc(w)] => wk'[w].pc \in ChunksPc \/ (chunks[Doc(w)] /\ wk[w].pc \notin ChunksPc)

\* A job is acknowledged when its document needs no processing; only one that
\* is still UPLOADED has to be accepted first.
AckMoves(w) ==
    /\ wk'[w].pc = "ack" /\ wk[w].pc # "accept" => meta'[Doc(w)].status \notin {"QUEUED", "PROCESSING"}
    /\ wk'[w].pc = "accept" => meta[Doc(w)].status = "UPLOADED"

WorkMoves(w) == WorkerMoves(w) /\ RowsMove(w) /\ FilesMove(w) /\ AckMoves(w)

LEMMA ExtractMoves ==
    ASSUME PipelineInv, NEW w \in Worker, Extract(w)
    PROVE  WorkMoves(w) /\ UNCHANGED queueVars
  <1>1. wk[w].pc = "extract" /\ UNCHANGED <<queueVars, meta, files>>
    BY DEF Extract
  <1>2. left' = left \/ \E k \in Disturbance : Spend(k)
    BY DEF Extract, Disturbance
  <1>3. OthersStay(w) /\ SameHand(w) /\ wk'[w].pc \in {"saveText", "undoText"}
    <2>1. /\ "saveText" \in WorkerPc \ {"idle", "lookup"}
          /\ "undoText" \in WorkerPc \ {"idle", "lookup"} /\ wk[w].pc # "idle"
      BY <1>1 DEF WorkerPc
    <2>2. CASE Goto(w, "saveText")
      BY <2>1, <2>2, GoesTo
    <2>3. ASSUME NEW e \in {"retryable", "permanent"}, Fail(w, e, "undoText")
          PROVE  OthersStay(w) /\ SameHand(w) /\ wk'[w].pc = "undoText"
      BY <2>1, <2>3, FailsTo
    <2> QED BY <2>2, <2>3 DEF Extract
  <1>4. WorkerMoves(w) /\ AckMoves(w)
    BY <1>1, <1>3 DEF WorkerMoves, AckMoves, PastFence, BeforeFence
  <1>5. RowsMove(w)
    BY <1>1, <1>2, RowsStand, TypesOf DEF files
  <1>6. FilesMove(w)
    BY <1>1, <1>3 DEF FilesMove, files, TextPc, ChunksPc
  <1> QED BY <1>1, <1>4, <1>5, <1>6 DEF WorkMoves

LEMMA SaveTextMoves ==
    ASSUME PipelineInv, NEW w \in Worker, SaveText(w)
    PROVE  WorkMoves(w) /\ UNCHANGED queueVars
  <1>1. wk[w].pc = "saveText" /\ UNCHANGED <<queueVars, meta, original, chunks>>
    BY DEF SaveText
  <1>0. /\ "saveChunks" \in WorkerPc \ {"idle", "lookup"} /\ "undoText" \in WorkerPc \ {"idle", "lookup"}
        /\ wk[w].pc # "idle"
    BY <1>1 DEF WorkerPc
  <1>2. CASE text' = [text EXCEPT ![Doc(w)] = TRUE] /\ Goto(w, "saveChunks") /\ UNCHANGED left
    <2>1. OthersStay(w) /\ SameHand(w) /\ wk'[w].pc = "saveChunks"
      BY <1>0, <1>2, GoesTo
    <2>2. text' \in [Document -> BOOLEAN] /\ \A d \in Document \ {Doc(w)} : text'[d] = text[d]
      BY <1>2, TypesOf
    <2>3. WorkerMoves(w) /\ AckMoves(w)
      BY <1>1, <2>1 DEF WorkerMoves, AckMoves, PastFence, BeforeFence
    <2>4. RowsMove(w)
      BY <1>1, <1>2, <2>2, RowsStand, TypesOf
    <2>5. FilesMove(w)
      BY <1>1, <2>1, <2>2 DEF FilesMove, TextPc, ChunksPc
    <2> QED BY <1>1, <2>3, <2>4, <2>5 DEF WorkMoves
  <1>3. CASE Spend("fault") /\ Fail(w, "retryable", "undoText") /\ UNCHANGED text
    <2>1. OthersStay(w) /\ SameHand(w) /\ wk'[w].pc = "undoText"
      BY <1>0, <1>3, FailsTo
    <2>3. WorkerMoves(w) /\ AckMoves(w)
      BY <1>1, <2>1 DEF WorkerMoves, AckMoves, PastFence, BeforeFence
    <2>4. RowsMove(w)
      <3>1. \E k \in Disturbance : Spend(k)
        BY <1>3 DEF Disturbance
      <3> QED BY <1>1, <1>3, <3>1, RowsStand, TypesOf
    <2>5. FilesMove(w)
      BY <1>1, <1>3, <2>1 DEF FilesMove, TextPc, ChunksPc
    <2> QED BY <1>1, <2>3, <2>4, <2>5 DEF WorkMoves
  <1> QED BY <1>2, <1>3 DEF SaveText

LEMMA SaveChunksMoves ==
    ASSUME PipelineInv, NEW w \in Worker, SaveChunks(w)
    PROVE  WorkMoves(w) /\ UNCHANGED queueVars
  <1>1. wk[w].pc = "saveChunks" /\ UNCHANGED <<queueVars, meta, original, text>>
    BY DEF SaveChunks
  <1>0. /\ "assert" \in WorkerPc \ {"idle", "lookup"} /\ "undoText" \in WorkerPc \ {"idle", "lookup"}
        /\ wk[w].pc # "idle"
    BY <1>1 DEF WorkerPc
  <1>2. CASE chunks' = [chunks EXCEPT ![Doc(w)] = TRUE] /\ Goto(w, "assert") /\ UNCHANGED left
    <2>1. OthersStay(w) /\ SameHand(w) /\ wk'[w].pc = "assert"
      BY <1>0, <1>2, GoesTo
    <2>2. chunks' \in [Document -> BOOLEAN] /\ \A d \in Document \ {Doc(w)} : chunks'[d] = chunks[d]
      BY <1>2, TypesOf
    <2>3. WorkerMoves(w) /\ AckMoves(w)
      BY <1>1, <2>1 DEF WorkerMoves, AckMoves, PastFence, BeforeFence
    <2>4. RowsMove(w)
      BY <1>1, <1>2, <2>2, RowsStand, TypesOf
    <2>5. FilesMove(w)
      BY <1>1, <2>1, <2>2 DEF FilesMove, TextPc, ChunksPc
    <2> QED BY <1>1, <2>3, <2>4, <2>5 DEF WorkMoves
  <1>3. CASE Spend("fault") /\ Fail(w, "retryable", "undoText") /\ UNCHANGED chunks
    <2>1. OthersStay(w) /\ SameHand(w) /\ wk'[w].pc = "undoText"
      BY <1>0, <1>3, FailsTo
    <2>3. WorkerMoves(w) /\ AckMoves(w)
      BY <1>1, <2>1 DEF WorkerMoves, AckMoves, PastFence, BeforeFence
    <2>4. RowsMove(w)
      <3>1. \E k \in Disturbance : Spend(k)
        BY <1>3 DEF Disturbance
      <3> QED BY <1>1, <1>3, <3>1, RowsStand, TypesOf
    <2>5. FilesMove(w)
      BY <1>1, <1>3, <2>1 DEF FilesMove, TextPc, ChunksPc
    <2> QED BY <1>1, <2>3, <2>4, <2>5 DEF WorkMoves
  <1> QED BY <1>2, <1>3 DEF SaveChunks

\* Only the holder of the lease goes on to complete.
LEMMA AssertMoves ==
    ASSUME PipelineInv, NEW w \in Worker, AssertOwned(w)
    PROVE  WorkMoves(w) /\ UNCHANGED queueVars
  <1>1. wk[w].pc = "assert" /\ UNCHANGED <<queueVars, storeVars>>
    BY DEF AssertOwned
  <1>0. /\ "complete" \in WorkerPc \ {"idle", "lookup"} /\ "undoText" \in WorkerPc \ {"idle", "lookup"}
        /\ wk[w].pc # "idle"
    BY <1>1 DEF WorkerPc
  <1>2. OthersStay(w) /\ SameHand(w) /\ ((wk'[w].pc = "complete" /\ HoldsLease(w)) \/ wk'[w].pc = "undoText")
    <2>1. CASE HoldsLease(w) /\ Goto(w, "complete")
      BY <1>0, <2>1, GoesTo
    <2>2. CASE Fail(w, "retryable", "undoText")
      BY <1>0, <2>2, FailsTo
    <2> QED BY <2>1, <2>2 DEF AssertOwned
  <1>3. WorkerMoves(w) /\ AckMoves(w)
    BY <1>1, <1>2 DEF WorkerMoves, AckMoves, PastFence, BeforeFence
  <1>4. RowsMove(w)
    BY <1>1, RowsStand, TypesOf DEF storeVars
  <1>5. FilesMove(w)
    BY <1>1, <1>2 DEF FilesMove, TextPc, ChunksPc, storeVars
  <1> QED BY <1>1, <1>3, <1>4, <1>5 DEF WorkMoves

\* The completing update, whoever hears of it.
LEMMA CompletesRow ==
    ASSUME PipelineInv, NEW w \in Worker, Doc(w) \in Document, CompleteRow(w), UNCHANGED files,
           left' = left \/ \E k \in Disturbance : Spend(k)
    PROVE  RowsMove(w) /\ meta'[Doc(w)].status = "COMPLETED" /\ meta[Doc(w)].status = "PROCESSING" /\ HoldsFence(w)
  <1>1. meta[Doc(w)].status = "PROCESSING" /\ HoldsFence(w) /\ "COMPLETED" \in Status
    BY DEF CompleteRow, MayComplete, Status, Stored
  <1> DEFINE row == [meta[Doc(w)] EXCEPT !.status = "COMPLETED", !.worker = None]
  <1>2. row \in Row /\ meta' = [meta EXCEPT ![Doc(w)] = row]
    BY <1>1, TransitionWrites DEF CompleteRow
  <1>3. row.status = "COMPLETED" /\ row.worker = None
    BY TypesOf DEF Row
  <1> HIDE DEF row
  <1>4. meta[Doc(w)].status \in InHand /\ "COMPLETED" \in AllowedTransitions[meta[Doc(w)].status]
    BY <1>1 DEF InHand, AllowedTransitions
  <1>5. RowsMove(w) /\ meta'[Doc(w)] = row
    BY <1>2, <1>3, <1>4, RowWritten
  <1> QED BY <1>1, <1>3, <1>5

LEMMA CompleteMoves ==
    ASSUME PipelineInv, NEW w \in Worker, Complete(w)
    PROVE  WorkMoves(w) /\ UNCHANGED queueVars
  <1>1. wk[w].pc = "complete" /\ UNCHANGED <<queueVars, files>>
    BY DEF Complete
  <1>0. /\ {"ack", "conflictText", "undoText"} \subseteq WorkerPc \ {"idle", "lookup"}
        /\ wk[w].pc # "idle" /\ Doc(w) \in Document
    BY <1>1, HandHasDocument DEF WorkerPc
  <1>2. CASE CompleteRow(w) /\ Goto(w, "ack") /\ UNCHANGED left
    <2>1. OthersStay(w) /\ SameHand(w) /\ wk'[w].pc = "ack"
      BY <1>0, <1>2, GoesTo
    <2>2. RowsMove(w) /\ meta'[Doc(w)].status = "COMPLETED" /\ meta[Doc(w)].status = "PROCESSING" /\ HoldsFence(w)
      BY <1>0, <1>1, <1>2, CompletesRow
    <2>3. WorkerMoves(w) /\ AckMoves(w)
      BY <1>1, <2>1, <2>2 DEF WorkerMoves, AckMoves, PastFence, BeforeFence
    <2>4. FilesMove(w)
      BY <1>1, <2>2 DEF FilesMove, files
    <2> QED BY <1>1, <2>2, <2>3, <2>4 DEF WorkMoves
  <1>3. CASE ~ MayComplete(w) /\ Fail(w, "retryable", "conflictText") /\ UNCHANGED <<meta, left>>
    <2>1. OthersStay(w) /\ SameHand(w) /\ wk'[w].pc = "conflictText"
      BY <1>0, <1>3, FailsTo
    <2>2. WorkerMoves(w) /\ AckMoves(w)
      BY <1>1, <1>3, <2>1 DEF WorkerMoves, AckMoves, PastFence, BeforeFence
    <2>3. RowsMove(w)
      BY <1>1, <1>3, RowsStand, TypesOf DEF files
    <2>4. FilesMove(w)
      BY <1>1, <2>1 DEF FilesMove, TextPc, ChunksPc, files
    <2> QED BY <1>1, <2>2, <2>3, <2>4 DEF WorkMoves
  <1>4. CASE Spend("fault") /\ (CompleteRow(w) \/ UNCHANGED meta) /\ Fail(w, "retryable", "undoText")
    <2>1. OthersStay(w) /\ SameHand(w) /\ wk'[w].pc = "undoText"
      BY <1>0, <1>4, FailsTo
    <2>2. left' # left /\ \E k \in Disturbance : Spend(k)
      BY <1>4, TypesOf DEF Spend, Disturbance
    <2>3. CASE CompleteRow(w)
      <3>1. RowsMove(w) /\ HoldsFence(w)
        BY <1>0, <1>1, <2>2, <2>3, CompletesRow
      <3> QED BY <1>1, <2>1, <2>2, <3>1 DEF WorkMoves, WorkerMoves, AckMoves, FilesMove, PastFence, BeforeFence, files
    <2>4. CASE UNCHANGED meta
      <3>1. RowsMove(w)
        BY <1>1, <2>2, <2>4, RowsStand, TypesOf DEF files
      <3> QED BY <1>1, <2>1, <2>2, <2>4, <3>1
              DEF WorkMoves, WorkerMoves, AckMoves, FilesMove, PastFence, BeforeFence, files
    <2> QED BY <1>4, <2>3, <2>4
  <1> QED BY <1>2, <1>3, <1>4 DEF Complete

LEMMA DeleteTextMoves ==
    ASSUME PipelineInv, NEW w \in Worker, DeleteText(w)
    PROVE  WorkMoves(w) /\ UNCHANGED queueVars
  <1>1. wk[w].pc \in {"conflictText", "undoText"} /\ UNCHANGED <<queueVars, meta, original, chunks>>
    BY DEF DeleteText
  <1>0. /\ wk[w].pc # "idle" /\ Doc(w) \in Document
        /\ {"undoChunks", "conflictChunks", "settle", "undoText"} \subseteq WorkerPc \ {"idle", "lookup"}
    BY <1>1, HandHasDocument DEF WorkerPc
  <1>2. CASE /\ text' = [text EXCEPT ![Doc(w)] = FALSE] /\ UNCHANGED left
             /\ Goto(w, IF wk[w].pc = "undoText" THEN "undoChunks" ELSE "conflictChunks")
    <2>1. /\ OthersStay(w) /\ SameHand(w)
          /\ wk'[w].pc = IF wk[w].pc = "undoText" THEN "undoChunks" ELSE "conflictChunks"
      <3>1. (IF wk[w].pc = "undoText" THEN "undoChunks" ELSE "conflictChunks") \in WorkerPc \ {"idle", "lookup"}
        BY <1>0
      <3> QED BY <1>0, <1>2, <3>1, GoesTo
    <2>2. /\ text' \in [Document -> BOOLEAN] /\ ~ text'[Doc(w)]
          /\ \A d \in Document \ {Doc(w)} : text'[d] = text[d]
      BY <1>0, <1>2, TypesOf
    <2>3. WorkerMoves(w) /\ AckMoves(w)
      BY <1>1, <2>1 DEF WorkerMoves, AckMoves, PastFence, BeforeFence
    <2>4. RowsMove(w)
      BY <1>1, <1>2, <2>2, RowsStand, TypesOf
    <2>5. FilesMove(w)
      BY <1>1, <2>1, <2>2 DEF FilesMove, TextPc, ChunksPc
    <2> QED BY <1>1, <2>3, <2>4, <2>5 DEF WorkMoves
  <1>3. CASE /\ Spend("fault") /\ UNCHANGED text
             /\ Goto(w, IF wk[w].pc = "undoText" THEN "settle" ELSE "undoText")
    <2>1. OthersStay(w) /\ SameHand(w) /\ wk'[w].pc \in {"settle", "undoText"}
      <3>1. (IF wk[w].pc = "undoText" THEN "settle" ELSE "undoText") \in WorkerPc \ {"idle", "lookup"}
        BY <1>0
      <3> QED BY <1>0, <1>3, <3>1, GoesTo
    <2>3. WorkerMoves(w) /\ AckMoves(w)
      BY <1>1, <2>1 DEF WorkerMoves, AckMoves, PastFence, BeforeFence
    <2>4. RowsMove(w)
      <3>1. \E k \in Disturbance : Spend(k)
        BY <1>3 DEF Disturbance
      <3> QED BY <1>1, <1>3, <3>1, RowsStand, TypesOf
    <2>5. FilesMove(w)
      <3>1. left' # left
        BY <1>3, TypesOf DEF Spend, Disturbance
      <3> QED BY <1>1, <1>3, <3>1 DEF FilesMove
    <2> QED BY <1>1, <2>3, <2>4, <2>5 DEF WorkMoves
  <1> QED BY <1>2, <1>3 DEF DeleteText

LEMMA DeleteChunksMoves ==
    ASSUME PipelineInv, NEW w \in Worker, DeleteChunks(w)
    PROVE  WorkMoves(w) /\ UNCHANGED queueVars
  <1>1. wk[w].pc \in {"conflictChunks", "undoChunks"} /\ UNCHANGED <<queueVars, meta, original, text>>
    BY DEF DeleteChunks
  <1>0. wk[w].pc # "idle" /\ Doc(w) \in Document
    BY <1>1, HandHasDocument
  <1>2. OthersStay(w) /\ SameHand(w) /\ wk'[w].pc = IF wk[w].pc = "undoChunks" THEN "settle" ELSE "undoText"
    <2>1. (IF wk[w].pc = "undoChunks" THEN "settle" ELSE "undoText") \in WorkerPc \ {"idle", "lookup"}
      BY DEF WorkerPc
    <2> QED BY <1>0, <2>1, GoesTo DEF DeleteChunks
  <1>3. WorkerMoves(w) /\ AckMoves(w)
    BY <1>1, <1>2 DEF WorkerMoves, AckMoves, PastFence, BeforeFence
  <1>4. CASE chunks' = [chunks EXCEPT ![Doc(w)] = FALSE] /\ UNCHANGED left
    <2>2. /\ chunks' \in [Document -> BOOLEAN] /\ ~ chunks'[Doc(w)]
          /\ \A d \in Document \ {Doc(w)} : chunks'[d] = chunks[d]
      BY <1>0, <1>4, TypesOf
    <2>4. RowsMove(w)
      BY <1>1, <1>4, <2>2, RowsStand, TypesOf
    <2>5. FilesMove(w)
      BY <1>1, <1>2, <2>2 DEF FilesMove, TextPc, ChunksPc
    <2> QED BY <1>1, <1>3, <2>4, <2>5 DEF WorkMoves
  <1>5. CASE Spend("fault") /\ UNCHANGED chunks
    <2>4. RowsMove(w)
      <3>1. \E k \in Disturbance : Spend(k)
        BY <1>5 DEF Disturbance
      <3> QED BY <1>1, <1>5, <3>1, RowsStand, TypesOf
    <2>5. FilesMove(w)
      <3>1. left' # left
        BY <1>5, TypesOf DEF Spend, Disturbance
      <3> QED BY <1>1, <1>5, <3>1 DEF FilesMove
    <2> QED BY <1>1, <1>3, <2>4, <2>5 DEF WorkMoves
  <1> QED BY <1>4, <1>5 DEF DeleteChunks

\* The failure is recorded under the fence only.
LEMMA SettleMoves ==
    ASSUME PipelineInv, NEW w \in Worker, Settle(w)
    PROVE  WorkMoves(w) /\ UNCHANGED queueVars
  <1>1. wk[w].pc = "settle" /\ UNCHANGED <<queueVars, files, left>>
    BY DEF Settle
  <1>0. /\ "ack" \in WorkerPc \ {"idle", "lookup"} /\ "release" \in WorkerPc \ {"idle", "lookup"}
        /\ wk[w].pc # "idle" /\ Doc(w) \in Document
    BY <1>1, HandHasDocument DEF WorkerPc
  <1>2. CASE HoldsFence(w) /\ meta[Doc(w)].status = "PROCESSING"
    <2> DEFINE p == IF Outcome(w) = "QUEUED" THEN "release" ELSE "ack"
    <2>1. Transition(Doc(w), {"PROCESSING"}, Outcome(w)) /\ Goto(w, p)
      BY <1>2 DEF Settle
    <2>2. OthersStay(w) /\ SameHand(w) /\ wk'[w].pc = p
      <3>1. p \in WorkerPc \ {"idle", "lookup"}
        BY <1>0
      <3> QED BY <1>0, <2>1, <3>1, GoesTo
    <2>3. Outcome(w) \in {"FAILED", "QUARANTINED", "QUEUED"} /\ Outcome(w) \in Status
      BY DEF Outcome, Status, Stored
    <2> DEFINE row == [meta[Doc(w)] EXCEPT !.status = Outcome(w), !.worker = None]
    <2>4. row \in Row /\ meta' = [meta EXCEPT ![Doc(w)] = row]
      BY <1>0, <2>1, <2>3, TransitionWrites
    <2>5. row.status = Outcome(w) /\ row.worker = None
      BY <1>0, TypesOf DEF Row
    <2> HIDE DEF row
    <2>6. RowsMove(w) /\ meta'[Doc(w)] = row
      <3>1. meta[Doc(w)].status \in InHand /\ row.status \in AllowedTransitions[meta[Doc(w)].status]
        BY <1>2, <2>3, <2>5 DEF InHand, AllowedTransitions
      <3> QED BY <1>0, <1>1, <2>4, <2>5, <3>1, RowWritten
    <2>7. WorkerMoves(w) /\ AckMoves(w)
      BY <1>1, <2>2, <2>3, <2>5, <2>6 DEF WorkerMoves, AckMoves, PastFence, BeforeFence
    <2>8. FilesMove(w)
      BY <1>1, <1>2 DEF FilesMove, files
    <2> QED BY <1>1, <2>6, <2>7, <2>8 DEF WorkMoves
  <1>3. CASE ~ (HoldsFence(w) /\ meta[Doc(w)].status = "PROCESSING")
    <2>1. Throw(w) /\ UNCHANGED meta
      BY <1>3 DEF Settle
    <2>2. OthersStay(w) /\ wk'[w] = IdleWorker
      BY <2>1, Throws
    <2>3. WorkerMoves(w) /\ AckMoves(w)
      <3>1. wk'[w].pc \notin {"ack", "accept"}
        BY <2>2 DEF IdleWorker
      <3> QED BY <2>1, <2>2, <3>1, IdleMoves DEF AckMoves
    <2>4. RowsMove(w)
      BY <1>1, <2>1, RowsStand, TypesOf DEF files
    <2>5. FilesMove(w)
      BY <1>1 DEF FilesMove, TextPc, ChunksPc, files
    <2> QED BY <1>1, <2>3, <2>4, <2>5 DEF WorkMoves
  <1> QED BY <1>2, <1>3

LEMMA HeartbeatMoves ==
    ASSUME PipelineInv, NEW w \in Worker, Heartbeat(w)
    PROVE  WorkMoves(w) /\ UNCHANGED queueVars
  <1>1. wk[w].pc \in HeartbeatPc /\ UNCHANGED <<queueVars, storeVars>> /\ wk \in [Worker -> WorkerState]
    BY TypesOf DEF Heartbeat
  <1> DEFINE new == [wk[w] EXCEPT !.lost = TRUE]
  <1>2. /\ new \in WorkerState /\ new.pc = wk[w].pc /\ new.document = wk[w].document
        /\ new.job = wk[w].job /\ new.token = wk[w].token
    BY <1>1 DEF WorkerState
  <1>3. wk' = [wk EXCEPT ![w] = new]
    BY <1>1 DEF Heartbeat
  <1> HIDE DEF new
  <1>4. OthersStay(w) /\ SameHand(w) /\ wk'[w].pc = wk[w].pc
    BY <1>1, <1>2, <1>3 DEF OthersStay, SameHand, HeartbeatPc
  <1>5. WorkerMoves(w) /\ AckMoves(w)
    BY <1>1, <1>4 DEF WorkerMoves, AckMoves, PastFence, HeartbeatPc
  <1>6. RowsMove(w)
    BY <1>1, RowsStand, TypesOf DEF storeVars
  <1>7. FilesMove(w)
    BY <1>1, <1>4 DEF FilesMove, storeVars
  <1> QED BY <1>1, <1>5, <1>6, <1>7 DEF WorkMoves

LEMMA CrashMoves ==
    ASSUME PipelineInv, NEW w \in Worker, WorkerCrash(w)
    PROVE  WorkMoves(w) /\ UNCHANGED queueVars
  <1>1. Spend("crash") /\ Throw(w) /\ UNCHANGED <<queueVars, meta, files>>
    BY DEF WorkerCrash
  <1>2. OthersStay(w) /\ wk'[w] = IdleWorker
    BY <1>1, Throws
  <1>3. WorkerMoves(w) /\ AckMoves(w)
    <2>1. wk'[w].pc \notin {"ack", "accept"}
      BY <1>2 DEF IdleWorker
    <2> QED BY <1>1, <1>2, <2>1, IdleMoves DEF AckMoves
  <1>4. RowsMove(w)
    <2>1. \E k \in Disturbance : Spend(k)
      BY <1>1 DEF Disturbance
    <2> QED BY <1>1, <2>1, RowsStand, TypesOf DEF files
  <1>5. FilesMove(w)
    <2>1. left' # left
      BY <1>1, TypesOf DEF Spend, Disturbance
    <2> QED BY <1>1, <2>1 DEF FilesMove, files
  <1> QED BY <1>1, <1>3, <1>4, <1>5 DEF WorkMoves

\* Every step of a worker that leaves the queue alone.
WorksOn(w) ==
    \/ LookUp(w) \/ Accept(w) \/ Begin(w) \/ Extract(w) \/ SaveText(w) \/ SaveChunks(w)
    \/ AssertOwned(w) \/ Complete(w) \/ DeleteText(w) \/ DeleteChunks(w) \/ Settle(w)
    \/ Heartbeat(w) \/ WorkerCrash(w)

LEMMA WorkMovesOn ==
    ASSUME PipelineInv, NEW w \in Worker, WorksOn(w)
    PROVE  WorkMoves(w) /\ UNCHANGED queueVars
  <1>1. CASE LookUp(w)
    <2>1. wk[w].pc = "lookup"
      BY <1>1 DEF LookUp
    <2> QED BY <1>1, <2>1, LookUpMoves DEF WorkMoves, FilesMove, AckMoves, TextPc, ChunksPc, storeVars, InHand
  <1>2. CASE Accept(w)
    BY <1>2, AcceptMoves DEF WorkMoves, FilesMove, AckMoves, TextPc, ChunksPc, files
  <1>3. CASE Begin(w)
    BY <1>3, BeginMoves DEF WorkMoves, FilesMove, AckMoves, TextPc, ChunksPc, files
  <1> QED BY <1>1, <1>2, <1>3, ExtractMoves, SaveTextMoves, SaveChunksMoves, AssertMoves, CompleteMoves,
             DeleteTextMoves, DeleteChunksMoves, SettleMoves, HeartbeatMoves, CrashMoves DEF WorksOn

-----------------------------------------------------------------------------
(* The parts of the invariant. *)

\* Whoever keeps its job still knows it after a step of the queue.
LEMMA HandsStayKnown ==
    ASSUME PipelineInv, QueueKept, \A v \in Worker : wk'[v] = wk[v] \/ wk'[v] = IdleWorker \/ SameHand(v)
    PROVE  JobsAreKnown'
  <1>0. /\ JobsAreKnown /\ None \notin JobId /\ IdleWorker.pc = "idle" /\ IdleWorker.job = None
        /\ IdleWorker.document = None
    BY NoneIsNoValue DEF PipelineInv, IdleWorker
  <1>1. \A j \in JobId : Live(j)' => job'[j].document \in Document
    BY <1>0 DEF QueueKept, JobsAreKnown
  <1>2. ASSUME NEW w \in Worker
        PROVE  /\ wk'[w].pc = "idle" => wk'[w] = IdleWorker
               /\ wk'[w].pc # "idle" =>
                     /\ wk[w].pc # "idle" /\ wk'[w].document = wk[w].document
                     /\ wk'[w].job = wk[w].job /\ wk'[w].token = wk[w].token
    <2>1. CASE wk'[w] = wk[w]
      BY <1>0, <2>1 DEF JobsAreKnown
    <2>2. CASE wk'[w] = IdleWorker
      BY <1>0, <2>2
    <2>3. CASE SameHand(w)
      BY <2>3 DEF SameHand
    <2> QED BY <2>1, <2>2, <2>3
  <1>3. ASSUME NEW w \in Worker, wk'[w].pc # "idle"
        PROVE  /\ wk'[w].job \in JobId /\ wk'[w].document \in Document /\ job'[wk'[w].job].phase # "absent"
               /\ Live(wk[w].job)' =>
                     job'[wk'[w].job].document = wk'[w].document /\ wk'[w].token <= job'[wk'[w].job].token
    <2>0. PICK j \in JobId : j = wk[w].job
      BY <1>0, <1>2, <1>3 DEF JobsAreKnown
    <2>1. /\ j \in JobId /\ wk[w].document \in Document /\ job[j].phase # "absent"
          /\ Live(j) => job[j].document = wk[w].document /\ wk[w].token <= job[j].token
          /\ wk'[w].job = j /\ wk'[w].document = wk[w].document /\ wk'[w].token = wk[w].token
      BY <1>0, <1>2, <1>3, <2>0 DEF JobsAreKnown
    <2>2. /\ job'[j].phase # "absent"
          /\ Live(j)' => Live(j) /\ job'[j].document = job[j].document /\ job'[j].token >= job[j].token
      BY <2>1 DEF QueueKept
    <2>3. job[j].token \in Nat /\ job'[j].token \in Nat /\ wk[w].token \in Nat
      BY <2>1, TypesOf DEF QueueKept, Job, WorkerState
    <2> QED BY <2>1, <2>2, <2>3 DEF Live
  <1>4. \A v, w \in Worker : wk'[v].job = wk'[w].job => wk'[v].document = wk'[w].document
    <2> SUFFICES ASSUME NEW v \in Worker, NEW w \in Worker, wk'[v].job = wk'[w].job
                 PROVE  wk'[v].document = wk'[w].document
      OBVIOUS
    <2>1. CASE wk'[v].pc = "idle" /\ wk'[w].pc = "idle"
      BY <1>2, <2>1
    <2>2. CASE wk'[v].pc # "idle" /\ wk'[w].pc # "idle"
      BY <1>0, <1>2, <2>2 DEF JobsAreKnown
    <2>3. CASE wk'[v].pc = "idle" /\ wk'[w].pc # "idle"
      BY <1>0, <1>2, <1>3, <2>3
    <2>4. CASE wk'[v].pc # "idle" /\ wk'[w].pc = "idle"
      BY <1>0, <1>2, <1>3, <2>4
    <2> QED BY <2>1, <2>2, <2>3, <2>4
  <1>5. \A w \in Worker : wk'[w].pc = "idle" => wk'[w] = IdleWorker
    BY <1>2
  <1>6. \A w \in Worker : wk'[w].pc # "idle" =>
            /\ wk'[w].job \in JobId /\ wk'[w].document \in Document /\ job'[wk'[w].job].phase # "absent"
            /\ Live(wk[w].job)' =>
                  job'[wk'[w].job].document = wk'[w].document /\ wk'[w].token <= job'[wk'[w].job].token
    BY <1>3
  <1> QED BY <1>1, <1>4, <1>5, <1>6 DEF JobsAreKnown

\* A step of w leaves no overtaken worker with its fence.
LEMMA FencesStay ==
    ASSUME PipelineInv, NEW w \in Worker, WorkerMoves(w), RowsMove(w), JobsAreKnown'
    PROVE  OvertakenIsFenced'
  <1> SUFFICES ASSUME NEW u \in Worker, NEW v \in Worker, wk'[u].pc = "complete", PastFence(v)',
                      wk'[v].job = wk'[u].job, wk'[v].token > wk'[u].token
               PROVE  ~ HoldsFence(u)'
    BY DEF OvertakenIsFenced
  <1>0. /\ OvertakenIsFenced /\ JobsAreKnown
        /\ wk \in [Worker -> WorkerState] /\ \A x \in Worker \ {w} : wk'[x] = wk[x]
    BY TypesOf DEF PipelineInv, WorkerMoves, OthersStay
  <1>1. \A x \in Worker : wk'[x].pc # "idle" =>
            wk'[x].document = wk[x].document /\ wk'[x].job = wk[x].job /\ wk'[x].token = wk[x].token /\ wk[x].pc # "idle"
    BY <1>0 DEF WorkerMoves, SameHand, IdleWorker
  <1>2. wk'[u].pc # "idle" /\ wk'[v].pc # "idle"
    BY DEF PastFence, BeforeFence
  <1>3. wk[v].job = wk[u].job /\ wk[v].token > wk[u].token /\ wk[u].job \in JobId /\ wk[u].document \in Document
        /\ wk[u].token \in Nat /\ wk[v].token \in Nat
    BY <1>0, <1>1, <1>2 DEF JobsAreKnown, WorkerState
  <1>4. CASE wk[u].pc # "complete"
    <2>1. u = w /\ HoldsLease(w)
      BY <1>0, <1>4 DEF WorkerMoves
    <2>2. Live(wk[u].job) /\ job[wk[u].job].token = wk[u].token
      BY <2>1 DEF HoldsLease, Owns, Live
    <2>3. wk[v].token <= job[wk[v].job].token
      BY <1>0, <1>1, <1>2, <1>3, <2>2 DEF JobsAreKnown
    <2> QED BY <1>3, <2>2, <2>3
  <1>5. CASE wk[u].pc = "complete" /\ ~ PastFence(v)
    <2>1. v = w /\ HoldsFence(w)'
      <3>1. v = w
        BY <1>0, <1>5 DEF PastFence
      <3> QED BY <1>5, <3>1 DEF WorkerMoves
    <2>2. meta'[wk'[v].document].token = wk'[v].token
      BY <2>1 DEF HoldsFence, Fenced, Doc
    <2>3. wk'[v].document = wk'[u].document /\ wk'[v].token # wk'[u].token
      BY <1>1, <1>2, <1>3 DEF JobsAreKnown
    <2> QED BY <2>2, <2>3 DEF HoldsFence, Fenced, Doc
  <1>6. CASE wk[u].pc = "complete" /\ PastFence(v)
    <2>1. ~ HoldsFence(u) /\ u # w
      <3>1. ~ HoldsFence(u)
        BY <1>0, <1>3, <1>6 DEF OvertakenIsFenced
      <3>2. u # w
        BY <1>6 DEF WorkerMoves
      <3> QED BY <3>1, <3>2
    <2>2. /\ wk'[u] = wk[u] /\ meta \in [Document -> Row]
          /\ meta'[Doc(u)].worker = u => meta'[Doc(u)] = [meta[Doc(u)] EXCEPT !.status = meta'[Doc(u)].status]
      BY <1>0, <1>3, <2>1, TypesOf DEF RowsMove, Doc
    <2>3. meta[Doc(u)] \in Row
      BY <1>3, <2>2 DEF Doc
    <2> QED BY <2>1, <2>2, <2>3 DEF HoldsFence, Fenced, Doc, Row
  <1> QED BY <1>4, <1>5, <1>6

\* Rows that workers move are nobody else's concern.
LEMMA RequestsUnmoved ==
    ASSUME PipelineInv, NEW w \in Worker, RowsMove(w), rq' = rq
    PROVE  (\A c \in Client : RequestKnows(c)') /\ OneUpload' /\ RowHasOriginal' /\ LegalStep
  <1>1. \A d \in Document : meta'[d].status # meta[d].status =>
          meta[d].status \in InHand /\ meta'[d].status \in AllowedTransitions[meta[d].status]
    BY DEF RowsMove
  <1>2. \A c \in Client : RequestKnows(c)
    BY DEF PipelineInv
  <1>3. ASSUME NEW c \in Client PROVE RequestKnows(c)'
    BY <1>1, <1>2, <1>3 DEF RequestKnows, RowsMove, InHand, Purging
  <1>4. OneUpload'
    BY DEF PipelineInv, OneUpload
  <1>5. RowHasOriginal'
    <2> SUFFICES ASSUME AllHeard' PROVE \A d \in Document : Visible(d)' => original'[d]
      BY DEF RowHasOriginal
    <2>1. \A d \in Document : Visible(d) => original[d]
      BY HeardBefore DEF RowsMove, StoreTypeOK
    <2> QED BY <1>1, <2>1 DEF Visible, RowsMove, InHand, Stored
  <1>6. LegalStep
    BY <1>1 DEF LegalStep
  <1> QED BY <1>3, <1>4, <1>5, <1>6

\* What no step takes away: the allowance only shrinks, and a step that moves
\* rows gives nobody else the fence.
LEMMA KeepsAfterWork ==
    ASSUME PipelineInv, NEW w \in Worker, WorkerMoves(w), RowsMove(w), QueueKept, rq' = rq
    PROVE  PipelineInv' /\ LegalStep
  <1>1. JobsAreKnown'
    BY HandsStayKnown DEF WorkerMoves, OthersStay
  <1>2. OvertakenIsFenced'
    BY <1>1, FencesStay
  <1>3. (\A c \in Client : RequestKnows(c)') /\ OneUpload' /\ RowHasOriginal' /\ LegalStep
    BY RequestsUnmoved
  <1>4. TypeOK'
    BY TypesOf DEF WorkerMoves, OthersStay, RowsMove, QueueKept, TypeOK
  <1>5. \A k \in Disturbance : left'[k] <= Allowance[k]
    <2>1. \A k \in Disturbance : left'[k] <= left[k] /\ left[k] <= Allowance[k]
      BY DEF RowsMove, PipelineInv
    <2>2. \A k \in Disturbance : left'[k] \in Nat /\ left[k] \in Nat /\ Allowance[k] \in Nat
      BY <1>4, TypesOf, StoreAssumption DEF TypeOK, StoreTypeOK
    <2> QED BY <2>1, <2>2
  <1> QED BY <1>1, <1>2, <1>3, <1>4, <1>5 DEF PipelineInv

\* Ending the job, or giving it back.
LEMMA LeaveMoves ==
    ASSUME PipelineInv, NEW w \in Worker, ReleaseJob(w) \/ AcknowledgeJob(w)
    PROVE  WorkMoves(w) /\ QueueKept /\ wk'[w] = IdleWorker
  <1>1. wk[w].pc \in {"release", "ack"} /\ Throw(w) /\ UNCHANGED storeVars
    BY DEF ReleaseJob, AcknowledgeJob
  <1>2. QueueKept
    <2>1. wk[w].pc # "idle"
      BY <1>1
    <2>2. wk[w].job \in JobId
      BY <2>1, HandHasDocument
    <2>3. CASE Acknowledge(w, wk[w].job, wk[w].token)
      BY <2>2, <2>3, AcknowledgeIsKept
    <2>4. CASE Release(w, wk[w].job, wk[w].token, "delayed")
      BY <2>2, <2>4, ReleaseIsKept
    <2>5. CASE UNCHANGED queueVars
      BY <2>5, QueueStands
    <2> QED BY <2>3, <2>4, <2>5 DEF ReleaseJob, AcknowledgeJob
  <1>3. OthersStay(w) /\ wk'[w] = IdleWorker
    BY <1>1, Throws
  <1>4. WorkerMoves(w) /\ AckMoves(w)
    <2>1. wk'[w].pc \notin {"ack", "accept"}
      BY <1>3 DEF IdleWorker
    <2> QED BY <1>1, <1>3, <2>1, IdleMoves DEF AckMoves, storeVars
  <1>5. RowsMove(w)
    BY <1>1, RowsStand, TypesOf DEF storeVars
  <1>6. FilesMove(w)
    BY <1>1 DEF FilesMove, TextPc, ChunksPc, storeVars
  <1> QED BY <1>2, <1>3, <1>4, <1>5, <1>6 DEF WorkMoves

\* What a claim hands over, and to whom.
LEMMA ClaimHands ==
    ASSUME PipelineInv, NEW w \in Worker, NEW j \in JobId, ClaimJob(w, j)
    PROVE  /\ QueueKept /\ UNCHANGED <<index, storeVars>> /\ OthersStay(w) /\ wk[w] = IdleWorker /\ Live(j)
           /\ wk'[w].pc = "lookup" /\ wk'[w].job = j /\ wk'[w].document = job[j].document
           /\ wk'[w].token = job[j].token + 1 /\ job'[j].token = job[j].token + 1
           /\ \A k \in JobId : Live(k)' <=> Live(k)
           /\ \A k \in JobId : job'[k].document = job[k].document
  <1> DEFINE t == job[j].token + 1
             held == [job[j] EXCEPT !.phase = "held", !.worker = w, !.token = t]
             new == [IdleWorker EXCEPT !.pc = "lookup", !.job = j, !.document = job[j].document, !.token = t]
  <1>1. /\ wk[w].pc = "idle" /\ Live(j) /\ UNCHANGED <<index, removing, storeVars>>
        /\ job[j] \in Job /\ wk \in [Worker -> WorkerState] /\ job \in [JobId -> Job]
    BY TypesOf DEF ClaimJob, Claim, Live
  <1>2. /\ wk[w] = IdleWorker /\ job[j].document \in Document
    BY <1>1 DEF PipelineInv, JobsAreKnown
  <1>a. job[j].token \in Nat /\ t \in Nat /\ t >= job[j].token /\ t = job[j].token + 1
    BY <1>1 DEF Job
  <1>b. job' = [job EXCEPT ![j] = held] /\ wk' = [wk EXCEPT ![w] = new]
    BY <1>1 DEF ClaimJob, Claim
  <1> HIDE DEF t
  <1>3. held \in Job /\ held.phase = "held" /\ held.document = job[j].document /\ held.token = t
    BY <1>1, <1>a DEF Job, Phase
  <1>4. /\ new \in WorkerState /\ new.pc = "lookup" /\ new.job = j /\ new.document = job[j].document
        /\ new.token = t
    BY <1>2, <1>a DEF IdleWorker, WorkerState, WorkerPc
  <1>5. job' = [job EXCEPT ![j] = held] /\ wk' = [wk EXCEPT ![w] = new]
    BY <1>b
  <1> HIDE DEF held, new
  <1>6. held.token >= job[j].token
    BY <1>3, <1>a
  <1>7. QueueKept /\ \A k \in JobId : (Live(k)' <=> Live(k)) /\ (k # j => job'[k] = job[k])
    BY <1>1, <1>3, <1>5, <1>6, ChangedJob
  <1>8. job'[j] = held
    BY <1>1, <1>5
  <1>9. OthersStay(w) /\ wk'[w] = new
    BY <1>1, <1>4, <1>5 DEF OthersStay
  <1> QED BY <1>1, <1>2, <1>3, <1>4, <1>a, <1>7, <1>8, <1>9

LEMMA ClaimKeeps ==
    ASSUME PipelineInv, NEW w \in Worker, NEW j \in JobId, ClaimJob(w, j), rq' = rq
    PROVE  PipelineInv' /\ LegalStep
  <1>1. /\ QueueKept /\ UNCHANGED <<index, storeVars>> /\ OthersStay(w) /\ wk[w] = IdleWorker /\ Live(j)
        /\ wk'[w].pc = "lookup" /\ wk'[w].job = j /\ wk'[w].document = job[j].document
        /\ wk'[w].token = job[j].token + 1 /\ job'[j].token = job[j].token + 1
        /\ \A k \in JobId : Live(k)' <=> Live(k)
        /\ \A k \in JobId : job'[k].document = job[k].document
    BY ClaimHands
  <1>2. RowsMove(w)
    BY <1>1, RowsStand, TypesOf DEF storeVars
  <1>3. (\A c \in Client : RequestKnows(c)') /\ OneUpload' /\ RowHasOriginal' /\ LegalStep
    BY <1>2, RequestsUnmoved
  <1>4. TypeOK' /\ \A k \in Disturbance : left'[k] <= Allowance[k]
    BY <1>1, <1>2, TypesOf DEF OthersStay, RowsMove, QueueKept, TypeOK, storeVars, PipelineInv
  <1>5. JobsAreKnown'
    <2>0. /\ /\ JobsAreKnown /\ None \notin JobId /\ IdleWorker.pc = "idle"
          /\ \A v \in Worker \ {w} : wk'[v] = wk[v]
          /\ IdleWorker.job = None /\ job \in [JobId -> Job] /\ job' \in [JobId -> Job] /\ wk \in [Worker -> WorkerState]
      BY <1>1, NoneIsNoValue, TypesOf DEF PipelineInv, IdleWorker, OthersStay, QueueKept
    <2>1. \A k \in JobId : Live(k)' => job'[k].document \in Document
      BY <1>1, <2>0 DEF JobsAreKnown
    <2>2. ASSUME NEW v \in Worker
          PROVE  /\ wk'[v].pc = "idle" => wk'[v] = IdleWorker
                 /\ wk'[v].pc # "idle" =>
                        wk'[v].job \in JobId /\ wk'[v].document \in Document /\ job'[wk'[v].job].phase # "absent"
      <3>1. CASE v = w
        BY <1>1, <2>0, <3>1 DEF JobsAreKnown, QueueKept, Live
      <3>2. CASE v # w
        BY <2>0, <1>1, <3>2 DEF JobsAreKnown, QueueKept
      <3> QED BY <3>1, <3>2
    <2>3. ASSUME NEW v \in Worker, NEW k \in JobId, wk'[v].pc # "idle", wk'[v].job = k, Live(k)'
          PROVE  job'[k].document = wk'[v].document /\ wk'[v].token <= job'[k].token
      <3>1. CASE v = w
        <4>1. k = j /\ job[j].token \in Nat
          BY <1>1, <2>0, <2>3, <3>1 DEF Job
        <4> QED BY <1>1, <3>1, <4>1
      <3>2. CASE v # w
        <4>1. wk'[v] = wk[v] /\ Live(k) /\ wk[v].token \in Nat /\ job[k].token \in Nat /\ job'[k].token \in Nat
          BY <1>1, <2>0, <2>3, <3>2 DEF Job, WorkerState
        <4>2. job[k].document = wk[v].document /\ wk[v].token <= job[k].token
          BY <2>0, <2>3, <4>1 DEF JobsAreKnown
        <4>3. job'[k].document = job[k].document /\ job'[k].token >= job[k].token
          BY <1>1, <2>3, <4>1 DEF QueueKept
        <4> QED BY <4>1, <4>2, <4>3
      <3> QED BY <3>1, <3>2
    <2>4. ASSUME NEW u \in Worker, NEW v \in Worker, wk'[u].job = wk'[v].job
          PROVE  wk'[u].document = wk'[v].document
      <3>1. \A x \in Worker \ {w} : wk[x].job = j => wk[x].document = job[j].document
        BY <1>1, <2>0 DEF JobsAreKnown
      <3> QED BY <1>1, <2>0, <2>4, <3>1 DEF JobsAreKnown
    <2>5. \A v \in Worker : wk'[v].pc # "idle" /\ Live(wk[v].job)' =>
              job'[wk'[v].job].document = wk'[v].document /\ wk'[v].token <= job'[wk'[v].job].token
      BY <2>2, <2>3 DEF Live
    <2> QED BY <2>1, <2>2, <2>4, <2>5 DEF JobsAreKnown
  <1>6. OvertakenIsFenced'
    BY <1>1 DEF OvertakenIsFenced, PipelineInv, OthersStay, PastFence, BeforeFence, HoldsFence, Fenced, Doc, storeVars
  <1> QED BY <1>3, <1>4, <1>5, <1>6 DEF PipelineInv

\* Every step of a worker, of time, of a lost lease.
LEMMA WorkerKeeps ==
    ASSUME PipelineInv, NEW w \in Worker, WorkerStep(w) \/ Heartbeat(w) \/ WorkerCrash(w), rq' = rq
    PROVE  PipelineInv' /\ LegalStep
  <1>1. CASE \E j \in JobId : ClaimJob(w, j)
    BY <1>1, ClaimKeeps
  <1>2. CASE ReleaseJob(w) \/ AcknowledgeJob(w)
    BY <1>2, LeaveMoves, KeepsAfterWork DEF WorkMoves
  <1>3. CASE WorksOn(w)
    BY <1>3, WorkMovesOn, QueueStands, KeepsAfterWork DEF WorkMoves
  <1> QED BY <1>1, <1>2, <1>3 DEF WorkerStep, WorksOn

\* A step that gives no worker the fence it did not have.
FenceStays ==
    \A x \in Worker, d \in Document :
        meta'[d].worker = x => meta'[d] = [meta[d] EXCEPT !.status = meta'[d].status]

LEMMA WorkersStand ==
    ASSUME PipelineInv, QueueKept, wk' = wk, FenceStays
    PROVE  JobsAreKnown' /\ OvertakenIsFenced'
  <1>1. JobsAreKnown'
    BY HandsStayKnown
  <1>2. OvertakenIsFenced'
    <2> SUFFICES ASSUME NEW u \in Worker, NEW v \in Worker, wk[u].pc = "complete", PastFence(v),
                        wk[v].job = wk[u].job, wk[v].token > wk[u].token
                 PROVE  ~ HoldsFence(u)'
      BY DEF OvertakenIsFenced, PastFence
    <2>1. ~ HoldsFence(u)
      BY DEF PipelineInv, OvertakenIsFenced
    <2>2. Doc(u) \in Document /\ meta[Doc(u)] \in Row
      BY HandHasDocument
    <2>3. meta'[Doc(u)].worker = u => meta'[Doc(u)] = [meta[Doc(u)] EXCEPT !.status = meta'[Doc(u)].status]
      BY <2>2 DEF FenceStays
    <2> QED BY <2>1, <2>2, <2>3 DEF HoldsFence, Fenced, Doc, Row
  <1> QED BY <1>1, <1>2

LEMMA FenceStands ==
    ASSUME PipelineInv, meta' = meta
    PROVE  FenceStays
  BY TypesOf DEF FenceStays, Row

LEMMA TimeKeeps ==
    ASSUME PipelineInv, NEW j \in JobId, LeaseLapses(j) \/ RetryDue(j), rq' = rq
    PROVE  PipelineInv' /\ LegalStep
  <1>1. QueueKept
    BY TimeIsKept DEF LeaseLapses, RetryDue
  <1>2. UNCHANGED <<meta, files, wk>> /\ (left' = left \/ \E k \in Disturbance : Spend(k))
    BY DEF LeaseLapses, RetryDue, storeVars, files, Disturbance
  <1>3. JobsAreKnown' /\ OvertakenIsFenced'
    BY <1>1, <1>2, FenceStands, WorkersStand
  <1>4. (\A c \in Client : RequestKnows(c)') /\ OneUpload' /\ LegalStep
    BY <1>2 DEF PipelineInv, RequestKnows, OneUpload, LegalStep, files
  <1>6. RowHasOriginal'
    BY <1>2, SpentOrNot, HeardBefore DEF RowHasOriginal, Visible, files
  <1>5. TypeOK' /\ \A k \in Disturbance : left'[k] <= Allowance[k]
    BY <1>1, <1>2, SpentOrNot, TypesOf DEF TypeOK, StoreTypeOK, QueueKept, files
  <1> QED BY <1>3, <1>4, <1>5, <1>6 DEF PipelineInv

-----------------------------------------------------------------------------
(* The request that takes a step. *)

OthersWait(c) == rq' \in [Client -> RequestState] /\ \A e \in Client \ {c} : rq'[e] = rq[e]

\* What a request may do to rows and originals that others rely on.
RequestMoves(c) ==
    /\ OthersWait(c) /\ RequestKnows(c)' /\ QueueKept /\ StoreTypeOK' /\ FenceStays /\ RowHasOriginal'
    /\ \A k \in Disturbance : left'[k] <= Allowance[k]
    /\ rq'[c].pc = "create" => \A e \in Client \ {c} : ~ (rq[e].pc = "create" /\ rq[e].document = rq'[c].document)
    /\ \A d \in Document :
          /\ meta[d].status = "ABSENT" /\ original[d] /\ ~ (rq[c].pc = "create" /\ rq[c].document = d)
                => meta'[d].status = "ABSENT" /\ original'[d]
          /\ meta[d].status \in {"DELETED", "PURGED"} => meta'[d].status \in {"DELETED", "PURGED"}
    /\ LegalStep

LEMMA KeepsAfterRequest ==
    ASSUME PipelineInv, NEW c \in Client, RequestMoves(c), wk' = wk
    PROVE  PipelineInv' /\ LegalStep
  <1>1. JobsAreKnown' /\ OvertakenIsFenced'
    BY WorkersStand DEF RequestMoves
  <1>2. ASSUME NEW e \in Client PROVE RequestKnows(e)'
    <2>1. CASE e = c
      BY <2>1 DEF RequestMoves
    <2>2. CASE e # c
      <3>1. RequestKnows(e) /\ rq'[e] = rq[e]
        BY <2>2 DEF PipelineInv, RequestMoves, OthersWait
      <3>2. rq[e].pc = "create" => rq[e].document \in Document /\ ~ (rq[c].pc = "create" /\ rq[c].document = rq[e].document)
        BY <2>2, <3>1 DEF PipelineInv, OneUpload, RequestKnows
      <3>3. rq[e].pc = "create" => meta'[rq[e].document].status = "ABSENT" /\ original'[rq[e].document]
        BY <3>1, <3>2 DEF RequestMoves, RequestKnows
      <3>4. rq[e].pc \in Purging => meta'[rq[e].document].status \in {"DELETED", "PURGED"}
        <4>1. rq[e].pc \in Purging => rq[e].pc # "idle"
          BY DEF Purging
        <4> QED BY <3>1, <4>1 DEF RequestMoves, RequestKnows
      <3> QED BY <3>1, <3>3, <3>4 DEF RequestKnows
    <2> QED BY <2>1, <2>2
  <1>3. OneUpload'
    BY DEF PipelineInv, OneUpload, RequestMoves, OthersWait
  <1>4. RowHasOriginal' /\ LegalStep
    BY DEF RequestMoves
  <1>5. TypeOK' /\ \A k \in Disturbance : left'[k] <= Allowance[k]
    BY TypesOf DEF RequestMoves, OthersWait, QueueKept, TypeOK
  <1> QED BY <1>1, <1>2, <1>3, <1>4, <1>5 DEF PipelineInv

\* A step of a request that touches neither rows nor originals.
LEMMA OnlyTheRest ==
    ASSUME PipelineInv, NEW c \in Client, UNCHANGED <<meta, original>>, text' \in [Document -> BOOLEAN],
           chunks' \in [Document -> BOOLEAN], left' = left \/ \E k \in Disturbance : Spend(k),
           QueueKept, OthersWait(c), RequestKnows(c)', rq'[c].pc # "create"
    PROVE  RequestMoves(c)
  <1>1. FenceStays
    BY FenceStands
  <1>2. StoreTypeOK' /\ \A k \in Disturbance : left'[k] <= Allowance[k]
    BY SpentOrNot, TypesOf DEF StoreTypeOK
  <1>3. RowHasOriginal'
    BY SpentOrNot, HeardBefore DEF RowHasOriginal, Visible
  <1>4. LegalStep
    BY DEF LegalStep
  <1> QED BY <1>1, <1>2, <1>3, <1>4 DEF RequestMoves

LEMMA EndsRequest ==
    ASSUME PipelineInv, NEW c \in Client, Done(c)
    PROVE  OthersWait(c) /\ rq'[c] = IdleRequest /\ RequestKnows(c)'
  <1>1. IdleRequest \in RequestState /\ IdleRequest.pc = "idle"
    BY DEF IdleRequest, RequestState, RequestPc, Status
  <1>2. OthersWait(c) /\ rq'[c] = IdleRequest
    BY <1>1, TypesOf DEF Done, OthersWait
  <1> QED BY <1>1, <1>2 DEF RequestKnows, Purging

LEMMA StepsTo ==
    ASSUME PipelineInv, NEW c \in Client, NEW p \in RequestPc, Step(c, p)
    PROVE  OthersWait(c) /\ rq'[c] = [rq[c] EXCEPT !.pc = p] /\ rq'[c].pc = p /\ rq'[c].op = rq[c].op
           /\ rq'[c].document = rq[c].document /\ rq'[c].seen = rq[c].seen
  <1>1. rq \in [Client -> RequestState]
    BY TypesOf
  <1>2. [rq[c] EXCEPT !.pc = p] \in RequestState
    BY <1>1 DEF RequestState
  <1>3. rq' = [rq EXCEPT ![c] = [rq[c] EXCEPT !.pc = p]]
    BY <1>1 DEF Step
  <1>4. OthersWait(c) /\ rq'[c] = [rq[c] EXCEPT !.pc = p]
    BY <1>1, <1>2, <1>3 DEF OthersWait
  <1> QED BY <1>1, <1>4 DEF RequestState

\* Further steps that know nothing of rows.
Careless == RequestPc \ ({"create", "enqueue", "enqueueOnly", "apply"} \cup Purging)

LEMMA StepsToCareless ==
    ASSUME PipelineInv, NEW c \in Client, rq[c].pc # "idle", NEW p \in Careless, Step(c, p) \/ Continue(c, p)
    PROVE  OthersWait(c) /\ RequestKnows(c)' /\ rq'[c].pc # "create"
  <1>1. p \in RequestPc /\ p \notin {"create", "enqueue", "enqueueOnly", "apply"} \cup Purging
    BY DEF Careless
  <1>2. CASE Done(c)
    BY <1>2, EndsRequest DEF IdleRequest
  <1>3. CASE Step(c, p)
    <2>1. OthersWait(c) /\ rq'[c].pc = p /\ rq'[c].op = rq[c].op /\ rq'[c].document = rq[c].document
      BY <1>1, <1>3, StepsTo
    <2>2. rq[c].document \in Document /\ rq[c].op \in AllOperations
      BY DEF PipelineInv, RequestKnows
    <2> QED BY <1>1, <2>1, <2>2 DEF RequestKnows
  <1> QED BY <1>2, <1>3 DEF Continue

LEMMA CreateIsKept ==
    ASSUME PipelineInv, NEW d \in Document, NEW j \in JobId, CreateJob(d, j)
    PROVE  QueueKept
  <1> DEFINE new == [phase |-> "ready", document |-> d, worker |-> None, token |-> 0]
  <1>1. /\ index' = [index EXCEPT ![d] = j] /\ job' = [job EXCEPT ![j] = new] /\ removing' = removing
        /\ job[j].phase = "absent" /\ job \in [JobId -> Job] /\ index \in [Document -> JobId \cup {None}]
        /\ removing \in [Client -> {None} \cup [document : Document, job : JobId]]
    BY TypesOf DEF CreateJob
  <1>2. new \in Job /\ new.phase = "ready" /\ new.document = d
    BY DEF Job, Phase
  <1> HIDE DEF new
  <1>3. job' \in [JobId -> Job] /\ job'[j] = new /\ \A k \in JobId \ {j} : job'[k] = job[k]
    BY <1>1, <1>2
  <1>4. ~ Live(j) /\ Live(j)' /\ \A k \in JobId \ {j} : Live(k)' <=> Live(k)
    BY <1>1, <1>2, <1>3 DEF Live
  <1>5. \A k \in JobId : job[k].token \in Nat
    BY <1>1 DEF Job
  <1>6. index' \in [Document -> JobId \cup {None}]
    BY <1>1
  <1> QED BY <1>1, <1>2, <1>3, <1>4, <1>5, <1>6 DEF QueueKept

LEMMA RemoveIsKept ==
    ASSUME PipelineInv, NEW c \in Client, RemoveJob(c)
    PROVE  /\ QueueKept /\ removing[c] \in [document : Document, job : JobId]
           /\ index' = [index EXCEPT ![removing[c].document] = None]
           /\ job'[removing[c].job].phase = "gone" /\ \A k \in JobId \ {removing[c].job} : job'[k] = job[k]
  <1>1. /\ job \in [JobId -> Job] /\ index \in [Document -> JobId \cup {None}]
        /\ removing \in [Client -> {None} \cup [document : Document, job : JobId]]
        /\ removing[c] # None /\ index' = [index EXCEPT ![removing[c].document] = None]
        /\ job' = [job EXCEPT ![removing[c].job] = NoJob("gone")] /\ removing' = [removing EXCEPT ![c] = None]
    BY TypesOf DEF RemoveJob
  <1>2. removing[c] \in [document : Document, job : JobId]
    BY <1>1
  <1>3. PICK j \in JobId : j = removing[c].job
    BY <1>2
  <1>4. NoJob("gone") \in Job /\ NoJob("gone").phase = "gone"
    BY DEF NoJob, Job, Phase
  <1>5. job' \in [JobId -> Job] /\ job'[j] = NoJob("gone") /\ \A k \in JobId \ {j} : job'[k] = job[k]
    BY <1>1, <1>3, <1>4
  <1>6. ~ Live(j)' /\ \A k \in JobId \ {j} : Live(k)' <=> Live(k)
    BY <1>4, <1>5 DEF Live
  <1>7. \A k \in JobId : job[k].token \in Nat
    BY <1>1 DEF Job
  <1>8. /\ index' \in [Document -> JobId \cup {None}]
        /\ removing' \in [Client -> {None} \cup [document : Document, job : JobId]]
    BY <1>1
  <1>9. QueueKept
    BY <1>4, <1>5, <1>6, <1>7, <1>8 DEF QueueKept
  <1>10. job'[removing[c].job] = NoJob("gone") /\ \A k \in JobId \ {removing[c].job} : job'[k] = job[k]
    BY <1>3, <1>5
  <1> QED BY <1>1, <1>2, <1>4, <1>9, <1>10

LEMMA RemovingKept ==
    ASSUME PipelineInv, UNCHANGED <<index, job>>, removing' \in [Client -> {None} \cup [document : Document, job : JobId]]
    PROVE  QueueKept
  BY TypesOf DEF QueueKept, Live, Job

LEMMA LookupIsKept ==
    ASSUME PipelineInv, NEW c \in Client, NEW d \in Document, LookupJob(c, d)
    PROVE  QueueKept
  <1>1. [document |-> d, job |-> index[d]] \in [document : Document, job : JobId]
    BY TypesOf DEF LookupJob
  <1> QED BY <1>1, RemovingKept, TypesOf DEF LookupJob

\* The actions of a request.
LEMMA StartMoves ==
    ASSUME PipelineInv, NEW c \in Client, NEW op \in Operations, NEW d \in Document, Start(c, op, d)
    PROVE  RequestMoves(c) /\ UNCHANGED <<queueVars, meta, text, chunks>>
  <1> DEFINE p == IF op = "upload" THEN "create" ELSE "find"
             new == [IdleRequest EXCEPT !.op = op, !.document = d, !.pc = p]
  <1>1. /\ UNCHANGED <<queueVars, meta, text, chunks>> /\ Spend("request")
        /\ op = "upload" => meta[d].status = "ABSENT" /\ ~ original[d]
        /\ original' = [original EXCEPT ![d] = @ \/ op = "upload"]
        /\ rq' = [rq EXCEPT ![c] = new] /\ op \in AllOperations
    BY OperationsAssumption DEF Start
  <1>2. new \in RequestState /\ new.pc = p /\ new.document = d /\ new.op = op
    BY <1>1 DEF IdleRequest, RequestState, RequestPc, Status
  <1>3. p \in {"create", "find"} /\ (p = "create" <=> op = "upload")
    OBVIOUS
  <1> HIDE DEF p, new
  <1>4. OthersWait(c) /\ rq'[c] = new
    BY <1>1, <1>2, TypesOf DEF OthersWait
  <1>5. /\ original' \in [Document -> BOOLEAN] /\ \A e \in Document : original[e] => original'[e]
        /\ op = "upload" => original'[d]
    BY <1>1, TypesOf
  <1>6. RequestKnows(c)'
    BY <1>1, <1>2, <1>3, <1>4, <1>5 DEF RequestKnows, Purging
  <1>7. p = "create" => \A e \in Client \ {c} : ~ (rq[e].pc = "create" /\ rq[e].document = d)
    BY <1>1, <1>3 DEF PipelineInv, RequestKnows
  <1>8. left' \in [Disturbance -> Nat] /\ \A k \in Disturbance : left'[k] <= left[k] /\ left'[k] <= Allowance[k]
    <2>1. "request" \in Disturbance
      BY DEF Disturbance
    <2> QED BY <1>1, <2>1, SpentOrNot
  <1>9. StoreTypeOK' /\ QueueKept /\ FenceStays
    BY <1>1, <1>5, <1>8, TypesOf, QueueStands, FenceStands DEF StoreTypeOK
  <1>10. RowHasOriginal'
    BY <1>1, <1>5, <1>8, HeardBefore DEF RowHasOriginal, Visible
  <1>11. LegalStep
    BY <1>1 DEF LegalStep
  <1> QED BY <1>1, <1>2, <1>4, <1>5, <1>6, <1>7, <1>8, <1>9, <1>10, <1>11 DEF RequestMoves

\* The new row is nobody's, and all its own.
LEMMA InsertsRow ==
    ASSUME PipelineInv, NEW c \in Client, RqDoc(c) \in Document, meta[RqDoc(c)].status = "ABSENT", InsertRow(c)
    PROVE  /\ meta' \in [Document -> Row] /\ FenceStays /\ LegalStep
           /\ \A d \in Document \ {RqDoc(c)} : meta'[d] = meta[d]
  <1>1. NewRow("UPLOADED") \in Row /\ NewRow("UPLOADED").worker = None /\ NewRow("UPLOADED").status = "UPLOADED"
    BY DEF NewRow, Row, Status, Stored
  <1>2. /\ meta' \in [Document -> Row] /\ meta'[RqDoc(c)] = NewRow("UPLOADED")
        /\ \A d \in Document \ {RqDoc(c)} : meta'[d] = meta[d]
    BY <1>1, TypesOf DEF InsertRow
  <1>3. FenceStays
    <2>1. \A d \in Document : meta[d] = [meta[d] EXCEPT !.status = meta[d].status]
      BY TypesOf DEF Row
    <2> SUFFICES ASSUME NEW x \in Worker, NEW d \in Document, meta'[d].worker = x
                 PROVE  meta'[d] = [meta[d] EXCEPT !.status = meta'[d].status]
      BY DEF FenceStays
    <2>2. d # RqDoc(c)
      BY <1>1, <1>2, NoneIsNoValue
    <2> QED BY <1>2, <2>1, <2>2
  <1>4. LegalStep
    BY <1>2 DEF LegalStep, Visible, Stored
  <1> QED BY <1>2, <1>3, <1>4

LEMMA CreateMoves ==
    ASSUME PipelineInv, NEW c \in Client, Create(c)
    PROVE  RequestMoves(c)
  <1>1. rq[c].pc = "create" /\ UNCHANGED <<queueVars, text, chunks>>
    BY DEF Create
  <1>2. /\ RqDoc(c) \in Document /\ meta[RqDoc(c)].status = "ABSENT" /\ original[RqDoc(c)]
        /\ rq[c].op \in AllOperations
    BY <1>1 DEF PipelineInv, RequestKnows, RqDoc
  <1>3. /\ meta' \in [Document -> Row] /\ FenceStays /\ LegalStep
        /\ \A d \in Document \ {RqDoc(c)} : meta'[d] = meta[d]
    <2>1. CASE meta' = meta
      BY <2>1, FenceStands, TypesOf DEF LegalStep
    <2>2. CASE InsertRow(c)
      BY <1>2, <2>2, InsertsRow
    <2> QED BY <2>1, <2>2 DEF Create
  <1>4. left' = left \/ \E k \in Disturbance : Spend(k)
    BY DEF Create, Disturbance
  <1>5. /\ original' \in [Document -> BOOLEAN]
        /\ \A d \in Document \ {RqDoc(c)} : original'[d] = original[d]
    BY TypesOf DEF Create
  <1>6. OthersWait(c) /\ RequestKnows(c)' /\ rq'[c].pc # "create"
    <2>1. "find" \in Careless
      BY DEF Careless, RequestPc, Purging
    <2>2. CASE Step(c, "find")
      BY <1>1, <2>1, <2>2, StepsToCareless
    <2>3. CASE Done(c)
      BY <2>3, EndsRequest DEF IdleRequest
    <2> QED BY <2>2, <2>3 DEF Create
  <1>7. StoreTypeOK' /\ \A k \in Disturbance : left'[k] <= Allowance[k]
    BY <1>1, <1>3, <1>4, <1>5, SpentOrNot, TypesOf DEF StoreTypeOK
  <1>8. RowHasOriginal'
    <2> SUFFICES ASSUME AllHeard' PROVE \A d \in Document : Visible(d)' => original'[d]
      BY DEF RowHasOriginal
    <2>1. \A d \in Document : Visible(d) => original[d]
      BY <1>4, SpentOrNot, HeardBefore
    <2>2. ~ Spend("unheard")
      <3>1. left["unheard"] \in Nat /\ left["unheard"] <= Allowance["unheard"] /\ Allowance["unheard"] \in Nat
        BY TypesOf, StoreAssumption DEF PipelineInv, Disturbance
      <3>2. Spend("unheard") => left'["unheard"] = left["unheard"] - 1
        BY TypesOf DEF Spend, Disturbance
      <3> QED BY <3>1, <3>2 DEF AllHeard
    <2>3. original' = original \/ (meta' = meta /\ ~ Visible(RqDoc(c)))
      BY <1>2, <2>2 DEF Create, Visible, Stored
    <2> QED BY <1>2, <1>3, <1>5, <2>1, <2>3 DEF Visible
  <1>9. \A d \in Document :
          /\ meta[d].status = "ABSENT" /\ original[d] /\ ~ (rq[c].pc = "create" /\ rq[c].document = d)
                => meta'[d].status = "ABSENT" /\ original'[d]
          /\ meta[d].status \in {"DELETED", "PURGED"} => meta'[d].status \in {"DELETED", "PURGED"}
    BY <1>1, <1>2, <1>3, <1>5 DEF RqDoc
  <1> QED BY <1>1, <1>3, <1>6, <1>7, <1>8, <1>9, QueueStands DEF RequestMoves

\* A step of a request that writes the row of one document.
LEMMA RequestWrites ==
    ASSUME PipelineInv, NEW c \in Client, NEW d \in Document, NEW row \in Row, meta' = [meta EXCEPT ![d] = row],
           UNCHANGED files, left' = left \/ \E k \in Disturbance : Spend(k),
           QueueKept, OthersWait(c), RequestKnows(c)', rq'[c].pc # "create",
           row.worker = None \/ row = [meta[d] EXCEPT !.status = row.status],
           \/ Visible(d) /\ row.status \in AllowedTransitions[meta[d].status]
           \/ meta[d].status \in {"DELETED", "PURGED"} /\ row.status \in {"DELETED", "PURGED"}
    PROVE  RequestMoves(c)
  <1>1. meta' \in [Document -> Row] /\ meta'[d] = row /\ \A e \in Document \ {d} : meta'[e] = meta[e]
    BY TypesOf
  <1>2. FenceStays
    <2>1. \A e \in Document : meta[e] = [meta[e] EXCEPT !.status = meta[e].status]
      BY TypesOf DEF Row
    <2> QED BY <1>1, <2>1, NoneIsNoValue DEF FenceStays
  <1>3. LegalStep
    BY <1>1 DEF LegalStep, Visible, Stored
  <1>4. RowHasOriginal'
    BY <1>1, SpentOrNot, HeardBefore DEF RowHasOriginal, Visible, files, Stored
  <1>5. StoreTypeOK' /\ \A k \in Disturbance : left'[k] <= Allowance[k]
    BY <1>1, SpentOrNot, TypesOf DEF StoreTypeOK, files
  <1>6. \A e \in Document :
            /\ meta[e].status = "ABSENT" /\ original[e] => meta'[e].status = "ABSENT" /\ original'[e]
            /\ meta[e].status \in {"DELETED", "PURGED"} => meta'[e].status \in {"DELETED", "PURGED"}
    BY <1>1 DEF Visible, Stored, files
  <1> QED BY <1>2, <1>3, <1>4, <1>5, <1>6 DEF RequestMoves

\* Where findById sends an operation, and what it has seen then.
LEMMA AfterFindKnows ==
    ASSUME NEW op \in AllOperations, NEW status \in Status, NEW p, p = AfterFind(op, status)
    PROVE  /\ p \in {"idle", "enqueueOnly", "enqueue", "apply", "purgeOriginal"}
           /\ p \in {"enqueue", "enqueueOnly"} => op \in {"upload", "reprocess", "retry"}
           /\ p = "enqueue" /\ op = "reprocess" => status \in {"COMPLETED", "FAILED", "QUARANTINED"}
           /\ p = "apply" => op \in {"delete", "fail"} /\ (op = "delete" => status \in Stored)
           /\ p = "purgeOriginal" => status = "DELETED"
  BY DEF AfterFind, AllOperations, CleansUp

LEMMA FindMoves ==
    ASSUME PipelineInv, NEW c \in Client, Find(c)
    PROVE  RequestMoves(c)
  <1>1. rq[c].pc = "find" /\ UNCHANGED <<queueVars, storeVars>> /\ rq \in [Client -> RequestState]
    BY TypesOf DEF Find
  <1>2. RqDoc(c) \in Document /\ rq[c].op \in AllOperations
    BY <1>1 DEF PipelineInv, RequestKnows, RqDoc
  <1> DEFINE s == meta[RqDoc(c)].status
             p == IF rq[c].op = "resolve"
                  THEN IF text[RqDoc(c)] /\ chunks[RqDoc(c)] THEN "apply" ELSE "idle"
                  ELSE AfterFind(rq[c].op, s)
  <1>3. s \in Status
    BY <1>2, TypesOf DEF Row
  <1>4. /\ p \in {"idle", "enqueueOnly", "enqueue", "apply", "purgeOriginal"}
        /\ p \in {"enqueue", "enqueueOnly"} => rq[c].op \in {"upload", "reprocess", "retry"}
        /\ p = "enqueue" /\ rq[c].op = "reprocess" => s \in {"COMPLETED", "FAILED", "QUARANTINED"}
        /\ p = "apply" => rq[c].op \in {"delete", "fail", "resolve"} /\ (rq[c].op = "delete" => s \in Stored)
        /\ p = "purgeOriginal" => s = "DELETED"
    <2>1. CASE rq[c].op = "resolve"
      BY <2>1
    <2>2. CASE rq[c].op # "resolve"
      BY <1>2, <1>3, <2>2, AfterFindKnows
    <2> QED BY <2>1, <2>2
  <1>5. IF p = "idle" THEN Done(c) ELSE rq' = [rq EXCEPT ![c].pc = p, ![c].seen = s]
    BY DEF Find
  <1>6. OthersWait(c) /\ RequestKnows(c)' /\ rq'[c].pc # "create"
    <2>1. CASE p = "idle"
      BY <1>5, <2>1, EndsRequest DEF IdleRequest
    <2>2. CASE p # "idle"
      <3> HIDE DEF p, s
      <3> DEFINE new == [rq[c] EXCEPT !.pc = p, !.seen = s]
      <3>1. rq' = [rq EXCEPT ![c] = new]
        BY <1>1, <1>5, <2>2
      <3>2. new \in RequestState /\ new.pc = p /\ new.seen = s /\ new.op = rq[c].op /\ new.document = RqDoc(c)
        BY <1>1, <1>3, <1>4 DEF RequestState, RequestPc, RqDoc
      <3> HIDE DEF new
      <3>3. OthersWait(c) /\ rq'[c] = new
        BY <1>1, <3>1, <3>2 DEF OthersWait
      <3>4. p = "purgeOriginal" => meta'[RqDoc(c)].status \in {"DELETED", "PURGED"}
        BY <1>1, <1>4 DEF storeVars, s
      <3> QED BY <1>2, <1>4, <2>2, <3>2, <3>3, <3>4 DEF RequestKnows, Purging
    <2> QED BY <2>1, <2>2
  <1> QED BY <1>1, <1>6, OnlyTheRest, QueueStands, TypesOf DEF storeVars

LEMMA EnqueueMoves ==
    ASSUME PipelineInv, NEW c \in Client, Enqueue(c)
    PROVE  RequestMoves(c)
  <1>1. rq[c].pc \in {"enqueue", "enqueueOnly"} /\ UNCHANGED <<meta, files>> /\ rq \in [Client -> RequestState]
    BY TypesOf DEF Enqueue
  <1>2. /\ RqDoc(c) \in Document /\ rq[c].op \in {"upload", "reprocess", "retry"}
        /\ rq[c].pc = "enqueue" /\ rq[c].op = "reprocess" => rq[c].seen \in {"COMPLETED", "FAILED", "QUARANTINED"}
    BY <1>1 DEF PipelineInv, RequestKnows, RqDoc
  <1>3. QueueKept
    BY <1>2, CreateIsKept, QueueStands DEF Enqueue
  <1>4. left' = left \/ \E k \in Disturbance : Spend(k)
    BY DEF Enqueue, Disturbance
  <1>5. OthersWait(c) /\ RequestKnows(c)' /\ rq'[c].pc # "create"
    <2>1. CASE Done(c)
      BY <2>1, EndsRequest DEF IdleRequest
    <2>2. CASE Step(c, "uploadFailed")
      <3>1. "uploadFailed" \in Careless
        BY DEF Careless, RequestPc, Purging
      <3> QED BY <1>1, <2>2, <3>1, StepsToCareless
    <2>3. CASE rq[c].pc = "enqueue" /\ Step(c, "apply")
      <3>1. "apply" \in RequestPc
        BY DEF RequestPc
      <3>2. /\ OthersWait(c) /\ rq'[c].pc = "apply" /\ rq'[c].op = rq[c].op
            /\ rq'[c].document = rq[c].document /\ rq'[c].seen = rq[c].seen
        BY <2>3, <3>1, StepsTo
      <3> QED BY <1>2, <2>3, <3>2 DEF RequestKnows, Purging, AllOperations, RqDoc
    <2>4. CASE rq[c].pc = "enqueue" /\ rq' = [rq EXCEPT ![c].pc = "apply", ![c].enqueued = TRUE]
      <3> DEFINE new == [rq[c] EXCEPT !.pc = "apply", !.enqueued = TRUE]
      <3>1. rq' = [rq EXCEPT ![c] = new]
        BY <1>1, <2>4
      <3>2. /\ new \in RequestState /\ new.pc = "apply" /\ new.seen = rq[c].seen
            /\ new.op = rq[c].op /\ new.document = RqDoc(c)
        BY <1>1 DEF RequestState, RequestPc, RqDoc
      <3> HIDE DEF new
      <3>3. OthersWait(c) /\ rq'[c] = new
        BY <1>1, <3>1, <3>2 DEF OthersWait
      <3> QED BY <1>2, <2>4, <3>2, <3>3 DEF RequestKnows, Purging, AllOperations
    <2> QED BY <1>1, <2>1, <2>2, <2>3, <2>4 DEF Enqueue, Done
  <1> QED BY <1>1, <1>3, <1>4, <1>5, OnlyTheRest, TypesOf DEF files

\* What an operation makes of its document is what the table allows.
LEMMA AppliesLegally ==
    ASSUME PipelineInv, NEW c \in Client, rq[c].pc = "apply", Applicable(c)
    PROVE  /\ RqDoc(c) \in Document /\ Visible(RqDoc(c)) /\ Target(rq[c].op) \in Status
           /\ Target(rq[c].op) \in AllowedTransitions[meta[RqDoc(c)].status]
  <1>1. /\ RqDoc(c) \in Document /\ rq[c].op \in AllOperations /\ rq[c].op # "cleanup"
        /\ rq[c].op = "reprocess" => rq[c].seen \in {"COMPLETED", "FAILED", "QUARANTINED"}
        /\ rq[c].op = "delete" => rq[c].seen \in Stored
    BY DEF PipelineInv, RequestKnows, RqDoc
  <1>2. rq[c].op \in {"upload", "reprocess", "retry", "resolve", "fail", "delete"}
    BY <1>1 DEF AllOperations
  <1>3. CASE rq[c].op \in {"upload", "reprocess", "retry"}
    <2>1. Target(rq[c].op) = "QUEUED"
      BY <1>3 DEF Target
    <2>2. meta[RqDoc(c)].status \in {"UPLOADED", "COMPLETED", "FAILED", "QUARANTINED"}
      BY <1>1, <1>3 DEF Applicable, Expected, SeenStatus
    <2> QED BY <1>1, <2>1, <2>2 DEF Visible, Stored, Status, AllowedTransitions
  <1>4. CASE rq[c].op \in {"resolve", "fail"}
    <2>1. Target(rq[c].op) \in {"COMPLETED", "FAILED"}
      BY <1>4 DEF Target
    <2>2. meta[RqDoc(c)].status = "QUARANTINED"
      BY <1>4 DEF Applicable, Expected
    <2> QED BY <1>1, <2>1, <2>2 DEF Visible, Stored, Status, AllowedTransitions
  <1>5. CASE rq[c].op = "delete"
    <2>1. Target(rq[c].op) = "DELETED"
      BY <1>5 DEF Target
    <2>2. meta[RqDoc(c)].status \in Stored
      BY <1>1, <1>5 DEF Applicable, Expected, SeenStatus
    <2> QED BY <1>1, <2>1, <2>2 DEF Visible, Stored, Status, AllowedTransitions
  <1> QED BY <1>2, <1>3, <1>4, <1>5

LEMMA ApplyMoves ==
    ASSUME PipelineInv, NEW c \in Client, Apply(c)
    PROVE  RequestMoves(c)
  <1>1. rq[c].pc = "apply" /\ UNCHANGED <<queueVars, files>> /\ QueueKept
    BY QueueStands DEF Apply
  <1>2. /\ AfterSuccess(rq[c].op) \in Careless /\ AfterConflict(c) \in Careless
        /\ AfterException(c) \in Careless
    BY DEF AfterSuccess, AfterConflict, AfterException, Careless, RequestPc, Purging
  <1>3. OthersWait(c) /\ RequestKnows(c)' /\ rq'[c].pc # "create"
    BY <1>1, <1>2, StepsToCareless DEF Apply
  <1>4. CASE ApplyToRow(c) /\ (left' = left \/ Spend("interrupt"))
    <2>1. /\ RqDoc(c) \in Document /\ Visible(RqDoc(c)) /\ Target(rq[c].op) \in Status
          /\ Target(rq[c].op) \in AllowedTransitions[meta[RqDoc(c)].status]
      BY <1>1, <1>4, AppliesLegally DEF ApplyToRow
    <2> DEFINE row == [meta[RqDoc(c)] EXCEPT !.status = Target(rq[c].op), !.worker = None]
    <2>2. row \in Row /\ meta' = [meta EXCEPT ![RqDoc(c)] = row]
      BY <1>4, <2>1, TransitionWrites DEF ApplyToRow
    <2>3. row.status = Target(rq[c].op) /\ row.worker = None
      BY <2>1, TypesOf DEF Row
    <2> HIDE DEF row
    <2>4. left' = left \/ \E k \in Disturbance : Spend(k)
      BY <1>4 DEF Disturbance
    <2> QED BY <1>1, <1>3, <2>1, <2>2, <2>3, <2>4, RequestWrites
  <1>5. CASE UNCHANGED meta /\ (left' = left \/ Spend("interrupt"))
    <2>1. left' = left \/ \E k \in Disturbance : Spend(k)
      BY <1>5 DEF Disturbance
    <2> QED BY <1>1, <1>3, <1>5, <2>1, OnlyTheRest, TypesOf DEF files
  <1> QED BY <1>4, <1>5 DEF Apply

LEMMA RemoveMoves ==
    ASSUME PipelineInv, NEW c \in Client, Remove(c) \/ Removing(c)
    PROVE  RequestMoves(c)
  <1>1. rq[c].pc \in {"remove1", "remove2", "removing1", "removing2"} /\ UNCHANGED storeVars
    BY DEF Remove, Removing
  <1>2. RqDoc(c) \in Document
    BY <1>1 DEF PipelineInv, RequestKnows, RqDoc
  <1>3. QueueKept
    BY <1>2, LookupIsKept, RemoveIsKept, QueueStands DEF Remove, Removing
  <1>4. AfterRemove(c) \in Careless /\ "removing1" \in Careless /\ "removing2" \in Careless
    BY DEF AfterRemove, Careless, RequestPc, Purging
  <1>5. OthersWait(c) /\ RequestKnows(c)' /\ rq'[c].pc # "create"
    BY <1>1, <1>4, StepsToCareless DEF Remove, Removing
  <1> QED BY <1>1, <1>3, <1>5, OnlyTheRest, TypesOf DEF storeVars

LEMMA UploadFailedMoves ==
    ASSUME PipelineInv, NEW c \in Client, UploadFailed(c)
    PROVE  RequestMoves(c)
  <1>1. rq[c].pc = "uploadFailed" /\ UNCHANGED <<queueVars, files, left>> /\ QueueKept
    BY QueueStands DEF UploadFailed
  <1>2. RqDoc(c) \in Document
    BY <1>1 DEF PipelineInv, RequestKnows, RqDoc
  <1>3. OthersWait(c) /\ RequestKnows(c)' /\ rq'[c].pc # "create"
    BY EndsRequest DEF UploadFailed, IdleRequest
  <1>4. CASE meta[RqDoc(c)].status = "UPLOADED"
    <2> DEFINE row == [meta[RqDoc(c)] EXCEPT !.status = "FAILED"]
    <2>1. meta' = [meta EXCEPT ![RqDoc(c)] = row]
      BY <1>2, <1>4, TypesOf DEF UploadFailed
    <2>2. row \in Row /\ row.status = "FAILED" /\ row = [meta[RqDoc(c)] EXCEPT !.status = row.status]
      BY <1>2, TypesOf DEF Row, Status, Stored
    <2>3. Visible(RqDoc(c)) /\ "FAILED" \in AllowedTransitions[meta[RqDoc(c)].status]
      BY <1>4 DEF Visible, Stored, AllowedTransitions
    <2> HIDE DEF row
    <2> QED BY <1>1, <1>2, <1>3, <2>1, <2>2, <2>3, RequestWrites
  <1>5. CASE UNCHANGED meta
    BY <1>1, <1>3, <1>5, OnlyTheRest, TypesOf DEF files
  <1> QED BY <1>4, <1>5 DEF UploadFailed

\* The row goes last.
LEMMA PurgeRowMoves ==
    ASSUME PipelineInv, NEW c \in Client, PurgeRow(c)
    PROVE  RequestMoves(c)
  <1>1. rq[c].pc = "purgeRow" /\ UNCHANGED <<queueVars, files, left>> /\ QueueKept
    BY QueueStands DEF PurgeRow
  <1>2. RqDoc(c) \in Document
    BY <1>1 DEF PipelineInv, RequestKnows, RqDoc
  <1>3. OthersWait(c) /\ RequestKnows(c)' /\ rq'[c].pc # "create"
    BY EndsRequest DEF PurgeRow, IdleRequest
  <1>4. CASE meta[RqDoc(c)].status = "DELETED" /\ meta' = [meta EXCEPT ![RqDoc(c)] = NewRow("PURGED")]
    <2>1. NewRow("PURGED") \in Row /\ NewRow("PURGED").status = "PURGED" /\ NewRow("PURGED").worker = None
      BY DEF NewRow, Row, Status, Stored
    <2> QED BY <1>1, <1>2, <1>3, <1>4, <2>1, RequestWrites
  <1>5. CASE UNCHANGED meta
    BY <1>1, <1>3, <1>5, OnlyTheRest, TypesOf DEF files
  <1> QED BY <1>4, <1>5 DEF PurgeRow

LEMMA InterruptMoves ==
    ASSUME PipelineInv, NEW c \in Client, Interrupt(c)
    PROVE  RequestMoves(c)
  <1>1. Spend("interrupt") /\ UNCHANGED <<index, job, meta, files>> /\ removing' = [removing EXCEPT ![c] = None]
    BY DEF Interrupt
  <1>2. OthersWait(c) /\ RequestKnows(c)' /\ rq'[c].pc # "create"
    BY EndsRequest DEF Interrupt, IdleRequest
  <1>3. QueueKept
    BY <1>1, RemovingKept, TypesOf
  <1>4. \E k \in Disturbance : Spend(k)
    BY <1>1 DEF Disturbance
  <1> QED BY <1>1, <1>2, <1>3, <1>4, OnlyTheRest, TypesOf DEF files

LEMMA DeleteFileMoves ==
    ASSUME PipelineInv, NEW c \in Client, DeleteFile(c)
    PROVE  RequestMoves(c)
  <1>1. /\ rq[c].pc \in {"purgeOriginal", "purgeText", "purgeChunks", "dropText", "dropChunks"}
        /\ UNCHANGED <<queueVars, meta, left>> /\ QueueKept
    BY QueueStands DEF DeleteFile
  <1>2. /\ RqDoc(c) \in Document /\ rq[c].op \in AllOperations
        /\ rq[c].pc \in Purging => meta[RqDoc(c)].status \in {"DELETED", "PURGED"}
    BY <1>1 DEF PipelineInv, RequestKnows, RqDoc
  <1>3. ASSUME NEW p \in Purging, Step(c, p), rq[c].pc \in Purging
        PROVE  OthersWait(c) /\ RequestKnows(c)' /\ rq'[c].pc # "create"
    <2>1. p \in RequestPc
      BY DEF Purging, RequestPc
    <2>2. OthersWait(c) /\ rq'[c].pc = p /\ rq'[c].op = rq[c].op /\ rq'[c].document = RqDoc(c)
      BY <1>3, <2>1, StepsTo DEF RqDoc
    <2> QED BY <1>1, <1>2, <1>3, <2>2 DEF RequestKnows, Purging
  <1>4. ASSUME NEW p \in {"dropChunks", "idle"}, Step(c, p) \/ Continue(c, p)
        PROVE  OthersWait(c) /\ RequestKnows(c)' /\ rq'[c].pc # "create"
    <2>1. p \in Careless
      BY DEF Careless, RequestPc, Purging
    <2> QED BY <1>1, <1>4, <2>1, StepsToCareless
  <1>5. CASE rq[c].pc = "purgeOriginal"
    <2>1. /\ original' = [original EXCEPT ![RqDoc(c)] = FALSE] /\ Step(c, "purgeText")
          /\ UNCHANGED <<text, chunks>>
      BY <1>5 DEF DeleteFile
    <2>2. OthersWait(c) /\ RequestKnows(c)' /\ rq'[c].pc # "create"
      BY <1>3, <1>5, <2>1 DEF Purging
    <2>3. original' \in [Document -> BOOLEAN] /\ \A d \in Document \ {RqDoc(c)} : original'[d] = original[d]
      BY <2>1, TypesOf
    <2>4. meta[RqDoc(c)].status \in {"DELETED", "PURGED"}
      BY <1>2, <1>5 DEF Purging
    <2>5. RowHasOriginal'
      BY <1>1, <2>3, <2>4 DEF PipelineInv, RowHasOriginal, AllHeard, Visible, Stored
    <2>6. FenceStays /\ LegalStep
      BY <1>1, FenceStands DEF LegalStep
    <2>7. StoreTypeOK' /\ \A k \in Disturbance : left'[k] <= Allowance[k]
      BY <1>1, <2>1, <2>3, TypesOf DEF StoreTypeOK, PipelineInv
    <2>8. \A d \in Document :
              /\ meta[d].status = "ABSENT" /\ original[d] => meta'[d].status = "ABSENT" /\ original'[d]
              /\ meta[d].status \in {"DELETED", "PURGED"} => meta'[d].status \in {"DELETED", "PURGED"}
      BY <1>1, <2>3, <2>4
    <2> QED BY <1>1, <2>2, <2>5, <2>6, <2>7, <2>8 DEF RequestMoves
  <1>6. CASE rq[c].pc \in {"purgeText", "dropText"}
    <2>1. /\ text' = [text EXCEPT ![RqDoc(c)] = FALSE] /\ UNCHANGED <<original, chunks>>
          /\ Step(c, IF rq[c].pc = "dropText" THEN "dropChunks" ELSE "purgeChunks")
      BY <1>6 DEF DeleteFile
    <2>2. OthersWait(c) /\ RequestKnows(c)' /\ rq'[c].pc # "create"
      BY <1>3, <1>4, <1>6, <2>1 DEF Purging
    <2> QED BY <1>1, <2>1, <2>2, OnlyTheRest, TypesOf
  <1>7. CASE rq[c].pc \in {"purgeChunks", "dropChunks"}
    <2>1. /\ chunks' = [chunks EXCEPT ![RqDoc(c)] = FALSE] /\ UNCHANGED <<original, text>>
          /\ Continue(c, IF rq[c].pc = "dropChunks" THEN "idle" ELSE "purgeRow")
      BY <1>7 DEF DeleteFile
    <2>2. OthersWait(c) /\ RequestKnows(c)' /\ rq'[c].pc # "create"
      <3>1. CASE rq[c].pc = "dropChunks"
        BY <1>4, <2>1, <3>1
      <3>2. CASE rq[c].pc = "purgeChunks"
        BY <1>3, <2>1, <3>2 DEF Purging, Continue
      <3> QED BY <1>7, <3>1, <3>2
    <2> QED BY <1>1, <2>1, <2>2, OnlyTheRest, TypesOf
  <1> QED BY <1>1, <1>5, <1>6, <1>7

\* Every step of a request.
LEMMA RequestKeeps ==
    ASSUME PipelineInv, NEW c \in Client, RequestStep(c) \/ Interrupt(c)
    PROVE  RequestMoves(c)
  <1>1. CASE \E op \in Operations, d \in Document : Start(c, op, d)
    BY <1>1, StartMoves
  <1>2. CASE Remove(c) \/ Removing(c)
    BY <1>2, RemoveMoves
  <1> QED BY <1>1, <1>2, CreateMoves, FindMoves, EnqueueMoves, ApplyMoves, UploadFailedMoves,
             DeleteFileMoves, PurgeRowMoves, InterruptMoves DEF RequestStep

-----------------------------------------------------------------------------
LEMMA PipelineStep == PipelineInv /\ [Next]_vars => PipelineInv' /\ LegalStep
  <1> SUFFICES ASSUME PipelineInv, [Next]_vars PROVE PipelineInv' /\ LegalStep
    OBVIOUS
  <1>1. ASSUME NEW w \in Worker, WorkerNext(w) \/ ((Heartbeat(w) \/ WorkerCrash(w)) /\ UNCHANGED rq)
        PROVE  PipelineInv' /\ LegalStep
    BY <1>1, WorkerKeeps DEF WorkerNext
  <1>2. ASSUME NEW c \in Client, RequestNext(c) \/ (Interrupt(c) /\ UNCHANGED wk)
        PROVE  PipelineInv' /\ LegalStep
    BY <1>2, RequestKeeps, KeepsAfterRequest DEF RequestNext
  <1>3. ASSUME NEW j \in JobId, TimeNext(j) PROVE PipelineInv' /\ LegalStep
    BY <1>3, TimeKeeps DEF TimeNext
  <1>4. CASE UNCHANGED vars
    <2>1. TypeOK'
      BY <1>4 DEF PipelineInv, TypeOK, StoreTypeOK, vars, queueVars, storeVars
    <2>2. JobsAreKnown' /\ OvertakenIsFenced'
      BY <1>4 DEF PipelineInv, vars, queueVars, storeVars, JobsAreKnown, Live, OvertakenIsFenced, PastFence, HoldsFence, Fenced, Doc
    <2>3. (\A c \in Client : RequestKnows(c)') /\ OneUpload' /\ RowHasOriginal' /\ LegalStep
      BY <1>4 DEF PipelineInv, vars, queueVars, storeVars, RequestKnows, OneUpload, RowHasOriginal, AllHeard, Visible, LegalStep
    <2> QED BY <1>4, <2>1, <2>2, <2>3 DEF PipelineInv, vars, storeVars
  <1> QED BY <1>1, <1>2, <1>3, <1>4 DEF Next

\* Whatever workers, requests, crashes and time do, whoever is between two
\* awaits (runOnce, the requests of document-services.ts) still knows what its
\* next write relies on.
THEOREM PipelineInvariance == Spec => []PipelineInv
  <1>1. Init => PipelineInv
    BY PipelineInit
  <1>2. PipelineInv /\ [Next]_vars => PipelineInv'
    BY PipelineStep
  <1> QED BY <1>1, <1>2, PTL DEF Spec

\* Rows, files, jobs, workers and requests keep the shapes of
\* document-repositories.ts and document-processing-queue.ts.
THEOREM PipelineIsTyped == Spec => []TypeOK
  <1>1. PipelineInv => TypeOK
    BY DEF PipelineInv
  <1> QED BY <1>1, PipelineInvariance, PTL

\* document-services.ts, upload/route.ts: a visible row has its original file,
\* wherever an upload fails or is cut off and whatever a cleanup deletes, as long
\* as no insert is committed without its answer being heard.
THEOREM OriginalsStay == Spec => []RowHasOriginal
  <1>1. PipelineInv => RowHasOriginal
    BY DEF PipelineInv
  <1> QED BY <1>1, PipelineInvariance, PTL

\* document-processing-state.ts: every change of a visible row's status is one
\* of ALLOWED_TRANSITIONS, although each update compares only with the statuses
\* it expects; a deleted document does not come back.
THEOREM StatusesFollowTheTable == Spec => LegalTransitions
  <1>1. PipelineInv /\ [Next]_vars =>
          [\A d \in Document :
             Visible(d) /\ meta'[d].status # meta[d].status
               => meta'[d].status \in AllowedTransitions[meta[d].status]]_vars
    BY PipelineStep DEF LegalStep
  <1> QED BY <1>1, PipelineInvariance, PTL DEF Spec, LegalTransitions

\* document-processing-worker.ts: between assertOwned and the completing update
\* the lease may be lost and the job claimed again, and the update may still
\* succeed, but not once the later claim has begun to process the document.
THEOREM NeverStale == Spec => NoStaleCompletion
  <1>1. ASSUME PipelineInv, Next, NEW w \in Worker, wk[w].pc = "complete", wk'[w].pc # "complete", meta' # meta
        PROVE  \A v \in Worker :
                   wk[v].job = wk[w].job /\ wk[v].token > wk[w].token => wk[v].pc \in BeforeFence \cup {"ack"}
    <2>1. HoldsFence(w)
      <3>1. wk'[w] # wk[w]
        BY <1>1
      <3>2. ASSUME NEW x \in Worker, WorkerNext(x) \/ ((Heartbeat(x) \/ WorkerCrash(x)) /\ UNCHANGED rq)
            PROVE  HoldsFence(w)
        <4>1. CASE \E j \in JobId : ClaimJob(x, j)
          <5>1. meta' = meta
            BY <1>1, <4>1, ClaimHands DEF storeVars
          <5> QED BY <1>1, <5>1
        <4>2. CASE WorkMoves(x)
          <5>1. x = w
            BY <3>1, <4>2 DEF WorkMoves, WorkerMoves, OthersStay
          <5> QED BY <1>1, <4>2, <5>1 DEF WorkMoves, WorkerMoves
        <4> QED BY <1>1, <3>2, <4>1, <4>2, WorkMovesOn, LeaveMoves DEF WorkerNext, WorkerStep, WorksOn
      <3>3. ASSUME NEW c \in Client, RequestNext(c) \/ (Interrupt(c) /\ UNCHANGED wk) PROVE HoldsFence(w)
        BY <3>1, <3>3 DEF RequestNext
      <3>4. ASSUME NEW j \in JobId, TimeNext(j) PROVE HoldsFence(w)
        BY <3>1, <3>4 DEF TimeNext, LeaseLapses, RetryDue
      <3> QED BY <1>1, <3>2, <3>3, <3>4 DEF Next
    <2> QED BY <1>1, <2>1 DEF PipelineInv, OvertakenIsFenced, PastFence
  <1>2. PipelineInv /\ [Next]_vars =>
          [\A w \in Worker :
             wk[w].pc = "complete" /\ wk'[w].pc # "complete" /\ meta' # meta
               => \A v \in Worker :
                     wk[v].job = wk[w].job /\ wk[v].token > wk[w].token
                       => wk[v].pc \in BeforeFence \cup {"ack"}]_vars
    BY <1>1
  <1> QED BY <1>2, PipelineInvariance, PTL DEF Spec, NoStaleCompletion

-----------------------------------------------------------------------------
(* The files of purged documents, when no process dies and no storage call *)
(* fails.                                                                   *)

\* Whoever may still write a removed document's text, or chunks, will delete them.
TextGoes(d) == text[d] => \E w \in Worker : wk[w].document = d /\ wk[w].pc \in TextPc
ChunksGo(d) == chunks[d] => \E w \in Worker : wk[w].document = d /\ wk[w].pc \in ChunksPc

Removed == {"DELETED", "PURGED"}

\* A cleanup has done, file by file, what it has passed.
PurgeInv ==
    /\ \A d \in Document : meta[d].status = "PURGED" => ~ original[d] /\ TextGoes(d) /\ ChunksGo(d)
    /\ \A c \in Client :
          /\ rq[c].pc \in {"purgeText", "purgeChunks", "purgeRow"} => ~ original[RqDoc(c)]
          /\ rq[c].pc \in {"purgeChunks", "purgeRow"} => TextGoes(RqDoc(c))
          /\ rq[c].pc = "purgeRow" => ChunksGo(RqDoc(c))

\* No worker crashes and no storage call fails.
Calm == Allowance["crash"] = 0 /\ Allowance["fault"] = 0

LEMMA PurgeInit == Init => PurgeInv
  <1> SUFFICES ASSUME Init PROVE PurgeInv
    OBVIOUS
  <1>1. \A d \in Document : meta[d].status \in {"QUEUED", "ABSENT"}
    <2>1. PICK accepted \in SUBSET Document : AcceptedAlready(accepted)
      BY DEF Init
    <2> QED BY <2>1 DEF AcceptedAlready, NewRow
  <1>2. \A c \in Client : rq[c].pc = "idle"
    BY DEF Init, IdleRequest
  <1> QED BY <1>1, <1>2 DEF PurgeInv

\* What requests do to the files of removed documents.
PurgeMoves(c) ==
    /\ OthersWait(c)
    /\ \A d \in Document :
          /\ (text'[d] => text[d]) /\ (chunks'[d] => chunks[d])
          /\ meta[d].status \in Removed /\ original'[d] => original[d]
          /\ meta'[d].status = "PURGED" => meta[d].status = "PURGED" \/ (rq[c].pc = "purgeRow" /\ RqDoc(c) = d)
    /\ rq'[c].pc \in {"purgeText", "purgeChunks", "purgeRow"} => rq'[c].document = rq[c].document
    /\ rq'[c].pc = "purgeText" => rq[c].pc = "purgeOriginal" /\ ~ original'[RqDoc(c)]
    /\ rq'[c].pc = "purgeChunks" => rq[c].pc = "purgeText" /\ ~ text'[RqDoc(c)]
    /\ rq'[c].pc = "purgeRow" => rq[c].pc = "purgeChunks" /\ ~ chunks'[RqDoc(c)]

\* The derivatives a worker leaves are its own to delete.
LEMMA WorkerPurges ==
    ASSUME PipelineInv, PurgeInv, Calm, NEW w \in Worker, WorkerStep(w) \/ Heartbeat(w) \/ WorkerCrash(w), rq' = rq
    PROVE  PurgeInv'
  <1>1. /\ left["crash"] = 0 /\ left["fault"] = 0
    <2>1. \A k \in {"crash", "fault"} : left[k] \in Nat /\ left[k] <= Allowance[k]
      BY TypesOf DEF PipelineInv, Disturbance
    <2> QED BY <2>1 DEF Calm
  <1>2. CASE \E j \in JobId : ClaimJob(w, j)
    <2>1. UNCHANGED storeVars /\ OthersStay(w) /\ wk[w] = IdleWorker
      BY <1>2, ClaimHands
    <2>2. wk[w].pc \notin TextPc \cup ChunksPc /\ \A v \in Worker \ {w} : wk'[v] = wk[v]
      BY <2>1 DEF OthersStay, IdleWorker, TextPc, ChunksPc
    <2>3. \A d \in Document : (TextGoes(d) => TextGoes(d)') /\ (ChunksGo(d) => ChunksGo(d)')
      BY <2>1, <2>2 DEF TextGoes, ChunksGo, storeVars
    <2>4. \A c \in Client : rq[c].pc \in {"purgeText", "purgeChunks", "purgeRow"} => RqDoc(c) \in Document
      BY DEF PipelineInv, RequestKnows, RqDoc
    <2> QED BY <2>1, <2>3, <2>4 DEF PurgeInv, storeVars, RqDoc
  <1>3. CASE WorkMoves(w) /\ left' = left
    <2>1. /\ original' = original /\ \A v \in Worker \ {w} : wk'[v] = wk[v]
          /\ wk'[w].pc \in TextPc \cup ChunksPc => wk'[w].document = Doc(w)
      BY <1>3 DEF WorkMoves, RowsMove, WorkerMoves, OthersStay, IdleWorker, SameHand, TextPc, ChunksPc, Doc
    <2>2. \A d \in Document : meta'[d].status = "PURGED" => meta[d].status = "PURGED"
      BY <1>3 DEF WorkMoves, RowsMove, InHand, AllowedTransitions
    <2>3. ASSUME NEW d \in Document, meta[d].status \in Removed
          PROVE  (TextGoes(d) => TextGoes(d)') /\ (ChunksGo(d) => ChunksGo(d)')
      <3>1. CASE d = Doc(w)
        <4>1. /\ text'[d] => wk'[w].pc \in TextPc \/ (text[d] /\ wk[w].pc \notin TextPc)
              /\ chunks'[d] => wk'[w].pc \in ChunksPc \/ (chunks[d] /\ wk[w].pc \notin ChunksPc)
          BY <1>3, <2>3, <3>1 DEF WorkMoves, FilesMove, Removed
        <4> QED BY <2>1, <3>1, <4>1 DEF TextGoes, ChunksGo, Doc
      <3>2. CASE d # Doc(w)
        BY <1>3, <2>1, <3>2 DEF WorkMoves, FilesMove, TextGoes, ChunksGo, Doc
      <3> QED BY <3>1, <3>2
    <2>4. \A c \in Client : rq[c].pc \in {"purgeText", "purgeChunks", "purgeRow"} =>
              RqDoc(c) \in Document /\ meta[RqDoc(c)].status \in Removed
      BY DEF PipelineInv, RequestKnows, RqDoc, Purging, Removed
    <2> QED BY <2>1, <2>2, <2>3, <2>4 DEF PurgeInv, RqDoc, Removed
  <1>4. CASE WorksOn(w)
    <2>1. left' = left
      BY <1>1, <1>4 DEF WorksOn, LookUp, Accept, Begin, Extract, SaveText, SaveChunks, AssertOwned, Complete,
            DeleteText, DeleteChunks, Settle, Heartbeat, WorkerCrash, storeVars, Spend
    <2> QED BY <1>3, <1>4, <2>1, WorkMovesOn
  <1>5. CASE ReleaseJob(w) \/ AcknowledgeJob(w)
    <2>1. left' = left
      BY <1>5 DEF ReleaseJob, AcknowledgeJob, storeVars
    <2> QED BY <1>3, <1>5, <2>1, LeaveMoves
  <1> QED BY <1>2, <1>4, <1>5 DEF WorkerStep, WorksOn

LEMMA RequestPurges ==
    ASSUME PipelineInv, PurgeInv, NEW c \in Client, PurgeMoves(c), wk' = wk
    PROVE  PurgeInv'
  <1>1. \A d \in Document : (TextGoes(d) => TextGoes(d)') /\ (ChunksGo(d) => ChunksGo(d)')
    BY DEF TextGoes, ChunksGo, PurgeMoves
  <1>2. \A e \in Client : rq[e].pc \in Purging => RqDoc(e) \in Document /\ meta[RqDoc(e)].status \in Removed
    BY DEF PipelineInv, RequestKnows, RqDoc, Purging, Removed
  <1>3. ASSUME NEW d \in Document, meta'[d].status = "PURGED"
        PROVE  ~ original'[d] /\ TextGoes(d)' /\ ChunksGo(d)'
    <2>1. ~ original[d] /\ TextGoes(d) /\ ChunksGo(d) /\ meta[d].status \in Removed
      BY <1>2, <1>3 DEF PurgeMoves, PurgeInv, Removed, Purging
    <2> QED BY <1>1, <2>1 DEF PurgeMoves
  <1>4. ASSUME NEW e \in Client, e # c
        PROVE  /\ rq'[e].pc \in {"purgeText", "purgeChunks", "purgeRow"} => ~ original'[rq'[e].document]
               /\ rq'[e].pc \in {"purgeChunks", "purgeRow"} => TextGoes(rq[e].document)'
               /\ rq'[e].pc = "purgeRow" => ChunksGo(rq[e].document)'
    <2>1. rq'[e] = rq[e]
      BY <1>4 DEF PurgeMoves, OthersWait
    <2>2. PICK d : d = rq[e].document
      OBVIOUS
    <2>3. rq[e].pc \in Purging => d \in Document /\ meta[d].status \in Removed
      BY <1>2, <2>2 DEF RqDoc
    <2> QED BY <1>1, <2>1, <2>2, <2>3 DEF PurgeInv, PurgeMoves, Purging, RqDoc, TextGoes, ChunksGo
  <1>5. /\ rq'[c].pc \in {"purgeText", "purgeChunks", "purgeRow"} => ~ original'[rq'[c].document]
        /\ rq'[c].pc \in {"purgeChunks", "purgeRow"} => TextGoes(rq[c].document)'
        /\ rq'[c].pc = "purgeRow" => ChunksGo(rq[c].document)'
    <2>2. PICK d : d = rq[c].document
      OBVIOUS
    <2>3. rq[c].pc \in Purging => d \in Document /\ meta[d].status \in Removed
      BY <1>2, <2>2 DEF RqDoc
    <2> QED BY <1>1, <2>2, <2>3 DEF PurgeInv, PurgeMoves, Purging, RqDoc, TextGoes, ChunksGo
  <1>6. \A e \in Client :
               /\ rq'[e].pc \in {"purgeText", "purgeChunks", "purgeRow"} => ~ original'[rq'[e].document]
               /\ rq'[e].pc \in {"purgeChunks", "purgeRow"} => TextGoes(rq[e].document)'
               /\ rq'[e].pc = "purgeRow" => ChunksGo(rq[e].document)'
    BY <1>4, <1>5
  <1> QED BY <1>3, <1>6 DEF PurgeInv, RqDoc, TextGoes, ChunksGo

\* A request is careful with removed documents in every step.
LEMMA RequestPurgesSlowly ==
    ASSUME PipelineInv, NEW c \in Client, RequestStep(c) \/ Interrupt(c)
    PROVE  PurgeMoves(c)
  <1> DEFINE Far == rq'[c].pc \notin {"purgeText", "purgeChunks", "purgeRow"}
             Kept == /\ (\A d \in Document : text'[d] => text[d]) /\ (\A d \in Document : chunks'[d] => chunks[d])
                     /\ \A d \in Document : meta[d].status \in Removed /\ original'[d] => original[d]
             Stayed == \A d \in Document : meta'[d].status = "PURGED" => meta[d].status = "PURGED"
  <1>1. OthersWait(c) /\ rq \in [Client -> RequestState]
    BY RequestKeeps, TypesOf DEF RequestMoves
  <1>2. ASSUME Far, Kept, Stayed PROVE PurgeMoves(c)
    BY <1>1, <1>2 DEF PurgeMoves
  <1>3. ASSUME NEW p \in RequestPc \ {"purgeText", "purgeChunks", "purgeRow"}, Step(c, p) \/ Continue(c, p) \/ Done(c)
        PROVE  Far
    <2>1. CASE Step(c, p)
      <3>1. rq'[c].pc = p
        BY <2>1, StepsTo
      <3> QED BY <3>1
    <2>2. CASE Done(c)
      <3>1. rq'[c].pc = "idle"
        BY <2>2, EndsRequest DEF IdleRequest
      <3> QED BY <3>1
    <2> QED BY <1>3, <2>1, <2>2 DEF Continue
  <1>4. ASSUME NEW op \in Operations, NEW d \in Document, Start(c, op, d) PROVE PurgeMoves(c)
    <2>1. Far
      <3>1. rq'[c].pc = IF op = "upload" THEN "create" ELSE "find"
        BY <1>1, <1>4 DEF Start, IdleRequest
      <3> QED BY <3>1
    <2>2. Kept /\ Stayed
      BY <1>4, TypesOf DEF Start, Removed
    <2> QED BY <1>2, <2>1, <2>2
  <1>5. CASE Create(c)
    <2>1. Far
      BY <1>3, <1>5 DEF Create, RequestPc
    <2>2. Kept
      BY <1>5, TypesOf DEF Create
    <2>3. Stayed
      <3>1. RqDoc(c) \in Document /\ meta \in [Document -> Row] /\ NewRow("UPLOADED").status = "UPLOADED"
        BY <1>5, TypesOf DEF Create, PipelineInv, RequestKnows, RqDoc, NewRow
      <3> QED BY <1>5, <3>1 DEF Create, InsertRow
    <2> QED BY <1>2, <2>1, <2>2, <2>3
  <1>6. CASE Find(c)
    <2>1. Far
      <3> DEFINE p == IF rq[c].op = "resolve" THEN IF text[RqDoc(c)] /\ chunks[RqDoc(c)] THEN "apply" ELSE "idle"
                      ELSE AfterFind(rq[c].op, meta[RqDoc(c)].status)
      <3>1. RqDoc(c) \in Document /\ rq[c].op \in AllOperations /\ meta[RqDoc(c)].status \in Status
        BY <1>6, TypesOf DEF Find, PipelineInv, RequestKnows, RqDoc, Row
      <3>2. p \in RequestPc \ {"purgeText", "purgeChunks", "purgeRow"}
        <4>1. CASE rq[c].op = "resolve"
          BY <4>1 DEF RequestPc
        <4>2. CASE rq[c].op # "resolve"
          BY <3>1, <4>2, AfterFindKnows DEF RequestPc
        <4> QED BY <4>1, <4>2
      <3>3. IF p = "idle" THEN Done(c) ELSE rq' = [rq EXCEPT ![c].pc = p, ![c].seen = meta[RqDoc(c)].status]
        BY <1>6 DEF Find
      <3> HIDE DEF p
      <3>4. CASE p # "idle"
        <4>1. rq'[c].pc = p
          BY <1>1, <3>3, <3>4 DEF RequestState
        <4> QED BY <3>2, <4>1
      <3>5. CASE p = "idle"
        BY <1>3, <3>2, <3>3, <3>5
      <3> QED BY <3>4, <3>5
    <2>2. Kept /\ Stayed
      BY <1>6 DEF Find, storeVars
    <2> QED BY <1>2, <2>1, <2>2
  <1>7. CASE Enqueue(c)
    <2>1. Far
      <3>1. CASE rq' = [rq EXCEPT ![c].pc = "apply", ![c].enqueued = TRUE]
        <4>1. rq'[c].pc = "apply"
          BY <1>1, <3>1 DEF RequestState
        <4> QED BY <4>1
      <3>2. "apply" \in RequestPc /\ "uploadFailed" \in RequestPc /\ "idle" \in RequestPc
        BY DEF RequestPc
      <3> QED BY <1>3, <1>7, <3>1, <3>2 DEF Enqueue, Done
    <2>2. Kept /\ Stayed
      BY <1>7 DEF Enqueue, files
    <2> QED BY <1>2, <2>1, <2>2
  <1>8. CASE Apply(c)
    <2>1. Far
      <3>1. {AfterSuccess(rq[c].op), AfterConflict(c), AfterException(c)} \subseteq
               RequestPc \ {"purgeText", "purgeChunks", "purgeRow"}
        BY DEF AfterSuccess, AfterConflict, AfterException, RequestPc
      <3> QED BY <1>3, <1>8, <3>1 DEF Apply
    <2>2. Kept
      BY <1>8 DEF Apply, files
    <2>3. Stayed
      <3>1. CASE ApplyToRow(c)
        <4>1. RqDoc(c) \in Document /\ meta \in [Document -> Row] /\ Target(rq[c].op) # "PURGED"
          BY <1>8, <3>1, AppliesLegally, TypesOf DEF Apply, ApplyToRow, Target
        <4>2. \A d \in Document : meta'[d].status \in {meta[d].status, Target(rq[c].op)}
          BY <3>1, <4>1 DEF ApplyToRow, Transition, Row
        <4> QED BY <4>1, <4>2
      <3> QED BY <1>8, <3>1 DEF Apply
    <2> QED BY <1>2, <2>1, <2>2, <2>3
  <1>9. CASE Remove(c) \/ Removing(c)
    <2>1. Far
      <3>1. {AfterRemove(c), "removing1", "removing2"} \subseteq RequestPc \ {"purgeText", "purgeChunks", "purgeRow"}
        BY DEF AfterRemove, RequestPc
      <3> QED BY <1>3, <1>9, <3>1 DEF Remove, Removing
    <2>2. Kept /\ Stayed
      BY <1>9 DEF Remove, Removing, storeVars
    <2> QED BY <1>2, <2>1, <2>2
  <1>10. CASE UploadFailed(c)
    <2>1. Far
      <3>1. "idle" \in RequestPc
        BY DEF RequestPc
      <3> QED BY <1>3, <1>10, <3>1 DEF UploadFailed
    <2>2. Kept
      BY <1>10 DEF UploadFailed, files
    <2>3. Stayed
      <3>1. RqDoc(c) \in Document /\ meta \in [Document -> Row]
        BY <1>10, TypesOf DEF UploadFailed, PipelineInv, RequestKnows, RqDoc
      <3>2. \A d \in Document : meta'[d].status \in {meta[d].status, "FAILED"}
        BY <1>10, <3>1 DEF UploadFailed, Row
      <3> QED BY <3>2
    <2> QED BY <1>2, <2>1, <2>2, <2>3
  <1>11. CASE DeleteFile(c)
    <2>1. RqDoc(c) \in Document /\ (rq[c].pc \in Purging => meta[RqDoc(c)].status \in Removed)
      BY <1>11 DEF DeleteFile, PipelineInv, RequestKnows, RqDoc, Removed
    <2>2. Kept /\ Stayed
      BY <1>11, <2>1, TypesOf DEF DeleteFile
    <2>3. {"purgeText", "purgeChunks", "purgeRow", "dropChunks", "idle"} \subseteq RequestPc
      BY DEF RequestPc
    <2>4. CASE rq[c].pc \in {"dropText", "dropChunks"}
      <3>1. Far
        BY <1>3, <1>11, <2>3, <2>4 DEF DeleteFile
      <3> QED BY <1>2, <2>2, <3>1
    <2>5. CASE rq[c].pc = "purgeOriginal"
      <3>1. Step(c, "purgeText") /\ ~ original'[RqDoc(c)]
        BY <1>11, <2>1, <2>5, TypesOf DEF DeleteFile
      <3>2. rq'[c].pc = "purgeText" /\ rq'[c].document = rq[c].document
        BY <2>3, <3>1, StepsTo
      <3> QED BY <1>1, <2>2, <2>5, <3>1, <3>2 DEF PurgeMoves
    <2>6. CASE rq[c].pc = "purgeText"
      <3>1. Step(c, "purgeChunks") /\ ~ text'[RqDoc(c)]
        BY <1>11, <2>1, <2>6, TypesOf DEF DeleteFile
      <3>2. rq'[c].pc = "purgeChunks" /\ rq'[c].document = rq[c].document
        BY <2>3, <3>1, StepsTo
      <3> QED BY <1>1, <2>2, <2>6, <3>1, <3>2 DEF PurgeMoves
    <2>7. CASE rq[c].pc = "purgeChunks"
      <3>1. Step(c, "purgeRow") /\ ~ chunks'[RqDoc(c)]
        BY <1>11, <2>1, <2>7, TypesOf DEF DeleteFile, Continue
      <3>2. rq'[c].pc = "purgeRow" /\ rq'[c].document = rq[c].document
        BY <2>3, <3>1, StepsTo
      <3> QED BY <1>1, <2>2, <2>7, <3>1, <3>2 DEF PurgeMoves
    <2> QED BY <1>11, <2>4, <2>5, <2>6, <2>7 DEF DeleteFile
  <1>12. CASE PurgeRow(c)
    <2>1. Far
      <3>1. "idle" \in RequestPc
        BY DEF RequestPc
      <3> QED BY <1>3, <1>12, <3>1 DEF PurgeRow
    <2>2. Kept
      BY <1>12 DEF PurgeRow, files
    <2>3. \A d \in Document : d # RqDoc(c) => meta'[d] = meta[d]
      BY <1>12, TypesOf DEF PurgeRow
    <2> QED BY <1>1, <1>12, <2>1, <2>2, <2>3 DEF PurgeMoves, PurgeRow
  <1>13. CASE Interrupt(c)
    <2>1. Far
      <3>1. "idle" \in RequestPc
        BY DEF RequestPc
      <3> QED BY <1>3, <1>13, <3>1 DEF Interrupt
    <2>2. Kept /\ Stayed
      BY <1>13 DEF Interrupt, files
    <2> QED BY <1>2, <2>1, <2>2
  <1> QED BY <1>4, <1>5, <1>6, <1>7, <1>8, <1>9, <1>10, <1>11, <1>12, <1>13 DEF RequestStep

LEMMA PurgeStep == Calm /\ PipelineInv /\ PurgeInv /\ [Next]_vars => PurgeInv'
  <1> SUFFICES ASSUME Calm, PipelineInv, PurgeInv, [Next]_vars PROVE PurgeInv'
    OBVIOUS
  <1>1. ASSUME NEW w \in Worker, WorkerNext(w) \/ ((Heartbeat(w) \/ WorkerCrash(w)) /\ UNCHANGED rq)
        PROVE  PurgeInv'
    BY <1>1, WorkerPurges DEF WorkerNext
  <1>2. ASSUME NEW c \in Client, RequestNext(c) \/ (Interrupt(c) /\ UNCHANGED wk)
        PROVE  PurgeInv'
    BY <1>2, RequestPurgesSlowly, RequestPurges DEF RequestNext
  <1>3. CASE UNCHANGED <<meta, files, wk, rq>>
    BY <1>3 DEF PurgeInv, TextGoes, ChunksGo, RqDoc, files
  <1>4. ASSUME NEW j \in JobId, TimeNext(j) PROVE PurgeInv'
    BY <1>3, <1>4 DEF TimeNext, LeaseLapses, RetryDue, storeVars, files
  <1> QED BY <1>1, <1>2, <1>3, <1>4 DEF Next, vars, storeVars, files

\* cleanupDeletedDocuments against workers that save and undo derivatives: when
\* no worker crashes and no storage call fails, nothing is left of a purged
\* document; and every visible row has its original, as in OriginalsStay.
THEOREM FilesFollow == ASSUME Calm PROVE Spec => []FilesFollowRows
  <1>1. Init => PurgeInv
    BY PurgeInit
  <1>2. PipelineInv /\ PurgeInv /\ [Next]_vars => PurgeInv'
    BY PurgeStep
  <1>3. PipelineInv /\ PurgeInv => FilesFollowRows
    BY DEF PipelineInv, PurgeInv, FilesFollowRows, PurgedLeavesNothing, Quiet, TextGoes, ChunksGo
  <1> QED BY <1>1, <1>2, <1>3, PipelineInvariance, PTL DEF Spec

-----------------------------------------------------------------------------
(* Recoverable work, when no request enqueues. *)

Unqueued == Operations \subseteq {"resolve", "fail", "delete", "cleanup"}

Waiting == {"QUEUED", "PROCESSING"}
RemovingPc == {"remove1", "removing1", "remove2", "removing2"}

\* The index names live jobs of its documents, and every document that waits
\* has one.
RowsWork ==
    /\ \A d \in Document, j \in JobId : index[d] = j => Live(j) /\ job[j].document = d
    /\ \A d \in Document : meta[d].status # "UPLOADED"
    /\ WorkIsRecoverable

\* A job is about to be acknowledged only if its document does not wait.
HandsWork == \A w \in Worker : wk[w].pc # "accept" /\ (wk[w].pc = "ack" => meta[Doc(w)].status \notin Waiting)

\* Jobs are removed of removed documents only.
RequestWorks(c) ==
    /\ rq[c].pc # "idle" => rq[c].op \in {"resolve", "fail", "delete", "cleanup"}
    /\ rq[c].pc # "create"
    /\ rq[c].pc \in RemovingPc => meta[RqDoc(c)].status \in Removed
    /\ removing[c] # None =>
          /\ rq[c].pc \in {"removing1", "removing2"} /\ removing[c].document = RqDoc(c)
          /\ \A j \in JobId : removing[c].job = j /\ Live(j) => job[j].document = RqDoc(c)

WorkInv == RowsWork /\ HandsWork /\ \A c \in Client : RequestWorks(c)

LEMMA WorkInit == Init => WorkInv
  <1> SUFFICES ASSUME Init PROVE WorkInv
    OBVIOUS
  <1>a. PICK accepted \in SUBSET Document : AcceptedAlready(accepted)
    BY DEF Init
  <1>0. PICK f \in [accepted -> JobId] :
            /\ \A d, e \in accepted : f[d] = f[e] => d = e
            /\ index = [d \in Document |-> IF d \in accepted THEN f[d] ELSE None]
            /\ job = [j \in JobId |->
                        IF \E d \in accepted : f[d] = j
                        THEN [phase |-> "ready", worker |-> None, token |-> 0,
                              document |-> CHOOSE d \in accepted : f[d] = j]
                        ELSE NoJob("absent")]
    BY <1>a DEF AcceptedAlready
  <1>1. \A d \in accepted : f[d] \in JobId /\ Live(f[d]) /\ job[f[d]].document = d
    <2> SUFFICES ASSUME NEW d \in accepted PROVE f[d] \in JobId /\ Live(f[d]) /\ job[f[d]].document = d
      OBVIOUS
    <2>1. (CHOOSE e \in accepted : f[e] = f[d]) = d
      BY <1>0
    <2> QED BY <1>0, <2>1 DEF Live
  <1>2. \A d \in Document : meta[d].status = IF d \in accepted THEN "QUEUED" ELSE "ABSENT"
    BY <1>a DEF AcceptedAlready, NewRow
  <1>3. \A d \in Document, j \in JobId : index[d] = j => d \in accepted /\ j = f[d]
    BY <1>0, NoneIsNoValue
  <1>4. WorkIsRecoverable
    BY <1>1, <1>2 DEF WorkIsRecoverable
  <1>5. RowsWork
    BY <1>1, <1>2, <1>3, <1>4 DEF RowsWork
  <1>6. HandsWork /\ \A c \in Client : RequestWorks(c)
    BY DEF Init, HandsWork, RequestWorks, IdleWorker, IdleRequest, RemovingPc
  <1> QED BY <1>5, <1>6 DEF WorkInv

\* No job appears; one that goes is no longer named, and its document does not
\* wait; no document begins to wait or comes back.
Steady ==
    /\ \A k \in JobId : Live(k)' => Live(k) /\ job'[k].document = job[k].document
    /\ \A d \in Document : index'[d] \in {index[d], None}
    /\ \A d \in Document :
          /\ meta'[d].status \in Waiting => meta[d].status \in Waiting
          /\ meta'[d].status # "UPLOADED"
          /\ meta[d].status \in Removed => meta'[d].status \in Removed
    /\ \A k \in JobId : Live(k) /\ ~ Live(k)' =>
          /\ \A d \in Document : index'[d] # k
          /\ meta'[job[k].document].status \notin Waiting

LEMMA SteadyRows ==
    ASSUME RowsWork, Steady
    PROVE  RowsWork'
  <1>1. ASSUME NEW d \in Document, NEW j \in JobId, index'[d] = j PROVE Live(j)' /\ job'[j].document = d
    <2>1. index[d] = j
      BY <1>1, NoneIsNoValue DEF Steady
    <2>2. Live(j) /\ job[j].document = d
      BY <2>1 DEF RowsWork
    <2> QED BY <1>1, <2>2 DEF Steady
  <1>2. ASSUME NEW d \in Document, meta'[d].status \in Waiting
        PROVE  \E j \in JobId : Live(j)' /\ job'[j].document = d
    <2>1. PICK j \in JobId : Live(j) /\ job[j].document = d
      BY <1>2 DEF Steady, RowsWork, WorkIsRecoverable, Waiting
    <2> QED BY <1>2, <2>1 DEF Steady
  <1>3. WorkIsRecoverable'
    BY <1>2 DEF WorkIsRecoverable, Waiting
  <1> QED BY <1>1, <1>3 DEF RowsWork, Steady

LEMMA SteadyHands ==
    ASSUME PipelineInv, HandsWork, Steady, wk' = wk
    PROVE  HandsWork'
  <1>1. ASSUME NEW w \in Worker, wk[w].pc = "ack" PROVE meta'[wk[w].document].status \notin Waiting
    <2>1. Doc(w) \in Document
      BY <1>1, HandHasDocument
    <2> QED BY <1>1, <2>1 DEF HandsWork, Steady, Doc
  <1> QED BY <1>1 DEF HandsWork, Doc

LEMMA SteadyRequest ==
    ASSUME PipelineInv, NEW c \in Client, RequestWorks(c), Steady, rq'[c] = rq[c], removing'[c] = removing[c]
    PROVE  RequestWorks(c)'
  <1>1. rq[c].pc \in RemovingPc => rq[c].document \in Document
    BY DEF PipelineInv, RequestKnows, RemovingPc
  <1> QED BY <1>1 DEF RequestWorks, Steady, RqDoc

\* Workers.
LEMMA HandMovesSteadily ==
    ASSUME PipelineInv, WorkInv, NEW w \in Worker, WorkMoves(w), Steady, rq' = rq, removing' = removing
    PROVE  WorkInv'
  <1>1. RowsWork' /\ \A c \in Client : RequestWorks(c)'
    BY SteadyRows, SteadyRequest DEF WorkInv
  <1>2. HandsWork'
    <2> SUFFICES ASSUME NEW v \in Worker
                 PROVE  wk'[v].pc # "accept" /\ (wk'[v].pc = "ack" => meta'[wk'[v].document].status \notin Waiting)
      BY DEF HandsWork, Doc
    <2>1. CASE v = w
      <3>1. wk'[w].pc = "ack" => wk'[w].document = Doc(w)
        BY DEF WorkMoves, WorkerMoves, SameHand, IdleWorker, Doc
      <3>2. wk'[w].pc = "accept" => Doc(w) \in Document
        <4>1. wk'[w].pc = "accept" => wk[w].pc # "idle"
          BY DEF WorkMoves, WorkerMoves, SameHand, IdleWorker
        <4> QED BY <4>1, HandHasDocument
      <3> QED BY <2>1, <3>1, <3>2 DEF WorkMoves, AckMoves, WorkInv, HandsWork, RowsWork, Waiting
    <2>2. CASE v # w
      <3>1. wk'[v] = wk[v]
        BY <2>2 DEF WorkMoves, WorkerMoves, OthersStay
      <3>2. wk[v].pc = "ack" => wk[v].document \in Document
        BY HandHasDocument DEF Doc
      <3> QED BY <3>1, <3>2 DEF WorkInv, HandsWork, Steady, Doc
    <2> QED BY <2>1, <2>2
  <1> QED BY <1>1, <1>2 DEF WorkInv

LEMMA RowsMoveSteadily ==
    ASSUME PipelineInv, WorkInv, NEW w \in Worker, RowsMove(w)
    PROVE  \A d \in Document :
              /\ meta'[d].status \in Waiting => meta[d].status \in Waiting
              /\ meta'[d].status # "UPLOADED"
              /\ meta[d].status \in Removed => meta'[d].status \in Removed
  <1> SUFFICES ASSUME NEW d \in Document
               PROVE  /\ meta'[d].status \in Waiting => meta[d].status \in Waiting
                      /\ meta'[d].status # "UPLOADED"
                      /\ meta[d].status \in Removed => meta'[d].status \in Removed
    OBVIOUS
  <1>1. meta[d].status # "UPLOADED"
    BY DEF WorkInv, RowsWork
  <1>2. CASE meta'[d].status # meta[d].status
    <2>1. meta[d].status \in Waiting /\ meta'[d].status \in AllowedTransitions[meta[d].status]
      BY <1>1, <1>2 DEF RowsMove, InHand, Waiting
    <2> QED BY <2>1 DEF AllowedTransitions, Waiting, Removed
  <1> QED BY <1>1, <1>2

\* A step that keeps every live job and the index.
LEMMA JobsStandSteady ==
    ASSUME QueueKept, \A k \in JobId : Live(k)' <=> Live(k), index' = index,
           \A d \in Document :
              /\ meta'[d].status \in Waiting => meta[d].status \in Waiting
              /\ meta'[d].status # "UPLOADED"
              /\ meta[d].status \in Removed => meta'[d].status \in Removed
    PROVE  Steady
  BY DEF QueueKept, Steady

LEMMA WorkerWorks ==
    ASSUME PipelineInv, WorkInv, NEW w \in Worker, WorkerStep(w) \/ Heartbeat(w) \/ WorkerCrash(w), rq' = rq
    PROVE  WorkInv'
  <1>1. CASE \E j \in JobId : ClaimJob(w, j)
    <2>1. PICK j \in JobId : ClaimJob(w, j)
      BY <1>1
    <2>2. /\ QueueKept /\ UNCHANGED <<index, storeVars>> /\ OthersStay(w) /\ wk'[w].pc = "lookup"
          /\ \A k \in JobId : Live(k)' <=> Live(k)
      BY <2>1, ClaimHands
    <2>3. removing' = removing
      BY <2>1 DEF ClaimJob, Claim
    <2>4. Steady
      BY <2>2, JobsStandSteady DEF storeVars, WorkInv, RowsWork
    <2>5. RowsWork' /\ \A c \in Client : RequestWorks(c)'
      BY <2>3, <2>4, SteadyRows, SteadyRequest DEF WorkInv
    <2>6. HandsWork'
      BY <2>2 DEF HandsWork, Doc, OthersStay, WorkInv, storeVars
    <2> QED BY <2>5, <2>6 DEF WorkInv
  <1>2. CASE WorksOn(w)
    <2>1. WorkMoves(w) /\ UNCHANGED queueVars
      BY <1>2, WorkMovesOn
    <2>2. Steady
      <3>1. \A k \in JobId : Live(k)' <=> Live(k)
        BY <2>1 DEF queueVars, Live
      <3> QED BY <2>1, <3>1, QueueStands, RowsMoveSteadily, JobsStandSteady DEF WorkMoves, queueVars
    <2> QED BY <2>1, <2>2, HandMovesSteadily DEF queueVars
  <1>3. CASE ReleaseJob(w) \/ AcknowledgeJob(w)
    <2>1. WorkMoves(w) /\ QueueKept
      BY <1>3, LeaveMoves
    <2>2. /\ wk[w].pc \in {"release", "ack"} /\ wk[w].job \in JobId /\ Doc(w) \in Document
          /\ meta' = meta
      <3>1. wk[w].pc \in {"release", "ack"} /\ meta' = meta
        BY <1>3 DEF ReleaseJob, AcknowledgeJob, storeVars
      <3> QED BY <3>1, HandHasDocument
    <2>3. \A d \in Document :
              /\ meta'[d].status \in Waiting => meta[d].status \in Waiting
              /\ meta'[d].status # "UPLOADED"
              /\ meta[d].status \in Removed => meta'[d].status \in Removed
      BY <2>1, RowsMoveSteadily DEF WorkMoves
    <2>4. CASE Release(w, wk[w].job, wk[w].token, "delayed")
      <3>1. \A k \in JobId : Live(k)' <=> Live(k)
        BY <2>2, <2>4, ReleaseIsKept
      <3>2. index' = index /\ removing' = removing
        BY <2>4 DEF Release
      <3> QED BY <2>1, <2>3, <3>1, <3>2, JobsStandSteady, HandMovesSteadily
    <2>5. CASE UNCHANGED queueVars
      <3>1. \A k \in JobId : Live(k)' <=> Live(k)
        BY <2>5 DEF queueVars, Live
      <3> QED BY <2>1, <2>3, <2>5, <3>1, JobsStandSteady, HandMovesSteadily DEF queueVars
    <2>6. CASE wk[w].pc = "ack" /\ Acknowledge(w, wk[w].job, wk[w].token)
      <3>0. PICK j \in JobId : j = wk[w].job
        BY <2>2
      <3>1. Live(j) /\ ~ Live(j)' /\ \A k \in JobId \ {j} : job'[k] = job[k]
        BY <2>6, <3>0, AcknowledgeIsKept
      <3>2. \A k \in JobId \ {j} : Live(k)' <=> Live(k)
        BY <3>1 DEF Live
      <3>3. job[j].document = Doc(w) /\ meta[Doc(w)].status \notin Waiting
        BY <2>6, <3>0, <3>1 DEF PipelineInv, JobsAreKnown, Doc, WorkInv, HandsWork
      <3>4. /\ index' = [index EXCEPT ![Doc(w)] = None] /\ removing' = removing
            /\ index \in [Document -> JobId \cup {None}] /\ None \notin JobId
        BY <2>6, <3>0, <3>3, TypesOf, NoneIsNoValue DEF Acknowledge
      <3>5. \A d \in Document : index'[d] # j /\ index'[d] \in {index[d], None}
        BY <3>3, <3>4 DEF WorkInv, RowsWork
      <3>6. Steady
        BY <2>2, <2>3, <3>1, <3>2, <3>3, <3>5 DEF Steady
      <3> QED BY <2>1, <3>4, <3>6, HandMovesSteadily
    <2> QED BY <1>3, <2>4, <2>5, <2>6 DEF ReleaseJob, AcknowledgeJob
  <1> QED BY <1>1, <1>2, <1>3 DEF WorkerStep, WorksOn

LEMMA TimeWorks ==
    ASSUME PipelineInv, WorkInv, NEW j \in JobId, LeaseLapses(j) \/ RetryDue(j), rq' = rq
    PROVE  WorkInv'
  <1>1. QueueKept /\ \A k \in JobId : Live(k)' <=> Live(k)
    BY TimeIsKept DEF LeaseLapses, RetryDue
  <1>2. UNCHANGED <<meta, wk, index, removing>>
    BY DEF LeaseLapses, RetryDue, storeVars, TimePasses
  <1>3. Steady
    BY <1>1, <1>2, JobsStandSteady DEF WorkInv, RowsWork
  <1> QED BY <1>2, <1>3, SteadyRows, SteadyHands, SteadyRequest DEF WorkInv

\* Requests.
LEMMA RequestMovesSteadily ==
    ASSUME PipelineInv, WorkInv, NEW c \in Client, Steady, RequestWorks(c)', OthersWait(c), wk' = wk,
           \A e \in Client \ {c} : removing'[e] = removing[e]
    PROVE  WorkInv'
  <1>1. \A e \in Client \ {c} : RequestWorks(e)'
    BY SteadyRequest DEF WorkInv, OthersWait
  <1> QED BY <1>1, SteadyRows, SteadyHands DEF WorkInv

LEMMA DoneWorks ==
    ASSUME PipelineInv, NEW c \in Client, Done(c), removing'[c] = None
    PROVE  RequestWorks(c)'
  <1>1. rq'[c] = IdleRequest
    BY EndsRequest
  <1> QED BY <1>1 DEF RequestWorks, IdleRequest, RemovingPc

\* What a request has before its step.
LEMMA RequestHas ==
    ASSUME PipelineInv, WorkInv, NEW c \in Client
    PROVE  /\ rq[c].pc \notin {"removing1", "removing2"} => removing[c] = None
           /\ rq[c].pc # "idle" => rq[c].op \in {"resolve", "fail", "delete", "cleanup"} /\ RqDoc(c) \in Document
           /\ rq[c].pc \notin {"create", "enqueue", "enqueueOnly"}
  <1>1. RequestWorks(c) /\ RequestKnows(c)
    BY DEF WorkInv, PipelineInv
  <1> QED BY <1>1 DEF RequestWorks, RequestKnows, RqDoc

\* A step that leaves jobs and index alone, and rows as far as they matter here.
LEMMA QueueStandsSteady ==
    ASSUME PipelineInv, WorkInv, UNCHANGED <<index, job>>,
           \A d \in Document :
              /\ meta'[d].status \in Waiting => meta[d].status \in Waiting
              /\ meta'[d].status # "UPLOADED"
              /\ meta[d].status \in Removed => meta'[d].status \in Removed
    PROVE  Steady
  BY DEF Steady, Live

LEMMA RequestWorksOn ==
    ASSUME Unqueued, PipelineInv, WorkInv, NEW c \in Client, RequestStep(c) \/ Interrupt(c), wk' = wk
    PROVE  WorkInv'
  <1>0. OthersWait(c) /\ QueueKept /\ (rq[c].pc \notin {"removing1", "removing2"} => removing[c] = None)
        /\ removing \in [Client -> {None} \cup [document : Document, job : JobId]]
        /\ rq[c].pc \notin {"create", "enqueue", "enqueueOnly"}
    BY RequestKeeps, RequestHas, TypesOf DEF RequestMoves
  <1>1. meta' = meta => \A d \in Document :
              /\ meta'[d].status \in Waiting => meta[d].status \in Waiting
              /\ meta'[d].status # "UPLOADED"
              /\ meta[d].status \in Removed => meta'[d].status \in Removed
    BY DEF WorkInv, RowsWork
  <1>2. ASSUME NEW op \in Operations, NEW d \in Document, Start(c, op, d) PROVE WorkInv'
    <2>1. UNCHANGED <<queueVars, meta>> /\ rq[c].pc = "idle" /\ op \in {"resolve", "fail", "delete", "cleanup"}
      BY <1>2 DEF Start, Unqueued
    <2>2. Steady
      BY <1>1, <2>1, QueueStandsSteady DEF queueVars
    <2>3. rq'[c].pc = "find" /\ rq'[c].op = op
      BY <1>2, <2>1, TypesOf DEF Start, IdleRequest
    <2>4. RequestWorks(c)'
      BY <1>0, <2>1, <2>3 DEF RequestWorks, RemovingPc, queueVars
    <2> QED BY <1>0, <2>1, <2>2, <2>4, RequestMovesSteadily DEF queueVars
  <1>3. CASE Find(c)
    <2>1. UNCHANGED <<queueVars, meta>> /\ rq[c].pc = "find"
      BY <1>3 DEF Find, storeVars
    <2>2. Steady
      BY <1>1, <2>1, QueueStandsSteady DEF queueVars
    <2>3. RequestWorks(c)'
      <3>1. CASE Done(c)
        BY <1>0, <2>1, <3>1, DoneWorks DEF queueVars
      <3>2. CASE ~ Done(c)
        <4> DEFINE p == IF rq[c].op = "resolve" THEN IF text[RqDoc(c)] /\ chunks[RqDoc(c)] THEN "apply" ELSE "idle"
                        ELSE AfterFind(rq[c].op, meta[RqDoc(c)].status)
        <4>1. p \in {"idle", "enqueueOnly", "enqueue", "apply", "purgeOriginal"}
          <5>1. CASE rq[c].op = "resolve"
            BY <5>1
          <5>2. CASE rq[c].op # "resolve"
            <6>1. rq[c].op \in AllOperations /\ meta[RqDoc(c)].status \in Status
              BY <2>1, RequestHas, TypesOf DEF AllOperations, Row
            <6> QED BY <5>2, <6>1, AfterFindKnows
          <5> QED BY <5>1, <5>2
        <4>2. rq' = [rq EXCEPT ![c].pc = p, ![c].seen = meta[RqDoc(c)].status]
          BY <1>3, <3>2 DEF Find
        <4> HIDE DEF p
        <4>3. rq'[c].pc = p /\ rq'[c].op = rq[c].op
          BY <4>2, TypesOf DEF RequestState
        <4> QED BY <1>0, <2>1, <4>1, <4>3, RequestHas DEF RequestWorks, RemovingPc, queueVars
      <3> QED BY <3>1, <3>2
    <2> QED BY <1>0, <2>1, <2>2, <2>3, RequestMovesSteadily DEF queueVars
  <1>4. CASE Apply(c)
    <2>1. UNCHANGED queueVars /\ rq[c].pc = "apply" /\ rq[c].op \in {"resolve", "fail", "delete", "cleanup"}
          /\ RqDoc(c) \in Document
      BY <1>4, RequestHas DEF Apply
    <2>2. CASE ApplyToRow(c) /\ (Continue(c, AfterSuccess(rq[c].op)) \/ Continue(c, AfterException(c)))
      <3>1. Visible(RqDoc(c)) /\ Target(rq[c].op) \in {"COMPLETED", "FAILED", "DELETED"}
        BY <2>1, <2>2, AppliesLegally DEF ApplyToRow, Target
      <3>2. /\ meta'[RqDoc(c)].status = Target(rq[c].op)
            /\ \A d \in Document \ {RqDoc(c)} : meta'[d] = meta[d]
        BY <2>1, <2>2, TypesOf DEF ApplyToRow, Transition, Row
      <3>3. Steady
        <4>1. \A d \in Document :
                 /\ meta'[d].status \in Waiting => meta[d].status \in Waiting
                 /\ meta'[d].status # "UPLOADED"
                 /\ meta[d].status \in Removed => meta'[d].status \in Removed
          BY <3>1, <3>2 DEF Waiting, Removed, Visible, Stored, WorkInv, RowsWork
        <4> QED BY <2>1, <4>1, QueueStandsSteady DEF queueVars
      <3>4. RequestWorks(c)'
        <4>1. CASE rq[c].op = "delete" /\ Continue(c, AfterSuccess(rq[c].op))
          <5>1. "remove2" \in RequestPc /\ Step(c, "remove2")
            BY <4>1 DEF RequestPc, AfterSuccess, Continue
          <5>2. rq'[c].pc = "remove2" /\ rq'[c].op = rq[c].op /\ rq'[c].document = rq[c].document
            BY <5>1, StepsTo
          <5>3. meta'[RqDoc(c)].status \in Removed
            BY <3>2, <4>1 DEF Target, Removed
          <5> QED BY <1>0, <2>1, <5>2, <5>3 DEF RequestWorks, RqDoc, queueVars
        <4>2. CASE rq[c].op # "delete" \/ Continue(c, AfterException(c))
          <5>1. Done(c)
            BY <2>1, <2>2, <4>2 DEF AfterSuccess, AfterException, Continue
          <5> QED BY <1>0, <2>1, <5>1, DoneWorks DEF queueVars
        <4> QED BY <2>2, <4>1, <4>2
      <3> QED BY <1>0, <2>1, <3>3, <3>4, RequestMovesSteadily DEF queueVars
    <2>3. CASE UNCHANGED meta /\ (Continue(c, AfterConflict(c)) \/ Continue(c, AfterException(c)))
      <3>1. Done(c)
        BY <2>1, <2>3 DEF AfterConflict, AfterException, Continue
      <3>2. RequestWorks(c)'
        BY <1>0, <2>1, <3>1, DoneWorks DEF queueVars
      <3>3. Steady
        BY <1>1, <2>1, <2>3, QueueStandsSteady DEF queueVars
      <3> QED BY <1>0, <2>1, <3>2, <3>3, RequestMovesSteadily DEF queueVars
    <2> QED BY <1>4, <2>2, <2>3 DEF Apply
  <1>5. CASE Remove(c)
    <2>1. /\ rq[c].pc \in {"remove1", "remove2"} /\ UNCHANGED <<index, job, meta>>
          /\ RqDoc(c) \in Document /\ rq[c].op \in {"resolve", "fail", "delete", "cleanup"}
          /\ meta[RqDoc(c)].status \in Removed
      <3>1. rq[c].pc \in {"remove1", "remove2"} /\ UNCHANGED <<index, job, meta>>
        BY <1>5 DEF Remove, LookupJob, queueVars, storeVars
      <3> QED BY <3>1, RequestHas DEF WorkInv, RequestWorks, RemovingPc
    <2>2. Steady
      BY <1>1, <2>1, QueueStandsSteady
    <2>3. CASE LookupJob(c, RqDoc(c)) /\ Step(c, IF rq[c].pc = "remove1" THEN "removing1" ELSE "removing2")
      <3>1. (IF rq[c].pc = "remove1" THEN "removing1" ELSE "removing2") \in RequestPc
        BY DEF RequestPc
      <3>2. /\ /\ rq'[c].pc \in {"removing1", "removing2"} /\ rq'[c].op = rq[c].op
            /\ rq'[c].document = rq[c].document
        BY <2>3, <3>1, StepsTo
      <3>3. /\ removing'[c] = [document |-> RqDoc(c), job |-> index[RqDoc(c)]]
            /\ \A e \in Client \ {c} : removing'[e] = removing[e]
        BY <1>0, <2>3 DEF LookupJob
      <3>4. \A j \in JobId : removing'[c].job = j => job'[j].document = RqDoc(c)
        BY <2>1, <3>3 DEF WorkInv, RowsWork
      <3>5. RequestWorks(c)'
        BY <2>1, <3>2, <3>3, <3>4 DEF RequestWorks, RqDoc
      <3> QED BY <1>0, <2>2, <3>3, <3>5, RequestMovesSteadily
    <2>4. CASE Continue(c, AfterRemove(c)) /\ UNCHANGED queueVars
      <3>1. CASE rq[c].pc = "remove1"
        <4>1. "remove2" \in RequestPc /\ Step(c, "remove2")
          BY <2>4, <3>1 DEF RequestPc, AfterRemove, Continue
        <4>2. rq'[c].pc = "remove2" /\ rq'[c].op = rq[c].op /\ rq'[c].document = rq[c].document
          BY <4>1, StepsTo
        <4>3. RequestWorks(c)'
          BY <1>0, <2>1, <2>4, <3>1, <4>2 DEF RequestWorks, RqDoc, queueVars
        <4> QED BY <1>0, <2>2, <2>4, <4>3, RequestMovesSteadily DEF queueVars
      <3>2. CASE rq[c].pc = "remove2"
        <4>1. Done(c)
          BY <2>1, <2>4, <3>2 DEF AfterRemove, Continue
        <4>2. RequestWorks(c)'
          BY <1>0, <2>4, <3>2, <4>1, DoneWorks DEF queueVars
        <4> QED BY <1>0, <2>2, <2>4, <4>2, RequestMovesSteadily DEF queueVars
      <3> QED BY <2>1, <3>1, <3>2
    <2> QED BY <1>5, <2>3, <2>4 DEF Remove
  <1>6. CASE Removing(c)
    <2>1. /\ rq[c].pc \in {"removing1", "removing2"} /\ RemoveJob(c) /\ meta' = meta
          /\ RqDoc(c) \in Document /\ rq[c].op \in {"resolve", "fail", "delete", "cleanup"}
          /\ meta[RqDoc(c)].status \in Removed /\ removing[c] # None
          /\ removing[c].document = RqDoc(c)
          /\ \A j \in JobId : removing[c].job = j /\ Live(j) => job[j].document = RqDoc(c)
      <3>1. rq[c].pc \in {"removing1", "removing2"} /\ RemoveJob(c) /\ meta' = meta /\ removing[c] # None
        BY <1>6 DEF Removing, storeVars, RemoveJob
      <3> QED BY <3>1, RequestHas DEF WorkInv, RequestWorks, RemovingPc
    <2>2. PICK j \in JobId : j = removing[c].job
      BY <2>1, RemoveIsKept
    <2>3. /\ index' = [index EXCEPT ![RqDoc(c)] = None] /\ ~ Live(j)' /\ \A k \in JobId \ {j} : job'[k] = job[k]
          /\ index \in [Document -> JobId \cup {None}] /\ removing' = [removing EXCEPT ![c] = None]
      <3>1. job'[j].phase = "gone"
        BY <2>1, <2>2, RemoveIsKept
      <3> QED BY <2>1, <2>2, <3>1, RemoveIsKept, TypesOf DEF RemoveJob, Live
    <2>4. \A k \in JobId \ {j} : Live(k)' <=> Live(k)
      BY <2>3 DEF Live
    <2>5. Live(j) => job[j].document = RqDoc(c) /\ \A d \in Document : index'[d] # j
      <3>1. Live(j) => job[j].document = RqDoc(c)
        BY <2>1, <2>2
      <3> QED BY <2>3, <3>1, NoneIsNoValue DEF WorkInv, RowsWork
    <2>6. Steady
      <3>1. \A d \in Document : index'[d] \in {index[d], None}
        BY <2>3
      <3>2. meta[RqDoc(c)].status \notin Waiting
        BY <2>1 DEF Removed, Waiting
      <3> QED BY <1>1, <2>1, <2>3, <2>4, <2>5, <3>1, <3>2 DEF Steady
    <2>7. removing'[c] = None /\ \A e \in Client \ {c} : removing'[e] = removing[e]
      BY <1>0, <2>3
    <2>8. RequestWorks(c)'
      <3>1. CASE rq[c].pc = "removing1"
        <4>1. "remove2" \in RequestPc /\ Step(c, "remove2")
          BY <1>6, <3>1 DEF Removing, RequestPc, AfterRemove, Continue
        <4>2. rq'[c].pc = "remove2" /\ rq'[c].op = rq[c].op /\ rq'[c].document = rq[c].document
          BY <4>1, StepsTo
        <4> QED BY <2>1, <2>7, <4>2 DEF RequestWorks, RqDoc
      <3>2. CASE rq[c].pc = "removing2"
        <4>1. Done(c)
          BY <1>6, <2>1, <3>2 DEF Removing, AfterRemove, Continue
        <4> QED BY <2>7, <4>1, DoneWorks
      <3> QED BY <2>1, <3>1, <3>2
    <2> QED BY <1>0, <2>6, <2>7, <2>8, RequestMovesSteadily
  <1>7. CASE UploadFailed(c) \/ PurgeRow(c)
    <2>1. UNCHANGED queueVars /\ Done(c) /\ rq[c].pc \in {"uploadFailed", "purgeRow"} /\ RqDoc(c) \in Document
      <3>1. UNCHANGED queueVars /\ Done(c) /\ rq[c].pc \in {"uploadFailed", "purgeRow"}
        BY <1>7 DEF UploadFailed, PurgeRow
      <3> QED BY <3>1, RequestHas
    <2>2. meta' = meta \/ (meta[RqDoc(c)].status = "DELETED" /\ meta' = [meta EXCEPT ![RqDoc(c)] = NewRow("PURGED")])
      BY <1>7, <2>1 DEF UploadFailed, PurgeRow, WorkInv, RowsWork
    <2>3. Steady
      <3>1. \A d \in Document :
               /\ meta'[d].status \in Waiting => meta[d].status \in Waiting
               /\ meta'[d].status # "UPLOADED"
               /\ meta[d].status \in Removed => meta'[d].status \in Removed
        <4>1. CASE meta[RqDoc(c)].status = "DELETED" /\ meta' = [meta EXCEPT ![RqDoc(c)] = NewRow("PURGED")]
          <5>1. /\ meta'[RqDoc(c)].status = "PURGED"
                /\ \A d \in Document \ {RqDoc(c)} : meta'[d] = meta[d]
            BY <2>1, <4>1, TypesOf DEF NewRow
          <5> QED BY <5>1 DEF Waiting, Removed, WorkInv, RowsWork
        <4> QED BY <1>1, <2>2, <4>1
      <3> QED BY <2>1, <3>1, QueueStandsSteady DEF queueVars
    <2>4. RequestWorks(c)'
      BY <1>0, <2>1, DoneWorks DEF queueVars
    <2> QED BY <1>0, <2>1, <2>3, <2>4, RequestMovesSteadily DEF queueVars
  <1>8. CASE DeleteFile(c)
    <2>1. /\ UNCHANGED <<queueVars, meta>> /\ RqDoc(c) \in Document
          /\ rq[c].pc \in {"purgeOriginal", "purgeText", "purgeChunks", "dropText", "dropChunks"}
      <3>1. /\ UNCHANGED <<queueVars, meta>>
            /\ rq[c].pc \in {"purgeOriginal", "purgeText", "purgeChunks", "dropText", "dropChunks"}
        BY <1>8 DEF DeleteFile
      <3> QED BY <3>1, RequestHas
    <2>2. Steady
      BY <1>1, <2>1, QueueStandsSteady DEF queueVars
    <2>3. RequestWorks(c)'
      <3>1. CASE Done(c)
        BY <1>0, <2>1, <3>1, DoneWorks DEF queueVars
      <3>2. ASSUME NEW p \in {"purgeText", "dropChunks", "purgeChunks", "purgeRow"}, Step(c, p)
            PROVE  RequestWorks(c)'
        <4>1. p \in RequestPc
          BY DEF RequestPc
        <4>2. rq'[c].pc = p /\ rq'[c].op = rq[c].op
          BY <3>2, <4>1, StepsTo
        <4> QED BY <1>0, <2>1, <4>2, RequestHas DEF RequestWorks, RemovingPc, queueVars
      <3> QED BY <1>8, <3>1, <3>2 DEF DeleteFile, Continue
    <2> QED BY <1>0, <2>1, <2>2, <2>3, RequestMovesSteadily DEF queueVars
  <1>9. CASE Interrupt(c)
    <2>1. UNCHANGED <<index, job, meta>> /\ Done(c) /\ removing' = [removing EXCEPT ![c] = None]
      BY <1>9 DEF Interrupt
    <2>2. Steady
      BY <1>1, <2>1, QueueStandsSteady
    <2>3. removing'[c] = None /\ \A e \in Client \ {c} : removing'[e] = removing[e]
      BY <1>0, <2>1
    <2> QED BY <1>0, <2>1, <2>2, <2>3, DoneWorks, RequestMovesSteadily
  <1>10. ~ Create(c) /\ ~ Enqueue(c)
    BY <1>0 DEF Create, Enqueue
  <1> QED BY <1>2, <1>3, <1>4, <1>5, <1>6, <1>7, <1>8, <1>9, <1>10 DEF RequestStep

LEMMA WorkStep == Unqueued /\ PipelineInv /\ WorkInv /\ [Next]_vars => WorkInv'
  <1> SUFFICES ASSUME Unqueued, PipelineInv, WorkInv, [Next]_vars PROVE WorkInv'
    OBVIOUS
  <1>1. ASSUME NEW w \in Worker, WorkerNext(w) \/ ((Heartbeat(w) \/ WorkerCrash(w)) /\ UNCHANGED rq)
        PROVE  WorkInv'
    BY <1>1, WorkerWorks DEF WorkerNext
  <1>2. ASSUME NEW c \in Client, RequestNext(c) \/ (Interrupt(c) /\ UNCHANGED wk)
        PROVE  WorkInv'
    BY <1>2, RequestWorksOn DEF RequestNext
  <1>3. ASSUME NEW j \in JobId, TimeNext(j) PROVE WorkInv'
    BY <1>3, TimeWorks DEF TimeNext
  <1>4. CASE UNCHANGED vars
    <2>1. RowsWork'
      BY <1>4 DEF WorkInv, RowsWork, WorkIsRecoverable, Live, vars, queueVars, storeVars
    <2>2. HandsWork' /\ \A c \in Client : RequestWorks(c)'
      BY <1>4 DEF WorkInv, HandsWork, RequestWorks, Doc, RqDoc, Live, vars, queueVars, storeVars
    <2> QED BY <2>1, <2>2 DEF WorkInv
  <1> QED BY <1>1, <1>2, <1>3, <1>4 DEF Next

\* docs/DOCUMENT_PROCESSING.md:12,64: as long as no request enqueues, a document
\* waiting for or in processing has a live job, whatever workers do, wherever
\* they crash, and however removeForDocument is cut in two.
THEOREM WorkIsNeverLost == ASSUME Unqueued PROVE Spec => []WorkIsRecoverable
  <1>1. Init => WorkInv
    BY WorkInit
  <1>2. PipelineInv /\ WorkInv /\ [Next]_vars => WorkInv'
    BY WorkStep
  <1>3. WorkInv => WorkIsRecoverable
    BY DEF WorkInv, RowsWork
  <1> QED BY <1>1, <1>2, <1>3, PipelineInvariance, PTL DEF Spec
=============================================================================
