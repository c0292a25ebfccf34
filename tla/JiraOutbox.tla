----------------------------- MODULE JiraOutbox -----------------------------
(***************************************************************************)
(* Support requests and customer comments on their way to Jira: the        *)
(* transactions of requests-store.ts that create them, the JiraOperation   *)
(* queue, the outbound worker (processJiraOperationBatch) with the cloud   *)
(* adapter, and the operator's retry and dead-letter commands.             *)
(*                                                                         *)
(* One organization.  An operation is named by what it sends: a request    *)
(* (CREATE_ISSUE) or a message (ADD_COMMENT).  Transactions run at READ    *)
(* COMMITTED: one whose check and update are two statements is two steps.  *)
(***************************************************************************)
EXTENDS OutboxRows

CONSTANTS Request, Message,
          Owner,      \* message |-> its request
          Sender,     \* outbound worker processes
          Operator,   \* people who run the operations script
          Allowance   \* bound: how often each disturbance happens in a run

Operation == Request \cup Message

\* A worker dies; the lease of a running worker lapses; a call fails; a comment of
\* ours is not among the first hundred of its issue, all that the search reads; an
\* operator retries or buries a row or edits the mapping; support sets a status.
Disturbance == {"crash", "lapse", "fault", "page", "operator", "status"}

ASSUME JiraAssumption ==
    /\ Owner \in [Message -> Request]
    /\ Request \cap Message = {}
    /\ None \notin Operation
    /\ IsFiniteSet(Sender) /\ IsFiniteSet(Operator)
    /\ Allowance \in [Disturbance -> Nat]

VARIABLES
    mapping,   \* JiraOrganizationMapping.enabled
    op,        \* operation |-> its JiraOperation row
    shown,     \* jiraIntegrationStatus of a request, deliveryStatus of a message
    linked,    \* has the request a jiraIssueId, the message a jiraCommentId?
    posted,    \* issues or comments in Jira that carry the operation's marker
    imported,  \* Jira comment |-> version kept in a message with author JIRA
    sender,    \* outbound worker |-> where it is in its batch
    operator,  \* operator |-> the command that has passed its check
    left       \* how much of the allowance is left

outVars == <<mapping, op, shown, linked, posted, sender, operator>>

\* CREATED and SENT are both "DONE", NOT_CONFIGURED and NOT_REQUIRED are "NONE".
Shown == {"ABSENT", "NONE", "PENDING", "PROCESSING", "DONE", "FAILED", "DEAD_LETTER"}

ShownFor(status) == IF status = "COMPLETED" THEN "DONE" ELSE status

Spend(kind) == left[kind] > 0 /\ left' = [left EXCEPT ![kind] = @ - 1]

SenderState == [pc : {"idle", "next", "search", "post", "complete", "fail"},
                batch : SUBSET Operation,     \* claimed and not yet looked at
                at : Operation \cup {None},   \* the one it works on
                permanent : BOOLEAN]          \* the failure is not retryable

IdleSender == [pc |-> "idle", batch |-> {}, at |-> None, permanent |-> FALSE]

\* createRequest: request and operation are created in one transaction; the
\* unique idempotency key turns a repeated submission into a read.
CreateRequest(r) ==
    /\ shown[r] = "ABSENT"
    /\ op' = [op EXCEPT ![r] = IF mapping THEN PendingRow ELSE @]
    /\ shown' = [shown EXCEPT ![r] = IF mapping THEN "PENDING" ELSE "NONE"]
    /\ UNCHANGED <<mapping, linked, posted, imported, sender, operator, left>>

\* addRequestMessage: the comment is sent on only once the issue is there.
AddMessage(m) ==
    LET enqueue == mapping /\ shown[Owner[m]] = "DONE" /\ linked[Owner[m]]
    IN  /\ shown[m] = "ABSENT"
        /\ shown[Owner[m]] # "ABSENT"
        /\ op' = [op EXCEPT ![m] = IF enqueue THEN PendingRow ELSE @]
        /\ shown' = [shown EXCEPT ![m] = IF enqueue THEN "PENDING" ELSE "NONE"]
        /\ UNCHANGED <<mapping, linked, posted, imported, sender, operator, left>>

\* upsertJiraOrganizationMapping
EditMapping ==
    /\ Spend("operator")
    /\ mapping' = ~ mapping
    /\ UNCHANGED <<op, shown, linked, posted, imported, sender, operator>>

-----------------------------------------------------------------------------
(* The outbound worker. *)

\* Mutation: the rows the claim buries keep their old status in the portal.
ShowClaimed(S) ==
    [o \in Operation |-> IF o \in S THEN "PROCESSING" ELSE shown[o]]

AfterClaimShown(S) ==
    [o \in Operation |-> IF Exhausted(op[o]) THEN "DEAD_LETTER"
                         ELSE IF o \in S THEN "PROCESSING"
                         ELSE shown[o]]

\* claimJiraOperations
ClaimOperations(w) ==
    /\ sender[w].pc = "idle"
    /\ \E S \in Batches(op) :
          /\ S # {} \/ \E o \in Operation : Exhausted(op[o])
          /\ op' = AfterClaim(op, w, S)
          /\ shown' = AfterClaimShown(S)
          /\ sender' = [sender EXCEPT ![w] =
                          IF S = {} THEN IdleSender
                          ELSE [IdleSender EXCEPT !.pc = "next", !.batch = S]]
    /\ UNCHANGED <<mapping, linked, posted, imported, operator, left>>

Goto(w, pc) == sender' = [sender EXCEPT ![w].pc = pc]
Fail(w, permanent) ==
    sender' = [sender EXCEPT ![w].pc = "fail", ![w].permanent = permanent]
Drop(w) == sender' = [sender EXCEPT ![w] = IdleSender]

\* On to the next record of the batch.
Advance(w) ==
    sender' = [sender EXCEPT ![w] =
                 IF sender[w].batch = {} THEN IdleSender
                 ELSE [IdleSender EXCEPT !.pc = "next", !.batch = sender[w].batch]]

RequestOf(o) == IF o \in Message THEN Owner[o] ELSE o

\* Reads request, mapping and comment; a comment needs the request's issue.
Read(w) ==
    /\ sender[w].pc = "next"
    /\ \E o \in sender[w].batch :
          LET taken == [sender[w] EXCEPT !.batch = @ \ {o}, !.at = o]
              usable == mapping /\ (o \in Message => linked[RequestOf(o)])
          IN  \/ /\ sender' = [sender EXCEPT ![w] =
                       IF usable THEN [taken EXCEPT !.pc = "search"]
                       ELSE [taken EXCEPT !.pc = "fail", !.permanent = TRUE]]
                 /\ UNCHANGED left
              \/ /\ Spend("fault")
                 /\ sender' = [sender EXCEPT ![w] = [taken EXCEPT !.pc = "fail"]]
    /\ UNCHANGED <<mapping, op, shown, linked, posted, imported, operator>>

\* Mutation: the marker is not looked up before an issue or comment is created.
SearchNothing(w) ==
    /\ sender[w].pc = "search"
    /\ Goto(w, "post")
    /\ UNCHANGED <<mapping, op, shown, linked, posted, imported, operator, left>>

\* What a worker does that has found so many issues or comments with the marker.
Found(w, copies) ==
    \/ copies = 0 /\ Goto(w, "post")
    \/ copies = 1 /\ Goto(w, "complete")
    \/ copies > 1 /\ Fail(w, TRUE)  \* RECONCILIATION_AMBIGUOUS

\* First call of the adapter: look for the operation's marker in Jira, for a
\* comment on the first page of the issue's public comments only.
Search(w) ==
    /\ sender[w].pc = "search"
    /\ \/ Found(w, posted[sender[w].at]) /\ UNCHANGED left
       \/ /\ sender[w].at \in Message
          /\ Spend("page")
          /\ \E copies \in 0..(posted[sender[w].at] - 1) : Found(w, copies)
       \/ Spend("fault") /\ \E permanent \in BOOLEAN : Fail(w, permanent)
    /\ UNCHANGED <<mapping, op, shown, linked, posted, imported, operator>>

\* Second call: create it.  The answer may be lost although Jira acted on it.
Post(w) ==
    /\ sender[w].pc = "post"
    /\ \/ /\ posted' = [posted EXCEPT ![sender[w].at] = @ + 1]
          /\ Goto(w, "complete")
          /\ UNCHANGED left
       \/ /\ Spend("fault")
          /\ posted' \in {posted, [posted EXCEPT ![sender[w].at] = @ + 1]}
          /\ \E permanent \in BOOLEAN : Fail(w, permanent)
    /\ UNCHANGED <<mapping, op, shown, linked, imported, operator>>

\* The lease is still this batch's; jiraCommentId is unique among messages.
Completable(w, o) ==
    /\ Owned(op[o], w)
    /\ o \in Message => imported[o] = 0

\* completeJiraOperation, completeJiraCommentOperation: one transaction, undone
\* as a whole if the lease is lost, the comment id is taken or the call fails.
Complete(w) ==
    LET o == sender[w].at IN
    /\ sender[w].pc = "complete"
    /\ \/ /\ Completable(w, o)
          /\ op' = [op EXCEPT ![o] = Ended(@, "COMPLETED")]
          /\ shown' = [shown EXCEPT ![o] = "DONE"]
          /\ linked' = [linked EXCEPT ![o] = TRUE]
          /\ Advance(w)
          /\ UNCHANGED left
       \/ /\ ~ Completable(w, o)
          /\ Fail(w, FALSE)
          /\ UNCHANGED <<op, shown, linked, left>>
       \/ /\ Spend("fault")
          /\ Fail(w, FALSE)
          /\ UNCHANGED <<op, shown, linked>>
    /\ UNCHANGED <<mapping, posted, imported, operator>>

MayFail(w) == Owned(op[sender[w].at], w)

\* failJiraOperation: without the lease it throws out of the batch loop, and
\* the records not yet looked at stay PROCESSING until their lease runs out.
RecordFailure(w) ==
    LET o == sender[w].at
        row == Failed(op[o], sender[w].permanent)
    IN  /\ sender[w].pc = "fail"
        /\ \/ /\ MayFail(w)
              /\ op' = [op EXCEPT ![o] = row]
              /\ shown' = [shown EXCEPT ![o] = ShownFor(row.status)]
              /\ Advance(w)
              /\ UNCHANGED left
           \/ /\ ~ MayFail(w)
              /\ Drop(w)
              /\ UNCHANGED <<op, shown, left>>
           \/ /\ Spend("fault")
              /\ Drop(w)
              /\ UNCHANGED <<op, shown>>
        /\ UNCHANGED <<mapping, linked, posted, imported, operator>>

SenderCrash(w) ==
    /\ sender[w].pc # "idle"
    /\ Spend("crash")
    /\ Drop(w)
    /\ UNCHANGED <<mapping, op, shown, linked, posted, imported, operator>>

SenderStep(w) ==
    \/ ClaimOperations(w) \/ Read(w) \/ Search(w) \/ Post(w)
    \/ Complete(w) \/ RecordFailure(w)

\* nextAttemptAt or leaseUntil passes; for a lease whose worker is still at it
\* that is a slow batch (one lease covers up to BatchSize records).
Working(o) ==
    \E w \in Sender : op[o].lease = w /\ (sender[w].at = o \/ o \in sender[w].batch)

OperationRipens(o) ==
    /\ Waiting(op[o])
    /\ op' = [op EXCEPT ![o] = Ripened(@)]
    /\ IF op[o].status = "PROCESSING" /\ Working(o) THEN Spend("lapse") ELSE UNCHANGED left
    /\ UNCHANGED <<mapping, shown, linked, posted, imported, sender, operator>>

-----------------------------------------------------------------------------
(* retryJiraOperation and moveFailedJiraOperationToDeadLetter: the row is   *)
(* read and checked, then updated by its id alone.                          *)

OperatorState == {None} \cup [retry : BOOLEAN, op : Operation]

CheckOperation(p, o) ==
    /\ operator[p] = None
    /\ Spend("operator")
    /\ \/ /\ op[o].status = "DEAD_LETTER"
          /\ operator' = [operator EXCEPT ![p] = [retry |-> TRUE, op |-> o]]
       \/ /\ op[o].status = "FAILED"
          /\ operator' = [operator EXCEPT ![p] = [retry |-> FALSE, op |-> o]]
    /\ UNCHANGED <<mapping, op, shown, linked, posted, imported, sender>>

RetryOperation(p) ==
    LET o == operator[p].op IN
    /\ operator[p] # None
    /\ operator[p].retry
    /\ op' = [op EXCEPT ![o] = PendingRow]
    /\ shown' = [shown EXCEPT ![o] = "PENDING"]
    /\ linked' = [linked EXCEPT ![o] = @ /\ o \in Request]
    /\ operator' = [operator EXCEPT ![p] = None]
    /\ UNCHANGED <<mapping, posted, imported, sender, left>>

BuryOperation(p) ==
    LET o == operator[p].op IN
    /\ operator[p] # None
    /\ ~ operator[p].retry
    /\ op' = [op EXCEPT ![o] = Ended(@, "DEAD_LETTER")]
    /\ shown' = [shown EXCEPT ![o] = "DEAD_LETTER"]
    /\ operator' = [operator EXCEPT ![p] = None]
    /\ UNCHANGED <<mapping, linked, posted, imported, sender, left>>

OutboxTypeOK ==
    /\ mapping \in BOOLEAN
    /\ op \in [Operation -> Row(Sender)]
    /\ shown \in [Operation -> Shown]
    /\ linked \in [Operation -> BOOLEAN]
    /\ posted \in [Operation -> Nat]
    /\ sender \in [Sender -> SenderState]
    /\ operator \in [Operator -> OperatorState]
    /\ left \in [Disturbance -> Nat]
=============================================================================
