------------------------------ MODULE JiraSync ------------------------------
(***************************************************************************)
(* Jira integration as a whole: requests and comments going out            *)
(* (JiraOutbox), statuses and comments coming in (JiraInbound), any number *)
(* of workers of both kinds, operators and support staff at once.          *)
(***************************************************************************)
EXTENDS JiraInbound

CONSTANT Created  \* requests whose issue exists before we look

ASSUME CreatedAssumption == Created \subseteq Request

vars == <<outVars, inVars, left>>

\* A created request went through one attempt.
Init ==
    /\ mapping = TRUE
    /\ op = [o \in Operation |->
               IF o \in Created THEN [NoRow EXCEPT !.status = "COMPLETED", !.attempts = 1]
               ELSE NoRow]
    /\ shown = [o \in Operation |-> IF o \in Created THEN "DONE" ELSE "ABSENT"]
    /\ linked = [o \in Operation |-> o \in Created]
    /\ posted = [o \in Operation |-> IF o \in Created THEN 1 ELSE 0]
    /\ sender = [w \in Sender |-> IdleSender]
    /\ operator = [p \in Operator |-> None]
    /\ left = Allowance
    /\ status = [r \in Request |-> "NEW"]
    /\ jiraAt = [r \in Request |-> 0]
    /\ synced = [r \in Request |-> 0]
    /\ imported = [c \in Comment \cup Message |-> 0]
    /\ event = [e \in Event |-> NoRow]
    /\ importer = [w \in Importer |-> IdleImporter]

Inbound == <<status, jiraAt, synced, event, importer>>

SenderNext(w) == SenderStep(w) /\ UNCHANGED Inbound
OperationNext(o) == OperationRipens(o) /\ UNCHANGED Inbound

PortalNext ==
    \/ \E r \in Request : CreateRequest(r)
    \/ \E m \in Message : AddMessage(m)
    \/ EditMapping
    \/ \E p \in Operator, o \in Operation : CheckOperation(p, o)
    \/ \E p \in Operator : RetryOperation(p)
    \/ \E p \in Operator : BuryOperation(p)

Next ==
    \/ \E w \in Sender : SenderNext(w)
    \/ \E w \in Sender : SenderCrash(w) /\ UNCHANGED Inbound
    \/ \E o \in Operation : OperationNext(o)
    \/ PortalNext /\ UNCHANGED Inbound
    \/ \E e \in Event : Ingest(e)
    \/ \E w \in Importer : ImporterStep(w)
    \/ \E w \in Importer : ImporterCrash(w)
    \/ \E e \in Event : EventRipens(e)
    \/ \E e \in Event : OperateEvent(e)
    \/ \E r \in Request, s \in PortalStatus : SetStatus(r, s)

Spec == Init /\ [][Next]_vars

\* Both workers poll for ever and survive a failed batch; time passes.  Nothing
\* is assumed of webhooks, users, operators, crashes or failures.
Fairness ==
    /\ WF_vars(\E w \in Sender : SenderNext(w))
    /\ WF_vars(\E w \in Importer : ImporterStep(w))
    /\ WF_vars(\E o \in Operation : OperationNext(o))
    /\ WF_vars(\E e \in Event : EventRipens(e))

FairSpec == Spec /\ Fairness

-----------------------------------------------------------------------------
\* Every variable holds a value the code could have put there.
TypeOK == OutboxTypeOK /\ InboundTypeOK

\* jira-outbox.ts: what the portal shows of a request or comment is the state
\* of its operation, in spite of the six transactions that change them, with
\* one exception: a request whose issue was deleted in Jira shows FAILED.
ShownIsTrue ==
    \A o \in Operation :
        op[o].status # "ABSENT" =>
            \/ shown[o] = ShownFor(op[o].status)
            \/ /\ o \in Request /\ shown[o] = "FAILED"
               /\ \E e \in Event : Kind(e) = "deleted" /\ event[e].status = "COMPLETED"

\* docs/JIRA_INTEGRATION.md:41 "retry first reconciles that marker": crashes,
\* lost answers and retries alone never make a second issue or comment in
\* Jira; each further copy costs a lease that ran out under a worker still
\* busy with it, a comment that the search's one page does not show, or an
\* operator's command.
CopiesCostALapse ==
    \A o \in Operation :
        posted[o] <= 1 + (Allowance["lapse"] - left["lapse"])
                       + (Allowance["page"] - left["page"])
                       + (Allowance["operator"] - left["operator"])

\* docs/JIRA_INTEGRATION.md:45 "Expired leases are reclaimable", 46 "retries
\* are bounded, and terminal failures remain inspectable": once nothing new
\* arrives, every operation and every event ends completed, ignored or in the
\* dead-letter state, in spite of crashes, aborted batches and lost leases.
Unsettled(row) == row.status \in {"PENDING", "PROCESSING", "FAILED"}

QueuesDrain ==
    []<>(/\ \A o \in Operation : ~ Unsettled(op[o])
         /\ \A e \in Event : ~ Unsettled(event[e]))

\* docs/JIRA_INTEGRATION.md:52 "fences older jiraUpdatedAt values": however
\* webhooks are reordered and workers overlap, the request never goes back
\* to an older Jira time and is never behind an event that was applied.
JiraTimeFenced ==
    \A e \in Event :
        Kind(e) = "status" /\ event[e].status = "COMPLETED"
            => jiraAt[Subject(e)] >= Payload[e].at

\* An inbound status takes effect exactly once, although its worker may crash,
\* lose its lease or be retried: jiraSyncVersion counts the completed events.
AppliedOnce ==
    \A r \in Request :
        synced[r] = Cardinality({e \in Event : /\ Kind(e) = "status"
                                               /\ Subject(e) = r
                                               /\ event[e].status = "COMPLETED"})

-----------------------------------------------------------------------------
(* What the documentation says and the code does not do; no run checks it. *)

\* docs/JIRA_INTEGRATION.md:53 "Resolved/closed requests do not silently roll
\* back to a non-terminal status."
TerminalStays ==
    [][\A r \in Request :
         status[r] \in Terminal /\ synced' # synced => status'[r] \in Terminal]_vars
=============================================================================
