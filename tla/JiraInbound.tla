---------------------------- MODULE JiraInbound ----------------------------
(***************************************************************************)
(* What comes back from Jira: the webhook that stores events               *)
(* (ingestJiraWebhook), the inbound worker that applies them to requests   *)
(* and messages (processJiraInboundBatch), the operator's commands on      *)
(* events, and the status changes of platform support they compete with.   *)
(*                                                                         *)
(* Jira may deliver a webhook late, in any order, again or never.  An      *)
(* event is applied in one transaction at READ COMMITTED: what it read at  *)
(* the start may have changed by the time it writes, so it is two steps.   *)
(***************************************************************************)
EXTENDS JiraOutbox

CONSTANTS Importer,  \* inbound worker processes
          Comment,   \* Jira comments written by Jira users
          Event,     \* webhook deliveries, named by their fingerprint
          Payload    \* event |-> its normalized payload

Terminal == {"RESOLVED", "CLOSED"}
PortalStatus == {"NEW", "OPEN", "IN_PROGRESS", "WAITING_CUSTOMER"} \cup Terminal

\* A status has at, its jiraUpdatedAt; a comment, of a Jira user or one the
\* outbound worker posted for a message, has at, its version.  "other" stands
\* for private and automation comments and for statuses without a mapping.
PayloadSet ==
    [kind : {"status"}, request : Request, at : Nat \ {0}, status : PortalStatus]
    \cup [kind : {"comment"}, request : Request, comment : Comment \cup Message,
           at : Nat \ {0}]
    \cup [kind : {"deleted", "other"}, request : Request]

ASSUME InboundAssumption ==
    /\ Payload \in [Event -> PayloadSet]
    /\ Comment \cap Operation = {}

VARIABLES
    status,    \* SupportRequest.status
    jiraAt,    \* SupportRequest.jiraUpdatedAt, 0 for null
    synced,    \* SupportRequest.jiraSyncVersion
    event,     \* event |-> its JiraInboundEvent row
    importer   \* inbound worker |-> where it is in its batch

inVars == <<status, jiraAt, synced, event, importer, imported>>

ImporterState == [pc : {"idle", "next", "apply", "fail"},
                  batch : SUBSET Event,
                  at : Event \cup {None},
                  status : PortalStatus,  \* the request as it was read
                  jiraAt : Nat,
                  version : Nat]          \* of the comment as it was read, 0 if not there

IdleImporter == [pc |-> "idle", batch |-> {}, at |-> None, status |-> "NEW",
                 jiraAt |-> 0, version |-> 0]

Kind(e) == Payload[e].kind
Subject(e) == IF Kind(e) = "comment" THEN Payload[e].comment ELSE Payload[e].request

\* The issue and, for a customer's comment, the comment exist in Jira.
Happened(e) ==
    /\ posted[Payload[e].request] > 0
    /\ Subject(e) \in Message => posted[Subject(e)] > 0

\* ingestJiraWebhook: stored once, if the issue is already linked to a request.
\* An event for an issue nobody knows yet is answered and forgotten.
Ingest(e) ==
    /\ Happened(e)
    /\ event[e].status = "ABSENT"
    /\ linked[Payload[e].request]
    /\ event' = [event EXCEPT ![e] = PendingRow]
    /\ UNCHANGED <<outVars, left, status, jiraAt, synced, imported, importer>>

\* claimJiraInboundEvents
ClaimEvents(w) ==
    /\ importer[w].pc = "idle"
    /\ \E S \in Batches(event) :
          /\ S # {} \/ \E e \in Event : Exhausted(event[e])
          /\ event' = AfterClaim(event, w, S)
          /\ importer' = [importer EXCEPT ![w] =
                            IF S = {} THEN IdleImporter
                            ELSE [IdleImporter EXCEPT !.pc = "next", !.batch = S]]
    /\ UNCHANGED <<outVars, left, status, jiraAt, synced, imported>>

NextEvent(w) ==
    importer' = [importer EXCEPT ![w] =
                   IF importer[w].batch = {} THEN IdleImporter
                   ELSE [IdleImporter EXCEPT !.pc = "next", !.batch = importer[w].batch]]

\* A message with this jiraCommentId, as it was read: the customer's own (it
\* counts as newer than anything), one imported before, or none.
Own(e) == Subject(e) \in Message /\ linked[Subject(e)]

\* Start of the transaction of one event: read request and comment.
ReadEvent(w) ==
    /\ importer[w].pc = "next"
    /\ \E e \in importer[w].batch :
          LET taken == [importer[w] EXCEPT !.batch = @ \ {e}, !.at = e]
          IN  \/ /\ importer' = [importer EXCEPT ![w] =
                      IF Kind(e) = "comment"
                      THEN [taken EXCEPT !.pc = "apply",
                              !.version = IF Own(e) THEN Payload[e].at
                                          ELSE imported[Subject(e)]]
                      ELSE [taken EXCEPT !.pc = "apply", !.status = status[Subject(e)],
                              !.jiraAt = jiraAt[Subject(e)]]]
                 /\ UNCHANGED left
              \/ /\ Spend("fault")
                 /\ importer' = [importer EXCEPT ![w] = [taken EXCEPT !.pc = "fail"]]
    /\ UNCHANGED <<outVars, status, jiraAt, synced, imported, event>>

\* statusTransitionDecision, on what was read.
Decision(w) ==
    LET p == Payload[importer[w].at]
    IN  IF p.at <= importer[w].jiraAt THEN "STALE"
        ELSE IF importer[w].status \in Terminal /\ p.status \notin Terminal THEN "TERMINAL_CONFLICT"
        ELSE IF importer[w].status = p.status THEN "UNCHANGED" ELSE "APPLY"

\* Mutation: the update does not compare jiraUpdatedAt again.
UnfencedUpdate(r, at) == TRUE

\* The update's own condition, evaluated on the row as it is now.
StillNewer(r, at) == jiraAt[r] < at

Finish(w, result) ==
    /\ event' = [event EXCEPT ![importer[w].at] = Ended(@, result)]
    /\ NextEvent(w)

\* processStatus
ApplyStatus(w) ==
    LET e == importer[w].at
        r == Subject(e)
        p == Payload[e]
    IN  /\ Kind(e) = "status"
        /\ IF Decision(w) \in {"APPLY", "UNCHANGED"} /\ StillNewer(r, p.at)
           THEN /\ status' = [status EXCEPT ![r] = IF Decision(w) = "APPLY" THEN p.status ELSE @]
                /\ jiraAt' = [jiraAt EXCEPT ![r] = p.at]
                /\ synced' = [synced EXCEPT ![r] = @ + 1]
                /\ Finish(w, "COMPLETED")
           ELSE /\ Finish(w, "IGNORED")
                /\ UNCHANGED <<status, jiraAt, synced>>
        /\ UNCHANGED <<imported, shown>>

\* jiraCommentId is unique: somebody else has inserted it since the read.
Taken(w) ==
    LET c == Subject(importer[w].at)
    IN  importer[w].version = 0 /\ (imported[c] > 0 \/ Own(importer[w].at))

\* processComment: insert, or update by the id that was read.
ApplyComment(w) ==
    LET e == importer[w].at IN
    /\ Kind(e) = "comment"
    /\ ~ Taken(w)
    /\ IF Payload[e].at > importer[w].version
       THEN /\ imported' = [imported EXCEPT ![Subject(e)] = Payload[e].at]
            /\ Finish(w, "COMPLETED")
       ELSE /\ Finish(w, "IGNORED")
            /\ UNCHANGED imported
    /\ UNCHANGED <<shown, status, jiraAt, synced>>

\* processDeleted: the request stays, its integration is marked as failed.
ApplyDeleted(w) ==
    /\ Kind(importer[w].at) = "deleted"
    /\ shown' = [shown EXCEPT ![Subject(importer[w].at)] = "FAILED"]
    /\ Finish(w, "COMPLETED")
    /\ UNCHANGED <<status, jiraAt, synced, imported>>

IgnoreOther(w) ==
    /\ Kind(importer[w].at) = "other"
    /\ Finish(w, "IGNORED")
    /\ UNCHANGED <<shown, status, jiraAt, synced, imported>>

Throws(w) ==
    /\ importer' = [importer EXCEPT ![w].pc = "fail"]
    /\ UNCHANGED <<shown, status, jiraAt, synced, imported, event>>

\* Mutation: finishEvent does not look at the lease.
MayFinishAnyway(w) == TRUE

MayFinish(w) == Owned(event[importer[w].at], w)

\* End of the transaction.  Without the lease finishEvent throws and everything
\* is undone.
ApplyEvent(w) ==
    /\ importer[w].pc = "apply"
    /\ \/ /\ MayFinish(w)
          /\ ApplyStatus(w) \/ ApplyComment(w) \/ ApplyDeleted(w) \/ IgnoreOther(w)
          /\ UNCHANGED left
       \/ /\ MayFinish(w) => Kind(importer[w].at) = "comment" /\ Taken(w)
          /\ Throws(w)
          /\ UNCHANGED left
       \/ /\ Spend("fault")
          /\ Throws(w)
    /\ UNCHANGED <<mapping, op, linked, posted, sender, operator>>

\* failEvent; without the lease it throws out of the batch loop.
FailEvent(w) ==
    LET e == importer[w].at IN
    /\ importer[w].pc = "fail"
    /\ \/ /\ Owned(event[e], w)
          /\ event' = [event EXCEPT ![e] = Failed(@, FALSE)]
          /\ NextEvent(w)
          /\ UNCHANGED left
       \/ /\ ~ Owned(event[e], w)
          /\ importer' = [importer EXCEPT ![w] = IdleImporter]
          /\ UNCHANGED <<event, left>>
       \/ /\ Spend("fault")
          /\ importer' = [importer EXCEPT ![w] = IdleImporter]
          /\ UNCHANGED event
    /\ UNCHANGED <<outVars, status, jiraAt, synced, imported>>

ImporterCrash(w) ==
    /\ importer[w].pc # "idle"
    /\ Spend("crash")
    /\ importer' = [importer EXCEPT ![w] = IdleImporter]
    /\ UNCHANGED <<outVars, status, jiraAt, synced, imported, event>>

ImporterStep(w) == ClaimEvents(w) \/ ReadEvent(w) \/ ApplyEvent(w) \/ FailEvent(w)

Importing(e) ==
    \E w \in Importer : event[e].lease = w /\ (importer[w].at = e \/ e \in importer[w].batch)

EventRipens(e) ==
    /\ Waiting(event[e])
    /\ event' = [event EXCEPT ![e] = Ripened(@)]
    /\ IF event[e].status = "PROCESSING" /\ Importing(e) THEN Spend("lapse") ELSE UNCHANGED left
    /\ UNCHANGED <<outVars, status, jiraAt, synced, imported, importer>>

\* retryJiraInboundEvent and moveJiraInboundEventToDeadLetter check and change
\* the row in one statement.
OperateEvent(e) ==
    /\ Spend("operator")
    /\ \/ /\ event[e].status \in {"FAILED", "DEAD_LETTER"}
          /\ event' = [event EXCEPT ![e] = PendingRow]
       \/ /\ event[e].status = "FAILED"
          /\ event' = [event EXCEPT ![e] = Ended(@, "DEAD_LETTER")]
    /\ UNCHANGED <<outVars, status, jiraAt, synced, imported, importer>>

\* Platform support sets the status (admin/requests/[id]/status); the update
\* names the version it has seen, so it is one step.
SetStatus(r, s) ==
    /\ shown[r] # "ABSENT"
    /\ status[r] # s
    /\ Spend("status")
    /\ status' = [status EXCEPT ![r] = s]
    /\ UNCHANGED <<outVars, jiraAt, synced, imported, event, importer>>

InboundTypeOK ==
    /\ status \in [Request -> PortalStatus]
    /\ jiraAt \in [Request -> Nat]
    /\ synced \in [Request -> Nat]
    /\ imported \in [Comment \cup Message -> Nat]
    /\ event \in [Event -> Row(Importer)]
    /\ importer \in [Importer -> ImporterState]
=============================================================================
