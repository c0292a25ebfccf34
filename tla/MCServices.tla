----------------------------- MODULE MCServices -----------------------------
(***************************************************************************)
(* Four services that do not talk to each other, on small sets, for TLC:    *)
(* the embedding of documents, the knowledge index, the notification outbox *)
(* and the AI budget.  One run checks them one after the other: part says   *)
(* which of them a behaviour belongs to.  The others stay in an initial     *)
(* state with nothing to do, so that the fairness asked of them is          *)
(* satisfied.                                                               *)
(***************************************************************************)
EXTENDS EmbeddingPipeline, KnowledgeIndexing, NotificationOutbox, AiBudget, TLC

VARIABLE part

Init ==
    /\ part \in {"embedding", "new article", "article", "notifications", "budget"}
    /\ EmbeddingInit /\ KnowledgeInit /\ NotifyInit /\ BudgetInit
    /\ part # "embedding" => job.status = "NONE"
    /\ article = [a \in Article |-> IF part = "article" THEN Published ELSE NoArticle]
    /\ \A a \in Article : event[Changed(a, 1)] \in {NoRow, LastTry}

Next ==
    /\ UNCHANGED part
    /\ \/ part = "embedding" /\ EmbeddingNext /\ UNCHANGED <<knowledgeVars, notifyVars, budgetVars>>
       \/ /\ KnowledgeNext /\ UNCHANGED <<embeddingVars, notifyVars, budgetVars>>
          /\ \/ part = "article"
             \/ part = "new article" /\ UNCHANGED spare
       \/ part = "notifications" /\ NotifyNext /\ UNCHANGED <<embeddingVars, knowledgeVars, budgetVars>>
       \/ part = "budget" /\ BudgetNext /\ UNCHANGED <<embeddingVars, knowledgeVars, notifyVars>>

\* Workers that are up go on, and time passes.  A part that is not looked at
\* would have nothing to do; to say so makes the check faster.
Fairness ==
    /\ WF_embeddingVars(part = "embedding" /\ EmbeddersGoOn)
    /\ WF_embeddingVars(part = "embedding" /\ JobRipens)
    /\ WF_knowledgeVars(part \in {"article", "new article"} /\ IndexersGoOn)
    /\ WF_knowledgeVars(part \in {"article", "new article"} /\ EventsRipen)
    /\ WF_notifyVars(part = "notifications" /\ NotifiersGoOn)
    /\ WF_notifyVars(part = "notifications" /\ OutboxesRipen)

Spec == Init /\ [][Next]_<<part, embeddingVars, knowledgeVars, notifyVars, budgetVars>> /\ Fairness

\* State keeps its shape, in all of them.
ServicesTypeOK == EmbeddingTypeOK /\ KnowledgeTypeOK /\ NotifyTypeOK /\ BudgetTypeOK

\* docs/QUEUE_OPERATIONS.md:18 "recovery of expired leases": no queued work is
\* left for ever.  When requests, changes and retries have stopped, every
\* embedding job, knowledge event and notification is done or given up, in spite
\* of crashes, failures and lapsed leases.
WorkEnds == <>[] (EmbeddingIsOver /\ EventsAreSettled /\ NotificationsAreSettled)

-----------------------------------------------------------------------------
CONSTANTS c1, c2, c3

\* The second processing of the document finds another chunk.
Generations == 1 :> {"k1"} @@ 2 :> {"k2"}

\* Two batches of one document, and a call of its own.
OneDocument == c1 :> "document" @@ c2 :> "document" @@ c3 :> "answer"
Costs == c1 :> 1 @@ c2 :> 1 @@ c3 :> 2
OwnKey == c1 :> 1 @@ c2 :> 2 @@ c3 :> 3
=============================================================================
