-------------------------- MODULE KnowledgeIndexing --------------------------
(***************************************************************************)
(* Knowledge articles and their derived index.  Editors change an article   *)
(* under optimistic versions (knowledge-store.ts, the status and visibility *)
(* routes, the reindex request); a database trigger writes one index event  *)
(* per version; workers (knowledge-index-worker.ts) claim batches of events *)
(* and bring the full-text row and the vector row of the article in line    *)
(* with what they read (knowledge-indexing.ts).                             *)
(*                                                                         *)
(* A row of an index is the sourceVersion it was built from, 0 when there   *)
(* is none: the other columns copy what the article was at that version.   *)
(* The Redis entries are left out, for no reader of the platform uses them; *)
(* the calls that keep them appear as points where an event may fail.       *)
(*                                                                         *)
(* An article is first looked at when it is created or when it is already   *)
(* out; versions count from there.                                          *)
(***************************************************************************)
EXTENDS OutboxRows

CONSTANTS Article,
          Indexer,     \* worker processes
          Editor,      \* requests that read an article before they update it
          Lifecycle,   \* statuses ...
          Audience,    \* ... and visibilities the requests of the instance ask for
          MaxVersion,  \* bound on the changes made to one article
          Disturbances \* bound on crashes, early lapses and failed operations

ASSUME KnowledgeAssumption ==
    /\ MaxVersion \in Nat \ {0}
    /\ Lifecycle \subseteq {"DRAFT", "REVIEW", "PUBLISHED", "ARCHIVED"}
    /\ Audience \subseteq {"PRIVATE", "ORGANIZATION", "PLATFORM", "PUBLIC"}
    /\ Disturbances \in Nat
    /\ None \notin Article \cup Indexer \cup Editor

VARIABLES
    article,  \* the KnowledgeArticle rows
    event,    \* the KnowledgeIndexEvent rows, by idempotency key
    search,   \* article |-> sourceVersion of its KnowledgeSearchIndex row
    vector,   \* article |-> sourceVersion of its KnowledgeVectorIndex row
    indexer,  \* worker |-> where processKnowledgeIndexBatch is
    editor,   \* request |-> the update it is about to make
    spare     \* disturbances still to come

knowledgeVars == <<article, event, search, vector, indexer, editor, spare>>

Version == 1..MaxVersion
Visibility == {"PRIVATE", "ORGANIZATION", "PLATFORM", "PUBLIC"}

\* version 0: not created yet; gone: deleted.
ArticleRow == [version : 0..MaxVersion, status : {"DRAFT", "REVIEW", "PUBLISHED", "ARCHIVED"},
               scope : {"PLATFORM", "ORGANIZATION"}, visibility : Visibility,
               quarantined : BOOLEAN, gone : BOOLEAN,
               approved : 0..MaxVersion]  \* the version publicationApprovalId was given for

NoArticle == [version |-> 0, status |-> "DRAFT", scope |-> "PLATFORM", visibility |-> "PRIVATE",
              quarantined |-> FALSE, gone |-> FALSE, approved |-> 0]

Event == Article \X Version \X {"change", "delete"}
Changed(a, v) == <<a, v, "change">>

Exists(a) == article[a].version > 0 /\ ~ article[a].gone
Indexable(row) ==
    row.status = "PUBLISHED" /\ row.visibility # "PRIVATE" /\ ~ row.quarantined

IdleIndexer == [pc |-> "idle", batch |-> {}, event |-> None, version |-> 0]
IdleEditor == [article |-> None, version |-> 0, to |-> "PRIVATE", approved |-> FALSE]

\* Published by an organization for its members; its event has not been tried
\* yet or has failed all but the last time.
Published == [NoArticle EXCEPT !.version = 1, !.status = "PUBLISHED",
                               !.scope = "ORGANIZATION", !.visibility = "ORGANIZATION"]
LastTry == [PendingRow EXCEPT !.status = "FAILED", !.attempts = MaxAttempts - 1]

KnowledgeInit ==
    /\ article \in [Article -> {NoArticle, Published}]
    /\ \E row \in {PendingRow, LastTry} :
          event = [k \in Event |->
             IF k[3] = "change" /\ article[k[1]].version = k[2] THEN row ELSE NoRow]
    /\ search = [a \in Article |-> 0]
    /\ vector = [a \in Article |-> 0]
    /\ indexer = [w \in Indexer |-> IdleIndexer]
    /\ editor = [e \in Editor |-> IdleEditor]
    /\ spare = Disturbances

-----------------------------------------------------------------------------
(* The trigger.  An event key is written once; a change that keeps the     *)
(* version finds its key taken and adds nothing.                            *)
Enqueued(rows, k) ==
    IF rows[k].status = "ABSENT" THEN [rows EXCEPT ![k] = PendingRow] ELSE rows

Write(a, row) ==
    /\ row.version <= MaxVersion
    /\ article' = [article EXCEPT ![a] = row]
    /\ event' = Enqueued(event, Changed(a, row.version))
    /\ UNCHANGED <<search, vector, indexer, spare>>

Create(a, scope) ==
    /\ article[a].version = 0
    /\ Write(a, [NoArticle EXCEPT !.version = 1, !.scope = scope])
    /\ UNCHANGED editor

\* An update on id, expected version and quarantinedAt null: one statement,
\* so a request with any other version changes nothing.
SetStatus(a, status) ==
    /\ Exists(a)
    /\ ~ article[a].quarantined
    /\ Write(a, [article[a] EXCEPT !.status = status, !.version = @ + 1])
    /\ UNCHANGED editor

Reindex(a) ==
    /\ Exists(a)
    /\ article[a].scope = "PLATFORM"
    /\ Write(a, [article[a] EXCEPT !.quarantined = FALSE, !.version = @ + 1])
    /\ UNCHANGED editor

\* Rows are deleted by operators only; the trigger covers it.
Delete(a) ==
    /\ Exists(a)
    /\ article' = [article EXCEPT ![a].gone = TRUE]
    /\ event' = Enqueued(event, <<a, article[a].version, "delete">>)
    /\ UNCHANGED <<search, vector, indexer, editor, spare>>

Offered(scope) ==
    IF scope = "PLATFORM" THEN {"PRIVATE", "PLATFORM", "PUBLIC"}
    ELSE {"PRIVATE", "ORGANIZATION", "PUBLIC"}

\* The visibility route reads the article and refuses a quarantined one ...
FindArticle(e, a, to) ==
    /\ editor[e] = IdleEditor
    /\ Exists(a)
    /\ ~ article[a].quarantined
    /\ to \in Offered(article[a].scope)
    /\ editor' = [editor EXCEPT ![e] =
          [article |-> a, version |-> article[a].version, to |-> to,
           approved |-> article[a].scope = "ORGANIZATION" /\ to = "PUBLIC"]]
    /\ UNCHANGED <<article, event, search, vector, indexer, spare>>

\* ... and updates it later: on the expected version, whatever became of
\* quarantinedAt, ...
SetVisibility(e) ==
    LET r == editor[e]
        a == r.article
    IN  /\ a # None
        /\ ~ r.approved
        /\ editor' = [editor EXCEPT ![e] = IdleEditor]
        /\ IF Exists(a) /\ article[a].version = r.version
           THEN Write(a, [article[a] EXCEPT !.visibility = r.to, !.approved = 0,
                                            !.version = @ + 1])
           ELSE UNCHANGED <<article, event, search, vector, indexer, spare>>

\* ... or, for an organization article going public, in the transaction that
\* executes the approval given for the version read before.
PublishApproved(e) ==
    LET r == editor[e]
        a == r.article
    IN  /\ a # None
        /\ r.approved
        /\ editor' = [editor EXCEPT ![e] = IdleEditor]
        /\ IF Exists(a)
           THEN Write(a, [article[a] EXCEPT !.visibility = "PUBLIC", !.approved = r.version,
                                            !.version = @ + 1])
           ELSE UNCHANGED <<article, event, search, vector, indexer, spare>>

EditorNext ==
    \/ \E a \in Article :
          \/ \E s \in {"PLATFORM", "ORGANIZATION"} : Create(a, s)
          \/ \E s \in Lifecycle : SetStatus(a, s)
          \/ Reindex(a)
          \/ Delete(a)
    \/ \E e \in Editor :
          \/ \E a \in Article, to \in Audience : FindArticle(e, a, to)
          \/ SetVisibility(e)
          \/ PublishApproved(e)

-----------------------------------------------------------------------------
(* The worker.  Its name stands for the lease token of its current batch.  *)

\* Mutation: leases that ran out after the last attempt only bury the event.
QuarantineNone(rows, dead) == rows

\* The articles of events that were given up, if still at the event's version.
Quarantine(rows, dead) ==
    [a \in Article |->
        IF Exists(a) /\ \E k \in dead : k[1] = a /\ k[2] = rows[a].version
        THEN [rows[a] EXCEPT !.quarantined = TRUE] ELSE rows[a]]

ClaimBatch(w) ==
    /\ indexer[w].pc = "idle"
    /\ \E S \in Batches(event) :
          LET dead == {k \in Event : Exhausted(event[k])}
          IN  /\ S \cup dead # {}
              /\ event' = AfterClaim(event, w, S)
              /\ article' = Quarantine(article, dead)
              /\ indexer' = [indexer EXCEPT ![w] =
                    IF S = {} THEN IdleIndexer
                    ELSE [IdleIndexer EXCEPT !.pc = "next", !.batch = S]]
    /\ UNCHANGED <<search, vector, editor, spare>>

Disturbed == spare > 0 /\ spare' = spare - 1

Goto(w, pc) == indexer' = [indexer EXCEPT ![w].pc = pc] /\ UNCHANGED spare

\* An operation throws and the event is failed.
Throws(w) ==
    /\ indexer' = [indexer EXCEPT ![w].pc = "fail"]
    /\ Disturbed

\* What there is to do for the article the worker has read.
Plan(k, row) ==
    IF row.version = 0 \/ row.gone THEN "remove"
    ELSE IF row.version # k[2] THEN "complete"
    ELSE IF Indexable(row) THEN "search" ELSE "remove"

\* The article is read; then the Redis keys of all its versions are deleted.
NextEvent(w) ==
    /\ indexer[w].pc = "next"
    /\ IF indexer[w].batch = {} THEN indexer' = [indexer EXCEPT ![w] = IdleIndexer] /\ UNCHANGED spare
       ELSE \E k \in indexer[w].batch :
              LET row == article[k[1]]
                  At(pc) == [pc |-> pc, batch |-> indexer[w].batch \ {k}, event |-> k,
                             version |-> row.version]
              IN  \/ indexer' = [indexer EXCEPT ![w] = At(Plan(k, row))] /\ UNCHANGED spare
                  \/ indexer' = [indexer EXCEPT ![w] = At("fail")] /\ Disturbed
    /\ UNCHANGED <<article, event, search, vector, editor>>

\* Both tables at once; the statement on one of them, or on both, may fail.
Remove(w) ==
    /\ indexer[w].pc = "remove"
    /\ LET a == indexer[w].event[1]
           Without(table) ==
              IF table[a] <= indexer[w].event[2] THEN [table EXCEPT ![a] = 0] ELSE table
       IN  \/ /\ search' = Without(search) /\ vector' = Without(vector)
              /\ Goto(w, "complete")
           \/ /\ search' \in {search, Without(search)}
              /\ vector' \in {vector, Without(vector)}
              /\ Throws(w)
    /\ UNCHANGED <<article, event, editor>>

\* Mutation: the update has no WHERE.
Overwritten(table, a, v) == [table EXCEPT ![a] = v]

\* INSERT ... ON CONFLICT DO UPDATE ... WHERE sourceVersion <= EXCLUDED.sourceVersion
Upserted(table, a, v) == IF table[a] <= v THEN [table EXCEPT ![a] = v] ELSE table

\* The call of the AI gateway comes first; it, too, may throw.
UpsertSearch(w) ==
    /\ indexer[w].pc = "search"
    /\ \/ /\ search' = Upserted(search, indexer[w].event[1], indexer[w].version)
          /\ Goto(w, "vector")
       \/ Throws(w) /\ UNCHANGED search
    /\ UNCHANGED <<article, event, vector, editor>>

\* The Redis key is written after it; that may throw with the row in place.
UpsertVector(w) ==
    LET upserted == Upserted(vector, indexer[w].event[1], indexer[w].version)
    IN  /\ indexer[w].pc = "vector"
        /\ \/ vector' = upserted /\ Goto(w, "complete")
           \/ vector' \in {vector, upserted} /\ Throws(w)
        /\ UNCHANGED <<article, event, search, editor>>

Onward(w) == [indexer EXCEPT ![w] = [IdleIndexer EXCEPT !.pc = "next", !.batch = indexer[w].batch]]

\* An update that finds the lease gone throws into the handler that fails the event.
CompleteEvent(w) ==
    LET k == indexer[w].event
    IN  /\ indexer[w].pc = "complete"
        /\ IF Owned(event[k], w)
           THEN /\ event' = [event EXCEPT ![k] = Ended(@, "COMPLETED")]
                /\ indexer' = Onward(w)
           ELSE /\ indexer' = [indexer EXCEPT ![w].pc = "fail"]
                /\ UNCHANGED event
        /\ UNCHANGED <<article, search, vector, editor, spare>>

\* Without the lease this throws too, and the rest of the batch is left alone
\* until its leases run out.
FailEvent(w) ==
    LET k == indexer[w].event
        row == Failed(event[k], FALSE)
    IN  /\ indexer[w].pc = "fail"
        /\ IF Owned(event[k], w)
           THEN /\ event' = [event EXCEPT ![k] = row]
                /\ article' = Quarantine(article, IF row.status = "DEAD_LETTER" THEN {k} ELSE {})
                /\ indexer' = Onward(w)
           ELSE /\ indexer' = [indexer EXCEPT ![w] = IdleIndexer]
                /\ UNCHANGED <<article, event>>
        /\ UNCHANGED <<search, vector, editor, spare>>

IndexerStep(w) ==
    \/ NextEvent(w) \/ Remove(w) \/ UpsertSearch(w) \/ UpsertVector(w)
    \/ CompleteEvent(w) \/ FailEvent(w)

IndexerCrash(w) ==
    /\ indexer[w].pc # "idle"
    /\ indexer' = [indexer EXCEPT ![w] = IdleIndexer]
    /\ Disturbed
    /\ UNCHANGED <<article, event, search, vector, editor>>

WorkedOn(k) ==
    /\ event[k].status = "PROCESSING"
    /\ \E w \in Indexer : Owned(event[k], w) /\ k \in indexer[w].batch \cup {indexer[w].event}

\* A retry comes due, or a lease that nobody works under runs out, ...
EventRipens(k) ==
    /\ Waiting(event[k])
    /\ ~ WorkedOn(k)
    /\ event' = [event EXCEPT ![k] = Ripened(@)]
    /\ UNCHANGED <<article, search, vector, indexer, editor, spare>>

\* ... or one whose worker is still busy, for nothing renews it.
LeaseLapses(k) ==
    /\ Waiting(event[k])
    /\ WorkedOn(k)
    /\ event' = [event EXCEPT ![k] = Ripened(@)]
    /\ Disturbed
    /\ UNCHANGED <<article, search, vector, indexer, editor>>

KnowledgeNext ==
    \/ EditorNext
    \/ \E w \in Indexer : ClaimBatch(w) \/ IndexerStep(w) \/ IndexerCrash(w)
    \/ \E k \in Event : EventRipens(k) \/ LeaseLapses(k)

KnowledgeSpec == KnowledgeInit /\ [][KnowledgeNext]_knowledgeVars

\* Workers that are up keep polling, and time passes.
IndexersGoOn == \E w \in Indexer : ClaimBatch(w) \/ IndexerStep(w)
EventsRipen == \E k \in Event : EventRipens(k)

-----------------------------------------------------------------------------
\* State keeps its shape.
KnowledgeTypeOK ==
    /\ article \in [Article -> ArticleRow]
    /\ event \in [Event -> Row(Indexer)]
    /\ search \in [Article -> 0..MaxVersion]
    /\ vector \in [Article -> 0..MaxVersion]
    /\ indexer \in [Indexer ->
          [pc : {"idle", "next", "remove", "search", "vector", "complete", "fail"},
           batch : SUBSET Event, event : Event \cup {None}, version : 0..MaxVersion]]
    /\ editor \in [Editor -> [article : Article \cup {None}, version : 0..MaxVersion,
                              to : Visibility, approved : BOOLEAN]]
    /\ spare \in 0..Disturbances

\* An article readers may see whose event is done is in both indexes at its
\* current version, whatever late workers of earlier events still write.
IndexedWhenDone ==
    \A a \in Article :
        (/\ Exists(a) /\ Indexable(article[a])
         /\ event[Changed(a, article[a].version)].status = "COMPLETED")
        => search[a] = article[a].version /\ vector[a] = article[a].version

\* An article whose current version the workers gave up on is quarantined, so
\* that its failure shows and nothing half indexed is served.
HiddenWhenDead ==
    \A a \in Article :
        (Exists(a) /\ event[Changed(a, article[a].version)].status = "DEAD_LETTER")
        => article[a].quarantined

\* Every index event is done or given up; so it ends when the changes have stopped,
\* whichever workers died and whichever leases were lost on the way.
EventsAreSettled == \A k \in Event : event[k].status \in Settled \cup {"ABSENT"}

-----------------------------------------------------------------------------
(* What the documentation says and the code does not do; no run checks it. *)

Quiet ==
    /\ EventsAreSettled
    /\ \A w \in Indexer : indexer[w].pc = "idle"

\* Once all work is done, an archived or deleted article has no row in either
\* index: docs/runbooks/knowledge-reindex.md, "For archive/delete, verify both search
\* and vector rows are absent".
NoLeftovers ==
    Quiet => \A a \in Article :
        (article[a].version > 0 /\ (article[a].gone \/ article[a].status = "ARCHIVED")
         /\ ~ article[a].quarantined
         /\ \A v \in Version : event[Changed(a, v)].status # "DEAD_LETTER"
                               /\ event[<<a, v, "delete">>].status # "DEAD_LETTER")
        => search[a] = 0 /\ vector[a] = 0

\* An organization's article goes public in the version its approval names:
\* docs/runbooks/knowledge-publication.md:20.
PublicAsApproved ==
    [][\A a \in Article :
          (article'[a].approved # article[a].approved /\ article'[a].approved # 0)
          => article'[a].approved = article[a].version]_knowledgeVars
=============================================================================
