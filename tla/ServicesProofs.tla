--------------------------- MODULE ServicesProofs ---------------------------
(***************************************************************************)
(* The safety properties of the knowledge index, of the embedding of        *)
(* documents and of the AI budget, for any articles, editors, workers,      *)
(* generations, calls, keys and bounds.                                     *)
(*                                                                         *)
(* Late index workers write what they read long ago.  The rows they leave   *)
(* are still right because versions only grow: an event is never ahead of   *)
(* its article, a row of an index never is either, and what a worker knows  *)
(* of an article (indexable or not at the version of its event) can only    *)
(* stop to matter, never become false while the article keeps that version. *)
(*                                                                         *)
(* An embedding worker that was not overtaken is the only one, so what it   *)
(* has established of the row and the vectors stays true while it works.    *)
(*                                                                         *)
(* The budget is a matter of sums over all keys: a step moves one summand,  *)
(* and a call adds to them only after it has seen that there is room.       *)
(***************************************************************************)
EXTENDS KnowledgeIndexing, EmbeddingPipeline, AiBudget, FiniteSetTheorems, WellFoundedInduction, TLAPS

-----------------------------------------------------------------------------
(* The knowledge index. *)

\* The event is about the article as readers see it now.
Current(k) ==
    Exists(k[1]) /\ Indexable(article[k[1]]) /\ article[k[1]].version = k[2]

\* Events are about versions that have been there, and so are the rows.
Known == \A k \in Event : event[k].status # "ABSENT" => k[2] <= article[k[1]].version

NotAhead == \A a \in Article : search[a] <= article[a].version /\ vector[a] <= article[a].version

\* What a worker has established for its event where it stands.
HandOK(w) ==
    LET i == indexer[w]
        k == i.event
    IN  /\ \A q \in i.batch : event[q].status # "ABSENT"
        /\ i.pc \notin {"idle", "next"} => k \in Event /\ event[k].status # "ABSENT"
        /\ i.pc \in {"search", "vector"} => i.version = k[2]
        /\ i.pc = "remove" => ~ Current(k)
        /\ i.pc = "vector" /\ Current(k) => search[k[1]] = k[2]
        /\ i.pc = "complete" /\ Current(k) => search[k[1]] = k[2] /\ vector[k[1]] = k[2]

DoneOK ==
    \A k \in Event : event[k].status = "COMPLETED" /\ Current(k)
                        => search[k[1]] = k[2] /\ vector[k[1]] = k[2]

DeadOK ==
    \A k \in Event : event[k].status = "DEAD_LETTER" /\ Exists(k[1]) /\ article[k[1]].version = k[2]
                        => article[k[1]].quarantined

IndexerState ==
    [pc : {"idle", "next", "remove", "search", "vector", "complete", "fail"},
     batch : SUBSET Event, event : Event \cup {None}, version : 0..MaxVersion]

KnowledgeInv == KnowledgeTypeOK /\ Known /\ NotAhead /\ (\A w \in Indexer : HandOK(w)) /\ DoneOK /\ DeadOK

-----------------------------------------------------------------------------
\* Keys of events.
LEMMA EventParts ==
    /\ \A k \in Event : k[1] \in Article /\ k[2] \in Version /\ k[2] \in Int
    /\ \A a \in Article, v \in Version :
          /\ Changed(a, v) \in Event /\ <<a, v, "delete">> \in Event
          /\ Changed(a, v)[1] = a /\ Changed(a, v)[2] = v
          /\ <<a, v, "delete">>[1] = a /\ <<a, v, "delete">>[2] = v
  <1>1. MaxVersion \in Int
    BY KnowledgeAssumption
  <1> QED BY <1>1 DEF Event, Changed, Version

\* The first rows of the two tables.
LEMMA FirstRows ==
    /\ NoArticle \in ArticleRow /\ NoArticle.version = 0
    /\ Published \in ArticleRow /\ Published.version = 1
    /\ NoRow \in Row(Indexer) /\ NoRow.status = "ABSENT"
    /\ PendingRow \in Row(Indexer) /\ PendingRow.status = "PENDING"
    /\ LastTry \in Row(Indexer) /\ LastTry.status = "FAILED"
  <1>1. MaxVersion \in Nat \ {0} /\ MaxAttempts \in Nat \ {0}
    BY KnowledgeAssumption, OutboxAssumption
  <1>2. 0 \in 0..MaxVersion /\ 1 \in 0..MaxVersion /\ 0 \in 0..MaxAttempts /\ MaxAttempts - 1 \in 0..MaxAttempts
    BY <1>1
  <1>3. NoArticle \in ArticleRow /\ NoArticle.version = 0
    BY <1>2 DEF NoArticle, ArticleRow, Visibility
  <1>4. Published \in ArticleRow /\ Published.version = 1
    BY <1>2 DEF Published, NoArticle, ArticleRow, Visibility
  <1>5. NoRow \in Row(Indexer) /\ NoRow.status = "ABSENT"
    BY <1>2 DEF NoRow, Row, RowStatus
  <1>6. PendingRow \in Row(Indexer) /\ PendingRow.status = "PENDING"
    BY <1>2 DEF PendingRow, NoRow, Row, RowStatus
  <1>7. LastTry \in Row(Indexer) /\ LastTry.status = "FAILED"
    BY <1>2, <1>6 DEF LastTry, Row, RowStatus
  <1> QED BY <1>3, <1>4, <1>5, <1>6, <1>7

\* The initial state satisfies the inductive invariant.
LEMMA KnowledgeStarts == KnowledgeInit => KnowledgeInv
  <1> SUFFICES ASSUME KnowledgeInit PROVE KnowledgeInv
    OBVIOUS
  <1>0. MaxVersion \in Nat \ {0} /\ 0 \in 0..MaxVersion /\ Disturbances \in 0..Disturbances
    BY KnowledgeAssumption
  <1>1. article \in [Article -> {NoArticle, Published}]
    BY DEF KnowledgeInit
  <1>2. PICK row \in {PendingRow, LastTry} : event = [k \in Event |->
             IF k[3] = "change" /\ article[k[1]].version = k[2] THEN row ELSE NoRow]
    BY DEF KnowledgeInit
  <1>3. event \in [Event -> Row(Indexer)]
    BY <1>2, FirstRows
  <1>4. \A k \in Event : /\ event[k].status \notin {"COMPLETED", "DEAD_LETTER"}
                         /\ event[k].status # "ABSENT" => article[k[1]].version = k[2]
    BY <1>2, FirstRows
  <1>5. IdleIndexer \in [pc : {"idle", "next", "remove", "search", "vector", "complete", "fail"},
                         batch : SUBSET Event, event : Event \cup {None}, version : 0..MaxVersion]
    BY <1>0 DEF IdleIndexer
  <1>6. IdleEditor \in [article : Article \cup {None}, version : 0..MaxVersion,
                        to : Visibility, approved : BOOLEAN]
    BY <1>0 DEF IdleEditor, Visibility
  <1>7. article \in [Article -> ArticleRow]
    BY <1>1, FirstRows
  <1>8. KnowledgeTypeOK
    BY <1>0, <1>3, <1>5, <1>6, <1>7 DEF KnowledgeInit, KnowledgeTypeOK
  <1>9. Known
    BY <1>4, EventParts DEF Known
  <1>10. NotAhead
    BY <1>1, FirstRows DEF NotAhead, KnowledgeInit
  <1>11. \A w \in Indexer : HandOK(w)
    BY DEF HandOK, KnowledgeInit, IdleIndexer
  <1>12. DoneOK /\ DeadOK
    BY <1>4 DEF DoneOK, DeadOK
  <1> QED BY <1>8, <1>9, <1>10, <1>11, <1>12 DEF KnowledgeInv

-----------------------------------------------------------------------------
\* How a row of an article may change: it is given up, deleted, or written with
\* the next version.
RowStep(a) ==
    \/ article'[a] = article[a]
    \/ article'[a] = [article[a] EXCEPT !.quarantined = TRUE]
    \/ article'[a] = [article[a] EXCEPT !.gone = TRUE]
    \/ article'[a].version = article[a].version + 1

\* Seen from an event that exists, an article that is current was so before.
LEMMA CurrentWas ==
    ASSUME KnowledgeInv, NEW k \in Event, event[k].status # "ABSENT", RowStep(k[1])
    PROVE  /\ k[2] <= article'[k[1]].version
           /\ Current(k)' => Current(k)
           /\ article'[k[1]].version = k[2] =>
                /\ article[k[1]].version = k[2]
                /\ Exists(k[1])' => Exists(k[1])
                /\ article[k[1]].quarantined => article'[k[1]].quarantined
  <1>1. MaxVersion \in Int
    BY KnowledgeAssumption
  <1>2. article[k[1]] \in ArticleRow /\ k[2] \in Int /\ k[2] <= article[k[1]].version
    BY EventParts DEF KnowledgeInv, KnowledgeTypeOK, Known
  <1>3. article[k[1]].version \in Int
    BY <1>1, <1>2 DEF ArticleRow
  <1>4. \/ /\ article'[k[1]].version = article[k[1]].version
           /\ article'[k[1]].status = article[k[1]].status
           /\ article'[k[1]].visibility = article[k[1]].visibility
           /\ article[k[1]].gone => article'[k[1]].gone
           /\ article[k[1]].quarantined => article'[k[1]].quarantined
        \/ article'[k[1]].version = article[k[1]].version + 1
    BY <1>2 DEF RowStep, ArticleRow
  <1> QED BY <1>2, <1>3, <1>4 DEF Current, Exists, Indexable

\* A step keeps the invariant if articles go forward, events are neither lost nor
\* ahead, rows of articles that are current stay, and whatever is newly done, given
\* up or in a worker's hand is so rightly.
LEMMA StepKeeps ==
    ASSUME KnowledgeInv, KnowledgeTypeOK',
           \A a \in Article : RowStep(a),
           \A k \in Event : event[k].status # "ABSENT" => event'[k].status # "ABSENT",
           \A k \in Event : event'[k].status # "ABSENT"
               => event[k].status # "ABSENT" \/ k[2] <= article'[k[1]].version,
           \A k \in Event : Current(k) => /\ search[k[1]] = k[2] => search'[k[1]] = k[2]
                                          /\ vector[k[1]] = k[2] => vector'[k[1]] = k[2],
           NotAhead',
           \A k \in Event : event'[k].status = "COMPLETED"
               => event[k].status = "COMPLETED" \/ (Current(k)' => search'[k[1]] = k[2] /\ vector'[k[1]] = k[2]),
           \A k \in Event : event'[k].status = "DEAD_LETTER"
               => event[k].status = "DEAD_LETTER" \/ (Exists(k[1])' /\ article'[k[1]].version = k[2]
                                                         => article'[k[1]].quarantined),
           \A w \in Indexer : indexer'[w] = indexer[w] \/ HandOK(w)'
    PROVE  KnowledgeInv'
  <1>1. Known'
    <2> SUFFICES ASSUME NEW k \in Event, event'[k].status # "ABSENT" PROVE k[2] <= article'[k[1]].version
      BY DEF Known
    <2> QED BY CurrentWas, EventParts
  <1>2. \A w \in Indexer : HandOK(w)'
    <2> SUFFICES ASSUME NEW w \in Indexer, indexer'[w] = indexer[w] PROVE HandOK(w)'
      OBVIOUS
    <2>1. HandOK(w) /\ indexer[w].batch \subseteq Event
      BY DEF KnowledgeInv, KnowledgeTypeOK
    <2>2. \A q \in indexer'[w].batch : event'[q].status # "ABSENT"
      BY <2>1 DEF HandOK
    <2>3. ASSUME indexer[w].pc \notin {"idle", "next"}
          PROVE  LET k == indexer[w].event
                 IN  /\ k \in Event /\ event[k].status # "ABSENT" /\ event'[k].status # "ABSENT"
                     /\ Current(k)' => Current(k)
      <3>1. indexer[w].event \in Event /\ event[indexer[w].event].status # "ABSENT"
        BY <2>1, <2>3 DEF HandOK
      <3>2. RowStep(indexer[w].event[1])
        BY <3>1, EventParts
      <3> DEFINE k == indexer[w].event
      <3>3. PICK q \in Event : q = k
        BY <3>1
      <3>4. Current(q)' => Current(q)
        BY <3>1, <3>2, <3>3, CurrentWas
      <3> QED BY <3>1, <3>3, <3>4
    <2> QED BY <2>1, <2>2, <2>3 DEF HandOK
  <1>3. DoneOK'
    <2> SUFFICES ASSUME NEW k \in Event, event'[k].status = "COMPLETED", Current(k)'
                 PROVE  search'[k[1]] = k[2] /\ vector'[k[1]] = k[2]
      BY DEF DoneOK
    <2>1. CASE event[k].status = "COMPLETED"
      <3>1. Current(k)
        BY <2>1, CurrentWas, EventParts
      <3> QED BY <2>1, <3>1 DEF KnowledgeInv, DoneOK
    <2>2. CASE event[k].status # "COMPLETED"
      BY <2>2
    <2> QED BY <2>1, <2>2
  <1>4. DeadOK'
    <2> SUFFICES ASSUME NEW k \in Event, event'[k].status = "DEAD_LETTER",
                        Exists(k[1])', article'[k[1]].version = k[2]
                 PROVE  article'[k[1]].quarantined
      BY DEF DeadOK
    <2>1. CASE event[k].status = "DEAD_LETTER"
      BY <2>1, CurrentWas, EventParts DEF KnowledgeInv, DeadOK
    <2>2. CASE event[k].status # "DEAD_LETTER"
      BY <2>2
    <2> QED BY <2>1, <2>2
  <1> QED BY <1>1, <1>2, <1>3, <1>4 DEF KnowledgeInv

\* A step that leaves articles, events and tables alone.
LEMMA HandsKeep ==
    ASSUME KnowledgeInv, KnowledgeTypeOK', UNCHANGED <<article, event, search, vector>>,
           \A w \in Indexer : indexer'[w] = indexer[w] \/ HandOK(w)'
    PROVE  KnowledgeInv'
  <1>1. \A a \in Article : RowStep(a)
    BY DEF RowStep
  <1>2. NotAhead'
    BY DEF KnowledgeInv, NotAhead
  <1> QED BY <1>1, <1>2, StepKeeps

-----------------------------------------------------------------------------
\* The trigger.
LEMMA EnqueuedRows ==
    ASSUME event \in [Event -> Row(Indexer)], NEW q \in Event
    PROVE  /\ Enqueued(event, q) \in [Event -> Row(Indexer)]
           /\ \A k \in Event :
                 /\ k # q => Enqueued(event, q)[k] = event[k]
                 /\ event[k].status # "ABSENT" => Enqueued(event, q)[k] = event[k]
                 /\ Enqueued(event, q)[k] = event[k] \/ Enqueued(event, q)[k].status = "PENDING"
  BY FirstRows DEF Enqueued

\* The update of an article, with the next version and its event.
LEMMA WriteKeepsInv ==
    ASSUME KnowledgeInv, NEW a \in Article, NEW row \in ArticleRow, row.version = article[a].version + 1,
           Write(a, row), UNCHANGED editor \/ \E e \in Editor : editor' = [editor EXCEPT ![e] = IdleEditor]
    PROVE  KnowledgeInv'
  <1>0. MaxVersion \in Nat \ {0} /\ 0 \in 0..MaxVersion
    BY KnowledgeAssumption
  <1>1. /\ article' = [article EXCEPT ![a] = row] /\ row.version <= MaxVersion
        /\ event' = Enqueued(event, Changed(a, row.version))
        /\ UNCHANGED <<search, vector, indexer, spare>>
    BY DEF Write
  <1>2. article \in [Article -> ArticleRow] /\ event \in [Event -> Row(Indexer)]
    BY DEF KnowledgeInv, KnowledgeTypeOK
  <1>3. article[a].version \in 0..MaxVersion
    BY <1>2 DEF ArticleRow
  <1>4. row.version \in Version
    BY <1>0, <1>1, <1>3 DEF Version
  <1>5. PICK q \in Event : q = Changed(a, row.version) /\ q[1] = a /\ q[2] = row.version
    <2> DEFINE v == row.version
    <2>1. v \in Version
      BY <1>4
    <2> HIDE DEF v
    <2>2. Changed(a, v) \in Event /\ Changed(a, v)[1] = a /\ Changed(a, v)[2] = v
      BY <2>1, EventParts
    <2> QED BY <2>2 DEF v
  <1>6. /\ event' \in [Event -> Row(Indexer)]
        /\ \A k \in Event : /\ k # q => event'[k] = event[k]
                            /\ event[k].status # "ABSENT" => event'[k] = event[k]
                            /\ event'[k] = event[k] \/ event'[k].status = "PENDING"
    BY <1>1, <1>2, <1>5, EnqueuedRows
  <1>7. article' \in [Article -> ArticleRow] /\ article'[a] = row /\ \A b \in Article : b # a => article'[b] = article[b]
    BY <1>1, <1>2
  <1>8. editor' \in [Editor -> [article : Article \cup {None}, version : 0..MaxVersion,
                               to : Visibility, approved : BOOLEAN]]
    <2>1. IdleEditor \in [article : Article \cup {None}, version : 0..MaxVersion, to : Visibility, approved : BOOLEAN]
      BY <1>0 DEF IdleEditor, Visibility
    <2> QED BY <2>1 DEF KnowledgeInv, KnowledgeTypeOK
  <1>9. KnowledgeTypeOK'
    BY <1>1, <1>6, <1>7, <1>8 DEF KnowledgeInv, KnowledgeTypeOK
  <1>10. \A b \in Article : RowStep(b)
    BY <1>7 DEF RowStep
  <1>11. NotAhead'
    <2> SUFFICES ASSUME NEW b \in Article
                 PROVE  search[b] <= article'[b].version /\ vector[b] <= article'[b].version
      BY <1>1 DEF NotAhead
    <2>1. /\ search[b] \in Int /\ vector[b] \in Int /\ article[b].version \in Int
          /\ search[b] <= article[b].version /\ vector[b] <= article[b].version
      BY <1>0, <1>2 DEF KnowledgeInv, KnowledgeTypeOK, NotAhead, ArticleRow
    <2> QED BY <1>7, <2>1
  <1>12. \A k \in Event : event'[k].status # "ABSENT"
               => event[k].status # "ABSENT" \/ k[2] <= article'[k[1]].version
    <2> SUFFICES ASSUME NEW k \in Event, event'[k] # event[k] PROVE k[2] <= article'[k[1]].version
      OBVIOUS
    <2>1. k = q
      BY <1>6
    <2> QED BY <1>0, <1>4, <1>5, <1>7, <2>1 DEF Version
  <1> QED BY <1>1, <1>6, <1>9, <1>10, <1>11, <1>12, StepKeeps

\* Editors and operators.
LEMMA EditorKeepsInv == ASSUME KnowledgeInv, EditorNext PROVE KnowledgeInv'
  <1>0. MaxVersion \in Nat \ {0} /\ 0 \in 0..MaxVersion /\ 1 \in 0..MaxVersion
    BY KnowledgeAssumption
  <1>1. /\ article \in [Article -> ArticleRow] /\ event \in [Event -> Row(Indexer)]
        /\ editor \in [Editor -> [article : Article \cup {None}, version : 0..MaxVersion,
                                  to : Visibility, approved : BOOLEAN]]
    BY DEF KnowledgeInv, KnowledgeTypeOK
  <1>2. \A a \in Article : article[a].version \in 0..MaxVersion /\ article[a].version + 1 \in Nat
    BY <1>0, <1>1 DEF ArticleRow
  <1>3. ASSUME NEW a \in Article, NEW s \in {"PLATFORM", "ORGANIZATION"}, Create(a, s) PROVE KnowledgeInv'
    <2> DEFINE row == [NoArticle EXCEPT !.version = 1, !.scope = s]
    <2>1. row \in ArticleRow
      BY <1>0, FirstRows DEF ArticleRow
    <2>3. row.version = article[a].version + 1
      <3>1. row.version = 1
        BY DEF NoArticle
      <3> QED BY <1>3, <3>1 DEF Create
    <2>2. Write(a, row) /\ UNCHANGED editor
      BY <1>3 DEF Create
    <2> HIDE DEF row
    <2> QED BY <2>1, <2>2, <2>3, WriteKeepsInv
  <1>4. ASSUME NEW a \in Article, NEW s \in Lifecycle, SetStatus(a, s) PROVE KnowledgeInv'
    <2> DEFINE row == [article[a] EXCEPT !.status = s, !.version = @ + 1]
    <2>1. Write(a, row) /\ UNCHANGED editor
      BY <1>4 DEF SetStatus
    <2>2. row.version = article[a].version + 1
      BY <1>1 DEF ArticleRow
    <2>3. row.version \in 0..MaxVersion
      BY <1>0, <1>2, <2>1, <2>2 DEF Write
    <2>4. row \in ArticleRow
      <3>1. s \in {"DRAFT", "REVIEW", "PUBLISHED", "ARCHIVED"}
        BY KnowledgeAssumption
      <3>2. article[a] \in ArticleRow
        BY <1>1
      <3> QED BY <2>2, <2>3, <3>1, <3>2 DEF ArticleRow
    <2> HIDE DEF row
    <2> QED BY <2>1, <2>2, <2>4, WriteKeepsInv
  <1>5. ASSUME NEW a \in Article, Reindex(a) PROVE KnowledgeInv'
    <2> DEFINE row == [article[a] EXCEPT !.quarantined = FALSE, !.version = @ + 1]
    <2>1. Write(a, row) /\ UNCHANGED editor
      BY <1>5 DEF Reindex
    <2>2. row.version = article[a].version + 1
      BY <1>1 DEF ArticleRow
    <2>3. row.version \in 0..MaxVersion
      BY <1>0, <1>2, <2>1, <2>2 DEF Write
    <2>4. row \in ArticleRow
      BY <1>1, <2>2, <2>3 DEF ArticleRow
    <2> HIDE DEF row
    <2> QED BY <2>1, <2>2, <2>4, WriteKeepsInv
  <1>6. ASSUME NEW a \in Article, Delete(a) PROVE KnowledgeInv'
    <2>1. /\ article' = [article EXCEPT ![a].gone = TRUE]
          /\ event' = Enqueued(event, <<a, article[a].version, "delete">>)
          /\ UNCHANGED <<search, vector, indexer, editor, spare>>
          /\ article[a].version > 0
      BY <1>6 DEF Delete, Exists
    <2>2. article[a].version \in Version
      BY <1>0, <1>2, <2>1 DEF Version
    <2>3. PICK q \in Event : q = <<a, article[a].version, "delete">> /\ q[1] = a /\ q[2] = article[a].version
      <3> DEFINE v == article[a].version
      <3>1. v \in Version
        BY <2>2
      <3> HIDE DEF v
      <3>2. <<a, v, "delete">> \in Event /\ <<a, v, "delete">>[1] = a /\ <<a, v, "delete">>[2] = v
        BY <3>1, EventParts
      <3> QED BY <3>2 DEF v
    <2>4. /\ event' \in [Event -> Row(Indexer)]
          /\ \A k \in Event : /\ k # q => event'[k] = event[k]
                              /\ event[k].status # "ABSENT" => event'[k] = event[k]
                              /\ event'[k] = event[k] \/ event'[k].status = "PENDING"
      BY <1>1, <2>1, <2>3, EnqueuedRows
    <2>5. /\ article' \in [Article -> ArticleRow]
          /\ \A b \in Article : RowStep(b) /\ article'[b].version = article[b].version
      <3>1. PICK row : row = [article[a] EXCEPT !.gone = TRUE]
        OBVIOUS
      <3>2. row \in ArticleRow /\ row.version = article[a].version
        BY <1>1, <3>1 DEF ArticleRow
      <3>3. /\ article' \in [Article -> ArticleRow] /\ article'[a] = row
            /\ \A b \in Article : b # a => article'[b] = article[b]
        BY <1>1, <2>1, <3>1, <3>2
      <3> QED BY <3>1, <3>2, <3>3 DEF RowStep
    <2>6. KnowledgeTypeOK' /\ NotAhead'
      BY <2>1, <2>4, <2>5 DEF KnowledgeInv, KnowledgeTypeOK, NotAhead
    <2>7. \A k \in Event : event'[k].status # "ABSENT"
                 => event[k].status # "ABSENT" \/ k[2] <= article'[k[1]].version
      <3> SUFFICES ASSUME NEW k \in Event, event'[k] # event[k] PROVE k[2] <= article'[k[1]].version
        OBVIOUS
      <3>1. k = q
        BY <2>4
      <3> QED BY <1>2, <2>3, <2>5, <3>1
    <2> QED BY <2>1, <2>4, <2>5, <2>6, <2>7, StepKeeps
  <1>7. ASSUME NEW e \in Editor, NEW a \in Article, NEW to \in Audience, FindArticle(e, a, to) PROVE KnowledgeInv'
    <2> DEFINE found == [article |-> a, version |-> article[a].version, to |-> to,
                         approved |-> article[a].scope = "ORGANIZATION" /\ to = "PUBLIC"]
    <2>1. found \in [article : Article \cup {None}, version : 0..MaxVersion, to : Visibility, approved : BOOLEAN]
      BY <1>2, KnowledgeAssumption DEF Visibility
    <2>2. editor' = [editor EXCEPT ![e] = found] /\ UNCHANGED <<article, event, search, vector, indexer, spare>>
      BY <1>7 DEF FindArticle
    <2> HIDE DEF found
    <2>3. KnowledgeTypeOK'
      BY <2>1, <2>2 DEF KnowledgeInv, KnowledgeTypeOK
    <2> QED BY <2>2, <2>3, HandsKeep
  <1>8. ASSUME NEW e \in Editor, SetVisibility(e) \/ PublishApproved(e) PROVE KnowledgeInv'
    <2>1. PICK a \in Article : a = editor[e].article
      BY <1>1, <1>8 DEF SetVisibility, PublishApproved
    <2>2. editor' = [editor EXCEPT ![e] = IdleEditor]
      BY <1>8 DEF SetVisibility, PublishApproved
    <2>3. editor[e].to \in Visibility /\ editor[e].version \in 0..MaxVersion
      BY <1>1
    <2>4. CASE UNCHANGED <<article, event, search, vector, indexer, spare>>
      <3>1. IdleEditor \in [article : Article \cup {None}, version : 0..MaxVersion, to : Visibility, approved : BOOLEAN]
        BY <1>0 DEF IdleEditor, Visibility
      <3>2. KnowledgeTypeOK'
        BY <2>2, <2>4, <3>1 DEF KnowledgeInv, KnowledgeTypeOK
      <3> QED BY <2>4, <3>2, HandsKeep
    <2>5. ASSUME NEW to \in Visibility, NEW v \in 0..MaxVersion,
                 Write(a, [article[a] EXCEPT !.visibility = to, !.approved = v, !.version = @ + 1])
          PROVE  KnowledgeInv'
      <3> DEFINE row == [article[a] EXCEPT !.visibility = to, !.approved = v, !.version = @ + 1]
      <3>1. row.version = article[a].version + 1
        BY <1>1 DEF ArticleRow
      <3>2. row.version \in 0..MaxVersion
        BY <1>0, <1>2, <2>5, <3>1 DEF Write
      <3>3. row \in ArticleRow
        BY <1>1, <3>1, <3>2 DEF ArticleRow
      <3>4. Write(a, row)
        BY <2>5
      <3> HIDE DEF row
      <3> QED BY <2>2, <3>1, <3>3, <3>4, WriteKeepsInv
    <2>6. CASE SetVisibility(e)
      BY <1>0, <2>1, <2>3, <2>4, <2>5, <2>6 DEF SetVisibility
    <2>7. CASE PublishApproved(e)
      <3>1. "PUBLIC" \in Visibility
        BY DEF Visibility
      <3> QED BY <2>1, <2>3, <2>4, <2>5, <2>7, <3>1 DEF PublishApproved
    <2> QED BY <1>8, <2>6, <2>7
  <1> QED BY <1>3, <1>4, <1>5, <1>6, <1>7, <1>8 DEF EditorNext

-----------------------------------------------------------------------------
\* Rows of events stay rows.
LEMMA RowsStayRows ==
    ASSUME NEW row \in Row(Indexer)
    PROVE  /\ \A status \in RowStatus : Ended(row, status) \in Row(Indexer) /\ Ended(row, status).status = status
           /\ Failed(row, FALSE) \in Row(Indexer) /\ Failed(row, FALSE).status \in {"DEAD_LETTER", "FAILED"}
           /\ Ripened(row) \in Row(Indexer) /\ Ripened(row).status = row.status
           /\ Claimable(row) => \A w \in Indexer : /\ Claimed(row, w) \in Row(Indexer)
                                                   /\ Claimed(row, w).status = "PROCESSING"
  <1>1. \A status \in RowStatus : Ended(row, status) \in Row(Indexer) /\ Ended(row, status).status = status
    BY DEF Row, Ended
  <1>2. Failed(row, FALSE) \in Row(Indexer) /\ Failed(row, FALSE).status \in {"DEAD_LETTER", "FAILED"}
    BY <1>1 DEF Failed, RowStatus
  <1>3. Ripened(row) \in Row(Indexer) /\ Ripened(row).status = row.status
    BY DEF Row, Ripened
  <1>4. Claimable(row) => \A w \in Indexer : /\ Claimed(row, w) \in Row(Indexer)
                                             /\ Claimed(row, w).status = "PROCESSING"
    <2>1. MaxAttempts \in Nat
      BY OutboxAssumption
    <2>2. Claimable(row) => row.attempts + 1 \in 0..MaxAttempts
      BY <2>1 DEF Claimable, Row
    <2> QED BY <2>2 DEF Row, Claimed, RowStatus
  <1> QED BY <1>1, <1>2, <1>3, <1>4

\* What is left of the disturbances.
LEMMA SpareKeeps == KnowledgeInv /\ (UNCHANGED spare \/ Disturbed) => spare' \in 0..Disturbances
  <1> SUFFICES ASSUME KnowledgeInv, UNCHANGED spare \/ Disturbed PROVE spare' \in 0..Disturbances
    OBVIOUS
  <1>1. Disturbances \in Nat /\ spare \in 0..Disturbances
    BY KnowledgeAssumption DEF KnowledgeInv, KnowledgeTypeOK
  <1> QED BY <1>1 DEF Disturbed

\* Giving up events: their articles are quarantined if they are still at that version.
LEMMA QuarantineSteps ==
    ASSUME KnowledgeInv, NEW dead \in SUBSET Event, article' = Quarantine(article, dead)
    PROVE  /\ article' \in [Article -> ArticleRow]
           /\ \A a \in Article : RowStep(a) /\ article'[a].version = article[a].version
           /\ \A k \in dead : Exists(k[1])' /\ article'[k[1]].version = k[2] => article'[k[1]].quarantined
  <1>1. article \in [Article -> ArticleRow]
    BY DEF KnowledgeInv, KnowledgeTypeOK
  <1>2. \A a \in Article :
          \/ article'[a] = article[a] /\ ~ (Exists(a) /\ \E k \in dead : k[1] = a /\ k[2] = article[a].version)
          \/ article'[a] = [article[a] EXCEPT !.quarantined = TRUE]
    BY DEF Quarantine
  <1>3. \A a \in Article : /\ [article[a] EXCEPT !.quarantined = TRUE] \in ArticleRow
                           /\ [article[a] EXCEPT !.quarantined = TRUE].version = article[a].version
                           /\ [article[a] EXCEPT !.quarantined = TRUE].quarantined
    BY <1>1 DEF ArticleRow
  <1>4. article' \in [Article -> ArticleRow]
    <2>1. \A a \in Article : article'[a] \in ArticleRow
      BY <1>1, <1>2, <1>3
    <2> QED BY <2>1 DEF Quarantine
  <1>5. \A a \in Article : RowStep(a) /\ article'[a].version = article[a].version
    BY <1>2, <1>3 DEF RowStep
  <1>6. ASSUME NEW k \in dead, Exists(k[1])', article'[k[1]].version = k[2]
        PROVE  article'[k[1]].quarantined
    <2>1. k[1] \in Article
      BY EventParts
    <2>2. CASE article'[k[1]] = article[k[1]]
      <3>1. Exists(k[1]) /\ article[k[1]].version = k[2]
        BY <1>6, <2>2 DEF Exists
      <3> QED BY <1>2, <1>3, <2>1, <2>2, <3>1
    <2>3. CASE article'[k[1]] # article[k[1]]
      BY <1>2, <1>3, <2>1, <2>3
    <2> QED BY <2>2, <2>3
  <1> QED BY <1>4, <1>5, <1>6

\* A step that gives up events at most, and in which workers let events go.
LEMMA LettingGoKeeps ==
    ASSUME KnowledgeInv, NEW dead \in SUBSET Event, article' = Quarantine(article, dead),
           event' \in [Event -> Row(Indexer)],
           indexer' \in [Indexer -> IndexerState],
           \A w \in Indexer : indexer'[w] = indexer[w] \/ HandOK(w)',
           \A k \in Event : /\ (event'[k].status = "ABSENT") = (event[k].status = "ABSENT")
                            /\ event'[k].status = "COMPLETED" => event[k].status = "COMPLETED"
                            /\ event'[k].status = "DEAD_LETTER" => event[k].status = "DEAD_LETTER" \/ k \in dead,
           spare' \in 0..Disturbances, UNCHANGED <<search, vector, editor>>
    PROVE  KnowledgeInv'
  <1>1. /\ article' \in [Article -> ArticleRow]
        /\ \A a \in Article : RowStep(a) /\ article'[a].version = article[a].version
        /\ \A k \in dead : Exists(k[1])' /\ article'[k[1]].version = k[2] => article'[k[1]].quarantined
    BY QuarantineSteps
  <1>2. KnowledgeTypeOK' /\ NotAhead'
    BY <1>1 DEF KnowledgeInv, KnowledgeTypeOK, IndexerState, NotAhead
  <1> QED BY <1>1, <1>2, StepKeeps

-----------------------------------------------------------------------------
\* A worker takes a batch, and buries events whose last lease ran out.
LEMMA ClaimKeepsInv ==
    ASSUME KnowledgeInv, NEW w \in Indexer, ClaimBatch(w)
    PROVE  KnowledgeInv'
  <1>1. PICK S \in Batches(event) :
          /\ event' = AfterClaim(event, w, S)
          /\ article' = Quarantine(article, {k \in Event : Exhausted(event[k])})
          /\ indexer' = [indexer EXCEPT ![w] =
                IF S = {} THEN IdleIndexer ELSE [IdleIndexer EXCEPT !.pc = "next", !.batch = S]]
          /\ UNCHANGED <<search, vector, editor, spare>>
    BY DEF ClaimBatch
  <1> DEFINE dead == {k \in Event : Exhausted(event[k])}
  <1>2. event \in [Event -> Row(Indexer)] /\ dead \in SUBSET Event /\ 0 \in 0..MaxVersion
    BY KnowledgeAssumption DEF KnowledgeInv, KnowledgeTypeOK
  <1>3. S \in SUBSET Event /\ \A k \in S : Claimable(event[k]) /\ event[k].status # "ABSENT"
    BY <1>2 DEF Batches, Claimable
  <1>4. \A k \in Event :
          \/ event'[k] = Ended(event[k], "DEAD_LETTER") /\ k \in dead
          \/ event'[k] = Claimed(event[k], w) /\ Claimable(event[k])
          \/ event'[k] = event[k]
    BY <1>1, <1>2, <1>3 DEF AfterClaim
  <1>5. \A k \in Event : /\ event'[k] \in Row(Indexer)
                         /\ (event'[k].status = "ABSENT") = (event[k].status = "ABSENT")
                         /\ event'[k].status = "COMPLETED" => event[k].status = "COMPLETED"
                         /\ event'[k].status = "DEAD_LETTER" => event[k].status = "DEAD_LETTER" \/ k \in dead
    <2> SUFFICES ASSUME NEW k \in Event
                 PROVE  /\ event'[k] \in Row(Indexer)
                        /\ (event'[k].status = "ABSENT") = (event[k].status = "ABSENT")
                        /\ event'[k].status = "COMPLETED" => event[k].status = "COMPLETED"
                        /\ event'[k].status = "DEAD_LETTER" => event[k].status = "DEAD_LETTER" \/ k \in dead
      OBVIOUS
    <2>1. event[k] \in Row(Indexer)
      BY <1>2
    <2>2. CASE event'[k] = Ended(event[k], "DEAD_LETTER") /\ k \in dead
      <3>1. event[k].status = "PROCESSING"
        BY <2>2 DEF Exhausted
      <3>2. Ended(event[k], "DEAD_LETTER") \in Row(Indexer) /\ Ended(event[k], "DEAD_LETTER").status = "DEAD_LETTER"
        BY <2>1, RowsStayRows DEF RowStatus
      <3> QED BY <2>2, <3>1, <3>2
    <2>3. CASE event'[k] = Claimed(event[k], w) /\ Claimable(event[k])
      <3>1. event[k].status # "ABSENT"
        BY <2>3 DEF Claimable
      <3>2. Claimed(event[k], w) \in Row(Indexer) /\ Claimed(event[k], w).status = "PROCESSING"
        BY <2>1, <2>3, RowsStayRows
      <3> QED BY <2>3, <3>1, <3>2
    <2>4. CASE event'[k] = event[k]
      BY <2>1, <2>4
    <2> QED BY <1>4, <2>2, <2>3, <2>4
  <1>6. event' \in [Event -> Row(Indexer)]
    <2>1. DOMAIN event' = Event /\ event' = [k \in Event |-> event'[k]]
      BY <1>1, <1>2 DEF AfterClaim
    <2> QED BY <1>5, <2>1
  <1> DEFINE hand == IF S = {} THEN IdleIndexer ELSE [IdleIndexer EXCEPT !.pc = "next", !.batch = S]
  <1>7. hand \in IndexerState /\ hand.batch = S /\ hand.pc \in {"idle", "next"}
    BY <1>2, <1>3 DEF IdleIndexer, IndexerState
  <1>8. indexer' = [indexer EXCEPT ![w] = hand]
    BY <1>1
  <1> HIDE DEF hand, dead
  <1>9. indexer' \in [Indexer -> IndexerState] /\ indexer'[w] = hand /\ \A v \in Indexer : v # w => indexer'[v] = indexer[v]
    BY <1>7, <1>8 DEF KnowledgeInv, KnowledgeTypeOK, IndexerState
  <1>10. HandOK(w)'
    BY <1>3, <1>5, <1>7, <1>9 DEF HandOK
  <1>11. article' = Quarantine(article, dead)
    BY <1>1 DEF dead
  <1>12. spare' \in 0..Disturbances
    BY <1>1, SpareKeeps
  <1> QED BY <1>1, <1>2, <1>5, <1>6, <1>9, <1>10, <1>11, <1>12, LettingGoKeeps

\* A worker that changes nothing but where it is.
LEMMA HandKeeps ==
    ASSUME KnowledgeInv, NEW w \in Indexer, NEW hand \in IndexerState, indexer' = [indexer EXCEPT ![w] = hand],
           spare' \in 0..Disturbances, UNCHANGED <<article, event, search, vector, editor>>,
           HandOK(w)'
    PROVE  KnowledgeInv'
  <1>1. indexer' \in [Indexer -> IndexerState] /\ \A v \in Indexer : v # w => indexer'[v] = indexer[v]
    BY DEF KnowledgeInv, KnowledgeTypeOK, IndexerState
  <1>2. KnowledgeTypeOK'
    BY <1>1 DEF KnowledgeInv, KnowledgeTypeOK, IndexerState
  <1> QED BY <1>1, <1>2, HandsKeep

\* The worker reads the article of an event, and decides.
LEMMA NextKeepsInv ==
    ASSUME KnowledgeInv, NEW w \in Indexer, NextEvent(w)
    PROVE  KnowledgeInv'
  <1>1. /\ UNCHANGED <<article, event, search, vector, editor>> /\ (UNCHANGED spare \/ Disturbed)
        /\ indexer[w].pc = "next"
    BY DEF NextEvent
  <1>2. spare' \in 0..Disturbances
    BY <1>1, SpareKeeps
  <1>3. CASE indexer' = [indexer EXCEPT ![w] = IdleIndexer]
    <2>1. IdleIndexer \in IndexerState
      BY KnowledgeAssumption DEF IdleIndexer, IndexerState
    <2>2. indexer'[w] = IdleIndexer
      BY <1>3 DEF KnowledgeInv, KnowledgeTypeOK
    <2>3. HandOK(w)'
      BY <2>2 DEF HandOK, IdleIndexer
    <2> QED BY <1>1, <1>2, <1>3, <2>1, <2>3, HandKeeps
  <1>4. CASE indexer' # [indexer EXCEPT ![w] = IdleIndexer]
    <2>1. PICK k \in indexer[w].batch :
            \/ indexer' = [indexer EXCEPT ![w] =
                  [pc |-> Plan(k, article[k[1]]), batch |-> indexer[w].batch \ {k}, event |-> k,
                   version |-> article[k[1]].version]]
            \/ indexer' = [indexer EXCEPT ![w] =
                  [pc |-> "fail", batch |-> indexer[w].batch \ {k}, event |-> k,
                   version |-> article[k[1]].version]]
      <3>1. CASE indexer[w].batch = {}
        BY <1>4, <3>1 DEF NextEvent
      <3>2. CASE indexer[w].batch # {}
        BY <3>2 DEF NextEvent
      <3> QED BY <3>1, <3>2
    <2>2. indexer[w] \in IndexerState /\ HandOK(w)
      BY DEF KnowledgeInv, KnowledgeTypeOK, IndexerState
    <2>3. /\ k \in Event /\ \A q \in indexer[w].batch : q \in Event /\ event[q].status # "ABSENT"
          /\ article[k[1]] \in ArticleRow
      BY <2>2, EventParts DEF IndexerState, HandOK, KnowledgeInv, KnowledgeTypeOK
    <2>4. ASSUME NEW pc \in {Plan(k, article[k[1]]), "fail"},
                 indexer' = [indexer EXCEPT ![w] =
                   [pc |-> pc, batch |-> indexer[w].batch \ {k}, event |-> k, version |-> article[k[1]].version]]
          PROVE  KnowledgeInv'
      <3>1. /\ pc \in {"remove", "search", "complete", "fail"}
            /\ pc = "search" => article[k[1]].version = k[2]
            /\ pc \in {"remove", "complete"} => ~ Current(k)
        BY DEF Plan, Current, Exists
      <3> DEFINE hand == [pc |-> pc, batch |-> indexer[w].batch \ {k}, event |-> k,
                          version |-> article[k[1]].version]
      <3>2. /\ hand \in IndexerState /\ hand.pc = pc /\ hand.batch \subseteq indexer[w].batch
            /\ hand.event = k /\ hand.version = article[k[1]].version
        BY <2>2, <2>3, <3>1 DEF IndexerState, ArticleRow
      <3>3. indexer' = [indexer EXCEPT ![w] = hand]
        BY <2>4
      <3> HIDE DEF hand
      <3>4. indexer'[w] = hand /\ (Current(k)' = Current(k))
        BY <1>1, <3>2, <3>3 DEF KnowledgeInv, KnowledgeTypeOK, Current, Exists, Indexable
      <3>5. HandOK(w)'
        BY <1>1, <2>3, <3>1, <3>2, <3>4 DEF HandOK
      <3> QED BY <1>1, <1>2, <3>2, <3>3, <3>5, HandKeeps
    <2> QED BY <2>1, <2>4
  <1> QED BY <1>3, <1>4

\* A worker that goes on, and may have changed the tables.
LEMMA TablesKeep ==
    ASSUME KnowledgeInv, NEW w \in Indexer, NEW pc \in {"vector", "complete", "fail"},
           indexer' = [indexer EXCEPT ![w].pc = pc],
           indexer[w].pc \in {"remove", "search", "vector", "complete", "fail"},
           UNCHANGED <<article, event, editor>>, UNCHANGED spare \/ Disturbed,
           search' \in [Article -> 0..MaxVersion], vector' \in [Article -> 0..MaxVersion],
           NotAhead',
           \A k \in Event : Current(k) => /\ search[k[1]] = k[2] => search'[k[1]] = k[2]
                                          /\ vector[k[1]] = k[2] => vector'[k[1]] = k[2],
           LET k == indexer[w].event
           IN  /\ pc = "vector" => indexer[w].version = k[2]
               /\ pc = "vector" /\ Current(k) => search'[k[1]] = k[2]
               /\ pc = "complete" /\ Current(k) => search'[k[1]] = k[2] /\ vector'[k[1]] = k[2]
    PROVE  KnowledgeInv'
  <1>1. indexer \in [Indexer -> IndexerState] /\ indexer[w] \in IndexerState /\ HandOK(w)
    BY DEF KnowledgeInv, KnowledgeTypeOK, IndexerState
  <1>2. PICK hand : hand = [indexer[w] EXCEPT !.pc = pc]
    OBVIOUS
  <1>3. /\ hand \in IndexerState /\ hand.pc = pc /\ hand.batch = indexer[w].batch
        /\ hand.event = indexer[w].event /\ hand.version = indexer[w].version
    BY <1>1, <1>2 DEF IndexerState
  <1>4. indexer' = [indexer EXCEPT ![w] = hand]
    BY <1>2
  <1>5. /\ indexer' \in [Indexer -> IndexerState] /\ indexer'[w] = hand
        /\ \A v \in Indexer : v # w => indexer'[v] = indexer[v]
    BY <1>1, <1>3, <1>4
  <1>6. spare' \in 0..Disturbances
    BY SpareKeeps
  <1>7. KnowledgeTypeOK'
    BY <1>5, <1>6 DEF KnowledgeInv, KnowledgeTypeOK, IndexerState
  <1>8. \A k : Current(k)' = Current(k)
    BY DEF Current, Exists, Indexable
  <1>9. HandOK(w)'
    BY <1>1, <1>3, <1>5, <1>8 DEF HandOK
  <1>10. \A a \in Article : RowStep(a)
    BY DEF RowStep
  <1> QED BY <1>5, <1>7, <1>9, <1>10, StepKeeps

\* What the three statements leave in a table, for an event k of version v.
LEMMA TableRows ==
    ASSUME KnowledgeInv, NEW table \in [Article -> 0..MaxVersion],
           \A a \in Article : table[a] <= article[a].version,
           NEW k \in Event, event[k].status # "ABSENT",
           NEW new \in [Article -> 0..MaxVersion],
           \/ new = table
           \/ new = Upserted(table, k[1], k[2])
           \/ /\ ~ Current(k)
              /\ new = IF table[k[1]] <= k[2] THEN [table EXCEPT ![k[1]] = 0] ELSE table
    PROVE  /\ \A a \in Article : new[a] <= article[a].version
           /\ \A q \in Event : Current(q) /\ table[q[1]] = q[2] => new[q[1]] = q[2]
           /\ Current(k) /\ new = Upserted(table, k[1], k[2]) => new[k[1]] = k[2]
  <1>1. MaxVersion \in Nat
    BY KnowledgeAssumption
  <1>2. \A a \in Article : article[a].version \in Int /\ 0 <= article[a].version /\ table[a] \in Int
    BY <1>1 DEF KnowledgeInv, KnowledgeTypeOK, ArticleRow
  <1>3. k[1] \in Article /\ k[2] \in Int /\ k[2] <= article[k[1]].version
    BY EventParts DEF KnowledgeInv, Known
  <1>4. \A a \in Article : \/ new[a] = table[a]
                           \/ a = k[1] /\ table[a] <= k[2] /\ new[a] = k[2]
                           \/ a = k[1] /\ table[a] <= k[2] /\ new[a] = 0 /\ ~ Current(k)
    BY <1>3 DEF Upserted
  <1>5. \A a \in Article : new[a] <= article[a].version
    BY <1>2, <1>3, <1>4
  <1>6. ASSUME NEW q \in Event, Current(q), table[q[1]] = q[2] PROVE new[q[1]] = q[2]
    <2>1. q[1] \in Article /\ article[q[1]].version = q[2]
      BY <1>6, EventParts DEF Current
    <2>2. CASE q[1] = k[1] /\ table[q[1]] <= k[2]
      <3>1. q[2] = k[2]
        BY <1>2, <1>3, <1>6, <2>1, <2>2
      <3>2. Current(k)
        BY <1>6, <2>2, <3>1 DEF Current
      <3> QED BY <1>4, <1>6, <2>1, <3>1, <3>2
    <2>3. CASE ~ (q[1] = k[1] /\ table[q[1]] <= k[2])
      BY <1>4, <1>6, <2>1, <2>3
    <2> QED BY <2>2, <2>3
  <1>7. ASSUME Current(k), new = Upserted(table, k[1], k[2]) PROVE new[k[1]] = k[2]
    <2>1. table[k[1]] <= k[2]
      BY <1>3, <1>7 DEF Current
    <2> QED BY <1>3, <1>7, <2>1 DEF Upserted
  <1> QED BY <1>5, <1>6, <1>7

\* Where the event of a busy worker comes from.
LEMMA AtWork ==
    ASSUME KnowledgeInv, NEW w \in Indexer, indexer[w].pc \notin {"idle", "next"}
    PROVE  /\ indexer[w].event \in Event /\ event[indexer[w].event].status # "ABSENT"
           /\ indexer[w].event[1] \in Article /\ indexer[w].event[2] \in 0..MaxVersion
           /\ indexer[w].version \in 0..MaxVersion
           /\ search \in [Article -> 0..MaxVersion] /\ vector \in [Article -> 0..MaxVersion]
           /\ \A a \in Article : search[a] <= article[a].version
           /\ \A a \in Article : vector[a] <= article[a].version
  <1>1. HandOK(w) /\ indexer[w] \in IndexerState /\ MaxVersion \in Nat
    BY KnowledgeAssumption DEF KnowledgeInv, KnowledgeTypeOK, IndexerState
  <1>2. PICK k \in Event : k = indexer[w].event /\ event[k].status # "ABSENT"
    BY <1>1 DEF HandOK
  <1>3. k[1] \in Article /\ k[2] \in Version
    BY EventParts
  <1>4. k[2] \in 0..MaxVersion
    BY <1>1, <1>3 DEF Version
  <1> QED BY <1>1, <1>2, <1>3, <1>4 DEF KnowledgeInv, KnowledgeTypeOK, IndexerState, NotAhead

\* The two rows of an article readers may not see are deleted, or one of them.
LEMMA RemoveKeepsInv ==
    ASSUME KnowledgeInv, NEW w \in Indexer, Remove(w)
    PROVE  KnowledgeInv'
  <1>1. PICK k \in Event : k = indexer[w].event
    BY AtWork DEF Remove
  <1>2. /\ event[k].status # "ABSENT" /\ k[1] \in Article /\ k[2] \in 0..MaxVersion /\ ~ Current(k)
        /\ search \in [Article -> 0..MaxVersion] /\ vector \in [Article -> 0..MaxVersion]
        /\ \A a \in Article : search[a] <= article[a].version
        /\ \A a \in Article : vector[a] <= article[a].version
    <2>1. indexer[w].pc = "remove" /\ HandOK(w)
      BY DEF Remove, KnowledgeInv
    <2> QED BY <1>1, <2>1, AtWork DEF HandOK
  <1> DEFINE Without(table) == IF table[k[1]] <= k[2] THEN [table EXCEPT ![k[1]] = 0] ELSE table
  <1>3. /\ search' \in {search, Without(search)} /\ vector' \in {vector, Without(vector)}
        /\ indexer[w].pc = "remove" /\ UNCHANGED <<article, event, editor>>
        /\ UNCHANGED spare \/ Disturbed
        /\ \E pc \in {"complete", "fail"} : indexer' = [indexer EXCEPT ![w].pc = pc]
    BY <1>1 DEF Remove, Goto, Throws
  <1>4. PICK pc \in {"complete", "fail"} : indexer' = [indexer EXCEPT ![w].pc = pc]
    BY <1>3
  <1>5. 0 \in 0..MaxVersion
    BY KnowledgeAssumption
  <1>6. search' \in [Article -> 0..MaxVersion] /\ vector' \in [Article -> 0..MaxVersion]
    BY <1>2, <1>3, <1>5
  <1>7. /\ \A a \in Article : search'[a] <= article[a].version
        /\ \A q \in Event : Current(q) /\ search[q[1]] = q[2] => search'[q[1]] = q[2]
    BY <1>2, <1>3, <1>6, TableRows
  <1>8. /\ \A a \in Article : vector'[a] <= article[a].version
        /\ \A q \in Event : Current(q) /\ vector[q[1]] = q[2] => vector'[q[1]] = q[2]
    BY <1>2, <1>3, <1>6, TableRows
  <1>9. NotAhead'
    BY <1>3, <1>7, <1>8 DEF NotAhead
  <1> HIDE DEF Without
  <1> QED BY <1>1, <1>2, <1>3, <1>4, <1>6, <1>7, <1>8, <1>9, TablesKeep

\* The full-text row of an article readers may see.
LEMMA SearchKeepsInv ==
    ASSUME KnowledgeInv, NEW w \in Indexer, UpsertSearch(w)
    PROVE  KnowledgeInv'
  <1>1. PICK k \in Event : k = indexer[w].event
    BY AtWork DEF UpsertSearch
  <1>2. /\ event[k].status # "ABSENT" /\ k[1] \in Article /\ k[2] \in 0..MaxVersion
        /\ search \in [Article -> 0..MaxVersion] /\ \A a \in Article : search[a] <= article[a].version
        /\ indexer[w].version = k[2] /\ indexer[w].pc = "search"
    <2>1. indexer[w].pc = "search" /\ HandOK(w)
      BY DEF UpsertSearch, KnowledgeInv
    <2> QED BY <1>1, <2>1, AtWork DEF HandOK
  <1>3. UNCHANGED <<article, event, editor, vector>> /\ (UNCHANGED spare \/ Disturbed)
    BY DEF UpsertSearch, Goto, Throws
  <1>4. \/ search' = Upserted(search, k[1], k[2]) /\ indexer' = [indexer EXCEPT ![w].pc = "vector"]
        \/ search' = search /\ indexer' = [indexer EXCEPT ![w].pc = "fail"]
    BY <1>1, <1>2 DEF UpsertSearch, Goto, Throws
  <1>5. search' \in [Article -> 0..MaxVersion]
    BY <1>2, <1>4 DEF Upserted
  <1>6. /\ \A a \in Article : search'[a] <= article[a].version
        /\ \A q \in Event : Current(q) /\ search[q[1]] = q[2] => search'[q[1]] = q[2]
        /\ Current(k) /\ search' = Upserted(search, k[1], k[2]) => search'[k[1]] = k[2]
    BY <1>2, <1>4, <1>5, TableRows
  <1>7. NotAhead' /\ vector' \in [Article -> 0..MaxVersion]
    BY <1>3, <1>6 DEF NotAhead, KnowledgeInv, KnowledgeTypeOK
  <1>8. CASE indexer' = [indexer EXCEPT ![w].pc = "vector"] /\ search' = Upserted(search, k[1], k[2])
    BY <1>1, <1>2, <1>3, <1>5, <1>6, <1>7, <1>8, TablesKeep
  <1>9. CASE indexer' = [indexer EXCEPT ![w].pc = "fail"]
    BY <1>1, <1>2, <1>3, <1>5, <1>6, <1>7, <1>9, TablesKeep
  <1> QED BY <1>4, <1>8, <1>9

\* Then the vector row.
LEMMA VectorKeepsInv ==
    ASSUME KnowledgeInv, NEW w \in Indexer, UpsertVector(w)
    PROVE  KnowledgeInv'
  <1>1. PICK k \in Event : k = indexer[w].event
    BY AtWork DEF UpsertVector
  <1>2. /\ event[k].status # "ABSENT" /\ k[1] \in Article /\ k[2] \in 0..MaxVersion
        /\ vector \in [Article -> 0..MaxVersion] /\ \A a \in Article : vector[a] <= article[a].version
        /\ indexer[w].version = k[2] /\ indexer[w].pc = "vector"
        /\ Current(k) => search[k[1]] = k[2]
    <2>1. indexer[w].pc = "vector" /\ HandOK(w)
      BY DEF UpsertVector, KnowledgeInv
    <2> QED BY <1>1, <2>1, AtWork DEF HandOK
  <1>3. UNCHANGED <<article, event, editor, search>> /\ (UNCHANGED spare \/ Disturbed)
    BY DEF UpsertVector, Goto, Throws
  <1>4. \/ vector' = Upserted(vector, k[1], k[2]) /\ indexer' = [indexer EXCEPT ![w].pc = "complete"]
        \/ /\ vector' = vector \/ vector' = Upserted(vector, k[1], k[2])
           /\ indexer' = [indexer EXCEPT ![w].pc = "fail"]
    BY <1>1, <1>2 DEF UpsertVector, Goto, Throws
  <1>5. vector' \in [Article -> 0..MaxVersion]
    BY <1>2, <1>4 DEF Upserted
  <1>6. /\ \A a \in Article : vector'[a] <= article[a].version
        /\ \A q \in Event : Current(q) /\ vector[q[1]] = q[2] => vector'[q[1]] = q[2]
        /\ Current(k) /\ vector' = Upserted(vector, k[1], k[2]) => vector'[k[1]] = k[2]
    BY <1>2, <1>4, <1>5, TableRows
  <1>7. NotAhead' /\ search' \in [Article -> 0..MaxVersion]
    BY <1>3, <1>6 DEF NotAhead, KnowledgeInv, KnowledgeTypeOK
  <1>8. CASE indexer' = [indexer EXCEPT ![w].pc = "complete"] /\ vector' = Upserted(vector, k[1], k[2])
    BY <1>1, <1>2, <1>3, <1>5, <1>6, <1>7, <1>8, TablesKeep
  <1>9. CASE indexer' = [indexer EXCEPT ![w].pc = "fail"]
    BY <1>1, <1>2, <1>3, <1>5, <1>6, <1>7, <1>9, TablesKeep
  <1> QED BY <1>4, <1>8, <1>9

\* A worker that turns to the rest of its batch, or to nothing.
LEMMA HandBack ==
    ASSUME KnowledgeInv, NEW w \in Indexer,
           \/ indexer' = Onward(w)
           \/ indexer' = [indexer EXCEPT ![w] = IdleIndexer]
           \/ indexer' = [indexer EXCEPT ![w].pc = "fail"] /\ indexer[w].pc \notin {"idle", "next"},
           \A k \in Event : event[k].status # "ABSENT" => event'[k].status # "ABSENT"
    PROVE  /\ indexer' \in [Indexer -> IndexerState]
           /\ \A v \in Indexer : indexer'[v] = indexer[v] \/ HandOK(v)'
  <1>1. indexer \in [Indexer -> IndexerState] /\ indexer[w] \in IndexerState /\ HandOK(w)
    BY DEF KnowledgeInv, KnowledgeTypeOK, IndexerState
  <1>2. 0 \in 0..MaxVersion
    BY KnowledgeAssumption
  <1>3. PICK hand : /\ indexer' = [indexer EXCEPT ![w] = hand]
                    /\ \/ hand = [IdleIndexer EXCEPT !.pc = "next", !.batch = indexer[w].batch]
                       \/ hand = IdleIndexer
                       \/ hand = [indexer[w] EXCEPT !.pc = "fail"] /\ indexer[w].pc \notin {"idle", "next"}
    BY DEF Onward
  <1>4. /\ hand \in IndexerState /\ hand.batch \in {{}, indexer[w].batch}
        /\ hand.pc \in {"idle", "next", "fail"}
        /\ hand.pc = "fail" => hand.event = indexer[w].event /\ indexer[w].pc \notin {"idle", "next"}
    <2>1. CASE hand = [IdleIndexer EXCEPT !.pc = "next", !.batch = indexer[w].batch]
      BY <1>1, <1>2, <2>1 DEF IdleIndexer, IndexerState
    <2>2. CASE hand = IdleIndexer
      BY <1>2, <2>2 DEF IdleIndexer, IndexerState
    <2>3. CASE hand = [indexer[w] EXCEPT !.pc = "fail"] /\ indexer[w].pc \notin {"idle", "next"}
      BY <1>1, <2>3 DEF IndexerState
    <2> QED BY <1>3, <2>1, <2>2, <2>3
  <1>5. /\ indexer' \in [Indexer -> IndexerState] /\ indexer'[w] = hand
        /\ \A v \in Indexer : v # w => indexer'[v] = indexer[v]
    BY <1>1, <1>3, <1>4
  <1>6. \A q \in indexer[w].batch : q \in Event /\ event'[q].status # "ABSENT"
    BY <1>1 DEF IndexerState, HandOK
  <1>7. indexer[w].pc \notin {"idle", "next"}
           => indexer[w].event \in Event /\ event'[indexer[w].event].status # "ABSENT"
    BY <1>1 DEF HandOK
  <1>8. HandOK(w)'
    BY <1>4, <1>5, <1>6, <1>7 DEF HandOK
  <1> QED BY <1>5, <1>8

\* An event is done: what the worker knows of its rows is what DoneOK asks for.
LEMMA CompleteKeepsInv ==
    ASSUME KnowledgeInv, NEW w \in Indexer, CompleteEvent(w)
    PROVE  KnowledgeInv'
  <1>1. PICK k \in Event : k = indexer[w].event
    BY AtWork DEF CompleteEvent
  <1>2. /\ indexer[w].pc = "complete" /\ event[k].status # "ABSENT" /\ event \in [Event -> Row(Indexer)]
        /\ Current(k) => search[k[1]] = k[2] /\ vector[k[1]] = k[2]
        /\ UNCHANGED <<article, search, vector, editor, spare>>
    <2>1. indexer[w].pc = "complete" /\ HandOK(w)
      BY DEF CompleteEvent, KnowledgeInv
    <2> QED BY <1>1, <2>1, AtWork DEF HandOK, CompleteEvent, KnowledgeInv, KnowledgeTypeOK
  <1>3. PICK row : row = Ended(event[k], "COMPLETED")
    OBVIOUS
  <1>4. row \in Row(Indexer) /\ row.status = "COMPLETED"
    BY <1>2, <1>3, RowsStayRows DEF RowStatus
  <1>5. \/ event' = [event EXCEPT ![k] = row] /\ indexer' = Onward(w)
        \/ event' = event /\ indexer' = [indexer EXCEPT ![w].pc = "fail"]
    BY <1>1, <1>3 DEF CompleteEvent
  <1>6. /\ event' \in [Event -> Row(Indexer)]
        /\ \A q \in Event : event'[q] = event[q] \/ (q = k /\ event'[q].status = "COMPLETED")
    BY <1>2, <1>4, <1>5
  <1>7. /\ indexer' \in [Indexer -> IndexerState]
        /\ \A v \in Indexer : indexer'[v] = indexer[v] \/ HandOK(v)'
    BY <1>2, <1>5, <1>6, HandBack
  <1>8. /\ KnowledgeTypeOK' /\ NotAhead' /\ \A a \in Article : RowStep(a)
        /\ Current(k)' = Current(k)
    BY <1>2, <1>6, <1>7 DEF KnowledgeInv, KnowledgeTypeOK, IndexerState, NotAhead, RowStep, Current, Exists, Indexable
  <1> QED BY <1>2, <1>6, <1>7, <1>8, StepKeeps

\* An event has failed; after the last attempt it is given up.
LEMMA FailKeepsInv ==
    ASSUME KnowledgeInv, NEW w \in Indexer, FailEvent(w)
    PROVE  KnowledgeInv'
  <1>1. PICK k \in Event : k = indexer[w].event
    BY AtWork DEF FailEvent
  <1>2. /\ indexer[w].pc = "fail" /\ event[k].status # "ABSENT" /\ event \in [Event -> Row(Indexer)]
        /\ UNCHANGED <<search, vector, editor, spare>>
    BY <1>1, AtWork DEF FailEvent, KnowledgeInv, KnowledgeTypeOK
  <1>3. PICK row : row = Failed(event[k], FALSE)
    OBVIOUS
  <1>4. row \in Row(Indexer) /\ row.status \in {"DEAD_LETTER", "FAILED"}
    BY <1>2, <1>3, RowsStayRows
  <1>5. spare' \in 0..Disturbances
    BY <1>2, SpareKeeps
  <1>6. CASE Owned(event[k], w)
    <2>1. PICK dead \in SUBSET Event : dead = IF row.status = "DEAD_LETTER" THEN {k} ELSE {}
      OBVIOUS
    <2>2. /\ event' = [event EXCEPT ![k] = row] /\ indexer' = Onward(w)
          /\ article' = Quarantine(article, dead)
      BY <1>1, <1>3, <1>6, <2>1 DEF FailEvent
    <2>3. /\ event' \in [Event -> Row(Indexer)] /\ event'[k] = row
          /\ \A q \in Event : q # k => event'[q] = event[q]
      BY <1>2, <1>4, <2>2
    <2>4. /\ indexer' \in [Indexer -> IndexerState]
          /\ \A v \in Indexer : indexer'[v] = indexer[v] \/ HandOK(v)'
      BY <1>4, <2>2, <2>3, HandBack
    <2> QED BY <1>2, <1>4, <1>5, <2>1, <2>2, <2>3, <2>4, LettingGoKeeps
  <1>7. CASE ~ Owned(event[k], w)
    <2>1. indexer' = [indexer EXCEPT ![w] = IdleIndexer] /\ UNCHANGED <<article, event>>
      BY <1>1, <1>7 DEF FailEvent
    <2>2. /\ indexer' \in [Indexer -> IndexerState]
          /\ \A v \in Indexer : indexer'[v] = indexer[v] \/ HandOK(v)'
      BY <2>1, HandBack
    <2>3. KnowledgeTypeOK'
      BY <1>2, <1>5, <2>1, <2>2 DEF KnowledgeInv, KnowledgeTypeOK, IndexerState
    <2> QED BY <1>2, <2>1, <2>2, <2>3, HandsKeep
  <1> QED BY <1>6, <1>7

\* A worker dies; what it has claimed waits for its leases to run out.
LEMMA CrashKeepsInv ==
    ASSUME KnowledgeInv, NEW w \in Indexer, IndexerCrash(w)
    PROVE  KnowledgeInv'
  <1>1. /\ indexer' = [indexer EXCEPT ![w] = IdleIndexer] /\ Disturbed
        /\ UNCHANGED <<article, event, search, vector, editor>>
    BY DEF IndexerCrash
  <1>2. /\ indexer' \in [Indexer -> IndexerState]
        /\ \A v \in Indexer : indexer'[v] = indexer[v] \/ HandOK(v)'
    BY <1>1, HandBack
  <1>3. spare' \in 0..Disturbances
    BY <1>1, SpareKeeps
  <1>4. KnowledgeTypeOK'
    BY <1>1, <1>2, <1>3 DEF KnowledgeInv, KnowledgeTypeOK, IndexerState
  <1> QED BY <1>1, <1>2, <1>4, HandsKeep

\* Time passes: a retry comes due, or a lease runs out.
LEMMA RipeningKeepsInv ==
    ASSUME KnowledgeInv, NEW k \in Event, EventRipens(k) \/ LeaseLapses(k)
    PROVE  KnowledgeInv'
  <1>1. /\ event' = [event EXCEPT ![k] = Ripened(event[k])]
        /\ UNCHANGED <<article, search, vector, indexer, editor>> /\ (UNCHANGED spare \/ Disturbed)
    BY DEF EventRipens, LeaseLapses
  <1>2. event \in [Event -> Row(Indexer)]
    BY DEF KnowledgeInv, KnowledgeTypeOK
  <1>3. Ripened(event[k]) \in Row(Indexer) /\ Ripened(event[k]).status = event[k].status
    BY <1>2, RowsStayRows
  <1>4. /\ event' \in [Event -> Row(Indexer)]
        /\ \A q \in Event : event'[q].status = event[q].status
    BY <1>1, <1>2, <1>3
  <1>5. spare' \in 0..Disturbances
    BY <1>1, SpareKeeps
  <1>6. KnowledgeTypeOK' /\ NotAhead' /\ \A a \in Article : RowStep(a)
    BY <1>1, <1>4, <1>5 DEF KnowledgeInv, KnowledgeTypeOK, NotAhead, RowStep
  <1> QED BY <1>1, <1>4, <1>6, StepKeeps

-----------------------------------------------------------------------------
\* Every step of editors, workers and time keeps the inductive invariant.
LEMMA KnowledgeStep == KnowledgeInv /\ [KnowledgeNext]_knowledgeVars => KnowledgeInv'
  <1> SUFFICES ASSUME KnowledgeInv, [KnowledgeNext]_knowledgeVars PROVE KnowledgeInv'
    OBVIOUS
  <1>1. CASE EditorNext
    BY <1>1, EditorKeepsInv
  <1>2. ASSUME NEW w \in Indexer, ClaimBatch(w) \/ IndexerStep(w) \/ IndexerCrash(w) PROVE KnowledgeInv'
    BY <1>2, ClaimKeepsInv, NextKeepsInv, RemoveKeepsInv, SearchKeepsInv, VectorKeepsInv,
       CompleteKeepsInv, FailKeepsInv, CrashKeepsInv DEF IndexerStep
  <1>3. ASSUME NEW k \in Event, EventRipens(k) \/ LeaseLapses(k) PROVE KnowledgeInv'
    BY <1>3, RipeningKeepsInv
  <1>4. CASE UNCHANGED knowledgeVars
    <2>1. UNCHANGED <<article, event, search, vector, indexer, editor, spare>>
      BY <1>4 DEF knowledgeVars
    <2>2. KnowledgeTypeOK'
      BY <2>1 DEF KnowledgeInv, KnowledgeTypeOK
    <2> QED BY <2>1, <2>2, HandsKeep
  <1> QED BY <1>1, <1>2, <1>3, <1>4 DEF KnowledgeNext

\* The event of an article as it is now.
LEMMA CurrentKey ==
    ASSUME KnowledgeInv, NEW a \in Article, Exists(a)
    PROVE  \E k \in Event : k = Changed(a, article[a].version) /\ k[1] = a /\ k[2] = article[a].version
  <1>1. MaxVersion \in Nat /\ article[a] \in ArticleRow
    BY KnowledgeAssumption DEF KnowledgeInv, KnowledgeTypeOK
  <1>2. PICK v \in Version : v = article[a].version
    BY <1>1 DEF ArticleRow, Exists, Version
  <1>3. Changed(a, v) \in Event /\ Changed(a, v)[1] = a /\ Changed(a, v)[2] = v
    BY EventParts
  <1> QED BY <1>2, <1>3

\* In every reachable state the tables, the events and what each worker knows of
\* its event fit together.
THEOREM KnowledgeInvariance == KnowledgeSpec => []KnowledgeInv
  <1> QED BY KnowledgeStarts, KnowledgeStep, PTL DEF KnowledgeSpec

\* The rows, the tables and the workers keep their shape.
THEOREM KnowledgeIsTyped == KnowledgeSpec => []KnowledgeTypeOK
  <1>1. KnowledgeInv => KnowledgeTypeOK
    BY DEF KnowledgeInv
  <1> QED BY <1>1, KnowledgeInvariance, PTL

\* An article readers may see whose event is done is in both indexes at its
\* current version, whatever workers of earlier events still write (the WHERE of
\* the upserts and the version the worker compares before it plans).
THEOREM DoneIsIndexed == KnowledgeSpec => []IndexedWhenDone
  <1>1. KnowledgeInv => IndexedWhenDone
    <2> SUFFICES ASSUME KnowledgeInv, NEW a \in Article, Exists(a), Indexable(article[a]),
                        event[Changed(a, article[a].version)].status = "COMPLETED"
                 PROVE  search[a] = article[a].version /\ vector[a] = article[a].version
      BY DEF IndexedWhenDone
    <2>1. PICK k \in Event : k = Changed(a, article[a].version) /\ k[1] = a /\ k[2] = article[a].version
      BY CurrentKey
    <2> QED BY <2>1 DEF KnowledgeInv, DoneOK, Current
  <1> QED BY <1>1, KnowledgeInvariance, PTL

\* An article whose current version the workers gave up on is quarantined, whether
\* the last attempt failed or its lease ran out.
THEOREM DeadIsHidden == KnowledgeSpec => []HiddenWhenDead
  <1>1. KnowledgeInv => HiddenWhenDead
    <2> SUFFICES ASSUME KnowledgeInv, NEW a \in Article, Exists(a),
                        event[Changed(a, article[a].version)].status = "DEAD_LETTER"
                 PROVE  article[a].quarantined
      BY DEF HiddenWhenDead
    <2>1. PICK k \in Event : k = Changed(a, article[a].version) /\ k[1] = a /\ k[2] = article[a].version
      BY CurrentKey
    <2> QED BY <2>1 DEF KnowledgeInv, DeadOK
  <1> QED BY <1>1, KnowledgeInvariance, PTL

-----------------------------------------------------------------------------
(* The embedding of documents. *)

\* Where a worker stands once it has put its name into the row, and before it is
\* done with the row.
HasBegun == {"read", "embed", "upsert", "sweep", "assert", "complete",
             "retry", "give up", "requeue", "quarantine", "fail"}
HasRead == {"embed", "upsert", "sweep", "assert", "complete"}
EmbedderPc == HasBegun \cup {"idle", "find", "skip", "begin", "acknowledge", "release"}

\* The vectors of a generation, and of nothing else.
VectorsOf(g) == [k \in Chunk |-> IF k \in ChunksOf[g] THEN g ELSE 0]

\* What a worker that was not overtaken knows at pc of the row and the vectors.
KnowsAt(w, pc) ==
    LET b == embedder[w]
    IN  /\ pc = "skip" => ~ Stays \/ document.embedding # "COMPLETED"
        /\ pc \in HasBegun => document.embedding # "COMPLETED"
        /\ pc \in HasBegun \cup {"begin"} => document.status = "COMPLETED"
        /\ pc \in HasRead =>
              /\ b.generation \in Generation /\ b.todo \subseteq ChunksOf[b.generation]
              /\ \A k \in ChunksOf[b.generation] \ b.todo : vectors[k] = b.generation
        /\ pc \in {"sweep", "assert", "complete"} => b.todo = {}
        /\ pc \in {"assert", "complete"} => vectors = VectorsOf(b.generation)

EmbedderKnows(w) == (embedder[w].pc # "idle" => Holds(w)) /\ KnowsAt(w, embedder[w].pc)

\* The row says which generation was embedded; a reprocessing that has deleted
\* the vectors will reset it.
RowIsTrue ==
    document.status = "COMPLETED" /\ document.embedding = "COMPLETED" =>
        vectors = VectorsOf(document.hash) \/ \E r \in Remover : remover[r].pc = "reset"

\* Hands and rows.
EmbedderHand == [pc : EmbedderPc, id : Nat, token : Nat,
                 generation : Generation \cup {0}, todo : SUBSET Chunk]

EnqueuerHand == [pc : {"idle", "look", "compare", "enqueue", "mark"}, processed : BOOLEAN,
                 seen : Generation \cup {0}]

\* Everything keeps its shape, the hands of all actors included.
EmbeddingShapes ==
    /\ EmbeddingTypeOK
    /\ embedder \in [Embedder -> EmbedderHand]
    /\ enqueuer \in [Enqueuer -> EnqueuerHand]
    /\ remover \in [Remover -> [pc : {"idle", "job", "vectors", "reset", "files", "purge"},
                                what : {"none", "reprocess", "delete", "cleanup"}]]

\* The inductive invariant: who deletes or cleans up has hidden the document, and
\* unless something overtook a worker, each knows what it must.
EmbeddingInv ==
    /\ EmbeddingShapes
    /\ \A r \in Remover : remover[r].pc # "idle" /\ remover[r].what # "reprocess" => ~ Stays
    /\ ~ overtaken =>
          /\ \A w \in Embedder : EmbedderKnows(w)
          /\ document.status = "QUEUED" => document.embedding # "COMPLETED"
          /\ RowIsTrue

EmbeddedRow == [status : {"QUEUED", "COMPLETED", "DELETED", "PURGED"}, embedding : EmbeddingStatus,
                hash : Generation \cup {0}, worker : Embedder \cup {Nobody}, token : Nat]

EmbeddingJob == [id : Nat, status : {"NONE", "QUEUED", "PROCESSING"},
                 owner : Embedder \cup {Nobody}, token : Nat, due : BOOLEAN]

\* Jobs as they are enqueued, and the absence of one.
LEMMA EmbeddingJobs ==
    ASSUME NEW n \in Nat
    PROVE  /\ NoEmbeddingJob(n) \in EmbeddingJob /\ NoEmbeddingJob(n).status = "NONE"
           /\ QueuedJob(n) \in EmbeddingJob /\ QueuedJob(n).status = "QUEUED" /\ QueuedJob(n).due
  <1>1. NoEmbeddingJob(n) \in EmbeddingJob /\ NoEmbeddingJob(n).status = "NONE"
    BY DEF NoEmbeddingJob, EmbeddingJob
  <1>2. QueuedJob(n) \in EmbeddingJob
    BY <1>1 DEF QueuedJob, EmbeddingJob
  <1>3. QueuedJob(n).status = "QUEUED"
    BY <1>1 DEF QueuedJob, EmbeddingJob
  <1>4. QueuedJob(n).due
    BY <1>1 DEF QueuedJob, EmbeddingJob
  <1> QED BY <1>1, <1>2, <1>3, <1>4

\* The initial states, a completed document with a job or without, satisfy it.
LEMMA EmbeddingStarts == EmbeddingInit => EmbeddingInv
  <1> SUFFICES ASSUME EmbeddingInit PROVE EmbeddingInv
    OBVIOUS
  <1> USE EmbeddingAssumption
  <1>1. EmbeddingShapes
    <2>0. job.status \in {"NONE", "QUEUED"}
          /\ job \in EmbeddingJob
      BY EmbeddingJobs DEF EmbeddingInit
    <2>1. EmbeddingTypeOK
      <3>1. document \in [status : {"QUEUED", "COMPLETED", "DELETED", "PURGED"}, embedding : EmbeddingStatus,
                     hash : Generation \cup {0}, worker : Embedder \cup {Nobody}, token : Nat]
        BY DEF EmbeddingInit, EmbeddingStatus
      <3> QED BY <2>0, <3>1 DEF EmbeddingInit, EmbeddingTypeOK, EmbeddingJob, IdleEmbedder
    <2>2. IdleEmbedder \in EmbedderHand
      BY DEF IdleEmbedder, EmbedderHand, EmbedderPc
    <2>3. enqueuer \in [Enqueuer -> EnqueuerHand]
      BY DEF EmbeddingInit, EnqueuerHand
    <2> QED BY <2>1, <2>2, <2>3 DEF EmbeddingInit, EmbeddingShapes, IdleRemover
  <1>2. \A w \in Embedder : EmbedderKnows(w)
    BY DEF EmbeddingInit, EmbedderKnows, KnowsAt, IdleEmbedder, HasBegun, HasRead
  <1> QED BY <1>1, <1>2 DEF EmbeddingInit, EmbeddingInv, RowIsTrue, IdleRemover
-----------------------------------------------------------------------------
\* A worker that was not overtaken is the only one.
LEMMA OneEmbedder ==
    ASSUME EmbeddingInv, ~ overtaken, NEW v \in Embedder, NEW w \in Embedder,
           embedder[v].pc # "idle", embedder[w].pc # "idle"
    PROVE  v = w
  BY DEF EmbeddingInv, EmbedderKnows, Holds

\* A step of a worker keeps the invariant if what it then knows is true: while it is
\* not overtaken nobody else works.
LEMMA EmbedderStepKeeps ==
    ASSUME EmbeddingInv, NEW w \in Embedder, embedder[w].pc # "idle", EmbeddingShapes',
           UNCHANGED <<remover, overtaken>>, document'.status = document.status,
           \A v \in Embedder \ {w} : embedder'[v] = embedder[v],
           ~ overtaken => /\ EmbedderKnows(w)'
                          /\ document.status = "QUEUED" => document'.embedding # "COMPLETED"
                          /\ RowIsTrue'
    PROVE  EmbeddingInv'
  <1>1. ASSUME ~ overtaken, NEW v \in Embedder \ {w} PROVE EmbedderKnows(v)'
    <2>1. embedder[v].pc = "idle"
      BY <1>1, OneEmbedder
    <2> QED BY <2>1 DEF EmbedderKnows, KnowsAt, HasBegun, HasRead
  <1> QED BY <1>1 DEF EmbeddingInv, Stays

\* A worker that goes on keeps what it holds.
LEMMA HandGoes ==
    ASSUME EmbeddingShapes, NEW w \in Embedder, NEW pc \in EmbedderPc, StepsTo(w, pc)
    PROVE  /\ embedder' \in [Embedder -> EmbedderHand]
           /\ embedder'[w].pc = pc /\ embedder'[w].id = embedder[w].id
           /\ embedder'[w].token = embedder[w].token /\ embedder'[w].todo = embedder[w].todo
           /\ embedder'[w].generation = embedder[w].generation
           /\ \A v \in Embedder \ {w} : embedder'[v] = embedder[v]
  <1>1. embedder \in [Embedder -> EmbedderHand]
    BY DEF EmbeddingShapes
  <1>2. embedder[w] \in EmbedderHand
    BY <1>1
  <1>3. [embedder[w] EXCEPT !.pc = pc] \in EmbedderHand
    BY <1>2 DEF EmbedderHand
  <1>4. embedder' = [embedder EXCEPT ![w] = [embedder[w] EXCEPT !.pc = pc]]
    BY <1>1 DEF StepsTo
  <1>5. embedder'[w] = [embedder[w] EXCEPT !.pc = pc]
    BY <1>1, <1>4
  <1> QED BY <1>1, <1>2, <1>3, <1>4, <1>5 DEF EmbedderHand

\* A worker that ends holds nothing.
LEMMA HandIsEmpty ==
    ASSUME EmbeddingShapes, NEW w \in Embedder, Idles(w)
    PROVE  /\ embedder' \in [Embedder -> EmbedderHand] /\ embedder'[w].pc = "idle"
           /\ embedder'[w].todo = {}
           /\ \A v \in Embedder \ {w} : embedder'[v] = embedder[v]
  <1>1. IdleEmbedder \in EmbedderHand /\ IdleEmbedder.pc = "idle" /\ IdleEmbedder.todo = {}
    BY DEF IdleEmbedder, EmbedderHand, EmbedderPc
  <1>2. embedder \in [Embedder -> EmbedderHand]
    BY DEF EmbeddingShapes
  <1> QED BY <1>1, <1>2 DEF Idles

\* What does not touch row, job or vectors keeps what the others rely on.
LEMMA RowStands ==
    ASSUME EmbeddingInv, UNCHANGED <<document, vectors, remover>>
    PROVE  /\ ~ overtaken => /\ document.status = "QUEUED" => document'.embedding # "COMPLETED"
                             /\ RowIsTrue'
           /\ document'.status = document.status
  BY DEF EmbeddingInv, RowIsTrue

\* The shapes hold if they do for what changes.
LEMMA ShapesStand ==
    ASSUME EmbeddingShapes, embedder' \in [Embedder -> EmbedderHand],
           UNCHANGED <<document, chunks, job, vectors, enqueuer, remover, requests>>,
           mishaps' \in 0..MaxMishaps
    PROVE  EmbeddingShapes'
  BY DEF EmbeddingShapes, EmbeddingTypeOK, EmbedderHand

\* A worker goes on, and nothing else changes.
LEMMA HandMoves ==
    ASSUME EmbeddingInv, NEW w \in Embedder, embedder[w].pc # "idle", NEW pc \in EmbedderPc, StepsTo(w, pc),
           UNCHANGED <<document, chunks, job, vectors, enqueuer, remover, requests, overtaken>>,
           mishaps' \in 0..MaxMishaps, ~ overtaken => KnowsAt(w, pc)
    PROVE  EmbeddingInv'
  <1>1. EmbeddingShapes'
    BY HandGoes, ShapesStand DEF EmbeddingInv
  <1>2. ASSUME ~ overtaken PROVE EmbedderKnows(w)'
    <2>1. Holds(w) /\ KnowsAt(w, pc)
      BY <1>2 DEF EmbeddingInv, EmbedderKnows
    <2>2. /\ embedder'[w].pc = pc /\ embedder'[w].id = embedder[w].id
          /\ embedder'[w].token = embedder[w].token /\ embedder'[w].todo = embedder[w].todo
          /\ embedder'[w].generation = embedder[w].generation
      BY HandGoes DEF EmbeddingInv
    <2>3. Holds(w)'
      BY <2>1, <2>2 DEF Holds
    <2>4. KnowsAt(w, pc)'
      BY <2>1, <2>2 DEF KnowsAt, Stays, VectorsOf
    <2> QED BY <2>2, <2>3, <2>4 DEF EmbedderKnows
  <1> QED BY <1>1, <1>2, HandGoes, RowStands, EmbedderStepKeeps DEF EmbeddingInv

\* A worker puts its hand down.
LEMMA HandRests ==
    ASSUME EmbeddingInv, NEW w \in Embedder, embedder[w].pc # "idle", Idles(w), job' \in EmbeddingJob,
           UNCHANGED <<document, chunks, vectors, enqueuer, remover, requests, overtaken>>,
           mishaps' \in 0..MaxMishaps
    PROVE  EmbeddingInv'
  <1>1. EmbeddingShapes'
    BY HandIsEmpty DEF EmbeddingInv, EmbeddingShapes, EmbeddingTypeOK, EmbeddingJob, EmbedderHand
  <1>2. EmbedderKnows(w)'
    BY HandIsEmpty DEF EmbeddingInv, EmbedderKnows, KnowsAt, HasBegun, HasRead
  <1> QED BY <1>1, <1>2, HandIsEmpty, RowStands, EmbedderStepKeeps DEF EmbeddingInv

\* What the present invariant says of a worker.
LEMMA Present ==
    ASSUME EmbeddingInv, NEW w \in Embedder
    PROVE  /\ embedder[w] \in EmbedderHand /\ embedder \in [Embedder -> EmbedderHand]
           /\ mishaps \in 0..MaxMishaps /\ (Mishap => mishaps' \in 0..MaxMishaps)
           /\ job \in EmbeddingJob /\ MaxMishaps \in Nat
           /\ ~ overtaken =>
                 /\ embedder[w].pc # "idle" => Holds(w)
                 /\ KnowsAt(w, embedder[w].pc)
                 /\ document.status = "QUEUED" => document.embedding # "COMPLETED"
  BY EmbeddingAssumption
     DEF EmbeddingInv, EmbedderKnows, EmbeddingShapes, EmbeddingTypeOK, Mishap, EmbeddingJob

\* The worker finds its document, and reads from its row whether to work on it.
LEMMA FindKeeps ==
    ASSUME EmbeddingInv, NEW w \in Embedder, FindDocument(w)
    PROVE  EmbeddingInv'
  <1> DEFINE pc == IF document.status = "COMPLETED" THEN "begin" ELSE "skip"
  <1>1. pc \in EmbedderPc /\ embedder[w].pc # "idle"
    BY DEF EmbedderPc, FindDocument
  <1>2. ~ overtaken => KnowsAt(w, pc)
    BY Present DEF KnowsAt, HasBegun, HasRead, Stays, EmbeddingInv, EmbeddingShapes, EmbeddingTypeOK
  <1>3. StepsTo(w, pc)
    BY DEF FindDocument
  <1> QED BY <1>1, <1>2, <1>3, Present, HandMoves DEF FindDocument

\* It reads the chunks, or gives the job back when there are none.
LEMMA ReadKeeps ==
    ASSUME EmbeddingInv, NEW w \in Embedder, ReadChunks(w)
    PROVE  EmbeddingInv'
  <1>1. CASE chunks = 0
    <2>1. "retry" \in EmbedderPc /\ embedder[w].pc # "idle"
      BY DEF EmbedderPc, HasBegun, ReadChunks
    <2>2. ~ overtaken => KnowsAt(w, "retry")
      BY Present DEF KnowsAt, HasBegun, HasRead, ReadChunks
    <2> QED BY <1>1, <2>1, <2>2, Present, HandMoves DEF ReadChunks
  <1>2. CASE chunks # 0
    <2> DEFINE todo == {k \in ChunksOf[chunks] : vectors[k] # chunks}
               hand == [embedder[w] EXCEPT !.pc = "embed", !.generation = chunks, !.todo = todo]
    <2>1. chunks \in Generation /\ todo \subseteq Chunk /\ embedder[w] \in EmbedderHand
      BY <1>2, Present, EmbeddingAssumption DEF EmbeddingInv, EmbeddingShapes, EmbeddingTypeOK
    <2>2. /\ hand \in EmbedderHand /\ hand.pc = "embed" /\ hand.generation = chunks /\ hand.todo = todo
          /\ hand.id = embedder[w].id /\ hand.token = embedder[w].token
      BY <2>1 DEF EmbedderHand, EmbedderPc, HasBegun
    <2>3. embedder' = [embedder EXCEPT ![w] = hand]
      BY <1>2, Present DEF ReadChunks
    <2> HIDE DEF hand
    <2>4. /\ embedder' \in [Embedder -> EmbedderHand] /\ embedder'[w] = hand
          /\ \A v \in Embedder \ {w} : embedder'[v] = embedder[v]
      BY <2>2, <2>3, Present
    <2>5. EmbeddingShapes'
      BY <2>4, Present, ShapesStand DEF ReadChunks, EmbeddingInv
    <2>6. ~ overtaken => EmbedderKnows(w)'
      <3>1. ~ overtaken => Holds(w)' /\ document'.embedding # "COMPLETED" /\ document'.status = "COMPLETED"
        BY <2>2, <2>4, Present DEF ReadChunks, Holds, KnowsAt, HasBegun
      <3>2. KnowsAt(w, "embed")' <=> document'.embedding # "COMPLETED" /\ document'.status = "COMPLETED"
        BY <2>1, <2>2, <2>4 DEF KnowsAt, HasBegun, HasRead, ReadChunks
      <3> QED BY <2>2, <2>4, <3>1, <3>2 DEF EmbedderKnows
    <2> QED BY <2>4, <2>5, <2>6, RowStands, EmbedderStepKeeps DEF ReadChunks
  <1> QED BY <1>1, <1>2

\* The provider embeds a batch, or throws.
LEMMA EmbedKeeps ==
    ASSUME EmbeddingInv, NEW w \in Embedder, Embed(w)
    PROVE  EmbeddingInv'
  <1>1. embedder[w].pc = "embed" /\ {"upsert", "retry", "give up", "sweep"} \subseteq EmbedderPc
    BY DEF EmbedderPc, HasBegun, Embed
  <1>2. ~ overtaken => KnowsAt(w, "upsert") /\ KnowsAt(w, "retry") /\ KnowsAt(w, "give up")
    BY <1>1, Present DEF KnowsAt, HasBegun, HasRead
  <1>3. ~ overtaken /\ embedder[w].todo = {} => KnowsAt(w, "sweep")
    BY <1>1, Present DEF KnowsAt, HasBegun, HasRead
  <1> DEFINE pc == IF Holds(w) THEN "upsert" ELSE "retry"
  <1>4. CASE StepsTo(w, pc) /\ UNCHANGED mishaps
    BY <1>1, <1>2, <1>4, Present, HandMoves DEF Embed
  <1>5. CASE StepsTo(w, "give up") /\ Mishap
    BY <1>1, <1>2, <1>5, Present, HandMoves DEF Embed
  <1>6. CASE embedder[w].todo = {} /\ StepsTo(w, "sweep") /\ UNCHANGED mishaps
    BY <1>1, <1>3, <1>6, Present, HandMoves DEF Embed
  <1> QED BY <1>4, <1>5, <1>6 DEF Embed

\* The lease is looked at before the row is completed or a failure recorded.
LEMMA AssertKeeps ==
    ASSUME EmbeddingInv, NEW w \in Embedder, AssertLease(w) \/ AssertToFail(w)
    PROVE  EmbeddingInv'
  <1>1. embedder[w].pc \in {"assert", "retry", "give up"}
        /\ {"complete", "retry", "requeue", "quarantine", "fail"} \subseteq EmbedderPc
    BY DEF EmbedderPc, HasBegun, AssertLease, AssertToFail
  <1>2. ~ overtaken => /\ \A pc \in {"retry", "requeue", "quarantine", "fail"} : KnowsAt(w, pc)
                       /\ embedder[w].pc = "assert" => KnowsAt(w, "complete")
    BY <1>1, Present DEF KnowsAt, HasBegun, HasRead
  <1>3. CASE AssertLease(w)
    <2>1. StepsTo(w, "complete") \/ StepsTo(w, "retry")
      BY <1>3 DEF AssertLease
    <2> QED BY <1>1, <1>2, <1>3, <2>1, Present, HandMoves DEF AssertLease
  <1>4. CASE AssertToFail(w)
    <2>1. (\E pc \in {"requeue", "quarantine", "fail"} : StepsTo(w, pc)) \/ Idles(w)
      BY <1>4 DEF AssertToFail
    <2>2. CASE Idles(w)
      BY <1>1, <1>4, <2>2, Present, HandRests DEF AssertToFail
    <2>3. ASSUME NEW pc \in {"requeue", "quarantine", "fail"}, StepsTo(w, pc) PROVE EmbeddingInv'
      BY <1>1, <1>2, <1>4, <2>3, Present, HandMoves DEF AssertToFail
    <2> QED BY <2>1, <2>2, <2>3
  <1> QED BY <1>3, <1>4

\* A worker dies, or meets an error it will report.
LEMMA EmbedderFaultKeeps ==
    ASSUME EmbeddingInv, NEW w \in Embedder, EmbedderFault(w)
    PROVE  EmbeddingInv'
  <1>1. CASE Idles(w)
    BY <1>1, Present, HandRests DEF EmbedderFault
  <1>2. CASE embedder[w].pc \in {"read", "embed", "upsert", "sweep", "assert", "complete"} /\ StepsTo(w, "retry")
    <2>1. "retry" \in EmbedderPc
      BY DEF EmbedderPc, HasBegun
    <2>2. ~ overtaken => KnowsAt(w, "retry")
      BY <1>2, Present DEF KnowsAt, HasBegun, HasRead
    <2> QED BY <1>2, <2>1, <2>2, Present, HandMoves DEF EmbedderFault
  <1> QED BY <1>1, <1>2 DEF EmbedderFault

\* A worker that knows what it has to writes vectors or the row, and goes on.
LEMMA HandWrites ==
    ASSUME EmbeddingInv, NEW w \in Embedder, embedder[w].pc # "idle", NEW pc \in EmbedderPc, StepsTo(w, pc),
           UNCHANGED <<chunks, job, enqueuer, remover, requests, mishaps, overtaken>>,
           document' \in EmbeddedRow, document'.status = document.status,
           vectors' \in [Chunk -> Generation \cup {0}],
           ~ overtaken => /\ KnowsAt(w, pc)'
                          /\ document.status = "QUEUED" => document'.embedding # "COMPLETED"
                          /\ RowIsTrue'
    PROVE  EmbeddingInv'
  <1>1. EmbeddingShapes'
    BY HandGoes DEF EmbeddingInv, EmbeddingShapes, EmbeddingTypeOK, EmbeddedRow, EmbedderHand
  <1>2. /\ embedder'[w].pc = pc /\ embedder'[w].id = embedder[w].id
        /\ embedder'[w].token = embedder[w].token
    BY HandGoes DEF EmbeddingInv
  <1>3. ASSUME ~ overtaken PROVE EmbedderKnows(w)'
    <2>1. Holds(w)
      BY <1>3, Present
    <2>2. Holds(w)'
      BY <1>2, <2>1 DEF Holds
    <2> QED BY <1>2, <1>3, <2>2 DEF EmbedderKnows
  <1> QED BY <1>1, <1>3, HandGoes, EmbedderStepKeeps DEF EmbeddingInv

\* A job whose document was deleted or is being processed again: its vectors go.
LEMMA SkipKeeps ==
    ASSUME EmbeddingInv, NEW w \in Embedder, SkipDocument(w)
    PROVE  EmbeddingInv'
  <1>1. "acknowledge" \in EmbedderPc /\ embedder[w].pc = "skip"
    BY DEF EmbedderPc, SkipDocument
  <1>2. KnowsAt(w, "acknowledge")'
    BY DEF KnowsAt, HasBegun, HasRead
  <1>3. document \in EmbeddedRow /\ vectors' \in [Chunk -> Generation \cup {0}]
    BY DEF EmbeddingInv, EmbeddingShapes, EmbeddingTypeOK, EmbeddedRow, SkipDocument
  <1>4. ~ overtaken => RowIsTrue'
    BY <1>1, Present DEF KnowsAt, RowIsTrue, Stays, SkipDocument
  <1> QED BY <1>1, <1>2, <1>3, <1>4, Present, HandWrites DEF SkipDocument

\* The row is marked as being embedded; this update is not fenced.
LEMMA BeginKeeps ==
    ASSUME EmbeddingInv, NEW w \in Embedder, BeginEmbedding(w)
    PROVE  EmbeddingInv'
  <1>1. "read" \in EmbedderPc /\ embedder[w].pc = "begin"
    BY DEF EmbedderPc, HasBegun, BeginEmbedding
  <1>2. document \in EmbeddedRow /\ embedder[w].token \in Nat
    BY Present DEF EmbeddingInv, EmbeddingShapes, EmbeddingTypeOK, EmbeddedRow, EmbedderHand
  <1>3. /\ document' \in EmbeddedRow /\ document'.status = document.status
        /\ Stays => document'.embedding = "PROCESSING"
        /\ ~ Stays => document' = document
    BY <1>2 DEF BeginEmbedding, EmbeddedRow, EmbeddingStatus
  <1>4. vectors' = vectors /\ vectors \in [Chunk -> Generation \cup {0}]
    BY DEF EmbeddingInv, EmbeddingShapes, EmbeddingTypeOK, BeginEmbedding
  <1>5. ASSUME ~ overtaken PROVE KnowsAt(w, "read")' /\ RowIsTrue' /\ document'.embedding # "COMPLETED"
    <2>1. document.status = "COMPLETED" /\ Stays
      BY <1>1, <1>5, Present DEF KnowsAt, Stays
    <2> QED BY <1>3, <2>1 DEF KnowsAt, HasBegun, HasRead, RowIsTrue
  <1> QED BY <1>1, <1>3, <1>4, <1>5, HandWrites DEF BeginEmbedding

\* Vectors of a batch are written, unless the row is gone.
LEMMA UpsertKeeps ==
    ASSUME EmbeddingInv, NEW w \in Embedder, UpsertBatch(w)
    PROVE  EmbeddingInv'
  <1>1. embedder[w].pc = "upsert" /\ {"retry", "embed"} \subseteq EmbedderPc
    BY DEF EmbedderPc, HasBegun, UpsertBatch
  <1>2. CASE document.status = "PURGED"
    <2>1. ~ overtaken => KnowsAt(w, "retry")
      BY <1>1, Present DEF KnowsAt, HasBegun, HasRead
    <2> QED BY <1>1, <1>2, <2>1, Present, HandMoves DEF UpsertBatch
  <1>3. CASE document.status # "PURGED"
    <2>1. PICK k \in embedder[w].todo :
              /\ vectors' = [vectors EXCEPT ![k] = embedder[w].generation]
              /\ embedder' = [embedder EXCEPT ![w].pc = "embed", ![w].todo = @ \ {k}]
      BY <1>3 DEF UpsertBatch
    <2> DEFINE hand == [embedder[w] EXCEPT !.pc = "embed", !.todo = @ \ {k}]
    <2>2. /\ hand \in EmbedderHand /\ hand.pc = "embed" /\ hand.todo = embedder[w].todo \ {k}
          /\ hand.generation = embedder[w].generation
          /\ hand.id = embedder[w].id /\ hand.token = embedder[w].token
      BY <1>1, Present DEF EmbedderHand
    <2>3. embedder' = [embedder EXCEPT ![w] = hand]
      BY <2>1, Present
    <2> HIDE DEF hand
    <2>4. /\ embedder' \in [Embedder -> EmbedderHand] /\ embedder'[w] = hand
          /\ \A v \in Embedder \ {w} : embedder'[v] = embedder[v]
      BY <2>2, <2>3, Present
    <2>5. /\ vectors' \in [Chunk -> Generation \cup {0}] /\ k \in Chunk
          /\ \A c \in Chunk : vectors'[c] = IF c = k THEN embedder[w].generation ELSE vectors[c]
      BY <2>1, Present DEF EmbeddingInv, EmbeddingShapes, EmbeddingTypeOK, EmbedderHand
    <2>6. EmbeddingShapes'
      BY <2>4, <2>5 DEF UpsertBatch, EmbeddingInv, EmbeddingShapes, EmbeddingTypeOK, EmbedderHand
    <2>7. ASSUME ~ overtaken PROVE EmbedderKnows(w)' /\ RowIsTrue'
      <3>1. Holds(w) /\ KnowsAt(w, "upsert")
        BY <1>1, <2>7, Present
      <3>2. Holds(w)'
        BY <2>2, <2>4, <3>1 DEF Holds, UpsertBatch
      <3>3. document'.embedding # "COMPLETED" /\ document'.status = "COMPLETED"
        BY <3>1 DEF KnowsAt, HasBegun, UpsertBatch
      <3>4. /\ hand.generation \in Generation /\ hand.todo \subseteq ChunksOf[hand.generation]
            /\ \A c \in ChunksOf[hand.generation] \ hand.todo : vectors'[c] = hand.generation
        BY <2>2, <2>5, <3>1, EmbeddingAssumption DEF KnowsAt, HasRead
      <3>5. KnowsAt(w, "embed")'
        BY <2>4, <3>3, <3>4 DEF KnowsAt
      <3> QED BY <2>2, <2>4, <3>2, <3>3, <3>5 DEF EmbedderKnows, RowIsTrue
    <2> QED BY <1>1, <2>4, <2>6, <2>7, Present, EmbedderStepKeeps DEF UpsertBatch
  <1> QED BY <1>2, <1>3

\* Vectors of chunks that are no longer there go.
LEMMA SweepKeeps ==
    ASSUME EmbeddingInv, NEW w \in Embedder, DeleteStale(w)
    PROVE  EmbeddingInv'
  <1>1. embedder[w].pc = "sweep" /\ "assert" \in EmbedderPc
    BY DEF EmbedderPc, HasBegun, DeleteStale
  <1>2. document \in EmbeddedRow /\ vectors' \in [Chunk -> Generation \cup {0}]
    BY DEF EmbeddingInv, EmbeddingShapes, EmbeddingTypeOK, EmbeddedRow, DeleteStale, Swept
  <1>3. ASSUME ~ overtaken PROVE KnowsAt(w, "assert")' /\ RowIsTrue'
    <2>1. KnowsAt(w, "sweep")
      BY <1>1, <1>3, Present
    <2>2. embedder'[w].generation = embedder[w].generation /\ embedder'[w].todo = {}
      BY <1>1, <2>1, HandGoes DEF DeleteStale, KnowsAt, EmbeddingInv
    <2>3. vectors' = VectorsOf(embedder[w].generation)
      BY <2>1, <1>1 DEF KnowsAt, HasRead, DeleteStale, Swept, VectorsOf
    <2>4. \A k \in ChunksOf[embedder[w].generation] : vectors'[k] = embedder[w].generation
      BY <2>1, <2>3, EmbeddingAssumption DEF KnowsAt, HasRead, VectorsOf
    <2> QED BY <2>1, <2>2, <2>3, <2>4 DEF DeleteStale, KnowsAt, HasBegun, HasRead, RowIsTrue, VectorsOf
  <1> QED BY <1>1, <1>2, <1>3, Present, HandWrites DEF DeleteStale

\* The row is completed with the generation embedded, if it is still this worker's.
LEMMA CompletionKeeps ==
    ASSUME EmbeddingInv, NEW w \in Embedder, CompleteEmbedding(w)
    PROVE  EmbeddingInv'
  <1>1. embedder[w].pc = "complete" /\ {"retry", "acknowledge"} \subseteq EmbedderPc
    BY DEF EmbedderPc, HasBegun, CompleteEmbedding
  <1>2. CASE ~ RowIsMine(w)
    <2>1. ~ overtaken => KnowsAt(w, "retry")
      BY <1>1, Present DEF KnowsAt, HasBegun, HasRead
    <2> QED BY <1>1, <1>2, <2>1, Present, HandMoves DEF CompleteEmbedding
  <1>3. CASE RowIsMine(w)
    <2>1. document \in EmbeddedRow /\ embedder[w].generation \in Generation \cup {0}
      BY Present DEF EmbeddingInv, EmbeddingShapes, EmbeddingTypeOK, EmbeddedRow, EmbedderHand
    <2>2. /\ document' \in EmbeddedRow /\ document'.status = document.status
          /\ document'.hash = embedder[w].generation
      BY <1>3, <2>1 DEF CompleteEmbedding, EmbeddedRow, EmbeddingStatus
    <2>3. vectors' = vectors /\ vectors \in [Chunk -> Generation \cup {0}]
      BY DEF EmbeddingInv, EmbeddingShapes, EmbeddingTypeOK, CompleteEmbedding
    <2>4. ~ overtaken => RowIsTrue' /\ document.status = "COMPLETED"
      BY <1>1, <2>2, <2>3, Present DEF KnowsAt, HasBegun, RowIsTrue, VectorsOf
    <2>5. KnowsAt(w, "acknowledge")'
      BY DEF KnowsAt, HasBegun, HasRead
    <2> QED BY <1>1, <1>3, <2>2, <2>3, <2>4, <2>5, HandWrites DEF CompleteEmbedding
  <1> QED BY <1>2, <1>3

\* The row says that the job will be tried again, or that it failed.
LEMMA FailureKeeps ==
    ASSUME EmbeddingInv, NEW w \in Embedder, RecordFailure(w)
    PROVE  EmbeddingInv'
  <1>1. embedder[w].pc \in {"requeue", "quarantine", "fail"} /\ {"release", "acknowledge"} \subseteq EmbedderPc
    BY DEF EmbedderPc, HasBegun, RecordFailure
  <1>2. CASE ~ RowIsMine(w)
    BY <1>1, <1>2, Present, HandRests DEF RecordFailure
  <1>3. CASE RowIsMine(w)
    <2> DEFINE outcome == CASE embedder[w].pc = "requeue" -> "QUEUED"
                            [] embedder[w].pc = "quarantine" -> "QUARANTINED"
                            [] OTHER -> "FAILED"
    <2>1. document \in EmbeddedRow
      BY DEF EmbeddingInv, EmbeddingShapes, EmbeddingTypeOK, EmbeddedRow
    <2>2. outcome \in {"QUEUED", "QUARANTINED", "FAILED"}
      OBVIOUS
    <2>3. document' = [document EXCEPT !.worker = Nobody, !.embedding = outcome]
      BY <1>3 DEF RecordFailure
    <2> HIDE DEF outcome
    <2>4. /\ document' \in EmbeddedRow /\ document'.status = document.status
          /\ document'.embedding # "COMPLETED"
      BY <2>1, <2>2, <2>3 DEF EmbeddedRow, EmbeddingStatus
    <2>5. vectors' = vectors /\ vectors \in [Chunk -> Generation \cup {0}]
      BY DEF EmbeddingInv, EmbeddingShapes, EmbeddingTypeOK, RecordFailure
    <2>6. PICK pc \in {"release", "acknowledge"} : StepsTo(w, pc)
      BY <1>3 DEF RecordFailure
    <2>7. KnowsAt(w, pc)'
      BY <2>6 DEF KnowsAt, HasBegun, HasRead
    <2>8. RowIsTrue'
      BY <2>4 DEF RowIsTrue
    <2>9. UNCHANGED <<chunks, job, enqueuer, remover, requests, mishaps, overtaken>> /\ embedder[w].pc # "idle"
      BY <1>1 DEF RecordFailure
    <2> QED BY <1>1, <2>4, <2>5, <2>6, <2>7, <2>8, <2>9, HandWrites
  <1> QED BY <1>2, <1>3

\* The worker removes its job or makes it wait, and ends.
LEMMA AcknowledgementKeeps ==
    ASSUME EmbeddingInv, NEW w \in Embedder, AcknowledgeEmbedding(w) \/ ReleaseEmbedding(w)
    PROVE  EmbeddingInv'
  <1>1. job \in EmbeddingJob /\ job.id \in Nat
    BY Present DEF EmbeddingJob
  <1>2. job' \in EmbeddingJob
    <2>1. CASE AcknowledgeEmbedding(w)
      BY <1>1, <2>1, EmbeddingJobs DEF AcknowledgeEmbedding
    <2>2. CASE ReleaseEmbedding(w)
      BY <1>1, <2>2 DEF ReleaseEmbedding, EmbeddingJob
    <2> QED BY <2>1, <2>2
  <1> QED BY <1>2, Present, HandRests DEF AcknowledgeEmbedding, ReleaseEmbedding

\* All steps of a worker at its job.
LEMMA EmbedderKeeps ==
    ASSUME EmbeddingInv, NEW w \in Embedder, EmbedderStep(w) \/ EmbedderFault(w)
    PROVE  EmbeddingInv'
  BY FindKeeps, SkipKeeps, BeginKeeps, ReadKeeps, EmbedKeeps, UpsertKeeps, SweepKeeps, AssertKeeps,
     CompletionKeeps, FailureKeeps, AcknowledgementKeeps, EmbedderFaultKeeps DEF EmbedderStep

\* A job is claimed that waits or whose lease ran out: a worker that still had it
\* would have been overtaken.
LEMMA ClaimKeeps ==
    ASSUME EmbeddingInv, NEW w \in Embedder, ClaimJob(w)
    PROVE  EmbeddingInv'
  <1> DEFINE hand == [IdleEmbedder EXCEPT !.pc = "find", !.id = job.id, !.token = job.token + 1]
             claimed == [job EXCEPT !.status = "PROCESSING", !.owner = w, !.token = @ + 1, !.due = FALSE]
  <1>1. job \in EmbeddingJob /\ job.due /\ job.id \in Nat /\ job.token + 1 \in Nat
    BY Present DEF ClaimJob, ClaimableJob, EmbeddingJob
  <1>2. IdleEmbedder \in EmbedderHand
    BY DEF IdleEmbedder, EmbedderHand, EmbedderPc
  <1>3. hand \in EmbedderHand /\ hand.pc = "find" /\ hand.id = job.id /\ hand.token = job.token + 1
    BY <1>1, <1>2 DEF EmbedderHand, EmbedderPc
  <1>4. /\ claimed \in EmbeddingJob /\ claimed.status = "PROCESSING" /\ claimed.owner = w
        /\ claimed.id = job.id /\ claimed.token = job.token + 1
    BY <1>1 DEF EmbeddingJob
  <1>5. ~ claimed.due
    BY <1>1 DEF EmbeddingJob
  <1>6. job' = claimed /\ embedder' = [embedder EXCEPT ![w] = hand]
    BY DEF ClaimJob
  <1> HIDE DEF hand, claimed
  <1>7. /\ embedder' \in [Embedder -> EmbedderHand] /\ embedder'[w] = hand
        /\ \A v \in Embedder \ {w} : embedder'[v] = embedder[v]
    BY <1>3, <1>6, Present
  <1>8. EmbeddingShapes'
    BY <1>4, <1>6, <1>7 DEF EmbeddingInv, EmbeddingShapes, EmbeddingTypeOK, EmbeddingJob, EmbedderHand, ClaimJob
  <1>9. Holds(w)' /\ KnowsAt(w, "find")'
    BY <1>3, <1>4, <1>5, <1>6, <1>7 DEF Holds, KnowsAt, HasBegun, HasRead
  <1>10. ASSUME ~ overtaken, NEW v \in Embedder PROVE EmbedderKnows(v)'
    <2>1. CASE v = w
      BY <1>3, <1>7, <1>9, <2>1 DEF EmbedderKnows
    <2>2. CASE v # w
      <3>1. embedder[v].pc = "idle"
        BY <1>1, <1>10, Present DEF Holds
      <3> QED BY <1>7, <2>2, <3>1 DEF EmbedderKnows, KnowsAt, HasBegun, HasRead
    <2> QED BY <2>1, <2>2
  <1> QED BY <1>8, <1>10 DEF EmbeddingInv, RowIsTrue, ClaimJob, Stays

-----------------------------------------------------------------------------
\* Others change the row, or the job when there is none.
LEMMA AskingKeeps ==
    ASSUME EmbeddingInv, EmbeddingShapes', UNCHANGED <<vectors, embedder, remover, overtaken>>,
           job' = job \/ job.status = "NONE",
           document'.status = document.status,
           document' = document \/ document'.embedding # "COMPLETED"
    PROVE  EmbeddingInv'
  <1>1. ASSUME ~ overtaken, NEW w \in Embedder PROVE EmbedderKnows(w)'
    <2>1. (embedder[w].pc # "idle" => Holds(w)) /\ KnowsAt(w, embedder[w].pc)
      BY <1>1, Present
    <2>2. embedder[w].pc # "idle" => Holds(w)'
      BY <2>1 DEF Holds
    <2>3. KnowsAt(w, embedder[w].pc)'
      BY <2>1 DEF KnowsAt, Stays, VectorsOf
    <2> QED BY <2>2, <2>3 DEF EmbedderKnows
  <1> QED BY <1>1 DEF EmbeddingInv, RowIsTrue, VectorsOf, Stays

\* Requests for an embedding keep their shape.
LEMMA AskShapes ==
    ASSUME EmbeddingShapes, NEW e \in Enqueuer, NEW pc \in {"idle", "look", "enqueue", "mark"},
           NEW b, Ask(e, pc, b), b \in BOOLEAN
    PROVE  enqueuer' \in [Enqueuer -> EnqueuerHand]
  BY DEF Ask, EmbeddingShapes, EnqueuerHand

\* Reindexing and the enqueueing of a job, whose parts are separate calls.
LEMMA EnqueuerKeeps ==
    ASSUME EmbeddingInv, NEW e \in Enqueuer,
           \/ RequestReindex(e) \/ LookAtDocument(e) \/ CompareChunks(e)
           \/ EnqueueEmbedding(e) \/ MarkQueued(e) \/ EnqueuerFault(e)
    PROVE  EmbeddingInv'
  <1>1. /\ EmbeddingShapes /\ EmbeddingTypeOK /\ enqueuer[e].processed \in BOOLEAN
        /\ document \in EmbeddedRow /\ job \in EmbeddingJob
    <2>1. enqueuer \in [Enqueuer -> EnqueuerHand]
      BY DEF EmbeddingInv, EmbeddingShapes
    <2> QED BY <2>1 DEF EmbeddingInv, EmbeddingShapes, EmbeddingTypeOK, EmbeddedRow, EmbeddingJob, EnqueuerHand
  <1>2. \A x \in {"QUEUED", "FAILED"} :
           LET row == [document EXCEPT !.embedding = x]
           IN  row \in EmbeddedRow /\ row.status = document.status /\ row.embedding # "COMPLETED"
    BY <1>1 DEF EmbeddedRow, EmbeddingStatus
  <1>3. enqueuer' \in [Enqueuer -> EnqueuerHand]
    <2>1. CASE enqueuer' = [enqueuer EXCEPT ![e].pc = "compare", ![e].seen = EmbeddedWith]
      <3>1. EmbeddedWith \in Generation \cup {0}
        BY <1>1 DEF EmbeddedWith, EmbeddedRow
      <3>2. enqueuer[e] \in EnqueuerHand /\ enqueuer \in [Enqueuer -> EnqueuerHand]
        BY <1>1 DEF EmbeddingShapes
      <3>3. [enqueuer[e] EXCEPT !.pc = "compare", !.seen = EmbeddedWith] \in EnqueuerHand
        BY <3>1, <3>2 DEF EnqueuerHand
      <3> QED BY <2>1, <3>2, <3>3
    <2> QED BY <1>1, <2>1, AskShapes DEF RequestReindex, LookAtDocument, CompareChunks,
               EnqueueEmbedding, MarkQueued, EnqueuerFault, AskThrows, AskOn, AskEnds
  <1>4. job' \in EmbeddingJob /\ (job' = job \/ job.status = "NONE")
    <2>0. job.id + 1 \in Nat
      BY <1>1 DEF EmbeddingJob
    <2>1. QueuedJob(job.id + 1) \in EmbeddingJob
      BY <2>0, EmbeddingJobs
    <2> QED BY <1>1, <2>1 DEF RequestReindex, LookAtDocument, CompareChunks, EnqueueEmbedding, MarkQueued, EnqueuerFault
  <1>5. /\ document' \in EmbeddedRow /\ document'.status = document.status
        /\ document' = document \/ document'.embedding # "COMPLETED"
    BY <1>1, <1>2 DEF RequestReindex, LookAtDocument, CompareChunks, EnqueueEmbedding, MarkQueued, EnqueuerFault, AskThrows
  <1>6. mishaps' \in 0..MaxMishaps /\ requests' \in 0..MaxRequests
    <2>1. /\ mishaps \in 0..MaxMishaps /\ requests \in 0..MaxRequests
          /\ mishaps > 0 => mishaps - 1 \in 0..MaxMishaps
          /\ requests > 0 => requests - 1 \in 0..MaxRequests
      BY <1>1, EmbeddingAssumption DEF EmbeddingTypeOK
    <2> QED BY <2>1 DEF RequestReindex, LookAtDocument, CompareChunks, EnqueueEmbedding, MarkQueued, EnqueuerFault,
               Mishap, Request
  <1>7. UNCHANGED <<chunks, vectors, embedder, remover, overtaken>>
    BY DEF RequestReindex, LookAtDocument, CompareChunks, EnqueueEmbedding, MarkQueued, EnqueuerFault
  <1>8. EmbeddingShapes'
    BY <1>1, <1>3, <1>4, <1>5, <1>6, <1>7
       DEF EmbeddingShapes, EmbeddingTypeOK, EmbeddedRow, EmbeddingJob, EnqueuerHand
  <1> QED BY <1>4, <1>5, <1>7, <1>8, AskingKeeps

\* The document worker saves chunks and completes the document.
LEMMA DocumentWorkerKeeps ==
    ASSUME EmbeddingInv, SaveExtracted \/ \E e \in Enqueuer : CompleteDocument(e)
    PROVE  EmbeddingInv'
  <1>1. EmbeddingShapes /\ document \in EmbeddedRow
    BY DEF EmbeddingInv, EmbeddingShapes, EmbeddingTypeOK, EmbeddedRow
  <1>2. CASE SaveExtracted
    <2>1. EmbeddingShapes'
      BY <1>1, <1>2 DEF SaveExtracted, EmbeddingShapes, EmbeddingTypeOK, EmbedderHand
    <2> QED BY <1>2, <2>1, AskingKeeps DEF SaveExtracted
  <1>3. ASSUME NEW e \in Enqueuer, CompleteDocument(e) PROVE EmbeddingInv'
    <2>1. enqueuer' \in [Enqueuer -> EnqueuerHand]
      BY <1>1, <1>3, AskShapes DEF CompleteDocument
    <2>2. /\ document' \in EmbeddedRow /\ document'.status = "COMPLETED"
          /\ document'.embedding = document.embedding /\ document.status = "QUEUED"
      BY <1>1, <1>3 DEF CompleteDocument, EmbeddedRow
    <2>3. EmbeddingShapes'
      BY <1>1, <1>3, <2>1, <2>2
         DEF CompleteDocument, EmbeddingShapes, EmbeddingTypeOK, EmbeddedRow, EmbedderHand, EnqueuerHand
    <2>4. ASSUME ~ overtaken, NEW w \in Embedder PROVE EmbedderKnows(w)' /\ document'.embedding # "COMPLETED"
      <3>1. (embedder[w].pc # "idle" => Holds(w)) /\ KnowsAt(w, embedder[w].pc) /\ document.embedding # "COMPLETED"
        BY <2>2, <2>4, Present
      <3>2. embedder[w].pc # "idle" => Holds(w)'
        BY <1>3, <3>1 DEF Holds, CompleteDocument
      <3>3. embedder[w].pc \notin HasBegun \cup {"begin"}
        BY <2>2, <3>1 DEF KnowsAt
      <3>4. KnowsAt(w, embedder[w].pc)'
        BY <1>3, <2>2, <3>1, <3>3 DEF KnowsAt, HasBegun, HasRead, CompleteDocument
      <3> QED BY <1>3, <2>2, <3>1, <3>2, <3>4 DEF EmbedderKnows, CompleteDocument
    <2>5. ~ overtaken => document'.embedding # "COMPLETED"
      BY <2>2 DEF EmbeddingInv
    <2> QED BY <1>3, <2>2, <2>3, <2>4, <2>5 DEF EmbeddingInv, RowIsTrue, CompleteDocument, Stays
  <1> QED BY <1>2, <1>3

\* What an idle worker knows is true.
LEMMA NobodyWorks ==
    ASSUME EmbeddingInv, embedder' = embedder, Working = {}, NEW w \in Embedder
    PROVE  EmbedderKnows(w)'
  BY DEF EmbedderKnows, KnowsAt, Working, HasBegun, HasRead

\* A job comes due; a lease runs out under a worker, which is thereby overtaken.
LEMMA TimeKeeps ==
    ASSUME EmbeddingInv, JobRipens \/ EmbeddingLeaseLapses
    PROVE  EmbeddingInv'
  <1>1. EmbeddingShapes /\ job \in EmbeddingJob
    BY DEF EmbeddingInv, EmbeddingShapes, EmbeddingTypeOK, EmbeddingJob
  <1>2. job' \in EmbeddingJob
    BY <1>1 DEF JobRipens, EmbeddingLeaseLapses, EmbeddingJob
  <1>3. mishaps' \in 0..MaxMishaps
    <2>1. mishaps > 0 => mishaps - 1 \in 0..MaxMishaps
      BY EmbeddingAssumption DEF EmbeddingInv, EmbeddingShapes, EmbeddingTypeOK
    <2> QED BY <1>1, <2>1 DEF JobRipens, EmbeddingLeaseLapses, Mishap, EmbeddingShapes, EmbeddingTypeOK
  <1>4. EmbeddingShapes'
    BY <1>1, <1>2, <1>3 DEF JobRipens, EmbeddingLeaseLapses, EmbeddingShapes, EmbeddingTypeOK, EmbeddingJob,
       EmbedderHand
  <1>5. CASE JobRipens
    <2>1. ~ overtaken => Working = {}
      BY <1>5, Present DEF JobRipens, Working
    <2>2. ~ overtaken => \A w \in Embedder : EmbedderKnows(w)'
      BY <1>5, <2>1, NobodyWorks DEF JobRipens
    <2> QED BY <1>4, <1>5, <2>2 DEF EmbeddingInv, RowIsTrue, JobRipens, Stays
  <1>6. CASE EmbeddingLeaseLapses
    BY <1>4, <1>6 DEF EmbeddingInv, EmbeddingLeaseLapses, Stays
  <1> QED BY <1>5, <1>6

\* A removal changes what workers know only if it overtakes them or none works.
LEMMA RemovalKeeps ==
    ASSUME EmbeddingInv, NEW r \in Remover, EmbeddingShapes', embedder' = embedder,
           \A s \in Remover \ {r} : remover'[s] = remover[s],
           remover'[r].pc # "idle" /\ remover'[r].what # "reprocess" => ~ Stays',
           ~ Stays => ~ Stays',
           ~ overtaken' =>
              /\ ~ overtaken /\ (Working = {} \/ UNCHANGED <<document, job, vectors>>)
              /\ document'.status = "QUEUED" => document'.embedding # "COMPLETED"
              /\ RowIsTrue'
    PROVE  EmbeddingInv'
  <1>1. ASSUME ~ overtaken', NEW w \in Embedder PROVE EmbedderKnows(w)'
    <2>1. CASE Working = {}
      BY <2>1, NobodyWorks
    <2>2. CASE UNCHANGED <<document, job, vectors>>
      <3>1. EmbedderKnows(w)
        BY <1>1 DEF EmbeddingInv
      <3> QED BY <2>2, <3>1 DEF EmbedderKnows, KnowsAt, Holds, Stays, VectorsOf
    <2> QED BY <1>1, <2>1, <2>2
  <1> QED BY <1>1 DEF EmbeddingInv

RemoverHand == [pc : {"idle", "job", "vectors", "reset", "files", "purge"},
                what : {"none", "reprocess", "delete", "cleanup"}]

RemoverAction(r) ==
    \/ StartReprocessing(r) \/ DeleteDocument(r) \/ StartCleanup(r)
    \/ RemoveEmbeddingJob(r) \/ DeleteVectors(r) \/ Reset(r) \/ DeleteChunks(r)
    \/ Purge(r) \/ RemoverFault(r)

\* Where a remover goes, from where, and what it does to the row there.
LEMMA RemoverMoves ==
    ASSUME EmbeddingInv, NEW r \in Remover, RemoverAction(r)
    PROVE  /\ remover' \in [Remover -> RemoverHand]
           /\ \A s \in Remover \ {r} : remover'[s] = remover[s]
           /\ remover'[r].pc # "idle" /\ remover'[r].what # "reprocess"
                => (remover[r].pc # "idle" /\ remover[r].what # "reprocess") \/ ~ Stays'
           /\ remover[r].pc = "reset" => Reset(r) \/ RemoverFault(r)
  <1>1. remover \in [Remover -> RemoverHand] /\ remover[r] \in RemoverHand
    BY DEF EmbeddingInv, EmbeddingShapes, RemoverHand
  <1>2. IdleRemover \in RemoverHand /\ IdleRemover.pc = "idle"
    BY DEF IdleRemover, RemoverHand
  <1>3. ASSUME RemoverEnds(r)
        PROVE  /\ remover' \in [Remover -> RemoverHand] /\ remover'[r].pc = "idle"
               /\ \A s \in Remover \ {r} : remover'[s] = remover[s]
    BY <1>1, <1>2, <1>3 DEF RemoverEnds
  <1>4. ASSUME NEW pc \in {"job", "vectors", "reset", "files", "purge"},
               NEW what \in {"reprocess", "delete", "cleanup"}, Removing(r, pc, what)
        PROVE  /\ remover' \in [Remover -> RemoverHand] /\ remover'[r].pc = pc /\ remover'[r].what = what
               /\ \A s \in Remover \ {r} : remover'[s] = remover[s]
    BY <1>1, <1>4 DEF Removing, RemoverHand
  <1>5. ASSUME NEW pc \in {"job", "vectors", "reset", "files", "purge"}, RemoverGoes(r, pc)
        PROVE  /\ remover' \in [Remover -> RemoverHand] /\ remover'[r].pc = pc
               /\ remover'[r].what = remover[r].what
               /\ \A s \in Remover \ {r} : remover'[s] = remover[s]
    BY <1>1, <1>5 DEF RemoverGoes, Removing, RemoverHand
  <1>6. CASE StartReprocessing(r)
    <2>1. remover[r].pc = "idle" /\ Removing(r, "job", "reprocess")
      BY <1>2, <1>6 DEF StartReprocessing
    <2> QED BY <1>4, <2>1
  <1>7. CASE DeleteDocument(r)
    <2>1. /\ remover[r].pc = "idle" /\ Removing(r, "job", "delete")
          /\ document' = [document EXCEPT !.status = "DELETED"]
      BY <1>2, <1>7 DEF DeleteDocument
    <2>2. ~ Stays'
      BY <2>1 DEF EmbeddingInv, EmbeddingShapes, EmbeddingTypeOK, Stays
    <2> QED BY <1>4, <2>1, <2>2
  <1>8. CASE StartCleanup(r)
    <2>1. remover[r].pc = "idle" /\ Removing(r, "files", "cleanup") /\ ~ Stays'
      BY <1>2, <1>8 DEF StartCleanup, Stays
    <2> QED BY <1>4, <2>1
  <1>9. CASE RemoveEmbeddingJob(r)
    <2>1. remover[r].pc = "job" /\ RemoverGoes(r, "vectors")
      BY <1>9 DEF RemoveEmbeddingJob
    <2> QED BY <1>5, <2>1
  <1>10. CASE DeleteVectors(r)
    <2>1. remover[r].pc = "vectors" /\ (RemoverGoes(r, "reset") \/ RemoverGoes(r, "purge") \/ RemoverEnds(r))
      BY <1>10 DEF DeleteVectors
    <2> QED BY <1>3, <1>5, <2>1
  <1>11. CASE Reset(r)
    <2>1. remover[r].pc = "reset" /\ (RemoverGoes(r, "files") \/ RemoverEnds(r))
      BY <1>11 DEF Reset
    <2> QED BY <1>3, <1>5, <1>11, <2>1
  <1>12. CASE DeleteChunks(r)
    <2>1. remover[r].pc = "files" /\ (RemoverGoes(r, "job") \/ RemoverEnds(r))
      BY <1>12 DEF DeleteChunks
    <2> QED BY <1>3, <1>5, <2>1
  <1>13. CASE Purge(r)
    <2>1. remover[r].pc = "purge" /\ RemoverEnds(r)
      BY <1>13 DEF Purge
    <2> QED BY <1>3, <2>1
  <1>14. CASE RemoverFault(r)
    BY <1>3, <1>14 DEF RemoverFault
  <1> QED BY <1>6, <1>7, <1>8, <1>9, <1>10, <1>11, <1>12, <1>13, <1>14 DEF RemoverAction

\* Steps of reprocessing, deletion and cleanup keep all shapes, and never bring a
\* row back.
LEMMA RemoverKeepsShapes ==
    ASSUME EmbeddingInv, NEW r \in Remover, RemoverAction(r)
    PROVE  EmbeddingShapes' /\ document' \in EmbeddedRow /\ (~ Stays => ~ Stays')
  <1>1. /\ EmbeddingShapes /\ EmbeddingTypeOK
        /\ document \in EmbeddedRow /\ job \in EmbeddingJob /\ job.id \in Nat
    BY DEF EmbeddingInv, EmbeddingShapes, EmbeddingTypeOK, EmbeddedRow, EmbeddingJob
  <1>2. job' \in EmbeddingJob
    BY <1>1, EmbeddingJobs DEF RemoverAction, StartReprocessing, DeleteDocument, StartCleanup,
       RemoveEmbeddingJob, DeleteVectors, Reset, DeleteChunks, Purge, RemoverFault
  <1>3. document' \in EmbeddedRow /\ (~ Stays => ~ Stays')
    <2>1. CASE document' = document
      BY <1>1, <2>1 DEF Stays
    <2>2. CASE document' = [document EXCEPT !.status = "DELETED"] \/ document' = [document EXCEPT !.status = "PURGED"]
      BY <1>1, <2>2 DEF EmbeddedRow, Stays
    <2>3. CASE document' = ResetDocument /\ document.status = "COMPLETED"
      BY <1>1, <2>3 DEF EmbeddedRow, Stays, ResetDocument, EmbeddingStatus
    <2> QED BY <2>1, <2>2, <2>3 DEF RemoverAction, StartReprocessing, DeleteDocument, StartCleanup,
            RemoveEmbeddingJob, DeleteVectors, Reset, DeleteChunks, Purge, RemoverFault
  <1>4. mishaps' \in 0..MaxMishaps /\ requests' \in 0..MaxRequests
    <2>1. /\ mishaps \in 0..MaxMishaps /\ requests \in 0..MaxRequests
          /\ mishaps > 0 => mishaps - 1 \in 0..MaxMishaps
          /\ requests > 0 => requests - 1 \in 0..MaxRequests
      BY <1>1, EmbeddingAssumption DEF EmbeddingTypeOK
    <2> QED BY <2>1 DEF RemoverAction, StartReprocessing, DeleteDocument, StartCleanup, RemoveEmbeddingJob,
               DeleteVectors, Reset, DeleteChunks, Purge, RemoverFault, Mishap, Request
  <1>5. /\ vectors' \in [Chunk -> Generation \cup {0}] /\ chunks' \in Generation \cup {0}
        /\ UNCHANGED <<embedder, enqueuer>>
    BY <1>1 DEF RemoverAction, StartReprocessing, DeleteDocument, StartCleanup, RemoveEmbeddingJob,
       DeleteVectors, Reset, DeleteChunks, Purge, RemoverFault, EmbeddingTypeOK
  <1> QED BY <1>1, <1>2, <1>3, <1>4, <1>5, RemoverMoves
             DEF EmbeddingShapes, EmbeddingTypeOK, EmbeddedRow, EmbeddingJob, EmbedderHand, RemoverHand

\* They keep the invariant: either they overtake a worker, or none works.  Whoever
\* reprocesses and has deleted the vectors will reset the row, or has crashed, which
\* counts as overtaking.
LEMMA RemoverKeeps ==
    ASSUME EmbeddingInv, NEW r \in Remover, RemoverAction(r)
    PROVE  EmbeddingInv'
  <1>1. /\ EmbeddingShapes' /\ (~ Stays => ~ Stays') /\ document \in EmbeddedRow
        /\ \A s \in Remover \ {r} : remover'[s] = remover[s]
        /\ remover'[r].pc # "idle" /\ remover'[r].what # "reprocess" => ~ Stays'
    BY RemoverKeepsShapes, RemoverMoves DEF EmbeddingInv, EmbeddingShapes, EmbeddingTypeOK, EmbeddedRow
  <1>2. embedder' = embedder
    BY DEF RemoverAction, StartReprocessing, DeleteDocument, StartCleanup, RemoveEmbeddingJob,
       DeleteVectors, Reset, DeleteChunks, Purge, RemoverFault
  <1>3. ~ overtaken' => ~ overtaken /\ (Working = {} \/ UNCHANGED <<document, job, vectors>>)
    BY DEF RemoverAction, StartReprocessing, DeleteDocument, StartCleanup, RemoveEmbeddingJob,
       DeleteVectors, Reset, DeleteChunks, Purge, RemoverFault, Overtakes
  <1>4. ASSUME ~ overtaken', document' = document
        PROVE  (document'.status = "QUEUED" => document'.embedding # "COMPLETED") /\ RowIsTrue'
    <2>1. document.status = "QUEUED" => document.embedding # "COMPLETED"
      BY <1>3, <1>4 DEF EmbeddingInv
    <2>2. ASSUME document.status = "COMPLETED", document.embedding = "COMPLETED"
          PROVE  vectors' = VectorsOf(document.hash) \/ \E s \in Remover : remover'[s].pc = "reset"
      <3>1. ~ Reset(r) /\ ~ RemoverFault(r)
        <4>1. Reset(r) => document'.status = "QUEUED"
          BY <1>1, <2>2 DEF Reset, ResetDocument, EmbeddedRow
        <4>2. RemoverFault(r) => overtaken'
          BY DEF RemoverFault
        <4> QED BY <1>4, <2>2, <4>1, <4>2
      <3>2. remover[r].pc # "reset"
        BY <3>1, RemoverMoves
      <3>3. CASE \E s \in Remover : remover[s].pc = "reset"
        BY <1>1, <3>2, <3>3
      <3>4. CASE vectors = VectorsOf(document.hash) /\ vectors' = vectors
        BY <3>4
      <3>5. CASE vectors' # vectors
        <4>1. DeleteVectors(r) \/ Purge(r)
          BY <3>5 DEF RemoverAction, StartReprocessing, DeleteDocument, StartCleanup, RemoveEmbeddingJob,
             DeleteVectors, Reset, DeleteChunks, Purge, RemoverFault
        <4>2. ~ Purge(r)
          BY <1>1, <1>4, <2>2 DEF Purge, EmbeddedRow
        <4>3. DeleteVectors(r) /\ remover[r].pc = "vectors"
          BY <4>1, <4>2 DEF DeleteVectors
        <4>4. remover[r].what = "reprocess"
          BY <2>2, <4>3 DEF EmbeddingInv, Stays
        <4>5. RemoverGoes(r, "reset") /\ remover \in [Remover -> RemoverHand]
          BY <4>3, <4>4 DEF DeleteVectors, EmbeddingInv, EmbeddingShapes, RemoverHand
        <4>6. remover'[r].pc = "reset"
          BY <4>5 DEF RemoverGoes, Removing
        <4> QED BY <4>6
      <3> QED BY <1>3, <1>4, <2>2, <3>3, <3>4, <3>5 DEF EmbeddingInv, RowIsTrue
    <2> QED BY <1>4, <2>1, <2>2 DEF RowIsTrue, VectorsOf
  <1>5. ASSUME document' # document
        PROVE  (document'.status = "QUEUED" => document'.embedding # "COMPLETED") /\ RowIsTrue'
    <2>1. \/ document' = [document EXCEPT !.status = "DELETED"] \/ document' = [document EXCEPT !.status = "PURGED"]
          \/ document' = ResetDocument
      BY <1>5 DEF RemoverAction, StartReprocessing, DeleteDocument, StartCleanup, RemoveEmbeddingJob,
         DeleteVectors, Reset, DeleteChunks, Purge, RemoverFault
    <2>2. CASE document' = ResetDocument
      BY <1>1, <2>2 DEF ResetDocument, EmbeddedRow, RowIsTrue
    <2>3. CASE document'.status \in {"DELETED", "PURGED"}
      BY <2>3 DEF RowIsTrue
    <2> QED BY <1>1, <2>1, <2>2, <2>3 DEF EmbeddedRow
  <1> QED BY <1>1, <1>2, <1>3, <1>4, <1>5, RemovalKeeps

\* Every step keeps the inductive invariant.
LEMMA EmbeddingStep == EmbeddingInv /\ [EmbeddingNext]_embeddingVars => EmbeddingInv'
  <1> SUFFICES ASSUME EmbeddingInv, [EmbeddingNext]_embeddingVars PROVE EmbeddingInv'
    OBVIOUS
  <1>1. ASSUME NEW w \in Embedder, ClaimJob(w) \/ EmbedderStep(w) \/ EmbedderFault(w) PROVE EmbeddingInv'
    BY <1>1, ClaimKeeps, EmbedderKeeps
  <1>2. ASSUME NEW e \in Enqueuer, CompleteDocument(e) \/ RequestReindex(e) \/ LookAtDocument(e)
                 \/ CompareChunks(e) \/ EnqueueEmbedding(e) \/ MarkQueued(e) \/ EnqueuerFault(e)
        PROVE EmbeddingInv'
    BY <1>2, EnqueuerKeeps, DocumentWorkerKeeps
  <1>3. ASSUME NEW r \in Remover, RemoverAction(r) PROVE EmbeddingInv'
    BY <1>3, RemoverKeeps
  <1>4. CASE SaveExtracted \/ JobRipens \/ EmbeddingLeaseLapses
    BY <1>4, DocumentWorkerKeeps, TimeKeeps
  <1>5. CASE UNCHANGED embeddingVars
    <2>1. EmbeddingShapes'
      BY <1>5 DEF EmbeddingInv, EmbeddingShapes, EmbeddingTypeOK, EmbedderHand, embeddingVars
    <2> QED BY <1>5, <2>1, AskingKeeps DEF embeddingVars
  <1> QED BY <1>1, <1>2, <1>3, <1>4, <1>5 DEF EmbeddingNext, RemoverAction

\* As long as nothing overtook a worker, the one that works holds the job and the row
\* and vectors are as it has left them (document-embedding.ts, embedding-queue.ts).
THEOREM EmbeddingInvariance == EmbeddingSpec => []EmbeddingInv
  BY EmbeddingStarts, EmbeddingStep, PTL DEF EmbeddingSpec

\* Row, job, vectors and workers of document-embedding.ts keep their shape.
THEOREM EmbeddingIsTyped == EmbeddingSpec => []EmbeddingTypeOK
  <1>1. EmbeddingInv => EmbeddingTypeOK
    BY DEF EmbeddingInv, EmbeddingShapes
  <1> QED BY <1>1, EmbeddingInvariance, PTL

\* A document marked as embedded has the vectors of all its present chunks and no
\* others, unless a worker of document-embedding.ts was overtaken by its lease or by
\* a removal, or a removal was cut short.
THEOREM AlwaysEmbedded == EmbeddingSpec => []EmbeddedUnlessOvertaken
  <1>1. EmbeddingInv => EmbeddedUnlessOvertaken
    <2> SUFFICES ASSUME EmbeddingInv, Undisturbed, Searchable PROVE Embedded
      BY DEF EmbeddedUnlessOvertaken
    <2>1. document.hash = chunks /\ RowIsTrue
      BY DEF EmbeddingInv, Undisturbed, Searchable
    <2>2. ~ \E r \in Remover : remover[r].pc = "reset"
      BY DEF Undisturbed, IdleRemover
    <2> QED BY <2>1, <2>2 DEF RowIsTrue, Searchable, Embedded, VectorsOf
  <1> QED BY <1>1, EmbeddingInvariance, PTL

-----------------------------------------------------------------------------
(* Sums.  What holds of the sum over a finite set is shown of a smallest    *)
(* subset for which it would fail: there is one, and what is left of it     *)
(* without an element is smaller.                                           *)

\* The library adds up the values of a function by taking one element after the
\* other out of its domain.
AnyOf(s) == CHOOSE x \in s : TRUE
Rest(s) == s \ {AnyOf(s)}

SumsUp(h, f, S) == h = [s \in SUBSET S |-> IF s = {} THEN 0 ELSE f[AnyOf(s)] + h[Rest(s)]]

\* The library's sum is the value, at the whole domain, of such a function.
LEMMA TotalIs ==
    ASSUME NEW S, NEW f, DOMAIN f = S
    PROVE  SumFunction(f) = (CHOOSE h : SumsUp(h, f, S))[S]
  <1>1. SumFunction(f) = (CHOOSE h : SumsUp(h, f, DOMAIN f))[DOMAIN f]
    BY Zenon DEF SumFunction, SumFunctionOnSet, FoldFunctionOnSet, MapThenFoldSet, SumsUp, AnyOf, Rest
  <1> QED BY <1>1

\* What is left of a set without one of its elements.
LEMMA RestIsLess ==
    ASSUME NEW s, s # {}
    PROVE  AnyOf(s) \in s /\ Rest(s) \subseteq s /\ Rest(s) # s
  BY DEF AnyOf, Rest

\* A collection of subsets of a finite set has a smallest one.
LEMMA SmallestSubset ==
    ASSUME NEW S, IsFiniteSet(S), NEW T, T \subseteq SUBSET S, T # {}
    PROVE  \E m \in T : \A t \in T : t \subseteq m => t = m
  <1>1. PICK m \in T : \A t \in T : ~ (<<t, m>> \in StrictSubsetOrdering(S))
    BY FS_StrictSubsetOrderingWellFounded, FS_FiniteSubsetsOfFinite, WFMin
  <1>2. ASSUME NEW t \in T, t \subseteq m, t # m PROVE FALSE
    <2>1. <<t, m>> \in StrictSubsetOrdering(S)
      BY <1>2 DEF StrictSubsetOrdering
    <2> QED BY <1>1, <1>2, <2>1
  <1> QED BY <1>2

\* Two ways to add up agree where both are defined.
LEMMA SumsAgree ==
    ASSUME NEW S, IsFiniteSet(S), NEW f, NEW U \in SUBSET S, NEW V \in SUBSET S,
           NEW g, NEW h, SumsUp(g, f, U), SumsUp(h, f, V)
    PROVE  \A s \in SUBSET (U \cap V) : g[s] = h[s]
  <1> DEFINE T == {s \in SUBSET (U \cap V) : g[s] # h[s]}
  <1> SUFFICES ASSUME T # {} PROVE FALSE
    OBVIOUS
  <1>0. T \subseteq SUBSET S
    OBVIOUS
  <1>1. PICK m \in T : \A t \in T : t \subseteq m => t = m
    <2> HIDE DEF T
    <2> QED BY <1>0, SmallestSubset
  <1>2. \A s \in SUBSET (U \cap V) : /\ g[s] = IF s = {} THEN 0 ELSE f[AnyOf(s)] + g[Rest(s)]
                                     /\ h[s] = IF s = {} THEN 0 ELSE f[AnyOf(s)] + h[Rest(s)]
    BY DEF SumsUp
  <1>3. m # {}
    BY <1>1, <1>2
  <1>4. Rest(m) \in SUBSET (U \cap V) /\ Rest(m) \notin T
    BY <1>1, <1>3, RestIsLess
  <1> QED BY <1>1, <1>2, <1>3, <1>4

\* There is a way to add up over a finite set.
LEMMA SumExists ==
    ASSUME NEW S, IsFiniteSet(S), NEW f
    PROVE  \E h : SumsUp(h, f, S)
  <1> DEFINE T == {s \in SUBSET S : ~ \E h : SumsUp(h, f, s)}
             G(u) == CHOOSE h : SumsUp(h, f, u)
  <1> SUFFICES ASSUME T # {} PROVE FALSE
    OBVIOUS
  <1>0. T \subseteq SUBSET S
    OBVIOUS
  <1>1. PICK m \in T : \A t \in T : t \subseteq m => t = m
    <2> HIDE DEF T
    <2> QED BY <1>0, SmallestSubset
  <1>2. \A u \in SUBSET m : u # m => SumsUp(G(u), f, u)
    BY <1>1
  <1> DEFINE g == [t \in SUBSET m |-> IF t = {} THEN 0 ELSE f[AnyOf(t)] + G(Rest(t))[Rest(t)]]
  <1> HIDE DEF G
  <1>3. ASSUME NEW u \in SUBSET m, u # m PROVE g[u] = G(u)[u]
    <2>1. SumsUp(G(u), f, u)
      BY <1>2, <1>3
    <2>2. G(u)[u] = IF u = {} THEN 0 ELSE f[AnyOf(u)] + G(u)[Rest(u)]
      BY <2>1 DEF SumsUp
    <2>3. CASE u # {}
      <3>1. Rest(u) \in SUBSET m /\ Rest(u) # m /\ Rest(u) \in SUBSET u
        BY <1>3, <2>3, RestIsLess
      <3>2. SumsUp(G(Rest(u)), f, Rest(u))
        BY <1>2, <3>1
      <3>3. G(u)[Rest(u)] = G(Rest(u))[Rest(u)]
        <4>1. Rest(u) \in SUBSET S /\ u \in SUBSET S /\ Rest(u) \in SUBSET (u \cap Rest(u))
          BY <1>1, <3>1
        <4> QED BY <2>1, <3>2, <4>1, SumsAgree
      <3> QED BY <1>3, <2>2, <2>3, <3>3
    <2> QED BY <1>3, <2>2, <2>3
  <1>4. SumsUp(g, f, m)
    <2>1. \A t \in SUBSET m : t # {} => g[Rest(t)] = G(Rest(t))[Rest(t)]
      <3> SUFFICES ASSUME NEW t \in SUBSET m, t # {} PROVE g[Rest(t)] = G(Rest(t))[Rest(t)]
        OBVIOUS
      <3>1. Rest(t) \in SUBSET m /\ Rest(t) # m
        BY RestIsLess
      <3> HIDE DEF g
      <3> QED BY <1>3, <3>1
    <2>2. g = [t \in SUBSET m |-> IF t = {} THEN 0 ELSE f[AnyOf(t)] + g[Rest(t)]]
      BY <2>1
    <2> HIDE DEF g
    <2> QED BY <2>2 DEF SumsUp
  <1> QED BY <1>1, <1>4

\* The sum of integers is an integer, and is added up one by one.
LEMMA SumOf ==
    ASSUME NEW S, IsFiniteSet(S), NEW f \in [S -> Int]
    PROVE  \E h \in [SUBSET S -> Int] :
              /\ \A s \in SUBSET S : h[s] = IF s = {} THEN 0 ELSE f[AnyOf(s)] + h[Rest(s)]
              /\ SumFunction(f) = h[S]
  <1> DEFINE h == CHOOSE g : SumsUp(g, f, S)
  <1>1. SumsUp(h, f, S) /\ SumFunction(f) = h[S]
    BY SumExists, TotalIs
  <1> HIDE DEF h
  <1>2. \A s \in SUBSET S : h[s] = IF s = {} THEN 0 ELSE f[AnyOf(s)] + h[Rest(s)]
    BY <1>1 DEF SumsUp
  <1>3. \A s \in SUBSET S : h[s] \in Int
    <2> DEFINE T == {s \in SUBSET S : h[s] \notin Int}
    <2> SUFFICES ASSUME T # {} PROVE FALSE
      OBVIOUS
    <2>0. T \subseteq SUBSET S
      OBVIOUS
    <2>1. PICK m \in T : \A t \in T : t \subseteq m => t = m
      <3> HIDE DEF T
      <3> QED BY <2>0, SmallestSubset
    <2>2. m \in SUBSET S /\ h[m] \notin Int
      BY <2>1
    <2>3. m # {}
      <3>1. h[{}] = 0
        BY <1>2
      <3> QED BY <2>2, <3>1
    <2>4. AnyOf(m) \in S /\ Rest(m) \in SUBSET S /\ Rest(m) \notin T
      BY <2>1, <2>3, RestIsLess
    <2>5. h[Rest(m)] \in Int /\ f[AnyOf(m)] \in Int
      BY <2>4
    <2>6. h[m] = f[AnyOf(m)] + h[Rest(m)]
      BY <1>2, <2>2, <2>3
    <2> QED BY <2>2, <2>5, <2>6
  <1>4. h = [s \in SUBSET S |-> h[s]]
    BY <1>1 DEF SumsUp
  <1> QED BY <1>1, <1>2, <1>3, <1>4

\* When one summand changes, the sum changes by as much.
LEMMA TotalChanges ==
    ASSUME NEW S, IsFiniteSet(S), NEW f \in [S -> Int], NEW g \in [S -> Int], NEW x \in S,
           \A k \in S \ {x} : g[k] = f[k]
    PROVE  SumFunction(f) \in Int /\ SumFunction(g) = SumFunction(f) + g[x] - f[x]
  <1>1. PICK p \in [SUBSET S -> Int] :
            /\ \A s \in SUBSET S : p[s] = IF s = {} THEN 0 ELSE f[AnyOf(s)] + p[Rest(s)]
            /\ SumFunction(f) = p[S]
    BY SumOf
  <1>2. PICK q \in [SUBSET S -> Int] :
            /\ \A s \in SUBSET S : q[s] = IF s = {} THEN 0 ELSE g[AnyOf(s)] + q[Rest(s)]
            /\ SumFunction(g) = q[S]
    BY SumOf
  <1>3. \A s \in SUBSET S : q[s] = p[s] + IF x \in s THEN g[x] - f[x] ELSE 0
    <2> DEFINE T == {s \in SUBSET S : q[s] # p[s] + IF x \in s THEN g[x] - f[x] ELSE 0}
    <2> SUFFICES ASSUME T # {} PROVE FALSE
      OBVIOUS
    <2>0. T \subseteq SUBSET S
      OBVIOUS
    <2>1. PICK m \in T : \A t \in T : t \subseteq m => t = m
      <3> HIDE DEF T
      <3> QED BY <2>0, SmallestSubset
    <2>2. m # {}
      <3>1. p[{}] = 0 /\ q[{}] = 0 /\ ~ (x \in {})
        BY <1>1, <1>2
      <3>2. {} \notin T
        BY <3>1
      <3> HIDE DEF T
      <3> QED BY <2>1, <3>2
    <2>3. AnyOf(m) \in S /\ Rest(m) \in SUBSET S /\ Rest(m) \notin T /\ AnyOf(m) \in m
      BY <2>1, <2>2, RestIsLess
    <2>4. q[Rest(m)] = p[Rest(m)] + IF x \in Rest(m) THEN g[x] - f[x] ELSE 0
      BY <2>3
    <2>5. x \in Rest(m) <=> x \in m /\ x # AnyOf(m)
      BY DEF Rest
    <2>6. q[m] = g[AnyOf(m)] + q[Rest(m)] /\ p[m] = f[AnyOf(m)] + p[Rest(m)]
      BY <1>1, <1>2, <2>1, <2>2
    <2> QED BY <2>1, <2>3, <2>4, <2>5, <2>6
  <1> QED BY <1>1, <1>2, <1>3

\* A sum of natural numbers is one.
LEMMA TotalIsNat ==
    ASSUME NEW S, IsFiniteSet(S), NEW f \in [S -> Nat]
    PROVE  SumFunction(f) \in Nat
  <1>1. PICK p \in [SUBSET S -> Int] :
            /\ \A s \in SUBSET S : p[s] = IF s = {} THEN 0 ELSE f[AnyOf(s)] + p[Rest(s)]
            /\ SumFunction(f) = p[S]
    <2>1. f \in [S -> Int]
      OBVIOUS
    <2> QED BY <2>1, SumOf
  <1>2. \A s \in SUBSET S : p[s] >= 0
    <2> DEFINE T == {s \in SUBSET S : p[s] < 0}
    <2> SUFFICES ASSUME T # {} PROVE FALSE
      OBVIOUS
    <2>0. T \subseteq SUBSET S
      OBVIOUS
    <2>1. PICK m \in T : \A t \in T : t \subseteq m => t = m
      <3> HIDE DEF T
      <3> QED BY <2>0, SmallestSubset
    <2>2. m # {}
      BY <1>1, <2>1
    <2>3. AnyOf(m) \in S /\ Rest(m) \in SUBSET S /\ Rest(m) \notin T
      BY <2>1, <2>2, RestIsLess
    <2> QED BY <1>1, <2>1, <2>2, <2>3
  <1> QED BY <1>1, <1>2

-----------------------------------------------------------------------------
(* The budget of AI calls. *)

\* A call under way is the one its key is reserved for, and has an attempt left
\* as long as it may make one.
CallHolds(c) ==
    /\ call[c].pc \in {"provider", "record", "release"} =>
          reservation[UsageKey(c)].status = "RESERVED" /\ reservation[UsageKey(c)].owner = c
    /\ call[c].pc = "idle" => call[c].attempts = 0
    /\ call[c].pc = "provider" => call[c].attempts \in 0..1
    /\ call[c].pc = "record" => call[c].usage \in Usage

\* Rows belong to calls, and only what was reconciled is in the ledger.
RowsMatch(k) ==
    /\ reservation[k].status # "ABSENT" => reservation[k].owner \in Call
    /\ reservation[k].status # "RECONCILED" => ledger[k] = Unset

BudgetShapes ==
    /\ BudgetTypeOK
    /\ \A c \in Call : CallHolds(c)
    /\ \A k \in Key : RowsMatch(k)

BudgetInv == BudgetShapes /\ BudgetHolds

BudgetCall == [pc : {"idle", "limited", "exhausted", "conflict", "provider", "record", "release",
                     "done", "failed"}, attempts : 0..2, usage : Usage \cup {0}]

\* There are finitely many keys.
LEMMA FinitelyManyKeys == IsFiniteSet(Key)
  <1> DEFINE f == [c \in Call |-> UsageKey(c)]
  <1>1. f \in Surjection(Call, Key)
    BY DEF Surjection, Key
  <1> QED BY <1>1, FS_Surjection, BudgetAssumption

\* The larger of nothing and a number.
LEMMA AtLeastNothing ==
    ASSUME NEW n \in Int
    PROVE  Max({0, n}) = IF n > 0 THEN n ELSE 0
  BY DEF Max

\* What the sums add up.
LEMMA Summands ==
    BudgetShapes => \A k \in Key : /\ Cost(k) \in Nat /\ Held(k) \in Nat /\ Excess(k) \in Nat
                                   /\ Cost(k) = 0 => Excess(k) = 0
  <1> SUFFICES ASSUME BudgetShapes, NEW k \in Key
               PROVE  /\ Cost(k) \in Nat /\ Held(k) \in Nat /\ Excess(k) \in Nat
                      /\ Cost(k) = 0 => Excess(k) = 0
    OBVIOUS
  <1>1. /\ reservation[k] \in Reservation /\ ledger[k] \in Usage \cup {Unset}
        /\ RowsMatch(k) /\ Usage \subseteq Nat /\ Estimate \in [Call -> Nat]
    BY BudgetAssumption DEF BudgetShapes, BudgetTypeOK
  <1>2. Cost(k) \in Nat
    BY <1>1 DEF Cost
  <1>3. Held(k) \in Nat
    BY <1>1 DEF Held, Reserved, RowsMatch
  <1>4. Excess(k) \in Nat /\ (Cost(k) = 0 => Excess(k) = 0)
    <2>1. CASE ledger[k] = Unset \/ k \in outlived
      BY <1>1, <2>1 DEF Excess, Cost
    <2>2. CASE ledger[k] # Unset /\ k \notin outlived
      <3>1. ledger[k] \in Nat /\ Estimate[reservation[k].owner] \in Nat
        BY <1>1, <2>2 DEF RowsMatch
      <3> DEFINE n == ledger[k] - Estimate[reservation[k].owner]
      <3>2. n \in Int /\ Excess(k) = Max({0, n})
        BY <2>2, <3>1 DEF Excess
      <3>3. Excess(k) = IF n > 0 THEN n ELSE 0
        BY <3>2, AtLeastNothing
      <3>4. Cost(k) = ledger[k]
        BY <2>2 DEF Cost
      <3> QED BY <3>1, <3>2, <3>3, <3>4
    <2> QED BY <2>1, <2>2
  <1> QED BY <1>2, <1>3, <1>4

\* The same after a step.
LEMMA SummandsNext ==
    BudgetShapes' => \A k \in Key : /\ Cost(k)' \in Nat /\ Held(k)' \in Nat /\ Excess(k)' \in Nat
                                    /\ Cost(k)' = 0 => Excess(k)' = 0
  <1>1. (BudgetShapes => \A k \in Key : /\ Cost(k) \in Nat /\ Held(k) \in Nat /\ Excess(k) \in Nat
                                        /\ Cost(k) = 0 => Excess(k) = 0)'
    BY Summands, PTL
  <1> QED BY <1>1

\* A step at one key keeps the budget if what is spent and held there grows by no
\* more than the excess, or if there was room for it.
LEMMA OneKeyChanges ==
    ASSUME BudgetInv, BudgetShapes', NEW x \in Key,
           \A k \in Key \ {x} : reservation'[k] = reservation[k] /\ ledger'[k] = ledger[k],
           outlived' \ {x} = outlived \ {x},
           \/ Cost(x)' + Held(x)' - Excess(x)' <= Cost(x) + Held(x) - Excess(x)
           \/ /\ Cost(x)' + Held(x)' - Cost(x) - Held(x) <= Limit - Spent - Pending
    PROVE  BudgetHolds'
  <1> DEFINE cost == [k \in Key |-> Cost(k)]  held == [k \in Key |-> Held(k)]
             over == [k \in Key |-> Excess(k)]
  <1>0. Limit \in Int
    BY BudgetAssumption
  <1>1. /\ \A k \in Key : Cost(k) \in Nat /\ Held(k) \in Nat /\ Excess(k) \in Nat
        /\ cost \in [Key -> Nat] /\ held \in [Key -> Nat] /\ over \in [Key -> Nat]
    BY Summands DEF BudgetInv
  <1>2. /\ \A k \in Key : Cost(k)' \in Nat /\ Held(k)' \in Nat /\ Excess(k)' \in Nat
        /\ cost' \in [Key -> Nat] /\ held' \in [Key -> Nat] /\ over' \in [Key -> Nat]
    BY SummandsNext
  <1>3. \A k \in Key \ {x} : Cost(k)' = Cost(k) /\ Held(k)' = Held(k) /\ Excess(k)' = Excess(k)
    <2> SUFFICES ASSUME NEW k \in Key \ {x}
                 PROVE  Cost(k)' = Cost(k) /\ Held(k)' = Held(k) /\ Excess(k)' = Excess(k)
      OBVIOUS
    <2>1. reservation'[k] = reservation[k] /\ ledger'[k] = ledger[k] /\ (k \in outlived' <=> k \in outlived)
      OBVIOUS
    <2> QED BY <2>1 DEF Cost, Held, Reserved, Excess
  <1>4. /\ Spent = SumFunction(cost) /\ Pending = SumFunction(held)
        /\ Spent' = SumFunction(cost') /\ Pending' = SumFunction(held')
    BY DEF Spent, Pending
  <1>5. /\ \A k \in Key \ {x} : cost'[k] = cost[k] /\ held'[k] = held[k] /\ over'[k] = over[k]
        /\ cost[x] = Cost(x) /\ held[x] = Held(x) /\ over[x] = Excess(x)
        /\ cost'[x] = Cost(x)' /\ held'[x] = Held(x)' /\ over'[x] = Excess(x)'
    BY <1>3
  <1>6. /\ BudgetHolds => SumFunction(cost) + SumFunction(held) <= Limit + SumFunction(over)
        /\ BudgetHolds' <=> SumFunction(cost') + SumFunction(held') <= Limit + SumFunction(over')
    BY DEF BudgetHolds, Spent, Pending
  <1> HIDE DEF cost, held, over
  <1>7. /\ SumFunction(cost) \in Int /\ SumFunction(cost') = SumFunction(cost) + Cost(x)' - Cost(x)
        /\ SumFunction(held) \in Int /\ SumFunction(held') = SumFunction(held) + Held(x)' - Held(x)
        /\ SumFunction(over) \in Int /\ SumFunction(over') = SumFunction(over) + Excess(x)' - Excess(x)
    <2>1. \A f, g \in [Key -> Nat] : (\A k \in Key \ {x} : g[k] = f[k])
              => SumFunction(f) \in Int /\ SumFunction(g) = SumFunction(f) + g[x] - f[x]
      <3> SUFFICES ASSUME NEW f \in [Key -> Nat], NEW g \in [Key -> Nat], \A k \in Key \ {x} : g[k] = f[k]
                   PROVE  SumFunction(f) \in Int /\ SumFunction(g) = SumFunction(f) + g[x] - f[x]
        OBVIOUS
      <3>1. f \in [Key -> Int] /\ g \in [Key -> Int]
        OBVIOUS
      <3> QED BY <3>1, FinitelyManyKeys, TotalChanges
    <2>2. SumFunction(cost) \in Int /\ SumFunction(cost') = SumFunction(cost) + cost'[x] - cost[x]
      BY <1>1, <1>2, <1>5, <2>1
    <2>3. SumFunction(held) \in Int /\ SumFunction(held') = SumFunction(held) + held'[x] - held[x]
      BY <1>1, <1>2, <1>5, <2>1
    <2>4. SumFunction(over) \in Int /\ SumFunction(over') = SumFunction(over) + over'[x] - over[x]
      BY <1>1, <1>2, <1>5, <2>1
    <2> QED BY <1>5, <2>2, <2>3, <2>4
  <1>8. SumFunction(over') \in Nat
    BY <1>2, FinitelyManyKeys, TotalIsNat
  <1>9. BudgetHolds
    BY DEF BudgetInv
  <1> QED BY <1>0, <1>1, <1>2, <1>4, <1>6, <1>7, <1>8, <1>9

\* Nothing is spent at first.
LEMMA TotalOfNothing ==
    ASSUME NEW S, IsFiniteSet(S), NEW f \in [S -> {0}]
    PROVE  SumFunction(f) = 0
  <1>1. PICK p \in [SUBSET S -> Int] :
            /\ \A s \in SUBSET S : p[s] = IF s = {} THEN 0 ELSE f[AnyOf(s)] + p[Rest(s)]
            /\ SumFunction(f) = p[S]
    <2>1. f \in [S -> Int]
      OBVIOUS
    <2> QED BY <2>1, SumOf
  <1>2. \A s \in SUBSET S : p[s] = 0
    <2> DEFINE T == {s \in SUBSET S : p[s] # 0}
    <2> SUFFICES ASSUME T # {} PROVE FALSE
      OBVIOUS
    <2>0. T \subseteq SUBSET S
      OBVIOUS
    <2>1. PICK m \in T : \A t \in T : t \subseteq m => t = m
      <3> HIDE DEF T
      <3> QED BY <2>0, SmallestSubset
    <2>2. m # {}
      BY <1>1, <2>1
    <2>3. AnyOf(m) \in S /\ Rest(m) \in SUBSET S /\ Rest(m) \notin T
      BY <2>1, <2>2, RestIsLess
    <2> QED BY <1>1, <2>1, <2>2, <2>3
  <1> QED BY <1>1, <1>2

\* Nothing is reserved at first.
LEMMA BudgetStarts == BudgetInit => BudgetInv
  <1> SUFFICES ASSUME BudgetInit PROVE BudgetInv
    OBVIOUS
  <1>1. BudgetShapes
    BY DEF BudgetInit, BudgetShapes, BudgetTypeOK, Reservation, CallHolds, RowsMatch
  <1>2. /\ [k \in Key |-> Cost(k)] \in [Key -> {0}] /\ [k \in Key |-> Held(k)] \in [Key -> {0}]
        /\ [k \in Key |-> Excess(k)] \in [Key -> Nat]
    BY DEF BudgetInit, Cost, Held, Reserved, Excess
  <1>3. Spent = 0 /\ Pending = 0 /\ SumFunction([k \in Key |-> Excess(k)]) \in Nat
    BY <1>2, FinitelyManyKeys, TotalOfNothing, TotalIsNat DEF Spent, Pending
  <1> QED BY <1>1, <1>3, BudgetAssumption DEF BudgetInv, BudgetHolds

-----------------------------------------------------------------------------
\* A call moves on.
LEMMA CallMoves ==
    ASSUME BudgetShapes, NEW c \in Call, NEW pc \in {"limited", "exhausted", "conflict", "provider",
                                                    "record", "release", "done", "failed"},
           CallGoes(c, pc), pc = "provider" => call[c].attempts \in 0..1
    PROVE  /\ call' \in [Call -> BudgetCall] /\ call'[c].pc = pc
           /\ call'[c].attempts = call[c].attempts
           /\ \A d \in Call \ {c} : call'[d] = call[d]
  BY DEF CallGoes, BudgetShapes, BudgetTypeOK, BudgetCall

\* Steps that leave reservations and ledger alone.
LEMMA RowsStand ==
    ASSUME BudgetInv, UNCHANGED <<reservation, ledger, outlived>>, BudgetShapes'
    PROVE  BudgetInv'
  BY DEF BudgetInv, BudgetHolds, Spent, Pending, Cost, Held, Reserved, Excess

\* The provider's answers, refusals, failures and crashes of calls leave the rows
\* alone.
LEMMA QuietKeeps ==
    ASSUME BudgetInv, NEW c \in Call, RateLimited(c) \/ NotRecorded(c) \/ Abandon(c) \/ Attempt(c)
    PROVE  BudgetInv'
  <1>1. BudgetShapes /\ call \in [Call -> BudgetCall] /\ CallHolds(c)
        /\ UNCHANGED <<reservation, ledger, outlived>> /\ call[c] \in BudgetCall
    BY DEF BudgetInv, BudgetShapes, BudgetTypeOK, BudgetCall, RateLimited, NotRecorded, Abandon, Attempt
  <1>2. /\ call' \in [Call -> BudgetCall]
        /\ \A d \in Call \ {c} : call'[d] = call[d]
        /\ call'[c].pc \in {"provider", "record", "release"} => call[c].pc \in {"provider", "record", "release"}
        /\ call'[c].pc # "idle" /\ (call'[c].pc = "provider" => call'[c].attempts \in 0..1)
        /\ call'[c].pc = "record" => call'[c].usage \in Usage
    <2>1. CASE RateLimited(c) \/ NotRecorded(c) \/ Abandon(c)
      <3>1. \/ CallGoes(c, "limited") \/ CallGoes(c, "failed")
            \/ CallGoes(c, "release") /\ call[c].pc = "record"
        BY <2>1 DEF RateLimited, NotRecorded, Abandon
      <3> QED BY <1>1, <3>1, CallMoves
    <2>2. CASE Attempt(c)
      <3>1. call[c].pc = "provider" /\ call[c].attempts \in 0..1
        BY <1>1, <2>2 DEF Attempt, CallHolds
      <3>2. call[c].attempts + 1 \in 0..2
        BY <3>1
      <3>3. PICK hand \in BudgetCall :
                /\ call' = [call EXCEPT ![c] = hand]
                /\ hand.pc \in {"provider", "record", "release"}
                /\ hand.pc = "provider" => hand.attempts = 1
                /\ hand.pc = "record" => hand.usage \in Usage
        <4>1. CASE \E u \in Usage : call' = [call EXCEPT ![c].pc = "record", ![c].usage = u, ![c].attempts = @ + 1]
          <5>1. PICK u \in Usage : call' = [call EXCEPT ![c].pc = "record", ![c].usage = u, ![c].attempts = @ + 1]
            BY <4>1
          <5>2. [call[c] EXCEPT !.pc = "record", !.usage = u, !.attempts = @ + 1] \in BudgetCall
            BY <1>1, <3>2 DEF BudgetCall
          <5> QED BY <1>1, <5>1, <5>2 DEF BudgetCall
        <4>2. CASE call' = [call EXCEPT ![c].pc = "release", ![c].attempts = @ + 1]
          <5>1. [call[c] EXCEPT !.pc = "release", !.attempts = @ + 1] \in BudgetCall
            BY <1>1, <3>2 DEF BudgetCall
          <5> QED BY <1>1, <4>2, <5>1 DEF BudgetCall
        <4>3. CASE call' = [call EXCEPT ![c].attempts = 1]
          <5>1. [call[c] EXCEPT !.attempts = 1] \in BudgetCall
            BY <1>1 DEF BudgetCall
          <5> QED BY <1>1, <3>1, <4>3, <5>1 DEF BudgetCall
        <4> QED BY <2>2, <4>1, <4>2, <4>3 DEF Attempt
      <3> QED BY <1>1, <3>1, <3>3
    <2> QED BY <2>1, <2>2
  <1>3. BudgetTypeOK'
    BY <1>1, <1>2 DEF BudgetShapes, BudgetTypeOK, BudgetCall
  <1>4. (\A d \in Call : CallHolds(d)') /\ (\A k \in Key : RowsMatch(k)')
    BY <1>1, <1>2 DEF BudgetShapes, CallHolds, RowsMatch
  <1> QED BY <1>1, <1>3, <1>4, RowsStand DEF BudgetShapes

\* A step of one call at its key.
LEMMA CallAtKey ==
    ASSUME BudgetInv, NEW c \in Call, NEW k, k = UsageKey(c)
    PROVE  /\ k \in Key /\ reservation \in [Key -> Reservation] /\ reservation[k] \in Reservation
           /\ ledger \in [Key -> Usage \cup {Unset}]
           /\ call \in [Call -> BudgetCall] /\ call[c] \in BudgetCall
           /\ outlived \subseteq Key /\ Usage \subseteq Nat /\ Estimate[c] \in Nat
           /\ RowsMatch(k) /\ CallHolds(c) /\ BudgetShapes
  BY BudgetAssumption DEF BudgetInv, BudgetShapes, BudgetTypeOK, BudgetCall, Key

\* Shapes after a step of a call at its key.
LEMMA ShapesAtKey ==
    ASSUME BudgetInv, NEW c \in Call, NEW row \in Reservation,
           NEW pc \in {"provider", "done", "failed"}, CallGoes(c, pc), call[c].attempts \in 0..1 \/ pc # "provider",
           reservation' = [reservation EXCEPT ![UsageKey(c)] = row],
           ledger' \in [Key -> Usage \cup {Unset}],
           \A k \in Key \ {UsageKey(c)} : ledger'[k] = ledger[k],
           outlived' \subseteq Key,
           pc = "provider" => row.status = "RESERVED" /\ row.owner = c,
           \A d \in Call \ {c} : call[d].pc \in {"provider", "record", "release"} => UsageKey(d) # UsageKey(c),
           row.status # "ABSENT" => row.owner \in Call,
           row.status # "RECONCILED" => ledger'[UsageKey(c)] = Unset
    PROVE  BudgetShapes'
  <1> DEFINE x == UsageKey(c)
  <1>1. /\ x \in Key /\ reservation'[x] = row /\ reservation' \in [Key -> Reservation]
        /\ \A k \in Key \ {x} : reservation'[k] = reservation[k]
    BY CallAtKey
  <1>2. /\ call' \in [Call -> BudgetCall] /\ call'[c].pc = pc
        /\ call'[c].attempts = call[c].attempts
        /\ \A d \in Call \ {c} : call'[d] = call[d]
    BY CallMoves DEF BudgetInv
  <1>3. BudgetTypeOK'
    BY <1>1, <1>2 DEF BudgetTypeOK, BudgetCall
  <1>4. \A k \in Key : RowsMatch(k)'
    BY <1>1 DEF RowsMatch, BudgetInv, BudgetShapes
  <1>5. \A d \in Call \ {c} : CallHolds(d)'
    <2> SUFFICES ASSUME NEW d \in Call \ {c} PROVE CallHolds(d)'
      OBVIOUS
    <2>1. CallHolds(d) /\ UsageKey(d) \in Key /\ call'[d] = call[d]
      BY <1>2 DEF BudgetInv, BudgetShapes, Key
    <2> QED BY <1>1, <2>1 DEF CallHolds, UsageKey
  <1>6. CallHolds(c)'
    BY <1>1, <1>2 DEF CallHolds, UsageKey
  <1> QED BY <1>3, <1>4, <1>5, <1>6 DEF BudgetShapes

\* The reservation is made under the lock, on what is spent and held then.
LEMMA ReserveKeeps ==
    ASSUME BudgetInv, NEW c \in Call, Reserve(c)
    PROVE  BudgetInv'
  <1> DEFINE row == [status |-> "RESERVED", owner |-> c, expired |-> FALSE]
  <1>1. PICK k : k = UsageKey(c)
    OBVIOUS
  <1>2. UNCHANGED <<ledger, outlived>> /\ call[c].pc = "idle" /\ call[c].attempts = 0
    BY <1>1, CallAtKey DEF Reserve, CallHolds
  <1>3. CASE reservation' = reservation /\ (CallGoes(c, "exhausted") \/ CallGoes(c, "conflict"))
    <2>1. /\ call' \in [Call -> BudgetCall] /\ call'[c].pc \in {"exhausted", "conflict"}
          /\ \A d \in Call \ {c} : call'[d] = call[d]
      BY <1>3, CallMoves DEF BudgetInv
    <2>2. BudgetShapes'
      BY <1>2, <1>3, <2>1 DEF BudgetInv, BudgetShapes, BudgetTypeOK, BudgetCall, CallHolds, RowsMatch
    <2> QED BY <1>2, <1>3, <2>2, RowsStand
  <1>4. CASE /\ Fits(c) /\ reservation[k].status = "ABSENT"
             /\ reservation' = [reservation EXCEPT ![k] = row] /\ CallGoes(c, "provider")
    <2>1. /\ row \in Reservation /\ ledger[k] = Unset /\ outlived' \subseteq Key
          /\ ledger' \in [Key -> Usage \cup {Unset}]
      BY <1>1, <1>2, <1>4, CallAtKey DEF Reservation, RowsMatch
    <2>2. \A d \in Call \ {c} : call[d].pc \in {"provider", "record", "release"} => UsageKey(d) # k
      BY <1>4 DEF BudgetInv, BudgetShapes, CallHolds
    <2>3. BudgetShapes'
      <3>1. row.status = "RESERVED" /\ row.owner = c
        OBVIOUS
      <3> HIDE DEF row
      <3>2. /\ reservation' = [reservation EXCEPT ![UsageKey(c)] = row] /\ CallGoes(c, "provider")
            /\ call[c].attempts \in 0..1 /\ ledger'[UsageKey(c)] = Unset
            /\ \A q \in Key \ {UsageKey(c)} : ledger'[q] = ledger[q]
            /\ \A d \in Call \ {c} : call[d].pc \in {"provider", "record", "release"}
                                        => UsageKey(d) # UsageKey(c)
        BY <1>1, <1>2, <1>4, <2>1, <2>2
      <3> QED BY <2>1, <3>1, <3>2, ShapesAtKey
    <2>4. /\ Cost(k) = 0 /\ Held(k) = 0 /\ Cost(k)' = 0 /\ Held(k)' = Estimate[c]
          /\ \A q \in Key \ {k} : reservation'[q] = reservation[q] /\ ledger'[q] = ledger[q]
      BY <1>1, <1>2, <1>4, <2>1, CallAtKey DEF Cost, Held, Reserved
    <2>5. Spent \in Int /\ Pending \in Int
      <3>1. [q \in Key |-> Cost(q)] \in [Key -> Nat] /\ [q \in Key |-> Held(q)] \in [Key -> Nat]
        BY Summands DEF BudgetInv
      <3> QED BY <3>1, FinitelyManyKeys, TotalIsNat DEF Spent, Pending
    <2>6. Estimate[c] \in Nat /\ Limit \in Nat /\ k \in Key
      BY <1>1, CallAtKey, BudgetAssumption
    <2>7. Spent + Pending + Estimate[c] <= Limit
      BY <1>4 DEF Fits
    <2>8. Cost(k)' + Held(k)' - Cost(k) - Held(k) <= Limit - Spent - Pending
      BY <2>4, <2>5, <2>6, <2>7
    <2>9. BudgetHolds'
      BY <1>2, <2>3, <2>4, <2>6, <2>8, OneKeyChanges
    <2> QED BY <2>3, <2>9 DEF BudgetInv
  <1> QED BY <1>1, <1>3, <1>4 DEF Reserve

\* Nobody else is under way on the key of a call that is.
LEMMA KeyIsOwn ==
    ASSUME BudgetInv, NEW c \in Call, call[c].pc \in {"provider", "record", "release"}
    PROVE  /\ reservation[UsageKey(c)].status = "RESERVED" /\ reservation[UsageKey(c)].owner = c
           /\ \A d \in Call \ {c} : call[d].pc \in {"provider", "record", "release"} => UsageKey(d) # UsageKey(c)
  BY DEF BudgetInv, BudgetShapes, CallHolds

\* A cost takes the place of what was held for it; what it is above that, or all
\* of it when nothing was held any more, is excess.
LEMMA ReconcileKeeps ==
    ASSUME BudgetInv, NEW c \in Call, Reconcile(c)
    PROVE  BudgetInv'
  <1> DEFINE row == [reservation[UsageKey(c)] EXCEPT !.status = "RECONCILED"]
  <1>1. PICK k : k = UsageKey(c)
    OBVIOUS
  <1>2. PICK u : u = call[c].usage
    OBVIOUS
  <1>3. /\ k \in Key /\ reservation[k] \in Reservation /\ reservation[k].status = "RESERVED"
        /\ reservation[k].owner = c /\ ledger[k] = Unset /\ Estimate[c] \in Nat /\ outlived \subseteq Key
        /\ u \in Usage /\ u \in Nat
    BY <1>1, <1>2, CallAtKey, KeyIsOwn DEF Reconcile, RowsMatch, CallHolds
  <1>4. /\ ledger' = [ledger EXCEPT ![k] = u] /\ reservation' = [reservation EXCEPT ![k] = row]
        /\ outlived' = IF reservation[k].expired THEN outlived \cup {k} ELSE outlived
        /\ CallGoes(c, "done")
    BY <1>1, <1>2, <1>3, CallAtKey DEF Reconcile
  <1>5. /\ row \in Reservation /\ row.status = "RECONCILED" /\ row.owner = c
        /\ row.expired = reservation[k].expired
    BY <1>1, <1>3 DEF Reservation
  <1> HIDE DEF row
  <1>6. /\ ledger' \in [Key -> Usage \cup {Unset}] /\ ledger'[k] = u /\ outlived' \subseteq Key
        /\ reservation'[k] = row /\ outlived' \ {k} = outlived \ {k}
        /\ \A q \in Key \ {k} : reservation'[q] = reservation[q] /\ ledger'[q] = ledger[q]
    BY <1>1, <1>3, <1>4, CallAtKey
  <1>7. BudgetShapes'
    BY <1>1, <1>4, <1>5, <1>6, KeyIsOwn, ShapesAtKey, ZenonT(60) DEF Reconcile
  <1>8. Cost(k) = 0 /\ Excess(k) = 0 /\ Held(k) = IF reservation[k].expired THEN 0 ELSE Estimate[c]
    BY <1>3 DEF Cost, Excess, Held, Reserved
  <1>9. Held(k)' = 0 /\ Cost(k)' \in {0, u} /\ (Cost(k)' = 0 => Excess(k)' = 0) /\ Excess(k)' \in Nat
    BY <1>3, <1>5, <1>6, <1>7, SummandsNext DEF Held, Reserved, Cost, Excess
  <1>10. Cost(k)' - Excess(k)' <= Held(k)
    <2>1. CASE Cost(k)' = 0
      BY <1>3, <1>8, <1>9, <2>1
    <2>2. CASE Cost(k)' # 0
      <3>1. ledger'[k] # Unset /\ Cost(k)' = u
        BY <1>6, <2>2 DEF Cost
      <3>2. CASE reservation[k].expired
        BY <1>3, <1>4, <1>6, <1>8, <3>1, <3>2 DEF Excess
      <3>3. CASE ~ reservation[k].expired /\ k \in outlived'
        BY <1>3, <1>6, <1>8, <3>1, <3>3 DEF Excess
      <3>4. CASE ~ reservation[k].expired /\ k \notin outlived'
        <4>1. Excess(k)' = Max({0, u - Estimate[c]})
          BY <1>5, <1>6, <3>1, <3>4 DEF Excess
        <4>2. Max({0, u - Estimate[c]}) >= u - Estimate[c]
          BY <1>3, AtLeastNothing
        <4> QED BY <1>3, <1>8, <1>9, <3>1, <3>4, <4>1, <4>2
      <3> QED BY <3>2, <3>3, <3>4
    <2> QED BY <2>1, <2>2
  <1>11. Cost(k)' + Held(k)' - Excess(k)' <= Cost(k) + Held(k) - Excess(k)
    BY <1>3, <1>8, <1>9, <1>10
  <1>12. BudgetHolds'
    BY <1>3, <1>6, <1>7, <1>11, OneKeyChanges
  <1> QED BY <1>7, <1>12 DEF BudgetInv

\* Letting go of a reservation only makes room.
LEMMA ReleaseKeeps ==
    ASSUME BudgetInv, NEW c \in Call, Release(c)
    PROVE  BudgetInv'
  <1> DEFINE row == [reservation[UsageKey(c)] EXCEPT !.status = "FAILED"]
  <1>1. PICK k : k = UsageKey(c)
    OBVIOUS
  <1>2. /\ k \in Key /\ reservation[k] \in Reservation /\ reservation[k].status = "RESERVED"
        /\ reservation[k].owner = c /\ ledger[k] = Unset
    BY <1>1, CallAtKey, KeyIsOwn DEF Release, RowsMatch
  <1>3. reservation' = [reservation EXCEPT ![k] = row] /\ CallGoes(c, "failed") /\ UNCHANGED <<ledger, outlived>>
    BY <1>1, <1>2 DEF Release
  <1>4. row \in Reservation /\ row.status = "FAILED" /\ row.owner = c
    BY <1>1, <1>2 DEF Reservation
  <1> HIDE DEF row
  <1>5. /\ ledger' \in [Key -> Usage \cup {Unset}] /\ outlived' \subseteq Key /\ reservation'[k] = row
        /\ \A q \in Key \ {k} : reservation'[q] = reservation[q] /\ ledger'[q] = ledger[q]
    BY <1>1, <1>2, <1>3, CallAtKey
  <1>6. BudgetShapes'
    BY <1>1, <1>2, <1>3, <1>4, <1>5, KeyIsOwn, ShapesAtKey DEF Release
  <1>7. /\ Cost(k)' = Cost(k) /\ Held(k)' = 0 /\ Held(k) \in Nat /\ Cost(k) = 0
        /\ Excess(k)' = 0 /\ Excess(k) = 0
    BY <1>2, <1>3, <1>4, <1>5, Summands DEF Cost, Held, Reserved, Excess, BudgetInv
  <1>8. Cost(k)' + Held(k)' - Excess(k)' <= Cost(k) + Held(k) - Excess(k)
    BY <1>7
  <1>9. BudgetHolds'
    BY <1>2, <1>3, <1>5, <1>6, <1>8, OneKeyChanges
  <1> QED BY <1>6, <1>9 DEF BudgetInv

\* So does the passing of time.
LEMMA ExpiryKeeps ==
    ASSUME BudgetInv, NEW k \in Key, Expire(k)
    PROVE  BudgetInv'
  <1> DEFINE row == [reservation[k] EXCEPT !.expired = TRUE]
  <1>1. /\ BudgetShapes /\ reservation \in [Key -> Reservation] /\ reservation[k] \in Reservation
        /\ RowsMatch(k) /\ UNCHANGED <<ledger, call, outlived>> /\ reservation' = [reservation EXCEPT ![k] = row]
        /\ reservation[k].status = "RESERVED"
    BY DEF BudgetInv, BudgetShapes, BudgetTypeOK, Expire, Reserved
  <1>2. /\ row \in Reservation /\ row.status = reservation[k].status /\ row.owner = reservation[k].owner
        /\ row.expired
    BY <1>1 DEF Reservation
  <1> HIDE DEF row
  <1>3. /\ reservation' \in [Key -> Reservation] /\ reservation'[k] = row
        /\ \A q \in Key \ {k} : reservation'[q] = reservation[q]
    BY <1>1, <1>2
  <1>4. \A q \in Key : reservation'[q].status = reservation[q].status /\ reservation'[q].owner = reservation[q].owner
    BY <1>2, <1>3
  <1>5. BudgetShapes'
    <2>1. BudgetTypeOK'
      BY <1>1, <1>3 DEF BudgetShapes, BudgetTypeOK
    <2>2. \A c \in Call : CallHolds(c)'
      BY <1>1, <1>4 DEF BudgetShapes, CallHolds, UsageKey, Key
    <2>3. \A q \in Key : RowsMatch(q)'
      BY <1>1, <1>4 DEF BudgetShapes, RowsMatch
    <2> QED BY <2>1, <2>2, <2>3 DEF BudgetShapes
  <1>6. /\ Cost(k)' = Cost(k) /\ Held(k)' = 0 /\ Held(k) \in Nat /\ Cost(k) = 0
        /\ Excess(k)' = 0 /\ Excess(k) = 0
    BY <1>1, <1>2, <1>3, Summands DEF Cost, Held, Reserved, Excess, RowsMatch
  <1>7. Cost(k)' + Held(k)' - Excess(k)' <= Cost(k) + Held(k) - Excess(k)
    BY <1>6
  <1>8. BudgetHolds'
    BY <1>1, <1>3, <1>5, <1>7, OneKeyChanges
  <1> QED BY <1>5, <1>8 DEF BudgetInv

-----------------------------------------------------------------------------
\* Every step of a call, and the expiry of a reservation, keeps the inductive
\* invariant.
LEMMA BudgetStep == BudgetInv /\ [BudgetNext]_budgetVars => BudgetInv'
  <1> SUFFICES ASSUME BudgetInv, [BudgetNext]_budgetVars PROVE BudgetInv'
    OBVIOUS
  <1>1. ASSUME NEW c \in Call, RateLimited(c) \/ Reserve(c) \/ Attempt(c) \/ Reconcile(c)
                  \/ NotRecorded(c) \/ Release(c) \/ Abandon(c)
        PROVE  BudgetInv'
    BY <1>1, QuietKeeps, ReserveKeeps, ReconcileKeeps, ReleaseKeeps
  <1>2. ASSUME NEW k \in Key, Expire(k) PROVE BudgetInv'
    BY <1>2, ExpiryKeeps
  <1>3. CASE UNCHANGED budgetVars
    <2>1. BudgetShapes'
      BY <1>3 DEF budgetVars, BudgetInv, BudgetShapes, BudgetTypeOK, CallHolds, RowsMatch
    <2> QED BY <1>3, <2>1, RowsStand DEF budgetVars
  <1> QED BY <1>1, <1>2, <1>3 DEF BudgetNext

\* What is reserved, spent and under way fits together, whatever calls do.
THEOREM BudgetInvariance == BudgetSpec => []BudgetInv
  <1> QED BY BudgetStarts, BudgetStep, PTL DEF BudgetSpec

\* Reservations, ledger and calls of ai-control.ts keep their shape.
THEOREM BudgetIsTyped == BudgetSpec => []BudgetTypeOK
  <1>1. BudgetInv => BudgetTypeOK
    BY DEF BudgetInv, BudgetShapes
  <1> QED BY <1>1, BudgetInvariance, PTL

\* Concurrent calls never overspend: PostgreSQLAiCostController.reserve keeps what is
\* spent and reserved within the limit, but for costs above their estimate and for
\* calls that took longer than their reservation lasts, for any calls and keys.
THEOREM BudgetAlwaysHolds == BudgetSpec => []BudgetHolds
  <1>1. BudgetInv => BudgetHolds
    BY DEF BudgetInv
  <1> QED BY <1>1, BudgetInvariance, PTL
=============================================================================
