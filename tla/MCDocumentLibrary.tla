------------------------- MODULE MCDocumentLibrary --------------------------
(***************************************************************************)
(* What requests do to documents, what the file queues of a development    *)
(* machine do to jobs, how questions are answered from documents and       *)
(* articles, how documents move to another store, how the environment they *)
(* all run in is checked and deployed, and how its data is backed up, on   *)
(* small sets, for TLC.  They share no state here: one run checks them one *)
(* after the other, and part says which of them a behaviour belongs to.    *)
(***************************************************************************)
EXTENDS MCDocumentPipeline, LocalQueue, KnowledgeAnswers, DocumentMigration, StagingReadiness, Backups

VARIABLE part

platformVars == <<readinessVars, backupVars>>

\* The documents and articles change while the sources of an answer are
\* gathered ("asking"), or while the answer is saved and the history used
\* ("history", where the gathering of sources is not interrupted and leaves the
\* second chunk of the document aside).  Job ids are interchangeable: a document
\* accepted before starts with one of them.
LibraryInit ==
    /\ Init
    /\ part \in {"requests", "files", "asking", "history", "migration", "environment", "rollout",
               "dumps", "objects"}
    /\ \A d \in Document : index[d] \in {None, CHOOSE j \in JobId : TRUE}
    /\ part # "requests" => \A d \in Document : index[d] # None
    /\ LocalQueueInit /\ AnswersInit /\ MigrationInit
    /\ BackupInit /\ ReadinessInit /\ (part # "environment" => template = "laptop")

\* To keep the run small: two claims from the file queue; three edits and runs of
\* a migration in all; a second deployment on managed staging only, and a rollout
\* up to the first report that it is ready.
PartNext ==
    /\ UNCHANGED part
    /\ \/ part = "requests" /\ Next /\ UNCHANGED <<localVars, answersVars, migrationVars, platformVars>>
       \/ /\ part = "files" /\ LocalQueueNext /\ Cardinality(leases') <= 2
          /\ UNCHANGED <<vars, answersVars, migrationVars, platformVars>>
       \/ /\ part = "asking" /\ (LibraryNext \/ AskNext \/ \E q \in Question : Submit(q))
          /\ UNCHANGED <<vars, localVars, migrationVars, platformVars>>
       \/ /\ part = "history"
          /\ IF ask.phase \in {"retrieving", "citing"} THEN AskNext /\ "p2" \notin ask'.ranked
             ELSE \/ AskNext \/ (\E h \in Clerk : ClerkNext(h)) \/ PageNext
                  \/ upheavals = 0 /\ \E d \in DocumentSource \ ForeignSource : Withdraw(d)
          /\ UNCHANGED <<vars, localVars, migrationVars, platformVars>>
       \/ /\ part = "migration" /\ MigrationNext /\ edits' + runs' <= 3
          /\ UNCHANGED <<vars, localVars, answersVars, platformVars>>
       \/ /\ \/ part = "environment" /\ EditNext
             \/ /\ part = "rollout" /\ ~ check.ready /\ RolloutNext
                /\ Len(deployed') > 1 => "laptop" \notin {deployed'[g] : g \in DOMAIN deployed'}
          /\ UNCHANGED <<vars, localVars, answersVars, migrationVars, backupVars>>
       \/ /\ \/ part = "dumps" /\ DumpNext
             \/ part = "objects" /\ ObjectNext
          /\ UNCHANGED <<vars, localVars, answersVars, migrationVars, readinessVars>>

LibrarySpec == LibraryInit /\ [][PartNext]_<<part, vars, localVars, answersVars, migrationVars, platformVars>>

\* State keeps its shape, in each part.
LibraryTypeOK ==
    CASE part = "requests" -> TypeOK
      [] part = "files" -> LocalQueueTypeOK
      [] part \in {"asking", "history"} -> AnswersTypeOK
      [] part = "migration" -> MigrationTypeOK
      [] part \in {"environment", "rollout"} -> ReadinessTypeOK
      [] part \in {"dumps", "objects"} -> BackupTypeOK

-----------------------------------------------------------------------------
\* Two calls of one process.
Homes == "c1" :> "p" @@ "c2" :> "p"

\* A document in two chunks, an article, and a document of another tenant.
Sources == "p1" :> "d" @@ "p2" :> "d" @@ "p3" :> "a" @@ "p4" :> "f"

\* One document of the old list, with a status of its time, and a new one.
Old == "n1" :> "Obrabotan"

\* An environment of production, one of managed staging, and one of staging on a
\* developer's machine.
LiveSite == [nodeEnv |-> "production", appEnv |-> "unset", mode |-> "unset",
     storage |-> "s3", metadata |-> "postgresql", queue |-> "external", queueName |-> "set",
     ocr |-> "local", ocrRequired |-> "unset", embedding |-> "openai", answer |-> "gemini",
     vector |-> "pgvector", embeddingQueue |-> "unset", ragRequired |-> "unset",
     openai |-> "set", gemini |-> "set", resend |-> "set", numbers |-> "good", workerIds |-> "set",
     database |-> "live", redis |-> "tls", endpoint |-> "public", bucket |-> "live",
     backup |-> "s3", backupPlace |-> "public", notifications |-> "unset", baseUrl |-> "https",
     jira |-> "unset", jiraEnabled |-> "unset", jiraUrl |-> "unset", jiraToken |-> "unset",
     webhook |-> "unset", webhookOrigin |-> "unset", secrets |-> "good", productionValues |-> "good",
     stagingValues |-> "good", contract |-> "good", workerVersion |-> "good"]
Managed == [LiveSite EXCEPT !.appEnv = "staging", !.mode = "managed", !.database = "tls", !.bucket = "staging", !.notifications = "resend",
   !.jira = "cloud", !.jiraEnabled = "true", !.jiraUrl = "cloud", !.jiraToken = "set", !.webhook = "cloud", !.webhookOrigin = "cloud"]
Laptop == [Managed EXCEPT !.mode = "local", !.database = "local", !.redis = "plain", !.endpoint = "http", !.baseUrl = "http", !.storage = "unset",
  !.metadata = "unset", !.queue = "unset", !.embedding = "unset", !.answer = "unset", !.vector = "unset", !.backup = "local", !.notifications = "test",
  !.jira = "unset", !.jiraEnabled = "unset", !.webhook = "unset"]

Environments == "live" :> LiveSite @@ "managed" :> Managed @@ "laptop" :> Laptop

ASSUME EnvironmentsAccepted ==
    ProductionAccepts(LiveSite) /\ StagingAccepts(Managed) /\ StagingAccepts(Laptop)

\* The sizes of the three versions of objects.
Sizes == <<1, 1, 2>>

\* Two document workers and a Jira worker.
Kinds == "d1" :> "document" @@ "d2" :> "document" @@ "k1" :> "jira"
Critical == <<"document">>
Rows == <<"jira">>
=============================================================================
