------------------------ MODULE RuntimeConfiguration ------------------------
(***************************************************************************)
(* What the program makes of its environment variables: the loaders of the *)
(* documents', the RAG and the Jira configuration, which every process     *)
(* calls, createDocumentServices, which builds the services they name, the *)
(* checks run before a deployment (validateProductionConfiguration,        *)
(* loadStagingConfiguration), and the health check of the documents.       *)
(*                                                                         *)
(* An environment gives each variable the class of its value: what the     *)
(* code can tell apart of it.  "unset" is also a blank, "other" a value    *)
(* outside the list.  Variables that are only asked to be well formed are  *)
(* taken together: numbers, secrets, and those only the production or only *)
(* the staging check looks at.                                             *)
(***************************************************************************)
EXTENDS Integers

Switch == {"unset", "true", "false", "other"}
Provider == {"unset", "fake", "openai", "gemini", "disabled", "other"}
Key == {"unset", "weak", "set"}
Quality == {"bad", "good"}

Values ==
    [nodeEnv |-> {"unset", "test", "production"}, appEnv |-> {"unset", "staging"},
     mode |-> {"unset", "local", "managed"},
     storage |-> {"unset", "local", "s3", "other"}, metadata |-> {"unset", "local", "postgresql", "other"},
     queue |-> {"unset", "local", "external", "other"}, queueName |-> {"unset", "set"},
     ocr |-> {"unset", "local", "disabled", "other"}, ocrRequired |-> Switch,
     embedding |-> Provider, answer |-> Provider, vector |-> {"unset", "memory", "pgvector", "other"},
     embeddingQueue |-> {"unset", "local", "postgresql", "redis", "other"}, ragRequired |-> Switch,
     openai |-> Key, gemini |-> Key, resend |-> Key, numbers |-> Quality, workerIds |-> {"unset", "set"},
     \* a host of the compose file; remote without TLS; with TLS; with TLS and not of staging
     database |-> {"unset", "local", "plain", "tls", "live"},
     \* no password; a password; a password and TLS
     redis |-> {"unset", "open", "plain", "tls"},
     endpoint |-> {"unset", "http", "private", "public"}, bucket |-> {"unset", "live", "staging"},
     backup |-> {"unset", "local", "s3"},
     \* in the objects' bucket; in its own, over http; over https
     backupPlace |-> {"unset", "same", "http", "public"},
     notifications |-> {"unset", "test", "resend"}, baseUrl |-> {"unset", "http", "https"},
     jira |-> {"unset", "test", "cloud", "other"}, jiraEnabled |-> Switch, jiraUrl |-> {"unset", "private", "cloud"},
     jiraToken |-> {"unset", "set"}, webhook |-> {"unset", "test", "cloud", "other"},
     webhookOrigin |-> {"unset", "private", "cloud"},
     secrets |-> Quality, productionValues |-> Quality, stagingValues |-> Quality,
     contract |-> Quality, workerVersion |-> Quality]

Default(value, fallback) == IF value = "unset" THEN fallback ELSE value

\* Staging on a developer's machine is not production, whatever NODE_ENV says.
Production(e) == e.nodeEnv = "production" /\ ~ (e.appEnv = "staging" /\ e.mode = "local")
InProduction(e, value, fallback) == IF Production(e) THEN value ELSE fallback

-----------------------------------------------------------------------------
(* Documents. *)

DocumentConfiguration(e) ==
    [storage |-> Default(e.storage, InProduction(e, "s3", "local")),
     metadata |-> Default(e.metadata, InProduction(e, "postgresql", "local")),
     queue |-> Default(e.queue, InProduction(e, "external", "local")),
     ocr |-> Default(e.ocr, "disabled"),
     ocrRequired |-> Default(e.ocrRequired, InProduction(e, "true", "false"))]

SharedDocuments == [storage |-> "s3", metadata |-> "postgresql", queue |-> "external",
                    ocr |-> "local", ocrRequired |-> "true"]

DocumentsLoad(e) ==
    LET c == DocumentConfiguration(e)
    IN  /\ c.storage \in {"local", "s3"} /\ c.metadata \in {"local", "postgresql"}
        /\ c.queue \in {"local", "external"} /\ c.ocr \in {"local", "disabled"}
        /\ c.ocrRequired \in {"true", "false"}
        /\ Production(e) => c = SharedDocuments
        /\ c.metadata = "postgresql" => e.database # "unset"
        /\ c.queue = "external" => e.queueName = "set"
        /\ c.ocr = "disabled" => c.ocrRequired = "false"
        /\ c.storage = "s3" => e.endpoint # "unset" /\ e.bucket # "unset"
        /\ e.numbers = "good"

\* loadDocumentWorkerConfiguration: outside production the ids have defaults.
WorkerLoads(e) == Production(e) => e.workerIds = "set"

-----------------------------------------------------------------------------
(* Retrieval and answers. *)

RagConfiguration(e) ==
    LET vector == Default(e.vector, InProduction(e, "pgvector", "memory"))
    IN  [embedding |-> Default(e.embedding, InProduction(e, "disabled", "fake")),
         answer |-> Default(e.answer, InProduction(e, "disabled", "fake")),
         vector |-> vector,
         queue |-> Default(e.embeddingQueue,
                       InProduction(e, "redis", IF vector = "pgvector" THEN "postgresql" ELSE "local")),
         required |-> Default(e.ragRequired, InProduction(e, "true", "false"))]

Real == {"openai", "gemini"}
HasKey(e, driver) == (driver = "openai" => e.openai # "unset") /\ (driver = "gemini" => e.gemini # "unset")

\* What loadRagConfiguration demands of production.
RagFitsProduction(e, c) ==
    /\ e.embedding # "unset" /\ e.vector # "unset" /\ e.answer # "unset" /\ e.database # "unset"
    /\ c.embedding \in Real /\ c.answer \in Real
    /\ c.vector = "pgvector" /\ c.queue = "redis" /\ c.required = "true"

RagLoads(e) ==
    LET c == RagConfiguration(e)
    IN  /\ {c.embedding, c.answer} \subseteq Real \cup {"fake", "disabled"}
        /\ c.vector \in {"memory", "pgvector"} /\ c.queue \in {"local", "postgresql", "redis"}
        /\ c.required \in {"true", "false"}
        /\ Production(e) => RagFitsProduction(e, c)
        /\ HasKey(e, c.embedding) /\ HasKey(e, c.answer)
        /\ c.vector = "pgvector" \/ c.queue = "postgresql" => e.database # "unset"
        /\ c.queue = "redis" => e.redis # "unset"
        /\ c.embedding = "disabled" => c.answer = "disabled"
        /\ e.numbers = "good"

\* createDocumentServices: the Redis client is there only with an address.
ServicesBuild(e) ==
    /\ DocumentsLoad(e) /\ RagLoads(e)
    /\ DocumentConfiguration(e).queue = "external" => e.redis # "unset"

\* What several processes can share, and answers from real models.
SharedServices(e) ==
    /\ DocumentConfiguration(e) = SharedDocuments
    /\ LET c == RagConfiguration(e)
       IN  {c.embedding, c.answer} \subseteq Real /\ c.vector = "pgvector" /\ c.queue = "redis"
               /\ c.required = "true"

-----------------------------------------------------------------------------
(* Jira. *)

JiraEnabled(e) == e.jiraEnabled = "true"
WebhookEnabled(e) == e.webhook # "unset"

\* The test modes are for tests and for staging on a developer's machine.
TestModeAllowed(e) == e.nodeEnv # "production" \/ e.mode = "local"

JiraLoads(e) ==
    /\ e.jira # "other" /\ e.jiraEnabled # "other"
    /\ JiraEnabled(e) <=> e.jira # "unset"
    /\ e.jira = "test" => TestModeAllowed(e) /\ e.jiraToken = "unset" /\ e.jiraUrl # "unset"
    /\ e.jira = "cloud" => e.jiraUrl = "cloud" /\ e.jiraToken = "set"
    /\ e.numbers = "good"

WebhookLoads(e) ==
    /\ e.webhook # "other"
    /\ e.webhook = "test" => TestModeAllowed(e) /\ e.webhookOrigin # "unset"
    /\ e.webhook = "cloud" => e.webhookOrigin = "cloud"
    /\ WebhookEnabled(e) => e.secrets = "good"
    /\ e.numbers = "good"

-----------------------------------------------------------------------------
(* The checks before a deployment. *)

ProductionAccepts(e) ==
    /\ e.nodeEnv = "production" /\ DocumentsLoad(e) /\ RagLoads(e)
    /\ e.database \in {"tls", "live"} /\ e.redis = "tls" /\ e.endpoint \in {"private", "public"}
    /\ e.backup = "s3" /\ e.backupPlace \in {"same", "public"}
    /\ e.secrets = "good" /\ e.productionValues = "good" /\ e.resend = "set"
    /\ "openai" \in {RagConfiguration(e).embedding, RagConfiguration(e).answer} => e.openai = "set"
    /\ "gemini" \in {RagConfiguration(e).embedding, RagConfiguration(e).answer} => e.gemini = "set"
    /\ DocumentConfiguration(e).storage = "s3" /\ DocumentConfiguration(e).metadata = "postgresql"
    /\ DocumentConfiguration(e).queue = "external" /\ RagConfiguration(e).queue = "redis"

\* Addresses and stores of the mode.
PlacesFit(e) ==
    /\ e.database \in {"local", "plain", "tls"} /\ e.redis \in {"plain", "tls"}
    /\ e.endpoint # "unset" /\ e.bucket = "staging" /\ e.baseUrl # "unset"
    /\ IF e.mode = "managed"
       THEN e.baseUrl = "https" /\ e.endpoint = "public" /\ e.redis = "tls" /\ e.database = "tls"
       ELSE e.database = "local"
    /\ e.notifications # "unset" /\ (e.notifications = "resend" => e.resend = "set")
    /\ e.backup # "unset" /\ (e.backup = "s3" => e.backupPlace \in {"http", "public"})
    /\ e.mode = "managed" => e.notifications = "resend" /\ e.backup = "s3" /\ e.backupPlace = "public"

JiraFits(e) ==
    /\ JiraLoads(e) /\ WebhookLoads(e) /\ JiraEnabled(e) = WebhookEnabled(e)
    /\ JiraEnabled(e) => e.jiraUrl = e.webhookOrigin /\ (e.mode = "managed" => e.jira = "cloud" /\ e.webhook = "cloud")

StagingAccepts(e) ==
    /\ e.appEnv = "staging" /\ e.nodeEnv \in {"production", "test"} /\ e.mode \in {"local", "managed"}
    /\ PlacesFit(e) /\ JiraFits(e)
    /\ e.secrets = "good" /\ e.stagingValues = "good" /\ e.workerVersion = "good" /\ e.contract = "good"
    /\ DocumentsLoad(e) /\ RagLoads(e)
    /\ e.mode = "managed" => SharedServices(e)

-----------------------------------------------------------------------------
(* The health of the documents (checkDocumentReadiness): up is what answers. *)

Part == {"postgresql", "redis", "s3", "ocr", "openai", "gemini"}
Answers(part, up) == part \in up \/ part \notin Part
Backing(service) == IF service = "pgvector" THEN "postgresql" ELSE IF service = "external" THEN "redis" ELSE service

VectorsHealthy(c, up) ==
    /\ c.embedding # "disabled" /\ Answers(c.embedding, up)
    /\ Answers(Backing(c.vector), up) /\ Answers(c.queue, up)

DocumentsHealthy(e, up) ==
    /\ ServicesBuild(e) /\ WorkerLoads(e)
    /\ LET c == DocumentConfiguration(e)
           r == RagConfiguration(e)
       IN  /\ \A service \in {c.metadata, c.storage, Backing(c.queue)} : Answers(service, up)
           /\ c.ocrRequired = "true" => c.ocr = "local" /\ "ocr" \in up
           /\ r.required = "true" => VectorsHealthy(r, up) /\ r.answer # "disabled" /\ Answers(r.answer, up)
=============================================================================
