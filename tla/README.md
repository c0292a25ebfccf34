# Avantime platform: TLA+ models

Formal models of the Avantime platform (a multi-tenant customer portal with document intelligence,
support requests synchronised with Jira, a knowledge base, sign-in of its own and through OIDC, and
platform governance). The modules here are translated from the TypeScript sources; TLC checks them on
small instances, and TLAPS proves theorems for every value of the constants: about the job queue,
document processing, both directions of Jira, notifications, the knowledge index, answers with
citations, both ways to sign in, membership, platform governance and support, the migration of
documents, rollouts and backups.

Contents: [the system](#the-system) · [modules](#modules) · [runs](#runs) ·
[findings](#disagreements-between-code-and-documentation) · [bounds](#bounds) ·
[fairness](#fairness) · [proofs](#proofs) · [abstractions](#abstractions) ·
[plan](#plan) · [not modelled](#not-modelled)

Run a check in this directory with `tlc -config <run>.cfg <module>` and the proofs of a module with
`tlapm <Name>Proofs.tla`.

## The system

All paths are below `apps/web/`. The web application answers requests; separate worker processes
(`scripts/`, `lib/*-worker-runtime.ts`) poll queues. They share PostgreSQL (Prisma), Redis, a file
store, and the outside services (Jira, mail and SMS providers, embedding and language models).

| Component | State it keeps | Operations | Talks to |
|---|---|---|---|
| Redis lease queue (`lib/redis-lease-queue.ts`) | per tenant: a hash per job, the job set, the document→job index, sorted sets `ready` and `leased` | enqueue, claim, renew, acknowledge, release, removeForDocument | Redis; used by the document worker and the requests |
| Document metadata and files (`lib/document-repositories.ts`, `document-storage.ts`) | a row per document (status, worker, fencing token, attempts); original, text, chunks | conditional transitions, save, delete | PostgreSQL, file store |
| Document processing worker (`lib/document-processing-worker.ts`, `worker-lease.ts`, `document-retry-policy.ts`) | local variables of one `runOnce`, the heartbeat | claim → look up → begin → extract → save → complete → acknowledge; retry or quarantine | queue, metadata, files, embedding queue |
| Document requests (`lib/document-services.ts`, `document-quarantine.ts`, `app/api/documents/upload/route.ts`) | local variables of a request | upload, reprocess, retry, resolve, permanently fail, delete, cleanup | queue, metadata, files |
| Support requests, Jira outbox (`lib/requests-store.ts`, `jira-outbox.ts`, `jira.ts`) | `SupportRequest`, `RequestMessage`, `JiraOperation` rows; issues and comments in Jira | create, claim batch, search/create, complete, fail, operator retry and dead-letter | PostgreSQL, Jira |
| Jira webhook and inbound worker (`lib/jira-webhook.ts`, `jira-inbound.ts`, `jira-sync-policy.ts`) | `JiraInboundEvent` rows; request status, `jiraUpdatedAt`, `jiraSyncVersion`; imported comments | ingest, claim batch, apply status/comment/deletion, fail, operator commands, status change by support | PostgreSQL, Jira |
| Embedding pipeline (`lib/document-embedding.ts`, `embedding-queue.ts`, `vector-repository.ts`) | embedding jobs with leases and fencing tokens in PostgreSQL; embedding state and vectors of a document | enqueue, claim, renew, ack, release, embed and store, remove | document pipeline, vector store, provider |
| Notification outbox (`lib/notification-outbox.ts`, `notification-providers.ts`) | `NotificationOutbox` rows | enqueue, claim, deliver, accept, receipt polling, fail, manual retry | PostgreSQL, providers |
| Knowledge indexing (`lib/knowledge-index-worker.ts`, `knowledge-indexing.ts`, `knowledge-store.ts`) | articles with versions, index events, search and vector records, cache | publish/archive, claim, complete, fail, upsert, remove, invalidate | PostgreSQL, cache |
| Governance approvals (`lib/governance-approvals.ts`, `platform-role-governance.ts`) | approval requests, decisions, platform role assignments, advisory locks | request, decide, cancel, expire, execute (owner changes and other executors) | PostgreSQL, audit |
| Platform access and support (`lib/platform-authorization.ts`, `platform-support.ts`, `platform-owner-bootstrap.ts`, `app/api/admin/requests/[id]/status/route.ts`) | role assignments, support sessions, approvals of support actions | bootstrap, change a role, start, end and terminate a support session, change a company's request | governance, support requests |
| Organization membership (`lib/team.ts`, `organization-permissions.ts`) | memberships with role, status and version; invitations; the lock on the organization row | change role, change status, bootstrap an owner, invite, revoke, accept | PostgreSQL, sessions |
| Local sign-in and sessions (`lib/identity-auth.ts`, `identity-management.ts`, `password-reset.ts`, `session.ts`, `mfa.ts`) | credential, reset tokens, login challenges, TOTP methods, recovery codes, sessions | sign in, answer a challenge, enrol, confirm, regenerate, disable, change and reset the password, log out | PostgreSQL |
| OIDC sign-in (`lib/oidc-provider-configuration.ts`, `oidc.ts`, `oidc-flow.ts`, `identity-policy.ts`) | the provider's row with its version, authorization requests, the SSO policy | configure, refresh, enable, disable, begin, callback (validate or log in), set the policy | PostgreSQL, the identity provider |
| AI budget (`lib/ai-gateway.ts`, `ai-control.ts`) | reservations and usage ledger of a tenant and window | reserve, call, reconcile, release, expire | PostgreSQL, model providers; used by embedding, indexing and answers |
| Retrieval and answers (`lib/retrieval.ts`, `knowledge-retrieval.ts`, `rag-answer.ts`, `document-sources.ts`, `components/knowledge-ask.tsx`) | a person's history of questions, in the database and in the page | collect passages, rank, confirm and cite sources, generate, save, list and delete history | metadata, chunks, vectors, articles, model providers |
| Local development adapters (`lib/document-processing-queue.ts`, `embedding-queue.ts`, `document-repositories.ts`, `document-migration.ts`) | a JSON file per queue, `metadata.json`, files in place | the operations of queue, rows and storage; the migration to PostgreSQL and S3 | the file system, the shared stores |
| Staging, production and evidence tooling (`lib/*-configuration.ts`, `staging-readiness.ts`, `staging-worker-heartbeat.ts`, `backup-restore.ts`, `object-storage-backup.ts`) | the environment, heartbeats in Redis and in rows, dumps, archives and backup records | load and validate the environment, start workers, report readiness, back up and rehearse a restore | everything that is configured |
| Portal pages and API shells | none | render, parse, authorise | all of the above |

**How they interact.** An upload writes the original, inserts the row, enqueues a job and moves the
row to QUEUED: four calls on three stores, in that order, with no transaction around them. A worker
claims the job from Redis, writes its fence into the row, and from then on every update of the row
is conditional on that fence; files are not fenced. Requests on the same document (retry, delete,
cleanup) run between any two of these calls. A support request, its Jira operation and its audit
record are inserted in one transaction; an outbound worker claims a batch of operations under one
lease and calls Jira outside any transaction; Jira answers with webhooks, which become rows that an
inbound worker applies in transactions at READ COMMITTED.

**What is hard, and what makes each part correct:**

- *Lease queue.* One job is spread over five keys, one operation takes two round trips, and any
  holder of an old lease may still call. Correct: no job is lost, the index names existing jobs,
  tokens identify claims, a live lease is exclusive, and the whole is a queue with fenced leases.
- *Document pipeline.* Requests and workers race on row, files and job; heartbeats notice a lost
  lease late; processes die between any two awaits. Correct: statuses follow the table, no stale
  worker completes a document, retries are bounded, work is neither lost nor endless, a visible row
  has its original, and a deleted document leaves nothing.
- *Jira outbox.* An answer from Jira may be lost, a batch may outlive its lease, two tables hold one
  status, and operators act on rows between check and update. Correct: the portal shows the true
  state, retries do not duplicate, completion is final, and the queue drains.
- *Jira inbound.* Webhooks are late, reordered, repeated or about things not yet linked. Correct:
  Jira time never goes back, an event takes effect exactly once, and a terminal request stays so.
- *Embedding pipeline.* Document row, job and vectors change one after the other, in another order
  in each of worker, enqueuer and remover, and one update of the worker is not fenced. Correct: a
  document that counts as embedded has exactly the vectors of its present chunks, and no job is endless.
- *Notification outbox.* Accepted is not delivered, the answer of the provider may be lost, and two
  workers may post the same row. Correct: nobody gets a mail twice unless an operator asks for it, and
  every row settles.
- *Knowledge indexing.* An article changes between being read and being indexed, and workers finish
  late. Correct: an article whose event is done is indexed at its current version, one whose event was
  given up is hidden, and every event settles.
- *Governance.* Approvers, requester, expiry and execution race, and each reads before it writes.
  Correct: final statuses stay, an approval takes effect at most once, approved by somebody else, on
  the version it was given for; a platform owner always remains.
- *Platform access and support.* A handler reads the request, the support session and the roles one
  after the other, and changes a company's request later. Correct: support acts only in a session for
  that company, and on somebody else's approval of this very change.
- *Membership.* Role and status are read before the organization row is locked, owners act on each
  other, and invitations do not take the lock. Correct: a change applies to the membership it was
  decided on, and an organization never loses its last active owner.
- *Local sign-in.* A request reads challenge, code or password, decides, and writes later; another
  with the same code runs in between. Correct: a code is accepted once, a challenge opens one session.
- *OIDC sign-in.* Operators fetch metadata, and browsers come back, to a provider that may have been
  configured anew. Correct: an enabled provider was proven with the configuration it has, and an
  authorization request opens one session, however often its callback is called.
- *Answers.* Between ranking, citing, the model's answer and its display, documents are deleted and
  processed again, articles edited, histories cleared and other questions asked. Correct: every
  citation is of a source the person could still read after ranking, and no history names another.
- *Local adapters.* Operations read a whole file, change it and write it back; the migration copies
  files and rows one after the other, may die anywhere and is run again while both sides are used.
  Correct: the calls of one process act one after the other; a migrated row has its whole original,
  and a run that reports no failure has copied everything.
- *Rollout.* Checks, loaders and factories read the same environment in different ways, workers of two
  generations run side by side and leave beats in places they share. Correct: what the checks accept
  starts, on shared services, and a deployment reported as ready has its own workers.
- *Backups.* Scripts started by people and timers overlap, share file names, and are killed; pg_dump
  and an object listing take a while. Correct: what is recorded can be restored, no dump stays in the
  clear, and a rehearsal never touches a database in use.
- *AI budget.* Calls reserve at once, and a reservation may expire under a running call. Correct: what
  is reserved and spent exceeds the limit only by what calls cost above their estimate or after their
  reservation.

`PROJECT.json` lists all of these as hazards, at the lines where they bite.

## Modules

```
JobHandover ◀──implement── LeaseQueue, LocalQueue

LeaseQueue ──implements──▶ FencedQueue          OutboxRows ─────────┬──────────────────┐
    │                          │                    │               │                  │
LeaseQueueProofs          DocumentStore         JiraOutbox   NotificationOutbox  KnowledgeIndexing
                           │        │               │               │                  │
                DocumentWorker   DocumentRequests  JiraInbound      │                  │  EmbeddingPipeline
                           └───┬────┘               │               │                  │    │  AiBudget
                       DocumentPipeline          JiraSync           │                  │    │    │
                    DocumentPipelineProofs          └─ OutboxProofs ┘                  ServicesProofs

OrganizationMembership    PlatformGovernance    PlatformAccess       UserSessions
    │                             └─PlatformProofs─┘                 │          │
OrganizationMembershipProofs                                    LocalSignIn  OidcSignIn
                                                                     └IdentityProofs┘

   Subsequence                        RuntimeConfiguration
     │       │                                │
LocalQueue  KnowledgeAnswers  DocumentMigration  StagingReadiness  Backups
     └───────────────┴────────── LibraryProofs ─────────┴─────────────┘
```

Every line downwards is EXTENDS. `OutboxProofs`, `ServicesProofs`, `PlatformProofs`,
`IdentityProofs` and `LibraryProofs` each hold the proofs of several components that share nothing but lemmas or subject.
`MCLeaseQueue`, `MCDocumentPipeline`, `MCJiraSync` and `MCOrganizationMembership` add the values of
the constants and the symmetry sets for TLC. `MCServices` (embedding, knowledge index, notifications,
budget), `MCIdentity` (local sign-in, OIDC, membership), `MCPlatformGovernance` (owners, support) and
`MCDocumentLibrary` (requests on documents, file queues, answers, migration, environment and rollout,
backups) check several components in one run: the variable `part` says which of them a behaviour
belongs to, and the others stay where they are, in an initial state with nothing to do, so that the
fairness asked of them is satisfied. The state space of such a run is the union of its parts, not
their product.

**JobHandover**: what every lease queue of the platform keeps to, the Redis queue and the file queues of a
development machine alike. A job is absent, waiting, claimed or gone; each hand-over carries the next
token and is answered with a lease, and only the lease of the last hand-over finishes or returns the job.
It has no times: the Redis queue refuses an expired lease, the file queue hears it until the next claim.
`HandedJobs` in LeaseQueue and `FileJobs` in LocalQueue are the refinement mappings.

**FencedQueue**: the contract of `DocumentProcessingQueue` (`document-processing-queue.ts`), which
states what a queue of this platform promises without clocks or keys. A job is absent, delayed,
ready, held, lapsed or gone; claiming gives a greater token; only the current holder acknowledges
or releases; removing a document's job is a lookup followed later by a removal. `TimePasses` moves
any set of jobs from held to lapsed and from delayed to ready.

**LeaseQueue**: the Redis scripts. `documents`, `jobs`, `ready`, `leased` and `hash` are the keys;
`now` is the server clock, which each script reads once. Each script is one action
(`Enqueue`, `Claim`, `Renew`, `Acknowledge`, `Release`), `removeForDocument` is two (`RemoveLookup`,
`RemoveExecute`). `issued` is the history of leases given out, and any of them may be presented at
any time; `used` the ids generated so far. Claim looks at the scores in `leased`, the others at
`leaseExpiresAtMs` in the hash, as in the code.

**DocumentStore**: the metadata row (status, worker, fencing token, attempts) and whether original,
text and chunks exist. A conditional SQL update is one step; each file is written or deleted by
itself.

**DocumentWorker**: `runOnce`, one action for each await that touches shared state, in the order of
the code: claim, look up, UPLOADED→QUEUED, the claiming update, extraction (an outcome), the two
saves, the lease assertion, the completing update, acknowledge; the failure path with its two
deletes, the fenced update to QUEUED, FAILED or QUARANTINED, release or acknowledge; the heartbeat;
and the death of the process at any point.

**DocumentRequests**: the seven operations of users and administrators, each a sequence of awaits
kept as a program counter with the status it saw. `Interrupt` cuts a request off anywhere, or makes
the current call fail, with the code's own compensation (`UploadFailed` and what follows). A call that
fails may have been done and only its answer lost (`Create`, `Enqueue`, `Apply`).

**DocumentPipeline**: all of them at once, and the properties of document processing. At the start any
documents are accepted, each with row, original and waiting job (`AcceptedAlready`); the others may be
uploaded.

**OutboxRows**: what the tables `JiraOperation`, `JiraInboundEvent` and `NotificationOutbox` share:
claiming a batch, burying exhausted rows, the update that requires PROCESSING and the same lease
token, failure with or without permanence. Written as operators on rows, used by both Jira queues, the
knowledge events and the notifications.

**JiraOutbox**: creation of requests and messages, `processJiraOperationBatch` with search and post
as two calls, completion and failure, the operator's retry and dead-letter (check, then update by
id), disabling and enabling the mapping. `posted` counts the copies that really exist in Jira, of which
the search for the marker finds what its one page shows (`Found`).

**JiraInbound**: `ingestJiraWebhook`, `processJiraInboundBatch` (reading and writing as two steps,
since the transaction runs at READ COMMITTED), the operator's commands on events, and the status
change of platform support.

**JiraSync**: both directions together with their properties. The two share requests, links and the
comments that the outbound worker posted and Jira sends back.

**OrganizationMembership**: one organization. A change of role or status is four steps: `Authorize`
(the route resolves the session and takes the client's version), `Load` (the membership is read),
`Lock` (the organization row is locked, the owners counted, the decision taken on what was loaded)
and `Update` (conditional on the version). `bootstrapFirstOrganizationOwner` goes straight to `Lock`.
Invitations are `InviteCheck`/`Invite`, `Revoke`, and `AcceptCheck`/`Accept`, none of which locks.

**PlatformGovernance**: an approval is requested, decided (`ReadToDecide`, `Decide`), cancelled,
expires, or is executed (`StartExecution`, `ReadToExecute`, `ClaimAndLock`, `Execute`). The executor is
executePlatformOwnerChange, which assigns or removes a platform owner under an advisory lock. `Abort`
is a handler that throws or dies anywhere; its transaction is rolled back.

**PlatformAccess**: everything before and around that. `Bootstrap` makes the first owner, `ChangeRole`
gives and takes the other roles, `StartSupport`, `EndSupport`, `TerminateSupport` and `SupportExpires`
are the life of a support session, `RequestConsent` and `GrantConsent` that of the approval of one
support action. The handler that changes a company's request takes a step for each thing it reads
(`ReadTicket`, `LoadSupport`, `Authorize`) and `ExecuteSupport` for its transaction.

**EmbeddingPipeline**: one document, its embedding job, its chunks and its vectors. A worker (`ClaimJob`,
`FindDocument`, `SkipDocument`, `BeginEmbedding`, `ReadChunks`, `Embed`, `UpsertBatch`, `DeleteStale`,
`AssertLease`, `CompleteEmbedding`, `AcknowledgeEmbedding`; on failure `AssertToFail`, `RecordFailure`,
`ReleaseEmbedding`) takes one step for each await of `runOnce` that touches shared state. Enqueuers are
the document worker after completion and reindex requests, removers are `reprocessDocument`,
`deleteDocument` and `cleanupDeletedDocuments`, each in the order of its calls. A reindex request reads
the row (`LookAtDocument`) and later the chunks (`CompareChunks`). A *generation* is one processing of
the document: vectors are compared with chunks by it.

**KnowledgeIndexing**: articles with their versions, the events a trigger writes for each version, and
the two index tables, whose rows are the version they were built from. Editors update under the
version (`Create`, `SetStatus`, `Reindex`, `Delete`, `FindArticle` then `SetVisibility` or
`PublishApproved`); a worker claims a batch (`ClaimBatch`) and goes through it (`NextEvent`, then
`Remove`, or `UpsertSearch` and `UpsertVector`, then `CompleteEvent`, or `FailEvent`).

**NotificationOutbox**: rows, their worker (`ClaimNotifications`, `NextNotification`, `Deliver` or `Poll`,
`MarkAccepted`, `MarkDelivered`, `MarkFailed`), the operator's `RetryDeadLetter`, and the provider,
which accepts a key once, delivers or not, and forgets the key some time after the row has settled.
`mail.copies` counts the mails that were really sent.

**AiBudget**: the calls of one tenant in one window. `Reserve` is the transaction under the tenant's
advisory lock, `Attempt` a call of the provider, `Reconcile` and `Release` what follows it; `Expire` is
the reservation's time to live. Reservations and ledger are kept by `UsageKey`, the key that the
gateway really uses.

**UserSessions**: the session table, with what opened a session (`proof`) as its history. createUserSession
is two writes: the session the browser had is revoked (`RevokePrevious`), the new one is inserted
(`OpenSession`).

**LocalSignIn**: one person's password, reset tokens, challenges, TOTP methods and recovery codes. The
requests in progress (`Visit`) read in one step (`ReadCredential`, `ReadChallenge`, `CheckCode`,
`CheckConfirmation`, `CheckReset`, ...) and write in another (`Rehash`, `Consume`, `WrongCode`, `Rotate`, `Admit`,
`SpendCode`, `Confirm`, `ResetPassword`, ...). `accepted` counts how often a code was accepted.

**OidcSignIn**: the provider's row, its operators (`LoadProvider`, then `Configure`, `Refresh`,
`SwitchOn` or `SwitchOff` under the version loaded), authorization requests, and browsers in the
callback (`ReadState`, `ConsumeState`, `Exchange`, then `CheckProof` and `RecordProof` for a
validation, or `SignIn`, `AnswerChallenge`, `CheckSession`, `RotateOidc` and `OpenOidc` for a login); the SSO policy
with `LoadPolicy`, `SetPolicy` and `PolicyComesIntoForce`.

**KnowledgeAnswers**: one question on its way and the history it is saved to. `ListDocuments`,
`ScanChunks`, `SearchArticles`, `EmbedQuestion`, `SearchVectors` and `SearchArticleVectors` collect
passages, `Rank` keeps any of them within its two limits, `ReadSource` and `Cite` read each source
again, `FillContext` and `Generate` are the context limit and the model. Around it `Withdraw`,
`Rewrite`, `CompleteAgain`, `Vectorize`, `Republish` and `Index` change the sources. The page
(`Submit`, `ReceiveAnswer`, `OpenHistoryItem`, ...) and the requests on the history (`ResolveSource`,
`ListHistory`, `SaveHistory`, ...) are steps of their own, because answers arrive late.

**LocalQueue**: the file queues of a development machine, LocalDocumentProcessingQueue
(`document-processing-queue.ts`) and LocalEmbeddingJobQueue (`embedding-queue.ts`), the same program
written twice; the map therefore points some definitions to one and some to the other. A call waits for
its turn within its process (`MyTurn`), reads the whole file (`ReadFile`) and writes it anew
(`WriteFile`). With one process they act one call after the other, which is what `LocalQueueIsSequential`
states, and each step is a step of JobHandover (`FileQueueHandsOver`). A job that is not in the file is
absent while its id is still to be written (`Unborn`) and gone afterwards; a duplicate enqueue, or a
process that dies while it waits, leaves an id that is never used, which JobHandover calls withdrawn.

**Subsequence**: `Array.filter`, by the places that stay. `LocalQueue` and `KnowledgeAnswers` use it where
a job or a history item is removed. `SelectSeq` says the same but is declared RECURSIVE, and nothing can be
proved of it.

**DocumentMigration**: local rows and files with a user's calls (`BeginSave`, `ReadSheet`, `WriteSheet`,
...), the target with its deletions and purges, and runs of the migration (`StartMigration`,
`NextPaper`, `CopyHistory`, `ReadItem`, `FindRow`, `CompareItem`, `WriteItem`, `VerifyItem`,
`CreateTargetRow`), each of which may meet a fault or die. Contents are none, a version, or torn.

**RuntimeConfiguration**: operators only: what each loader, factory and check makes of an
environment, which gives each variable the class of its value.

**StagingReadiness**: environments edited and deployed (`Edit`, `Deploy`), processes that start with
one and beat (`StartWorker`, `Beat`, `StopWorker`), and the readiness report, which looks at one
component after the other (`StartCheck`, `ProbePasses`, `ProbeFails`).

**Backups**: runs of the database backup (`StartBackup`, `ReadDump`, `WriteArchive`, `WriteManifest`,
`CleanUp`, `RecordBackup`, `FailBackup`, `KillBackup`), rehearsals (`StartRestore`, `EndRestore`) and
object backups (`StartObjects`, `ListPage`, `CopyObject`, `VerifyCopy`, `RecordObjects`,
`EndObjects`) beside an application that writes. createBackupPlan takes any `DATABASE_URL`, so a database
for rehearsals may be backed up as well, and half restored; what is promised of the content of a backup is
promised of databases in use (`Served`).

**LeaseQueueProofs, DocumentPipelineProofs, OrganizationMembershipProofs, ServicesProofs,
OutboxProofs, IdentityProofs, PlatformProofs, LibraryProofs**: the theorems, see [proofs](#proofs).

The `map` in `PROJECT.json` gives for each definition the lines it stands for. Definitions that the
modules mark as mutations, or whose name describes a defect (`ReleaseUnscheduled`, `LockFreely`,
`SentAnyway`, ...), are the plausible bugs used to make sure that each property can fail; no
specification uses them.

## Runs

| Run | cfg | States | Shows |
|---|---|---|---|
| `lease_queue` | MCLeaseQueue | 299,574 | With two workers presenting any lease of the past and removals half done: keys agree, no job is lost, a live lease is exclusive, and the scripts implement `FencedQueue` |
| `pipeline_workers` | MCPipelineWorkers | 671,070 | Two workers on an accepted document, with a crash or a failing call, a lapsed lease and a deletion that may be cut off anywhere: no stale completion, the job can always be found again, and (under fairness) processing ends |
| `pipeline_requests` | MCDocumentLibrary | 1,389,032 | *Requests*: two concurrent requests of any kind, on a document accepted before or newly uploaded, one possibly cut off anywhere, against a worker that may stall: legal transitions, files follow rows. *Files*: two calls of one process on a file queue act one after the other, each as JobHandover allows. *Asking* and *history*: citations stay grounded while sources change and answers come late. *Migration*: run twice, beside users on both sides. *Environment* and *rollout*: what is checked is what starts, and what is reported ready is there. *Dumps* and *objects*: two backups and rehearsals at once keep what they promise |
| `jira_outbox` | MCJiraOutbox | 868,230 | Two outbound workers, an inbound worker and an operator on a request and its comment: what the portal shows is true, extra copies in Jira cost a lapse, a marker beyond the search's page or a command, and (under fairness) both queues drain |
| `jira_inbound` | MCJiraInbound | 938,765 | Two inbound workers on contradicting statuses, a comment and a private comment in any order, against support: Jira time is fenced, an event is applied exactly once |
| `stale_worker_files` | MCPipelineDerivatives | violation | a stale worker deletes a completed document's text and chunks |
| `upload_race` | MCPipelineUpload | violation | an accepted upload is left QUEUED without a job |
| `platform_governance` | MCPlatformGovernance | 1,168,922 | Two requests to assign or remove platform owners, decided, cancelled, expired and executed by two callers that may fail anywhere: an owner stays, an approval takes effect once and on the version it was given for, statuses agree with the decisions. And two members of staff with a support session, an approval and two companies: support changes a request as somebody else approved it |
| `identity` | MCIdentity | 1,229,636 | Two sign-in requests that read first and write later, or two callbacks and an operator of one OIDC provider, or two callers changing the members of an organization: codes, challenges and authorization requests work once, an enabled provider was proven with its present configuration, changes apply to the membership they were decided on, and the last owner stays unless somebody rejoins |
| `services` | MCServices | 547,631 | Embedding, knowledge index, notifications and AI budget, one after the other, each with crashes, failures and lapsed leases: what is marked done has its vectors and index rows, an article given up is hidden, mail is repeated by an operator only, the budget is not overspent, and (under fairness) every job, event and notification settles |
| `budget_batches` | MCBudgetBatches | violation | the second embedding batch of a document is refused though the budget is not used up |
| `membership_owner` | MCMembershipOwner | violation | the only owner accepts a second invitation and is an owner no more |

Every property of a passing run has a mutant in `PROJECT.json`: a changed definition under which the
same run finds that property violated.

### Properties worth a comment

- `NoJobLost` relates four keys that five scripts change; `LiveLeaseIsExclusive` holds only because
  renew writes both copies of the lease end.
- `NoStaleCompletion` is the pipeline's main promise. The lease assertion and the completing update
  are two calls, so it rests on the fence in the row and not on the assertion.
- `WorkIsRecoverable` is checked with requests that enqueue nothing (a deletion, which removes the job
  in two round trips). With requests that enqueue it is false, as `upload_race` and the other hazards
  on enqueueing before updating show.
- `FilesFollowRows` is two properties: `RowHasOriginal`, which excepts an insert whose answer was lost (see
  [disagreements](#disagreements-between-code-and-documentation)), and `PurgedLeavesNothing`, which is checked
  without crashes and failing storage calls: a worker that dies after saving its derivatives of a
  document that was purged meanwhile does leave them. It does hold for a worker that merely comes late, because of the two deletes on the conflict path; these
  are the deletes that `stale_worker_files` is about.
- `CopiesCostALapse` is the precise form of "safe to retry" for the outbox: the search for the
  marker protects against crashes and lost answers, but not against two workers that hold the same
  operation at once, which one lease for a batch of calls makes possible, nor for comments of a request
  that has more than a hundred: addComment looks at one page of them (`jira.ts:317`).
- `ShownIsTrue` has one exception, written in the property: a request whose issue was deleted in
  Jira is shown as FAILED while its operation is complete.
- `EmbeddedUnlessOvertaken` says what the fence of the embedding job is worth. A worker that is
  overtaken by its own lease, or by a removal, is excepted, and so is a removal that was cut short;
  what goes wrong then is described under the [disagreements](#disagreements-between-code-and-documentation).
- `IndexedWhenDone` rests on three things together: the WHERE of both upserts, the version the worker
  compares before it writes, and that a version's event is written in the transaction of the version.
- `HiddenWhenDead` relates three places that bury an event (two in the claim, one in the failure) to the
  article, which may have moved on: then it must not be quarantined.
- `CopiesCostARetry` depends on the provider keeping a key for longer than a row is tried. That is how
  the code uses it (a day); without it a worker that posts late would send a second mail.
- `BudgetHolds` says exactly by how much the limit may be exceeded, and by which calls. If reservations of
  running calls were not counted, two calls would break it.
- `CodeAcceptedOnce` counts acceptances over all uses of a code: signing in, regenerating recovery
  codes and disabling a method read the same counter and write it in different transactions.
- `EnabledIsProven` relates the provider's row to the authorization request which proved it. It fails as
  soon as one operation, or the callback, writes without comparing the version.
- `LastOwnerStays` is checked of an organization in which nobody accepts an invitation while already a
  member (`Rejoined`); `membership_owner` shows what happens otherwise.
- `DecidesOnCurrent` is why loading before locking is harmless: the client's version is not newer than
  what was loaded, so an update that matches acts on exactly that. Without the version in the where
  clause an owner promoted in between could be demoted uncounted.
- `ExecutedOnce` counts effects and not statuses. The conditional claim and the version protect it
  together: without the claim's condition alone it would still hold.
- `ExecutesWhatWasApproved` needs the second reading of the version under the advisory lock; the
  version read first, on which the approval is matched, may be old by then.
- `AnswersAreGrounded` speaks of sources readable *after ranking*: ReadSource asks again, with the
  status and version of the moment. A source deleted while the model answers is still cited, and a
  document processed again between the two readings can be cited with the text of a generation that is
  not complete yet (`docs/HYBRID_RAG.md:51-53`, `docs/DECISIONS.md:1461`).
- `MigrationIsFaithful` says of a run without failure that everything was copied, of a run that was not
  disturbed; of a row visible at the target it says always that the original is whole.
- `DeployedAsChecked` ties three readings of one environment together: what a check accepts, what the
  loaders and factories build, and what readiness asks for.
- `BackupsHold` has one exception: two runs of the same second (or with the same `BACKUP_TIMESTAMP`)
  share a plaintext file (`shared`), and the archive of one may hold a torn dump.
- `WorkEnds` says of three queues at once that they settle: `EmbeddingIsOver`, `EventsAreSettled`,
  `NotificationsAreSettled`.
- `SupportActsAsApproved` relates the request, the support session and the approval at the moment of
  the change, though all but the version were read before. What holds it together is that neither the
  company, actor and scopes of a support session nor the target of an approval ever change.

## Disagreements between code and documentation

Shown by a run:

1. **Files are not fenced** (`document-processing-worker.ts:233,261`; run `stale_worker_files`). The
   failure path deletes text and chunks without a look at lease or fence;
   `docs/DOCUMENT_PROCESSING.md:14` says COMPLETED means fully saved.
2. **Enqueue before update** (`document-processing-worker.ts:105`; run `upload_race`). The worker may
   find the document still UPLOADED, lose the race for UPLOADED→QUEUED against the very request that
   enqueued the job, and acknowledge the job. The upload was answered 202;
   `docs/DOCUMENT_PROCESSING.md:12` says a QUEUED document has a job.
3. **Accepting an invitation may remove the last owner** (`team.ts:292`; run `membership_owner`).
   inviteCompanyMember refuses members, and revokes pending invitations of the same address that it
   can see; two invitations sent at once both stay pending. The person accepts one, becomes the first
   owner, and accepts the other: the upsert overwrites the role without lock or count.
   `docs/AUTHORIZATION_ARCHITECTURE.md:74-75` says the last active OWNER cannot be demoted.
4. **Batches share a budget key** (`ai-gateway.ts:615`; run `budget_batches`). The callers choose a
   usage key for each batch (`document-embedding.ts:401`, `knowledge-index-worker.ts:234`), but `embed`
   and `generateRagAnswer` (549) do not pass it to `authorize`, which falls back on request type and
   correlation id (703). The second batch or attempt meets `ON CONFLICT DO NOTHING`
   (`ai-control.ts:330`) and is refused as over budget, which is not retried. `docs/tasks/TASK-005.md:99`
   says that each embedding batch gets a budget key of its own.

Met while modelling, and kept as definitions without a run (each module lists its own under "What the
documentation says and the code does not do"):

- `RowHasOriginal` without `AllHeard` (`upload/route.ts:114-117`). A `metadata.create` that commits but
  whose answer is lost throws, and the handler deletes the original of a row that exists. In the same way
  (`Complete`, `document-processing-worker.ts:211`) a completing update whose answer is lost sends the worker
  to its catch block, which deletes text and chunks of a COMPLETED row: what `stale_worker_files` shows, without
  a second worker.
- `OneJobPerDocument` (`redis-lease-queue.ts:341`). removeForDocument reads the job id with HGET and
  deletes index entry and job in a later EVAL. If the job is acknowledged and the document enqueued
  again in between, the EVAL drops the *new* job's index entry, and the next enqueue creates a second
  job. `docs/QUEUE_OPERATIONS.md:11-12` promises idempotent enqueue.
- `TerminalStays` (`jira-inbound.ts:232`). The decision uses the status read, the update compares only
  `jiraUpdatedAt`; `docs/JIRA_INTEGRATION.md:53` says resolved and closed requests do not silently roll
  back. Support closes a request, and a status event read before reopens it.
- `NoLeftovers` (`knowledge-index-worker.ts`). A worker that read the published article may write its
  rows after another has removed those of the archived one: the upsert compares source versions with
  the row, and there is none. `docs/runbooks/knowledge-reindex.md` has operators verify that both rows
  of an archived article are absent. The rows are of an older version, which readers join with the
  article, so nothing archived is served.
- `PublicAsApproved` (visibility route, 77-104). The approval's version is compared with the article as
  it was read when the request began, and the update that publishes it has no version, so an article
  changed in between goes public as changed; `docs/runbooks/knowledge-publication.md:20-21` says that a wrong
  version is denied.
- `LastPasswordStays` (`identity-auth.ts:356-372`). Signing in with a legacy hash rewrites the
  credential from the password presented, unconditionally; a reset between reading and rewriting is
  undone. `docs/authentication.md:127` says a successful reset updates the credential.
- `OneActiveMethod` (`identity-management.ts:226-251`). Whether a TOTP method is active is checked
  before the transaction that creates another, so two enrolments confirmed in turn leave two.
- `GraceAdmitsLocal` (`identity-policy.ts:71-88`). A REQUIRED policy must forbid local login, and local
  login that is forbidden is refused before enforcement date and grace are looked at, which
  `docs/OIDC_PRODUCTION_ROLLOUT.md:82` has operators stage.

- `SavedIsKept`, `ShownAnswerIsAsked` (`document-sources.ts`, `knowledge-ask.tsx`). Two requests that
  rewrite a person's history undo each other's changes, and a late answer replaces an item of the
  history that was opened meanwhile. resolveKnowledgeSources takes the first six references only and
  numbers the sources anew, so the markers of a stored answer need not match.
- `CreatesOnlyNew`, `RowsAreCurrent` (`document-migration.ts`). A repeated run creates documents again
  that were purged at the target, and leaves rows it finds as they are; it copies no jobs and resets
  intelligence and embedding fields. `docs/tasks/TASK-002.md:148` asks for an idempotent migration.
- `CheckedWorkersStart` (`production-configuration.ts`). The check does not ask for
  `DOCUMENT_WORKER_TENANT_ID` and `DOCUMENT_WORKER_ID`, without which a document worker does not start.
- `AcceptedIsProduction` (`production-configuration.ts`). `NODE_ENV=production` with
  `APP_ENV=staging` and `STAGING_MODE=local` passes as production while the loaders treat it as a
  developer's machine; `docs/SECURITY_HARDENING.md:7`, `docs/AI_COST_CONTROL.md:15` and
  `docs/tasks/TASK-005.md:60` promise that production has no such fallbacks.
- The file queues hold for one process only (`docs/DOCUMENT_PROCESSING.md:34,183`): with two processes
  one call overwrites what the other wrote. `metadata.json` is rewritten without any lock.

What the exceptions in `EmbeddedUnlessOvertaken` stand for:

- reprocessDocument deletes the vectors (`document-services.ts:351`) before it moves the document. If it
  ends in between, the document stays searchable without vectors, and a reindex request finds it up to
  date.
- a worker between `assertOwned` and the fenced update of the row may be overtaken by a reprocessing,
  which leaves worker and token in the row: the document is marked embedded without vectors.
- a worker that finds the document not COMPLETED deletes the vectors whether or not it still holds the
  job (`document-embedding.ts:229-236`), and acknowledges it; a job that was merged into it is lost.

The claiming update of the worker (`document-processing-worker.ts:119`) is not conditional on the row's
fence either, so an older claim may overwrite a newer one; the processing that loses its fence is then
abandoned, and `NoStaleCompletion` holds all the same.

## Bounds

Every bound is a constant: `MaxTime`, `MaxClaims`, `MaxDelay`, `LeaseDuration` in LeaseQueue;
`Allowance` in the pipeline and Jira, which says how often each disturbance (crash, lapse, fault,
request, interruption, lost answer of an insert, marker beyond the page, operator command, status change) may
happen in a run; `MaxCalls` in
OrganizationMembership; `MaxRequests`, `MaxMishaps` and the generations in `ChunksOf` in
EmbeddingPipeline; `MaxVersion` and `Disturbances` in KnowledgeIndexing; `MaxRetries` in
NotificationOutbox; `MaxClock` and `MaxChanges` in LocalSignIn; `MaxVersion` in OidcSignIn; in the
document library `LastTick`, `MaxFence` and `MaxJobs` (file queues), `MaxUpheavals` (changes of
sources), `MaxReferences` (references of an item that the history looks at; six in the code), `MaxEdits` and `MaxRuns` (migration), `MaxEdited`, `MaxDeployments` and `LastHour` (rollout),
`MaxWrites`, `LastObject` and `MaxPuts` (backups). Steps of the program proper are not bounded.

- *Lease queue*: 2 documents, 3 job ids, 2 workers, 1 remover, lease of 2 ticks, delays up to 1,
  clock up to 3, 2 claims of a job. Two claims are what it takes to have a stale holder against a
  current one; three ids allow a document's job to be finished, replaced, and raced by a removal
  with a second document beside it. The theorems remove these bounds: they hold for every value.
- *Pipeline, workers*: 1 accepted document, 1 job, 2 workers, 2 attempts; one crash or one
  fault, one lapse, one deletion and one interruption of it (`OneMishap`). An interruption or a fault is
  also a call that was done and whose answer was lost.
  Documents interact only through the queue, which LeaseQueue checks with two. One lapse is enough
  to put two workers on a document; with two attempts there is a retry and a quarantine.
- *Pipeline, requests*: 1 document, accepted or to be uploaded, 3 jobs, 1 worker, 2 clients, 2 requests, one
  interruption, one lost answer of an insert, one lapse. Three jobs, because a
  document accepted before may be removed and enqueued twice.
- *File queues*: 2 documents, 1 worker name, 2 callers in one process, leases of one tick, 2 jobs, 2
  claims. Two calls are what a lost update takes; with two processes the run fails at once.
- *Answers*: a document of two chunks, an article and a document of another tenant; 2 questions, 1
  clerk, 2 passages of which 1 from each source, a history of 2 that keeps 1 reference of an item, three
  changes of the sources. In
  *history* the second chunk of the document is left aside. Two passages of one source are what the limit for each source and the numbering of citations are about.
- *Migration*: 2 documents, one of the older list; 1 user with two edits, 2 runs, of which three
  happen in all, one cleanup at a time at the target. Two runs, because a second meets what the first left.
- *Rollout*: three settings (production, managed staging, a laptop) with up to two variables edited, two
  deployments (of a laptop one), three processes, of which two are of one kind; a tick is as long as a beat counts. A
  rollout is followed up to the first report that it is ready.
- *Backups*: 2 databases of which one is for rehearsals, 2 time stamps, 2 keys, 2 runs, 1 write; 2
  object backups of 2 objects with 3 writes. One rehearsal runs at a time.
- *Jira outbox*: 1 request, 1 message, 2 senders, 1 importer, 1 operator, batches of 2, 2 attempts,
  and one of each disturbance. Batches of two rows under one lease are where an aborted or slow
  batch affects the rows behind; the two events are the echo of the own comment and the deletion.
- *Jira inbound*: 2 importers, batches of 1, two statuses with opposite verdicts and times, a
  comment and a private comment; one crash, one lapse, one command, one status change.
- *Identity* is three instances in one run. *Local sign-in*: 2 requests, 1 challenge with 2 attempts, 1
  TOTP method, 2 recovery codes, 1 reset token, 2 sessions, two counters of the TOTP clock, 1 change of
  the password. Two requests with one code are what single use is about. *OIDC*: 1 operator, 2 callbacks,
  2 authorization requests, configuration versions up to 6: configuring, validating, enabling and
  configuring again need five. One operator suffices for what overlaps with callbacks, and two operators
  overlap only in the same compare of versions; the theorems cover any number. *Membership*: 3 persons of
  whom 2 are members, with any roles of owner, administrator and member; 2 callers, 2 invitations, 3
  calls. With three calls a change can be prepared by another, and an invited person can be changed.
- *Services* is four instances in one run. *Embedding*: 2 workers, 1 enqueuer, 1 remover, two generations
  with a chunk of their own each, 2 attempts, 1 request, 1 mishap: the second generation is what a late
  worker gets wrong. *Knowledge*: 1 article, 2 indexers, 1 editor, 2 versions, 2 attempts, batches
  of 2, either a new article without disturbances or one that is out, whose event is at its last attempt,
  with 1 disturbance: two versions give a worker that is late and one that is not. *Notifications*: 1 row, 2
  workers, 2 attempts, 1 retry. *Budget*: 3 calls, of which two share a key, a limit of 2, costs up to
  twice the estimate.
- *Support*: 2 members of staff (one to act and one to approve), 2 companies, 1 support session, 1
  approval, 1 handler, versions up to 3 for one of the two requests.
  Handlers meet only in the request's version and the
  approval's status, so a change by Jira or the expiry of the approval stands for a second one.
- *Governance*: 3 persons, 2 first owners and an administrator, 2 callers, 2 approvals of which
  one at least is not rejected, cancelled or expired; versions grow only with executed approvals. Two removals are what it takes to
  endanger the last owner. The theorems remove these bounds.

Job ids, workers, clients, senders and importers are only compared for equality, and symmetry is
used where all properties of the run allow it: never with liveness, hence not in `pipeline_workers`,
`jira_outbox` and `services`.

## Fairness

Safety runs use `Spec`, without fairness. Questions, migrations, rollouts and backups are begun by
people, who may stop. Membership, governance and sign-in have no liveness
properties, since nothing obliges a user to decide, execute or come back, and an abandoned call may
simply be repeated. Neither has the budget: a call that never returns is released by no one but its
expiry.

`ProcessingEnds`, `QueuesDrain` and `WorkEnds` are checked under fairness (`Fairness` in
DocumentPipeline, JiraSync and MCServices). All of it is weak fairness of two kinds, for every queue:
that *some* worker goes on, claiming or with its next step, as long as one can, and that *some* lease or
delay passes as long as there is one nobody renews. No single worker is promised anything:

- `runDocumentWorkerLoop`, the Jira worker runtimes and the runtimes of embedding, knowledge and
  notifications poll until they are told to stop and
  continue after a failed batch, or the process is started again by its supervisor; each await of a
  worker returns, with a result or an exception, because the calls have timeouts.
- Time passes, so a lease nobody renews lapses and a delayed row becomes due. A lease lapses under a
  *working* process only as a bounded disturbance. In Jira these are real: with the default batch of
  10 rows, up to two calls each and a timeout of 10 s per call, a batch may take longer than its
  60 s lease.
- In knowledge and notifications nothing renews a lease at all. Knowledge bounds the lapses under a
  working indexer; notifications do not bound them, nor crashes, because the attempts do.
- Nothing is assumed of editors, removers and providers, of heartbeats, requests, webhooks, users,
  operators, crashes or faults. Crashes and faults are bounded: with unboundedly many, nothing would ever
  end.

Whether the provider ever delivers does not matter to `WorkEnds`: a receipt that does not come
uses up the attempts. Without the fairness of time, `ProcessingEnds` fails at the first crash, as it should.

## Proofs

**The queue.** `LeaseQueueProofs` proves the following of `LeaseQueue!Spec`, for any sets of documents, job ids,
workers and clients and any values of the numeric constants:

| Theorem | States |
|---|---|
| `TypeCorrect` | `Spec => []TypeOK` |
| `NothingLost` | `Spec => []NoJobLost` |
| `IndexNeverDangles` | `Spec => []IndexSound` |
| `FencingTokensUnique` | `Spec => []TokenNamesOneClaim` |
| `LiveLeaseStep` | `Spec => LiveLeaseIsExclusive`, an action property |
| `Refinement` | `Spec => ImplementsFencedQueue` |
| `RedisQueueHandsOver` | `Spec => ScriptsHandOver`: the scripts implement JobHandover; no run checks this one |

The only assumption is `LeaseAssumption` (`None` is no document, job or worker; durations are
numbers; a lease is longer than zero), which the configuration of the queue guarantees and TLC
evaluates in the `lease_queue` run.

*The argument.* None of the properties is inductive with `TypeOK` alone. A half-done removal writes
with an id from an earlier state, and a worker may present any old lease. `Inv` adds what is known
of them:

- `UsedOnce`: ids in keys, leases and half-done removals were generated before, so a new job's id is
  none of them. Without it `Enqueue` could revive an id and old leases would match the new job.
- `RemovalSound`: the job a half-done removal will delete, if it still exists, belongs to the
  document it was looked up for. This keeps `IndexSound`, since the removal deletes that job and
  only that document's index entry.
- `FenceBound`: no lease is ahead of its job's token, so a claim's token is new.
- `JobHasDocument`: an existing job has a document; acknowledge relies on it to clear the index.

One lemma for each action shows that it preserves `Inv`, with a step for each conjunct;
`Invariance` combines them and the theorems follow. `LiveLeaseStep` uses `NoJobLost`: claim decides
on a sorted-set score, and the invariant ties this to the hash. `Refinement` shows for each action
which `FencedQueue` step it is: `Renew` is a stutter or an extension of `held`; `Tick` is `TimePasses`
with the sets of leases and delays that end at this tick; a claim of an expired job is a claim from
`lapsed`. The pipeline, built on `FencedQueue`, therefore runs on what the scripts really provide.
`RedisQueueHandsOver` does the same for JobHandover, where a renewal and a tick are no steps at all.

**Document pipeline.** `DocumentPipelineProofs`, of DocumentPipeline, for any documents, jobs, workers,
clients and number of attempts, any documents accepted before, any allowance of disturbances and any operations,
except where the table says more:

| Theorem | States |
|---|---|
| `PipelineIsTyped` | `Spec => []TypeOK` |
| `OriginalsStay` | `Spec => []RowHasOriginal`, until the answer to an insert is lost |
| `StatusesFollowTheTable` | `Spec => LegalTransitions` |
| `NeverStale` | `Spec => NoStaleCompletion` |
| `FilesFollow` | `Calm => (Spec => []FilesFollowRows)`: no crash and no failing storage call is allowed |
| `WorkIsNeverLost` | `Unqueued => (Spec => []WorkIsRecoverable)`: requests resolve, fail, delete or clean up |

The last two conditions are those under which the properties are true: a worker that dies on its conflict
path leaves derivatives of a purged document, and a request that enqueues loses the race of `upload_race`.
Deletion, crashes, lapsed leases and interrupted removals are all allowed in `WorkIsNeverLost`.

Between two awaits a worker or a request relies on what it read. `PipelineInv` says what is left of that:

- `JobsAreKnown`: a worker has a job that was created, of its document, and a token that the job has
  reached. Jobs are not created twice, so this survives deletion and a second enqueue.
- `OvertakenIsFenced`: a worker about to complete no longer holds the fence in the row if a worker with a
  later token on the same job has begun. It is `NoStaleCompletion` as a statement about states; it is kept
  because beginning writes the fence, and because a job's tokens are given out in order.
- `RequestKnows` and `OneUpload`: the document of a request about to insert its row is absent and has its
  original, one such request at most; a reprocess or delete applies to a status it may start from.
- `RowHasOriginal` itself, which needs the above when an upload that failed deletes its original, and the
  removed status of the row when a cleanup does.

Proving every action against every conjunct would repeat the same few reasons. Instead the module states
what a step may do at most: `QueueKept` for the queue (a job keeps its document, tokens only grow,
a new job has a new id), `WorkerMoves` and `RowsMove` for a worker, `RequestMoves` for a request. Each
action is shown to do no more, and each invariant is shown once per kind of step. `PurgeInv` adds
how far a cleanup has come with each file, and that whoever may still save a removed document's
text or chunks is on its way to the conflict path that deletes them. `WorkInv` adds that the index names
live jobs of its documents, that a job about to be acknowledged belongs to a document that does not
wait, and that jobs are only removed of removed documents.

**Membership.** `OrganizationMembershipProofs`, for any finite set of persons and any founders,
callers, invitations and roles:

| Theorem | States |
|---|---|
| `TypeCorrect` | `Spec => []TypeOK` |
| `LastOwner` | `Spec => LastOwnerStays` |
| `CurrentWhenDecided` | `Spec => DecidesOnCurrent` |
| `FirstOwner` | `Spec => BootstrapsTheFirst` |

`MembershipAssumption` asks that persons are finitely many, that the founders are among them, that
the roles of a run are roles, and that `None` is no person, caller or call record. None of the
properties looks at more than one step, but each depends on what a call read several steps ago. The
invariant says what is left of it:

- `ReadIsPast`: the client's version is at most the one loaded, which is at most the present one, and
  if the last two are equal so are the memberships. Hence an update that matches acts on the
  membership it was decided on (`MatchedIsSeen`).
- `OwnersAsCounted`: from count to update, what was counted still holds, unless somebody rejoined;
  other changes are kept out by the lock, and revoking and inviting do not touch memberships.
- `MembersWereInvited` and `NoOwnerInvited`: every member is a founder or has accepted an invitation,
  and no invitation is for an owner. So an owner who accepts one has rejoined (`AcceptedByOwner`), and
  an acceptance never adds an owner behind the lock.

**Governance.** `PlatformProofs`, of PlatformGovernance, for any finite sets of persons and approvals, any first
owners (at least one) and any callers and administrators:

| Theorem | States |
|---|---|
| `GovernanceIsTyped` | `Spec => []TypeOK` |
| `OwnerStays` | `Spec => []AnOwnerStays` |
| `Once` | `Spec => []ExecutedOnce` |
| `StatusAgrees` | `Spec => []DecisionsAgree` |
| `FinalNeverLeft` | `Spec => FinalStays` |
| `ApprovedVersion` | `Spec => ExecutesWhatWasApproved` |

`GovernanceAssumption` asks for those finite sets and for a `None` that is no caller or call record.
The invariant adds `CallerKnows`: a caller about to decide is not the requester; one that passed the
first check knows the version the request was made for; and the one about to write has an approved
request, the assignment at that version, and, if it removes an owner, another owner besides. The lock
makes this stable: no second caller is about to write, and a claimed approval's row cannot expire.
`Once` counts approvals by target, so its step shows that executing adds exactly one to one set.

**Platform access.** `PlatformProofs`, of PlatformAccess, for any staff, companies, support sessions,
consents, requests and handlers: `PlatformIsTyped` (`PlatformSpec => []PlatformTypeOK`) and
`SupportIsApproved` (`PlatformSpec => SupportActsAsApproved`). `DeskKnows` says what a handler still
knows of what it read step by step: its support session is for the company of its request, and once
the scopes were read they cover the action. That a session's company, actor and scopes and a consent's
target never change is what carries this from the reading to the transaction, where only the version
and the consent's status are compared.

**Knowledge index.** `ServicesProofs`, for any articles, editors, indexers, versions, attempts,
batches and disturbances:

| Theorem | States |
|---|---|
| `KnowledgeIsTyped` | `KnowledgeSpec => []KnowledgeTypeOK` |
| `DoneIsIndexed` | `KnowledgeSpec => []IndexedWhenDone` |
| `DeadIsHidden` | `KnowledgeSpec => []HiddenWhenDead` |

A worker's knowledge of an article is old when it writes. What saves it is that versions only grow:

- `Known`: an event is never about a version its article has not had; `NotAhead`: neither is a row.
- `HandOK`: what a worker has established where it stands. At "remove" its event's article is not one
  readers may see *at that version*; at "vector", if it is, the full-text row is at that version; at
  "complete", both rows are.
- `DoneOK` and `DeadOK`: the two properties, for every event and not only the current one.

`CurrentWas` is the lemma everything rests on: an article that is current for an event after a step was so
before it, so a claim about current articles cannot become false by an edit. `TableRows` shows that no
late upsert or removal touches the row of an article that is current for another event.

**Embedding.** `ServicesProofs`, for any workers, requests, removers, chunks, generations and
allowances: `EmbeddingIsTyped` (`EmbeddingSpec => []EmbeddingTypeOK`) and `AlwaysEmbedded`
(`EmbeddingSpec => []EmbeddedUnlessOvertaken`). The writes of a worker are not fenced, so nothing it
knows is safe from a second one; the invariant says what is true until a worker is overtaken:

- `EmbedderKnows`: a worker that is not idle holds the job, with the token it claimed it under. Two
  workers cannot both do so (`OneEmbedder`), hence nobody else writes.
- `KnowsAt`: what the worker knows where it stands. From the marking of the row on the row is not
  "COMPLETED"; while it embeds, the chunks of its generation that are no longer to do have their vector;
  after `DeleteStale` there are no other vectors.
- `RowIsTrue`: a completed row that says "COMPLETED" has the vectors of the generation it names, or a
  reprocessing has deleted them and is about to reset the row.

Reprocessing, deletion and cleanup either overtake a worker, which ends these promises, or find none.

**AI budget.** `ServicesProofs`, for any finite set of calls, any correlations, estimates, costs and limit:
`BudgetIsTyped` (`BudgetSpec => []BudgetTypeOK`) and `BudgetAlwaysHolds` (`BudgetSpec => []BudgetHolds`).

- `CallHolds`: the key of a call under way is reserved for that call; `RowsMatch`: only a reconciled
  reservation has a row in the ledger. So `KeyIsOwn`: two calls are never under way on one key.
- `OneKeyChanges`: a step at one key keeps the bound if cost plus reservation less excess of that key do
  not grow, which is so for all steps but `Reserve`; or if there was room for the growth, which is what
  `Reserve` has made sure of (`Fits`).

What a sum over all keys does when one summand changes (`TotalChanges`) needs induction over finite sets.
The library's induction theorems have an operator for a parameter, which the provers cannot instantiate; the
lemmas on sums argue by a smallest counterexample instead: the subsets for which a claim fails, if there
are any, have one none of whose proper subsets is among them (`SmallestSubset`, from the library's
`FS_StrictSubsetOrderingWellFounded` and `WFMin`). That the recursive function behind `SumFunction` exists
at all (`SumExists`) is shown in the same way.

**Notifications.** `OutboxProofs`, of NotificationOutbox, for any notifications, workers, attempts and
retries: `NotifyIsTyped` (`NotifySpec => []NotifyTypeOK`) and `OneCopyPerRetry`
(`NotifySpec => []CopiesCostARetry`). A worker may post long after the row is settled, so the invariant
adds `KeyCovers`: as long as anybody may still post, either the provider knows the key or the latest
retry has not been paid out in a copy.

**Jira.** `OutboxProofs`, of JiraSync, for any requests, messages, events and importers, any finite sets
of senders and operators, and any allowance of disturbances:

| Theorem | States |
|---|---|
| `SyncIsTyped` | `Spec => []TypeOK` |
| `ShownAlwaysTrue` | `Spec => []ShownIsTrue` |
| `CopiesAlwaysCost` | `Spec => []CopiesCostALapse` |
| `TimeAlwaysFenced` | `Spec => []JiraTimeFenced` |
| `AlwaysAppliedOnce` | `Spec => []AppliedOnce` |

The assumption also asks that `None` is no operation. The senders and operators are finite because
`CopiesAlwaysCost` counts them. *Outbound* (`CopyInv`): a worker may post long after its lease is gone,
so an account is kept. Every worker that has an operation in hand without a lease that runs
(`StaleHolders`) and every operator between checking a row and changing it (`Pending`) was paid for by a
lapse or a command; whoever is about to post (`Posters`) saw nothing posted; so what is posted, and about
to be, is at most one more than what was spent (`Spent`). *Inbound* (`InInv`): a worker that has read its
event holds it or will find the lease gone, and the number of completed events is the request's
version (`Applied`). The two directions share rows only where one of them compares before it writes, and
the step of each is shown to leave the other's invariant alone.

**Local sign-in.** `IdentityProofs`, of LocalSignIn, for any requests, challenges, tokens, methods,
recovery codes and sessions:

| Theorem | States |
|---|---|
| `SignInIsTyped` | `SignInSpec => []SignInTypeOK` |
| `NoCodeTwice` | `SignInSpec => []CodeAcceptedOnce` |
| `OneSessionPerChallenge` | `SignInSpec => []ChallengeOpensOne` |

The invariant says that an accepted code stays spent (`Spent`: its method's counter has reached it, or it
is gone; `Fresh`: a method that was never active has accepted nothing), and that a challenge on its way
to a session is used up and in one request's hands (`Opening`), as is one that has opened one.

**OIDC.** `IdentityProofs`, of OidcSignIn, for any operators, browsers, authorization requests and
policies:

| Theorem | States |
|---|---|
| `OidcIsTyped` | `OidcSpec => []OidcTypeOK` |
| `OnMeansProven` | `OidcSpec => []EnabledIsProven` |
| `OneSessionPerRequest` | `OidcSpec => []RequestOpensOne` |

`OperatorKnows` and `BrowserKnows` say what is still true of a provider read earlier if its version
matches; `OnePast`, that one callback at most is past the consumption of a request; `Proven`, that the
evidence of the provider is a consumed validation request with the present configuration; and that what
has opened a session serves nobody any more.

**Answers, migration, rollout, backups, file queues.** `LibraryProofs`:

| Theorem | States |
|---|---|
| `AnswersAreTyped`, `AnswersAlwaysGrounded` | `AnswersSpec => []AnswersTypeOK`, `[]AnswersAreGrounded` |
| `MigrationIsTyped`, `MigrationAlwaysFaithful` | `MigrationSpec => []MigrationTypeOK`, `[]MigrationIsFaithful` |
| `ReadinessIsTyped`, `DeployedAlwaysAsChecked` | `ReadinessSpec => []ReadinessTypeOK`, `[]DeployedAsChecked` |
| `BackupsAreTyped`, `BackupsHoldAlways` | `BackupSpec => []BackupTypeOK`, `[]BackupsHold` |
| `LocalQueueIsTyped` | `LocalQueueSpec => []LocalQueueTypeOK` |
| `FileQueueIsSequential` | `OneProcess /\ LocalQueueSpec => LocalQueueIsSequential` |
| `FileQueueAlwaysHandsOver` | `OneProcess /\ LocalQueueSpec => FileQueueHandsOver` |
| `FileQueueAlwaysKeepsPromises` | `OneProcess /\ LocalQueueSpec => FileQueueKeepsPromises`, the two together, which `pipeline_requests` checks |

- *Answers*, for any passages, sources, questions and clerks and any limits. `AskKnows` says of each
  stage what holds of the passages in hand: after ranking all are of sources the person can see
  (`SeesSources`), a citation is only made of a source that was just read as
  readable, and from the citations on nothing is asked of the sources any more, so that changes of
  them do not matter. `ClerkKnows` is the same for requests on the history.
- *Migration*, for any documents, users, edits and runs. `Settled` and `RowsAreSettled`: a row appears
  only when its original is whole, nobody may write that original any more, and its id is not given out
  again. `RunKnows` says what the run has established of the document in hand, by phase, and
  `QuietRunCopies` what it has copied of those dealt with if nothing disturbed it.
- *Rollout*, for any settings, processes, kinds and ages. `BeatIsTrue`: a beat names a process that
  has started with the environment of its generation; `CheckKnows` and `Vouched`: a report that is still
  without failure has seen such a beat for every kind it has dealt with. That what the checks accept
  builds shared services (`AcceptedStarts`) is a statement about all environments, which TLC can only
  sample with two variables edited.
- *Backups*, for any databases, stamps, keys, runs and objects. `DumpKnows` says by phase what a run
  knows of plaintext, archive and manifest unless it shares its stamp; `NamesKept` that no other run
  touches them; `ServedIsUntouched` that rehearsals leave the databases in use alone, so that the content of
  their dumps is what was written to them; `RecordKnows` that what is recorded stays. For objects, `RoundKnows` does the same with the
  listing as it was.
- *File queues*, for any documents, workers, calls and bounds. Of any number of processes: the call that has
  read the file is the first of its process's turns (`TurnsHold`). With `OneProcess`, the deployment
  `docs/DOCUMENT_PROCESSING.md:34` allows, it is the only such call, so its copy is the file (`CopyIsFile`),
  and what it writes is made of the jobs there are (`AppliedIsMade`): each keeps its id and document, its
  token only grows (`TokensGrow`), and a job that is added has an id nobody has seen (`IdsAreFresh`). Two
  processes would lose each other's writes; no claim is made about them but `LocalQueueIsTyped`.
- *File queues and JobHandover*, the same. Every step but a write leaves the file alone, and at most uses up
  an id (`NothingWritten`). A write is one step of the promise because it works on the file as it is
  (`Writes`, from `LocalInv`) and presents a lease that was answered (`PresentedHold`): ids are distinct,
  so the job an operation looks up is the job of the lease (`OwnedIsLast`); a claim changes one place
  of the file, the first it may hand out; and what is filtered out is all that is gone, which needs the
  converse of `KeptAre`, that every kept element has its place (`AllKeptAre`). `LocalQueueIsSequential` does
  not follow from this: JobHandover lets a job be withdrawn, so it would not notice an enqueue that
  another write undoes.

What a filtered list is made of (`AllKeptAre`: the elements at the places kept, in order, and all of them) takes an induction
over its length; as with the sums of the AI budget, `LeastOf` gives the first place where it would fail.

Each of these modules assumes only its `...Assumption`: numeric bounds are numbers of the right kind, sets
that are counted are finite, and `None`, `Nil` or `Nothing` names none of the things it stands in for. The
invariants of Jira, migration and backups were checked by TLC on the configurations of their runs as well.

**Only model-checked**:

- `LibraryTypeOK`, `ServicesTypeOK` and `GovernanceTypeOK` as wholes: each is the conjunction or choice of
  the parts' type invariants, of which those listed above are proved;
- liveness under fairness, which is beyond the prover.

## Abstractions

Common: one tenant (keys and queries carry the tenant or the organization); ids from a finite supply,
each used once; logging, metrics, audit and notification rows are left out.

Documents:
- `transitionStatus` is one step: the conditional update, which fails if it matches no row, or else the
  second read whose result it returns (`document-repositories.ts:1216`). Callers take a missing result for a
  conflict, and the second read misses a row that was deleted since the update. The model lets such a caller
  go on as after a success, and the code as after a conflict; the row is DELETED in both, and the conflict
  paths are those the model takes when the deletion comes first. `resolve`'s pair of reads is one step, too.
- a call of the database or the queue that throws may have been done all the same. The model lets that
  happen where the code compensates for a failure or goes on after it: `Create`, `Enqueue` and `Apply` of a
  request, `Complete` of the worker. Anywhere else it is the step followed by an interruption, or by the
  death of the worker.
- attempts in a queue record move with the fencing token and are not kept a second time.
- extraction is an outcome: success, a permanent error or a transient one. Contents of files do not
  matter, since extraction of the same original gives the same text.
- embedding calls inside requests and after completion are left to the embedding pipeline, which in turn
  sees of the document only what these calls meet.

Embedding:
- one document, with one chunk in each generation for TLC and any chunks in the proofs, one embedding
  model and version, and the PostgreSQL queue; the content hash of a chunk is
  its generation, and the order of batches is any.
- `embedDocument` reads chunks and existing vectors in one step; the assertions after each await stand
  where the next write depends on them.
- `overtaken` is history: it records that a lease was lost under a worker, or a removal met one.

Knowledge:
- a row of an index is the version it was built from; text, tags, visibility and status are copied from
  the article at that version. Redis entries have no reader and only appear as points of failure.
- the name of a worker is its lease token, as in Jira; the gateway's answer is success or an exception.

Notifications:
- preferences, templates and recipients are settled before a row exists. The provider is modelled from
  how `notification-providers.ts` uses it: a key posted again is not sent again while it is known.

Answers:
- scores and lengths are free choices: ranking keeps any selection within its limits, the context limit
  any part of the citations. Texts are not compared, only which generation of which source they are of.
- of a history item only the first `MaxReferences` references are looked at, as resolveKnowledgeSources
  takes `references.slice(0, 6)`.
- prompts, filters and the page's caching are left out; the model's answer may cite anything, and
  `Sanitized` does what the code does with it.

Migration:
- a content is none, a version or torn; of a status only waiting, completed or deleted is kept.
- document ids are not given out twice, as they are random (`issued`). An upload whose row cannot be
  created is a crash that leaves an original belonging to no row.

Rollout:
- an environment maps each variable to the class of its value, and variables that are only asked to be
  well formed are taken together. Rate limiter and cost controller are not among the services:
  managed staging with `NODE_ENV=test` gets local ones.
- document and embedding workers share one Redis key for each kind, so beats of an older generation
  that still runs make readiness come and go; row workers are judged by their latest row alone.
  Heartbeat timers run apart from the work loop, so a beat says that the process lives, not that it works.

Backups:
- pg_dump is a snapshot taken when it starts, written as it goes; pg_restore leaves its target broken
  until it ends well, and for good if it fails.
- objects are listed in the order of their keys. The manifest's etag is that of the listing, so an object
  overwritten meanwhile with the same size is recorded under its old one; a second object backup of the
  same day replaces the first one's copies.
- records carry no time: that the last one is recent (`check-backup-status`) is left out.

AI budget:
- one window, one tenant, and costs as small numbers; the rate limiter and the circuit breaker only
  refuse, before anything is reserved. `Attempt` is at most one retry, as in the gateway. The cost of a call
  is what its last attempt reports. A provider may charge for a first attempt that timed out as well, and
  that is in no reservation and no ledger: `BudgetHolds` bounds what the platform has recorded.

Sign-in:
- the n-th password stands for itself, a TOTP code for its method and counter. Hashing, encryption and
  token secrets are taken for what they are meant to do.
- the identity provider's answer in a callback is valid, or the callback ends there. One person signs in,
  and a provider has one tenant.
- a requirement for a recent sign-in is met or nothing happens.
- the session a browser had may be any session or none. A request that dies between revoking it and
  inserting the new one leaves the browser signed out.

Jira:
- a lease token is drawn for every batch and compared only while that batch lasts, so the batch's
  worker names it. Time is `ripe`: nextAttemptAt, or leaseUntil of a row in PROCESSING, has passed.
  Any batch of claimable rows may be claimed; the order by time is not modelled.
- createRequest and addRequestMessage are single steps: their transactions only insert, guarded by
  unique keys.
- the search for the marker in Jira sees what was created before, but for a comment that is not among the
  first hundred (`jira.ts:317`), which is the disturbance "page". Jira's index of issues may be slower, in
  which case `CopiesCostALapse` would not hold: the property is about the platform's own protocol.
- a commit whose answer is lost equals the completion followed by the death of the worker.
- the permanent codes `TENANT_` and `PAYLOAD_` of failEvent cannot be reached by rows the webhook
  writes and are left out, as are signature checks, ADF projection and the deletion of old events.

Membership and governance:
- a call without MFA, recent authentication or the confirmation of a critical action changes nothing,
  so only calls that have them are modelled. Sessions are resolved when a call begins and are not
  revoked under a running call.
- clients send only versions that the resource has had.
- foreign-key checks lock the organization row in share mode while an invitation is inserted or
  accepted; the model ignores this and allows more interleavings than the database.
- the claim of an approval, the advisory lock and the executor's reads are one step: the claimed row
  is locked until the commit, and who waits for the advisory lock has only that row.
- an approval's ten minutes may be over at any time, so `Expire` has no clock; a handler compares with
  the time at which it started. Checks of what never changes (requester, action, fingerprint) stand
  where they are first made.
- in PlatformGovernance, `Administrator`, the holders of another role that may manage roles, is fixed,
  and the first platform owner exists from the start: `platform-owner-bootstrap.ts` runs once, before
  any approval, and is an action of PlatformAccess, as are changes of other roles.
- in PlatformAccess a decision is one step and so is the transaction that executes, both being fenced by
  status and version; PlatformGovernance has them in detail.

## Plan

Done: the queue, its contract and proofs; the document pipeline; Jira in both directions; embedding,
knowledge index, notifications and AI budget; answers and their history; the development adapters and the
migration from them; environment, rollout and backups; both ways to sign in; membership, governance of
platform owners and support; proofs of all of these.

Next: OIDC, continued: linking and unlinking of identities, where the last login method is counted before
it is deleted.

## Not modelled

- *Governance*: the executors that export audit records, which write a file and no shared state;
  `governance-invariants.ts`, a report of violations of what `AnOwnerStays` and `DecisionsAgree` state.
- *Embedding*: tidying of other model versions; the Redis variant of its queue runs the scripts of
  `LeaseQueue`.
- *AI budget*: rate limiter windows, the circuit breaker and provider adapters, which decide before a
  reservation or outside of it.
- *Sign-in*: e-mail verification, linking and unlinking of external identities, lockout and rate limits,
  the choice of a membership, the organization's MFA policy and everything cryptographic.
- *Answers*: query text, prompts and the numerical side of ranking.
- *Local development adapters*: the in-memory vector store and readiness checks.
- *Staging, production and evidence tooling*: load tests, evidence reports, retention and the age of
  backups, which read and report.
- *Portal pages and API shells*: sequential code without shared state of its own, but for the page that
  asks questions.
