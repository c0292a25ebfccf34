CONSTANTS
    Document = {d1}
    JobId = {j1, j2, j3}
    Worker = {w1}
    Client = {c1, c2}
    None = None
    MaxAttempts = 1
    Allowance <- Busy
    Operations <- AllOperations
    QueuedDocument = {o1, o2}
    LocalWorker = {v1}
    NoOne = NoOne
    Caller = {"c1", "c2"}
    HomeOf <- Homes
    LeaseTicks = 1
    LastTick = 1
    MaxFence = 2
    MaxJobs = 2
    Passage = {"p1", "p2", "p3", "p4"}
    SourceOf <- Sources
    ArticleSource = {"a"}
    ForeignSource = {"f"}
    Question = {"q0", "q1"}
    Clerk = {h1}
    Nothing = Nothing
    TopK = 2
    MaxPerSource = 1
    HistorySize = 2
    MaxReferences = 1
    MaxUpheavals = 3
    Paper = {"n1", "n2"}
    OldPaper = {"n1"}
    OldStatus <- Old
    Writer = {"u1"}
    MaxEdits = 2
    MaxRuns = 2
    Settings <- Environments
    Deployable = {"managed", "laptop"}
    WorkerProcess = {"d1", "d2", "k1"}
    KindOf <- Kinds
    CriticalOrder <- Critical
    RowOrder <- Rows
    JiraKind = {"jira"}
    AgeLimit = 0
    Skew = 0
    LastHour = 1
    MaxDeployments = 2
    MaxEdited = 2
    Database = {"live", "live_restore_rehearsal"}
    Rehearsal = {"live_restore_rehearsal"}
    Stamp = {"t1", "t2"}
    SecretKey = {1, 2}
    Backup = {"r1", "r2"}
    ObjectBackup = {1, 2}
    LastObject = 2
    SizeOf <- Sizes
    MaxWrites = 1
    MaxPuts = 3
SPECIFICATION LibrarySpec
INVARIANTS LibraryTypeOK FilesFollowRows AnswersAreGrounded MigrationIsFaithful DeployedAsChecked BackupsHold
PROPERTIES LegalTransitions FileQueueKeepsPromises
CHECK_DEADLOCK FALSE
