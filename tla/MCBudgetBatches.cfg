CONSTANTS
    None = None
    Embedder = {b1, b2}
    Enqueuer = {q1}
    Remover = {r1}
    Nobody = Nobody
    Chunk = {"k1", "k2"}
    ChunksOf <- Generations
    EmbeddingAttempts = 2
    MaxRequests = 1
    MaxMishaps = 1
    Unset = Unset
    MaxAttempts = 2
    BatchSize = 2
    Article = {a1}
    Indexer = {x1, x2}
    Editor = {e1}
    Lifecycle = {"PUBLISHED", "ARCHIVED"}
    Audience = {"PUBLIC"}
    MaxVersion = 2
    Disturbances = 1
    Notification = {n1}
    Notifier = {w1, w2}
    MaxRetries = 1
    c1 = c1
    c2 = c2
    c3 = c3
    Call = {c1, c2, c3}
    Correlation <- OneDocument
    BatchKey <- OwnKey
    Estimate <- Costs
    Limit = 2
    Usage = {0, 1, 2}
SPECIFICATION Spec
INVARIANT RefusedOnlyWhenExhausted
CHECK_DEADLOCK FALSE
