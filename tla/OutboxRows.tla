----------------------------- MODULE OutboxRows -----------------------------
(***************************************************************************)
(* The queues kept in tables, JiraOperation, JiraInboundEvent and           *)
(* NotificationOutbox, share one protocol: claim a batch of rows under a   *)
(* random lease token, work on them, and end each by an update that        *)
(* requires status PROCESSING and the same token.  This module has what    *)
(* the three have in common, as operators on rows.                         *)
(*                                                                         *)
(* Time appears only as ripe: nextAttemptAt, or leaseUntil while a row is  *)
(* PROCESSING, has passed.  A lease token is drawn anew for every batch    *)
(* and compared only while that batch lasts, so its worker can name it.    *)
(***************************************************************************)
EXTENDS Integers, FiniteSets

CONSTANTS MaxAttempts,  \* maxAttempts of every row
          BatchSize,    \* rows one claim takes at most
          None

ASSUME OutboxAssumption ==
    /\ MaxAttempts \in Nat \ {0}
    /\ BatchSize \in Nat \ {0}

RowStatus == {"ABSENT", "PENDING", "PROCESSING", "COMPLETED", "IGNORED", "FAILED",
              "DEAD_LETTER"}

Settled == {"COMPLETED", "IGNORED", "DEAD_LETTER"}

Row(W) == [status : RowStatus,
           attempts : 0..MaxAttempts,
           ripe : BOOLEAN,
           lease : W \cup {None}]  \* leaseToken

NoRow == [status |-> "ABSENT", attempts |-> 0, ripe |-> FALSE, lease |-> None]
PendingRow == [NoRow EXCEPT !.status = "PENDING", !.ripe = TRUE]

\* A lease that ran out after the last attempt: the claim buries the row.
Exhausted(row) == row.status = "PROCESSING" /\ row.ripe /\ row.attempts >= MaxAttempts

\* Mutation: the claim selects on status alone.
ClaimableAnytime(row) == row.status \in {"PENDING", "FAILED", "PROCESSING"}

\* Mutation: rows left behind by a worker that died are not selected.
ClaimableUnclaimed(row) ==
    row.attempts < MaxAttempts /\ row.status \in {"PENDING", "FAILED"} /\ row.ripe

Claimable(row) ==
    /\ row.attempts < MaxAttempts
    /\ row.status \in {"PENDING", "FAILED", "PROCESSING"}
    /\ row.ripe

\* What one claim may take: as many claimable rows as there are, up to BatchSize.
Batches(rows) ==
    LET ripe == {k \in DOMAIN rows : Claimable(rows[k])}
    IN  {S \in SUBSET ripe : \/ Cardinality(S) = BatchSize
                             \/ S = ripe /\ Cardinality(S) < BatchSize}

Ended(row, status) ==
    [row EXCEPT !.status = status, !.lease = None, !.ripe = FALSE]

Claimed(row, w) ==
    [status |-> "PROCESSING", attempts |-> row.attempts + 1, ripe |-> FALSE, lease |-> w]

AfterClaim(rows, w, S) ==
    [k \in DOMAIN rows |->
        IF Exhausted(rows[k]) THEN Ended(rows[k], "DEAD_LETTER")
        ELSE IF k \in S THEN Claimed(rows[k], w)
        ELSE rows[k]]

\* The condition of every update that ends a row: PROCESSING under this lease,
\* whether or not the lease has run out in the meantime.
Owned(row, w) == row.status = "PROCESSING" /\ row.lease = w

\* A failed attempt: back off, or give up.
Failed(row, permanent) ==
    Ended(row, IF permanent \/ row.attempts >= MaxAttempts THEN "DEAD_LETTER" ELSE "FAILED")

\* nextAttemptAt or leaseUntil is in the future.
Waiting(row) == row.status \in {"FAILED", "PROCESSING"} /\ ~ row.ripe
Ripened(row) == [row EXCEPT !.ripe = TRUE]
=============================================================================
