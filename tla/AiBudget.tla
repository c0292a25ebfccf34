------------------------------ MODULE AiBudget ------------------------------
(***************************************************************************)
(* One tenant's AI calls and its budget: DefaultAiGateway (ai-gateway.ts)   *)
(* reserves the estimated cost of a call, calls the provider at most twice, *)
(* and records the usage or releases the reservation;                       *)
(* PostgreSQLAiCostController (ai-control.ts) keeps the reservations and    *)
(* the ledger.  One budget window and one provider are looked at.           *)
(***************************************************************************)
EXTENDS Integers, FiniteSets, FiniteSetsExt

CONSTANTS Call,         \* calls made on the gateway
          Correlation,  \* call |-> request type and correlation id it carries
          BatchKey,     \* call |-> usageIdempotencyKey its caller chose
          Estimate,     \* call |-> cost reserved for it
          Limit,        \* limit of the window, hard stop included
          Usage,        \* costs a provider may report
          Unset

ASSUME BudgetAssumption ==
    /\ IsFiniteSet(Call)
    /\ Estimate \in [Call -> Nat]
    /\ \A b, c \in Call : BatchKey[b] = BatchKey[c] => b = c
    /\ Limit \in Nat \ {0}
    /\ Usage \subseteq Nat

VARIABLES
    reservation,  \* AiBudgetReservation: key |-> row
    ledger,       \* AiUsageLedger: key |-> cost, Unset without a row
    call,         \* call |-> where it is, attempts made, usage reported
    outlived      \* keys whose usage was recorded after their reservation had expired

budgetVars == <<reservation, ledger, call, outlived>>

\* authorize takes the caller's key, but embed and generateRagAnswer do not
\* pass it on, so it falls back on the request type and the correlation id.
UsageKey(c) == Correlation[c]
Key == {UsageKey(c) : c \in Call}

Reservation == [status : {"ABSENT", "RESERVED", "RECONCILED", "FAILED"}, owner : Call \cup {Unset},
                expired : BOOLEAN]

BudgetInit ==
    /\ reservation = [k \in Key |-> [status |-> "ABSENT", owner |-> Unset, expired |-> FALSE]]
    /\ ledger = [k \in Key |-> Unset]
    /\ call = [c \in Call |-> [pc |-> "idle", attempts |-> 0, usage |-> 0]]
    /\ outlived = {}

Reserved(k) == reservation[k].status = "RESERVED" /\ ~ reservation[k].expired

\* What the window has cost, and what calls under way may still cost.
Cost(k) == IF ledger[k] = Unset THEN 0 ELSE ledger[k]
Held(k) == IF Reserved(k) THEN Estimate[reservation[k].owner] ELSE 0
Spent == SumFunction([k \in Key |-> Cost(k)])
Pending == SumFunction([k \in Key |-> Held(k)])

CallGoes(c, pc) == call' = [call EXCEPT ![c].pc = pc]

\* The limiter refuses, or cannot be reached.
RateLimited(c) ==
    /\ call[c].pc = "idle"
    /\ CallGoes(c, "limited")
    /\ UNCHANGED <<reservation, ledger, outlived>>

\* Mutation: reservations of calls still running are not counted.
FitsLedger(c) == Spent + Estimate[c] <= Limit

Fits(c) == Spent + Pending + Estimate[c] <= Limit

\* One transaction under the tenant's advisory lock.
Reserve(c) ==
    LET k == UsageKey(c)
    IN  /\ call[c].pc = "idle"
        /\ IF ~ Fits(c) THEN CallGoes(c, "exhausted") /\ UNCHANGED reservation
           ELSE IF reservation[k].status # "ABSENT"  \* ON CONFLICT DO NOTHING
           THEN CallGoes(c, "conflict") /\ UNCHANGED reservation
           ELSE /\ reservation' = [reservation EXCEPT ![k] =
                      [status |-> "RESERVED", owner |-> c, expired |-> FALSE]]
                /\ CallGoes(c, "provider")
        /\ UNCHANGED <<ledger, outlived>>

\* The provider answers; it fails for good; or the attempt times out or meets a
\* transient failure, and is made once more.  The cost is what the last attempt
\* reports: what a provider charges for one that failed is in no ledger.
Attempt(c) ==
    /\ call[c].pc = "provider"
    /\ \/ \E u \in Usage :
             call' = [call EXCEPT ![c].pc = "record", ![c].usage = u, ![c].attempts = @ + 1]
       \/ call' = [call EXCEPT ![c].pc = "release", ![c].attempts = @ + 1]
       \/ /\ call[c].attempts = 0
          /\ call' = [call EXCEPT ![c].attempts = 1]
    /\ UNCHANGED <<reservation, ledger, outlived>>

\* Ledger row and reservation in one statement.  Not held under the lock.
Reconcile(c) ==
    LET k == UsageKey(c)
    IN  /\ call[c].pc = "record"
        /\ ledger' = IF ledger[k] = Unset THEN [ledger EXCEPT ![k] = call[c].usage] ELSE ledger
        /\ reservation' = IF reservation[k].status = "RESERVED" /\ reservation[k].owner = c
                          THEN [reservation EXCEPT ![k].status = "RECONCILED"] ELSE reservation
        /\ outlived' = IF reservation[k].expired THEN outlived \cup {k} ELSE outlived
        /\ CallGoes(c, "done")

\* The result does not fit the request, or recording it throws.
NotRecorded(c) ==
    /\ call[c].pc = "record"
    /\ CallGoes(c, "release")
    /\ UNCHANGED <<reservation, ledger, outlived>>

Release(c) ==
    LET k == UsageKey(c)
    IN  /\ call[c].pc = "release"
        /\ reservation' = IF reservation[k].status = "RESERVED" /\ reservation[k].owner = c
                          THEN [reservation EXCEPT ![k].status = "FAILED"] ELSE reservation
        /\ CallGoes(c, "failed")
        /\ UNCHANGED <<ledger, outlived>>

\* The process dies, or the release throws: the reservation stays.
Abandon(c) ==
    /\ call[c].pc \in {"provider", "record", "release"}
    /\ CallGoes(c, "failed")
    /\ UNCHANGED <<reservation, ledger, outlived>>

\* reservationTtlMs passes, whether or not the call has ended.
Expire(k) ==
    /\ Reserved(k)
    /\ reservation' = [reservation EXCEPT ![k].expired = TRUE]
    /\ UNCHANGED <<ledger, call, outlived>>

BudgetNext ==
    \/ \E c \in Call :
          \/ RateLimited(c) \/ Reserve(c) \/ Attempt(c) \/ Reconcile(c)
          \/ NotRecorded(c) \/ Release(c) \/ Abandon(c)
    \/ \E k \in Key : Expire(k)

BudgetSpec == BudgetInit /\ [][BudgetNext]_budgetVars

-----------------------------------------------------------------------------
\* State keeps its shape.
BudgetTypeOK ==
    /\ reservation \in [Key -> Reservation]
    /\ ledger \in [Key -> Usage \cup {Unset}]
    /\ call \in [Call -> [pc : {"idle", "limited", "exhausted", "conflict", "provider", "record",
                                "release", "done", "failed"},
                          attempts : 0..2, usage : Usage \cup {0}]]
    /\ outlived \in SUBSET Key

\* How far a recorded cost may carry the window over its limit.
Excess(k) ==
    IF ledger[k] = Unset THEN 0
    ELSE IF k \in outlived THEN ledger[k]
    ELSE Max({0, ledger[k] - Estimate[reservation[k].owner]})

\* Concurrent calls never overspend: what is spent, as far as the gateway is told,
\* and reserved exceeds the limit only by costs above their estimate and by calls
\* that took longer than their reservation lasts.
BudgetHolds == Spent + Pending <= Limit + SumFunction([k \in Key |-> Excess(k)])

\* Every batch reserves under a key of its own, so a batch is turned away only
\* when the budget is used up.
RefusedOnlyWhenExhausted == \A c \in Call : call[c].pc # "conflict"
=============================================================================
