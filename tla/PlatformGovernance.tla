------------------------- MODULE PlatformGovernance -------------------------
(***************************************************************************)
(* Controlled approvals (governance-approvals.ts) and the action they are  *)
(* most needed for, assigning and removing platform owners                 *)
(* (executePlatformOwnerChange).                                           *)
(*                                                                         *)
(* A request handler (Caller) works at READ COMMITTED: what it read of an  *)
(* approval or an assignment may be old when it updates the row, so every  *)
(* transaction is a reading and a writing step.  The executor's writes are *)
(* under an advisory lock.  A handler may fail anywhere and roll back.     *)
(*                                                                         *)
(* Not modelled: MFA, recent authentication and confirmation phrases       *)
(* (calls without them change nothing), tenant scopes, the fingerprint of  *)
(* fields that nothing ever changes, audit, notifications, sessions, and   *)
(* the bootstrap of the first owner, which happens once, before.           *)
(***************************************************************************)
EXTENDS Integers, FiniteSets

CONSTANTS Person,         \* active users
          FirstOwner,     \* the platform owners we start with
          Administrator,  \* holders of another role with platform.roles.manage
          Caller,         \* request handlers
          Approval,       \* ids of approval requests
          None

VARIABLES
    owner,     \* person |-> the PLATFORM_OWNER assignment
    approval,  \* id |-> the approval request with its decisions
    call,      \* caller |-> where it is and what it has read
    lock       \* the caller that holds advisory lock 12012026

vars == <<owner, approval, call, lock>>

Assignment == [active : BOOLEAN, version : Nat]  \* version 0: no row

Status == {"NONE", "REQUESTED", "APPROVED", "REJECTED", "EXPIRED", "CANCELLED", "EXECUTED"}
Final == {"REJECTED", "EXPIRED", "CANCELLED", "EXECUTED"}

ApprovalState == [status : Status, action : {"ASSIGN", "REMOVE"}, target : Person,
                  requester : Person, version : Nat,
                  approvers : SUBSET Person, rejecters : SUBSET Person]
                 \cup {[status |-> "NONE"]}

CallRecord ==
    [pc : {"decide"}, id : Approval, actor : Person, approved : BOOLEAN,
     seen : SUBSET Person]      \* the approvals it has read
    \cup [pc : {"read", "lock", "write"}, id : Approval,
          version : Nat]        \* currentVersion, read at the start

CallState == CallRecord \cup {None}

ASSUME GovernanceAssumption ==
    /\ IsFiniteSet(Person) /\ IsFiniteSet(Approval)
    /\ FirstOwner \subseteq Person /\ FirstOwner # {}
    /\ Administrator \subseteq Person
    /\ None \notin Caller \cup CallRecord

MinimumApprovals == 1  \* in every policy of the registry

Owners == {p \in Person : owner[p].active}
MayManageRoles(p) == owner[p].active \/ p \in Administrator
Exists(a) == approval[a].status # "NONE"
At(c, pc) == call[c] # None /\ call[c].pc = pc

Init ==
    /\ owner = [p \in Person |-> IF p \in FirstOwner THEN [active |-> TRUE, version |-> 1]
                                 ELSE [active |-> FALSE, version |-> 0]]
    /\ approval = [a \in Approval |-> [status |-> "NONE"]]
    /\ call = [c \in Caller |-> None]
    /\ lock = None

-----------------------------------------------------------------------------
(* Requesting, deciding, cancelling and expiring. *)

\* POST approvals: the target's version is read, and may be old when the
\* request is inserted.
RequestApproval(a, p, action, t, v) ==
    /\ ~ Exists(a)
    /\ MayManageRoles(p)
    /\ v <= owner[t].version
    /\ approval' = [approval EXCEPT ![a] =
          [status |-> "REQUESTED", action |-> action, target |-> t, requester |-> p,
           version |-> v, approvers |-> {}, rejecters |-> {}]]
    /\ UNCHANGED <<owner, call, lock>>

\* Mutation: no look at who asked.
MayDecideOwn(a, p) == TRUE

MayDecide(a, p) == approval[a].requester # p

\* decideGovernanceApproval, up to its first write; expiresAt is compared with
\* the time the handler started.
ReadToDecide(c, a, p, approved) ==
    /\ call[c] = None
    /\ MayManageRoles(p)
    /\ approval[a].status = "REQUESTED"
    /\ MayDecide(a, p)
    /\ call' = [call EXCEPT ![c] = [pc |-> "decide", id |-> a, actor |-> p,
                                    approved |-> approved, seen |-> approval[a].approvers]]
    /\ UNCHANGED <<owner, approval, lock>>

StillRequested(a) == approval[a].status = "REQUESTED"

Verdict(k) ==
    IF ~ k.approved THEN "REJECTED"
    ELSE IF Cardinality(k.seen) + 1 >= MinimumApprovals THEN "APPROVED" ELSE "REQUESTED"

\* Its writes: the decision, unique for request and approver, and the status.
Decide(c) ==
    /\ At(c, "decide")
    /\ LET k == call[c]
           r == approval[k.id]
       IN  IF StillRequested(k.id) /\ k.actor \notin r.approvers \cup r.rejecters
           THEN approval' = [approval EXCEPT ![k.id] =
                  [r EXCEPT !.status = Verdict(k),
                            !.approvers = IF k.approved THEN @ \cup {k.actor} ELSE @,
                            !.rejecters = IF k.approved THEN @ ELSE @ \cup {k.actor}]]
           ELSE UNCHANGED approval
    /\ call' = [call EXCEPT ![c] = None]
    /\ UNCHANGED <<owner, lock>>

\* cancelGovernanceApproval, by its requester.
Cancel(a) ==
    /\ approval[a].status = "REQUESTED"
    /\ approval' = [approval EXCEPT ![a].status = "CANCELLED"]
    /\ UNCHANGED <<owner, call, lock>>

\* expireStaleGovernanceApprovals, and the two calls that find a request stale;
\* its ten minutes may be over at any time.  The row of an approval being executed is locked.
Expire(a) ==
    /\ approval[a].status \in {"REQUESTED", "APPROVED"}
    /\ ~ \E c \in Caller : At(c, "write") /\ call[c].id = a
    /\ approval' = [approval EXCEPT ![a].status = "EXPIRED"]
    /\ UNCHANGED <<owner, call, lock>>

-----------------------------------------------------------------------------
(* Executing: executePlatformOwnerChange. *)

\* The assignment's version is read before executeGovernanceApproval is called,
\* which admits only the requester.
StartExecution(c, a) ==
    /\ call[c] = None
    /\ Exists(a)
    /\ MayManageRoles(approval[a].requester)
    /\ call' = [call EXCEPT ![c] = [pc |-> "read", id |-> a,
                                    version |-> owner[approval[a].target].version]]
    /\ UNCHANGED <<owner, approval, lock>>

\* The transaction reads the request and checks it.
ReadToExecute(c) ==
    /\ At(c, "read")
    /\ LET k == call[c]
           r == approval[k.id]
       IN  IF /\ r.status = "APPROVED"
              /\ Cardinality(r.approvers \ {r.requester}) >= MinimumApprovals
              /\ r.version = k.version
           THEN call' = [call EXCEPT ![c].pc = "lock"]
           ELSE call' = [call EXCEPT ![c] = None]
    /\ UNCHANGED <<owner, approval, lock>>

Claimable(a) == approval[a].status = "APPROVED"

\* Mutation: the version is not read again under the lock.
SameVersionAsBefore(k) == TRUE

SameVersion(k) == owner[approval[k.id].target].version = k.version

\* LAST_PLATFORM_OWNER_PROTECTED.
OwnerWouldRemain(r) ==
    r.action = "REMOVE" => Cardinality(Owners) > 1 /\ owner[r.target].active

Lock(c, free) ==
    /\ At(c, "lock")
    /\ free
    /\ LET k == call[c]
       IN  IF Claimable(k.id) /\ SameVersion(k) /\ OwnerWouldRemain(approval[k.id])
           THEN call' = [call EXCEPT ![c].pc = "write"] /\ lock' = c
           ELSE call' = [call EXCEPT ![c] = None] /\ UNCHANGED lock
    /\ UNCHANGED <<owner, approval>>

\* Mutation: the executor does not take the advisory lock.
ClaimUnlocked(c) ==
    Lock(c, \A d \in Caller : At(d, "write") => call[d].id # call[c].id)

\* The claim of the approval, which locks its row, then the advisory lock, then
\* the executor's reads.
ClaimAndLock(c) == Lock(c, lock = None)

\* Mutation: the version of the assignment is not incremented.
ExecuteKeepingVersion(c) ==
    /\ At(c, "write")
    /\ LET r == approval[call[c].id]
       IN  /\ owner' = [owner EXCEPT ![r.target].active = r.action = "ASSIGN"]
           /\ approval' = [approval EXCEPT ![call[c].id].status = "EXECUTED"]
    /\ call' = [call EXCEPT ![c] = None]
    /\ lock' = None

\* The executor's write and the commit.
Execute(c) ==
    /\ At(c, "write")
    /\ LET r == approval[call[c].id]
       IN  /\ owner' = [owner EXCEPT ![r.target] =
                          [active |-> r.action = "ASSIGN", version |-> @.version + 1]]
           /\ approval' = [approval EXCEPT ![call[c].id].status = "EXECUTED"]
    /\ call' = [call EXCEPT ![c] = None]
    /\ lock' = None

\* A handler throws or dies; its transaction is rolled back.
Abort(c) ==
    /\ call[c] # None
    /\ call' = [call EXCEPT ![c] = None]
    /\ lock' = IF lock = c THEN None ELSE lock
    /\ UNCHANGED <<owner, approval>>

-----------------------------------------------------------------------------
ApprovalNext(a) ==
    \/ \E p, t \in Person, action \in {"ASSIGN", "REMOVE"} :
          \E v \in 0..owner[t].version : RequestApproval(a, p, action, t, v)
    \/ Cancel(a)
    \/ Expire(a)

CallerNext(c) ==
    \/ \E a \in Approval, p \in Person, approved \in BOOLEAN : ReadToDecide(c, a, p, approved)
    \/ Decide(c)
    \/ \E a \in Approval : StartExecution(c, a)
    \/ ReadToExecute(c)
    \/ ClaimAndLock(c)
    \/ Execute(c)
    \/ Abort(c)

Next == (\E a \in Approval : ApprovalNext(a)) \/ (\E c \in Caller : CallerNext(c))

Spec == Init /\ [][Next]_vars

-----------------------------------------------------------------------------
\* Every variable holds a value the code could have put there; the advisory
\* lock is held by the transaction that is about to write.
TypeOK ==
    /\ owner \in [Person -> Assignment]
    /\ approval \in [Approval -> ApprovalState]
    /\ call \in [Caller -> CallState]
    /\ lock \in Caller \cup {None}
    /\ \A c \in Caller : lock = c <=> At(c, "write")

\* docs/PLATFORM_GOVERNANCE.md "protects the last active owner": two approved
\* removals executed at once cannot remove the last two owners.
AnOwnerStays == Owners # {}

Granted(a) == approval[a].status = "EXECUTED"

\* docs/APPROVAL_WORKFLOW.md "a replay/concurrent call cannot repeat the side
\* effect": an assignment has changed once for each executed approval of it.
ExecutedOnce ==
    \A p \in Person :
        owner[p].version = (IF p \in FirstOwner THEN 1 ELSE 0)
                           + Cardinality({a \in Approval : Granted(a) /\ approval[a].target = p})

\* docs/APPROVAL_WORKFLOW.md "The requester cannot approve": the status agrees
\* with the decisions kept, though approvers decide at once: approved and
\* executed requests were approved by another person and rejected by nobody.
DecisionsAgree ==
    \A a \in Approval : Exists(a) =>
        /\ approval[a].requester \notin approval[a].approvers
        /\ approval[a].status \in {"APPROVED", "EXECUTED"}
             => approval[a].approvers # {} /\ approval[a].rejecters = {}
        /\ approval[a].status = "REJECTED" <=> approval[a].rejecters # {}

\* docs/PLATFORM_GOVERNANCE.md "Expired, rejected, cancelled and executed
\* approvals cannot be replayed": they never change again.
FinalStays ==
    [][\A a \in Approval :
         approval[a].status \in Final => approval'[a].status = approval[a].status]_vars

\* docs/APPROVAL_WORKFLOW.md "Execution rechecks ... resource version": what is
\* executed is what was approved; the owner assignment has not been changed by
\* anybody between the request and the commit.
ExecutesWhatWasApproved ==
    [][\A a \in Approval :
         ~ Granted(a) /\ Granted(a)' => owner[approval[a].target].version = approval[a].version]_vars
=============================================================================
