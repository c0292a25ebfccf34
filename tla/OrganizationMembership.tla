----------------------- MODULE OrganizationMembership -----------------------
(***************************************************************************)
(* Who belongs to an organization and in which role (team.ts): role and    *)
(* status changes, the bootstrap of the first owner, and invitations.      *)
(*                                                                         *)
(* One organization.  A request handler (Caller) reads the session, then   *)
(* the membership, then runs its transaction, which locks the organization *)
(* row, counts the owners, and updates the membership if it still has the  *)
(* version the client saw.  Transactions run at READ COMMITTED, so each of *)
(* these is a step.  Invitations do not take the lock.                     *)
(*                                                                         *)
(* Not modelled: MFA, recent authentication and confirmation of critical   *)
(* actions (calls without them change nothing), sessions, audit.           *)
(***************************************************************************)
EXTENDS Integers, FiniteSets

CONSTANTS Person,
          Founder,     \* the members we start with
          Caller,      \* request handlers
          Invitation,  \* the supply of invitation tokens
          Role,        \* the roles that are asked for in a run
          None,
          MaxCalls     \* bound: changes and invitations asked for in a run

AllRoles == {"OWNER", "ADMIN", "MANAGER", "MEMBER", "VIEWER"}

VARIABLES
    membership,  \* person |-> role, status and version
    invitation,  \* token |-> state, for whom and as what
    lock,        \* the caller whose transaction holds the organization row
    call,        \* caller |-> where it is and what it has read
    calls        \* changes and invitations asked for so far

vars == <<membership, invitation, lock, call, calls>>

MembershipState == [status : {"NONE", "ACTIVE", "SUSPENDED", "REMOVED"},
                    role : AllRoles, version : Nat]
NoMembership == [status |-> "NONE", role |-> "VIEWER", version |-> 0]
NewMembership(role) == [status |-> "ACTIVE", role |-> role, version |-> 1]

InvitationState == [state : {"UNUSED", "PENDING", "ACCEPTED", "REVOKED"},
                    person : Person \cup {None}, role : AllRoles]
NoInvitation == [state |-> "UNUSED", person |-> None, role |-> "VIEWER"]

Change == [kind : {"role"}, to : AllRoles]
          \cup [kind : {"status"}, to : {"ACTIVE", "SUSPENDED", "REMOVED"}]
          \cup [kind : {"bootstrap"}, to : {"OWNER"}]

ChangeCall == [pc : {"load", "lock", "update"}, change : Change, target : Person,
               self : BOOLEAN,          \* the actor is the target
               actorRole : AllRoles,    \* as the session said
               expected : Nat,          \* expectedVersion
               seen : MembershipState]  \* as loadMembershipForChange returned it
InviteCall == [pc : {"invite"}, target : Person, to : AllRoles, revoking : SUBSET Invitation]
AcceptCall == [pc : {"accept"}, invitation : Invitation]
CallRecord == ChangeCall \cup InviteCall \cup AcceptCall

ASSUME MembershipAssumption ==
    /\ Founder \subseteq Person /\ IsFiniteSet(Person)
    /\ Role \subseteq AllRoles
    /\ None \notin Caller \cup Person \cup CallRecord
    /\ MaxCalls \in Nat

Active(p) == membership[p].status = "ACTIVE"
Owners == {p \in Person : Active(p) /\ membership[p].role = "OWNER"}

\* ROLE_PERMISSIONS, as far as they are about members.
MemberPermissions(role) ==
    IF role \in {"OWNER", "ADMIN", "MANAGER"}
    THEN {"members.invite", "members.role.manage", "members.remove"} ELSE {}

\* evaluateOrganizationPermission, for a session of the organization.
HasPermission(p, permission) ==
    Active(p) /\ permission \in MemberPermissions(membership[p].role)

\* What a role may give to others.
Assignable(role) ==
    CASE role = "OWNER" -> AllRoles
      [] role = "ADMIN" -> AllRoles \ {"OWNER"}
      [] role = "MANAGER" -> {"MEMBER", "VIEWER"}
      [] OTHER -> {}

Rank == [r \in AllRoles |->
           CASE r = "OWNER" -> 5 [] r = "ADMIN" -> 4 [] r = "MANAGER" -> 3
             [] r = "MEMBER" -> 2 [] OTHER -> 1]

\* Founders have been invited before, or the organization was set up with them.
Init ==
    /\ \E f \in [Founder -> Role] :
          membership = [p \in Person |-> IF p \in Founder THEN NewMembership(f[p])
                                         ELSE NoMembership]
    /\ invitation = [i \in Invitation |-> NoInvitation]
    /\ lock = None
    /\ call = [c \in Caller |-> None]
    /\ calls = 0

-----------------------------------------------------------------------------
(* Role and status changes, and the bootstrap of the first owner. *)

\* The route: the session is resolved, and the client sends the version it saw.
Authorize(c, p, q, change, v) ==
    /\ call[c] = None /\ calls < MaxCalls
    /\ HasPermission(p, "members.role.manage")
    /\ change.kind = "status" => HasPermission(p, "members.remove")
    /\ v <= membership[q].version
    /\ change.kind = "bootstrap" => p = q /\ membership[p].role = "ADMIN"
    /\ call' = [call EXCEPT ![c] =
          [pc |-> IF change.kind = "bootstrap" THEN "lock" ELSE "load",
           change |-> change, target |-> q, self |-> p = q,
           actorRole |-> membership[p].role, expected |-> v, seen |-> NoMembership]]
    /\ calls' = calls + 1
    /\ UNCHANGED <<membership, invitation, lock>>

\* canManageMembership, and the ban on changing one's own status.
MayManage(k, role) ==
    /\ ~ k.self \/ k.change.to = "ACTIVE"
    /\ \/ k.actorRole = "OWNER"
       \/ k.actorRole = "ADMIN" /\ role # "OWNER"
       \/ k.actorRole = "MANAGER" /\ role \in {"MEMBER", "VIEWER"}

\* loadMembershipForChange, before the transaction.
Load(c) ==
    /\ call[c] # None /\ call[c].pc = "load"
    /\ LET m == membership[call[c].target]
       IN  IF /\ m.status \notin {"NONE", "REMOVED"}
              /\ call[c].change.kind = "status" => MayManage(call[c], m.role)
           THEN call' = [call EXCEPT ![c].pc = "lock", ![c].seen = m]
           ELSE call' = [call EXCEPT ![c] = None]
    /\ UNCHANGED <<membership, invitation, lock, calls>>

\* bootstrapFirstOrganizationOwner, of what it finds under the lock.
NoOwnerYet == Owners = {}

\* The decision taken under the lock, on the role read before it.
KeepsAnOwner(k) == k.seen.role = "OWNER" => Cardinality(Owners) > 1

Allowed(k) ==
    CASE k.change.kind = "role" ->
             /\ k.self => Rank[k.change.to] <= Rank[k.seen.role]
             /\ k.change.to # "OWNER" => KeepsAnOwner(k)
             /\ k.change.to \in Assignable(k.actorRole)
      [] k.change.kind = "status" -> k.change.to # "ACTIVE" => KeepsAnOwner(k)
      [] OTHER -> NoOwnerYet

\* Mutation: the transaction does not wait for the organization row.
LockFreely(c) ==
    /\ call[c] # None /\ call[c].pc = "lock"
    /\ IF Allowed(call[c]) THEN call' = [call EXCEPT ![c].pc = "update"] /\ lock' = c
                           ELSE call' = [call EXCEPT ![c] = None] /\ UNCHANGED lock
    /\ UNCHANGED <<membership, invitation, calls>>

\* lockOrganizationGovernance and the count of active owners.
Lock(c) ==
    /\ call[c] # None /\ call[c].pc = "lock"
    /\ lock = None
    /\ IF Allowed(call[c]) THEN call' = [call EXCEPT ![c].pc = "update"] /\ lock' = c
                           ELSE call' = [call EXCEPT ![c] = None] /\ UNCHANGED lock
    /\ UNCHANGED <<membership, invitation, calls>>

\* Mutation: the where clause without the version.
MatchesAnyVersion(k) == k.change.kind # "status" => Active(k.target)

\* The where clause of the update.
Matches(k) ==
    /\ membership[k.target].version = k.expected
    /\ k.change.kind # "status" => Active(k.target)
    /\ k.change.kind = "bootstrap" => membership[k.target].role = "ADMIN"

\* The update and the commit, or the exception and the rollback.
Update(c) ==
    /\ call[c] # None /\ call[c].pc = "update"
    /\ LET k == call[c]
       IN  IF Matches(k)
           THEN membership' = [membership EXCEPT ![k.target] =
                    [status |-> IF k.change.kind = "status" THEN k.change.to ELSE @.status,
                     role |-> IF k.change.kind = "status" THEN @.role ELSE k.change.to,
                     version |-> @.version + 1]]
           ELSE UNCHANGED membership
    /\ call' = [call EXCEPT ![c] = None]
    /\ lock' = None
    /\ UNCHANGED <<invitation, calls>>

-----------------------------------------------------------------------------
(* Invitations. *)

\* inviteCompanyMember: nobody with a membership of any status is invited;
\* pending invitations for the same address, as they are visible, are revoked.
InviteCheck(c, p, q, role) ==
    /\ call[c] = None /\ calls < MaxCalls
    /\ HasPermission(p, "members.invite") /\ role \in Assignable(membership[p].role) \ {"OWNER"}
    /\ membership[q].status = "NONE"
    /\ call' = [call EXCEPT ![c] =
          [pc |-> "invite", target |-> q, to |-> role,
           revoking |-> {i \in Invitation : /\ invitation[i].state = "PENDING"
                                            /\ invitation[i].person = q}]]
    /\ calls' = calls + 1
    /\ UNCHANGED <<membership, invitation, lock>>

Invite(c) ==
    /\ call[c] # None /\ call[c].pc = "invite"
    /\ \E i \in Invitation :
          /\ invitation[i].state = "UNUSED"
          /\ invitation' = [j \in Invitation |->
                IF j = i THEN [state |-> "PENDING", person |-> call[c].target,
                               role |-> call[c].to]
                ELSE IF j \in call[c].revoking /\ invitation[j].state = "PENDING"
                     THEN [invitation[j] EXCEPT !.state = "REVOKED"]
                     ELSE invitation[j]]
    /\ call' = [call EXCEPT ![c] = None]
    /\ UNCHANGED <<membership, lock, calls>>

\* revokeCompanyInvitation; an invitation that has expired is as good as revoked.
Revoke(i) ==
    /\ invitation[i].state = "PENDING"
    /\ invitation' = [invitation EXCEPT ![i].state = "REVOKED"]
    /\ UNCHANGED <<membership, lock, call, calls>>

\* acceptCompanyInvitation reads the invitation and the user's membership.
AcceptCheck(c, i) ==
    /\ call[c] = None
    /\ invitation[i].state = "PENDING"
    /\ membership[invitation[i].person].status \in {"NONE", "ACTIVE"}
    /\ call' = [call EXCEPT ![c] = [pc |-> "accept", invitation |-> i]]
    /\ UNCHANGED <<membership, invitation, lock, calls>>

\* Its transaction: accept if still pending, then insert or overwrite.
Accept(c) ==
    /\ call[c] # None /\ call[c].pc = "accept"
    /\ LET i == call[c].invitation
           p == invitation[i].person
       IN  IF invitation[i].state = "PENDING"
           THEN /\ invitation' = [invitation EXCEPT ![i].state = "ACCEPTED"]
                /\ membership' = [membership EXCEPT ![p] =
                       [NewMembership(invitation[i].role) EXCEPT
                            !.version = membership[p].version + 1]]
           ELSE UNCHANGED <<membership, invitation>>
    /\ call' = [call EXCEPT ![c] = None]
    /\ UNCHANGED <<lock, calls>>

-----------------------------------------------------------------------------
Asked == [kind : {"role"}, to : Role]
         \cup [kind : {"status"}, to : {"ACTIVE", "SUSPENDED", "REMOVED"}]
         \cup [kind : {"bootstrap"}, to : {"OWNER"}]

CallerNext(c) ==
    \/ \E p, q \in Person, change \in Asked : \E v \in 1..membership[q].version :
          Authorize(c, p, q, change, v)
    \/ Load(c)
    \/ Lock(c)
    \/ Update(c)
    \/ \E p, q \in Person, role \in Role : InviteCheck(c, p, q, role)
    \/ Invite(c)
    \/ \E i \in Invitation : AcceptCheck(c, i)
    \/ Accept(c)

Next == (\E c \in Caller : CallerNext(c)) \/ (\E i \in Invitation : Revoke(i))

Spec == Init /\ [][Next]_vars

-----------------------------------------------------------------------------
\* Every variable holds a value the code could have put there, and the
\* organization row is locked by the transaction between count and update.
TypeOK ==
    /\ membership \in [Person -> MembershipState]
    /\ invitation \in [Invitation -> InvitationState]
    /\ call \in [Caller -> CallRecord \cup {None}]
    /\ lock \in Caller \cup {None}
    /\ calls \in Nat
    /\ \A c \in Caller : lock = c <=> call[c] # None /\ call[c].pc = "update"

\* Somebody accepted an invitation while already a member.
Rejoined ==
    \E i \in Invitation :
        /\ invitation[i].state = "ACCEPTED"
        /\ \/ invitation[i].person \in Founder
           \/ \E j \in Invitation \ {i} : /\ invitation[j].state = "ACCEPTED"
                                          /\ invitation[j].person = invitation[i].person

\* docs/AUTHORIZATION_ARCHITECTURE.md:74 "The last active OWNER cannot be
\* demoted, suspended or removed": although two owners may act on each other
\* at once and the role is read before the lock, an organization that has an
\* owner keeps one, as long as nobody accepts an invitation twice.
LastOwnerStays == [][~ Rejoined' /\ Owners # {} => Owners' # {}]_vars

\* team.ts decides on the membership it loaded before the transaction; the
\* version makes sure that the membership it changes is still that one.
DecidesOnCurrent ==
    [][\A c \in Caller :
         /\ call[c] # None /\ call[c].pc = "update" /\ call[c].change.kind # "bootstrap"
         /\ call'[c] = None /\ membership' # membership
         => membership[call[c].target] = call[c].seen]_vars

\* docs/AUTHORIZATION_ARCHITECTURE.md:71 "The first OWNER can be bootstrapped
\* only when no active owner exists": also when two administrators try at
\* once, or a suspended owner is reactivated meanwhile.
BootstrapsTheFirst ==
    [][\A c \in Caller :
         /\ call[c] # None /\ call[c].pc = "update" /\ call[c].change.kind = "bootstrap"
         /\ call'[c] = None /\ membership' # membership
         => Owners = {}]_vars

-----------------------------------------------------------------------------
(* What the documentation says and the code does not do. *)

\* docs/AUTHORIZATION_ARCHITECTURE.md:74 "The last active OWNER cannot be
\* demoted, suspended or removed", invitations included.
AnOwnerRemains == [][Owners # {} => Owners' # {}]_vars
=============================================================================
