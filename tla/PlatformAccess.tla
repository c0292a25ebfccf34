--------------------------- MODULE PlatformAccess ---------------------------
(***************************************************************************)
(* Roles of the platform, from the first owner on, and what support does   *)
(* with one of them in the data of a company: platform-permissions.ts,     *)
(* platform-authorization.ts, platform-owner-bootstrap.ts,                 *)
(* changePlatformRoleAssignment, platform-support.ts, and the handlers     *)
(* that ask for and carry out a change of a support request.               *)
(*                                                                         *)
(* Support acts in a support session, opened for one company, and on       *)
(* somebody else's approval of this very change.  The handler reads the    *)
(* request, the support session and the roles one after the other, and     *)
(* changes the request in a transaction that looks at none of them but     *)
(* the request's version.                                                  *)
(*                                                                         *)
(* PlatformGovernance has the steps of deciding and executing an approval; *)
(* here a decision is one step, and so is the executing transaction, whose *)
(* two updates are fenced by status and version.  A company has one        *)
(* request.  The clock is what it does: an authentication stops being      *)
(* recent, a support session expires.  Audit and notification rows,        *)
(* reason codes and confirmation phrases are left out.                     *)
(***************************************************************************)
EXTENDS Integers, FiniteSets

CONSTANTS Staff,       \* users
          Company,
          Support,     \* ids of support sessions
          Consent,     \* ids of approval requests
          Desk,        \* handlers that change a request's status
          Grant,       \* bound: the roles that are given and taken
          Scopes,      \* bound: the sets of scopes support sessions are opened with
          Step,        \* statuses of a support request
          LastVersion, \* bound on a request's version
          Absent

VARIABLES
    roles,    \* person |-> the roles actively assigned
    signedIn, \* who has a session with MFA that was opened in the last ten minutes
    ledger,   \* whom the bootstrap made an owner
    support,  \* id |-> the support session
    consent,  \* id |-> the approval of a support action
    ticket,   \* company |-> its support request
    desk      \* handler |-> where it is and what it has read

platformVars == <<roles, signedIn, ledger, support, consent, ticket, desk>>

SystemRole == {"OWNER", "ADMIN", "SUPPORT", "AUDITOR", "OPERATOR"}
AssignableRole == SystemRole \ {"OWNER"}

SupportScope == {"support.organization.view", "support.resource.view", "support.action.execute"}

\* What these operations ask for, of the 25 permissions there are.
Permission == SupportScope \cup {"support.session.start", "support.session.end", "roles.manage",
                                 "security.manage"}

RolePermissions ==
    [r \in SystemRole |->
        CASE r \in {"OWNER", "ADMIN"} -> Permission
          [] r = "SUPPORT" -> SupportScope \cup {"support.session.start", "support.session.end"}
          [] OTHER -> {}]

SupportRecord == [actor : Staff, company : Company, scopes : (SUBSET SupportScope) \ {{}},
                  ended : BOOLEAN, expired : BOOLEAN]

ConsentRecord == [status : {"REQUESTED", "APPROVED", "EXECUTED", "CLOSED"}, requester : Staff,
                  approver : Staff \cup {Absent}, support : Support, company : Company,
                  version : 1..LastVersion, to : Step]

TicketState == [version : 1..LastVersion, status : Step]

DeskRecord ==
    [pc : {"read"}, company : Company, version : 1..LastVersion]
    \cup [pc : {"authorize", "execute"}, company : Company, version : 1..LastVersion,
          support : Support, consent : Consent, to : Step]

ASSUME PlatformAssumption ==
    /\ Grant \subseteq AssignableRole /\ Scopes \subseteq SUBSET SupportScope
    /\ LastVersion \in Nat \ {0}
    /\ Absent \notin SupportRecord \cup ConsentRecord \cup DeskRecord

PlatformTypeOK ==
    /\ roles \in [Staff -> SUBSET SystemRole]
    /\ signedIn \subseteq Staff
    /\ ledger \subseteq Staff
    /\ support \in [Support -> SupportRecord \cup {Absent}]
    /\ consent \in [Consent -> ConsentRecord \cup {Absent}]
    /\ ticket \in [Company -> TicketState]
    /\ desk \in [Desk -> DeskRecord \cup {Absent}]

PlatformInit ==
    /\ roles = [p \in Staff |-> {}]
    /\ signedIn = {}
    /\ ledger = {}
    /\ support = [s \in Support |-> Absent]
    /\ consent = [k \in Consent |-> Absent]
    /\ ticket \in [Company -> {[version |-> 1, status |-> s] : s \in Step}]
    /\ desk = [d \in Desk |-> Absent]

-----------------------------------------------------------------------------
(* Who may do what. *)

\* authorizePlatformSession: one of the assignments has the permission.
Permitted(p, permission) == \E r \in roles[p] : permission \in RolePermissions[r]

\* The part of evaluatePlatformPermission about the support session's row.
Serves(s, p, company) ==
    /\ support[s] # Absent
    /\ support[s].actor = p /\ support[s].company = company
    /\ ~ support[s].ended

\* The rest of it, for what needs a support session: the row may have been read
\* before, its expiry is compared with the time now.
PermittedInSupport(p, permission, s) ==
    /\ Permitted(p, permission)
    /\ ~ support[s].expired
    /\ permission \in support[s].scopes

\* approvalStepUpSatisfied.  A session with less changes nothing here, except
\* that it can end a support session.
StepUpSatisfied(p) == p \in signedIn

SignIn(p) ==
    /\ signedIn' = signedIn \cup {p}
    /\ UNCHANGED <<roles, ledger, support, consent, ticket, desk>>

\* Ten minutes have passed, or the session ends.
SignInAges(p) ==
    /\ signedIn' = signedIn \ {p}
    /\ UNCHANGED <<roles, ledger, support, consent, ticket, desk>>

-----------------------------------------------------------------------------
(* Roles.  Owners after the first are PlatformGovernance's. *)

\* validatePlatformOwnerBootstrapRequest and validateDatabaseEvidence, repeated
\* under advisory lock 13012026; the ledger's key is unique.
BootstrapEvidence(p) ==
    /\ StepUpSatisfied(p)
    /\ ~ \E q \in Staff : "OWNER" \in roles[q]
    /\ ledger = {}

\* executePlatformOwnerBootstrap; the sessions of the new owner end.
Bootstrap(p) ==
    /\ BootstrapEvidence(p)
    /\ roles' = [roles EXCEPT ![p] = @ \cup {"OWNER"}]
    /\ signedIn' = signedIn \ {p}
    /\ ledger' = {p}
    /\ UNCHANGED <<support, consent, ticket, desk>>

\* changePlatformRoleAssignment: the sessions of the person end, the support
\* sessions do not.  One made from an old version is refused.
ChangeRole(p, q, role, active) ==
    /\ Permitted(p, "roles.manage") /\ StepUpSatisfied(p)
    /\ roles' = [roles EXCEPT ![q] = IF active THEN @ \cup {role} ELSE @ \ {role}]
    /\ signedIn' = signedIn \ {q}
    /\ UNCHANGED <<ledger, support, consent, ticket, desk>>

-----------------------------------------------------------------------------
(* Support sessions. *)

StartSupport(p, s, company, scopes) ==
    /\ support[s] = Absent
    /\ Permitted(p, "support.session.start") /\ StepUpSatisfied(p)
    /\ scopes # {}
    /\ support' = [support EXCEPT ![s] =
          [actor |-> p, company |-> company, scopes |-> scopes, ended |-> FALSE, expired |-> FALSE]]
    /\ UNCHANGED <<roles, signedIn, ledger, consent, ticket, desk>>

EndOf(s) ==
    /\ support[s] # Absent /\ ~ support[s].ended
    /\ support' = [support EXCEPT ![s].ended = TRUE]
    /\ UNCHANGED <<roles, signedIn, ledger, consent, ticket, desk>>

\* endPlatformSupportSession, by its actor.
EndSupport(s) ==
    /\ support[s] # Absent
    /\ Permitted(support[s].actor, "support.session.end")
    /\ EndOf(s)

\* terminatePlatformSupportSessionByOperator, from the command line.
TerminateSupport(p, s) ==
    /\ roles[p] \cap {"OWNER", "ADMIN"} # {}
    /\ EndOf(s)

\* Fifteen minutes after its start.
SupportExpires(s) ==
    /\ support[s] # Absent /\ ~ support[s].expired
    /\ support' = [support EXCEPT ![s].expired = TRUE]
    /\ UNCHANGED <<roles, signedIn, ledger, consent, ticket, desk>>

-----------------------------------------------------------------------------
(* The approval of a support action. *)

\* POST approvals and resolveApprovalTarget for
\* CROSS_TENANT_SUPPORT_DESTRUCTIVE_ACTION: the company is the support
\* session's, the version may be old when the row is inserted.
RequestConsent(p, k, s, to, version) ==
    /\ consent[k] = Absent
    /\ support[s] # Absent /\ StepUpSatisfied(p)
    /\ LET company == support[s].company
       IN  /\ Serves(s, p, company) /\ PermittedInSupport(p, "support.action.execute", s)
           /\ version <= ticket[company].version
           /\ consent' = [consent EXCEPT ![k] =
                 [status |-> "REQUESTED", requester |-> p, approver |-> Absent, support |-> s,
                  company |-> company, version |-> version, to |-> to]]
    /\ UNCHANGED <<roles, signedIn, ledger, support, ticket, desk>>

\* decideGovernanceApproval with the policy of these actions, approving.
GrantConsent(p, k) ==
    /\ consent[k] # Absent /\ consent[k].status = "REQUESTED"
    /\ consent[k].requester # p
    /\ Permitted(p, "security.manage") /\ StepUpSatisfied(p)
    /\ consent' = [consent EXCEPT ![k].status = "APPROVED", ![k].approver = p]
    /\ UNCHANGED <<roles, signedIn, ledger, support, ticket, desk>>

\* It is rejected or cancelled, or its ten minutes are over.
CloseConsent(k) ==
    /\ consent[k] # Absent /\ consent[k].status \in {"REQUESTED", "APPROVED"}
    /\ consent' = [consent EXCEPT ![k].status = "CLOSED"]
    /\ UNCHANGED <<roles, signedIn, ledger, support, ticket, desk>>

-----------------------------------------------------------------------------
(* PATCH of a request's status. *)

DeskAt(d, pc) == desk[d] # Absent /\ desk[d].pc = pc
Leave(d) == desk' = [desk EXCEPT ![d] = Absent]

\* The request is read first, whoever asks.
ReadTicket(d, company) ==
    /\ desk[d] = Absent
    /\ desk' = [desk EXCEPT ![d] =
          [pc |-> "read", company |-> company, version |-> ticket[company].version]]
    /\ UNCHANGED <<roles, signedIn, ledger, support, consent, ticket>>

\* getSession, then loadPlatformSupportSession of its user, to do what consent k
\* is for.  What a handler does whose actor the row will not serve is DeskFails.
LoadSupport(d, p, s, k, to) ==
    /\ DeskAt(d, "read")
    /\ StepUpSatisfied(p)
    /\ Serves(s, p, desk[d].company)
    /\ desk' = [desk EXCEPT ![d] =
          [pc |-> "authorize", company |-> @.company, version |-> @.version,
           support |-> s, consent |-> k, to |-> to]]
    /\ UNCHANGED <<roles, signedIn, ledger, support, consent, ticket>>

\* authorizePlatformSession reads the roles.
Authorize(d) ==
    /\ DeskAt(d, "authorize")
    /\ LET s == desk[d].support
       IN  IF PermittedInSupport(support[s].actor, "support.action.execute", s)
           THEN desk' = [desk EXCEPT ![d].pc = "execute"]
           ELSE Leave(d)
    /\ UNCHANGED <<roles, signedIn, ledger, support, consent, ticket>>

\* executeGovernanceApproval's own checks.
Executable(k, h) ==
    /\ k # Absent /\ k.status = "APPROVED"
    /\ k.requester = support[h.support].actor /\ k.approver # k.requester
    /\ k.version = h.version

\* The checks the handler adds: APPROVAL_TARGET_CHANGED.
SameTarget(k, h) ==
    /\ k.company = h.company
    /\ k.support = h.support
    /\ k.to = h.to

\* Mutation: the update is by id.
AnyVersion(h) == TRUE

\* RESOURCE_VERSION_CHANGED.
VersionStands(h) == ticket[h.company].version = h.version

\* The transaction of executeGovernanceApproval.
ExecuteSupport(d) ==
    /\ DeskAt(d, "execute")
    /\ LET h == desk[d]
           k == consent[h.consent]
       IN  IF Executable(k, h) /\ SameTarget(k, h) /\ VersionStands(h)
           THEN /\ ticket[h.company].version < LastVersion
                /\ ticket' = [ticket EXCEPT ![h.company] =
                                 [version |-> @.version + 1, status |-> h.to]]
                /\ consent' = [consent EXCEPT ![h.consent].status = "EXECUTED"]
           ELSE UNCHANGED <<ticket, consent>>
    /\ Leave(d)
    /\ UNCHANGED <<roles, signedIn, ledger, support>>

\* The handler dies, or its transaction fails.
DeskFails(d) ==
    /\ desk[d] # Absent
    /\ Leave(d)
    /\ UNCHANGED <<roles, signedIn, ledger, support, consent, ticket>>

\* Jira changes the request, or only what is known of its issue (processStatus).
TicketMoves(company) ==
    /\ ticket[company].version < LastVersion
    /\ \E s \in Step : ticket' = [ticket EXCEPT ![company] =
                                     [version |-> @.version + 1, status |-> s]]
    /\ UNCHANGED <<roles, signedIn, ledger, support, consent, desk>>

-----------------------------------------------------------------------------
StaffNext(p) ==
    \/ SignIn(p) \/ SignInAges(p) \/ Bootstrap(p)
    \/ \E q \in Staff, r \in Grant, active \in BOOLEAN : ChangeRole(p, q, r, active)
    \/ \E s \in Support, c \in Company, scopes \in Scopes : StartSupport(p, s, c, scopes)
    \/ \E s \in Support : TerminateSupport(p, s)
    \/ \E k \in Consent, s \in Support, to \in Step, v \in 1..LastVersion : RequestConsent(p, k, s, to, v)
    \/ \E k \in Consent : GrantConsent(p, k)

DeskNext(d) ==
    \/ \E c \in Company : ReadTicket(d, c)
    \/ \E p \in Staff, s \in Support, k \in Consent, to \in Step : LoadSupport(d, p, s, k, to)
    \/ Authorize(d) \/ ExecuteSupport(d) \/ DeskFails(d)

PlatformNext ==
    \/ \E p \in Staff : StaffNext(p)
    \/ \E s \in Support : EndSupport(s) \/ SupportExpires(s)
    \/ \E k \in Consent : CloseConsent(k)
    \/ \E d \in Desk : DeskNext(d)
    \/ \E c \in Company : TicketMoves(c)

PlatformSpec == PlatformInit /\ [][PlatformNext]_platformVars

-----------------------------------------------------------------------------
(* What it promises. *)

\* Support changes a company's request only as somebody else has approved it:
\* the company is the one the support session was opened for, by the person who
\* acts and for such actions; the request is still the one that was read when
\* approval was asked for, the new status the approved one; and the approval is
\* used up.  (PATCH /api/admin/requests/[id]/status)
ActsAsApproved(d) ==
    LET h == desk[d]
        k == consent[h.consent]
        s == support[h.support]
    IN  /\ k.status = "APPROVED" /\ consent'[h.consent].status = "EXECUTED"
        /\ k.requester = s.actor /\ k.approver # s.actor
        /\ s.company = h.company /\ "support.action.execute" \in s.scopes
        /\ k.version = ticket[h.company].version
        /\ ticket'[h.company].status = k.to

SupportActsAsApproved ==
    [][\A d \in Desk : DeskAt(d, "execute") /\ ticket' # ticket /\ desk'[d] # desk[d] => ActsAsApproved(d)]_platformVars
=============================================================================
