----------------------------- MODULE OidcSignIn -----------------------------
(***************************************************************************)
(* One organization's OIDC provider and its SSO policy                      *)
(* (oidc-provider-configuration.ts, identity-policy.ts), and the sign-ins   *)
(* through it (oidc.ts, oidc-flow.ts, the callback route).  Operators read  *)
(* the provider, work, and write under its configuration version; browsers  *)
(* come back with an authorization request and go on from what they read.   *)
(* The n-th configuration stands for itself.                                *)
(***************************************************************************)
EXTENDS UserSessions

CONSTANTS Operator,    \* administrators' requests in progress
          Browser,     \* callbacks in progress
          Request,     \* authorization requests
          Idp,         \* what sessions opened through the provider name
          AskedPolicy,       \* policies that administrators ask for
          MaxVersion   \* bound on configuration versions

VARIABLES
    provider,  \* the row of IdentityProvider
    request,   \* authorization request |-> [status, purpose, config]
    operator,  \* operator |-> [pc, seen]
    browser,   \* browser |-> [pc, request, seen]
    policy     \* the SSO policy of the organization

oidcVars == <<session, provider, request, operator, browser, policy>>

Provider ==
    [config : 1..MaxVersion, version : 1..MaxVersion, status : {"NONE", "METADATA", "TENANT"},
     metadata : {"none", "fresh", "stale"}, enabled : BOOLEAN,
     revokes : BOOLEAN, evidence : Request \cup {Nil}]

\* NOT_VALIDATED and REVALIDATION_REQUIRED are both "NONE".
NewProvider(revokes) ==
    [config |-> 1, version |-> 1, status |-> "NONE", metadata |-> "none",
     enabled |-> FALSE, revokes |-> revokes, evidence |-> Nil]

Requirement == {"DISABLED", "OPTIONAL", "REQUIRED"}
Policy == [requirement : Requirement, local : BOOLEAN, enforced : BOOLEAN]

ASSUME OidcAssumption ==
    /\ MaxVersion \in Nat \ {0}
    /\ Nil \notin Request /\ Idp # Nil
    /\ AskedPolicy \subseteq Policy

OidcInit ==
    /\ SessionInit
    /\ provider \in {NewProvider(r) : r \in BOOLEAN}
    /\ request = [r \in Request |-> [status |-> "none", purpose |-> "LOGIN", config |-> 0]]
    /\ operator = [o \in Operator |-> [pc |-> "idle", seen |-> Nil]]
    /\ browser = [b \in Browser |-> [pc |-> "idle", request |-> Nil, seen |-> Nil]]
    /\ policy = [requirement |-> "DISABLED", local |-> TRUE, enforced |-> FALSE]

-----------------------------------------------------------------------------
\* Operators.  Each operation loads the provider and, for all that has gone
\* well in between, writes it where the version is still the one it loaded.
Seen == [version |-> provider.version, config |-> provider.config,
         status |-> provider.status, revokes |-> provider.revokes]

LoadProvider(o, op) ==
    /\ operator[o].pc = "idle"
    /\ op = "enable" => provider.status = "TENANT" /\ provider.metadata = "fresh"
    /\ operator' = [operator EXCEPT ![o] = [pc |-> op, seen |-> Seen]]
    /\ UNCHANGED <<session, provider, request, browser, policy>>

\* Mutation: the write does not look at the version.
CurrentUnfenced(seen) == TRUE

Current(seen) == seen.version = provider.version

\* A write, or a conflict; an operation may also fail before it.
Write(o, op, row) ==
    /\ operator[o].pc = op
    /\ \/ /\ Current(operator[o].seen)
          /\ provider.version < MaxVersion
          /\ provider' = [row EXCEPT !.version = provider.version + 1]
       \/ UNCHANGED provider
    /\ operator' = [operator EXCEPT ![o] = [pc |-> "idle", seen |-> Nil]]
    /\ UNCHANGED <<request, browser, policy>>

\* updateOidcProvider: a new configuration is neither validated nor enabled.
Configured(revokes) == [NewProvider(revokes) EXCEPT !.config = provider.version + 1]

Configure(o) ==
    /\ \E revokes \in BOOLEAN : Write(o, "configure", Configured(revokes))
    /\ UNCHANGED session

\* refreshOidcProviderMetadata: the status follows the row that was loaded.
Refresh(o) ==
    /\ Write(o, "refresh",
          [provider EXCEPT !.metadata = "fresh",
                           !.status = IF operator[o].seen.status = "TENANT" THEN "TENANT" ELSE "METADATA"])
    /\ UNCHANGED session

SwitchOn(o) ==
    /\ Write(o, "enable", [provider EXCEPT !.enabled = TRUE])
    /\ UNCHANGED session

\* With REVOKE_ON_DISABLE the same transaction ends the provider's sessions.
Through == {s \in Session : session[s].provider = Idp}

SwitchOff(o) ==
    /\ Write(o, "disable", [provider EXCEPT !.enabled = FALSE])
    /\ session' = IF provider' # provider /\ operator[o].seen.revokes THEN Closed(Through) ELSE session

MetadataExpires ==
    /\ provider.metadata = "fresh"
    /\ provider' = [provider EXCEPT !.metadata = "stale"]
    /\ UNCHANGED <<session, request, operator, browser, policy>>

-----------------------------------------------------------------------------
\* beginOidcAuthorization and consumeOidcAuthorization.
Admits == provider.enabled /\ provider.status = "TENANT"

Eligible(purpose) ==
    IF purpose = "VALIDATE" THEN ~provider.enabled /\ provider.status = "METADATA" ELSE Admits

BeginAuthorization(r, purpose) ==
    /\ request[r].status = "none"
    /\ Eligible(purpose)
    /\ provider.metadata = "fresh"
    /\ request' = [request EXCEPT ![r] = [status |-> "open", purpose |-> purpose, config |-> 0]]
    /\ UNCHANGED <<session, provider, operator, browser, policy>>

AtStep(b, pc) == browser[b].pc = pc
GoesTo(b, pc) == browser' = [browser EXCEPT ![b].pc = pc]
Stops(b) == browser' = [browser EXCEPT ![b] = [pc |-> "idle", request |-> Nil, seen |-> Nil]]

ReadState(b, r) ==
    /\ AtStep(b, "idle")
    /\ request[r].status = "open"
    /\ Eligible(request[r].purpose)
    /\ browser' = [browser EXCEPT ![b] = [pc |-> "consume", request |-> r, seen |-> Seen]]
    /\ UNCHANGED <<session, provider, request, operator, policy>>

\* Mutation: whoever has read the state may use it.
UnconsumedAsRead(r) == TRUE

Unconsumed(r) == request[r].status # "consumed"

\* The update is by consumedAt; the expiry was read against the same clock.
ConsumeState(b) ==
    LET r == browser[b].request
    IN  /\ AtStep(b, "consume")
        /\ IF Unconsumed(r)
           THEN GoesTo(b, "exchange") /\ request' = [request EXCEPT ![r].status = "consumed"]
           ELSE Stops(b) /\ UNCHANGED request
        /\ UNCHANGED <<session, provider, operator, policy>>

\* Code exchange and token checks, against the configuration read before; the
\* provider signs a token for this request's nonce only.
Exchange(b) ==
    LET r == browser[b].request
    IN  /\ AtStep(b, "exchange")
        /\ \/ /\ GoesTo(b, IF request[r].purpose = "VALIDATE" THEN "prove" ELSE "sign in")
              /\ request' = [request EXCEPT ![r].config = browser[b].seen.config]
           \/ Stops(b) /\ UNCHANGED request
        /\ UNCHANGED <<session, provider, operator, policy>>

\* recordOidcTenantValidationFromCallback: check, then write where the version
\* is the one at which the request was consumed.
CheckProof(b) ==
    /\ AtStep(b, "prove")
    /\ IF /\ Current(browser[b].seen)
          /\ provider.status = "METADATA"
          /\ provider.metadata = "fresh"
       THEN GoesTo(b, "record") ELSE Stops(b)
    /\ UNCHANGED <<session, provider, request, operator, policy>>

RecordProof(b) ==
    /\ AtStep(b, "record")
    /\ Stops(b)
    /\ IF Current(browser[b].seen) /\ provider.status = "METADATA" /\ provider.version < MaxVersion
       THEN provider' = [provider EXCEPT !.status = "TENANT", !.evidence = browser[b].request,
                                         !.version = @ + 1]
       ELSE UNCHANGED provider
    /\ UNCHANGED <<session, request, operator, policy>>

\* authenticateExternalIdentity, then a challenge if the person has a second
\* factor, then createUserSession: each looks at the provider again.
SignIn(b) ==
    /\ AtStep(b, "sign in")
    /\ IF Admits /\ policy.requirement # "DISABLED"
       THEN GoesTo(b, "challenge") \/ GoesTo(b, "check") ELSE Stops(b)
    /\ UNCHANGED <<session, provider, request, operator, policy>>

AnswerChallenge(b) ==
    /\ AtStep(b, "challenge")
    /\ (Admits /\ GoesTo(b, "check")) \/ Stops(b)
    /\ UNCHANGED <<session, provider, request, operator, policy>>

CheckSession(b) ==
    /\ AtStep(b, "check")
    /\ IF Admits THEN GoesTo(b, "rotate") ELSE Stops(b)
    /\ UNCHANGED <<session, provider, request, operator, policy>>

RotateOidc(b) ==
    /\ AtStep(b, "rotate")
    /\ RevokePrevious
    /\ GoesTo(b, "open")
    /\ UNCHANGED <<provider, request, operator, policy>>

OpenOidc(b) ==
    /\ AtStep(b, "open")
    /\ Stops(b)
    /\ OpenSession(browser[b].request, Idp)
    /\ UNCHANGED <<provider, request, operator, policy>>

StateExpires(r) ==
    /\ request[r].status = "open"
    /\ request' = [request EXCEPT ![r].status = "expired"]
    /\ UNCHANGED <<session, provider, operator, browser, policy>>

OidcLogout(s) ==
    /\ EndSession(s)
    /\ UNCHANGED <<provider, request, operator, browser, policy>>

-----------------------------------------------------------------------------
\* updateOrganizationSsoPolicy: what is asked for is valid, and the provider
\* was ready when it was looked at; the update itself has no condition.
ValidPolicy(p) == p.requirement = "REQUIRED" => ~p.local

LoadPolicy(o, p) ==
    /\ operator[o].pc = "idle"
    /\ ValidPolicy(p)
    /\ p.requirement # "DISABLED" => provider.status = "TENANT"
    /\ p.requirement = "REQUIRED" => provider.enabled
    /\ operator' = [operator EXCEPT ![o] = [pc |-> "policy", seen |-> p]]
    /\ UNCHANGED <<session, provider, request, browser, policy>>

SetPolicy(o) ==
    /\ operator[o].pc = "policy"
    /\ policy' = [operator[o].seen EXCEPT !.local = @ \/ operator[o].seen.requirement = "DISABLED"]
    /\ operator' = [operator EXCEPT ![o] = [pc |-> "idle", seen |-> Nil]]
    /\ UNCHANGED <<session, provider, request, browser>>

\* The enforcement date and the days of grace go by.
PolicyComesIntoForce ==
    /\ policy.requirement = "REQUIRED" /\ ~policy.enforced
    /\ policy' = [policy EXCEPT !.enforced = TRUE]
    /\ UNCHANGED <<session, provider, request, operator, browser>>

\* isOrganizationLoginMethodAllowed for a password.
LocalAllowed ==
    \/ policy.requirement = "DISABLED"
    \/ /\ policy.local
       /\ policy.requirement = "REQUIRED" => ~policy.enforced

OidcNext ==
    \/ \E o \in Operator :
          \/ \E op \in {"configure", "refresh", "enable", "disable"} : LoadProvider(o, op)
          \/ Configure(o) \/ Refresh(o) \/ SwitchOn(o) \/ SwitchOff(o)
          \/ \E p \in AskedPolicy : LoadPolicy(o, p)
          \/ SetPolicy(o)
    \/ \E b \in Browser :
          \/ \E r \in Request : ReadState(b, r)
          \/ ConsumeState(b) \/ Exchange(b) \/ CheckProof(b) \/ RecordProof(b)
          \/ SignIn(b) \/ AnswerChallenge(b) \/ CheckSession(b) \/ RotateOidc(b) \/ OpenOidc(b)
    \/ \E r \in Request :
          \/ \E purpose \in {"LOGIN", "VALIDATE"} : BeginAuthorization(r, purpose)
          \/ StateExpires(r)
    \/ \E s \in Session : OidcLogout(s)
    \/ MetadataExpires \/ PolicyComesIntoForce

OidcSpec == OidcInit /\ [][OidcNext]_oidcVars

-----------------------------------------------------------------------------
\* State keeps its shape.
OidcTypeOK ==
    /\ provider \in Provider
    /\ request \in [Request -> [status : {"none", "open", "expired", "consumed"},
                                purpose : {"LOGIN", "VALIDATE"}, config : 0..MaxVersion]]
    /\ \A o \in Operator : operator[o].pc \in {"idle", "configure", "refresh", "enable", "disable", "policy"}
    /\ \A b \in Browser :
          browser[b].pc \in {"idle", "consume", "exchange", "prove", "record",
                             "sign in", "challenge", "check", "rotate", "open"}
    /\ policy \in Policy

\* A provider that is on was proven, by a sign-in made to validate it, with
\* the configuration it has now.
EnabledIsProven ==
    provider.enabled =>
        /\ provider.status = "TENANT"
        /\ provider.evidence # Nil
        /\ request[provider.evidence].purpose = "VALIDATE"
        /\ request[provider.evidence].config = provider.config

\* A request opens one session at most, and none if it was made to validate
\* the provider, however often its callback is called.
RequestOpensOne ==
    \A r \in Request :
        LET opened == {s \in Session : session[s].proof = r}
        IN  Cardinality(opened) <= IF request[r].purpose = "LOGIN" THEN 1 ELSE 0

-----------------------------------------------------------------------------
(* What the documentation says and the code does not do; no run checks it. *)

\* docs/OIDC_PRODUCTION_ROLLOUT.md:82: until the grace of a REQUIRED policy is
\* over, a password still signs in.
GraceAdmitsLocal == policy.requirement = "REQUIRED" /\ ~policy.enforced => LocalAllowed
=============================================================================
