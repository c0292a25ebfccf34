----------------------------- MODULE MCIdentity -----------------------------
(***************************************************************************)
(* Who a person is, on small sets, for TLC: local sign-in, sign-in by OIDC, *)
(* and membership of an organization.  The first two share only the         *)
(* operators of the session table and the third nothing, so one run checks  *)
(* them one after the other: part says which of them a behaviour belongs    *)
(* to.  What the parts draw from sets of two, a process or a code, has the  *)
(* same two names in all of them, for TLC permutes fewer names faster.      *)
(***************************************************************************)
EXTENDS LocalSignIn, OidcSignIn, OrganizationMembership, TLC

VARIABLE part

oidcOnly == <<provider, request, operator, browser, policy>>
localOnly == <<clock, credential, changes, token, challenge, method, recovery, caller, accepted>>

IdentityInit ==
    /\ part \in {"local", "oidc", "membership"}
    /\ SignInInit /\ OidcInit /\ Init
    /\ part # "oidc" => ~ provider.revokes
    /\ part # "local" => ~ credential.legacy /\ ActiveMethods = {}
    /\ part # "membership" => \A f \in Founder : membership[f] = NewMembership("OWNER")

IdentityNext ==
    /\ UNCHANGED part
    /\ \/ part = "local" /\ SignInNext /\ UNCHANGED <<oidcOnly, vars>>
       \/ part = "oidc" /\ OidcNext /\ UNCHANGED <<localOnly, vars>>
       \/ part = "membership" /\ Next /\ UNCHANGED <<session, localOnly, oidcOnly>>

IdentitySpec == IdentityInit /\ [][IdentityNext]_<<part, session, localOnly, oidcOnly, vars>>

\* State keeps its shape, in all three parts.
IdentityTypeOK == SignInTypeOK /\ OidcTypeOK /\ TypeOK

RequiredAtOnce == {[requirement |-> "REQUIRED", local |-> FALSE, enforced |-> FALSE]}

\* What is only compared for equality.
Symmetry ==
    Permutations(Session) \cup Permutations(Visit) \cup Permutations(Recovery)
    \cup Permutations(Founder)
=============================================================================
