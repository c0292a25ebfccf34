------------------------ MODULE MCPlatformGovernance ------------------------
(***************************************************************************)
(* How the platform is governed, on small sets, for TLC: approvals with the *)
(* change of owners they are for, and roles with what support does.  They   *)
(* share no variable, so one run checks them one after the other: part says *)
(* which of them a behaviour belongs to, and what both draw from sets of    *)
(* two has the same names in both.                                          *)
(***************************************************************************)
EXTENDS PlatformGovernance, PlatformAccess, TLC

VARIABLE part

PartInit ==
    /\ part \in {"owners", "support"}
    /\ Init /\ PlatformInit
    /\ part # "support" => \A c \in Company : ticket[c].status = "NEW"

\* To keep the run small, not all approvals end without being executed, and the
\* request of one company stays as it is.
OneMayBeExecuted == \E a \in Approval : approval'[a].status \notin {"REJECTED", "CANCELLED", "EXPIRED"}
OneCompanyRests == \E c \in Company : ticket'[c].version = 1

PartNext ==
    /\ UNCHANGED part
    /\ \/ part = "owners" /\ Next /\ OneMayBeExecuted /\ UNCHANGED platformVars
       \/ part = "support" /\ PlatformNext /\ OneCompanyRests /\ UNCHANGED vars

PartSpec == PartInit /\ [][PartNext]_<<part, vars, platformVars>>

\* State keeps its shape, in both parts.
GovernanceTypeOK == TypeOK /\ PlatformTypeOK

AllScopes == {SupportScope}

\* What is only compared for equality.
Symmetry == Permutations(Caller) \cup Permutations(Approval)
            \cup Permutations(FirstOwner \ Administrator)
=============================================================================
