---------------------- MODULE MCOrganizationMembership ----------------------
(* OrganizationMembership on small sets, for TLC. *)
EXTENDS OrganizationMembership, TLC

Symmetry == Permutations(Caller) \cup Permutations(Invitation) \cup Permutations(Founder)
=============================================================================
