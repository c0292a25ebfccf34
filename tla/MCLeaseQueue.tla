---------------------------- MODULE MCLeaseQueue ----------------------------
(* LeaseQueue on small sets, for TLC. *)
EXTENDS LeaseQueue, TLC

\* Documents, job ids and workers are only compared for equality.
Symmetry == Permutations(Document) \cup Permutations(JobId) \cup Permutations(Worker)
=============================================================================
