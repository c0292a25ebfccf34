------------------------- MODULE MCDocumentPipeline -------------------------
(* DocumentPipeline on small sets, for TLC. *)
EXTENDS DocumentPipeline, TLC

\* Bounds on disturbances, one set for each run.
Slow == [crash |-> 0, lapse |-> 1, fault |-> 0, request |-> 0, interrupt |-> 0, unheard |-> 0]
Rough == [crash |-> 1, lapse |-> 1, fault |-> 1, request |-> 1, interrupt |-> 1, unheard |-> 0]
Busy == [crash |-> 0, lapse |-> 1, fault |-> 0, request |-> 2, interrupt |-> 1, unheard |-> 1]
Plain == [crash |-> 0, lapse |-> 0, fault |-> 0, request |-> 1, interrupt |-> 0, unheard |-> 0]

\* One crash or failing call less than the allowance, to keep the run small.
OneMishap == left'.crash + left'.fault + 1 >= Allowance.crash + Allowance.fault

WorkersSpec == Init /\ [][Next /\ OneMishap]_vars /\ Fairness

\* The request that takes a document, and its job, from under the workers.
Deletion == {"delete"}

Symmetry == Permutations(JobId) \cup Permutations(Worker) \cup Permutations(Client)
=============================================================================
