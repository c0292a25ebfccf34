----------------------------- MODULE MCJiraSync -----------------------------
(* JiraSync on small sets, for TLC. *)
EXTENDS JiraSync, TLC

CONSTANTS r1, m1, c1, e1, e2, e3, e4

OneOwner == [m \in Message |-> r1]

StatusAt(at, s) == [kind |-> "status", request |-> r1, at |-> at, status |-> s]
Version(c, at) == [kind |-> "comment", request |-> r1, comment |-> c, at |-> at]
Plain(kind) == [kind |-> kind, request |-> r1]

\* Own comment coming back, and the issue being deleted.
EchoAndDelete == e1 :> Version(m1, 1) @@ e2 :> Plain("deleted")

\* A status, a later one that contradicts it, a comment and a private comment.
TwoStatuses == e1 :> StatusAt(1, "RESOLVED") @@ e2 :> StatusAt(2, "OPEN")
               @@ e3 :> Version(c1, 1) @@ e4 :> Plain("other")

\* Bounds on disturbances.
Sending == [crash |-> 1, lapse |-> 1, fault |-> 1, page |-> 1, operator |-> 1, status |-> 0]
Receiving == [crash |-> 1, lapse |-> 1, fault |-> 0, page |-> 0, operator |-> 1, status |-> 1]

Symmetry == Permutations(Sender) \cup Permutations(Importer)
=============================================================================
