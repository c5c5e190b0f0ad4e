------------------------ MODULE MCAssignmentLifecycle ------------------------
(* Small instances of AssignmentLifecycle for TLC. *)
EXTENDS AssignmentLifecycle, TLC

\* Client threads, names and Pod UIDs are interchangeable.
Symmetry == Permutations(Clients) \cup Permutations(Workloads)
            \cup Permutations(Pods) \cup Permutations(Controllers)

=============================================================================
