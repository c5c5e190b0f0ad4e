--------------------------- MODULE QuotaAdmission ---------------------------
(***************************************************************************)
(* What tenant admission promises: an operation is admitted only if the    *)
(* tenant policy permits it and while the tenant is below its budget of    *)
(* concurrent sandboxes, and an admitted operation stays recorded until it *)
(* is deleted.  TenantAdmission shows how Leases implement it.             *)
(***************************************************************************)
EXTENDS Naturals, FiniteSets

CONSTANTS Keys,           \* operation names of one tenant
          Permitted,      \* the names that some permitted request asks for
          MaxConcurrent   \* SandboxTenantPolicy.spec.maxConcurrentSandboxes

VARIABLE operations       \* operation name -> its SandboxAssignment

ActiveIn(ops) == {k \in Keys : ops[k] = "active"}

Init == operations = [k \in Keys |-> "none"]

Admit(k) ==
    /\ k \in Permitted /\ operations[k] = "none"
    /\ Cardinality(ActiveIn(operations)) < MaxConcurrent
    /\ operations' = [operations EXCEPT ![k] = "active"]

\* A deletion waits for the finalizer, if the controller has added it.
Retire(k) ==
    /\ operations[k] = "active"
    /\ \E s \in {"deleting", "none"} : operations' = [operations EXCEPT ![k] = s]

Remove(k) ==
    /\ operations[k] = "deleting"
    /\ operations' = [operations EXCEPT ![k] = "none"]

Next == \E k \in Keys : Admit(k) \/ Retire(k) \/ Remove(k)

Spec == Init /\ [][Next]_operations

=============================================================================
