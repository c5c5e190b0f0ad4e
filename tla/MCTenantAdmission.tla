------------------------- MODULE MCTenantAdmission -------------------------
(* Three requests of one tenant at two replicas, and one that asks for more *)
(* than the tenant's policy allows.  r1 and r2 share a replica; r2 and r3   *)
(* carry the same idempotency key.                                          *)
EXTENDS TenantAdmission, TLC

CONSTANTS r1, r2, r3, r4, a1, a2, k1, k2, k3, b1

MCHome  == r1 :> a1 @@ r2 :> a1 @@ r3 :> a2 @@ r4 :> a2
MCKeyOf == r1 :> k1 @@ r2 :> k2 @@ r3 :> k2 @@ r4 :> k3

Small == [bundle |-> b1, timeout |-> 60, cpu |-> 1, memory |-> 1]

MCAsk == r1 :> Small @@ r2 :> Small @@ r3 :> Small
            @@ r4 :> [Small EXCEPT !.timeout = 61]

MCPolicy == [bundles |-> {b1}, maxLifetime |-> 60, maxCPU |-> 1, maxMemory |-> 1]

=============================================================================
