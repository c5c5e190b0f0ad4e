------------------------ MODULE MCDashboardRequests ------------------------
(* One tab, two sessions, two tenants, and two requests, of which the second    *)
(* only logs out.                                                               *)
EXTENDS DashboardRequests, TLC

CONSTANTS b1, c1, c2, q1, q2, t1, t2, p1, a1, a2

MCMayAsk == q1 :> Kinds @@ q2 :> {"logout"}

Symmetry == Permutations(Cookies) \union Permutations(Tenants)

=============================================================================
