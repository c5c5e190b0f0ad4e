---------------------- MODULE MCEgressAuthorization ----------------------
(* Tokens of the first and of the second Pod; requests for the first Pod. *)
EXTENDS EgressAuthorization, TLC

CONSTANTS c1, c2, t1, t2, r1, r2, open, closed

MCTokenPod == t1 :> 1 @@ t2 :> 2

MCTokenExp == t1 :> 4 @@ t2 :> 3

MCGrantPod == [r \in Requests |-> 1]

MCGrantRevision == [r \in Requests |-> closed]

Symmetry == Permutations(Requests)

==========================================================================
