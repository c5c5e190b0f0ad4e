------------------------- MODULE MCCredentialBroker -------------------------
(* Two replicas, the second with a clock that is ahead by one unit. *)
EXTENDS CredentialBroker, TLC

CONSTANTS a1, a2, p1, p2, p3, p4, g1

MCSkew == a1 :> 0 @@ a2 :> 1

Symmetry == Permutations(Requests)

=============================================================================
