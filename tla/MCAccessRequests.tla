-------------------------- MODULE MCAccessRequests --------------------------
(* Model values for the access request instance. *)
EXTENDS AccessRequests

CONSTANTS r1, r2, d1, d2, e1, e2, v1, v2, t1

=============================================================================
