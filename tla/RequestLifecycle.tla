-------------------------- MODULE RequestLifecycle --------------------------
(***************************************************************************)
(* What the access request API promises to a requester, an administrator   *)
(* and the egress checker, whichever dashboard and assignmentd replicas    *)
(* serve them: a request is decided at most once, an approval lasts no     *)
(* longer than was asked for and is never extended, only an approval that  *)
(* has run out is marked expired, and every one of those is.               *)
(***************************************************************************)
EXTENDS Naturals

CONSTANTS Requests

VARIABLES now, phase, requested, expiry

lifecycle == <<now, phase, requested, expiry>>

Phases == {"absent", "pending", "approved", "denied", "expired"}

Init ==
    /\ now = 0
    /\ phase = [r \in Requests |-> "absent"]
    /\ requested = [r \in Requests |-> 0]
    /\ expiry = [r \in Requests |-> 0]

Move(r, from, to) == phase[r] = from /\ phase' = [phase EXCEPT ![r] = to]

Submit(r) ==
    /\ Move(r, "absent", "pending")
    /\ \E d \in {requested'[r]} : d # 0 /\ requested' = [requested EXCEPT ![r] = d]
    /\ UNCHANGED <<now, expiry>>

Approve(r) ==
    /\ Move(r, "pending", "approved")
    /\ \E e \in 0..(now + requested[r]) : expiry' = [expiry EXCEPT ![r] = e]
    /\ UNCHANGED <<now, requested>>

Deny(r) == Move(r, "pending", "denied") /\ UNCHANGED <<now, requested, expiry>>

Expire(r) ==
    /\ expiry[r] <= now
    /\ Move(r, "approved", "expired")
    /\ UNCHANGED <<now, requested, expiry>>

Tick == now' = now + 1 /\ UNCHANGED <<phase, requested, expiry>>

Next ==
    \/ \E r \in Requests : Submit(r) \/ Approve(r) \/ Deny(r) \/ Expire(r)
    \/ Tick

Safety == Init /\ [][Next]_lifecycle

Spec == Safety /\ \A r \in Requests : WF_lifecycle(Expire(r))

=============================================================================
