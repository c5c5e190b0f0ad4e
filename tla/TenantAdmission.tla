-------------------------- MODULE TenantAdmission --------------------------
(***************************************************************************)
(* Budget admission of one logical tenant: the create handlers of the API  *)
(* replicas (handler.go create, lines 263-299) take their replica's        *)
(* createMu, pass the tenant policy, acquire the tenant's Kubernetes Lease *)
(* (admission.go), count the tenant's assignments, record the operation    *)
(* (store.go Create) and release.  Each API call is a step of its own.     *)
(*                                                                         *)
(* Time is modelled by ages: "left" is what remains of the Lease, age[r]   *)
(* is how long ago request r read the clock it puts into renewTime.        *)
(***************************************************************************)
EXTENDS Naturals, FiniteSets

CONSTANTS
    Requests,       \* create requests
    Replicas,       \* assignmentd API replicas
    Home,           \* Home[r]: the replica that serves r
    Keys,           \* operation names of the tenant
    KeyOf,          \* KeyOf[r]: the name r's idempotency key hashes to
    Ask,            \* Ask[r]: the template's lifetime, cpu, memory and bundle
    Policy,         \* the tenant's policy: maxima and allowed bundles
    MaxConcurrent,  \* maxConcurrentSandboxes
    Duration,       \* leaseDurationSeconds, in ticks
    Late,           \* the steps during which a request may outlive its Lease
    NoOne

ASSUME ConstantsOK ==
    /\ Home \in [Requests -> Replicas] /\ KeyOf \in [Requests -> Keys]
    /\ IsFiniteSet(Keys)
    /\ MaxConcurrent \in Nat /\ Duration \in Nat \ {0}
    /\ Late \subseteq {"createLease", "updateLease", "count", "store", "release"}
    /\ NoOne \notin Requests

VARIABLES
    operations,  \* operation name -> none, active or deleting
    lease,       \* the tenant's Lease
    mu,          \* replica -> the request that holds createMu
    pc,          \* request -> where its handler is
    age,         \* request -> ticks since it read the clock, up to Duration
    fresh,       \* requests whose version of the Lease is still the stored one
    release      \* request -> how it will release: by name, or by Lease UID

vars == <<operations, lease, mu, pc, age, fresh, release>>

-----------------------------------------------------------------------------
\* A Lease is identified by the request that created it (its UID): takeover
\* keeps the UID.
NoLease == [holder |-> NoOne, uid |-> NoOne, left |-> 0]

Leases == [holder: Requests \cup {NoOne}, uid: Requests \cup {NoOne},
           left: 0..Duration]

Labels == {"start", "policy", "get", "createLease", "updateLease", "count",
           "store", "release", "done"}

TypeOK ==
    /\ operations \in [Keys -> {"none", "active", "deleting"}]
    /\ lease \in Leases
    /\ mu \in [Replicas -> Requests \cup {NoOne}]
    /\ pc \in [Requests -> Labels]
    /\ age \in [Requests -> 0..Duration]
    /\ fresh \subseteq Requests
    /\ release \in [Requests -> Requests \cup {NoOne}]

Init ==
    /\ operations = [k \in Keys |-> "none"]
    /\ lease = NoLease
    /\ mu = [p \in Replicas |-> NoOne]
    /\ pc = [r \in Requests |-> "start"]
    /\ age = [r \in Requests |-> 0]
    /\ fresh = {}
    /\ release = [r \in Requests |-> NoOne]

Active == {k \in Keys : operations[k] = "active"}

LeaseExists == lease # NoLease

Goto(r, label) == pc' = [pc EXCEPT ![r] = label]

\* A write of the Lease makes every version read before it stale.
PutLease(new) ==
    /\ lease' = new
    /\ fresh' = {}

\* createMu.Unlock and the answer.
Leave(r) ==
    /\ Goto(r, "done")
    /\ mu' = [mu EXCEPT ![Home[r]] = NoOne]

-----------------------------------------------------------------------------
Lock(r) ==
    /\ pc[r] = "start" /\ mu[Home[r]] = NoOne
    /\ mu' = [mu EXCEPT ![Home[r]] = r]
    /\ Goto(r, "policy")
    /\ UNCHANGED <<operations, lease, age, fresh, release>>

\* bundleAllowed, the lifetime bounds and validateResourceLimit.
WithinPolicy(q) ==
    /\ q.bundle \in Policy.bundles
    /\ q.timeout >= 60 /\ Policy.maxLifetime >= 60
    /\ q.timeout <= Policy.maxLifetime
    /\ q.cpu > 0 /\ q.cpu <= Policy.maxCPU
    /\ q.memory > 0 /\ q.memory <= Policy.maxMemory

\* AuthorizeCreate up to the Lease; a failed read is a rejection too.
CheckPolicy(r) ==
    /\ pc[r] = "policy"
    /\ \/ WithinPolicy(Ask[r]) /\ Goto(r, "get") /\ UNCHANGED mu
       \/ Leave(r)
    /\ UNCHANGED <<operations, lease, age, fresh, release>>

\* Mutant: a Lease is never taken over.
LeaseNeverAvailable == FALSE

\* leaseAvailable: the renew time plus the duration is not after now.
LeaseAvailable == lease.left = 0

\* acquireTenantLease, one turn of its loop: read the clock, then the Lease.
GetLease(r) ==
    /\ pc[r] = "get"
    /\ \/ /\ ~LeaseExists
          /\ Goto(r, "createLease")
          /\ UNCHANGED fresh
       \/ /\ LeaseExists /\ LeaseAvailable
          /\ Goto(r, "updateLease")
          /\ fresh' = fresh \cup {r}
    /\ age' = [age EXCEPT ![r] = 0]
    /\ UNCHANGED <<operations, lease, mu, release>>

\* The request's context ends while it waits, or an API call fails.
GiveUp(r) ==
    /\ pc[r] \in {"get", "createLease", "updateLease"}
    /\ Leave(r)
    /\ UNCHANGED <<operations, lease, age, fresh, release>>

\* Mutant: renewTime already holds the end of the Lease.
HeldTwice(r, uid) == [holder |-> r, uid |-> uid, left |-> 2 * Duration - age[r]]

\* The Lease of holder r, renewed at the time r read.
Held(r, uid) == [holder |-> r, uid |-> uid, left |-> Duration - age[r]]

\* Create: the release will delete by name.  AlreadyExists: try again.
CreateLease(r) ==
    /\ pc[r] = "createLease"
    /\ IF LeaseExists
       THEN Goto(r, "get") /\ UNCHANGED <<lease, fresh, release>>
       ELSE /\ PutLease(Held(r, r))
            /\ release' = [release EXCEPT ![r] = NoOne]
            /\ Goto(r, "count")
    /\ UNCHANGED <<operations, mu, age>>

\* Mutant: the Update does not carry the resourceVersion that was read.
UpdateLeaseUnconditional(r) ==
    /\ pc[r] = "updateLease" /\ LeaseExists
    /\ PutLease(Held(r, lease.uid))
    /\ release' = [release EXCEPT ![r] = lease.uid]
    /\ Goto(r, "count")
    /\ UNCHANGED <<operations, mu, age>>

\* Update of an expired Lease: the release will require its UID.  Conflict:
\* try again.  Not found: the error ends the request.
UpdateLease(r) ==
    /\ pc[r] = "updateLease"
    /\ IF r \in fresh
       THEN /\ PutLease(Held(r, lease.uid))
            /\ release' = [release EXCEPT ![r] = lease.uid]
            /\ Goto(r, "count") /\ UNCHANGED mu
       ELSE /\ IF LeaseExists THEN Goto(r, "get") /\ UNCHANGED mu ELSE Leave(r)
            /\ UNCHANGED <<lease, fresh, release>>
    /\ UNCHANGED <<operations, age>>

\* Mutant: the budget is compared with > instead of >=.
CountActiveOffByOne(r) ==
    /\ pc[r] = "count"
    /\ \/ Cardinality(Active) <= MaxConcurrent /\ Goto(r, "store")
       \/ Goto(r, "release")
    /\ UNCHANGED <<operations, lease, mu, age, fresh, release>>

\* The tenant's assignments that are not deleting against its budget; a List
\* error is a rejection too.
CountActive(r) ==
    /\ pc[r] = "count"
    /\ \/ Cardinality(Active) < MaxConcurrent /\ Goto(r, "store")
       \/ Goto(r, "release")
    /\ UNCHANGED <<operations, lease, mu, age, fresh, release>>

\* Mutant: a create revives the operation that is being deleted.
StoreCreateRevives(r) ==
    /\ pc[r] = "store"
    /\ operations' = [operations EXCEPT ![KeyOf[r]] = "active"]
    /\ Goto(r, "release")
    /\ UNCHANGED <<lease, mu, age, fresh, release>>

\* store.Create: a new operation, an existing one, or an error.
StoreCreate(r) ==
    /\ pc[r] = "store"
    /\ \/ /\ operations[KeyOf[r]] = "none"
          /\ operations' = [operations EXCEPT ![KeyOf[r]] = "active"]
       \/ UNCHANGED operations
    /\ Goto(r, "release")
    /\ UNCHANGED <<lease, mu, age, fresh, release>>

\* The release deletes the Lease, by name or if it still has the UID, whoever
\* holds it by now; its error is dropped.  Then createMu is unlocked.
ReleaseLease(r) ==
    /\ pc[r] = "release"
    /\ \/ /\ LeaseExists /\ release[r] \in {NoOne, lease.uid}
          /\ PutLease(NoLease)
       \/ UNCHANGED <<lease, fresh>>
    /\ Leave(r)
    /\ UNCHANGED <<operations, age, release>>

-----------------------------------------------------------------------------
\* A delete begins, and the controller finishes it; without a finalizer the
\* object is gone at once.
RetireOperation(k) ==
    /\ operations[k] = "active"
    /\ \E s \in {"deleting", "none"} : operations' = [operations EXCEPT ![k] = s]
    /\ UNCHANGED <<lease, mu, pc, age, fresh, release>>

RemoveOperation(k) ==
    /\ operations[k] = "deleting"
    /\ operations' = [operations EXCEPT ![k] = "none"]
    /\ UNCHANGED <<lease, mu, pc, age, fresh, release>>

\* A replica dies in the middle of the request that holds createMu; the Lease
\* that request acquired stays.
Crash(p) ==
    /\ mu[p] # NoOne
    /\ pc' = [pc EXCEPT ![mu[p]] = "done"]
    /\ mu' = [mu EXCEPT ![p] = NoOne]
    /\ UNCHANGED <<operations, lease, age, fresh, release>>

Critical(r) == pc[r] \in {"count", "store", "release"}

\* Between reading the clock and releasing.
Claiming(r) == pc[r] \in {"createLease", "updateLease"} \/ Critical(r)

\* No request outlives the Lease it claims.  Nothing in the code ensures this:
\* a request takes as long as its API calls do, whatever the Lease says.
Timely == Late = {}

\* Time passes; a request outlives the Lease it claims in a Late step only.
Tick ==
    /\ \A r \in Requests :
          Claiming(r) /\ pc[r] \notin Late => age[r] + 1 < Duration
    /\ lease.left > 0 \/ \E r \in Requests : Claiming(r) /\ age[r] < Duration
    /\ lease' = [lease EXCEPT !.left = IF @ > 0 THEN @ - 1 ELSE 0]
    /\ age' = [r \in Requests |->
                  IF Claiming(r) /\ age[r] < Duration THEN age[r] + 1 ELSE age[r]]
    /\ UNCHANGED <<operations, mu, pc, fresh, release>>

Handler(r) ==
    \/ Lock(r) \/ CheckPolicy(r) \/ GetLease(r) \/ CreateLease(r)
    \/ UpdateLease(r) \/ CountActive(r) \/ StoreCreate(r) \/ ReleaseLease(r)

Next ==
    \/ \E r \in Requests : Handler(r) \/ GiveUp(r)
    \/ \E k \in Keys : RetireOperation(k) \/ RemoveOperation(k)
    \/ \E p \in Replicas : Crash(p)
    \/ Tick

Spec == Init /\ [][Next]_vars

\* Handlers run and time passes.
Fairness == WF_vars(Tick) /\ \A r \in Requests : WF_vars(Handler(r))

FairSpec == Spec /\ Fairness

-----------------------------------------------------------------------------
(* Properties.                                                             *)

\* At most one request of the tenant, over all replicas, is between acquiring
\* and releasing the Lease (admission.go acquireTenantLease), in spite of
\* crashed holders, takeovers and conflicting writes.
MutualExclusion ==
    \A q, r \in Requests : Critical(q) /\ Critical(r) => q = r

\* The tenant's active assignments never exceed its budget, although counting
\* and recording are separate API calls (study-guide.md:1470, "admitted active
\* assignments do not exceed quota").
QuotaRespected == Cardinality(Active) <= MaxConcurrent

\* Lease-based admission implements the atomic budget check.
Permitted == {KeyOf[r] : r \in {q \in Requests : WithinPolicy(Ask[q])}}

Quota == INSTANCE QuotaAdmission

AdmissionImplementsQuota == Quota!Spec

\* Every create request is answered: no waiting request is blocked for good by
\* a crashed holder or by its own replica's createMu.
AllAnswered == \A r \in Requests : <>(pc[r] = "done")

=============================================================================
