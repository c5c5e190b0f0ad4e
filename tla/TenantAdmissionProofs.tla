----------------------- MODULE TenantAdmissionProofs -----------------------
(***************************************************************************)
(* Tenant admission is safe for any number of requests, replicas and names *)
(* and any budget and Lease duration, as long as every critical section    *)
(* ends within the Lease (Timely).                                         *)
(***************************************************************************)
EXTENDS TenantAdmission, FiniteSetTheorems, TLAPS

\* The bound on the critical section: admission.go never renews the Lease, so
\* exclusion and the budget fail without it (run Admission_expired_lease).
InTime == \A r \in Requests : Claiming(r) => age[r] < Duration

\* Whoever is in the critical section holds the Lease, with what is left of it
\* counted from the time that request put into renewTime.
HolderOwnsLease ==
    \A r \in Requests : Critical(r) =>
        lease.holder = r /\ lease.left = Duration - age[r]

\* A takeover that will not meet a conflict finds an expired Lease.
TakeoverOfExpired ==
    \A r \in Requests : pc[r] = "updateLease" /\ r \in fresh =>
        LeaseExists /\ lease.left = 0

LeaseHasHolder == LeaseExists => lease.holder \in Requests

LeaseInv ==
    TypeOK /\ InTime /\ HolderOwnsLease /\ TakeoverOfExpired /\ LeaseHasHolder

\* What a request went through before it claims the Lease.
PolicyPassed ==
    \A r \in Requests :
        pc[r] \in {"get", "createLease", "updateLease", "count", "store"}
            => WithinPolicy(Ask[r])

\* A request that is about to record its operation found room for it, and the
\* room is still there.
RoomInv ==
    /\ \A r \in Requests : pc[r] = "store" => Cardinality(Active) < MaxConcurrent
    /\ QuotaRespected

-----------------------------------------------------------------------------
\* Every step keeps the types of the admission state.
LEMMA TypeStep == TypeOK /\ [Next]_vars => TypeOK'
<1> SUFFICES ASSUME TypeOK, [Next]_vars PROVE TypeOK'
  OBVIOUS
<1> USE ConstantsOK DEF TypeOK, Labels, Leases
<1>1. ASSUME NEW r \in Requests, Lock(r) PROVE TypeOK'
  BY <1>1 DEF Lock, Goto
<1>2. ASSUME NEW r \in Requests, CheckPolicy(r) PROVE TypeOK'
  BY <1>2 DEF CheckPolicy, Goto, Leave
<1>3. ASSUME NEW r \in Requests, GetLease(r) PROVE TypeOK'
  BY <1>3 DEF GetLease, Goto
<1>4. ASSUME NEW r \in Requests, CreateLease(r) PROVE TypeOK'
  BY <1>4 DEF CreateLease, Goto, PutLease, Held
<1>5. ASSUME NEW r \in Requests, UpdateLease(r) PROVE TypeOK'
  BY <1>5 DEF UpdateLease, Goto, Leave, PutLease, Held
<1>6. ASSUME NEW r \in Requests, CountActive(r) PROVE TypeOK'
  BY <1>6 DEF CountActive, Goto
<1>7. ASSUME NEW r \in Requests, StoreCreate(r) PROVE TypeOK'
  BY <1>7 DEF StoreCreate, Goto
<1>8. ASSUME NEW r \in Requests, ReleaseLease(r) PROVE TypeOK'
  BY <1>8 DEF ReleaseLease, Goto, Leave, PutLease, NoLease
<1>9. ASSUME NEW r \in Requests, GiveUp(r) PROVE TypeOK'
  BY <1>9 DEF GiveUp, Goto, Leave
<1>10. ASSUME NEW k \in Keys, RetireOperation(k) \/ RemoveOperation(k) PROVE TypeOK'
  BY <1>10 DEF RetireOperation, RemoveOperation
<1>11. ASSUME NEW p \in Replicas, Crash(p) PROVE TypeOK'
  BY <1>11 DEF Crash
<1>12. ASSUME Tick PROVE TypeOK'
  BY <1>12 DEF Tick
<1>13. ASSUME UNCHANGED vars PROVE TypeOK'
  BY <1>13 DEF vars
<1> QED
  BY <1>1, <1>2, <1>3, <1>4, <1>5, <1>6, <1>7, <1>8, <1>9, <1>10, <1>11, <1>12,
     <1>13 DEF Next, Handler

\* Type correctness of the admission state, whether or not requests are timely.
THEOREM TypeCorrect == Spec => []TypeOK
<1>1. Init => TypeOK
  BY ConstantsOK DEF Init, TypeOK, NoLease, Leases, Labels
<1> QED
  BY <1>1, TypeStep, PTL DEF Spec

-----------------------------------------------------------------------------
\* The Lease invariant excludes two requests from the critical section.
LEMMA LeaseExcludes == LeaseInv => MutualExclusion
BY DEF LeaseInv, HolderOwnsLease, MutualExclusion

\* Every step of timely requests keeps the Lease invariant.
LEMMA LeaseStep ==
    ASSUME Timely, LeaseInv, [Next]_vars PROVE LeaseInv'
<1>1. TypeOK'
  BY TypeStep DEF LeaseInv
<1> USE ConstantsOK DEF LeaseInv, InTime, HolderOwnsLease, TakeoverOfExpired,
        LeaseHasHolder, TypeOK, Leases, Critical, Claiming, LeaseExists
<1>2. ASSUME NEW r \in Requests, Lock(r) PROVE LeaseInv'
  BY <1>1, <1>2 DEF Lock, Goto
<1>3. ASSUME NEW r \in Requests, CheckPolicy(r) PROVE LeaseInv'
  BY <1>1, <1>3 DEF CheckPolicy, Goto, Leave
<1>4. ASSUME NEW r \in Requests, GetLease(r) PROVE LeaseInv'
  BY <1>1, <1>4 DEF GetLease, Goto, LeaseAvailable
<1>5. ASSUME NEW r \in Requests, CreateLease(r) PROVE LeaseInv'
  BY <1>1, <1>5 DEF CreateLease, Goto, PutLease, Held, NoLease
<1>6. ASSUME NEW r \in Requests, UpdateLease(r) PROVE LeaseInv'
  BY <1>1, <1>6 DEF UpdateLease, Goto, Leave, PutLease, Held, NoLease
<1>7. ASSUME NEW r \in Requests, CountActive(r) PROVE LeaseInv'
  BY <1>1, <1>7 DEF CountActive, Goto
<1>8. ASSUME NEW r \in Requests, StoreCreate(r) PROVE LeaseInv'
  BY <1>1, <1>8 DEF StoreCreate, Goto
<1>9. ASSUME NEW r \in Requests, ReleaseLease(r) PROVE LeaseInv'
  BY <1>1, <1>9 DEF ReleaseLease, Goto, Leave, PutLease, NoLease
<1>10. ASSUME NEW r \in Requests, GiveUp(r) PROVE LeaseInv'
  BY <1>1, <1>10 DEF GiveUp, Goto, Leave
<1>11. ASSUME NEW k \in Keys, RetireOperation(k) \/ RemoveOperation(k)
       PROVE  LeaseInv'
  BY <1>1, <1>11 DEF RetireOperation, RemoveOperation
<1>12. ASSUME NEW p \in Replicas, Crash(p) PROVE LeaseInv'
  BY <1>1, <1>12 DEF Crash
<1>13. ASSUME Tick PROVE LeaseInv'
  BY <1>1, <1>13 DEF Tick, NoLease, Timely
<1>14. ASSUME UNCHANGED vars PROVE LeaseInv'
  BY <1>1, <1>14 DEF vars
<1> QED
  BY <1>2, <1>3, <1>4, <1>5, <1>6, <1>7, <1>8, <1>9, <1>10, <1>11, <1>12, <1>13,
     <1>14 DEF Next, Handler

\* The Lease invariant holds at the start.
LEMMA LeaseInit == Init => LeaseInv
BY ConstantsOK DEF Init, LeaseInv, TypeOK, InTime, HolderOwnsLease,
   TakeoverOfExpired, LeaseHasHolder, Leases, Labels, NoLease, LeaseExists,
   Critical, Claiming

\* No two requests of a tenant are in the critical section at once
\* (admission.go acquireTenantLease), for timely requests.
THEOREM AdmissionExclusive == ASSUME Timely PROVE Spec => []MutualExclusion
<1>1. LeaseInv /\ [Next]_vars => LeaseInv'
  BY LeaseStep
<1> QED
  BY <1>1, LeaseInit, LeaseExcludes, PTL DEF Spec

-----------------------------------------------------------------------------
\* A step keeps the recorded operations, records one in the critical section,
\* or retires or removes one.
LEMMA OperationsStep ==
    ASSUME TypeOK, [Next]_vars
    PROVE  \/ operations' = operations
           \/ \E r \in Requests :
                 /\ StoreCreate(r) /\ operations[KeyOf[r]] = "none"
                 /\ operations' = [operations EXCEPT ![KeyOf[r]] = "active"]
           \/ \E k \in Keys : RetireOperation(k) \/ RemoveOperation(k)
BY DEF Next, Handler, Lock, CheckPolicy, GetLease, CreateLease, UpdateLease,
   CountActive, StoreCreate, ReleaseLease, GiveUp, Crash, Tick, vars

\* Active operations are finite, and one more or fewer of them counts as such.
LEMMA ActiveFinite == IsFiniteSet(Active) /\ Cardinality(Active) \in Nat
<1>1. Active \in SUBSET Keys
  BY DEF Active
<1>2. IsFiniteSet(Active)
  BY <1>1, FS_Subset, ConstantsOK
<1> QED
  BY <1>2, FS_CardinalityType

\* Retiring and removing operations frees room and takes none.
LEMMA RetireFrees ==
    ASSUME TypeOK, NEW k \in Keys, RetireOperation(k) \/ RemoveOperation(k)
    PROVE  Cardinality(Active') <= Cardinality(Active) /\ Cardinality(Active') \in Nat
<1>1. Active' \in SUBSET Active
  BY DEF TypeOK, Active, RetireOperation, RemoveOperation
<1>2. IsFiniteSet(Active)
  BY ActiveFinite
<1>3. IsFiniteSet(Active') /\ Cardinality(Active') <= Cardinality(Active)
  BY <1>1, <1>2, FS_Subset
<1> QED
  BY <1>3, FS_CardinalityType

\* Recording an operation takes at most one place.
LEMMA StoreTakesOne ==
    ASSUME TypeOK, NEW r \in Requests,
           operations' = [operations EXCEPT ![KeyOf[r]] = "active"]
    PROVE  Cardinality(Active') <= Cardinality(Active) + 1 /\ Cardinality(Active') \in Nat
<1>1. Active' = Active \cup {KeyOf[r]}
  BY ConstantsOK DEF TypeOK, Active
<1>2. IsFiniteSet(Active) /\ Cardinality(Active) \in Nat
  BY ActiveFinite
<1>3. Cardinality(Active \cup {KeyOf[r]}) \in {Cardinality(Active), Cardinality(Active) + 1}
  BY <1>2, FS_AddElement
<1> QED
  BY <1>1, <1>2, <1>3

\* Every step that keeps the critical section exclusive keeps the room that a
\* request found.
LEMMA RoomStep ==
    ASSUME TypeOK, MutualExclusion, RoomInv, [Next]_vars PROVE RoomInv'
<1> DEFINE n == Cardinality(Active)
<1>0. n \in Nat /\ n <= MaxConcurrent /\ MaxConcurrent \in Nat
  BY ActiveFinite, ConstantsOK DEF RoomInv, QuotaRespected
<1>1. CASE operations' = operations
  <2>1. n' = n
    BY <1>1 DEF Active
  <2>2. ASSUME NEW r \in Requests, pc'[r] = "store" PROVE n < MaxConcurrent
    <3>1. CASE pc[r] = "store"
      BY <3>1 DEF RoomInv
    <3>2. CASE pc[r] # "store"
      BY <2>2, <3>2 DEF TypeOK, Next, Handler, Lock, CheckPolicy, GetLease,
         CreateLease, UpdateLease, CountActive, StoreCreate, ReleaseLease, GiveUp,
         RetireOperation, RemoveOperation, Crash, Tick, vars, Goto, Leave
    <3> QED
      BY <3>1, <3>2
  <2> QED
    BY <1>0, <2>1, <2>2 DEF RoomInv, QuotaRespected
<1>2. CASE \E r \in Requests :
             /\ StoreCreate(r) /\ operations[KeyOf[r]] = "none"
             /\ operations' = [operations EXCEPT ![KeyOf[r]] = "active"]
  <2>1. PICK r \in Requests :
             /\ StoreCreate(r)
             /\ operations' = [operations EXCEPT ![KeyOf[r]] = "active"]
    BY <1>2
  <2>2. n < MaxConcurrent
    BY <2>1 DEF StoreCreate, RoomInv
  <2>3. n' <= n + 1 /\ n' \in Nat
    BY <2>1, StoreTakesOne
  <2>4. ASSUME NEW q \in Requests PROVE pc'[q] # "store"
    BY <2>1 DEF StoreCreate, Goto, TypeOK, MutualExclusion, Critical
  <2> QED
    BY <1>0, <2>2, <2>3, <2>4 DEF RoomInv, QuotaRespected
<1>3. CASE \E k \in Keys : RetireOperation(k) \/ RemoveOperation(k)
  <2>1. n' <= n /\ n' \in Nat /\ pc' = pc
    BY <1>3, RetireFrees DEF RetireOperation, RemoveOperation
  <2> QED
    BY <1>0, <2>1 DEF RoomInv, QuotaRespected
<1> QED
  BY <1>1, <1>2, <1>3, OperationsStep

\* Every step keeps the policy verdict of the requests that go on.
LEMMA PolicyStep ==
    ASSUME TypeOK, PolicyPassed, [Next]_vars PROVE PolicyPassed'
<1> SUFFICES ASSUME NEW r \in Requests,
                    pc'[r] \in {"get", "createLease", "updateLease", "count", "store"}
             PROVE  WithinPolicy(Ask[r])
  BY DEF PolicyPassed, WithinPolicy
<1>1. CASE pc[r] \in {"get", "createLease", "updateLease", "count", "store"}
  BY <1>1 DEF PolicyPassed
<1>2. CASE pc[r] \notin {"get", "createLease", "updateLease", "count", "store"}
  BY <1>2 DEF TypeOK, Next, Handler, Lock, CheckPolicy, GetLease, CreateLease,
     UpdateLease, CountActive, StoreCreate, ReleaseLease, GiveUp, RetireOperation,
     RemoveOperation, Crash, Tick, vars, Goto, Leave
<1> QED
  BY <1>1, <1>2

AdmissionInv == LeaseInv /\ PolicyPassed /\ RoomInv

\* The inductive invariant of timely admission.
LEMMA AdmissionInductive == ASSUME Timely PROVE Spec => []AdmissionInv
<1>1. Init => AdmissionInv
  <2> SUFFICES ASSUME Init PROVE PolicyPassed /\ RoomInv
    BY LeaseInit DEF AdmissionInv
  <2>1. Active = {}
    BY DEF Init, Active
  <2>2. Cardinality(Active) = 0
    BY <2>1, FS_EmptySet
  <2> QED
    BY <2>2, ConstantsOK DEF Init, PolicyPassed, RoomInv, QuotaRespected
<1>2. AdmissionInv /\ [Next]_vars => AdmissionInv'
  <2> SUFFICES ASSUME AdmissionInv, [Next]_vars PROVE AdmissionInv'
    OBVIOUS
  <2>1. TypeOK /\ MutualExclusion
    BY LeaseExcludes DEF AdmissionInv, LeaseInv
  <2> QED
    BY <2>1, LeaseStep, PolicyStep, RoomStep DEF AdmissionInv
<1> QED
  BY <1>1, <1>2, PTL DEF Spec

\* The tenant's budget is respected by timely requests, for any number of
\* requests, replicas and crashes (study-guide.md:1470).
THEOREM BudgetRespected == ASSUME Timely PROVE Spec => []QuotaRespected
<1>1. AdmissionInv => QuotaRespected
  BY DEF AdmissionInv, RoomInv
<1> QED
  BY <1>1, AdmissionInductive, PTL

\* Timely Lease-based admission implements the atomic, policy-checked budget of
\* QuotaAdmission: an admission happens at store.Create, everything else
\* stutters.
THEOREM ImplementsQuota == ASSUME Timely PROVE Spec => AdmissionImplementsQuota
<1>1. Init => Quota!Init
  BY DEF Init, Quota!Init
<1>2. ASSUME AdmissionInv, [Next]_vars PROVE [Quota!Next]_operations
  <2>1. TypeOK
    BY <1>2 DEF AdmissionInv, LeaseInv
  <2>2. CASE operations' = operations
    BY <2>2
  <2>3. CASE \E r \in Requests :
               /\ StoreCreate(r) /\ operations[KeyOf[r]] = "none"
               /\ operations' = [operations EXCEPT ![KeyOf[r]] = "active"]
    <3>1. PICK r \in Requests :
               /\ StoreCreate(r) /\ operations[KeyOf[r]] = "none"
               /\ operations' = [operations EXCEPT ![KeyOf[r]] = "active"]
      BY <2>3
    <3>2. KeyOf[r] \in Permitted
      BY <1>2, <3>1 DEF AdmissionInv, PolicyPassed, StoreCreate, Permitted
    <3>3. Cardinality(Active) < MaxConcurrent
      BY <1>2, <3>1 DEF AdmissionInv, RoomInv, StoreCreate
    <3>4. Quota!Cardinality(Quota!ActiveIn(operations)) = Cardinality(Active)
      BY Zenon DEF Quota!ActiveIn, Active, Quota!Cardinality, Cardinality,
         Quota!IsFiniteSet, IsFiniteSet
    <3> QED
      BY <3>1, <3>2, <3>3, <3>4, ConstantsOK DEF Quota!Next, Quota!Admit
  <2>4. CASE \E k \in Keys : RetireOperation(k) \/ RemoveOperation(k)
    BY <2>4 DEF RetireOperation, RemoveOperation, Quota!Next, Quota!Retire,
       Quota!Remove
  <2> QED
    BY <1>2, <2>1, <2>2, <2>3, <2>4, OperationsStep
<1>3. AdmissionInv /\ [Next]_vars => [Quota!Next]_operations
  BY <1>2
<1> QED
  BY <1>1, <1>3, AdmissionInductive, PTL DEF Spec, AdmissionImplementsQuota, Quota!Spec

=============================================================================
