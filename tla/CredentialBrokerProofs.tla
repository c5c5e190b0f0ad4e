----------------------- MODULE CredentialBrokerProofs -----------------------
(***************************************************************************)
(* CredentialBroker for any number of requests, replicas, grants, Pods and *)
(* key rotations, and any clock skew.  RevocationHolds and                 *)
(* BindingHeldAtOnce speak of requests that have ended; what they need of  *)
(* the steps before is the inductive invariant: Served, Revoked, Bound and *)
(* Audited.                                                                *)
(***************************************************************************)
EXTENDS CredentialBroker, TLAPS

\* A request that is under way has a replica and a signed grant, and tokens that
\* were handed out or revoked were signed.
Served ==
    /\ \A p \in Requests : pc[p] \notin {"idle", "failed"} =>
            serves[p] \in Replicas /\ grant[p] \in Grants /\ Signed(grant[p])
    /\ \A g \in held : Signed(g)
    /\ \A g \in everRevoked : Signed(g)

\* A revocation is on record until some clock has passed the end of its grant,
\* and a verification that began after it does not pass the lookup before.
Revoked ==
    /\ \A g \in everRevoked : g \in records \/ Expired(g)
    /\ \A p \in Requests :
         /\ pc[p] = "lookup" /\ priorRevoke[p] => grant[p] \in everRevoked
         /\ pc[p] = "purge" => Expired(grant[p])
         /\ pc[p] \in {"assignment", "pod", "recordUse", "valid"} /\ priorRevoke[p] => Expired(grant[p])

\* Between the reads of the assignment and of the Pod: the Pod was alive at the
\* first, or it is gone and will not come back under this incarnation.
Bound ==
    \A p \in Requests :
       /\ pc[p] = "pod" =>
            sawLive[p] \/ (claims[grant[p]].binding <= bound /\ claims[grant[p]].binding \notin podLive)
       /\ pc[p] \in {"recordUse", "valid"} => sawLive[p]

\* No request has an audit record before it begins, and a revocation is stored
\* before it is recorded.
Audited ==
    /\ AcknowledgedIsAudited
    /\ \A p \in Requests :
         /\ pc[p] = "idle" => \A a \in {"issued", "used", "revoked"} : <<a, p>> \notin audit
         /\ pc[p] = "recordRevoke" => grant[p] \in everRevoked

-----------------------------------------------------------------------------
(* The claims of a signed grant never change, and clocks only advance. *)

\* Once a clock has passed the end of a signed grant, it stays so.
LEMMA ExpiredStays ==
    ASSUME TypeOK, TypeOK', [Next]_vars, NEW g \in Grants, Signed(g), Expired(g)
    PROVE  Expired(g)' /\ claims'[g] = claims[g]
<1>1. claims'[g] = claims[g]
  BY DEF Next, Serve, Issue, IssueRecord, Verify, Present, Revoke, IsRevoked, Purge, ValidateAssignment,
         ValidatePod, RecordUse, StoreRevoke, RecordRevoke, Restart, PodEnds, Withdraw, Restore, Rebind,
         Tick, vars, world, store, history, TypeOK, Signed
<1>2. now' >= now
  BY DEF Next, Serve, Issue, IssueRecord, Verify, Present, Revoke, IsRevoked, Purge, ValidateAssignment,
         ValidatePod, RecordUse, StoreRevoke, RecordRevoke, Restart, PodEnds, Withdraw, Restore, Rebind,
         Tick, vars, world, store, history, TypeOK
<1>3. PICK r \in Replicas : claims[g].exp <= Clock(r)
  BY DEF Expired
<1>4. claims[g].exp \in Nat /\ Skew[r] \in Nat
  BY BrokerAssumption DEF TypeOK, GrantClaims
<1>5. claims'[g].exp <= Clock(r)'
  BY <1>1, <1>2, <1>3, <1>4 DEF Clock, TypeOK
<1> QED BY <1>1, <1>5 DEF Expired

\* A history of yes and no stays one.
LEMMA BooleanUpdate ==
    ASSUME NEW S, NEW f \in [S -> BOOLEAN], NEW x \in S, NEW A, NEW a
    PROVE  [f EXCEPT ![x] = a \in A] \in [S -> BOOLEAN]
OBVIOUS

\* Every step keeps the types.
LEMMA TypeStep ==
    ASSUME TypeOK, Served, [Next]_vars
    PROVE  TypeOK'
<1> USE BrokerAssumption DEF TypeOK, Steps, Final, GrantClaims, Goto, Clock, vars, world, store, history, Served
<1>1. ASSUME NEW p \in Requests, NEW r \in Replicas, NEW g \in Grants, NEW ttl \in TTLs, Issue(p, r, g, ttl) PROVE TypeOK'
  <2>1. claims' \in [Grants -> GrantClaims]
    <3>1. CASE UNCHANGED claims
      BY <3>1
    <3>2. ASSUME NEW b \in 1..bound,
                 claims' = [claims EXCEPT ![g] =
                   [binding |-> b, nbf |-> Clock(r), exp |-> Clock(r) + ttl, key |-> generation[r]]]
          PROVE  claims' \in [Grants -> GrantClaims]
      <4>1. b \in 0..MaxBinding /\ Clock(r) \in Nat /\ ttl \in Nat /\ generation[r] \in 0..MaxGeneration
        OBVIOUS
      <4> QED BY <3>2, <4>1
    <3> QED BY <1>1, <3>1, <3>2 DEF Issue
  <2> QED BY <1>1, <2>1 DEF Issue
<1>2. ASSUME NEW p \in Requests, NEW r \in Replicas, NEW g \in Grants, Verify(p, r, g) PROVE TypeOK'
  BY <1>2 DEF Verify, Present
<1>3. ASSUME NEW p \in Requests, NEW r \in Replicas, NEW g \in Grants, Revoke(p, r, g) PROVE TypeOK'
  BY <1>3 DEF Revoke, Present
<1>4. ASSUME NEW p \in Requests, IssueRecord(p) PROVE TypeOK'
  BY <1>4 DEF IssueRecord
<1>5. ASSUME NEW p \in Requests, IsRevoked(p) PROVE TypeOK'
  BY <1>5 DEF IsRevoked
<1>6. ASSUME NEW p \in Requests, Purge(p) PROVE TypeOK'
  BY <1>6 DEF Purge
<1>7. ASSUME NEW p \in Requests, ValidateAssignment(p) PROVE TypeOK'
  <2>1. sawLive' \in [Requests -> BOOLEAN]
    <3>1. [sawLive EXCEPT ![p] = bound \in podLive] \in [Requests -> BOOLEAN]
      BY BooleanUpdate, Zenon
    <3>2. sawLive' = [sawLive EXCEPT ![p] = bound \in podLive] \/ sawLive' = sawLive
      BY <1>7, Zenon DEF ValidateAssignment
    <3> QED BY <3>1, <3>2, Zenon
  <2> QED BY <1>7, <2>1 DEF ValidateAssignment
<1>8. ASSUME NEW p \in Requests, ValidatePod(p) PROVE TypeOK'
  BY <1>8 DEF ValidatePod
<1>9. ASSUME NEW p \in Requests, RecordUse(p) PROVE TypeOK'
  BY <1>9 DEF RecordUse
<1>10. ASSUME NEW p \in Requests, StoreRevoke(p) PROVE TypeOK'
  BY <1>10 DEF StoreRevoke
<1>11. ASSUME NEW p \in Requests, RecordRevoke(p) PROVE TypeOK'
  BY <1>11 DEF RecordRevoke
<1>12. ASSUME NEW r \in Replicas, Restart(r) PROVE TypeOK'
  BY <1>12 DEF Restart
<1>13. ASSUME NEW b \in 1..MaxBinding, PodEnds(b) PROVE TypeOK'
  BY <1>13 DEF PodEnds
<1>14. ASSUME Withdraw PROVE TypeOK'
  BY <1>14 DEF Withdraw
<1>15. ASSUME Restore PROVE TypeOK'
  BY <1>15 DEF Restore
<1>16. ASSUME Rebind PROVE TypeOK'
  BY <1>16 DEF Rebind
<1>17. ASSUME Tick PROVE TypeOK'
  BY <1>17 DEF Tick
<1>18. CASE UNCHANGED vars
  BY <1>18
<1> QED
  BY <1>1, <1>2, <1>3, <1>4, <1>5, <1>6, <1>7, <1>8, <1>9, <1>10, <1>11, <1>12, <1>13, <1>14, <1>15, <1>16, <1>17, <1>18 DEF Next, Serve

\* Every step keeps Served: a request takes up a grant that is signed.
LEMMA ServedStep ==
    ASSUME TypeOK, Served, [Next]_vars
    PROVE  Served'
<1> USE BrokerAssumption DEF TypeOK, Final, GrantClaims, Goto, Clock, vars, world, store, history, Served, Unsigned, Signed
<1>1. ASSUME NEW p \in Requests, NEW r \in Replicas, NEW g \in Grants, NEW ttl \in TTLs, Issue(p, r, g, ttl) PROVE Served'
  BY <1>1 DEF Issue
<1>2. ASSUME NEW p \in Requests, NEW r \in Replicas, NEW g \in Grants, Verify(p, r, g) PROVE Served'
  BY <1>2 DEF Verify, Present
<1>3. ASSUME NEW p \in Requests, NEW r \in Replicas, NEW g \in Grants, Revoke(p, r, g) PROVE Served'
  BY <1>3 DEF Revoke, Present
<1>4. ASSUME NEW p \in Requests, IssueRecord(p) PROVE Served'
  BY <1>4 DEF IssueRecord
<1>5. ASSUME NEW p \in Requests, IsRevoked(p) PROVE Served'
  BY <1>5 DEF IsRevoked
<1>6. ASSUME NEW p \in Requests, Purge(p) PROVE Served'
  BY <1>6 DEF Purge
<1>7. ASSUME NEW p \in Requests, ValidateAssignment(p) PROVE Served'
  BY <1>7 DEF ValidateAssignment
<1>8. ASSUME NEW p \in Requests, ValidatePod(p) PROVE Served'
  BY <1>8 DEF ValidatePod
<1>9. ASSUME NEW p \in Requests, RecordUse(p) PROVE Served'
  BY <1>9 DEF RecordUse
<1>10. ASSUME NEW p \in Requests, StoreRevoke(p) PROVE Served'
  BY <1>10 DEF StoreRevoke
<1>11. ASSUME NEW p \in Requests, RecordRevoke(p) PROVE Served'
  BY <1>11 DEF RecordRevoke
<1>12. ASSUME NEW r \in Replicas, Restart(r) PROVE Served'
  BY <1>12 DEF Restart
<1>13. ASSUME NEW b \in 1..MaxBinding, PodEnds(b) PROVE Served'
  BY <1>13 DEF PodEnds
<1>14. ASSUME Withdraw PROVE Served'
  BY <1>14 DEF Withdraw
<1>15. ASSUME Restore PROVE Served'
  BY <1>15 DEF Restore
<1>16. ASSUME Rebind PROVE Served'
  BY <1>16 DEF Rebind
<1>17. ASSUME Tick PROVE Served'
  BY <1>17 DEF Tick
<1>18. CASE UNCHANGED vars
  BY <1>18
<1> QED
  BY <1>1, <1>2, <1>3, <1>4, <1>5, <1>6, <1>7, <1>8, <1>9, <1>10, <1>11, <1>12, <1>13, <1>14, <1>15, <1>16, <1>17, <1>18 DEF Next, Serve

\* Records and revocations stay, and a request keeps the grant that it began with.
LEMMA HistoryStays ==
    ASSUME TypeOK, [Next]_vars
    PROVE  /\ audit \subseteq audit' /\ everRevoked \subseteq everRevoked'
           /\ \A p \in Requests : pc[p] # "idle" => grant'[p] = grant[p] /\ pc'[p] # "idle"
BY DEF TypeOK, Next, Serve, Issue, IssueRecord, Verify, Present, Revoke, IsRevoked, Purge,
       ValidateAssignment, ValidatePod, RecordUse, StoreRevoke, RecordRevoke, Restart, PodEnds, Withdraw,
       Restore, Rebind, Tick, Goto, Final, vars, world, store, history

\* What is left of Audited once the grants that were handed out are set apart.
Recorded ==
    \A p \in Requests :
       /\ pc[p] = "valid" => <<"used", p>> \in audit
       /\ pc[p] = "revoked" => <<"revoked", p>> \in audit /\ grant[p] \in everRevoked
       /\ pc[p] = "idle" => \A a \in {"issued", "used", "revoked"} : <<a, p>> \notin audit
       /\ pc[p] = "recordRevoke" => grant[p] \in everRevoked

\* Every step keeps Recorded: an answer follows its record.
LEMMA RecordedStep ==
    ASSUME TypeOK, Recorded, [Next]_vars
    PROVE  Recorded'
<1> USE DEF TypeOK, Recorded, Final, Goto, vars, world, store, history
<1>1. ASSUME NEW p \in Requests, NEW r \in Replicas, NEW g \in Grants, NEW ttl \in TTLs, Issue(p, r, g, ttl) PROVE Recorded'
  BY <1>1 DEF Issue
<1>2. ASSUME NEW p \in Requests, NEW r \in Replicas, NEW g \in Grants, Verify(p, r, g) PROVE Recorded'
  BY <1>2 DEF Verify, Present
<1>3. ASSUME NEW p \in Requests, NEW r \in Replicas, NEW g \in Grants, Revoke(p, r, g) PROVE Recorded'
  BY <1>3 DEF Revoke, Present
<1>4. ASSUME NEW p \in Requests, IssueRecord(p) PROVE Recorded'
  <2>1. \A q \in Requests : \A e \in {"issued", "used", "revoked"} :
          <<e, q>> \in audit' => <<e, q>> \in audit \/ q = p
    BY <1>4 DEF IssueRecord
  <2>2. audit \subseteq audit' /\ (pc'[p] = "issued" => <<"issued", p>> \in audit')
    BY <1>4 DEF IssueRecord
  <2>3. pc' = [pc EXCEPT ![p] = pc'[p]] /\ pc'[p] \in {"issued", "failed"} /\ UNCHANGED <<grant, everRevoked>>
    BY <1>4 DEF IssueRecord
  <2> QED BY <1>4, <2>1, <2>2, <2>3 DEF IssueRecord
<1>5. ASSUME NEW p \in Requests, IsRevoked(p) PROVE Recorded'
  BY <1>5 DEF IsRevoked
<1>6. ASSUME NEW p \in Requests, Purge(p) PROVE Recorded'
  BY <1>6 DEF Purge
<1>7. ASSUME NEW p \in Requests, ValidateAssignment(p) PROVE Recorded'
  BY <1>7 DEF ValidateAssignment
<1>8. ASSUME NEW p \in Requests, ValidatePod(p) PROVE Recorded'
  BY <1>8 DEF ValidatePod
<1>9. ASSUME NEW p \in Requests, RecordUse(p) PROVE Recorded'
  <2>1. \A q \in Requests : \A e \in {"issued", "used", "revoked"} :
          <<e, q>> \in audit' => <<e, q>> \in audit \/ q = p
    BY <1>9 DEF RecordUse
  <2>2. audit \subseteq audit' /\ (pc'[p] = "valid" => <<"used", p>> \in audit')
    BY <1>9 DEF RecordUse
  <2>3. pc' = [pc EXCEPT ![p] = pc'[p]] /\ pc'[p] \in {"valid", "failed"} /\ UNCHANGED <<grant, everRevoked>>
    BY <1>9 DEF RecordUse
  <2> QED BY <1>9, <2>1, <2>2, <2>3 DEF RecordUse
<1>10. ASSUME NEW p \in Requests, StoreRevoke(p) PROVE Recorded'
  BY <1>10 DEF StoreRevoke
<1>11. ASSUME NEW p \in Requests, RecordRevoke(p) PROVE Recorded'
  <2>1. \A q \in Requests : \A e \in {"issued", "used", "revoked"} :
          <<e, q>> \in audit' => <<e, q>> \in audit \/ q = p
    BY <1>11 DEF RecordRevoke
  <2>2. audit \subseteq audit' /\ (pc'[p] = "revoked" => <<"revoked", p>> \in audit')
    BY <1>11 DEF RecordRevoke
  <2>3. pc' = [pc EXCEPT ![p] = pc'[p]] /\ pc'[p] \in {"revoked", "failed"} /\ UNCHANGED <<grant, everRevoked>>
    BY <1>11 DEF RecordRevoke
  <2> QED BY <1>11, <2>1, <2>2, <2>3 DEF RecordRevoke
<1>12. ASSUME NEW r \in Replicas, Restart(r) PROVE Recorded'
  BY <1>12 DEF Restart
<1>13. ASSUME NEW b \in 1..MaxBinding, PodEnds(b) PROVE Recorded'
  BY <1>13 DEF PodEnds
<1>14. ASSUME Withdraw PROVE Recorded'
  BY <1>14 DEF Withdraw
<1>15. ASSUME Restore PROVE Recorded'
  BY <1>15 DEF Restore
<1>16. ASSUME Rebind PROVE Recorded'
  BY <1>16 DEF Rebind
<1>17. ASSUME Tick PROVE Recorded'
  BY <1>17 DEF Tick
<1>18. CASE UNCHANGED vars
  BY <1>18
<1> QED
  BY <1>1, <1>2, <1>3, <1>4, <1>5, <1>6, <1>7, <1>8, <1>9, <1>10, <1>11, <1>12, <1>13, <1>14, <1>15, <1>16, <1>17, <1>18 DEF Next, Serve

\* Every step keeps Audited.
LEMMA AuditedStep ==
    ASSUME TypeOK, Audited, [Next]_vars
    PROVE  Audited'
<1>1. Recorded'
  BY RecordedStep DEF Audited, AcknowledgedIsAudited, Recorded
<1>2. ASSUME NEW g \in held' PROVE \E p \in Requests : grant'[p] = g /\ <<"issued", p>> \in audit'
  <2>1. CASE g \in held
    <3>1. PICK p \in Requests : grant[p] = g /\ <<"issued", p>> \in audit
      BY <2>1 DEF Audited, AcknowledgedIsAudited
    <3>2. pc[p] # "idle"
      BY <3>1 DEF Audited
    <3> QED BY <3>1, <3>2, HistoryStays
  <2>2. CASE g \notin held
    <3>1. PICK p \in Requests : IssueRecord(p) /\ held' = held \union {grant[p]}
      BY <1>2, <2>2 DEF Next, Serve, Issue, IssueRecord, Verify, Present, Revoke, IsRevoked, Purge,
             ValidateAssignment, ValidatePod, RecordUse, StoreRevoke, RecordRevoke, Restart, PodEnds,
             Withdraw, Restore, Rebind, Tick, vars, world, store, history
    <3>2. grant'[p] = g /\ <<"issued", p>> \in audit'
      BY <1>2, <2>2, <3>1 DEF IssueRecord
    <3> QED BY <3>2
  <2> QED BY <2>1, <2>2
<1> QED BY <1>1, <1>2 DEF Recorded, Audited, AcknowledgedIsAudited

\* Every step keeps Bound: a Pod that is gone stays gone.
LEMMA BoundStep ==
    ASSUME TypeOK, TypeOK', Served, Bound, [Next]_vars
    PROVE  Bound'
<1> USE DEF TypeOK, Served, GrantClaims, Bound, Final, Unsigned, Signed, Goto, vars, world, store, history
<1>1. ASSUME NEW p \in Requests, NEW r \in Replicas, NEW g \in Grants, NEW ttl \in TTLs, Issue(p, r, g, ttl) PROVE Bound'
  BY <1>1 DEF Issue
<1>2. ASSUME NEW p \in Requests, NEW r \in Replicas, NEW g \in Grants, Verify(p, r, g) PROVE Bound'
  BY <1>2 DEF Verify, Present
<1>3. ASSUME NEW p \in Requests, NEW r \in Replicas, NEW g \in Grants, Revoke(p, r, g) PROVE Bound'
  BY <1>3 DEF Revoke, Present
<1>4. ASSUME NEW p \in Requests, IssueRecord(p) PROVE Bound'
  BY <1>4 DEF IssueRecord
<1>5. ASSUME NEW p \in Requests, IsRevoked(p) PROVE Bound'
  BY <1>5 DEF IsRevoked
<1>6. ASSUME NEW p \in Requests, Purge(p) PROVE Bound'
  BY <1>6 DEF Purge
<1>7. ASSUME NEW p \in Requests, ValidateAssignment(p) PROVE Bound'
  BY <1>7 DEF ValidateAssignment
<1>8. ASSUME NEW p \in Requests, ValidatePod(p) PROVE Bound'
  BY <1>8 DEF ValidatePod
<1>9. ASSUME NEW p \in Requests, RecordUse(p) PROVE Bound'
  BY <1>9 DEF RecordUse
<1>10. ASSUME NEW p \in Requests, StoreRevoke(p) PROVE Bound'
  BY <1>10 DEF StoreRevoke
<1>11. ASSUME NEW p \in Requests, RecordRevoke(p) PROVE Bound'
  BY <1>11 DEF RecordRevoke
<1>12. ASSUME NEW r \in Replicas, Restart(r) PROVE Bound'
  BY <1>12 DEF Restart
<1>13. ASSUME NEW b \in 1..MaxBinding, PodEnds(b) PROVE Bound'
  BY <1>13 DEF PodEnds
<1>14. ASSUME Withdraw PROVE Bound'
  BY <1>14 DEF Withdraw
<1>15. ASSUME Restore PROVE Bound'
  BY <1>15 DEF Restore
<1>16. ASSUME Rebind PROVE Bound'
  BY <1>16 DEF Rebind
<1>17. ASSUME Tick PROVE Bound'
  BY <1>17 DEF Tick
<1>18. CASE UNCHANGED vars
  BY <1>18
<1> QED
  BY <1>1, <1>2, <1>3, <1>4, <1>5, <1>6, <1>7, <1>8, <1>9, <1>10, <1>11, <1>12, <1>13, <1>14, <1>15, <1>16, <1>17, <1>18 DEF Next, Serve

\* Every step keeps Revoked: a record is deleted only when some clock has passed its grant.
LEMMA RevokedStep ==
    ASSUME TypeOK, TypeOK', Served, Revoked, [Next]_vars
    PROVE  Revoked'
<1> USE DEF Revoked, Final, Goto, vars, world, store, history
<1>a. \A g \in Grants : Signed(g) /\ Expired(g) => Expired(g)'
  BY ExpiredStays
<1>b. /\ \A p \in Requests : pc[p] \notin {"idle", "failed"} =>
            serves[p] \in Replicas /\ grant[p] \in Grants /\ Signed(grant[p])
      /\ \A g \in everRevoked : g \in Grants /\ Signed(g)
      /\ pc \in [Requests -> Steps] /\ priorRevoke \in [Requests -> BOOLEAN]
      /\ grant \in [Requests -> Grants \union {NoGrant}] /\ everRevoked \subseteq Grants
      /\ serves \in [Requests -> Replicas \union {NoReplica}]
  BY DEF TypeOK, Served
<1>1. ASSUME NEW p \in Requests, NEW r \in Replicas, NEW g \in Grants, NEW ttl \in TTLs, Issue(p, r, g, ttl) PROVE Revoked'
  BY <1>1, <1>a, <1>b DEF Issue
<1>2. ASSUME NEW p \in Requests, NEW r \in Replicas, NEW g \in Grants, Verify(p, r, g) PROVE Revoked'
  BY <1>2, <1>a, <1>b DEF Verify, Present
<1>3. ASSUME NEW p \in Requests, NEW r \in Replicas, NEW g \in Grants, Revoke(p, r, g) PROVE Revoked'
  BY <1>3, <1>a, <1>b DEF Revoke, Present
<1>4. ASSUME NEW p \in Requests, IssueRecord(p) PROVE Revoked'
  BY <1>4, <1>a, <1>b DEF IssueRecord
<1>5. ASSUME NEW p \in Requests, IsRevoked(p) PROVE Revoked'
  BY <1>5, <1>a, <1>b DEF IsRevoked, Expired
<1>6. ASSUME NEW p \in Requests, Purge(p) PROVE Revoked'
  BY <1>6, <1>a, <1>b DEF Purge
<1>7. ASSUME NEW p \in Requests, ValidateAssignment(p) PROVE Revoked'
  BY <1>7, <1>a, <1>b DEF ValidateAssignment
<1>8. ASSUME NEW p \in Requests, ValidatePod(p) PROVE Revoked'
  BY <1>8, <1>a, <1>b DEF ValidatePod
<1>9. ASSUME NEW p \in Requests, RecordUse(p) PROVE Revoked'
  BY <1>9, <1>a, <1>b DEF RecordUse
<1>10. ASSUME NEW p \in Requests, StoreRevoke(p) PROVE Revoked'
  BY <1>10, <1>a, <1>b DEF StoreRevoke
<1>11. ASSUME NEW p \in Requests, RecordRevoke(p) PROVE Revoked'
  BY <1>11, <1>a, <1>b DEF RecordRevoke
<1>12. ASSUME NEW r \in Replicas, Restart(r) PROVE Revoked'
  BY <1>12, <1>a, <1>b DEF Restart
<1>13. ASSUME NEW b \in 1..MaxBinding, PodEnds(b) PROVE Revoked'
  BY <1>13, <1>a, <1>b DEF PodEnds
<1>14. ASSUME Withdraw PROVE Revoked'
  BY <1>14, <1>a, <1>b DEF Withdraw
<1>15. ASSUME Restore PROVE Revoked'
  BY <1>15, <1>a, <1>b DEF Restore
<1>16. ASSUME Rebind PROVE Revoked'
  BY <1>16, <1>a, <1>b DEF Rebind
<1>17. ASSUME Tick PROVE Revoked'
  BY <1>17, <1>a, <1>b DEF Tick
<1>18. CASE UNCHANGED vars
  BY <1>18, <1>a, <1>b
<1> QED
  BY <1>1, <1>2, <1>3, <1>4, <1>5, <1>6, <1>7, <1>8, <1>9, <1>10, <1>11, <1>12, <1>13, <1>14, <1>15, <1>16, <1>17, <1>18 DEF Next, Serve

-----------------------------------------------------------------------------
(* The theorems. *)

IInv == TypeOK /\ Served /\ Revoked /\ Bound /\ Audited

\* The invariant holds at the start and is kept by every step.
LEMMA Inductive == Spec => []IInv
<1>1. Init => IInv
  BY BrokerAssumption DEF Init, IInv, TypeOK, Steps, Final, GrantClaims, Unsigned, Served, Revoked, Bound,
     Audited, AcknowledgedIsAudited, Signed
<1>2. IInv /\ [Next]_vars => IInv'
  BY TypeStep, ServedStep, RevokedStep, BoundStep, AuditedStep DEF IInv
<1> QED BY <1>1, <1>2, PTL DEF Spec

(* The broker's state keeps its types.                                       *)
THEOREM BrokerTypeCorrect == Spec => []TypeOK
<1>1. IInv => TypeOK
  BY DEF IInv
<1> QED BY <1>1, Inductive, PTL

(* Deleting expired revocation records (IsRevoked) never lets a later        *)
(* verification accept a revoked grant that is unexpired on every replica,   *)
(* for any clock skew and any number of replicas.                            *)
THEOREM RevocationEnforced == Spec => []RevocationHolds
<1>1. IInv => RevocationHolds
  BY DEF IInv, Revoked, RevocationHolds
<1> QED BY <1>1, Inductive, PTL

(* A valid grant belonged to the Ready incarnation with its Pod alive at one *)
(* moment, although ValidateGrant reads the two at different moments.        *)
THEOREM BindingSeenAtOnce == Spec => []BindingHeldAtOnce
<1>1. IInv => BindingHeldAtOnce
  BY DEF IInv, Bound, BindingHeldAtOnce
<1> QED BY <1>1, Inductive, PTL

(* Every credential, use and revocation that was answered is on record.      *)
THEOREM AnswersAudited == Spec => []AcknowledgedIsAudited
<1>1. IInv => AcknowledgedIsAudited
  BY DEF IInv, Audited
<1> QED BY <1>1, Inductive, PTL

=============================================================================
