--------------------- MODULE EgressAuthorizationProofs ---------------------
(***************************************************************************)
(* EgressAuthorization for any number of checks, tokens, requests, Pods    *)
(* and policies, and for every freshness limit, cache lifetime and         *)
(* retention.  An allow is the last of five reads; what it needs of the    *)
(* four caches and of the reads before it is the inductive invariant:      *)
(* Clocked, TokensCached, Followed, Grounded and Recorded.                 *)
(***************************************************************************)
EXTENDS EgressAuthorization, FiniteSetTheorems, TLAPS

\* Nothing is dated in the future, and a check that is under way has a token.
Clocked ==
    /\ now >= 1 /\ reviewed \in [Tokens -> Nat]
    /\ \A t \in Tokens : reviewed[t] <= now
    /\ \A c \in Checks : check[c].started <= now /\ check[c].at <= now
    /\ \A c \in Checks : pc[c] \notin {"idle", "denied"} => check[c].token \in Tokens

\* A cached review ends with its token, and within the lifetime of the cache
\* after the API server's last answer.
TokensCached ==
    \A t \in Tokens : tokens[t] # 0 =>
        /\ tokens[t] <= TokenExp[t]
        /\ reviewed[t] # 0 /\ tokens[t] <= reviewed[t] + TokenCacheTTL

\* What the assignment informer calls Ready was Ready under that revision, and
\* an approval in the request informer was given, with the expiry it still has.
Followed ==
    /\ assignment.ready => <<assignment.pod, assignment.revision>> \in bindings
    /\ cache.assignment.ready => <<cache.assignment.pod, cache.assignment.revision>> \in bindings
    /\ \A r \in Requests : cache.requests[r] # 0 =>
            phase[r] \in {"approved", "expired"} /\ expiry[r] = cache.requests[r]

\* What allowed a check that has reached its decision.
Ground(c) ==
    LET p == TokenPod[check[c].token]
        v == check[c].revision
        r == check[c].source
    IN \/ r = "bundle" /\ v \in Allows
       \/ /\ r \in Requests /\ GrantPod[r] = p /\ GrantRevision[r] = v
          /\ phase[r] \in {"approved", "expired"} /\ check[c].at < expiry[r]

\* From the assignment on, a check goes by one incarnation.
Grounded ==
    \A c \in Checks :
        /\ pc[c] \in {"bundle", "grant", "audit", "allowed"} =>
              <<TokenPod[check[c].token], check[c].revision>> \in bindings
        /\ pc[c] \in {"audit", "allowed"} /\ check[c].source # "deny" => Ground(c)
        /\ pc[c] = "allowed" => check[c].source # "deny"

\* A stored record is not older than its decision.
Recorded ==
    \A c \in Checks : Allowed(c) =>
        \/ events[c] # None /\ check[c].at <= events[c]
        \/ check[c].at + Retention < now

-----------------------------------------------------------------------------
(* Types, and the bound of the token cache. *)

Steps == {"idle", "review", "pod", "assignment", "bundle", "grant", "audit", "allowed", "denied"}

CheckState == [token : Tokens \union {None}, started : Nat, revision : Policies \union {None},
               source : Requests \union {None, "bundle", "deny"}, at : Nat]

Cache == [pods : SUBSET (1..MaxPod), bundle : Policies, requests : [Requests -> Nat],
          assignment : [pod : 1..MaxPod, revision : Policies, ready : BOOLEAN]]

\* Adding a review to the emptied or unfilled cache keeps it within its limit.
LEMMA CacheBound ==
    ASSUME TypeOK, NEW t \in Tokens, NEW f \in [Tokens -> Nat],
           \A u \in Tokens : u # t => f[u] = Kept[u]
    PROVE  Cardinality({u \in Tokens : f[u] # 0}) <= MaxTokenCacheEntries
<1> DEFINE A == {u \in Tokens : Kept[u] # 0}
           B == {u \in Tokens : f[u] # 0}
<1>0. Cached \in SUBSET Tokens /\ IsFiniteSet(Tokens) /\ MaxTokenCacheEntries \in Nat \ {0}
  BY EgressAssumption DEF Cached
<1>1. IsFiniteSet(Cached) /\ Cardinality(Cached) \in Nat
  BY <1>0, FS_Subset, FS_CardinalityType
<1>2. IsFiniteSet(A) /\ Cardinality(A) \in Nat /\ Cardinality(A) < MaxTokenCacheEntries
  <2>1. CASE Cardinality(Cached) >= MaxTokenCacheEntries
    <3>1. A = {} BY <2>1 DEF Kept
    <3> QED BY <3>1, <1>0, FS_EmptySet
  <2>2. CASE ~ (Cardinality(Cached) >= MaxTokenCacheEntries)
    <3>1. A = Cached BY <2>2 DEF Kept, Cached
    <3> QED BY <3>1, <2>2, <1>0, <1>1
  <2> QED BY <2>1, <2>2
<1>3. IsFiniteSet(A \union {t}) /\ Cardinality(A \union {t}) <= Cardinality(A) + 1
  BY <1>2, FS_AddElement
<1>4. B \in SUBSET (A \union {t})
  BY DEF Kept, TypeOK
<1>5. Cardinality(B) <= Cardinality(A \union {t}) /\ Cardinality(B) \in Nat /\ Cardinality(A \union {t}) \in Nat
  BY <1>3, <1>4, FS_Subset, FS_CardinalityType
<1> QED BY <1>0, <1>2, <1>3, <1>5

\* Dropping a review keeps the cache within its limit.
LEMMA CacheShrinks ==
    ASSUME TypeOK, NEW f \in [Tokens -> Nat], \A u \in Tokens : f[u] # 0 => tokens[u] # 0
    PROVE  Cardinality({u \in Tokens : f[u] # 0}) <= MaxTokenCacheEntries
<1> DEFINE B == {u \in Tokens : f[u] # 0}
<1>1. Cached \in SUBSET Tokens /\ IsFiniteSet(Tokens) /\ MaxTokenCacheEntries \in Nat
  BY EgressAssumption DEF Cached
<1>2. IsFiniteSet(Cached) /\ Cardinality(Cached) \in Nat /\ Cardinality(Cached) <= MaxTokenCacheEntries
  BY <1>1, FS_Subset, FS_CardinalityType DEF TypeOK
<1>3. B \in SUBSET Cached
  BY DEF Cached
<1>4. Cardinality(B) <= Cardinality(Cached) /\ Cardinality(B) \in Nat
  BY <1>2, <1>3, FS_Subset, FS_CardinalityType
<1> QED BY <1>1, <1>2, <1>4

\* A decision leaves a well-formed check.
LEMMA DecideType ==
    ASSUME NEW f \in [Checks -> CheckState], NEW c \in Checks, NEW n \in Nat,
           NEW x \in Requests \union {None, "bundle", "deny"}
    PROVE  /\ [f EXCEPT ![c].at = n, ![c].source = x] \in [Checks -> CheckState]
           /\ [f EXCEPT ![c].source = x, ![c].at = n] \in [Checks -> CheckState]
<1>1. [f[c] EXCEPT !.at = n, !.source = x] \in CheckState
  <2>1. f[c] \in CheckState
    OBVIOUS
  <2> QED BY <2>1 DEF CheckState
<1>2. /\ [f EXCEPT ![c].at = n, ![c].source = x] = [f EXCEPT ![c] = [f[c] EXCEPT !.at = n, !.source = x]]
      /\ [f EXCEPT ![c].source = x, ![c].at = n] = [f EXCEPT ![c] = [f[c] EXCEPT !.at = n, !.source = x]]
  BY DEF CheckState
<1>3. \A y \in CheckState : [f EXCEPT ![c] = y] \in [Checks -> CheckState]
  OBVIOUS
<1> QED BY <1>1, <1>2, <1>3

\* Every step keeps the types.
LEMMA TypeStep ==
    ASSUME TypeOK, Clocked, [Next]_vars
    PROVE  TypeOK'
<1> USE EgressAssumption DEF TypeOK, Clocked, objects, replica, vars, Goto, NoCheck, Access!Phases
<1>0. ASSUME tokens' = tokens PROVE Cached' = Cached
  BY <1>0, <1>0 DEF Cached
<1>1. ASSUME NEW c \in Checks, NEW t \in Tokens, Begin(c, t) PROVE TypeOK'
  <2>1. check' \in [Checks -> CheckState]
    BY <1>1 DEF Begin, CheckState
  <2>2. tokens' \in [Tokens -> Nat] /\ \A u \in Tokens : tokens'[u] # 0 => tokens[u] # 0
    BY <1>1 DEF Begin
  <2>3. Cardinality(Cached)' <= MaxTokenCacheEntries
    BY <2>2, CacheShrinks DEF Cached
  <2>4. pc' \in [Checks -> Steps] /\ events' \in [Checks -> Nat \union {None}]
    BY <1>1 DEF Begin, Steps
  <2> QED BY <1>1, <2>1, <2>2, <2>3, <2>4 DEF Begin, CheckState, Steps
<1>2. ASSUME NEW c \in Checks, Review(c) PROVE TypeOK'
  <2> DEFINE t == check[c].token
             until == CacheUntil(t, check[c].started)
  <2>1. t \in Tokens /\ until \in Nat
    BY <1>2 DEF Review, CacheUntil, Minimum
  <2>2. tokens' = tokens \/ tokens' = [Kept EXCEPT ![t] = until]
    BY <1>2 DEF Review
  <2>3. Kept \in [Tokens -> Nat]
    BY DEF Kept
  <2>4. tokens' \in [Tokens -> Nat]
    BY <2>1, <2>2, <2>3
  <2>5. Cardinality(Cached)' <= MaxTokenCacheEntries
    <3>1. CASE tokens' = tokens
      BY <3>1, <1>0
    <3>2. CASE tokens' = [Kept EXCEPT ![t] = until]
      <4> HIDE DEF TypeOK, Clocked, t, until
      <4>1. Cardinality({u \in Tokens : tokens'[u] # 0}) <= MaxTokenCacheEntries
        <5>1. \A u \in Tokens : u # t => tokens'[u] = Kept[u]
          BY <3>2, <2>1, <2>3
        <5> QED BY <5>1, <2>1, <2>4, CacheBound
      <4> QED BY <4>1 DEF Cached
    <3> QED BY <2>2, <3>1, <3>2
  <2>6. pc' \in [Checks -> Steps]
    BY <1>2 DEF Review, Steps
  <2> QED BY <1>2, <2>4, <2>5, <2>6 DEF Review, Steps
<1>3. ASSUME NEW c \in Checks, ReadPod(c) PROVE TypeOK'
  BY <1>3, <1>0 DEF ReadPod
<1>4. ASSUME NEW c \in Checks, ReadAssignment(c) PROVE TypeOK'
  <2>1. check' \in [Checks -> CheckState]
    <3>1. [check[c] EXCEPT !.revision = cache.assignment.revision] \in CheckState
      BY DEF CheckState
    <3>2. check' = [check EXCEPT ![c] = [check[c] EXCEPT !.revision = cache.assignment.revision]]
      BY <1>4 DEF ReadAssignment
    <3> QED BY <3>1, <3>2 DEF CheckState
  <2>2. pc' \in [Checks -> Steps]
    BY <1>4 DEF ReadAssignment, Steps
  <2> QED BY <1>4, <1>0, <2>1, <2>2 DEF ReadAssignment, CheckState, Steps
<1>5. ASSUME NEW c \in Checks, ReadBundle(c) PROVE TypeOK'
  <2>1. check' \in [Checks -> CheckState]
    <3>1. \/ check' = check
          \/ check' = [check EXCEPT ![c].source = "bundle", ![c].at = now]
          \/ check' = [check EXCEPT ![c].source = "deny", ![c].at = now]
      BY <1>5, Zenon DEF ReadBundle
    <3>2. check \in [Checks -> CheckState] /\ now \in Nat
      BY DEF CheckState
    <3>3. [check EXCEPT ![c].source = "bundle", ![c].at = now] \in [Checks -> CheckState]
      BY <3>2, DecideType, Zenon
    <3>4. [check EXCEPT ![c].source = "deny", ![c].at = now] \in [Checks -> CheckState]
      BY <3>2, DecideType, Zenon
    <3> QED BY <3>1, <3>2, <3>3, <3>4, Zenon
  <2>2. pc' \in [Checks -> Steps]
    BY <1>5 DEF ReadBundle, Steps
  <2> QED BY <1>5, <1>0, <2>1, <2>2 DEF ReadBundle, CheckState, Steps
<1>6. ASSUME NEW c \in Checks, MatchAccessGrant(c) PROVE TypeOK'
  <2>0. (CHOOSE r \in Matching(c) : TRUE) \in Requests \/ Cardinality(Matching(c)) # 1
    <3>1. CASE Matching(c) = {}
      BY <3>1, FS_EmptySet
    <3>2. CASE Matching(c) # {}
      BY <3>2 DEF Matching
    <3> QED BY <3>1, <3>2
  <2>1. check' \in [Checks -> CheckState]
    <3> DEFINE x == IF Cardinality(Matching(c)) = 1 THEN CHOOSE r \in Matching(c) : TRUE ELSE "deny"
    <3>1. x \in Requests \union {None, "bundle", "deny"}
      BY <2>0
    <3>2. check' = [check EXCEPT ![c].at = now, ![c].source = x]
      BY <1>6 DEF MatchAccessGrant
    <3>3. check \in [Checks -> CheckState] /\ now \in Nat
      BY DEF CheckState
    <3> HIDE DEF x
    <3>4. [check EXCEPT ![c].at = now, ![c].source = x] \in [Checks -> CheckState]
      BY <3>1, <3>3, DecideType, Zenon
    <3> QED BY <3>2, <3>4, Zenon
  <2>2. pc' \in [Checks -> Steps]
    BY <1>6 DEF MatchAccessGrant, Steps
  <2> QED BY <1>6, <1>0, <2>1, <2>2 DEF MatchAccessGrant, CheckState, Steps
<1>7. ASSUME NEW c \in Checks, Audit(c) PROVE TypeOK'
  <2>0. events' = [events EXCEPT ![c] = now] \/ events' = events
    BY <1>7 DEF Audit
  <2>1. events' \in [Checks -> Nat \union {None}] /\ pc' \in [Checks -> Steps]
    <3>1. events' \in [Checks -> Nat \union {None}]
      BY <2>0
    <3>2. pc' = [pc EXCEPT ![c] = "allowed"] \/ pc' = [pc EXCEPT ![c] = "denied"]
      BY <1>7 DEF Audit
    <3>3. pc' \in [Checks -> Steps]
      BY <3>2 DEF Steps
    <3> QED BY <3>1, <3>3
  <2> QED BY <1>7, <1>0, <2>1 DEF Audit, Steps
<1>8. ASSUME NEW c \in Checks, Deny(c) PROVE TypeOK'
  BY <1>8, <1>0 DEF Deny
<1>9. ASSUME NEW kind \in Informers, Deliver(kind) PROVE TypeOK'
  <2>1. Snapshot \in Cache
    BY DEF Cache, Snapshot, Approvals
  <2>2. cache \in Cache
    BY DEF Cache
  <2>3. cache' \in Cache
    BY <1>9, <2>1, <2>2 DEF Deliver, Informers, Cache
  <2> QED BY <1>9, <1>0, <2>3 DEF Deliver, Cache
<1>10. ASSUME ProbeFreshness PROVE TypeOK'
  BY <1>10, <1>0 DEF ProbeFreshness
<1>11. ASSUME CleanupEvents PROVE TypeOK'
  BY <1>11, <1>0 DEF CleanupEvents
<1>12. ASSUME Shutdown PROVE TypeOK'
  <2>1. accepting' \in BOOLEAN
    BY <1>12 DEF Shutdown
  <2> QED BY <1>12, <1>0, <2>1 DEF Shutdown
<1>13. ASSUME Start PROVE TypeOK'
  <2>1. Snapshot \in Cache
    BY DEF Cache, Snapshot, Approvals
  <2>2. tokens' \in [Tokens -> Nat] /\ \A u \in Tokens : tokens'[u] # 0 => tokens[u] # 0
    BY <1>13 DEF Start
  <2>3. Cardinality(Cached)' <= MaxTokenCacheEntries
    BY <2>2, CacheShrinks DEF Cached
  <2>4. accepting' \in BOOLEAN /\ pc' \in [Checks -> Steps]
    BY <1>13 DEF Start, Steps
  <2> QED BY <1>13, <2>1, <2>2, <2>3, <2>4 DEF Start, Steps, Cache
<1>14. ASSUME Withdraw PROVE TypeOK'
  <2>1. assignment' \in [pod : 1..MaxPod, revision : Policies, ready : BOOLEAN]
    BY <1>14 DEF Withdraw, Change
  <2>2. pods' \subseteq 1..MaxPod /\ changes' \in 0..MaxChanges
    BY <1>14 DEF Withdraw, Change
  <2> QED BY <1>14, <1>0, <2>1, <2>2 DEF Withdraw
<1>15. ASSUME Restore PROVE TypeOK'
  <2>1. assignment' \in [pod : 1..MaxPod, revision : Policies, ready : BOOLEAN]
    BY <1>15 DEF Restore, Change
  <2>2. pods' \subseteq 1..MaxPod /\ changes' \in 0..MaxChanges
    BY <1>15 DEF Restore, Change
  <2> QED BY <1>15, <1>0, <2>1, <2>2 DEF Restore
<1>16. ASSUME Resume PROVE TypeOK'
  <2>1. assignment' \in [pod : 1..MaxPod, revision : Policies, ready : BOOLEAN]
    BY <1>16 DEF Resume, Change
  <2>2. pods' \subseteq 1..MaxPod /\ changes' \in 0..MaxChanges
    BY <1>16 DEF Resume, Change
  <2> QED BY <1>16, <1>0, <2>1, <2>2 DEF Resume
<1>17. ASSUME Resolve PROVE TypeOK'
  BY <1>17, <1>0 DEF Resolve, Change
<1>18. ASSUME NEW v \in Policies, Revise(v) PROVE TypeOK'
  BY <1>18, <1>0 DEF Revise, Change
<1>19. ASSUME NEW r \in Requests, Govern(r) PROVE TypeOK'
  BY <1>19, <1>0 DEF Govern, Change, Access!Approve, Access!Expire, Access!Move
<1>20. ASSUME Tick PROVE TypeOK'
  BY <1>20, <1>0 DEF Tick, Access!Tick
<1>21. ASSUME UNCHANGED vars PROVE TypeOK'
  BY <1>21, <1>0
<1> QED BY <1>1, <1>2, <1>3, <1>4, <1>5, <1>6, <1>7, <1>8, <1>9, <1>10, <1>11, <1>12, <1>13, <1>14, <1>15, <1>16, <1>17, <1>18, <1>19, <1>20, <1>21 DEF Next, Checking

\* Every step keeps Clocked.
LEMMA ClockedStep ==
    ASSUME TypeOK, Clocked, [Next]_vars
    PROVE  Clocked'
<1> USE EgressAssumption DEF TypeOK, Clocked, objects, replica, vars, Goto, NoCheck
<1>1. ASSUME NEW c \in Checks, NEW t \in Tokens, Begin(c, t) PROVE Clocked'
  BY <1>1 DEF Begin
<1>2. ASSUME NEW c \in Checks, Review(c) PROVE Clocked'
  BY <1>2 DEF Review
<1>3. ASSUME NEW c \in Checks, ReadPod(c) PROVE Clocked'
  BY <1>3 DEF ReadPod
<1>4. ASSUME NEW c \in Checks, ReadAssignment(c) PROVE Clocked'
  BY <1>4 DEF ReadAssignment
<1>5. ASSUME NEW c \in Checks, ReadBundle(c) PROVE Clocked'
  <2>1. check' = check \/ \E x \in {"bundle", "deny"} : check' = [check EXCEPT ![c].source = x, ![c].at = now]
    BY <1>5 DEF ReadBundle
  <2>2. \A d \in Checks : check'[d].started = check[d].started /\ check'[d].token = check[d].token
                          /\ check'[d].at \in {check[d].at, now}
    BY <2>1
  <2>3. \A d \in Checks : pc'[d] \notin {"idle", "denied"} => pc[d] \notin {"idle", "denied"}
    BY <1>5 DEF ReadBundle
  <2>4. UNCHANGED <<now, reviewed>>
    BY <1>5 DEF ReadBundle
  <2> QED BY <2>2, <2>3, <2>4
<1>6. ASSUME NEW c \in Checks, MatchAccessGrant(c) PROVE Clocked'
  BY <1>6 DEF MatchAccessGrant
<1>7. ASSUME NEW c \in Checks, Audit(c) PROVE Clocked'
  BY <1>7 DEF Audit
<1>8. ASSUME NEW c \in Checks, Deny(c) PROVE Clocked'
  BY <1>8 DEF Deny
<1>9. ASSUME NEW kind \in Informers, Deliver(kind) PROVE Clocked'
  BY <1>9 DEF Deliver
<1>10. ASSUME ProbeFreshness PROVE Clocked'
  BY <1>10 DEF ProbeFreshness
<1>11. ASSUME CleanupEvents PROVE Clocked'
  BY <1>11 DEF CleanupEvents
<1>12. ASSUME Shutdown PROVE Clocked'
  BY <1>12 DEF Shutdown
<1>13. ASSUME Start PROVE Clocked'
  BY <1>13 DEF Start
<1>14. ASSUME Withdraw PROVE Clocked'
  BY <1>14 DEF Withdraw, Change
<1>15. ASSUME Restore PROVE Clocked'
  BY <1>15 DEF Restore, Change
<1>16. ASSUME Resume PROVE Clocked'
  BY <1>16 DEF Resume, Change
<1>17. ASSUME Resolve PROVE Clocked'
  BY <1>17 DEF Resolve, Change
<1>18. ASSUME NEW v \in Policies, Revise(v) PROVE Clocked'
  BY <1>18 DEF Revise, Change
<1>19. ASSUME NEW r \in Requests, Govern(r) PROVE Clocked'
  BY <1>19 DEF Govern, Change, Access!Approve, Access!Expire, Access!Move
<1>20. ASSUME Tick PROVE Clocked'
  BY <1>20 DEF Tick, Access!Tick
<1>21. ASSUME UNCHANGED vars PROVE Clocked'
  BY <1>21
<1> QED BY <1>1, <1>2, <1>3, <1>4, <1>5, <1>6, <1>7, <1>8, <1>9, <1>10, <1>11, <1>12, <1>13, <1>14, <1>15, <1>16, <1>17, <1>18, <1>19, <1>20, <1>21 DEF Next, Checking

\* Every step keeps TokensCached.
LEMMA TokensStep ==
    ASSUME TypeOK, Clocked, TokensCached, [Next]_vars
    PROVE  TokensCached'
<1> USE EgressAssumption DEF TypeOK, Clocked, TokensCached, objects, replica, vars, Goto, NoCheck
<1>1. ASSUME NEW c \in Checks, NEW t \in Tokens, Begin(c, t) PROVE TokensCached'
  BY <1>1 DEF Begin
<1>2. ASSUME NEW c \in Checks, Review(c) PROVE TokensCached'
  <2> DEFINE t == check[c].token
             until == CacheUntil(t, check[c].started)
  <2>1. t \in Tokens /\ until \in Nat /\ until <= TokenExp[t] /\ until <= check[c].started + TokenCacheTTL
    BY <1>2 DEF Review, CacheUntil, Minimum
  <2>2. tokens' = tokens \/ tokens' = [Kept EXCEPT ![t] = until]
    BY <1>2 DEF Review
  <2>3. \A u \in Tokens : u # t => tokens'[u] = tokens[u] \/ tokens'[u] = 0
    BY <2>2 DEF Kept
  <2>4. tokens'[t] = tokens[t] \/ tokens'[t] = until
    BY <2>1, <2>2 DEF Kept
  <2>5. reviewed' = [reviewed EXCEPT ![t] = now]
    BY <1>2 DEF Review
  <2>6. reviewed'[t] = now /\ reviewed[t] <= now /\ check[c].started <= now
    BY <2>1, <2>5
  <2>7. ASSUME NEW u \in Tokens, tokens'[u] # 0
        PROVE  tokens'[u] <= TokenExp[u] /\ reviewed'[u] # 0 /\ tokens'[u] <= reviewed'[u] + TokenCacheTTL
    <3>1. CASE u # t
      BY <3>1, <2>3, <2>5, <2>7
    <3>2. CASE u = t /\ tokens'[u] = tokens[u]
      BY <3>2, <2>1, <2>6, <2>7
    <3>3. CASE u = t /\ tokens'[u] = until
      BY <3>3, <2>1, <2>6
    <3> QED BY <2>4, <3>1, <3>2, <3>3
  <2> QED BY <2>7
<1>3. ASSUME NEW c \in Checks, ReadPod(c) PROVE TokensCached'
  BY <1>3 DEF ReadPod
<1>4. ASSUME NEW c \in Checks, ReadAssignment(c) PROVE TokensCached'
  BY <1>4 DEF ReadAssignment
<1>5. ASSUME NEW c \in Checks, ReadBundle(c) PROVE TokensCached'
  BY <1>5 DEF ReadBundle
<1>6. ASSUME NEW c \in Checks, MatchAccessGrant(c) PROVE TokensCached'
  BY <1>6 DEF MatchAccessGrant
<1>7. ASSUME NEW c \in Checks, Audit(c) PROVE TokensCached'
  BY <1>7 DEF Audit
<1>8. ASSUME NEW c \in Checks, Deny(c) PROVE TokensCached'
  BY <1>8 DEF Deny
<1>9. ASSUME NEW kind \in Informers, Deliver(kind) PROVE TokensCached'
  BY <1>9 DEF Deliver
<1>10. ASSUME ProbeFreshness PROVE TokensCached'
  BY <1>10 DEF ProbeFreshness
<1>11. ASSUME CleanupEvents PROVE TokensCached'
  BY <1>11 DEF CleanupEvents
<1>12. ASSUME Shutdown PROVE TokensCached'
  BY <1>12 DEF Shutdown
<1>13. ASSUME Start PROVE TokensCached'
  BY <1>13 DEF Start
<1>14. ASSUME Withdraw PROVE TokensCached'
  BY <1>14 DEF Withdraw, Change
<1>15. ASSUME Restore PROVE TokensCached'
  BY <1>15 DEF Restore, Change
<1>16. ASSUME Resume PROVE TokensCached'
  BY <1>16 DEF Resume, Change
<1>17. ASSUME Resolve PROVE TokensCached'
  BY <1>17 DEF Resolve, Change
<1>18. ASSUME NEW v \in Policies, Revise(v) PROVE TokensCached'
  BY <1>18 DEF Revise, Change
<1>19. ASSUME NEW r \in Requests, Govern(r) PROVE TokensCached'
  BY <1>19 DEF Govern, Change, Access!Approve, Access!Expire, Access!Move
<1>20. ASSUME Tick PROVE TokensCached'
  BY <1>20 DEF Tick, Access!Tick
<1>21. ASSUME UNCHANGED vars PROVE TokensCached'
  BY <1>21
<1> QED BY <1>1, <1>2, <1>3, <1>4, <1>5, <1>6, <1>7, <1>8, <1>9, <1>10, <1>11, <1>12, <1>13, <1>14, <1>15, <1>16, <1>17, <1>18, <1>19, <1>20, <1>21 DEF Next, Checking

\* Every step keeps Followed.
LEMMA FollowedStep ==
    ASSUME TypeOK, Followed, [Next]_vars
    PROVE  Followed'
<1> USE EgressAssumption DEF TypeOK, Followed, Snapshot, Approvals, Informers, objects, replica, vars, Goto, NoCheck
<1>1. ASSUME NEW c \in Checks, NEW t \in Tokens, Begin(c, t) PROVE Followed'
  BY <1>1 DEF Begin
<1>2. ASSUME NEW c \in Checks, Review(c) PROVE Followed'
  BY <1>2 DEF Review
<1>3. ASSUME NEW c \in Checks, ReadPod(c) PROVE Followed'
  BY <1>3 DEF ReadPod
<1>4. ASSUME NEW c \in Checks, ReadAssignment(c) PROVE Followed'
  BY <1>4 DEF ReadAssignment
<1>5. ASSUME NEW c \in Checks, ReadBundle(c) PROVE Followed'
  BY <1>5 DEF ReadBundle
<1>6. ASSUME NEW c \in Checks, MatchAccessGrant(c) PROVE Followed'
  BY <1>6 DEF MatchAccessGrant
<1>7. ASSUME NEW c \in Checks, Audit(c) PROVE Followed'
  BY <1>7 DEF Audit
<1>8. ASSUME NEW c \in Checks, Deny(c) PROVE Followed'
  BY <1>8 DEF Deny
<1>9. ASSUME NEW kind \in Informers, Deliver(kind) PROVE Followed'
  <2>1. CASE kind = "assignment"
    BY <1>9, <2>1 DEF Deliver
  <2>2. CASE kind = "requests"
    BY <1>9, <2>2 DEF Deliver
  <2>3. CASE kind \in {"pods", "bundle"}
    <3>1. cache'.assignment = cache.assignment /\ cache'.requests = cache.requests
      BY <1>9, <2>3 DEF Deliver
    <3> QED BY <1>9, <3>1 DEF Deliver
  <2> QED BY <2>1, <2>2, <2>3
<1>10. ASSUME ProbeFreshness PROVE Followed'
  BY <1>10 DEF ProbeFreshness
<1>11. ASSUME CleanupEvents PROVE Followed'
  BY <1>11 DEF CleanupEvents
<1>12. ASSUME Shutdown PROVE Followed'
  BY <1>12 DEF Shutdown
<1>13. ASSUME Start PROVE Followed'
  BY <1>13 DEF Start
<1>14. ASSUME Withdraw PROVE Followed'
  BY <1>14 DEF Withdraw, Change
<1>15. ASSUME Restore PROVE Followed'
  BY <1>15 DEF Restore, Change
<1>16. ASSUME Resume PROVE Followed'
  BY <1>16 DEF Resume, Change
<1>17. ASSUME Resolve PROVE Followed'
  BY <1>17 DEF Resolve, Change
<1>18. ASSUME NEW v \in Policies, Revise(v) PROVE Followed'
  BY <1>18 DEF Revise, Change
<1>19. ASSUME NEW r \in Requests, Govern(r) PROVE Followed'
  BY <1>19 DEF Govern, Change, Access!Approve, Access!Expire, Access!Move
<1>20. ASSUME Tick PROVE Followed'
  BY <1>20 DEF Tick, Access!Tick
<1>21. ASSUME UNCHANGED vars PROVE Followed'
  BY <1>21
<1> QED BY <1>1, <1>2, <1>3, <1>4, <1>5, <1>6, <1>7, <1>8, <1>9, <1>10, <1>11, <1>12, <1>13, <1>14, <1>15, <1>16, <1>17, <1>18, <1>19, <1>20, <1>21 DEF Next, Checking

\* Every step keeps Grounded.
LEMMA GroundedStep ==
    ASSUME TypeOK, Clocked, Followed, Grounded, [Next]_vars
    PROVE  Grounded'
<1> USE EgressAssumption DEF TypeOK, Clocked, Followed, Grounded, Ground, objects, replica, vars, Goto, NoCheck
<1>1. ASSUME NEW c \in Checks, NEW t \in Tokens, Begin(c, t) PROVE Grounded'
  BY <1>1 DEF Begin
<1>2. ASSUME NEW c \in Checks, Review(c) PROVE Grounded'
  BY <1>2 DEF Review
<1>3. ASSUME NEW c \in Checks, ReadPod(c) PROVE Grounded'
  BY <1>3 DEF ReadPod
<1>4. ASSUME NEW c \in Checks, ReadAssignment(c) PROVE Grounded'
  BY <1>4 DEF ReadAssignment
<1>5. ASSUME NEW c \in Checks, ReadBundle(c) PROVE Grounded'
  <2>1. ASSUME NEW d \in Checks, d # c PROVE check'[d] = check[d] /\ pc'[d] = pc[d]
    BY <1>5, <2>1 DEF ReadBundle
  <2>2. check'[c].token = check[c].token /\ check'[c].revision = check[c].revision /\ pc[c] = "bundle"
    BY <1>5 DEF ReadBundle
  <2>3. pc'[c] \in {"audit", "grant"} /\ (pc'[c] = "audit" /\ check'[c].source # "deny" =>
           check'[c].source = "bundle" /\ check[c].revision \in Allows)
    BY <1>5 DEF ReadBundle
  <2>4. UNCHANGED <<phase, expiry, bindings>>
    BY <1>5 DEF ReadBundle
  <2> QED BY <2>1, <2>2, <2>3, <2>4
<1>6. ASSUME NEW c \in Checks, MatchAccessGrant(c) PROVE Grounded'
  <2>1. ASSUME NEW d \in Checks, d # c PROVE check'[d] = check[d] /\ pc'[d] = pc[d]
    BY <1>6, <2>1 DEF MatchAccessGrant
  <2>2. check'[c].token = check[c].token /\ check'[c].revision = check[c].revision
        /\ check'[c].at = now /\ pc[c] = "grant" /\ pc'[c] = "audit"
    BY <1>6 DEF MatchAccessGrant
  <2>3. check'[c].source # "deny" => check'[c].source \in Matching(c)
    <3>1. Cardinality(Matching(c)) = 1 => Matching(c) # {}
      <4>1. CASE Matching(c) = {}
        BY <4>1, FS_EmptySet
      <4> QED BY <4>1
    <3>2. Matching(c) # {} => (CHOOSE r \in Matching(c) : TRUE) \in Matching(c)
      OBVIOUS
    <3>3. check'[c].source = IF Cardinality(Matching(c)) = 1
                             THEN CHOOSE r \in Matching(c) : TRUE ELSE "deny"
      BY <1>6 DEF MatchAccessGrant
    <3> QED BY <3>1, <3>2, <3>3
  <2>4. UNCHANGED <<phase, expiry, bindings>>
    BY <1>6 DEF MatchAccessGrant
  <2>5. check'[c].source # "deny" => Ground(c)'
    <3> SUFFICES ASSUME check'[c].source # "deny" PROVE Ground(c)'
      OBVIOUS
    <3>1. PICK r \in Requests : /\ check'[c].source = r /\ now < cache.requests[r]
                                /\ GrantPod[r] = TokenPod[check[c].token]
                                /\ GrantRevision[r] = check[c].revision
      BY <2>3 DEF Matching
    <3>2. phase[r] \in {"approved", "expired"} /\ now < expiry[r]
      <4>1. cache.requests[r] # 0
        BY <3>1
      <4> QED BY <3>1, <4>1
    <3> QED BY <3>1, <3>2, <2>2, <2>4
  <2> QED BY <2>1, <2>2, <2>4, <2>5
<1>7. ASSUME NEW c \in Checks, Audit(c) PROVE Grounded'
  BY <1>7 DEF Audit
<1>8. ASSUME NEW c \in Checks, Deny(c) PROVE Grounded'
  BY <1>8 DEF Deny
<1>9. ASSUME NEW kind \in Informers, Deliver(kind) PROVE Grounded'
  BY <1>9 DEF Deliver
<1>10. ASSUME ProbeFreshness PROVE Grounded'
  BY <1>10 DEF ProbeFreshness
<1>11. ASSUME CleanupEvents PROVE Grounded'
  BY <1>11 DEF CleanupEvents
<1>12. ASSUME Shutdown PROVE Grounded'
  BY <1>12 DEF Shutdown
<1>13. ASSUME Start PROVE Grounded'
  BY <1>13 DEF Start
<1>14. ASSUME Withdraw PROVE Grounded'
  BY <1>14 DEF Withdraw, Change
<1>15. ASSUME Restore PROVE Grounded'
  BY <1>15 DEF Restore, Change
<1>16. ASSUME Resume PROVE Grounded'
  BY <1>16 DEF Resume, Change
<1>17. ASSUME Resolve PROVE Grounded'
  BY <1>17 DEF Resolve, Change
<1>18. ASSUME NEW v \in Policies, Revise(v) PROVE Grounded'
  BY <1>18 DEF Revise, Change
<1>19. ASSUME NEW r \in Requests, Govern(r) PROVE Grounded'
  BY <1>19 DEF Govern, Change, Access!Approve, Access!Expire, Access!Move
<1>20. ASSUME Tick PROVE Grounded'
  BY <1>20 DEF Tick, Access!Tick
<1>21. ASSUME UNCHANGED vars PROVE Grounded'
  BY <1>21
<1> QED BY <1>1, <1>2, <1>3, <1>4, <1>5, <1>6, <1>7, <1>8, <1>9, <1>10, <1>11, <1>12, <1>13, <1>14, <1>15, <1>16, <1>17, <1>18, <1>19, <1>20, <1>21 DEF Next, Checking

\* Every step keeps TokenStillGood.
LEMMA GoodStep ==
    ASSUME TypeOK, Clocked, TokensCached, TokenStillGood, [Next]_vars
    PROVE  TokenStillGood'
<1> USE EgressAssumption DEF TypeOK, Clocked, TokensCached, TokenStillGood, objects, replica, vars, Goto, NoCheck
<1>1. ASSUME NEW c \in Checks, NEW t \in Tokens, Begin(c, t) PROVE TokenStillGood'
  BY <1>1 DEF Begin
<1>2. ASSUME NEW c \in Checks, Review(c) PROVE TokenStillGood'
  <2> DEFINE t == check[c].token
  <2>1. t \in Tokens /\ now < TokenExp[t] /\ reviewed' = [reviewed EXCEPT ![t] = now] /\ check' = check
    BY <1>2 DEF Review
  <2>2. \A d \in Checks : d # c => pc'[d] = pc[d]
    BY <1>2 DEF Review
  <2>3. ASSUME NEW d \in Checks, pc'[d] \in {"pod", "assignment", "bundle", "grant", "audit", "allowed"}
        PROVE  LET u == check[d].token IN
                 /\ check[d].started < TokenExp[u]
                 /\ reviewed'[u] # 0 /\ check[d].started < reviewed'[u] + TokenCacheTTL
    <3>1. CASE check[d].token = t /\ d = c
      <4>1. check[c].started <= now /\ reviewed'[t] = now
        BY <2>1
      <4> QED BY <3>1, <4>1, <2>1
    <3>2. CASE check[d].token = t /\ d # c
      <4>1. check[d].started <= now /\ reviewed'[t] = now
        BY <2>1
      <4>2. check[d].started < TokenExp[t]
        BY <3>2, <2>1, <4>1
      <4>3. check[d].started \in Nat /\ TokenCacheTTL \in Nat \ {0} /\ now \in Nat /\ now >= 1
        OBVIOUS
      <4>4. reviewed'[t] # 0 /\ check[d].started < reviewed'[t] + TokenCacheTTL
        BY <4>1, <4>3
      <4> QED BY <3>2, <4>2, <4>4
    <3>3. CASE check[d].token # t
      <4>1. d # c /\ pc[d] = pc'[d] /\ check[d].token \in Tokens
        BY <3>3, <2>2, <2>3
      <4>2. reviewed'[check[d].token] = reviewed[check[d].token]
        BY <3>3, <4>1, <2>1
      <4> QED BY <2>3, <4>1, <4>2
    <3> QED BY <3>1, <3>2, <3>3
  <2> QED BY <2>3, <2>1
<1>3. ASSUME NEW c \in Checks, ReadPod(c) PROVE TokenStillGood'
  BY <1>3 DEF ReadPod
<1>4. ASSUME NEW c \in Checks, ReadAssignment(c) PROVE TokenStillGood'
  BY <1>4 DEF ReadAssignment
<1>5. ASSUME NEW c \in Checks, ReadBundle(c) PROVE TokenStillGood'
  BY <1>5 DEF ReadBundle
<1>6. ASSUME NEW c \in Checks, MatchAccessGrant(c) PROVE TokenStillGood'
  BY <1>6 DEF MatchAccessGrant
<1>7. ASSUME NEW c \in Checks, Audit(c) PROVE TokenStillGood'
  BY <1>7 DEF Audit
<1>8. ASSUME NEW c \in Checks, Deny(c) PROVE TokenStillGood'
  BY <1>8 DEF Deny
<1>9. ASSUME NEW kind \in Informers, Deliver(kind) PROVE TokenStillGood'
  BY <1>9 DEF Deliver
<1>10. ASSUME ProbeFreshness PROVE TokenStillGood'
  BY <1>10 DEF ProbeFreshness
<1>11. ASSUME CleanupEvents PROVE TokenStillGood'
  BY <1>11 DEF CleanupEvents
<1>12. ASSUME Shutdown PROVE TokenStillGood'
  BY <1>12 DEF Shutdown
<1>13. ASSUME Start PROVE TokenStillGood'
  BY <1>13 DEF Start
<1>14. ASSUME Withdraw PROVE TokenStillGood'
  BY <1>14 DEF Withdraw, Change
<1>15. ASSUME Restore PROVE TokenStillGood'
  BY <1>15 DEF Restore, Change
<1>16. ASSUME Resume PROVE TokenStillGood'
  BY <1>16 DEF Resume, Change
<1>17. ASSUME Resolve PROVE TokenStillGood'
  BY <1>17 DEF Resolve, Change
<1>18. ASSUME NEW v \in Policies, Revise(v) PROVE TokenStillGood'
  BY <1>18 DEF Revise, Change
<1>19. ASSUME NEW r \in Requests, Govern(r) PROVE TokenStillGood'
  BY <1>19 DEF Govern, Change, Access!Approve, Access!Expire, Access!Move
<1>20. ASSUME Tick PROVE TokenStillGood'
  BY <1>20 DEF Tick, Access!Tick
<1>21. ASSUME UNCHANGED vars PROVE TokenStillGood'
  BY <1>21
<1> QED BY <1>1, <1>2, <1>3, <1>4, <1>5, <1>6, <1>7, <1>8, <1>9, <1>10, <1>11, <1>12, <1>13, <1>14, <1>15, <1>16, <1>17, <1>18, <1>19, <1>20, <1>21 DEF Next, Checking

\* Every step keeps Recorded.
LEMMA RecordedStep ==
    ASSUME TypeOK, Clocked, Recorded, [Next]_vars
    PROVE  Recorded'
<1> USE EgressAssumption DEF TypeOK, Clocked, Recorded, Allowed, objects, replica, vars, Goto, NoCheck
<1>1. ASSUME NEW c \in Checks, NEW t \in Tokens, Begin(c, t) PROVE Recorded'
  BY <1>1 DEF Begin
<1>2. ASSUME NEW c \in Checks, Review(c) PROVE Recorded'
  BY <1>2 DEF Review
<1>3. ASSUME NEW c \in Checks, ReadPod(c) PROVE Recorded'
  BY <1>3 DEF ReadPod
<1>4. ASSUME NEW c \in Checks, ReadAssignment(c) PROVE Recorded'
  BY <1>4 DEF ReadAssignment
<1>5. ASSUME NEW c \in Checks, ReadBundle(c) PROVE Recorded'
  BY <1>5 DEF ReadBundle
<1>6. ASSUME NEW c \in Checks, MatchAccessGrant(c) PROVE Recorded'
  BY <1>6 DEF MatchAccessGrant
<1>7. ASSUME NEW c \in Checks, Audit(c) PROVE Recorded'
  BY <1>7 DEF Audit
<1>8. ASSUME NEW c \in Checks, Deny(c) PROVE Recorded'
  BY <1>8 DEF Deny
<1>9. ASSUME NEW kind \in Informers, Deliver(kind) PROVE Recorded'
  BY <1>9 DEF Deliver
<1>10. ASSUME ProbeFreshness PROVE Recorded'
  BY <1>10 DEF ProbeFreshness
<1>11. ASSUME CleanupEvents PROVE Recorded'
  <2>1. UNCHANGED <<now, pc, check>>
    BY <1>11 DEF CleanupEvents
  <2>2. ASSUME NEW c \in Checks, pc[c] = "allowed"
        PROVE  (events'[c] # None /\ check[c].at <= events'[c]) \/ check[c].at + Retention < now
    <3>1. CASE events[c] # None /\ OverRetention(events[c])
      <4>1. events[c] \in Nat /\ check[c].at \in Nat /\ events[c] + Retention < now
        BY <3>1 DEF OverRetention
      <4> QED BY <4>1, <2>2
    <3>2. CASE ~ (events[c] # None /\ OverRetention(events[c]))
      <4>1. events'[c] = events[c]
        BY <1>11, <3>2 DEF CleanupEvents
      <4> QED BY <4>1, <2>2
    <3> QED BY <3>1, <3>2
  <2> QED BY <2>1, <2>2
<1>12. ASSUME Shutdown PROVE Recorded'
  BY <1>12 DEF Shutdown
<1>13. ASSUME Start PROVE Recorded'
  BY <1>13 DEF Start
<1>14. ASSUME Withdraw PROVE Recorded'
  BY <1>14 DEF Withdraw, Change
<1>15. ASSUME Restore PROVE Recorded'
  BY <1>15 DEF Restore, Change
<1>16. ASSUME Resume PROVE Recorded'
  BY <1>16 DEF Resume, Change
<1>17. ASSUME Resolve PROVE Recorded'
  BY <1>17 DEF Resolve, Change
<1>18. ASSUME NEW v \in Policies, Revise(v) PROVE Recorded'
  BY <1>18 DEF Revise, Change
<1>19. ASSUME NEW r \in Requests, Govern(r) PROVE Recorded'
  BY <1>19 DEF Govern, Change, Access!Approve, Access!Expire, Access!Move
<1>20. ASSUME Tick PROVE Recorded'
  BY <1>20 DEF Tick, Access!Tick
<1>21. ASSUME UNCHANGED vars PROVE Recorded'
  BY <1>21
<1> QED BY <1>1, <1>2, <1>3, <1>4, <1>5, <1>6, <1>7, <1>8, <1>9, <1>10, <1>11, <1>12, <1>13, <1>14, <1>15, <1>16, <1>17, <1>18, <1>19, <1>20, <1>21 DEF Next, Checking

-----------------------------------------------------------------------------
IInv == TypeOK /\ Clocked /\ TokensCached /\ Followed /\ Grounded /\ TokenStillGood /\ Recorded

\* The invariant holds when the checker starts.
LEMMA InitIInv == Init => IInv
<1> SUFFICES ASSUME Init PROVE IInv
  OBVIOUS
<1> USE EgressAssumption DEF Init
<1>1. TypeOK
  <2>1. Cached = {}
    BY DEF Cached
  <2>2. Cardinality(Cached) <= MaxTokenCacheEntries
    BY <2>1, FS_EmptySet
  <2> QED BY <2>2 DEF TypeOK, Snapshot, Approvals, NoCheck, Access!Phases
<1>2. Clocked /\ TokensCached /\ TokenStillGood /\ Recorded /\ Grounded
  BY DEF Clocked, TokensCached, TokenStillGood, Recorded, Grounded, Allowed, NoCheck
<1>3. Followed
  BY DEF Followed, Snapshot, Approvals
<1> QED BY <1>1, <1>2, <1>3 DEF IInv

\* Every behaviour of the checker keeps the invariant.
LEMMA Inductive == Spec => []IInv
<1>1. Init => IInv
  BY InitIInv
<1>2. IInv /\ [Next]_vars => IInv'
  BY TypeStep, ClockedStep, TokensStep, FollowedStep, GroundedStep, GoodStep, RecordedStep DEF IInv
<1> QED BY <1>1, <1>2, PTL DEF Spec

\* The checker's state has its types, and the token cache never exceeds its
\* limit, however many checks are between lookup and store.
THEOREM EgressTypeCorrect == Spec => []TypeOK
<1>1. IInv => TypeOK
  BY DEF IInv
<1> QED BY <1>1, Inductive, PTL

\* An allow is grounded in one incarnation of the sandbox, although Pod,
\* assignment, bundle and requests come from four caches that differ in age.
THEOREM AllowsOneIncarnation == Spec => []AllowMatchesIncarnation
<1>1. IInv => AllowMatchesIncarnation
  BY DEF IInv, Grounded, Ground, AllowMatchesIncarnation, Allowed
<1> QED BY <1>1, Inductive, PTL

\* No check goes on with a token that had expired, or that the API server last
\* authenticated a cache lifetime ago, when the check began.
THEOREM TokensGood == Spec => []TokenStillGood
<1>1. IInv => TokenStillGood
  BY DEF IInv
<1> QED BY <1>1, Inductive, PTL

\* An allow that was answered is on record for the retention period.
THEOREM AllowsAudited == Spec => []AllowIsAudited
<1>1. IInv => AllowIsAudited
  BY DEF IInv, Recorded, AllowIsAudited
<1> QED BY <1>1, Inductive, PTL

=============================================================================
