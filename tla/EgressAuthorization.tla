------------------------ MODULE EgressAuthorization ------------------------
(***************************************************************************)
(* The egress checker of assignmentd: a sandbox's request is allowed from  *)
(* a Pod-bound token and four informer caches, each of which follows the   *)
(* API server at its own pace, and the decision is stored before an allow  *)
(* is returned.  Access requests live as RequestLifecycle says, and the    *)
(* assignment is paused, resumed and revised as AssignmentLifecycle says.  *)
(* Checks of one replica share its caches and interleave at every read.    *)
(***************************************************************************)
EXTENDS Naturals, FiniteSets

CONSTANTS
    Checks,          \* concurrent ext_authz checks
    Tokens,          \* identity tokens
    TokenPod,        \* token -> the Pod it is bound to
    TokenExp,        \* token -> its exp claim
    Requests,        \* access requests for the target that the checks ask for
    GrantPod,        \* request -> spec.podUID
    GrantRevision,   \* request -> spec.basePolicyRevision
    GrantDuration,   \* requestedDurationSeconds
    Policies,        \* contents of the capability bundle; a revision is its hash
    Allows,          \* the contents whose allow expression holds for the target
    FreshnessLimit, TokenCacheTTL, MaxTokenCacheEntries, Retention,
    MaxTime, MaxPod, \* bounds on the clock and on the Pods of the sandbox
    MaxChanges,      \* bound on the changes of the objects that the caches follow
    None

ASSUME EgressAssumption ==
    /\ TokenPod \in [Tokens -> 1..MaxPod] /\ TokenExp \in [Tokens -> Nat]
    /\ GrantPod \in [Requests -> 1..MaxPod] /\ GrantRevision \in [Requests -> Policies]
    /\ Allows \subseteq Policies
    /\ {FreshnessLimit, Retention, MaxTime, MaxChanges, GrantDuration} \subseteq Nat
    /\ {TokenCacheTTL, MaxTokenCacheEntries, MaxPod} \subseteq Nat \ {0}
    /\ IsFiniteSet(Tokens)
    /\ None \notin Nat \union Policies \union Requests

VARIABLES
    now, phase, requested, expiry,   \* the access requests (RequestLifecycle)
    pods,            \* API: Pods that exist and are not deleting
    assignment,      \* API: podRef, resolved revision, Ready and not paused
    bundle,          \* API: contents of the capability bundle
    changes,         \* how often an object that a cache follows has changed
    cache,           \* the informer caches
    lastFresh,       \* time of the last freshness probe that succeeded
    tokens,          \* reviewed token -> expiresAt, 0 when not cached
    accepting,       \* the audit sink accepts records
    events,          \* check -> timestamp of the SandboxEgressEvent of its decision
    pc, check,       \* check -> its next step, its local state
    reviewed,        \* history: token -> time of its last positive TokenReview
    bindings,        \* history: <<Pod, revision>> pairs that were Ready
    withdrawn        \* history: Pod -> when the API server withdrew it from Ready

Access == INSTANCE RequestLifecycle

objects == <<pods, assignment, bundle, changes, bindings, withdrawn>>
replica == <<cache, lastFresh, tokens, accepting>>
vars == <<now, phase, requested, expiry, objects, replica, events, pc, check, reviewed>>

NoCheck == [token |-> None, started |-> 0, revision |-> None, source |-> None, at |-> 0]

\* What the access request informer holds of a request: an approval's expiry.
Approvals == [r \in Requests |-> IF phase[r] = "approved" THEN expiry[r] ELSE 0]

Snapshot == [pods |-> pods, assignment |-> assignment, bundle |-> bundle, requests |-> Approvals]

Init ==
    /\ now = 1
    /\ phase = [r \in Requests |-> "pending"]
    /\ requested = [r \in Requests |-> GrantDuration]
    /\ expiry = [r \in Requests |-> 0]
    /\ pods = {1} /\ changes = 0
    /\ \E v \in Policies :
         /\ assignment = [pod |-> 1, revision |-> v, ready |-> TRUE]
         /\ bundle = v /\ bindings = {<<1, v>>}
    /\ withdrawn = [p \in 1..MaxPod |-> 0]
    /\ cache = Snapshot
    /\ lastFresh = 1
    /\ tokens = [t \in Tokens |-> 0]
    /\ accepting = TRUE
    /\ events = [c \in Checks |-> None]
    /\ pc = [c \in Checks |-> "idle"]
    /\ check = [c \in Checks |-> NoCheck]
    /\ reviewed = [t \in Tokens |-> 0]

Goto(c, step) == pc' = [pc EXCEPT ![c] = step]

-----------------------------------------------------------------------------
(* KubernetesChecker.Check *)

Fresh == now <= lastFresh + FreshnessLimit

\* reviewToken, cache lookup: a hit goes on to the Pod, a miss drops the entry.
Begin(c, t) ==
    /\ pc[c] \in {"idle", "allowed", "denied"} /\ Fresh
    /\ check' = [check EXCEPT ![c] = [NoCheck EXCEPT !.token = t, !.started = now]]
    /\ events' = [events EXCEPT ![c] = None]
    /\ IF now < tokens[t]
       THEN Goto(c, "pod") /\ UNCHANGED tokens
       ELSE Goto(c, "review") /\ tokens' = [tokens EXCEPT ![t] = 0]
    /\ UNCHANGED <<now, phase, requested, expiry, objects, cache, lastFresh, accepting, reviewed>>

Cached == {t \in Tokens : tokens[t] # 0}

Minimum(a, b) == IF a < b THEN a ELSE b

\* Mutant: the token's own expiry is not looked at.
CacheUntilTTL(t, started) == started + TokenCacheTTL

CacheUntil(t, started) == Minimum(started + TokenCacheTTL, TokenExp[t])

\* Mutant: the cache is emptied only when it is over its limit.
KeptBeyondLimit ==
    IF Cardinality(Cached) > MaxTokenCacheEntries THEN [u \in Tokens |-> 0] ELSE tokens

\* A full cache is emptied before an entry is added.
Kept == IF Cardinality(Cached) >= MaxTokenCacheEntries THEN [u \in Tokens |-> 0] ELSE tokens

\* The API server authenticates a token until it expires or its Pod is gone.
Review(c) ==
    /\ pc[c] = "review"
    /\ LET t == check[c].token
           until == CacheUntil(t, check[c].started)
       IN /\ now < TokenExp[t] /\ TokenPod[t] \in pods
          /\ reviewed' = [reviewed EXCEPT ![t] = now]
          /\ tokens' = IF check[c].started < until THEN [Kept EXCEPT ![t] = until] ELSE tokens
    /\ Goto(c, "pod")
    /\ UNCHANGED <<now, phase, requested, expiry, objects, cache, lastFresh, accepting, events, check>>

\* The cached Pod is live, bound to the token's ServiceAccount, at the source
\* address of the request, and mounts no token.
ReadPod(c) ==
    /\ pc[c] = "pod" /\ TokenPod[check[c].token] \in cache.pods
    /\ Goto(c, "assignment")
    /\ UNCHANGED <<now, phase, requested, expiry, objects, replica, events, check, reviewed>>

ReadAssignment(c) ==
    /\ pc[c] = "assignment"
    /\ cache.assignment.ready /\ cache.assignment.pod = TokenPod[check[c].token]
    /\ check' = [check EXCEPT ![c].revision = cache.assignment.revision]
    /\ Goto(c, "bundle")
    /\ UNCHANGED <<now, phase, requested, expiry, objects, replica, events, reviewed>>

\* Mutant: the cached bundle is not compared with the resolved revision.
ReadBundleAnyRevision(c) ==
    /\ pc[c] = "bundle"
    /\ IF cache.bundle \in Allows
       THEN check' = [check EXCEPT ![c].source = "bundle", ![c].at = now] /\ Goto(c, "audit")
       ELSE UNCHANGED check /\ Goto(c, "grant")
    /\ UNCHANGED <<now, phase, requested, expiry, objects, replica, events, reviewed>>

\* The cached bundle hashes to the resolved revision; its compiled expression,
\* kept by revision, allows the target, leaves it to an access request or fails.
ReadBundle(c) ==
    /\ pc[c] = "bundle" /\ cache.bundle = check[c].revision
    /\ \/ /\ cache.bundle \in Allows
          /\ check' = [check EXCEPT ![c].source = "bundle", ![c].at = now] /\ Goto(c, "audit")
       \/ cache.bundle \notin Allows /\ Goto(c, "grant") /\ UNCHANGED check
       \/ check' = [check EXCEPT ![c].source = "deny", ![c].at = now] /\ Goto(c, "audit")
    /\ UNCHANGED <<now, phase, requested, expiry, objects, replica, events, reviewed>>

Matching(c) ==
    {r \in Requests :
        /\ GrantPod[r] = TokenPod[check[c].token] /\ GrantRevision[r] = check[c].revision
        /\ now < cache.requests[r]}

\* matchAccessGrantObjects: exactly one approval in force.
MatchAccessGrant(c) ==
    /\ pc[c] = "grant"
    /\ check' = [check EXCEPT ![c].at = now,
         ![c].source = IF Cardinality(Matching(c)) = 1
                       THEN CHOOSE r \in Matching(c) : TRUE ELSE "deny"]
    /\ Goto(c, "audit")
    /\ UNCHANGED <<now, phase, requested, expiry, objects, replica, events, reviewed>>

\* Mutant: the decision stands although its record was not stored.
AuditUnchecked(c) ==
    /\ pc[c] = "audit"
    /\ \/ accepting /\ events' = [events EXCEPT ![c] = now]
       \/ UNCHANGED events
    /\ Goto(c, IF check[c].source # "deny" THEN "allowed" ELSE "denied")
    /\ UNCHANGED <<now, phase, requested, expiry, objects, replica, check, reviewed>>

\* The deferred Record: an allow whose record is not stored becomes a deny.
Audit(c) ==
    /\ pc[c] = "audit"
    /\ \/ /\ accepting /\ events' = [events EXCEPT ![c] = now]
          /\ Goto(c, IF check[c].source # "deny" THEN "allowed" ELSE "denied")
       \/ UNCHANGED events /\ Goto(c, "denied")
    /\ UNCHANGED <<now, phase, requested, expiry, objects, replica, check, reviewed>>

\* Every other outcome of a read: a deny that names no assignment, or an error.
Deny(c) ==
    /\ pc[c] \in {"review", "pod", "assignment", "bundle"}
    /\ Goto(c, "denied")
    /\ check' = [check EXCEPT ![c] = NoCheck]
    /\ UNCHANGED <<now, phase, requested, expiry, objects, replica, events, reviewed>>

-----------------------------------------------------------------------------
(* The informers, the freshness loop and the audit sink *)

Informers == {"pods", "assignment", "bundle", "requests"}

\* A watch delivers in order, after any delay, and may skip what was replaced.
Deliver(kind) ==
    /\ cache[kind] # Snapshot[kind]
    /\ cache' = [cache EXCEPT ![kind] = Snapshot[kind]]
    /\ UNCHANGED <<now, phase, requested, expiry, objects, lastFresh, tokens, accepting, events,
                   pc, check, reviewed>>

\* probeFreshness lists every kind at the API server, and looks at no cache.
ProbeFreshness ==
    /\ lastFresh # now /\ lastFresh' = now
    /\ UNCHANGED <<now, phase, requested, expiry, objects, cache, tokens, accepting, events,
                   pc, check, reviewed>>

OverRetention(stamp) == stamp + Retention < now

CleanupEvents ==
    /\ \E c \in Checks : events[c] # None /\ OverRetention(events[c])
    /\ events' = [c \in Checks |-> IF events[c] # None /\ OverRetention(events[c])
                                   THEN None ELSE events[c]]
    /\ UNCHANGED <<now, phase, requested, expiry, objects, replica, pc, check, reviewed>>

Shutdown ==
    /\ accepting /\ accepting' = FALSE
    /\ UNCHANGED <<now, phase, requested, expiry, objects, cache, lastFresh, tokens, events,
                   pc, check, reviewed>>

\* NewKubernetesChecker and Start: empty caches are synchronized before checks.
Start ==
    /\ ~accepting /\ accepting' = TRUE
    /\ cache' = Snapshot /\ lastFresh' = now
    /\ tokens' = [t \in Tokens |-> 0]
    /\ pc' = [c \in Checks |-> IF pc[c] = "allowed" THEN "allowed" ELSE "idle"]
    /\ UNCHANGED <<now, phase, requested, expiry, objects, events, check, reviewed>>

-----------------------------------------------------------------------------
(* The sandbox, its bundle, its access requests, and time *)

Change == changes < MaxChanges /\ changes' = changes + 1

Withdraw ==                          \* a pause, a fence, a deletion or a failed Pod
    /\ Change
    /\ assignment.ready
    /\ assignment' = [assignment EXCEPT !.ready = FALSE]
    /\ withdrawn' = [withdrawn EXCEPT ![assignment.pod] = now]
    /\ UNCHANGED <<now, phase, requested, expiry, pods, bundle, bindings, replica, events,
                   pc, check, reviewed>>

Restore ==                           \* the same Pod is Ready again
    /\ Change
    /\ ~assignment.ready /\ assignment.pod \in pods
    /\ assignment' = [assignment EXCEPT !.ready = TRUE, !.revision = bundle]
    /\ bindings' = bindings \union {<<assignment.pod, bundle>>}
    /\ withdrawn' = [withdrawn EXCEPT ![assignment.pod] = 0]
    /\ UNCHANGED <<now, phase, requested, expiry, pods, bundle, replica, events, pc, check, reviewed>>

Resume ==                            \* a new Pod, bound under the bundle as it is
    /\ Change
    /\ ~assignment.ready /\ assignment.pod < MaxPod
    /\ LET p == assignment.pod + 1 IN
         /\ assignment' = [pod |-> p, revision |-> bundle, ready |-> TRUE]
         /\ pods' = (pods \ {assignment.pod}) \union {p}
         /\ bindings' = bindings \union {<<p, bundle>>}
    /\ UNCHANGED <<now, phase, requested, expiry, bundle, withdrawn, replica, events,
                   pc, check, reviewed>>

Revise(v) ==                         \* the bundle is edited
    /\ Change
    /\ bundle # v /\ bundle' = v
    /\ UNCHANGED <<now, phase, requested, expiry, pods, assignment, bindings, withdrawn, replica,
                   events, pc, check, reviewed>>

Resolve ==                           \* a reconcile pass records the new revision
    /\ Change
    /\ assignment.ready /\ assignment.revision # bundle
    /\ assignment' = [assignment EXCEPT !.revision = bundle]
    /\ bindings' = bindings \union {<<assignment.pod, bundle>>}
    /\ UNCHANGED <<now, phase, requested, expiry, pods, bundle, withdrawn, replica, events,
                   pc, check, reviewed>>

Govern(r) ==
    /\ Change
    /\ Access!Approve(r) \/ Access!Expire(r)
    /\ UNCHANGED <<pods, assignment, bundle, bindings, withdrawn, replica, events, pc, check, reviewed>>

Tick ==
    /\ now < MaxTime /\ Access!Tick
    /\ UNCHANGED <<objects, replica, events, pc, check, reviewed>>

Checking(c) ==
    \/ \E t \in Tokens : Begin(c, t)
    \/ Review(c) \/ ReadPod(c) \/ ReadAssignment(c) \/ ReadBundle(c)
    \/ MatchAccessGrant(c) \/ Audit(c) \/ Deny(c)

Next ==
    \/ \E c \in Checks : Checking(c)
    \/ \E kind \in Informers : Deliver(kind)
    \/ ProbeFreshness \/ CleanupEvents \/ Shutdown \/ Start
    \/ Withdraw \/ Restore \/ Resume \/ Resolve \/ \E v \in Policies : Revise(v)
    \/ \E r \in Requests : Govern(r)
    \/ Tick

Spec == Init /\ [][Next]_vars

-----------------------------------------------------------------------------
(* The checker's caches and the objects it follows have their shapes.       *)
TypeOK ==
    /\ now \in Nat /\ lastFresh \in Nat
    /\ phase \in [Requests -> Access!Phases] /\ expiry \in [Requests -> Nat]
    /\ requested \in [Requests -> Nat]
    /\ pods \subseteq 1..MaxPod /\ bundle \in Policies /\ changes \in 0..MaxChanges
    /\ assignment \in [pod : 1..MaxPod, revision : Policies, ready : BOOLEAN]
    /\ cache \in [pods : SUBSET (1..MaxPod), bundle : Policies, requests : [Requests -> Nat],
                  assignment : [pod : 1..MaxPod, revision : Policies, ready : BOOLEAN]]
    /\ tokens \in [Tokens -> Nat] /\ Cardinality(Cached) <= MaxTokenCacheEntries
    /\ accepting \in BOOLEAN
    /\ events \in [Checks -> Nat \union {None}]
    /\ pc \in [Checks -> {"idle", "review", "pod", "assignment", "bundle", "grant", "audit",
                          "allowed", "denied"}]
    /\ check \in [Checks -> [token : Tokens \union {None}, started : Nat,
                             revision : Policies \union {None},
                             source : Requests \union {None, "bundle", "deny"}, at : Nat]]

Allowed(c) == pc[c] = "allowed"

(* An allow belongs to one incarnation: the assignment was Ready with this  *)
(* very Pod and this policy revision, and it is that revision's expression, *)
(* or an unexpired approval for that Pod and revision, that allowed it,     *)
(* although Pod, assignment, bundle and requests are read at four moments   *)
(* from four caches.                                                        *)
AllowMatchesIncarnation ==
    \A c \in Checks : Allowed(c) =>
        LET p == TokenPod[check[c].token]
            v == check[c].revision
            r == check[c].source
        IN /\ <<p, v>> \in bindings
           /\ \/ r = "bundle" /\ v \in Allows
              \/ /\ r \in Requests /\ GrantPod[r] = p /\ GrantRevision[r] = v
                 /\ phase[r] \in {"approved", "expired"} /\ check[c].at < expiry[r]

(* A token is honoured only before its own expiry and less than the cache's *)
(* lifetime after the API server authenticated it, also when the entry was  *)
(* stored by a check that had waited long for its TokenReview.              *)
TokenStillGood ==
    \A c \in Checks : pc[c] \in {"pod", "assignment", "bundle", "grant", "audit", "allowed"} =>
        LET t == check[c].token IN
            /\ check[c].started < TokenExp[t]
            /\ reviewed[t] # 0 /\ check[c].started < reviewed[t] + TokenCacheTTL

(* Every allow that was answered has its audit record, until the retention  *)
(* period after the decision is over, whatever Record and the clean-up do.  *)
AllowIsAudited ==
    \A c \in Checks : Allowed(c) => events[c] # None \/ check[c].at + Retention < now

(* Authorization fails closed on stale caches: no check that begins later   *)
(* than the freshness limit after the API server withdrew its Pod is        *)
(* allowed.                                                                 *)
AllowNotStale ==
    \A c \in Checks : Allowed(c) =>
        LET p == TokenPod[check[c].token] IN
            withdrawn[p] # 0 => check[c].started <= withdrawn[p] + FreshnessLimit

=============================================================================
