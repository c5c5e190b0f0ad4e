# A TLA+ verification of the AKS sandbox governance layer

This directory models the governance layer that this repository puts in front of
an OpenSandbox server: requests to create, pause, resume and delete a sandbox
become `SandboxAssignment` objects, a controller binds each assignment to exactly
one workload and Pod, and other services (egress authorization, credential
broker, dashboard) act on what the assignment says. Everything below is
translated from the source; file names without a directory are those of
`src/internal/assignment/`.

## 1. The system

| Component | State it keeps | Operations | Interacts with |
|---|---|---|---|
| Lifecycle facade, `opensandboxapi/handler.go` | `createMu`; everything else is in the assignment | create, pause, resume, delete; metadata patch and proxy without state | store, tenant admission, upstream OpenSandbox |
| Store, `store/kubernetes/store.go` | informer index of sandbox IDs | Create, Get, GetBySandboxID, SetSandboxID, SetLifecycleFence, Delete | Kubernetes API; shared by facade replicas |
| Controller, `controller/controller.go` | none between passes: status, finalizers, annotations live in the object | poll, reconcile, finalize, release of the bundle | assignments, BatchSandboxes, Pods, templates, bundles |
| Tenant admission, `admission/admission.go` | one Lease per tenant | AuthorizeCreate, release | called by create inside `createMu` |
| Process, `cmd/assignmentd/main.go` | leader election Lease | two API replicas, one leading controller | all of the above |
| Egress authorization, `authz/` | informer caches, freshness stamp, token and program caches | Check, audit | assignments, Pods, bundles, access requests |
| Credential broker, `credentialbroker/` | revocation records, signing keys | issue, verify, revoke | egress authorization |
| Caller authentication, `callerauth/` | none | authenticate, authorize tenant | facade |
| Governance rules, `governance/` | none (pure) | revision hash, simulation, validation | dashboard, controller, checker |
| Dashboard, sign-in: `cmd/aks-sandbox-dashboard/auth.go`, `mise.go` | sessions in memory; the sign-in of a tab in its sessionStorage | start, callback, create session, logout, clean-up | MISE, the browser |
| Dashboard, requester authorization: `requester_authorization.go` | none | middleware, client wrapper | bindings, assignments, bundles, OpenSandbox |
| Dashboard, governance: `governance.go` and its forms | access requests, as Kubernetes objects | request, approve, deny; forms that create bundles, templates, policies | checker and audit, which read and expire what it writes |
| Harness, `harness/server.py` | none | create, wait, run, clean up | facade, broker |
| Doctor, egress probe, scripts, manifests | none | diagnostics and deployment | - |

**What is hard.** No component holds a lock over an operation: a request and a
reconcile pass are sequences of Kubernetes API calls, ordered only by
resource versions, finalizers and one Lease. So the questions are about
interleavings (a pass that decides on a listed version while a pause is
recorded), partial failure (an upstream create whose answer is lost), timeouts
(a pause that gives up, a Lease that expires in the critical section, a pending
operation past its TTL), restarts and changes of leadership, and about names that
outlive the objects they named. `PROJECT.json` lists these hazards at their lines.

**What makes each component correct.**
- Controller and facade: Ready is given only to a Pod of this incarnation that no
  pause or fence forbids; a pause withdraws authority before upstream pauses; a
  resume waits for a new Pod; deletion leaves nothing behind and completes; the
  mapping to the sandbox is the incarnation's own and is recovered when lost.
- Tenant admission: exclusive over replicas and never over budget as long as no
  request outlives its Lease (finding 4 shows what happens otherwise: a late release
  deletes someone else's Lease); answers every request.
- Credential broker: a revoked grant is not confirmed before it has expired on some
  replica; what is confirmed was bound to a live, Ready Pod at one moment; nothing
  is answered without its audit record.
- Access requests: decided once, never extended, never approved for an incarnation
  that is gone, expired at last; active duplicates only from overlapping
  submissions.
- Egress authorization: an allow belongs to one incarnation and policy revision,
  to a token that is still good, and is audited; stale caches deny.
- Dashboard: a session ends with its logout, its token and its process; a sign-in
  gives one session; the store stays within its limit and refuses a sign-in only
  for live sessions; a call for a sandbox or a snapshot reaches OpenSandbox only when
  the requester's binding covered the tenant of the object. (The loads of the nodes,
  which name no sandbox, are given to every session.)

## 2. Modules

| Module | Models |
|---|---|
| `AssignmentLifecycle` | facade, store and controller around one assignment name |
| `MCAssignmentLifecycle` | its TLC instances (symmetry) |
| `AssignmentLifecycleProofs` | its theorems, for every fault |
| `LifecycleSequentialProofs` | its theorems about identity, deletion and the fence, with the hypotheses that these need |
| `QuotaAdmission` | what tenant admission promises: the atomic budget check |
| `TenantAdmission` | the create handlers' critical section with the Lease; refines `QuotaAdmission` |
| `MCTenantAdmission` | its TLC instance |
| `TenantAdmissionProofs` | its theorems, the refinement included |
| `CredentialBroker`, `MCCredentialBroker`, `CredentialBrokerProofs` | the broker, its revocation records and its audit trail |
| `RequestLifecycle` | what the access request API promises |
| `AccessRequests`, `MCAccessRequests`, `AccessRequestsProofs` | the dashboard's request handlers and assignmentd's expiry loop; refines `RequestLifecycle` |
| `EgressAuthorization`, `MCEgressAuthorization`, `EgressAuthorizationProofs` | the checker, its caches and the audit sink; composed with the actions of `RequestLifecycle` |
| `DashboardSessions` | sign-in and the session store |
| `DashboardRequests`, `MCDashboardRequests`, `DashboardRequestsProofs` | a request's way through the dashboard; extends `DashboardSessions` |

### AssignmentLifecycle

All requests carry one idempotency key, so they meet in one name
(`idempotentAssignmentName`); the object's successive incarnations have distinct
UIDs. `asg` is the stored object: deletion timestamp, finalizer, the sandbox-ID
annotation, the pause and resume-after annotations, and the parts of status that
lookups and later passes use. `cl[c]` is the handler of one request, `ctl[k]` one
reconcile pass with the version it listed and what it wants to write, `posts` the
creates that upstream has received, `cache` the informer's view.

Handlers are cut at their API calls. `updateObjectMetadata` (read, change,
conditional write, retried on conflict) is one atomic step, because a retry starts
from the stored object again. A resource version is modelled by what it is for:
`fresh` holds the controllers whose listed version is still the stored one, every
change of the object empties it, and `Store` writes only under it.

| Code | Actions |
|---|---|
| `create` | `CreateNew`, `CreateExisting`, `ExpireGet`, `PostCreate`, `CreateAnswered`, `CreateLost`, `CreateRejected`, `SetSandboxID`, `DeleteAssignment` |
| `pause` | `PauseLookup`, `PauseFence`, `PauseObserved` or `PauseGaveUp` with `PauseRollback`, `PauseUpstream` |
| `resume` | `ResumeLookup`, `ResumeFence`, `ResumeUpstream`, `ResumeRollback` |
| `delete` | `DeleteLookup`, `DeleteAssignment` |
| `reconcile` | `ListAssignments`, `AddFinalizer`, `BoundaryRejected`, `ReportPaused`, `MatchWorkloads`, `MatchPods`, `WritePlan` |
| `finalize` | `FinalizeTargets`, `DeleteWorkload`, `WorkloadsDeleted`, `FinalizePods`, `RemoveFinalizer` |
| informer, clocks, crashes | `SyncCache`, `Age`, `RequestAborted`, `PassAborted` |
| upstream and Kubernetes (external) | `ApplyCreate`, `StartPod`, `PodBecomesReady`, `TerminatePod`, `PodGone`, `ExpireWorkload`, `WorkloadGone` |

`Faults` selects what can go wrong in an instance, so that one model answers both
"with everything going wrong" and "in an undisturbed run". Abstractions: the
template, bundle, ServiceAccount, runtime-class and identity checks are a free
choice under `boundaryError` (they read objects that are not modelled); request
validation and caller authorization end a request before it changes anything and
are left out; a Pod belongs to its BatchSandbox and carries its UID. Two ghosts,
`fencer` and `retired`, remember who fenced last and which Pods a pause retired.

### TenantAdmission

Each create takes its replica's `createMu`, passes the policy check, runs the loop
of `acquireTenantLease`, counts, stores and releases; each API call is a step, and
a replica may die in between. Time is kept as ages: `lease.left` is what remains
of the Lease, `age[r]` how long ago a request read the clock that it writes as
`renewTime`. Reading the clock and getting the Lease are one step, and so are the
two Lists of the count (bundles do not change tenant here). Lease versions are
modelled as above (`fresh`). The code assumes and does not enforce that a critical
section ends within the 15 s of the Lease: `Late` names the steps in which a request
may outlive it, and `Timely` says that there are none. One clock stands for those of
all replicas, so skew between replicas counts as lateness too.

### CredentialBroker

A grant is a signed token, so the broker stores only revocation records and audit
events. `pc[p]` is the next API call of request `p`, which replica `serves[p]`
handles; `Clock(r)` is the real time plus that replica's skew. `issue` is `Issue`
and `IssueRecord`; `verify` is `Verify` (`parseAuthorization`), `IsRevoked`,
`Purge`, `ValidateAssignment`, `ValidatePod`, `RecordUse`; `revoke` is `Revoke`,
`StoreRevoke`, `RecordRevoke`. Any call may fail, a revocation also after it was
stored; `Restart` ends a replica's requests and may rotate its key. The sandbox is
reduced to what `ValidateGrant` reads: the bound incarnation, whether it is Ready,
and which Pods live. Grant IDs never repeat (`uuid.NewString`), and neither do Pods.

### AccessRequests

`requests` are the `SandboxAccessRequest` objects with their resource versions.
`createAccessRequest` is `Submit`, `SubmitDuplicates`, `SubmitCreate`,
`SubmitInitialize`; an approval is `PendingRequest`, `ApproveValidate`,
`ApproveBudget`, `Decide`, a denial the first and the last; `expireAccessRequests`
is `ExpireList` and one `ExpirePatch` per listed request, which carries no version.
The form, scopes and limits of the tenant are read from objects that may change
at any moment, so reading them has either outcome. The event a request is made from
is immutable and enters as its target, incarnation and revision. `RequestLifecycle`
sees of all this a phase, the duration asked for and the expiry.

### EgressAuthorization

Objects at the API server (`pods`, `assignment`, `bundle`, the requests of
`RequestLifecycle`) and what the four informers hold of them (`cache`) change
separately; `Deliver` brings one informer up to date. `Check` is `Begin` (freshness
and token cache), `Review` (TokenReview), `ReadPod`, `ReadAssignment`, `ReadBundle`,
`MatchAccessGrant` and `Audit`, the deferred `Record`; `Deny` ends it anywhere. A
policy is a content of the bundle and its own revision; `Allows` are those whose
expression holds for the target that is asked for. `ProbeFreshness` is the loop that
lists at the API server, `CleanupEvents` the retention, `Shutdown` and `Start` a
restart. The checker's own objects move as the other modules say they do.

### DashboardSessions and DashboardRequests

A tab runs the script of the sign-in pages (`Start`, `Callback`), `Validate` and
`createSession` turn its token into a session, and the store is a function from
cookies to expiry times. A request passes the session middleware (`Arrive`,
`getSession`, `CheckExpiry`, `DeleteExpired`), the requester middleware, which
authorizes pages and the taking of a snapshot twice, operations and creates once and
the paths of single snapshots not at all (`Gates`), and the client wrapper, which
authorizes again, except for a create, and for node loads, which nothing authorizes
(`Checks`). A snapshot is taken with a POST to `/dashboard/snapshots`, which
`isAggregateSandboxPath` catches first, so that the middleware's own case for it
(`requester_authorization.go:86-93`) is never reached. One authorization reads the
scopes, the assignment and, when that names no tenant, the bundle, each at a moment of
its own. `held`, `named` and `bundles` are ghosts: the tenants that the binding gave
the requester, that the object's assignment named and that the bundle had since the
authorization began that the call relies on: the wrapper's, or for a create the
middleware's (`Relied`). The two reads of an inherited tenant are not atomic, so the
tenant that is decided on may be one that the object had at no single moment: its
assignment named none at one moment, and the bundle had that tenant at another.
`Owned` says this, and no more is true of the code.

## 3. Runs

| Run | Instance | States | Shows |
|---|---|---|---|
| `lifecycle_safety` | 2 concurrent requests, 3 in all, 1 controller, 1 workload, 1 Pod, every fault | 1.67 M | `PauseRevokesFirst`, `BindsOnlyUnfencedPod` |
| `lifecycle_sequential` | 1 request at a time, 3 in all, 2 Pods, no faults, fairness | 149 k | `RetiredPodNeverReady`, `FinalizerOutlivesWorkload`, `DeletionCompletes`, `MappingRecovered`, `ReadyFollowsPod` |
| `lifecycle_fence_lost` | as above, 1 Pod, failing boundary checks | - | `RetiredPodNeverReady` is violated |
| `lifecycle_ungoverned` | 2 requests in a row, no faults | - | `NoUngovernedWorkload` is violated |
| `lifecycle_mapping` | 2 concurrent requests, 2 incarnations, no faults | - | `MappingIsOwn` is violated |
| `admission` | 4 requests (one outside the policy, two with one key), 2 replicas, budget 1, Lease of 2 ticks, timely | 43 k | all admission properties and the refinement |
| `admission_expired_lease` | the same, late in the release only | - | `QuotaRespected` is violated |
| `broker` | 4 requests, 1 grant of 1 tick, 2 replicas 1 tick apart, 2 incarnations, 1 key rotation | 1.44 M | `RevocationHolds`, `BindingHeldAtOnce`, `AcknowledgedIsAudited` |
| `access` | 2 submissions of one target, 1 administrator, 1 expiry loop, 2 revisions, 2 incarnations, limits 0 and 1 | 303 k | `DecisionStands`, `StaleNeverApproved`, `DuplicatesOnlyFromOverlap`, `ImplementsLifecycle` (with liveness) |
| `egress` | 1 check at a time, repeated, 2 tokens, 2 Pods, 2 access requests, 2 policies, 3 object changes | 3.12 M | `AllowMatchesIncarnation`, `TokenStillGood`, `AllowIsAudited` |
| `egress_stale` | the same, fewer objects | - | `AllowNotStale` is violated |
| `sessions` | 1 tab, 2 sign-ins, room for 1 session, 2 requests of which one logs out, 2 tenants, 1 binding, 2 assignments, 1 edit | 3.23 M | `SessionHonoured`, `OperationAuthorized`, `OneSessionPerSignIn`, `CapacityOnlyByLiveSessions` |

**Bounds.** Two concurrent requests and one pass give every pairwise race between
handlers and with the controller; three requests allow create followed by pause
and resume, or by two pauses. The theorems cover any numbers, two controllers
included, so the safety run need not repeat the handover. One Pod suffices for
safety, because a second one only matters for being replaced, which the
sequential run has. Budget 1 with three permitted requests reaches "at the limit"
and "one below" in every order; two ticks distinguish a fresh, an ageing and an
expired Lease; r1 and r2 contend for one `createMu`, r3 comes from the other
replica with r2's key. Four broker requests are an issue, a revocation and two
verifications, one of which deletes the record for the other; a skew of one tick is
as long as the grant lives, so the replicas disagree about its expiry. Two
submissions give the duplicate race and limit 0 makes a policy refuse. One decider,
which may begin again, races with the submissions and the expiry loop; two
administrators whose decisions overlap are not in the run (with the liveness of the
refinement that instance is beyond TLC) and rest on the theorem
`StoredDecisionStands`, which holds for any number of them. In `egress`
the two tokens overlap in the cache of one entry, one expires within the cache's
TTL, three object changes are a pause, a resume and an edit; checks repeat, and the
only state they share is the caches, so one at a time meets every content of these.
In `sessions` one edit suffices to turn an authorization that was right into one
that is not between any two reads, and the theorems cover any number of edits. Of
the two tenants one is the requester's and the other the object's, or both are the
same. Several bindings of one requester act like none and are left to the theorems.
Two instants are enough for a token that ends before its session would, or after.
Deadlock checking is off where requests are bounded and
the system may be idle; in `sessions` it is on.

**Fairness.** `Controller.Run` polls every second for as long as a replica leads,
so each controller's `Pass` is weakly fair. Kubernetes carries deletions out: a
BatchSandbox or Pod that is deleted disappears, and Pods of a deleted BatchSandbox
are terminated. Nothing is assumed of clients, of upstream applying a create, or
of Pods becoming ready. In admission, handlers run and time passes; requests may
give up and replicas crash, without fairness. `cleanupLoop` runs on a ticker in
every replica, so `ExpireList` is weakly fair. A pass stops at the first patch that
fails (`authz/audit.go:265-269`), so nothing is assumed of the patch of one request:
strong fairness says only that a replica which gets to patch again and again succeeds
with some patch. Each success takes a request off the next list, so that all are reached.
A tick cleans up events first and goes no further when that fails (`:218-223`); that it
does not fail forever is part of the assumption. Nothing is assumed of requesters and
administrators.

### Findings

1. **A paused assignment can lose its fence** (`lifecycle_fence_lost`). Template and
   bundle are read before the pause is looked at, and any error of those reads
   writes a status without `podRef`; resume then fences nothing and the retired
   Pod is Ready again.
2. **A delete before the finalizer leaks the sandbox** (`lifecycle_ungoverned`).
3. **A late create answer maps another incarnation's sandbox** (`lifecycle_mapping`),
   because `SetSandboxID` goes by name, without the UID. It takes two overlapping
   requests (`SequentialMappingIsOwn`).
4. **A stale release exceeds the budget** (`admission_expired_lease`). The release
   deletes the Lease by name (`admission/admission.go:145`), or under a UID that a
   takeover keeps (`:162`). A request that is late in nothing but its release deletes
   the Lease of the request that took it over; a third one gets a new Lease at once, and
   both count and store in time. `docs/p0-service-boundary-findings.md` (lines 37 and
   60-68) lists the stale release as a gap; the run shows its consequence. The Lease is
   neither renewed nor checked when the assignment is stored, so with `Late = {"store"}`
   the budget is exceeded in fewer steps.
5. **Freshness does not measure the caches** (`egress_stale`): the probe lists at the
   API server, so a check is allowed from an informer cache of any age as long as
   the API server answers.

## 4. Theorems

All proofs hold for every value of the constants, under the modules' `ASSUME`s
(finite sets, naturals, empty values outside the sets), which TLC evaluates.

**TenantAdmissionProofs.** `TypeCorrect` needs nothing else. The others assume
`Timely`; finding 4 shows that one late step is too many. The inductive invariant
`AdmissionInv` says, besides types: a request in its critical section holds the Lease
and there is as much of the Lease left as its age allows (`HolderOwnsLease`,
`InTime`); a request whose takeover will not meet a conflict sees an expired Lease
(`TakeoverOfExpired`), so that, by the first two, nobody is in the critical section; a
Lease names a request (`LeaseHasHolder`); requests beyond the policy check satisfy the
policy (`PolicyPassed`); and a request about to store still has room (`RoomInv`),
which holds because retiring only makes room and storing is exclusive.
`AdmissionExclusive` and `BudgetRespected` follow, and `ImplementsQuota` shows that
each step is a step of `QuotaAdmission` or leaves the operations alone.

**AssignmentLifecycleProofs.** `LifecycleInv` joins the types and the order of UIDs
(`TypeInv`), what a listed version says that is still true when the pass is fresh
(`SnapInv`: a fresh snapshot is the stored object), what a planned write may contain
(`PassInv`: a plan says Ready only as the listed version did, or for an unpaused,
unfenced Pod whose BatchSandbox carries the snapshot's UID), that Pods have owners
(`OwnerInv`), and that the request which fenced last and has seen the withdrawal still
sees it (`PauseInv`). None of the checked properties is inductive alone: each needs to
know what the passes in flight may still write. `PauseRevokes` and `BindsUnfenced` are
proved for any number of clients and controllers and any faults.

**LifecycleSequentialProofs.** What a run with one request at a time checks is proved
here together with what the proof had to find out first. `IdentityInv` needs no
hypothesis: a UID is sent upstream at most once, because the request that holds it is
alone with it, and once sent it is either pending or carried by a BatchSandbox
(`CreateInv`); a BatchSandbox has one live Pod (`OneLive`); the absent object is empty
and no pass on it may write (`EmptyInv`); and the stored status, like every version
that a pass holds, names only a workload and a Pod of its own UID (`OwnStatusInv`).
Hence `OneWorkloadPerIncarnation` and `StatusNamesItsOwn`, with every fault and any
number of clients and controllers.

The other theorems have hypotheses on the constants, which the instance of
`lifecycle_sequential` satisfies and which are as weak as the code allows. Each
is needed: TLC refutes the property as soon as one is dropped.

| Theorem | Assumes | Without it |
|---|---|---|
| `SequentialMappingIsOwn` | `Sequential`: one request at a time | two clients, no fault: finding 3 |
| `FinalizerOutlives` | `Sequential`; no late create | two clients and `ageing`; one client, `ageing` and `lateCreate`: an expired operation is finalized, then its BatchSandbox appears |
| `RetiredNeverReady` | `Sequential`; `NoLostPod`: no `boundaryError`, `cacheLag` or `transitionTimeout` | each of the three alone with one client (the first is finding 1), and two clients without a fault |

For the mapping, `MappingInv` carries the identity of the sandbox ID through the passes
and says that what a create is about to write belongs to the stored object, if there is
one. For the finalizer, `AwaitedInv` says that a create which upstream may still apply
has its request waiting, on the stored object, which is not being deleted; so a
finalizing pass that may still write knows all its workloads (`FinalizeInv`). For the
fence, `Fenced` says that a retired Pod which still lives is the one that the object's
status names, and that the object is paused or fences it; `FencingInv` says the same of
the request that is between looking up and storing, `PlanInv` of the write that a fresh
pass has planned. Crashes of passes and requests, expiries, late creates and changes
of leadership are all allowed.

**CredentialBrokerProofs.** `IInv` adds to the types: a request beyond `idle` has a
signed grant and a replica that serves it (`Served`); a request that started after
its grant's revocation and is past the lookup sees the record still there, or the
grant expired on some replica (`Revoked`), since only an expired record is deleted
and clocks do not go back; a request that has passed `ValidatePod` saw the Pod alive
together with the assignment (`Bound`), because an incarnation that ended never lives
again; and what is held, confirmed or acknowledged is in the audit (`Audited`).

**AccessRequestsProofs.** `IInv` says where an object is in its life from its version
and its submission's step (`Objects`: a submission that has not created it left no
trace; version 1 means no status yet; only a decided request has an expiry), what a
decider's copy is worth (`Copies`: with an unchanged version the request is still
pending and its duration is the one that bounded the approval), that a listed
request is approved and overdue or already expired (`Listed`), that a decider past
validation began fresh (`Fenced`), and that an active request was not among those
the other submission listed (`Checked`). UIDs and time only grow. From it
`StoredDecisionStands`, `NoStaleApproval`, `DuplicatesOverlap` and
`ImplementsLifecycleSafety`: every step is a step of `RequestLifecycle` or changes
nothing that it sees. `ApprovalsStand` draws the conclusion for the stored objects from
that refinement: an approval is given for no longer than was asked for, keeps its end,
and only its expiry replaces it, once that end has come.

**EgressAuthorizationProofs.** A check reads its inputs one after the other, so `IInv`
says what each read leaves behind: a cached review ends with its token and within the
cache's lifetime after the API server's last answer (`TokensCached`; it needs that
nothing is dated in the future, `Clocked`); what the assignment informer calls Ready
was Ready under that revision, and an approval in the request informer has the expiry
it was given (`Followed`), since bindings that were true stay recorded and an approval
is never extended; a check past the assignment goes by that one incarnation and what
allowed it is still on file (`Grounded`); and a stored record is not older than its
decision (`Recorded`). From it `AllowsOneIncarnation`, `TokensGood` and `AllowsAudited`,
for any caches, and in `EgressTypeCorrect` the limit of the token cache for any number of
concurrent checks.

**DashboardRequestsProofs.** `IInv` follows a sign-in (`OnePlace`: it is in a tab's
storage, in a tab's callback or in one session, never in two of them), the end of a
token (`Dated`: a session ends no later, and an ended one is gone for good; `Admitted`:
so does the copy that a request compares, and a request that came too late is still
before the lookup) and an authorization (`Seen`: everything that a read of it can
return is among what the ghosts hold; `Counted`: it ends only when none is left), in
the phase that the call relies on (`Relying`). From it `SessionsHonoured`, `SignInOnce`,
`OperationsAuthorized`, for every call of the wrapper but `ListSandboxNodeLoads` and for
any number of edits between any two reads, and the action property `CapacityIsLive`.

**Only model-checked**: the liveness properties (`DeletionCompletes`,
`MappingRecovered`, `ReadyFollowsPod`, `AllAnswered`, the fair part of
`ImplementsLifecycle`), which are out of the prover's reach. Every safety property of
a passing run is the statement of a theorem.

## 5. Not modelled

- Capability-bundle finalizers and `releaseBundleIfUnused`: they protect the bundle
  object from deletion and are not read by any decision.
- Pods allocated from a Pool, and creates without an idempotency key, which meet no
  other request.
- The text of targets, expressions and revisions (`governance/`): pure functions on
  strings; the models take normalized targets and revisions as values.
- Caller authentication, which ends a lifecycle request before it changes anything;
  the dashboard's pages and the forms that create one bundle, template or policy.
- The checker's program cache and all metrics, which no decision depends on.
- The harness (a client of the modelled operations), generated code, diagnostics,
  scripts and manifests.

## 6. Plan

1. `BundleProtection`: bundle finalizer, `releaseBundleIfUnused`, deletion of a
   bundle in use.
2. Policy simulation and approval validity against reference definitions.
