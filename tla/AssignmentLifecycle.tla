------------------------- MODULE AssignmentLifecycle -------------------------
(***************************************************************************)
(* The life of one SandboxAssignment name: the lifecycle facade            *)
(* (opensandboxapi/handler.go) writes intent into the object through the   *)
(* store (store/kubernetes/store.go) and calls the upstream OpenSandbox    *)
(* server; the controller (controller/controller.go) lists the object,     *)
(* looks at BatchSandboxes and Pods and writes status back.  Every request *)
(* and every reconcile pass is cut at its API calls, so requests, passes   *)
(* and the upstream interleave.                                            *)
(*                                                                         *)
(* All requests carry the same idempotency key, so they meet in one object *)
(* name (idempotentAssignmentName); its successive incarnations have       *)
(* distinct UIDs.  A resourceVersion is modelled by what it is for: "fresh" *)
(* holds the controllers whose listed version is still the stored one.     *)
(***************************************************************************)
EXTENDS Naturals, FiniteSets

CONSTANTS
    Clients,      \* concurrent HTTP requests to the facade replicas
    Controllers,  \* controller processes; two while leadership changes hands
    Workloads,    \* BatchSandbox names, each used once (the OpenSandbox IDs)
    Pods,         \* Pod UIDs, each used once
    None,         \* an empty reference or annotation
    MaxUid,       \* bound: incarnations of the assignment
    MaxRequests,  \* bound: requests received
    Faults        \* the faults of this instance, a subset of AllFaults

\* requestCrash: a handler is cut short (process exit, client gone, API error)
\* passCrash: a reconcile pass is cut short (restart, lost leadership, API error)
\* cacheLag: the store's informer may be behind the API server
\* boundaryError: a template, bundle or ServiceAccount check of a pass fails
\* transitionTimeout: a pause's wait for the controller fails, mostly because
\*     the controller is slower than Config.TransitionTimeout
\* ageing: an operation stays pending for Config.PendingOperationTTL
\* lateCreate: upstream applies a create after the facade gave up on it
AllFaults == {"requestCrash", "passCrash", "cacheLag", "boundaryError",
              "transitionTimeout", "ageing", "lateCreate"}

ASSUME ConstantsOK ==
    /\ MaxUid \in Nat /\ MaxRequests \in Nat
    /\ Faults \subseteq AllFaults
    /\ None \notin Workloads /\ None \notin Pods /\ None \notin Clients
    /\ IsFiniteSet(Workloads) /\ IsFiniteSet(Pods)

VARIABLES
    asg,        \* the stored SandboxAssignment, NoAsg when there is none
    cache,      \* what the facade's informer holds of it: the indexed references
    lastUid,    \* the last UID the API server gave out
    aged,       \* the last UID that was older than PendingOperationTTL
    workloads,  \* BatchSandbox name -> assignment UID it carries and state
    pods,       \* Pod UID -> owner and phase
    posts,      \* UIDs whose upstream create may still be applied
    cl,         \* the request each client thread is working on
    ctl,        \* the reconcile pass each controller is in
    fresh,      \* controllers whose pass works on the stored version
    requests,   \* requests received so far
    fencer,     \* ghost: the request that wrote the lifecycle fence last
    retired     \* ghost: Pods whose authority a pause accepted upstream withdrew

vars == <<asg, cache, lastUid, aged, workloads, pods, posts, cl, ctl, fresh,
          requests, fencer, retired>>
upstream == <<workloads, pods, posts, retired>>
servers == <<lastUid, aged, cache, requests>>
passes == <<ctl, fresh>>

-----------------------------------------------------------------------------
(* State.                                                                  *)

Uids == 1..MaxUid

NoAsg == [uid |-> 0, deleting |-> FALSE, finalizer |-> FALSE,
          sandbox |-> None, paused |-> FALSE, fence |-> None,
          workloadRef |-> None, podRef |-> None, ready |-> FALSE]

Assignments ==
    [uid: {0} \cup Uids, deleting: BOOLEAN, finalizer: BOOLEAN,
     sandbox: Workloads \cup {None}, paused: BOOLEAN, fence: Pods \cup {None},
     workloadRef: Workloads \cup {None}, podRef: Pods \cup {None},
     ready: BOOLEAN]

\* What lookups use of a version of the object.
References(o) ==
    [sandbox |-> o.sandbox, workloadRef |-> o.workloadRef, podRef |-> o.podRef]

CachedReferences ==
    [sandbox: Workloads \cup {None}, workloadRef: Workloads \cup {None},
     podRef: Pods \cup {None}]

Idle == [pc |-> "idle", uid |-> 0, w |-> None, pod |-> None]

Requests ==
    [pc: {"idle", "post", "await", "compensate", "setId", "expire",
          "expireDelete", "fence", "waitReady", "rollback", "pauseUpstream",
          "resumeFence", "resumeUpstream", "refence", "delete"},
     uid: {0} \cup Uids, w: Workloads \cup {None}, pod: Pods \cup {None}]

NoPass == [pc |-> "idle", snap |-> NoAsg, next |-> NoAsg, targets |-> {}, w |-> None]

Passes ==
    [pc: {"idle", "reconcile", "pods", "write", "finalize",
          "deleteWorkloads", "finalPods", "release"},
     snap: Assignments, next: Assignments,
     targets: SUBSET Workloads, w: Workloads \cup {None}]

TypeOK ==
    /\ asg \in Assignments /\ cache \in CachedReferences
    /\ lastUid \in {0} \cup Uids /\ aged \in {0} \cup Uids
    /\ workloads \in [Workloads -> [uid: {0} \cup Uids,
           state: {"none", "running", "paused", "deleting", "gone"}]]
    /\ pods \in [Pods -> [owner: Workloads \cup {None},
           phase: {"none", "starting", "ready", "terminating", "gone"}]]
    /\ posts \subseteq Uids
    /\ cl \in [Clients -> Requests]
    /\ ctl \in [Controllers -> Passes] /\ fresh \subseteq Controllers
    /\ requests \in 0..MaxRequests
    /\ fencer \in Clients \cup {None}
    /\ retired \subseteq Pods

Init ==
    /\ asg = NoAsg /\ cache = References(NoAsg) /\ lastUid = 0 /\ aged = 0
    /\ workloads = [w \in Workloads |-> [uid |-> 0, state |-> "none"]]
    /\ pods = [p \in Pods |-> [owner |-> None, phase |-> "none"]]
    /\ posts = {}
    /\ cl = [c \in Clients |-> Idle]
    /\ ctl = [k \in Controllers |-> NoPass] /\ fresh = {}
    /\ requests = 0 /\ fencer = None /\ retired = {}

-----------------------------------------------------------------------------
(* The API server: every change of the object makes the versions that the  *)
(* passes hold stale.                                                      *)

Exists == asg.uid # 0

Put(new) == asg' = new /\ fresh' = IF new = asg THEN fresh ELSE {}

\* store.Delete: a deletion waits for the finalizer, if there is one.
Deleted(o) == IF o.finalizer THEN [o EXCEPT !.deleting = TRUE] ELSE NoAsg

Lagging == "cacheLag" \in Faults

SyncCache ==
    /\ Lagging /\ cache # References(asg)
    /\ cache' = References(asg)
    /\ UNCHANGED <<asg, lastUid, aged, upstream, cl, passes, requests, fencer>>

\* The pending operation reaches Config.PendingOperationTTL.
Age ==
    /\ "ageing" \in Faults /\ Exists /\ aged # asg.uid
    /\ aged' = asg.uid
    /\ UNCHANGED <<asg, cache, lastUid, upstream, cl, passes, requests, fencer>>

-----------------------------------------------------------------------------
(* The facade.  A request is received by Begin, moves on with Goto and is  *)
(* Idle again when it is answered.                                         *)

At(c, pc) == cl[c].pc = pc

Goto(c, pc) == cl' = [cl EXCEPT ![c].pc = pc]

Finish(c) == cl' = [cl EXCEPT ![c] = Idle]

Begin(c, request) ==
    /\ At(c, "idle") /\ requests < MaxRequests
    /\ requests' = requests + 1
    /\ cl' = [cl EXCEPT ![c] = request]

\* convert: the ID falls back to the reconciled workload.
SandboxID(o) == IF o.sandbox # None THEN o.sandbox ELSE o.workloadRef

\* create up to store.Create, for a new name.  Template resolution, caller
\* authorization and admission leave this state alone (see TenantAdmission).
CreateNew(c) ==
    /\ ~Exists /\ lastUid < MaxUid
    /\ Begin(c, [Idle EXCEPT !.pc = "post", !.uid = lastUid + 1])
    /\ Put([NoAsg EXCEPT !.uid = lastUid + 1])
    /\ lastUid' = lastUid + 1
    /\ UNCHANGED <<cache, aged, upstream, fencer, ctl>>

\* create of a name that exists: replay (200) and in progress (409) change
\* nothing, a pending operation past its TTL goes on to be expired.
CreateExisting(c) ==
    /\ Exists /\ SandboxID(asg) = None /\ aged = asg.uid
    /\ Begin(c, [Idle EXCEPT !.pc = "expire"])
    /\ UNCHANGED <<asg, cache, lastUid, aged, upstream, passes, fencer>>

\* The second look at a stale operation.
ExpireGet(c) ==
    /\ At(c, "expire")
    /\ IF Exists /\ SandboxID(asg) = None THEN Goto(c, "expireDelete")
                                          ELSE Finish(c)
    /\ UNCHANGED <<asg, servers, upstream, passes, fencer>>

\* store.Delete, by name: of an expired operation, to compensate a rejected
\* create, or for a delete request.
DeleteAssignment(c) ==
    /\ cl[c].pc \in {"expireDelete", "compensate", "delete"}
    /\ Put(IF Exists THEN Deleted(asg) ELSE asg)
    /\ Finish(c)
    /\ UNCHANGED <<servers, upstream, fencer, ctl>>

PostCreate(c) ==
    /\ At(c, "post")
    /\ posts' = posts \cup {cl[c].uid}
    /\ Goto(c, "await")
    /\ UNCHANGED <<asg, servers, workloads, pods, retired, passes, fencer>>

\* A valid 2xx answer names the BatchSandbox that upstream created.
CreateAnswered(c, w) ==
    /\ At(c, "await")
    /\ workloads[w].uid = cl[c].uid
    /\ cl' = [cl EXCEPT ![c] = [@ EXCEPT !.pc = "setId", !.w = w]]
    /\ UNCHANGED <<asg, servers, upstream, passes, fencer>>

\* A transport error or an invalid answer keeps the operation record.
CreateLost(c) ==
    /\ At(c, "await")
    /\ posts' = IF "lateCreate" \in Faults THEN posts ELSE posts \ {cl[c].uid}
    /\ Finish(c)
    /\ UNCHANGED <<asg, servers, workloads, pods, retired, passes, fencer>>

\* A non-2xx answer: upstream did not create anything.
CreateRejected(c) ==
    /\ At(c, "await")
    /\ cl[c].uid \in posts
    /\ posts' = posts \ {cl[c].uid}
    /\ Goto(c, "compensate")
    /\ UNCHANGED <<asg, servers, workloads, pods, retired, passes, fencer>>

\* store.SetSandboxID: read, change and conditional write, retried.
SetSandboxID(c) ==
    /\ At(c, "setId")
    /\ Put(IF Exists THEN [asg EXCEPT !.sandbox = cl[c].w] ELSE asg)
    /\ Finish(c)
    /\ UNCHANGED <<servers, upstream, fencer, ctl>>

-----------------------------------------------------------------------------
(* Lookup and lifecycle fence.                                             *)

Indexed(refs, w) == w \in {refs.sandbox, refs.workloadRef}

\* store.GetBySandboxID: the informer's index, then a labelled list.
GetBySandboxID(w) ==
    LET view == IF Lagging THEN cache ELSE References(asg) IN
    IF Indexed(view, w) THEN {view}
    ELSE {refs \in {References(asg)} : refs.sandbox = w}

\* store.SetLifecycleFence, by name.
SetLifecycleFence(c, paused, pod) ==
    /\ Put(IF Exists THEN [asg EXCEPT !.paused = paused, !.fence = pod]
                     ELSE asg)
    /\ fencer' = IF Exists THEN c ELSE fencer

PauseLookup(c, w) ==
    /\ GetBySandboxID(w) # {}
    /\ Begin(c, [Idle EXCEPT !.pc = "fence", !.w = w])
    /\ UNCHANGED <<asg, cache, lastUid, aged, upstream, passes, fencer>>

PauseFence(c) ==
    /\ At(c, "fence")
    /\ SetLifecycleFence(c, TRUE, None)
    /\ cl' = [cl EXCEPT ![c] = IF Exists
                THEN [@ EXCEPT !.pc = "waitReady", !.uid = asg.uid,
                               !.pod = IF asg.ready THEN asg.podRef ELSE None]
                ELSE Idle]
    /\ UNCHANGED <<servers, upstream, ctl>>

\* waitReady(false) succeeds: the store reports the assignment not Ready.
PauseObserved(c) ==
    /\ At(c, "waitReady")
    /\ Exists /\ ~asg.ready
    /\ Goto(c, "pauseUpstream")
    /\ UNCHANGED <<asg, servers, upstream, passes, fencer>>

\* waitReady fails: not found, a failed read, or TransitionTimeout is over.
PauseGaveUp(c) ==
    /\ At(c, "waitReady")
    /\ ~Exists \/ "transitionTimeout" \in Faults
    /\ Goto(c, "rollback")
    /\ UNCHANGED <<asg, servers, upstream, passes, fencer>>

PauseRollback(c) ==
    /\ At(c, "rollback")
    /\ SetLifecycleFence(c, FALSE, None)
    /\ Finish(c)
    /\ UNCHANGED <<servers, upstream, ctl>>

\* Mutant: the fence takes the UID of the workload instead of the Pod.
ResumeLookupWorkloadRef(c, w) ==
    /\ \E refs \in GetBySandboxID(w) :
          Begin(c, [Idle EXCEPT !.pc = "resumeFence", !.w = w,
                                !.pod = refs.workloadRef])
    /\ UNCHANGED <<asg, cache, lastUid, aged, upstream, passes, fencer>>

ResumeLookup(c, w) ==
    /\ \E refs \in GetBySandboxID(w) :
          Begin(c, [Idle EXCEPT !.pc = "resumeFence", !.w = w,
                                !.pod = refs.podRef])
    /\ UNCHANGED <<asg, cache, lastUid, aged, upstream, passes, fencer>>

ResumeFence(c) ==
    /\ At(c, "resumeFence")
    /\ SetLifecycleFence(c, FALSE, cl[c].pod)
    /\ IF Exists THEN Goto(c, "resumeUpstream") ELSE Finish(c)
    /\ UNCHANGED <<servers, upstream, ctl>>

\* The upstream resume failed: fence again.
ResumeRollback(c) ==
    /\ At(c, "refence")
    /\ SetLifecycleFence(c, TRUE, None)
    /\ Finish(c)
    /\ UNCHANGED <<servers, upstream, ctl>>

DeleteLookup(c, w) ==
    /\ GetBySandboxID(w) # {}
    /\ Begin(c, [Idle EXCEPT !.pc = "delete", !.w = w])
    /\ UNCHANGED <<asg, cache, lastUid, aged, upstream, passes, fencer>>

\* The replica exits, the client goes away or an API call fails for good.
\* A create already sent may then be lost or, as a late create, applied.
RequestAborted(c) ==
    /\ "requestCrash" \in Faults /\ ~At(c, "idle")
    /\ Finish(c)
    /\ posts' = IF At(c, "await") /\ "lateCreate" \notin Faults
                THEN posts \ {cl[c].uid} ELSE posts
    /\ UNCHANGED <<asg, servers, workloads, pods, retired, passes, fencer>>

-----------------------------------------------------------------------------
(* The upstream OpenSandbox server and Kubernetes, as the facade and the   *)
(* controller see them (external).                                         *)

local == <<asg, servers, cl, passes, fencer>>

Live(w) == {p \in Pods : pods[p].owner = w /\ pods[p].phase \in {"starting", "ready"}}

\* A create is applied: a BatchSandbox that carries the assignment UID.
ApplyCreate(u, w) ==
    /\ u \in posts /\ workloads[w].state = "none"
    /\ workloads' = [workloads EXCEPT ![w] = [uid |-> u, state |-> "running"]]
    /\ posts' = posts \ {u}
    /\ UNCHANGED <<local, pods, retired>>

\* The answer to a pause; whatever it is, the handler is done.
PauseUpstream(c) ==
    /\ At(c, "pauseUpstream")
    /\ \/ /\ workloads[cl[c].w].state = "running"
          /\ workloads' = [workloads EXCEPT ![cl[c].w].state = "paused"]
          /\ retired' = retired \cup ({cl[c].pod} \ {None})
       \/ UNCHANGED <<workloads, retired>>
    /\ Finish(c)
    /\ UNCHANGED <<asg, servers, pods, posts, passes, fencer>>

\* The answer to a resume: applied and acknowledged, or failed and fenced
\* again (a transport error does not tell whether it was applied).
ResumeUpstream(c) ==
    LET resumed == [workloads EXCEPT ![cl[c].w].state = "running"] IN
    /\ At(c, "resumeUpstream")
    /\ \/ /\ workloads[cl[c].w].state = "paused"
          /\ workloads' = resumed
          /\ Finish(c) \/ Goto(c, "refence")
       \/ Goto(c, "refence") /\ UNCHANGED workloads
    /\ UNCHANGED <<asg, servers, pods, posts, retired, passes, fencer>>

\* BatchSandbox keeps one Pod while it runs.
StartPod(w, p) ==
    /\ workloads[w].state = "running" /\ Live(w) = {}
    /\ pods[p].phase = "none"
    /\ pods' = [pods EXCEPT ![p] = [owner |-> w, phase |-> "starting"]]
    /\ UNCHANGED <<local, workloads, posts, retired>>

PodBecomesReady(p) ==
    /\ pods[p].phase = "starting"
    /\ pods' = [pods EXCEPT ![p].phase = "ready"]
    /\ UNCHANGED <<local, workloads, posts, retired>>

\* A Pod is lost, or stopped by a pause or with its BatchSandbox.
TerminatePod(p) ==
    /\ pods[p].phase \in {"starting", "ready"}
    /\ pods' = [pods EXCEPT ![p].phase = "terminating"]
    /\ UNCHANGED <<local, workloads, posts, retired>>

PodGone(p) ==
    /\ pods[p].phase = "terminating"
    /\ pods' = [pods EXCEPT ![p].phase = "gone"]
    /\ UNCHANGED <<local, workloads, posts, retired>>

\* A sandbox reaches its timeout and upstream deletes it.
ExpireWorkload(w) ==
    /\ workloads[w].state \in {"running", "paused"}
    /\ workloads' = [workloads EXCEPT ![w].state = "deleting"]
    /\ UNCHANGED <<local, pods, posts, retired>>

WorkloadGone(w) ==
    /\ workloads[w].state = "deleting"
    /\ workloads' = [workloads EXCEPT ![w].state = "gone"]
    /\ UNCHANGED <<local, pods, posts, retired>>

-----------------------------------------------------------------------------
(* The controller: reconcile.                                              *)

facade == <<cache, lastUid, aged, cl, requests, fencer>>

In(k, pc) == ctl[k].pc = pc

ReadOnly == UNCHANGED <<asg, facade, upstream>>

\* The pass goes on in state pass.
Continue(k, pass) == ctl' = [ctl EXCEPT ![k] = pass] /\ UNCHANGED fresh

EndPass(k) == ctl' = [ctl EXCEPT ![k] = NoPass] /\ fresh' = fresh \ {k}

\* A write under the listed resourceVersion; a conflict changes nothing, and
\* either way the pass ends.
Store(k, new) ==
    /\ asg' = IF k \in fresh THEN new ELSE asg
    /\ fresh' = IF asg' = asg THEN fresh \ {k} ELSE {}
    /\ ctl' = [ctl EXCEPT ![k] = NoPass]
    /\ UNCHANGED <<facade, upstream>>

Present(w) == workloads[w].state \in {"running", "paused", "deleting"}

Matching(uid) == {w \in Workloads : Present(w) /\ workloads[w].uid = uid}

\* The end of a pass: the object it wants to store.
Plan(k, new) ==
    Continue(k, [ctl[k] EXCEPT !.pc = "write", !.next = new])

Status(o, w, p, ready) ==
    [o EXCEPT !.workloadRef = w, !.podRef = p, !.ready = ready]

\* reconcileAll: List.
ListAssignments(k) ==
    /\ In(k, "idle") /\ Exists
    /\ ctl' = [ctl EXCEPT ![k] =
          [NoPass EXCEPT !.pc = IF asg.deleting THEN "finalize" ELSE "reconcile",
                         !.snap = asg]]
    /\ fresh' = fresh \cup {k}
    /\ ReadOnly

AddFinalizer(k) ==
    /\ In(k, "reconcile") /\ ~ctl[k].snap.finalizer
    /\ Plan(k, [ctl[k].snap EXCEPT !.finalizer = TRUE])
    /\ ReadOnly

\* A template or bundle check fails; any error of the Get counts as one.
BoundaryRejected(k) ==
    /\ "boundaryError" \in Faults
    /\ In(k, "reconcile") /\ ctl[k].snap.finalizer
    /\ Plan(k, Status(ctl[k].snap, None, None, FALSE))
    /\ ReadOnly

\* Mutant: a paused assignment loses its references.
ReportPausedUnbound(k) ==
    /\ In(k, "reconcile") /\ ctl[k].snap.finalizer /\ ctl[k].snap.paused
    /\ Plan(k, Status(ctl[k].snap, None, None, FALSE))
    /\ ReadOnly

ReportPaused(k) ==
    /\ In(k, "reconcile") /\ ctl[k].snap.finalizer /\ ctl[k].snap.paused
    /\ Plan(k, [ctl[k].snap EXCEPT !.ready = FALSE])
    /\ ReadOnly

\* Mutant: the controller leaves the sandbox ID to the facade.
MatchWorkloadsUnmapped(k) ==
    LET o  == ctl[k].snap
        ws == Matching(o.uid)
    IN
    /\ In(k, "reconcile") /\ o.finalizer /\ ~o.paused
    /\ IF \E w \in Workloads : ws = {w}
       THEN Continue(k, [ctl[k] EXCEPT !.pc = "pods", !.w = CHOOSE x \in ws : TRUE])
       ELSE Plan(k, Status(o, None, None, FALSE))
    /\ ReadOnly

MatchWorkloads(k) ==
    LET o  == ctl[k].snap
        ws == Matching(o.uid)
    IN
    /\ In(k, "reconcile") /\ o.finalizer /\ ~o.paused
    /\ IF \E w \in Workloads : ws = {w}
       THEN LET w == CHOOSE x \in ws : TRUE IN
            IF o.sandbox = None
            THEN Plan(k, [o EXCEPT !.sandbox = w])
            ELSE Continue(k, [ctl[k] EXCEPT !.pc = "pods", !.w = w])
       ELSE Plan(k, Status(o, None, None, FALSE))
    /\ ReadOnly

\* ServiceAccount, runtime class, readiness and identity checks: a Pod that
\* is "ready" passes them all, unless a check fails for another reason.
Eligible(p) ==
    IF pods[p].phase # "ready" THEN {FALSE}
    ELSE IF "boundaryError" \in Faults THEN BOOLEAN ELSE {TRUE}

\* Mutant: the resume fence is not compared with the Pod.
MatchPodsUnfenced(k) ==
    LET o == ctl[k].snap
        w == ctl[k].w
    IN
    /\ In(k, "pods")
    /\ \/ /\ \A p \in Pods : Live(w) # {p}
          /\ Plan(k, Status(o, w, None, FALSE))
       \/ \E p \in Pods : \E ok \in Eligible(p) :
             Live(w) = {p} /\ Plan(k, Status(o, w, p, ok))
    /\ ReadOnly

\* Mutant: without exactly one Pod the pass returns and keeps the old status.
MatchPodsKeepsStatus(k) ==
    LET o == ctl[k].snap
        w == ctl[k].w
    IN
    /\ In(k, "pods")
    /\ \/ /\ \A p \in Pods : Live(w) # {p}
          /\ EndPass(k)
       \/ \E p \in Pods : \E ok \in Eligible(p) :
             Live(w) = {p} /\ Plan(k, Status(o, w, p, ok /\ o.fence # p))
    /\ ReadOnly

\* The replica count and age of the workload, its Pods, and the checks of the
\* one Pod.
MatchPods(k) ==
    LET o == ctl[k].snap
        w == ctl[k].w
    IN
    /\ In(k, "pods")
    /\ \/ /\ (\A p \in Pods : Live(w) # {p}) \/ "boundaryError" \in Faults
          /\ Plan(k, Status(o, w, None, FALSE))
       \/ \E p \in Pods : \E ok \in Eligible(p) :
             /\ Live(w) = {p}
             /\ Plan(k, Status(o, w, p, ok /\ o.fence # p))
    /\ ReadOnly

\* Mutant: a status update is retried on whatever version is stored.
WritePlanRetried(k) ==
    /\ In(k, "write")
    /\ LET n   == ctl[k].next
           new == IF k \in fresh THEN n
                  ELSE IF Exists THEN Status(asg, n.workloadRef, n.podRef, n.ready)
                  ELSE asg
       IN asg' = new /\ fresh' = IF new = asg THEN fresh \ {k} ELSE {}
    /\ ctl' = [ctl EXCEPT ![k] = NoPass]
    /\ UNCHANGED <<facade, upstream>>

\* Update or UpdateStatus; nothing is sent when the status is equivalent.
WritePlan(k) == In(k, "write") /\ Store(k, ctl[k].next)

PassAborted(k) ==
    /\ "passCrash" \in Faults /\ ~In(k, "idle")
    /\ EndPass(k)
    /\ ReadOnly

-----------------------------------------------------------------------------
(* The controller: finalize.  Releasing the capability bundle afterwards   *)
(* does not touch this state.                                              *)

\* Mutant: only the workload that status names is deleted.
FinalizeTargetsStatusOnly(k) ==
    /\ In(k, "finalize")
    /\ Continue(k, [ctl[k] EXCEPT
          !.pc = "deleteWorkloads", !.targets = {ctl[k].snap.workloadRef} \ {None}])
    /\ ReadOnly

FinalizeTargets(k) ==
    LET o == ctl[k].snap IN
    /\ In(k, "finalize")
    /\ Continue(k, [ctl[k] EXCEPT
          !.pc = "deleteWorkloads",
          !.targets = IF o.workloadRef # None THEN {o.workloadRef}
                      ELSE Matching(o.uid)])
    /\ ReadOnly

\* Delete one workload and look again: the pass ends if it is still there.
DeleteWorkload(k, w) ==
    /\ In(k, "deleteWorkloads") /\ w \in ctl[k].targets
    /\ \/ /\ Present(w)
          /\ workloads' = [workloads EXCEPT ![w].state = "deleting"]
          /\ EndPass(k)
       \/ /\ workloads' = IF Present(w)
                          THEN [workloads EXCEPT ![w].state = "gone"]
                          ELSE workloads
          /\ Continue(k, [ctl[k] EXCEPT !.targets = @ \ {w}])
    /\ UNCHANGED <<asg, facade, pods, posts, retired>>

WorkloadsDeleted(k) ==
    /\ In(k, "deleteWorkloads") /\ ctl[k].targets = {}
    /\ Continue(k, [ctl[k] EXCEPT !.pc = "finalPods"])
    /\ ReadOnly

Remains(p) == pods[p].phase \in {"starting", "ready", "terminating"}

PodOf(p, uid) == Remains(p) /\ workloads[pods[p].owner].uid = uid

\* Mutant: only the bound Pod is waited for.
FinalizePodsBoundOnly(k) ==
    LET held == \E p \in Pods : p = ctl[k].snap.podRef /\ Remains(p) IN
    /\ In(k, "finalPods")
    /\ IF held THEN EndPass(k) ELSE Continue(k, [ctl[k] EXCEPT !.pc = "release"])
    /\ ReadOnly

\* The bound Pod and every Pod that carries the UID must be gone.
FinalizePods(k) ==
    LET o    == ctl[k].snap
        held == \E p \in Pods : PodOf(p, o.uid) \/ (p = o.podRef /\ Remains(p))
    IN
    /\ In(k, "finalPods")
    /\ IF held THEN EndPass(k) ELSE Continue(k, [ctl[k] EXCEPT !.pc = "release"])
    /\ ReadOnly

\* Without its finalizer, the API server drops the object.
RemoveFinalizer(k) == In(k, "release") /\ Store(k, NoAsg)

-----------------------------------------------------------------------------
Facade(c) ==
    \/ CreateNew(c) \/ CreateExisting(c) \/ ExpireGet(c) \/ DeleteAssignment(c)
    \/ PostCreate(c) \/ CreateLost(c) \/ CreateRejected(c) \/ SetSandboxID(c)
    \/ PauseFence(c) \/ PauseObserved(c) \/ PauseGaveUp(c) \/ PauseRollback(c)
    \/ ResumeFence(c) \/ ResumeRollback(c) \/ RequestAborted(c)
    \/ PauseUpstream(c) \/ ResumeUpstream(c)
    \/ \E w \in Workloads : \/ CreateAnswered(c, w) \/ PauseLookup(c, w)
                            \/ ResumeLookup(c, w) \/ DeleteLookup(c, w)

Pass(k) ==
    \/ ListAssignments(k) \/ AddFinalizer(k) \/ BoundaryRejected(k)
    \/ ReportPaused(k) \/ MatchWorkloads(k) \/ MatchPods(k) \/ WritePlan(k)
    \/ FinalizeTargets(k) \/ WorkloadsDeleted(k) \/ FinalizePods(k)
    \/ RemoveFinalizer(k)
    \/ \E w \in Workloads : DeleteWorkload(k, w)

Platform ==
    \/ \E w \in Workloads : \/ ExpireWorkload(w) \/ WorkloadGone(w)
                            \/ \E u \in Uids : ApplyCreate(u, w)
                            \/ \E p \in Pods : StartPod(w, p)
    \/ \E p \in Pods : PodBecomesReady(p) \/ TerminatePod(p) \/ PodGone(p)

Next ==
    \/ \E c \in Clients : Facade(c)
    \/ \E k \in Controllers : Pass(k) \/ PassAborted(k)
    \/ Platform \/ SyncCache \/ Age

Spec == Init /\ [][Next]_vars

\* The controller polls (Run), and Kubernetes carries deletions out.
Doomed(p) ==
    \E w \in Workloads : /\ pods[p].owner = w
                         /\ workloads[w].state \in {"deleting", "gone"}

Fairness ==
    /\ \A k \in Controllers : WF_vars(Pass(k))
    /\ \A w \in Workloads : WF_vars(WorkloadGone(w))
    /\ \A p \in Pods : /\ WF_vars(PodGone(p))
                       /\ WF_vars(Doomed(p) /\ TerminatePod(p))

FairSpec == Spec /\ Fairness

-----------------------------------------------------------------------------
(* Properties.                                                             *)

\* The controller never makes an assignment Ready on a version of the object
\* other than the stored one: at the step that binds a Pod, no pause is
\* recorded, the Pod is not the one a resume must replace, and it runs in a
\* BatchSandbox created for this very incarnation (controller.go reconcile,
\* updateStatus under the listed resourceVersion).
NewlyReady == asg'.ready /\ (~asg.ready \/ asg'.podRef # asg.podRef)

BindsOnlyUnfencedPod ==
    [][NewlyReady =>
          /\ ~asg'.paused /\ ~asg'.deleting /\ asg'.uid = asg.uid
          /\ asg'.podRef # None /\ asg'.fence # asg'.podRef
          /\ workloads[pods[asg'.podRef].owner].uid = asg'.uid]_vars

\* A pause calls upstream only after the assignment's authority is withdrawn,
\* and it stays withdrawn until another request rewrites the fence, whatever
\* passes were in flight (handler.go pause, TestPauseRevokesBeforeUpstream).
PauseRevokesFirst ==
    \A c \in Clients :
        At(c, "pauseUpstream") /\ fencer = c /\ cl[c].uid = asg.uid
            => asg.paused /\ ~asg.ready

\* When the controller lets an assignment go, no BatchSandbox and no Pod of
\* that incarnation is left (controller.go finalize).
FinalizerOutlivesWorkload ==
    [][asg.finalizer /\ asg'.uid # asg.uid =>
          /\ Matching(asg.uid) = {}
          /\ \A p \in Pods : ~PodOf(p, asg.uid)]_vars

\* The Pod from which a completed pause withdrew Ready never carries Ready
\* again: resume has to wait for a fresh Pod (live-demo-report.md:776).
RetiredPodNeverReady == asg.ready => asg.podRef \notin retired

\* A BatchSandbox that runs has its assignment: nothing runs ungoverned after
\* the assignment is gone (enterprise-use-cases.md:222).
NoUngovernedWorkload ==
    \A w \in Workloads : workloads[w].state \in {"running", "paused"}
                            => asg.uid = workloads[w].uid

\* The sandbox ID recorded in an assignment is a BatchSandbox created for
\* that incarnation (store.go:138, "the trusted OpenSandbox mapping").
MappingIsOwn ==
    asg.sandbox # None => workloads[asg.sandbox].uid = asg.uid

\* A deleted assignment is eventually finalized.
DeletionCompletes ==
    \A u \in Uids : (asg.uid = u /\ asg.deleting) ~> (asg.uid # u)

\* The controller recovers the mapping of an operation whose answer was lost,
\* from the workload (handler.go:276-277).
MappingRecovered ==
    \A u \in Uids :
        (asg.uid = u /\ Matching(u) # {})
            ~> (asg.uid # u \/ asg.sandbox # None \/ Matching(u) = {})

\* Ready follows the Pod: a healthy, unfenced Pod is bound, and Ready does
\* not outlive its Pod.
Healthy(u) ==
    /\ asg.uid = u /\ ~asg.deleting /\ ~asg.paused
    /\ \E w \in Workloads, p \in Pods :
          /\ Matching(u) = {w} /\ Live(w) = {p}
          /\ pods[p].phase = "ready" /\ asg.fence # p

ReadyFollowsPod ==
    \A u \in Uids :
        /\ Healthy(u) ~> (asg.ready \/ ~Healthy(u))
        /\ \A p \in Pods :
              (asg.uid = u /\ asg.ready /\ asg.podRef = p /\ pods[p].phase = "gone")
                  ~> ~(asg.uid = u /\ asg.ready /\ asg.podRef = p)

=============================================================================
