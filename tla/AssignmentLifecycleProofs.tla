--------------------- MODULE AssignmentLifecycleProofs ---------------------
(***************************************************************************)
(* The lifecycle is type correct and revokes authority before it pauses,   *)
(* and the controller binds only unfenced Pods, for any number of clients, *)
(* controllers, workloads, Pods and incarnations and with every fault.     *)
(***************************************************************************)
EXTENDS AssignmentLifecycle, TLAPS

\* What a request carries at the steps that use it.
RequestInv ==
    \A c \in Clients :
        /\ cl[c].pc \in {"post", "await", "waitReady", "pauseUpstream"}
              => cl[c].uid \in 1..lastUid
        /\ cl[c].pc = "setId" => cl[c].w \in Workloads

UidInv == asg.uid \in 0..lastUid

TypeInv == TypeOK /\ RequestInv /\ UidInv

\* A pass that may still write works on the stored version.
SnapInv == \A k \in fresh : ctl[k].snap = asg

\* A Pod that carries the identity of o, outside the fence.
Bindable(o, ps, ws) ==
    LET w == ps[o.podRef].owner IN
    /\ ~o.paused /\ ~o.deleting /\ o.fence # o.podRef
    /\ o.podRef \in Pods /\ ps[o.podRef].phase # "none"
    /\ w \in Workloads /\ ws[w].state # "none" /\ ws[w].uid = o.uid

\* Where a pass stands: it looks for Pods only of an assignment that is neither
\* deleting nor paused, and what it will write keeps intent and identity and is
\* Ready only as it was or for a bindable Pod.
Looking(s, ws) ==
    /\ s.pc \in {"reconcile", "pods"} => ~s.snap.deleting
    /\ s.pc = "pods" => /\ ~s.snap.paused /\ s.w \in Workloads
                        /\ ws[s.w].state # "none" /\ ws[s.w].uid = s.snap.uid

Keeps(n, o, ps, ws) ==
    /\ n.uid = o.uid /\ n.fence = o.fence
    /\ n.paused <=> o.paused
    /\ n.deleting <=> o.deleting
    /\ n.ready => Bindable(n, ps, ws) \/ (o.ready /\ n.podRef = o.podRef)

Sound(s, ps, ws) ==
    /\ Looking(s, ws)
    /\ s.pc = "write" => Keeps(s.next, s.snap, ps, ws)

PassInv == \A k \in Controllers : Sound(ctl[k], pods, workloads)

\* Pods have an owner once they exist.
OwnerInv ==
    \A p \in Pods : pods[p].phase # "none" =>
        /\ pods[p].owner \in Workloads
        /\ workloads[pods[p].owner].state # "none"

\* The request whose fence is in place sees it in place.
PauseInv ==
    \A c \in Clients : fencer = c /\ cl[c].uid = asg.uid =>
        /\ cl[c].pc \in {"waitReady", "pauseUpstream"} => asg.paused
        /\ cl[c].pc = "pauseUpstream" => ~asg.ready

LifecycleInv == TypeInv /\ SnapInv /\ PassInv /\ OwnerInv /\ PauseInv

-----------------------------------------------------------------------------
(* The records the actions build have their types.                         *)

\* The absent object is a value of the stored type.
LEMMA NoAsgType == NoAsg \in Assignments
BY DEF NoAsg, Assignments

\* So is a new object (store.go Create).
LEMMA NewAsgType ==
    ASSUME NEW u \in Uids PROVE [NoAsg EXCEPT !.uid = u] \in Assignments
BY DEF NoAsg, Assignments

\* So is an object whose sandbox ID is set (store.go SetSandboxID).
LEMMA SandboxType ==
    ASSUME NEW o \in Assignments, NEW w \in Workloads
    PROVE  [o EXCEPT !.sandbox = w] \in Assignments
BY DEF Assignments

\* So is a fenced or unfenced object (store.go SetLifecycleFence).
LEMMA FenceType ==
    ASSUME NEW o \in Assignments, NEW b \in BOOLEAN, NEW p \in Pods \cup {None}
    PROVE  [o EXCEPT !.paused = b, !.fence = p] \in Assignments
BY DEF Assignments

\* So is an object with a new status (controller.go updateStatus).
LEMMA StatusType ==
    ASSUME NEW o \in Assignments, NEW w \in Workloads \cup {None},
           NEW p \in Pods \cup {None}, NEW b \in BOOLEAN
    PROVE  Status(o, w, p, b) \in Assignments
BY DEF Assignments, Status

\* So is an object with a finalizer, one that is not Ready, and what a
\* deletion leaves.
LEMMA FlagType ==
    ASSUME NEW o \in Assignments
    PROVE  /\ [o EXCEPT !.finalizer = TRUE] \in Assignments
           /\ [o EXCEPT !.ready = FALSE] \in Assignments
           /\ Deleted(o) \in Assignments
BY DEF Assignments, Deleted, NoAsg

\* An answered request is a value of the request type.
LEMMA IdleType == Idle \in Requests
BY DEF Idle, Requests

\* So is a pause that waits (handler.go pause).
LEMMA WaitType ==
    ASSUME NEW r \in Requests, NEW u \in {0} \cup Uids, NEW p \in Pods \cup {None}
    PROVE  [r EXCEPT !.pc = "waitReady", !.uid = u, !.pod = p] \in Requests
BY DEF Requests

\* So is a create that upstream answered (handler.go create).
LEMMA AnsweredType ==
    ASSUME NEW r \in Requests, NEW w \in Workloads
    PROVE  [r EXCEPT !.pc = "setId", !.w = w] \in Requests
BY DEF Requests

\* A controller between passes is a value of the pass type.
LEMMA NoPassType == NoPass \in Passes
BY NoAsgType DEF NoPass, Passes

\* So is each state a pass goes through, and its fields have their types.
LEMMA PassType ==
    ASSUME NEW s \in Passes
    PROVE  /\ \A o \in Assignments :
                /\ [s EXCEPT !.pc = "write", !.next = o] \in Passes
                /\ [NoPass EXCEPT !.pc = "finalize", !.snap = o] \in Passes
                /\ [NoPass EXCEPT !.pc = "reconcile", !.snap = o] \in Passes
           /\ \A w \in Workloads :
                /\ [s EXCEPT !.pc = "pods", !.w = w] \in Passes
                /\ [s EXCEPT !.targets = @ \ {w}] \in Passes
           /\ \A T \in SUBSET Workloads :
                [s EXCEPT !.pc = "deleteWorkloads", !.targets = T] \in Passes
           /\ [s EXCEPT !.pc = "finalPods"] \in Passes
           /\ [s EXCEPT !.pc = "release"] \in Passes
           /\ s.snap \in Assignments /\ s.next \in Assignments
           /\ s.w \in Workloads \cup {None} /\ s.targets \in SUBSET Workloads
BY NoAsgType DEF NoPass, Passes

\* Moving on or finishing keeps the type of the requests.
LEMMA GotoType ==
    ASSUME TypeOK, NEW c \in Clients,
           \/ \E pc \in {"await", "compensate", "expireDelete", "rollback",
                          "pauseUpstream", "resumeUpstream", "refence"} : Goto(c, pc)
           \/ Finish(c)
    PROVE  cl' \in [Clients -> Requests]
BY IdleType DEF TypeOK, Goto, Finish, Requests

\* A write of a well-typed object keeps the types.
LEMMA PutType ==
    ASSUME TypeOK, NEW o \in Assignments, Put(o)
    PROVE  asg' \in Assignments /\ fresh' \subseteq Controllers
BY DEF TypeOK, Put

\* So does a fence write (store.go SetLifecycleFence).
LEMMA FencePutType ==
    ASSUME TypeOK, NEW c \in Clients, NEW b \in BOOLEAN, NEW p \in Pods \cup {None},
           SetLifecycleFence(c, b, p)
    PROVE  /\ asg' \in Assignments /\ fresh' \subseteq Controllers
           /\ fencer' \in Clients \cup {None}
BY PutType, FenceType DEF TypeOK, SetLifecycleFence

\* Receiving a request keeps the types and the request bound.
LEMMA BeginType ==
    ASSUME TypeOK, NEW c \in Clients, NEW r \in Requests, Begin(c, r)
    PROVE  cl' \in [Clients -> Requests] /\ requests' \in 0..MaxRequests
BY ConstantsOK DEF TypeOK, Begin

\* Every step of the facade keeps the types (handler.go).
LEMMA FacadeType ==
    ASSUME TypeInv, NEW c \in Clients, Facade(c) PROVE TypeOK'
<1> USE ConstantsOK DEF upstream, servers, passes
<1>0. TypeOK
  BY DEF TypeInv
<1>1. CASE CreateNew(c)
  <2>1. lastUid + 1 \in Uids
    BY <1>0, <1>1 DEF CreateNew, TypeOK, Uids
  <2>2. [Idle EXCEPT !.pc = "post", !.uid = lastUid + 1] \in Requests
    BY <2>1 DEF Idle, Requests
  <2> QED
    BY <1>0, <1>1, <2>1, <2>2, NewAsgType, PutType, BeginType DEF CreateNew, TypeOK
<1>2. CASE CreateExisting(c)
  <2>1. [Idle EXCEPT !.pc = "expire"] \in Requests
    BY DEF Idle, Requests
  <2> QED
    BY <1>0, <1>2, <2>1, BeginType DEF CreateExisting, TypeOK
<1>3. CASE ExpireGet(c)
  BY <1>0, <1>3, GotoType DEF ExpireGet, TypeOK
<1>4. CASE DeleteAssignment(c)
  BY <1>0, <1>4, GotoType, PutType, FlagType DEF DeleteAssignment, TypeOK
<1>5. CASE PostCreate(c)
  <2>1. cl[c].uid \in Uids
    BY <1>0, <1>5 DEF PostCreate, At, TypeInv, RequestInv, TypeOK, Uids
  <2> QED
    BY <1>0, <1>5, <2>1, GotoType DEF PostCreate, TypeOK
<1>6. CASE CreateLost(c) \/ CreateRejected(c) \/ RequestAborted(c)
  BY <1>0, <1>6, GotoType DEF CreateLost, CreateRejected, RequestAborted, TypeOK
<1>7. CASE SetSandboxID(c)
  <2>1. cl[c].w \in Workloads
    BY <1>7 DEF SetSandboxID, At, TypeInv, RequestInv
  <2> QED
    BY <1>0, <1>7, <2>1, GotoType, PutType, SandboxType DEF SetSandboxID, TypeOK
<1>8. CASE PauseFence(c)
  <2> DEFINE pod == IF asg.ready THEN asg.podRef ELSE None
  <2>1. asg.uid \in {0} \cup Uids /\ asg.podRef \in Pods \cup {None}
    BY <1>0 DEF TypeOK, Assignments
  <2>2. pod \in Pods \cup {None}
    BY <2>1
  <2> HIDE DEF pod
  <2>3. [cl[c] EXCEPT !.pc = "waitReady", !.uid = asg.uid, !.pod = pod] \in Requests
    BY <1>0, <2>1, <2>2, WaitType DEF TypeOK
  <2>4. cl' \in [Clients -> Requests]
    BY <1>0, <1>8, <2>3, IdleType DEF PauseFence, TypeOK, pod
  <2> QED
    BY <1>0, <1>8, <2>4, FencePutType DEF PauseFence, TypeOK
<1>9. CASE PauseObserved(c) \/ PauseGaveUp(c)
  BY <1>0, <1>9, GotoType DEF PauseObserved, PauseGaveUp, TypeOK
<1>10. CASE PauseRollback(c) \/ ResumeRollback(c)
  BY <1>0, <1>10, GotoType, FencePutType DEF PauseRollback, ResumeRollback, TypeOK
<1>11. CASE ResumeFence(c)
  <2>1. cl[c].pod \in Pods \cup {None}
    BY <1>0 DEF TypeOK, Requests
  <2> QED
    BY <1>0, <1>11, <2>1, GotoType, FencePutType DEF ResumeFence, TypeOK
<1>12. CASE PauseUpstream(c)
  <2>1. cl[c].pod \in Pods \cup {None}
    BY <1>0 DEF TypeOK, Requests
  <2> QED
    BY <1>0, <1>12, <2>1, GotoType DEF PauseUpstream, TypeOK
<1>13. CASE ResumeUpstream(c)
  <2>1. cl' \in [Clients -> Requests]
    BY <1>0, <1>13, GotoType DEF ResumeUpstream
  <2>2. workloads' \in [Workloads -> [uid: {0} \cup Uids,
           state: {"none", "running", "paused", "deleting", "gone"}]]
    BY <1>0, <1>13 DEF ResumeUpstream, TypeOK
  <2> QED
    BY <1>0, <1>13, <2>1, <2>2 DEF ResumeUpstream, TypeOK
<1>14. ASSUME NEW w \in Workloads, CreateAnswered(c, w) PROVE TypeOK'
  <2>1. [cl[c] EXCEPT !.pc = "setId", !.w = w] \in Requests
    BY <1>0, AnsweredType DEF TypeOK
  <2> QED
    BY <1>0, <1>14, <2>1 DEF CreateAnswered, TypeOK
<1>15. ASSUME NEW w \in Workloads, PauseLookup(c, w) \/ DeleteLookup(c, w) PROVE TypeOK'
  <2>1. /\ [Idle EXCEPT !.pc = "fence", !.w = w] \in Requests
        /\ [Idle EXCEPT !.pc = "delete", !.w = w] \in Requests
    BY DEF Idle, Requests
  <2> QED
    BY <1>0, <1>15, <2>1, BeginType DEF PauseLookup, DeleteLookup, TypeOK
<1>16. ASSUME NEW w \in Workloads, ResumeLookup(c, w) PROVE TypeOK'
  <2>1. PICK refs \in GetBySandboxID(w) :
           Begin(c, [Idle EXCEPT !.pc = "resumeFence", !.w = w, !.pod = refs.podRef])
    BY <1>16 DEF ResumeLookup
  <2>2. refs.podRef \in Pods \cup {None}
    BY <1>0 DEF GetBySandboxID, References, TypeOK, Assignments, CachedReferences
  <2>3. [Idle EXCEPT !.pc = "resumeFence", !.w = w, !.pod = refs.podRef] \in Requests
    BY <2>2 DEF Idle, Requests
  <2> QED
    BY <1>0, <1>16, <2>1, <2>3, BeginType DEF ResumeLookup, TypeOK
<1> QED
  BY <1>1, <1>2, <1>3, <1>4, <1>5, <1>6, <1>7, <1>8, <1>9, <1>10, <1>11, <1>12,
     <1>13, <1>14, <1>15, <1>16 DEF Facade

\* Every step of Kubernetes, of the informer and of time keeps the types.
LEMMA PlatformType ==
    ASSUME TypeOK, Platform \/ SyncCache \/ Age PROVE TypeOK'
<1> USE ConstantsOK DEF upstream, local, servers, passes
<1>1. CASE SyncCache
  <2>1. References(asg) \in CachedReferences
    BY DEF References, CachedReferences, TypeOK, Assignments
  <2> QED
    BY <1>1, <2>1 DEF SyncCache, TypeOK
<1>2. CASE Age
  <2>1. asg.uid \in {0} \cup Uids
    BY DEF TypeOK, Assignments
  <2> QED
    BY <1>2, <2>1 DEF Age, TypeOK
<1>3. CASE Platform
  BY <1>3 DEF Platform, ExpireWorkload, WorkloadGone, ApplyCreate, StartPod,
     PodBecomesReady, TerminatePod, PodGone, TypeOK
<1> QED
  BY <1>1, <1>2, <1>3

\* A pass that goes on or ends keeps the types.
LEMMA ContinueType ==
    ASSUME TypeOK, NEW k \in Controllers,
           \/ \E s \in Passes : Continue(k, s)
           \/ EndPass(k)
    PROVE  ctl' \in [Controllers -> Passes] /\ fresh' \subseteq Controllers
BY NoPassType DEF TypeOK, Continue, EndPass

\* So does a pass that plans a write.
LEMMA PlanType ==
    ASSUME TypeOK, NEW k \in Controllers, NEW o \in Assignments, Plan(k, o)
    PROVE  ctl' \in [Controllers -> Passes] /\ fresh' \subseteq Controllers
BY ContinueType, PassType DEF TypeOK, Plan

\* Every step of a pass keeps the types (controller.go reconcile, finalize).
LEMMA PassTypes ==
    ASSUME TypeOK, NEW k \in Controllers, Pass(k) \/ PassAborted(k) PROVE TypeOK'
<1> USE DEF upstream, facade, ReadOnly
<1> DEFINE o == ctl[k].snap
<1>0. /\ ctl[k] \in Passes /\ o \in Assignments /\ ctl[k].next \in Assignments
      /\ ctl[k].w \in Workloads \cup {None}
      /\ o.workloadRef \in Workloads \cup {None}
  BY PassType DEF TypeOK, Assignments
<1>1. CASE ListAssignments(k)
  <2>1. ctl' \in [Controllers -> Passes]
    BY <1>0, <1>1, PassType DEF ListAssignments, TypeOK
  <2> QED
    BY <1>1, <2>1 DEF ListAssignments, TypeOK
<1>2. CASE AddFinalizer(k)
  BY <1>0, <1>2, FlagType, PlanType DEF AddFinalizer, TypeOK
<1>3. CASE BoundaryRejected(k)
  BY <1>0, <1>3, StatusType, PlanType DEF BoundaryRejected, TypeOK
<1>4. CASE ReportPaused(k)
  BY <1>0, <1>4, FlagType, PlanType DEF ReportPaused, TypeOK
<1>5. CASE MatchWorkloads(k)
  <2> DEFINE w == CHOOSE x \in Matching(o.uid) : TRUE
  <2>1. CASE \E x \in Workloads : Matching(o.uid) = {x}
    <3>1. w \in Workloads
      BY <2>1
    <3>2. [o EXCEPT !.sandbox = w] \in Assignments
      BY <1>0, <3>1, SandboxType
    <3>3. [ctl[k] EXCEPT !.pc = "pods", !.w = w] \in Passes
      BY <1>0, <3>1, PassType
    <3> QED
      BY <1>5, <2>1, <3>2, <3>3, PlanType, ContinueType DEF MatchWorkloads, TypeOK
  <2>2. CASE ~\E x \in Workloads : Matching(o.uid) = {x}
    BY <1>0, <1>5, <2>2, StatusType, PlanType DEF MatchWorkloads, TypeOK
  <2> QED
    BY <2>1, <2>2
<1>6. CASE MatchPods(k)
  <2>1. \E p \in Pods \cup {None}, b \in BOOLEAN : Plan(k, Status(o, ctl[k].w, p, b))
    BY <1>6 DEF MatchPods, Eligible
  <2> QED
    BY <1>0, <1>6, <2>1, StatusType, PlanType DEF MatchPods, TypeOK
<1>7. CASE WritePlan(k) \/ RemoveFinalizer(k)
  BY <1>0, <1>7, NoAsgType, NoPassType DEF WritePlan, RemoveFinalizer, Store, TypeOK
<1>8. CASE FinalizeTargets(k)
  <2> DEFINE T == IF o.workloadRef # None THEN {o.workloadRef} ELSE Matching(o.uid)
  <2>1. T \in SUBSET Workloads
    BY <1>0 DEF Matching
  <2>2. [ctl[k] EXCEPT !.pc = "deleteWorkloads", !.targets = T] \in Passes
    BY <1>0, <2>1, PassType
  <2> QED
    BY <1>8, <2>2, ContinueType DEF FinalizeTargets, TypeOK
<1>9. CASE WorkloadsDeleted(k) \/ FinalizePods(k) \/ PassAborted(k)
  BY <1>0, <1>9, PassType, ContinueType DEF WorkloadsDeleted, FinalizePods,
     PassAborted, TypeOK
<1>10. ASSUME NEW w \in Workloads, DeleteWorkload(k, w) PROVE TypeOK'
  <2>1. ctl' \in [Controllers -> Passes] /\ fresh' \subseteq Controllers
    BY <1>0, <1>10, PassType, ContinueType DEF DeleteWorkload
  <2>2. workloads' \in [Workloads -> [uid: {0} \cup Uids,
           state: {"none", "running", "paused", "deleting", "gone"}]]
    BY <1>10 DEF DeleteWorkload, TypeOK
  <2> QED
    BY <1>10, <2>1, <2>2 DEF DeleteWorkload, TypeOK
<1> QED
  BY <1>1, <1>2, <1>3, <1>4, <1>5, <1>6, <1>7, <1>8, <1>9, <1>10 DEF Pass

\* Every step keeps the types.
LEMMA TypeStep == ASSUME TypeInv, [Next]_vars PROVE TypeOK'
<1>1. CASE UNCHANGED vars
  BY <1>1 DEF TypeInv, TypeOK, vars
<1> QED
  BY <1>1, FacadeType, PassTypes, PlatformType DEF Next, TypeInv

-----------------------------------------------------------------------------
(* What a step may do to the stored object, to Kubernetes and to a request. *)

\* The labels at which the invariants speak of a request.
Watched == {"post", "await", "setId", "waitReady", "pauseUpstream"}

\* To the stored object, apart from the fence.
PlainStep ==
    \/ asg' = asg
    \/ asg' = [NoAsg EXCEPT !.uid = lastUid + 1] /\ lastUid' = lastUid + 1
    \/ asg' = NoAsg
    \/ asg' = [asg EXCEPT !.deleting = TRUE]
    \/ \E w \in Workloads : asg' = [asg EXCEPT !.sandbox = w]
    \/ \E k \in fresh : In(k, "write") /\ asg' = ctl[k].next

\* To the fence, by request c.
FenceStep(c) ==
    \E b \in BOOLEAN, p \in Pods \cup {None} :
        /\ asg' = [asg EXCEPT !.paused = b, !.fence = p]
        /\ \/ b = TRUE /\ cl'[c].pc = "waitReady"
           \/ cl'[c].pc \notin Watched

AsgStep ==
    \/ PlainStep /\ fencer' = fencer
    \/ \E c \in Clients : FenceStep(c) /\ fencer' = c

\* Every step changes the stored object, the fence and the UID counter in one
\* of these ways.
LEMMA AsgSteps ==
    ASSUME TypeInv, [Next]_vars
    PROVE  AsgStep /\ (lastUid' = lastUid \/ lastUid' = lastUid + 1)
<1> USE DEF upstream, servers, local, facade, ReadOnly, AsgStep, PlainStep
<1>1. ASSUME NEW c \in Clients, CreateNew(c) PROVE AsgStep /\ lastUid' = lastUid + 1
  BY <1>1 DEF CreateNew, Put
<1>2. ASSUME NEW c \in Clients, DeleteAssignment(c) PROVE AsgStep /\ lastUid' = lastUid
  BY <1>2 DEF DeleteAssignment, Put, Deleted
<1>3. ASSUME NEW c \in Clients, SetSandboxID(c) PROVE AsgStep /\ lastUid' = lastUid
  BY <1>3 DEF SetSandboxID, Put, At, TypeInv, RequestInv
<1>4. ASSUME NEW c \in Clients,
             PauseFence(c) \/ PauseRollback(c) \/ ResumeFence(c) \/ ResumeRollback(c)
      PROVE  AsgStep /\ lastUid' = lastUid
  <2>1. cl[c] \in Requests /\ cl[c].pod \in Pods \cup {None}
    BY DEF TypeInv, TypeOK, Requests
  <2>2. CASE ~Exists
    BY <1>4, <2>2 DEF PauseFence, PauseRollback, ResumeFence, ResumeRollback,
       SetLifecycleFence, Put
  <2>3. CASE Exists /\ PauseFence(c)
    <3>1. SetLifecycleFence(c, TRUE, None) /\ cl'[c].pc = "waitReady"
      BY <2>1, <2>3 DEF PauseFence, TypeInv, TypeOK, Requests
    <3> QED
      BY <2>3, <3>1 DEF SetLifecycleFence, Put, FenceStep, PauseFence
  <2>4. CASE Exists /\ (PauseRollback(c) \/ ResumeFence(c) \/ ResumeRollback(c))
    <3>1. Finish(c) \/ Goto(c, "resumeUpstream")
      BY <2>4 DEF PauseRollback, ResumeFence, ResumeRollback
    <3>2. cl'[c].pc \notin Watched
      BY <2>1, <3>1 DEF Finish, Goto, Idle, Requests, Watched, TypeInv, TypeOK
    <3>3. \E b \in BOOLEAN, p \in Pods \cup {None} : SetLifecycleFence(c, b, p)
      BY <2>1, <2>4 DEF PauseRollback, ResumeFence, ResumeRollback
    <3> QED
      BY <2>4, <3>2, <3>3 DEF SetLifecycleFence, Put, FenceStep, PauseRollback,
         ResumeFence, ResumeRollback
  <2> QED
    BY <1>4, <2>2, <2>3, <2>4
<1>5. ASSUME NEW k \in Controllers, WritePlan(k) \/ RemoveFinalizer(k)
      PROVE  AsgStep /\ lastUid' = lastUid
  BY <1>5 DEF WritePlan, RemoveFinalizer, Store
<1>6. ASSUME NEW c \in Clients, Facade(c), ~CreateNew(c), ~DeleteAssignment(c),
             ~SetSandboxID(c), ~PauseFence(c), ~PauseRollback(c), ~ResumeFence(c),
             ~ResumeRollback(c)
      PROVE  asg' = asg /\ lastUid' = lastUid /\ fencer' = fencer
  BY <1>6 DEF Facade, CreateExisting, ExpireGet, PostCreate, CreateLost,
     CreateRejected, PauseObserved, PauseGaveUp, RequestAborted, PauseUpstream,
     ResumeUpstream, CreateAnswered, PauseLookup, ResumeLookup, DeleteLookup
<1>7. ASSUME NEW k \in Controllers, Pass(k) \/ PassAborted(k), ~WritePlan(k),
             ~RemoveFinalizer(k)
      PROVE  asg' = asg /\ lastUid' = lastUid /\ fencer' = fencer
  BY <1>7 DEF Pass, PassAborted, ListAssignments, AddFinalizer, BoundaryRejected,
     ReportPaused, MatchWorkloads, MatchPods, FinalizeTargets, WorkloadsDeleted,
     FinalizePods, DeleteWorkload
<1>8. ASSUME Platform \/ SyncCache \/ Age \/ UNCHANGED vars
      PROVE  asg' = asg /\ lastUid' = lastUid /\ fencer' = fencer
  BY <1>8 DEF Platform, SyncCache, Age, ExpireWorkload, WorkloadGone, ApplyCreate,
     StartPod, PodBecomesReady, TerminatePod, PodGone, vars
<1> QED
  BY <1>1, <1>2, <1>3, <1>4, <1>5, <1>6, <1>7, <1>8 DEF Next

\* To what Kubernetes keeps: identities once given do not change.
WorkloadsStable ==
    \A w \in Workloads : workloads[w].state # "none" =>
        workloads'[w].state # "none" /\ workloads'[w].uid = workloads[w].uid

PodsStable ==
    \A p \in Pods :
        /\ pods[p].phase # "none" =>
              pods'[p].phase # "none" /\ pods'[p].owner = pods[p].owner
        /\ pods[p].phase = "none" /\ pods'[p].phase # "none" =>
              /\ pods'[p].owner \in Workloads
              /\ workloads[pods'[p].owner].state # "none"

\* Every step keeps the identities of workloads and Pods.
LEMMA StableStep ==
    ASSUME TypeOK, [Next]_vars PROVE WorkloadsStable /\ PodsStable
<1> DEFINE Same == workloads' = workloads /\ pods' = pods
<1>0. Same => WorkloadsStable /\ PodsStable
  BY DEF WorkloadsStable, PodsStable
<1>1. ASSUME NEW c \in Clients, Facade(c), ~PauseUpstream(c), ~ResumeUpstream(c)
      PROVE  Same
  BY <1>1 DEF Facade, CreateNew, DeleteAssignment, SetSandboxID, PauseFence,
     PauseRollback, ResumeFence, ResumeRollback, CreateExisting, ExpireGet,
     PostCreate, CreateLost, CreateRejected, PauseObserved, PauseGaveUp,
     RequestAborted, CreateAnswered, PauseLookup, ResumeLookup, DeleteLookup,
     upstream
<1>2. ASSUME NEW c \in Clients, PauseUpstream(c) \/ ResumeUpstream(c)
      PROVE  WorkloadsStable /\ PodsStable
  BY <1>2 DEF PauseUpstream, ResumeUpstream, WorkloadsStable, PodsStable, TypeOK
<1>3. ASSUME NEW k \in Controllers, Pass(k) \/ PassAborted(k),
             ~\E w \in Workloads : DeleteWorkload(k, w)
      PROVE  Same
  BY <1>3 DEF Pass, PassAborted, ListAssignments, AddFinalizer, BoundaryRejected,
     ReportPaused, MatchWorkloads, MatchPods, FinalizeTargets, WorkloadsDeleted,
     FinalizePods, WritePlan, RemoveFinalizer, Store, ReadOnly, upstream
<1>4. ASSUME NEW k \in Controllers, NEW w \in Workloads, DeleteWorkload(k, w)
      PROVE  WorkloadsStable /\ PodsStable
  BY <1>4 DEF DeleteWorkload, WorkloadsStable, PodsStable, TypeOK
<1>5. ASSUME NEW w \in Workloads, ExpireWorkload(w) \/ WorkloadGone(w)
                \/ \E u \in Uids : ApplyCreate(u, w)
      PROVE  WorkloadsStable /\ PodsStable
  BY <1>5 DEF ExpireWorkload, WorkloadGone, ApplyCreate, WorkloadsStable,
     PodsStable, TypeOK
<1>6. ASSUME NEW w \in Workloads, NEW p \in Pods, StartPod(w, p)
      PROVE  WorkloadsStable /\ PodsStable
  BY <1>6 DEF StartPod, WorkloadsStable, PodsStable, TypeOK
<1>7. ASSUME NEW p \in Pods, PodBecomesReady(p) \/ TerminatePod(p) \/ PodGone(p)
      PROVE  WorkloadsStable /\ PodsStable
  BY <1>7 DEF PodBecomesReady, TerminatePod, PodGone, WorkloadsStable, PodsStable,
     TypeOK
<1>8. ASSUME SyncCache \/ Age \/ UNCHANGED vars PROVE Same
  BY <1>8 DEF SyncCache, Age, vars, upstream
<1> QED
  BY <1>0, <1>1, <1>2, <1>3, <1>4, <1>5, <1>6, <1>7, <1>8 DEF Next, Platform

\* To a request: few steps lead into the labels the invariants speak of.
LEMMA ClientStep ==
    ASSUME TypeOK, [Next]_vars, NEW c \in Clients
    PROVE  \/ cl'[c] = cl[c] \/ cl'[c].pc \notin Watched
           \/ CreateNew(c) \/ PostCreate(c) \/ PauseFence(c) \/ PauseObserved(c)
           \/ \E w \in Workloads : CreateAnswered(c, w)
<1> USE DEF local, facade, ReadOnly, TypeOK, Requests
<1>1. ASSUME NEW d \in Clients, Facade(d), d # c PROVE cl'[c] = cl[c]
  BY <1>1 DEF Facade, CreateNew, DeleteAssignment, SetSandboxID, PauseFence,
     PauseRollback, ResumeFence, ResumeRollback, CreateExisting, ExpireGet,
     PostCreate, CreateLost, CreateRejected, PauseObserved, PauseGaveUp,
     RequestAborted, CreateAnswered, PauseLookup, ResumeLookup, DeleteLookup,
     PauseUpstream, ResumeUpstream, Goto, Finish, Begin
<1>2. ASSUME Facade(c), ~CreateNew(c), ~PostCreate(c), ~PauseFence(c),
             ~PauseObserved(c), ~\E w \in Workloads : CreateAnswered(c, w)
      PROVE  cl'[c].pc \notin Watched
  <2>1. CASE CreateExisting(c)
    BY <2>1 DEF CreateExisting, Begin, Idle, Watched
  <2>2. ASSUME NEW w \in Workloads, PauseLookup(c, w) \/ DeleteLookup(c, w)
        PROVE  cl'[c].pc \notin Watched
    <3>1. \E pc \in {"fence", "delete"} : Begin(c, [Idle EXCEPT !.pc = pc, !.w = w])
      BY <2>2 DEF PauseLookup, DeleteLookup
    <3> QED
      BY <3>1 DEF Begin, Idle, Watched
  <2>3. ASSUME NEW w \in Workloads, NEW p,
               Begin(c, [Idle EXCEPT !.pc = "resumeFence", !.w = w, !.pod = p])
        PROVE  cl'[c].pc \notin Watched
    BY <2>3 DEF Begin, Idle, Watched
  <2>4. CASE ExpireGet(c) \/ CreateLost(c) \/ CreateRejected(c) \/ SetSandboxID(c)
             \/ DeleteAssignment(c) \/ RequestAborted(c)
    BY <2>4 DEF ExpireGet, CreateLost, CreateRejected, SetSandboxID,
       DeleteAssignment, RequestAborted, Goto, Finish, Idle, Watched
  <2>5. CASE PauseGaveUp(c) \/ PauseRollback(c) \/ ResumeFence(c)
             \/ ResumeRollback(c) \/ PauseUpstream(c) \/ ResumeUpstream(c)
    <3>1. Finish(c) \/ \E pc \in {"rollback", "resumeUpstream", "refence"} : Goto(c, pc)
      BY <2>5 DEF PauseGaveUp, PauseRollback, ResumeFence, ResumeRollback,
         PauseUpstream, ResumeUpstream
    <3> QED
      BY <3>1 DEF Goto, Finish, Idle, Watched
  <2> QED
    BY <1>2, <2>1, <2>2, <2>3, <2>4, <2>5 DEF Facade, ResumeLookup
<1>3. ASSUME NEW k \in Controllers, Pass(k) \/ PassAborted(k) PROVE cl' = cl
  BY <1>3 DEF Pass, PassAborted, ListAssignments, AddFinalizer, BoundaryRejected,
     ReportPaused, MatchWorkloads, MatchPods, FinalizeTargets, WorkloadsDeleted,
     FinalizePods, WritePlan, RemoveFinalizer, Store, DeleteWorkload
<1>4. ASSUME Platform \/ SyncCache \/ Age \/ UNCHANGED vars PROVE cl' = cl
  BY <1>4 DEF Platform, SyncCache, Age, ExpireWorkload, WorkloadGone, ApplyCreate,
     StartPod, PodBecomesReady, TerminatePod, PodGone, vars
<1> QED
  BY <1>1, <1>2, <1>3, <1>4 DEF Next

-----------------------------------------------------------------------------
(* Every step keeps the invariant.                                         *)

\* Every step keeps the stored UID within those given out.
LEMMA UidStep ==
    ASSUME LifecycleInv, [Next]_vars PROVE UidInv'
<1>1. AsgStep /\ (lastUid' = lastUid \/ lastUid' = lastUid + 1)
  BY AsgSteps DEF LifecycleInv
<1>2. asg \in Assignments /\ asg.uid \in 0..lastUid /\ lastUid \in Nat
  BY ConstantsOK DEF LifecycleInv, TypeInv, TypeOK, UidInv, Uids
<1>3. asg'.uid \in {0, asg.uid} \/ (asg'.uid = lastUid + 1 /\ lastUid' = lastUid + 1)
  <2>1. ASSUME NEW k \in fresh, In(k, "write"), asg' = ctl[k].next
        PROVE  asg'.uid = asg.uid
    BY <2>1 DEF In, LifecycleInv, TypeInv, TypeOK, SnapInv, PassInv, Sound, Keeps
  <2>2. ASSUME NEW b, NEW p, NEW w,
               \/ asg' = [asg EXCEPT !.paused = b, !.fence = p]
               \/ asg' = [asg EXCEPT !.deleting = TRUE]
               \/ asg' = [asg EXCEPT !.sandbox = w]
        PROVE  asg'.uid = asg.uid
    BY <1>2, <2>2 DEF Assignments
  <2>3. NoAsg.uid = 0 /\ [NoAsg EXCEPT !.uid = lastUid + 1].uid = lastUid + 1
    BY DEF NoAsg
  <2> QED
    BY <1>1, <2>1, <2>2, <2>3 DEF AsgStep, PlainStep, FenceStep
<1> QED
  BY <1>1, <1>2, <1>3 DEF UidInv

\* Every step keeps what the requests carry.
LEMMA RequestStep ==
    ASSUME LifecycleInv, [Next]_vars PROVE RequestInv'
<1> SUFFICES ASSUME NEW c \in Clients
             PROVE  /\ cl'[c].pc \in {"post", "await", "waitReady", "pauseUpstream"}
                          => cl'[c].uid \in 1..lastUid'
                    /\ cl'[c].pc = "setId" => cl'[c].w \in Workloads
  BY DEF RequestInv
<1>0. /\ TypeOK /\ RequestInv /\ asg.uid \in 0..lastUid /\ lastUid \in Nat
      /\ lastUid' = lastUid \/ lastUid' = lastUid + 1
  BY AsgSteps, ConstantsOK DEF LifecycleInv, TypeInv, TypeOK, UidInv, Uids
<1>1. CASE cl'[c] = cl[c]
  BY <1>0, <1>1 DEF RequestInv
<1>2. CASE cl'[c].pc \notin Watched
  BY <1>2 DEF Watched
<1>3. CASE CreateNew(c)
  BY <1>0, <1>3 DEF CreateNew, Begin, Idle, TypeOK
<1>4. CASE PostCreate(c) \/ PauseObserved(c)
  <2>1. /\ cl[c].pc \in {"post", "waitReady"}
        /\ \E pc \in {"await", "pauseUpstream"} : cl' = [cl EXCEPT ![c].pc = pc]
    BY <1>4 DEF PostCreate, PauseObserved, At, Goto
  <2>2. cl'[c].uid = cl[c].uid /\ cl'[c].pc \in {"await", "pauseUpstream"}
    BY <1>0, <2>1 DEF TypeOK, Requests
  <2> QED
    BY <1>0, <2>1, <2>2 DEF RequestInv
<1>5. CASE PauseFence(c)
  <2>1. CASE Exists
    <3>1. asg.uid \in 1..lastUid
      BY <1>0, <2>1 DEF Exists
    <3>2. cl'[c].uid = asg.uid /\ cl'[c].pc = "waitReady"
      BY <1>0, <1>5, <2>1 DEF PauseFence, TypeOK, Requests
    <3> QED
      BY <1>0, <3>1, <3>2
  <2>2. CASE ~Exists
    BY <1>0, <1>5, <2>2 DEF PauseFence, TypeOK, Idle
  <2> QED
    BY <2>1, <2>2
<1>6. ASSUME NEW w \in Workloads, CreateAnswered(c, w)
      PROVE  cl'[c].pc = "setId" /\ cl'[c].w \in Workloads
  BY <1>0, <1>6 DEF CreateAnswered, TypeOK, Requests
<1> QED
  BY <1>0, <1>1, <1>2, <1>3, <1>4, <1>5, <1>6, ClientStep

\* Every step keeps Pods with their owners.
LEMMA OwnerStep ==
    ASSUME TypeOK, OwnerInv, [Next]_vars PROVE OwnerInv'
<1> SUFFICES ASSUME NEW p \in Pods, pods'[p].phase # "none"
             PROVE  /\ pods'[p].owner \in Workloads
                    /\ workloads'[pods'[p].owner].state # "none"
  BY DEF OwnerInv
<1>1. CASE pods[p].phase # "none"
  BY <1>1, StableStep DEF OwnerInv, WorkloadsStable, PodsStable
<1>2. CASE pods[p].phase = "none"
  BY <1>2, StableStep DEF WorkloadsStable, PodsStable
<1> QED
  BY <1>1, <1>2

\* A sound pass stays sound while Kubernetes moves on.
LEMMA SoundStable ==
    ASSUME WorkloadsStable, PodsStable, NEW s, Sound(s, pods, workloads)
    PROVE  Sound(s, pods', workloads')
BY DEF WorkloadsStable, PodsStable, Sound, Looking, Keeps, Bindable

\* The pass that a controller's step leaves behind.
PassStep(k) ==
    /\ ctl' = [ctl EXCEPT ![k] = ctl'[k]]
    /\ \/ /\ ctl'[k] = NoPass
          /\ fresh' = {} \/ (fresh' = fresh \ {k} /\ asg' = asg)
       \/ ctl'[k].snap = ctl[k].snap /\ fresh' = fresh /\ asg' = asg
       \/ ctl'[k].snap = asg /\ fresh' = fresh \cup {k} /\ asg' = asg
    /\ Sound(ctl'[k], pods', workloads')

\* A planned write that keeps the object's intent and is not newly Ready.
LEMMA PlanSound ==
    ASSUME TypeOK, NEW k \in Controllers, NEW n, Plan(k, n), asg' = asg,
           Keeps(n, ctl[k].snap, pods', workloads')
    PROVE  PassStep(k)
<1>1. /\ ctl' = [ctl EXCEPT ![k] = [ctl[k] EXCEPT !.pc = "write", !.next = n]]
      /\ fresh' = fresh
  BY DEF Plan, Continue
<1>2. /\ ctl'[k].pc = "write" /\ ctl'[k].next = n /\ ctl'[k].snap = ctl[k].snap
      /\ ctl' = [ctl EXCEPT ![k] = ctl'[k]]
  BY <1>1 DEF TypeOK, Passes
<1> QED
  BY <1>1, <1>2 DEF PassStep, Sound, Looking

\* The steps of reconcile before the Pods are matched leave a sound pass.
LEMMA ReconcileSound ==
    ASSUME TypeOK, PassInv, NEW k \in Controllers,
           \/ ListAssignments(k) \/ AddFinalizer(k) \/ BoundaryRejected(k)
           \/ ReportPaused(k) \/ MatchWorkloads(k)
    PROVE  PassStep(k)
<1> DEFINE o == ctl[k].snap
<1>0. o \in Assignments /\ ctl[k] \in Passes /\ Sound(ctl[k], pods, workloads)
  BY PassType DEF TypeOK, PassInv
<1>1. asg' = asg /\ pods' = pods /\ workloads' = workloads
  BY DEF ListAssignments, AddFinalizer, BoundaryRejected, ReportPaused,
     MatchWorkloads, ReadOnly, upstream
<1>2. CASE ListAssignments(k)
  <2>1. /\ ctl' = [ctl EXCEPT ![k] = ctl'[k]] /\ fresh' = fresh \cup {k}
        /\ ctl'[k].snap = asg /\ ctl'[k].pc \in {"reconcile", "finalize"}
        /\ ctl'[k].pc = "reconcile" => ~asg.deleting
    BY <1>2 DEF ListAssignments, TypeOK, NoPass
  <2> QED
    BY <1>1, <2>1 DEF PassStep, Sound, Looking
<1>3. CASE AddFinalizer(k)
  <2>1. Keeps([o EXCEPT !.finalizer = TRUE], o, pods', workloads')
    BY <1>0 DEF Assignments, Keeps
  <2> QED
    BY <1>1, <1>3, <2>1, PlanSound DEF AddFinalizer
<1>4. ASSUME NEW w, NEW p PROVE Keeps(Status(o, w, p, FALSE), o, pods', workloads')
  BY <1>0 DEF Assignments, Keeps, Status
<1>5. CASE BoundaryRejected(k)
  BY <1>1, <1>4, <1>5, PlanSound DEF BoundaryRejected
<1>6. CASE ReportPaused(k)
  <2>1. Keeps([o EXCEPT !.ready = FALSE], o, pods', workloads')
    BY <1>0 DEF Assignments, Keeps
  <2> QED
    BY <1>1, <1>6, <2>1, PlanSound DEF ReportPaused
<1>7. CASE MatchWorkloads(k)
  <2> DEFINE w == CHOOSE x \in Matching(o.uid) : TRUE
  <2>1. CASE \E x \in Workloads : Matching(o.uid) = {x}
    <3>1. w \in Workloads /\ workloads[w].state # "none" /\ workloads[w].uid = o.uid
      BY <2>1 DEF Matching, Present
    <3>2. Keeps([o EXCEPT !.sandbox = w], o, pods', workloads')
      BY <1>0 DEF Assignments, Keeps
    <3>3. CASE Plan(k, [o EXCEPT !.sandbox = w])
      BY <1>1, <3>2, <3>3, PlanSound
    <3>4. CASE Continue(k, [ctl[k] EXCEPT !.pc = "pods", !.w = w])
      <4>1. /\ ctl' = [ctl EXCEPT ![k] = ctl'[k]] /\ fresh' = fresh
            /\ ctl'[k].snap = o /\ ctl'[k].pc = "pods" /\ ctl'[k].w = w
        BY <1>0, <3>4 DEF Continue, TypeOK, Passes
      <4>2. ~o.deleting /\ ~o.paused
        BY <1>0, <1>7 DEF MatchWorkloads, In, Sound, Looking
      <4> QED
        BY <1>1, <3>1, <4>1, <4>2 DEF PassStep, Sound, Looking
    <3> QED
      BY <1>7, <2>1, <3>3, <3>4 DEF MatchWorkloads
  <2>2. CASE ~\E x \in Workloads : Matching(o.uid) = {x}
    BY <1>1, <1>4, <1>7, <2>2, PlanSound DEF MatchWorkloads
  <2> QED
    BY <2>1, <2>2
<1> QED
  BY <1>2, <1>3, <1>5, <1>6, <1>7

\* Matching the Pods leaves a sound pass: Ready is planned only for a Pod of
\* this incarnation outside the fence.
LEMMA MatchPodsSound ==
    ASSUME TypeOK, PassInv, OwnerInv, NEW k \in Controllers, MatchPods(k)
    PROVE  PassStep(k)
<1> DEFINE o == ctl[k].snap
           w == ctl[k].w
<1>0. o \in Assignments /\ ctl[k] \in Passes /\ Sound(ctl[k], pods, workloads)
  BY PassType DEF TypeOK, PassInv
<1>1. asg' = asg /\ pods' = pods /\ workloads' = workloads
  BY DEF MatchPods, ReadOnly, upstream
<1>2. /\ ~o.deleting /\ ~o.paused /\ w \in Workloads
      /\ workloads[w].state # "none" /\ workloads[w].uid = o.uid
  BY <1>0 DEF MatchPods, In, Sound, Looking
<1>3. CASE Plan(k, Status(o, w, None, FALSE))
  <2>1. Keeps(Status(o, w, None, FALSE), o, pods', workloads')
    BY <1>0 DEF Assignments, Keeps, Status
  <2> QED
    BY <1>1, <1>3, <2>1, PlanSound
<1>4. ASSUME NEW p \in Pods, NEW ok \in BOOLEAN, Live(w) = {p},
             Plan(k, Status(o, w, p, ok /\ o.fence # p))
      PROVE  PassStep(k)
  <2> DEFINE n == Status(o, w, p, ok /\ o.fence # p)
  <2>1. /\ n.uid = o.uid /\ n.fence = o.fence /\ n.podRef = p
        /\ n.paused <=> o.paused
        /\ n.deleting <=> o.deleting
        /\ n.ready => o.fence # p
    BY <1>0 DEF Assignments, Status
  <2>2. pods[p].owner = w /\ pods[p].phase # "none"
    BY <1>4 DEF Live
  <2>3. Keeps(n, o, pods', workloads')
    <3> HIDE DEF n
    <3> QED
      BY <1>1, <1>2, <2>1, <2>2 DEF Keeps, Bindable
  <2> QED
    BY <1>1, <1>4, <2>3, PlanSound
<1> QED
  BY <1>3, <1>4 DEF MatchPods, Eligible

\* Ending a pass, with or without a write, leaves none behind.
LEMMA EndSound ==
    ASSUME TypeOK, NEW k \in Controllers,
           \/ EndPass(k) /\ asg' = asg
           \/ \E n : Store(k, n)
    PROVE  PassStep(k)
<1>1. ctl' = [ctl EXCEPT ![k] = NoPass]
  BY DEF EndPass, Store
<1>2. ctl'[k] = NoPass
  BY <1>1 DEF TypeOK
<1>3. Sound(NoPass, pods', workloads')
  BY DEF Sound, Looking, NoPass
<1>4. fresh' = {} \/ (fresh' = fresh \ {k} /\ asg' = asg)
  BY DEF EndPass, Store
<1> QED
  BY <1>1, <1>2, <1>3, <1>4 DEF PassStep

\* A finalizing pass plans no write.
LEMMA FinalizeSound ==
    ASSUME TypeOK, NEW k \in Controllers, NEW s, Continue(k, s), asg' = asg,
           s.snap = ctl[k].snap, s.pc \in {"deleteWorkloads", "finalPods", "release"}
    PROVE  PassStep(k)
BY DEF PassStep, Continue, TypeOK, Sound, Looking

\* Every step of a pass leaves a sound pass.
LEMMA ControllerSound ==
    ASSUME TypeOK, PassInv, OwnerInv, NEW k \in Controllers, Pass(k) \/ PassAborted(k)
    PROVE  PassStep(k)
<1>0. ctl[k] \in Passes
  BY DEF TypeOK
<1>1. CASE WritePlan(k) \/ RemoveFinalizer(k)
  BY <1>1, EndSound DEF WritePlan, RemoveFinalizer
<1>2. CASE PassAborted(k)
  BY <1>2, EndSound DEF PassAborted, ReadOnly
<1>3. CASE FinalizeTargets(k)
  <2>1. PICK T : Continue(k, [ctl[k] EXCEPT !.pc = "deleteWorkloads", !.targets = T])
    BY <1>3 DEF FinalizeTargets
  <2>2. /\ [ctl[k] EXCEPT !.pc = "deleteWorkloads", !.targets = T].snap = ctl[k].snap
        /\ [ctl[k] EXCEPT !.pc = "deleteWorkloads", !.targets = T].pc = "deleteWorkloads"
    BY <1>0 DEF Passes
  <2> QED
    BY <1>3, <2>1, <2>2, FinalizeSound DEF FinalizeTargets, ReadOnly
<1>4. ASSUME NEW l \in {"finalPods", "release"},
             Continue(k, [ctl[k] EXCEPT !.pc = l]), asg' = asg
      PROVE  PassStep(k)
  <2>1. [ctl[k] EXCEPT !.pc = l].snap = ctl[k].snap /\ [ctl[k] EXCEPT !.pc = l].pc = l
    BY <1>0 DEF Passes
  <2> QED
    BY <1>4, <2>1, FinalizeSound
<1>5. CASE WorkloadsDeleted(k) \/ FinalizePods(k)
  BY <1>4, <1>5, EndSound DEF WorkloadsDeleted, FinalizePods, ReadOnly
<1>6. ASSUME NEW w \in Workloads, DeleteWorkload(k, w) PROVE PassStep(k)
  <2>1. /\ [ctl[k] EXCEPT !.targets = @ \ {w}].snap = ctl[k].snap
        /\ [ctl[k] EXCEPT !.targets = @ \ {w}].pc = ctl[k].pc
    BY <1>0 DEF Passes
  <2> QED
    BY <1>6, <2>1, FinalizeSound, EndSound DEF DeleteWorkload, In
<1> QED
  BY <1>1, <1>2, <1>3, <1>5, <1>6, ReconcileSound, MatchPodsSound DEF Pass

\* Everything else leaves the passes alone and outdates them by writing.
LEMMA OthersSound ==
    ASSUME [Next]_vars, ~\E k \in Controllers : Pass(k) \/ PassAborted(k)
    PROVE  /\ ctl' = ctl
           /\ fresh' = {} \/ (fresh' = fresh /\ asg' = asg)
<1> USE DEF local, passes
<1>1. ASSUME NEW c \in Clients, Facade(c) 
      PROVE  ctl' = ctl /\ (fresh' = {} \/ (fresh' = fresh /\ asg' = asg))
  BY <1>1 DEF Facade, CreateNew, DeleteAssignment, SetSandboxID, PauseFence,
     PauseRollback, ResumeFence, ResumeRollback, CreateExisting, ExpireGet,
     PostCreate, CreateLost, CreateRejected, PauseObserved, PauseGaveUp,
     RequestAborted, CreateAnswered, PauseLookup, ResumeLookup, DeleteLookup,
     PauseUpstream, ResumeUpstream, SetLifecycleFence, Put
<1>2. ASSUME Platform \/ SyncCache \/ Age \/ UNCHANGED vars
      PROVE  ctl' = ctl /\ fresh' = fresh /\ asg' = asg
  BY <1>2 DEF Platform, SyncCache, Age, ExpireWorkload, WorkloadGone, ApplyCreate,
     StartPod, PodBecomesReady, TerminatePod, PodGone, vars
<1> QED
  BY <1>1, <1>2 DEF Next

\* Every step keeps the passes sound and their snapshots current.
LEMMA PassesStep ==
    ASSUME LifecycleInv, [Next]_vars PROVE SnapInv' /\ PassInv'
<1>0. TypeOK /\ SnapInv /\ PassInv /\ OwnerInv
  BY DEF LifecycleInv, TypeInv
<1>1. ASSUME NEW s, Sound(s, pods, workloads) PROVE Sound(s, pods', workloads')
  BY <1>0, <1>1, StableStep, SoundStable
<1>2. CASE \E k \in Controllers : Pass(k) \/ PassAborted(k)
  <2>1. PICK k \in Controllers : PassStep(k)
    BY <1>0, <1>2, ControllerSound
  <2>2. \A j \in Controllers \ {k} : ctl'[j] = ctl[j]
    BY <1>0, <2>1 DEF PassStep, TypeOK
  <2>3. SnapInv'
    BY <1>0, <2>1, <2>2 DEF PassStep, SnapInv, TypeOK
  <2>4. PassInv'
    BY <1>0, <1>1, <2>1, <2>2 DEF PassStep, PassInv
  <2> QED
    BY <2>3, <2>4
<1>3. CASE ~\E k \in Controllers : Pass(k) \/ PassAborted(k)
  BY <1>0, <1>1, <1>3, OthersSound DEF SnapInv, PassInv
<1> QED
  BY <1>2, <1>3

\* Every step keeps the fence of the request that wrote it last.
LEMMA PauseStep ==
    ASSUME LifecycleInv, [Next]_vars PROVE PauseInv'
<1> SUFFICES ASSUME NEW c \in Clients, fencer' = c, cl'[c].uid = asg'.uid,
                    cl'[c].pc \in {"waitReady", "pauseUpstream"}
             PROVE  asg'.paused /\ (cl'[c].pc = "pauseUpstream" => ~asg'.ready)
  BY DEF PauseInv
<1>0. /\ TypeInv /\ TypeOK /\ RequestInv /\ SnapInv /\ PassInv /\ PauseInv
      /\ asg \in Assignments /\ lastUid \in Nat
  BY ConstantsOK DEF LifecycleInv, TypeInv, TypeOK, Uids
<1>1. AsgStep
  BY <1>0, AsgSteps
<1>2. CASE FenceStep(c)
  <2>1. PICK p : asg' = [asg EXCEPT !.paused = TRUE, !.fence = p]
    BY <1>2 DEF FenceStep, Watched
  <2>2. cl'[c].pc = "waitReady"
    BY <1>2 DEF FenceStep, Watched
  <2> QED
    BY <1>0, <2>1, <2>2 DEF Assignments
<1>3. CASE PlainStep /\ fencer = c /\ cl'[c] = cl[c]
  <2>1. cl[c].uid \in 1..lastUid /\ cl[c].uid = asg'.uid
    BY <1>0, <1>3 DEF RequestInv
  <2>2. CASE asg' = asg
    BY <1>0, <1>3, <2>2 DEF PauseInv
  <2>3. CASE asg' = NoAsg \/ asg' = [NoAsg EXCEPT !.uid = lastUid + 1]
    BY <1>0, <2>1, <2>3 DEF NoAsg
  <2>4. ASSUME NEW w, asg' = [asg EXCEPT !.deleting = TRUE]
                      \/ asg' = [asg EXCEPT !.sandbox = w]
        PROVE  /\ asg'.uid = asg.uid
               /\ asg'.paused <=> asg.paused
               /\ asg'.ready <=> asg.ready
    BY <1>0, <2>4 DEF Assignments
  <2>5. ASSUME NEW k \in fresh, In(k, "write"), asg' = ctl[k].next
        PROVE  /\ asg'.uid = asg.uid
               /\ asg'.paused <=> asg.paused
               /\ asg'.ready => ~asg'.paused \/ asg.ready
    BY <1>0, <2>5 DEF In, TypeOK, SnapInv, PassInv, Sound, Keeps, Bindable
  <2> QED
    BY <1>0, <1>3, <2>2, <2>3, <2>4, <2>5 DEF PlainStep, PauseInv
<1>4. CASE PlainStep /\ fencer = c /\ cl'[c] # cl[c] /\ ~PauseFence(c)
  <2>1. PauseObserved(c)
    <3>1. ASSUME CreateNew(c) PROVE cl'[c].pc = "post"
      BY <1>0, <3>1 DEF CreateNew, Begin, Idle, TypeOK
    <3>2. ASSUME PostCreate(c) PROVE cl'[c].pc = "await"
      BY <1>0, <3>2 DEF PostCreate, Goto, TypeOK, Requests
    <3>3. ASSUME NEW w \in Workloads, CreateAnswered(c, w) PROVE cl'[c].pc = "setId"
      BY <1>0, <3>3 DEF CreateAnswered, TypeOK, Requests
    <3> QED
      BY <1>0, <1>4, <3>1, <3>2, <3>3, ClientStep DEF Watched
  <2>2. asg' = asg /\ ~asg.ready /\ cl[c].pc = "waitReady"
    BY <2>1 DEF PauseObserved, At
  <2>3. cl'[c].uid = cl[c].uid
    BY <1>0, <2>1 DEF PauseObserved, Goto, TypeOK, Requests
  <2> QED
    BY <1>0, <1>4, <2>2, <2>3 DEF PauseInv
<1>5. CASE PlainStep /\ fencer = c /\ PauseFence(c)
  <2>1. CASE Exists
    <3>1. asg' = [asg EXCEPT !.paused = TRUE, !.fence = None]
      BY <1>5, <2>1 DEF PauseFence, SetLifecycleFence, Put
    <3>2. cl'[c].pc = "waitReady"
      BY <1>0, <1>5, <2>1 DEF PauseFence, TypeOK, Requests
    <3> QED
      BY <1>0, <3>1, <3>2 DEF Assignments
  <2>2. CASE ~Exists
    BY <1>0, <1>5, <2>2 DEF PauseFence, TypeOK, Idle
  <2> QED
    BY <2>1, <2>2
<1> QED
  BY <1>1, <1>2, <1>3, <1>4, <1>5 DEF AsgStep

-----------------------------------------------------------------------------
(* The theorems.                                                           *)

\* The invariant holds at the start.
LEMMA LifecycleInit == Init => LifecycleInv
<1> SUFFICES ASSUME Init PROVE LifecycleInv
  OBVIOUS
<1> USE ConstantsOK DEF Init
<1>1. TypeOK
  <2>1. References(NoAsg) \in CachedReferences
    BY DEF References, NoAsg, CachedReferences
  <2> QED
    BY <2>1, NoAsgType, IdleType, NoPassType DEF TypeOK, Uids
<1>2. RequestInv /\ UidInv /\ PauseInv
  BY DEF RequestInv, UidInv, PauseInv, Idle, NoAsg
<1>3. SnapInv /\ PassInv /\ OwnerInv
  BY DEF SnapInv, PassInv, Sound, Looking, OwnerInv, NoPass
<1> QED
  BY <1>1, <1>2, <1>3 DEF LifecycleInv, TypeInv

\* The inductive invariant of the lifecycle.
LEMMA LifecycleInductive == Spec => []LifecycleInv
<1>1. LifecycleInv /\ [Next]_vars => LifecycleInv'
  BY TypeStep, UidStep, RequestStep, PassesStep, OwnerStep, PauseStep
     DEF LifecycleInv, TypeInv
<1> QED
  BY <1>1, LifecycleInit, PTL DEF Spec

\* The lifecycle state is type correct.
THEOREM LifecycleTypeCorrect == Spec => []TypeOK
<1>1. LifecycleInv => TypeOK
  BY DEF LifecycleInv, TypeInv
<1> QED
  BY <1>1, LifecycleInductive, PTL

\* A pause calls upstream only with the assignment's authority withdrawn, for
\* any number of requests, controllers and faults (handler.go pause).
THEOREM PauseRevokes == Spec => []PauseRevokesFirst
<1>1. LifecycleInv => PauseRevokesFirst
  BY DEF LifecycleInv, PauseInv, PauseRevokesFirst, At
<1> QED
  BY <1>1, LifecycleInductive, PTL

\* No interleaving of passes, requests and Kubernetes makes an assignment Ready
\* on a fenced or foreign Pod, or while paused or deleting (controller.go
\* reconcile and updateStatus).
THEOREM BindsUnfenced == Spec => BindsOnlyUnfencedPod
<1> DEFINE Binds ==
      NewlyReady =>
          /\ ~asg'.paused /\ ~asg'.deleting /\ asg'.uid = asg.uid
          /\ asg'.podRef # None /\ asg'.fence # asg'.podRef
          /\ workloads[pods[asg'.podRef].owner].uid = asg'.uid
<1>1. ASSUME LifecycleInv, [Next]_vars PROVE Binds
  <2> SUFFICES ASSUME NewlyReady PROVE Binds
    OBVIOUS
  <2>0. TypeInv /\ asg \in Assignments
    BY <1>1 DEF LifecycleInv, TypeInv, TypeOK
  <2>1. AsgStep
    BY <1>1, <2>0, AsgSteps
  <2>2. ASSUME NEW w, NEW b, NEW p,
               \/ asg' = [asg EXCEPT !.deleting = TRUE]
               \/ asg' = [asg EXCEPT !.sandbox = w]
               \/ asg' = [asg EXCEPT !.paused = b, !.fence = p]
        PROVE  asg'.podRef = asg.podRef /\ (asg'.ready <=> asg.ready)
    BY <2>0, <2>2 DEF Assignments
  <2>3. ASSUME asg' = NoAsg \/ asg' = [NoAsg EXCEPT !.uid = lastUid + 1]
        PROVE  ~asg'.ready
    BY <2>3 DEF NoAsg
  <2>4. PICK k \in fresh : In(k, "write") /\ asg' = ctl[k].next
    BY <2>1, <2>2, <2>3 DEF NewlyReady, AsgStep, PlainStep, FenceStep
  <2>5. ctl[k].snap = asg /\ Keeps(asg', asg, pods, workloads)
    BY <1>1, <2>4 DEF In, LifecycleInv, TypeInv, TypeOK, SnapInv, PassInv, Sound
  <2> QED
    BY <2>5, ConstantsOK DEF Keeps, Bindable, NewlyReady
<1>2. LifecycleInv /\ [Next]_vars => [Binds]_vars
  BY <1>1
<1> QED
  BY <1>2, LifecycleInductive, PTL DEF Spec, BindsOnlyUnfencedPod

=============================================================================
