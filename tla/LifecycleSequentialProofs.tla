--------------------- MODULE LifecycleSequentialProofs ---------------------
(***************************************************************************)
(* What an assignment's status names is its own, for any number of clients *)
(* and with every fault; and, while one request runs at a time, the        *)
(* finalizer outlives the workload, a retired Pod never carries Ready      *)
(* again and the sandbox ID is the incarnation's own, for any number of    *)
(* controllers, workloads, Pods and incarnations.                          *)
(***************************************************************************)
EXTENDS AssignmentLifecycleProofs

-----------------------------------------------------------------------------
(* What one step may do to the object, to Kubernetes and to the creates.   *)

\* A BatchSandbox of this name has been created.
Created(w) == workloads[w].state # "none"

\* No BatchSandbox carries the UID.
Unsent(u, ws) == \A w \in Workloads : ws[w].state # "none" => ws[w].uid # u

\* The request has an operation record that upstream has not answered.
Creating(c) == cl[c].pc \in {"post", "await"}

IsLive(p) == pods[p].phase \in {"starting", "ready"}

\* The stored object, by the action that writes it.
AsgMove ==
    \/ asg' = asg
    \/ \E c \in Clients : CreateNew(c) /\ ~Exists /\ asg' = [NoAsg EXCEPT !.uid = lastUid + 1]
    \/ \E c \in Clients : DeleteAssignment(c) /\ Exists /\ asg' = Deleted(asg)
    \/ \E c \in Clients :
          SetSandboxID(c) /\ Exists /\ asg' = [asg EXCEPT !.sandbox = cl[c].w]
    \/ \E c \in Clients, b \in BOOLEAN, p \in Pods \cup {None} :
          /\ \/ PauseFence(c) /\ b = TRUE
             \/ PauseRollback(c)
             \/ ResumeFence(c) /\ p = cl[c].pod
             \/ ResumeRollback(c) /\ b = TRUE
          /\ Exists /\ asg' = [asg EXCEPT !.paused = b, !.fence = p]
    \/ \E k \in fresh : WritePlan(k) /\ asg' = ctl[k].next
    \/ \E k \in fresh : RemoveFinalizer(k) /\ asg' = NoAsg

\* Every step writes the object in one of these ways.
LEMMA AsgMoves == ASSUME TypeOK, [Next]_vars PROVE AsgMove
<1> USE DEF upstream, servers, local, facade, ReadOnly
<1>1. ASSUME NEW c \in Clients, CreateNew(c) PROVE AsgMove
  BY <1>1 DEF AsgMove, CreateNew, Put
<1>2. ASSUME NEW c \in Clients, DeleteAssignment(c) PROVE AsgMove
  BY <1>2 DEF AsgMove, DeleteAssignment, Put
<1>3. ASSUME NEW c \in Clients, SetSandboxID(c) PROVE AsgMove
  BY <1>3 DEF AsgMove, SetSandboxID, Put
<1>4. ASSUME NEW c \in Clients, NEW b \in BOOLEAN, NEW p \in Pods \cup {None},
             SetLifecycleFence(c, b, p),
             \/ PauseFence(c) /\ b = TRUE
             \/ PauseRollback(c)
             \/ ResumeFence(c) /\ p = cl[c].pod
             \/ ResumeRollback(c) /\ b = TRUE
      PROVE  AsgMove
  <2>1. \/ asg' = asg
        \/ Exists /\ asg' = [asg EXCEPT !.paused = b, !.fence = p]
    BY <1>4 DEF SetLifecycleFence, Put
  <2> QED
    BY <1>4, <2>1 DEF AsgMove
<1>5. ASSUME NEW c \in Clients,
             PauseFence(c) \/ PauseRollback(c) \/ ResumeFence(c) \/ ResumeRollback(c)
      PROVE  AsgMove
  <2>1. cl[c].pod \in Pods \cup {None}
    BY DEF TypeOK, Requests
  <2> QED
    BY <1>4, <1>5, <2>1 DEF PauseFence, PauseRollback, ResumeFence, ResumeRollback
<1>6. ASSUME NEW k \in Controllers, WritePlan(k) \/ RemoveFinalizer(k) PROVE AsgMove
  <2>1. CASE WritePlan(k)
    BY <2>1 DEF AsgMove, WritePlan, Store
  <2>2. CASE RemoveFinalizer(k)
    BY <2>2 DEF AsgMove, RemoveFinalizer, Store
  <2> QED
    BY <1>6, <2>1, <2>2
<1>7. ASSUME NEW c \in Clients, Facade(c), ~CreateNew(c), ~DeleteAssignment(c),
             ~SetSandboxID(c), ~PauseFence(c), ~PauseRollback(c), ~ResumeFence(c),
             ~ResumeRollback(c)
      PROVE  asg' = asg
  BY <1>7 DEF Facade, CreateExisting, ExpireGet, PostCreate, CreateLost,
     CreateRejected, PauseObserved, PauseGaveUp, RequestAborted, PauseUpstream,
     ResumeUpstream, CreateAnswered, PauseLookup, ResumeLookup, DeleteLookup
<1>8. ASSUME NEW k \in Controllers, Pass(k) \/ PassAborted(k), ~WritePlan(k),
             ~RemoveFinalizer(k)
      PROVE  asg' = asg
  BY <1>8 DEF Pass, PassAborted, ListAssignments, AddFinalizer, BoundaryRejected,
     ReportPaused, MatchWorkloads, MatchPods, FinalizeTargets, WorkloadsDeleted,
     FinalizePods, DeleteWorkload
<1>9. ASSUME Platform \/ SyncCache \/ Age \/ UNCHANGED vars PROVE asg' = asg
  BY <1>9 DEF Platform, SyncCache, Age, ExpireWorkload, WorkloadGone, ApplyCreate,
     StartPod, PodBecomesReady, TerminatePod, PodGone, vars
<1>10. asg' = asg => AsgMove
  BY DEF AsgMove
<1> QED
  BY <1>1, <1>2, <1>3, <1>5, <1>6, <1>7, <1>8, <1>9, <1>10 DEF Next

\* No BatchSandbox is created, and none that is gone comes back.
WorkloadsAge ==
    \A w \in Workloads :
        /\ Created(w)' <=> Created(w)
        /\ workloads'[w].uid = workloads[w].uid
        /\ Present(w)' => Present(w)

\* No Pod is started, and none that stopped lives again.
PodsAge ==
    \A p \in Pods :
        /\ pods'[p].owner = pods[p].owner
        /\ pods'[p].phase = "none" <=> pods[p].phase = "none"
        /\ IsLive(p)' => IsLive(p)
        /\ Remains(p)' => Remains(p)

\* BatchSandboxes age unless a create is applied (external).
LEMMA WorkloadMoves ==
    ASSUME TypeOK, [Next]_vars
    PROVE  \/ WorkloadsAge
           \/ \E u \in Uids, w \in Workloads : ApplyCreate(u, w)
<1> USE DEF Created, Present
<1>0. workloads' = workloads => WorkloadsAge
  BY DEF WorkloadsAge
<1>1. ASSUME NEW c \in Clients, Facade(c), ~PauseUpstream(c), ~ResumeUpstream(c)
      PROVE  workloads' = workloads
  BY <1>1 DEF Facade, CreateNew, DeleteAssignment, SetSandboxID, PauseFence,
     PauseRollback, ResumeFence, ResumeRollback, CreateExisting, ExpireGet,
     PostCreate, CreateLost, CreateRejected, PauseObserved, PauseGaveUp,
     RequestAborted, CreateAnswered, PauseLookup, ResumeLookup, DeleteLookup,
     upstream
<1>2. ASSUME NEW c \in Clients, PauseUpstream(c) \/ ResumeUpstream(c)
      PROVE  WorkloadsAge
  BY <1>2 DEF PauseUpstream, ResumeUpstream, WorkloadsAge, TypeOK
<1>3. ASSUME NEW k \in Controllers, Pass(k) \/ PassAborted(k),
             ~\E w \in Workloads : DeleteWorkload(k, w)
      PROVE  workloads' = workloads
  BY <1>3 DEF Pass, PassAborted, ListAssignments, AddFinalizer, BoundaryRejected,
     ReportPaused, MatchWorkloads, MatchPods, FinalizeTargets, WorkloadsDeleted,
     FinalizePods, WritePlan, RemoveFinalizer, Store, ReadOnly, upstream
<1>4. ASSUME NEW k \in Controllers, NEW w \in Workloads, DeleteWorkload(k, w)
      PROVE  WorkloadsAge
  BY <1>4 DEF DeleteWorkload, WorkloadsAge, TypeOK
<1>5. ASSUME NEW w \in Workloads, ExpireWorkload(w) \/ WorkloadGone(w)
      PROVE  WorkloadsAge
  BY <1>5 DEF ExpireWorkload, WorkloadGone, WorkloadsAge, TypeOK
<1>6. ASSUME \/ \E w \in Workloads, p \in Pods : StartPod(w, p)
             \/ \E p \in Pods : PodBecomesReady(p) \/ TerminatePod(p) \/ PodGone(p)
             \/ SyncCache \/ Age \/ UNCHANGED vars
      PROVE  workloads' = workloads
  BY <1>6 DEF StartPod, PodBecomesReady, TerminatePod, PodGone, SyncCache, Age,
     vars, upstream
<1> QED
  BY <1>0, <1>1, <1>2, <1>3, <1>4, <1>5, <1>6 DEF Next, Platform

\* Pods age unless one is started (external).
LEMMA PodMoves ==
    ASSUME TypeOK, [Next]_vars
    PROVE  \/ PodsAge
           \/ \E w \in Workloads, p \in Pods : StartPod(w, p)
<1> USE DEF IsLive, Remains
<1>0. pods' = pods => PodsAge
  BY DEF PodsAge
<1>1. ASSUME NEW c \in Clients, Facade(c) PROVE pods' = pods
  BY <1>1 DEF Facade, CreateNew, DeleteAssignment, SetSandboxID, PauseFence,
     PauseRollback, ResumeFence, ResumeRollback, CreateExisting, ExpireGet,
     PostCreate, CreateLost, CreateRejected, PauseObserved, PauseGaveUp,
     RequestAborted, CreateAnswered, PauseLookup, ResumeLookup, DeleteLookup,
     PauseUpstream, ResumeUpstream, upstream
<1>2. ASSUME NEW k \in Controllers, Pass(k) \/ PassAborted(k) PROVE pods' = pods
  BY <1>2 DEF Pass, PassAborted, ListAssignments, AddFinalizer, BoundaryRejected,
     ReportPaused, MatchWorkloads, MatchPods, FinalizeTargets, WorkloadsDeleted,
     FinalizePods, WritePlan, RemoveFinalizer, Store, DeleteWorkload, ReadOnly,
     upstream
<1>3. ASSUME \/ \E w \in Workloads : ExpireWorkload(w) \/ WorkloadGone(w)
             \/ \E w \in Workloads, u \in Uids : ApplyCreate(u, w)
             \/ SyncCache \/ Age \/ UNCHANGED vars
      PROVE  pods' = pods
  BY <1>3 DEF ExpireWorkload, WorkloadGone, ApplyCreate, SyncCache, Age, vars, upstream
<1>4. ASSUME NEW p \in Pods, PodBecomesReady(p) \/ TerminatePod(p) \/ PodGone(p)
      PROVE  PodsAge
  BY <1>4 DEF PodBecomesReady, TerminatePod, PodGone, PodsAge, TypeOK
<1> QED
  BY <1>0, <1>1, <1>2, <1>3, <1>4 DEF Next, Platform

\* A create is sent by PostCreate only, and no other request moves then.
LEMMA PostMoves ==
    ASSUME TypeOK, [Next]_vars
    PROVE  posts' \subseteq posts \/ \E c \in Clients : PostCreate(c)
<1>1. ASSUME NEW c \in Clients, Facade(c), ~PostCreate(c) PROVE posts' \subseteq posts
  BY <1>1 DEF Facade, CreateNew, DeleteAssignment, SetSandboxID, PauseFence,
     PauseRollback, ResumeFence, ResumeRollback, CreateExisting, ExpireGet,
     CreateLost, CreateRejected, PauseObserved, PauseGaveUp,
     RequestAborted, CreateAnswered, PauseLookup, ResumeLookup, DeleteLookup,
     PauseUpstream, ResumeUpstream, upstream
<1>2. ASSUME NEW k \in Controllers, Pass(k) \/ PassAborted(k) PROVE posts' = posts
  BY <1>2 DEF Pass, PassAborted, ListAssignments, AddFinalizer, BoundaryRejected,
     ReportPaused, MatchWorkloads, MatchPods, FinalizeTargets, WorkloadsDeleted,
     FinalizePods, WritePlan, RemoveFinalizer, Store, DeleteWorkload, ReadOnly,
     upstream
<1>3. ASSUME Platform \/ SyncCache \/ Age \/ UNCHANGED vars PROVE posts' \subseteq posts
  BY <1>3 DEF Platform, ExpireWorkload, WorkloadGone, ApplyCreate, StartPod,
     PodBecomesReady, TerminatePod, PodGone, SyncCache, Age, vars, upstream
<1> QED
  BY <1>1, <1>2, <1>3 DEF Next

\* A request is creating only if it was, or has just been received.
LEMMA CreatingMoves ==
    ASSUME TypeOK, [Next]_vars, NEW c \in Clients, Creating(c)'
    PROVE  \/ cl'[c] = cl[c] /\ Creating(c)
           \/ CreateNew(c) /\ cl'[c].uid = lastUid + 1 /\ lastUid' = lastUid + 1
           \/ PostCreate(c) /\ cl'[c].uid = cl[c].uid /\ cl'[c].pc = "await"
<1>1. ASSUME CreateNew(c) PROVE cl'[c].uid = lastUid + 1 /\ lastUid' = lastUid + 1
  BY <1>1 DEF CreateNew, Begin, Idle, TypeOK
<1>2. ASSUME PostCreate(c) PROVE cl'[c].uid = cl[c].uid /\ cl'[c].pc = "await"
  BY <1>2 DEF PostCreate, Goto, TypeOK, Requests
<1>3. ASSUME NEW w \in Workloads, CreateAnswered(c, w) PROVE cl'[c].pc = "setId"
  BY <1>3 DEF CreateAnswered, TypeOK, Requests
<1>4. ASSUME PauseFence(c) PROVE cl'[c].pc \in {"waitReady", "idle"}
  BY <1>4 DEF PauseFence, TypeOK, Requests, Idle
<1>5. ASSUME PauseObserved(c) PROVE cl'[c].pc = "pauseUpstream"
  BY <1>5 DEF PauseObserved, Goto, TypeOK, Requests
<1> QED
  BY <1>1, <1>2, <1>3, <1>4, <1>5, ClientStep DEF Creating, Watched

-----------------------------------------------------------------------------
(* One BatchSandbox for each incarnation, one live Pod for each            *)
(* BatchSandbox, and a status that names only its own.  These hold for any *)
(* number of clients and with every fault.                                 *)

\* A UID is sent upstream at most once: the request that holds it is alone
\* with it, and once sent it is either pending or carried by a BatchSandbox.
CreateInv ==
    /\ \A c, d \in Clients :
          Creating(c) /\ Creating(d) /\ cl[c].uid = cl[d].uid => c = d
    /\ \A c \in Clients : At(c, "post") => cl[c].uid \notin posts /\ Unsent(cl[c].uid, workloads)
    /\ \A u \in posts : u \in 1..lastUid /\ Unsent(u, workloads)
    /\ \A w \in Workloads : Created(w) => workloads[w].uid \in 1..lastUid
    /\ \A v, w \in Workloads :
          Created(v) /\ Created(w) /\ workloads[v].uid = workloads[w].uid => v = w
    /\ \A w \in Workloads : ~Created(w) => workloads[w].uid = 0

\* Every step keeps the creates apart.
LEMMA CreateStep ==
    ASSUME LifecycleInv, CreateInv, [Next]_vars PROVE CreateInv'
<1>0. /\ TypeOK /\ RequestInv /\ lastUid \in Nat /\ lastUid' \in Nat
      /\ lastUid' = lastUid \/ lastUid' = lastUid + 1
  BY AsgSteps, ConstantsOK DEF LifecycleInv, TypeInv, TypeOK, Uids
<1>1. \A c \in Clients : Creating(c) => cl[c].uid \in 1..lastUid
  BY <1>0 DEF RequestInv, Creating
<1>2. ASSUME NEW c \in Clients, NEW d \in Clients, Creating(c)', Creating(d)',
             cl'[c].uid = cl'[d].uid
      PROVE  c = d
  <2>1. ASSUME NEW e \in Clients, CreateNew(e) PROVE \A x \in Clients \ {e} : cl'[x] = cl[x]
    BY <1>0, <2>1 DEF CreateNew, Begin, TypeOK
  <2>2. ASSUME NEW e \in Clients, Creating(e)', ~CreateNew(e)
        PROVE  Creating(e) /\ cl'[e].uid = cl[e].uid
    BY <1>0, <2>2, CreatingMoves DEF Creating, PostCreate, At
  <2>3. ASSUME NEW e \in Clients, Creating(e)', CreateNew(e) 
        PROVE  cl'[e].uid = lastUid + 1
    <3>1. cl'[e].uid = lastUid + 1 /\ lastUid' = lastUid + 1
      BY <1>0, <2>3 DEF CreateNew, Begin, Idle, TypeOK
    <3> QED
      BY <3>1
  <2>4. CASE ~CreateNew(c) /\ ~CreateNew(d)
    BY <1>2, <2>2, <2>4 DEF CreateInv
  <2>5. CASE CreateNew(c) \/ CreateNew(d)
    <3> SUFFICES ASSUME c # d PROVE FALSE
      OBVIOUS
    <3>1. PICK e \in {c, d} : CreateNew(e)
      BY <2>5
    <3>2. PICK x \in {c, d} : x # e
      OBVIOUS
    <3>3. Creating(x) /\ cl'[x].uid = cl[x].uid
      BY <1>2, <2>1, <3>1, <3>2 DEF Creating
    <3> QED
      BY <1>0, <1>1, <1>2, <2>3, <3>1, <3>2, <3>3
  <2> QED
    BY <2>4, <2>5
<1>3. ASSUME NEW u, Unsent(u, workloads), u \notin posts \/ u \in posts' PROVE Unsent(u, workloads')
  <2>1. CASE WorkloadsAge
    BY <1>3, <2>1 DEF WorkloadsAge, Unsent, Created
  <2>2. ASSUME NEW x \in Uids, NEW w \in Workloads, ApplyCreate(x, w) PROVE Unsent(u, workloads')
    <3>1. x # u
      BY <1>3, <2>2 DEF ApplyCreate
    <3> QED
      BY <1>0, <1>3, <2>2, <3>1 DEF ApplyCreate, Unsent, Created, TypeOK
  <2> QED
    BY <1>0, <2>1, <2>2, WorkloadMoves
<1>4. Unsent(lastUid + 1, workloads) /\ lastUid + 1 \notin posts
  BY <1>0 DEF CreateInv, Unsent, Created
<1>5. ASSUME NEW c \in Clients, At(c, "post")'
      PROVE  cl'[c].uid \notin posts' /\ Unsent(cl'[c].uid, workloads')
  <2>0. Creating(c)'
    BY <1>5 DEF At, Creating
  <2>1. CASE CreateNew(c)
    <3>1. cl'[c].uid = lastUid + 1 /\ posts' = posts
      BY <1>0, <2>1 DEF CreateNew, Begin, Idle, TypeOK, upstream
    <3> QED
      BY <1>3, <1>4, <3>1
  <2>2. CASE ~CreateNew(c)
    <3>1. cl'[c] = cl[c] /\ At(c, "post")
      BY <1>0, <1>5, <2>0, <2>2, CreatingMoves DEF At
    <3>2. cl[c].uid \notin posts /\ Unsent(cl[c].uid, workloads)
      BY <3>1 DEF CreateInv
    <3>3. ASSUME NEW d \in Clients, PostCreate(d) PROVE cl[c].uid \notin posts'
      <4>1. d # c
        BY <1>0, <1>5, <3>3 DEF PostCreate, Goto, At, TypeOK, Requests
      <4>2. cl[d].uid # cl[c].uid
        BY <3>1, <3>3, <4>1 DEF CreateInv, Creating, PostCreate, At
      <4> QED
        BY <3>2, <3>3, <4>2 DEF PostCreate
    <3>4. cl[c].uid \notin posts'
      BY <1>0, <3>2, <3>3, PostMoves
    <3> QED
      BY <1>3, <3>1, <3>2, <3>4
  <2> QED
    BY <2>1, <2>2
<1>6. ASSUME NEW u \in posts' PROVE u \in 1..lastUid' /\ Unsent(u, workloads')
  <2>1. u \in 1..lastUid /\ Unsent(u, workloads)
    <3>1. ASSUME NEW c \in Clients, PostCreate(c) PROVE u \in 1..lastUid /\ Unsent(u, workloads)
      BY <1>1, <3>1 DEF PostCreate, CreateInv, Creating, At
    <3> QED
      BY <1>0, <3>1, PostMoves DEF CreateInv
  <2> QED
    BY <1>0, <1>3, <2>1
<1>7. ASSUME NEW w \in Workloads, Created(w)' PROVE workloads'[w].uid \in 1..lastUid'
  <2>1. CASE WorkloadsAge
    BY <1>0, <1>7, <2>1 DEF WorkloadsAge, CreateInv
  <2>2. ASSUME NEW x \in Uids, NEW v \in Workloads, ApplyCreate(x, v)
        PROVE  workloads'[w].uid \in 1..lastUid'
    BY <1>0, <1>7, <2>2 DEF ApplyCreate, CreateInv, Created, TypeOK
  <2> QED
    BY <1>0, <2>1, <2>2, WorkloadMoves
<1>8. ASSUME NEW v \in Workloads, NEW w \in Workloads, Created(v)', Created(w)',
             workloads'[v].uid = workloads'[w].uid
      PROVE  v = w
  <2>1. CASE WorkloadsAge
    BY <1>8, <2>1 DEF WorkloadsAge, CreateInv
  <2>2. ASSUME NEW x \in Uids, NEW y \in Workloads, ApplyCreate(x, y) PROVE v = w
    <3>1. /\ workloads'[y].uid = x /\ \A z \in Workloads \ {y} : workloads'[z] = workloads[z]
          /\ Unsent(x, workloads)
      BY <1>0, <2>2 DEF ApplyCreate, CreateInv, TypeOK
    <3> QED
      BY <1>8, <3>1 DEF CreateInv, Unsent, Created
  <2> QED
    BY <1>0, <2>1, <2>2, WorkloadMoves
<1>9. ASSUME NEW w \in Workloads, ~Created(w)' PROVE workloads'[w].uid = 0
  <2>1. CASE WorkloadsAge
    BY <1>9, <2>1 DEF WorkloadsAge, CreateInv
  <2>2. ASSUME NEW x \in Uids, NEW v \in Workloads, ApplyCreate(x, v)
        PROVE  workloads'[w].uid = 0
    BY <1>0, <1>9, <2>2 DEF ApplyCreate, CreateInv, Created, TypeOK
  <2> QED
    BY <1>0, <2>1, <2>2, WorkloadMoves
<1> QED
  BY <1>2, <1>5, <1>6, <1>7, <1>8, <1>9 DEF CreateInv

\* An absent object is the empty one, and no pass works on it.
EmptyInv ==
    /\ asg.uid = 0 => asg = NoAsg
    /\ fresh # {} => asg.uid # 0

\* What the writes keep of the object.
LEMMA WriteFields ==
    ASSUME NEW o \in Assignments
    PROVE  /\ \A w \in Workloads : LET n == [o EXCEPT !.sandbox = w] IN
                /\ n.uid = o.uid /\ n.workloadRef = o.workloadRef /\ n.podRef = o.podRef
                /\ n.fence = o.fence /\ n.sandbox = w
                /\ (n.paused <=> o.paused) /\ (n.ready <=> o.ready)
                /\ (n.deleting <=> o.deleting) /\ (n.finalizer <=> o.finalizer)
           /\ \A b \in BOOLEAN, p \in Pods \cup {None} :
                LET n == [o EXCEPT !.paused = b, !.fence = p] IN
                /\ n.uid = o.uid /\ n.workloadRef = o.workloadRef /\ n.podRef = o.podRef
                /\ n.fence = p /\ (n.paused <=> b) /\ (n.ready <=> o.ready)
                /\ (n.deleting <=> o.deleting) /\ (n.finalizer <=> o.finalizer)
           /\ LET n == [o EXCEPT !.deleting = TRUE] IN
                /\ n.uid = o.uid /\ n.workloadRef = o.workloadRef /\ n.podRef = o.podRef
                /\ n.fence = o.fence /\ n.deleting
                /\ (n.paused <=> o.paused) /\ (n.ready <=> o.ready)
                /\ (n.finalizer <=> o.finalizer)
           /\ LET n == [o EXCEPT !.finalizer = TRUE] IN
                /\ n.uid = o.uid /\ n.workloadRef = o.workloadRef /\ n.podRef = o.podRef
                /\ n.fence = o.fence
                /\ (n.paused <=> o.paused) /\ (n.ready <=> o.ready)
                /\ (n.deleting <=> o.deleting)
           /\ LET n == [o EXCEPT !.ready = FALSE] IN
                /\ n.uid = o.uid /\ n.workloadRef = o.workloadRef /\ n.podRef = o.podRef
                /\ n.fence = o.fence /\ ~n.ready
                /\ (n.paused <=> o.paused) /\ (n.deleting <=> o.deleting)
           /\ \A w \in Workloads \cup {None}, p \in Pods \cup {None}, b \in BOOLEAN :
                LET n == Status(o, w, p, b) IN
                /\ n.uid = o.uid /\ n.workloadRef = w /\ n.podRef = p
                /\ n.fence = o.fence /\ (n.ready <=> b)
                /\ (n.paused <=> o.paused) /\ (n.deleting <=> o.deleting)
BY DEF Assignments, Status

\* The empty object names nothing, whichever UID it is given.
LEMMA EmptyFields ==
    /\ NoAsg.uid = 0 /\ NoAsg.workloadRef = None /\ NoAsg.podRef = None
    /\ ~NoAsg.ready /\ ~NoAsg.deleting /\ ~NoAsg.finalizer
    /\ \A u : LET n == [NoAsg EXCEPT !.uid = u] IN
         /\ n.uid = u /\ n.workloadRef = None /\ n.podRef = None
         /\ ~n.ready /\ ~n.deleting /\ ~n.finalizer
BY DEF NoAsg

\* A pass is fresh only if it was and nothing was written, or has just listed.
LEMMA FreshMoves ==
    ASSUME TypeOK, [Next]_vars, NEW k \in fresh'
    PROVE  asg' = asg /\ (k \in fresh \/ (ListAssignments(k) /\ k \in Controllers))
<1> DEFINE Goal == asg' = asg /\ (k \in fresh \/ (ListAssignments(k) /\ k \in Controllers))
<1>1. ASSUME NEW j \in Controllers, ListAssignments(j) PROVE Goal
  BY <1>1 DEF ListAssignments, ReadOnly
<1>2. ASSUME NEW j \in Controllers, Pass(j) \/ PassAborted(j), ~ListAssignments(j)
      PROVE  Goal
  BY <1>2 DEF Pass, PassAborted, AddFinalizer, BoundaryRejected,
     ReportPaused, MatchWorkloads, MatchPods, FinalizeTargets, WorkloadsDeleted,
     FinalizePods, DeleteWorkload, WritePlan, RemoveFinalizer, Store, Plan, Continue,
     EndPass, ReadOnly
<1>3. CASE ~\E j \in Controllers : Pass(j) \/ PassAborted(j)
  BY <1>3, OthersSound
<1> QED
  BY <1>1, <1>2, <1>3

\* Every step keeps the absent object empty and without passes.
LEMMA EmptyStep ==
    ASSUME LifecycleInv, EmptyInv, [Next]_vars PROVE EmptyInv'
<1>0. TypeOK /\ asg \in Assignments /\ lastUid \in Nat
  BY ConstantsOK DEF LifecycleInv, TypeInv, TypeOK, Uids
<1>1. ASSUME NEW k \in fresh' PROVE asg'.uid # 0
  BY <1>0, <1>1, FreshMoves DEF EmptyInv, ListAssignments, Exists
<1>2. asg'.uid = 0 => asg' = NoAsg
  <2>1. CASE asg' = asg \/ asg' = NoAsg
    BY <2>1 DEF EmptyInv
  <2>2. CASE asg' = [NoAsg EXCEPT !.uid = lastUid + 1]
    BY <1>0, <2>2, EmptyFields
  <2>3. CASE Exists /\ asg' = Deleted(asg)
    BY <1>0, <2>3, WriteFields DEF Deleted, Exists
  <2>4. ASSUME NEW c \in Clients, SetSandboxID(c), Exists,
               asg' = [asg EXCEPT !.sandbox = cl[c].w]
        PROVE  asg'.uid # 0
    <3>1. cl[c].w \in Workloads
      BY <2>4 DEF SetSandboxID, At, LifecycleInv, TypeInv, RequestInv
    <3> QED
      BY <1>0, <2>4, <3>1, WriteFields DEF Exists
  <2>5. ASSUME NEW b \in BOOLEAN, NEW p \in Pods \cup {None}, Exists,
               asg' = [asg EXCEPT !.paused = b, !.fence = p]
        PROVE  asg'.uid # 0
    BY <1>0, <2>5, WriteFields DEF Exists
  <2>6. ASSUME NEW k \in fresh, WritePlan(k), asg' = ctl[k].next PROVE asg'.uid # 0
    BY <1>0, <2>6 DEF WritePlan, In, LifecycleInv, TypeInv, TypeOK, SnapInv, PassInv,
       Sound, Keeps, EmptyInv
  <2> QED
    BY <1>0, <2>1, <2>2, <2>3, <2>4, <2>5, <2>6, AsgMoves DEF AsgMove
<1> QED
  BY <1>1, <1>2 DEF EmptyInv

\* BatchSandbox keeps one Pod.
OneLive ==
    \A p, q \in Pods :
        IsLive(p) /\ IsLive(q) /\ pods[p].owner = pods[q].owner => p = q

\* Every step keeps one live Pod for each BatchSandbox.
LEMMA OneLiveStep ==
    ASSUME TypeOK, OneLive, [Next]_vars PROVE OneLive'
<1>1. CASE PodsAge
  BY <1>1 DEF PodsAge, OneLive
<1>2. ASSUME NEW w \in Workloads, NEW x \in Pods, StartPod(w, x) PROVE OneLive'
  <2>1. /\ pods'[x].owner = w
        /\ \A p \in Pods \ {x} : pods'[p] = pods[p]
        /\ \A p \in Pods : pods[p].owner = w => ~IsLive(p)
    BY <1>2 DEF StartPod, Live, IsLive, TypeOK
  <2> QED
    BY <2>1 DEF OneLive, IsLive
<1> QED
  BY <1>1, <1>2, PodMoves

-----------------------------------------------------------------------------
(* What a step may do to a pass.                                           *)

\* The object that a step of the pass plans to write.
Planned(k, n) ==
    LET o == ctl[k].snap
        w == ctl[k].w
    IN
    \/ /\ In(k, "reconcile")
       /\ \/ n = [o EXCEPT !.finalizer = TRUE]
          \/ o.paused /\ n = [o EXCEPT !.ready = FALSE]
          \/ /\ ~o.paused
             /\ \E x \in Workloads : Matching(o.uid) = {x} /\ n = [o EXCEPT !.sandbox = x]
          \/ /\ \/ "boundaryError" \in Faults
                \/ ~o.paused /\ \A x \in Workloads : Matching(o.uid) # {x}
             /\ n = Status(o, None, None, FALSE)
    \/ /\ In(k, "pods")
       /\ \/ /\ (\A p \in Pods : Live(w) # {p}) \/ "boundaryError" \in Faults
             /\ n = Status(o, w, None, FALSE)
          \/ \E p \in Pods, b \in BOOLEAN :
                /\ Live(w) = {p} /\ (b => o.fence # p)
                /\ n = Status(o, w, p, b)

\* What a step leaves of the pass of controller k.
PassMove(k) ==
    \/ ctl'[k] = ctl[k]
    \/ ctl'[k] = NoPass
    \/ /\ ListAssignments(k) /\ ReadOnly
       /\ ctl'[k].pc = IF asg.deleting THEN "finalize" ELSE "reconcile"
       /\ ctl'[k].snap = asg /\ ctl'[k].next = NoAsg
    \/ /\ ctl'[k].snap = ctl[k].snap
       /\ \/ ReadOnly /\ ctl'[k].pc = "write" /\ Planned(k, ctl'[k].next)
          \/ /\ ctl'[k].next = ctl[k].next
             /\ \/ /\ MatchWorkloads(k) /\ ReadOnly /\ ctl'[k].pc = "pods"
                   /\ Matching(ctl[k].snap.uid) = {ctl'[k].w}
                \/ /\ FinalizeTargets(k) /\ ReadOnly /\ ctl'[k].pc = "deleteWorkloads"
                   /\ ctl'[k].targets = IF ctl[k].snap.workloadRef # None
                                        THEN {ctl[k].snap.workloadRef}
                                        ELSE Matching(ctl[k].snap.uid)
                \/ /\ In(k, "deleteWorkloads") /\ ctl'[k].pc = "deleteWorkloads"
                   /\ \E w \in Workloads :
                         ctl'[k].targets = ctl[k].targets \ {w} /\ ~Present(w)'
                \/ /\ WorkloadsDeleted(k) /\ ReadOnly /\ ctl'[k].pc = "finalPods"
                \/ /\ In(k, "finalPods") /\ ReadOnly /\ ctl'[k].pc = "release"
                   /\ \A p \in Pods : ~PodOf(p, ctl[k].snap.uid)

\* A pass that plans a write leaves the rest of it alone.
LEMMA PlanMoves ==
    ASSUME TypeOK, NEW k \in Controllers, NEW n, Plan(k, n), ReadOnly, Planned(k, n)
    PROVE  PassMove(k)
<1>1. ctl'[k].pc = "write" /\ ctl'[k].next = n /\ ctl'[k].snap = ctl[k].snap
  BY DEF Plan, Continue, TypeOK, Passes
<1> QED
  BY <1>1 DEF PassMove

\* Every step leaves the pass of a controller in one of these ways.
LEMMA PassMoves ==
    ASSUME TypeOK, [Next]_vars, NEW k \in Controllers PROVE PassMove(k)
<1>0. ctl[k] \in Passes /\ ctl[k].snap \in Assignments
  BY PassType DEF TypeOK
<1>1. CASE ~\E j \in Controllers : Pass(j) \/ PassAborted(j)
  BY <1>1, OthersSound DEF PassMove
<1>2. ASSUME NEW j \in Controllers, Pass(j) \/ PassAborted(j), j # k PROVE ctl'[k] = ctl[k]
  BY <1>2 DEF Pass, PassAborted, ListAssignments, AddFinalizer, BoundaryRejected,
     ReportPaused, MatchWorkloads, MatchPods, FinalizeTargets, WorkloadsDeleted,
     FinalizePods, DeleteWorkload, WritePlan, RemoveFinalizer, Store, Plan, Continue,
     EndPass, TypeOK
<1>3. CASE WritePlan(k) \/ RemoveFinalizer(k) \/ PassAborted(k)
  BY <1>3 DEF WritePlan, RemoveFinalizer, PassAborted, Store, EndPass, PassMove, TypeOK
<1>4. CASE ListAssignments(k)
  <2>1. /\ ctl'[k].pc = IF asg.deleting THEN "finalize" ELSE "reconcile"
        /\ ctl'[k].snap = asg /\ ctl'[k].next = NoAsg
    BY <1>4 DEF ListAssignments, TypeOK, NoPass
  <2> QED
    BY <1>4, <2>1 DEF PassMove, ListAssignments
<1>5. CASE AddFinalizer(k) \/ BoundaryRejected(k) \/ ReportPaused(k)
  BY <1>5, PlanMoves DEF AddFinalizer, BoundaryRejected, ReportPaused, Planned
<1>6. CASE MatchWorkloads(k)
  <2> DEFINE o == ctl[k].snap
             w == CHOOSE x \in Matching(o.uid) : TRUE
  <2>1. CASE \E x \in Workloads : Matching(o.uid) = {x}
    <3>1. w \in Workloads /\ Matching(o.uid) = {w}
      BY <2>1
    <3>2. CASE Plan(k, [o EXCEPT !.sandbox = w])
      BY <1>6, <3>1, <3>2, PlanMoves DEF MatchWorkloads, Planned
    <3>3. CASE Continue(k, [ctl[k] EXCEPT !.pc = "pods", !.w = w])
      <4>1. /\ ctl'[k].pc = "pods" /\ ctl'[k].w = w
            /\ ctl'[k].snap = o /\ ctl'[k].next = ctl[k].next
        BY <1>0, <3>3 DEF Continue, TypeOK, Passes
      <4> QED
        BY <1>6, <3>1, <4>1 DEF PassMove, MatchWorkloads
    <3> QED
      BY <1>6, <2>1, <3>2, <3>3 DEF MatchWorkloads
  <2>2. CASE ~\E x \in Workloads : Matching(o.uid) = {x}
    BY <1>6, <2>2, PlanMoves DEF MatchWorkloads, Planned
  <2> QED
    BY <2>1, <2>2
<1>7. CASE MatchPods(k)
  <2> DEFINE o == ctl[k].snap
             w == ctl[k].w
  <2>1. ASSUME NEW p \in Pods, NEW ok \in Eligible(p), Live(w) = {p},
               Plan(k, Status(o, w, p, ok /\ o.fence # p))
        PROVE  PassMove(k)
    <3>1. (ok /\ o.fence # p) \in BOOLEAN
      OBVIOUS
    <3>2. Planned(k, Status(o, w, p, ok /\ o.fence # p))
      BY <1>7, <2>1, <3>1 DEF MatchPods, Planned
    <3> QED
      BY <1>7, <2>1, <3>2, PlanMoves DEF MatchPods
  <2>2. ASSUME (\A p \in Pods : Live(w) # {p}) \/ "boundaryError" \in Faults,
               Plan(k, Status(o, w, None, FALSE))
        PROVE  PassMove(k)
    BY <1>7, <2>2, PlanMoves DEF MatchPods, Planned
  <2> QED
    BY <1>7, <2>1, <2>2 DEF MatchPods
<1>8. CASE FinalizeTargets(k)
  <2> DEFINE o == ctl[k].snap
             T == IF o.workloadRef # None THEN {o.workloadRef} ELSE Matching(o.uid)
  <2>1. /\ ctl'[k].pc = "deleteWorkloads" /\ ctl'[k].targets = T
        /\ ctl'[k].snap = o /\ ctl'[k].next = ctl[k].next
    BY <1>0, <1>8 DEF FinalizeTargets, Continue, TypeOK, Passes
  <2> QED
    BY <1>8, <2>1 DEF PassMove, FinalizeTargets
<1>9. ASSUME NEW w \in Workloads, DeleteWorkload(k, w) PROVE PassMove(k)
  <2>1. CASE EndPass(k)
    BY <2>1 DEF EndPass, PassMove, TypeOK
  <2>2. CASE /\ workloads' = IF Present(w) THEN [workloads EXCEPT ![w].state = "gone"]
                             ELSE workloads
             /\ Continue(k, [ctl[k] EXCEPT !.targets = @ \ {w}])
    <3>1. /\ ctl'[k].pc = ctl[k].pc /\ ctl'[k].targets = ctl[k].targets \ {w}
          /\ ctl'[k].snap = ctl[k].snap /\ ctl'[k].next = ctl[k].next
      BY <1>0, <2>2 DEF Continue, TypeOK, Passes
    <3>2. ~Present(w)'
      BY <2>2 DEF Present, TypeOK
    <3> QED
      BY <1>9, <3>1, <3>2 DEF PassMove, DeleteWorkload, In
  <2> QED
    BY <1>9, <2>1, <2>2 DEF DeleteWorkload
<1>10. CASE WorkloadsDeleted(k)
  <2>1. /\ ctl'[k].pc = "finalPods"
        /\ ctl'[k].snap = ctl[k].snap /\ ctl'[k].next = ctl[k].next
    BY <1>0, <1>10 DEF WorkloadsDeleted, Continue, TypeOK, Passes
  <2> QED
    BY <1>10, <2>1 DEF PassMove, WorkloadsDeleted
<1>11. CASE FinalizePods(k)
  <2>1. CASE EndPass(k)
    BY <2>1 DEF EndPass, PassMove, TypeOK
  <2>2. CASE Continue(k, [ctl[k] EXCEPT !.pc = "release"]) /\ ~EndPass(k)
    <3>1. /\ ctl'[k].pc = "release"
          /\ ctl'[k].snap = ctl[k].snap /\ ctl'[k].next = ctl[k].next
      BY <1>0, <2>2 DEF Continue, TypeOK, Passes
    <3>2. \A p \in Pods : ~PodOf(p, ctl[k].snap.uid)
      BY <1>11, <2>2 DEF FinalizePods
    <3> QED
      BY <1>11, <3>1, <3>2 DEF PassMove, FinalizePods
  <2> QED
    BY <1>11, <2>1, <2>2 DEF FinalizePods
<1>12. CASE ctl'[k] = ctl[k]
  BY <1>12 DEF PassMove
<1> QED
  BY <1>1, <1>2, <1>3, <1>4, <1>5, <1>6, <1>7, <1>8, <1>9, <1>10, <1>11, <1>12 DEF Pass

-----------------------------------------------------------------------------
(* The status names only what belongs to the incarnation.                  *)

\* The BatchSandbox and the Pod that a version of the object names carry its UID.
Own(o, ps, ws) ==
    /\ o.workloadRef # None =>
          ws[o.workloadRef].state # "none" /\ ws[o.workloadRef].uid = o.uid
    /\ o.podRef # None =>
          /\ ps[o.podRef].phase # "none" /\ ps[o.podRef].owner \in Workloads
          /\ ws[ps[o.podRef].owner].state # "none"
          /\ ws[ps[o.podRef].owner].uid = o.uid

\* So it is for the stored version and for those that the passes hold.
OwnStatusInv ==
    /\ Own(asg, pods, workloads)
    /\ \A k \in Controllers : /\ Own(ctl[k].snap, pods, workloads)
                              /\ Own(ctl[k].next, pods, workloads)

\* Identities do not change, so a version that names its own goes on doing so.
LEMMA OwnStable ==
    ASSUME WorkloadsStable, PodsStable, NEW o \in Assignments, Own(o, pods, workloads)
    PROVE  Own(o, pods', workloads')
<1>1. o.workloadRef \in Workloads \cup {None} /\ o.podRef \in Pods \cup {None}
  BY DEF Assignments
<1> QED
  BY <1>1 DEF Own, WorkloadsStable, PodsStable

\* A planned write names what the pass found for the incarnation.
LEMMA PlannedOwn ==
    ASSUME TypeOK, PassInv, OwnStatusInv, NEW k \in Controllers, NEW n, Planned(k, n)
    PROVE  Own(n, pods, workloads)
<1> DEFINE o == ctl[k].snap
           w == ctl[k].w
<1>0. o \in Assignments /\ Own(o, pods, workloads) /\ w \in Workloads \cup {None}
  BY PassType DEF TypeOK, OwnStatusInv
<1>1. In(k, "pods") => w \in Workloads /\ workloads[w].state # "none" /\ workloads[w].uid = o.uid
  BY DEF In, PassInv, Sound, Looking
<1>2. CASE \/ n = [o EXCEPT !.finalizer = TRUE]
           \/ n = [o EXCEPT !.ready = FALSE]
           \/ \E x \in Workloads : n = [o EXCEPT !.sandbox = x]
  <2>1. n.uid = o.uid /\ n.workloadRef = o.workloadRef /\ n.podRef = o.podRef
    BY <1>0, <1>2 DEF Assignments
  <2> QED
    BY <1>0, <2>1 DEF Own
<1>3. CASE n = Status(o, None, None, FALSE)
  <2>1. n.workloadRef = None /\ n.podRef = None
    BY <1>0, <1>3, WriteFields
  <2> QED
    BY <2>1 DEF Own
<1>4. CASE In(k, "pods") /\ n = Status(o, w, None, FALSE)
  <2>1. n.uid = o.uid /\ n.workloadRef = w /\ n.podRef = None
    BY <1>0, <1>4, WriteFields
  <2>2. /\ w \in Workloads /\ workloads[w].state # "none" /\ workloads[w].uid = o.uid
    BY <1>1, <1>4
  <2> HIDE DEF o, w
  <2> QED
    BY <2>1, <2>2 DEF Own
<1>5. ASSUME NEW p \in Pods, NEW b \in BOOLEAN, In(k, "pods"), Live(w) = {p},
             n = Status(o, w, p, b)
      PROVE  Own(n, pods, workloads)
  <2>1. n.uid = o.uid /\ n.workloadRef = w /\ n.podRef = p
    BY <1>0, <1>5, WriteFields
  <2>2. pods[p].owner = w /\ pods[p].phase # "none"
    BY <1>5 DEF Live
  <2> QED
    BY <1>1, <1>5, <2>1, <2>2 DEF Own
<1> QED
  BY <1>2, <1>3, <1>4, <1>5 DEF Planned

\* Every step keeps the status with its own.
LEMMA OwnStatusStep ==
    ASSUME LifecycleInv, OwnStatusInv, [Next]_vars PROVE OwnStatusInv'
<1>0. /\ TypeOK /\ PassInv /\ asg \in Assignments /\ WorkloadsStable /\ PodsStable
      /\ \A k \in Controllers : ctl[k].snap \in Assignments /\ ctl[k].next \in Assignments
  BY StableStep, PassType DEF LifecycleInv, TypeInv, TypeOK
<1>1. \A o : o.workloadRef = None /\ o.podRef = None => Own(o, pods', workloads')
  BY DEF Own
<1>2. Own(asg, pods', workloads')
  BY <1>0, OwnStable DEF OwnStatusInv
<1>3. Own(asg', pods', workloads')
  <2>0. ASSUME asg'.uid = asg.uid, asg'.workloadRef = asg.workloadRef,
               asg'.podRef = asg.podRef
        PROVE  Own(asg', pods', workloads')
    BY <1>2, <2>0 DEF Own
  <2>1. CASE asg' = asg
    BY <1>2, <2>1
  <2>2. CASE asg' = NoAsg \/ asg' = [NoAsg EXCEPT !.uid = lastUid + 1]
    BY <1>1, <2>2, EmptyFields
  <2>3. CASE asg' = Deleted(asg)
    BY <1>0, <2>0, <2>2, <2>3, WriteFields DEF Deleted
  <2>4. ASSUME NEW c \in Clients, SetSandboxID(c), asg' = [asg EXCEPT !.sandbox = cl[c].w]
        PROVE  Own(asg', pods', workloads')
    <3>1. cl[c].w \in Workloads
      BY <2>4 DEF SetSandboxID, At, LifecycleInv, TypeInv, RequestInv
    <3> QED
      BY <1>0, <2>0, <2>4, <3>1, WriteFields
  <2>5. ASSUME NEW b \in BOOLEAN, NEW p \in Pods \cup {None},
               asg' = [asg EXCEPT !.paused = b, !.fence = p]
        PROVE  Own(asg', pods', workloads')
    BY <1>0, <2>0, <2>5, WriteFields
  <2>6. ASSUME NEW k \in fresh, asg' = ctl[k].next
        PROVE  Own(asg', pods', workloads')
    BY <1>0, <2>6, OwnStable DEF OwnStatusInv, TypeOK
  <2> QED
    BY <1>0, <2>1, <2>2, <2>3, <2>4, <2>5, <2>6, AsgMoves DEF AsgMove
<1>4. ASSUME NEW k \in Controllers
      PROVE  Own(ctl'[k].snap, pods', workloads') /\ Own(ctl'[k].next, pods', workloads')
  <2>0. Own(ctl[k].snap, pods', workloads') /\ Own(ctl[k].next, pods', workloads')
    BY <1>0, OwnStable DEF OwnStatusInv
  <2>1. Own(NoAsg, pods', workloads')
    BY <1>1, EmptyFields
  <2>2. NoPass.snap = NoAsg /\ NoPass.next = NoAsg
    BY DEF NoPass
  <2>3. ASSUME ReadOnly, Planned(k, ctl'[k].next)
        PROVE  Own(ctl'[k].next, pods', workloads')
    <3>1. pods' = pods /\ workloads' = workloads
      BY <2>3 DEF ReadOnly, upstream
    <3> QED
      BY <1>0, <2>3, <3>1, PlannedOwn
  <2> QED
    BY <1>0, <1>2, <2>0, <2>1, <2>2, <2>3, PassMoves DEF PassMove
<1> QED
  BY <1>3, <1>4 DEF OwnStatusInv

\* What holds for any number of clients and with every fault.
IdentityInv == LifecycleInv /\ CreateInv /\ EmptyInv /\ OneLive /\ OwnStatusInv

\* It holds at the start.
LEMMA IdentityInit == Init => IdentityInv
<1> SUFFICES ASSUME Init PROVE IdentityInv
  OBVIOUS
<1>1. CreateInv /\ OneLive
  BY DEF Init, CreateInv, OneLive, Creating, At, Idle, Created, IsLive, Unsent
<1>2. EmptyInv
  BY DEF Init, EmptyInv
<1>3. OwnStatusInv
  BY DEF Init, OwnStatusInv, Own, NoPass, NoAsg
<1> QED
  BY <1>1, <1>2, <1>3, LifecycleInit DEF IdentityInv

\* Every step keeps it.
LEMMA IdentityStep == IdentityInv /\ [Next]_vars => IdentityInv'
<1>1. LifecycleInv /\ [Next]_vars => LifecycleInv'
  BY TypeStep, UidStep, RequestStep, PassesStep, OwnerStep, PauseStep
     DEF LifecycleInv, TypeInv
<1>2. LifecycleInv => TypeOK
  BY DEF LifecycleInv, TypeInv
<1> QED
  BY <1>1, <1>2, CreateStep, EmptyStep, OneLiveStep, OwnStatusStep DEF IdentityInv

\* It is an invariant of the lifecycle.
LEMMA IdentityInductive == Spec => []IdentityInv
BY IdentityInit, IdentityStep, PTL DEF Spec

\* One incarnation has one BatchSandbox.
OneWorkload ==
    \A v, w \in Workloads :
        Created(v) /\ Created(w) /\ workloads[v].uid = workloads[w].uid => v = w

\* However creates, replays, expiries, crashes and late answers interleave,
\* upstream is asked to create one BatchSandbox for an incarnation, so the
\* controller's "exactly one workload" check meets at most one (handler.go
\* create, controller.go reconcile).
THEOREM OneWorkloadPerIncarnation == Spec => []OneWorkload
<1>1. IdentityInv => OneWorkload
  BY DEF IdentityInv, CreateInv, OneWorkload
<1> QED
  BY <1>1, IdentityInductive, PTL

\* Unlike the sandbox ID, which another incarnation's create may write, the
\* workload and the Pod in an assignment's status always carry its own UID,
\* whatever was deleted and created again since the pass listed it
\* (controller.go updateStatus under the listed resourceVersion).
THEOREM StatusNamesItsOwn == Spec => []Own(asg, pods, workloads)
<1>1. IdentityInv => Own(asg, pods, workloads)
  BY DEF IdentityInv, OwnStatusInv
<1> QED
  BY <1>1, IdentityInductive, PTL

-----------------------------------------------------------------------------
(* The finalizer outlives the workload, while one request runs at a time   *)
(* and upstream applies no create after the facade gave up on it.          *)

\* The facade works on one request at a time.
Sequential == \A c, d \in Clients : c = d

\* A create that may still be applied has its request waiting, and that
\* request's operation record is the stored object, not being deleted.
AwaitedInv ==
    /\ \A u \in posts : \E c \in Clients : At(c, "await") /\ cl[c].uid = u
    /\ \A c \in Clients : Creating(c) => cl[c].uid = asg.uid /\ ~asg.deleting

Finalizing == {"finalize", "deleteWorkloads", "finalPods", "release"}

\* What a finalizing pass that may still write has established.
FinalizeInv ==
    /\ \A k \in Controllers : ctl[k].pc \in Finalizing => ctl[k].snap.deleting
    /\ \A k \in fresh :
          /\ In(k, "deleteWorkloads") => Matching(asg.uid) \subseteq ctl[k].targets
          /\ ctl[k].pc \in {"finalPods", "release"} => Matching(asg.uid) = {}
          /\ In(k, "release") => \A p \in Pods : ~PodOf(p, asg.uid)

\* A request stops waiting for upstream in one of four ways.
LEMMA AwaitMoves ==
    ASSUME TypeOK, [Next]_vars, NEW c \in Clients, At(c, "await")
    PROVE  \/ cl'[c] = cl[c]
           \/ CreateLost(c) \/ CreateRejected(c) \/ RequestAborted(c)
           \/ \E w \in Workloads : CreateAnswered(c, w)
<1>1. ASSUME NEW d \in Clients, Facade(d), d # c PROVE cl'[c] = cl[c]
  BY <1>1 DEF TypeOK, Facade, CreateNew, DeleteAssignment, SetSandboxID, PauseFence,
     PauseRollback, ResumeFence, ResumeRollback, CreateExisting, ExpireGet,
     PostCreate, CreateLost, CreateRejected, PauseObserved, PauseGaveUp,
     RequestAborted, CreateAnswered, PauseLookup, ResumeLookup, DeleteLookup,
     PauseUpstream, ResumeUpstream, Goto, Finish, Begin
<1>2. ASSUME Facade(c), ~CreateLost(c), ~CreateRejected(c), ~RequestAborted(c),
             ~\E w \in Workloads : CreateAnswered(c, w)
      PROVE  FALSE
  BY <1>2 DEF At, Facade, CreateNew, DeleteAssignment, SetSandboxID, PauseFence,
     PauseRollback, ResumeFence, ResumeRollback, CreateExisting, ExpireGet,
     PostCreate, PauseObserved, PauseGaveUp, PauseLookup, ResumeLookup, DeleteLookup,
     PauseUpstream, ResumeUpstream, Begin
<1>3. ASSUME NEW k \in Controllers, Pass(k) \/ PassAborted(k) PROVE cl' = cl
  BY <1>3 DEF Pass, PassAborted, ListAssignments, AddFinalizer, BoundaryRejected,
     ReportPaused, MatchWorkloads, MatchPods, FinalizeTargets, WorkloadsDeleted,
     FinalizePods, WritePlan, RemoveFinalizer, Store, DeleteWorkload, ReadOnly, facade
<1>4. ASSUME Platform \/ SyncCache \/ Age \/ UNCHANGED vars PROVE cl' = cl
  BY <1>4 DEF Platform, SyncCache, Age, ExpireWorkload, WorkloadGone, ApplyCreate,
     StartPod, PodBecomesReady, TerminatePod, PodGone, vars, local
<1> QED
  BY <1>1, <1>2, <1>3, <1>4 DEF Next

\* Every step keeps the creates awaited.
LEMMA AwaitedStep ==
    ASSUME Sequential, "lateCreate" \notin Faults, IdentityInv, AwaitedInv, FinalizeInv,
           [Next]_vars
    PROVE  AwaitedInv'
<1>0. /\ LifecycleInv /\ TypeInv /\ TypeOK /\ SnapInv /\ PassInv /\ RequestInv /\ CreateInv
      /\ asg \in Assignments
  BY DEF IdentityInv, LifecycleInv, TypeInv, TypeOK
<1>1. ASSUME NEW u \in posts' PROVE \E c \in Clients : At(c, "await")' /\ cl'[c].uid = u
  <2>1. ASSUME NEW c \in Clients, PostCreate(c)
        PROVE  \E d \in Clients : At(d, "await")' /\ cl'[d].uid = u
    <3>1. posts = {}
      BY <2>1 DEF Sequential, AwaitedInv, PostCreate, At
    <3>2. cl'[c].pc = "await" /\ cl'[c].uid = cl[c].uid
      BY <1>0, <2>1 DEF PostCreate, Goto, TypeOK, Requests
    <3> QED
      BY <1>1, <2>1, <3>1, <3>2 DEF PostCreate, At
  <2>2. CASE posts' \subseteq posts
    <3>1. PICK c \in Clients : At(c, "await") /\ cl[c].uid = u
      BY <1>1, <2>2 DEF AwaitedInv
    <3>2. CASE CreateLost(c) \/ CreateRejected(c) \/ RequestAborted(c)
      BY <1>1, <3>1, <3>2 DEF CreateLost, CreateRejected, RequestAborted
    <3>3. ASSUME NEW w \in Workloads, CreateAnswered(c, w) PROVE FALSE
      <4>1. workloads[w].uid = u /\ u \in 1..lastUid /\ Unsent(u, workloads)
        BY <1>0, <1>1, <2>2, <3>1, <3>3 DEF CreateAnswered, CreateInv
      <4>2. u # 0
        BY <1>0, <4>1, ConstantsOK DEF TypeOK, Uids
      <4> QED
        BY <1>0, <3>3, <4>1, <4>2 DEF CreateInv, Unsent, Created
    <3>4. CASE cl'[c] = cl[c]
      BY <3>1, <3>4 DEF At
    <3> QED
      BY <1>0, <3>1, <3>2, <3>3, <3>4, AwaitMoves
  <2> QED
    BY <1>0, <2>1, <2>2, PostMoves
<1>2. ASSUME NEW c \in Clients, Creating(c)' PROVE cl'[c].uid = asg'.uid /\ ~asg'.deleting
  <2>1. CASE CreateNew(c)
    <3>1. cl'[c].uid = lastUid + 1 /\ asg' = [NoAsg EXCEPT !.uid = lastUid + 1]
      BY <1>0, <2>1 DEF CreateNew, Begin, Put, Idle, TypeOK
    <3> QED
      BY <3>1, EmptyFields
  <2>2. CASE ~CreateNew(c)
    <3>1. Creating(c) /\ cl'[c].uid = cl[c].uid
      BY <1>0, <1>2, <2>2, CreatingMoves DEF Creating, PostCreate, At
    <3>2. cl[c].uid = asg.uid /\ ~asg.deleting
      BY <3>1 DEF AwaitedInv
    <3>3. ASSUME NEW d \in Clients
          PROVE  /\ ~CreateNew(d) /\ ~DeleteAssignment(d) /\ ~SetSandboxID(d)
                 /\ ~PauseFence(d) /\ ~PauseRollback(d) /\ ~ResumeFence(d)
                 /\ ~ResumeRollback(d)
      <4>1. d = c
        BY DEF Sequential
      <4> QED
        BY <3>1, <4>1 DEF Creating, At, CreateNew, Begin, DeleteAssignment, SetSandboxID,
           PauseFence, PauseRollback, ResumeFence, ResumeRollback
    <3>4. ASSUME NEW k \in fresh, WritePlan(k), asg' = ctl[k].next
          PROVE  asg'.uid = asg.uid /\ ~asg'.deleting
      BY <1>0, <3>2, <3>4 DEF WritePlan, In, TypeOK, SnapInv, PassInv, Sound, Keeps
    <3>5. ASSUME NEW k \in fresh, RemoveFinalizer(k) PROVE FALSE
      BY <1>0, <3>2, <3>5 DEF RemoveFinalizer, In, TypeOK, SnapInv, FinalizeInv, Finalizing
    <3>6. asg'.uid = asg.uid /\ ~asg'.deleting
      BY <1>0, <3>2, <3>3, <3>4, <3>5, AsgMoves DEF AsgMove
    <3> QED
      BY <3>1, <3>2, <3>6
  <2> QED
    BY <2>1, <2>2
<1> QED
  BY <1>1, <1>2 DEF AwaitedInv

\* Every step keeps what the finalizing passes have established.
LEMMA FinalizeStep ==
    ASSUME Sequential, IdentityInv, AwaitedInv, FinalizeInv, [Next]_vars
    PROVE  FinalizeInv'
<1>0. /\ LifecycleInv /\ TypeInv /\ TypeOK /\ SnapInv /\ OwnerInv /\ CreateInv /\ OwnStatusInv
      /\ asg \in Assignments
  BY DEF IdentityInv, LifecycleInv, TypeInv, TypeOK
<1>1. ASSUME NEW k \in Controllers, ctl'[k].pc \in Finalizing PROVE ctl'[k].snap.deleting
  <2>1. CASE ctl'[k] = NoPass
    BY <1>1, <2>1 DEF NoPass, Finalizing
  <2>2. CASE ListAssignments(k) /\ ctl'[k].snap = asg
             /\ ctl'[k].pc = IF asg.deleting THEN "finalize" ELSE "reconcile"
    BY <1>1, <2>2 DEF Finalizing
  <2>3. CASE ctl'[k].snap = ctl[k].snap /\ ctl[k].pc \in Finalizing
    BY <2>3 DEF FinalizeInv
  <2> QED
    BY <1>0, <1>1, <2>1, <2>2, <2>3, PassMoves DEF PassMove, Finalizing, FinalizeTargets,
       WorkloadsDeleted, In
<1>2. ASSUME NEW k \in fresh'
      PROVE  /\ In(k, "deleteWorkloads")' => Matching(asg.uid)' \subseteq ctl'[k].targets
             /\ ctl'[k].pc \in {"finalPods", "release"} => Matching(asg.uid)' = {}
             /\ In(k, "release")' => \A p \in Pods : ~PodOf(p, asg.uid)'
  <2>0. asg' = asg /\ (k \in fresh \/ ListAssignments(k)) /\ k \in Controllers
    BY <1>0, <1>2, FreshMoves DEF TypeOK
  <2>1. CASE ListAssignments(k)
    <3>1. ctl'[k].pc \in {"finalize", "reconcile"}
      BY <1>0, <2>0, <2>1 DEF ListAssignments, TypeOK, NoPass
    <3> QED
      BY <3>1 DEF In
  <2>2. CASE k \in fresh /\ ctl'[k].pc \in {"deleteWorkloads", "finalPods", "release"}
    <3>1. ctl'[k].snap = ctl[k].snap /\ ctl[k].snap = asg /\ asg.deleting
          /\ ctl[k].pc \in Finalizing
      <4>1. ctl[k].snap = asg
        BY <1>0, <2>2 DEF SnapInv
      <4>2. ctl'[k].snap = ctl[k].snap /\ ctl[k].pc \in Finalizing
        <5>1. NoPass.pc = "idle"
          BY DEF NoPass
        <5>2. FinalizeTargets(k) \/ WorkloadsDeleted(k) => ctl[k].pc \in Finalizing
          BY DEF FinalizeTargets, WorkloadsDeleted, In, Finalizing
        <5>3. PassMove(k)
          BY <1>0, <2>0, PassMoves
        <5> QED
          BY <2>2, <5>1, <5>2, <5>3 DEF PassMove, Finalizing, In
      <4> QED
        BY <2>0, <4>1, <4>2 DEF FinalizeInv
    <3>2. WorkloadsAge
      <4>1. posts = {}
        BY <3>1 DEF AwaitedInv, Creating, At
      <4> QED
        BY <1>0, <4>1, WorkloadMoves DEF ApplyCreate
    <3>3. Matching(asg.uid)' \subseteq Matching(asg.uid)
      BY <2>0, <3>2 DEF Matching, WorkloadsAge
    <3>4. ASSUME Matching(asg.uid) = {}, NEW p \in Pods, ~PodOf(p, asg.uid)
          PROVE  ~PodOf(p, asg.uid)'
      <4>1. CASE PodsAge
        <5>1. SUFFICES ASSUME Remains(p)', workloads'[pods'[p].owner].uid = asg.uid
                       PROVE  FALSE
          BY <2>0 DEF PodOf
        <5>2. Remains(p) /\ pods'[p].owner = pods[p].owner
          BY <4>1, <5>1 DEF PodsAge
        <5>3. pods[p].owner \in Workloads
          BY <1>0, <5>2 DEF OwnerInv, Remains
        <5> QED
          BY <3>2, <3>4, <5>1, <5>2, <5>3 DEF WorkloadsAge, PodOf
      <4>2. ASSUME NEW w \in Workloads, NEW x \in Pods, StartPod(w, x)
            PROVE  ~PodOf(p, asg.uid)'
        <5>1. /\ workloads' = workloads /\ pods'[x].owner = w
              /\ \A q \in Pods \ {x} : pods'[q] = pods[q]
          BY <1>0, <4>2 DEF StartPod, TypeOK
        <5>2. workloads[w].uid # asg.uid
          BY <3>4, <4>2 DEF StartPod, Matching, Present
        <5> QED
          BY <2>0, <3>4, <5>1, <5>2 DEF PodOf, Remains
      <4> QED
        BY <1>0, <4>1, <4>2, PodMoves
    <3>5. CASE ctl'[k] = ctl[k]
      BY <2>0, <2>2, <3>3, <3>4, <3>5 DEF FinalizeInv, In
    <3>6. CASE /\ ReadOnly /\ ctl'[k].pc = "deleteWorkloads"
               /\ ctl'[k].targets = IF ctl[k].snap.workloadRef # None
                                    THEN {ctl[k].snap.workloadRef}
                                    ELSE Matching(ctl[k].snap.uid)
      <4>1. CASE asg.workloadRef # None
        <5>1. asg.workloadRef \in Workloads /\ Created(asg.workloadRef)
              /\ workloads[asg.workloadRef].uid = asg.uid
          BY <1>0, <4>1 DEF OwnStatusInv, Own, Assignments, Created
        <5>2. Matching(asg.uid) \subseteq {asg.workloadRef}
          BY <1>0, <5>1 DEF Matching, Present, Created, CreateInv
        <5> QED
          BY <2>0, <3>1, <3>3, <3>6, <4>1, <5>2 DEF In
      <4>2. CASE asg.workloadRef = None
        BY <2>0, <3>1, <3>3, <3>6, <4>2 DEF In
      <4> QED
        BY <4>1, <4>2
    <3>7. ASSUME In(k, "deleteWorkloads"), ctl'[k].pc = "deleteWorkloads",
                 NEW w \in Workloads, ctl'[k].targets = ctl[k].targets \ {w}, ~Present(w)'
          PROVE  Matching(asg.uid)' \subseteq ctl'[k].targets
      <4>1. Matching(asg.uid) \subseteq ctl[k].targets
        BY <2>2, <3>7 DEF FinalizeInv
      <4>2. w \notin Matching(asg.uid)'
        BY <3>7 DEF Matching
      <4> QED
        BY <3>3, <3>7, <4>1, <4>2
    <3>8. CASE WorkloadsDeleted(k) /\ ctl'[k].pc = "finalPods"
      BY <2>2, <3>3, <3>8 DEF WorkloadsDeleted, FinalizeInv, In
    <3>9. CASE /\ In(k, "finalPods") /\ ReadOnly /\ ctl'[k].pc = "release"
               /\ \A p \in Pods : ~PodOf(p, ctl[k].snap.uid)
      BY <2>2, <3>1, <3>3, <3>4, <3>9 DEF FinalizeInv, In
    <3> QED
      <4>1. NoPass.pc = "idle"
        BY DEF NoPass
      <4>2. PassMove(k)
        BY <1>0, <2>0, PassMoves
      <4>3. ASSUME In(k, "deleteWorkloads"), ctl'[k].pc = "deleteWorkloads",
                   \E w \in Workloads : ctl'[k].targets = ctl[k].targets \ {w} /\ ~Present(w)'
            PROVE  Matching(asg.uid)' \subseteq ctl'[k].targets
        BY <3>7, <4>3
      <4> QED
        BY <2>2, <3>5, <3>6, <3>8, <3>9, <4>1, <4>2, <4>3 DEF PassMove, In
  <2> QED
    BY <2>0, <2>1, <2>2 DEF In
<1> QED
  BY <1>1, <1>2 DEF FinalizeInv

\* What holds besides while one request runs at a time and no create is late.
SequentialInv == IdentityInv /\ AwaitedInv /\ FinalizeInv

\* The inductive invariant of the finalizer.
LEMMA SequentialInductive ==
    ASSUME Sequential, "lateCreate" \notin Faults PROVE Spec => []SequentialInv
<1>1. Init => SequentialInv
  <2> SUFFICES ASSUME Init PROVE SequentialInv
    OBVIOUS
  <2>1. AwaitedInv /\ FinalizeInv
    BY DEF Init, AwaitedInv, FinalizeInv, Creating, Idle, NoPass, Finalizing
  <2> QED
    BY <2>1, IdentityInit DEF SequentialInv
<1>2. SequentialInv /\ [Next]_vars => SequentialInv'
  BY IdentityStep, AwaitedStep, FinalizeStep DEF SequentialInv
<1> QED
  BY <1>1, <1>2, PTL DEF Spec

\* The controller lets an incarnation go only when none of its BatchSandboxes
\* and Pods is left, for any number of controllers, crashes of passes and
\* requests, lagging caches, failing checks and expiries, provided that one
\* request runs at a time and no create is applied after the facade gave up on
\* it (controller.go finalize).
THEOREM FinalizerOutlives ==
    ASSUME Sequential, "lateCreate" \notin Faults
    PROVE  Spec => FinalizerOutlivesWorkload
<1> DEFINE Outlives ==
      asg.finalizer /\ asg'.uid # asg.uid =>
          /\ Matching(asg.uid) = {}
          /\ \A p \in Pods : ~PodOf(p, asg.uid)
<1>1. ASSUME SequentialInv, [Next]_vars PROVE Outlives
  <2> SUFFICES ASSUME asg.finalizer, asg'.uid # asg.uid PROVE Outlives
    OBVIOUS
  <2>0. /\ IdentityInv /\ LifecycleInv /\ TypeOK /\ asg \in Assignments
        /\ EmptyInv /\ FinalizeInv
    BY <1>1 DEF SequentialInv, IdentityInv, LifecycleInv, TypeInv, TypeOK
  <2>1. Exists
    BY <2>0, EmptyFields DEF EmptyInv, Exists
  <2>2. asg' # Deleted(asg)
    <3>1. [asg EXCEPT !.deleting = TRUE].uid = asg.uid
      BY <2>0 DEF Assignments
    <3> QED
      BY <3>1 DEF Deleted
  <2>3. ASSUME NEW c \in Clients, SetSandboxID(c), asg' = [asg EXCEPT !.sandbox = cl[c].w]
        PROVE  FALSE
    <3>1. cl[c].w \in Workloads
      BY <2>0, <2>3 DEF SetSandboxID, At, LifecycleInv, TypeInv, RequestInv
    <3> QED
      BY <2>0, <2>3, <3>1, WriteFields
  <2>4. ASSUME NEW b \in BOOLEAN, NEW p \in Pods \cup {None},
               asg' = [asg EXCEPT !.paused = b, !.fence = p]
        PROVE  FALSE
    BY <2>0, <2>4, WriteFields
  <2>5. ASSUME NEW k \in fresh, WritePlan(k), asg' = ctl[k].next PROVE FALSE
    BY <2>0, <2>5 DEF WritePlan, In, LifecycleInv, TypeOK, SnapInv, PassInv, Sound, Keeps
  <2>6. PICK k \in fresh : RemoveFinalizer(k)
    BY <1>1, <2>0, <2>1, <2>2, <2>3, <2>4, <2>5, AsgMoves DEF AsgMove
  <2> QED
    BY <2>0, <2>6 DEF RemoveFinalizer, In, FinalizeInv
<1>2. SequentialInv /\ [Next]_vars => [Outlives]_vars
  BY <1>1
<1> QED
  BY <1>2, SequentialInductive, PTL DEF Spec, FinalizerOutlivesWorkload

-----------------------------------------------------------------------------
(* A retired Pod never carries Ready again, while one request runs at a    *)
(* time, the lookup is current, the checks of a pass do not fail and the   *)
(* controller answers a pause in time.                                     *)

\* None of the faults that make a request or a pass lose the bound Pod.
NoLostPod == Faults \subseteq {"requestCrash", "passCrash", "ageing", "lateCreate"}

\* The Pod may still run for incarnation u.
Held(p, u) ==
    IsLive(p) /\ Present(pods[p].owner) /\ workloads[pods[p].owner].uid = u

\* A version of the object that keeps Ready away from a retired Pod that may
\* still run: it names the Pod, and either the pause or the fence is in place.
Fenced(o) ==
    \A p \in retired : Held(p, o.uid) => o.podRef = p /\ (o.paused \/ o.fence = p)

\* What a pause and a resume rely on at the steps that use it.
FencingInv ==
    \A c \in Clients :
        /\ cl[c].pc \in {"waitReady", "pauseUpstream"} =>
              /\ cl[c].pod # None => pods[cl[c].pod].phase # "none"
              /\ Exists => /\ asg.paused
                           /\ cl[c].pod # None => asg.podRef = cl[c].pod
                           /\ cl[c].pc = "pauseUpstream" => ~asg.ready
        /\ cl[c].pc = "rollback" => ~Exists
        /\ cl[c].pc = "resumeFence" =>
              \A p \in retired : Held(p, asg.uid) => cl[c].pod = p

\* What a pass that may still write has established.
PlanInv ==
    \A k \in fresh :
        /\ ctl[k].pc = "write" =>
              /\ Fenced(ctl[k].next)
              /\ ctl[k].next.ready => ctl[k].next.podRef \notin retired
              /\ ctl[k].snap.paused => ctl[k].next.podRef = ctl[k].snap.podRef
        /\ ctl[k].pc = "pods" =>
              \A p \in retired :
                  IsLive(p) /\ pods[p].owner = ctl[k].w => ctl[k].snap.fence = p

RetiredInv ==
    /\ \A p \in retired : pods[p].phase # "none"
    /\ Fenced(asg) /\ RetiredPodNeverReady
    /\ FencingInv /\ PlanInv

\* A Pod that runs for an incarnation did so before the step, unless it has
\* just started.
LEMMA HeldMoves ==
    ASSUME TypeOK, OwnerInv, [Next]_vars, NEW p \in Pods, NEW u,
           pods[p].phase # "none", Held(p, u)'
    PROVE  Held(p, u)
<1>1. IsLive(p) /\ pods'[p].owner = pods[p].owner
  <2>1. CASE PodsAge
    BY <2>1 DEF PodsAge, Held
  <2>2. ASSUME NEW w \in Workloads, NEW x \in Pods, StartPod(w, x)
        PROVE  IsLive(p) /\ pods'[p].owner = pods[p].owner
    BY <2>2 DEF StartPod, TypeOK, Held, IsLive
  <2> QED
    BY <2>1, <2>2, PodMoves
<1>2. pods[p].owner \in Workloads /\ Created(pods[p].owner)
  BY DEF OwnerInv, Created
<1>3. CASE WorkloadsAge
  BY <1>1, <1>2, <1>3 DEF WorkloadsAge, Held
<1>4. ASSUME NEW x \in Uids, NEW w \in Workloads, ApplyCreate(x, w) PROVE Held(p, u)
  <2>1. workloads'[pods[p].owner] = workloads[pods[p].owner]
    BY <1>2, <1>4 DEF ApplyCreate, Created, TypeOK
  <2> QED
    BY <1>1, <2>1 DEF Held, Present
<1> QED
  BY <1>3, <1>4, WorkloadMoves

\* A Pod runs only for a UID that was given out.
LEMMA HeldUid ==
    ASSUME TypeOK, OwnerInv, CreateInv, NEW p \in Pods, NEW u, Held(p, u)
    PROVE  /\ u \in 1..lastUid /\ pods[p].owner \in Workloads
           /\ Created(pods[p].owner) /\ pods[p].owner \in Matching(u)
<1>1. pods[p].owner \in Workloads /\ Created(pods[p].owner)
  BY DEF Held, IsLive, OwnerInv, Created
<1> QED
  BY <1>1 DEF Held, CreateInv, Matching

\* Only a pause accepted upstream retires a Pod.
LEMMA RetiredMoves ==
    ASSUME TypeOK, [Next]_vars
    PROVE  \/ retired' = retired
           \/ \E c \in Clients :
                 /\ At(c, "pauseUpstream") /\ cl[c].pod \in Pods
                 /\ retired' = retired \cup {cl[c].pod}
                 /\ cl'[c].pc = "idle" /\ UNCHANGED <<asg, pods, ctl, fresh>>
<1>1. ASSUME NEW c \in Clients, Facade(c), ~PauseUpstream(c) PROVE retired' = retired
  BY <1>1 DEF Facade, CreateNew, DeleteAssignment, SetSandboxID, PauseFence,
     PauseRollback, ResumeFence, ResumeRollback, CreateExisting, ExpireGet,
     PostCreate, CreateLost, CreateRejected, PauseObserved, PauseGaveUp,
     RequestAborted, CreateAnswered, PauseLookup, ResumeLookup, DeleteLookup,
     ResumeUpstream, upstream
<1>2. ASSUME NEW c \in Clients, PauseUpstream(c)
      PROVE  \/ retired' = retired
             \/ /\ At(c, "pauseUpstream") /\ cl[c].pod \in Pods
                /\ retired' = retired \cup {cl[c].pod}
                /\ cl'[c].pc = "idle" /\ UNCHANGED <<asg, pods, ctl, fresh>>
  <2>1. cl[c].pod \in Pods \cup {None}
    BY DEF TypeOK, Requests
  <2>2. cl'[c].pc = "idle"
    BY <1>2 DEF PauseUpstream, Finish, Idle, TypeOK
  <2> QED
    BY <1>2, <2>1, <2>2 DEF PauseUpstream, passes
<1>3. ASSUME NEW k \in Controllers, Pass(k) \/ PassAborted(k) PROVE retired' = retired
  BY <1>3 DEF Pass, PassAborted, ListAssignments, AddFinalizer, BoundaryRejected,
     ReportPaused, MatchWorkloads, MatchPods, FinalizeTargets, WorkloadsDeleted,
     FinalizePods, WritePlan, RemoveFinalizer, Store, DeleteWorkload, ReadOnly,
     upstream
<1>4. ASSUME Platform \/ SyncCache \/ Age \/ UNCHANGED vars PROVE retired' = retired
  BY <1>4 DEF Platform, ExpireWorkload, WorkloadGone, ApplyCreate, StartPod,
     PodBecomesReady, TerminatePod, PodGone, SyncCache, Age, vars, upstream
<1> QED
  BY <1>1, <1>2, <1>3, <1>4 DEF Next

\* The labels at which FencingInv speaks of a request.
FencingLabels == {"waitReady", "pauseUpstream", "rollback", "resumeFence"}

\* How a request comes to those labels.
LEMMA FencingMoves ==
    ASSUME TypeOK, [Next]_vars, NEW c \in Clients, cl'[c].pc \in FencingLabels
    PROVE  \/ cl'[c] = cl[c]
           \/ /\ PauseFence(c) /\ Exists /\ cl'[c].pc = "waitReady"
              /\ cl'[c].pod = IF asg.ready THEN asg.podRef ELSE None
           \/ /\ PauseObserved(c) /\ cl'[c].pc = "pauseUpstream"
              /\ cl'[c].pod = cl[c].pod
           \/ PauseGaveUp(c) /\ cl'[c].pc = "rollback"
           \/ \E w \in Workloads : \E refs \in GetBySandboxID(w) :
                 /\ ResumeLookup(c, w) /\ cl'[c].pc = "resumeFence"
                 /\ cl'[c].pod = refs.podRef
<1> USE DEF TypeOK, Requests
<1>1. ASSUME NEW d \in Clients, Facade(d), d # c PROVE cl'[c] = cl[c]
  BY <1>1 DEF Facade, CreateNew, DeleteAssignment, SetSandboxID, PauseFence,
     PauseRollback, ResumeFence, ResumeRollback, CreateExisting, ExpireGet,
     PostCreate, CreateLost, CreateRejected, PauseObserved, PauseGaveUp,
     RequestAborted, CreateAnswered, PauseLookup, ResumeLookup, DeleteLookup,
     PauseUpstream, ResumeUpstream, Goto, Finish, Begin
<1>2. CASE CreateNew(c)
  BY <1>2 DEF CreateNew, Begin, Idle, FencingLabels
<1>3. CASE CreateExisting(c)
  BY <1>3 DEF CreateExisting, Begin, Idle, FencingLabels
<1>4. CASE ExpireGet(c) \/ CreateLost(c) \/ CreateRejected(c) \/ SetSandboxID(c)
           \/ DeleteAssignment(c) \/ RequestAborted(c) \/ PostCreate(c)
           \/ PauseRollback(c) \/ ResumeFence(c) \/ ResumeRollback(c)
           \/ PauseUpstream(c) \/ ResumeUpstream(c)
  <2>1. \/ Finish(c)
        \/ \E pc \in {"expireDelete", "compensate", "await", "resumeUpstream", "refence"} :
              Goto(c, pc)
    BY <1>4 DEF ExpireGet, CreateLost, CreateRejected, SetSandboxID, DeleteAssignment,
       RequestAborted, PostCreate, PauseRollback, ResumeFence, ResumeRollback,
       PauseUpstream, ResumeUpstream
  <2> QED
    BY <2>1 DEF Goto, Finish, Idle, FencingLabels
<1>5. CASE PauseFence(c)
  <2>1. CASE Exists
    BY <1>5, <2>1 DEF PauseFence
  <2>2. CASE ~Exists
    BY <1>5, <2>2 DEF PauseFence, Idle, FencingLabels
  <2> QED
    BY <2>1, <2>2
<1>6. CASE PauseObserved(c)
  BY <1>6 DEF PauseObserved, Goto
<1>7. CASE PauseGaveUp(c)
  BY <1>7 DEF PauseGaveUp, Goto
<1>8. ASSUME NEW w \in Workloads, PauseLookup(c, w) \/ DeleteLookup(c, w) PROVE FALSE
  <2>1. \E pc \in {"fence", "delete"} : Begin(c, [Idle EXCEPT !.pc = pc, !.w = w])
    BY <1>8 DEF PauseLookup, DeleteLookup
  <2> QED
    BY <2>1 DEF Begin, Idle, FencingLabels
<1>9. ASSUME NEW w \in Workloads, CreateAnswered(c, w) PROVE FALSE
  BY <1>9 DEF CreateAnswered, FencingLabels
<1>10. ASSUME NEW w \in Workloads, ResumeLookup(c, w)
       PROVE  \E refs \in GetBySandboxID(w) :
                 cl'[c].pc = "resumeFence" /\ cl'[c].pod = refs.podRef
  <2>1. PICK refs \in GetBySandboxID(w) :
           Begin(c, [Idle EXCEPT !.pc = "resumeFence", !.w = w, !.pod = refs.podRef])
    BY <1>10 DEF ResumeLookup
  <2>2. cl'[c].pc = "resumeFence" /\ cl'[c].pod = refs.podRef
    BY <2>1 DEF Begin, Idle
  <2> QED
    BY <2>2
<1>11. ASSUME NEW k \in Controllers, Pass(k) \/ PassAborted(k) PROVE cl' = cl
  BY <1>11 DEF Pass, PassAborted, ListAssignments, AddFinalizer, BoundaryRejected,
     ReportPaused, MatchWorkloads, MatchPods, FinalizeTargets, WorkloadsDeleted,
     FinalizePods, WritePlan, RemoveFinalizer, Store, DeleteWorkload, ReadOnly, facade
<1>12. ASSUME Platform \/ SyncCache \/ Age \/ UNCHANGED vars PROVE cl' = cl
  BY <1>12 DEF Platform, SyncCache, Age, ExpireWorkload, WorkloadGone, ApplyCreate,
     StartPod, PodBecomesReady, TerminatePod, PodGone, vars, local
<1>13. ASSUME Facade(c)
       PROVE  \/ cl'[c] = cl[c]
              \/ /\ PauseFence(c) /\ Exists /\ cl'[c].pc = "waitReady"
                 /\ cl'[c].pod = IF asg.ready THEN asg.podRef ELSE None
              \/ /\ PauseObserved(c) /\ cl'[c].pc = "pauseUpstream"
                 /\ cl'[c].pod = cl[c].pod
              \/ PauseGaveUp(c) /\ cl'[c].pc = "rollback"
              \/ \E w \in Workloads : \E refs \in GetBySandboxID(w) :
                    /\ ResumeLookup(c, w) /\ cl'[c].pc = "resumeFence"
                    /\ cl'[c].pod = refs.podRef
  BY <1>2, <1>3, <1>4, <1>5, <1>6, <1>7, <1>8, <1>9, <1>10, <1>13 DEF Facade
<1> QED
  BY <1>1, <1>11, <1>12, <1>13 DEF Next

\* While a request is at those labels, only the controller writes the object.
LEMMA FencingWrites ==
    ASSUME Sequential, TypeOK, FencingInv, [Next]_vars, NEW c \in Clients,
           cl'[c] = cl[c], cl[c].pc \in FencingLabels
    PROVE  \/ asg' = asg
           \/ \E k \in fresh : WritePlan(k) /\ asg' = ctl[k].next
           \/ \E k \in fresh : RemoveFinalizer(k) /\ asg' = NoAsg
<1>1. ASSUME NEW d \in Clients
      PROVE  ~CreateNew(d) /\ ~DeleteAssignment(d) /\ ~SetSandboxID(d) /\ ~PauseFence(d)
             /\ ~ResumeRollback(d)
  <2>1. d = c
    BY DEF Sequential
  <2> QED
    BY <2>1 DEF FencingLabels, At, CreateNew, Begin, DeleteAssignment, SetSandboxID,
       PauseFence, ResumeRollback
<1>2. ASSUME NEW d \in Clients, ResumeFence(d) PROVE FALSE
  <2>1. d = c
    BY DEF Sequential
  <2>2. cl'[c].pc \in {"resumeUpstream", "idle"} /\ cl[c].pc = "resumeFence"
    BY <1>2, <2>1 DEF ResumeFence, Goto, Finish, At, Idle, TypeOK, Requests
  <2> QED
    BY <2>2
<1>3. ASSUME NEW d \in Clients, PauseRollback(d) PROVE ~Exists
  BY <1>3 DEF PauseRollback, At, FencingInv
<1> QED
  BY <1>1, <1>2, <1>3, AsgMoves DEF AsgMove

\* The index is current without cacheLag: a lookup finds the stored references.
LEMMA LookupCurrent ==
    ASSUME NoLostPod, NEW w \in Workloads, NEW refs \in GetBySandboxID(w)
    PROVE  refs.podRef = asg.podRef
<1>1. ~Lagging
  BY DEF NoLostPod, Lagging
<1> QED
  BY <1>1 DEF GetBySandboxID, References

\* Every step keeps what a pause and a resume rely on.
LEMMA FencingStep ==
    ASSUME Sequential, NoLostPod, IdentityInv, RetiredInv, [Next]_vars
    PROVE  FencingInv'
<1>0. /\ LifecycleInv /\ TypeInv /\ TypeOK /\ SnapInv /\ PassInv /\ OwnerInv /\ CreateInv
      /\ EmptyInv /\ OwnStatusInv /\ FencingInv /\ PlanInv /\ Fenced(asg)
      /\ asg \in Assignments /\ cl \in [Clients -> Requests] /\ CreateInv'
  BY IdentityStep DEF IdentityInv, LifecycleInv, TypeInv, TypeOK, RetiredInv
<1>1. ASSUME NEW p \in Pods, pods[p].phase # "none" PROVE pods'[p].phase # "none"
  BY <1>0, <1>1, StableStep DEF PodsStable
<1>2. ASSUME NEW k \in fresh, WritePlan(k), asg' = ctl[k].next
      PROVE  /\ asg'.uid = asg.uid /\ Exists
             /\ (asg'.paused <=> asg.paused)
             /\ asg'.ready => ~asg.paused \/ asg.ready
             /\ asg.paused => asg'.podRef = asg.podRef
  <2>1. ctl[k].pc = "write" /\ ctl[k].snap = asg /\ Keeps(ctl[k].next, asg, pods, workloads)
    BY <1>0, <1>2 DEF WritePlan, In, TypeOK, SnapInv, PassInv, Sound
  <2> QED
    BY <1>0, <1>2, <2>1 DEF Keeps, Bindable, PlanInv, EmptyInv, Exists
<1>3. ASSUME NEW c \in Clients, cl'[c].pc \in {"waitReady", "pauseUpstream"}
      PROVE  /\ cl'[c].pod # None => pods'[cl'[c].pod].phase # "none"
             /\ Exists' => /\ asg'.paused
                           /\ cl'[c].pod # None => asg'.podRef = cl'[c].pod
                           /\ cl'[c].pc = "pauseUpstream" => ~asg'.ready
  <2>0. cl[c] \in Requests /\ cl[c].pod \in Pods \cup {None}
        /\ asg.podRef \in Pods \cup {None}
    BY <1>0 DEF Requests, Assignments
  <2>1. CASE cl'[c] = cl[c]
    <3>1. \/ asg' = asg
          \/ \E k \in fresh : WritePlan(k) /\ asg' = ctl[k].next
          \/ \E k \in fresh : RemoveFinalizer(k) /\ asg' = NoAsg
      BY <1>0, <1>3, <2>1, FencingWrites DEF FencingLabels
    <3>2. cl'[c].pod # None => pods'[cl'[c].pod].phase # "none"
      BY <1>0, <1>1, <1>3, <2>0, <2>1 DEF FencingInv
    <3>3. CASE asg' = asg
      BY <1>0, <1>3, <2>1, <3>2, <3>3 DEF FencingInv, Exists
    <3>4. ASSUME NEW k \in fresh, WritePlan(k), asg' = ctl[k].next
          PROVE  /\ asg'.paused
                 /\ cl'[c].pod # None => asg'.podRef = cl'[c].pod
                 /\ cl'[c].pc = "pauseUpstream" => ~asg'.ready
      BY <1>0, <1>2, <1>3, <2>1, <3>4 DEF FencingInv
    <3>5. asg' = NoAsg => ~Exists'
      BY EmptyFields DEF Exists
    <3> QED
      BY <3>1, <3>2, <3>3, <3>4, <3>5
  <2>2. CASE PauseFence(c) /\ Exists /\ cl'[c].pc = "waitReady"
             /\ cl'[c].pod = IF asg.ready THEN asg.podRef ELSE None
    <3>1. asg' = [asg EXCEPT !.paused = TRUE, !.fence = None]
      BY <2>2 DEF PauseFence, SetLifecycleFence, Put
    <3>2. asg'.paused /\ asg'.podRef = asg.podRef
      BY <1>0, <3>1 DEF Assignments
    <3>3. asg.podRef # None => pods'[asg.podRef].phase # "none"
      BY <1>0, <1>1, <2>0 DEF OwnStatusInv, Own
    <3> QED
      BY <2>2, <3>2, <3>3
  <2>3. CASE PauseObserved(c) /\ cl'[c].pc = "pauseUpstream" /\ cl'[c].pod = cl[c].pod
    <3>1. cl[c].pc = "waitReady" /\ asg' = asg /\ ~asg.ready
      BY <2>3 DEF PauseObserved, At
    <3> QED
      BY <1>0, <1>1, <2>0, <2>3, <3>1 DEF FencingInv, Exists
  <2> QED
    BY <1>0, <1>3, <2>1, <2>2, <2>3, FencingMoves DEF FencingLabels
<1>4. ASSUME NEW c \in Clients, cl'[c].pc = "rollback" PROVE ~Exists'
  <2>1. CASE cl'[c] = cl[c]
    <3>1. fresh = {} /\ ~Exists
      BY <1>0, <1>4, <2>1 DEF FencingInv, EmptyInv, Exists
    <3>2. asg' = asg
      BY <1>0, <1>4, <2>1, <3>1, FencingWrites DEF FencingLabels
    <3> QED
      BY <3>1, <3>2 DEF Exists
  <2>2. CASE PauseGaveUp(c)
    BY <2>2 DEF PauseGaveUp, NoLostPod, Exists
  <2> QED
    BY <1>0, <1>4, <2>1, <2>2, FencingMoves DEF FencingLabels
<1>5. ASSUME NEW c \in Clients, cl'[c].pc = "resumeFence", NEW p \in retired',
             NEW u, u = asg'.uid, Held(p, u)'
      PROVE  cl'[c].pod = p
  <2>1. p \in retired /\ p \in Pods /\ pods[p].phase # "none"
    <3>1. retired' = retired
      BY <1>0, <1>5, RetiredMoves DEF Sequential
    <3> QED
      BY <1>0, <1>5, <3>1 DEF RetiredInv, TypeOK
  <2>2. Held(p, u) /\ u # 0
    <3>1. Held(p, u)
      BY <1>0, <1>5, <2>1, HeldMoves
    <3>2. u \in 1..lastUid
      BY <1>0, <2>1, <3>1, HeldUid
    <3> QED
      BY <3>1, <3>2, <1>0, ConstantsOK DEF TypeOK, Uids
  <2>3. CASE cl'[c] = cl[c]
    <3>1. \/ asg' = asg
          \/ \E k \in fresh : WritePlan(k) /\ asg' = ctl[k].next
          \/ \E k \in fresh : RemoveFinalizer(k) /\ asg' = NoAsg
      BY <1>0, <1>5, <2>3, FencingWrites DEF FencingLabels
    <3>2. u = asg.uid
      BY <1>2, <1>5, <2>2, <3>1, EmptyFields
    <3> QED
      BY <1>0, <1>5, <2>1, <2>2, <2>3, <3>2 DEF FencingInv
  <2>4. ASSUME NEW w \in Workloads, NEW refs \in GetBySandboxID(w), ResumeLookup(c, w),
               cl'[c].pod = refs.podRef
        PROVE  cl'[c].pod = p
    <3>1. asg' = asg /\ refs.podRef = asg.podRef
      BY <2>4, LookupCurrent DEF ResumeLookup
    <3> QED
      BY <1>0, <1>5, <2>1, <2>2, <2>4, <3>1 DEF Fenced
  <2> QED
    BY <1>0, <1>5, <2>3, <2>4, FencingMoves DEF FencingLabels
<1>6. ASSUME NEW c \in Clients, cl'[c].pc = "resumeFence"
      PROVE  \A p \in retired' : Held(p, asg.uid)' => cl'[c].pod = p
  BY <1>5, <1>6 DEF Held
<1> QED
  BY <1>3, <1>4, <1>6 DEF FencingInv

\* The Pod that a pause retires is the one that the paused object names.
LEMMA RetiringPod ==
    ASSUME IdentityInv, RetiredInv, NEW c \in Clients, At(c, "pauseUpstream"),
           cl[c].pod \in Pods
    PROVE  /\ ~asg.ready /\ pods[cl[c].pod].phase # "none"
           /\ Exists => asg.paused /\ asg.podRef = cl[c].pod
<1>1. cl[c].pod # None
  BY ConstantsOK
<1>2. ~Exists => ~asg.ready
  BY EmptyFields DEF IdentityInv, EmptyInv, Exists
<1> QED
  BY <1>1, <1>2 DEF RetiredInv, FencingInv, At

\* Every step keeps the object fenced against the retired Pods.
LEMMA FencedStep ==
    ASSUME Sequential, NoLostPod, IdentityInv, RetiredInv, [Next]_vars
    PROVE  Fenced(asg)'
<1>0. /\ LifecycleInv /\ TypeInv /\ TypeOK /\ OwnerInv /\ CreateInv /\ FencingInv /\ PlanInv
      /\ asg \in Assignments /\ lastUid \in Nat /\ Fenced(asg)
  BY ConstantsOK DEF IdentityInv, LifecycleInv, TypeInv, TypeOK, RetiredInv, Uids
<1>1. ASSUME NEW p \in retired', NEW u, u = asg'.uid, Held(p, u)'
      PROVE  asg'.podRef = p /\ (asg'.paused \/ asg'.fence = p)
  <2>1. CASE p \notin retired
    <3>1. PICK c \in Clients :
             /\ At(c, "pauseUpstream") /\ cl[c].pod \in Pods /\ p = cl[c].pod
             /\ asg' = asg /\ pods' = pods
      BY <1>0, <1>1, <2>1, RetiredMoves
    <3>2. pods[p].phase # "none"
      BY <3>1, RetiringPod
    <3>3. Held(p, u)
      BY <1>0, <1>1, <3>1, <3>2, HeldMoves
    <3>4. u # 0
      BY <1>0, <3>1, <3>3, HeldUid
    <3> QED
      BY <1>1, <3>1, <3>4, RetiringPod DEF Exists
  <2>2. CASE p \in retired
    <3>0. p \in Pods /\ Held(p, u) /\ u \in 1..lastUid
      <4>1. p \in Pods /\ pods[p].phase # "none"
        BY <1>0, <2>2 DEF RetiredInv, TypeOK
      <4>2. Held(p, u)
        BY <1>0, <1>1, <4>1, HeldMoves
      <4> QED
        BY <1>0, <4>1, <4>2, HeldUid
    <3>1. u = asg.uid => asg.podRef = p /\ (asg.paused \/ asg.fence = p)
      BY <1>0, <2>2, <3>0 DEF Fenced
    <3>2. CASE asg' = asg
      BY <1>1, <3>1, <3>2
    <3>3. asg' # NoAsg /\ asg' # [NoAsg EXCEPT !.uid = lastUid + 1]
      <4>1. NoAsg.uid = 0 /\ [NoAsg EXCEPT !.uid = lastUid + 1].uid = lastUid + 1
        BY DEF NoAsg
      <4>2. u # 0 /\ u # lastUid + 1
        BY <1>0, <3>0
      <4> QED
        BY <1>1, <4>1, <4>2
    <3>4. CASE asg' = Deleted(asg)
      <4>1. asg' = [asg EXCEPT !.deleting = TRUE]
        BY <3>3, <3>4 DEF Deleted
      <4>2. /\ asg'.uid = asg.uid /\ asg'.podRef = asg.podRef
            /\ asg'.fence = asg.fence /\ (asg'.paused <=> asg.paused)
        BY <1>0, <4>1 DEF Assignments
      <4> QED
        BY <1>1, <3>1, <4>2
    <3>5. ASSUME NEW w, asg' = [asg EXCEPT !.sandbox = w]
          PROVE  asg'.podRef = p /\ (asg'.paused \/ asg'.fence = p)
      <4>1. /\ asg'.uid = asg.uid /\ asg'.podRef = asg.podRef
            /\ asg'.fence = asg.fence /\ (asg'.paused <=> asg.paused)
        BY <1>0, <3>5 DEF Assignments
      <4> QED
        BY <1>1, <3>1, <4>1
    <3>6. ASSUME NEW c \in Clients, NEW b \in BOOLEAN, NEW x \in Pods \cup {None},
                 \/ PauseFence(c) /\ b = TRUE
                 \/ PauseRollback(c)
                 \/ ResumeFence(c) /\ x = cl[c].pod
                 \/ ResumeRollback(c) /\ b = TRUE,
                 Exists, asg' = [asg EXCEPT !.paused = b, !.fence = x]
          PROVE  asg'.podRef = p /\ (asg'.paused \/ asg'.fence = p)
      <4>1. /\ asg'.uid = asg.uid /\ asg'.podRef = asg.podRef
            /\ asg'.fence = x /\ (asg'.paused <=> b)
        BY <1>0, <3>6 DEF Assignments
      <4>2. ~PauseRollback(c)
        BY <1>0, <3>6 DEF PauseRollback, At, FencingInv
      <4>3. ASSUME ResumeFence(c) PROVE cl[c].pod = p
        BY <1>0, <1>1, <2>2, <3>0, <4>1, <4>3 DEF ResumeFence, At, FencingInv
      <4> QED
        BY <1>1, <3>1, <3>6, <4>1, <4>2, <4>3
    <3>7. ASSUME NEW k \in fresh, WritePlan(k), asg' = ctl[k].next
          PROVE  asg'.podRef = p /\ (asg'.paused \/ asg'.fence = p)
      BY <1>0, <1>1, <2>2, <3>0, <3>7 DEF WritePlan, In, PlanInv, Fenced
    <3> QED
      BY <1>0, <3>2, <3>3, <3>4, <3>5, <3>6, <3>7, AsgMoves DEF AsgMove
  <2> QED
    BY <2>1, <2>2
<1> QED
  BY <1>1 DEF Fenced, Held

\* Every step keeps Ready away from the retired Pods.
LEMMA RetiredReadyStep ==
    ASSUME IdentityInv, RetiredInv, [Next]_vars
    PROVE  RetiredPodNeverReady' /\ \A p \in retired' : pods'[p].phase # "none"
<1>0. /\ TypeInv /\ TypeOK /\ PlanInv /\ asg \in Assignments /\ RetiredPodNeverReady
  BY DEF IdentityInv, LifecycleInv, TypeInv, TypeOK, RetiredInv
<1>1. ASSUME NEW p \in retired' PROVE pods'[p].phase # "none"
  <2>1. p \in Pods /\ pods[p].phase # "none"
    BY <1>0, <1>1, RetiredMoves, RetiringPod DEF RetiredInv, TypeOK
  <2> QED
    BY <1>0, <2>1, StableStep DEF PodsStable
<1>2. CASE retired' # retired
  <2>1. asg' = asg /\ ~asg.ready
    BY <1>0, <1>2, RetiredMoves, RetiringPod
  <2> QED
    BY <1>1, <2>1 DEF RetiredPodNeverReady
<1>3. CASE retired' = retired
  <2>1. ASSUME asg'.podRef = asg.podRef, asg'.ready <=> asg.ready
        PROVE  RetiredPodNeverReady'
    BY <1>0, <1>3, <2>1 DEF RetiredPodNeverReady
  <2>2. CASE asg' = asg
    BY <1>1, <2>1, <2>2
  <2>3. CASE asg' = NoAsg \/ asg' = [NoAsg EXCEPT !.uid = lastUid + 1]
    BY <1>1, <2>3, EmptyFields DEF RetiredPodNeverReady
  <2>4. ASSUME NEW w, NEW b, NEW x,
               \/ asg' = [asg EXCEPT !.deleting = TRUE]
               \/ asg' = [asg EXCEPT !.sandbox = w]
               \/ asg' = [asg EXCEPT !.paused = b, !.fence = x]
        PROVE  asg'.podRef = asg.podRef /\ (asg'.ready <=> asg.ready)
    BY <1>0, <2>4 DEF Assignments
  <2>5. ASSUME NEW k \in fresh, WritePlan(k), asg' = ctl[k].next
        PROVE  RetiredPodNeverReady'
    BY <1>0, <1>3, <2>5 DEF WritePlan, In, PlanInv, RetiredPodNeverReady
  <2> QED
    BY <1>0, <1>1, <2>1, <2>2, <2>3, <2>4, <2>5, AsgMoves DEF AsgMove, Deleted
<1> QED
  BY <1>1, <1>2, <1>3

\* A planned write keeps Ready away from the retired Pods.
LEMMA PlannedFenced ==
    ASSUME NoLostPod, IdentityInv, RetiredInv, NEW k \in fresh, NEW n, Planned(k, n)
    PROVE  /\ Fenced(n)
           /\ n.ready => n.podRef \notin retired
           /\ asg.paused => n.podRef = asg.podRef
<1> DEFINE w == ctl[k].w
<1>0. /\ TypeOK /\ PassInv /\ OwnerInv /\ CreateInv /\ OneLive /\ PlanInv /\ k \in Controllers
      /\ asg \in Assignments /\ ctl[k].snap = asg /\ Fenced(asg) /\ RetiredPodNeverReady
      /\ w \in Workloads \cup {None} /\ retired \subseteq Pods
      /\ "boundaryError" \notin Faults
  BY PassType DEF IdentityInv, LifecycleInv, TypeInv, TypeOK, SnapInv, RetiredInv, NoLostPod
<1>2. CASE \/ n = [asg EXCEPT !.finalizer = TRUE]
           \/ asg.paused /\ n = [asg EXCEPT !.ready = FALSE]
           \/ \E x \in Workloads : n = [asg EXCEPT !.sandbox = x]
  <2>1. /\ n.uid = asg.uid /\ n.podRef = asg.podRef /\ n.fence = asg.fence
        /\ (n.paused <=> asg.paused) /\ (n.ready => asg.ready)
    BY <1>0, <1>2 DEF Assignments
  <2> QED
    BY <1>0, <2>1 DEF Fenced, RetiredPodNeverReady
<1>3. CASE /\ ~asg.paused /\ \A x \in Workloads : Matching(asg.uid) # {x}
           /\ n = Status(asg, None, None, FALSE)
  <2>1. n.uid = asg.uid /\ ~n.ready
    BY <1>0, <1>3 DEF Assignments, Status
  <2>2. ASSUME NEW p \in retired, Held(p, asg.uid) PROVE FALSE
    <3>1. /\ pods[p].owner \in Workloads /\ pods[p].owner \in Matching(asg.uid)
          /\ Created(pods[p].owner)
      BY <1>0, <2>2, HeldUid
    <3>2. Matching(asg.uid) = {pods[p].owner}
      BY <1>0, <3>1 DEF Matching, Present, Created, CreateInv
    <3> QED
      BY <1>3, <3>1, <3>2
  <2> QED
    BY <1>3, <2>1, <2>2 DEF Fenced
<1>4. ASSUME In(k, "pods")
      PROVE  /\ ~asg.paused /\ w \in Workloads /\ Created(w) /\ workloads[w].uid = asg.uid
  BY <1>0, <1>4 DEF In, PassInv, Sound, Looking, Created
<1>5. ASSUME In(k, "pods"), NEW p \in retired, Held(p, asg.uid)
      PROVE  Live(w) = {p} /\ asg.fence = p
  <2>1. pods[p].owner \in Workloads /\ Created(pods[p].owner) /\ p \in Pods
    BY <1>0, <1>5, HeldUid
  <2>2. pods[p].owner = w
    BY <1>0, <1>4, <1>5, <2>1 DEF CreateInv, Held
  <2>3. p \in Live(w)
    BY <1>5, <2>1, <2>2 DEF Held, IsLive, Live
  <2>4. Live(w) = {p}
    BY <1>0, <2>1, <2>2, <2>3 DEF Live, IsLive, OneLive
  <2> QED
    BY <1>0, <1>4, <1>5, <2>4 DEF Fenced
<1>6. CASE /\ In(k, "pods") /\ n = Status(asg, w, None, FALSE)
           /\ \A p \in Pods : Live(w) # {p}
  <2>1. n.uid = asg.uid /\ ~n.ready
    BY <1>0, <1>6 DEF Assignments, Status
  <2> QED
    BY <1>0, <1>4, <1>5, <1>6, <2>1 DEF Fenced
<1>7. ASSUME NEW p \in Pods, NEW b \in BOOLEAN, In(k, "pods"), Live(w) = {p},
             b => asg.fence # p, n = Status(asg, w, p, b)
      PROVE  Fenced(n) /\ (n.ready => n.podRef \notin retired) /\ ~asg.paused
  <2>1. /\ n.uid = asg.uid /\ n.podRef = p /\ n.fence = asg.fence /\ (n.ready <=> b)
    BY <1>0, <1>7 DEF Assignments, Status
  <2>2. Fenced(n)
    BY <1>5, <1>7, <2>1 DEF Fenced
  <2>3. p \in retired => asg.fence = p
    <3>1. IsLive(p) /\ pods[p].owner = w
      BY <1>7 DEF Live, IsLive
    <3> QED
      BY <1>0, <1>7, <3>1 DEF PlanInv, In
  <2> QED
    BY <1>4, <1>7, <2>1, <2>2, <2>3
<1> QED
  BY <1>0, <1>2, <1>3, <1>4, <1>6, <1>7 DEF Planned

\* Every step keeps what the passes have established.
LEMMA PlanStep ==
    ASSUME Sequential, NoLostPod, IdentityInv, RetiredInv, [Next]_vars
    PROVE  PlanInv'
<1>0. /\ LifecycleInv /\ TypeInv /\ TypeOK /\ SnapInv /\ PassInv /\ OwnerInv /\ CreateInv
      /\ EmptyInv /\ PlanInv /\ Fenced(asg) /\ retired \subseteq Pods
      /\ \A p \in retired : pods[p].phase # "none"
  BY DEF IdentityInv, LifecycleInv, TypeInv, TypeOK, RetiredInv
<1> SUFFICES ASSUME NEW k \in fresh'
             PROVE  /\ ctl'[k].pc = "write" =>
                         /\ Fenced(ctl[k].next)'
                         /\ ctl'[k].next.ready => ctl'[k].next.podRef \notin retired'
                         /\ ctl'[k].snap.paused => ctl'[k].next.podRef = ctl'[k].snap.podRef
                    /\ ctl'[k].pc = "pods" =>
                         \A p \in retired' :
                             IsLive(p)' /\ pods'[p].owner = ctl'[k].w => ctl'[k].snap.fence = p
  BY DEF PlanInv
<1>1. asg' = asg /\ (k \in fresh \/ ListAssignments(k)) /\ k \in Controllers
  BY <1>0, FreshMoves DEF TypeOK
<1>2. CASE ListAssignments(k)
  <2>1. ctl'[k].pc \in {"finalize", "reconcile"}
    BY <1>0, <1>1, <1>2 DEF ListAssignments, TypeOK, NoPass
  <2> QED
    BY <2>1
<1>3. CASE k \in fresh /\ ctl'[k] = ctl[k]
  <2>0. ctl[k].snap = asg /\ asg.uid # 0
    BY <1>0, <1>3 DEF SnapInv, EmptyInv
  <2>1. ASSUME NEW p \in retired' \ retired
        PROVE  asg.paused /\ asg.podRef = p /\ ~asg.ready
    BY <1>0, <2>0, <2>1, RetiredMoves, RetiringPod DEF Exists
  <2>2. CASE ctl[k].pc = "write"
    <3>1. Keeps(ctl[k].next, asg, pods, workloads)
      BY <1>0, <1>1, <2>0, <2>2 DEF PassInv, Sound
    <3>2. ASSUME NEW p \in retired', NEW u, u = ctl[k].next.uid, Held(p, u)'
          PROVE  ctl[k].next.podRef = p /\ (ctl[k].next.paused \/ ctl[k].next.fence = p)
      <4>1. CASE p \in retired
        <5>1. Held(p, u)
          BY <1>0, <3>2, <4>1, HeldMoves
        <5> QED
          BY <1>0, <1>3, <2>2, <3>2, <4>1, <5>1 DEF PlanInv, Fenced
      <4>2. CASE p \notin retired
        BY <1>0, <1>3, <2>0, <2>1, <2>2, <3>1, <3>2, <4>2 DEF PlanInv, Keeps
      <4> QED
        BY <4>1, <4>2
    <3>3. Fenced(ctl[k].next)'
      BY <1>3, <3>2 DEF Fenced, Held
    <3>4. ASSUME ctl[k].next.ready PROVE ctl[k].next.podRef \notin retired'
      <4>1. ctl[k].next.podRef \notin retired
        BY <1>0, <1>3, <2>2, <3>4 DEF PlanInv
      <4>2. ~asg.paused \/ asg.ready
        BY <3>1, <3>4 DEF Keeps, Bindable
      <4> QED
        BY <2>1, <4>1, <4>2
    <3> QED
      BY <1>0, <1>3, <2>2, <3>3, <3>4 DEF PlanInv
  <2>3. CASE ctl[k].pc = "pods"
    <3>1. ~asg.paused
      BY <1>0, <1>1, <2>0, <2>3 DEF PassInv, Sound, Looking
    <3>2. ASSUME NEW p \in retired', IsLive(p)', pods'[p].owner = ctl[k].w
          PROVE  ctl[k].snap.fence = p
      <4>1. p \in retired
        BY <2>1, <3>1, <3>2
      <4>2. p \in Pods /\ pods[p].phase # "none"
        BY <1>0, <4>1
      <4>3. IsLive(p) /\ pods'[p].owner = pods[p].owner
        <5>1. CASE PodsAge
          BY <3>2, <4>2, <5>1 DEF PodsAge
        <5>2. ASSUME NEW w \in Workloads, NEW x \in Pods, StartPod(w, x)
              PROVE  IsLive(p) /\ pods'[p].owner = pods[p].owner
          BY <1>0, <3>2, <4>2, <5>2 DEF StartPod, TypeOK, IsLive
        <5> QED
          BY <1>0, <5>1, <5>2, PodMoves
      <4> QED
        BY <1>0, <1>3, <2>3, <3>2, <4>1, <4>3 DEF PlanInv
    <3> QED
      BY <1>3, <2>3, <3>2
  <2> QED
    BY <1>3, <2>2, <2>3
<1>4. CASE k \in fresh /\ ctl'[k].snap = ctl[k].snap /\ ReadOnly /\ ctl'[k].pc = "write"
           /\ Planned(k, ctl'[k].next)
  <2>1. ctl[k].snap = asg
    BY <1>0, <1>4 DEF SnapInv
  <2>2. pods' = pods /\ workloads' = workloads /\ retired' = retired
    BY <1>4 DEF ReadOnly, upstream
  <2>3. ASSUME NEW n, n = ctl'[k].next
        PROVE  /\ Fenced(n) /\ (n.ready => n.podRef \notin retired)
               /\ (asg.paused => n.podRef = asg.podRef)
    BY <1>4, <2>3, PlannedFenced
  <2>4. Fenced(ctl[k].next)'
    BY <2>2, <2>3 DEF Fenced, Held, IsLive, Present
  <2> QED
    BY <1>4, <2>1, <2>2, <2>3, <2>4
<1>5. CASE k \in fresh /\ ctl'[k].snap = ctl[k].snap /\ MatchWorkloads(k) /\ ReadOnly
           /\ ctl'[k].pc = "pods" /\ Matching(ctl[k].snap.uid) = {ctl'[k].w}
  <2>1. ctl[k].snap = asg /\ ~asg.paused
    BY <1>0, <1>5 DEF SnapInv, MatchWorkloads
  <2>2. pods' = pods /\ workloads' = workloads /\ retired' = retired
    BY <1>5 DEF ReadOnly, upstream
  <2>3. ASSUME NEW p \in retired, IsLive(p), pods[p].owner = ctl'[k].w PROVE asg.fence = p
    <3>1. Held(p, asg.uid)
      BY <1>5, <2>1, <2>3 DEF Held, Matching
    <3> QED
      BY <1>0, <2>1, <2>3, <3>1 DEF Fenced
  <2> QED
    BY <1>5, <2>1, <2>2, <2>3 DEF IsLive
<1>6. NoPass.pc = "idle"
  BY DEF NoPass
<1>7. PassMove(k)
  BY <1>0, <1>1, PassMoves
<1> QED
  BY <1>1, <1>2, <1>3, <1>4, <1>5, <1>6, <1>7 DEF PassMove

\* What holds while one request runs at a time and no bound Pod is lost.
FenceInv == IdentityInv /\ RetiredInv

\* The inductive invariant of the fence.
LEMMA FenceInductive ==
    ASSUME Sequential, NoLostPod PROVE Spec => []FenceInv
<1>1. Init => FenceInv
  <2> SUFFICES ASSUME Init PROVE FenceInv
    OBVIOUS
  <2>1. RetiredInv
    BY DEF Init, RetiredInv, Fenced, RetiredPodNeverReady, FencingInv, PlanInv, Idle
  <2> QED
    BY <2>1, IdentityInit DEF FenceInv
<1>2. FenceInv /\ [Next]_vars => FenceInv'
  <2> SUFFICES ASSUME IdentityInv, RetiredInv, [Next]_vars PROVE IdentityInv' /\ RetiredInv'
    BY DEF FenceInv
  <2>1. RetiredInv'
    BY FencingStep, FencedStep, RetiredReadyStep, PlanStep DEF RetiredInv
  <2> QED
    BY <2>1, IdentityStep
<1> QED
  BY <1>1, <1>2, PTL DEF Spec

\* The Pod from which a completed pause withdrew Ready never carries Ready
\* again, for any number of controllers, crashes of passes and requests,
\* expiries and late creates, provided that one request runs at a time, the
\* lookup is current, the checks of a pass do not fail and the controller
\* answers a pause in time (handler.go pause and resume, controller.go
\* reconcile).
THEOREM RetiredNeverReady ==
    ASSUME Sequential, NoLostPod PROVE Spec => []RetiredPodNeverReady
<1>1. FenceInv => RetiredPodNeverReady
  BY DEF FenceInv, RetiredInv
<1> QED
  BY <1>1, FenceInductive, PTL

-----------------------------------------------------------------------------
(* The mapping to the sandbox, while one request runs at a time.           *)

\* The version's sandbox ID is a BatchSandbox created for it.
Mapped(o, ws) ==
    o.sandbox # None => ws[o.sandbox].state # "none" /\ ws[o.sandbox].uid = o.uid

\* The stored version and those that the passes hold are mapped to their own,
\* and what a create is about to write belongs to the stored object.
MappingInv ==
    /\ Mapped(asg, workloads)
    /\ \A k \in Controllers : /\ Mapped(ctl[k].snap, workloads)
                              /\ Mapped(ctl[k].next, workloads)
    /\ \A c \in Clients : Creating(c) /\ Exists => cl[c].uid = asg.uid
    /\ \A c \in Clients : At(c, "setId") /\ Exists =>
          Created(cl[c].w) /\ workloads[cl[c].w].uid = asg.uid

\* Identities do not change, so a mapped version stays mapped.
LEMMA MappedStable ==
    ASSUME WorkloadsStable, NEW o \in Assignments, Mapped(o, workloads)
    PROVE  Mapped(o, workloads')
<1>1. o.sandbox \in Workloads \cup {None}
  BY DEF Assignments
<1> QED
  BY <1>1 DEF Mapped, WorkloadsStable

\* A planned write keeps the sandbox ID or takes it from the incarnation's
\* only BatchSandbox.
LEMMA PlannedMapped ==
    ASSUME NEW k, ctl[k].snap \in Assignments, Mapped(ctl[k].snap, workloads),
           NEW n, Planned(k, n)
    PROVE  Mapped(n, workloads)
<1> DEFINE o == ctl[k].snap
<1>1. ASSUME NEW x \in Workloads, Matching(o.uid) = {x}, n = [o EXCEPT !.sandbox = x]
      PROVE  Mapped(n, workloads)
  <2>1. n.sandbox = x /\ n.uid = o.uid
    BY <1>1 DEF Assignments
  <2>2. workloads[x].state # "none" /\ workloads[x].uid = o.uid
    BY <1>1 DEF Matching, Present
  <2> QED
    BY <2>1, <2>2 DEF Mapped
<1>2. ASSUME \/ n = [o EXCEPT !.finalizer = TRUE]
             \/ n = [o EXCEPT !.ready = FALSE]
             \/ \E w, p, b : n = Status(o, w, p, b)
      PROVE  Mapped(n, workloads)
  <2>1. n.sandbox = o.sandbox /\ n.uid = o.uid
    BY <1>2 DEF Assignments, Status
  <2> QED
    BY <2>1 DEF Mapped
<1> QED
  BY <1>1, <1>2 DEF Planned

\* While a request is creating, no other writes the object, so it stays the
\* incarnation that it was or goes away.
LEMMA CreatingKeepsUid ==
    ASSUME Sequential, LifecycleInv, [Next]_vars, NEW c \in Clients,
           Creating(c) \/ At(c, "setId"), asg'.uid # 0
    PROVE  asg'.uid = asg.uid
<1>0. /\ TypeOK /\ SnapInv /\ PassInv /\ asg \in Assignments
  BY DEF LifecycleInv, TypeInv, TypeOK
<1>1. ASSUME NEW d \in Clients
      PROVE  /\ ~CreateNew(d) /\ ~DeleteAssignment(d)
             /\ ~PauseFence(d) /\ ~PauseRollback(d) /\ ~ResumeFence(d)
             /\ ~ResumeRollback(d)
  <2>1. d = c
    BY DEF Sequential
  <2> QED
    BY <2>1 DEF Creating, At, CreateNew, Begin, DeleteAssignment,
       PauseFence, PauseRollback, ResumeFence, ResumeRollback
<1>2. ASSUME NEW k \in fresh, WritePlan(k), asg' = ctl[k].next PROVE asg'.uid = asg.uid
  BY <1>0, <1>2 DEF WritePlan, In, TypeOK, SnapInv, PassInv, Sound, Keeps
<1>3. ASSUME NEW w, asg' = [asg EXCEPT !.sandbox = w] PROVE asg'.uid = asg.uid
  BY <1>0, <1>3 DEF Assignments
<1>4. asg' # NoAsg
  BY EmptyFields
<1> QED
  BY <1>0, <1>1, <1>2, <1>3, <1>4, AsgMoves DEF AsgMove

\* Every step keeps the mapping.
LEMMA MappingStep ==
    ASSUME Sequential, IdentityInv, MappingInv, [Next]_vars PROVE MappingInv'
<1>0. /\ LifecycleInv /\ TypeOK /\ RequestInv /\ CreateInv /\ asg \in Assignments
      /\ WorkloadsStable
      /\ \A k \in Controllers : ctl[k].snap \in Assignments /\ ctl[k].next \in Assignments
  BY StableStep, PassType DEF IdentityInv, LifecycleInv, TypeInv, TypeOK
<1>1. Mapped(asg, workloads')
  BY <1>0, MappedStable DEF MappingInv
<1>2. ASSUME NEW n, n = asg' PROVE Mapped(n, workloads')
  <2>1. ASSUME n.uid = asg.uid, n.sandbox = asg.sandbox PROVE Mapped(n, workloads')
    BY <1>1, <2>1 DEF Mapped
  <2>2. CASE n = asg
    BY <1>1, <2>2
  <2>3. CASE n = NoAsg \/ n = [NoAsg EXCEPT !.uid = lastUid + 1]
    BY <2>3 DEF Mapped, NoAsg
  <2>4. CASE n = Deleted(asg)
    <3>1. \/ n = NoAsg
          \/ n = [asg EXCEPT !.deleting = TRUE]
      BY <2>4 DEF Deleted
    <3>2. n = [asg EXCEPT !.deleting = TRUE] => n.uid = asg.uid /\ n.sandbox = asg.sandbox
      BY <1>0 DEF Assignments
    <3> QED
      BY <2>1, <2>3, <3>1, <3>2
  <2>5. ASSUME NEW c \in Clients, SetSandboxID(c), Exists, n = [asg EXCEPT !.sandbox = cl[c].w]
        PROVE  Mapped(n, workloads')
    <3>1. At(c, "setId") /\ cl[c].w \in Workloads
      BY <1>0, <2>5 DEF SetSandboxID, At, RequestInv
    <3>2. Created(cl[c].w) /\ workloads[cl[c].w].uid = asg.uid
      BY <2>5, <3>1 DEF MappingInv
    <3>3. n.uid = asg.uid /\ n.sandbox = cl[c].w
      BY <1>0, <2>5, <3>1 DEF Assignments
    <3> QED
      BY <1>0, <3>1, <3>2, <3>3 DEF Mapped, Created, WorkloadsStable
  <2>6. ASSUME NEW b \in BOOLEAN, NEW p \in Pods \cup {None},
               n = [asg EXCEPT !.paused = b, !.fence = p]
        PROVE  n.uid = asg.uid /\ n.sandbox = asg.sandbox
    BY <1>0, <2>6 DEF Assignments
  <2>7. ASSUME NEW k \in fresh, n = ctl[k].next PROVE Mapped(n, workloads')
    BY <1>0, <2>7, MappedStable DEF MappingInv, TypeOK
  <2> QED
    BY <1>0, <1>2, <2>1, <2>2, <2>3, <2>4, <2>5, <2>6, <2>7, AsgMoves DEF AsgMove
<1>3. ASSUME NEW k \in Controllers
      PROVE  Mapped(ctl'[k].snap, workloads') /\ Mapped(ctl'[k].next, workloads')
  <2>1. Mapped(ctl[k].snap, workloads') /\ Mapped(ctl[k].next, workloads')
    BY <1>0, MappedStable DEF MappingInv
  <2>2. Mapped(NoAsg, workloads')
    BY DEF Mapped, NoAsg
  <2>3. NoPass.snap = NoAsg /\ NoPass.next = NoAsg
    BY DEF NoPass
  <2>4. ASSUME ReadOnly, Planned(k, ctl'[k].next) PROVE Mapped(ctl'[k].next, workloads')
    <3>1. workloads' = workloads
      BY <2>4 DEF ReadOnly, upstream
    <3>2. ASSUME NEW n, n = ctl'[k].next PROVE Mapped(n, workloads)
      BY <1>0, <2>4, <3>2, PlannedMapped DEF MappingInv
    <3> QED
      BY <3>1, <3>2
  <2>5. PassMove(k)
    BY <1>0, PassMoves
  <2> QED
    BY <1>1, <2>1, <2>2, <2>3, <2>4, <2>5 DEF PassMove
<1>4. ASSUME NEW c \in Clients, Creating(c)', asg'.uid # 0 PROVE cl'[c].uid = asg'.uid
  <2>1. CASE CreateNew(c)
    <3>1. cl'[c].uid = lastUid + 1 /\ asg' = [NoAsg EXCEPT !.uid = lastUid + 1]
      BY <1>0, <2>1 DEF CreateNew, Begin, Put, Idle, TypeOK
    <3> QED
      BY <3>1, EmptyFields
  <2>2. CASE ~CreateNew(c)
    <3>1. Creating(c) /\ cl'[c].uid = cl[c].uid
      BY <1>0, <1>4, <2>2, CreatingMoves DEF Creating, PostCreate, At
    <3>2. asg'.uid = asg.uid
      BY <1>0, <1>4, <3>1, CreatingKeepsUid
    <3> QED
      BY <1>4, <3>1, <3>2 DEF MappingInv, Exists
  <2> QED
    BY <2>1, <2>2
<1>5. ASSUME NEW c \in Clients, cl'[c].pc = "setId", asg'.uid # 0
      PROVE  workloads'[cl'[c].w].state # "none" /\ workloads'[cl'[c].w].uid = asg'.uid
  <2>1. ASSUME NEW w \in Workloads, CreateAnswered(c, w)
        PROVE  cl'[c].w = w /\ workloads[w].uid = asg'.uid
    <3>1. At(c, "await") /\ Creating(c) /\ workloads[w].uid = cl[c].uid
      BY <2>1 DEF CreateAnswered, At, Creating
    <3>2. cl'[c].w = w
      BY <1>0, <2>1 DEF CreateAnswered, TypeOK, Requests
    <3>3. asg'.uid = asg.uid
      BY <1>0, <1>5, <3>1, CreatingKeepsUid
    <3> QED
      BY <1>5, <3>1, <3>2, <3>3 DEF MappingInv, Exists
  <2>2. CASE cl'[c] = cl[c]
    <3>1. At(c, "setId") /\ cl[c].w \in Workloads
      BY <1>0, <1>5, <2>2 DEF At, RequestInv
    <3>2. asg'.uid = asg.uid
      BY <1>0, <1>5, <3>1, CreatingKeepsUid
    <3> QED
      BY <1>0, <1>5, <2>2, <3>1, <3>2 DEF MappingInv, Exists, Created, WorkloadsStable
  <2>3. \/ cl'[c] = cl[c]
        \/ \E w \in Workloads : CreateAnswered(c, w)
    <3>1. ASSUME CreateNew(c) PROVE cl'[c].pc # "setId"
      BY <1>0, <3>1 DEF CreateNew, Begin, Idle, TypeOK
    <3>2. ASSUME PostCreate(c) \/ PauseObserved(c) PROVE cl'[c].pc # "setId"
      BY <1>0, <3>2 DEF PostCreate, PauseObserved, Goto, TypeOK, Requests
    <3>3. ASSUME PauseFence(c) PROVE cl'[c].pc # "setId"
      BY <1>0, <3>3 DEF PauseFence, TypeOK, Requests, Idle
    <3> QED
      BY <1>0, <1>5, <3>1, <3>2, <3>3, ClientStep DEF Watched
  <2>4. ASSUME NEW w \in Workloads, workloads[w].uid = asg'.uid
        PROVE  workloads'[w].state # "none" /\ workloads'[w].uid = asg'.uid
    BY <1>0, <1>5, <2>4 DEF CreateInv, Created, WorkloadsStable
  <2> QED
    BY <2>1, <2>2, <2>3, <2>4
<1> QED
  BY <1>2, <1>3, <1>4, <1>5 DEF MappingInv, Creating, Created, Exists, At

\* The sandbox ID recorded in an assignment is a BatchSandbox created for it,
\* with every fault and any number of controllers, provided that one request
\* runs at a time: the mapping is lost only where a create's answer meets
\* another request's delete and create of the same name (handler.go create,
\* store.go SetSandboxID).
THEOREM SequentialMappingIsOwn == ASSUME Sequential PROVE Spec => []MappingIsOwn
<1> DEFINE Inv == IdentityInv /\ MappingInv
<1>1. Init => Inv
  <2> SUFFICES ASSUME Init PROVE MappingInv
    BY IdentityInit
  <2> QED
    BY DEF Init, MappingInv, Mapped, Creating, At, Exists, Idle, NoPass, NoAsg
<1>2. Inv /\ [Next]_vars => Inv'
  <2>1. IdentityInv /\ MappingInv /\ [Next]_vars => MappingInv'
    BY MappingStep
  <2> QED
    BY <2>1, IdentityStep
<1>3. Inv => MappingIsOwn
  BY DEF MappingInv, Mapped, MappingIsOwn
<1> HIDE DEF Inv
<1> QED
  BY <1>1, <1>2, <1>3, PTL DEF Spec

=============================================================================
