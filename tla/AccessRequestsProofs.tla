------------------------ MODULE AccessRequestsProofs ------------------------
(***************************************************************************)
(* AccessRequests for any number of submissions, administrators, replicas, *)
(* targets and revisions: stored decisions stand, stale requests are never *)
(* approved, duplicates come only from overlapping submissions, and the    *)
(* handlers implement the safety of RequestLifecycle.  Everything rests on *)
(* the resource version: a copy whose version is still the object's is a   *)
(* copy of a pending request (Copies), and a submission can write its      *)
(* Pending status only over a request that nobody has touched (Objects).   *)
(***************************************************************************)
EXTENDS AccessRequests, TLAPS

\* An object exists once its submission has created it; version 1 is the object
\* without a status, and only an approval has an expiry.
Objects ==
    \A r \in Requests :
       /\ pc[r] \in {"idle", "duplicates", "create", "initialize", "done"}
       /\ pc[r] \in {"idle", "duplicates", "create"} => requests[r].state = "none" /\ requests[r].rv = 0
       /\ pc[r] \in {"initialize", "done"} =>
            requests[r].state # "none" /\ requests[r].rv >= 1 /\ requests[r].duration # 0
       /\ requests[r].rv = 1 => requests[r].state = "unset"
       /\ requests[r].state \notin {"Approved", "Expired"} => requests[r].expires = 0
       /\ pc[r] # "idle" => requests[r].uid <= current.uid /\ requests[r].duration # 0

\* What an administrator's handler read: while the version is the same, the
\* request is pending; an approval asks for no more than was requested.
Copies ==
    \A d \in Deciders :
       /\ pc[d] \in {"idle", "validate", "budget", "decide"}
       /\ pc[d] # "idle" =>
            /\ decision[d].request \in Requests /\ decision[d].verdict \in {"Approved", "Denied"}
            /\ pc[decision[d].request] \in {"initialize", "done"}
            /\ decision[d].rv <= requests[decision[d].request].rv
            /\ decision[d].rv = requests[decision[d].request].rv => Pending(decision[d].request)
            /\ decision[d].verdict = "Approved" => decision[d].duration <= requests[decision[d].request].duration
            /\ decision[d].stamp <= now
       /\ pc[d] \in {"validate", "budget"} => decision[d].verdict = "Approved"

\* What a clean-up pass listed has run out, and stays so.
Listed ==
    \A e \in Expirers : \A r \in todo[e] :
        requests[r].state \in {"Approved", "Expired"} /\ requests[r].expires <= now

\* A request that was stale when its handler began is never fresh again, as the
\* UIDs of assignments are not used twice.
Fenced ==
    \A d \in Deciders :
       /\ pc[d] # "idle" /\ fenced[d] =>
            \/ requests[decision[d].request].uid < current.uid
            \/ requests[decision[d].request].uid = current.uid /\ ~current.live
       /\ pc[d] = "budget" \/ (pc[d] = "decide" /\ decision[d].verdict = "Approved") => ~fenced[d]

\* What a duplicate check saw is not an active duplicate, now or later.
Checked ==
    \A r \in Requests :
       /\ pc[r] \in {"idle", "duplicates"} => seen[r] = {}
       /\ \A q \in seen[r] : q # r =>
            requests[q].state # "none" /\ ~(Active(q) /\ SameGrant(q, r))

IInv == TypeOK /\ Objects /\ Copies /\ Listed /\ Fenced /\ Checked /\ DecisionStands

-----------------------------------------------------------------------------
(* What the steps do to the objects, field by field. *)

Wrote(r, state, rv, expires) ==
    /\ requests' \in [Requests -> RequestObjects]
    /\ \A q \in Requests : q # r => requests'[q] = requests[q]
    /\ requests'[r].state = state /\ requests'[r].rv = rv /\ requests'[r].expires = expires

KeepsSpec(r) ==
    /\ requests'[r].uid = requests[r].uid /\ requests'[r].revision = requests[r].revision
    /\ requests'[r].target = requests[r].target /\ requests'[r].duration = requests[r].duration

\* The fields of an object and of a copy have the types of the API.
LEMMA Fields ==
    ASSUME TypeOK
    PROVE  /\ \A q \in Requests :
                /\ requests[q].rv \in Nat /\ requests[q].expires \in Nat
                /\ requests[q].uid \in Nat /\ requests[q].duration \in Nat
                /\ requests[q].state \in {"none", "unset", "Pending", "Approved", "Denied", "Expired"}
           /\ \A d \in Deciders :
                decision[d].rv \in Nat /\ decision[d].duration \in Nat /\ decision[d].stamp \in Nat
           /\ current.uid \in Nat /\ now \in Nat
           /\ pc \in [Requests \union Deciders -> Steps]
           /\ todo \in [Expirers -> SUBSET Requests] /\ seen \in [Requests -> SUBSET Requests]
           /\ decided \subseteq Requests \X {"Approved", "Denied"}
<1>1. \A q \in Requests : requests[q] \in RequestObjects
  BY DEF TypeOK
<1>2. \A o \in RequestObjects :
        /\ o.rv \in Nat /\ o.expires \in Nat /\ o.uid \in Nat /\ o.duration \in Nat
        /\ o.state \in {"none", "unset", "Pending", "Approved", "Denied", "Expired"}
  BY AccessAssumption DEF RequestObjects
<1>3. \A d \in Deciders :
        decision[d].rv \in Nat /\ decision[d].duration \in Nat /\ decision[d].stamp \in Nat
  BY DEF TypeOK, DecisionCopies
<1>4. /\ current.uid \in Nat /\ now \in Nat /\ pc \in [Requests \union Deciders -> Steps]
      /\ todo \in [Expirers -> SUBSET Requests] /\ seen \in [Requests -> SUBSET Requests]
      /\ decided \subseteq Requests \X {"Approved", "Denied"}
  BY AccessAssumption DEF TypeOK
<1> QED BY <1>1, <1>2, <1>3, <1>4

\* Submit fills the draft of an object that does not exist yet.
LEMMA SubmitWrites ==
    ASSUME TypeOK, NEW r \in Requests, NEW target \in Targets, NEW duration \in Durations,
           Submit(r, target, duration)
    PROVE  /\ Wrote(r, requests[r].state, requests[r].rv, requests[r].expires)
           /\ requests'[r].uid = current.uid /\ requests'[r].duration = duration
           /\ duration \in Nat \ {0}
<1> DEFINE o == requests[r]
           n == [o EXCEPT !.uid = current.uid, !.revision = current.revision,
                          !.target = target, !.duration = duration]
<1>1. o \in RequestObjects /\ current \in [uid : 1..MaxUid, revision : Revisions, live : BOOLEAN]
  BY DEF TypeOK
<1>a. current.uid \in 0..MaxUid /\ current.revision \in Revisions /\ duration \in Nat \ {0}
  BY <1>1, AccessAssumption
<1>2. n \in RequestObjects
  BY <1>1, <1>a DEF RequestObjects
<1>3. requests' = [requests EXCEPT ![r] = n]
  BY DEF Submit, TypeOK
<1>4. /\ n.state = o.state /\ n.rv = o.rv /\ n.expires = o.expires
      /\ n.uid = current.uid /\ n.duration = duration
  BY <1>1 DEF RequestObjects
<1> QED BY <1>2, <1>3, <1>4, <1>a DEF Wrote, TypeOK

\* SubmitCreate stores the first version.
LEMMA CreateWrites ==
    ASSUME TypeOK, NEW r \in Requests, SubmitCreate(r)
    PROVE  Wrote(r, "unset", 1, requests[r].expires) /\ KeepsSpec(r)
<1> DEFINE n == [requests[r] EXCEPT !.state = "unset", !.rv = 1]
<1>1. requests[r] \in RequestObjects
  BY DEF TypeOK
<1>2. n \in RequestObjects
  BY <1>1 DEF RequestObjects
<1>3. requests' = [requests EXCEPT ![r] = n]
  BY <1>1 DEF SubmitCreate, TypeOK, RequestObjects
<1>4. KeepsSpec(r) /\ n.state = "unset" /\ n.rv = 1 /\ n.expires = requests[r].expires
  BY <1>1, <1>3 DEF KeepsSpec, RequestObjects, TypeOK
<1> QED BY <1>2, <1>3, <1>4 DEF Wrote, TypeOK

\* A status update stores the next version of the object that was read.
LEMMA UpdateWrites ==
    ASSUME TypeOK, NEW r \in Requests, NEW rv \in Nat, NEW e \in Nat,
           NEW state \in {"none", "unset", "Pending", "Approved", "Denied", "Expired"},
           UpdateRequestStatus(r, rv, [requests[r] EXCEPT !.state = state, !.expires = e])
    PROVE  Wrote(r, state, rv + 1, e) /\ KeepsSpec(r) /\ requests[r].rv = rv
<1> DEFINE n == [requests[r] EXCEPT !.state = state, !.expires = e, !.rv = rv + 1]
<1>1. requests[r] \in RequestObjects
  BY DEF TypeOK
<1>2. n \in RequestObjects
  <2>1. rv + 1 \in Nat
    OBVIOUS
  <2> QED BY <1>1, <2>1 DEF RequestObjects
<1>3. requests' = [requests EXCEPT ![r] = n]
  BY <1>1 DEF UpdateRequestStatus, TypeOK, RequestObjects
<1>4. KeepsSpec(r) /\ n.state = state /\ n.rv = rv + 1 /\ n.expires = e
  BY <1>1, <1>3 DEF KeepsSpec, RequestObjects, TypeOK
<1> QED BY <1>2, <1>3, <1>4 DEF Wrote, TypeOK, UpdateRequestStatus

\* SubmitInitialize writes over the first version only.
LEMMA InitializeWrites ==
    ASSUME TypeOK, NEW r \in Requests, SubmitInitialize(r)
    PROVE  \/ requests' = requests
           \/ Wrote(r, "Pending", 2, requests[r].expires) /\ KeepsSpec(r) /\ requests[r].rv = 1
<1>1. requests[r] \in RequestObjects
  BY DEF TypeOK
<1>2. [requests[r] EXCEPT !.state = "Pending"] =
        [requests[r] EXCEPT !.state = "Pending", !.expires = requests[r].expires]
  BY <1>1 DEF RequestObjects
<1>3. requests[r].expires \in Nat
  BY <1>1 DEF RequestObjects
<1>4. CASE requests' # requests
  <2>1. UpdateRequestStatus(r, 1, [requests[r] EXCEPT !.state = "Pending", !.expires = requests[r].expires])
    BY <1>2, <1>4 DEF SubmitInitialize
  <2>2. Wrote(r, "Pending", 1 + 1, requests[r].expires) /\ KeepsSpec(r) /\ requests[r].rv = 1
    BY <2>1, <1>3, UpdateWrites
  <2> QED BY <2>2
<1> QED BY <1>4

\* Abandon removes the draft.
LEMMA AbandonWrites ==
    ASSUME TypeOK, NEW r \in Requests, Abandon(r)
    PROVE  Wrote(r, "none", 0, 0)
<1>1. Absent \in RequestObjects
  BY AccessAssumption DEF Absent, RequestObjects
<1>2. requests' = [requests EXCEPT ![r] = Absent]
  BY DEF Abandon
<1> QED BY <1>1, <1>2 DEF Wrote, TypeOK, Absent

\* Decide writes over the version that its handler read.
LEMMA DecideWrites ==
    ASSUME TypeOK, Copies, NEW d \in Deciders, Decide(d)
    PROVE  LET c == decision[d]
           IN /\ c.request \in Requests /\ c.verdict \in {"Approved", "Denied"}
              /\ Wrote(c.request, c.verdict, c.rv + 1,
                       IF c.verdict = "Approved" THEN c.stamp + c.duration ELSE 0)
              /\ KeepsSpec(c.request) /\ requests[c.request].rv = c.rv
<1> DEFINE c == decision[d]
           e == IF c.verdict = "Approved" THEN c.stamp + c.duration ELSE 0
<1>1. c.request \in Requests /\ c.verdict \in {"Approved", "Denied"}
  BY DEF Copies, Decide
<1>2. c.rv \in Nat /\ e \in Nat
  <2>1. c.rv \in Nat /\ c.stamp \in Nat /\ c.duration \in Nat
    BY Fields
  <2> QED BY <2>1
<1>3. UpdateRequestStatus(c.request, c.rv, [requests[c.request] EXCEPT !.state = c.verdict, !.expires = e])
  BY DEF Decide
<1> HIDE DEF c, e
<1>4. Wrote(c.request, c.verdict, c.rv + 1, e) /\ KeepsSpec(c.request) /\ requests[c.request].rv = c.rv
  BY <1>1, <1>2, <1>3, UpdateWrites DEF UpdateRequestStatus, Wrote, KeepsSpec
<1> QED BY <1>1, <1>4 DEF c, e

\* ExpirePatch changes the state alone.
LEMMA ExpireWrites ==
    ASSUME TypeOK, NEW e \in Expirers, NEW r \in Requests, ExpirePatch(e, r)
    PROVE  Wrote(r, "Expired", requests[r].rv + 1, requests[r].expires) /\ KeepsSpec(r)
<1> DEFINE n == [requests[r] EXCEPT !.state = "Expired", !.rv = requests[r].rv + 1]
<1>1. requests[r] \in RequestObjects
  BY DEF TypeOK
<1>2. n \in RequestObjects
  <2>1. requests[r].rv + 1 \in Nat
    BY Fields
  <2> QED BY <1>1, <2>1 DEF RequestObjects
<1>3. requests' = [requests EXCEPT ![r] = n]
  BY <1>1 DEF ExpirePatch, TypeOK, RequestObjects
<1>4. KeepsSpec(r) /\ n.state = "Expired" /\ n.rv = requests[r].rv + 1 /\ n.expires = requests[r].expires
  BY <1>1, <1>3 DEF KeepsSpec, RequestObjects, TypeOK
<1> QED BY <1>2, <1>3, <1>4 DEF Wrote, TypeOK

-----------------------------------------------------------------------------
\* Every step keeps the types.
LEMMA TypeStep ==
    ASSUME TypeOK, Copies, [Next]_vars
    PROVE  TypeOK'
<1>1. ASSUME NEW r \in Requests, NEW target \in Targets, NEW duration \in Durations, Submit(r, target, duration)
      PROVE TypeOK'
  <2>1. /\ Wrote(r, requests[r].state, requests[r].rv, requests[r].expires)
        /\ requests'[r].uid = current.uid /\ requests'[r].duration = duration /\ duration \in Nat \ {0}
    BY <1>1, SubmitWrites
  <2>2. /\ pc[r] = "idle" /\ pc' = [pc EXCEPT ![r] = "duplicates"]
        /\ UNCHANGED <<now, current, decision, todo, decided, seen, fenced>>
    BY <1>1 DEF Submit, Goto
  <2> QED BY <2>1, <2>2, Fields, AccessAssumption DEF Wrote, KeepsSpec, TypeOK, Steps
<1>2. ASSUME NEW r \in Requests, SubmitDuplicates(r)
      PROVE TypeOK'
  BY <1>2, Fields, AccessAssumption DEF SubmitDuplicates, Goto, TypeOK, Steps
<1>3. ASSUME NEW r \in Requests, SubmitCreate(r)
      PROVE TypeOK'
  <2>1. Wrote(r, "unset", 1, requests[r].expires) /\ KeepsSpec(r)
    BY <1>3, CreateWrites
  <2>2. /\ pc[r] = "create" /\ \E step \in {"initialize", "done"} : pc' = [pc EXCEPT ![r] = step]
        /\ UNCHANGED <<now, current, decision, todo, decided, seen, fenced>>
    BY <1>3 DEF SubmitCreate, Goto
  <2> QED BY <2>1, <2>2, Fields, AccessAssumption DEF Wrote, KeepsSpec, TypeOK, Steps
<1>4. ASSUME NEW r \in Requests, SubmitInitialize(r)
      PROVE TypeOK'
  <2>1. \/ requests' = requests
        \/ Wrote(r, "Pending", 2, requests[r].expires) /\ KeepsSpec(r) /\ requests[r].rv = 1
    BY <1>4, InitializeWrites
  <2>2. /\ pc[r] = "initialize" /\ pc' = [pc EXCEPT ![r] = "done"]
        /\ UNCHANGED <<now, current, decision, todo, decided, seen, fenced>>
    BY <1>4 DEF SubmitInitialize, Goto
  <2> QED BY <2>1, <2>2, Fields, AccessAssumption DEF Wrote, KeepsSpec, TypeOK, Steps
<1>5. ASSUME NEW r \in Requests, Abandon(r)
      PROVE TypeOK'
  <2>1. Wrote(r, "none", 0, 0)
    BY <1>5, AbandonWrites
  <2>2. /\ pc[r] \in {"duplicates", "create"} /\ pc' = [pc EXCEPT ![r] = "idle"]
        /\ seen' = [seen EXCEPT ![r] = {}]
        /\ UNCHANGED <<now, current, decision, todo, decided, fenced>>
    BY <1>5 DEF Abandon, Goto
  <2> QED BY <2>1, <2>2, Fields, AccessAssumption DEF Wrote, KeepsSpec, TypeOK, Steps
<1>6. ASSUME NEW d \in Deciders, NEW r \in Requests, NEW duration \in Durations,
            NEW verdict \in {"Approved", "Denied"}, PendingRequest(d, r, verdict, duration)
      PROVE TypeOK'
  BY <1>6, Fields, AccessAssumption DEF PendingRequest, Goto, TypeOK, Steps, DecisionCopies
<1>7. ASSUME NEW d \in Deciders, ApproveValidate(d)
      PROVE TypeOK'
  BY <1>7, Fields, AccessAssumption DEF ApproveValidate, Goto, TypeOK, Steps
<1>8. ASSUME NEW d \in Deciders, ApproveBudget(d)
      PROVE TypeOK'
  <2>1. [decision[d] EXCEPT !.stamp = now] \in DecisionCopies
    BY Fields DEF TypeOK, DecisionCopies
  <2>2. decision' = [decision EXCEPT ![d] = [decision[d] EXCEPT !.stamp = now]]
    BY <1>8 DEF ApproveBudget
  <2> QED BY <1>8, <2>1, <2>2 DEF ApproveBudget, Goto, TypeOK, Steps
<1>9. ASSUME NEW d \in Deciders, Decide(d)
      PROVE TypeOK'
  <2>1. /\ decision[d].request \in Requests /\ decision[d].verdict \in {"Approved", "Denied"}
        /\ Wrote(decision[d].request, decision[d].verdict, decision[d].rv + 1,
                 IF decision[d].verdict = "Approved" THEN decision[d].stamp + decision[d].duration ELSE 0)
        /\ KeepsSpec(decision[d].request) /\ requests[decision[d].request].rv = decision[d].rv
    BY <1>9, DecideWrites
  <2>2. /\ pc[d] = "decide" /\ pc' = [pc EXCEPT ![d] = "idle"]
        /\ decision' = [decision EXCEPT ![d] = NoDecision] /\ fenced' = [fenced EXCEPT ![d] = FALSE]
        /\ decided' = decided \union {<<decision[d].request, decision[d].verdict>>}
        /\ UNCHANGED <<now, current, todo, seen>>
    BY <1>9 DEF Decide, Goto, Answer, GiveUp
  <2> QED BY <2>1, <2>2, Fields, AccessAssumption DEF Wrote, KeepsSpec, TypeOK, Steps, NoDecision, DecisionCopies
<1>10. ASSUME NEW d \in Deciders, Refuse(d)
      PROVE TypeOK'
  BY <1>10, Fields, AccessAssumption DEF Refuse, Goto, GiveUp, TypeOK, Steps, NoDecision, DecisionCopies
<1>11. ASSUME NEW e \in Expirers, ExpireList(e)
      PROVE TypeOK'
  BY <1>11, Fields, AccessAssumption DEF ExpireList, Goto, TypeOK, Steps
<1>12. ASSUME NEW e \in Expirers, NEW r \in Requests, ExpirePatch(e, r)
      PROVE TypeOK'
  <2>1. Wrote(r, "Expired", requests[r].rv + 1, requests[r].expires) /\ KeepsSpec(r)
    BY <1>12, ExpireWrites
  <2>2. /\ r \in todo[e] /\ todo' = [todo EXCEPT ![e] = @ \ {r}]
        /\ UNCHANGED <<now, current, pc, decision, decided, seen, fenced>>
    BY <1>12 DEF ExpirePatch, Goto
  <2> QED BY <2>1, <2>2, Fields, AccessAssumption DEF Wrote, KeepsSpec, TypeOK, Steps
<1>13. ASSUME NEW e \in Expirers, ExpireFails(e)
      PROVE TypeOK'
  BY <1>13, Fields, AccessAssumption DEF ExpireFails, Goto, TypeOK, Steps
<1>14. ASSUME NEW v \in Revisions, CreateAssignment(v)
      PROVE TypeOK'
  BY <1>14, Fields, AccessAssumption DEF CreateAssignment, Goto, TypeOK, Steps
<1>15. ASSUME NEW v \in Revisions, RevisePolicy(v)
      PROVE TypeOK'
  BY <1>15, Fields, AccessAssumption DEF RevisePolicy, Goto, TypeOK, Steps
<1>16. ASSUME DeleteAssignment
      PROVE TypeOK'
  BY <1>16, Fields, AccessAssumption DEF DeleteAssignment, Goto, TypeOK, Steps
<1>17. ASSUME Tick
      PROVE TypeOK'
  BY <1>17, Fields, AccessAssumption DEF Tick, Goto, TypeOK, Steps
<1>18. CASE UNCHANGED vars
  BY <1>18 DEF vars, TypeOK, Steps
<1> QED
  BY <1>1, <1>2, <1>3, <1>4, <1>5, <1>6, <1>7, <1>8, <1>9, <1>10, <1>11, <1>12, <1>13, <1>14, <1>15, <1>16, <1>17, <1>18 DEF Next, Submission, Deciding

\* Every step keeps Objects.
LEMMA ObjectsStep ==
    ASSUME TypeOK, Objects, Copies, Listed, [Next]_vars
    PROVE  Objects'
<1>1. ASSUME NEW r \in Requests, NEW target \in Targets, NEW duration \in Durations, Submit(r, target, duration)
      PROVE Objects'
  <2>1. /\ Wrote(r, requests[r].state, requests[r].rv, requests[r].expires)
        /\ requests'[r].uid = current.uid /\ requests'[r].duration = duration /\ duration \in Nat \ {0}
    BY <1>1, SubmitWrites
  <2>2. /\ pc[r] = "idle" /\ pc' = [pc EXCEPT ![r] = "duplicates"]
        /\ UNCHANGED <<now, current, decision, todo, decided, seen, fenced>>
    BY <1>1 DEF Submit, Goto
  <2> QED BY <2>1, <2>2, Fields, AccessAssumption DEF Wrote, KeepsSpec, Objects
<1>2. ASSUME NEW r \in Requests, SubmitDuplicates(r)
      PROVE Objects'
  BY <1>2, Fields, AccessAssumption DEF SubmitDuplicates, Goto, Objects
<1>3. ASSUME NEW r \in Requests, SubmitCreate(r)
      PROVE Objects'
  <2>1. Wrote(r, "unset", 1, requests[r].expires) /\ KeepsSpec(r)
    BY <1>3, CreateWrites
  <2>2. /\ pc[r] = "create" /\ \E step \in {"initialize", "done"} : pc' = [pc EXCEPT ![r] = step]
        /\ UNCHANGED <<now, current, decision, todo, decided, seen, fenced>>
    BY <1>3 DEF SubmitCreate, Goto
  <2> QED BY <2>1, <2>2, Fields, AccessAssumption DEF Wrote, KeepsSpec, Objects
<1>4. ASSUME NEW r \in Requests, SubmitInitialize(r)
      PROVE Objects'
  <2>1. \/ requests' = requests
        \/ Wrote(r, "Pending", 2, requests[r].expires) /\ KeepsSpec(r) /\ requests[r].rv = 1
    BY <1>4, InitializeWrites
  <2>2. /\ pc[r] = "initialize" /\ pc' = [pc EXCEPT ![r] = "done"]
        /\ UNCHANGED <<now, current, decision, todo, decided, seen, fenced>>
    BY <1>4 DEF SubmitInitialize, Goto
  <2> QED BY <2>1, <2>2, Fields, AccessAssumption DEF Wrote, KeepsSpec, Objects
<1>5. ASSUME NEW r \in Requests, Abandon(r)
      PROVE Objects'
  <2>1. Wrote(r, "none", 0, 0)
    BY <1>5, AbandonWrites
  <2>2. /\ pc[r] \in {"duplicates", "create"} /\ pc' = [pc EXCEPT ![r] = "idle"]
        /\ seen' = [seen EXCEPT ![r] = {}]
        /\ UNCHANGED <<now, current, decision, todo, decided, fenced>>
    BY <1>5 DEF Abandon, Goto
  <2> QED BY <2>1, <2>2, Fields, AccessAssumption DEF Wrote, KeepsSpec, Objects
<1>6. ASSUME NEW d \in Deciders, NEW r \in Requests, NEW duration \in Durations,
            NEW verdict \in {"Approved", "Denied"}, PendingRequest(d, r, verdict, duration)
      PROVE Objects'
  BY <1>6, Fields, AccessAssumption DEF PendingRequest, Goto, Objects
<1>7. ASSUME NEW d \in Deciders, ApproveValidate(d)
      PROVE Objects'
  BY <1>7, Fields, AccessAssumption DEF ApproveValidate, Goto, Objects
<1>8. ASSUME NEW d \in Deciders, ApproveBudget(d)
      PROVE Objects'
  BY <1>8, Fields, AccessAssumption DEF ApproveBudget, Goto, Objects
<1>9. ASSUME NEW d \in Deciders, Decide(d)
      PROVE Objects'
  <2>1. /\ decision[d].request \in Requests /\ decision[d].verdict \in {"Approved", "Denied"}
        /\ Wrote(decision[d].request, decision[d].verdict, decision[d].rv + 1,
                 IF decision[d].verdict = "Approved" THEN decision[d].stamp + decision[d].duration ELSE 0)
        /\ KeepsSpec(decision[d].request) /\ requests[decision[d].request].rv = decision[d].rv
    BY <1>9, DecideWrites
  <2>2. /\ pc[d] = "decide" /\ pc' = [pc EXCEPT ![d] = "idle"]
        /\ decision' = [decision EXCEPT ![d] = NoDecision] /\ fenced' = [fenced EXCEPT ![d] = FALSE]
        /\ decided' = decided \union {<<decision[d].request, decision[d].verdict>>}
        /\ UNCHANGED <<now, current, todo, seen>>
    BY <1>9 DEF Decide, Goto, Answer, GiveUp
  <2> QED BY <2>1, <2>2, Fields, AccessAssumption DEF Wrote, KeepsSpec, Objects, Copies
<1>10. ASSUME NEW d \in Deciders, Refuse(d)
      PROVE Objects'
  BY <1>10, Fields, AccessAssumption DEF Refuse, Goto, GiveUp, Objects
<1>11. ASSUME NEW e \in Expirers, ExpireList(e)
      PROVE Objects'
  BY <1>11, Fields, AccessAssumption DEF ExpireList, Goto, Objects
<1>12. ASSUME NEW e \in Expirers, NEW r \in Requests, ExpirePatch(e, r)
      PROVE Objects'
  <2>1. Wrote(r, "Expired", requests[r].rv + 1, requests[r].expires) /\ KeepsSpec(r)
    BY <1>12, ExpireWrites
  <2>2. /\ r \in todo[e] /\ todo' = [todo EXCEPT ![e] = @ \ {r}]
        /\ UNCHANGED <<now, current, pc, decision, decided, seen, fenced>>
    BY <1>12 DEF ExpirePatch, Goto
  <2> QED BY <2>1, <2>2, Fields, AccessAssumption DEF Wrote, KeepsSpec, Objects, Listed
<1>13. ASSUME NEW e \in Expirers, ExpireFails(e)
      PROVE Objects'
  BY <1>13, Fields, AccessAssumption DEF ExpireFails, Goto, Objects
<1>14. ASSUME NEW v \in Revisions, CreateAssignment(v)
      PROVE Objects'
  BY <1>14, Fields, AccessAssumption DEF CreateAssignment, Goto, Objects
<1>15. ASSUME NEW v \in Revisions, RevisePolicy(v)
      PROVE Objects'
  BY <1>15, Fields, AccessAssumption DEF RevisePolicy, Goto, Objects
<1>16. ASSUME DeleteAssignment
      PROVE Objects'
  BY <1>16, Fields, AccessAssumption DEF DeleteAssignment, Goto, Objects
<1>17. ASSUME Tick
      PROVE Objects'
  BY <1>17, Fields, AccessAssumption DEF Tick, Goto, Objects
<1>18. CASE UNCHANGED vars
  BY <1>18 DEF vars, Objects
<1> QED
  BY <1>1, <1>2, <1>3, <1>4, <1>5, <1>6, <1>7, <1>8, <1>9, <1>10, <1>11, <1>12, <1>13, <1>14, <1>15, <1>16, <1>17, <1>18 DEF Next, Submission, Deciding

\* Every step keeps Copies: whoever writes an object raises its version.
LEMMA CopiesStep ==
    ASSUME TypeOK, TypeOK', Objects, Copies, [Next]_vars
    PROVE  Copies'
<1>1. ASSUME NEW r \in Requests, NEW target \in Targets, NEW duration \in Durations, Submit(r, target, duration)
      PROVE Copies'
  <2>1. /\ Wrote(r, requests[r].state, requests[r].rv, requests[r].expires)
        /\ requests'[r].uid = current.uid /\ requests'[r].duration = duration /\ duration \in Nat \ {0}
    BY <1>1, SubmitWrites
  <2>2. /\ pc[r] = "idle" /\ pc' = [pc EXCEPT ![r] = "duplicates"]
        /\ UNCHANGED <<now, current, decision, todo, decided, seen, fenced>>
    BY <1>1 DEF Submit, Goto
  <2> QED BY <2>1, <2>2, Fields, AccessAssumption DEF Wrote, KeepsSpec, Objects, Copies, Pending
<1>2. ASSUME NEW r \in Requests, SubmitDuplicates(r)
      PROVE Copies'
  BY <1>2, Fields, AccessAssumption DEF SubmitDuplicates, Goto, Objects, Copies, Pending
<1>3. ASSUME NEW r \in Requests, SubmitCreate(r)
      PROVE Copies'
  <2>1. Wrote(r, "unset", 1, requests[r].expires) /\ KeepsSpec(r)
    BY <1>3, CreateWrites
  <2>2. /\ pc[r] = "create" /\ \E step \in {"initialize", "done"} : pc' = [pc EXCEPT ![r] = step]
        /\ UNCHANGED <<now, current, decision, todo, decided, seen, fenced>>
    BY <1>3 DEF SubmitCreate, Goto
  <2> QED BY <2>1, <2>2, Fields, AccessAssumption DEF Wrote, KeepsSpec, Objects, Copies, Pending
<1>4. ASSUME NEW r \in Requests, SubmitInitialize(r)
      PROVE Copies'
  <2>1. \/ requests' = requests
        \/ Wrote(r, "Pending", 2, requests[r].expires) /\ KeepsSpec(r) /\ requests[r].rv = 1
    BY <1>4, InitializeWrites
  <2>2. /\ pc[r] = "initialize" /\ pc' = [pc EXCEPT ![r] = "done"]
        /\ UNCHANGED <<now, current, decision, todo, decided, seen, fenced>>
    BY <1>4 DEF SubmitInitialize, Goto
  <2> QED BY <2>1, <2>2, Fields, AccessAssumption DEF Wrote, KeepsSpec, Objects, Copies, Pending
<1>5. ASSUME NEW r \in Requests, Abandon(r)
      PROVE Copies'
  <2>1. Wrote(r, "none", 0, 0)
    BY <1>5, AbandonWrites
  <2>2. /\ pc[r] \in {"duplicates", "create"} /\ pc' = [pc EXCEPT ![r] = "idle"]
        /\ seen' = [seen EXCEPT ![r] = {}]
        /\ UNCHANGED <<now, current, decision, todo, decided, fenced>>
    BY <1>5 DEF Abandon, Goto
  <2> QED BY <2>1, <2>2, Fields, AccessAssumption DEF Wrote, KeepsSpec, Objects, Copies, Pending
<1>6. ASSUME NEW d \in Deciders, NEW r \in Requests, NEW duration \in Durations,
            NEW verdict \in {"Approved", "Denied"}, PendingRequest(d, r, verdict, duration)
      PROVE Copies'
  <2>1. /\ pc[d] = "idle" /\ Pending(r) /\ pc[r] \in {"initialize", "done"}
        /\ requests[r].uid <= current.uid
    BY <1>6, Fields DEF PendingRequest, Objects, Pending
  <2>2. /\ decision'[d].request = r /\ decision'[d].rv = requests[r].rv /\ decision'[d].verdict = verdict
        /\ decision'[d].duration = duration /\ decision'[d].stamp = 0
        /\ \A c \in Deciders : c # d => decision'[c] = decision[c]
    BY <1>6 DEF PendingRequest, TypeOK
  <2>3. /\ \/ verdict = "Denied" /\ pc' = [pc EXCEPT ![d] = "decide"]
           \/ verdict = "Approved" /\ duration <= requests[r].duration /\ pc' = [pc EXCEPT ![d] = "validate"]
        /\ UNCHANGED <<now, current, requests, todo, decided, seen>>
    BY <1>6 DEF PendingRequest, Goto
  <2>4. r # d
    BY AccessAssumption
  <2> QED BY <2>1, <2>2, <2>3, <2>4, Fields, AccessAssumption DEF Objects, Copies, Pending
<1>7. ASSUME NEW d \in Deciders, ApproveValidate(d)
      PROVE Copies'
  BY <1>7, Fields, AccessAssumption DEF ApproveValidate, Goto, Objects, Copies, Pending
<1>8. ASSUME NEW d \in Deciders, ApproveBudget(d)
      PROVE Copies'
  BY <1>8, Fields, AccessAssumption DEF ApproveBudget, Goto, Objects, Copies, Pending
<1>9. ASSUME NEW d \in Deciders, Decide(d)
      PROVE Copies'
  <2>1. /\ decision[d].request \in Requests /\ decision[d].verdict \in {"Approved", "Denied"}
        /\ Wrote(decision[d].request, decision[d].verdict, decision[d].rv + 1,
                 IF decision[d].verdict = "Approved" THEN decision[d].stamp + decision[d].duration ELSE 0)
        /\ KeepsSpec(decision[d].request) /\ requests[decision[d].request].rv = decision[d].rv
    BY <1>9, DecideWrites
  <2>2. /\ pc[d] = "decide" /\ pc' = [pc EXCEPT ![d] = "idle"]
        /\ decision' = [decision EXCEPT ![d] = NoDecision] /\ fenced' = [fenced EXCEPT ![d] = FALSE]
        /\ decided' = decided \union {<<decision[d].request, decision[d].verdict>>}
        /\ UNCHANGED <<now, current, todo, seen>>
    BY <1>9 DEF Decide, Goto, Answer, GiveUp
  <2> QED BY <2>1, <2>2, Fields, AccessAssumption DEF Wrote, KeepsSpec, Objects, Copies, Pending
<1>10. ASSUME NEW d \in Deciders, Refuse(d)
      PROVE Copies'
  BY <1>10, Fields, AccessAssumption DEF Refuse, Goto, GiveUp, Objects, Copies, Pending
<1>11. ASSUME NEW e \in Expirers, ExpireList(e)
      PROVE Copies'
  BY <1>11, Fields, AccessAssumption DEF ExpireList, Goto, Objects, Copies, Pending
<1>12. ASSUME NEW e \in Expirers, NEW r \in Requests, ExpirePatch(e, r)
      PROVE Copies'
  <2>1. Wrote(r, "Expired", requests[r].rv + 1, requests[r].expires) /\ KeepsSpec(r)
    BY <1>12, ExpireWrites
  <2>2. /\ r \in todo[e] /\ todo' = [todo EXCEPT ![e] = @ \ {r}]
        /\ UNCHANGED <<now, current, pc, decision, decided, seen, fenced>>
    BY <1>12 DEF ExpirePatch, Goto
  <2> QED BY <2>1, <2>2, Fields, AccessAssumption DEF Wrote, KeepsSpec, Objects, Copies, Pending
<1>13. ASSUME NEW e \in Expirers, ExpireFails(e)
      PROVE Copies'
  BY <1>13, Fields, AccessAssumption DEF ExpireFails, Goto, Objects, Copies, Pending
<1>14. ASSUME NEW v \in Revisions, CreateAssignment(v)
      PROVE Copies'
  BY <1>14, Fields, AccessAssumption DEF CreateAssignment, Goto, Objects, Copies, Pending
<1>15. ASSUME NEW v \in Revisions, RevisePolicy(v)
      PROVE Copies'
  BY <1>15, Fields, AccessAssumption DEF RevisePolicy, Goto, Objects, Copies, Pending
<1>16. ASSUME DeleteAssignment
      PROVE Copies'
  BY <1>16, Fields, AccessAssumption DEF DeleteAssignment, Goto, Objects, Copies, Pending
<1>17. ASSUME Tick
      PROVE Copies'
  BY <1>17, Fields, AccessAssumption DEF Tick, Goto, Objects, Copies, Pending
<1>18. CASE UNCHANGED vars
  BY <1>18 DEF vars, Objects, Copies, Pending
<1> QED
  BY <1>1, <1>2, <1>3, <1>4, <1>5, <1>6, <1>7, <1>8, <1>9, <1>10, <1>11, <1>12, <1>13, <1>14, <1>15, <1>16, <1>17, <1>18 DEF Next, Submission, Deciding

\* Every step keeps Listed.
LEMMA ListedStep ==
    ASSUME TypeOK, Objects, Copies, Listed, [Next]_vars
    PROVE  Listed'
<1>1. ASSUME NEW r \in Requests, NEW target \in Targets, NEW duration \in Durations, Submit(r, target, duration)
      PROVE Listed'
  <2>1. /\ Wrote(r, requests[r].state, requests[r].rv, requests[r].expires)
        /\ requests'[r].uid = current.uid /\ requests'[r].duration = duration /\ duration \in Nat \ {0}
    BY <1>1, SubmitWrites
  <2>2. /\ pc[r] = "idle" /\ pc' = [pc EXCEPT ![r] = "duplicates"]
        /\ UNCHANGED <<now, current, decision, todo, decided, seen, fenced>>
    BY <1>1 DEF Submit, Goto
  <2> QED BY <2>1, <2>2, Fields, AccessAssumption DEF Wrote, KeepsSpec, Objects, Listed
<1>2. ASSUME NEW r \in Requests, SubmitDuplicates(r)
      PROVE Listed'
  BY <1>2, Fields, AccessAssumption DEF SubmitDuplicates, Goto, Objects, Listed
<1>3. ASSUME NEW r \in Requests, SubmitCreate(r)
      PROVE Listed'
  <2>1. Wrote(r, "unset", 1, requests[r].expires) /\ KeepsSpec(r)
    BY <1>3, CreateWrites
  <2>2. /\ pc[r] = "create" /\ \E step \in {"initialize", "done"} : pc' = [pc EXCEPT ![r] = step]
        /\ UNCHANGED <<now, current, decision, todo, decided, seen, fenced>>
    BY <1>3 DEF SubmitCreate, Goto
  <2> QED BY <2>1, <2>2, Fields, AccessAssumption DEF Wrote, KeepsSpec, Objects, Listed
<1>4. ASSUME NEW r \in Requests, SubmitInitialize(r)
      PROVE Listed'
  <2>1. \/ requests' = requests
        \/ Wrote(r, "Pending", 2, requests[r].expires) /\ KeepsSpec(r) /\ requests[r].rv = 1
    BY <1>4, InitializeWrites
  <2>2. /\ pc[r] = "initialize" /\ pc' = [pc EXCEPT ![r] = "done"]
        /\ UNCHANGED <<now, current, decision, todo, decided, seen, fenced>>
    BY <1>4 DEF SubmitInitialize, Goto
  <2> QED BY <2>1, <2>2, Fields, AccessAssumption DEF Wrote, KeepsSpec, Objects, Listed
<1>5. ASSUME NEW r \in Requests, Abandon(r)
      PROVE Listed'
  <2>1. Wrote(r, "none", 0, 0)
    BY <1>5, AbandonWrites
  <2>2. /\ pc[r] \in {"duplicates", "create"} /\ pc' = [pc EXCEPT ![r] = "idle"]
        /\ seen' = [seen EXCEPT ![r] = {}]
        /\ UNCHANGED <<now, current, decision, todo, decided, fenced>>
    BY <1>5 DEF Abandon, Goto
  <2> QED BY <2>1, <2>2, Fields, AccessAssumption DEF Wrote, KeepsSpec, Objects, Listed
<1>6. ASSUME NEW d \in Deciders, NEW r \in Requests, NEW duration \in Durations,
            NEW verdict \in {"Approved", "Denied"}, PendingRequest(d, r, verdict, duration)
      PROVE Listed'
  BY <1>6, Fields, AccessAssumption DEF PendingRequest, Goto, Objects, Listed
<1>7. ASSUME NEW d \in Deciders, ApproveValidate(d)
      PROVE Listed'
  BY <1>7, Fields, AccessAssumption DEF ApproveValidate, Goto, Objects, Listed
<1>8. ASSUME NEW d \in Deciders, ApproveBudget(d)
      PROVE Listed'
  BY <1>8, Fields, AccessAssumption DEF ApproveBudget, Goto, Objects, Listed
<1>9. ASSUME NEW d \in Deciders, Decide(d)
      PROVE Listed'
  <2>1. /\ decision[d].request \in Requests /\ decision[d].verdict \in {"Approved", "Denied"}
        /\ Wrote(decision[d].request, decision[d].verdict, decision[d].rv + 1,
                 IF decision[d].verdict = "Approved" THEN decision[d].stamp + decision[d].duration ELSE 0)
        /\ KeepsSpec(decision[d].request) /\ requests[decision[d].request].rv = decision[d].rv
    BY <1>9, DecideWrites
  <2>2. /\ pc[d] = "decide" /\ pc' = [pc EXCEPT ![d] = "idle"]
        /\ decision' = [decision EXCEPT ![d] = NoDecision] /\ fenced' = [fenced EXCEPT ![d] = FALSE]
        /\ decided' = decided \union {<<decision[d].request, decision[d].verdict>>}
        /\ UNCHANGED <<now, current, todo, seen>>
    BY <1>9 DEF Decide, Goto, Answer, GiveUp
  <2> QED BY <2>1, <2>2, Fields, AccessAssumption DEF Wrote, KeepsSpec, Objects, Listed, Copies, Pending
<1>10. ASSUME NEW d \in Deciders, Refuse(d)
      PROVE Listed'
  BY <1>10, Fields, AccessAssumption DEF Refuse, Goto, GiveUp, Objects, Listed
<1>11. ASSUME NEW e \in Expirers, ExpireList(e)
      PROVE Listed'
  BY <1>11, Fields, AccessAssumption DEF ExpireList, Goto, Objects, Listed, Overdue
<1>12. ASSUME NEW e \in Expirers, NEW r \in Requests, ExpirePatch(e, r)
      PROVE Listed'
  <2>1. Wrote(r, "Expired", requests[r].rv + 1, requests[r].expires) /\ KeepsSpec(r)
    BY <1>12, ExpireWrites
  <2>2. /\ r \in todo[e] /\ todo' = [todo EXCEPT ![e] = @ \ {r}]
        /\ UNCHANGED <<now, current, pc, decision, decided, seen, fenced>>
    BY <1>12 DEF ExpirePatch, Goto
  <2> QED BY <2>1, <2>2, Fields, AccessAssumption DEF Wrote, KeepsSpec, Objects, Listed
<1>13. ASSUME NEW e \in Expirers, ExpireFails(e)
      PROVE Listed'
  BY <1>13, Fields, AccessAssumption DEF ExpireFails, Goto, Objects, Listed
<1>14. ASSUME NEW v \in Revisions, CreateAssignment(v)
      PROVE Listed'
  BY <1>14, Fields, AccessAssumption DEF CreateAssignment, Goto, Objects, Listed
<1>15. ASSUME NEW v \in Revisions, RevisePolicy(v)
      PROVE Listed'
  BY <1>15, Fields, AccessAssumption DEF RevisePolicy, Goto, Objects, Listed
<1>16. ASSUME DeleteAssignment
      PROVE Listed'
  BY <1>16, Fields, AccessAssumption DEF DeleteAssignment, Goto, Objects, Listed
<1>17. ASSUME Tick
      PROVE Listed'
  BY <1>17, Fields, AccessAssumption DEF Tick, Goto, Objects, Listed
<1>18. CASE UNCHANGED vars
  BY <1>18 DEF vars, Objects, Listed
<1> QED
  BY <1>1, <1>2, <1>3, <1>4, <1>5, <1>6, <1>7, <1>8, <1>9, <1>10, <1>11, <1>12, <1>13, <1>14, <1>15, <1>16, <1>17, <1>18 DEF Next, Submission, Deciding

\* Every step keeps Fenced.
LEMMA FencedStep ==
    ASSUME TypeOK, Objects, Copies, Fenced, [Next]_vars
    PROVE  Fenced'
<1>1. ASSUME NEW r \in Requests, NEW target \in Targets, NEW duration \in Durations, Submit(r, target, duration)
      PROVE Fenced'
  <2>1. /\ Wrote(r, requests[r].state, requests[r].rv, requests[r].expires)
        /\ requests'[r].uid = current.uid /\ requests'[r].duration = duration /\ duration \in Nat \ {0}
    BY <1>1, SubmitWrites
  <2>2. /\ pc[r] = "idle" /\ pc' = [pc EXCEPT ![r] = "duplicates"]
        /\ UNCHANGED <<now, current, decision, todo, decided, seen, fenced>>
    BY <1>1 DEF Submit, Goto
  <2> QED BY <2>1, <2>2, Fields, AccessAssumption DEF Wrote, KeepsSpec, Objects, Copies, Fenced
<1>2. ASSUME NEW r \in Requests, SubmitDuplicates(r)
      PROVE Fenced'
  BY <1>2, Fields, AccessAssumption DEF SubmitDuplicates, Goto, Objects, Copies, Fenced
<1>3. ASSUME NEW r \in Requests, SubmitCreate(r)
      PROVE Fenced'
  <2>1. Wrote(r, "unset", 1, requests[r].expires) /\ KeepsSpec(r)
    BY <1>3, CreateWrites
  <2>2. /\ pc[r] = "create" /\ \E step \in {"initialize", "done"} : pc' = [pc EXCEPT ![r] = step]
        /\ UNCHANGED <<now, current, decision, todo, decided, seen, fenced>>
    BY <1>3 DEF SubmitCreate, Goto
  <2> QED BY <2>1, <2>2, Fields, AccessAssumption DEF Wrote, KeepsSpec, Objects, Copies, Fenced
<1>4. ASSUME NEW r \in Requests, SubmitInitialize(r)
      PROVE Fenced'
  <2>1. \/ requests' = requests
        \/ Wrote(r, "Pending", 2, requests[r].expires) /\ KeepsSpec(r) /\ requests[r].rv = 1
    BY <1>4, InitializeWrites
  <2>2. /\ pc[r] = "initialize" /\ pc' = [pc EXCEPT ![r] = "done"]
        /\ UNCHANGED <<now, current, decision, todo, decided, seen, fenced>>
    BY <1>4 DEF SubmitInitialize, Goto
  <2> QED BY <2>1, <2>2, Fields, AccessAssumption DEF Wrote, KeepsSpec, Objects, Copies, Fenced
<1>5. ASSUME NEW r \in Requests, Abandon(r)
      PROVE Fenced'
  <2>1. Wrote(r, "none", 0, 0)
    BY <1>5, AbandonWrites
  <2>2. /\ pc[r] \in {"duplicates", "create"} /\ pc' = [pc EXCEPT ![r] = "idle"]
        /\ seen' = [seen EXCEPT ![r] = {}]
        /\ UNCHANGED <<now, current, decision, todo, decided, fenced>>
    BY <1>5 DEF Abandon, Goto
  <2> QED BY <2>1, <2>2, Fields, AccessAssumption DEF Wrote, KeepsSpec, Objects, Copies, Fenced
<1>6. ASSUME NEW d \in Deciders, NEW r \in Requests, NEW duration \in Durations,
            NEW verdict \in {"Approved", "Denied"}, PendingRequest(d, r, verdict, duration)
      PROVE Fenced'
  <2>1. /\ pc[d] = "idle" /\ Pending(r) /\ pc[r] \in {"initialize", "done"}
        /\ requests[r].uid <= current.uid
    BY <1>6, Fields DEF PendingRequest, Objects, Pending
  <2>2. /\ decision'[d].request = r /\ decision'[d].rv = requests[r].rv /\ decision'[d].verdict = verdict
        /\ decision'[d].duration = duration /\ decision'[d].stamp = 0
        /\ \A c \in Deciders : c # d => decision'[c] = decision[c]
    BY <1>6 DEF PendingRequest, TypeOK
  <2>3. /\ \/ verdict = "Denied" /\ pc' = [pc EXCEPT ![d] = "decide"]
           \/ verdict = "Approved" /\ duration <= requests[r].duration /\ pc' = [pc EXCEPT ![d] = "validate"]
        /\ UNCHANGED <<now, current, requests, todo, decided, seen>>
    BY <1>6 DEF PendingRequest, Goto
  <2>4. /\ fenced'[d] => requests[r].uid # current.uid \/ ~current.live
        /\ \A c \in Deciders : c # d => fenced'[c] = fenced[c]
    BY <1>6 DEF PendingRequest, TypeOK
  <2>5. \A c \in Deciders : c # d => pc'[c] = pc[c]
    BY <2>3, Fields
  <2>6. pc'[d] \in {"validate", "decide"} /\ (pc'[d] = "decide" => verdict = "Denied")
    BY <2>3, Fields
  <2>7. fenced'[d] => requests[r].uid < current.uid \/ (requests[r].uid = current.uid /\ ~current.live)
    BY <2>1, <2>4, Fields
  <2> QED BY <2>2, <2>3, <2>4, <2>5, <2>6, <2>7 DEF Fenced
<1>7. ASSUME NEW d \in Deciders, ApproveValidate(d)
      PROVE Fenced'
  BY <1>7, Fields, AccessAssumption DEF ApproveValidate, Goto, Objects, Copies, Fenced, Fresh
<1>8. ASSUME NEW d \in Deciders, ApproveBudget(d)
      PROVE Fenced'
  BY <1>8, Fields, AccessAssumption DEF ApproveBudget, Goto, Objects, Copies, Fenced
<1>9. ASSUME NEW d \in Deciders, Decide(d)
      PROVE Fenced'
  <2>1. /\ decision[d].request \in Requests /\ decision[d].verdict \in {"Approved", "Denied"}
        /\ Wrote(decision[d].request, decision[d].verdict, decision[d].rv + 1,
                 IF decision[d].verdict = "Approved" THEN decision[d].stamp + decision[d].duration ELSE 0)
        /\ KeepsSpec(decision[d].request) /\ requests[decision[d].request].rv = decision[d].rv
    BY <1>9, DecideWrites
  <2>2. /\ pc[d] = "decide" /\ pc' = [pc EXCEPT ![d] = "idle"]
        /\ decision' = [decision EXCEPT ![d] = NoDecision] /\ fenced' = [fenced EXCEPT ![d] = FALSE]
        /\ decided' = decided \union {<<decision[d].request, decision[d].verdict>>}
        /\ UNCHANGED <<now, current, todo, seen>>
    BY <1>9 DEF Decide, Goto, Answer, GiveUp
  <2> QED BY <2>1, <2>2, Fields, AccessAssumption DEF Wrote, KeepsSpec, Objects, Copies, Fenced
<1>10. ASSUME NEW d \in Deciders, Refuse(d)
      PROVE Fenced'
  BY <1>10, Fields, AccessAssumption DEF Refuse, Goto, GiveUp, Objects, Copies, Fenced
<1>11. ASSUME NEW e \in Expirers, ExpireList(e)
      PROVE Fenced'
  BY <1>11, Fields, AccessAssumption DEF ExpireList, Goto, Objects, Copies, Fenced
<1>12. ASSUME NEW e \in Expirers, NEW r \in Requests, ExpirePatch(e, r)
      PROVE Fenced'
  <2>1. Wrote(r, "Expired", requests[r].rv + 1, requests[r].expires) /\ KeepsSpec(r)
    BY <1>12, ExpireWrites
  <2>2. /\ r \in todo[e] /\ todo' = [todo EXCEPT ![e] = @ \ {r}]
        /\ UNCHANGED <<now, current, pc, decision, decided, seen, fenced>>
    BY <1>12 DEF ExpirePatch, Goto
  <2> QED BY <2>1, <2>2, Fields, AccessAssumption DEF Wrote, KeepsSpec, Objects, Copies, Fenced
<1>13. ASSUME NEW e \in Expirers, ExpireFails(e)
      PROVE Fenced'
  BY <1>13, Fields, AccessAssumption DEF ExpireFails, Goto, Objects, Copies, Fenced
<1>14. ASSUME NEW v \in Revisions, CreateAssignment(v)
      PROVE Fenced'
  BY <1>14, Fields, AccessAssumption DEF CreateAssignment, Goto, Objects, Copies, Fenced
<1>15. ASSUME NEW v \in Revisions, RevisePolicy(v)
      PROVE Fenced'
  BY <1>15, Fields, AccessAssumption DEF RevisePolicy, Goto, Objects, Copies, Fenced
<1>16. ASSUME DeleteAssignment
      PROVE Fenced'
  BY <1>16, Fields, AccessAssumption DEF DeleteAssignment, Goto, Objects, Copies, Fenced
<1>17. ASSUME Tick
      PROVE Fenced'
  BY <1>17, Fields, AccessAssumption DEF Tick, Goto, Objects, Copies, Fenced
<1>18. CASE UNCHANGED vars
  BY <1>18 DEF vars, Objects, Copies, Fenced
<1> QED
  BY <1>1, <1>2, <1>3, <1>4, <1>5, <1>6, <1>7, <1>8, <1>9, <1>10, <1>11, <1>12, <1>13, <1>14, <1>15, <1>16, <1>17, <1>18 DEF Next, Submission, Deciding

\* Every step keeps Checked: no request becomes active again.
LEMMA CheckedStep ==
    ASSUME TypeOK, Objects, Copies, Listed, Checked, [Next]_vars
    PROVE  Checked'
<1>1. ASSUME NEW r \in Requests, NEW target \in Targets, NEW duration \in Durations, Submit(r, target, duration)
      PROVE Checked'
  <2>1. /\ Wrote(r, requests[r].state, requests[r].rv, requests[r].expires)
        /\ requests'[r].uid = current.uid /\ requests'[r].duration = duration /\ duration \in Nat \ {0}
    BY <1>1, SubmitWrites
  <2>2. /\ pc[r] = "idle" /\ pc' = [pc EXCEPT ![r] = "duplicates"]
        /\ UNCHANGED <<now, current, decision, todo, decided, seen, fenced>>
    BY <1>1 DEF Submit, Goto
  <2> QED BY <2>1, <2>2, Fields, AccessAssumption DEF Wrote, KeepsSpec, Objects, Checked, Active, Pending, SameGrant
<1>2. ASSUME NEW r \in Requests, SubmitDuplicates(r)
      PROVE Checked'
  BY <1>2, Fields, AccessAssumption DEF SubmitDuplicates, Goto, Objects, Checked, Active, Pending, SameGrant, HasActiveDuplicate
<1>3. ASSUME NEW r \in Requests, SubmitCreate(r)
      PROVE Checked'
  <2>1. Wrote(r, "unset", 1, requests[r].expires) /\ KeepsSpec(r)
    BY <1>3, CreateWrites
  <2>2. /\ pc[r] = "create" /\ \E step \in {"initialize", "done"} : pc' = [pc EXCEPT ![r] = step]
        /\ UNCHANGED <<now, current, decision, todo, decided, seen, fenced>>
    BY <1>3 DEF SubmitCreate, Goto
  <2> QED BY <2>1, <2>2, Fields, AccessAssumption DEF Wrote, KeepsSpec, Objects, Checked, Active, Pending, SameGrant
<1>4. ASSUME NEW r \in Requests, SubmitInitialize(r)
      PROVE Checked'
  <2>1. \/ requests' = requests
        \/ Wrote(r, "Pending", 2, requests[r].expires) /\ KeepsSpec(r) /\ requests[r].rv = 1
    BY <1>4, InitializeWrites
  <2>2. /\ pc[r] = "initialize" /\ pc' = [pc EXCEPT ![r] = "done"]
        /\ UNCHANGED <<now, current, decision, todo, decided, seen, fenced>>
    BY <1>4 DEF SubmitInitialize, Goto
  <2> QED BY <2>1, <2>2, Fields, AccessAssumption DEF Wrote, KeepsSpec, Objects, Checked, Active, Pending, SameGrant
<1>5. ASSUME NEW r \in Requests, Abandon(r)
      PROVE Checked'
  <2>1. Wrote(r, "none", 0, 0)
    BY <1>5, AbandonWrites
  <2>2. /\ pc[r] \in {"duplicates", "create"} /\ pc' = [pc EXCEPT ![r] = "idle"]
        /\ seen' = [seen EXCEPT ![r] = {}]
        /\ UNCHANGED <<now, current, decision, todo, decided, fenced>>
    BY <1>5 DEF Abandon, Goto
  <2> QED BY <2>1, <2>2, Fields, AccessAssumption DEF Wrote, KeepsSpec, Objects, Checked, Active, Pending, SameGrant
<1>6. ASSUME NEW d \in Deciders, NEW r \in Requests, NEW duration \in Durations,
            NEW verdict \in {"Approved", "Denied"}, PendingRequest(d, r, verdict, duration)
      PROVE Checked'
  BY <1>6, Fields, AccessAssumption DEF PendingRequest, Goto, Objects, Checked, Active, Pending, SameGrant
<1>7. ASSUME NEW d \in Deciders, ApproveValidate(d)
      PROVE Checked'
  BY <1>7, Fields, AccessAssumption DEF ApproveValidate, Goto, Objects, Checked, Active, Pending, SameGrant
<1>8. ASSUME NEW d \in Deciders, ApproveBudget(d)
      PROVE Checked'
  BY <1>8, Fields, AccessAssumption DEF ApproveBudget, Goto, Objects, Checked, Active, Pending, SameGrant
<1>9. ASSUME NEW d \in Deciders, Decide(d)
      PROVE Checked'
  <2>1. /\ decision[d].request \in Requests /\ decision[d].verdict \in {"Approved", "Denied"}
        /\ Wrote(decision[d].request, decision[d].verdict, decision[d].rv + 1,
                 IF decision[d].verdict = "Approved" THEN decision[d].stamp + decision[d].duration ELSE 0)
        /\ KeepsSpec(decision[d].request) /\ requests[decision[d].request].rv = decision[d].rv
    BY <1>9, DecideWrites
  <2>2. /\ pc[d] = "decide" /\ pc' = [pc EXCEPT ![d] = "idle"]
        /\ decision' = [decision EXCEPT ![d] = NoDecision] /\ fenced' = [fenced EXCEPT ![d] = FALSE]
        /\ decided' = decided \union {<<decision[d].request, decision[d].verdict>>}
        /\ UNCHANGED <<now, current, todo, seen>>
    BY <1>9 DEF Decide, Goto, Answer, GiveUp
  <2> QED BY <2>1, <2>2, Fields, AccessAssumption DEF Wrote, KeepsSpec, Objects, Checked, Active, Pending, SameGrant, Copies
<1>10. ASSUME NEW d \in Deciders, Refuse(d)
      PROVE Checked'
  BY <1>10, Fields, AccessAssumption DEF Refuse, Goto, GiveUp, Objects, Checked, Active, Pending, SameGrant
<1>11. ASSUME NEW e \in Expirers, ExpireList(e)
      PROVE Checked'
  BY <1>11, Fields, AccessAssumption DEF ExpireList, Goto, Objects, Checked, Active, Pending, SameGrant
<1>12. ASSUME NEW e \in Expirers, NEW r \in Requests, ExpirePatch(e, r)
      PROVE Checked'
  <2>1. Wrote(r, "Expired", requests[r].rv + 1, requests[r].expires) /\ KeepsSpec(r)
    BY <1>12, ExpireWrites
  <2>2. /\ r \in todo[e] /\ todo' = [todo EXCEPT ![e] = @ \ {r}]
        /\ UNCHANGED <<now, current, pc, decision, decided, seen, fenced>>
    BY <1>12 DEF ExpirePatch, Goto
  <2> QED BY <2>1, <2>2, Fields, AccessAssumption DEF Wrote, KeepsSpec, Objects, Checked, Active, Pending, SameGrant, Listed
<1>13. ASSUME NEW e \in Expirers, ExpireFails(e)
      PROVE Checked'
  BY <1>13, Fields, AccessAssumption DEF ExpireFails, Goto, Objects, Checked, Active, Pending, SameGrant
<1>14. ASSUME NEW v \in Revisions, CreateAssignment(v)
      PROVE Checked'
  BY <1>14, Fields, AccessAssumption DEF CreateAssignment, Goto, Objects, Checked, Active, Pending, SameGrant
<1>15. ASSUME NEW v \in Revisions, RevisePolicy(v)
      PROVE Checked'
  BY <1>15, Fields, AccessAssumption DEF RevisePolicy, Goto, Objects, Checked, Active, Pending, SameGrant
<1>16. ASSUME DeleteAssignment
      PROVE Checked'
  BY <1>16, Fields, AccessAssumption DEF DeleteAssignment, Goto, Objects, Checked, Active, Pending, SameGrant
<1>17. ASSUME Tick
      PROVE Checked'
  BY <1>17, Fields, AccessAssumption DEF Tick, Goto, Objects, Checked, Active, Pending, SameGrant
<1>18. CASE UNCHANGED vars
  BY <1>18 DEF vars, Objects, Checked, Active, Pending, SameGrant
<1> QED
  BY <1>1, <1>2, <1>3, <1>4, <1>5, <1>6, <1>7, <1>8, <1>9, <1>10, <1>11, <1>12, <1>13, <1>14, <1>15, <1>16, <1>17, <1>18 DEF Next, Submission, Deciding

\* Every step keeps DecisionStands.
LEMMA StandsStep ==
    ASSUME TypeOK, Objects, Copies, Listed, DecisionStands, [Next]_vars
    PROVE  DecisionStands'
<1>1. ASSUME NEW r \in Requests, NEW target \in Targets, NEW duration \in Durations, Submit(r, target, duration)
      PROVE DecisionStands'
  <2>1. /\ Wrote(r, requests[r].state, requests[r].rv, requests[r].expires)
        /\ requests'[r].uid = current.uid /\ requests'[r].duration = duration /\ duration \in Nat \ {0}
    BY <1>1, SubmitWrites
  <2>2. /\ pc[r] = "idle" /\ pc' = [pc EXCEPT ![r] = "duplicates"]
        /\ UNCHANGED <<now, current, decision, todo, decided, seen, fenced>>
    BY <1>1 DEF Submit, Goto
  <2> QED BY <2>1, <2>2, Fields, AccessAssumption DEF Wrote, KeepsSpec, Objects, DecisionStands
<1>2. ASSUME NEW r \in Requests, SubmitDuplicates(r)
      PROVE DecisionStands'
  BY <1>2, Fields, AccessAssumption DEF SubmitDuplicates, Goto, Objects, DecisionStands
<1>3. ASSUME NEW r \in Requests, SubmitCreate(r)
      PROVE DecisionStands'
  <2>1. Wrote(r, "unset", 1, requests[r].expires) /\ KeepsSpec(r)
    BY <1>3, CreateWrites
  <2>2. /\ pc[r] = "create" /\ \E step \in {"initialize", "done"} : pc' = [pc EXCEPT ![r] = step]
        /\ UNCHANGED <<now, current, decision, todo, decided, seen, fenced>>
    BY <1>3 DEF SubmitCreate, Goto
  <2> QED BY <2>1, <2>2, Fields, AccessAssumption DEF Wrote, KeepsSpec, Objects, DecisionStands
<1>4. ASSUME NEW r \in Requests, SubmitInitialize(r)
      PROVE DecisionStands'
  <2>1. \/ requests' = requests
        \/ Wrote(r, "Pending", 2, requests[r].expires) /\ KeepsSpec(r) /\ requests[r].rv = 1
    BY <1>4, InitializeWrites
  <2>2. /\ pc[r] = "initialize" /\ pc' = [pc EXCEPT ![r] = "done"]
        /\ UNCHANGED <<now, current, decision, todo, decided, seen, fenced>>
    BY <1>4 DEF SubmitInitialize, Goto
  <2> QED BY <2>1, <2>2, Fields, AccessAssumption DEF Wrote, KeepsSpec, Objects, DecisionStands
<1>5. ASSUME NEW r \in Requests, Abandon(r)
      PROVE DecisionStands'
  <2>1. Wrote(r, "none", 0, 0)
    BY <1>5, AbandonWrites
  <2>2. /\ pc[r] \in {"duplicates", "create"} /\ pc' = [pc EXCEPT ![r] = "idle"]
        /\ seen' = [seen EXCEPT ![r] = {}]
        /\ UNCHANGED <<now, current, decision, todo, decided, fenced>>
    BY <1>5 DEF Abandon, Goto
  <2> QED BY <2>1, <2>2, Fields, AccessAssumption DEF Wrote, KeepsSpec, Objects, DecisionStands
<1>6. ASSUME NEW d \in Deciders, NEW r \in Requests, NEW duration \in Durations,
            NEW verdict \in {"Approved", "Denied"}, PendingRequest(d, r, verdict, duration)
      PROVE DecisionStands'
  BY <1>6, Fields, AccessAssumption DEF PendingRequest, Goto, Objects, DecisionStands
<1>7. ASSUME NEW d \in Deciders, ApproveValidate(d)
      PROVE DecisionStands'
  BY <1>7, Fields, AccessAssumption DEF ApproveValidate, Goto, Objects, DecisionStands
<1>8. ASSUME NEW d \in Deciders, ApproveBudget(d)
      PROVE DecisionStands'
  BY <1>8, Fields, AccessAssumption DEF ApproveBudget, Goto, Objects, DecisionStands
<1>9. ASSUME NEW d \in Deciders, Decide(d)
      PROVE DecisionStands'
  <2>1. /\ decision[d].request \in Requests /\ decision[d].verdict \in {"Approved", "Denied"}
        /\ Wrote(decision[d].request, decision[d].verdict, decision[d].rv + 1,
                 IF decision[d].verdict = "Approved" THEN decision[d].stamp + decision[d].duration ELSE 0)
        /\ KeepsSpec(decision[d].request) /\ requests[decision[d].request].rv = decision[d].rv
    BY <1>9, DecideWrites
  <2>2. /\ pc[d] = "decide" /\ pc' = [pc EXCEPT ![d] = "idle"]
        /\ decision' = [decision EXCEPT ![d] = NoDecision] /\ fenced' = [fenced EXCEPT ![d] = FALSE]
        /\ decided' = decided \union {<<decision[d].request, decision[d].verdict>>}
        /\ UNCHANGED <<now, current, todo, seen>>
    BY <1>9 DEF Decide, Goto, Answer, GiveUp
  <2> QED BY <2>1, <2>2, Fields, AccessAssumption DEF Wrote, KeepsSpec, Objects, DecisionStands, Copies, Pending
<1>10. ASSUME NEW d \in Deciders, Refuse(d)
      PROVE DecisionStands'
  BY <1>10, Fields, AccessAssumption DEF Refuse, Goto, GiveUp, Objects, DecisionStands
<1>11. ASSUME NEW e \in Expirers, ExpireList(e)
      PROVE DecisionStands'
  BY <1>11, Fields, AccessAssumption DEF ExpireList, Goto, Objects, DecisionStands
<1>12. ASSUME NEW e \in Expirers, NEW r \in Requests, ExpirePatch(e, r)
      PROVE DecisionStands'
  <2>1. Wrote(r, "Expired", requests[r].rv + 1, requests[r].expires) /\ KeepsSpec(r)
    BY <1>12, ExpireWrites
  <2>2. /\ r \in todo[e] /\ todo' = [todo EXCEPT ![e] = @ \ {r}]
        /\ UNCHANGED <<now, current, pc, decision, decided, seen, fenced>>
    BY <1>12 DEF ExpirePatch, Goto
  <2> QED BY <2>1, <2>2, Fields, AccessAssumption DEF Wrote, KeepsSpec, Objects, DecisionStands, Listed
<1>13. ASSUME NEW e \in Expirers, ExpireFails(e)
      PROVE DecisionStands'
  BY <1>13, Fields, AccessAssumption DEF ExpireFails, Goto, Objects, DecisionStands
<1>14. ASSUME NEW v \in Revisions, CreateAssignment(v)
      PROVE DecisionStands'
  BY <1>14, Fields, AccessAssumption DEF CreateAssignment, Goto, Objects, DecisionStands
<1>15. ASSUME NEW v \in Revisions, RevisePolicy(v)
      PROVE DecisionStands'
  BY <1>15, Fields, AccessAssumption DEF RevisePolicy, Goto, Objects, DecisionStands
<1>16. ASSUME DeleteAssignment
      PROVE DecisionStands'
  BY <1>16, Fields, AccessAssumption DEF DeleteAssignment, Goto, Objects, DecisionStands
<1>17. ASSUME Tick
      PROVE DecisionStands'
  BY <1>17, Fields, AccessAssumption DEF Tick, Goto, Objects, DecisionStands
<1>18. CASE UNCHANGED vars
  BY <1>18 DEF vars, Objects, DecisionStands
<1> QED
  BY <1>1, <1>2, <1>3, <1>4, <1>5, <1>6, <1>7, <1>8, <1>9, <1>10, <1>11, <1>12, <1>13, <1>14, <1>15, <1>16, <1>17, <1>18 DEF Next, Submission, Deciding

-----------------------------------------------------------------------------
(* The theorems. *)

\* The invariant holds at the start.
LEMMA InitIInv ==
    ASSUME Init
    PROVE  IInv
<1>1. Absent \in RequestObjects /\ NoDecision \in DecisionCopies
  BY AccessAssumption DEF Absent, NoDecision, RequestObjects, DecisionCopies
<1>2. TypeOK
  <2>1. current \in [uid : 1..MaxUid, revision : Revisions, live : BOOLEAN]
    <3>1. 1 \in 1..MaxUid /\ TRUE \in BOOLEAN
      BY AccessAssumption
    <3>2. current \in [uid : {1}, revision : Revisions, live : {TRUE}]
      BY DEF Init
    <3> QED BY <3>1, <3>2
  <2> QED BY <1>1, <2>1 DEF Init, TypeOK, Steps
<1>3. Objects
  BY DEF Init, Objects, Absent
<1>4. Copies /\ Fenced
  BY DEF Init, Copies, Fenced
<1>5. Listed /\ Checked /\ DecisionStands
  BY DEF Init, Listed, Checked, DecisionStands
<1> QED BY <1>2, <1>3, <1>4, <1>5 DEF IInv

\* It is kept by every step.
LEMMA Inductive == Spec => []IInv
<1>1. Init => IInv
  BY InitIInv
<1>2. IInv /\ [Next]_vars => IInv'
  BY TypeStep, ObjectsStep, CopiesStep, ListedStep, FencedStep, CheckedStep, StandsStep DEF IInv
<1> QED BY <1>1, <1>2, PTL DEF Spec

(* Objects, handlers and copies keep their shapes.                           *)
THEOREM AccessTypeCorrect == Spec => []TypeOK
<1>1. IInv => TypeOK
  BY DEF IInv
<1> QED BY <1>1, Inductive, PTL

(* For any number of administrators deciding at once: no stored decision is  *)
(* replaced by another, by the submission's own late status write, or by the *)
(* clean-up (updateRequestStatus, expireAccessRequests).                     *)
THEOREM StoredDecisionStands == Spec => []DecisionStands
<1>1. IInv => DecisionStands
  BY DEF IInv
<1> QED BY <1>1, Inductive, PTL

(* An approval whose request was stale when its handler began is not stored, *)
(* however the assignment is deleted, recreated and revised meanwhile.       *)
THEOREM NoStaleApproval == Spec => []StaleNeverApproved
<1>1. IInv => StaleNeverApproved
  BY DEF IInv, Fenced, StaleNeverApproved
<1> QED BY <1>1, Inductive, PTL

(* Active duplicates come only from submissions that overlapped.             *)
THEOREM DuplicatesOverlap == Spec => []DuplicatesOnlyFromOverlap
<1>1. IInv => DuplicatesOnlyFromOverlap
  BY DEF IInv, Checked, DuplicatesOnlyFromOverlap
<1> QED BY <1>1, Inductive, PTL

-----------------------------------------------------------------------------
(* AccessRequests implements the safety of RequestLifecycle. *)

\* What the refinement mapping makes of a request's state.
LEMMA PhaseOf ==
    ASSUME TypeOK, NEW r \in Requests
    PROVE  /\ Phase(r) = "absent" <=> requests[r].state = "none"
           /\ Phase(r) = "pending" <=> requests[r].state \in {"unset", "Pending"}
           /\ Phase(r) = "approved" <=> requests[r].state = "Approved"
           /\ Phase(r) = "denied" <=> requests[r].state = "Denied"
           /\ Phase(r) = "expired" <=> requests[r].state = "Expired"
           /\ Phase(r) \in {"absent", "pending", "approved", "denied", "expired"}
BY Fields DEF Phase, Pending

\* The same in the next state.
LEMMA PhaseOfNext ==
    ASSUME TypeOK', NEW r \in Requests
    PROVE  /\ Phase(r)' = "absent" <=> requests'[r].state = "none"
           /\ Phase(r)' = "pending" <=> requests'[r].state \in {"unset", "Pending"}
           /\ Phase(r)' = "approved" <=> requests'[r].state = "Approved"
           /\ Phase(r)' = "denied" <=> requests'[r].state = "Denied"
           /\ Phase(r)' = "expired" <=> requests'[r].state = "Expired"
           /\ Phase(r)' \in {"absent", "pending", "approved", "denied", "expired"}
<1>1. requests'[r].state \in {"none", "unset", "Pending", "Approved", "Denied", "Expired"}
  BY DEF TypeOK, RequestObjects
<1> QED BY <1>1 DEF Phase, Pending

Same(q) ==
    /\ Phase(q)' = Phase(q) /\ Requested(q)' = Requested(q)
    /\ requests'[q].expires = requests[q].expires

\* Every step is a step of RequestLifecycle, or changes nothing that it sees.
LEMMA StepRefines ==
    ASSUME IInv, IInv', [Next]_vars
    PROVE  [Lifecycle!Next]_(Lifecycle!lifecycle)
<1> USE DEF IInv
<1> DEFINE Quiet == now' = now /\ \A q \in Requests : Same(q)
<1>q. Quiet => UNCHANGED Lifecycle!lifecycle
  BY DEF Lifecycle!lifecycle, Same
<1>u. requests' = requests => \A q \in Requests : Same(q)
  BY DEF Same, Phase, Pending, Requested
<1>1. ASSUME NEW r \in Requests, NEW target \in Targets, NEW duration \in Durations,
             Submit(r, target, duration)
      PROVE  Quiet
  <2>1. Wrote(r, requests[r].state, requests[r].rv, requests[r].expires)
    BY <1>1, SubmitWrites
  <2>2. pc[r] = "idle" /\ now' = now
    BY <1>1 DEF Submit
  <2>3. requests[r].state = "none"
    BY <2>2 DEF Objects
  <2> QED BY <2>1, <2>2, <2>3 DEF Wrote, Same, Phase, Pending, Requested
<1>2. ASSUME NEW r \in Requests, Abandon(r) PROVE Quiet
  <2>1. Wrote(r, "none", 0, 0)
    BY <1>2, AbandonWrites
  <2>2. pc[r] \in {"duplicates", "create"} /\ now' = now
    BY <1>2 DEF Abandon
  <2>3. requests[r].state = "none" /\ requests[r].expires = 0
    BY <2>2 DEF Objects
  <2> QED BY <2>1, <2>2, <2>3 DEF Wrote, Same, Phase, Pending, Requested
<1>3. ASSUME NEW r \in Requests, SubmitInitialize(r) PROVE Quiet
  <2>1. \/ requests' = requests
        \/ Wrote(r, "Pending", 2, requests[r].expires) /\ KeepsSpec(r) /\ requests[r].rv = 1
    BY <1>3, InitializeWrites
  <2>2. pc[r] = "initialize" /\ now' = now
    BY <1>3 DEF SubmitInitialize
  <2>3. requests[r].rv = 1 => requests[r].state = "unset"
    BY DEF Objects
  <2> QED BY <1>u, <2>1, <2>2, <2>3 DEF Wrote, KeepsSpec, Same, Phase, Pending, Requested
<1>4. ASSUME NEW r \in Requests, SubmitCreate(r) PROVE Lifecycle!Submit(r)
  <2>1. Wrote(r, "unset", 1, requests[r].expires) /\ KeepsSpec(r)
    BY <1>4, CreateWrites
  <2>2. pc[r] = "create" /\ now' = now
    BY <1>4 DEF SubmitCreate
  <2>3. requests[r].state = "none" /\ requests[r].duration # 0 /\ requests[r].expires = 0
    BY <2>2 DEF Objects
  <2>4. Phase(r) = "absent" /\ Phase(r)' = "pending"
    BY <2>1, <2>3, PhaseOf, PhaseOfNext DEF Wrote
  <2>5. Requested(r)' = requests[r].duration
    BY <2>1 DEF Wrote, KeepsSpec, Requested
  <2>6. \A q \in Requests : q # r => Same(q)
    BY <2>1 DEF Wrote, Same, Phase, Pending, Requested
  <2>7. requests'[r].expires = requests[r].expires
    BY <2>1 DEF Wrote
  <2> QED BY <2>2, <2>3, <2>4, <2>5, <2>6, <2>7 DEF Lifecycle!Submit, Lifecycle!Move, Same
<1>5. ASSUME NEW d \in Deciders, Decide(d)
      PROVE  \E r \in Requests : Lifecycle!Approve(r) \/ Lifecycle!Deny(r)
  <2>1. /\ decision[d].request \in Requests /\ decision[d].verdict \in {"Approved", "Denied"}
        /\ LET c == decision[d] IN
           /\ Wrote(c.request, c.verdict, c.rv + 1,
                    IF c.verdict = "Approved" THEN c.stamp + c.duration ELSE 0)
           /\ KeepsSpec(c.request) /\ requests[c.request].rv = c.rv
    BY <1>5, DecideWrites
  <2>2. pc[d] = "decide" /\ now' = now
    BY <1>5 DEF Decide
  <2>p. PICK r \in Requests, verdict \in {"Approved", "Denied"}, stamp \in Nat, duration \in Nat, rv \in Nat :
          /\ r = decision[d].request /\ verdict = decision[d].verdict /\ rv = decision[d].rv
          /\ stamp = decision[d].stamp /\ duration = decision[d].duration
    BY <2>1 DEF TypeOK, DecisionCopies
  <2> DEFINE e == IF verdict = "Approved" THEN stamp + duration ELSE 0
  <2>w. Wrote(r, verdict, rv + 1, e) /\ KeepsSpec(r) /\ requests[r].rv = rv
    BY <2>1, <2>p
  <2>3. /\ requests[r].state \in {"unset", "Pending"} /\ stamp <= now
        /\ verdict = "Approved" => duration <= requests[r].duration
    BY <2>p, <2>w, <2>2 DEF Copies, Pending
  <2>4. requests[r].expires = 0
    BY <2>3 DEF Objects
  <2>5. Phase(r) = "pending" /\ Requested(r)' = Requested(r) /\ Requested(r) = requests[r].duration
    BY <2>w, <2>3, PhaseOf DEF Wrote, KeepsSpec, Requested
  <2>6. \A q \in Requests : q # r => Same(q)
    BY <2>w DEF Wrote, Same, Phase, Pending, Requested
  <2>7. CASE verdict = "Approved"
    <3>1. Phase(r)' = "approved"
      BY <2>w, <2>7, PhaseOfNext DEF Wrote
    <3>2. requests'[r].expires = stamp + duration
      BY <2>w, <2>7 DEF Wrote
    <3>3. requests[r].duration \in Nat /\ now \in Nat
      BY Fields DEF TypeOK
    <3>4. stamp + duration \in 0..(now + Requested(r))
      BY <2>3, <2>5, <2>7, <3>3
    <3> HIDE DEF e
    <3> QED BY <2>2, <2>5, <2>6, <3>1, <3>2, <3>4 DEF Lifecycle!Approve, Lifecycle!Move, Same
  <2>8. CASE verdict = "Denied"
    <3>1. Phase(r)' = "denied"
      BY <2>w, <2>8, PhaseOfNext DEF Wrote
    <3>2. requests'[r].expires = requests[r].expires
      BY <2>w, <2>4, <2>8 DEF Wrote
    <3> HIDE DEF e
    <3> QED BY <2>2, <2>5, <2>6, <3>1, <3>2 DEF Lifecycle!Deny, Lifecycle!Move, Same
  <2> QED BY <2>7, <2>8
<1>6. ASSUME NEW e \in Expirers, NEW r \in Requests, ExpirePatch(e, r)
      PROVE  Lifecycle!Expire(r) \/ Quiet
  <2>1. Wrote(r, "Expired", requests[r].rv + 1, requests[r].expires) /\ KeepsSpec(r)
    BY <1>6, ExpireWrites
  <2>2. now' = now /\ requests[r].state \in {"Approved", "Expired"} /\ requests[r].expires <= now
    BY <1>6 DEF ExpirePatch, Listed
  <2>3. Phase(r)' = "expired" /\ Requested(r)' = Requested(r)
    BY <2>1, <2>2, PhaseOfNext DEF Wrote, KeepsSpec, Requested
  <2>4. \A q \in Requests : q # r => Same(q)
    BY <2>1 DEF Wrote, Same, Phase, Pending, Requested
  <2>5. requests'[r].expires = requests[r].expires
    BY <2>1 DEF Wrote
  <2>6. CASE requests[r].state = "Approved"
    <3>1. Phase(r) = "approved"
      BY <2>6, PhaseOf
    <3> QED BY <2>2, <2>3, <2>4, <2>5, <3>1 DEF Lifecycle!Expire, Lifecycle!Move, Same
  <2>7. CASE requests[r].state = "Expired"
    <3>1. Phase(r) = "expired"
      BY <2>7, PhaseOf
    <3> QED BY <2>2, <2>3, <2>4, <2>5, <3>1 DEF Same
  <2> QED BY <2>2, <2>6, <2>7
<1>7. CASE Tick
  <2>1. requests' = requests /\ now' = now + 1
    BY <1>7 DEF Tick
  <2> QED BY <1>u, <2>1 DEF Lifecycle!Next, Lifecycle!Tick, Same
<1>8. ASSUME requests' = requests, now' = now PROVE Quiet
  BY <1>8, <1>u
<1>9. CASE UNCHANGED vars
  BY <1>9, <1>8, <1>q DEF vars
<1>10. ASSUME NEW r \in Requests, Submission(r) PROVE Quiet \/ Lifecycle!Submit(r)
  <2>1. CASE SubmitDuplicates(r)
    BY <2>1, <1>8 DEF SubmitDuplicates
  <2> QED BY <1>1, <1>2, <1>3, <1>4, <1>10, <2>1 DEF Submission
<1>11. ASSUME NEW d \in Deciders, Deciding(d), ~ Decide(d) PROVE Quiet
  <2>1. requests' = requests /\ now' = now
    BY <1>11 DEF Deciding, PendingRequest, ApproveValidate, ApproveBudget, Refuse
  <2> QED BY <2>1, <1>8
<1>12. ASSUME NEW e \in Expirers, ExpireList(e) \/ ExpireFails(e) PROVE Quiet
  BY <1>12, <1>8 DEF ExpireList, ExpireFails
<1>13. ASSUME DeleteAssignment \/ \E v \in Revisions : CreateAssignment(v) \/ RevisePolicy(v) PROVE Quiet
  BY <1>13, <1>8 DEF DeleteAssignment, CreateAssignment, RevisePolicy
<1> HIDE DEF Quiet
<1> QED
  BY <1>q, <1>5, <1>6, <1>7, <1>9, <1>10, <1>11, <1>12, <1>13 DEF Next, Lifecycle!Next

(* For any number of handlers and replicas, requests live as                 *)
(* RequestLifecycle says: one decision each, approvals no longer than asked  *)
(* for, never extended, and marked expired only once they have run out.      *)
THEOREM ImplementsLifecycleSafety == Spec => Lifecycle!Safety
<1>1. ASSUME Init PROVE Lifecycle!Init
  <2>1. \A r \in Requests : requests[r].state = "none" /\ requests[r].expires = 0
    BY <1>1 DEF Init, Absent
  <2>2. \A r \in Requests : Phase(r) = "absent" /\ Requested(r) = 0
    <3>1. TypeOK
      BY <1>1, InitIInv DEF IInv
    <3> QED BY <2>1, <3>1, PhaseOf DEF Requested
  <2>3. now = 0
    BY <1>1 DEF Init
  <2> QED BY <2>1, <2>2, <2>3 DEF Lifecycle!Init
<1>2. IInv /\ IInv' /\ [Next]_vars => [Lifecycle!Next]_(Lifecycle!lifecycle)
  BY StepRefines
<1> QED BY <1>1, <1>2, Inductive, PTL DEF Spec, Lifecycle!Safety

(* What RequestLifecycle means for the stored objects: an approval is given  *)
(* for no longer than was asked for, keeps the end it was given, and is      *)
(* replaced by nothing but its expiry once that end has come.                *)
Stands(r) ==
    /\ requests[r].state # "Approved" /\ requests'[r].state = "Approved" =>
          requests'[r].expires <= now + requests[r].duration
    /\ requests[r].state = "Approved" =>
          /\ requests'[r].expires = requests[r].expires
          /\ \/ requests'[r].state = "Approved"
             \/ requests'[r].state = "Expired" /\ requests[r].expires <= now

\* Each step of RequestLifecycle has this effect on a stored request.
LEMMA LifecycleStands ==
    ASSUME TypeOK, TypeOK', [Lifecycle!Next]_(Lifecycle!lifecycle), NEW r \in Requests
    PROVE  Stands(r)
<1>0. /\ requests[r].state = "Approved" <=> Phase(r) = "approved"
      /\ requests'[r].state = "Approved" <=> Phase(r)' = "approved"
      /\ requests'[r].state = "Expired" <=> Phase(r)' = "expired"
      /\ Phase(r) = "pending" => Requested(r) = requests[r].duration
  BY PhaseOf, PhaseOfNext DEF Requested
<1>1. CASE UNCHANGED Lifecycle!lifecycle
  <2>1. Phase(r)' = Phase(r) /\ requests'[r].expires = requests[r].expires
    BY <1>1 DEF Lifecycle!lifecycle
  <2> QED BY <1>0, <2>1 DEF Stands
<1>2. CASE Lifecycle!Tick
  <2>1. Phase(r)' = Phase(r) /\ requests'[r].expires = requests[r].expires
    BY <1>2 DEF Lifecycle!Tick
  <2> QED BY <1>0, <2>1 DEF Stands
<1>3. ASSUME NEW q \in Requests, Lifecycle!Submit(q) \/ Lifecycle!Deny(q) PROVE Stands(r)
  <2>1. requests'[r].expires = requests[r].expires
    BY <1>3 DEF Lifecycle!Submit, Lifecycle!Deny
  <2>2. /\ Phase(r) = "approved" => Phase(r)' = "approved"
        /\ Phase(r)' = "approved" => Phase(r) = "approved"
    BY <1>3 DEF Lifecycle!Submit, Lifecycle!Deny, Lifecycle!Move
  <2> QED BY <1>0, <2>1, <2>2 DEF Stands
<1>4. ASSUME NEW q \in Requests, Lifecycle!Approve(q) PROVE Stands(r)
  <2>1. CASE q = r
    <3>1. Phase(r) = "pending" /\ requests'[r].expires \in 0..(now + Requested(r))
      BY <1>4, <2>1 DEF Lifecycle!Approve, Lifecycle!Move
    <3> QED BY <1>0, <3>1 DEF Stands
  <2>2. CASE q # r
    <3>1. Phase(r)' = Phase(r) /\ requests'[r].expires = requests[r].expires
      BY <1>4, <2>2 DEF Lifecycle!Approve, Lifecycle!Move
    <3> QED BY <1>0, <3>1 DEF Stands
  <2> QED BY <2>1, <2>2
<1>5. ASSUME NEW q \in Requests, Lifecycle!Expire(q) PROVE Stands(r)
  <2>1. requests'[r].expires = requests[r].expires
    BY <1>5 DEF Lifecycle!Expire
  <2>2. CASE q = r
    <3>1. Phase(r)' = "expired" /\ requests[r].expires <= now
      BY <1>5, <2>2 DEF Lifecycle!Expire, Lifecycle!Move
    <3> QED BY <1>0, <2>1, <3>1 DEF Stands
  <2>3. CASE q # r
    <3>1. Phase(r)' = Phase(r)
      BY <1>5, <2>3 DEF Lifecycle!Expire, Lifecycle!Move
    <3> QED BY <1>0, <2>1, <3>1 DEF Stands
  <2> QED BY <2>2, <2>3
<1> QED BY <1>1, <1>2, <1>3, <1>4, <1>5 DEF Lifecycle!Next

\* Whatever administrators, late statuses and expiry passes do to it, an
\* approval lasts until the end it was given and no longer than was asked for
\* (governance.go approveAccessRequest and denyAccessRequest, audit.go
\* expireAccessRequests).
THEOREM ApprovalsStand == Spec => [][\A r \in Requests : Stands(r)]_vars
<1>1. IInv /\ IInv' /\ [Next]_vars => [\A r \in Requests : Stands(r)]_vars
  <2> SUFFICES ASSUME IInv, IInv', [Next]_vars, NEW r \in Requests PROVE Stands(r)
    OBVIOUS
  <2>1. TypeOK /\ TypeOK'
    BY DEF IInv
  <2> QED BY <2>1, StepRefines, LifecycleStands
<1> QED BY <1>1, Inductive, PTL DEF Spec

=============================================================================
