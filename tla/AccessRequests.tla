--------------------------- MODULE AccessRequests ---------------------------
(***************************************************************************)
(* Access requests: a requester asks the dashboard for access to a target  *)
(* that was denied, an administrator approves or denies, and assignmentd   *)
(* marks approvals that have run out.  Handlers run at any number of       *)
(* dashboard replicas; every call to the Kubernetes API is a step of its   *)
(* own, may fail, also after it took effect, and a handler may stop        *)
(* between two calls.  Principal bindings and tenant policies may change   *)
(* at any moment, so reading them has either outcome; reads of objects     *)
(* that no step of this module changes share a step with their neighbour.  *)
(***************************************************************************)
EXTENDS Naturals, FiniteSets

CONSTANTS
    Requests,     \* submissions, and the objects they create (GenerateName)
    Deciders,     \* approve and deny handlers
    Expirers,     \* assignmentd replicas
    Revisions,    \* capability policy revisions
    Targets,      \* normalized (backend, method, host, path)
    Durations,    \* durations the forms accept
    Limits,       \* maxAccessRequestDurationSeconds of the tenant's policy
    MaxTime,      \* bound on the clock
    MaxUid,       \* bound on the incarnations of the assignment
    None

ASSUME AccessAssumption ==
    /\ Durations \subseteq Nat \ {0} /\ Limits \subseteq Nat
    /\ MaxTime \in Nat /\ MaxUid \in Nat \ {0}
    /\ Requests \intersect Deciders = {}

VARIABLES
    now,
    current,      \* the assignment: its UID, resolved policy revision, not deleting
    requests,     \* SandboxAccessRequest objects
    pc,           \* handler -> its next step
    decision,     \* approve or deny handler -> what it read and was asked
    todo,         \* assignmentd replica -> listed approvals it has yet to mark
    decided,      \* history: decisions that were stored, heard of by the administrator or not
    seen,         \* history: submission -> requests its duplicate check listed
    fenced        \* history: decider -> its request was stale when it began

vars == <<now, current, requests, pc, decision, todo, decided, seen, fenced>>

Absent == [state |-> "none", rv |-> 0, uid |-> 0, revision |-> None, target |-> None,
           duration |-> 0, expires |-> 0]

NoDecision == [request |-> None, rv |-> 0, verdict |-> None, duration |-> 0, stamp |-> 0]

RequestObjects ==
    [state : {"none", "unset", "Pending", "Approved", "Denied", "Expired"}, rv : Nat,
     uid : 0..MaxUid, revision : Revisions \union {None}, target : Targets \union {None},
     duration : Nat, expires : Nat]

DecisionCopies ==
    [request : Requests \union {None}, rv : Nat, verdict : {"Approved", "Denied", None},
     duration : Nat, stamp : Nat]

Steps == {"idle", "duplicates", "create", "initialize", "done", "validate", "budget", "decide"}

Init ==
    /\ now = 0
    /\ current \in [uid : {1}, revision : Revisions, live : {TRUE}]
    /\ requests = [r \in Requests |-> Absent]
    /\ pc = [h \in Requests \union Deciders |-> "idle"]
    /\ decision = [d \in Deciders |-> NoDecision]
    /\ todo = [e \in Expirers |-> {}]
    /\ decided = {}
    /\ seen = [r \in Requests |-> {}]
    /\ fenced = [d \in Deciders |-> FALSE]

Goto(h, step) == pc' = [pc EXCEPT ![h] = step]

\* requestState: a request without a status is pending.
Pending(r) == requests[r].state \in {"unset", "Pending"}

Active(r) == Pending(r) \/ (requests[r].state = "Approved" /\ now < requests[r].expires)

SameGrant(q, r) ==
    /\ requests[q].uid = requests[r].uid
    /\ requests[q].revision = requests[r].revision
    /\ requests[q].target = requests[r].target

\* The request still belongs to this incarnation of the assignment.
Fresh(r) ==
    current.live /\ requests[r].uid = current.uid /\ requests[r].revision = current.revision

-----------------------------------------------------------------------------
(* POST /access/requests: createAccessRequest *)

\* A refusal, a failed call or a stop before anything was created: the draft
\* is gone, and the submission may be tried again.
Abandon(r) ==
    /\ pc[r] \in {"duplicates", "create"}
    /\ requests' = [requests EXCEPT ![r] = Absent]
    /\ seen' = [seen EXCEPT ![r] = {}]
    /\ Goto(r, "idle")
    /\ UNCHANGED <<now, current, decision, todo, decided, fenced>>

\* maxAccessDurationSeconds: some policy's limit, when the tenant has exactly one.
WithinBudget(duration) == \E limit \in Limits : duration <= limit

\* A form of the dashboard's own page, with the CSRF token of the session and a
\* duration from a minute to eight hours.
ParseMutation(duration) == duration \in Durations

\* The denied event, which never changes, names the assignment as it is now.
ValidateEventAssignment == current.live

\* The requester's scopes, the form, the event, the limit and the request's spec.
Submit(r, target, duration) ==
    /\ pc[r] = "idle" /\ target \in Targets /\ ParseMutation(duration)
    /\ ValidateEventAssignment /\ WithinBudget(duration)
    /\ requests' = [requests EXCEPT ![r].uid = current.uid, ![r].revision = current.revision,
                                    ![r].target = target, ![r].duration = duration]
    /\ Goto(r, "duplicates")
    /\ UNCHANGED <<now, current, decision, todo, decided, seen, fenced>>

\* Mutant: only decided requests count as duplicates.
HasActiveDuplicateDecided(r) ==
    \E q \in Requests \ {r} : requests[q].state = "Approved" /\ Active(q) /\ SameGrant(q, r)

HasActiveDuplicate(r) == \E q \in Requests \ {r} : Active(q) /\ SameGrant(q, r)

SubmitDuplicates(r) ==
    /\ pc[r] = "duplicates" /\ ~HasActiveDuplicate(r)
    /\ seen' = [seen EXCEPT ![r] = {q \in Requests : requests[q].state # "none"}]
    /\ Goto(r, "create")
    /\ UNCHANGED <<now, current, requests, decision, todo, decided, fenced>>

\* The handler may not get beyond a create that took effect.
SubmitCreate(r) ==
    /\ pc[r] = "create"
    /\ requests' = [requests EXCEPT ![r].state = "unset", ![r].rv = 1]
    /\ \E step \in {"initialize", "done"} : Goto(r, step)
    /\ UNCHANGED <<now, current, decision, todo, decided, seen, fenced>>

\* updateRequestStatus: UpdateStatus of the object as it was read, so it takes
\* effect only on the resource version that was read.
UpdateRequestStatus(r, rv, fields) ==
    /\ requests[r].rv = rv
    /\ requests' = [requests EXCEPT ![r] = [fields EXCEPT !.rv = rv + 1]]

\* Mutant: the first status is written whatever happened to the request since.
SubmitInitializeUnconditional(r) ==
    /\ pc[r] = "initialize"
    /\ requests' = [requests EXCEPT ![r].state = "Pending", ![r].rv = @ + 1]
    /\ Goto(r, "done")
    /\ UNCHANGED <<now, current, decision, todo, decided, seen, fenced>>

SubmitInitialize(r) ==
    /\ pc[r] = "initialize"
    /\ UpdateRequestStatus(r, 1, [requests[r] EXCEPT !.state = "Pending"]) \/ UNCHANGED requests
    /\ Goto(r, "done")
    /\ UNCHANGED <<now, current, decision, todo, decided, seen, fenced>>

-----------------------------------------------------------------------------
(* POST /admin/requests/{name}/approve and .../deny *)

\* A refusal, a failed call or a stop: what the handler had read is gone.
GiveUp(d) ==
    /\ decision' = [decision EXCEPT ![d] = NoDecision]
    /\ fenced' = [fenced EXCEPT ![d] = FALSE]
    /\ Goto(d, "idle")

Refuse(d) ==
    /\ pc[d] \in {"validate", "budget", "decide"}
    /\ GiveUp(d)
    /\ UNCHANGED <<now, current, requests, todo, decided, seen>>

\* requireAdmin, the form, pendingRequest, whose object is kept for the update,
\* the administrator's scopes, and for an approval the duration asked for.
PendingRequest(d, r, verdict, duration) ==
    /\ pc[d] = "idle" /\ Pending(r) /\ ParseMutation(duration)
    /\ decision' = [decision EXCEPT ![d] =
         [request |-> r, rv |-> requests[r].rv, verdict |-> verdict, duration |-> duration, stamp |-> 0]]
    /\ fenced' = [fenced EXCEPT ![d] = requests[r].uid # current.uid \/ ~current.live]
    /\ \/ verdict = "Denied" /\ Goto(d, "decide")
       \/ verdict = "Approved" /\ duration <= requests[r].duration /\ Goto(d, "validate")
    /\ UNCHANGED <<now, current, requests, todo, decided, seen>>

\* Mutant: the assignment is found by name only.
ApproveValidateName(d) ==
    /\ pc[d] = "validate" /\ current.live
    /\ Goto(d, "budget")
    /\ UNCHANGED <<now, current, requests, decision, todo, decided, seen, fenced>>

\* validateRequestAssignment
ApproveValidate(d) ==
    /\ pc[d] = "validate" /\ Fresh(decision[d].request)
    /\ Goto(d, "budget")
    /\ UNCHANGED <<now, current, requests, decision, todo, decided, seen, fenced>>

\* The assignment and its bundle are read again for the tenant's limit, also when
\* the assignment is being deleted by now; then the approval is stamped.
ApproveBudget(d) ==
    /\ pc[d] = "budget" /\ WithinBudget(decision[d].duration)
    /\ decision' = [decision EXCEPT ![d].stamp = now]
    /\ Goto(d, "decide")
    /\ UNCHANGED <<now, current, requests, todo, decided, seen, fenced>>

\* The update took effect, and the handler ends.
Answer(d) ==
    /\ decided' = decided \union {<<decision[d].request, decision[d].verdict>>}
    /\ GiveUp(d)

Decide(d) ==
    /\ pc[d] = "decide"
    /\ LET c == decision[d] IN
       UpdateRequestStatus(c.request, c.rv,
           [requests[c.request] EXCEPT !.state = c.verdict,
              !.expires = IF c.verdict = "Approved" THEN c.stamp + c.duration ELSE 0])
    /\ Answer(d)
    /\ UNCHANGED <<now, current, todo, seen>>

-----------------------------------------------------------------------------
(* expireAccessRequests, run by the clean-up loop of every assignmentd replica *)

\* Mutant: every approval is listed, not only those that have run out.
OverdueAlways(r) == requests[r].state = "Approved"

Overdue(r) == requests[r].state = "Approved" /\ requests[r].expires <= now

ExpireList(e) ==
    /\ todo[e] = {}
    /\ todo' = [todo EXCEPT ![e] = {r \in Requests : Overdue(r)}]
    /\ UNCHANGED <<now, current, requests, pc, decision, decided, seen, fenced>>

\* Mutant: the patch spells the state in lower case.
ExpirePatchLowerCase(e, r) ==
    /\ r \in todo[e]
    /\ requests' = [requests EXCEPT ![r].state = "expired", ![r].rv = @ + 1]
    /\ todo' = [todo EXCEPT ![e] = @ \ {r}]
    /\ UNCHANGED <<now, current, pc, decision, decided, seen, fenced>>

\* A merge patch of the state alone, without a resource version.
ExpirePatch(e, r) ==
    /\ r \in todo[e]
    /\ requests' = [requests EXCEPT ![r].state = "Expired", ![r].rv = @ + 1]
    /\ todo' = [todo EXCEPT ![e] = @ \ {r}]
    /\ UNCHANGED <<now, current, pc, decision, decided, seen, fenced>>

\* An error ends the pass, and so does a restart of the replica.
ExpireFails(e) ==
    /\ todo[e] # {}
    /\ todo' = [todo EXCEPT ![e] = {}]
    /\ UNCHANGED <<now, current, requests, pc, decision, decided, seen, fenced>>

-----------------------------------------------------------------------------
(* The assignment, and time *)

DeleteAssignment ==
    /\ current.live
    /\ current' = [current EXCEPT !.live = FALSE]
    /\ UNCHANGED <<now, requests, pc, decision, todo, decided, seen, fenced>>

CreateAssignment(v) ==
    /\ ~current.live /\ current.uid < MaxUid
    /\ current' = [uid |-> current.uid + 1, revision |-> v, live |-> TRUE]
    /\ UNCHANGED <<now, requests, pc, decision, todo, decided, seen, fenced>>

RevisePolicy(v) ==
    /\ current.live /\ v # current.revision
    /\ current' = [current EXCEPT !.revision = v]
    /\ UNCHANGED <<now, requests, pc, decision, todo, decided, seen, fenced>>

Tick ==
    /\ now < MaxTime /\ now' = now + 1
    /\ UNCHANGED <<current, requests, pc, decision, todo, decided, seen, fenced>>

Submission(r) ==
    \/ \E target \in Targets, duration \in Durations : Submit(r, target, duration)
    \/ SubmitDuplicates(r) \/ SubmitCreate(r) \/ SubmitInitialize(r) \/ Abandon(r)

Deciding(d) ==
    \/ \E r \in Requests, duration \in Durations, verdict \in {"Approved", "Denied"} :
            PendingRequest(d, r, verdict, duration)
    \/ ApproveValidate(d) \/ ApproveBudget(d) \/ Decide(d) \/ Refuse(d)

Next ==
    \/ \E r \in Requests : Submission(r)
    \/ \E d \in Deciders : Deciding(d)
    \/ \E e \in Expirers : ExpireList(e) \/ ExpireFails(e) \/ \E r \in Requests : ExpirePatch(e, r)
    \/ \E v \in Revisions : CreateAssignment(v) \/ RevisePolicy(v)
    \/ DeleteAssignment \/ Tick

\* cleanupLoop runs on a ticker in every replica; its first step, the clean-up of
\* events, and its list do not fail for ever.  Passes that find something to patch,
\* again and again, do not all end before their first patch succeeds; which of the
\* requests it is for is not promised.
Fairness ==
    \A e \in Expirers :
        WF_vars(ExpireList(e)) /\ SF_vars(\E r \in Requests : ExpirePatch(e, r))

Spec == Init /\ [][Next]_vars /\ Fairness

-----------------------------------------------------------------------------
(* Handlers, copies and objects have the shapes the code gives them.        *)
TypeOK ==
    /\ now \in Nat
    /\ current \in [uid : 1..MaxUid, revision : Revisions, live : BOOLEAN]
    /\ requests \in [Requests -> RequestObjects]
    /\ pc \in [Requests \union Deciders -> Steps]
    /\ decision \in [Deciders -> DecisionCopies]
    /\ todo \in [Expirers -> SUBSET Requests]
    /\ decided \subseteq Requests \X {"Approved", "Denied"}
    /\ seen \in [Requests -> SUBSET Requests]
    /\ fenced \in [Deciders -> BOOLEAN]

(* Two active requests for the same target and incarnation exist only when  *)
(* neither submission could see the other in its duplicate check: a request *)
(* that is no longer active (hasActiveDuplicate) never becomes active again.*)
DuplicatesOnlyFromOverlap ==
    \A q, r \in Requests :
        q # r /\ Active(q) /\ Active(r) /\ SameGrant(q, r) => q \notin seen[r]

(* A decision that was stored stands: no other administrator, no late       *)
(* Pending status of the submission and no clean-up pass replaces it.       *)
DecisionStands ==
    \A verdict \in decided :
        \/ requests[verdict[1]].state = verdict[2]
        \/ requests[verdict[1]].state = "Expired" /\ verdict[2] = "Approved"

(* A handler that began after the incarnation of its request was gone never *)
(* comes to store an approval, although the assignment may be recreated     *)
(* under the same name while it runs (validateRequestAssignment).           *)
StaleNeverApproved ==
    \A d \in Deciders : pc[d] = "decide" /\ decision[d].verdict = "Approved" => ~fenced[d]

Phase(r) ==
    CASE requests[r].state = "none" -> "absent"
      [] Pending(r) -> "pending"
      [] requests[r].state = "Approved" -> "approved"
      [] requests[r].state = "Denied" -> "denied"
      [] requests[r].state = "Expired" -> "expired"

Requested(r) == IF requests[r].state = "none" THEN 0 ELSE requests[r].duration

Lifecycle == INSTANCE RequestLifecycle WITH
    phase <- [r \in Requests |-> Phase(r)],
    requested <- [r \in Requests |-> Requested(r)],
    expiry <- [r \in Requests |-> requests[r].expires]

(* The handlers implement the life of a request as RequestLifecycle states  *)
(* it: one decision, a bounded approval that is never extended, and every   *)
(* approval that has run out is marked Expired at last.                     *)
ImplementsLifecycle == Lifecycle!Spec

=============================================================================
