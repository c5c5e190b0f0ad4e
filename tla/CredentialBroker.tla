-------------------------- MODULE CredentialBroker --------------------------
(***************************************************************************)
(* The credential broker of assignmentd: short-lived grants signed for one *)
(* sandbox incarnation are issued, verified and revoked by HTTP requests   *)
(* that any replica may serve.  A grant is a signed token, so the only     *)
(* stored state is the audit trail and the revocation records, which are   *)
(* deleted once they have expired.  Every call to Kubernetes is a step of  *)
(* its own, and may fail; a failed write of a revocation may have taken effect *)
(* (a failed audit write may too, which leaves one record too many and is  *)
(* not distinguished).                                                     *)
(***************************************************************************)
EXTENDS Naturals, FiniteSets

CONSTANTS
    Requests,      \* HTTP requests, each served once
    Replicas,      \* assignmentd Pods behind the service
    Grants,        \* grant IDs (uuid.NewString: never repeated)
    Skew,          \* replica -> how far its clock is ahead
    TTLs,          \* lifetimes that issue accepts
    MaxTime,       \* bound on the clock
    MaxBinding,    \* bound on the Pod incarnations of the sandbox
    MaxGeneration, \* bound on signing key rotations
    NoGrant, NoReplica

ASSUME BrokerAssumption ==
    /\ Skew \in [Replicas -> Nat] /\ TTLs \subseteq (Nat \ {0})
    /\ MaxTime \in Nat /\ MaxBinding \in Nat \ {0} /\ MaxGeneration \in Nat \ {0}
    /\ NoGrant \notin Grants /\ NoReplica \notin Replicas

VARIABLES
    now,           \* real time
    bound,         \* the incarnation (Pod UID, bundle revision) in the assignment's status
    ready,         \* it is Ready, not paused, not deleting
    podLive,       \* incarnations whose Pod is neither deleting nor Failed
    generation,    \* replica -> generation of its signing key
    claims,        \* grant -> what its token says, once signed
    held,          \* grants whose token was returned to a client
    records,       \* SandboxCredentialRevocation objects, by grant
    audit,         \* SandboxCredentialEvent objects: <<action, request>>
    pc, serves, grant,   \* request -> its step, its replica, its grant
    everRevoked,   \* history: grants that ever had a revocation record
    priorRevoke,   \* history: request -> it started after its grant's revocation
    sawLive        \* history: request -> incarnation live when its assignment was read

world == <<bound, ready, podLive>>
store == <<claims, held, records, audit>>
history == <<everRevoked, priorRevoke, sawLive>>
vars == <<now, world, generation, store, pc, serves, grant, history>>

\* "failed" stands for every refusal and error answer, and for no answer.
Final == {"issued", "valid", "revoked", "failed"}
Steps == {"idle", "recordIssue", "lookup", "purge", "assignment", "pod", "recordUse",
          "storeRevoke", "recordRevoke"} \union Final

Unsigned == [binding |-> 0, nbf |-> 0, exp |-> 0, key |-> 0]
GrantClaims == [binding : 0..MaxBinding, nbf : Nat, exp : Nat, key : 0..MaxGeneration]

Clock(r) == now + Skew[r]

\* Config.SigningKeyID and PreviousSigningKeys: the current key and the one before it.
Knows(r, key) == key # 0 /\ key \in {generation[r], generation[r] - 1}

Signed(g) == claims[g] # Unsigned

Init ==
    /\ now = 0
    /\ bound = 1 /\ ready = TRUE /\ podLive = {1}
    /\ generation = [r \in Replicas |-> 1]
    /\ claims = [g \in Grants |-> Unsigned]
    /\ held = {} /\ records = {} /\ audit = {}
    /\ pc = [p \in Requests |-> "idle"]
    /\ serves = [p \in Requests |-> NoReplica]
    /\ grant = [p \in Requests |-> NoGrant]
    /\ everRevoked = {}
    /\ priorRevoke = [p \in Requests |-> FALSE]
    /\ sawLive = [p \in Requests |-> FALSE]

Goto(p, step) == pc' = [pc EXCEPT ![p] = step]

-----------------------------------------------------------------------------
(* POST /broker/v1/credentials *)

\* Mutant: the claims are signed without the grant's ID.
IssueWithoutID(p, r, g, ttl) ==
    /\ pc[p] = "idle" /\ ~Signed(g) /\ ttl \in TTLs
    /\ serves' = [serves EXCEPT ![p] = r]
    /\ \/ \E b \in 1..bound :
            /\ claims' = [claims EXCEPT ![g] =
                 [binding |-> b, nbf |-> Clock(r), exp |-> Clock(r) + ttl, key |-> generation[r]]]
            /\ UNCHANGED grant
            /\ Goto(p, "recordIssue")
       \/ Goto(p, "failed") /\ UNCHANGED <<claims, grant>>
    /\ UNCHANGED <<now, world, generation, held, records, audit, history>>

\* The checker answers from its caches: the incarnation it allows is one the
\* assignment has had, not always the present one.
Issue(p, r, g, ttl) ==
    /\ pc[p] = "idle" /\ ~Signed(g) /\ ttl \in TTLs
    /\ serves' = [serves EXCEPT ![p] = r]
    /\ \/ \E b \in 1..bound :
            /\ claims' = [claims EXCEPT ![g] =
                 [binding |-> b, nbf |-> Clock(r), exp |-> Clock(r) + ttl, key |-> generation[r]]]
            /\ grant' = [grant EXCEPT ![p] = g]
            /\ Goto(p, "recordIssue")
       \/ Goto(p, "failed") /\ UNCHANGED <<claims, grant>>
    /\ UNCHANGED <<now, world, generation, held, records, audit, history>>

\* Mutant: the error of Record is ignored.
IssueRecordIgnored(p) ==
    /\ pc[p] = "recordIssue"
    /\ audit' \in {audit, audit \union {<<"issued", p>>}}
    /\ held' = held \union {grant[p]} /\ Goto(p, "issued")
    /\ UNCHANGED <<now, world, generation, claims, records, serves, grant, history>>

\* The token is returned only after its audit record is stored.
IssueRecord(p) ==
    /\ pc[p] = "recordIssue"
    /\ \/ audit' = audit \union {<<"issued", p>>} /\ held' = held \union {grant[p]} /\ Goto(p, "issued")
       \/ Goto(p, "failed") /\ UNCHANGED <<audit, held>>
    /\ UNCHANGED <<now, world, generation, claims, records, serves, grant, history>>

-----------------------------------------------------------------------------
(* parseAuthorization: known key, not before, not expired, complete claims *)

Parses(r, g) ==
    /\ Knows(r, claims[g].key)
    /\ claims[g].nbf <= Clock(r) /\ Clock(r) < claims[g].exp

Present(p, r, g, step) ==
    /\ pc[p] = "idle" /\ g \in held
    /\ serves' = [serves EXCEPT ![p] = r]
    /\ grant' = [grant EXCEPT ![p] = g]
    /\ priorRevoke' = [priorRevoke EXCEPT ![p] = g \in everRevoked]
    /\ IF Parses(r, g) THEN Goto(p, step) ELSE Goto(p, "failed")
    /\ UNCHANGED <<now, world, generation, store, everRevoked, sawLive>>

-----------------------------------------------------------------------------
(* POST /broker/v1/verify *)

Verify(p, r, g) == Present(p, r, g, "lookup")

\* Mutant: a record counts as expired one unit early.
IsRevokedOffByOne(p) ==
    /\ pc[p] = "lookup"
    /\ \/ grant[p] \notin records /\ Goto(p, "assignment")
       \/ grant[p] \in records /\ claims[grant[p]].exp <= Clock(serves[p]) + 1 /\ Goto(p, "purge")
       \/ Goto(p, "failed")
    /\ UNCHANGED <<now, world, generation, store, serves, grant, history>>

\* IsRevoked reads the record, and the clock once more; an expired record is
\* deleted and counts as no revocation.
IsRevoked(p) ==
    /\ pc[p] = "lookup"
    /\ \/ grant[p] \notin records /\ Goto(p, "assignment")
       \/ grant[p] \in records /\ claims[grant[p]].exp <= Clock(serves[p]) /\ Goto(p, "purge")
       \/ Goto(p, "failed")
    /\ UNCHANGED <<now, world, generation, store, serves, grant, history>>

Purge(p) ==
    /\ pc[p] = "purge"
    /\ \/ records' = records \ {grant[p]} /\ Goto(p, "assignment")
       \/ records' \in {records, records \ {grant[p]}} /\ Goto(p, "failed")
    /\ UNCHANGED <<now, world, generation, claims, held, audit, serves, grant, history>>

\* ValidateGrant reads the assignment, and then the Pod.
ValidateAssignment(p) ==
    /\ pc[p] = "assignment"
    /\ \/ /\ ready /\ bound = claims[grant[p]].binding
          /\ sawLive' = [sawLive EXCEPT ![p] = bound \in podLive]
          /\ Goto(p, "pod")
       \/ Goto(p, "failed") /\ UNCHANGED sawLive
    /\ UNCHANGED <<now, world, generation, store, serves, grant, everRevoked, priorRevoke>>

\* Mutant: the Pod's UID is not compared.
ValidatePodByName(p) ==
    /\ pc[p] = "pod"
    /\ \/ podLive # {} /\ Goto(p, "recordUse")
       \/ Goto(p, "failed")
    /\ UNCHANGED <<now, world, generation, store, serves, grant, history>>

ValidatePod(p) ==
    /\ pc[p] = "pod"
    /\ \/ claims[grant[p]].binding \in podLive /\ Goto(p, "recordUse")
       \/ Goto(p, "failed")
    /\ UNCHANGED <<now, world, generation, store, serves, grant, history>>

RecordUse(p) ==
    /\ pc[p] = "recordUse"
    /\ \/ audit' = audit \union {<<"used", p>>} /\ Goto(p, "valid")
       \/ Goto(p, "failed") /\ UNCHANGED audit
    /\ UNCHANGED <<now, world, generation, claims, held, records, serves, grant, history>>

-----------------------------------------------------------------------------
(* POST /broker/v1/revoke *)

Revoke(p, r, g) == Present(p, r, g, "storeRevoke")

\* Create: a record that already exists is as good as a new one.
StoreRevoke(p) ==
    /\ pc[p] = "storeRevoke"
    /\ \/ /\ records' = records \union {grant[p]}
          /\ everRevoked' = everRevoked \union {grant[p]}
          /\ \E step \in {"recordRevoke", "failed"} : Goto(p, step)
       \/ Goto(p, "failed") /\ UNCHANGED <<records, everRevoked>>
    /\ UNCHANGED <<now, world, generation, claims, held, audit, serves, grant, priorRevoke, sawLive>>

RecordRevoke(p) ==
    /\ pc[p] = "recordRevoke"
    /\ \/ audit' = audit \union {<<"revoked", p>>} /\ Goto(p, "revoked")
       \/ Goto(p, "failed") /\ UNCHANGED audit
    /\ UNCHANGED <<now, world, generation, claims, held, records, serves, grant, history>>

-----------------------------------------------------------------------------
(* The sandbox, as AssignmentLifecycle describes it, replicas and time *)

Withdraw ==            \* paused, fenced, deleting or not Ready
    /\ ready /\ ready' = FALSE
    /\ UNCHANGED <<now, bound, podLive, generation, store, pc, serves, grant, history>>

Restore ==             \* a status write of a pass that read the Pod earlier
    /\ ~ready /\ ready' = TRUE
    /\ UNCHANGED <<now, bound, podLive, generation, store, pc, serves, grant, history>>

PodEnds(b) ==
    /\ b \in podLive /\ podLive' = podLive \ {b}
    /\ UNCHANGED <<now, bound, ready, generation, store, pc, serves, grant, history>>

Rebind ==              \* a resume binds a new Pod
    /\ ~ready /\ bound < MaxBinding
    /\ bound' = bound + 1 /\ podLive' = podLive \union {bound + 1} /\ ready' = TRUE
    /\ UNCHANGED <<now, generation, store, pc, serves, grant, history>>

\* A replica stops with the requests it serves, and starts with the same signing
\* key or with the next one.
Restart(r) ==
    /\ generation' \in {generation, [generation EXCEPT ![r] = @ + 1]}
    /\ generation'[r] <= MaxGeneration
    /\ pc' = [p \in Requests |-> IF serves[p] = r /\ pc[p] \notin Final \union {"idle"}
                                 THEN "failed" ELSE pc[p]]
    /\ UNCHANGED <<now, world, store, serves, grant, history>>

Tick ==
    /\ now < MaxTime /\ now' = now + 1
    /\ UNCHANGED <<world, generation, store, pc, serves, grant, history>>

Serve(p) ==
    \/ \E r \in Replicas, g \in Grants :
            Verify(p, r, g) \/ Revoke(p, r, g) \/ \E ttl \in TTLs : Issue(p, r, g, ttl)
    \/ IssueRecord(p) \/ IsRevoked(p) \/ Purge(p) \/ ValidateAssignment(p)
    \/ ValidatePod(p) \/ RecordUse(p) \/ StoreRevoke(p) \/ RecordRevoke(p)

Next ==
    \/ \E p \in Requests : Serve(p)
    \/ \E r \in Replicas : Restart(r)
    \/ \E b \in 1..MaxBinding : PodEnds(b)
    \/ Withdraw \/ Restore \/ Rebind \/ Tick

Spec == Init /\ [][Next]_vars

-----------------------------------------------------------------------------
(* The state of the broker and of its requests has the shapes the code gives it. *)
TypeOK ==
    /\ now \in Nat
    /\ bound \in 1..MaxBinding /\ ready \in BOOLEAN /\ podLive \subseteq 1..MaxBinding
    /\ generation \in [Replicas -> 1..MaxGeneration]
    /\ claims \in [Grants -> GrantClaims]
    /\ held \subseteq Grants /\ records \subseteq Grants
    /\ audit \subseteq {"issued", "used", "revoked"} \X Requests
    /\ pc \in [Requests -> Steps] /\ serves \in [Requests -> Replicas \union {NoReplica}]
    /\ grant \in [Requests -> Grants \union {NoGrant}]
    /\ everRevoked \subseteq Grants
    /\ priorRevoke \in [Requests -> BOOLEAN] /\ sawLive \in [Requests -> BOOLEAN]

\* The clock of some replica has reached the end of the grant.
Expired(g) == \E r \in Replicas : claims[g].exp <= Clock(r)

(* A verification that began after the grant's revocation was stored never  *)
(* answers "valid" while the grant is unexpired on every replica: deleting  *)
(* expired revocation records (IsRevoked) revives nothing that is still in  *)
(* force, whichever replica deletes and whichever verifies.                 *)
RevocationHolds ==
    \A p \in Requests : pc[p] = "valid" /\ priorRevoke[p] => Expired(grant[p])

(* A grant verified as valid belonged, at one moment within the request, to *)
(* the Ready incarnation of its sandbox with its Pod alive, although        *)
(* ValidateGrant reads the assignment and the Pod at different moments.     *)
BindingHeldAtOnce ==
    \A p \in Requests : pc[p] = "valid" => sawLive[p]

(* No credential is handed out, no use is confirmed and no revocation is    *)
(* acknowledged without its audit record, whatever fails or crashes; and an *)
(* acknowledged revocation was stored.                                      *)
AcknowledgedIsAudited ==
    /\ \A g \in held : \E p \in Requests : grant[p] = g /\ <<"issued", p>> \in audit
    /\ \A p \in Requests :
         /\ pc[p] = "valid" => <<"used", p>> \in audit
         /\ pc[p] = "revoked" => <<"revoked", p>> \in audit /\ grant[p] \in everRevoked

=============================================================================
