------------------------- MODULE DashboardRequests -------------------------
(***************************************************************************)
(* A request to the dashboard: the session middleware, the requester       *)
(* middleware, the page's handler, and the client wrapper that authorizes  *)
(* the signed-in requester again before it calls OpenSandbox.  Requests    *)
(* interleave at every read of the store and of the API server, with each  *)
(* other, with sign-ins and with administrators who edit the bindings.     *)
(* One principal and one sandbox, with one snapshot, are modelled: nothing *)
(* in the code relates two of them.                                        *)
(***************************************************************************)
EXTENDS DashboardSessions

CONSTANTS
    Requests,
    MayAsk,        \* request -> the kinds that it may be of: a bound
    Tenants,       \* logical tenants
    Bindings,      \* SandboxPrincipalBindings that name the principal
    Assignments,   \* SandboxAssignments that name the sandbox
    Label,         \* the assignment that the sandbox's own metadata names
    Empty,         \* an empty logicalTenant; an assignment's is then the bundle's
    Absent,        \* deleted or deleting
    MaxChanges     \* bound on the edits of governed objects

ASSUME RequestAssumption ==
    /\ MayAsk \in [Requests -> SUBSET {"page", "detail", "operation", "create", "takeSnapshot",
                                       "snapshot", "loads", "logout"}]
    /\ MaxChanges \in Nat /\ Label \in Assignments
    /\ Empty # Absent /\ Empty \notin Tenants /\ Absent \notin Tenants

VARIABLES
    bindings,      \* binding -> whether it is active, and its requesterTenants
    assignments,   \* assignment -> spec.logicalTenant
    bundle,        \* governance.logicalTenant of the capability bundle
    changes,
    req            \* request -> its step and local values

governed == <<bindings, assignments, bundle, changes>>
vars == <<sessionVars, governed, req>>

BindingStates == {[active |-> FALSE, tenants |-> {}]} \union [active : {TRUE}, tenants : SUBSET Tenants]

\* What a request asks for.  A page lists sandboxes and snapshots, a detail page
\* shows the sandbox with its snapshots; an operation deletes, pauses, resumes or
\* opens the sandbox, or runs a command or reads events in it; takeSnapshot takes
\* a snapshot of it, and snapshot shows or deletes one by its own ID; loads reads
\* the load of the cluster's nodes.
Kinds == {"page", "detail", "operation", "create", "takeSnapshot", "snapshot", "loads", "logout"}

\* How often the requester is authorized in the middleware: pages once for the
\* sandboxes and once for the snapshots, and a snapshot's path not at all.  The
\* path that takes a snapshot is one of the aggregate paths, and that case comes
\* before the one that would look at the form.  The paths that read node loads
\* belong to the embedded dashboard, so none is taken to be gated.
Gates(kind) ==
    CASE kind \in {"page", "detail", "takeSnapshot"} -> 2
      [] kind \in {"operation", "create"} -> 1
      [] OTHER -> 0

\* ... and in the client wrapper: a create runs on a context that has no
\* identity, so it is not authorized there; node loads are passed on as they are.
Checks(kind) == IF kind \in {"create", "loads"} THEN 0 ELSE 1

\* The phase whose authorizations the call relies on.
Relied(kind) == IF kind = "create" THEN "gate" ELSE "client"

NoRequest == [pc |-> "idle", kind |-> "page", cookie |-> Absent, expiresAt |-> 0,
              phase |-> "gate", left |-> 0, tenants |-> {},
              late |-> FALSE, overdue |-> FALSE, held |-> {}, named |-> {}, bundles |-> {}]

Init ==
    /\ SessionInit
    /\ \E b \in Bindings, t \in Tenants :
         bindings = [c \in Bindings |-> [active |-> b = c, tenants |-> IF b = c THEN {t} ELSE {}]]
    /\ \E t \in Tenants \union {Empty} : assignments = [a \in Assignments |-> IF a = Label THEN t ELSE Absent]
    /\ bundle \in Tenants
    /\ changes = 0
    /\ req = [q \in Requests |-> NoRequest]

Step(q, r) == req' = [req EXCEPT ![q] = r]

Goto(q, pc) == Step(q, [req[q] EXCEPT !.pc = pc])

\* An answer that called nothing: an error, a redirect or a page.
Answer(q) == Step(q, NoRequest)

----------------------------------------------------------------------------
(* What the API server says.                                               *)

Bound == {b \in Bindings : bindings[b].active}

\* Tenants of the principal's only binding; none when bindings are ambiguous.
requesterTenants == IF Cardinality(Bound) = 1 THEN bindings[CHOOSE b \in Bound : TRUE].tenants ELSE {}

Governing == {a \in Assignments : assignments[a] # Absent}

\* logicalTenant of the only assignment of the sandbox.
assignmentForSandboxID ==
    IF Cardinality(Governing) = 1 THEN assignments[CHOOSE a \in Governing : TRUE] ELSE Absent

\* A listed sandbox is looked up by the assignment that its metadata names, if
\* they do; a snapshot or a path by the ID of the sandbox.
sandboxLogicalTenant(byObject) == IF byObject THEN assignments[Label] ELSE assignmentForSandboxID

\* What the request's object names as its tenant, in the ways that the last
\* authorization looks it up; Empty for the template of a create, whose tenant is
\* its bundle's.
Named ==
    [kind \in Kinds |->
        IF kind = "create" THEN {Empty}
        ELSE {sandboxLogicalTenant(byObject) : byObject \in {FALSE, (kind \in {"page", "detail"})}} \ {Absent}]

----------------------------------------------------------------------------
(* dashboardAuth.Middleware.                                               *)

\* A request arrives with a cookie that some sign-in was given.
Arrive(q, kind, c) ==
    /\ req[q].pc = "idle" /\ c \in Issued
    /\ Step(q, [NoRequest EXCEPT !.pc = "session", !.kind = kind, !.cookie = c, !.late = c \in ended])
    /\ UNCHANGED <<sessionVars, governed>>

\* getSession: the session is copied under the read lock ...
getSession(q) ==
    /\ req[q].pc = "session"
    /\ LET e == sessions[req[q].cookie]
       IN IF e = 0 THEN Answer(q) ELSE Step(q, [req[q] EXCEPT !.pc = "expiry", !.expiresAt = e])
    /\ UNCHANGED <<sessionVars, governed>>

\* A phase of authorizations begins.  In the one that the call relies on, held,
\* named and bundles say which tenants the bindings, the assignments and the
\* bundle have had since.
Begin(q, phase, left) ==
    LET relied == phase = Relied(req[q].kind) IN
    [req[q] EXCEPT !.expiresAt = 0, !.overdue = IF phase = "gate" THEN now >= tokenExp[req[q].cookie] ELSE @,
                   !.pc = IF left > 0 THEN "scopes" ELSE IF phase = "gate" THEN "handler" ELSE "forward",
                   !.phase = phase, !.left = left,
                   !.held = IF relied THEN requesterTenants ELSE {},
                   !.named = IF relied THEN Named[req[q].kind] ELSE {},
                   !.bundles = IF relied THEN {bundle} ELSE {}]

\* As CheckExpiry, with a session that is stored again with a later expiry.
CheckExpiryRefresh(q) ==
    /\ req[q].pc = "expiry"
    /\ IF req[q].expiresAt > now
       THEN /\ Step(q, Begin(q, "gate", Gates(req[q].kind)))
            /\ sessions' = [sessions EXCEPT ![req[q].cookie] = req[q].expiresAt]
            /\ UNCHANGED <<now, signInVars, origin, tokenExp, ended>>
       ELSE Goto(q, "delete") /\ UNCHANGED sessionVars
    /\ UNCHANGED governed

\* ... and its expiry is compared with the clock after the lock is released.
CheckExpiry(q) ==
    /\ req[q].pc = "expiry"
    /\ IF req[q].expiresAt > now
       THEN Step(q, Begin(q, "gate", Gates(req[q].kind)))
       ELSE Goto(q, "delete")
    /\ UNCHANGED <<sessionVars, governed>>

\* An expired session is deleted in a critical section of its own.
DeleteExpired(q) ==
    /\ req[q].pc = "delete"
    /\ deleteSession(req[q].cookie)
    /\ Answer(q)
    /\ UNCHANGED <<now, signInVars, origin, tokenExp, ended, governed>>

logout(q) ==
    /\ req[q].pc = "handler" /\ req[q].kind = "logout"
    /\ deleteSession(req[q].cookie)
    /\ ended' = ended \union {req[q].cookie}
    /\ Answer(q)
    /\ UNCHANGED <<now, signInVars, origin, tokenExp, governed>>

----------------------------------------------------------------------------
(* requesterLifecycleAuthorizer and authorizedDashboardClient.             *)

\* The scopes are read first; without any the request is refused.
loadPrincipalScopes(q) ==
    /\ req[q].pc = "scopes"
    /\ IF requesterTenants = {} THEN Answer(q)
       ELSE Step(q, [req[q] EXCEPT !.tenants = requesterTenants,
                                   !.pc = IF req[q].kind = "create" THEN "bundle" ELSE "resolve"])
    /\ UNCHANGED <<sessionVars, governed>>

\* As Decide, but any tenant scope will do.
DecideAnyTenant(q, t) ==
    IF t = Absent THEN Answer(q)
    ELSE Step(q, [req[q] EXCEPT !.pc = IF req[q].left > 1 THEN "scopes"
                                       ELSE IF req[q].phase = "gate" THEN "handler" ELSE "forward",
                                !.left = @ - 1, !.tenants = {}])

\* tenantAllowed, for the tenant t: one authorization less is left.
Decide(q, t) ==
    IF t \notin req[q].tenants THEN Answer(q)
    ELSE Step(q, [req[q] EXCEPT !.pc = IF req[q].left > 1 THEN "scopes"
                                       ELSE IF req[q].phase = "gate" THEN "handler" ELSE "forward",
                                !.left = @ - 1, !.tenants = {}])

\* A listed sandbox is what the first gate of an aggregate path and the wrapper's
\* list look up.
Listed(q) ==
    \/ req[q].kind \in {"page", "takeSnapshot"} /\ req[q].phase = "gate" /\ req[q].left = 2
    \/ req[q].kind \in {"page", "detail"} /\ req[q].phase = "client"

\* Then the assignment is read.
authorizeSandbox(q) ==
    /\ req[q].pc = "resolve"
    /\ \E byObject \in {FALSE, Listed(q)} :
         LET t == sandboxLogicalTenant(byObject)
         IN IF t = Empty THEN Goto(q, "bundle") ELSE Decide(q, t)
    /\ UNCHANGED <<sessionVars, governed>>

\* Then the bundle, for an assignment that names no tenant and for the template.
bundleLogicalTenant(q) ==
    /\ req[q].pc = "bundle"
    /\ Decide(q, bundle)
    /\ UNCHANGED <<sessionVars, governed>>

\* The page's handler calls the wrapped client.  A create keeps the middleware's
\* authorization and node loads need none; every other call begins its own.
Handle(q) ==
    /\ req[q].pc = "handler" /\ req[q].kind # "logout"
    /\ IF Checks(req[q].kind) = 0 THEN Goto(q, "forward") ELSE Step(q, Begin(q, "client", Checks(req[q].kind)))
    /\ UNCHANGED <<sessionVars, governed>>

\* sandboxTemplateTransport adds the caller's token, and to a create its key and
\* template, and sends the call on.  What a page or GetSnapshot reads is fetched
\* before it is authorized: for these the step stands for the answer that shows it.
RoundTrip(q) ==
    /\ req[q].pc = "forward"
    /\ Goto(q, "forwarded")
    /\ UNCHANGED <<sessionVars, governed>>

\* A read of the API server, of the token file or of OpenSandbox fails.
Fails(q) ==
    /\ req[q].pc \in {"scopes", "resolve", "bundle", "forward"}
    /\ Answer(q)
    /\ UNCHANGED <<sessionVars, governed>>

Return(q) ==
    /\ req[q].pc = "forwarded"
    /\ Answer(q)
    /\ UNCHANGED <<sessionVars, governed>>

Serve(q) ==
    \/ getSession(q) \/ CheckExpiry(q) \/ DeleteExpired(q) \/ logout(q)
    \/ loadPrincipalScopes(q) \/ authorizeSandbox(q) \/ bundleLogicalTenant(q)
    \/ Handle(q) \/ RoundTrip(q) \/ Fails(q) \/ Return(q)
    \/ \E kind \in MayAsk[q], c \in Cookies : Arrive(q, kind, c)

----------------------------------------------------------------------------
(* Administrators, the process and the clock.                              *)

Authenticated(q) ==
    req[q].pc \in {"scopes", "resolve", "bundle", "handler", "forward", "forwarded"}

\* History: a request that is being authorized has seen what is true from now on.
Witness ==
    req' = [q \in Requests |->
              IF ~ Authenticated(q) \/ req[q].phase # Relied(req[q].kind) THEN req[q] ELSE
              [req[q] EXCEPT !.held = @ \union requesterTenants',
                             !.named = @ \union Named'[req[q].kind],
                             !.bundles = @ \union {bundle'}]]

Edit ==
    /\ changes < MaxChanges /\ changes' = changes + 1
    /\ \/ \E b \in Bindings, s \in BindingStates :
            bindings' = [bindings EXCEPT ![b] = s] /\ UNCHANGED <<assignments, bundle>>
       \/ \E a \in Assignments, t \in Tenants \union {Empty, Absent} :
            assignments' = [assignments EXCEPT ![a] = t] /\ UNCHANGED <<bindings, bundle>>
       \/ \E t \in Tenants \union {Empty} : bundle' = t /\ UNCHANGED <<bindings, assignments>>
    /\ Witness
    /\ UNCHANGED sessionVars

Cleanup == cleanup /\ UNCHANGED <<governed, req>>

Tick == Advance /\ UNCHANGED <<governed, req>>

\* Sign-ins and requests die with the process; the tabs keep their storage.
Restart ==
    /\ LoseSessions
    /\ tab' = [b \in Tabs |-> NoTab]
    /\ req' = [q \in Requests |-> NoRequest]
    /\ UNCHANGED <<starts, saved, governed>>

Next ==
    \/ \E b \in Tabs : SignIn(b) /\ UNCHANGED <<governed, req>>
    \/ \E q \in Requests : Serve(q)
    \/ Edit \/ Cleanup \/ Tick \/ Restart

Spec == Init /\ [][Next]_vars

----------------------------------------------------------------------------
(* Properties.                                                             *)

RequestState ==
    [pc : {"idle", "session", "expiry", "delete", "scopes", "resolve", "bundle", "handler",
           "forward", "forwarded"},
     kind : Kinds, cookie : Cookies \union {Absent}, expiresAt : 0..MaxTime + SessionLifetime,
     phase : {"gate", "client"}, left : 0..2, tenants : SUBSET Tenants,
     late : BOOLEAN, overdue : BOOLEAN, held : SUBSET Tenants,
     named : SUBSET (Tenants \union {Empty}), bundles : SUBSET (Tenants \union {Empty})]

GovernedTypeOK ==
    /\ bindings \in [Bindings -> BindingStates]
    /\ assignments \in [Assignments -> Tenants \union {Empty, Absent}]
    /\ bundle \in Tenants \union {Empty} /\ changes \in 0..MaxChanges

\* Every variable keeps its type, and the store never holds more than
\* maxSessions sessions.
TypeOK == SessionTypeOK /\ GovernedTypeOK /\ req \in [Requests -> RequestState]

\* A request passes the session middleware only with a session that had not been
\* logged out or lost when the request arrived, and before the token that the
\* session came from expires: nothing brings a session back or extends it.
SessionHonoured ==
    \A q \in Requests : Authenticated(q) => ~ req[q].late /\ ~ req[q].overdue

\* The tenants that the request's object had, read as the code reads them: the
\* assignment's, or the bundle's where the assignment named none.
Owned(r) == (r.named \ {Empty}) \union (IF Empty \in r.named THEN r.bundles \ {Empty} ELSE {})

\* A call for a sandbox, a snapshot or a list of them reaches OpenSandbox only for
\* a tenant that the requester's only binding named, and that the called object
\* had, at some time since the last authorization began: in the client wrapper, or
\* for a create in the middleware.  Node loads, which name no sandbox, are the
\* one call that the wrapper passes on for every session.
OperationAuthorized ==
    \A q \in Requests :
        req[q].pc = "forwarded" /\ req[q].kind # "loads" => req[q].held \intersect Owned(req[q]) # {}

\* A started sign-in ends in one session at most, although its callback page may
\* be loaded again.
OneSessionPerSignIn ==
    \A c, d \in Issued : origin[c] = origin[d] => c = d

\* A sign-in is refused for the capacity of the store only while that many
\* sessions are unexpired.
CapacityOnlyByLiveSessions ==
    [][\A b \in Tabs : tab'[b].pc = "full" /\ tab[b].pc # "full" => Cardinality(Live) >= MaxSessions]_vars

=============================================================================
