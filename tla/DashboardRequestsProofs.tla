---------------------- MODULE DashboardRequestsProofs ----------------------
(***************************************************************************)
(* DashboardRequests for any number of tabs, sessions, requests, tenants,  *)
(* bindings and assignments, and any number of edits while a request is    *)
(* under way.  The inductive invariant follows a sign-in from the tab's    *)
(* storage to its session (OnePlace), a session's expiry from the token to *)
(* the request (Dated, Admitted), and what the reads of an authorization   *)
(* have seen (Seen).                                                       *)
(***************************************************************************)
EXTENDS DashboardRequests, FiniteSetTheorems, TLAPS

\* A started sign-in is in at most one place: saved in a tab, in the callback
\* of a tab, or turned into a session.
OnePlace ==
    /\ \A b \in Tabs : saved[b].state <= starts /\ tab[b].code <= starts
    /\ \A c \in Cookies : origin[c] <= starts
    /\ \A b \in Tabs : tab[b].pc # "away" => tab[b].code # 0
    /\ \A b, d \in Tabs : saved[b].state # 0 => saved[b].state # tab[d].code
    /\ \A b, d \in Tabs : b # d /\ saved[b].state # 0 => saved[b].state # saved[d].state
    /\ \A b, d \in Tabs : b # d /\ tab[b].code # 0 => tab[b].code # tab[d].code
    /\ \A b \in Tabs, c \in Cookies : origin[c] # 0 => origin[c] # saved[b].state /\ origin[c] # tab[b].code
    /\ \A c, d \in Cookies : c # d /\ origin[c] # 0 => origin[c] # origin[d]

\* A session ends with its token at the latest, and an ended one is gone.
Dated ==
    /\ \A c \in Cookies : sessions[c] <= tokenExp[c]
    /\ \A b \in Tabs : tab[b].pc = "create" => tab[b].expiresAt <= tab[b].exp
    /\ \A c \in ended : sessions[c] = 0

\* A request has the cookie of a session; one that arrived too late gets no
\* further than the lookup, and the copied expiry is not after the token's.
AdmittedReq(r) ==
    /\ r.pc # "idle" => r.cookie \in Issued
    /\ r.late => r.pc = "session" /\ r.cookie \in ended
    /\ ~ r.overdue
    /\ r.pc = "expiry" => r.expiresAt <= tokenExp[r.cookie]

Admitted == \A q \in Requests : AdmittedReq(req[q])

\* A request in the phase whose authorizations its call relies on.
Relying(r) == r.phase = Relied(r.kind)

\* A request whose authorization is done: what is sent on rests on it.
Cleared(r) == Relying(r) /\ r.pc \in {"handler", "forward", "forwarded"}

\* Since the authorization it relies on began, a request has seen every tenant
\* that the binding, the assignment and the bundle have had, and it decides on
\* those.
SeenReq(r) ==
    /\ r.pc = "resolve" => r.kind # "create"
    /\ Relying(r) =>
          /\ r.pc \in {"scopes", "resolve", "bundle", "handler", "forward", "forwarded"} =>
                requesterTenants \subseteq r.held /\ Named[r.kind] \subseteq r.named /\ bundle \in r.bundles
          /\ r.pc \in {"resolve", "bundle"} => r.tenants \subseteq r.held
          /\ r.pc = "bundle" => Empty \in r.named
    /\ Cleared(r) => r.held \intersect Owned(r) # {}

Seen == \A q \in Requests : SeenReq(req[q])

\* An authorization that is under way is one of those still left; a handler runs
\* after the gates, and what it sends on has come through the phase it relies on.
CountedReq(r) ==
    /\ r.pc \in {"scopes", "resolve", "bundle"} => r.left # 0
    /\ r.phase = "client" => r.kind # "create"
    /\ r.pc = "handler" => r.phase = "gate"
    /\ r.pc \in {"forward", "forwarded"} => r.kind = "loads" \/ Relying(r)

Counted == \A q \in Requests : CountedReq(req[q])

-----------------------------------------------------------------------------
(* The store. *)

\* A store that lost sessions, or kept them, is within its capacity.
LEMMA StoreShrinks ==
    ASSUME SessionTypeOK, NEW f, \A c \in Cookies : f[c] # 0 => sessions[c] # 0
    PROVE  Cardinality({c \in Cookies : f[c] # 0}) <= MaxSessions
<1> DEFINE B == {c \in Cookies : f[c] # 0}
<1>1. Stored \in SUBSET Cookies /\ IsFiniteSet(Cookies) /\ MaxSessions \in Nat
  BY SessionAssumption DEF Stored
<1>2. IsFiniteSet(Stored) /\ Cardinality(Stored) \in Nat /\ Cardinality(Stored) <= MaxSessions
  BY <1>1, FS_Subset, FS_CardinalityType DEF SessionTypeOK
<1>3. B \in SUBSET Stored
  BY DEF Stored
<1>4. Cardinality(B) <= Cardinality(Stored) /\ Cardinality(B) \in Nat
  BY <1>2, <1>3, FS_Subset, FS_CardinalityType
<1> QED BY <1>1, <1>2, <1>4

\* A session that is added below the capacity leaves the store within it.
LEMMA StoreGrows ==
    ASSUME NEW S \in SUBSET Cookies, Cardinality(S) < MaxSessions,
           NEW d \in Cookies, NEW T \in SUBSET (S \union {d})
    PROVE  Cardinality(T) <= MaxSessions
<1>1. IsFiniteSet(Cookies) /\ MaxSessions \in Nat
  BY SessionAssumption
<1>2. IsFiniteSet(S) /\ Cardinality(S) \in Nat
  BY <1>1, FS_Subset, FS_CardinalityType
<1>3. IsFiniteSet(S \union {d}) /\ Cardinality(S \union {d}) <= Cardinality(S) + 1
  BY <1>2, FS_AddElement
<1>4. Cardinality(T) <= Cardinality(S \union {d}) /\ Cardinality(T) \in Nat /\ Cardinality(S \union {d}) \in Nat
  BY <1>3, FS_Subset, FS_CardinalityType
<1> QED BY <1>1, <1>2, <1>3, <1>4

\* What is left of the store is what the sign-ins and the requests have not changed.
LEMMA SessionFrame ==
    ASSUME SessionTypeOK, UNCHANGED sessionVars
    PROVE  SessionTypeOK'
BY DEF SessionTypeOK, sessionVars, Issued, Stored

\* Every step keeps the types of the sign-ins and of the store.
LEMMA SessionTypeStep ==
    ASSUME SessionTypeOK, Admitted, [Next]_vars
    PROVE  SessionTypeOK'
<1> USE SessionAssumption DEF SessionTypeOK, NoTab, NotSaved, Issued, vars, sessionVars, storeVars, signInVars, governed
<1>1. ASSUME NEW b \in Tabs, Start(b), UNCHANGED <<governed, req>> PROVE SessionTypeOK'
  BY <1>1 DEF Start, Stored
<1>2. ASSUME NEW b \in Tabs, SignInFails(b), UNCHANGED <<governed, req>> PROVE SessionTypeOK'
  <2>1. tab' \in [Tabs -> [pc : {"away", "validate", "create", "full"}, code : 0..MaxStarts, exp : 0..MaxTime + SessionLifetime,
                            expiresAt : 0..MaxTime + SessionLifetime]]
    BY <1>2 DEF SignInFails
  <2> QED BY <1>2, <2>1 DEF SignInFails, Stored
<1>3. ASSUME NEW b \in Tabs, Validate(b), UNCHANGED <<governed, req>> PROVE SessionTypeOK'
  <2>0. Bounded(tab[b].exp) \in 0..MaxTime + SessionLifetime
    BY DEF Bounded
  <2>1. tab' \in [Tabs -> [pc : {"away", "validate", "create", "full"}, code : 0..MaxStarts, exp : 0..MaxTime + SessionLifetime,
                            expiresAt : 0..MaxTime + SessionLifetime]]
    <3>1. \/ tab' = [tab EXCEPT ![b] = NoTab]
          \/ tab' = [tab EXCEPT ![b] = [tab[b] EXCEPT !.pc = "create", !.expiresAt = Bounded(tab[b].exp)]]
      BY <1>3 DEF Validate
    <3> DEFINE State == [pc : {"away", "validate", "create", "full"}, code : 0..MaxStarts, exp : 0..MaxTime + SessionLifetime,
                         expiresAt : 0..MaxTime + SessionLifetime]
               x == Bounded(tab[b].exp)
    <3>2. tab \in [Tabs -> State] /\ tab[b] \in State /\ NoTab \in State
      OBVIOUS
    <3>3. [tab[b] EXCEPT !.pc = "create", !.expiresAt = x] \in State
      <4>1. x \in 0..MaxTime + SessionLifetime
        BY <2>0
      <4> HIDE DEF x, SessionTypeOK
      <4> QED BY <4>1, <3>2
    <3> HIDE DEF State, SessionTypeOK
    <3>4. tab' \in [Tabs -> State]
      BY <3>1, <3>2, <3>3
    <3> QED BY <3>4 DEF State
  <2> QED BY <1>3, <2>1 DEF Validate, Stored
<1>4. ASSUME NEW b \in Tabs, NEW s \in 1..starts, NEW exp \in 1..MaxTime + SessionLifetime, Callback(b, s, exp), UNCHANGED <<governed, req>> PROVE SessionTypeOK'
  <2>0. starts \in 0..MaxStarts /\ s \in 0..MaxStarts /\ exp \in 0..MaxTime + SessionLifetime
    OBVIOUS
  <2>1. tab' \in [Tabs -> [pc : {"away", "validate", "create", "full"}, code : 0..MaxStarts, exp : 0..MaxTime + SessionLifetime,
                            expiresAt : 0..MaxTime + SessionLifetime]]
    <3> DEFINE State == [pc : {"away", "validate", "create", "full"}, code : 0..MaxStarts, exp : 0..MaxTime + SessionLifetime,
                         expiresAt : 0..MaxTime + SessionLifetime]
    <3>1. \/ tab' = tab
          \/ tab' = [tab EXCEPT ![b] = [tab[b] EXCEPT !.pc = "validate", !.code = s, !.exp = exp]]
      BY <1>4 DEF Callback
    <3>2. tab \in [Tabs -> State] /\ tab[b] \in State
      OBVIOUS
    <3>3. [tab[b] EXCEPT !.pc = "validate", !.code = s, !.exp = exp] \in State
      <4> HIDE DEF SessionTypeOK
      <4> QED BY <2>0, <3>2
    <3> HIDE DEF State, SessionTypeOK
    <3>4. tab' \in [Tabs -> State]
      BY <3>1, <3>2, <3>3
    <3> QED BY <3>4 DEF State
  <2> QED BY <1>4, <2>1 DEF Callback, Stored
<1>5. ASSUME NEW b \in Tabs, NEW c \in Cookies, createSession(b, c), UNCHANGED <<governed, req>> PROVE SessionTypeOK'
  <2> DEFINE Kept == {d \in Cookies : cleanupLocked[d] # 0}
  <2>0. cleanupLocked \in [Cookies -> 0..MaxTime + SessionLifetime] /\ \A d \in Cookies : cleanupLocked[d] # 0 => sessions[d] # 0
    BY DEF cleanupLocked
  <2>1. CASE Cardinality(Kept) >= MaxSessions
    <3>1. /\ tab' = [tab EXCEPT ![b].pc = "full"] /\ sessions' = cleanupLocked
          /\ UNCHANGED <<now, starts, saved, origin, tokenExp, ended>>
      BY <1>5, <2>1, Zenon DEF createSession
    <3>2. Cardinality({d \in Cookies : sessions'[d] # 0}) <= MaxSessions
      <4>1. \A d \in Cookies : sessions'[d] # 0 => sessions[d] # 0
        BY <2>0, <3>1
      <4> QED BY <4>1, StoreShrinks
    <3> QED BY <3>1, <3>2, <2>0 DEF Stored
  <2>2. CASE ~ (Cardinality(Kept) >= MaxSessions)
    <3>1. AddSession(b, c, cleanupLocked) /\ UNCHANGED <<now, starts, saved>> /\ c \notin Issued
      BY <1>5, <2>2, Zenon DEF createSession
    <3>2. Cardinality({d \in Cookies : sessions'[d] # 0}) <= MaxSessions
      <4>0. IsFiniteSet(Kept)
        BY FS_Subset
      <4>1. Cardinality(Kept) < MaxSessions
        BY <2>2, <4>0, FS_CardinalityType
      <4>2. \A d \in Cookies : d # c => sessions'[d] = cleanupLocked[d]
        BY <2>0, <3>1 DEF AddSession
      <4>3. {d \in Cookies : sessions'[d] # 0} \in SUBSET (Kept \union {c})
        BY <4>2
      <4>4. Kept \in SUBSET Cookies
        OBVIOUS
      <4> HIDE DEF Kept
      <4> QED BY <4>1, <4>3, <4>4, StoreGrows
    <3>3. tab[b].expiresAt \in 0..MaxTime + SessionLifetime /\ tab[b].code \in 0..MaxStarts /\ tab[b].exp \in 0..MaxTime + SessionLifetime
      OBVIOUS
    <3>4. sessions' \in [Cookies -> 0..MaxTime + SessionLifetime] /\ origin' \in [Cookies -> 0..MaxStarts]
          /\ tokenExp' \in [Cookies -> 0..MaxTime + SessionLifetime]
      BY <2>0, <3>1, <3>3 DEF AddSession
    <3>5. ended' \subseteq Issued'
      BY <3>1 DEF AddSession
    <3>6. tab' \in [Tabs -> [pc : {"away", "validate", "create", "full"}, code : 0..MaxStarts, exp : 0..MaxTime + SessionLifetime,
                             expiresAt : 0..MaxTime + SessionLifetime]]
      BY <3>1 DEF AddSession
    <3> QED BY <3>1, <3>2, <3>4, <3>5, <3>6 DEF Stored
  <2> QED BY <2>1, <2>2
<1>6. ASSUME NEW q \in Requests, getSession(q) PROVE SessionTypeOK'
  <2>1. UNCHANGED sessionVars
    BY <1>6, Zenon DEF getSession
  <2> QED BY <2>1, SessionFrame
<1>7. ASSUME NEW q \in Requests, CheckExpiry(q) PROVE SessionTypeOK'
  <2>1. UNCHANGED sessionVars
    BY <1>7, Zenon DEF CheckExpiry
  <2> QED BY <2>1, SessionFrame
<1>8. ASSUME NEW q \in Requests, DeleteExpired(q) PROVE SessionTypeOK'
  <2>1. req[q].cookie \in Issued
    BY <1>8 DEF DeleteExpired, Admitted, AdmittedReq
  <2>2. sessions' \in [Cookies -> 0..MaxTime + SessionLifetime] /\ \A c \in Cookies : sessions'[c] # 0 => sessions[c] # 0
    BY <1>8, <2>1 DEF DeleteExpired, deleteSession
  <2>3. Cardinality(Stored)' <= MaxSessions
    <3>1. Cardinality({c \in Cookies : sessions'[c] # 0}) <= MaxSessions
      BY <2>2, StoreShrinks
    <3> QED BY <3>1 DEF Stored
  <2> QED BY <1>8, <2>1, <2>2, <2>3 DEF DeleteExpired
<1>9. ASSUME NEW q \in Requests, logout(q) PROVE SessionTypeOK'
  <2>1. req[q].cookie \in Issued
    BY <1>9 DEF logout, Admitted, AdmittedReq
  <2>2. sessions' \in [Cookies -> 0..MaxTime + SessionLifetime] /\ \A c \in Cookies : sessions'[c] # 0 => sessions[c] # 0
    BY <1>9, <2>1 DEF logout, deleteSession
  <2>3. Cardinality(Stored)' <= MaxSessions
    <3>1. Cardinality({c \in Cookies : sessions'[c] # 0}) <= MaxSessions
      BY <2>2, StoreShrinks
    <3> QED BY <3>1 DEF Stored
  <2> QED BY <1>9, <2>1, <2>2, <2>3 DEF logout
<1>10. ASSUME NEW q \in Requests, loadPrincipalScopes(q) PROVE SessionTypeOK'
  <2>1. UNCHANGED sessionVars
    BY <1>10, Zenon DEF loadPrincipalScopes
  <2> QED BY <2>1, SessionFrame
<1>11. ASSUME NEW q \in Requests, authorizeSandbox(q) PROVE SessionTypeOK'
  <2>1. UNCHANGED sessionVars
    BY <1>11, Zenon DEF authorizeSandbox
  <2> QED BY <2>1, SessionFrame
<1>12. ASSUME NEW q \in Requests, bundleLogicalTenant(q) PROVE SessionTypeOK'
  <2>1. UNCHANGED sessionVars
    BY <1>12, Zenon DEF bundleLogicalTenant
  <2> QED BY <2>1, SessionFrame
<1>13. ASSUME NEW q \in Requests, Handle(q) PROVE SessionTypeOK'
  <2>1. UNCHANGED sessionVars
    BY <1>13, Zenon DEF Handle
  <2> QED BY <2>1, SessionFrame
<1>14. ASSUME NEW q \in Requests, RoundTrip(q) PROVE SessionTypeOK'
  <2>1. UNCHANGED sessionVars
    BY <1>14, Zenon DEF RoundTrip
  <2> QED BY <2>1, SessionFrame
<1>15. ASSUME NEW q \in Requests, Fails(q) PROVE SessionTypeOK'
  <2>1. UNCHANGED sessionVars
    BY <1>15, Zenon DEF Fails
  <2> QED BY <2>1, SessionFrame
<1>16. ASSUME NEW q \in Requests, Return(q) PROVE SessionTypeOK'
  <2>1. UNCHANGED sessionVars
    BY <1>16, Zenon DEF Return
  <2> QED BY <2>1, SessionFrame
<1>17. ASSUME NEW q \in Requests, NEW kind \in MayAsk[q], NEW c \in Cookies, Arrive(q, kind, c) PROVE SessionTypeOK'
  <2>1. UNCHANGED sessionVars
    BY <1>17, Zenon DEF Arrive
  <2> QED BY <2>1, SessionFrame
<1>18. ASSUME Edit PROVE SessionTypeOK'
  <2>1. UNCHANGED sessionVars
    BY <1>18, Zenon DEF Edit
  <2> QED BY <2>1, SessionFrame
<1>19. ASSUME Cleanup PROVE SessionTypeOK'
  <2>2. sessions' \in [Cookies -> 0..MaxTime + SessionLifetime] /\ \A c \in Cookies : sessions'[c] # 0 => sessions[c] # 0
    BY <1>19 DEF Cleanup, cleanup, cleanupLocked
  <2>3. Cardinality(Stored)' <= MaxSessions
    <3>1. Cardinality({c \in Cookies : sessions'[c] # 0}) <= MaxSessions
      BY <2>2, StoreShrinks
    <3> QED BY <3>1 DEF Stored
  <2> QED BY <1>19, <2>2, <2>3 DEF Cleanup, cleanup, cleanupLocked
<1>20. ASSUME Tick PROVE SessionTypeOK'
  BY <1>20 DEF Tick, Advance, Stored
<1>21. ASSUME Restart PROVE SessionTypeOK'
  <2>2. sessions' \in [Cookies -> 0..MaxTime + SessionLifetime] /\ \A c \in Cookies : sessions'[c] # 0 => sessions[c] # 0
    BY <1>21 DEF Restart, LoseSessions
  <2>3. Cardinality(Stored)' <= MaxSessions
    <3>1. Cardinality({c \in Cookies : sessions'[c] # 0}) <= MaxSessions
      BY <2>2, StoreShrinks
    <3> QED BY <3>1 DEF Stored
  <2> QED BY <1>21, <2>2, <2>3 DEF Restart, LoseSessions
<1>22. ASSUME UNCHANGED vars PROVE SessionTypeOK'
  <2>1. UNCHANGED sessionVars
    BY <1>22, Zenon DEF vars
  <2> QED BY <2>1, SessionFrame
<1> QED BY <1>1, <1>2, <1>3, <1>4, <1>5, <1>6, <1>7, <1>8, <1>9, <1>10, <1>11, <1>12, <1>13, <1>14, <1>15, <1>16, <1>17, <1>18, <1>19, <1>20, <1>21, <1>22 DEF Next, SignIn, Serve

\* Every step keeps a sign-in in one place.
LEMMA OnePlaceStep ==
    ASSUME SessionTypeOK, OnePlace, [Next]_vars
    PROVE  OnePlace'
<1> USE SessionAssumption, RequestAssumption DEF SessionTypeOK, OnePlace, NoTab, NotSaved, Issued, vars, sessionVars, storeVars, signInVars, governed
<1>1. ASSUME NEW b \in Tabs, Start(b), UNCHANGED <<governed, req>> PROVE OnePlace'
  BY <1>1 DEF Start
<1>2. ASSUME NEW b \in Tabs, SignInFails(b), UNCHANGED <<governed, req>> PROVE OnePlace'
  BY <1>2 DEF SignInFails
<1>3. ASSUME NEW b \in Tabs, Validate(b), UNCHANGED <<governed, req>> PROVE OnePlace'
  BY <1>3 DEF Validate
<1>4. ASSUME NEW b \in Tabs, NEW s \in 1..starts, NEW exp \in 1..MaxTime + SessionLifetime, Callback(b, s, exp), UNCHANGED <<governed, req>> PROVE OnePlace'
  BY <1>4 DEF Callback
<1>5. ASSUME NEW b \in Tabs, NEW c \in Cookies, createSession(b, c), UNCHANGED <<governed, req>> PROVE OnePlace'
  <2>1. \/ tab' = [tab EXCEPT ![b].pc = "full"] /\ UNCHANGED <<starts, saved, origin>>
        \/ /\ tab' = [tab EXCEPT ![b] = NoTab] /\ origin' = [origin EXCEPT ![c] = tab[b].code]
           /\ UNCHANGED <<starts, saved>> /\ tab[b].pc = "create" /\ origin[c] = 0
    BY <1>5 DEF createSession, AddSession
  <2>2. CASE tab' = [tab EXCEPT ![b].pc = "full"] /\ UNCHANGED <<starts, saved, origin>>
    <3>1. \A d \in Tabs : tab'[d].code = tab[d].code
      BY <2>2
    <3>2. \A d \in Tabs : tab'[d].pc # "away" => tab[d].pc # "away"
      BY <1>5, <2>2 DEF createSession
    <3> QED BY <2>2, <3>1, <3>2
  <2>3. CASE /\ tab' = [tab EXCEPT ![b] = NoTab] /\ origin' = [origin EXCEPT ![c] = tab[b].code]
             /\ UNCHANGED <<starts, saved>> /\ tab[b].pc = "create" /\ origin[c] = 0
    <3>1. \A d \in Tabs : d # b => tab'[d] = tab[d]
      BY <2>3
    <3>2. tab'[b].code = 0 /\ tab'[b].pc = "away" /\ tab[b].code # 0
      BY <2>3
    <3>3. \A d \in Cookies : d # c => origin'[d] = origin[d]
      BY <2>3
    <3>4. origin'[c] = tab[b].code
      BY <2>3
    <3> QED BY <2>3, <3>1, <3>2, <3>3, <3>4
  <2> QED BY <2>1, <2>2, <2>3
<1>6. ASSUME NEW q \in Requests, getSession(q) PROVE OnePlace'
  BY <1>6 DEF getSession
<1>7. ASSUME NEW q \in Requests, CheckExpiry(q) PROVE OnePlace'
  BY <1>7 DEF CheckExpiry, Begin
<1>8. ASSUME NEW q \in Requests, DeleteExpired(q) PROVE OnePlace'
  BY <1>8 DEF DeleteExpired, deleteSession
<1>9. ASSUME NEW q \in Requests, logout(q) PROVE OnePlace'
  BY <1>9 DEF logout, deleteSession
<1>10. ASSUME NEW q \in Requests, loadPrincipalScopes(q) PROVE OnePlace'
  BY <1>10 DEF loadPrincipalScopes
<1>11. ASSUME NEW q \in Requests, authorizeSandbox(q) PROVE OnePlace'
  BY <1>11 DEF authorizeSandbox, Decide
<1>12. ASSUME NEW q \in Requests, bundleLogicalTenant(q) PROVE OnePlace'
  BY <1>12 DEF bundleLogicalTenant, Decide
<1>13. ASSUME NEW q \in Requests, Handle(q) PROVE OnePlace'
  BY <1>13 DEF Handle, Begin
<1>14. ASSUME NEW q \in Requests, RoundTrip(q) PROVE OnePlace'
  BY <1>14 DEF RoundTrip
<1>15. ASSUME NEW q \in Requests, Fails(q) PROVE OnePlace'
  BY <1>15 DEF Fails
<1>16. ASSUME NEW q \in Requests, Return(q) PROVE OnePlace'
  BY <1>16 DEF Return
<1>17. ASSUME NEW q \in Requests, NEW kind \in MayAsk[q], NEW c \in Cookies, Arrive(q, kind, c) PROVE OnePlace'
  BY <1>17 DEF Arrive
<1>18. ASSUME Edit PROVE OnePlace'
  BY <1>18 DEF Edit, Witness
<1>19. ASSUME Cleanup PROVE OnePlace'
  BY <1>19 DEF Cleanup, cleanup
<1>20. ASSUME Tick PROVE OnePlace'
  BY <1>20 DEF Tick, Advance
<1>21. ASSUME Restart PROVE OnePlace'
  BY <1>21 DEF Restart, LoseSessions
<1>22. ASSUME UNCHANGED vars PROVE OnePlace'
  BY <1>22
<1> QED BY <1>1, <1>2, <1>3, <1>4, <1>5, <1>6, <1>7, <1>8, <1>9, <1>10, <1>11, <1>12, <1>13, <1>14, <1>15, <1>16, <1>17, <1>18, <1>19, <1>20, <1>21, <1>22 DEF Next, SignIn, Serve

\* Every step keeps Dated.
LEMMA DatedStep ==
    ASSUME SessionTypeOK, Dated, Admitted, [Next]_vars
    PROVE  Dated'
<1> USE SessionAssumption, RequestAssumption DEF SessionTypeOK, Dated, Admitted, AdmittedReq, NoTab, Issued, vars, sessionVars, storeVars, signInVars, governed
<1>1. ASSUME NEW b \in Tabs, Start(b), UNCHANGED <<governed, req>> PROVE Dated'
  BY <1>1 DEF Start
<1>2. ASSUME NEW b \in Tabs, SignInFails(b), UNCHANGED <<governed, req>> PROVE Dated'
  BY <1>2 DEF SignInFails
<1>3. ASSUME NEW b \in Tabs, Validate(b), UNCHANGED <<governed, req>> PROVE Dated'
  <2>1. Bounded(tab[b].exp) <= tab[b].exp
    BY DEF Bounded
  <2> QED BY <1>3, <2>1 DEF Validate
<1>4. ASSUME NEW b \in Tabs, NEW s \in 1..starts, NEW exp \in 1..MaxTime + SessionLifetime, Callback(b, s, exp), UNCHANGED <<governed, req>> PROVE Dated'
  BY <1>4 DEF Callback
<1>5. ASSUME NEW b \in Tabs, NEW c \in Cookies, createSession(b, c), UNCHANGED <<governed, req>> PROVE Dated'
  <2>0. \A d \in Cookies : cleanupLocked[d] <= tokenExp[d] /\ (d \in ended => cleanupLocked[d] = 0)
    BY DEF cleanupLocked
  <2>1. \/ tab' = [tab EXCEPT ![b].pc = "full"] /\ sessions' = cleanupLocked /\ UNCHANGED <<tokenExp, ended>>
        \/ /\ tab' = [tab EXCEPT ![b] = NoTab] /\ sessions' = [cleanupLocked EXCEPT ![c] = tab[b].expiresAt]
           /\ tokenExp' = [tokenExp EXCEPT ![c] = tab[b].exp] /\ UNCHANGED ended
           /\ tab[b].pc = "create" /\ c \notin Issued
    BY <1>5, Zenon DEF createSession, AddSession
  <2>2. CASE tab' = [tab EXCEPT ![b].pc = "full"] /\ sessions' = cleanupLocked /\ UNCHANGED <<tokenExp, ended>>
    BY <2>0, <2>2
  <2>3. CASE /\ tab' = [tab EXCEPT ![b] = NoTab] /\ sessions' = [cleanupLocked EXCEPT ![c] = tab[b].expiresAt]
             /\ tokenExp' = [tokenExp EXCEPT ![c] = tab[b].exp] /\ UNCHANGED ended
             /\ tab[b].pc = "create" /\ c \notin Issued
    <3>1. cleanupLocked \in [Cookies -> 0..MaxTime + SessionLifetime]
      BY DEF cleanupLocked
    <3>2. \A d \in Cookies : d # c => sessions'[d] = cleanupLocked[d] /\ tokenExp'[d] = tokenExp[d]
      BY <2>3, <3>1
    <3>3. sessions'[c] = tab[b].expiresAt /\ tokenExp'[c] = tab[b].exp /\ c \notin ended
      BY <2>3, <3>1
    <3> QED BY <2>0, <2>3, <3>2, <3>3
  <2> QED BY <2>1, <2>2, <2>3
<1>6. ASSUME NEW q \in Requests, getSession(q) PROVE Dated'
  <2>1. UNCHANGED sessionVars
    BY <1>6, Zenon DEF getSession
  <2> QED BY <2>1
<1>7. ASSUME NEW q \in Requests, CheckExpiry(q) PROVE Dated'
  <2>1. UNCHANGED sessionVars
    BY <1>7, Zenon DEF CheckExpiry
  <2> QED BY <2>1
<1>8. ASSUME NEW q \in Requests, DeleteExpired(q) PROVE Dated'
  BY <1>8 DEF DeleteExpired, deleteSession
<1>9. ASSUME NEW q \in Requests, logout(q) PROVE Dated'
  BY <1>9 DEF logout, deleteSession
<1>10. ASSUME NEW q \in Requests, loadPrincipalScopes(q) PROVE Dated'
  <2>1. UNCHANGED sessionVars
    BY <1>10, Zenon DEF loadPrincipalScopes
  <2> QED BY <2>1
<1>11. ASSUME NEW q \in Requests, authorizeSandbox(q) PROVE Dated'
  <2>1. UNCHANGED sessionVars
    BY <1>11, Zenon DEF authorizeSandbox
  <2> QED BY <2>1
<1>12. ASSUME NEW q \in Requests, bundleLogicalTenant(q) PROVE Dated'
  <2>1. UNCHANGED sessionVars
    BY <1>12, Zenon DEF bundleLogicalTenant
  <2> QED BY <2>1
<1>13. ASSUME NEW q \in Requests, Handle(q) PROVE Dated'
  <2>1. UNCHANGED sessionVars
    BY <1>13, Zenon DEF Handle
  <2> QED BY <2>1
<1>14. ASSUME NEW q \in Requests, RoundTrip(q) PROVE Dated'
  <2>1. UNCHANGED sessionVars
    BY <1>14, Zenon DEF RoundTrip
  <2> QED BY <2>1
<1>15. ASSUME NEW q \in Requests, Fails(q) PROVE Dated'
  <2>1. UNCHANGED sessionVars
    BY <1>15, Zenon DEF Fails
  <2> QED BY <2>1
<1>16. ASSUME NEW q \in Requests, Return(q) PROVE Dated'
  <2>1. UNCHANGED sessionVars
    BY <1>16, Zenon DEF Return
  <2> QED BY <2>1
<1>17. ASSUME NEW q \in Requests, NEW kind \in MayAsk[q], NEW c \in Cookies, Arrive(q, kind, c) PROVE Dated'
  <2>1. UNCHANGED sessionVars
    BY <1>17, Zenon DEF Arrive
  <2> QED BY <2>1
<1>18. ASSUME Edit PROVE Dated'
  <2>1. UNCHANGED sessionVars
    BY <1>18, Zenon DEF Edit
  <2> QED BY <2>1
<1>19. ASSUME Cleanup PROVE Dated'
  BY <1>19 DEF Cleanup, cleanup, cleanupLocked
<1>20. ASSUME Tick PROVE Dated'
  BY <1>20 DEF Tick, Advance
<1>21. ASSUME Restart PROVE Dated'
  BY <1>21 DEF Restart, LoseSessions
<1>22. ASSUME UNCHANGED vars PROVE Dated'
  <2>1. UNCHANGED sessionVars
    BY <1>22, Zenon DEF vars
  <2> QED BY <2>1
<1> QED BY <1>1, <1>2, <1>3, <1>4, <1>5, <1>6, <1>7, <1>8, <1>9, <1>10, <1>11, <1>12, <1>13, <1>14, <1>15, <1>16, <1>17, <1>18, <1>19, <1>20, <1>21, <1>22 DEF Next, SignIn, Serve

-----------------------------------------------------------------------------
(* The requests. *)

ReqInv == req \in [Requests -> RequestState] /\ Admitted /\ Counted /\ Seen

GoodReq(r) == r \in RequestState /\ AdmittedReq(r) /\ CountedReq(r) /\ SeenReq(r)

\* What the API server says is of the declared types.
LEMMA GovernedTypes ==
    ASSUME GovernedTypeOK
    PROVE  /\ requesterTenants \subseteq Tenants
           /\ \A k \in Kinds : Named[k] \subseteq Tenants \union {Empty}
           /\ Named["create"] = {Empty}
           /\ bundle \in Tenants \union {Empty}
<1>1. requesterTenants \subseteq Tenants
  <2>1. CASE Cardinality(Bound) = 1
    <3>1. Bound # {}
      <4>1. CASE Bound = {}
        BY <2>1, <4>1, FS_EmptySet
      <4> QED BY <4>1
    <3>2. PICK b \in Bindings : requesterTenants = bindings[b].tenants
      BY <2>1, <3>1 DEF requesterTenants, Bound
    <3>3. bindings[b] \in BindingStates
      BY DEF GovernedTypeOK
    <3>4. bindings[b] = [active |-> FALSE, tenants |-> {}] \/ bindings[b] \in [active : {TRUE}, tenants : SUBSET Tenants]
      BY <3>3 DEF BindingStates
    <3>5. bindings[b].tenants \subseteq Tenants
      <4>1. CASE bindings[b] = [active |-> FALSE, tenants |-> {}]
        BY <4>1
      <4>2. CASE bindings[b] \in [active : {TRUE}, tenants : SUBSET Tenants]
        BY <4>2
      <4> QED BY <3>4, <4>1, <4>2
    <3> QED BY <3>2, <3>5
  <2>2. CASE Cardinality(Bound) # 1
    BY <2>2 DEF requesterTenants
  <2> QED BY <2>1, <2>2
<1>2. assignmentForSandboxID \in Tenants \union {Empty, Absent}
  <2>1. CASE Cardinality(Governing) = 1
    <3>1. Governing # {}
      <4>1. CASE Governing = {}
        BY <2>1, <4>1, FS_EmptySet
      <4> QED BY <4>1
    <3> QED BY <2>1, <3>1 DEF assignmentForSandboxID, Governing, GovernedTypeOK
  <2>2. CASE Cardinality(Governing) # 1
    BY <2>2 DEF assignmentForSandboxID
  <2> QED BY <2>1, <2>2
<1>3. \A byObject : sandboxLogicalTenant(byObject) \in Tenants \union {Empty, Absent}
  BY <1>2, RequestAssumption DEF sandboxLogicalTenant, GovernedTypeOK
<1>4. \A k \in Kinds : Named[k] \subseteq Tenants \union {Empty}
  <2> SUFFICES ASSUME NEW k \in Kinds, NEW t \in Named[k] PROVE t \in Tenants \union {Empty}
    OBVIOUS
  <2>1. CASE k = "create"
    BY <2>1 DEF Named
  <2>2. CASE k # "create"
    <3>1. t # Absent /\ \E byObject \in {FALSE, (k \in {"page", "detail"})} : t = sandboxLogicalTenant(byObject)
      BY <2>2, Zenon DEF Named
    <3>2. PICK byObject : t = sandboxLogicalTenant(byObject)
      BY <3>1, Zenon
    <3>3. t \in Tenants \union {Empty, Absent}
      BY <3>2, <1>3, Zenon
    <3> QED BY <3>1, <3>3
  <2> QED BY <2>1, <2>2
<1>5. Named["create"] = {Empty}
  BY DEF Named, Kinds
<1> QED BY <1>1, <1>4, <1>5 DEF GovernedTypeOK

\* It changes only with the governed objects.
LEMMA GovernedFrame ==
    ASSUME UNCHANGED governed
    PROVE  requesterTenants' = requesterTenants /\ Named' = Named /\ bundle' = bundle
BY DEF governed, requesterTenants, Bound, Named, sandboxLogicalTenant, assignmentForSandboxID, Governing

\* An idle request is a good one.
LEMMA IdleGood == GoodReq(NoRequest) /\ GoodReq(NoRequest)'
<1>1. NoRequest \in RequestState
  BY SessionAssumption DEF NoRequest, RequestState, Kinds
<1>2. NoRequest.pc = "idle" /\ NoRequest.late = FALSE /\ NoRequest.overdue = FALSE /\ NoRequest.phase = "gate"
  BY DEF NoRequest
<1> QED BY <1>1, <1>2 DEF GoodReq, AdmittedReq, CountedReq, SeenReq, Cleared

\* Sessions are issued and ended, and an issued one keeps the end of its token.
Later ==
    /\ Issued \subseteq Issued' /\ ended \subseteq ended'
    /\ \A c \in Issued : tokenExp'[c] = tokenExp[c]

\* What no request and no administrator does keeps the requests good.
LEMMA OtherStep ==
    ASSUME ReqInv, UNCHANGED <<governed, req>>, Later
    PROVE  ReqInv'
<1>1. requesterTenants' = requesterTenants /\ Named' = Named /\ bundle' = bundle
  BY GovernedFrame
<1>2. Admitted' /\ Counted'
  BY DEF ReqInv, Admitted, Counted, AdmittedReq, CountedReq, Later
<1>3. Seen'
  BY <1>1 DEF ReqInv, Seen, SeenReq
<1> QED BY <1>2, <1>3 DEF ReqInv

\* A step of a request to a good state.
LEMMA OwnStep ==
    ASSUME ReqInv, NEW q \in Requests, NEW x, GoodReq(x), req' = [req EXCEPT ![q] = x],
           UNCHANGED governed, Later
    PROVE  ReqInv'
<1>1. req'[q] = x /\ \A p \in Requests : p # q => req'[p] = req[p]
  BY DEF ReqInv
<1>2. \A p \in Requests : GoodReq(req'[p])
  BY <1>1 DEF ReqInv, Admitted, Counted, Seen, GoodReq
<1>3. requesterTenants' = requesterTenants /\ Named' = Named /\ bundle' = bundle
  BY GovernedFrame
<1>5. req' \in [Requests -> RequestState]
  BY DEF ReqInv, GoodReq
<1>6. Admitted' /\ Counted'
  BY <1>2 DEF Admitted, Counted, GoodReq, AdmittedReq, CountedReq, Later
<1>7. Seen'
  BY <1>2, <1>3 DEF Seen, GoodReq, SeenReq
<1> QED BY <1>5, <1>6, <1>7 DEF ReqInv

\* A good request that moves on, and stays good.
LEMMA Moved ==
    ASSUME NEW r \in RequestState,
           NEW p \in {"idle", "session", "expiry", "delete", "scopes", "resolve", "bundle", "handler",
                      "forward", "forwarded"}
    PROVE  LET x == [r EXCEPT !.pc = p] IN
             /\ x \in RequestState /\ x.pc = p
             /\ x.kind = r.kind /\ x.cookie = r.cookie /\ x.expiresAt = r.expiresAt
             /\ x.phase = r.phase /\ x.left = r.left /\ x.tenants = r.tenants
             /\ x.late = r.late /\ x.overdue = r.overdue
             /\ x.held = r.held /\ x.named = r.named /\ x.bundles = r.bundles
BY DEF RequestState

\* A new phase of authorizations.
LEMMA Begun ==
    ASSUME TypeOK, NEW q \in Requests, req[q].cookie \in Cookies, NEW phase \in {"gate", "client"}, NEW left \in 0..2
    PROVE  LET x == Begin(q, phase, left) r == req[q] IN
             /\ x \in RequestState
             /\ x.pc = IF left > 0 THEN "scopes" ELSE IF phase = "gate" THEN "handler" ELSE "forward"
             /\ x.kind = r.kind /\ x.cookie = r.cookie /\ x.left = left /\ x.late = r.late /\ x.phase = phase
             /\ x.overdue = IF phase = "gate" THEN now >= tokenExp[r.cookie] ELSE r.overdue
             /\ phase = Relied(r.kind) =>
                   x.held = requesterTenants /\ x.named = Named[r.kind] /\ x.bundles = {bundle}
<1> DEFINE r == req[q]
           p == IF left > 0 THEN "scopes" ELSE IF phase = "gate" THEN "handler" ELSE "forward"
           o == IF phase = "gate" THEN now >= tokenExp[r.cookie] ELSE r.overdue
           h == IF phase = Relied(r.kind) THEN requesterTenants ELSE {}
           n == IF phase = Relied(r.kind) THEN Named[r.kind] ELSE {}
           u == IF phase = Relied(r.kind) THEN {bundle} ELSE {}
<1>1. r \in RequestState /\ r.kind \in Kinds /\ r.overdue \in BOOLEAN
  BY DEF TypeOK, RequestState
<1>2. h \in SUBSET Tenants /\ n \in SUBSET (Tenants \union {Empty}) /\ u \in SUBSET (Tenants \union {Empty})
  BY <1>1, GovernedTypes DEF TypeOK
<1>3. p \in {"scopes", "handler", "forward"}
  OBVIOUS
<1>4. o \in BOOLEAN
  <2>1. now \in Int /\ tokenExp[r.cookie] \in Int
    BY DEF TypeOK, SessionTypeOK
  <2>2. (now >= tokenExp[r.cookie]) = TRUE \/ (now >= tokenExp[r.cookie]) = FALSE
    BY <2>1
  <2> QED BY <1>1, <2>2, Zenon
<1>5. 0 \in 0..MaxTime + SessionLifetime
  BY SessionAssumption
<1>6. Begin(q, phase, left) = [r EXCEPT !.expiresAt = 0, !.overdue = o, !.pc = p, !.phase = phase, !.left = left,
                                !.held = h, !.named = n, !.bundles = u]
  <2>1. Begin(q, phase, left) = [r EXCEPT !.expiresAt = 0,
             !.overdue = IF phase = "gate" THEN now >= tokenExp[req[q].cookie] ELSE r.overdue, !.pc = p,
             !.phase = phase, !.left = left, !.held = h, !.named = n, !.bundles = u]
    BY <1>1, Zenon DEF Begin
  <2> QED BY <2>1
<1> HIDE DEF r, p, o, h, n, u
<1>7. LET x == [r EXCEPT !.expiresAt = 0, !.overdue = o, !.pc = p, !.phase = phase, !.left = left,
                         !.held = h, !.named = n, !.bundles = u]
      IN /\ x \in RequestState /\ x.pc = p /\ x.kind = r.kind /\ x.cookie = r.cookie /\ x.left = left
         /\ x.late = r.late /\ x.phase = phase /\ x.overdue = o /\ x.held = h /\ x.named = n /\ x.bundles = u
  BY <1>1, <1>2, <1>3, <1>4, <1>5 DEF RequestState
<1> QED BY <1>6, <1>7 DEF r, p, o, h, n, u

\* Every step keeps the types of the governed objects.
LEMMA GovernedTypeStep ==
    ASSUME GovernedTypeOK, [Next]_vars
    PROVE  GovernedTypeOK'
<1>1. CASE UNCHANGED governed
  BY <1>1 DEF governed, GovernedTypeOK
<1>2. CASE Edit
  <2>1. changes' \in 0..MaxChanges
    BY <1>2, RequestAssumption DEF Edit, GovernedTypeOK
  <2>2. bindings' \in [Bindings -> BindingStates]
    BY <1>2 DEF Edit, GovernedTypeOK
  <2>3. assignments' \in [Assignments -> Tenants \union {Empty, Absent}] /\ bundle' \in Tenants \union {Empty}
    BY <1>2 DEF Edit, GovernedTypeOK
  <2> QED BY <2>1, <2>2, <2>3 DEF GovernedTypeOK
<1>3. CASE Cleanup \/ Tick \/ Restart \/ UNCHANGED vars
  BY <1>1, <1>3 DEF Cleanup, Tick, Restart, vars
<1>4. ASSUME NEW q \in Requests, Serve(q) PROVE UNCHANGED governed
  BY <1>4, Zenon DEF Serve, getSession, CheckExpiry, DeleteExpired, logout, loadPrincipalScopes, authorizeSandbox,
     bundleLogicalTenant, Handle, RoundTrip, Fails, Return, Arrive
<1> QED BY <1>1, <1>2, <1>3, <1>4 DEF Next

\* An authorization that decides on the tenant t, which the object has if the
\* call relies on it and the requester may act for t.
LEMMA Decided ==
    ASSUME ReqInv, NEW q \in Requests, req[q].pc \in {"resolve", "bundle"}, NEW t,
           Relying(req[q]) /\ t \in req[q].tenants => t \in Owned(req[q]),
           Decide(q, t), UNCHANGED governed, Later
    PROVE  ReqInv'
<1> DEFINE r == req[q]
           p == IF r.left > 1 THEN "scopes" ELSE IF r.phase = "gate" THEN "handler" ELSE "forward"
           x == [r EXCEPT !.pc = p, !.left = r.left - 1, !.tenants = {}]
<1>1. r \in RequestState /\ AdmittedReq(r) /\ CountedReq(r) /\ SeenReq(r)
  BY DEF ReqInv, Admitted, Counted, Seen
<1>2. CASE t \notin r.tenants
  <2>1. req' = [req EXCEPT ![q] = NoRequest]
    BY <1>2 DEF Decide, Answer, Step
  <2> QED BY <2>1, IdleGood, OwnStep
<1>3. CASE t \in r.tenants
  <2>1. req' = [req EXCEPT ![q] = x]
    <3>1. req' = [req EXCEPT ![q] = [r EXCEPT !.pc = p, !.left = @ - 1, !.tenants = {}]]
      BY <1>3, Zenon DEF Decide, Step
    <3> QED BY <3>1
  <2>2. r.left \in 0..2 /\ r.left # 0
    BY <1>1 DEF RequestState, CountedReq
  <2>3. r.left - 1 \in 0..2 /\ p \in {"scopes", "handler", "forward"} /\ (p = "scopes" => r.left - 1 # 0)
        /\ (p = "handler" => r.phase = "gate") /\ (p = "forward" => r.phase # "gate")
    BY <2>2
  <2>4. ASSUME Relying(r) PROVE r.held \intersect Owned(r) # {}
    <3>1. t \in r.held /\ t \in Owned(r)
      BY <1>1, <1>3, <2>4 DEF SeenReq
    <3> QED BY <3>1
  <2>5. r.pc \in {"resolve", "bundle"}
    OBVIOUS
  <2> HIDE DEF r, p
  <2>6. /\ x \in RequestState /\ x.pc = p /\ x.left = r.left - 1 /\ x.phase = r.phase
        /\ x.kind = r.kind /\ x.cookie = r.cookie /\ x.late = r.late /\ x.overdue = r.overdue
        /\ x.held = r.held /\ x.named = r.named /\ x.bundles = r.bundles
    BY <1>1, <2>3 DEF RequestState
  <2>7. Owned(x) = Owned(r)
    BY <2>6 DEF Owned
  <2> HIDE DEF x
  <2>8. AdmittedReq(x) /\ CountedReq(x)
    BY <1>1, <2>3, <2>5, <2>6 DEF AdmittedReq, CountedReq, Relying, Relied, RequestState
  <2>9. SeenReq(x)
    BY <1>1, <2>3, <2>4, <2>5, <2>6, <2>7 DEF SeenReq, Cleared, Relying
  <2>10. GoodReq(x)
    BY <2>6, <2>8, <2>9 DEF GoodReq
  <2> QED BY <2>1, <2>10, OwnStep
<1> QED BY <1>2, <1>3

\* GovernedTypes, after an edit.
LEMMA GovernedTypesNext ==
    (GovernedTypeOK => /\ requesterTenants \subseteq Tenants /\ bundle \in Tenants \union {Empty}
                       /\ \A k \in Kinds : Named[k] \subseteq Tenants \union {Empty})'
<1>1. GovernedTypeOK => /\ requesterTenants \subseteq Tenants /\ bundle \in Tenants \union {Empty}
                        /\ \A k \in Kinds : Named[k] \subseteq Tenants \union {Empty}
  BY GovernedTypes
<1> QED BY <1>1, PTL

\* Every step keeps every request good.
LEMMA RequestStep ==
    ASSUME TypeOK, Dated, ReqInv, [Next]_vars
    PROVE  ReqInv'
<1>0. \A q \in Requests : GoodReq(req[q])
  BY DEF ReqInv, Admitted, Counted, Seen, GoodReq
<1>s. UNCHANGED sessionVars => Later
  BY DEF sessionVars, Later, Issued
<1>1. ASSUME NEW b \in Tabs, Start(b), UNCHANGED <<governed, req>> PROVE ReqInv'
  <2>1. Later
    BY <1>1 DEF Later, Start, storeVars, Issued, SessionTypeOK, TypeOK
  <2> QED BY <1>1, <2>1, OtherStep
<1>2. ASSUME NEW b \in Tabs, SignInFails(b), UNCHANGED <<governed, req>> PROVE ReqInv'
  <2>1. Later
    BY <1>2 DEF Later, SignInFails, storeVars, Issued, SessionTypeOK, TypeOK
  <2> QED BY <1>2, <2>1, OtherStep
<1>3. ASSUME NEW b \in Tabs, Validate(b), UNCHANGED <<governed, req>> PROVE ReqInv'
  <2>1. Later
    BY <1>3 DEF Later, Validate, storeVars, Issued, SessionTypeOK, TypeOK
  <2> QED BY <1>3, <2>1, OtherStep
<1>4. ASSUME NEW b \in Tabs, NEW s \in 1..starts, NEW exp \in 1..MaxTime + SessionLifetime, Callback(b, s, exp), UNCHANGED <<governed, req>> PROVE ReqInv'
  <2>1. Later
    BY <1>4 DEF Later, Callback, storeVars, Issued, SessionTypeOK, TypeOK
  <2> QED BY <1>4, <2>1, OtherStep
<1>5. ASSUME NEW b \in Tabs, NEW c \in Cookies, createSession(b, c), UNCHANGED <<governed, req>> PROVE ReqInv'
  <2>1. Later
    BY <1>5 DEF Later, createSession, AddSession, Issued, SessionTypeOK, TypeOK
  <2> QED BY <1>5, <2>1, OtherStep
<1>6. ASSUME NEW q \in Requests, getSession(q) PROVE ReqInv'
  <2>0. UNCHANGED sessionVars /\ UNCHANGED governed
    BY <1>6, Zenon DEF getSession
  <2>1. GoodReq(req[q]) /\ req[q] \in RequestState
    BY <1>0 DEF GoodReq
  <2> DEFINE r == req[q]
             e == sessions[r.cookie]
             x == [r EXCEPT !.pc = "expiry", !.expiresAt = e]
  <2>2. r.pc = "session" /\ r.cookie \in Issued /\ r.cookie \in Cookies
    BY <1>6, <2>1 DEF getSession, GoodReq, AdmittedReq, Issued
  <2>3. CASE e = 0
    <3>1. req' = [req EXCEPT ![q] = NoRequest]
      BY <1>6, <2>3, Zenon DEF getSession, Answer, Step
    <3> QED BY <2>0, <3>1, <1>s, IdleGood, OwnStep
  <2>4. CASE e # 0
    <3>1. req' = [req EXCEPT ![q] = x]
      BY <1>6, <2>4, Zenon DEF getSession, Step
    <3>2. e \in 0..MaxTime + SessionLifetime /\ e <= tokenExp[r.cookie] /\ ~ r.late
      BY <2>1, <2>2, <2>4 DEF TypeOK, SessionTypeOK, Dated, GoodReq, AdmittedReq
    <3> HIDE DEF r, e
    <3>3. /\ x \in RequestState /\ x.pc = "expiry" /\ x.expiresAt = e /\ x.kind = r.kind /\ x.phase = r.phase
          /\ x.cookie = r.cookie /\ x.late = r.late /\ x.overdue = r.overdue
      BY <2>1, <3>2 DEF RequestState, r
    <3>4. GoodReq(x)
      BY <2>1, <2>2, <3>2, <3>3 DEF GoodReq, AdmittedReq, CountedReq, SeenReq, Cleared, r
    <3> QED BY <2>0, <3>1, <3>4, <1>s, OwnStep DEF r
  <2> QED BY <2>3, <2>4
<1>7. ASSUME NEW q \in Requests, CheckExpiry(q) PROVE ReqInv'
  <2>0. UNCHANGED sessionVars /\ UNCHANGED governed
    BY <1>7, Zenon DEF CheckExpiry
  <2>1. GoodReq(req[q]) /\ req[q] \in RequestState
    BY <1>0 DEF GoodReq
  <2> DEFINE r == req[q]
             n == Gates(r.kind)
             x == Begin(q, "gate", n)
  <2>2. r.pc = "expiry" /\ r.cookie \in Issued /\ r.cookie \in Cookies /\ ~ r.late /\ r.kind \in Kinds
        /\ r.expiresAt \in Nat /\ r.expiresAt <= tokenExp[r.cookie] /\ now \in Nat /\ tokenExp[r.cookie] \in Nat
    BY <1>7, <2>1, SessionAssumption DEF CheckExpiry, GoodReq, AdmittedReq, Issued, TypeOK, SessionTypeOK, RequestState
  <2>3. CASE r.expiresAt > now
    <3>1. req' = [req EXCEPT ![q] = x]
      BY <1>7, <2>3, Zenon DEF CheckExpiry, Step
    <3>2. n \in 0..2 /\ (r.kind = "create" => n = 1)
      BY <2>2 DEF Gates, Kinds
    <3>3. ~ (now >= tokenExp[r.cookie])
      BY <2>2, <2>3
    <3>4. /\ x \in RequestState /\ x.pc \in {"scopes", "handler"} /\ (x.pc = "scopes" <=> n > 0)
          /\ x.kind = r.kind /\ x.cookie = r.cookie /\ x.left = n /\ x.late = r.late /\ x.overdue = FALSE
          /\ x.phase = "gate"
          /\ Relying(x) => x.held = requesterTenants /\ x.named = Named[r.kind] /\ x.bundles = {bundle}
      <4>1. /\ x \in RequestState
            /\ x.pc = IF n > 0 THEN "scopes" ELSE IF "gate" = "gate" THEN "handler" ELSE "forward"
            /\ x.kind = r.kind /\ x.cookie = r.cookie /\ x.left = n /\ x.late = r.late /\ x.phase = "gate"
            /\ x.overdue = IF "gate" = "gate" THEN now >= tokenExp[r.cookie] ELSE r.overdue
            /\ "gate" = Relied(r.kind) =>
                  x.held = requesterTenants /\ x.named = Named[r.kind] /\ x.bundles = {bundle}
        BY <2>2, <3>2, Begun, Zenon
      <4> HIDE DEF x, r, n
      <4>2. x.overdue \in BOOLEAN /\ (x.overdue <=> now >= tokenExp[r.cookie])
        BY <4>1 DEF RequestState
      <4>3. x.overdue = FALSE
        BY <3>3, <4>2
      <4> QED BY <3>2, <4>1, <4>3 DEF Relying
    <3> HIDE DEF r, n, x
    <3>5. GoodReq(x)
      <4>1. AdmittedReq(x)
        BY <2>2, <3>4 DEF AdmittedReq
      <4>2. CountedReq(x)
        BY <3>2, <3>4 DEF CountedReq
      <4>3. SeenReq(x)
        BY <3>2, <3>4 DEF SeenReq, Cleared, Relying, Relied
      <4> QED BY <3>4, <4>1, <4>2, <4>3 DEF GoodReq
    <3> QED BY <2>0, <3>1, <3>5, <1>s, OwnStep
  <2>4. CASE ~ (r.expiresAt > now)
    <3>1. req' = [req EXCEPT ![q] = [r EXCEPT !.pc = "delete"]]
      BY <1>7, <2>4, Zenon DEF CheckExpiry, Goto, Step
    <3> HIDE DEF r
    <3>2. GoodReq([r EXCEPT !.pc = "delete"])
      <4> DEFINE y == [r EXCEPT !.pc = "delete"]
      <4>1. r \in RequestState
        BY <2>1 DEF r
      <4>2. /\ y \in RequestState /\ y.pc = "delete" /\ y.kind = r.kind /\ y.cookie = r.cookie
            /\ y.phase = r.phase /\ y.late = r.late /\ y.overdue = r.overdue
        BY <4>1, Moved
      <4> HIDE DEF y
      <4>3. GoodReq(y)
        BY <2>1, <2>2, <4>2 DEF GoodReq, AdmittedReq, CountedReq, SeenReq, Cleared, r
      <4> QED BY <4>3 DEF y
    <3> QED BY <2>0, <3>1, <3>2, <1>s, OwnStep
  <2> QED BY <2>3, <2>4
<1>8. ASSUME NEW q \in Requests, DeleteExpired(q) PROVE ReqInv'
  <2>1. Later /\ UNCHANGED governed
    BY <1>8 DEF Later, sessionVars, DeleteExpired, Issued, SessionTypeOK, TypeOK
  <2>2. req' = [req EXCEPT ![q] = NoRequest]
    BY <1>8 DEF DeleteExpired, Answer, Step
  <2> QED BY <2>1, <2>2, IdleGood, OwnStep
<1>9. ASSUME NEW q \in Requests, logout(q) PROVE ReqInv'
  <2>1. Later /\ UNCHANGED governed
    BY <1>9 DEF Later, sessionVars, logout, Issued, SessionTypeOK, TypeOK
  <2>2. req' = [req EXCEPT ![q] = NoRequest]
    BY <1>9 DEF logout, Answer, Step
  <2> QED BY <2>1, <2>2, IdleGood, OwnStep
<1>10. ASSUME NEW q \in Requests, loadPrincipalScopes(q) PROVE ReqInv'
  <2>0. UNCHANGED sessionVars /\ UNCHANGED governed
    BY <1>10, Zenon DEF loadPrincipalScopes
  <2>1. GoodReq(req[q]) /\ req[q] \in RequestState
    BY <1>0 DEF GoodReq
  <2> DEFINE r == req[q]
             p == IF r.kind = "create" THEN "bundle" ELSE "resolve"
             x == [r EXCEPT !.tenants = requesterTenants, !.pc = p]
  <2>2. r.pc = "scopes" /\ r.kind \in Kinds
    BY <1>10, <2>1 DEF loadPrincipalScopes, RequestState
  <2>3. CASE requesterTenants = {}
    <3>1. req' = [req EXCEPT ![q] = NoRequest]
      BY <1>10, <2>3, Zenon DEF loadPrincipalScopes, Answer, Step
    <3> QED BY <2>0, <3>1, <1>s, IdleGood, OwnStep
  <2>4. CASE requesterTenants # {}
    <3>1. req' = [req EXCEPT ![q] = x]
      BY <1>10, <2>4, Zenon DEF loadPrincipalScopes, Step
    <3>2. requesterTenants \in SUBSET Tenants /\ (r.kind = "create" => Named[r.kind] = {Empty})
      BY GovernedTypes DEF TypeOK
    <3>3. p \in {"bundle", "resolve"} /\ (p = "bundle" <=> r.kind = "create")
      OBVIOUS
    <3> HIDE DEF r, p
    <3>4. /\ x \in RequestState /\ x.pc = p /\ x.tenants = requesterTenants
          /\ x.cookie = r.cookie /\ x.late = r.late /\ x.overdue = r.overdue /\ x.kind = r.kind
          /\ x.left = r.left /\ x.phase = r.phase
          /\ x.held = r.held /\ x.named = r.named /\ x.bundles = r.bundles
      BY <2>1, <3>2, <3>3 DEF RequestState, r
    <3>5. GoodReq(x)
      <4> HIDE DEF x
      <4>1. AdmittedReq(x) /\ CountedReq(x)
        BY <2>1, <2>2, <3>3, <3>4 DEF GoodReq, AdmittedReq, CountedReq, r
      <4>2. SeenReq(x)
        BY <2>1, <2>2, <3>2, <3>3, <3>4 DEF GoodReq, SeenReq, Cleared, Relying, r
      <4> QED BY <3>4, <4>1, <4>2 DEF GoodReq
    <3> QED BY <2>0, <3>1, <3>5, <1>s, OwnStep
  <2> QED BY <2>3, <2>4
<1>11. ASSUME NEW q \in Requests, authorizeSandbox(q) PROVE ReqInv'
  <2>0. UNCHANGED sessionVars /\ UNCHANGED governed
    BY <1>11, Zenon DEF authorizeSandbox
  <2>1. GoodReq(req[q]) /\ req[q] \in RequestState
    BY <1>0 DEF GoodReq
  <2>2. req[q].pc = "resolve" /\ req[q].kind \in Kinds /\ req[q].kind # "create"
    BY <1>11, <2>1 DEF authorizeSandbox, RequestState, GoodReq, SeenReq
  <2>3. PICK byObject \in {FALSE, Listed(q)} :
           LET t == sandboxLogicalTenant(byObject) IN IF t = Empty THEN Goto(q, "bundle") ELSE Decide(q, t)
    BY <1>11, Zenon DEF authorizeSandbox
  <2> DEFINE t == sandboxLogicalTenant(byObject)
  <2>4. ASSUME Relying(req[q]) PROVE t # Absent => t \in Named[req[q].kind]
    <3>0. req[q].phase = "client"
      BY <2>2, <2>4 DEF Relying, Relied
    <3>1. byObject \in {FALSE, (req[q].kind \in {"page", "detail"})}
      <4>1. CASE byObject = FALSE
        BY <4>1
      <4>2. CASE byObject = Listed(q)
        <5>1. CASE req[q].kind \in {"page", "detail"}
          <6>1. byObject = TRUE \/ byObject = FALSE
            BY <4>2, Zenon DEF Listed
          <6> QED BY <5>1, <6>1
        <5>2. CASE ~ (req[q].kind \in {"page", "detail"})
          <6>1. ~ Listed(q)
            BY <3>0, <5>2 DEF Listed
          <6>2. byObject = FALSE
            BY <4>2, <6>1, Zenon DEF Listed
          <6> QED BY <6>2
        <5> QED BY <5>1, <5>2
      <4> QED BY <4>1, <4>2
    <3> QED BY <2>2, <3>1, Zenon DEF Named
  <2>5. Relying(req[q]) => t \in req[q].named \/ t = Absent
    BY <2>1, <2>2, <2>4 DEF GoodReq, SeenReq
  <2>6. CASE t = Empty
    <3>1. req' = [req EXCEPT ![q] = [req[q] EXCEPT !.pc = "bundle"]]
      BY <2>3, <2>6 DEF Goto, Step
    <3>2. GoodReq([req[q] EXCEPT !.pc = "bundle"])
      <4> DEFINE r == req[q]
                 x == [r EXCEPT !.pc = "bundle"]
      <4>0. r \in RequestState
        BY <2>1
      <4> HIDE DEF r
      <4>1. /\ x \in RequestState /\ x.pc = "bundle" /\ x.kind = r.kind /\ x.cookie = r.cookie
            /\ x.left = r.left /\ x.tenants = r.tenants /\ x.late = r.late /\ x.overdue = r.overdue
            /\ x.phase = r.phase /\ x.held = r.held /\ x.named = r.named /\ x.bundles = r.bundles
        BY <4>0, Moved
      <4>2. Relying(r) => Empty \in r.named
        BY <2>5, <2>6, RequestAssumption DEF r
      <4> QED BY <2>1, <2>2, <4>1, <4>2 DEF GoodReq, AdmittedReq, CountedReq, SeenReq, Cleared, Relying, r
    <3> QED BY <2>0, <3>1, <3>2, <1>s, OwnStep
  <2>7. CASE t # Empty
    <3>1. Decide(q, t)
      BY <2>3, <2>7
    <3>2. Relying(req[q]) /\ t \in req[q].tenants => t \in Owned(req[q])
      <4>1. t \in req[q].tenants => t # Absent
        BY <2>1, RequestAssumption DEF RequestState
      <4> QED BY <2>5, <2>7, <4>1 DEF Owned
    <3>3. ReqInv'
      <4> HIDE DEF t
      <4> QED BY <2>0, <2>2, <3>1, <3>2, <1>s, Decided
    <3> QED BY <3>3
  <2> QED BY <2>6, <2>7
<1>12. ASSUME NEW q \in Requests, bundleLogicalTenant(q) PROVE ReqInv'
  <2>0. UNCHANGED sessionVars /\ UNCHANGED governed
    BY <1>12, Zenon DEF bundleLogicalTenant
  <2>1. GoodReq(req[q]) /\ req[q] \in RequestState
    BY <1>0 DEF GoodReq
  <2>2. req[q].pc = "bundle" /\ Decide(q, bundle)
    BY <1>12 DEF bundleLogicalTenant
  <2>3. Relying(req[q]) /\ bundle \in req[q].tenants => bundle \in Owned(req[q])
    <3>1. Relying(req[q]) => Empty \in req[q].named /\ bundle \in req[q].bundles
      BY <2>1, <2>2 DEF GoodReq, SeenReq
    <3>2. bundle \in req[q].tenants => bundle # Empty
      BY <2>1, RequestAssumption DEF RequestState
    <3> QED BY <3>1, <3>2 DEF Owned
  <2> QED BY <2>0, <2>2, <2>3, <1>s, Decided
<1>13. ASSUME NEW q \in Requests, Handle(q) PROVE ReqInv'
  <2>0. UNCHANGED sessionVars /\ UNCHANGED governed
    BY <1>13, Zenon DEF Handle
  <2>1. GoodReq(req[q]) /\ req[q] \in RequestState
    BY <1>0 DEF GoodReq
  <2> DEFINE r == req[q]
             x == Begin(q, "client", 1)
  <2>2. r.pc = "handler" /\ r.cookie \in Issued /\ r.cookie \in Cookies /\ ~ r.late /\ ~ r.overdue
        /\ r.phase = "gate"
    BY <1>13, <2>1 DEF Handle, GoodReq, AdmittedReq, CountedReq, Issued
  <2>3. CASE r.kind \in {"create", "loads"}
    <3>1. req' = [req EXCEPT ![q] = [r EXCEPT !.pc = "forward"]]
      BY <1>13, <2>3 DEF Handle, Checks, Goto, Step
    <3> HIDE DEF r
    <3>2. GoodReq([r EXCEPT !.pc = "forward"])
      <4> DEFINE y == [r EXCEPT !.pc = "forward"]
      <4>0. r \in RequestState
        BY <2>1 DEF r
      <4>1. /\ y \in RequestState /\ y.pc = "forward" /\ y.kind = r.kind /\ y.cookie = r.cookie
            /\ y.left = r.left /\ y.tenants = r.tenants /\ y.late = r.late /\ y.overdue = r.overdue
            /\ y.phase = r.phase /\ y.held = r.held /\ y.named = r.named /\ y.bundles = r.bundles
        BY <4>0, Moved
      <4>2. Relying(r) => r.held \intersect Owned(r) # {}
        BY <2>1, <2>2 DEF GoodReq, SeenReq, Cleared, r
      <4>3. Owned(y) = Owned(r)
        BY <4>1 DEF Owned
      <4> HIDE DEF y
      <4>4. AdmittedReq(y) /\ CountedReq(y)
        BY <2>1, <2>2, <2>3, <4>1 DEF GoodReq, AdmittedReq, CountedReq, Relying, Relied, r
      <4>5. Relying(r) =>
            requesterTenants \subseteq r.held /\ Named[r.kind] \subseteq r.named /\ bundle \in r.bundles
        BY <2>1, <2>2 DEF GoodReq, SeenReq, r
      <4>6. SeenReq(y)
        BY <4>1, <4>2, <4>3, <4>5 DEF SeenReq, Cleared, Relying
      <4> QED BY <4>1, <4>4, <4>6 DEF GoodReq, y
    <3> QED BY <2>0, <3>1, <3>2, <1>s, OwnStep
  <2>4. CASE r.kind \notin {"create", "loads"}
    <3>1. req' = [req EXCEPT ![q] = x]
      BY <1>13, <2>4 DEF Handle, Checks, Step
    <3>2. /\ x \in RequestState /\ x.pc = "scopes"
          /\ x.kind = r.kind /\ x.cookie = r.cookie /\ x.left = 1 /\ x.late = r.late /\ x.overdue = r.overdue
          /\ x.phase = "client"
          /\ x.held = requesterTenants /\ x.named = Named[r.kind] /\ x.bundles = {bundle}
      BY <2>2, <2>4, Begun DEF Relied
    <3> HIDE DEF r, x
    <3>3. GoodReq(x)
      BY <2>2, <2>4, <3>2 DEF GoodReq, AdmittedReq, CountedReq, SeenReq, Cleared
    <3> QED BY <2>0, <3>1, <3>3, <1>s, OwnStep
  <2> QED BY <2>3, <2>4
<1>14. ASSUME NEW q \in Requests, RoundTrip(q) PROVE ReqInv'
  <2>0. UNCHANGED sessionVars /\ UNCHANGED governed
    BY <1>14, Zenon DEF RoundTrip
  <2>1. GoodReq(req[q]) /\ req[q] \in RequestState
    BY <1>0 DEF GoodReq
  <2> DEFINE r == req[q]
             x == [r EXCEPT !.pc = "forwarded"]
  <2>2. r.pc = "forward" /\ req' = [req EXCEPT ![q] = x]
    BY <1>14 DEF RoundTrip, Goto, Step
  <2>3. r \in RequestState
    BY <2>1
  <2> HIDE DEF r
  <2>4. /\ x \in RequestState /\ x.pc = "forwarded" /\ x.kind = r.kind /\ x.cookie = r.cookie
        /\ x.left = r.left /\ x.tenants = r.tenants /\ x.late = r.late /\ x.overdue = r.overdue
        /\ x.phase = r.phase /\ x.held = r.held /\ x.named = r.named /\ x.bundles = r.bundles
    BY <2>3, Moved
  <2>5. Owned(x) = Owned(r)
    BY <2>4 DEF Owned
  <2> HIDE DEF x
  <2>6. GoodReq(x)
    BY <2>1, <2>2, <2>4, <2>5 DEF GoodReq, AdmittedReq, CountedReq, SeenReq, Cleared, Relying, r
  <2> QED BY <2>0, <2>2, <2>6, <1>s, OwnStep
<1>15. ASSUME NEW q \in Requests, Fails(q) PROVE ReqInv'
  <2>1. Later /\ UNCHANGED governed
    BY <1>15 DEF Later, sessionVars, Fails, Issued, SessionTypeOK, TypeOK
  <2>2. req' = [req EXCEPT ![q] = NoRequest]
    BY <1>15 DEF Fails, Answer, Step
  <2> QED BY <2>1, <2>2, IdleGood, OwnStep
<1>16. ASSUME NEW q \in Requests, Return(q) PROVE ReqInv'
  <2>1. Later /\ UNCHANGED governed
    BY <1>16 DEF Later, sessionVars, Return, Issued, SessionTypeOK, TypeOK
  <2>2. req' = [req EXCEPT ![q] = NoRequest]
    BY <1>16 DEF Return, Answer, Step
  <2> QED BY <2>1, <2>2, IdleGood, OwnStep
<1>17. ASSUME NEW q \in Requests, NEW kind \in MayAsk[q], NEW c \in Cookies, Arrive(q, kind, c) PROVE ReqInv'
  <2>0. UNCHANGED sessionVars /\ UNCHANGED governed
    BY <1>17, Zenon DEF Arrive
  <2> DEFINE l == c \in ended
             x == [NoRequest EXCEPT !.pc = "session", !.kind = kind, !.cookie = c, !.late = l]
  <2>1. req' = [req EXCEPT ![q] = x] /\ c \in Issued
    BY <1>17, Zenon DEF Arrive, Step
  <2>2. kind \in Kinds
    BY RequestAssumption DEF Kinds
  <2>3. l \in BOOLEAN
    OBVIOUS
  <2>4. l => c \in ended
    OBVIOUS
  <2> HIDE DEF l
  <2>5. /\ x \in RequestState /\ x.pc = "session" /\ x.cookie = c /\ x.late = l /\ x.overdue = FALSE
        /\ x.phase = "gate"
    <3>1. NoRequest \in RequestState
      BY IdleGood DEF GoodReq
    <3>2. NoRequest.overdue = FALSE /\ NoRequest.phase = "gate"
      BY DEF NoRequest
    <3> QED BY <2>2, <2>3, <3>1, <3>2 DEF RequestState
  <2> HIDE DEF x
  <2>6. GoodReq(x)
    BY <2>1, <2>4, <2>5 DEF GoodReq, AdmittedReq, CountedReq, SeenReq, Cleared
  <2> QED BY <2>0, <2>1, <2>6, <1>s, OwnStep
<1>18. ASSUME Edit PROVE ReqInv'
  <2>0. UNCHANGED sessionVars /\ Witness
    BY <1>18, Zenon DEF Edit
  <2>1. GovernedTypeOK'
    BY <1>18, GovernedTypeStep DEF Next, TypeOK
  <2>2. /\ requesterTenants' \subseteq Tenants /\ bundle' \in Tenants \union {Empty}
        /\ \A k \in Kinds : Named'[k] \subseteq Tenants \union {Empty}
    BY <2>1, GovernedTypesNext
  <2>3. ASSUME NEW q \in Requests PROVE GoodReq(req[q])'
    <3>1. GoodReq(req[q]) /\ req[q] \in RequestState
      BY <1>0 DEF GoodReq
    <3>2. CASE ~ (Authenticated(q) /\ Relying(req[q]))
      <4>1. req'[q] = req[q]
        BY <2>0, <3>2 DEF Witness, Relying
      <4> QED BY <2>0, <3>1, <3>2, <4>1 DEF GoodReq, AdmittedReq, CountedReq, SeenReq, Cleared, Relying, Authenticated, sessionVars, Issued
    <3>3. CASE Authenticated(q) /\ Relying(req[q])
      <4> DEFINE r == req[q]
                 h == r.held \union requesterTenants'
                 n == r.named \union Named'[r.kind]
                 u == r.bundles \union {bundle'}
                 x == [r EXCEPT !.held = h, !.named = n, !.bundles = u]
      <4>1. req'[q] = x
        BY <2>0, <3>3 DEF Witness, Relying
      <4>2. r \in RequestState /\ h \in SUBSET Tenants /\ n \in SUBSET (Tenants \union {Empty}) /\ u \in SUBSET (Tenants \union {Empty})
        BY <2>2, <3>1 DEF RequestState
      <4>3. requesterTenants' \subseteq h /\ Named'[r.kind] \subseteq n /\ bundle' \in u
            /\ r.held \subseteq h /\ r.named \subseteq n /\ r.bundles \subseteq u
        OBVIOUS
      <4> HIDE DEF r, h, n, u
      <4>4. /\ x \in RequestState /\ x.pc = r.pc /\ x.kind = r.kind /\ x.cookie = r.cookie /\ x.expiresAt = r.expiresAt
            /\ x.left = r.left /\ x.tenants = r.tenants /\ x.late = r.late /\ x.overdue = r.overdue
            /\ x.phase = r.phase /\ x.held = h /\ x.named = n /\ x.bundles = u
        BY <4>2 DEF RequestState
      <4> HIDE DEF x
      <4>5. Owned(r) \subseteq Owned(x)
        BY <4>3, <4>4 DEF Owned
      <4>6. req'[q] \in RequestState /\ CountedReq(req[q])' /\ r.kind \in Kinds
        BY <3>1, <4>1, <4>2, <4>4 DEF GoodReq, CountedReq, Relying, RequestState, r
      <4>7. AdmittedReq(req[q])'
        BY <2>0, <3>1, <4>1, <4>4 DEF GoodReq, AdmittedReq, sessionVars, Issued, r
      <4>8. SeenReq(req[q])'
        <5>1. SeenReq(r)
          BY <3>1 DEF GoodReq, r
        <5> QED BY <5>1, <4>1, <4>3, <4>4, <4>5 DEF SeenReq, Cleared, Relying
      <4> QED BY <4>6, <4>7, <4>8 DEF GoodReq
    <3> QED BY <3>2, <3>3
  <2>4. req' \in [Requests -> RequestState]
    <3>1. req' = [q \in Requests |-> req'[q]]
      BY <2>0 DEF Witness
    <3>2. \A q \in Requests : req'[q] \in RequestState
      BY <2>3 DEF GoodReq
    <3> QED BY <3>1, <3>2
  <2> QED BY <2>3, <2>4 DEF ReqInv, GoodReq, Admitted, Counted, Seen
<1>19. ASSUME Cleanup PROVE ReqInv'
  <2>1. Later
    BY <1>19 DEF Later, Cleanup, cleanup, Issued, SessionTypeOK, TypeOK
  <2>2. UNCHANGED <<governed, req>>
    BY <1>19 DEF Cleanup, cleanup
  <2> QED BY <2>1, <2>2, OtherStep
<1>20. ASSUME Tick PROVE ReqInv'
  <2>1. Later
    BY <1>20 DEF Later, Tick, Advance, storeVars, Issued, SessionTypeOK, TypeOK
  <2>2. UNCHANGED <<governed, req>>
    BY <1>20 DEF Tick, Advance, storeVars
  <2> QED BY <2>1, <2>2, OtherStep
<1>21. ASSUME Restart PROVE ReqInv'
  <2>1. UNCHANGED governed /\ req' = [q \in Requests |-> NoRequest]
    BY <1>21 DEF Restart
  <2>2. \A q \in Requests : req'[q] = NoRequest
    BY <2>1
  <2> QED BY <2>1, <2>2, IdleGood DEF ReqInv, GoodReq, Admitted, Counted, Seen, AdmittedReq, CountedReq, SeenReq
<1>22. ASSUME UNCHANGED vars PROVE ReqInv'
  <2>1. Later
    BY <1>22 DEF Later, vars, sessionVars, Issued, SessionTypeOK, TypeOK
  <2>2. UNCHANGED <<governed, req>>
    BY <1>22 DEF vars, sessionVars
  <2> QED BY <2>1, <2>2, OtherStep
<1> QED BY <1>1, <1>2, <1>3, <1>4, <1>5, <1>6, <1>7, <1>8, <1>9, <1>10, <1>11, <1>12, <1>13, <1>14, <1>15, <1>16, <1>17, <1>18, <1>19, <1>20, <1>21, <1>22 DEF Next, SignIn, Serve

-----------------------------------------------------------------------------
IInv == TypeOK /\ OnePlace /\ Dated /\ ReqInv

\* The invariant holds when the dashboard starts.
LEMMA InitIInv == Init => IInv
<1> SUFFICES ASSUME Init PROVE IInv
  OBVIOUS
<1>1. SessionTypeOK
  <2>1. Stored = {} /\ Cardinality(Stored) <= MaxSessions
    <3>1. Stored = {}
      BY DEF Init, SessionInit, Stored
    <3> QED BY <3>1, SessionAssumption, FS_EmptySet
  <2> QED BY <2>1, SessionAssumption DEF Init, SessionInit, SessionTypeOK, NoTab, NotSaved, Issued
<1>2. GovernedTypeOK
  <2>1. bindings \in [Bindings -> BindingStates]
    <3>1. PICK b \in Bindings, t \in Tenants :
            bindings = [c \in Bindings |-> [active |-> b = c, tenants |-> IF b = c THEN {t} ELSE {}]]
      BY DEF Init
    <3>2. ASSUME NEW c \in Bindings PROVE bindings[c] \in BindingStates
      <4>1. CASE b = c
        <5>1. bindings[c] = [active |-> TRUE, tenants |-> {t}]
          BY <3>1, <4>1
        <5> QED BY <5>1 DEF BindingStates
      <4>2. CASE b # c
        <5>1. bindings[c] = [active |-> FALSE, tenants |-> {}]
          BY <3>1, <4>2
        <5> QED BY <5>1 DEF BindingStates
      <4> QED BY <4>1, <4>2
    <3>3. bindings = [c \in Bindings |-> bindings[c]]
      BY <3>1
    <3> QED BY <3>2, <3>3
  <2> QED BY <2>1, RequestAssumption DEF Init, GovernedTypeOK
<1>3. \A q \in Requests : req[q] = NoRequest
  BY DEF Init
<1>4. ReqInv
  <2>1. req \in [Requests -> RequestState]
    BY IdleGood DEF Init, GoodReq
  <2> QED BY <1>3, <2>1, IdleGood DEF ReqInv, GoodReq, Admitted, Counted, Seen
<1>5. OnePlace /\ Dated
  BY DEF Init, SessionInit, OnePlace, Dated, NoTab, NotSaved
<1> QED BY <1>1, <1>2, <1>4, <1>5 DEF IInv, TypeOK, ReqInv

\* Every behaviour of the dashboard keeps the invariant.
LEMMA Inductive == Spec => []IInv
<1>1. Init => IInv
  BY InitIInv
<1>2. IInv /\ [Next]_vars => IInv'
  <2> SUFFICES ASSUME IInv, [Next]_vars PROVE IInv'
    OBVIOUS
  <2>1. TypeOK /\ OnePlace /\ Dated /\ ReqInv /\ SessionTypeOK /\ GovernedTypeOK /\ Admitted
    BY DEF IInv, TypeOK, ReqInv
  <2>2. SessionTypeOK' /\ GovernedTypeOK'
    BY <2>1, SessionTypeStep, GovernedTypeStep
  <2>3. OnePlace' /\ Dated'
    BY <2>1, OnePlaceStep, DatedStep
  <2>4. ReqInv'
    BY <2>1, RequestStep
  <2> QED BY <2>2, <2>3, <2>4 DEF IInv, TypeOK, ReqInv
<1> QED BY <1>1, <1>2, PTL DEF Spec

\* The dashboard's state has its types, and the store never holds more than
\* maxSessions sessions.
THEOREM DashboardTypeCorrect == Spec => []TypeOK
<1>1. IInv => TypeOK
  BY DEF IInv
<1> QED BY <1>1, Inductive, PTL

\* The session middleware lets no request pass with a session that had ended
\* when the request arrived, or after the session's token has expired, however
\* the copied session ages between the lookup and the comparison.
THEOREM SessionsHonoured == Spec => []SessionHonoured
<1>1. IInv => SessionHonoured
  BY DEF IInv, ReqInv, Admitted, AdmittedReq, SessionHonoured, Authenticated
<1> QED BY <1>1, Inductive, PTL

\* A call for a sandbox, a snapshot or a list of them goes out only for a tenant
\* that the requester was bound to and the object had since the last authorization
\* began, whatever is edited meanwhile and however often.  This is every call of
\* the client wrapper but ListSandboxNodeLoads, which it passes on unauthorized.
THEOREM OperationsAuthorized == Spec => []OperationAuthorized
<1>1. IInv => OperationAuthorized
  BY DEF IInv, ReqInv, Seen, SeenReq, Counted, CountedReq, Cleared, OperationAuthorized
<1> QED BY <1>1, Inductive, PTL

\* No reload of a callback page turns one sign-in into two sessions.
THEOREM SignInOnce == Spec => []OneSessionPerSignIn
<1>1. IInv => OneSessionPerSignIn
  BY DEF IInv, OnePlace, OneSessionPerSignIn, Issued
<1> QED BY <1>1, Inductive, PTL

\* Expired sessions never make a sign-in fail for the capacity of the store.
THEOREM CapacityIsLive == Spec => CapacityOnlyByLiveSessions
<1>1. ASSUME IInv, [Next]_vars, NEW b \in Tabs, tab'[b].pc = "full", tab[b].pc # "full"
      PROVE  Cardinality(Live) >= MaxSessions
  <2>0. tab \in [Tabs -> [pc : {"away", "validate", "create", "full"}, code : 0..MaxStarts, exp : 0..MaxTime + SessionLifetime,
                          expiresAt : 0..MaxTime + SessionLifetime]]
    BY <1>1 DEF IInv, TypeOK, SessionTypeOK
  <2>1. PICK d \in Tabs, c \in Cookies : createSession(d, c)
    <3>1. ASSUME NEW d \in Tabs, Start(d) \/ SignInFails(d) \/ Validate(d) \/
                                 \E s \in 1..starts, exp \in 1..MaxTime + SessionLifetime : Callback(d, s, exp)
          PROVE  FALSE
      <4>1. CASE Start(d)
        BY <1>1, <4>1 DEF Start
      <4>2. CASE SignInFails(d)
        BY <1>1, <2>0, <4>2 DEF SignInFails, NoTab
      <4>3. CASE Validate(d)
        BY <1>1, <2>0, <4>3 DEF Validate, NoTab
      <4>4. ASSUME NEW s \in 1..starts, NEW exp \in 1..MaxTime + SessionLifetime, Callback(d, s, exp) PROVE FALSE
        BY <1>1, <2>0, <4>4 DEF Callback
      <4> QED BY <3>1, <4>1, <4>2, <4>3, <4>4
    <3>2. ASSUME NEW q \in Requests, Serve(q) PROVE tab' = tab
      BY <3>2, Zenon DEF Serve, getSession, CheckExpiry, DeleteExpired, logout, loadPrincipalScopes,
         authorizeSandbox, bundleLogicalTenant, Handle, RoundTrip, Fails, Return, Arrive, sessionVars, signInVars
    <3>3. Edit \/ Cleanup \/ Tick \/ UNCHANGED vars => tab' = tab
      BY DEF Edit, Cleanup, cleanup, Tick, Advance, vars, sessionVars, signInVars
    <3>4. ASSUME Restart PROVE FALSE
      BY <1>1, <3>4 DEF Restart, NoTab
    <3> QED BY <1>1, <3>1, <3>2, <3>3, <3>4 DEF Next, SignIn
  <2>2. {e \in Cookies : cleanupLocked[e] # 0} = Live
    BY DEF cleanupLocked, Live, Stored
  <2>3. Cardinality({e \in Cookies : cleanupLocked[e] # 0}) >= MaxSessions
    <3> SUFFICES ASSUME ~ (Cardinality({e \in Cookies : cleanupLocked[e] # 0}) >= MaxSessions) PROVE FALSE
      OBVIOUS
    <3>1. AddSession(d, c, cleanupLocked)
      BY <2>1, Zenon DEF createSession
    <3> QED BY <1>1, <2>0, <3>1 DEF AddSession, NoTab
  <2> QED BY <2>2, <2>3
<1>2. IInv /\ [Next]_vars =>
        [\A b \in Tabs : tab'[b].pc = "full" /\ tab[b].pc # "full" => Cardinality(Live) >= MaxSessions]_vars
  BY <1>1
<1> QED BY <1>2, Inductive, PTL DEF Spec, CapacityOnlyByLiveSessions

=============================================================================
