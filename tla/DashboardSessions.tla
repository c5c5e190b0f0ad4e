------------------------- MODULE DashboardSessions -------------------------
(***************************************************************************)
(* Sign-in and sessions of the dashboard: the script of the sign-in pages  *)
(* in a browser tab, the handler that turns a validated token into a       *)
(* session, and the session store in the memory of the process.            *)
(***************************************************************************)
EXTENDS Naturals, FiniteSets

CONSTANTS
    Tabs,               \* browser tabs that sign in
    Cookies,            \* session IDs: random values, none is drawn twice
    LoginLimit,         \* how long a started sign-in may take (5 minutes)
    SessionLifetime, MaxSessions,
    MaxTime, MaxStarts  \* bounds on the clock and on the sign-ins started

ASSUME SessionAssumption ==
    /\ {LoginLimit, SessionLifetime, MaxSessions, MaxTime, MaxStarts} \subseteq Nat
    /\ IsFiniteSet(Cookies)

VARIABLES
    now,
    starts,     \* number of sign-ins started; each has its number as its state
    saved,      \* tab -> the sign-in in its sessionStorage, state 0 when there is none
    tab,        \* tab -> the step of its sign-in, with the local values
    sessions,   \* cookie -> ExpiresAt, 0 when the store has no such session
    \* history
    origin,     \* cookie -> the sign-in that it came from, 0 when not drawn yet
    tokenExp,   \* cookie -> exp of the token that it was created from
    ended       \* cookies of sessions that were logged out or lost in a restart

storeVars == <<sessions, origin, tokenExp, ended>>
signInVars == <<starts, saved, tab>>
sessionVars == <<now, starts, saved, tab, sessions, origin, tokenExp, ended>>

NoTab == [pc |-> "away", code |-> 0, exp |-> 0, expiresAt |-> 0]

NotSaved == [state |-> 0, createdAt |-> 0]

SessionInit ==
    /\ now = 0 /\ starts = 0
    /\ saved = [b \in Tabs |-> NotSaved]
    /\ tab = [b \in Tabs |-> NoTab]
    /\ sessions = [c \in Cookies |-> 0]
    /\ origin = [c \in Cookies |-> 0]
    /\ tokenExp = [c \in Cookies |-> 0]
    /\ ended = {}

Issued == {c \in Cookies : origin[c] # 0}

Stored == {c \in Cookies : sessions[c] # 0}

\* ExpiresAt.After(now) is false.
Expired(c) == sessions[c] <= now

Live == {c \in Stored : ~ Expired(c)}

cleanupLocked == [c \in Cookies |-> IF Expired(c) THEN 0 ELSE sessions[c]]

----------------------------------------------------------------------------
(* The sign-in pages.                                                      *)

\* The start page: a new state replaces the one in sessionStorage, and the
\* browser leaves for the identity provider.
Start(b) ==
    /\ tab[b].pc = "away" /\ starts < MaxStarts
    /\ starts' = starts + 1
    /\ saved' = [saved EXCEPT ![b] = [state |-> starts + 1, createdAt |-> now]]
    /\ UNCHANGED <<now, tab, storeVars>>

\* The saved sign-in is the one that the page was loaded for, and not too old.
Matches(b, s) ==
    saved[b].state = s /\ now - saved[b].createdAt <= LoginLimit

\* As Callback, but the saved sign-in stays.
CallbackKeepsSaved(b, s, exp) ==
    /\ tab[b].pc = "away" /\ Matches(b, s)
    /\ tab' = [tab EXCEPT ![b].pc = "validate", ![b].code = s, ![b].exp = exp]
    /\ UNCHANGED <<now, starts, saved, storeVars>>

\* The callback page, loaded with the state of some sign-in: the provider's
\* answer, or a reload or a step back to an earlier one.  The saved sign-in is
\* removed before it is looked at.  The provider then exchanges the code for a
\* token that expires at exp, and the tab posts it to /auth/session.
Callback(b, s, exp) ==
    /\ tab[b].pc = "away"
    /\ saved' = [saved EXCEPT ![b] = NotSaved]
    /\ tab' = IF Matches(b, s) THEN [tab EXCEPT ![b].pc = "validate", ![b].code = s, ![b].exp = exp]
              ELSE tab
    /\ UNCHANGED <<now, starts, storeVars>>

\* The provider, MISE or the random source fails, the tab is closed, or the
\* handler refused; the page shows the error.
SignInFails(b) ==
    /\ tab[b].pc # "away"
    /\ tab' = [tab EXCEPT ![b] = NoTab]
    /\ UNCHANGED <<now, starts, saved, storeVars>>

\* minimumTime: the session ends with its token, or after its own lifetime.
Bounded(exp) == IF exp < now + SessionLifetime THEN exp ELSE now + SessionLifetime

\* MISE accepts the token of the configured tenant, with an object ID, the
\* required scope and role; the handler refuses one that has expired.
Validate(b) ==
    /\ tab[b].pc = "validate"
    /\ LET expiresAt == Bounded(tab[b].exp) IN
       tab' = [tab EXCEPT ![b] = IF expiresAt > now
                                 THEN [@ EXCEPT !.pc = "create", !.expiresAt = expiresAt]
                                 ELSE NoTab]
    /\ UNCHANGED <<now, starts, saved, storeVars>>

\* The store adds the session under an ID that was never used.
AddSession(b, c, kept) ==
    /\ sessions' = [kept EXCEPT ![c] = tab[b].expiresAt]
    /\ origin' = [origin EXCEPT ![c] = tab[b].code]
    /\ tokenExp' = [tokenExp EXCEPT ![c] = tab[b].exp]
    /\ tab' = [tab EXCEPT ![b] = NoTab]
    /\ UNCHANGED ended

\* As createSession, with room for one session more than maxSessions.
createSessionOverCapacity(b, c) ==
    /\ tab[b].pc = "create" /\ c \notin Issued
    /\ IF Cardinality(Live) > MaxSessions
       THEN /\ tab' = [tab EXCEPT ![b].pc = "full"]
            /\ sessions' = cleanupLocked /\ UNCHANGED <<origin, tokenExp, ended>>
       ELSE AddSession(b, c, cleanupLocked)
    /\ UNCHANGED <<now, starts, saved>>

\* As createSession, without the cleanup.
createSessionWithoutCleanup(b, c) ==
    /\ tab[b].pc = "create" /\ c \notin Issued
    /\ IF Cardinality(Stored) >= MaxSessions
       THEN /\ tab' = [tab EXCEPT ![b].pc = "full"]
            /\ UNCHANGED storeVars
       ELSE AddSession(b, c, sessions)
    /\ UNCHANGED <<now, starts, saved>>

\* The store under its lock: expired sessions are dropped, then the capacity is
\* looked at, then the session is added, expired by now or not.
createSession(b, c) ==
    /\ tab[b].pc = "create" /\ c \notin Issued
    /\ IF Cardinality({d \in Cookies : cleanupLocked[d] # 0}) >= MaxSessions
       THEN /\ tab' = [tab EXCEPT ![b].pc = "full"]
            /\ sessions' = cleanupLocked /\ UNCHANGED <<origin, tokenExp, ended>>
       ELSE AddSession(b, c, cleanupLocked)
    /\ UNCHANGED <<now, starts, saved>>

SignIn(b) ==
    \/ Start(b) \/ SignInFails(b) \/ Validate(b)
    \/ \E s \in 1..starts, exp \in 1..MaxTime + SessionLifetime : Callback(b, s, exp)
    \/ \E c \in Cookies : createSession(b, c)

----------------------------------------------------------------------------
(* The store on its own.                                                   *)

deleteSession(c) == sessions' = [sessions EXCEPT ![c] = 0]

\* The ticker of cleanupLoop.
cleanup ==
    /\ sessions' = cleanupLocked
    /\ UNCHANGED <<now, signInVars, origin, tokenExp, ended>>

\* A new process starts with an empty store.
LoseSessions ==
    /\ sessions' = [c \in Cookies |-> 0]
    /\ ended' = ended \union Issued
    /\ UNCHANGED <<now, origin, tokenExp>>

Advance ==
    /\ now < MaxTime
    /\ now' = now + 1
    /\ UNCHANGED <<signInVars, storeVars>>

----------------------------------------------------------------------------

SessionTypeOK ==
    /\ now \in 0..MaxTime /\ starts \in 0..MaxStarts
    /\ saved \in [Tabs -> [state : 0..MaxStarts, createdAt : 0..MaxTime]]
    /\ tab \in [Tabs -> [pc : {"away", "validate", "create", "full"},
                         code : 0..MaxStarts, exp : 0..MaxTime + SessionLifetime,
                         expiresAt : 0..MaxTime + SessionLifetime]]
    /\ sessions \in [Cookies -> 0..MaxTime + SessionLifetime]
    /\ origin \in [Cookies -> 0..MaxStarts] /\ tokenExp \in [Cookies -> 0..MaxTime + SessionLifetime]
    /\ ended \subseteq Issued
    /\ Cardinality(Stored) <= MaxSessions

=============================================================================
