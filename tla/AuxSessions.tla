---------------------------- MODULE AuxSessions ----------------------------
(***************************************************************************)
(* SessionService and its four routes, for one registered user.  Handlers  *)
(* run in a thread pool: between two of their calls to DynamoDB anything   *)
(* may happen.  A handler reads its clock together with its first query.   *)
(* Times are in ticks; a duration below one tick counts as none.           *)
(***************************************************************************)
EXTENDS DynamoTable, FiniteSets

CONSTANTS
    SessionIds,     \* ids of session items
    SessionThreads, \* threads of the pool
    Durations,      \* max_duration_ms a client may ask for
    Lifetime,       \* eight hours, what a refresh grants
    Inactivity,     \* INACTIVITY_LIMIT_MS
    MaxTime         \* bound on the clock

\* What the constants satisfy.
SessionAssumption ==
    /\ Durations \subseteq Nat /\ Lifetime \in Nat
    /\ Inactivity \in Nat /\ MaxTime \in Nat
    /\ None \notin SessionIds

VARIABLES
    now,        \* the clock
    sessions,   \* BLOCKCHAIN_sessions
    serving,    \* what each thread is about to do: op, session, time, expiry
    answer,     \* the last answer of GET /sessions: is the session active?
    touched,    \* history: the latest last_accessed ever written
    granted     \* history: the latest expires_at ever written

vars == <<now, sessions, serving, answer, touched, granted>>

Time == 0..MaxTime
Session == [created_at : Time, last_accessed : Time, expires_at : Nat]
Request == [op : {"create", "get", "refresh", "delete"}, id : SessionIds, at : Time, until : Nat]

TypeOK ==
    /\ now \in Time
    /\ IsTable(sessions, SessionIds, Session)
    /\ serving \in [SessionThreads -> Request \cup {None}]
    /\ answer \in BOOLEAN
    /\ touched \in Time /\ granted \in Nat

Init ==
    /\ now = 0
    /\ sessions = EmptyTable(SessionIds)
    /\ serving = [h \in SessionThreads |-> None]
    /\ answer = FALSE
    /\ touched = 0 /\ granted = 0

-----------------------------------------------------------------------------
\* Sessions created in the same millisecond come in any order.
ResolveByEmail ==
    {i \in Indexed(sessions) : \A j \in Indexed(sessions) :
        Shown(sessions, j).created_at <= Shown(sessions, i).created_at}

\* _resolve: the session_id is the client's, so any session may be meant.
Resolve == Indexed(sessions)

\* Mutant: only the expiry is looked at.
IsActiveUntilExpiry(s, t) == t <= s.expires_at

IsActive(s, t) == t <= s.expires_at /\ t <= s.last_accessed + Inactivity

Start(h, op, i, until) ==
    /\ serving[h] = None
    /\ serving' = [serving EXCEPT ![h] = [op |-> op, id |-> i, at |-> now, until |-> until]]
    /\ UNCHANGED <<now, sessions, answer, touched, granted>>

Serving(h, op) == serving[h] # None /\ serving[h].op = op

Later(s, t) == IF s >= t THEN s ELSE t

Grant(r) == touched' = Later(touched, r.at) /\ granted' = Later(granted, r.until)

Finish(h) == serving' = [serving EXCEPT ![h] = None]

\* POST /sessions, up to the put.
CreateSession(h, i) ==
    /\ Fresh(sessions, i)
    /\ \A k \in SessionThreads : serving[k] # None => serving[k].id # i
    /\ \E d \in Durations \cup {Lifetime} : Start(h, "create", i, now + d)

Create(h) ==
    LET r == serving[h] IN
    /\ Serving(h, "create")
    /\ sessions' = PutItem(sessions, r.id,
            [created_at |-> r.at, last_accessed |-> r.at, expires_at |-> r.until])
    /\ Grant(r)
    /\ Finish(h)
    /\ UNCHANGED <<now, answer>>

\* GET /sessions: the session is read once for its fields and once more for "active".
GetSession(h, i) ==
    /\ i \in ResolveByEmail
    /\ Start(h, "get", i, now)

Answer(h, active) ==
    /\ Serving(h, "get")
    /\ answer' = active
    /\ Finish(h)
    /\ UNCHANGED <<now, sessions, touched, granted>>

IsActiveByEmail(h) ==
    \/ \E i \in ResolveByEmail : Answer(h, IsActive(Shown(sessions, i), now))
    \/ ResolveByEmail = {} /\ Answer(h, FALSE)

\* POST /sessions/refresh, and refresh by session id: expired or not, nobody asks.
RefreshSession(h, i) ==
    /\ i \in ResolveByEmail \cup Resolve
    /\ Start(h, "refresh", i, now + Lifetime)

\* Mutant: the refreshed session is written back whole.
RefreshWhole(h) ==
    LET r == serving[h] IN
    /\ Serving(h, "refresh") /\ HasRoom(sessions, r.id)
    /\ sessions' = PutItem(sessions, r.id,
            [created_at |-> r.at, last_accessed |-> r.at, expires_at |-> r.until])
    /\ Grant(r)
    /\ Finish(h)
    /\ UNCHANGED <<now, answer>>

Refresh(h) ==
    LET r == serving[h] IN
    /\ Serving(h, "refresh") /\ HasRoom(sessions, r.id)
    /\ sessions' = UpdateItem(sessions, r.id,
            [Held(sessions, r.id) EXCEPT !.last_accessed = r.at, !.expires_at = r.until])
    /\ Grant(r)
    /\ Finish(h)
    /\ UNCHANGED <<now, answer>>

\* DELETE /sessions, and delete by session id: one session, the user's others stay.
DeleteSession(h, i) ==
    /\ i \in ResolveByEmail \cup Resolve
    /\ Start(h, "delete", i, now)

Delete(h) ==
    LET r == serving[h] IN
    /\ Serving(h, "delete") /\ HasRoom(sessions, r.id)
    /\ sessions' = DeleteItem(sessions, r.id)
    /\ Finish(h)
    /\ UNCHANGED <<now, answer, touched, granted>>

-----------------------------------------------------------------------------
IndexCatchesUp(i) ==
    /\ i \in Lagging(sessions)
    /\ sessions' = CatchUp(sessions, i)
    /\ UNCHANGED <<now, serving, answer, touched, granted>>

Tick ==
    /\ now < MaxTime
    /\ now' = now + 1
    /\ UNCHANGED <<sessions, serving, answer, touched, granted>>

Next ==
    \/ \E h \in SessionThreads :
          \/ \E i \in SessionIds : CreateSession(h, i) \/ GetSession(h, i)
                                   \/ RefreshSession(h, i) \/ DeleteSession(h, i)
          \/ Create(h) \/ IsActiveByEmail(h) \/ Refresh(h) \/ Delete(h)
    \/ \E i \in SessionIds : IndexCatchesUp(i)
    \/ Tick

Spec == Init /\ [][Next]_vars

-----------------------------------------------------------------------------
(***************************************************************************)
(* "active" is earned: the user's sessions were created or refreshed, and  *)
(* no later than the inactivity limit before the answer, and for a time    *)
(* that still lasts.  The answer combines two reads of an index that lags  *)
(* behind refreshes and deletions of other requests.                       *)
(***************************************************************************)
ActiveIsEarned ==
    [][\A h \in SessionThreads :
        Serving(h, "get") /\ serving'[h] = None /\ answer'
            => now <= touched + Inactivity /\ now <= granted]_vars

(***************************************************************************)
(* Logging out is final: no step of a request that read the session        *)
(* before it was deleted brings the session back.                          *)
(***************************************************************************)
LogoutIsFinal ==
    [][\A i \in SessionIds : Held(sessions, i) \in {Gone, Orphan} => i \notin Present(sessions')]_vars

=============================================================================
