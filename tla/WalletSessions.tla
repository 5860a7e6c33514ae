--------------------------- MODULE WalletSessions ---------------------------
(***************************************************************************)
(* WalletSessionService behind the sanctions guard, with its three routes, *)
(* wired as in main.py: no ENS resolver is given, so the default one       *)
(* refuses every name.  Requests wait for Redis, and Redis drops a session *)
(* after its time to live.  The guard reads the address from the body of   *)
(* the request, the service from the validated model: each normalises it   *)
(* by itself.  compliance_screening_enabled is read once, at the start.    *)
(***************************************************************************)
EXTENDS Naturals

CONSTANTS
    Accounts,       \* addresses, lower case
    Sanctioned,     \* the accounts on the deny list
    SessionKeys,    \* session ids
    Connects,       \* concurrent requests
    TTL,            \* session_ttl_seconds, in ticks
    Now,            \* bound on the clock
    NoSession

\* What the constants satisfy.
WalletAssumption ==
    Sanctioned \subseteq Accounts /\ TTL \in Nat /\ Now \in Nat /\ NoSession \notin SessionKeys

VARIABLES
    screening,  \* compliance_screening_enabled
    time,       \* the clock
    sessions,   \* defi:session:*, each with its account, chain and birth
    serving,    \* what each request is about to do
    answered    \* the account of the last GET /wallet/session, or NoSession

vars == <<screening, time, sessions, serving, answered>>

Session == [account : Accounts, born : 0..Now]
Request == [op : {"connect", "disconnect"}, key : SessionKeys, account : Accounts \cup {NoSession}]

TypeOK ==
    /\ screening \in BOOLEAN
    /\ time \in 0..Now
    /\ sessions \in [SessionKeys -> Session \cup {NoSession}]
    /\ serving \in [Connects -> Request \cup {NoSession}]
    /\ answered \in Accounts \cup {NoSession}

Init ==
    /\ screening \in BOOLEAN
    /\ time = 0
    /\ sessions = [k \in SessionKeys |-> NoSession]
    /\ serving = [c \in Connects |-> NoSession]
    /\ answered = NoSession

-----------------------------------------------------------------------------
\* How wallet_address may be written; the first three name an account.
Writings == {"lower case", "checksummed", "padded", "ens", "private key", "invalid"}

\* Mutant: the deny list is searched for the address as it was sent.
IsSanctionedAsSent(writing, account) == writing = "lower case" /\ account \in Sanctioned

\* Stripped and in lower case, as the deny list is.
IsSanctioned(writing, account) ==
    writing \in {"lower case", "checksummed", "padded"} /\ account \in Sanctioned

\* _resolve_address and _normalize_and_validate, for the default resolver.
Valid(writing) == writing \in {"lower case", "checksummed", "padded"}

\* uuid4 gives a key that is neither stored nor in use.
Unused(k) ==
    /\ sessions[k] = NoSession
    /\ \A c \in Connects : serving[c] # NoSession => serving[c].key # k

Serve(c, op, k, account) ==
    /\ serving[c] = NoSession
    /\ serving' = [serving EXCEPT ![c] = [op |-> op, key |-> k, account |-> account]]
    /\ UNCHANGED <<screening, time, sessions, answered>>

\* POST /wallet/connect, up to the write: guard, chain, address.
Connect(c, k) ==
    \E writing \in Writings, account \in Accounts, supported \in BOOLEAN :
        /\ screening => ~IsSanctioned(writing, account)
        /\ supported /\ Valid(writing)
        /\ Unused(k)
        /\ Serve(c, "connect", k, account)

\* Mutant: a request that ends a session writes it as well.
SetexAlways(c) ==
    /\ serving[c] # NoSession
    /\ sessions' = [sessions EXCEPT ![serving[c].key] = [account |-> serving[c].account, born |-> time]]
    /\ serving' = [serving EXCEPT ![c] = NoSession]
    /\ UNCHANGED <<screening, time, answered>>

Setex(c) ==
    /\ serving[c] # NoSession /\ serving[c].op = "connect"
    /\ sessions' = [sessions EXCEPT ![serving[c].key] = [account |-> serving[c].account, born |-> time]]
    /\ serving' = [serving EXCEPT ![c] = NoSession]
    /\ UNCHANGED <<screening, time, answered>>

\* GET /wallet/session: one read, nothing is renewed.
GetSession(k) ==
    /\ answered' = IF sessions[k] = NoSession THEN NoSession ELSE sessions[k].account
    /\ UNCHANGED <<screening, time, sessions, serving>>

\* DELETE /wallet/session: the session is read, then deleted.
Disconnect(c, k) ==
    /\ sessions[k] # NoSession
    /\ Serve(c, "disconnect", k, NoSession)

Delete(c) ==
    /\ serving[c] # NoSession /\ serving[c].op = "disconnect"
    /\ sessions' = [sessions EXCEPT ![serving[c].key] = NoSession]
    /\ serving' = [serving EXCEPT ![c] = NoSession]
    /\ UNCHANGED <<screening, time, answered>>

\* A call to Redis fails, or the process stops, before Redis has acted; afterwards
\* (Setex, Delete) there is only the answer left to lose.
Lost(c) ==
    /\ serving[c] # NoSession
    /\ serving' = [serving EXCEPT ![c] = NoSession]
    /\ UNCHANGED <<screening, time, sessions, answered>>

\* Redis drops the sessions whose time is over.
Tick ==
    /\ time < Now
    /\ time' = time + 1
    /\ sessions' = [k \in SessionKeys |->
          IF sessions[k] # NoSession /\ time' >= sessions[k].born + TTL THEN NoSession ELSE sessions[k]]
    /\ UNCHANGED <<screening, serving, answered>>

Next ==
    \/ \E c \in Connects :
          \/ \E k \in SessionKeys : Connect(c, k) \/ Disconnect(c, k)
          \/ Setex(c) \/ Delete(c) \/ Lost(c)
    \/ \E k \in SessionKeys : GetSession(k)
    \/ Tick

Spec == Init /\ [][Next]_vars

-----------------------------------------------------------------------------
(***************************************************************************)
(* Where screening is enabled no session is for a sanctioned account,      *)
(* however the address was written in the request: guard and service read  *)
(* it separately.                                                          *)
(***************************************************************************)
SessionsScreened ==
    \A k \in SessionKeys :
        screening /\ sessions[k] # NoSession => sessions[k].account \notin Sanctioned

=============================================================================
