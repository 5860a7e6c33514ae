----------------------------- MODULE AuthToken -----------------------------
(***************************************************************************)
(* Issuing, validating and consuming the one-time JWTs that every          *)
(* protected endpoint asks for.  A token is a signed JWT and a row of      *)
(* public.auth_tokens; a request is let through when the JWT verifies, its *)
(* row is found, and the request's own DELETE removes that row.            *)
(*                                                                         *)
(* Requests run concurrently (one event loop, possibly several processes   *)
(* on one database): each await is a point where others step in.  Every    *)
(* statement takes a connection of the pool, so a request may wait, and    *)
(* the clock moves, between any two of its steps.                          *)
(*                                                                         *)
(* The JWT and the row carry the same expiry, TTL after the issue; the two *)
(* tests differ at the boundary (exp <= now, expires_at < now).  Wrong     *)
(* credentials and unreadable tokens end a request before any step here.   *)
(***************************************************************************)
EXTENDS Integers, FiniteSets

CONSTANTS
    Tokens,     \* tokens that may be generated
    Requests,   \* requests that may present one, each runs once
    TTL,        \* TOKEN_TTL_SECONDS
    PoolSize,   \* max_size of the connection pool
    MaxClock    \* bound on the clock

ASSUME AuthAssumption ==
    /\ TTL \in Nat \ {0}
    /\ PoolSize \in Nat \ {0}
    /\ MaxClock \in Nat
    /\ IsFiniteSet(Tokens)
    /\ IsFiniteSet(Requests)

VARIABLES
    clock,
    gen,        \* progress of each token's generate_token
    expires,    \* expiry of each token, in the JWT and in the row
    rows,       \* tokens with a row in auth_tokens
    pc,         \* progress of each request
    tok,        \* the token a request presents
    kind,       \* "use" (get_current_token) or "check" (/auth/token/validate)
    found,      \* the request's SELECT returned a row
    took        \* the request's DELETE removed the row

vars == <<clock, gen, expires, rows, pc, tok, kind, found, took>>

GenSteps == {"none", "signed", "inserting", "issued", "void"}

Ended == {"admitted", "valid", "expired", "unknown", "already_used", "failed", "lost"}
Running == {"want_select", "select", "selected", "want_delete", "delete", "deleted"}

TypeOK ==
    /\ clock \in 0..MaxClock
    /\ gen \in [Tokens -> GenSteps]
    /\ expires \in [Tokens -> 0..(MaxClock + TTL)]
    /\ rows \in SUBSET Tokens
    /\ pc \in [Requests -> {"new"} \cup Running \cup Ended]
    /\ tok \in [Requests -> Tokens]
    /\ kind \in [Requests -> {"use", "check"}]
    /\ found \in [Requests -> BOOLEAN]
    /\ took \in [Requests -> BOOLEAN]

Init ==
    /\ clock = 0
    /\ gen = [t \in Tokens |-> "none"]
    /\ expires = [t \in Tokens |-> 0]
    /\ rows = {}
    /\ pc = [r \in Requests |-> "new"]
    /\ tok \in [Requests -> Tokens]
    /\ kind \in [Requests -> {"use", "check"}]
    /\ found = [r \in Requests |-> FALSE]
    /\ took = [r \in Requests |-> FALSE]

-----------------------------------------------------------------------------
(***************************************************************************)
(* The pool: a statement holds a connection while it runs, and no task     *)
(* keeps one across two statements.                                        *)
(***************************************************************************)
\* Mutant: the second statement runs inside the first one's `async with`.
NestedHolders ==
    {<<"token", t>> : t \in {u \in Tokens : gen[u] = "inserting"}}
        \cup {<<"request", r>> : r \in {q \in Requests :
                pc[q] \in {"select", "selected", "want_delete", "delete"}}}

Holders ==
    {<<"token", t>> : t \in {u \in Tokens : gen[u] = "inserting"}}
        \cup {<<"request", r>> : r \in {q \in Requests : pc[q] \in {"select", "delete"}}}

ConnectionFree == Cardinality(Holders) < PoolSize

-----------------------------------------------------------------------------
\* Mutant: the time to live is added twice.
SignTwice(t) ==
    /\ gen[t] = "none"
    /\ gen' = [gen EXCEPT ![t] = "signed"]
    /\ expires' = [expires EXCEPT ![t] = clock + TTL + TTL]
    /\ UNCHANGED <<clock, rows, pc, tok, kind, found, took>>

\* generate_token up to its first await: the JWT is signed, no row yet.
Sign(t) ==
    /\ gen[t] = "none"
    /\ gen' = [gen EXCEPT ![t] = "signed"]
    /\ expires' = [expires EXCEPT ![t] = clock + TTL]
    /\ UNCHANGED <<clock, rows, pc, tok, kind, found, took>>

AcquireForInsert(t) ==
    /\ gen[t] = "signed"
    /\ ConnectionFree
    /\ gen' = [gen EXCEPT ![t] = "inserting"]
    /\ UNCHANGED <<clock, expires, rows, pc, tok, kind, found, took>>

\* The INSERT is committed and the client receives its token.
Insert(t) ==
    /\ gen[t] = "inserting"
    /\ gen' = [gen EXCEPT ![t] = "issued"]
    /\ rows' = rows \cup {t}
    /\ UNCHANGED <<clock, expires, pc, tok, kind, found, took>>

\* The INSERT raised: no client ever holds the token, its row may exist.
InsertFails(t) ==
    /\ gen[t] = "inserting"
    /\ gen' = [gen EXCEPT ![t] = "void"]
    /\ rows' \in {rows, rows \cup {t}}
    /\ UNCHANGED <<clock, expires, pc, tok, kind, found, took>>

-----------------------------------------------------------------------------
JwtExpired(t) == expires[t] <= clock
RowExpired(t) == expires[t] < clock

Goto(r, step) == pc' = [pc EXCEPT ![r] = step]

\* The token is decoded by the dependency and again by validate_token.
Present(r) ==
    /\ pc[r] = "new"
    /\ gen[tok[r]] = "issued"
    /\ Goto(r, IF JwtExpired(tok[r]) THEN "expired" ELSE "want_select")
    /\ UNCHANGED <<clock, gen, expires, rows, tok, kind, found, took>>

AcquireForSelect(r) ==
    /\ pc[r] = "want_select"
    /\ ConnectionFree
    /\ Goto(r, "select")
    /\ UNCHANGED <<clock, gen, expires, rows, tok, kind, found, took>>

Select(r) ==
    /\ pc[r] = "select"
    /\ found' = [found EXCEPT ![r] = tok[r] \in rows]
    /\ Goto(r, "selected")
    /\ UNCHANGED <<clock, gen, expires, rows, tok, kind, took>>

\* Mutant: validation itself lets the request through, the DELETE is a clean-up.
JudgeAdmits(r) ==
    /\ pc[r] = "selected"
    /\ Goto(r, IF ~found[r] THEN "unknown"
               ELSE IF RowExpired(tok[r]) THEN "expired"
               ELSE IF kind[r] = "check" THEN "valid"
               ELSE "admitted")
    /\ UNCHANGED <<clock, gen, expires, rows, tok, kind, found, took>>

\* Mutant: the validation endpoint spends the token it validates.
JudgeSpends(r) ==
    /\ pc[r] = "selected"
    /\ Goto(r, IF ~found[r] THEN "unknown"
               ELSE IF RowExpired(tok[r]) THEN "expired"
               ELSE "want_delete")
    /\ UNCHANGED <<clock, gen, expires, rows, tok, kind, found, took>>

(***************************************************************************)
(* The rest of validate_token, with the row as the SELECT saw it.  The     *)
(* validation endpoint answers; the dependency goes on to revoke_token.    *)
(***************************************************************************)
Judge(r) ==
    /\ pc[r] = "selected"
    /\ Goto(r, IF ~found[r] THEN "unknown"
               ELSE IF RowExpired(tok[r]) THEN "expired"
               ELSE IF kind[r] = "check" THEN "valid"
               ELSE "want_delete")
    /\ UNCHANGED <<clock, gen, expires, rows, tok, kind, found, took>>

AcquireForDelete(r) ==
    /\ pc[r] = "want_delete"
    /\ ConnectionFree
    /\ Goto(r, "delete")
    /\ UNCHANGED <<clock, gen, expires, rows, tok, kind, found, took>>

\* Mutant: the number of deleted rows is taken from the earlier SELECT.
DeleteTrustsSelect(r) ==
    /\ pc[r] = "delete"
    /\ took' = [took EXCEPT ![r] = found[r]]
    /\ rows' = rows \ {tok[r]}
    /\ Goto(r, "deleted")
    /\ UNCHANGED <<clock, gen, expires, tok, kind, found>>

\* revoke_token: one atomic DELETE, which reports the rows it removed.
Delete(r) ==
    /\ pc[r] = "delete"
    /\ took' = [took EXCEPT ![r] = tok[r] \in rows]
    /\ rows' = rows \ {tok[r]}
    /\ Goto(r, "deleted")
    /\ UNCHANGED <<clock, gen, expires, tok, kind, found>>

Settle(r) ==
    /\ pc[r] = "deleted"
    /\ Goto(r, IF took[r] THEN "admitted" ELSE "already_used")
    /\ UNCHANGED <<clock, gen, expires, rows, tok, kind, found, took>>

(***************************************************************************)
(* A statement raised: the SELECT changed nothing; the DELETE may have     *)
(* been executed although its answer is lost, and the request is refused.  *)
(***************************************************************************)
SelectFails(r) ==
    /\ pc[r] = "select"
    /\ Goto(r, "failed")
    /\ UNCHANGED <<clock, gen, expires, rows, tok, kind, found, took>>

DeleteFails(r) ==
    /\ pc[r] = "delete"
    /\ \/ UNCHANGED <<rows, took>>
       \/ /\ took' = [took EXCEPT ![r] = tok[r] \in rows]
          /\ rows' = rows \ {tok[r]}
    /\ Goto(r, "failed")
    /\ UNCHANGED <<clock, gen, expires, tok, kind, found>>

\* The server stops: running requests and generations are lost, rows stay.
Crash ==
    /\ pc' = [r \in Requests |-> IF pc[r] \in Running THEN "lost" ELSE pc[r]]
    /\ gen' = [t \in Tokens |-> IF gen[t] \in {"signed", "inserting"} THEN "void" ELSE gen[t]]
    /\ UNCHANGED <<clock, expires, rows, tok, kind, found, took>>

Tick ==
    /\ clock < MaxClock
    /\ clock' = clock + 1
    /\ UNCHANGED <<gen, expires, rows, pc, tok, kind, found, took>>

GenerateStep(t) == AcquireForInsert(t) \/ Insert(t) \/ InsertFails(t)

RequestStep(r) ==
    \/ AcquireForSelect(r) \/ Select(r) \/ SelectFails(r)
    \/ Judge(r)
    \/ AcquireForDelete(r) \/ Delete(r) \/ DeleteFails(r)
    \/ Settle(r)

Next ==
    \/ \E t \in Tokens : Sign(t) \/ GenerateStep(t)
    \/ \E r \in Requests : Present(r) \/ RequestStep(r)
    \/ Crash
    \/ Tick

Spec == Init /\ [][Next]_vars

(***************************************************************************)
(* A task the event loop has started runs on, and a statement ends.  The   *)
(* pool serves its waiters in order, and there are finitely many of them.  *)
(***************************************************************************)
Fairness ==
    /\ \A t \in Tokens : WF_vars(GenerateStep(t))
    /\ \A r \in Requests : WF_vars(RequestStep(r))

FairSpec == Spec /\ Fairness

-----------------------------------------------------------------------------
(***************************************************************************)
(* get_current_token lets at most one request through per token, however   *)
(* many present it at once: several may pass validate_token together, and  *)
(* the count returned by the DELETE separates them.                        *)
(***************************************************************************)
AtMostOnce ==
    \A r, s \in Requests :
        pc[r] = "admitted" /\ pc[s] = "admitted" /\ tok[r] = tok[s] => r = s

(***************************************************************************)
(* A client is told that its token was used, or is unknown, only when      *)
(* another request's DELETE has taken the row: validation alone, a crash   *)
(* or a failed statement of others never costs a client its token.         *)
(***************************************************************************)
RefusedOnlyIfBeaten ==
    \A r \in Requests :
        pc[r] \in {"unknown", "already_used"}
            => \E s \in Requests \ {r} : tok[s] = tok[r] /\ kind[s] = "use" /\ took[s]

(***************************************************************************)
(* The service keeps the one-time promise of OneTimeToken: the rows are    *)
(* the live tokens, and the DELETE that removes a row spends the token.    *)
(***************************************************************************)
OneTime == INSTANCE OneTimeToken WITH
    live <- rows,
    spentBy <- [t \in Tokens |-> {r \in Requests : tok[r] = t /\ took[r]}],
    admitted <- {r \in Requests : pc[r] = "admitted"}

ImplementsOneTime == OneTime!Spec

(***************************************************************************)
(* Every request that began ends, even with a pool of one connection: a    *)
(* request gives its connection back before it asks for the next one, so   *)
(* waiters never wait on each other.                                       *)
(***************************************************************************)
EveryRequestEnds == \A r \in Requests : pc[r] \in Running ~> pc[r] \in Ended

=============================================================================
