-------------------------- MODULE PlatformSecrets --------------------------
(***************************************************************************)
(* PlatformSecretsService and the admin routes, for one key name.  Each    *)
(* request runs one statement in a transaction of its own, which is        *)
(* committed before the request is answered.  The concurrency is that of   *)
(* Postgres at READ COMMITTED: a statement sees what was committed when it *)
(* began, waits for the transaction that has changed the row, and then     *)
(* applies to the row as that transaction left it, if it is still there.   *)
(*                                                                         *)
(* A row has its id, a fresh uuid, and its description.  Its value is      *)
(* never read, and like the rest of the row is written as it was sent.     *)
(***************************************************************************)
EXTENDS Naturals, FiniteSets

CONSTANTS
    Admins,     \* concurrent requests
    SecretIds,  \* ids of rows
    Notes,      \* descriptions
    None        \* no row, no description

\* What the constants satisfy.
SecretAssumption == None \notin SecretIds \cup Notes \cup Admins \cup {"create", "update", "delete"}

VARIABLES
    secret,     \* the committed row
    owner,      \* the request whose transaction has changed it and is not committed
    draft,      \* the row as that transaction leaves it
    request,    \* the operation of each request, None if it has none
    description,\* the description it sends
    seenId,     \* the id of the row its statement has found, None before and if none
    answer,     \* how the last request ended
    existed     \* history: whether there was a row, at the moments since the request began

vars == <<secret, owner, draft, request, description, seenId, answer, existed>>

Row == [id : SecretIds, description : Notes \cup {None}]
Operation == {"create", "update", "delete"}

TypeOK ==
    /\ secret \in Row \cup {None}
    /\ owner \in Admins \cup {None}
    /\ draft \in Row \cup {None}
    /\ request \in [Admins -> Operation \cup {None}]
    /\ description \in [Admins -> Notes \cup {None}]
    /\ seenId \in [Admins -> SecretIds \cup {None}]
    /\ answer \in [Admins -> {"none", "done", "conflict", "not found", "error"}]
    /\ existed \in [Admins -> SUBSET BOOLEAN]

Init ==
    /\ secret = None /\ owner = None /\ draft = None
    /\ request = [a \in Admins |-> None]
    /\ description = [a \in Admins |-> None]
    /\ seenId = [a \in Admins |-> None]
    /\ answer = [a \in Admins |-> "none"]
    /\ existed = [a \in Admins |-> {}]

-----------------------------------------------------------------------------
StoredId == IF secret = None THEN None ELSE secret.id

\* POST, PUT or DELETE: the statement begins.
Begin(a) ==
    \E op \in Operation, note \in Notes \cup {None} :
        /\ request[a] = None
        /\ op = "delete" => note = None
        /\ request' = [request EXCEPT ![a] = op]
        /\ description' = [description EXCEPT ![a] = note]
        /\ seenId' = [seenId EXCEPT ![a] = StoredId]
        /\ answer' = [answer EXCEPT ![a] = "none"]
        /\ existed' = [existed EXCEPT ![a] = {secret # None}]
        /\ UNCHANGED <<secret, owner, draft>>

End(a, how, since) ==
    /\ request' = [request EXCEPT ![a] = None]
    /\ description' = [description EXCEPT ![a] = None]
    /\ seenId' = [seenId EXCEPT ![a] = None]
    /\ answer' = [answer EXCEPT ![a] = how]
    /\ existed' = [since EXCEPT ![a] = {}]

\* The transaction of a holds the row, or the key name, until it ends.
Hold(a, row) ==
    /\ owner' = a
    /\ draft' = row
    /\ UNCHANGED <<secret, request, description, seenId, answer, existed>>

\* Mutant: the key name is not unique, and the last row counts.
CreateAnyway(a) ==
    /\ request[a] = "create" /\ owner = None
    /\ \E i \in SecretIds : Hold(a, [id |-> i, description |-> description[a]])

\* The insert: the unique key name makes it wait for the other transaction.
Create(a) ==
    /\ request[a] = "create" /\ owner = None
    /\ IF secret = None
       THEN \E i \in SecretIds :
               /\ \A b \in Admins : seenId[b] # i
               /\ Hold(a, [id |-> i, description |-> description[a]])
       ELSE End(a, "conflict", existed) /\ UNCHANGED <<secret, owner, draft>>

\* The row an update or a delete has found is still there.
Found(a) == seenId[a] # None /\ seenId[a] = StoredId

NotFound(a) ==
    /\ request[a] \in {"update", "delete"}
    /\ seenId[a] = None \/ (owner = None /\ ~Found(a))
    /\ End(a, "not found", existed)
    /\ UNCHANGED <<secret, owner, draft>>

\* The description is COALESCEd with that of the row.
Update(a) ==
    /\ request[a] = "update" /\ owner = None /\ Found(a)
    /\ Hold(a, [secret EXCEPT !.description = IF description[a] = None THEN @ ELSE description[a]])

Delete(a) ==
    /\ request[a] = "delete" /\ owner = None /\ Found(a)
    /\ Hold(a, None)

\* Database.session commits when the statement has returned, then the request is answered.
Commit(a) ==
    /\ owner = a
    /\ secret' = draft
    /\ owner' = None /\ draft' = None
    /\ End(a, "done", [b \in Admins |-> IF request[b] = None THEN {} ELSE existed[b] \cup {draft # None}])

\* The statement or its commit fails, or the process stops: the transaction is rolled back.
Rollback(a) ==
    /\ request[a] # None
    /\ IF owner = a THEN owner' = None /\ draft' = None ELSE UNCHANGED <<owner, draft>>
    /\ End(a, "error", existed)
    /\ UNCHANGED secret

Next ==
    \E a \in Admins :
        \/ Begin(a)
        \/ Create(a) \/ Update(a) \/ Delete(a) \/ NotFound(a)
        \/ Commit(a) \/ Rollback(a)

Spec == Init /\ [][Next]_vars

-----------------------------------------------------------------------------
(***************************************************************************)
(* However the requests overlap, they keep what the routes say.  Creating  *)
(* never replaces a secret ("already exists. Use PUT"); "if description is *)
(* omitted the existing description is preserved", also when the row has   *)
(* been changed since the statement began; and a secret is called existing *)
(* or not found only if it was so at some moment of the request.           *)
(***************************************************************************)
SecretKept ==
    [][/\ secret # None /\ secret' # None /\ secret' # secret =>
              /\ secret'.id = secret.id
              /\ secret'.description # secret.description =>
                    description[owner] \notin {None, secret.description}
       /\ \A a \in Admins :
              answer'[a] # answer[a] =>
                  /\ answer'[a] = "conflict" => TRUE \in existed[a]
                  /\ answer'[a] = "not found" => FALSE \in existed[a]]_vars

=============================================================================
