------------------------------ MODULE AuxUsers ------------------------------
(***************************************************************************)
(* UserService, and the services that store a record for the user an       *)
(* e-mail address resolves to (MetadataService, AuditService,              *)
(* PositionService) or for a symbol (TokenMetaService, OhlcvCandleService),*)
(* with their routes.  A creation looks the wallet up, then the e-mail,    *)
(* then writes; nothing makes either unique in the table.                  *)
(***************************************************************************)
EXTENDS DynamoTable, Integers, FiniteSets

CONSTANTS
    UserRows,       \* ids of user items
    Wallets,        \* wallet addresses, lower case: they are the user ids
    Emails,         \* e-mail addresses, stripped and lower case
    Symbols,        \* token symbols
    Statuses,       \* statuses a request may ask for
    UserThreads,    \* threads of the pool
    MaxRecords      \* bound on the records

ValidStatuses == {"ACTIVE", "INACTIVE", "BLOCKED"}
User == [user_id : Wallets, email : Emails, status : ValidStatuses]

\* What the constants satisfy.
UserAssumption ==
    None \notin UserRows \cup Wallets /\ MaxRecords \in Nat /\ NoItem \cap User = {}

VARIABLES
    users,      \* BLOCKCHAIN_users
    handling,   \* what each thread is about to do: step, id, user, email, status
    records,    \* what the five record tables hold
    overlapped  \* history: a creation began before an earlier one was over or indexed

vars == <<users, handling, records, overlapped>>

UserKinds == {"metadata", "audit", "position"}
SymbolKinds == {"token_meta", "ohlcv"}
Record == [kind : UserKinds \cup SymbolKinds, owner : Wallets \cup Symbols, for : Emails \cup Symbols]

Steps == {"check_email", "put", "resolve", "update", "insert"}
Task == [step : Steps, id : UserRows \cup {None}, user : Wallets, email : Emails,
         status : ValidStatuses, kind : UserKinds \cup {None}]

TypeOK ==
    /\ IsTable(users, UserRows, User)
    /\ handling \in [UserThreads -> Task \cup {None}]
    /\ records \subseteq Record
    /\ overlapped \in BOOLEAN

Init ==
    /\ users = EmptyTable(UserRows)
    /\ handling = [h \in UserThreads |-> None]
    /\ records = {}
    /\ overlapped = FALSE

-----------------------------------------------------------------------------
\* The items a query shows come in no particular order: any may be items[0].
ByWallet(u) == {i \in Indexed(users) : Shown(users, i).user_id = u}
ByEmail(e)  == {i \in Indexed(users) : Shown(users, i).email = e}

\* resolve_user_id_by_email: the answers it may give.
ResolveUserId(e) == {Shown(users, i).user_id : i \in ByEmail(e)}

Take(h, task) == handling' = [handling EXCEPT ![h] = task]
Doing(h, step) == handling[h] # None /\ handling[h].step = step

Creating(h) == Doing(h, "check_email") \/ Doing(h, "put")

\* create, first query: the wallet is free.
CreateUser(h, i) ==
    \E u \in Wallets, e \in Emails, s \in Statuses \cap ValidStatuses :
        /\ handling[h] = None
        /\ Fresh(users, i)
        /\ \A k \in UserThreads : Creating(k) => handling[k].id # i
        /\ ByWallet(u) = {}
        /\ Take(h, [step |-> "check_email", id |-> i, user |-> u, email |-> e,
                    status |-> s, kind |-> None])
        /\ overlapped' = (overlapped \/ Lagging(users) # {} \/ \E k \in UserThreads : Creating(k))
        /\ UNCHANGED <<users, records>>

\* Mutant: the second query is left out.
SkipEmailCheck(h) ==
    /\ Doing(h, "check_email")
    /\ Take(h, [handling[h] EXCEPT !.step = "put"])
    /\ UNCHANGED <<users, records, overlapped>>

\* create, second query: the e-mail is free, or the request is refused.
CheckEmail(h) ==
    /\ Doing(h, "check_email")
    /\ Take(h, IF ByEmail(handling[h].email) = {}
               THEN [handling[h] EXCEPT !.step = "put"] ELSE None)
    /\ UNCHANGED <<users, records, overlapped>>

PutUser(h) ==
    LET r == handling[h] IN
    /\ Doing(h, "put")
    /\ users' = PutItem(users, r.id, [user_id |-> r.user, email |-> r.email, status |-> r.status])
    /\ Take(h, None)
    /\ UNCHANGED <<records, overlapped>>

\* update_status: e-mail to user id, user id to item, then the item.
UpdateUserStatus(h) ==
    \E e \in Emails, s \in Statuses \cap ValidStatuses : \E u \in ResolveUserId(e) :
        /\ handling[h] = None
        /\ Take(h, [step |-> "resolve", id |-> None, user |-> u, email |-> e,
                    status |-> s, kind |-> None])
        /\ UNCHANGED <<users, records, overlapped>>

\* Mutant: any item of the table is taken for the user's.
ResolveAnyItem(h) ==
    /\ Doing(h, "resolve")
    /\ \/ \E i \in Indexed(users) : Take(h, [handling[h] EXCEPT !.step = "update", !.id = i])
       \/ Indexed(users) = {} /\ Take(h, None)
    /\ UNCHANGED <<users, records, overlapped>>

ResolveItem(h) ==
    LET found == ByWallet(handling[h].user) IN
    /\ Doing(h, "resolve")
    /\ \/ \E i \in found : Take(h, [handling[h] EXCEPT !.step = "update", !.id = i])
       \/ found = {} /\ Take(h, None)
    /\ UNCHANGED <<users, records, overlapped>>

SetStatus(h) ==
    LET r == handling[h] IN
    /\ Doing(h, "update") /\ HasRoom(users, r.id)
    /\ users' = UpdateItem(users, r.id, [Held(users, r.id) EXCEPT !.status = r.status])
    /\ Take(h, None)
    /\ UNCHANGED <<records, overlapped>>

-----------------------------------------------------------------------------
HasSpace == Cardinality(records) < MaxRecords

\* A record for the user of an e-mail address, up to the put.
ForUser(h, kind, e) ==
    /\ handling[h] = None
    /\ \E u \in ResolveUserId(e) :
          Take(h, [step |-> "insert", id |-> None, user |-> u, email |-> e,
                   status |-> "ACTIVE", kind |-> kind])
    /\ UNCHANGED <<users, records, overlapped>>

CreateMetadata(h) ==
    \E e \in Emails, key \in {"", "key"} : key # "" /\ ForUser(h, "metadata", e)

ApprovedAction ==
    {"LOGIN", "LOGOUT", "KYC_SUBMIT", "KYC_APPROVE", "KYC_REJECT", "TOKEN_CREATE", "SWAP",
     "RATE_LIMIT_EXCEEDED", "SESSION_REFRESH"}

CreateAudit(h) ==
    \E e \in Emails, action \in {"LOGIN", "other"} :
        action \in ApprovedAction /\ ForUser(h, "audit", e)

InsertPosition(h) ==
    \E e \in Emails, least \in -1..0 : least >= 0 /\ ForUser(h, "position", e)

PutRecord(h) ==
    LET r == handling[h] IN
    /\ Doing(h, "insert") /\ HasSpace
    /\ records' = records \cup {[kind |-> r.kind, owner |-> r.user, for |-> r.email]}
    /\ Take(h, None)
    /\ UNCHANGED <<users, overlapped>>

\* A symbol's record is put at once; least is the smallest of its amounts.
ForSymbol(kind, symbol, least) ==
    /\ least >= 0 /\ HasSpace
    /\ records' = records \cup {[kind |-> kind, owner |-> symbol, for |-> symbol]}
    /\ UNCHANGED <<users, handling, overlapped>>

\* "upsert" puts one item more each time, under a new id.
UpsertTokenMeta == \E symbol \in Symbols, least \in -1..0 : ForSymbol("token_meta", symbol, least)

InsertCandle == \E symbol \in Symbols, least \in -1..0 : ForSymbol("ohlcv", symbol, least)

IndexCatchesUp(i) ==
    /\ i \in Lagging(users)
    /\ users' = CatchUp(users, i)
    /\ UNCHANGED <<handling, records, overlapped>>

Next ==
    \/ \E h \in UserThreads :
          \/ \E i \in UserRows : CreateUser(h, i)
          \/ CheckEmail(h) \/ PutUser(h)
          \/ UpdateUserStatus(h) \/ ResolveItem(h) \/ SetStatus(h)
          \/ CreateMetadata(h) \/ CreateAudit(h) \/ InsertPosition(h) \/ PutRecord(h)
    \/ UpsertTokenMeta \/ InsertCandle
    \/ \E i \in UserRows : IndexCatchesUp(i)

Spec == Init /\ [][Next]_vars

-----------------------------------------------------------------------------
Items == {Held(users, i) : i \in Present(users)}

(***************************************************************************)
(* What was stored for an e-mail address is listed for it ever after: the  *)
(* listing resolves the address again, and resolves it to the owner the    *)
(* record was given, unless two creations overlapped, or one began before  *)
(* the index showed an earlier one.  Only then can an address or a wallet  *)
(* have two users.                                                         *)
(***************************************************************************)
RecordsReachable ==
    ~overlapped =>
        /\ \A r \in records : r.kind \in UserKinds =>
              \A u \in Items : u.email = r.for => u.user_id = r.owner
        /\ \A i, j \in Present(users) :
              i # j => /\ Held(users, i).email # Held(users, j).email
                       /\ Held(users, i).user_id # Held(users, j).user_id

(***************************************************************************)
(* A status change reaches the user it names: three calls, each through an *)
(* index, lead from the e-mail address to the item, which carries that     *)
(* address unless creations overlapped.                                    *)
(***************************************************************************)
RightUserUpdated ==
    [][~overlapped =>
        \A h \in UserThreads : Doing(h, "update") /\ handling'[h] = None =>
            Held(users, handling[h].id).email = handling[h].email]_vars

=============================================================================
