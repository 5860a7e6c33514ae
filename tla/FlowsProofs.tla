----------------------------- MODULE FlowsProofs -----------------------------
(***************************************************************************)
(* What the journey, the choices, the wallet sessions and the platform     *)
(* secrets promise, for any number of concurrent requests, ids, names and  *)
(* accounts, and any length of a list or of a reply.                       *)
(*                                                                         *)
(* SecretKept is a property of steps, and follows from three facts that hold *)
(* in between: the row that waits to be committed keeps what it must of the *)
(* committed one (DraftFollows), its transaction has a request that is no  *)
(* lookup in vain (Owned), and a request remembers whether there was a row *)
(* (Remembered).                                                           *)
(*                                                                         *)
(* The others rest on what a request still holds: a connect its screened   *)
(* account (ConnectsScreened), a copy the name of a stored choice          *)
(* (CopiesHold), the client what the last /start and /select-strategy have *)
(* shown it (JourneyInv).                                                  *)
(*                                                                         *)
(* The journey's types and NoDeadEnd rest on the tables of strategies and  *)
(* of seeds, and on lemmas about rankings and scores (EveryRank onwards).  *)
(***************************************************************************)
EXTENDS Flows, FiniteSetTheorems, SequenceTheorems, WellFoundedInduction, TLAPS

\* Row u replaces row t at the request of a.
Replaces(a, t, u) ==
    /\ u.id = t.id
    /\ u.description # t.description => u.description = description[a] /\ description[a] # None

DraftFollows ==
    owner # None /\ secret # None /\ draft # None => Replaces(owner, secret, draft)

Owned ==
    owner # None =>
        /\ request[owner] \in Operation
        /\ request[owner] \in {"update", "delete"} => seenId[owner] # None

Remembered ==
    \A a \in Admins :
        request[a] # None =>
            /\ (secret # None) \in existed[a]
            /\ seenId[a] = None \/ StoredId # seenId[a] => FALSE \in existed[a]

SecretInv == TypeOK /\ DraftFollows /\ Owned /\ Remembered

\* How the request of a ended, and that the others have not.
Ended(a, how, since) ==
    /\ request' \in [Admins -> Operation \cup {None}]
    /\ description' \in [Admins -> Notes \cup {None}]
    /\ seenId' \in [Admins -> SecretIds \cup {None}]
    /\ answer' \in [Admins -> {"none", "done", "conflict", "not found", "error"}]
    /\ existed' \in [Admins -> SUBSET BOOLEAN]
    /\ request'[a] = None /\ answer'[a] = how
    /\ \A b \in Admins \ {a} :
           /\ request'[b] = request[b] /\ description'[b] = description[b]
           /\ seenId'[b] = seenId[b] /\ answer'[b] = answer[b]
           /\ existed'[b] = since[b]

\* The row is not held by a any more, nor was the row of another.
Released(a) ==
    \/ owner' = owner /\ draft' = draft /\ owner # a
    \/ owner' = None /\ draft' = None

-----------------------------------------------------------------------------
(***************************************************************************)
(* The end of a request forgets it, and says how it ended.                 *)
(***************************************************************************)
LEMMA EndFacts ==
    ASSUME TypeOK, SecretAssumption, NEW a \in Admins,
           NEW how \in {"done", "conflict", "not found", "error"},
           NEW since \in [Admins -> SUBSET BOOLEAN], End(a, how, since)
    PROVE  Ended(a, how, since)
BY DEF End, Ended, TypeOK

(***************************************************************************)
(* A request that ends without a write leaves the rest as it is.           *)
(***************************************************************************)
LEMMA EndStep ==
    ASSUME SecretInv, SecretAssumption, NEW a \in Admins,
           NEW how \in {"conflict", "not found", "error"},
           End(a, how, existed), UNCHANGED secret,
           Released(a)
    PROVE  SecretInv'
<1>1. existed \in [Admins -> SUBSET BOOLEAN] /\ TypeOK /\ how \in {"done", "conflict", "not found", "error"}
  BY DEF SecretInv, TypeOK
<1>2. Ended(a, how, existed)
  BY <1>1, EndFacts
<1>3. /\ request'[a] = None
      /\ \A b \in Admins \ {a} :
             /\ request'[b] = request[b] /\ description'[b] = description[b]
             /\ seenId'[b] = seenId[b] /\ existed'[b] = existed[b]
  BY <1>2 DEF Ended
<1>4. owner' # None => /\ owner' \in Admins \ {a} /\ owner' = owner /\ draft' = draft
  BY DEF SecretInv, TypeOK, Released
<1>5. TypeOK'
  BY <1>2 DEF SecretInv, TypeOK, Ended, Released
<1>6. DraftFollows'
  BY <1>3, <1>4 DEF SecretInv, DraftFollows, Replaces
<1>7. Owned'
  BY <1>3, <1>4 DEF SecretInv, Owned
<1>8. Remembered'
  BY <1>3 DEF SecretInv, Remembered, StoredId
<1>9. QED BY <1>5, <1>6, <1>7, <1>8 DEF SecretInv

(***************************************************************************)
(* The three statements that change the row.                               *)
(***************************************************************************)
LEMMA HoldStep ==
    ASSUME SecretInv, SecretAssumption, NEW a \in Admins, NEW row \in Row \cup {None}, Hold(a, row),
           owner = None, request[a] \in Operation,
           request[a] \in {"update", "delete"} => seenId[a] # None,
           secret # None /\ row # None => Replaces(a, secret, row)
    PROVE  SecretInv'
<1>1. /\ owner' = a /\ draft' = row
      /\ UNCHANGED <<secret, request, description, seenId, answer, existed>>
  BY DEF Hold
<1>2. TypeOK'
  BY <1>1 DEF SecretInv, TypeOK
<1>3. DraftFollows'
  BY <1>1 DEF DraftFollows, Replaces
<1>4. Owned'
  BY <1>1 DEF Owned
<1>5. Remembered'
  BY <1>1 DEF SecretInv, Remembered, StoredId
<1>6. QED BY <1>2, <1>3, <1>4, <1>5 DEF SecretInv

(***************************************************************************)
(* The commit: every other request notes whether there is a row now.       *)
(***************************************************************************)
LEMMA CommitStep ==
    ASSUME SecretInv, SecretAssumption, NEW a \in Admins, Commit(a)
    PROVE  SecretInv'
<1> DEFINE since == [b \in Admins |->
                        IF request[b] = None THEN {} ELSE existed[b] \cup {draft # None}]
<1>1. since \in [Admins -> SUBSET BOOLEAN] /\ TypeOK
  BY DEF SecretInv, TypeOK
<1>2. owner = a /\ secret' = draft /\ owner' = None /\ draft' = None /\ End(a, "done", since)
  BY DEF Commit
<1>3. Ended(a, "done", since)
  BY <1>1, <1>2, EndFacts
<1>4. /\ request'[a] = None
      /\ \A b \in Admins \ {a} :
             /\ request'[b] = request[b] /\ seenId'[b] = seenId[b] /\ existed'[b] = since[b]
  BY <1>3 DEF Ended
<1>5. DraftFollows' /\ Owned'
  BY <1>2 DEF DraftFollows, Owned
<1>6. Remembered'
  <2> SUFFICES ASSUME NEW b \in Admins, request'[b] # None
               PROVE  /\ (secret' # None) \in existed'[b]
                      /\ seenId'[b] = None \/ StoredId' # seenId'[b] => FALSE \in existed'[b]
    BY DEF Remembered
  <2>1. /\ request[b] # None /\ seenId'[b] = seenId[b]
        /\ existed'[b] = existed[b] \cup {draft # None}
    BY <1>4
  <2>2. (secret' # None) \in existed'[b]
    BY <1>2, <2>1
  <2>3. ASSUME seenId'[b] = None \/ StoredId' # seenId'[b]
        PROVE  FALSE \in existed'[b]
    <3>1. CASE draft = None
      BY <2>1, <3>1
    <3>2. CASE secret = None
      <4>1. (secret # None) \in existed[b] /\ (secret # None) = FALSE
        BY <2>1, <3>2 DEF SecretInv, Remembered
      <4>2. QED BY <2>1, <4>1
    <3>3. CASE secret # None /\ draft # None
      <4>1. draft.id = secret.id /\ owner # None
        BY <1>2, <3>3 DEF SecretInv, DraftFollows, Replaces, SecretAssumption
      <4>2. StoredId' = StoredId
        BY <1>2, <3>3, <4>1 DEF StoredId
      <4>3. QED BY <2>1, <2>3, <4>2 DEF SecretInv, Remembered
    <3>4. QED BY <3>1, <3>2, <3>3
  <2>4. QED BY <2>2, <2>3
<1>7. TypeOK'
  BY <1>2, <1>3 DEF SecretInv, TypeOK, Ended
<1>8. QED BY <1>5, <1>6, <1>7 DEF SecretInv

(***************************************************************************)
(* Every step keeps the invariant.                                         *)
(***************************************************************************)
LEMMA SecretSteps ==
    ASSUME SecretAssumption
    PROVE  SecretInv /\ [Next]_vars => SecretInv'
<1> SUFFICES ASSUME SecretInv, [Next]_vars PROVE SecretInv'
  OBVIOUS
<1>1. secret # None => secret \in Row
  BY DEF SecretInv, TypeOK
<1>2. ASSUME NEW a \in Admins, Begin(a) PROVE SecretInv'
  <2>1. PICK op \in Operation, note \in Notes \cup {None} :
            /\ request[a] = None
            /\ request' = [request EXCEPT ![a] = op]
            /\ description' = [description EXCEPT ![a] = note]
            /\ seenId' = [seenId EXCEPT ![a] = StoredId]
            /\ answer' = [answer EXCEPT ![a] = "none"]
            /\ existed' = [existed EXCEPT ![a] = {secret # None}]
            /\ UNCHANGED <<secret, owner, draft>>
    BY <1>2 DEF Begin
  <2>2. StoredId \in SecretIds \cup {None}
    BY <1>1 DEF StoredId, Row
  <2>3. TypeOK'
    BY <2>1, <2>2 DEF SecretInv, TypeOK
  <2>4. /\ seenId'[a] = StoredId /\ existed'[a] = {secret # None}
        /\ \A b \in Admins \ {a} :
               /\ request'[b] = request[b] /\ description'[b] = description[b]
               /\ seenId'[b] = seenId[b] /\ existed'[b] = existed[b]
    BY <2>1 DEF SecretInv, TypeOK
  <2>5. owner # a
    BY <2>1 DEF SecretInv, Owned, SecretAssumption, Operation
  <2>6. DraftFollows' /\ Owned'
    BY <2>1, <2>4, <2>5 DEF SecretInv, TypeOK, DraftFollows, Owned, Replaces
  <2>7. Remembered'
    <3>1. StoredId' = StoredId
      BY <2>1 DEF StoredId
    <3>2. StoredId = None => secret = None
      BY <1>1 DEF StoredId, Row, SecretAssumption
    <3>3. ASSUME NEW b \in Admins \ {a}, request'[b] # None
          PROVE  /\ (secret' # None) \in existed'[b]
                 /\ seenId'[b] = None \/ StoredId' # seenId'[b] => FALSE \in existed'[b]
      BY <2>1, <2>4, <3>1, <3>3 DEF SecretInv, Remembered
    <3>4. /\ (secret' # None) \in existed'[a]
          /\ seenId'[a] = None \/ StoredId' # seenId'[a] => FALSE \in existed'[a]
      <4>1. (secret' # None) \in existed'[a]
        BY <2>1, <2>4
      <4>2. ASSUME seenId'[a] = None \/ StoredId' # seenId'[a] PROVE FALSE \in existed'[a]
        <5>1. secret = None
          BY <2>4, <3>1, <3>2, <4>2
        <5>2. (secret # None) = FALSE
          BY <5>1
        <5>3. QED BY <2>4, <5>2
      <4>3. QED BY <4>1, <4>2
    <3>5. QED BY <3>3, <3>4 DEF Remembered
  <2>8. QED BY <2>3, <2>6, <2>7 DEF SecretInv
<1>3. ASSUME NEW a \in Admins, Create(a) PROVE SecretInv'
  <2>1. CASE secret = None
    <3>1. PICK i \in SecretIds : Hold(a, [id |-> i, description |-> description[a]])
      BY <1>3, <2>1 DEF Create
    <3>2. [id |-> i, description |-> description[a]] \in Row
      BY DEF Row, SecretInv, TypeOK
    <3>3. QED BY <1>3, <2>1, <3>1, <3>2, HoldStep DEF Create, Operation
  <2>2. CASE secret # None
    <3>1. /\ End(a, "conflict", existed) /\ UNCHANGED <<secret, owner, draft>> /\ owner = None
      BY <1>3, <2>2 DEF Create
    <3>2. Released(a)
      BY <3>1 DEF SecretAssumption, Released
    <3>3. QED BY <3>1, <3>2, EndStep
  <2>3. QED BY <2>1, <2>2
<1>4. ASSUME NEW a \in Admins, Update(a) PROVE SecretInv'
  <2> DEFINE row == [secret EXCEPT !.description =
                        IF description[a] = None THEN @ ELSE description[a]]
  <2>1. request[a] = "update" /\ owner = None /\ Found(a) /\ Hold(a, row)
    BY <1>4 DEF Update
  <2>2. secret \in Row /\ seenId[a] # None
    BY <1>1, <2>1 DEF Found, StoredId
  <2>3. row \in Row /\ row.id = secret.id
        /\ row.description = IF description[a] = None THEN secret.description ELSE description[a]
    BY <2>2 DEF Row, SecretInv, TypeOK
  <2>4. Replaces(a, secret, row)
    BY <2>3 DEF Replaces
  <2>5. QED BY <2>1, <2>2, <2>3, <2>4, HoldStep DEF Operation
<1>5. ASSUME NEW a \in Admins, Delete(a) PROVE SecretInv'
  <2>1. request[a] = "delete" /\ owner = None /\ seenId[a] # None /\ Hold(a, None)
    BY <1>5 DEF Delete, Found
  <2>2. QED BY <2>1, HoldStep DEF Operation
<1>6. ASSUME NEW a \in Admins, NotFound(a) PROVE SecretInv'
  <2>1. /\ request[a] \in {"update", "delete"} /\ (seenId[a] = None \/ owner = None)
        /\ End(a, "not found", existed) /\ UNCHANGED <<secret, owner, draft>>
    BY <1>6 DEF NotFound
  <2>2. Released(a)
    BY <2>1 DEF SecretInv, Owned, SecretAssumption, Released
  <2>3. QED BY <2>1, <2>2, EndStep
<1>7. ASSUME NEW a \in Admins, Commit(a) PROVE SecretInv'
  BY <1>7, CommitStep
<1>8. ASSUME NEW a \in Admins, Rollback(a) PROVE SecretInv'
  <2>1. End(a, "error", existed) /\ UNCHANGED secret
    BY <1>8 DEF Rollback
  <2>2. Released(a)
    BY <1>8 DEF Rollback, Released
  <2>3. QED BY <2>1, <2>2, EndStep
<1>9. CASE UNCHANGED vars
  <2>1. TypeOK'
    BY <1>9 DEF vars, SecretInv, TypeOK
  <2>2. DraftFollows' /\ Owned' /\ Remembered'
    BY <1>9 DEF vars, SecretInv, DraftFollows, Owned, Remembered, Replaces, StoredId
  <2>3. QED BY <2>1, <2>2 DEF SecretInv
<1>10. QED BY <1>2, <1>3, <1>4, <1>5, <1>6, <1>7, <1>8, <1>9 DEF Next

(***************************************************************************)
(* The invariant holds from the beginning.                                 *)
(***************************************************************************)
LEMMA SecretsHold ==
    ASSUME SecretAssumption
    PROVE  Spec => []SecretInv
<1>1. Init => SecretInv
  BY DEF Init, SecretInv, TypeOK, DraftFollows, Owned, Remembered
<1>2. SecretInv /\ [Next]_vars => SecretInv'
  BY SecretSteps
<1>3. QED BY <1>1, <1>2, PTL DEF Spec

-----------------------------------------------------------------------------
(***************************************************************************)
(* The variables of the platform secrets keep their types.                 *)
(***************************************************************************)
THEOREM TypeCorrect ==
    ASSUME SecretAssumption
    PROVE  Spec => []TypeOK
<1>1. SecretInv => TypeOK
  BY DEF SecretInv
<1>2. Spec => []SecretInv
  BY SecretsHold
<1>3. QED BY <1>1, <1>2, PTL

(***************************************************************************)
(* However many requests overlap, a secret is not replaced by a create,    *)
(* keeps its description where none is sent, and is reported as it was.    *)
(***************************************************************************)
THEOREM SecretsAreKept ==
    ASSUME SecretAssumption
    PROVE  Spec => SecretKept
<1> DEFINE RowKept ==
        secret # None /\ secret' # None /\ secret' # secret =>
            /\ secret'.id = secret.id
            /\ secret'.description # secret.description =>
                  description[owner] \notin {None, secret.description}
           Told ==
        \A a \in Admins :
            answer'[a] # answer[a] =>
                /\ answer'[a] = "conflict" => TRUE \in existed[a]
                /\ answer'[a] = "not found" => FALSE \in existed[a]
<1>1. SecretInv /\ [Next]_vars => [RowKept /\ Told]_vars
  <2> SUFFICES ASSUME SecretInv, Next PROVE RowKept /\ Told
    OBVIOUS
  <2>1. RowKept
    <3>1. CASE secret' = secret
      BY <3>1
    <3>2. ASSUME NEW a \in Admins, Commit(a) PROVE RowKept
      BY <3>2 DEF Commit, SecretInv, DraftFollows, Replaces, SecretAssumption
    <3>3. ASSUME NEW a \in Admins,
                 \/ Begin(a) \/ Create(a) \/ Update(a) \/ Delete(a) \/ NotFound(a) \/ Rollback(a)
          PROVE  secret' = secret
      BY <3>3 DEF Begin, Create, Update, Delete, NotFound, Rollback, Hold
    <3>4. QED BY <3>1, <3>2, <3>3 DEF Next
  <2>2. Told
    <3> SUFFICES ASSUME NEW a \in Admins, answer'[a] # answer[a]
                 PROVE  /\ answer'[a] = "conflict" => TRUE \in existed[a]
                        /\ answer'[a] = "not found" => FALSE \in existed[a]
      OBVIOUS
    <3>1. PICK b \in Admins :
              \/ Begin(b) \/ Create(b) \/ Update(b) \/ Delete(b) \/ NotFound(b)
              \/ Commit(b) \/ Rollback(b)
      BY DEF Next
    <3>2. CASE Begin(b)
      BY <3>2 DEF Begin, SecretInv, TypeOK
    <3>3. CASE Update(b) \/ Delete(b)
      BY <3>3 DEF Update, Delete, Hold
    <3>4. CASE Commit(b) \/ Rollback(b)
      BY <3>4 DEF Commit, Rollback, End, SecretInv, TypeOK
    <3>5. CASE Create(b)
      <4>1. answer' = [answer EXCEPT ![b] = "conflict"] /\ request[b] = "create" /\ secret # None
        BY <3>5 DEF Create, Hold, End
      <4>2. answer'[a] = "conflict" /\ a = b
        BY <4>1 DEF SecretInv, TypeOK
      <4>3. (secret # None) = TRUE /\ request[a] # None
        BY <4>1, <4>2 DEF SecretAssumption
      <4>4. (secret # None) \in existed[a]
        BY <4>3 DEF SecretInv, Remembered
      <4>5. QED BY <4>2, <4>3, <4>4
    <3>6. CASE NotFound(b)
      <4>1. /\ answer' = [answer EXCEPT ![b] = "not found"]
            /\ request[b] \in {"update", "delete"}
            /\ seenId[b] = None \/ StoredId # seenId[b]
        BY <3>6 DEF NotFound, Found, End
      <4>2. answer'[a] = "not found" /\ a = b
        BY <4>1 DEF SecretInv, TypeOK
      <4>3. request[a] # None
        BY <4>1, <4>2 DEF SecretAssumption
      <4>4. QED BY <4>1, <4>2, <4>3 DEF SecretInv, Remembered
    <3>7. QED BY <3>1, <3>2, <3>3, <3>4, <3>5, <3>6
  <2>3. QED BY <2>1, <2>2
<1>2. Spec => []SecretInv
  BY SecretsHold
<1>3. QED BY <1>1, <1>2, PTL DEF Spec, SecretKept

-----------------------------------------------------------------------------
(***************************************************************************)
(* The wallet sessions of the whole are those of their module.             *)
(***************************************************************************)
LEMMA WalletFollows == FlowSpec => WalletSpec!Spec
<1>1. FlowInit => WalletSpec!Init
  BY DEF FlowInit
<1>2. [FlowNext]_flowVars => [WalletSpec!Next]_(WalletSpec!vars)
  BY DEF FlowNext, JourneyStep, ChoiceStep, WalletStep, SecretStep, flowVars, walletVars, WalletSpec!vars
<1>3. QED BY <1>1, <1>2, PTL DEF FlowSpec, WalletSpec!Spec

\* The accounts the guard lets through.
Admissible == {a \in Addresses : screening => a \notin Sanctioned}

\* A connect that waits for Redis has passed the guard.
ConnectsScreened ==
    \A c \in Handlers :
        serving[c] # None /\ serving[c].op = "connect" => serving[c].account \in Admissible

WalletInv == WalletSpec!TypeOK /\ ConnectsScreened /\ SessionsScreened

(***************************************************************************)
(* Every step of the wallet service keeps the invariant.                   *)
(***************************************************************************)
LEMMA WalletKept == WalletInv /\ [WalletSpec!Next]_(WalletSpec!vars) => WalletInv'
<1> SUFFICES ASSUME WalletInv, [WalletSpec!Next]_(WalletSpec!vars) PROVE WalletInv'
  OBVIOUS
<1> USE DEF WalletInv, WalletSpec!TypeOK, Admissible
<1>1. ASSUME NEW c \in Handlers, NEW k \in Keys, WalletSpec!Connect(c, k) PROVE WalletInv'
  <2>1. PICK account \in Admissible :
            /\ serving' = [serving EXCEPT ![c] = [op |-> "connect", key |-> k, account |-> account]]
            /\ UNCHANGED <<screening, time, sessions, answered>>
    <3>1. \A writing, a : WalletSpec!Valid(writing) /\ a \in Sanctioned => WalletSpec!IsSanctioned(writing, a)
      BY DEF WalletSpec!IsSanctioned, WalletSpec!Valid
    <3>2. PICK writing \in WalletSpec!Writings, a \in Addresses :
              /\ screening => ~WalletSpec!IsSanctioned(writing, a)
              /\ WalletSpec!Valid(writing) /\ WalletSpec!Serve(c, "connect", k, a)
      BY <1>1 DEF WalletSpec!Connect
    <3>3. a \in Admissible
      BY <3>1, <3>2
    <3>4. QED BY <3>2, <3>3 DEF WalletSpec!Serve
  <2>2. WalletSpec!TypeOK'
    BY <2>1 DEF WalletSpec!Request, WalletSpec!Session
  <2>3. ConnectsScreened'
    BY <2>1 DEF ConnectsScreened
  <2>4. QED BY <2>1, <2>2, <2>3 DEF SessionsScreened, WalletSpec!SessionsScreened
<1>2. ASSUME NEW c \in Handlers, NEW k \in Keys, WalletSpec!Disconnect(c, k) PROVE WalletInv'
  <2>1. /\ serving' = [serving EXCEPT ![c] = [op |-> "disconnect", key |-> k, account |-> None]]
        /\ UNCHANGED <<screening, time, sessions, answered>>
    BY <1>2 DEF WalletSpec!Disconnect, WalletSpec!Serve
  <2>2. WalletSpec!TypeOK'
    BY <2>1 DEF WalletSpec!Request, WalletSpec!Session
  <2>3. ConnectsScreened'
    BY <2>1 DEF ConnectsScreened
  <2>4. QED BY <2>1, <2>2, <2>3 DEF SessionsScreened, WalletSpec!SessionsScreened
<1>3. ASSUME NEW c \in Handlers, WalletSpec!Setex(c) PROVE WalletInv'
  <2>1. /\ serving[c].key \in Keys
        /\ serving[c].account \in Admissible
    BY <1>3 DEF WalletSpec!Setex, WalletSpec!Request, ConnectsScreened
  <2>2. /\ sessions' = [sessions EXCEPT ![serving[c].key] = [account |-> serving[c].account, born |-> time]]
        /\ serving' = [serving EXCEPT ![c] = None]
        /\ UNCHANGED <<screening, time, answered>>
    BY <1>3 DEF WalletSpec!Setex
  <2>3. WalletSpec!TypeOK'
    BY <2>1, <2>2 DEF WalletSpec!Request, WalletSpec!Session
  <2>4. ConnectsScreened'
    BY <2>2 DEF ConnectsScreened
  <2>5. SessionsScreened'
    BY <2>1, <2>2 DEF SessionsScreened, WalletSpec!SessionsScreened
  <2>6. QED BY <2>3, <2>4, <2>5
<1>4. ASSUME NEW c \in Handlers, WalletSpec!Delete(c) \/ WalletSpec!Lost(c) PROVE WalletInv'
  <2>1. /\ sessions' \in {sessions, [sessions EXCEPT ![serving[c].key] = None]}
        /\ serving' = [serving EXCEPT ![c] = None]
        /\ UNCHANGED <<screening, time, answered>>
    BY <1>4 DEF WalletSpec!Delete, WalletSpec!Lost
  <2>2. WalletSpec!TypeOK' /\ SessionsScreened'
    BY <2>1 DEF SessionsScreened, WalletSpec!SessionsScreened
  <2>3. ConnectsScreened'
    BY <2>1 DEF ConnectsScreened
  <2>4. QED BY <2>2, <2>3
<1>5. ASSUME NEW k \in Keys, WalletSpec!GetSession(k) PROVE WalletInv'
  BY <1>5 DEF WalletSpec!GetSession, WalletSpec!Session, ConnectsScreened, SessionsScreened, WalletSpec!SessionsScreened
<1>6. CASE WalletSpec!Tick
  <2>1. /\ time' \in 0..Now /\ UNCHANGED <<screening, serving, answered>>
        /\ \A k \in Keys : sessions'[k] \in {sessions[k], None}
        /\ sessions' \in [Keys -> WalletSpec!Session \cup {None}]
    BY <1>6, FlowAssumption DEF WalletSpec!Tick, WalletSpec!WalletAssumption
  <2>2. QED BY <2>1 DEF ConnectsScreened, SessionsScreened, WalletSpec!SessionsScreened, WalletSpec!Session
<1>7. CASE UNCHANGED WalletSpec!vars
  BY <1>7 DEF WalletSpec!vars, ConnectsScreened, SessionsScreened, WalletSpec!SessionsScreened, WalletSpec!Session
<1>8. QED
  BY <1>1, <1>2, <1>3, <1>4, <1>5, <1>6, <1>7 DEF WalletSpec!Next

(***************************************************************************)
(* The wallet service keeps its invariant for ever.                        *)
(***************************************************************************)
LEMMA WalletsHold == FlowSpec => []WalletInv
<1>1. WalletSpec!Init => WalletInv
  BY FlowAssumption
  DEF WalletSpec!Init, WalletSpec!WalletAssumption, WalletInv, WalletSpec!TypeOK, WalletSpec!Session,
      WalletSpec!Request, Admissible, ConnectsScreened, SessionsScreened, WalletSpec!SessionsScreened
<1>2. QED BY <1>1, WalletKept, WalletFollows, PTL DEF WalletSpec!Spec

(***************************************************************************)
(* Where screening is enabled no session is for a sanctioned account,      *)
(* whatever the deny list, the time to live and the number of concurrent   *)
(* requests.                                                               *)
(***************************************************************************)
THEOREM SessionsAreScreened == FlowSpec => []SessionsScreened
<1>1. WalletInv => SessionsScreened
  BY DEF WalletInv
<1>2. QED BY <1>1, WalletsHold, PTL

-----------------------------------------------------------------------------
(***************************************************************************)
(* Induction up to N: a set that holds 0 and the successor of each of its  *)
(* numbers below N holds all of them.                                      *)
(***************************************************************************)
LEMMA UpTo ==
    ASSUME NEW N \in Nat, NEW Good, 0 \in Good, \A n \in 0..N : n \in Good /\ n < N => n + 1 \in Good
    PROVE  0..N \subseteq Good
<1> DEFINE Bad == (0..N) \ Good
           Below == {0..n : n \in Bad}
<1> SUFFICES ASSUME Bad # {} PROVE FALSE
  OBVIOUS
<1>1. IsFiniteSet(0..N) /\ Below \subseteq FiniteSubsetsOf(0..N) /\ Below # {}
  <2>1. IsFiniteSet(0..N)
    BY FS_Interval
  <2>2. Below \subseteq SUBSET (0..N)
    OBVIOUS
  <2>3. QED BY <2>1, <2>2, FS_FiniteSubsetsOfFinite
<1>2. PICK S \in Below : \A T \in Below : ~(<<T, S>> \in StrictSubsetOrdering(0..N))
  BY <1>1, FS_StrictSubsetOrderingWellFounded, WFMin
<1>3. PICK n \in Bad : S = 0..n
  OBVIOUS
<1>4. n - 1 \in 0..N /\ n - 1 \notin Good
  OBVIOUS
<1>5. <<0..n-1, S>> \in StrictSubsetOrdering(0..N)
  BY <1>3, <1>4 DEF StrictSubsetOrdering
<1>6. QED BY <1>2, <1>4, <1>5

\* What the entries up to the one before n become with entry n.
Grown(so_far, seq, S, n) == IF seq[n] \in S THEN Append(so_far, seq[n]) ELSE so_far

IsThose(f, seq, S, k) ==
    f = [n \in 0..k |-> IF n = 0 THEN <<>> ELSE Grown(f[n - 1], seq, S, n)]

(***************************************************************************)
(* The entries of seq that are in S are found by a function that exists.   *)
(***************************************************************************)
LEMMA ThoseFound ==
    ASSUME NEW T, NEW seq \in Seq(T), NEW S
    PROVE  \E f : IsThose(f, seq, S, Len(seq)) /\ ChoicesSpec!Those(seq, S) = f[Len(seq)]
<1> DEFINE Good == {k \in 0..Len(seq) : \E f : IsThose(f, seq, S, k)}
<1>1. 0 \in Good
  <2>1. IsThose([n \in 0..0 |-> <<>>], seq, S, 0)
    BY DEF IsThose
  <2>2. QED BY <2>1
<1>2. ASSUME NEW k \in 0..Len(seq), k \in Good, k < Len(seq) PROVE k + 1 \in Good
  <2>1. k \in Nat /\ Len(seq) \in Nat
    BY LenProperties
  <2>2. PICK f : IsThose(f, seq, S, k)
    BY <1>2
  <2> DEFINE g == [n \in 0..k+1 |-> IF n \in 0..k THEN f[n] ELSE Grown(f[k], seq, S, k + 1)]
  <2>3. /\ g = [n \in 0..k+1 |-> g[n]]
        /\ \A n \in 0..k : g[n] = f[n]
        /\ g[k + 1] = Grown(f[k], seq, S, k + 1)
    BY <2>1
  <2>4. \A n \in 0..k : f[n] = IF n = 0 THEN <<>> ELSE Grown(f[n - 1], seq, S, n)
    BY <2>2 DEF IsThose
  <2> HIDE DEF g
  <2>5. \A n \in 0..k+1 : g[n] = IF n = 0 THEN <<>> ELSE Grown(g[n - 1], seq, S, n)
    <3> TAKE n \in 0..k+1
    <3>1. n = 0 \/ n \in 1..k \/ n = k + 1
      BY <2>1
    <3>2. CASE n = 0
      <4>1. n \in 0..k
        BY <2>1, <3>2
      <4>2. g[n] = f[n] /\ f[n] = <<>>
        BY <2>3, <2>4, <3>2, <4>1
      <4>3. QED BY <3>2, <4>2
    <3>3. CASE n \in 1..k
      <4>1. n \in 0..k /\ n - 1 \in 0..k /\ n # 0
        BY <2>1, <3>3
      <4>2. g[n] = f[n] /\ g[n - 1] = f[n - 1]
        BY <2>3, <4>1
      <4>3. f[n] = Grown(f[n - 1], seq, S, n)
        BY <2>4, <4>1
      <4>4. QED BY <4>1, <4>2, <4>3
    <3>4. CASE n = k + 1
      <4>1. n # 0 /\ n - 1 = k /\ k \in 0..k
        BY <2>1, <3>4
      <4>2. g[k] = f[k]
        BY <2>3, <4>1
      <4>3. QED BY <2>3, <3>4, <4>1, <4>2
    <3>5. QED BY <3>1, <3>2, <3>3, <3>4
  <2>6. IsThose(g, seq, S, k + 1)
    <3>1. [n \in 0..k+1 |-> g[n]]
             = [n \in 0..k+1 |-> IF n = 0 THEN <<>> ELSE Grown(g[n - 1], seq, S, n)]
      BY <2>5
    <3>2. g = [n \in 0..k+1 |-> g[n]]
      BY <2>3
    <3>3. QED BY <3>1, <3>2, Zenon DEF IsThose
  <2>7. k + 1 \in 0..Len(seq)
    BY <1>2, <2>1
  <2>8. QED BY <2>6, <2>7
<1>3. \E f : IsThose(f, seq, S, Len(seq))
  <2>1. Len(seq) \in Nat
    BY LenProperties
  <2> HIDE DEF Good
  <2>2. 0..Len(seq) \subseteq Good
    BY <1>1, <1>2, <2>1, UpTo
  <2>3. Len(seq) \in Good
    BY <2>1, <2>2
  <2>4. QED BY <2>3 DEF Good
<1>4. ChoicesSpec!Those(seq, S) = (CHOOSE f : IsThose(f, seq, S, Len(seq)))[Len(seq)]
  BY DEF ChoicesSpec!Those, IsThose, Grown
<1>5. QED BY <1>3, <1>4

(***************************************************************************)
(* The entries of an appended, and of a concatenated sequence.             *)
(***************************************************************************)
LEMMA AppendAdds ==
    ASSUME NEW T, NEW seq \in Seq(T), NEW e \in T
    PROVE  /\ Append(seq, e) \in Seq(T)
           /\ ChoicesSpec!ToSet(Append(seq, e)) = ChoicesSpec!ToSet(seq) \cup {e}
<1>1. /\ Append(seq, e) \in Seq(T) /\ Len(Append(seq, e)) = Len(seq) + 1
      /\ \A i \in 1..Len(seq) : Append(seq, e)[i] = seq[i]
      /\ Append(seq, e)[Len(seq) + 1] = e
  BY AppendProperties
<1>2. /\ Len(seq) \in Nat /\ DOMAIN seq = 1..Len(seq)
      /\ DOMAIN Append(seq, e) = 1..Len(seq)+1
  BY <1>1, LenProperties
<1> DEFINE longer == Append(seq, e)
<1> HIDE DEF longer
<1>3. {longer[i] : i \in 1..Len(seq)+1} = {seq[i] : i \in 1..Len(seq)} \cup {e}
  BY <1>1, <1>2 DEF longer
<1>4. QED BY <1>1, <1>2, <1>3 DEF ChoicesSpec!ToSet, longer

LEMMA ConcatAdds ==
    ASSUME NEW T, NEW s \in Seq(T), NEW t \in Seq(T)
    PROVE  /\ s \o t \in Seq(T)
           /\ ChoicesSpec!ToSet(s \o t) = ChoicesSpec!ToSet(s) \cup ChoicesSpec!ToSet(t)
<1> DEFINE both == s \o t
<1>1. /\ both \in Seq(T) /\ Len(both) = Len(s) + Len(t)
      /\ \A i \in 1..Len(s)+Len(t) : both[i] = IF i <= Len(s) THEN s[i] ELSE t[i - Len(s)]
  BY ConcatProperties
<1>2. /\ Len(s) \in Nat /\ DOMAIN s = 1..Len(s)
      /\ Len(t) \in Nat /\ DOMAIN t = 1..Len(t)
      /\ DOMAIN both = 1..Len(s)+Len(t)
  BY <1>1, LenProperties
<1> HIDE DEF both
<1>3. \A i \in 1..Len(s) : both[i] = s[i] /\ i \in 1..Len(s)+Len(t)
  BY <1>1, <1>2
<1>4. \A i \in 1..Len(t) : both[Len(s) + i] = t[i] /\ Len(s) + i \in 1..Len(s)+Len(t)
  BY <1>1, <1>2
<1>5. \A i \in 1..Len(s)+Len(t) : i \in 1..Len(s) \/ (i - Len(s) \in 1..Len(t) /\ both[i] = t[i - Len(s)])
  BY <1>1, <1>2
<1>6. {both[i] : i \in 1..Len(s)+Len(t)} = {s[i] : i \in 1..Len(s)} \cup {t[i] : i \in 1..Len(t)}
  <2>1. \A i \in 1..Len(s)+Len(t) :
            \/ i \in 1..Len(s) /\ both[i] = s[i]
            \/ i - Len(s) \in 1..Len(t) /\ both[i] = t[i - Len(s)]
    BY <1>3, <1>5
  <2>2. {both[i] : i \in 1..Len(s)+Len(t)} \subseteq {s[i] : i \in 1..Len(s)} \cup {t[i] : i \in 1..Len(t)}
    BY <2>1
  <2>3. {s[i] : i \in 1..Len(s)} \subseteq {both[i] : i \in 1..Len(s)+Len(t)}
    BY <1>3
  <2>4. {t[i] : i \in 1..Len(t)} \subseteq {both[i] : i \in 1..Len(s)+Len(t)}
    BY <1>4
  <2>5. QED BY <2>2, <2>3, <2>4
<1>7. QED BY <1>1, <1>2, <1>6 DEF ChoicesSpec!ToSet, both

(***************************************************************************)
(* They are a sequence, of exactly those entries.                          *)
(***************************************************************************)
LEMMA ThoseAre ==
    ASSUME NEW T, NEW seq \in Seq(T), NEW S
    PROVE  /\ ChoicesSpec!Those(seq, S) \in Seq(T)
           /\ ChoicesSpec!ToSet(ChoicesSpec!Those(seq, S)) = ChoicesSpec!ToSet(seq) \cap S
<1>1. PICK f : IsThose(f, seq, S, Len(seq)) /\ ChoicesSpec!Those(seq, S) = f[Len(seq)]
  BY ThoseFound
<1>2. Len(seq) \in Nat /\ DOMAIN seq = 1..Len(seq)
  BY LenProperties
<1>3. \A n \in 0..Len(seq) : f[n] = IF n = 0 THEN <<>> ELSE Grown(f[n - 1], seq, S, n)
  BY <1>1 DEF IsThose
<1> DEFINE Good == {n \in 0..Len(seq) : f[n] \in Seq(T)
                       /\ ChoicesSpec!ToSet(f[n]) = {seq[i] : i \in 1..n} \cap S}
<1>4. 0 \in Good
  <2>1. f[0] = <<>>
    BY <1>2, <1>3
  <2>2. <<>> \in Seq(T) /\ ChoicesSpec!ToSet(<<>>) = {}
    BY DEF ChoicesSpec!ToSet
  <2>3. 0 \in 0..Len(seq) /\ {seq[i] : i \in 1..0} = {}
    BY <1>2
  <2>4. QED BY <2>1, <2>2, <2>3
<1>5. ASSUME NEW n \in 0..Len(seq), n \in Good, n < Len(seq) PROVE n + 1 \in Good
  <2>1. /\ n + 1 \in 0..Len(seq) /\ n + 1 # 0 /\ (n + 1) - 1 = n
        /\ seq[n + 1] \in T
        /\ {seq[i] : i \in 1..n+1} = {seq[i] : i \in 1..n} \cup {seq[n + 1]}
    BY <1>2, <1>5, ElementOfSeq
  <2>2. f[n + 1] = Grown(f[n], seq, S, n + 1)
    BY <1>3, <2>1
  <2>3. CASE seq[n + 1] \notin S
    BY <1>5, <2>1, <2>2, <2>3 DEF Grown
  <2>4. CASE seq[n + 1] \in S
    <3>1. f[n + 1] = Append(f[n], seq[n + 1])
      BY <2>2, <2>4 DEF Grown
    <3>2. f[n + 1] \in Seq(T) /\ ChoicesSpec!ToSet(f[n + 1]) = ChoicesSpec!ToSet(f[n]) \cup {seq[n + 1]}
      BY <1>5, <2>1, <3>1, AppendAdds
    <3>3. QED BY <1>5, <2>1, <2>4, <3>2
  <2>5. QED BY <2>3, <2>4
<1>6. Len(seq) \in Good
  <2> HIDE DEF Good
  <2>1. 0..Len(seq) \subseteq Good
    BY <1>2, <1>4, <1>5, UpTo
  <2>2. QED BY <1>2, <2>1
<1>7. QED BY <1>1, <1>2, <1>6 DEF ChoicesSpec!ToSet

(***************************************************************************)
(* A catalog is a sequence of templates, and the empty one is a catalog.   *)
(***************************************************************************)
LEMMA CatalogSequences ==
    /\ ChoicesSpec!Catalogs \subseteq Seq(CatalogNames)
    /\ ChoicesSpec!Catalogs \subseteq Seq(ChoicesSpec!Named)
    /\ <<>> \in ChoicesSpec!Catalogs
<1>1. ChoicesSpec!Catalogs = UNION {[1..m -> CatalogNames] : m \in 0..MaxCatalog}
  BY DEF ChoicesSpec!Catalogs, ChoicesSpec!BoundedSeq, ChoicesSpec!SeqOf
<1>2. MaxCatalog \in Nat
  BY FlowAssumption DEF ChoicesSpec!ChoiceAssumption
<1>3. \A c \in ChoicesSpec!Catalogs : \E m \in Nat : c \in [1..m -> CatalogNames]
  BY <1>1, <1>2
<1>4. ChoicesSpec!Catalogs \subseteq Seq(CatalogNames)
  BY <1>3, SeqDef
<1>5. Seq(CatalogNames) \subseteq Seq(ChoicesSpec!Named)
  BY SeqMonotonic DEF ChoicesSpec!Named
<1>6. <<>> \in [1..0 -> CatalogNames]
  OBVIOUS
<1>7. QED BY <1>1, <1>2, <1>4, <1>5, <1>6

(***************************************************************************)
(* Whatever the names, the completed list has the available templates.     *)
(***************************************************************************)
LEMMA CompletedHasAll ==
    ASSUME NEW T, NEW names \in Seq(T), NEW available \in Seq(T)
    PROVE  /\ ChoicesSpec!Completed(names, available) \in Seq(T)
           /\ ChoicesSpec!ToSet(ChoicesSpec!Completed(names, available)) = ChoicesSpec!ToSet(available)
<1> DEFINE all == ChoicesSpec!ToSet(available)
           allowed == ChoicesSpec!Those(names, all)
           missed == ChoicesSpec!Those(available, all \ ChoicesSpec!ToSet(allowed))
<1>1. allowed \in Seq(T) /\ ChoicesSpec!ToSet(allowed) = ChoicesSpec!ToSet(names) \cap all
  BY ThoseAre
<1>2. missed \in Seq(T) /\ ChoicesSpec!ToSet(missed) = all \cap (all \ ChoicesSpec!ToSet(allowed))
  BY ThoseAre
<1>3. ChoicesSpec!Completed(names, available) = allowed \o missed
  BY DEF ChoicesSpec!Completed
<1> HIDE DEF all, allowed, missed
<1>4. /\ allowed \o missed \in Seq(T)
      /\ ChoicesSpec!ToSet(allowed \o missed) = ChoicesSpec!ToSet(allowed) \cup ChoicesSpec!ToSet(missed)
  BY <1>1, <1>2, ConcatAdds
<1>5. QED BY <1>1, <1>2, <1>3, <1>4 DEF all

(***************************************************************************)
(* The front and the last of an appended sequence.                         *)
(***************************************************************************)
LEMMA FrontLast ==
    ASSUME NEW T, NEW seq \in Seq(T), NEW e \in T
    PROVE  /\ ChoicesSpec!Last(Append(seq, e)) = e
           /\ ChoicesSpec!Front(Append(seq, e)) = seq
<1> DEFINE longer == Append(seq, e)
           front == SubSeq(longer, 1, Len(seq))
<1>1. /\ longer \in Seq(T) /\ Len(longer) = Len(seq) + 1
      /\ \A i \in 1..Len(seq) : longer[i] = seq[i]
      /\ longer[Len(seq) + 1] = e
  BY AppendProperties
<1>2. Len(seq) \in Nat /\ \A i \in 1..Len(seq) : seq[i] \in T
  BY LenProperties, ElementOfSeq
<1> HIDE DEF longer
<1>3. /\ front \in Seq(T) /\ Len(front) = Len(seq)
      /\ \A i \in 1..Len(seq) : front[i] = longer[i]
  <2>1. \A i \in 1..Len(seq) : longer[i] \in T
    BY <1>1, <1>2
  <2>2. /\ front \in Seq(T) /\ Len(front) = (IF 1 <= Len(seq) THEN Len(seq) - 1 + 1 ELSE 0)
        /\ \A i \in 1 .. Len(seq) - 1 + 1 : front[i] = longer[1 + i - 1]
    BY <1>2, <2>1, SubSeqProperties
  <2> HIDE DEF front
  <2>3. QED BY <1>2, <2>2
<1>4. front = seq
  <2> HIDE DEF front
  <2>1. QED BY <1>1, <1>3, SeqEqual
<1>5. Len(longer) - 1 = Len(seq)
  BY <1>1, <1>2
<1>6. ChoicesSpec!Front(longer) = front /\ ChoicesSpec!Last(longer) = e
  BY <1>1, <1>5 DEF ChoicesSpec!Front, ChoicesSpec!Last
<1>7. QED BY <1>4, <1>6 DEF longer

(***************************************************************************)
(* The choices of the whole are those of their module.                     *)
(***************************************************************************)
LEMMA ChoicesFollow == FlowSpec => ChoicesSpec!Spec
<1>1. FlowInit => ChoicesSpec!Init
  BY DEF FlowInit
<1>2. [FlowNext]_flowVars => [ChoicesSpec!Next]_(ChoicesSpec!vars)
  BY DEF FlowNext, JourneyStep, ChoiceStep, WalletStep, SecretStep, flowVars, choiceVars, ChoicesSpec!vars
<1>3. QED BY <1>1, <1>2, PTL DEF FlowSpec, ChoicesSpec!Spec

\* A choice that waits for its copy is in DynamoDB, under its name.
CopiesHold ==
    \A r \in Handlers :
        ChoicesSpec!Copying(r) => choices[waiting[r].id] = waiting[r].name

ChoiceInv == ChoicesSpec!TypeOK /\ CopiesHold /\ CopyFollowsChoice /\ ReorderIsComplete

(***************************************************************************)
(* A request that waits for Postgres has an id and a name, one that waits  *)
(* for the model has the templates it was given.                           *)
(***************************************************************************)
LEMMA WaitingTyped ==
    ASSUME ChoicesSpec!TypeOK, NEW r \in Handlers, waiting[r] # None
    PROVE  /\ waiting[r].for = "postgres" =>
                 waiting[r].id \in Keys /\ waiting[r].name \in ChoicesSpec!Named
           /\ waiting[r].for = "model" => waiting[r].candidates \in ChoicesSpec!Catalogs
           /\ waiting[r].for \in {"model", "postgres"}
BY DEF ChoicesSpec!TypeOK, ChoicesSpec!Reordering, ChoicesSpec!Copied

(***************************************************************************)
(* A choice is confirmed with its copy, or without one once that failed.   *)
(***************************************************************************)
LEMMA CopyEnds ==
    ASSUME ChoiceInv, NEW r \in Handlers, ChoicesSpec!CopyChoice(r) \/ ChoicesSpec!CopyFails(r)
    PROVE  ChoiceInv'
<1> DEFINE i == waiting[r].id
           name == waiting[r].name
<1>1. /\ i \in Keys /\ name \in ChoicesSpec!Named
      /\ ChoicesSpec!Copying(r)
  BY WaitingTyped DEF ChoiceInv, ChoicesSpec!CopyChoice, ChoicesSpec!CopyFails, ChoicesSpec!Copying
<1>2. choices[i] = name /\ name # None
  BY <1>1, FlowAssumption DEF ChoiceInv, CopiesHold, ChoicesSpec!ChoiceAssumption, ChoicesSpec!Named
<1>3. /\ waiting' = [waiting EXCEPT ![r] = None]
      /\ confirmed' = confirmed \cup {i}
      /\ UNCHANGED <<repository, catalog, choices, listed, ordered>>
      /\ \/ copies' = [copies EXCEPT ![i] = name] /\ uncopied' = uncopied
         \/ copies' = copies /\ uncopied' = uncopied \cup {i}
  BY DEF ChoicesSpec!CopyChoice, ChoicesSpec!CopyFails, ChoicesSpec!Confirm, ChoicesSpec!Wait
<1> HIDE DEF i, name
<1>4. ChoicesSpec!TypeOK'
  BY <1>1, <1>3 DEF ChoiceInv, ChoicesSpec!TypeOK, ChoicesSpec!Reordering, ChoicesSpec!Copied,
     ChoicesSpec!Catalogs, ChoicesSpec!Named
<1>5. CopiesHold'
  BY <1>3 DEF ChoiceInv, ChoicesSpec!TypeOK, CopiesHold, ChoicesSpec!Copying
<1>6. CopyFollowsChoice'
  BY <1>1, <1>2, <1>3
  DEF ChoiceInv, ChoicesSpec!TypeOK, CopyFollowsChoice, ChoicesSpec!CopyFollowsChoice, ChoicesSpec!Stored
<1>7. ReorderIsComplete'
  BY <1>3 DEF ChoiceInv, ReorderIsComplete, ChoicesSpec!ReorderIsComplete
<1>8. QED BY <1>4, <1>5, <1>6, <1>7 DEF ChoiceInv

(***************************************************************************)
(* A new choice has an id that nobody else stores or waits for.            *)
(***************************************************************************)
LEMMA ChoiceBegins ==
    ASSUME ChoiceInv, NEW r \in Handlers, NEW i \in Keys, ChoicesSpec!CreateChoice(r, i)
    PROVE  ChoiceInv'
<1>1. PICK name \in ChoicesSpec!Named :
          /\ choices' = [choices EXCEPT ![i] = name]
          /\ waiting' = [waiting EXCEPT ![r] = [for |-> "postgres", id |-> i, name |-> name]]
          /\ UNCHANGED <<repository, catalog, copies, listed, ordered, confirmed, uncopied>>
  BY DEF ChoicesSpec!CreateChoice, ChoicesSpec!Wait
<1>2. /\ name # None /\ choices[i] = None /\ copies[i] = None
      /\ \A q \in Handlers : ChoicesSpec!Copying(q) => waiting[q].id # i
  BY FlowAssumption DEF ChoicesSpec!CreateChoice, ChoicesSpec!Unused, ChoicesSpec!Copying,
     ChoicesSpec!ChoiceAssumption, ChoicesSpec!Named
<1>3. /\ waiting'[r] = [for |-> "postgres", id |-> i, name |-> name]
      /\ \A q \in Handlers \ {r} : waiting'[q] = waiting[q]
      /\ choices'[i] = name /\ \A j \in Keys \ {i} : choices'[j] = choices[j]
  BY <1>1 DEF ChoiceInv, ChoicesSpec!TypeOK
<1>4. ChoicesSpec!TypeOK'
  <2>1. [for |-> "postgres", id |-> i, name |-> name] \in ChoicesSpec!Copied
    BY DEF ChoicesSpec!Copied
  <2>2. waiting' \in [Handlers -> {None} \cup ChoicesSpec!Reordering \cup ChoicesSpec!Copied]
    BY <1>1, <2>1 DEF ChoiceInv, ChoicesSpec!TypeOK
  <2>3. QED
    BY <1>1, <2>2 DEF ChoiceInv, ChoicesSpec!TypeOK, ChoicesSpec!Reordering, ChoicesSpec!Copied,
       ChoicesSpec!Catalogs, ChoicesSpec!Named
<1>5. CopiesHold'
  <2> SUFFICES ASSUME NEW q \in Handlers, ChoicesSpec!Copying(q)'
               PROVE  choices'[waiting'[q].id] = waiting'[q].name
    BY DEF CopiesHold
  <2>1. CASE q = r
    BY <1>3, <2>1
  <2>2. CASE q # r
    <3>1. ChoicesSpec!Copying(q) /\ waiting'[q] = waiting[q]
      BY <1>3, <2>2 DEF ChoicesSpec!Copying
    <3>2. waiting[q].id \in Keys \ {i}
      BY <1>2, <3>1, WaitingTyped DEF ChoiceInv, ChoicesSpec!Copying
    <3>3. QED BY <1>3, <3>1, <3>2 DEF ChoiceInv, CopiesHold
  <2>3. QED BY <2>1, <2>2
<1>6. CopyFollowsChoice'
  BY <1>1, <1>2
  DEF ChoiceInv, ChoicesSpec!TypeOK, CopyFollowsChoice, ChoicesSpec!CopyFollowsChoice, ChoicesSpec!Stored
<1>7. ReorderIsComplete'
  BY <1>1 DEF ChoiceInv, ReorderIsComplete, ChoicesSpec!ReorderIsComplete
<1>8. QED BY <1>4, <1>5, <1>6, <1>7 DEF ChoiceInv

(***************************************************************************)
(* The options are completed from the templates the model was given, after *)
(* the adapter has done the same with the reply.                           *)
(***************************************************************************)
LEMMA ReorderEnds ==
    ASSUME ChoiceInv, NEW r \in Handlers, ChoicesSpec!Reorder(r)
    PROVE  ChoiceInv'
<1> DEFINE available == waiting[r].candidates
           zero == ChoicesSpec!CREATE_ZERO_OPTION
<1>1. available \in ChoicesSpec!Catalogs /\ available \in Seq(ChoicesSpec!Named)
  BY WaitingTyped, CatalogSequences DEF ChoiceInv, ChoicesSpec!Reorder
<1>2. PICK reply \in ChoicesSpec!BoundedSeq(ChoicesSpec!Named, MaxReply) \cup {None} :
          ordered' = [candidates |-> available,
                      options |-> Append(ChoicesSpec!Completed(
                          ChoicesSpec!AdapterReorder(reply, available), available), zero)]
  BY DEF ChoicesSpec!Reorder
<1> DEFINE adapted == ChoicesSpec!AdapterReorder(reply, available)
           options == ChoicesSpec!Completed(adapted, available)
<1>3. waiting' = [waiting EXCEPT ![r] = None]
      /\ UNCHANGED <<repository, catalog, choices, copies, listed, confirmed, uncopied>>
  BY DEF ChoicesSpec!Reorder, ChoicesSpec!Wait
<1>4. reply # None => reply \in Seq(ChoicesSpec!Named)
  <2>1. MaxReply \in Nat
    BY FlowAssumption DEF ChoicesSpec!ChoiceAssumption
  <2>2. reply # None => \E m \in Nat : reply \in [1..m -> ChoicesSpec!Named]
    BY <2>1 DEF ChoicesSpec!BoundedSeq, ChoicesSpec!SeqOf
  <2>3. QED BY <2>2, SeqDef
<1>5. adapted \in Seq(ChoicesSpec!Named)
  BY <1>1, <1>4, CompletedHasAll DEF ChoicesSpec!AdapterReorder
<1> HIDE DEF available, adapted
<1>6. options \in Seq(ChoicesSpec!Named) /\ ChoicesSpec!ToSet(options) = ChoicesSpec!ToSet(available)
  BY <1>1, <1>5, CompletedHasAll
<1> HIDE DEF options
<1>7. zero \in ChoicesSpec!Named
  BY DEF ChoicesSpec!Named
<1> HIDE DEF zero
<1>8. /\ ordered' = [candidates |-> available, options |-> Append(options, zero)]
      /\ Append(options, zero) \in Seq(ChoicesSpec!Named)
      /\ ChoicesSpec!Last(Append(options, zero)) = zero
      /\ ChoicesSpec!Front(Append(options, zero)) = options
  BY <1>2, <1>6, <1>7, FrontLast, AppendProperties DEF options, adapted, available, zero
<1>9. ChoicesSpec!TypeOK'
  <2>1. ordered' \in [candidates : ChoicesSpec!Catalogs, options : Seq(ChoicesSpec!Named)]
    BY <1>1, <1>8
  <2>2. QED
    BY <1>3, <2>1 DEF ChoiceInv, ChoicesSpec!TypeOK, ChoicesSpec!Reordering, ChoicesSpec!Copied,
       ChoicesSpec!Catalogs, ChoicesSpec!Named
<1>10. CopiesHold'
  BY <1>3 DEF ChoiceInv, ChoicesSpec!TypeOK, CopiesHold, ChoicesSpec!Copying
<1>11. CopyFollowsChoice'
  BY <1>3 DEF ChoiceInv, CopyFollowsChoice, ChoicesSpec!CopyFollowsChoice, ChoicesSpec!Stored
<1>12. ReorderIsComplete'
  <2>1. ordered'.options = Append(options, zero) /\ ordered'.candidates = available
    BY <1>8
  <2>2. ChoicesSpec!Last(ordered'.options) = zero /\ ChoicesSpec!Front(ordered'.options) = options
    BY <1>8, <2>1
  <2>3. QED BY <1>6, <2>1, <2>2 DEF ReorderIsComplete, ChoicesSpec!ReorderIsComplete, zero
<1>13. QED BY <1>9, <1>10, <1>11, <1>12 DEF ChoiceInv

(***************************************************************************)
(* Every step of the choices keeps the invariant.                          *)
(***************************************************************************)
LEMMA ChoiceKept == ChoiceInv /\ [ChoicesSpec!Next]_(ChoicesSpec!vars) => ChoiceInv'
<1> SUFFICES ASSUME ChoiceInv, [ChoicesSpec!Next]_(ChoicesSpec!vars) PROVE ChoiceInv'
  OBVIOUS
<1>1. ASSUME UNCHANGED <<repository, choices, copies, ordered, confirmed, uncopied>>,
             catalog' \in ChoicesSpec!Catalogs, listed' \in {"ok", "error"},
             \/ UNCHANGED waiting
             \/ waiting' = [r \in Handlers |-> None]
             \/ \E r \in Handlers, c \in ChoicesSpec!Catalogs :
                    waiting' = [waiting EXCEPT ![r] = [for |-> "model", candidates |-> c]]
      PROVE  ChoiceInv'
  <2>1. \A c \in ChoicesSpec!Catalogs : [for |-> "model", candidates |-> c] \in ChoicesSpec!Reordering
    BY DEF ChoicesSpec!Reordering
  <2>2. waiting' \in [Handlers -> {None} \cup ChoicesSpec!Reordering \cup ChoicesSpec!Copied]
    BY <1>1, <2>1 DEF ChoiceInv, ChoicesSpec!TypeOK
  <2>3. ChoicesSpec!TypeOK'
    BY <1>1, <2>2 DEF ChoiceInv, ChoicesSpec!TypeOK, ChoicesSpec!Reordering, ChoicesSpec!Copied,
       ChoicesSpec!Catalogs, ChoicesSpec!Named
  <2>4. \A r \in Handlers : ChoicesSpec!Copying(r)' => ChoicesSpec!Copying(r) /\ waiting'[r] = waiting[r]
    BY <1>1 DEF ChoiceInv, ChoicesSpec!TypeOK, ChoicesSpec!Copying
  <2>5. CopiesHold'
    BY <1>1, <2>4 DEF ChoiceInv, CopiesHold
  <2>6. CopyFollowsChoice' /\ ReorderIsComplete'
    BY <1>1 DEF ChoiceInv, CopyFollowsChoice, ChoicesSpec!CopyFollowsChoice, ChoicesSpec!Stored,
       ReorderIsComplete, ChoicesSpec!ReorderIsComplete
  <2>7. QED BY <2>3, <2>5, <2>6 DEF ChoiceInv
<1>2. catalog \in ChoicesSpec!Catalogs /\ listed \in {"ok", "error"}
  BY DEF ChoiceInv, ChoicesSpec!TypeOK
<1>3. CASE ChoicesSpec!CatalogChanges \/ ChoicesSpec!TemplatesByBusinessType
  BY <1>1, <1>2, <1>3 DEF ChoicesSpec!CatalogChanges, ChoicesSpec!TemplatesByBusinessType
<1>4. CASE ChoicesSpec!Crash
  BY <1>1, <1>2, <1>4, CatalogSequences DEF ChoicesSpec!Crash
<1>5. ASSUME NEW r \in Handlers, ChoicesSpec!OrderTemplates(r) PROVE ChoiceInv'
  <2>1. ChoicesSpec!get_templates_by_business_type \in ChoicesSpec!Catalogs
    BY <1>2, CatalogSequences DEF ChoicesSpec!get_templates_by_business_type
  <2>2. /\ UNCHANGED <<repository, catalog, choices, copies, ordered, confirmed, uncopied>>
        /\ listed' \in {"ok", "error"}
        /\ \/ UNCHANGED waiting
           \/ \E c \in ChoicesSpec!Catalogs :
                  waiting' = [waiting EXCEPT ![r] = [for |-> "model", candidates |-> c]]
    BY <1>5, <2>1 DEF ChoicesSpec!OrderTemplates, ChoicesSpec!Wait
  <2>3. QED BY <1>1, <1>2, <2>2
<1>6. CASE UNCHANGED ChoicesSpec!vars
  BY <1>1, <1>2, <1>6 DEF ChoicesSpec!vars
<1>7. QED BY <1>3, <1>4, <1>5, <1>6, CopyEnds, ChoiceBegins, ReorderEnds DEF ChoicesSpec!Next

(***************************************************************************)
(* The invariant holds from the beginning.                                 *)
(***************************************************************************)
LEMMA ChoicesHold == FlowSpec => []ChoiceInv
<1>1. ASSUME ChoicesSpec!Init PROVE ChoiceInv
  <2>1. ChoicesSpec!TypeOK
    <3>1. ordered \in [candidates : ChoicesSpec!Catalogs, options : Seq(ChoicesSpec!Named)]
      BY <1>1, CatalogSequences DEF ChoicesSpec!Init
    <3>2. QED BY <1>1, <3>1, CatalogSequences DEF ChoicesSpec!Init, ChoicesSpec!TypeOK
  <2>2. QED
    BY <1>1, <2>1 DEF ChoicesSpec!Init, ChoiceInv, CopiesHold, ChoicesSpec!Copying, CopyFollowsChoice,
       ChoicesSpec!CopyFollowsChoice, ChoicesSpec!Stored, ReorderIsComplete, ChoicesSpec!ReorderIsComplete
<1>2. QED BY <1>1, ChoiceKept, ChoicesFollow, PTL DEF ChoicesSpec!Spec

(***************************************************************************)
(* Whatever the model replies, for lists and replies of any length: the    *)
(* options are the listed templates, none lost and none added.             *)
(***************************************************************************)
THEOREM ReorderKeepsAll == FlowSpec => []ReorderIsComplete
<1>1. ChoiceInv => ReorderIsComplete
  BY DEF ChoiceInv
<1>2. QED BY <1>1, ChoicesHold, PTL

(***************************************************************************)
(* DynamoDB holds every confirmed choice and all that Postgres holds, for  *)
(* any number of requests and of choices, through any number of crashes.   *)
(***************************************************************************)
THEOREM CopiesFollowChoices == FlowSpec => []CopyFollowsChoice
<1>1. ChoiceInv => CopyFollowsChoice
  BY DEF ChoiceInv
<1>2. QED BY <1>1, ChoicesHold, PTL

-----------------------------------------------------------------------------
(***************************************************************************)
(* The journey of the whole is that of its module.                         *)
(***************************************************************************)
LEMMA JourneyFollows == FlowSpec => JourneySpec!Spec
<1>1. FlowInit => JourneySpec!Init
  BY DEF FlowInit
<1>2. [FlowNext]_flowVars => [JourneySpec!Next]_(JourneySpec!vars)
  BY DEF FlowNext, JourneyStep, ChoiceStep, WalletStep, SecretStep, flowVars, journeyVars, JourneySpec!vars
<1>3. QED BY <1>1, <1>2, PTL DEF FlowSpec, JourneySpec!Spec

\* The codes offered for a category.
CodesFor(category) ==
    {s.code : s \in JourneySpec!Elements(JourneySpec!RecommendStrategies(objective, category))}

\* The names of the templates shown for a code.
NamesFor(code) ==
    UNION {JourneySpec!TemplateNames(s) :
              s \in {s \in JourneySpec!Elements(JourneySpec!Recommended) : s.code = code}}

JourneyInv ==
    /\ offered = {} \/ offered = CodesFor(diagnosed)
    /\ chosen = "" \/ shown = NamesFor(chosen)
    /\ HistoryTellsAnswer

(***************************************************************************)
(* What the history is told is, in the end, the category that is answered. *)
(***************************************************************************)
LEMMA LastSave ==
    ASSUME NEW reply, JourneySpec!Record(reply), objective.known, ~unsaved'
    PROVE  recorded' = JourneySpec!DiagnoseWithLlm(objective.text, reply)
<1> DEFINE saves == JourneySpec!Saves(objective.text, reply)
           model == reply.category
           words == JourneySpec!Diagnose(objective.text)
<1>1. PICK done \in [DOMAIN saves -> BOOLEAN] :
          /\ recorded' = IF objective.known /\ {k \in DOMAIN saves : done[k]} # {}
                         THEN saves[JourneySpec!Max({k \in DOMAIN saves : done[k]})] ELSE recorded
          /\ unsaved' = (objective.known /\ \E k \in DOMAIN saves : ~done[k])
  BY DEF JourneySpec!Record
<1>2. {k \in DOMAIN saves : done[k]} = DOMAIN saves
  BY <1>1
<1>3. CASE JourneySpec!Adopted(reply)
  <2>1. saves = <<model>>
    BY <1>3 DEF JourneySpec!Saves, JourneySpec!Adopted
  <2>2. DOMAIN saves = {1}
    BY <2>1
  <2>3. JourneySpec!Max(DOMAIN saves) = 1
    BY <2>2 DEF JourneySpec!Max
  <2>4. QED BY <1>1, <1>2, <1>3, <2>1, <2>2, <2>3 DEF JourneySpec!DiagnoseWithLlm
<1>4. CASE ~JourneySpec!Adopted(reply) /\ model = None
  <2>1. saves = <<words>>
    BY <1>4 DEF JourneySpec!Saves
  <2>2. DOMAIN saves = {1}
    BY <2>1
  <2>3. JourneySpec!Max(DOMAIN saves) = 1
    BY <2>2 DEF JourneySpec!Max
  <2>4. QED BY <1>1, <1>2, <1>4, <2>1, <2>2, <2>3 DEF JourneySpec!DiagnoseWithLlm
<1>5. CASE ~JourneySpec!Adopted(reply) /\ model # None
  <2> DEFINE values == {model, words}
  <2>1. saves = <<model>> \o <<words>>
    BY <1>5 DEF JourneySpec!Saves
  <2>2. <<model>> \in Seq(values) /\ <<words>> \in Seq(values) /\ Len(<<model>>) = 1 /\ Len(<<words>>) = 1
    OBVIOUS
  <2>3. saves \in Seq(values) /\ Len(saves) = 2 /\ saves[2] = words
    <3>1. /\ saves \in Seq(values) /\ Len(saves) = Len(<<model>>) + Len(<<words>>)
          /\ \A i \in 1..Len(<<model>>)+Len(<<words>>) :
                 saves[i] = IF i <= Len(<<model>>) THEN <<model>>[i] ELSE <<words>>[i - Len(<<model>>)]
      BY <2>1, <2>2, ConcatProperties
    <3> HIDE DEF saves
    <3>2. QED BY <2>2, <3>1
  <2>4. DOMAIN saves = {1, 2}
    <3> HIDE DEF saves, values
    <3>1. DOMAIN saves = 1..2
      BY <2>3, LenProperties
    <3>2. QED BY <3>1
  <2>5. JourneySpec!Max(DOMAIN saves) = 2
    BY <2>4 DEF JourneySpec!Max
  <2>6. QED BY <1>1, <1>2, <1>5, <2>3, <2>4, <2>5 DEF JourneySpec!DiagnoseWithLlm
<1>6. QED BY <1>3, <1>4, <1>5

(***************************************************************************)
(* The objective stays, and with it what is recommended by keywords.       *)
(***************************************************************************)
LEMMA SameObjective ==
    ASSUME UNCHANGED objective
    PROVE  /\ \A category : CodesFor(category)' = CodesFor(category)
           /\ \A code : NamesFor(code)' = NamesFor(code)
BY DEF CodesFor, NamesFor, JourneySpec!TemplateNames, JourneySpec!Templates, JourneySpec!Recommended

(***************************************************************************)
(* Every step of the journey keeps the invariant.                          *)
(***************************************************************************)
LEMMA JourneyKept == JourneyInv /\ [JourneySpec!Next]_(JourneySpec!vars) => JourneyInv'
<1> SUFFICES ASSUME JourneyInv, [JourneySpec!Next]_(JourneySpec!vars) PROVE JourneyInv'
  OBVIOUS
<1>1. ASSUME NEW reply \in Replies, JourneySpec!StartJourney(reply) PROVE JourneyInv'
  <2>1. /\ diagnosed' = JourneySpec!DiagnoseWithLlm(objective.text, reply)
        /\ offered' = CodesFor(diagnosed') /\ chosen' = ""
        /\ JourneySpec!Record(reply) /\ UNCHANGED objective
    BY <1>1 DEF JourneySpec!StartJourney, CodesFor
  <2>2. offered' = CodesFor(diagnosed)'
    BY <2>1, SameObjective DEF CodesFor
  <2>3. HistoryTellsAnswer'
    BY <2>1, LastSave DEF HistoryTellsAnswer, JourneySpec!HistoryTellsAnswer
  <2>4. QED BY <2>1, <2>2, <2>3 DEF JourneyInv
<1>2. ASSUME NEW code, JourneySpec!SelectStrategy(code) PROVE JourneyInv'
  <2>1. /\ chosen' = code /\ shown' = NamesFor(code)
        /\ UNCHANGED <<objective, diagnosed, offered, recorded, unsaved>>
    BY <1>2 DEF JourneySpec!SelectStrategy, NamesFor
  <2>2. offered' = {} \/ offered' = CodesFor(diagnosed)'
    BY <2>1 DEF JourneyInv, CodesFor
  <2>3. shown' = NamesFor(chosen)'
    BY <2>1, SameObjective DEF NamesFor
  <2>4. HistoryTellsAnswer'
    BY <2>1 DEF JourneyInv, HistoryTellsAnswer, JourneySpec!HistoryTellsAnswer
  <2>5. QED BY <2>2, <2>3, <2>4 DEF JourneyInv
<1>3. ASSUME UNCHANGED <<objective, diagnosed, offered, chosen, shown, recorded, unsaved>> PROVE JourneyInv'
  <2>1. CodesFor(diagnosed)' = CodesFor(diagnosed)
    BY <1>3 DEF CodesFor
  <2>2. NamesFor(chosen)' = NamesFor(chosen)
    BY <1>3
    DEF NamesFor, JourneySpec!TemplateNames, JourneySpec!Templates, JourneySpec!Recommended
  <2>3. QED BY <1>3, <2>1, <2>2 DEF JourneyInv, HistoryTellsAnswer, JourneySpec!HistoryTellsAnswer
<1>4. ASSUME NEW name, JourneySpec!SelectTemplate(name) PROVE JourneyInv'
  BY <1>3, <1>4 DEF JourneySpec!SelectTemplate
<1>5. CASE UNCHANGED JourneySpec!vars
  BY <1>3, <1>5 DEF JourneySpec!vars
<1>6. QED BY <1>1, <1>2, <1>4, <1>5 DEF JourneySpec!Next

(***************************************************************************)
(* The invariant holds from the beginning.                                 *)
(***************************************************************************)
LEMMA JourneyHolds == FlowSpec => []JourneyInv
<1>1. JourneySpec!Init => JourneyInv
  BY DEF JourneySpec!Init, JourneyInv, HistoryTellsAnswer, JourneySpec!HistoryTellsAnswer
<1>2. QED BY <1>1, JourneyKept, JourneyFollows, PTL DEF JourneySpec!Spec

(***************************************************************************)
(* For every objective and every reply, a history none of whose saves failed *)
(* ends with the category that was answered.                               *)
(***************************************************************************)
THEOREM HistoryIsTold == FlowSpec => []HistoryTellsAnswer
<1>1. JourneyInv => HistoryTellsAnswer
  BY DEF JourneyInv
<1>2. QED BY <1>1, JourneyHolds, PTL

(***************************************************************************)
(* A plan is for the code and one of the templates.                        *)
(***************************************************************************)
LEMMA ChosenPlan ==
    ASSUME JourneyInv, NEW name, JourneySpec!SelectTemplate(name), plan' # plan,
           JourneySpec!SameDiagnosis, chosen \in offered \ {""}
    PROVE  plan'.strategy = chosen /\ plan'.template \in shown
<1>1. PICK s \in JourneySpec!SelectedStrategy(chosen) :
          name \in JourneySpec!TemplateNames(s) /\ plan' = JourneySpec!CreatePlan(s, name)
  BY DEF JourneySpec!SelectTemplate
<1>2. CodesFor(diagnosed) = {t.code : t \in JourneySpec!Elements(JourneySpec!Recommended)}
  BY DEF CodesFor, JourneySpec!Recommended, JourneySpec!SameDiagnosis
<1>3. \E t \in JourneySpec!Elements(JourneySpec!Recommended) : t.code = chosen
  BY <1>2 DEF JourneyInv
<1>4. s \in JourneySpec!Elements(JourneySpec!Recommended) /\ s.code = chosen
  BY <1>1, <1>3 DEF JourneySpec!SelectedStrategy
<1>5. name \in shown
  BY <1>1, <1>4 DEF JourneyInv, NamesFor
<1>6. plan'.strategy = s.code /\ plan'.template = name
  BY <1>1 DEF JourneySpec!CreatePlan
<1>7. QED BY <1>4, <1>5, <1>6

(***************************************************************************)
(* A plan is for the strategy the client chose, and for a template that was *)
(* shown for it, whatever the strategies and templates recommended are.    *)
(***************************************************************************)
THEOREM PlanFollowsChoice == FlowSpec => PlanIsForChoice
<1> DEFINE Fits ==
        plan' # plan /\ plan' # JourneySpec!NoPlan /\ JourneySpec!SameDiagnosis /\ chosen \in offered \ {""} =>
            plan'.strategy = chosen /\ plan'.template \in shown
<1>1. JourneyInv /\ [JourneySpec!Next]_(JourneySpec!vars) => [Fits]_(JourneySpec!vars)
  <2> SUFFICES ASSUME JourneyInv, JourneySpec!Next PROVE Fits
    OBVIOUS
  <2>1. ASSUME NEW reply \in Replies, JourneySpec!StartJourney(reply) PROVE Fits
    BY <2>1 DEF JourneySpec!StartJourney
  <2>2. ASSUME NEW code, JourneySpec!SelectStrategy(code) PROVE Fits
    BY <2>2 DEF JourneySpec!SelectStrategy
  <2>3. ASSUME NEW name, JourneySpec!SelectTemplate(name) PROVE Fits
    BY <2>3, ChosenPlan
  <2>4. QED BY <2>1, <2>2, <2>3 DEF JourneySpec!Next
<1>2. QED BY <1>1, JourneyHolds, JourneyFollows, PTL DEF JourneySpec!Spec, PlanIsForChoice, JourneySpec!PlanIsForChoice

-----------------------------------------------------------------------------
\* The members of K that come before k in the order R.
Preceding(R, K, k) == {j \in K : <<j, k>> \in R}

\* R orders the members of K, each two of them.
Orders(R, K) ==
    /\ \A i, j \in K : i # j => <<i, j>> \in R \/ <<j, i>> \in R
    /\ \A i, j, k \in K : <<i, j>> \in R /\ <<j, k>> \in R => <<i, k>> \in R
    /\ \A i \in K : <<i, i>> \notin R

(***************************************************************************)
(* In a finite set with a strict order, each number below its size is the  *)
(* rank of a member.                                                       *)
(***************************************************************************)
LEMMA EveryRank ==
    ASSUME NEW K, IsFiniteSet(K), NEW R, Orders(R, K), NEW m \in 0..Cardinality(K) - 1
    PROVE  \E k \in K : Cardinality(Preceding(R, K, k)) = m
<1> DEFINE rank == [k \in K |-> Cardinality(Preceding(R, K, k))]
           Others == (0..Cardinality(K) - 1) \ {m}
<1>1. Cardinality(K) \in Nat
  BY FS_CardinalityType
<1>2. ASSUME NEW k \in K
      PROVE  /\ IsFiniteSet(Preceding(R, K, k))
             /\ Cardinality(Preceding(R, K, k)) \in 0..Cardinality(K) - 1
  <2>1. Preceding(R, K, k) \subseteq K \ {k}
    BY DEF Preceding, Orders
  <2>2. IsFiniteSet(K \ {k}) /\ Cardinality(K \ {k}) = Cardinality(K) - 1
    BY FS_RemoveElement
  <2>3. /\ IsFiniteSet(Preceding(R, K, k))
        /\ Cardinality(Preceding(R, K, k)) <= Cardinality(K \ {k})
    BY <2>1, <2>2, FS_Subset
  <2>4. Cardinality(Preceding(R, K, k)) \in Nat
    BY <2>3, FS_CardinalityType
  <2>5. QED BY <1>1, <2>2, <2>3, <2>4
<1>3. ASSUME NEW i \in K, NEW j \in K, <<i, j>> \in R
      PROVE  Cardinality(Preceding(R, K, i)) < Cardinality(Preceding(R, K, j))
  <2>1. Preceding(R, K, i) \subseteq Preceding(R, K, j) \ {i}
    BY <1>3 DEF Preceding, Orders
  <2>2. i \in Preceding(R, K, j)
    BY <1>3 DEF Preceding
  <2>3. /\ IsFiniteSet(Preceding(R, K, j) \ {i})
        /\ Cardinality(Preceding(R, K, j) \ {i}) = Cardinality(Preceding(R, K, j)) - 1
    BY <1>2, <2>2, FS_RemoveElement
  <2>4. Cardinality(Preceding(R, K, i)) <= Cardinality(Preceding(R, K, j) \ {i})
    BY <2>1, <2>3, FS_Subset
  <2>5. Cardinality(Preceding(R, K, i)) \in Nat /\ Cardinality(Preceding(R, K, j)) \in Nat
    BY <1>2
  <2>6. QED BY <2>3, <2>4, <2>5
<1>4. SUFFICES ASSUME \A k \in K : Cardinality(Preceding(R, K, k)) # m PROVE FALSE
  OBVIOUS
<1>5. rank \in [K -> Others]
  BY <1>2, <1>4
<1>6. IsFiniteSet(Others) /\ Cardinality(Others) = Cardinality(K) - 1
  <2>1. IsFiniteSet(0..Cardinality(K) - 1) /\ Cardinality(0..Cardinality(K) - 1) = Cardinality(K)
    BY <1>1, FS_Interval
  <2>2. QED BY <2>1, FS_RemoveElement
<1>7. PICK i, j \in K : i # j /\ rank[i] = rank[j]
  <2>1. Cardinality(Others) < Cardinality(K)
    BY <1>1, <1>6
  <2> HIDE DEF rank, Others
  <2>2. QED BY <1>5, <1>6, <2>1, FS_PigeonHole
<1>8. Cardinality(Preceding(R, K, i)) = Cardinality(Preceding(R, K, j))
  BY <1>7
<1>9. Cardinality(Preceding(R, K, i)) \in Nat
  BY <1>2
<1>10. <<i, j>> \in R \/ <<j, i>> \in R
  BY <1>7 DEF Orders
<1>11. QED BY <1>3, <1>8, <1>9, <1>10

(***************************************************************************)
(* The journey counts as the library does.                                 *)
(***************************************************************************)
LEMMA SameCount == \A S : JourneySpec!Cardinality(S) = Cardinality(S)
BY DEF JourneySpec!Cardinality, Cardinality

\* The entries at the positions K have a fit that is a number.
HaveFits(scored, K) == K \subseteq Int /\ \A k \in K : scored[k].fit \in Int

(***************************************************************************)
(* A ranking has as many entries as it ranks, and each is one of them.     *)
(***************************************************************************)
LEMMA RankedOnly ==
    ASSUME NEW scored, NEW K, IsFiniteSet(K), HaveFits(scored, K)
    PROVE  \E at \in [1..Cardinality(K) -> K] :
              JourneySpec!Ranked(scored, K) = [n \in 1..Cardinality(K) |-> scored[at[n]]]
<1> DEFINE R == {p \in K \X K : scored[p[1]].fit > scored[p[2]].fit
                                \/ (scored[p[1]].fit = scored[p[2]].fit /\ p[1] < p[2])}
           before(i, j) == scored[i].fit > scored[j].fit \/ (scored[i].fit = scored[j].fit /\ i < j)
           Place(n) == CHOOSE k \in K : JourneySpec!Cardinality({j \in K : before(j, k)}) = n - 1
           at == [n \in 1..Cardinality(K) |-> Place(n)]
<1>1. Cardinality(K) \in Nat
  BY FS_CardinalityType
<1>2. PICK T : /\ Orders(T, K)
               /\ \A k \in K : Preceding(T, K, k) = {j \in K : before(j, k)}
  <2>1. Orders(R, K)
    BY DEF Orders, HaveFits
  <2>2. \A k \in K : Preceding(R, K, k) = {j \in K : before(j, k)}
    BY DEF Preceding
  <2> HIDE DEF R, before
  <2>3. QED BY <2>1, <2>2
<1>3. ASSUME NEW m \in 0..Cardinality(K) - 1
      PROVE  \E k \in K : JourneySpec!Cardinality({j \in K : before(j, k)}) = m
  <2> HIDE DEF R, before, Place, at
  <2>1. \E k \in K : Cardinality(Preceding(T, K, k)) = m
    BY <1>2, EveryRank
  <2>2. QED BY <1>2, <2>1, SameCount
<1>4. \A n \in 1..Cardinality(K) : n - 1 \in 0..Cardinality(K) - 1
  BY <1>1
<1> HIDE DEF before
<1>5. ASSUME NEW n \in 1..Cardinality(K) PROVE Place(n) \in K
  <2>1. \E k \in K : JourneySpec!Cardinality({j \in K : before(j, k)}) = n - 1
    BY <1>3, <1>4
  <2>2. QED BY <2>1
<1>6. JourneySpec!Ranked(scored, K) = [n \in 1..JourneySpec!Cardinality(K) |-> scored[Place(n)]]
  BY DEF JourneySpec!Ranked, before
<1>7. at \in [1..Cardinality(K) -> K] /\ \A n \in 1..Cardinality(K) : at[n] = Place(n)
  BY <1>5
<1> HIDE DEF Place, at
<1>8. JourneySpec!Cardinality(K) = Cardinality(K)
  BY SameCount
<1>9. JourneySpec!Ranked(scored, K) = [n \in 1..Cardinality(K) |-> scored[at[n]]]
  BY <1>6, <1>7, <1>8
<1>10. QED BY <1>7, <1>9

(***************************************************************************)
(* The score of a category is a number: a text has finitely many keywords. *)
(***************************************************************************)
LEMMA ScoreIsNumber ==
    ASSUME NEW text, IsFiniteSet(text), NEW k
    PROVE  JourneySpec!CategoryScore(text, k) \in Nat
<1> DEFINE found(weight) ==
        JourneySpec!Cardinality({w \in text :
            <<w, weight>> \in JourneySpec!CATEGORY_KEYWORDS[JourneySpec!CategoryOrder[k]]})
<1>1. ASSUME NEW weight PROVE found(weight) \in Nat
  <2> DEFINE W == {w \in text :
            <<w, weight>> \in JourneySpec!CATEGORY_KEYWORDS[JourneySpec!CategoryOrder[k]]}
  <2>1. W \subseteq text
    OBVIOUS
  <2> HIDE DEF W
  <2>2. Cardinality(W) \in Nat
    BY <2>1, FS_Subset, FS_CardinalityType
  <2>3. JourneySpec!Cardinality(W) \in Nat
    BY <2>2, SameCount
  <2>4. QED BY <2>3 DEF W
<1>2. JourneySpec!CategoryScore(text, k) =
        10 * found(10) + 9 * found(9) + 8 * found(8) + 7 * found(7) + 6 * found(6) + 5 * found(5)
  BY DEF JourneySpec!CategoryScore
<1> HIDE DEF found
<1>3. QED BY <1>1, <1>2

\* Position k has the greatest of the first n scores, and is the first that has it.
FirstBest(s, n, k) == \A j \in 1..n : s[j] < s[k] \/ (s[j] = s[k] /\ k <= j)

(***************************************************************************)
(* Of one or more scores there is a first greatest.                        *)
(***************************************************************************)
LEMMA FirstBestExists ==
    ASSUME NEW N \in Nat \ {0}, NEW s, \A k \in 1..N : s[k] \in Int
    PROVE  \E k \in 1..N : FirstBest(s, N, k)
<1> DEFINE Good == {n \in 0..N : n = 0 \/ \E k \in 1..n : FirstBest(s, n, k)}
<1>1. 0 \in Good
  OBVIOUS
<1>2. ASSUME NEW n \in 0..N, n \in Good, n < N PROVE n + 1 \in Good
  <2>1. CASE n = 0
    <3>1. FirstBest(s, 1, 1)
      BY <2>1 DEF FirstBest
    <3>2. QED BY <2>1, <3>1
  <2>2. CASE n # 0
    <3>1. PICK k \in 1..n : FirstBest(s, n, k)
      BY <1>2, <2>2
    <3>2. /\ s[n + 1] \in Int /\ s[k] \in Int /\ n + 1 \in 1..N /\ k \in 1..N
          /\ \A j \in 1..n : s[j] \in Int
      BY <1>2
    <3>3. CASE s[n + 1] > s[k]
      <4>1. FirstBest(s, n + 1, n + 1)
        BY <3>1, <3>2, <3>3 DEF FirstBest
      <4>2. QED BY <3>2, <4>1
    <3>4. CASE ~(s[n + 1] > s[k])
      <4>1. FirstBest(s, n + 1, k)
        BY <3>1, <3>2, <3>4 DEF FirstBest
      <4>2. QED BY <3>2, <4>1
    <3>5. QED BY <3>3, <3>4
  <2>3. QED BY <2>1, <2>2
<1> HIDE DEF Good
<1>3. 0..N \subseteq Good
  BY <1>1, <1>2, UpTo
<1>4. N \in Good
  BY <1>3
<1>5. QED BY <1>4 DEF Good

(***************************************************************************)
(* The keywords of every text lead to a category.                          *)
(***************************************************************************)
LEMMA DiagnosisIsCategory ==
    ASSUME NEW text, IsFiniteSet(text)
    PROVE  JourneySpec!Diagnose(text) \in JourneySpec!ObjectiveCategory
<1> DEFINE D == DOMAIN JourneySpec!CategoryOrder
           scores == [k \in D |-> JourneySpec!CategoryScore(text, k)]
           best == CHOOSE k \in D : \A j \in D : scores[j] < scores[k] \/ (scores[j] = scores[k] /\ k <= j)
<1>1. D = 1..15
  BY DEF JourneySpec!CategoryOrder
<1>2. \A k \in 1..15 : scores[k] \in Int
  BY <1>1, ScoreIsNumber
<1>3. DOMAIN scores = D
  OBVIOUS
<1>4. JourneySpec!Diagnose(text) = IF \A k \in D : scores[k] = 0 THEN "other"
                                   ELSE JourneySpec!CategoryOrder[best]
  BY <1>3 DEF JourneySpec!Diagnose
<1> HIDE DEF scores, D
<1>5. \E k \in 1..15 : FirstBest(scores, 15, k)
  <2>1. 15 \in Nat \ {0}
    OBVIOUS
  <2>2. QED BY <1>2, <2>1, FirstBestExists
<1>6. best \in D
  BY <1>1, <1>5 DEF FirstBest
<1> HIDE DEF best
<1>7. QED BY <1>4, <1>6 DEF JourneySpec!ObjectiveCategory, D

\* The codes of the strategies.
CodeList ==
    {"loyalty-tokenization", "gamified-rewards", "social-token", "referral-incentive",
     "airdrop-campaign", "asset-tokenization", "rights-tokenization", "behavior-incentive",
     "community-token", "governance-token", "defi-lending", "ecosystem-utility",
     "process-automation", "partnership-token"}

(***************************************************************************)
(* The codes of the strategies that lead to a kind of template.            *)
(***************************************************************************)
LEMMA CodesListed == JourneySpec!Codes = CodeList
BY DEF JourneySpec!Codes, JourneySpec!strategy_map, CodeList

\* A strategy of the tables.
IsStrategy(s) ==
    s \in [code : CodeList, fit : Nat, complexity : {"low", "medium", "high"}, months : 1..12]

\* What a category may have: one strategy or two, of different codes.
IsMenu(all) ==
    \/ /\ DOMAIN all = 1..1 /\ IsStrategy(all[1])
    \/ /\ DOMAIN all = 1..2 /\ IsStrategy(all[1]) /\ IsStrategy(all[2])
       /\ all[1].code # all[2].code

(***************************************************************************)
(* The strategies of each category are a menu.                             *)
(***************************************************************************)
LEMMA CustomerMenus ==
    /\ DOMAIN JourneySpec!CustomerStrategies =
         {"revenue_growth", "customer_loyalty", "customer_engagement"}
    /\ \A c \in DOMAIN JourneySpec!CustomerStrategies : IsMenu(JourneySpec!CustomerStrategies[c])
<1>1. DOMAIN JourneySpec!CustomerStrategies =
         {"revenue_growth", "customer_loyalty", "customer_engagement"}
  BY DEF JourneySpec!CustomerStrategies
<1>2. IsMenu(JourneySpec!CustomerStrategies.revenue_growth)
  BY DEF IsMenu, IsStrategy, CodeList, JourneySpec!Strategy, JourneySpec!CustomerStrategies
<1>3. IsMenu(JourneySpec!CustomerStrategies.customer_loyalty)
  BY DEF IsMenu, IsStrategy, CodeList, JourneySpec!Strategy, JourneySpec!CustomerStrategies
<1>4. IsMenu(JourneySpec!CustomerStrategies.customer_engagement)
  BY DEF IsMenu, IsStrategy, CodeList, JourneySpec!Strategy, JourneySpec!CustomerStrategies
<1>5. QED BY <1>1, <1>2, <1>3, <1>4

(***************************************************************************)
(* The strategies of each category are a menu.                             *)
(***************************************************************************)
LEMMA MarketMenus ==
    /\ DOMAIN JourneySpec!MarketStrategies =
         {"customer_acquisition", "asset_tokenization", "rights_tokenization",
          "incentive_model", "community_building"}
    /\ \A c \in DOMAIN JourneySpec!MarketStrategies : IsMenu(JourneySpec!MarketStrategies[c])
<1>1. DOMAIN JourneySpec!MarketStrategies =
         {"customer_acquisition", "asset_tokenization", "rights_tokenization",
          "incentive_model", "community_building"}
  BY DEF JourneySpec!MarketStrategies
<1>2. IsMenu(JourneySpec!MarketStrategies.customer_acquisition)
  BY DEF IsMenu, IsStrategy, CodeList, JourneySpec!Strategy, JourneySpec!MarketStrategies
<1>3. IsMenu(JourneySpec!MarketStrategies.asset_tokenization)
  BY DEF IsMenu, IsStrategy, CodeList, JourneySpec!Strategy, JourneySpec!MarketStrategies
<1>4. IsMenu(JourneySpec!MarketStrategies.rights_tokenization)
  BY DEF IsMenu, IsStrategy, CodeList, JourneySpec!Strategy, JourneySpec!MarketStrategies
<1>5. IsMenu(JourneySpec!MarketStrategies.incentive_model)
  BY DEF IsMenu, IsStrategy, CodeList, JourneySpec!Strategy, JourneySpec!MarketStrategies
<1>6. IsMenu(JourneySpec!MarketStrategies.community_building)
  BY DEF IsMenu, IsStrategy, CodeList, JourneySpec!Strategy, JourneySpec!MarketStrategies
<1>7. QED BY <1>1, <1>2, <1>3, <1>4, <1>5, <1>6

(***************************************************************************)
(* The strategies of each category are a menu.                             *)
(***************************************************************************)
LEMMA NetworkMenus ==
    /\ DOMAIN JourneySpec!NetworkStrategies =
         {"governance", "financing", "ecosystem_growth", "sales_decline",
          "brand_awareness", "cost_reduction", "partnership_enablement"}
    /\ \A c \in DOMAIN JourneySpec!NetworkStrategies : IsMenu(JourneySpec!NetworkStrategies[c])
<1>1. DOMAIN JourneySpec!NetworkStrategies =
         {"governance", "financing", "ecosystem_growth", "sales_decline",
          "brand_awareness", "cost_reduction", "partnership_enablement"}
  BY DEF JourneySpec!NetworkStrategies
<1>2. IsMenu(JourneySpec!NetworkStrategies.governance)
  BY DEF IsMenu, IsStrategy, CodeList, JourneySpec!Strategy, JourneySpec!NetworkStrategies
<1>3. IsMenu(JourneySpec!NetworkStrategies.financing)
  BY DEF IsMenu, IsStrategy, CodeList, JourneySpec!Strategy, JourneySpec!NetworkStrategies
<1>4. IsMenu(JourneySpec!NetworkStrategies.ecosystem_growth)
  BY DEF IsMenu, IsStrategy, CodeList, JourneySpec!Strategy, JourneySpec!NetworkStrategies
<1>5. IsMenu(JourneySpec!NetworkStrategies.sales_decline)
  BY DEF IsMenu, IsStrategy, CodeList, JourneySpec!Strategy, JourneySpec!NetworkStrategies
<1>6. IsMenu(JourneySpec!NetworkStrategies.brand_awareness)
  BY DEF IsMenu, IsStrategy, CodeList, JourneySpec!Strategy, JourneySpec!NetworkStrategies
<1>7. IsMenu(JourneySpec!NetworkStrategies.cost_reduction)
  BY DEF IsMenu, IsStrategy, CodeList, JourneySpec!Strategy, JourneySpec!NetworkStrategies
<1>8. IsMenu(JourneySpec!NetworkStrategies.partnership_enablement)
  BY DEF IsMenu, IsStrategy, CodeList, JourneySpec!Strategy, JourneySpec!NetworkStrategies
<1>9. QED BY <1>1, <1>2, <1>3, <1>4, <1>5, <1>6, <1>7, <1>8

(***************************************************************************)
(* So are those of the whole table.                                        *)
(***************************************************************************)
LEMMA Menus ==
    ASSUME NEW c \in DOMAIN JourneySpec!CATEGORY_STRATEGIES
    PROVE  IsMenu(JourneySpec!CATEGORY_STRATEGIES[c])
<1>1. c \in DOMAIN JourneySpec!CustomerStrategies \cup DOMAIN JourneySpec!MarketStrategies
              \cup DOMAIN JourneySpec!NetworkStrategies
  BY DEF JourneySpec!CATEGORY_STRATEGIES
<1>2. JourneySpec!CATEGORY_STRATEGIES[c] =
        IF c \in DOMAIN JourneySpec!CustomerStrategies THEN JourneySpec!CustomerStrategies[c]
        ELSE IF c \in DOMAIN JourneySpec!MarketStrategies THEN JourneySpec!MarketStrategies[c]
        ELSE JourneySpec!NetworkStrategies[c]
  BY <1>1 DEF JourneySpec!CATEGORY_STRATEGIES
<1>3. QED BY <1>1, <1>2, CustomerMenus, MarketMenus, NetworkMenus

\* The strategy s of the tables, with a fit of its own.
Refit(s, t) == t.code = s.code /\ t.complexity = s.complexity /\ t.months = s.months

(***************************************************************************)
(* The fit of a strategy of the tables is a number.                        *)
(***************************************************************************)
LEMMA FitIsNumber ==
    ASSUME NEW s, s.fit \in Nat, NEW o
    PROVE  JourneySpec!FitScore(s, o) \in Nat
<1>1. \A n \in Nat : JourneySpec!Lesser(n, 100) \in Nat
  BY DEF JourneySpec!Lesser
<1>2. PICK known \in Nat :
        JourneySpec!FitScore(s, o) = IF o.enterprise THEN JourneySpec!Lesser(known + 3, 100) ELSE known
  <2>1. s.fit + 5 \in Nat
    OBVIOUS
  <2>2. JourneySpec!Lesser(s.fit + 5, 100) \in Nat
    BY <1>1, <2>1
  <2> DEFINE known == IF o.industry # "" THEN JourneySpec!Lesser(s.fit + 5, 100) ELSE s.fit
  <2>3. known \in Nat
    BY <2>2
  <2>4. JourneySpec!FitScore(s, o) = IF o.enterprise THEN JourneySpec!Lesser(known + 3, 100) ELSE known
    BY Zenon DEF JourneySpec!FitScore
  <2> HIDE DEF known
  <2>5. QED BY <2>3, <2>4, Zenon
<1>3. known + 3 \in Nat
  OBVIOUS
<1>4. JourneySpec!Lesser(known + 3, 100) \in Nat
  BY <1>1, <1>3
<1>5. QED BY <1>2, <1>4, Zenon

(***************************************************************************)
(* What is recommended for a category is on its menu, with another fit.    *)
(***************************************************************************)
LEMMA Recommendations ==
    ASSUME NEW o, NEW c, NEW t \in JourneySpec!Elements(JourneySpec!RecommendStrategies(o, c))
    PROVE  /\ c \in DOMAIN JourneySpec!CATEGORY_STRATEGIES
           /\ \E k \in DOMAIN JourneySpec!CATEGORY_STRATEGIES[c] :
                 Refit(JourneySpec!CATEGORY_STRATEGIES[c][k], t)
                 /\ t = [JourneySpec!CATEGORY_STRATEGIES[c][k] EXCEPT
                             !.fit = JourneySpec!FitScore(JourneySpec!CATEGORY_STRATEGIES[c][k], o)]
<1> DEFINE all == JourneySpec!CATEGORY_STRATEGIES[c]
           scored == [k \in DOMAIN all |-> [all[k] EXCEPT !.fit = JourneySpec!FitScore(all[k], o)]]
<1>1. c \in DOMAIN JourneySpec!CATEGORY_STRATEGIES
  <2> SUFFICES ASSUME c \notin DOMAIN JourneySpec!CATEGORY_STRATEGIES PROVE FALSE
    OBVIOUS
  <2>1. JourneySpec!RecommendStrategies(o, c) = << >>
    BY Zenon DEF JourneySpec!RecommendStrategies
  <2>2. PICK n \in DOMAIN << >> : TRUE
    BY <2>1 DEF JourneySpec!Elements
  <2>3. QED BY <2>2
<1>2. IsMenu(all)
  BY <1>1, Menus
<1>3. JourneySpec!RecommendStrategies(o, c) = JourneySpec!Ranked(scored, DOMAIN all)
  BY <1>1 DEF JourneySpec!RecommendStrategies
<1> HIDE DEF all
<1>4. /\ DOMAIN all \in SUBSET Int /\ IsFiniteSet(DOMAIN all)
      /\ \A k \in DOMAIN all : IsStrategy(all[k])
  <2>1. IsFiniteSet(1..1) /\ IsFiniteSet(1..2)
    <3>1. 1 \in Int /\ 2 \in Int
      OBVIOUS
    <3>2. IsFiniteSet(1..1)
      BY <3>1, FS_Interval
    <3>3. IsFiniteSet(1..2)
      BY <3>1, FS_Interval
    <3>4. QED BY <3>2, <3>3
  <2>2. DOMAIN all = 1..1 \/ DOMAIN all = 1..2
    BY <1>2 DEF IsMenu
  <2>3. \A k \in DOMAIN all : IsStrategy(all[k])
    <3>1. CASE DOMAIN all = 1..1 /\ IsStrategy(all[1])
      <4>1. \A k \in 1..1 : k = 1
        OBVIOUS
      <4>2. QED BY <3>1, <4>1
    <3>2. CASE DOMAIN all = 1..2 /\ IsStrategy(all[1]) /\ IsStrategy(all[2])
      <4>1. \A k \in 1..2 : k = 1 \/ k = 2
        OBVIOUS
      <4>2. QED BY <3>2, <4>1
    <3>3. QED BY <1>2, <3>1, <3>2 DEF IsMenu
  <2>4. QED BY <2>1, <2>2, <2>3
<1>5. \A k \in DOMAIN all : /\ scored[k].fit \in Int
                            /\ Refit(all[k], scored[k])
  <2> SUFFICES ASSUME NEW k \in DOMAIN all
               PROVE  scored[k].fit \in Int /\ Refit(all[k], scored[k])
    OBVIOUS
  <2>1. IsStrategy(all[k])
    BY <1>4
  <2>2. JourneySpec!FitScore(all[k], o) \in Nat
    BY <2>1, FitIsNumber DEF IsStrategy
  <2>3. scored[k] = [all[k] EXCEPT !.fit = JourneySpec!FitScore(all[k], o)]
    OBVIOUS
  <2>4. QED BY <2>1, <2>2, <2>3 DEF IsStrategy, Refit
<1> HIDE DEF scored
<1>6. PICK at \in [1..Cardinality(DOMAIN all) -> DOMAIN all] :
          JourneySpec!Ranked(scored, DOMAIN all) = [n \in 1..Cardinality(DOMAIN all) |-> scored[at[n]]]
  <2> DEFINE K == DOMAIN all
  <2>1. HaveFits(scored, K) /\ IsFiniteSet(K)
    BY <1>4, <1>5 DEF HaveFits
  <2> HIDE DEF K
  <2>2. \E at \in [1..Cardinality(K) -> K] :
            JourneySpec!Ranked(scored, K) = [n \in 1..Cardinality(K) |-> scored[at[n]]]
    BY <2>1, RankedOnly
  <2>3. QED BY <2>2 DEF K
<1>7. PICK n \in 1..Cardinality(DOMAIN all) : t = scored[at[n]]
  <2>1. t \in JourneySpec!Elements([n \in 1..Cardinality(DOMAIN all) |-> scored[at[n]]])
    BY <1>3, <1>6, Zenon
  <2>2. QED BY <2>1 DEF JourneySpec!Elements
<1>8. at[n] \in DOMAIN all
  BY <1>6
<1>9. Refit(all[at[n]], t) /\ t = [all[at[n]] EXCEPT !.fit = JourneySpec!FitScore(all[at[n]], o)]
  BY <1>5, <1>7, <1>8 DEF scored
<1>10. QED BY <1>1, <1>8, <1>9 DEF all

(***************************************************************************)
(* There are eleven seeds, and each code is the strategy of one of them.   *)
(***************************************************************************)
LEMMA SeedsListed ==
    /\ DOMAIN JourneySpec!SEED_TEMPLATES = 1..11
    /\ \A code \in CodeList : \E k \in 1..11 :
           JourneySpec!SEED_TEMPLATES[k].strategy = JourneySpec!strategy_map[code]
<1> DEFINE F == JourneySpec!FirstSeeds
           L == JourneySpec!LaterSeeds
           V == {F[k] : k \in 1..6} \cup {L[k] : k \in 1..5}
<1>1. F \in Seq(V) /\ Len(F) = 6
  <2>1. PICK a, b, c, d, e, f : F = <<a, b, c, d, e, f>>
    BY Zenon DEF JourneySpec!FirstSeeds
  <2> HIDE DEF F, L
  <2>2. F \in Seq({a, b, c, d, e, f}) /\ Len(F) = 6 /\ \A k \in 1..6 : F[k] \in V
    BY <2>1
  <2> HIDE DEF V
  <2>3. F \in [1..6 -> V]
    BY <2>2
  <2>4. F \in Seq(V)
    <3>1. \A n \in Nat : \A g \in [1..n -> V] : g \in Seq(V)
      OBVIOUS
    <3>2. QED BY <2>3, <3>1
  <2>5. QED BY <2>2, <2>4
<1>2. L \in Seq(V) /\ Len(L) = 5
  <2>1. PICK a, b, c, d, e : L = <<a, b, c, d, e>>
    BY Zenon DEF JourneySpec!LaterSeeds
  <2> HIDE DEF F, L
  <2>2. L \in Seq({a, b, c, d, e}) /\ Len(L) = 5 /\ \A k \in 1..5 : L[k] \in V
    BY <2>1
  <2> HIDE DEF V
  <2>3. L \in [1..5 -> V]
    BY <2>2
  <2>4. L \in Seq(V)
    BY <2>3
  <2>5. QED BY <2>2, <2>4
<1>3. /\ JourneySpec!SEED_TEMPLATES \in Seq(V)
      /\ Len(JourneySpec!SEED_TEMPLATES) = 11
      /\ \A k \in 1..11 : JourneySpec!SEED_TEMPLATES[k] = IF k <= 6 THEN F[k] ELSE L[k - 6]
  <2>1. JourneySpec!SEED_TEMPLATES = F \o L
    BY DEF JourneySpec!SEED_TEMPLATES
  <2> HIDE DEF F, L, V
  <2>2. /\ Len(F \o L) = 11 /\ F \o L \in Seq(V)
        /\ \A k \in 1..11 : (F \o L)[k] = IF k <= 6 THEN F[k] ELSE L[k - 6]
    <3>1. /\ Len(F \o L) = Len(F) + Len(L) /\ F \o L \in Seq(V)
          /\ \A k \in 1..Len(F) + Len(L) : (F \o L)[k] = IF k <= Len(F) THEN F[k] ELSE L[k - Len(F)]
      BY <1>1, <1>2, ConcatProperties
    <3>2. Len(F) + Len(L) = 11
      BY <1>1, <1>2
    <3>3. QED BY <1>1, <3>1, <3>2
  <2>3. QED BY <2>1, <2>2
<1>4. DOMAIN JourneySpec!SEED_TEMPLATES = 1..11
  <2> HIDE DEF F, L, V
  <2>1. QED BY <1>3, LenProperties
<1>5. /\ F[1].strategy = "customer-retention" /\ F[2].strategy = "engagement"
      /\ F[4].strategy = "governance" /\ F[5].strategy = "asset-tokenization"
      /\ F[6].strategy = "behavior-incentive"
  BY DEF JourneySpec!FirstSeeds, JourneySpec!Seed
<1>6. /\ L[1].strategy = "community-building" /\ L[2].strategy = "defi-lending"
      /\ L[3].strategy = "ecosystem-utility"
  BY DEF JourneySpec!LaterSeeds, JourneySpec!Seed
<1>7. \A code \in CodeList : JourneySpec!strategy_map[code] \in
          {"customer-retention", "engagement", "governance", "asset-tokenization", "behavior-incentive",
           "community-building", "defi-lending", "ecosystem-utility"}
  BY DEF CodeList, JourneySpec!strategy_map
<1> HIDE DEF F, L, V
<1>8. ASSUME NEW code \in CodeList
      PROVE  \E k \in 1..11 : JourneySpec!SEED_TEMPLATES[k].strategy = JourneySpec!strategy_map[code]
  <2>1. /\ \A k \in {1, 2, 4, 5, 6} : JourneySpec!SEED_TEMPLATES[k] = F[k] /\ k \in 1..11
        /\ JourneySpec!SEED_TEMPLATES[7] = L[1] /\ JourneySpec!SEED_TEMPLATES[8] = L[2]
        /\ JourneySpec!SEED_TEMPLATES[9] = L[3]
    <3>1. 7 - 6 = 1 /\ 8 - 6 = 2 /\ 9 - 6 = 3
      OBVIOUS
    <3>2. QED BY <1>3, <3>1
  <2> DEFINE wanted == JourneySpec!strategy_map[code]
             at(k) == JourneySpec!SEED_TEMPLATES[k].strategy
  <2>2. /\ at(1) = "customer-retention" /\ at(2) = "engagement" /\ at(4) = "governance"
        /\ at(5) = "asset-tokenization" /\ at(6) = "behavior-incentive"
        /\ at(7) = "community-building" /\ at(8) = "defi-lending" /\ at(9) = "ecosystem-utility"
    BY <1>5, <1>6, <2>1
  <2>3. wanted \in {"customer-retention", "engagement", "governance", "asset-tokenization",
           "behavior-incentive", "community-building", "defi-lending", "ecosystem-utility"}
    BY <1>7
  <2>4. 1 \in 1..11 /\ 2 \in 1..11 /\ 4 \in 1..11 /\ 5 \in 1..11 /\ 6 \in 1..11
        /\ 7 \in 1..11 /\ 8 \in 1..11 /\ 9 \in 1..11
    OBVIOUS
  <2> HIDE DEF wanted, at
  <2>5. \E k \in 1..11 : at(k) = wanted
    BY <2>2, <2>3, <2>4, Zenon
  <2>6. QED BY <2>5 DEF wanted, at
<1>9. QED BY <1>4, <1>8

(***************************************************************************)
(* A template of the strategy's kind scores enough to be recommended.      *)
(***************************************************************************)
LEMMA ScoreEnough ==
    ASSUME NEW template, NEW category, NEW strategy, NEW o
    PROVE  LET score == JourneySpec!ScoreTemplate(template, category, strategy, o) IN
           /\ score \in Nat
           /\ template.strategy = JourneySpec!strategy_map[strategy.code] => JourneySpec!Enough(score)
<1> DEFINE a == JourneySpec!Points(category \in DOMAIN JourneySpec!category_map
                                   /\ template.category = JourneySpec!category_map[category], 50)
           b == JourneySpec!Points(template.strategy = JourneySpec!strategy_map[strategy.code], 30)
           c == JourneySpec!Points(o.industry \in template.tags, 10)
<1>1. JourneySpec!ScoreTemplate(template, category, strategy, o) = a + b + c + 10
  BY DEF JourneySpec!ScoreTemplate
<1>2. a \in Nat /\ b \in Nat /\ c \in Nat
  <2>1. a = 50 \/ a = 0
    BY Zenon DEF JourneySpec!Points
  <2>2. b = 30 \/ b = 0
    BY Zenon DEF JourneySpec!Points
  <2>3. c = 10 \/ c = 0
    BY Zenon DEF JourneySpec!Points
  <2> HIDE DEF a, b, c
  <2>4. QED BY <2>1, <2>2, <2>3
<1>3. template.strategy = JourneySpec!strategy_map[strategy.code] => b = 30
  BY Zenon DEF JourneySpec!Points
<1> HIDE DEF a, b, c
<1>4. QED BY <1>1, <1>2, <1>3 DEF JourneySpec!Enough

(***************************************************************************)
(* The templates recommended are seeds, and for a strategy of the tables   *)
(* there is one.                                                           *)
(***************************************************************************)
LEMMA TemplatesFor ==
    ASSUME NEW o, NEW c, NEW s
    PROVE  /\ \A t \in JourneySpec!Elements(JourneySpec!RecommendTemplates(o, c, s)) :
                  t.name \in JourneySpec!Names
           /\ s.code \in CodeList =>
                  JourneySpec!Elements(JourneySpec!RecommendTemplates(o, c, s)) # {}
<1> DEFINE D == DOMAIN JourneySpec!SEED_TEMPLATES
           scored == [k \in D |->
                        [name |-> JourneySpec!SEED_TEMPLATES[k].name,
                         fit |-> JourneySpec!ScoreTemplate(JourneySpec!SEED_TEMPLATES[k], c, s, o)]]
           K == {k \in D : JourneySpec!Enough(scored[k].fit)}
           best == JourneySpec!Ranked(scored, K)
           size == Cardinality(K)
<1>1. JourneySpec!RecommendTemplates(o, c, s) = SubSeq(best, 1, JourneySpec!Lesser(5, Len(best)))
  BY DEF JourneySpec!RecommendTemplates
<1>2. D = 1..11
  BY SeedsListed
<1>3. \A k \in D : scored[k].name \in JourneySpec!Names /\ scored[k].fit \in Int
  <2> SUFFICES ASSUME NEW k \in D PROVE scored[k].name \in JourneySpec!Names /\ scored[k].fit \in Int
    OBVIOUS
  <2>1. JourneySpec!ScoreTemplate(JourneySpec!SEED_TEMPLATES[k], c, s, o) \in Nat
    BY ScoreEnough
  <2>2. JourneySpec!SEED_TEMPLATES[k].name \in JourneySpec!Names
    BY DEF JourneySpec!Names
  <2>3. QED BY <2>1, <2>2
<1>4. s.code \in CodeList => K # {}
  <2> SUFFICES ASSUME s.code \in CodeList PROVE K # {}
    OBVIOUS
  <2>1. PICK k \in D : JourneySpec!SEED_TEMPLATES[k].strategy = JourneySpec!strategy_map[s.code]
    BY SeedsListed
  <2>2. JourneySpec!Enough(scored[k].fit)
    BY <2>1, ScoreEnough
  <2>3. QED BY <2>2
<1> HIDE DEF D, scored, best
<1>5. K \in SUBSET Int /\ IsFiniteSet(K) /\ size \in Nat
  <2>1. IsFiniteSet(1..11)
    <3>1. 1 \in Int /\ 11 \in Int
      OBVIOUS
    <3>2. QED BY <3>1, FS_Interval
  <2>2. QED BY <1>2, <2>1, FS_Subset, FS_CardinalityType
<1>6. \A k \in K : scored[k].fit \in Int /\ scored[k].name \in JourneySpec!Names
  BY <1>3
<1>7. K # {} => size # 0
  BY <1>5, FS_EmptySet
<1> HIDE DEF K, size
<1>8. PICK at \in [1..size -> K] : best = [n \in 1..size |-> scored[at[n]]]
  <2>1. HaveFits(scored, K) /\ IsFiniteSet(K)
    BY <1>5, <1>6 DEF HaveFits
  <2>2. QED BY <2>1, RankedOnly DEF best, size
<1> DEFINE V == {scored[k] : k \in K}
<1>9. best \in Seq(V) /\ Len(best) = size
  <2>1. best \in [1..size -> V]
    BY <1>8
  <2> HIDE DEF V
  <2>2. QED BY <1>5, <2>1
<1> HIDE DEF V
<1>10. JourneySpec!Lesser(5, Len(best)) \in 0..size /\ (size # 0 => JourneySpec!Lesser(5, Len(best)) # 0)
  BY <1>5, <1>9 DEF JourneySpec!Lesser
<1> DEFINE m == JourneySpec!Lesser(5, Len(best))
           short == SubSeq(best, 1, m)
<1>11. short \in Seq(V) /\ Len(short) = m
  <2>1. 1 \in 1..Len(best) + 1 /\ m \in 1-1..Len(best) /\ m \in Nat
    BY <1>5, <1>9, <1>10
  <2> HIDE DEF m
  <2>2. QED BY <1>9, <2>1, SubSeqProperties
<1> HIDE DEF m
<1>12. ASSUME NEW t \in JourneySpec!Elements(short) PROVE t.name \in JourneySpec!Names
  <2>1. PICK n \in DOMAIN short : t = short[n]
    BY DEF JourneySpec!Elements
  <2>2. t \in V
    <3> HIDE DEF short
    <3>1. QED BY <1>11, <2>1, LenProperties
  <2>3. QED BY <1>6, <2>2 DEF V
<1>13. ASSUME s.code \in CodeList PROVE JourneySpec!Elements(short) # {}
  <2>1. m \in Nat /\ m # 0
    BY <1>4, <1>5, <1>7, <1>10, <1>13 DEF m
  <2> HIDE DEF short
  <2>2. 1 \in DOMAIN short
    BY <1>11, <2>1, LenProperties
  <2>3. QED BY <2>2 DEF JourneySpec!Elements
<1>14. QED BY <1>1, <1>12, <1>13 DEF m

(***************************************************************************)
(* A strategy recommended for a category is one of the tables'; two codes  *)
(* at most are offered, so that the client may send one that is not.       *)
(***************************************************************************)
LEMMA RecommendedKnown ==
    ASSUME NEW c
    PROVE  /\ \A t \in JourneySpec!Elements(JourneySpec!RecommendStrategies(objective, c)) :
                  /\ t.code \in JourneySpec!Codes
                  /\ t.complexity \in {"low", "medium", "high"}
                  /\ t.months \in 1..12
           /\ \E code \in JourneySpec!Codes : code \notin CodesFor(c)
<1> DEFINE all == JourneySpec!CATEGORY_STRATEGIES[c]
           RS == JourneySpec!RecommendStrategies(objective, c)
<1>1. ASSUME NEW t \in JourneySpec!Elements(RS)
      PROVE  /\ IsMenu(all)
             /\ \E k \in DOMAIN all : IsStrategy(all[k]) /\ Refit(all[k], t)
  <2>1. c \in DOMAIN JourneySpec!CATEGORY_STRATEGIES /\ \E k \in DOMAIN all : Refit(all[k], t)
    BY Recommendations
  <2>2. IsMenu(all)
    BY <2>1, Menus
  <2> HIDE DEF all
  <2>3. \A k \in DOMAIN all : IsStrategy(all[k])
    <3>1. (\A k \in 1..1 : k = 1) /\ (\A k \in 1..2 : k = 1 \/ k = 2)
      OBVIOUS
    <3>2. QED BY <2>2, <3>1 DEF IsMenu
  <2>4. QED BY <2>1, <2>2, <2>3
<1> HIDE DEF all, RS
<1>2. ASSUME NEW t \in JourneySpec!Elements(RS)
      PROVE  /\ t.code \in JourneySpec!Codes
             /\ t.complexity \in {"low", "medium", "high"}
             /\ t.months \in 1..12
  <2>1. PICK k \in DOMAIN all : IsStrategy(all[k]) /\ Refit(all[k], t)
    BY <1>1
  <2>2. QED BY <2>1, CodesListed DEF IsStrategy, Refit
<1>3. \E code \in CodeList : \A t \in JourneySpec!Elements(RS) : t.code # code
  <2>1. CASE JourneySpec!Elements(RS) = {}
    BY <2>1 DEF CodeList
  <2>2. CASE JourneySpec!Elements(RS) # {}
    <3>1. IsMenu(all)
      BY <1>1, <2>2
    <3>2. PICK a, b : \A k \in DOMAIN all : all[k].code \in {a, b}
      <4>1. CASE DOMAIN all = 1..1
        <5>1. \A k \in 1..1 : k = 1
          OBVIOUS
        <5>2. QED BY <4>1, <5>1
      <4>2. CASE DOMAIN all = 1..2
        <5>1. \A k \in 1..2 : k = 1 \/ k = 2
          OBVIOUS
        <5>2. QED BY <4>2, <5>1
      <4>3. QED BY <3>1, <4>1, <4>2 DEF IsMenu
    <3>3. \A t \in JourneySpec!Elements(RS) : t.code \in {a, b}
      BY <1>1, <3>2 DEF Refit
    <3>4. \E code \in CodeList : code \notin {a, b}
      BY DEF CodeList
    <3>5. QED BY <3>3, <3>4
  <2>3. QED BY <2>1, <2>2
<1>4. QED BY <1>2, <1>3, CodesListed DEF CodesFor, RS

(***************************************************************************)
(* A category that has a menu has a best strategy.                         *)
(***************************************************************************)
LEMMA BestIsRecommended ==
    ASSUME JourneySpec!Recommended # << >>
    PROVE  JourneySpec!Recommended[1] \in JourneySpec!Elements(JourneySpec!Recommended)
<1> DEFINE c == JourneySpec!KeywordCategory[objective.text]
           all == JourneySpec!CATEGORY_STRATEGIES[c]
           scored == [k \in DOMAIN all |->
                         [all[k] EXCEPT !.fit = JourneySpec!FitScore(all[k], objective)]]
<1>1. /\ c \in DOMAIN JourneySpec!CATEGORY_STRATEGIES
      /\ JourneySpec!Recommended = JourneySpec!Ranked(scored, DOMAIN all)
  BY Zenon DEF JourneySpec!Recommended, JourneySpec!RecommendStrategies
<1>2. IsMenu(all)
  BY <1>1, Menus
<1> HIDE DEF all, scored, c
<1>3. JourneySpec!Cardinality(DOMAIN all) \in {1, 2}
  <2>1. 1 \in Int /\ 2 \in Int
    OBVIOUS
  <2>2. \A b \in Int : Cardinality(1..b) = IF 1 > b THEN 0 ELSE b - 1 + 1
    BY <2>1, FS_Interval
  <2>3. Cardinality(1..1) = 1 /\ Cardinality(1..2) = 2
    <3>1. \A b \in {1, 2} : Cardinality(1..b) = b
      BY <2>2
    <3>2. QED BY <3>1, Zenon
  <2>4. QED BY <1>2, <2>3, SameCount DEF IsMenu
<1>4. DOMAIN JourneySpec!Recommended = 1..JourneySpec!Cardinality(DOMAIN all)
  BY <1>1 DEF JourneySpec!Ranked
<1>5. 1 \in DOMAIN JourneySpec!Recommended
  BY <1>3, <1>4
<1>6. QED BY <1>5 DEF JourneySpec!Elements

(***************************************************************************)
(* What is shown are names of seeds.                                       *)
(***************************************************************************)
LEMMA ShownAreNames == ASSUME NEW code PROVE NamesFor(code) \subseteq JourneySpec!Names
<1>1. ASSUME NEW s, NEW name \in JourneySpec!TemplateNames(s) PROVE name \in JourneySpec!Names
  BY <1>1, TemplatesFor DEF JourneySpec!TemplateNames, JourneySpec!Templates
<1>2. QED BY <1>1 DEF NamesFor

(***************************************************************************)
(* What is saved is a category.                                            *)
(***************************************************************************)
LEMMA SavesAreCategories ==
    ASSUME JourneySpec!JourneyAssumption, objective \in Objectives, NEW reply \in Replies
    PROVE  /\ JourneySpec!DiagnoseWithLlm(objective.text, reply) \in JourneySpec!ObjectiveCategory
           /\ \E n \in {1, 2} :
                 /\ DOMAIN JourneySpec!Saves(objective.text, reply) = 1..n
                 /\ \A k \in 1..n : JourneySpec!Saves(objective.text, reply)[k] \in JourneySpec!ObjectiveCategory
<1> DEFINE model == reply.category
           words == JourneySpec!Diagnose(objective.text)
           saves == JourneySpec!Saves(objective.text, reply)
           C == JourneySpec!ObjectiveCategory
<1>1. words \in C
  <2>1. IsFiniteSet(objective.text)
    BY DEF JourneySpec!JourneyAssumption, JourneySpec!IsFiniteSet, IsFiniteSet
  <2>2. QED BY <2>1, DiagnosisIsCategory
<1>2. model = None \/ model \in C
  BY DEF JourneySpec!JourneyAssumption, JourneySpec!Reply
<1>3. CASE JourneySpec!Adopted(reply)
  <2>1. saves = <<model>> /\ model \in C
    BY <1>2, <1>3 DEF JourneySpec!Saves, JourneySpec!Adopted
  <2>2. DOMAIN saves = 1..1 /\ \A k \in 1..1 : saves[k] \in C
    BY <2>1
  <2>3. QED BY <1>3, <2>1, <2>2 DEF JourneySpec!DiagnoseWithLlm
<1>4. CASE ~JourneySpec!Adopted(reply)
  <2>1. JourneySpec!DiagnoseWithLlm(objective.text, reply) = words
    BY <1>4 DEF JourneySpec!DiagnoseWithLlm
  <2>2. CASE model = None
    <3>1. saves = <<words>>
      BY <1>4, <2>2 DEF JourneySpec!Saves
    <3> HIDE DEF words, C
    <3>2. DOMAIN saves = 1..1 /\ \A k \in 1..1 : saves[k] \in C
      BY <1>1, <3>1
    <3>3. QED BY <1>1, <2>1, <3>2 DEF C
  <2>3. CASE model # None
    <3>1. saves = <<model>> \o <<words>> /\ model \in C
      BY <1>2, <1>4, <2>3 DEF JourneySpec!Saves
    <3> HIDE DEF words, C, model, saves
    <3>2. <<model>> \in Seq(C) /\ <<words>> \in Seq(C) /\ Len(<<model>>) + Len(<<words>>) = 2
      BY <1>1, <3>1
    <3>3. saves \in Seq(C) /\ Len(saves) = 2
      BY <3>1, <3>2, ConcatProperties
    <3>4. DOMAIN saves = 1..2 /\ \A k \in 1..2 : saves[k] \in C
      BY <3>3, LenProperties
    <3>5. QED BY <1>1, <2>1, <3>4 DEF saves, C
  <2>4. QED BY <2>2, <2>3
<1>5. QED BY <1>3, <1>4

(***************************************************************************)
(* The greatest of one or two numbers is one of them.                      *)
(***************************************************************************)
LEMMA MaxIsOne ==
    ASSUME NEW n \in {1, 2}, NEW S \in SUBSET (1..n), S # {}
    PROVE  JourneySpec!Max(S) \in S
<1>1. \E x \in S : \A y \in S : x >= y
  <2>1. S \subseteq {1, 2}
    OBVIOUS
  <2>2. CASE 2 \in S
    <3>1. \A y \in S : 2 >= y
      BY <2>1
    <3>2. QED BY <2>2, <3>1
  <2>3. CASE 2 \notin S
    <3>1. S = {1}
      BY <2>1, <2>3
    <3>2. QED BY <3>1
  <2>4. QED BY <2>2, <2>3
<1>2. QED BY <1>1 DEF JourneySpec!Max

\* What a request finds: typed variables, and nothing shown before a choice.
JourneyTyped == JourneySpec!TypeOK /\ JourneyInv /\ (chosen = "" => shown = {})

(***************************************************************************)
(* A request to /start keeps the types.                                    *)
(***************************************************************************)
LEMMA StartTyped ==
    ASSUME JourneyTyped, JourneySpec!JourneyAssumption,
           NEW reply \in Replies, JourneySpec!StartJourney(reply)
    PROVE  JourneySpec!TypeOK' /\ (chosen' = "" => shown' = {})
<1> DEFINE saves == JourneySpec!Saves(objective.text, reply)
           C == JourneySpec!ObjectiveCategory
           answer0 == JourneySpec!DiagnoseWithLlm(objective.text, reply)
<1>1. objective \in Objectives
  BY DEF JourneyTyped, JourneySpec!TypeOK
<1>2. PICK n \in {1, 2} : DOMAIN saves = 1..n /\ \A k \in 1..n : saves[k] \in C
  BY <1>1, SavesAreCategories
<1>3. recorded' \in C \cup {None} /\ unsaved' \in BOOLEAN
  <2>1. PICK done \in [DOMAIN saves -> BOOLEAN] :
            /\ recorded' = IF objective.known /\ {k \in DOMAIN saves : done[k]} # {}
                           THEN saves[JourneySpec!Max({k \in DOMAIN saves : done[k]})] ELSE recorded
            /\ unsaved' = (objective.known /\ \E k \in DOMAIN saves : ~done[k])
    BY DEF JourneySpec!StartJourney, JourneySpec!Record
  <2> DEFINE kept == {k \in DOMAIN saves : done[k]}
  <2>2. kept \in SUBSET (1..n)
    BY <1>2
  <2> HIDE DEF kept, saves
  <2>3. kept # {} => saves[JourneySpec!Max(kept)] \in C
    BY <1>2, <2>2, MaxIsOne
  <2>4. recorded \in C \cup {None}
    BY DEF JourneyTyped, JourneySpec!TypeOK
  <2> HIDE DEF C
  <2>5. (recorded' = saves[JourneySpec!Max(kept)] /\ kept # {}) \/ recorded' = recorded
    BY <2>1, Zenon DEF kept
  <2>6. recorded' \in C \cup {None}
    BY <2>3, <2>4, <2>5
  <2>7. unsaved' \in BOOLEAN
    BY <2>1, Zenon
  <2>8. QED BY <2>6, <2>7
<1>4. answer0 \in C
  BY <1>1, SavesAreCategories
<1>5. CodesFor(answer0) \subseteq JourneySpec!Codes
  BY RecommendedKnown DEF CodesFor
<1>6. /\ diagnosed' = answer0 /\ offered' = CodesFor(answer0)
      /\ outcome' \in {"ok", "not found"}
      /\ chosen' = "" /\ shown' = {} /\ plan' = JourneySpec!NoPlan /\ objective' = objective
  BY DEF JourneySpec!StartJourney, CodesFor
<1> HIDE DEF C, answer0, saves
<1>7. QED BY <1>1, <1>3, <1>4, <1>5, <1>6 DEF JourneySpec!TypeOK, C

(***************************************************************************)
(* So does the choice of a strategy.                                       *)
(***************************************************************************)
LEMMA SelectTyped ==
    ASSUME JourneyTyped,
           NEW code \in offered \cup {CHOOSE c \in JourneySpec!Codes : c \notin offered},
           JourneySpec!SelectStrategy(code)
    PROVE  JourneySpec!TypeOK' /\ (chosen' = "" => shown' = {})
<1>1. \E c \in JourneySpec!Codes : c \notin offered
  <2>1. CASE offered = {}
    BY <2>1, CodesListed DEF CodeList
  <2>2. CASE offered = CodesFor(diagnosed)
    BY <2>2, RecommendedKnown
  <2>3. QED BY <2>1, <2>2 DEF JourneyTyped, JourneyInv
<1>2. code \in JourneySpec!Codes
  BY <1>1 DEF JourneyTyped, JourneySpec!TypeOK
<1>3. code # ""
  BY <1>2, CodesListed DEF CodeList
<1>4. /\ chosen' = code /\ shown' = NamesFor(code) /\ outcome' \in {"ok", "not found"}
      /\ UNCHANGED <<objective, diagnosed, offered, plan, recorded, unsaved>>
  BY DEF JourneySpec!SelectStrategy, NamesFor
<1>5. shown' \subseteq JourneySpec!Names
  BY <1>4, ShownAreNames
<1>6. QED BY <1>2, <1>3, <1>4, <1>5 DEF JourneyTyped, JourneySpec!TypeOK

(***************************************************************************)
(* And that of a template.                                                 *)
(***************************************************************************)
LEMMA TemplateTyped ==
    ASSUME JourneyTyped, NEW name \in JourneySpec!Names, JourneySpec!SelectTemplate(name)
    PROVE  JourneySpec!TypeOK' /\ (chosen' = "" => shown' = {})
<1> DEFINE Plans == [strategy : JourneySpec!Codes, template : JourneySpec!Names,
                     months : 1..12, cost : {15, 50, 150}]
<1>1. UNCHANGED <<objective, diagnosed, offered, chosen, shown, recorded, unsaved>>
  BY DEF JourneySpec!SelectTemplate
<1>2. CASE plan' = plan /\ outcome' \in {"bad request", "error"}
  BY <1>1, <1>2 DEF JourneyTyped, JourneySpec!TypeOK
<1>3. ASSUME NEW s \in JourneySpec!SelectedStrategy(chosen),
             plan' = JourneySpec!CreatePlan(s, name), outcome' = "ok"
      PROVE  JourneySpec!TypeOK' /\ (chosen' = "" => shown' = {})
  <2>1. s \in JourneySpec!Elements(JourneySpec!Recommended)
    <3>1. s \in JourneySpec!Elements(JourneySpec!Recommended)
          \/ (JourneySpec!Recommended # << >> /\ s = JourneySpec!Recommended[1])
      BY DEF JourneySpec!SelectedStrategy
    <3>2. QED BY <3>1, BestIsRecommended
  <2>2. /\ s.code \in JourneySpec!Codes /\ s.complexity \in {"low", "medium", "high"}
        /\ s.months \in 1..12
    BY <2>1, RecommendedKnown DEF JourneySpec!Recommended
  <2>3. JourneySpec!estimate_cost[s.complexity] \in {15, 50, 150}
    BY <2>2 DEF JourneySpec!estimate_cost
  <2>4. plan' = [strategy |-> s.code, template |-> name, months |-> s.months,
                 cost |-> JourneySpec!estimate_cost[s.complexity]]
    BY <1>3 DEF JourneySpec!CreatePlan
  <2>5. plan' \in Plans
    BY <2>2, <2>3, <2>4
  <2>6. QED BY <1>1, <1>3, <2>5 DEF JourneyTyped, JourneySpec!TypeOK
<1>4. QED BY <1>2, <1>3 DEF JourneySpec!SelectTemplate

(***************************************************************************)
(* Every step of the journey keeps the types.                              *)
(***************************************************************************)
LEMMA JourneyTypedKept ==
    ASSUME JourneySpec!JourneyAssumption
    PROVE  JourneyTyped /\ [JourneySpec!Next]_(JourneySpec!vars) => JourneyTyped'
<1> SUFFICES ASSUME JourneyTyped, [JourneySpec!Next]_(JourneySpec!vars) PROVE JourneyTyped'
  OBVIOUS
<1>1. JourneyInv'
  BY JourneyKept DEF JourneyTyped
<1>2. CASE UNCHANGED JourneySpec!vars
  BY <1>1, <1>2 DEF JourneyTyped, JourneySpec!TypeOK, JourneySpec!vars
<1>3. CASE JourneySpec!Next
  BY <1>1, <1>3, StartTyped, SelectTyped, TemplateTyped DEF JourneySpec!Next, JourneyTyped
<1>4. QED BY <1>2, <1>3

(***************************************************************************)
(* The types hold from the beginning.                                      *)
(***************************************************************************)
LEMMA JourneyTypes == FlowSpec => []JourneyTyped
<1>1. JourneySpec!JourneyAssumption
  BY FlowAssumption
<1>2. JourneySpec!Init => JourneyTyped
  BY DEF JourneySpec!Init, JourneyTyped, JourneyInv, JourneySpec!TypeOK,
         HistoryTellsAnswer, JourneySpec!HistoryTellsAnswer
<1>3. JourneyTyped /\ [JourneySpec!Next]_(JourneySpec!vars) => JourneyTyped'
  BY <1>1, JourneyTypedKept
<1>4. QED BY <1>2, <1>3, JourneyFollows, PTL DEF JourneySpec!Spec

(***************************************************************************)
(* The variables of the four parts keep their types.                       *)
(***************************************************************************)
THEOREM FlowsTyped == FlowSpec => []FlowTypeOK
<1>1. JourneyTyped /\ ChoiceInv /\ WalletInv /\ SecretInv => FlowTypeOK
  BY DEF JourneyTyped, ChoiceInv, WalletInv, SecretInv, FlowTypeOK
<1>2. SecretAssumption
  BY FlowAssumption
<1>3. FlowSpec => Spec
  <2>1. FlowInit => Init
    BY DEF FlowInit
  <2>2. [FlowNext]_flowVars => [Next]_vars
    BY DEF FlowNext, JourneyStep, ChoiceStep, WalletStep, SecretStep, flowVars, vars
  <2>3. QED BY <2>1, <2>2, PTL DEF FlowSpec, Spec
<1>4. Spec => []SecretInv
  BY <1>2, SecretsHold
<1>5. QED BY <1>1, <1>3, <1>4, JourneyTypes, ChoicesHold, WalletsHold, PTL

(***************************************************************************)
(* The templates of a strategy depend on its code alone.                   *)
(***************************************************************************)
LEMMA TemplatesOfCode ==
    ASSUME NEW s, NEW t, s.code = t.code
    PROVE  JourneySpec!TemplateNames(s) = JourneySpec!TemplateNames(t)
BY DEF JourneySpec!TemplateNames, JourneySpec!Templates, JourneySpec!RecommendTemplates,
       JourneySpec!ScoreTemplate

(***************************************************************************)
(* Whatever the objective, an offered strategy leads to a template and a   *)
(* shown template to a plan, unless the model has seen the objective in    *)
(* another category than the keywords: every code of every category is the *)
(* kind of a seed that scores enough, and what a strategy shows depends on *)
(* its code alone.                                                         *)
(***************************************************************************)
THEOREM NoJourneyIsStuck == FlowSpec => NoDeadEnd
<1> DEFINE Leads ==
        /\ \A code \in offered :
              JourneySpec!SameDiagnosis /\ JourneySpec!SelectStrategy(code) => outcome' = "ok"
        /\ \A name \in shown :
              JourneySpec!SameDiagnosis /\ JourneySpec!SelectTemplate(name) => outcome' = "ok"
<1>1. JourneyTyped => Leads
  <2> SUFFICES ASSUME JourneyTyped PROVE Leads
    OBVIOUS
  <2>1. ASSUME NEW code \in offered, JourneySpec!SameDiagnosis, JourneySpec!SelectStrategy(code)
        PROVE  outcome' = "ok"
    <3>1. CodesFor(diagnosed) = {t.code : t \in JourneySpec!Elements(JourneySpec!Recommended)}
      BY <2>1 DEF CodesFor, JourneySpec!Recommended, JourneySpec!SameDiagnosis
    <3>2. PICK s \in JourneySpec!Elements(JourneySpec!Recommended) : s.code = code
      BY <3>1 DEF JourneyTyped, JourneyInv
    <3>3. s.code \in CodeList
      BY RecommendedKnown, CodesListed DEF JourneySpec!Recommended
    <3>4. JourneySpec!TemplateNames(s) # {}
      BY <3>3, TemplatesFor DEF JourneySpec!TemplateNames, JourneySpec!Templates
    <3>5. shown' = NamesFor(code) /\ outcome' = IF shown' = {} THEN "not found" ELSE "ok"
      BY <2>1 DEF JourneySpec!SelectStrategy, NamesFor
    <3>6. NamesFor(code) # {}
      BY <3>2, <3>4 DEF NamesFor
    <3>7. QED BY <3>5, <3>6
  <2>2. ASSUME NEW name \in shown, JourneySpec!SelectTemplate(name)
        PROVE  outcome' = "ok"
    <3>1. name \in NamesFor(chosen)
      BY DEF JourneyTyped, JourneyInv
    <3>2. PICK t \in JourneySpec!Elements(JourneySpec!Recommended) :
              t.code = chosen /\ name \in JourneySpec!TemplateNames(t)
      BY <3>1 DEF NamesFor
    <3>3. JourneySpec!SelectedStrategy(chosen) =
              {s \in JourneySpec!Elements(JourneySpec!Recommended) : s.code = chosen}
      BY <3>2 DEF JourneySpec!SelectedStrategy
    <3>4. t \in JourneySpec!SelectedStrategy(chosen)
      BY <3>2, <3>3
    <3>5. \A s \in JourneySpec!SelectedStrategy(chosen) : name \in JourneySpec!TemplateNames(s)
      BY <3>2, <3>3, TemplatesOfCode
    <3>6. QED BY <2>2, <3>4, <3>5 DEF JourneySpec!SelectTemplate
  <2>3. QED BY <2>1, <2>2
<1>2. JourneyTyped /\ [JourneySpec!Next]_(JourneySpec!vars) => [Leads]_(JourneySpec!vars)
  BY <1>1
<1>3. QED BY <1>2, JourneyTypes, JourneyFollows, PTL
          DEF JourneySpec!Spec, NoDeadEnd, JourneySpec!NoDeadEnd

=============================================================================
