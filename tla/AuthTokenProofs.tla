-------------------------- MODULE AuthTokenProofs --------------------------
(***************************************************************************)
(* The one-time promise of AuthToken for any number of tokens, requests    *)
(* and connections, and any time to live.                                  *)
(*                                                                         *)
(* That at most one request is admitted per token is not inductive: it     *)
(* rests on who took the row (Spent), on the step each request is at       *)
(* (Placed), and on the fate of each token (Kept).                         *)
(***************************************************************************)
EXTENDS AuthToken, TLAPS

\* A request that took its row did so with its own DELETE.
Spent(r) ==
    took[r] => /\ tok[r] \notin rows
               /\ kind[r] = "use"
               /\ pc[r] \in {"deleted", "admitted", "failed", "lost"}

\* What the step a request is at says of its token.
Placed(r) ==
    /\ pc[r] # "new" => gen[tok[r]] = "issued"
    /\ pc[r] \in {"want_delete", "delete", "deleted"} => kind[r] = "use"
    /\ pc[r] = "admitted" => took[r]
    /\ pc[r] \in {"deleted", "already_used", "unknown"} => tok[r] \notin rows
    /\ pc[r] = "selected" /\ ~found[r] => tok[r] \notin rows

\* A row belongs to a generated token, and disappears only when it is taken.
Kept(t) ==
    /\ t \in rows => gen[t] \in {"issued", "void"}
    /\ gen[t] = "issued" /\ t \notin rows => \E s \in Requests : tok[s] = t /\ took[s]

\* No two requests took the row of one token.
TakenOnce ==
    \A r, s \in Requests : took[r] /\ took[s] /\ tok[r] = tok[s] => r = s

IInv ==
    /\ TypeOK
    /\ \A r \in Requests : Spent(r) /\ Placed(r)
    /\ \A t \in Tokens : Kept(t)
    /\ TakenOnce

-----------------------------------------------------------------------------
(***************************************************************************)
(* The clock and the time to live are natural numbers.                     *)
(***************************************************************************)
LEMMA ClockFacts ==
    /\ TTL \in Nat /\ TTL > 0
    /\ MaxClock \in Nat
    /\ \A n \in 0..MaxClock : n + TTL \in 0..(MaxClock + TTL)
BY AuthAssumption

(***************************************************************************)
(* Every step keeps the types.                                             *)
(***************************************************************************)
LEMMA TypeStep == TypeOK /\ [Next]_vars => TypeOK'
<1> SUFFICES ASSUME TypeOK, [Next]_vars PROVE TypeOK'
  OBVIOUS
<1> USE DEF Running, Ended, GenSteps
<1>1. ASSUME NEW t \in Tokens, Sign(t) PROVE TypeOK'
  <2>1. clock + TTL \in 0..(MaxClock + TTL)
    BY ClockFacts DEF TypeOK
  <2>2. expires' \in [Tokens -> 0..(MaxClock + TTL)]
    BY <1>1, <2>1 DEF Sign, TypeOK
  <2>3. QED BY <1>1, <2>2 DEF Sign, TypeOK
<1>2. ASSUME NEW t \in Tokens, GenerateStep(t) PROVE TypeOK'
  BY <1>2 DEF GenerateStep, AcquireForInsert, Insert, InsertFails, TypeOK
<1>3. ASSUME NEW r \in Requests, Present(r) PROVE TypeOK'
  BY <1>3 DEF Present, Goto, TypeOK
<1>4. ASSUME NEW r \in Requests, AcquireForSelect(r) \/ SelectFails(r) \/ AcquireForDelete(r)
      PROVE  TypeOK'
  BY <1>4 DEF AcquireForSelect, SelectFails, AcquireForDelete, Goto, TypeOK
<1>5. ASSUME NEW r \in Requests, Select(r) PROVE TypeOK'
  BY <1>5 DEF Select, Goto, TypeOK
<1>6. ASSUME NEW r \in Requests, Judge(r) PROVE TypeOK'
  BY <1>6 DEF Judge, Goto, TypeOK
<1>7. ASSUME NEW r \in Requests, Delete(r) \/ DeleteFails(r) PROVE TypeOK'
  <2>1. pc' \in [Requests -> {"new"} \cup Running \cup Ended]
    BY <1>7 DEF Delete, DeleteFails, Goto, TypeOK
  <2>2. rows' \in SUBSET Tokens /\ took' \in [Requests -> BOOLEAN]
    <3>1. (tok[r] \in rows) \in BOOLEAN
      OBVIOUS
    <3>2. QED BY <1>7, <3>1 DEF Delete, DeleteFails, TypeOK
  <2>3. UNCHANGED <<clock, gen, expires, tok, kind, found>>
    BY <1>7 DEF Delete, DeleteFails
  <2>4. QED BY <2>1, <2>2, <2>3 DEF TypeOK
<1>8. ASSUME NEW r \in Requests, Settle(r) PROVE TypeOK'
  BY <1>8 DEF Settle, Goto, TypeOK
<1>9. CASE Crash
  <2>1. pc' \in [Requests -> {"new"} \cup Running \cup Ended]
    BY <1>9 DEF Crash, TypeOK
  <2>2. gen' \in [Tokens -> GenSteps]
    BY <1>9 DEF Crash, TypeOK
  <2>3. QED BY <1>9, <2>1, <2>2 DEF Crash, TypeOK
<1>10. CASE Tick
  BY <1>10, ClockFacts DEF Tick, TypeOK
<1>11. CASE UNCHANGED vars
  BY <1>11 DEF vars, TypeOK
<1>12. QED
  BY <1>1, <1>2, <1>3, <1>4, <1>5, <1>6, <1>7, <1>8, <1>9, <1>10, <1>11
  DEF Next, RequestStep

(***************************************************************************)
(* Type correctness, for every number of tokens and requests.              *)
(***************************************************************************)
THEOREM TypeCorrect == Spec => []TypeOK
<1>1. Init => TypeOK
  BY ClockFacts DEF Init, TypeOK, GenSteps, Running, Ended
<1>2. QED BY <1>1, TypeStep, PTL DEF Spec

-----------------------------------------------------------------------------
(***************************************************************************)
(* A step of one request that touches no row disturbs nobody else.         *)
(***************************************************************************)
LEMMA OneMoves ==
    ASSUME IInv, TypeOK', NEW r \in Requests,
           UNCHANGED <<gen, rows, tok, kind, took>>,
           \A q \in Requests \ {r} : pc'[q] = pc[q] /\ found'[q] = found[q],
           Spent(r)', Placed(r)'
    PROVE  IInv'
<1>1. ASSUME NEW q \in Requests PROVE Spent(q)' /\ Placed(q)'
  <2>1. CASE q = r
    BY <2>1
  <2>2. CASE q # r
    BY <2>2 DEF IInv, Spent, Placed
  <2>3. QED BY <2>1, <2>2
<1>2. ASSUME NEW t \in Tokens PROVE Kept(t)'
  BY DEF IInv, Kept
<1>3. TakenOnce'
  BY DEF IInv, TakenOnce
<1>4. QED BY <1>1, <1>2, <1>3 DEF IInv

(***************************************************************************)
(* The DELETE of one request, whether or not its answer arrives.           *)
(***************************************************************************)
LEMMA DeleteKeeps ==
    ASSUME IInv, TypeOK', NEW r \in Requests, pc[r] = "delete",
           NEW step \in {"deleted", "failed"}, Goto(r, step),
           took' = [took EXCEPT ![r] = tok[r] \in rows],
           rows' = rows \ {tok[r]},
           UNCHANGED <<gen, tok, kind, found>>
    PROVE  IInv'
<1>0. /\ TypeOK
      /\ \A q \in Requests : Spent(q) /\ Placed(q)
      /\ \A t \in Tokens : Kept(t)
      /\ TakenOnce
  BY DEF IInv
<1>1. /\ pc'[r] = step
      /\ took'[r] <=> tok[r] \in rows
      /\ \A q \in Requests \ {r} : pc'[q] = pc[q] /\ took'[q] = took[q]
  BY <1>0 DEF Goto, TypeOK
<1>2. gen[tok[r]] = "issued" /\ kind[r] = "use"
  BY <1>0 DEF Placed
<1>3. ASSUME NEW q \in Requests PROVE Spent(q)' /\ Placed(q)'
  <2>1. CASE q = r
    BY <1>1, <1>2, <2>1 DEF Spent, Placed
  <2>2. CASE q # r
    BY <1>0, <1>1, <2>2 DEF Spent, Placed
  <2>3. QED BY <2>1, <2>2
<1>4. ASSUME NEW t \in Tokens PROVE Kept(t)'
  <2>1. CASE t = tok[r] /\ t \in rows
    BY <1>1, <2>1 DEF Kept
  <2>2. CASE t # tok[r] \/ t \notin rows
    <3>1. ~took[r]
      BY <1>0 DEF Spent
    <3>2. \A s \in Requests : took[s] => took'[s]
      BY <1>1, <3>1
    <3>3. t \in rows' <=> t \in rows
      BY <2>2
    <3>4. QED BY <1>0, <3>2, <3>3 DEF Kept
  <2>3. QED BY <2>1, <2>2
<1>5. TakenOnce'
  <2> SUFFICES ASSUME NEW p \in Requests, NEW q \in Requests,
                      took'[p], took'[q], tok[p] = tok[q]
               PROVE  p = q
    BY DEF TakenOnce
  <2>1. CASE p = r /\ q # r
    BY <1>0, <1>1, <2>1 DEF Spent
  <2>2. CASE p # r /\ q = r
    BY <1>0, <1>1, <2>2 DEF Spent
  <2>3. CASE p # r /\ q # r
    BY <1>0, <1>1, <2>3 DEF TakenOnce
  <2>4. QED BY <2>1, <2>2, <2>3
<1>6. QED BY <1>3, <1>4, <1>5 DEF IInv

(***************************************************************************)
(* A step of the generation of a token other than its INSERT.              *)
(***************************************************************************)
LEMMA GenerationMoves ==
    ASSUME IInv, TypeOK', NEW t \in Tokens, gen[t] # "issued", t \notin rows,
           NEW step \in {"signed", "inserting"}, gen' = [gen EXCEPT ![t] = step],
           UNCHANGED <<rows, pc, tok, kind, found, took>>
    PROVE  IInv'
<1>0. /\ TypeOK
      /\ \A q \in Requests : Spent(q) /\ Placed(q)
      /\ \A u \in Tokens : Kept(u)
      /\ TakenOnce
  BY DEF IInv
<1>1. \A u \in Tokens : gen'[u] = IF u = t THEN step ELSE gen[u]
  BY <1>0 DEF TypeOK
<1>2. ASSUME NEW q \in Requests PROVE Spent(q)' /\ Placed(q)'
  <2>1. tok[q] \in Tokens
    BY <1>0 DEF TypeOK
  <2>2. QED BY <1>0, <1>1, <2>1 DEF Spent, Placed
<1>3. ASSUME NEW u \in Tokens PROVE Kept(u)'
  BY <1>0, <1>1 DEF Kept
<1>4. TakenOnce'
  BY <1>0 DEF TakenOnce
<1>5. QED BY <1>2, <1>3, <1>4 DEF IInv

(***************************************************************************)
(* The INSERT, whether it is known to have succeeded or not.               *)
(***************************************************************************)
LEMMA InsertKeeps ==
    ASSUME IInv, TypeOK', NEW t \in Tokens, gen[t] = "inserting",
           \/ gen' = [gen EXCEPT ![t] = "issued"] /\ rows' = rows \cup {t}
           \/ gen' = [gen EXCEPT ![t] = "void"] /\ rows' \in {rows, rows \cup {t}},
           UNCHANGED <<pc, tok, kind, found, took>>
    PROVE  IInv'
<1>0. /\ TypeOK
      /\ \A q \in Requests : Spent(q) /\ Placed(q)
      /\ \A u \in Tokens : Kept(u)
      /\ TakenOnce
  BY DEF IInv
<1>1. ASSUME NEW u \in Tokens \ {t}
      PROVE  gen'[u] = gen[u] /\ (u \in rows' <=> u \in rows)
  BY <1>0 DEF TypeOK
<1>2. /\ gen'[t] \in {"issued", "void"}
      /\ gen'[t] = "issued" => t \in rows'
  BY <1>0 DEF TypeOK
<1>3. ASSUME NEW q \in Requests, pc[q] # "new" PROVE tok[q] \in Tokens \ {t}
  BY <1>0, <1>3 DEF Placed, TypeOK
<1>4. ASSUME NEW q \in Requests PROVE Spent(q)' /\ Placed(q)'
  BY <1>0, <1>1, <1>3 DEF Spent, Placed
<1>5. ASSUME NEW u \in Tokens PROVE Kept(u)'
  BY <1>0, <1>1, <1>2 DEF Kept
<1>6. TakenOnce'
  BY <1>0 DEF TakenOnce
<1>7. QED BY <1>4, <1>5, <1>6 DEF IInv

(***************************************************************************)
(* Every step keeps the inductive invariant.                               *)
(***************************************************************************)
LEMMA InvStep == IInv /\ [Next]_vars => IInv'
<1> SUFFICES ASSUME IInv, [Next]_vars PROVE IInv'
  OBVIOUS
<1>0. /\ TypeOK
      /\ TypeOK'
      /\ \A q \in Requests : Spent(q) /\ Placed(q)
      /\ \A u \in Tokens : Kept(u)
      /\ TakenOnce
  BY TypeStep DEF IInv
<1>1. ASSUME NEW t \in Tokens, Sign(t) PROVE IInv'
  <2>1. t \notin rows /\ gen[t] # "issued"
    BY <1>0, <1>1 DEF Kept, Sign
  <2>2. QED BY <1>0, <1>1, <2>1, GenerationMoves DEF Sign
<1>2. ASSUME NEW t \in Tokens, AcquireForInsert(t) PROVE IInv'
  <2>1. t \notin rows /\ gen[t] # "issued"
    BY <1>0, <1>2 DEF Kept, AcquireForInsert
  <2>2. QED BY <1>0, <1>2, <2>1, GenerationMoves DEF AcquireForInsert
<1>3. ASSUME NEW t \in Tokens, Insert(t) \/ InsertFails(t) PROVE IInv'
  BY <1>0, <1>3, InsertKeeps DEF Insert, InsertFails
<1>4. ASSUME NEW r \in Requests, Present(r) PROVE IInv'
  <2>1. Spent(r)' /\ Placed(r)'
    BY <1>0, <1>4 DEF Present, Goto, Spent, Placed, TypeOK
  <2>2. QED BY <1>0, <1>4, <2>1, OneMoves DEF Present, Goto, TypeOK
<1>5. ASSUME NEW r \in Requests, AcquireForSelect(r) PROVE IInv'
  <2>1. Spent(r)' /\ Placed(r)'
    BY <1>0, <1>5 DEF AcquireForSelect, Goto, Spent, Placed, TypeOK
  <2>2. QED BY <1>0, <1>5, <2>1, OneMoves DEF AcquireForSelect, Goto, TypeOK
<1>6. ASSUME NEW r \in Requests, Select(r) PROVE IInv'
  <2>1. Spent(r)' /\ Placed(r)'
    BY <1>0, <1>6 DEF Select, Goto, Spent, Placed, TypeOK
  <2>2. QED BY <1>0, <1>6, <2>1, OneMoves DEF Select, Goto, TypeOK
<1>7. ASSUME NEW r \in Requests, SelectFails(r) PROVE IInv'
  <2>1. Spent(r)' /\ Placed(r)'
    BY <1>0, <1>7 DEF SelectFails, Goto, Spent, Placed, TypeOK
  <2>2. QED BY <1>0, <1>7, <2>1, OneMoves DEF SelectFails, Goto, TypeOK
<1>8. ASSUME NEW r \in Requests, Judge(r) PROVE IInv'
  <2>1. Spent(r)' /\ Placed(r)'
    BY <1>0, <1>8 DEF Judge, Goto, Spent, Placed, TypeOK
  <2>2. QED BY <1>0, <1>8, <2>1, OneMoves DEF Judge, Goto, TypeOK
<1>9. ASSUME NEW r \in Requests, AcquireForDelete(r) PROVE IInv'
  <2>1. Spent(r)' /\ Placed(r)'
    BY <1>0, <1>9 DEF AcquireForDelete, Goto, Spent, Placed, TypeOK
  <2>2. QED BY <1>0, <1>9, <2>1, OneMoves DEF AcquireForDelete, Goto, TypeOK
<1>10. ASSUME NEW r \in Requests, Delete(r) PROVE IInv'
  BY <1>0, <1>10, DeleteKeeps DEF Delete
<1>11. ASSUME NEW r \in Requests, DeleteFails(r) PROVE IInv'
  <2>1. CASE UNCHANGED <<rows, took>>
    <3>1. Spent(r)' /\ Placed(r)'
      BY <1>0, <1>11, <2>1 DEF DeleteFails, Goto, Spent, Placed, TypeOK
    <3>2. QED BY <1>0, <1>11, <2>1, <3>1, OneMoves DEF DeleteFails, Goto, TypeOK
  <2>2. CASE /\ took' = [took EXCEPT ![r] = tok[r] \in rows]
             /\ rows' = rows \ {tok[r]}
    BY <1>0, <1>11, <2>2, DeleteKeeps DEF DeleteFails
  <2>3. QED BY <1>11, <2>1, <2>2 DEF DeleteFails
<1>12. ASSUME NEW r \in Requests, Settle(r) PROVE IInv'
  <2>1. Spent(r)' /\ Placed(r)'
    BY <1>0, <1>12 DEF Settle, Goto, Spent, Placed, TypeOK
  <2>2. QED BY <1>0, <1>12, <2>1, OneMoves DEF Settle, Goto, TypeOK
<1>13. CASE Crash
  <2>1. ASSUME NEW q \in Requests PROVE Spent(q)' /\ Placed(q)'
    <3>1. pc'[q] = IF pc[q] \in Running THEN "lost" ELSE pc[q]
      BY <1>13 DEF Crash
    <3>2. gen[tok[q]] = "issued" => gen'[tok[q]] = "issued"
      BY <1>0, <1>13 DEF Crash, TypeOK
    <3>3. QED BY <1>0, <1>13, <3>1, <3>2 DEF Crash, Running, Spent, Placed
  <2>2. ASSUME NEW t \in Tokens PROVE Kept(t)'
    <3>1. gen'[t] = IF gen[t] \in {"signed", "inserting"} THEN "void" ELSE gen[t]
      BY <1>13 DEF Crash
    <3>2. QED BY <1>0, <1>13, <3>1 DEF Crash, Kept
  <2>3. TakenOnce'
    BY <1>0, <1>13 DEF Crash, TakenOnce
  <2>4. QED BY <1>0, <2>1, <2>2, <2>3 DEF IInv
<1>14. CASE UNCHANGED <<gen, rows, pc, tok, kind, found, took>>
  BY <1>0, <1>14 DEF IInv, Spent, Placed, Kept, TakenOnce
<1>15. QED
  BY <1>1, <1>2, <1>3, <1>4, <1>5, <1>6, <1>7, <1>8, <1>9, <1>10, <1>11, <1>12,
     <1>13, <1>14
  DEF Next, GenerateStep, RequestStep, Tick, vars

(***************************************************************************)
(* The inductive invariant holds of every run.                             *)
(***************************************************************************)
LEMMA InvCorrect == Spec => []IInv
<1>1. Init => IInv
  <2> SUFFICES ASSUME Init PROVE IInv
    OBVIOUS
  <2>1. TypeOK
    BY ClockFacts DEF Init, TypeOK, GenSteps, Running, Ended
  <2>2. QED BY <2>1 DEF Init, IInv, Spent, Placed, Kept, TakenOnce
<1>2. QED BY <1>1, InvStep, PTL DEF Spec

(***************************************************************************)
(* At most one request is let through per token, for any number of         *)
(* requests racing with it.                                                *)
(***************************************************************************)
THEOREM AdmittedAtMostOnce == Spec => []AtMostOnce
<1>1. IInv => AtMostOnce
  BY DEF IInv, AtMostOnce, Placed, TakenOnce
<1>2. QED BY <1>1, InvCorrect, PTL

(***************************************************************************)
(* A client is refused for a used or unknown token only when the DELETE of *)
(* another request has taken it.                                           *)
(***************************************************************************)
THEOREM RefusalIsDeserved == Spec => []RefusedOnlyIfBeaten
<1>1. IInv => RefusedOnlyIfBeaten
  <2> SUFFICES ASSUME IInv, NEW r \in Requests, pc[r] \in {"unknown", "already_used"}
               PROVE  \E s \in Requests \ {r} : tok[s] = tok[r] /\ kind[s] = "use" /\ took[s]
    BY DEF RefusedOnlyIfBeaten
  <2>1. tok[r] \in Tokens /\ gen[tok[r]] = "issued" /\ tok[r] \notin rows
    BY DEF IInv, TypeOK, Placed
  <2>2. PICK s \in Requests : tok[s] = tok[r] /\ took[s]
    BY <2>1 DEF IInv, Kept
  <2>3. s # r /\ kind[s] = "use"
    BY <2>2 DEF IInv, Spent
  <2>4. QED BY <2>2, <2>3
<1>2. QED BY <1>1, InvCorrect, PTL

-----------------------------------------------------------------------------
\* The refinement mapping of OneTime, named.
SpentBy == [t \in Tokens |-> {r \in Requests : tok[r] = t /\ took[r]}]
Admitted == {r \in Requests : pc[r] = "admitted"}

(***************************************************************************)
(* The abstract actions in terms of the mapping.                           *)
(***************************************************************************)
LEMMA AbstractActions ==
    ASSUME NEW t \in Tokens
    PROVE  /\ /\ t \notin rows /\ SpentBy[t] = {}
              /\ rows' = rows \cup {t} /\ SpentBy' = SpentBy /\ Admitted' = Admitted
              => OneTime!Next
           /\ \A r \in Requests :
                /\ t \in rows /\ rows' = rows \ {t}
                /\ SpentBy' = [SpentBy EXCEPT ![t] = {r}] /\ Admitted' = Admitted
                => OneTime!Next
           /\ \A r \in Requests :
                /\ SpentBy[t] = {r} /\ r \notin Admitted
                /\ Admitted' = Admitted \cup {r} /\ SpentBy' = SpentBy /\ rows' = rows
                => OneTime!Next
<1>1. ASSUME t \notin rows, SpentBy[t] = {}, rows' = rows \cup {t},
             SpentBy' = SpentBy, Admitted' = Admitted
      PROVE  OneTime!Next
  <2>1. OneTime!Issue(t)
    BY <1>1 DEF OneTime!Issue, SpentBy, Admitted
  <2>2. QED BY <2>1 DEF OneTime!Next
<1>2. ASSUME NEW r \in Requests, t \in rows, rows' = rows \ {t},
             SpentBy' = [SpentBy EXCEPT ![t] = {r}], Admitted' = Admitted
      PROVE  OneTime!Next
  <2>1. OneTime!Spend(r, t)
    BY <1>2 DEF OneTime!Spend, SpentBy, Admitted
  <2>2. QED BY <2>1 DEF OneTime!Next
<1>3. ASSUME NEW r \in Requests, SpentBy[t] = {r}, r \notin Admitted,
             Admitted' = Admitted \cup {r}, SpentBy' = SpentBy, rows' = rows
      PROVE  OneTime!Next
  <2>1. OneTime!Admit(r, t)
    BY <1>3 DEF OneTime!Admit, SpentBy, Admitted
  <2>2. QED BY <2>1 DEF OneTime!Next
<1>4. QED BY <1>1, <1>2, <1>3

(***************************************************************************)
(* A DELETE that took effect spends the token, or changes nothing.         *)
(***************************************************************************)
LEMMA DeleteSimulates ==
    ASSUME IInv, NEW r \in Requests, pc[r] = "delete",
           NEW step \in {"deleted", "failed"}, Goto(r, step),
           took' = [took EXCEPT ![r] = tok[r] \in rows],
           rows' = rows \ {tok[r]}, tok' = tok
    PROVE  OneTime!Next \/ UNCHANGED <<rows, SpentBy, Admitted>>
<1>0. TypeOK /\ tok[r] \in Tokens /\ \A q \in Requests : Spent(q)
  BY DEF IInv, TypeOK
<1>1. Admitted' = Admitted
  BY <1>0 DEF Admitted, Goto, TypeOK
<1>2. ~took[r]
  BY <1>0 DEF Spent
<1>3. CASE tok[r] \in rows
  <2>1. \A q \in Requests : took'[q] <=> took[q] \/ q = r
    BY <1>0, <1>3 DEF TypeOK
  <2>2. \A q \in Requests : took[q] => tok[q] # tok[r]
    BY <1>0, <1>3 DEF Spent
  <2>3. ASSUME NEW t \in Tokens
        PROVE  {q \in Requests : tok[q] = t /\ took'[q]}
                 = IF t = tok[r] THEN {r} ELSE {q \in Requests : tok[q] = t /\ took[q]}
    BY <2>1, <2>2
  <2>4. SpentBy' = [SpentBy EXCEPT ![tok[r]] = {r}]
    BY <2>3 DEF SpentBy
  <2>5. QED BY <1>0, <1>1, <1>3, <2>4, AbstractActions
<1>4. CASE tok[r] \notin rows
  <2>1. rows' = rows
    BY <1>4
  <2>2. \A q \in Requests : took'[q] <=> took[q]
    BY <1>0, <1>2, <1>4 DEF TypeOK
  <2>3. SpentBy' = SpentBy
    BY <2>2 DEF SpentBy
  <2>4. QED BY <1>1, <2>1, <2>3
<1>5. QED BY <1>3, <1>4

(***************************************************************************)
(* Every step of the service is a step of the promise, or leaves it alone. *)
(***************************************************************************)
LEMMA StepSimulates ==
    ASSUME IInv, [Next]_vars
    PROVE  OneTime!Next \/ UNCHANGED <<rows, SpentBy, Admitted>>
<1>0. /\ TypeOK
      /\ \A q \in Requests : Spent(q) /\ Placed(q)
      /\ \A u \in Tokens : Kept(u)
      /\ TakenOnce
  BY DEF IInv
<1>1. ASSUME UNCHANGED <<took, tok>> PROVE SpentBy' = SpentBy
  BY <1>1 DEF SpentBy
<1>2. ASSUME NEW r \in Requests, NEW step, Goto(r, step), step # "admitted",
             pc[r] # "admitted"
      PROVE  Admitted' = Admitted
  BY <1>0, <1>2 DEF Goto, Admitted, TypeOK
<1>3. ASSUME pc' = pc PROVE Admitted' = Admitted
  BY <1>3 DEF Admitted
<1>4. ASSUME NEW t \in Tokens, Sign(t) \/ AcquireForInsert(t)
      PROVE  UNCHANGED <<rows, SpentBy, Admitted>>
  BY <1>1, <1>3, <1>4 DEF Sign, AcquireForInsert
<1>5. ASSUME NEW t \in Tokens, Insert(t) \/ InsertFails(t)
      PROVE  OneTime!Next \/ UNCHANGED <<rows, SpentBy, Admitted>>
  <2>1. gen[t] = "inserting" /\ UNCHANGED <<pc, tok, took>> /\ rows' \in {rows, rows \cup {t}}
    BY <1>5 DEF Insert, InsertFails
  <2>2. t \notin rows
    BY <1>0, <2>1 DEF Kept
  <2>3. ASSUME NEW r \in Requests, took[r] PROVE tok[r] # t
    BY <1>0, <2>1, <2>3 DEF Spent, Placed
  <2>4. SpentBy[t] = {}
    BY <2>3 DEF SpentBy
  <2>5. SpentBy' = SpentBy /\ Admitted' = Admitted
    BY <1>1, <1>3, <2>1
  <2>6. QED BY <2>1, <2>2, <2>4, <2>5, AbstractActions
<1>6. ASSUME NEW r \in Requests, Present(r)
      PROVE  UNCHANGED <<rows, SpentBy, Admitted>>
  BY <1>1, <1>2, <1>6 DEF Present
<1>7. ASSUME NEW r \in Requests,
             \/ AcquireForSelect(r) \/ Select(r) \/ SelectFails(r)
             \/ Judge(r) \/ AcquireForDelete(r)
      PROVE  UNCHANGED <<rows, SpentBy, Admitted>>
  <2>1. UNCHANGED <<rows, took, tok>>
    BY <1>7 DEF AcquireForSelect, Select, SelectFails, Judge, AcquireForDelete
  <2>2. Admitted' = Admitted
    BY <1>2, <1>7 DEF AcquireForSelect, Select, SelectFails, Judge, AcquireForDelete
  <2>3. QED BY <1>1, <2>1, <2>2
<1>8. ASSUME NEW r \in Requests, Delete(r)
      PROVE  OneTime!Next \/ UNCHANGED <<rows, SpentBy, Admitted>>
  BY <1>8, DeleteSimulates DEF Delete
<1>9. ASSUME NEW r \in Requests, DeleteFails(r)
      PROVE  OneTime!Next \/ UNCHANGED <<rows, SpentBy, Admitted>>
  <2>1. CASE UNCHANGED <<rows, took>>
    BY <1>1, <1>2, <1>9, <2>1 DEF DeleteFails
  <2>2. CASE /\ took' = [took EXCEPT ![r] = tok[r] \in rows]
             /\ rows' = rows \ {tok[r]}
    BY <1>9, <2>2, DeleteSimulates DEF DeleteFails
  <2>3. QED BY <1>9, <2>1, <2>2 DEF DeleteFails
<1>10. ASSUME NEW r \in Requests, Settle(r)
       PROVE  OneTime!Next \/ UNCHANGED <<rows, SpentBy, Admitted>>
  <2>1. pc[r] = "deleted" /\ UNCHANGED <<rows, tok, took>>
    BY <1>10 DEF Settle
  <2>2. SpentBy' = SpentBy
    BY <1>1, <2>1
  <2>3. CASE took[r]
    <3>1. tok[r] \in Tokens
      BY <1>0 DEF TypeOK
    <3>2. {q \in Requests : tok[q] = tok[r] /\ took[q]} = {r}
      BY <1>0, <2>3 DEF TakenOnce
    <3>3. SpentBy[tok[r]] = {r}
      BY <3>1, <3>2 DEF SpentBy
    <3>4. Admitted' = Admitted \cup {r} /\ r \notin Admitted
      BY <1>0, <1>10, <2>1, <2>3 DEF Settle, Goto, Admitted, TypeOK
    <3>5. QED BY <2>1, <2>2, <3>1, <3>3, <3>4, AbstractActions
  <2>4. CASE ~took[r]
    BY <1>2, <1>10, <2>1, <2>2, <2>4 DEF Settle
  <2>5. QED BY <2>3, <2>4
<1>11. CASE Crash
  <2>1. Admitted' = Admitted
    BY <1>0, <1>11 DEF Crash, Admitted, Running
  <2>2. QED BY <1>1, <1>11, <2>1 DEF Crash
<1>12. CASE Tick
  BY <1>1, <1>3, <1>12 DEF Tick
<1>13. CASE UNCHANGED vars
  BY <1>1, <1>3, <1>13 DEF vars
<1>14. QED
  BY <1>4, <1>5, <1>6, <1>7, <1>8, <1>9, <1>10, <1>11, <1>12, <1>13
  DEF Next, GenerateStep, RequestStep

(***************************************************************************)
(* The service implements the one-time promise, for any number of tokens,  *)
(* requests and connections: crashes and failed statements included.       *)
(***************************************************************************)
THEOREM KeepsThePromise == Spec => ImplementsOneTime
<1>1. Init => OneTime!Init
  <2> SUFFICES ASSUME Init PROVE OneTime!Init
    OBVIOUS
  <2>1. \A t \in Tokens : {r \in Requests : tok[r] = t /\ took[r]} = {}
    BY DEF Init
  <2>2. {r \in Requests : pc[r] = "admitted"} = {}
    BY DEF Init
  <2>3. QED BY <2>1, <2>2 DEF Init, OneTime!Init
<1>2. IInv /\ [Next]_vars => [OneTime!Next]_(OneTime!oneTimeVars)
  BY StepSimulates DEF OneTime!oneTimeVars, SpentBy, Admitted
<1>3. QED BY <1>1, <1>2, InvCorrect, PTL DEF Spec, OneTime!Spec, ImplementsOneTime

=============================================================================
