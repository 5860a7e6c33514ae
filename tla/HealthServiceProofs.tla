------------------------ MODULE HealthServiceProofs ------------------------
(***************************************************************************)
(* The types of HealthService, and that it invents no staleness, for any   *)
(* number of overlapping checks, any threshold and any height of the       *)
(* chain.                                                                  *)
(*                                                                         *)
(* StaleIsGenuine compares the age of a record with the time the node has  *)
(* stood still.  It is inductive once it is known that no record, written  *)
(* or about to be, is older than its block: neither as the head of the     *)
(* node (NotAhead), nor as the answer another check has got (NotOlder).    *)
(***************************************************************************)
EXTENDS HealthService, TLAPS

\* The record holds a block the node has had at least since the record's date.
NotAhead(r) ==
    /\ r.block <= head
    /\ r.block = head => r.age <= headAge

\* If it holds the block check c was answered, then c knows a time as long.
NotOlder(r, c) == r.block = block[c] => r.age <= still[c]

AnswersAgree ==
    \A c \in Checks :
        pc[c] = "answered" =>
            /\ block[c] <= head
            /\ NotOlder(stored, c)
            /\ \A d \in Checks : NotOlder(draft[d], c)

VerdictIsFresh == \A c \in Checks : pc[c] # "writing" => verdict[c] = "none"

IInv ==
    /\ TypeOK
    /\ NotAhead(stored)
    /\ \A c \in Checks : NotAhead(draft[c])
    /\ AnswersAgree
    /\ VerdictIsFresh
    /\ StaleIsGenuine

-----------------------------------------------------------------------------
(***************************************************************************)
(* A tick keeps ages ages, and their order.                                *)
(***************************************************************************)
LEMMA OlderFacts ==
    /\ 0 \in Age
    /\ \A a \in Age : a \in Nat /\ Older(a) \in Age /\ a <= Older(a)
    /\ \A a, b \in Age : a <= b => Older(a) <= Older(b)
    /\ \A a \in Age : a > StaleAfter => Older(a) > StaleAfter
    /\ StaleAfter \in Nat
BY HealthAssumption DEF Older, Age, MaxAge

(***************************************************************************)
(* A record about to be written is a record.                               *)
(***************************************************************************)
LEMMA ConcludeTypes ==
    ASSUME TypeOK, NEW c \in Checks,
           NEW report \in {"none", "fresh", "stale", "down"},
           NEW status \in Status, NEW seen \in 0..MaxBlock,
           Conclude(c, report, status, seen)
    PROVE  TypeOK'
<1>1. [status |-> status, block |-> seen, age |-> 0] \in ProviderRecord
  BY OlderFacts DEF ProviderRecord
<1>2. draft' \in [Checks -> ProviderRecord]
  BY <1>1 DEF Conclude, TypeOK
<1>3. QED BY <1>2 DEF Conclude, TypeOK, nodeVars

(***************************************************************************)
(* One more tick keeps the types.                                          *)
(***************************************************************************)
LEMMA TickTypes == TypeOK /\ Tick => TypeOK'
<1> SUFFICES ASSUME TypeOK, Tick PROVE TypeOK'
  OBVIOUS
<1>1. \A r \in ProviderRecord : [r EXCEPT !.age = Older(@)] \in ProviderRecord
  BY OlderFacts DEF ProviderRecord
<1>2. headAge' \in Age /\ stored' \in ProviderRecord
  BY <1>1, OlderFacts DEF Tick, TypeOK
<1>3. still' \in [Checks -> Age]
  BY OlderFacts DEF Tick, TypeOK
<1>4. draft' \in [Checks -> ProviderRecord]
  BY <1>1 DEF Tick, TypeOK
<1>5. QED BY <1>2, <1>3, <1>4 DEF Tick, TypeOK

(***************************************************************************)
(* Every step keeps the types.                                             *)
(***************************************************************************)
LEMMA TypeStep == TypeOK /\ [Next]_vars => TypeOK'
<1> SUFFICES ASSUME TypeOK, [Next]_vars PROVE TypeOK'
  OBVIOUS
<1> USE HealthAssumption DEF NoBlock, Status
<1>1. ASSUME NEW c \in Checks, Ask(c) PROVE TypeOK'
  BY <1>1 DEF Ask, TypeOK, nodeVars
<1>2. ASSUME NEW c \in Checks, NodeAnswers(c) PROVE TypeOK'
  BY <1>2 DEF NodeAnswers, TypeOK, nodeVars
<1>3. ASSUME NEW c \in Checks, RequestFails(c) PROVE TypeOK'
  BY <1>3, ConcludeTypes DEF RequestFails
<1>4. ASSUME NEW c \in Checks, ReadRecord(c) \/ ReadFails(c) PROVE TypeOK'
  <2>1. block[c] \in 0..MaxBlock
    BY DEF TypeOK
  <2>2. QED BY <1>4, <2>1, ConcludeTypes DEF ReadRecord, ReadFails
<1>5. ASSUME NEW c \in Checks, Write(c) \/ WriteFails(c) PROVE TypeOK'
  <2>1. NoRecord \in ProviderRecord
    BY OlderFacts DEF NoRecord, ProviderRecord
  <2>2. still' \in [Checks -> Age]
    BY <1>5, OlderFacts DEF Write, WriteFails, Finish, TypeOK
  <2>3. draft' \in [Checks -> ProviderRecord] /\ stored' \in ProviderRecord
    BY <1>5, <2>1 DEF Write, WriteFails, Finish, TypeOK
  <2>4. QED BY <1>5, <2>2, <2>3 DEF Write, WriteFails, Finish, TypeOK, nodeVars
<1>6. CASE NewBlock
  BY <1>6, OlderFacts DEF NewBlock, TypeOK
<1>7. CASE Tick
  BY <1>7, TickTypes
<1>8. CASE UNCHANGED vars
  BY <1>8 DEF vars, TypeOK
<1>9. QED BY <1>1, <1>2, <1>3, <1>4, <1>5, <1>6, <1>7, <1>8 DEF Next

(***************************************************************************)
(* The variables of the health checks keep their types.                    *)
(***************************************************************************)
THEOREM TypeCorrect == Spec => []TypeOK
<1>1. Init => TypeOK
  <2>1. NoRecord \in ProviderRecord
    BY HealthAssumption, OlderFacts DEF NoRecord, ProviderRecord, NoBlock, Status
  <2>2. QED BY <2>1, HealthAssumption, OlderFacts DEF Init, TypeOK, NoBlock
<1>2. QED BY <1>1, TypeStep, PTL DEF Spec

-----------------------------------------------------------------------------
(***************************************************************************)
(* What a check concludes agrees with all that the others know.            *)
(***************************************************************************)
LEMMA ConcludeStep ==
    ASSUME IInv, TypeOK', NEW c \in Checks,
           NEW report, NEW status, NEW seen \in 0..MaxBlock,
           Conclude(c, report, status, seen), seen <= head,
           report = "stale" => still[c] > StaleAfter
    PROVE  IInv'
<1>1. /\ UNCHANGED <<head, headAge, stored, block, still>>
      /\ pc' = [pc EXCEPT ![c] = "writing"]
      /\ verdict' = [verdict EXCEPT ![c] = report]
      /\ draft' = [draft EXCEPT ![c] = [status |-> status, block |-> seen, age |-> 0]]
  BY DEF Conclude, nodeVars
<1>2. headAge \in Nat /\ \A d \in Checks : still[d] \in Nat
  BY OlderFacts DEF IInv, TypeOK
<1>3. NotAhead(stored)'
  BY <1>1 DEF IInv, NotAhead
<1>4. draft'[c].block = seen /\ draft'[c].age = 0
  BY <1>1 DEF IInv, TypeOK
<1>5. \A d \in Checks : d # c => draft'[d] = draft[d] /\ pc'[d] = pc[d] /\ verdict'[d] = verdict[d]
  BY <1>1 DEF IInv, TypeOK
<1>6. pc'[c] = "writing" /\ verdict'[c] = report
  BY <1>1 DEF IInv, TypeOK
<1>7. \A d \in Checks : NotAhead(draft[d])'
  BY <1>1, <1>2, <1>4, <1>5 DEF IInv, NotAhead
<1>8. AnswersAgree'
  <2> SUFFICES ASSUME NEW e \in Checks, pc'[e] = "answered"
               PROVE  /\ block'[e] <= head'
                      /\ NotOlder(stored, e)'
                      /\ \A d \in Checks : NotOlder(draft[d], e)'
    BY DEF AnswersAgree
  <2>1. e # c /\ pc[e] = "answered"
    BY <1>5, <1>6
  <2>2. QED BY <1>1, <1>2, <1>4, <1>5, <2>1 DEF IInv, AnswersAgree, NotOlder
<1>9. VerdictIsFresh' /\ StaleIsGenuine'
  BY <1>1, <1>5, <1>6 DEF IInv, VerdictIsFresh, StaleIsGenuine
<1>10. QED BY <1>3, <1>7, <1>8, <1>9 DEF IInv

(***************************************************************************)
(* A record that is written, or whose write fails, was known before.       *)
(***************************************************************************)
LEMMA FinishStep ==
    ASSUME IInv, TypeOK', NEW c \in Checks, Write(c) \/ WriteFails(c)
    PROVE  IInv'
<1>1. /\ UNCHANGED <<head, headAge>>
      /\ stored' = stored \/ stored' = draft[c]
      /\ pc' = [pc EXCEPT ![c] = "idle"]
      /\ block' = [block EXCEPT ![c] = NoBlock]
      /\ still' = [still EXCEPT ![c] = 0]
      /\ draft' = [draft EXCEPT ![c] = NoRecord]
      /\ verdict' = [verdict EXCEPT ![c] = "none"]
  BY DEF Write, WriteFails, Finish, nodeVars
<1>2. \A d \in Checks : d # c => /\ draft'[d] = draft[d] /\ pc'[d] = pc[d]
                                 /\ verdict'[d] = verdict[d]
                                 /\ block'[d] = block[d] /\ still'[d] = still[d]
  BY <1>1 DEF IInv, TypeOK
<1>3. pc'[c] = "idle" /\ verdict'[c] = "none" /\ draft'[c] = NoRecord
  BY <1>1 DEF IInv, TypeOK
<1>4. /\ headAge \in Nat /\ head \in Nat /\ head # 0
      /\ \A d \in Checks : still[d] \in Nat
  BY OlderFacts, HealthAssumption DEF IInv, TypeOK
<1>5. NotAhead(stored)'
  BY <1>1 DEF IInv, NotAhead
<1>6. \A d \in Checks : NotAhead(draft[d])'
  BY <1>1, <1>2, <1>3, <1>4 DEF IInv, NotAhead, NoRecord, NoBlock
<1>7. AnswersAgree'
  <2> SUFFICES ASSUME NEW e \in Checks, pc'[e] = "answered"
               PROVE  /\ block'[e] <= head'
                      /\ NotOlder(stored, e)'
                      /\ \A d \in Checks : NotOlder(draft[d], e)'
    BY DEF AnswersAgree
  <2>1. e # c /\ pc[e] = "answered"
    BY <1>2, <1>3
  <2>2. block'[e] <= head' /\ NotOlder(stored, e)'
    BY <1>1, <1>2, <2>1 DEF IInv, AnswersAgree, NotOlder
  <2>3. \A d \in Checks : NotOlder(draft[d], e)'
    BY <1>2, <1>3, <1>4, <2>1 DEF IInv, AnswersAgree, NotOlder, NoRecord
  <2>4. QED BY <2>2, <2>3
<1>8. VerdictIsFresh' /\ StaleIsGenuine'
  BY <1>2, <1>3 DEF IInv, VerdictIsFresh, StaleIsGenuine
<1>9. QED BY <1>5, <1>6, <1>7, <1>8 DEF IInv

(***************************************************************************)
(* Time passes for the records no faster than for the node and for those   *)
(* that wait for its answer.                                               *)
(***************************************************************************)
LEMMA TickStep == IInv /\ TypeOK' /\ Tick => IInv'
<1> SUFFICES ASSUME IInv, TypeOK', Tick PROVE IInv'
  OBVIOUS
<1>1. /\ UNCHANGED <<head, pc, block, verdict>>
      /\ headAge' = Older(headAge)
      /\ \A c \in Checks : still'[c] = IF pc[c] = "answered" THEN Older(still[c]) ELSE still[c]
  BY DEF Tick
<1>2. headAge \in Age /\ stored.age \in Age
      /\ \A c \in Checks : still[c] \in Age /\ draft[c].age \in Age
  BY DEF IInv, TypeOK, ProviderRecord
<1>3. stored'.block = stored.block /\ stored'.age \in {stored.age, Older(stored.age)}
  BY DEF Tick, IInv, TypeOK, ProviderRecord
<1>4. \A c \in Checks : /\ draft'[c].block = draft[c].block
                        /\ draft'[c].age \in {draft[c].age, Older(draft[c].age)}
  BY DEF Tick, IInv, TypeOK, ProviderRecord
<1>5. \A a, b \in Age : a <= b => a <= Older(b) /\ Older(a) <= Older(b)
  BY OlderFacts
<1>6. NotAhead(stored)'
  BY <1>1, <1>2, <1>3, <1>5 DEF IInv, NotAhead
<1>7. \A c \in Checks : NotAhead(draft[c])'
  BY <1>1, <1>2, <1>4, <1>5 DEF IInv, NotAhead
<1>8. AnswersAgree'
  BY <1>1, <1>2, <1>3, <1>4, <1>5 DEF IInv, AnswersAgree, NotOlder
<1>9. VerdictIsFresh' /\ StaleIsGenuine'
  BY <1>1, <1>2, OlderFacts DEF IInv, VerdictIsFresh, StaleIsGenuine
<1>10. QED BY <1>6, <1>7, <1>8, <1>9 DEF IInv

(***************************************************************************)
(* Every step keeps the invariant.                                         *)
(***************************************************************************)
LEMMA InvStep == IInv /\ [Next]_vars => IInv'
<1> SUFFICES ASSUME IInv, [Next]_vars PROVE IInv'
  OBVIOUS
<1>1. TypeOK'
  BY TypeStep DEF IInv
<1>2. ASSUME NEW c \in Checks, Ask(c) PROVE IInv'
  <2>1. \A d \in Checks : pc'[d] = "answered" => pc[d] = "answered"
    BY <1>2 DEF Ask, IInv, TypeOK
  <2>2. \A d \in Checks : pc'[d] # "writing" => pc[d] # "writing"
    BY <1>2 DEF Ask, IInv, TypeOK
  <2>3. UNCHANGED <<head, headAge, stored, block, still, draft, verdict>>
    BY <1>2 DEF Ask, nodeVars
  <2>4. QED
    BY <1>1, <2>1, <2>2, <2>3
       DEF IInv, NotAhead, NotOlder, AnswersAgree, VerdictIsFresh, StaleIsGenuine
<1>3. ASSUME NEW c \in Checks, NodeAnswers(c) PROVE IInv'
  <2>1. UNCHANGED <<head, headAge, stored, draft, verdict>>
    BY <1>3 DEF NodeAnswers, nodeVars
  <2>2. /\ pc[c] = "asked" /\ pc'[c] = "answered"
        /\ block'[c] = head /\ still'[c] = headAge
        /\ \A d \in Checks : d # c => pc'[d] = pc[d] /\ block'[d] = block[d] /\ still'[d] = still[d]
    BY <1>3 DEF NodeAnswers, IInv, TypeOK
  <2>3. AnswersAgree'
    <3>1. head \in Nat
      BY HealthAssumption DEF IInv, TypeOK
    <3>2. QED BY <2>1, <2>2, <3>1 DEF IInv, AnswersAgree, NotAhead, NotOlder
  <2>4. VerdictIsFresh' /\ StaleIsGenuine'
    BY <2>1, <2>2 DEF IInv, VerdictIsFresh, StaleIsGenuine
  <2>5. QED BY <1>1, <2>1, <2>3, <2>4 DEF IInv, NotAhead
<1>4. ASSUME NEW c \in Checks, RequestFails(c) PROVE IInv'
  <2>1. NoBlock \in 0..MaxBlock /\ NoBlock <= head
    BY HealthAssumption DEF IInv, TypeOK, NoBlock
  <2>2. QED BY <1>1, <1>4, <2>1, ConcludeStep DEF RequestFails
<1>5. ASSUME NEW c \in Checks, ReadRecord(c) \/ ReadFails(c) PROVE IInv'
  <2>1. block[c] \in 0..MaxBlock /\ block[c] <= head
    BY <1>5 DEF ReadRecord, ReadFails, IInv, TypeOK, AnswersAgree
  <2>2. pc[c] = "answered" /\ IsStale(block[c]) => still[c] > StaleAfter
    <3>1. stored.age \in Nat /\ still[c] \in Nat /\ StaleAfter \in Nat
      BY OlderFacts DEF IInv, TypeOK, ProviderRecord
    <3>2. QED BY <3>1 DEF IInv, AnswersAgree, NotOlder, IsStale
  <2>3. QED BY <1>1, <1>5, <2>1, <2>2, ConcludeStep DEF ReadRecord, ReadFails
<1>6. ASSUME NEW c \in Checks, Write(c) \/ WriteFails(c) PROVE IInv'
  BY <1>1, <1>6, FinishStep
<1>7. CASE NewBlock
  <2>1. /\ head' = head + 1 /\ head \in Nat
        /\ UNCHANGED <<stored, pc, block, still, draft, verdict>>
    BY <1>7, HealthAssumption DEF NewBlock, IInv, TypeOK
  <2>2. stored.block \in Nat /\ \A c \in Checks : draft[c].block \in Nat /\ block[c] \in Nat
    BY HealthAssumption DEF IInv, TypeOK, ProviderRecord
  <2>3. NotAhead(stored)' /\ \A c \in Checks : NotAhead(draft[c])'
    BY <2>1, <2>2 DEF IInv, NotAhead
  <2>4. AnswersAgree'
    BY <2>1, <2>2 DEF IInv, AnswersAgree, NotOlder
  <2>5. QED BY <1>1, <2>1, <2>3, <2>4 DEF IInv, VerdictIsFresh, StaleIsGenuine
<1>8. CASE Tick
  BY <1>1, <1>8, TickStep
<1>9. CASE UNCHANGED vars
  BY <1>1, <1>9 DEF vars, IInv, NotAhead, NotOlder, AnswersAgree, VerdictIsFresh, StaleIsGenuine
<1>10. QED BY <1>2, <1>3, <1>4, <1>5, <1>6, <1>7, <1>8, <1>9 DEF Next

(***************************************************************************)
(* No check ever reports a node stale that has not stood still for longer  *)
(* than the threshold.                                                     *)
(***************************************************************************)
THEOREM StalenessIsGenuine == Spec => []StaleIsGenuine
<1>1. Init => IInv
  <2> SUFFICES ASSUME Init PROVE IInv
    OBVIOUS
  <2>1. TypeOK
    <3>1. NoRecord \in ProviderRecord
      BY HealthAssumption, OlderFacts DEF NoRecord, ProviderRecord, NoBlock, Status
    <3>2. QED BY <3>1, HealthAssumption, OlderFacts DEF Init, TypeOK, NoBlock
  <2>2. NotAhead(stored) /\ \A c \in Checks : NotAhead(draft[c])
    BY DEF Init, NotAhead, NoRecord, NoBlock
  <2>3. AnswersAgree /\ VerdictIsFresh /\ StaleIsGenuine
    BY DEF Init, AnswersAgree, VerdictIsFresh, StaleIsGenuine
  <2>4. QED BY <2>1, <2>2, <2>3 DEF IInv
<1>2. IInv => StaleIsGenuine
  BY DEF IInv
<1>3. QED BY <1>1, <1>2, InvStep, PTL DEF Spec

=============================================================================
