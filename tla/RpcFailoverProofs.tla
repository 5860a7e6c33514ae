------------------------- MODULE RpcFailoverProofs -------------------------
(***************************************************************************)
(* The safety of RpcFailover for any number of callers and providers, any  *)
(* priorities, threshold and recovery timeout.                             *)
(*                                                                         *)
(* Accounted and Ordered are what the failover properties lack to be       *)
(* inductive: they tie what is known of each provider to the place of the  *)
(* call in its walk.                                                       *)
(***************************************************************************)
EXTENDS RpcFailover, CircuitBreakerLemmas

Modes == {"failover", "probe"}

\* What is known of a provider agrees with where the call is.
Accounted(c) ==
    /\ pc[c] = "waiting" => result[c] = "none"
    /\ \A p \in Providers :
          /\ fate[c][p] = "queued" => \/ pc[c] = "waiting" /\ p \in rest[c]
                                     \/ result[c] = "ok"
          /\ fate[c][p] = "sent" => InFlight(c, p)
          /\ fate[c][p] = "answered" => result[c] = "ok"

\* The walk goes down the priorities and, for a failover, leaves nobody out.
Ordered(c) ==
    pc[c] = "waiting" =>
        /\ \A q \in rest[c] : Before(at[c], q)
        /\ mode[c] = "failover" => \A q \in Providers : fate[c][q] # "outside"

IInv == TypeOK /\ \A c \in Callers : Accounted(c) /\ Ordered(c)

\* Fates f are ready for the loop to go on over the providers of S.
Ready(S, f) ==
    \A q \in Providers :
        /\ f[q] = "queued" => q \in S
        /\ f[q] \notin {"sent", "answered"}

-----------------------------------------------------------------------------
(***************************************************************************)
(* There is a first provider, and priorities are numbers.                  *)
(***************************************************************************)
LEMMA ProviderFacts ==
    /\ 1 \in Providers
    /\ \A p \in Providers : p \in Int /\ Priority[p] \in Int
BY ProvidersAssumption DEF Providers

(***************************************************************************)
(* The order of the loop is a strict total order.                          *)
(***************************************************************************)
LEMMA BeforeIsTotal ==
    \A p, q \in Providers :
        /\ p # q => Before(p, q) \/ Before(q, p)
        /\ ~(Before(p, q) /\ Before(q, p))
BY ProviderFacts DEF Before

(***************************************************************************)
(* Passing over providers up to p leaves fates.                            *)
(***************************************************************************)
LEMMA PassedType ==
    ASSUME NEW f \in [Providers -> Fates], NEW S \in SUBSET Providers, NEW b,
           NEW p \in Providers
    PROVE  Passed(f, S, b, p) \in [Providers -> Fates]
BY DEF Passed, Fates

(***************************************************************************)
(* Sending to the next provider of S keeps the types.                      *)
(***************************************************************************)
LEMMA SendTypes ==
    ASSUME TypeOK, NEW c \in Callers, NEW S \in SUBSET Providers,
           NEW b \in [Providers -> Breaker], NEW f \in [Providers -> Fates],
           SendNext(c, S, b, f), mode' \in [Callers -> Modes]
    PROVE  TypeOK'
<1>1. PICK p \in S : SendTo(c, S, b, f, p)
  BY DEF SendNext
<1>2. p \in Providers
  OBVIOUS
<1>3. breaker' \in [Providers -> Breaker]
  BY <1>1, <1>2, BreakerClosed DEF SendTo
<1>4. /\ pc' \in [Callers -> {"idle", "waiting"}]
      /\ at' \in [Callers -> Providers]
  BY <1>1, <1>2 DEF SendTo, TypeOK
<1>5. /\ rest' \in [Callers -> SUBSET Providers]
      /\ result' \in [Callers -> Results]
  BY <1>1, <1>2 DEF SendTo, TypeOK, Results
<1>6. fate' \in [Callers -> [Providers -> Fates]]
  BY <1>1, <1>2, PassedType DEF SendTo, TypeOK
<1>7. QED BY <1>3, <1>4, <1>5, <1>6 DEF TypeOK, Modes

(***************************************************************************)
(* Giving up keeps the types.                                              *)
(***************************************************************************)
LEMMA GiveUpTypes ==
    ASSUME TypeOK, NEW c \in Callers, NEW S \in SUBSET Providers,
           NEW b \in [Providers -> Breaker], NEW f \in [Providers -> Fates],
           GiveUp(c, S, b, f), mode' \in [Callers -> Modes]
    PROVE  TypeOK'
<1>1. [q \in Providers |-> IF q \in S THEN "open" ELSE f[q]] \in [Providers -> Fates]
  BY DEF Fates
<1>2. fate' \in [Callers -> [Providers -> Fates]]
  BY <1>1 DEF GiveUp, TypeOK
<1>3. /\ pc' \in [Callers -> {"idle", "waiting"}]
      /\ at' \in [Callers -> Providers]
      /\ rest' \in [Callers -> SUBSET Providers]
      /\ result' \in [Callers -> Results]
  BY DEF GiveUp, TypeOK, Results
<1>4. QED BY <1>2, <1>3 DEF GiveUp, TypeOK, Modes

-----------------------------------------------------------------------------
\* The breakers as the availability snapshot leaves them, and who it admits.
Read == [p \in Providers |-> Peeked(breaker[p])]
Available == {p \in Providers : Read[p].state # "open"}
First == [p \in Providers |-> IF p \in Available THEN "queued" ELSE "open"]
Only(p) == [q \in Providers |-> IF q = p THEN "queued" ELSE "outside"]

\* The breakers and the fates after the provider of call c failed.
AfterFailure(c) == [breaker EXCEPT ![at[c]] = RecordFailure(@)]
FateAfterFailure(c) == [fate[c] EXCEPT ![at[c]] = "failed"]

(***************************************************************************)
(* Begin, Probe and Fail in terms of the names above.                      *)
(***************************************************************************)
LEMMA Unfolded ==
    ASSUME NEW c \in Callers
    PROVE  /\ Begin(c) =>
                /\ pc[c] = "idle"
                /\ mode' = [mode EXCEPT ![c] = "failover"]
                /\ \/ SendNext(c, Available, Read, First)
                   \/ /\ breaker' = Read
                      /\ fate' = [fate EXCEPT ![c] = First]
                      /\ result' = [result EXCEPT ![c] = "no_provider"]
                      /\ UNCHANGED <<pc, at, rest>>
                      /\ Available = {}
           /\ \A p \in Providers : Probe(c, p) =>
                /\ pc[c] = "idle"
                /\ mode' = [mode EXCEPT ![c] = "probe"]
                /\ SendNext(c, {p}, breaker, Only(p)) \/ GiveUp(c, {p}, breaker, Only(p))
           /\ Fail(c) =>
                /\ pc[c] = "waiting"
                /\ mode' = mode
                /\ \/ SendNext(c, rest[c], AfterFailure(c), FateAfterFailure(c))
                   \/ GiveUp(c, rest[c], AfterFailure(c), FateAfterFailure(c))
BY DEF Begin, Probe, Fail, Read, Available, First, Only, AfterFailure, FateAfterFailure

(***************************************************************************)
(* The arguments the loop is called with have their types.                 *)
(***************************************************************************)
LEMMA ArgumentTypes ==
    ASSUME TypeOK
    PROVE  /\ Read \in [Providers -> Breaker]
           /\ Available \in SUBSET Providers
           /\ First \in [Providers -> Fates]
           /\ \A p \in Providers : Only(p) \in [Providers -> Fates]
           /\ \A c \in Callers :
                 /\ AfterFailure(c) \in [Providers -> Breaker]
                 /\ FateAfterFailure(c) \in [Providers -> Fates]
                 /\ rest[c] \in SUBSET Providers
<1>1. Read \in [Providers -> Breaker]
  BY BreakerClosed DEF Read, TypeOK
<1>2. Available \in SUBSET Providers
  BY DEF Available
<1>3. First \in [Providers -> Fates]
  BY DEF First, Fates
<1>4. \A p \in Providers : Only(p) \in [Providers -> Fates]
  BY DEF Only, Fates
<1>5. ASSUME NEW c \in Callers
      PROVE  /\ AfterFailure(c) \in [Providers -> Breaker]
             /\ FateAfterFailure(c) \in [Providers -> Fates]
             /\ rest[c] \in SUBSET Providers
  <2>1. AfterFailure(c) \in [Providers -> Breaker]
    BY BreakerClosed DEF AfterFailure, TypeOK
  <2>2. FateAfterFailure(c) \in [Providers -> Fates]
    BY DEF FateAfterFailure, TypeOK, Fates
  <2>3. QED BY <2>1, <2>2 DEF TypeOK
<1>6. QED BY <1>1, <1>2, <1>3, <1>4, <1>5

(***************************************************************************)
(* Every step keeps the types: one case per action of Next.                *)
(***************************************************************************)
LEMMA TypeStep == TypeOK /\ [Next]_vars => TypeOK'
<1> SUFFICES ASSUME TypeOK, [Next]_vars PROVE TypeOK'
  OBVIOUS
<1>1. ASSUME NEW c \in Callers, Begin(c) PROVE TypeOK'
  <2>1. mode' \in [Callers -> Modes]
    BY <1>1, Unfolded DEF TypeOK, Modes
  <2>2. CASE SendNext(c, Available, Read, First)
    BY <2>1, <2>2, SendTypes, ArgumentTypes
  <2>3. CASE ~SendNext(c, Available, Read, First)
    <3>1. /\ breaker' = Read
          /\ fate' = [fate EXCEPT ![c] = First]
          /\ result' = [result EXCEPT ![c] = "no_provider"]
          /\ UNCHANGED <<pc, at, rest>>
      BY <1>1, <2>3, Unfolded
    <3>2. QED BY <2>1, <3>1, ArgumentTypes DEF TypeOK, Modes, Results
  <2>4. QED BY <2>2, <2>3
<1>2. ASSUME NEW c \in Callers, NEW p \in Providers, Probe(c, p) PROVE TypeOK'
  <2>1. mode' \in [Callers -> Modes]
    BY <1>2, Unfolded DEF TypeOK, Modes
  <2>2. breaker \in [Providers -> Breaker] /\ {p} \in SUBSET Providers
    BY DEF TypeOK
  <2>3. SendNext(c, {p}, breaker, Only(p)) \/ GiveUp(c, {p}, breaker, Only(p))
    BY <1>2, Unfolded
  <2>4. Only(p) \in [Providers -> Fates]
    BY ArgumentTypes
  <2>5. QED BY <2>1, <2>2, <2>3, <2>4, SendTypes, GiveUpTypes
<1>3. ASSUME NEW c \in Callers, Succeed(c) PROVE TypeOK'
  <2>1. breaker' \in [Providers -> Breaker]
    BY <1>3, BreakerClosed DEF Succeed, TypeOK
  <2>2. fate' \in [Callers -> [Providers -> Fates]]
    BY <1>3 DEF Succeed, TypeOK, Fates
  <2>3. QED BY <1>3, <2>1, <2>2 DEF Succeed, TypeOK, Results
<1>4. ASSUME NEW c \in Callers, Fail(c) PROVE TypeOK'
  <2>1. mode' \in [Callers -> Modes]
    BY <1>4, Unfolded DEF TypeOK, Modes
  <2>2. \/ SendNext(c, rest[c], AfterFailure(c), FateAfterFailure(c))
        \/ GiveUp(c, rest[c], AfterFailure(c), FateAfterFailure(c))
    BY <1>4, Unfolded
  <2>3. QED BY <2>1, <2>2, SendTypes, GiveUpTypes, ArgumentTypes
<1>5. CASE Tick
  BY <1>5, BreakerClosed DEF Tick, TypeOK
<1>6. CASE UNCHANGED vars
  BY <1>6 DEF vars, TypeOK
<1>7. QED BY <1>1, <1>2, <1>3, <1>4, <1>5, <1>6 DEF Next

(***************************************************************************)
(* Type correctness: every variable keeps its type, for every number of    *)
(* callers and providers.                                                  *)
(***************************************************************************)
THEOREM TypeCorrect == Spec => []TypeOK
<1>1. Init => TypeOK
  BY ProviderFacts, BreakerClosed DEF Init, TypeOK, Fates, Results
<1>2. QED BY <1>1, TypeStep, PTL DEF Spec

-----------------------------------------------------------------------------
(***************************************************************************)
(* Calls other than the one that moves keep their place and their fates.   *)
(***************************************************************************)
LEMMA OthersKept ==
    ASSUME NEW d \in Callers, Accounted(d), Ordered(d),
           pc'[d] = pc[d], at'[d] = at[d], rest'[d] = rest[d], mode'[d] = mode[d],
           fate'[d] = fate[d], result'[d] = result[d]
    PROVE  Accounted(d)' /\ Ordered(d)'
BY DEF Accounted, Ordered, InFlight

(***************************************************************************)
(* Sending to the next provider of S accounts for every provider again.    *)
(***************************************************************************)
LEMMA SendAccounts ==
    ASSUME TypeOK, NEW c \in Callers, NEW S \in SUBSET Providers,
           NEW b \in [Providers -> Breaker], NEW f \in [Providers -> Fates],
           SendNext(c, S, b, f), Ready(S, f),
           mode'[c] = "failover" => \A q \in Providers : f[q] # "outside"
    PROVE  Accounted(c)' /\ Ordered(c)'
<1>1. PICK p \in S : SendTo(c, S, b, f, p) /\ \A q \in S : Before(q, p) => IsOpen(b[q])
  BY DEF SendNext
<1>2. p \in Providers
  OBVIOUS
<1>3. /\ pc'[c] = "waiting"
      /\ at'[c] = p
      /\ rest'[c] = {q \in S : Before(p, q)}
      /\ fate'[c] = Passed(f, S, b, p)
      /\ result'[c] = "none"
  BY <1>1 DEF SendTo, TypeOK
<1>4. ASSUME NEW q \in Providers
      PROVE  /\ fate'[c][q] = "queued" => q \in rest'[c]
             /\ fate'[c][q] = "sent" => q = p
             /\ fate'[c][q] # "answered"
             /\ fate'[c][q] = "outside" => f[q] = "outside"
  <2>1. fate'[c][q] = IF q = p THEN "sent"
                      ELSE IF q \in S /\ Before(q, p) THEN "open"
                      ELSE f[q]
    BY <1>1, <1>3 DEF Passed
  <2>2. q \in S /\ q # p => Before(q, p) \/ q \in rest'[c]
    BY <1>2, <1>3, BeforeIsTotal
  <2>3. QED BY <2>1, <2>2 DEF Ready
<1>5. Accounted(c)'
  BY <1>3, <1>4 DEF Accounted, InFlight
<1>6. Ordered(c)'
  BY <1>3, <1>4 DEF Ordered
<1>7. QED BY <1>5, <1>6

(***************************************************************************)
(* Giving up leaves no provider of the call queued or asked.               *)
(***************************************************************************)
LEMMA GiveUpAccounts ==
    ASSUME TypeOK, NEW c \in Callers, NEW S \in SUBSET Providers,
           NEW b, NEW f \in [Providers -> Fates],
           GiveUp(c, S, b, f), Ready(S, f)
    PROVE  Accounted(c)' /\ Ordered(c)'
<1>1. pc'[c] = "idle"
  BY DEF GiveUp, TypeOK
<1>2. \A q \in Providers : fate'[c][q] \notin {"queued", "sent", "answered"}
  BY DEF GiveUp, TypeOK, Ready
<1>3. QED BY <1>1, <1>2 DEF Accounted, Ordered

(***************************************************************************)
(* The loop is always called with fates it is ready for.                   *)
(***************************************************************************)
LEMMA ArgumentsReady ==
    ASSUME TypeOK
    PROVE  /\ Ready(Available, First)
           /\ \A q \in Providers : First[q] # "outside"
           /\ \A p \in Providers : Ready({p}, Only(p))
           /\ \A c \in Callers :
                 Accounted(c) /\ Ordered(c) /\ pc[c] = "waiting" =>
                    /\ Ready(rest[c], FateAfterFailure(c))
                    /\ mode[c] = "failover" =>
                          \A q \in Providers : FateAfterFailure(c)[q] # "outside"
<1>1. Ready(Available, First) /\ \A q \in Providers : First[q] # "outside"
  BY DEF Ready, First
<1>2. \A p \in Providers : Ready({p}, Only(p))
  BY DEF Ready, Only
<1>3. ASSUME NEW c \in Callers, Accounted(c), Ordered(c), pc[c] = "waiting"
      PROVE  /\ Ready(rest[c], FateAfterFailure(c))
             /\ mode[c] = "failover" =>
                   \A q \in Providers : FateAfterFailure(c)[q] # "outside"
  <2>1. \A q \in Providers :
           FateAfterFailure(c)[q] = IF q = at[c] THEN "failed" ELSE fate[c][q]
    BY DEF FateAfterFailure, TypeOK
  <2>2. \A q \in Providers : fate[c][q] = "sent" => q = at[c]
    BY <1>3 DEF Accounted, InFlight
  <2>3. \A q \in Providers : fate[c][q] # "answered"
    BY <1>3 DEF Accounted
  <2>4. \A q \in Providers : fate[c][q] = "queued" => q \in rest[c]
    BY <1>3 DEF Accounted
  <2>5. Ready(rest[c], FateAfterFailure(c))
    BY <2>1, <2>2, <2>3, <2>4 DEF Ready
  <2>6. QED BY <1>3, <2>1, <2>5 DEF Ordered
<1>4. QED BY <1>1, <1>2, <1>3

-----------------------------------------------------------------------------
(***************************************************************************)
(* Every step keeps every call accounted for and ordered.                  *)
(***************************************************************************)
LEMMA AccountStep ==
    ASSUME IInv, [Next]_vars, NEW d \in Callers
    PROVE  Accounted(d)' /\ Ordered(d)'
<1>0. TypeOK /\ Accounted(d) /\ Ordered(d)
  BY DEF IInv
<1>1. ASSUME NEW c \in Callers, Begin(c) PROVE Accounted(d)' /\ Ordered(d)'
  <2>1. mode' = [mode EXCEPT ![c] = "failover"]
    BY <1>1, Unfolded
  <2>2. CASE SendNext(c, Available, Read, First)
    <3>1. CASE d = c
      BY <1>0, <2>2, <3>1, SendAccounts, ArgumentTypes, ArgumentsReady
    <3>2. CASE d # c
      BY <1>0, <2>1, <2>2, <3>2, OthersKept DEF SendNext, SendTo, TypeOK
    <3>3. QED BY <3>1, <3>2
  <2>3. CASE ~SendNext(c, Available, Read, First)
    <3>1. /\ pc[c] = "idle"
          /\ fate' = [fate EXCEPT ![c] = First]
          /\ result' = [result EXCEPT ![c] = "no_provider"]
          /\ UNCHANGED <<pc, at, rest>>
          /\ Available = {}
      BY <1>1, <2>3, Unfolded
    <3>2. CASE d = c
      <4>1. pc'[d] = "idle" /\ fate'[d] = First
        BY <1>0, <3>1, <3>2 DEF TypeOK
      <4>2. \A q \in Providers : First[q] = "open"
        BY <3>1 DEF First
      <4>3. QED BY <4>1, <4>2 DEF Accounted, Ordered
    <3>3. CASE d # c
      BY <1>0, <2>1, <3>1, <3>3, OthersKept DEF TypeOK
    <3>4. QED BY <3>2, <3>3
  <2>4. QED BY <2>2, <2>3
<1>2. ASSUME NEW c \in Callers, NEW p \in Providers, Probe(c, p)
      PROVE  Accounted(d)' /\ Ordered(d)'
  <2>1. mode' = [mode EXCEPT ![c] = "probe"]
    BY <1>2, Unfolded
  <2>2. /\ breaker \in [Providers -> Breaker]
        /\ {p} \in SUBSET Providers
        /\ Only(p) \in [Providers -> Fates]
        /\ Ready({p}, Only(p))
    BY <1>0, ArgumentTypes, ArgumentsReady DEF TypeOK
  <2>3. SendNext(c, {p}, breaker, Only(p)) \/ GiveUp(c, {p}, breaker, Only(p))
    BY <1>2, Unfolded
  <2>4. CASE d = c
    <3>1. mode'[c] = "probe"
      BY <1>0, <2>1 DEF TypeOK
    <3>2. CASE SendNext(c, {p}, breaker, Only(p))
      BY <1>0, <2>2, <2>4, <3>1, <3>2, SendAccounts
    <3>3. CASE GiveUp(c, {p}, breaker, Only(p))
      BY <1>0, <2>2, <2>4, <3>3, GiveUpAccounts
    <3>4. QED BY <2>3, <3>2, <3>3
  <2>5. CASE d # c
    BY <1>0, <2>1, <2>3, <2>5, OthersKept DEF SendNext, SendTo, GiveUp, TypeOK
  <2>6. QED BY <2>4, <2>5
<1>3. ASSUME NEW c \in Callers, Succeed(c) PROVE Accounted(d)' /\ Ordered(d)'
  <2>1. CASE d = c
    <3>1. pc'[c] = "idle" /\ result'[c] = "ok"
      BY <1>0, <1>3 DEF Succeed, TypeOK
    <3>2. \A q \in Providers :
             fate'[c][q] = IF q = at[c] THEN "answered" ELSE fate[c][q]
      BY <1>0, <1>3 DEF Succeed, TypeOK
    <3>3. \A q \in Providers : fate'[c][q] # "sent"
      BY <1>0, <2>1, <3>2 DEF Accounted, InFlight
    <3>4. QED BY <2>1, <3>1, <3>3 DEF Accounted, Ordered
  <2>2. CASE d # c
    BY <1>0, <1>3, <2>2, OthersKept DEF Succeed, TypeOK
  <2>3. QED BY <2>1, <2>2
<1>4. ASSUME NEW c \in Callers, Fail(c) PROVE Accounted(d)' /\ Ordered(d)'
  <2>1. /\ mode' = mode
        /\ pc[c] = "waiting"
        /\ \/ SendNext(c, rest[c], AfterFailure(c), FateAfterFailure(c))
           \/ GiveUp(c, rest[c], AfterFailure(c), FateAfterFailure(c))
    BY <1>4, Unfolded
  <2>2. /\ rest[c] \in SUBSET Providers
        /\ AfterFailure(c) \in [Providers -> Breaker]
        /\ FateAfterFailure(c) \in [Providers -> Fates]
    BY <1>0, ArgumentTypes
  <2>3. CASE d = c
    <3>1. /\ Ready(rest[c], FateAfterFailure(c))
          /\ mode'[c] = "failover" =>
                \A q \in Providers : FateAfterFailure(c)[q] # "outside"
      BY <1>0, <2>1, <2>3, ArgumentsReady
    <3>2. CASE SendNext(c, rest[c], AfterFailure(c), FateAfterFailure(c))
      BY <1>0, <2>2, <2>3, <3>1, <3>2, SendAccounts
    <3>3. CASE GiveUp(c, rest[c], AfterFailure(c), FateAfterFailure(c))
      BY <1>0, <2>2, <2>3, <3>1, <3>3, GiveUpAccounts
    <3>4. QED BY <2>1, <3>2, <3>3
  <2>4. CASE d # c
    BY <1>0, <2>1, <2>4, OthersKept DEF SendNext, SendTo, GiveUp, TypeOK
  <2>5. QED BY <2>3, <2>4
<1>5. CASE Tick
  BY <1>0, <1>5, OthersKept DEF Tick
<1>6. CASE UNCHANGED vars
  BY <1>0, <1>6, OthersKept DEF vars
<1>7. QED BY <1>1, <1>2, <1>3, <1>4, <1>5, <1>6 DEF Next

(***************************************************************************)
(* The inductive invariant of the calls.                                   *)
(***************************************************************************)
LEMMA CallsInvariant == Spec => []IInv
<1>1. Init => IInv
  <2> SUFFICES ASSUME Init PROVE IInv
    OBVIOUS
  <2>1. TypeOK
    BY ProviderFacts, BreakerClosed DEF Init, TypeOK, Fates, Results
  <2>2. ASSUME NEW c \in Callers PROVE Accounted(c) /\ Ordered(c)
    BY DEF Init, Accounted, Ordered
  <2>3. QED BY <2>1, <2>2 DEF IInv
<1>2. IInv /\ [Next]_vars => IInv'
  <2> SUFFICES ASSUME IInv, [Next]_vars PROVE IInv'
    OBVIOUS
  <2>1. TypeOK'
    BY TypeStep DEF IInv
  <2>2. \A c \in Callers : Accounted(c)' /\ Ordered(c)'
    BY AccountStep
  <2>3. QED BY <2>1, <2>2 DEF IInv
<1>3. QED BY <1>1, <1>2, PTL DEF Spec

(***************************************************************************)
(* A failed call has used up its providers, for any number of them.        *)
(***************************************************************************)
THEOREM FailoverIsComplete == Spec => []FailoverComplete
<1>1. IInv => FailoverComplete
  <2> SUFFICES ASSUME IInv, NEW c \in Callers, NEW p \in Providers,
                      result[c] \in {"no_provider", "failed"}
               PROVE  fate[c][p] \in {"open", "failed", "outside"}
    BY DEF FailoverComplete
  <2>1. fate[c][p] \in Fates
    BY DEF IInv, TypeOK
  <2>2. pc[c] # "waiting" /\ result[c] # "ok"
    BY DEF IInv, Accounted
  <2>3. QED BY <2>1, <2>2 DEF IInv, Accounted, InFlight, Fates
<1>2. QED BY <1>1, CallsInvariant, PTL

(***************************************************************************)
(* A backup provider never gets a failover request that a better provider  *)
(* could still have served, whatever the priorities.                       *)
(***************************************************************************)
THEOREM PriorityIsRespected == Spec => []PriorityRespected
<1>1. IInv => PriorityRespected
  <2> SUFFICES ASSUME IInv, NEW c \in Callers, NEW p \in Providers, NEW q \in Providers,
                      InFlight(c, p), mode[c] = "failover", Before(q, p)
               PROVE  fate[c][q] \in {"open", "failed"}
    BY DEF PriorityRespected
  <2>1. fate[c][q] \in Fates /\ Accounted(c) /\ Ordered(c)
    BY DEF IInv, TypeOK
  <2>2. pc[c] = "waiting" /\ at[c] = p /\ result[c] = "none"
    BY <2>1 DEF InFlight, Accounted
  <2>3. fate[c][q] # "outside" /\ fate[c][q] # "answered"
    BY <2>1, <2>2 DEF Ordered, Accounted
  <2>4. fate[c][q] # "sent"
    BY <2>1, <2>2, BeforeIsTotal DEF Accounted, InFlight
  <2>5. fate[c][q] # "queued"
    BY <2>1, <2>2, BeforeIsTotal DEF Accounted, Ordered
  <2>6. QED BY <2>1, <2>3, <2>4, <2>5 DEF Fates
<1>2. QED BY <1>1, CallsInvariant, PTL

-----------------------------------------------------------------------------
(***************************************************************************)
(* What a step does to a breaker: it is read, it learns of a success or a  *)
(* failure and may be read after that, it ages, or it is left alone.       *)
(***************************************************************************)
Touched(old, new) ==
    new \in {old, Peeked(old), Peeked(Peeked(old)), RecordSuccess(old),
             RecordFailure(old), Peeked(RecordFailure(old)), Aged(old)}

(***************************************************************************)
(* Every action leaves each breaker alone or applies one of the operations *)
(* of CircuitBreaker to it.                                                *)
(***************************************************************************)
LEMMA BreakerStep ==
    ASSUME TypeOK, [Next]_vars, NEW p \in Providers
    PROVE  Touched(breaker[p], breaker'[p])
<1>1. ASSUME NEW c \in Callers, NEW S \in SUBSET Providers,
             NEW b \in [Providers -> Breaker], NEW f, SendNext(c, S, b, f)
      PROVE  breaker'[p] \in {b[p], Peeked(b[p])}
  BY <1>1 DEF SendNext, SendTo
<1>2. ASSUME NEW c \in Callers, Begin(c) PROVE Touched(breaker[p], breaker'[p])
  <2>1. Read[p] = Peeked(breaker[p])
    BY DEF Read
  <2>2. breaker' = Read \/ breaker'[p] \in {Read[p], Peeked(Read[p])}
    BY <1>1, <1>2, Unfolded, ArgumentTypes
  <2>3. QED BY <2>1, <2>2 DEF Touched
<1>3. ASSUME NEW c \in Callers, NEW q \in Providers, Probe(c, q)
      PROVE  Touched(breaker[p], breaker'[p])
  <2>1. CASE SendNext(c, {q}, breaker, Only(q))
    BY <1>1, <2>1 DEF TypeOK, Touched
  <2>2. CASE GiveUp(c, {q}, breaker, Only(q))
    BY <2>2 DEF GiveUp, Touched
  <2>3. QED BY <1>3, <2>1, <2>2, Unfolded
<1>4. ASSUME NEW c \in Callers, Succeed(c) PROVE Touched(breaker[p], breaker'[p])
  BY <1>4 DEF Succeed, TypeOK, Touched
<1>5. ASSUME NEW c \in Callers, Fail(c) PROVE Touched(breaker[p], breaker'[p])
  <2>1. AfterFailure(c)[p] \in {breaker[p], RecordFailure(breaker[p])}
    BY DEF AfterFailure, TypeOK
  <2>2. CASE SendNext(c, rest[c], AfterFailure(c), FateAfterFailure(c))
    <3>1. breaker'[p] \in {AfterFailure(c)[p], Peeked(AfterFailure(c)[p])}
      BY <1>1, <2>2, ArgumentTypes
    <3>2. QED BY <2>1, <3>1 DEF Touched
  <2>3. CASE GiveUp(c, rest[c], AfterFailure(c), FateAfterFailure(c))
    BY <2>1, <2>3 DEF GiveUp, Touched
  <2>4. QED BY <1>5, <2>2, <2>3, Unfolded
<1>6. CASE Tick
  BY <1>6 DEF Tick, Touched
<1>7. CASE UNCHANGED vars
  BY <1>7 DEF vars, Touched
<1>8. QED BY <1>2, <1>3, <1>4, <1>5, <1>6, <1>7 DEF Next

(***************************************************************************)
(* The state of every breaker agrees with its failure count, under any     *)
(* interleaving of calls, probes and timeouts.                             *)
(***************************************************************************)
THEOREM StateAgreesWithCount == Spec => []BreakerAgreesWithCount
<1>1. BreakerAgreesWithCount <=> \A p \in Providers : Agrees(breaker[p])
  BY DEF BreakerAgreesWithCount, Agrees
<1>2. Init => BreakerAgreesWithCount
  BY AgreementKept DEF Init, BreakerAgreesWithCount, Agrees
<1>3. TypeOK /\ BreakerAgreesWithCount /\ [Next]_vars => BreakerAgreesWithCount'
  <2> SUFFICES ASSUME TypeOK, BreakerAgreesWithCount, [Next]_vars, NEW p \in Providers
               PROVE  Agrees(breaker'[p])
    BY DEF BreakerAgreesWithCount, Agrees
  <2>1. breaker[p] \in Breaker /\ Agrees(breaker[p])
    BY <1>1 DEF TypeOK
  <2>2. /\ Peeked(breaker[p]) \in Breaker
        /\ RecordFailure(breaker[p]) \in Breaker
    BY <2>1, BreakerClosed
  <2>3. Touched(breaker[p], breaker'[p])
    BY BreakerStep
  <2>4. QED BY <2>1, <2>2, <2>3, AgreementKept DEF Touched
<1>4. QED BY <1>2, <1>3, TypeCorrect, PTL DEF Spec

(***************************************************************************)
(* No new request reaches a provider in quarantine, whoever asks.          *)
(***************************************************************************)
THEOREM QuarantineHolds == Spec => Quarantine
<1>1. ASSUME TypeOK, [Next]_vars, NEW p \in Providers, NEW d \in Callers,
             breaker[p].state = "open", breaker[p].age <= Recovery, InFlight(d, p)'
      PROVE  InFlight(d, p)
  <2>0. breaker[p] \in Breaker /\ IsOpen(breaker[p])
    BY <1>1, PeekedTwice DEF TypeOK
  <2>1. ASSUME NEW c \in Callers, NEW S \in SUBSET Providers, NEW b, NEW f,
               SendNext(c, S, b, f), IsOpen(b[p])
        PROVE  InFlight(d, p)
    <3>1. PICK q \in S : ~IsOpen(b[q]) /\ SendTo(c, S, b, f, q)
      BY <2>1 DEF SendNext
    <3>2. q # p
      BY <2>1, <3>1
    <3>3. d # c
      BY <1>1, <3>1, <3>2 DEF SendTo, InFlight, TypeOK
    <3>4. QED BY <1>1, <3>1, <3>3 DEF SendTo, InFlight, TypeOK
  <2>2. ASSUME NEW c \in Callers, Begin(c) PROVE InFlight(d, p)
    <3>1. IsOpen(Read[p])
      BY <2>0, PeekedTwice DEF Read
    <3>2. CASE SendNext(c, Available, Read, First)
      BY <1>1, <2>1, <3>1, <3>2, ArgumentTypes
    <3>3. CASE UNCHANGED <<pc, at>>
      BY <1>1, <3>3 DEF InFlight
    <3>4. QED BY <2>2, <3>2, <3>3, Unfolded
  <2>3. ASSUME NEW c \in Callers, NEW S, NEW b, NEW f, GiveUp(c, S, b, f)
        PROVE  InFlight(d, p)
    <3>1. pc' = [pc EXCEPT ![c] = "idle"] /\ at' = at
      BY <2>3 DEF GiveUp
    <3>2. QED BY <1>1, <3>1 DEF InFlight, TypeOK
  <2>4. ASSUME NEW c \in Callers, NEW q \in Providers, Probe(c, q) PROVE InFlight(d, p)
    <3>1. SendNext(c, {q}, breaker, Only(q)) \/ GiveUp(c, {q}, breaker, Only(q))
      BY <2>4, Unfolded
    <3>2. QED BY <2>0, <2>1, <2>3, <3>1
  <2>5. ASSUME NEW c \in Callers, Succeed(c) PROVE InFlight(d, p)
    BY <1>1, <2>5 DEF Succeed, InFlight, TypeOK
  <2>6. ASSUME NEW c \in Callers, Fail(c) PROVE InFlight(d, p)
    <3>1. IsOpen(AfterFailure(c)[p])
      BY <1>1, <2>0, FailureKeepsOpen DEF AfterFailure, TypeOK
    <3>2. rest[c] \in SUBSET Providers
      BY <1>1, ArgumentTypes
    <3>3. QED BY <2>1, <2>3, <2>6, <3>1, <3>2, Unfolded
  <2>7. CASE Tick
    BY <1>1, <2>7 DEF Tick, InFlight
  <2>8. CASE UNCHANGED vars
    BY <1>1, <2>8 DEF vars, InFlight
  <2>9. QED BY <1>1, <2>2, <2>4, <2>5, <2>6, <2>7, <2>8 DEF Next
<1>2. TypeOK /\ [Next]_vars =>
        [\A p \in Providers :
            breaker[p].state = "open" /\ breaker[p].age <= Recovery
               => \A c \in Callers : InFlight(c, p)' => InFlight(c, p)]_vars
  BY <1>1
<1>3. QED BY <1>2, TypeCorrect, PTL DEF Spec, Quarantine

=============================================================================
