------------------------- MODULE MarketDataProofs -------------------------
(***************************************************************************)
(* The types of MarketData, its request budget, and that a call reports    *)
(* the failure of all adapters only when it has seen it, for any number of *)
(* calls, adapters, requests per window and tries.                         *)
(*                                                                         *)
(* What the properties lack to be inductive: a call that pauses has a try  *)
(* left (Tired); no request is sent that was not charged, each charge for  *)
(* one request, also while the EXPIRE that precedes it is under way        *)
(* (Charged); and what is known of each provider agrees with where the     *)
(* call is (Walked).                                                       *)
(***************************************************************************)
EXTENDS MarketData, CircuitBreakerLemmas

Tired(c) == pc[c] = "pause" => tries[c] < Attempts[at[c]]

\* What may be sent on the charge of a key: all of its first life, once it has
\* expired, and what it counts now.
Covered(k) ==
    (IF k.expired THEN MaxRequests ELSE 0)
        + (IF k.count <= MaxRequests THEN k.count ELSE MaxRequests)

\* Nothing is sent that was not charged, and only a key that counts has an end.
KeyOK(k) ==
    /\ k.sent <= Covered(k)
    /\ k.mortal => k.count >= 1 /\ ~k.expired

\* A request is still owed to the key, which has no end yet.
Owing(k) == k.sent < Covered(k) /\ k.count >= 1 /\ ~k.mortal

\* The keys are right.  A call that sets the expiry of a key has a request to
\* send on it, and is alone with it.
Charged ==
    /\ \A p \in Providers, w \in Windows : KeyOK(counter[p][w])
    /\ \A p \in Providers : ~counter[p]["now"].expired
    /\ \A c \in Callers : pc[c] = "expire" => Owing(Own(c))
    /\ \A c, d \in Callers :
          pc[c] = "expire" /\ pc[d] = "expire" /\ at[c] = at[d] /\ key[c] = key[d] => c = d

Walked(c) ==
    pc[c] # "idle" =>
        /\ result[c] = "none"
        /\ at[c] \notin rest[c]
        /\ \A p \in Providers :
              /\ fate[c][p] = "queued" => p \in rest[c]
              /\ fate[c][p] = "tried" => p = at[c]
              /\ fate[c][p] # "raised"

Earned(c) ==
    \A p \in Providers : result[c] = "failed" => fate[c][p] \in {"open", "failed"}

CallInv(c) == Tired(c) /\ Walked(c) /\ Earned(c)

IInv ==
    /\ TypeOK
    /\ \A c \in Callers : CallInv(c)
    /\ Charged

\* The variables of the calls keep their types.
CallTypes ==
    /\ pc \in [Callers -> {"idle", "incr", "expire", "http", "pause"}]
    /\ at \in [Callers -> Providers]
    /\ rest \in [Callers -> SUBSET Providers]
    /\ tries \in [Callers -> Nat]
    /\ \A c \in Callers : tries[c] <= Attempts[at[c]]
    /\ key \in [Callers -> Windows]
    /\ fate \in [Callers -> [Providers -> Fates]]
    /\ result \in [Callers -> Results]

\* Nothing has changed for call d.
Same(d) ==
    /\ pc'[d] = pc[d] /\ at'[d] = at[d] /\ rest'[d] = rest[d]
    /\ tries'[d] = tries[d] /\ key'[d] = key[d]
    /\ fate'[d] = fate[d] /\ result'[d] = result[d]

\* A step of call c is right for c, and is no other call's.
Moved(c) ==
    /\ CallTypes'
    /\ CallInv(c)'
    /\ \A d \in Callers \ {c} : Same(d)

\* Call c has no EXPIRE to wait for.
Free(c) == pc'[c] # "expire"

\* Fates f are ready for the call to turn to the providers of S.
Ready(S, f) ==
    \A p \in Providers :
        /\ f[p] = "queued" => p \in S
        /\ f[p] \notin {"tried", "raised"}

-----------------------------------------------------------------------------
(***************************************************************************)
(* There is a first provider; tries and requests are numbers.              *)
(***************************************************************************)
LEMMA MarketFacts ==
    /\ 1 \in Providers
    /\ \A p \in Providers : p \in Int /\ Attempts[p] \in Nat /\ Attempts[p] >= 1
    /\ MaxRequests \in Nat /\ MaxRequests >= 1
    /\ Windows = {"now", "last"}
BY MarketAssumption DEF Providers, Windows

(***************************************************************************)
(* A call begins a provider with its first step.                           *)
(***************************************************************************)
LEMMA FirstStepKinds == \A p : FirstStep(p) \in {"incr", "http"}
BY DEF FirstStep

(***************************************************************************)
(* Turning to the first provider of S.                                     *)
(***************************************************************************)
LEMMA TurnStep ==
    ASSUME TypeOK, NEW c \in Callers, NEW S \in SUBSET Providers,
           NEW f \in [Providers -> Fates], Ready(S, f), Turn(c, S, f)
    PROVE  Moved(c) /\ Free(c)
<1>1. PICK p \in S :
          /\ pc' = [pc EXCEPT ![c] = FirstStep(p)]
          /\ at' = [at EXCEPT ![c] = p]
          /\ rest' = [rest EXCEPT ![c] = S \ {p}]
          /\ tries' = [tries EXCEPT ![c] = 1]
          /\ key' = [key EXCEPT ![c] = "now"]
          /\ fate' = [fate EXCEPT ![c] = [f EXCEPT ![p] = "tried"]]
          /\ result' = [result EXCEPT ![c] = "none"]
  BY DEF Turn
<1>2. p \in Providers
  OBVIOUS
<1>3. [f EXCEPT ![p] = "tried"] \in [Providers -> Fates]
  BY <1>2 DEF Fates
<1>4. \A d \in Callers \ {c} : Same(d)
  BY <1>1 DEF TypeOK, Same
<1>5. /\ pc'[c] = FirstStep(p) /\ at'[c] = p /\ rest'[c] = S \ {p} /\ tries'[c] = 1
      /\ fate'[c] = [f EXCEPT ![p] = "tried"] /\ result'[c] = "none"
  BY <1>1 DEF TypeOK
<1>6. CallTypes'
  <2>1. \A d \in Callers : tries'[d] <= Attempts[at'[d]]
    BY <1>2, <1>4, <1>5, MarketFacts DEF TypeOK, Same
  <2>2. fate' \in [Callers -> [Providers -> Fates]]
    BY <1>1, <1>3 DEF TypeOK
  <2>3. /\ pc' \in [Callers -> {"idle", "incr", "expire", "http", "pause"}]
        /\ at' \in [Callers -> Providers]
        /\ rest' \in [Callers -> SUBSET Providers]
        /\ tries' \in [Callers -> Nat]
    BY <1>1, <1>2, FirstStepKinds DEF TypeOK
  <2>4. key' \in [Callers -> Windows] /\ result' \in [Callers -> Results]
    BY <1>1, MarketFacts DEF TypeOK, Results
  <2>5. QED BY <2>1, <2>2, <2>3, <2>4 DEF CallTypes
<1>7. CallInv(c)'
  <2>1. Tired(c)'
    BY <1>5, FirstStepKinds DEF Tired
  <2>2. Walked(c)'
    BY <1>2, <1>5 DEF Walked, Ready
  <2>3. Earned(c)'
    BY <1>5 DEF Earned
  <2>4. QED BY <2>1, <2>2, <2>3 DEF CallInv
<1>8. Free(c)
  BY <1>5, FirstStepKinds DEF Free
<1>9. QED BY <1>4, <1>6, <1>7, <1>8 DEF Moved

(***************************************************************************)
(* Ending a call, with failure only when every provider is accounted for.  *)
(***************************************************************************)
LEMMA EndStep ==
    ASSUME TypeOK, NEW c \in Callers, NEW outcome \in Results,
           NEW f \in [Providers -> Fates], fate' = [fate EXCEPT ![c] = f],
           outcome = "failed" => \A p \in Providers : f[p] \in {"open", "failed"},
           End(c, outcome)
    PROVE  Moved(c) /\ Free(c)
<1>1. \A d \in Callers \ {c} : Same(d)
  BY DEF End, TypeOK, Same
<1>2. pc'[c] = "idle" /\ at'[c] = 1 /\ tries'[c] = 0 /\ fate'[c] = f /\ result'[c] = outcome
  BY DEF End, TypeOK
<1>3. CallTypes'
  <2>1. \A d \in Callers : tries'[d] <= Attempts[at'[d]]
    <3>1. 0 <= Attempts[1]
      BY MarketFacts
    <3>2. \A d \in Callers \ {c} : tries'[d] = tries[d] /\ at'[d] = at[d]
      BY <1>1 DEF Same
    <3>3. QED BY <1>2, <3>1, <3>2 DEF TypeOK
  <2>2. /\ pc' \in [Callers -> {"idle", "incr", "expire", "http", "pause"}]
        /\ at' \in [Callers -> Providers]
        /\ rest' \in [Callers -> SUBSET Providers]
        /\ tries' \in [Callers -> Nat]
    BY MarketFacts DEF End, TypeOK
  <2>3. /\ key' \in [Callers -> Windows] /\ result' \in [Callers -> Results]
        /\ fate' \in [Callers -> [Providers -> Fates]]
    BY MarketFacts DEF End, TypeOK
  <2>4. QED BY <2>1, <2>2, <2>3 DEF CallTypes
<1>4. CallInv(c)'
  BY <1>2 DEF CallInv, Tired, Walked, Earned
<1>5. QED BY <1>1, <1>2, <1>3, <1>4 DEF Moved, Free

(***************************************************************************)
(* Going on at the same provider.                                          *)
(***************************************************************************)
LEMMA GoOnStep ==
    ASSUME TypeOK, NEW c \in Callers, CallInv(c), pc[c] # "idle",
           NEW step \in {"http", "pause"},
           step = "pause" => tries[c] < Attempts[at[c]],
           GoOn(c, step)
    PROVE  Moved(c) /\ Free(c)
<1>1. \A d \in Callers \ {c} : Same(d)
  BY DEF GoOn, TypeOK, Same
<1>2. pc'[c] = step /\ UNCHANGED <<at, rest, tries, fate, result>>
  BY DEF GoOn, TypeOK
<1>3. CallTypes'
  BY MarketFacts DEF GoOn, TypeOK, CallTypes
<1>4. CallInv(c)'
  BY <1>2 DEF CallInv, Tired, Walked, Earned
<1>5. QED BY <1>1, <1>2, <1>3, <1>4 DEF Moved, Free

(***************************************************************************)
(* The provider has failed: its fate is known, and the walk goes on.       *)
(***************************************************************************)
LEMMA FailStep ==
    ASSUME TypeOK, NEW c \in Callers, CallInv(c), pc[c] # "idle", ProviderFails(c)
    PROVE  Moved(c) /\ Free(c) /\ breaker' \in [Providers -> Breaker]
<1> DEFINE f == [fate[c] EXCEPT ![at[c]] = "failed"]
<1>1. at[c] \in Providers /\ rest[c] \in SUBSET Providers /\ f \in [Providers -> Fates]
  BY DEF TypeOK, Fates
<1>2. Ready(rest[c], f)
  BY <1>1 DEF TypeOK, CallInv, Walked, Ready
<1>3. breaker' \in [Providers -> Breaker]
  BY <1>1, BreakerClosed DEF ProviderFails, TypeOK
<1>4. \/ Turn(c, rest[c], f)
      \/ rest[c] = {} /\ fate' = [fate EXCEPT ![c] = f] /\ End(c, "failed")
  BY DEF ProviderFails
<1>5. CASE Turn(c, rest[c], f)
  BY <1>1, <1>2, <1>3, <1>5, TurnStep
<1>6. CASE rest[c] = {} /\ fate' = [fate EXCEPT ![c] = f] /\ End(c, "failed")
  <2>1. \A p \in Providers : f[p] \in {"open", "failed"}
    BY <1>1, <1>2, <1>6 DEF Ready, Fates
  <2>2. "failed" \in Results
    BY DEF Results
  <2>3. QED BY <1>1, <1>3, <1>6, <2>1, <2>2, EndStep
<1>7. QED BY <1>4, <1>5, <1>6

(***************************************************************************)
(* A refusal for the rate: a pause, or the failure of the provider.        *)
(***************************************************************************)
LEMMA LimitedStep ==
    ASSUME TypeOK, NEW c \in Callers, CallInv(c), pc[c] # "idle", Limited(c)
    PROVE  Moved(c) /\ Free(c) /\ breaker' \in [Providers -> Breaker]
<1>1. CASE tries[c] < Attempts[at[c]] /\ GoOn(c, "pause")
  <2>1. breaker' \in [Providers -> Breaker]
    BY <1>1 DEF GoOn, TypeOK
  <2>2. QED BY <1>1, <2>1, GoOnStep
<1>2. CASE ProviderFails(c)
  BY <1>2, FailStep
<1>3. QED BY <1>1, <1>2 DEF Limited

(***************************************************************************)
(* The call ends with an answer, or with an error that is no failover's.   *)
(***************************************************************************)
LEMMA LastStep ==
    ASSUME TypeOK, NEW c \in Callers,
           Escapes(c) \/ HttpOk(c)
    PROVE  Moved(c) /\ Free(c) /\ breaker' \in [Providers -> Breaker]
<1>1. at[c] \in Providers
  BY DEF TypeOK
<1>2. Unasked \in [Providers -> Fates] /\ [fate[c] EXCEPT ![at[c]] = "raised"] \in [Providers -> Fates]
  BY <1>1 DEF TypeOK, Fates, Unasked
<1>3. PICK out \in {"raised", "none"}, f \in [Providers -> Fates] :
          End(c, out) /\ fate' = [fate EXCEPT ![c] = f]
  BY <1>2 DEF Escapes, HttpOk
<1>4. out \in Results /\ out # "failed"
  BY DEF Results
<1>5. Moved(c) /\ Free(c)
  BY <1>3, <1>4, EndStep
<1>6. breaker' \in {breaker, [breaker EXCEPT ![at[c]] = RecordSuccess(@)]}
  BY DEF Escapes, HttpOk
<1>7. [breaker EXCEPT ![at[c]] = RecordSuccess(@)] \in [Providers -> Breaker]
  BY <1>1, BreakerClosed DEF TypeOK
<1>8. QED BY <1>5, <1>6, <1>7 DEF TypeOK

(***************************************************************************)
(* The beginning of a call.                                                *)
(***************************************************************************)
LEMMA BeginStep ==
    ASSUME TypeOK, NEW c \in Callers, Begin(c)
    PROVE  /\ Moved(c) /\ Free(c)
           /\ breaker' \in [Providers -> Breaker] /\ UNCHANGED counter
<1> DEFINE read == [p \in Providers |-> Peeked(breaker[p])]
           available == {p \in Providers : read[p].state # "open"}
           first == [p \in Providers |-> IF p \in available THEN "queued" ELSE "open"]
<1>1. first \in [Providers -> Fates] /\ available \in SUBSET Providers
  BY DEF Fates
<1>2. read \in [Providers -> Breaker]
  BY BreakerClosed DEF TypeOK
<1>3. /\ breaker' = read /\ UNCHANGED counter
      /\ \/ Turn(c, available, first)
         \/ /\ available = {} /\ End(c, "no_provider")
            /\ fate' = [fate EXCEPT ![c] = first]
  BY DEF Begin
<1>4. Ready(available, first)
  BY DEF Ready
<1>5. "no_provider" \in Results /\ "no_provider" # "failed"
  BY DEF Results
<1>6. Moved(c) /\ Free(c)
  BY <1>1, <1>3, <1>4, <1>5, TurnStep, EndStep
<1>7. QED BY <1>2, <1>3, <1>6

-----------------------------------------------------------------------------
(***************************************************************************)
(* The key of a new window is right.                                       *)
(***************************************************************************)
LEMMA NewKey == NewCounter \in Counter /\ KeyOK(NewCounter) /\ ~NewCounter.expired
<1>1. 0 \in 0..(MaxRequests + 1) /\ 0 <= MaxRequests
  BY MarketFacts
<1>2. QED BY <1>1 DEF NewCounter, Counter, KeyOK, Covered

(***************************************************************************)
(* The fields of a key.                                                    *)
(***************************************************************************)
LEMMA KeyFields ==
    ASSUME NEW k \in Counter
    PROVE  /\ k.count \in Int /\ k.count >= 0 /\ k.count <= MaxRequests + 1
           /\ k.sent \in Nat /\ k.mortal \in BOOLEAN /\ k.expired \in BOOLEAN
BY MarketFacts DEF Counter

(***************************************************************************)
(* INCR of a key: what it counts covers one request more, unless the limit *)
(* is reached.                                                             *)
(***************************************************************************)
LEMMA IncrementedKey ==
    ASSUME NEW k \in Counter
    PROVE  /\ Incremented(k) \in Counter
           /\ Incremented(k).expired = k.expired
           /\ KeyOK(k) => KeyOK(Incremented(k))
           /\ Owing(k) => Owing(Incremented(k))
           /\ Incremented(k).count = 1 /\ KeyOK(k) => Owing(Incremented(k)) /\ ~Owing(k)
<1> DEFINE n == IF k.count <= MaxRequests THEN k.count + 1 ELSE k.count
           base == IF k.expired THEN MaxRequests ELSE 0
<1>1. /\ Incremented(k).count = n /\ Incremented(k).sent = k.sent
      /\ Incremented(k).mortal = k.mortal /\ Incremented(k).expired = k.expired
  BY DEF Incremented, Counter
<1>2. n \in 0..(MaxRequests + 1)
  BY KeyFields, MarketFacts
<1>3. Incremented(k) \in Counter
  BY <1>2 DEF Incremented, Counter
<1>4. base \in Int
  BY MarketFacts
<1>5. /\ Covered(k) = base + (IF k.count <= MaxRequests THEN k.count ELSE MaxRequests)
      /\ Covered(Incremented(k)) = base + (IF n <= MaxRequests THEN n ELSE MaxRequests)
  BY <1>1 DEF Covered
<1> HIDE DEF base
<1>6. /\ Covered(k) \in Int /\ Covered(Incremented(k)) \in Int
      /\ Covered(k) <= Covered(Incremented(k))
      /\ n = 1 => k.count = 0 /\ Covered(k) < Covered(Incremented(k))
      /\ n >= k.count /\ n \in Int
  BY <1>4, <1>5, KeyFields, MarketFacts
<1>7. KeyOK(k) => KeyOK(Incremented(k))
  BY <1>1, <1>6, KeyFields DEF KeyOK
<1>8. Owing(k) => Owing(Incremented(k))
  BY <1>1, <1>6, KeyFields DEF Owing
<1>9. ASSUME n = 1, KeyOK(k) PROVE Owing(Incremented(k)) /\ ~Owing(k)
  <2>1. ~k.mortal /\ k.count = 0
    BY <1>6, <1>9, KeyFields DEF KeyOK
  <2>2. k.sent < Covered(Incremented(k))
    BY <1>6, <1>9, KeyFields DEF KeyOK
  <2>3. QED BY <1>1, <1>9, <2>1, <2>2 DEF Owing
<1>10. QED BY <1>1, <1>3, <1>7, <1>8, <1>9

(***************************************************************************)
(* The request that an INCR within the limit allows.                       *)
(***************************************************************************)
LEMMA AllowedKey ==
    ASSUME NEW k \in Counter, Incremented(k).count \in 2..MaxRequests
    PROVE  /\ Requested(Incremented(k)) \in Counter
           /\ Requested(Incremented(k)).expired = k.expired
           /\ KeyOK(k) => KeyOK(Requested(Incremented(k)))
           /\ Owing(k) => Owing(Requested(Incremented(k)))
           /\ KeyOK(k) => k.sent < Covered(Incremented(k))
<1> DEFINE base == IF k.expired THEN MaxRequests ELSE 0
           r == Requested(Incremented(k))
<1>1. /\ Incremented(k).count = IF k.count <= MaxRequests THEN k.count + 1 ELSE k.count
      /\ Incremented(k).sent = k.sent
      /\ Incremented(k).mortal = k.mortal /\ Incremented(k).expired = k.expired
  BY DEF Incremented, Counter
<1>2. k.count + 1 \in 2..MaxRequests /\ Incremented(k).count = k.count + 1
  BY <1>1, KeyFields, MarketFacts
<1>3. /\ r.count = Incremented(k).count /\ r.sent = k.sent + 1
      /\ r.mortal = k.mortal /\ r.expired = k.expired
  BY <1>1, IncrementedKey DEF Requested, Counter
<1>4. r \in Counter
  BY IncrementedKey DEF Requested, Counter
<1>5. base \in Int
  BY MarketFacts
<1>6. /\ Covered(k) = base + (IF k.count <= MaxRequests THEN k.count ELSE MaxRequests)
      /\ Covered(r) = base + (IF r.count <= MaxRequests THEN r.count ELSE MaxRequests)
      /\ Covered(Incremented(k)) = Covered(r)
  BY <1>1, <1>3 DEF Covered
<1> HIDE DEF base, r
<1>7. Covered(r) = Covered(k) + 1 /\ Covered(k) \in Int /\ r.count >= 1 /\ r.count = k.count + 1
  BY <1>2, <1>3, <1>5, <1>6, KeyFields, MarketFacts
<1>8. KeyOK(k) => KeyOK(r)
  BY <1>3, <1>7, KeyFields DEF KeyOK
<1>9. Owing(k) => Owing(r)
  BY <1>3, <1>7, KeyFields DEF Owing
<1>10. KeyOK(k) => k.sent < Covered(Incremented(k))
  BY <1>6, <1>7, KeyFields DEF KeyOK
<1>11. QED BY <1>3, <1>4, <1>8, <1>9, <1>10 DEF r

(***************************************************************************)
(* The EXPIRE of a key to which a request is owed, and the request.        *)
(***************************************************************************)
LEMMA ExpiringKey ==
    ASSUME NEW k \in Counter, NEW w \in Windows, KeyOK(k), Owing(k), w = "now" => ~k.expired
    PROVE  /\ Expiring(k, w) \in Counter /\ Requested(Expiring(k, w)) \in Counter
           /\ Expiring(k, w).expired = k.expired /\ Requested(Expiring(k, w)).expired = k.expired
           /\ KeyOK(Expiring(k, w)) /\ KeyOK(Requested(Expiring(k, w)))
<1> DEFINE e == Expiring(k, w)
           r == Requested(e)
<1>1. /\ e.count = k.count /\ e.sent = k.sent /\ e.expired = k.expired /\ e.mortal = (w = "now")
      /\ r.count = k.count /\ r.sent = k.sent + 1 /\ r.expired = k.expired /\ r.mortal = (w = "now")
  BY DEF Expiring, Requested, Counter
<1>2. e \in Counter /\ r \in Counter
  <2>1. (w = "now") \in BOOLEAN
    OBVIOUS
  <2>2. \A b \in BOOLEAN : [k EXCEPT !.mortal = b] \in Counter
    BY DEF Counter
  <2>3. e \in Counter
    BY <2>1, <2>2 DEF Expiring
  <2>4. \A x \in Counter : Requested(x) \in Counter
    BY DEF Requested, Counter
  <2>5. QED BY <2>3, <2>4
<1>3. Covered(e) = Covered(k) /\ Covered(r) = Covered(k)
  BY <1>1 DEF Covered
<1>4. Covered(k) \in Int
  BY KeyFields, MarketFacts DEF Covered
<1>5. k.sent < Covered(k) /\ k.sent + 1 <= Covered(k) /\ k.sent <= Covered(k) /\ k.count >= 1
  BY <1>4, KeyFields DEF Owing
<1> HIDE DEF e, r
<1>6. KeyOK(e) /\ KeyOK(r)
  BY <1>1, <1>3, <1>5 DEF KeyOK
<1>7. QED BY <1>1, <1>2, <1>6 DEF e, r

(***************************************************************************)
(* A key that expires: all that was sent on it is of its first life.       *)
(***************************************************************************)
LEMMA ExpiredKey ==
    ASSUME NEW k \in Counter, KeyOK(k), k.mortal,
           NEW e, e = [k EXCEPT !.count = 0, !.mortal = FALSE, !.expired = TRUE]
    PROVE  e \in Counter /\ KeyOK(e) /\ ~Owing(k)
<1>1. ~k.expired
  BY DEF KeyOK
<1>2. /\ e.count = 0 /\ e.sent = k.sent /\ e.mortal = FALSE /\ e.expired = TRUE
      /\ 0 \in 0..(MaxRequests + 1)
  BY MarketFacts DEF Counter
<1>3. e \in Counter
  BY <1>2 DEF Counter
<1>4. Covered(k) <= MaxRequests /\ Covered(k) \in Int
  BY <1>1, KeyFields, MarketFacts DEF Covered
<1>5. Covered(e) = MaxRequests
  BY <1>2, MarketFacts DEF Covered
<1>6. k.sent <= MaxRequests
  BY <1>4, KeyFields, MarketFacts DEF KeyOK
<1>7. KeyOK(e)
  BY <1>2, <1>5, <1>6 DEF KeyOK
<1>8. QED BY <1>3, <1>7 DEF Owing

-----------------------------------------------------------------------------
\* Call d waits for the EXPIRE of the key that call c names.
Beside(d, c) == pc[d] = "expire" /\ at[d] = at[c] /\ key[d] = key[c]

\* The counters keep their types and stay right.
Kept == counter' \in [Providers -> [Windows -> Counter]] /\ Charged'

(***************************************************************************)
(* One step of call c on the key it names.                                 *)
(***************************************************************************)
LEMMA KeyStep ==
    ASSUME TypeOK, Charged, NEW c \in Callers, Moved(c), NEW k \in Counter, Put(c, k),
           KeyOK(k), k.expired => Own(c).expired,
           \A d \in Callers \ {c} : Beside(d, c) => Owing(k),
           Free(c) \/ (/\ at'[c] = at[c] /\ key'[c] = key[c] /\ Owing(k)
                       /\ \A d \in Callers \ {c} : ~Beside(d, c))
    PROVE  Kept
<1>1. at[c] \in Providers /\ key[c] \in Windows
  BY DEF TypeOK
<1>2. counter' \in [Providers -> [Windows -> Counter]]
  BY <1>1 DEF Put, TypeOK
<1>3. \A p \in Providers, w \in Windows :
          counter'[p][w] = IF p = at[c] /\ w = key[c] THEN k ELSE counter[p][w]
  BY <1>1 DEF Put, TypeOK
<1>4. \A p \in Providers, w \in Windows : KeyOK(counter'[p][w])
  BY <1>3 DEF Charged
<1>5. \A p \in Providers : ~counter'[p]["now"].expired
  BY <1>1, <1>3, MarketFacts DEF Charged, Own
<1>6. ASSUME NEW d \in Callers \ {c}
      PROVE  /\ pc'[d] = pc[d] /\ at'[d] = at[d] /\ key'[d] = key[d]
             /\ at[d] \in Providers /\ key[d] \in Windows
  BY DEF Moved, Same, TypeOK
<1>7. ASSUME NEW d \in Callers, pc'[d] = "expire"
      PROVE  Owing(counter'[at'[d]][key'[d]])
  <2>1. CASE d = c
    <3>1. at'[c] = at[c] /\ key'[c] = key[c] /\ Owing(k)
      BY <1>7, <2>1 DEF Free
    <3>2. QED BY <1>1, <1>3, <2>1, <3>1
  <2>2. CASE d # c /\ Beside(d, c)
    BY <1>1, <1>3, <1>6, <2>2 DEF Beside
  <2>3. CASE d # c /\ ~Beside(d, c)
    <3>1. counter'[at'[d]][key'[d]] = counter[at[d]][key[d]]
      BY <1>3, <1>6, <1>7, <2>3 DEF Beside
    <3>2. Owing(counter[at[d]][key[d]])
      BY <1>6, <1>7, <2>3 DEF Charged, Own
    <3>3. QED BY <3>1, <3>2
  <2>4. QED BY <2>1, <2>2, <2>3
<1>8. ASSUME NEW d \in Callers, NEW e \in Callers, pc'[d] = "expire", pc'[e] = "expire",
             at'[d] = at'[e], key'[d] = key'[e]
      PROVE  d = e
  <2>1. CASE d # c /\ e # c
    BY <1>6, <1>8, <2>1 DEF Charged
  <2>2. CASE d = c /\ e # c
    BY <1>6, <1>8, <2>2 DEF Free, Beside
  <2>3. CASE d # c /\ e = c
    BY <1>6, <1>8, <2>3 DEF Free, Beside
  <2>4. QED BY <2>1, <2>2, <2>3
<1>9. Charged'
  BY <1>4, <1>5, <1>7, <1>8 DEF Charged, Own
<1>10. QED BY <1>2, <1>9 DEF Kept

(***************************************************************************)
(* The last Redis call of a try.                                           *)
(***************************************************************************)
LEMMA LeaveStep ==
    ASSUME TypeOK, Charged, NEW c \in Callers, Moved(c), Free(c),
           NEW k \in Counter, PutAndLeave(c, k),
           KeyOK(k), k.expired = Own(c).expired,
           pc[c] = "expire" \/ (Owing(Own(c)) => Owing(k))
    PROVE  Kept
<1>1. CASE key[c] = "now" \/ Late(Callers \ {c}, at[c])
  <2>1. Put(c, k)
    BY <1>1 DEF PutAndLeave
  <2>2. ASSUME NEW d \in Callers \ {c}, Beside(d, c) PROVE Owing(k)
    <3>1. pc[c] # "expire"
      BY <2>2 DEF Charged, Beside
    <3>2. Owing(Own(c))
      BY <2>2 DEF Charged, Beside, Own
    <3>3. QED BY <3>1, <3>2
  <2>3. QED BY <2>1, <2>2, KeyStep
<1>2. CASE key[c] # "now" /\ ~Late(Callers \ {c}, at[c])
  <2>1. Put(c, NewCounter)
    BY <1>2 DEF PutAndLeave
  <2>2. ASSUME NEW d \in Callers \ {c} PROVE ~Beside(d, c)
    BY <1>2, MarketFacts DEF Beside, Late, TypeOK
  <2>3. QED BY <2>1, <2>2, NewKey, KeyStep
<1>3. QED BY <1>1, <1>2

(***************************************************************************)
(* A step that leaves the counters alone, and waits for no EXPIRE.         *)
(***************************************************************************)
LEMMA RestStep ==
    ASSUME TypeOK, Charged, NEW c \in Callers, Moved(c), Free(c), UNCHANGED counter
    PROVE  Kept
<1>1. ASSUME NEW d \in Callers, pc'[d] = "expire"
      PROVE  d # c /\ pc[d] = "expire" /\ at'[d] = at[d] /\ key'[d] = key[d]
  BY <1>1 DEF Moved, Same, Free
<1>2. Charged'
  BY <1>1 DEF Charged, Own
<1>3. QED BY <1>2 DEF Kept, TypeOK

(***************************************************************************)
(* The first INCR of a key, before its EXPIRE.                             *)
(***************************************************************************)
LEMMA ToExpireStep ==
    ASSUME TypeOK, NEW c \in Callers, CallInv(c), pc[c] = "incr", ToExpire(c)
    PROVE  /\ Moved(c) /\ breaker' \in [Providers -> Breaker]
           /\ at'[c] = at[c] /\ key'[c] = key[c]
<1>1. /\ pc' = [pc EXCEPT ![c] = "expire"]
      /\ UNCHANGED <<breaker, at, rest, tries, key, fate, result>>
  BY DEF ToExpire
<1>2. \A d \in Callers \ {c} : Same(d)
  BY <1>1 DEF TypeOK, Same
<1>3. CallTypes'
  BY <1>1 DEF TypeOK, CallTypes
<1>4. pc'[c] = "expire"
  BY <1>1 DEF TypeOK
<1>5. CallInv(c)'
  BY <1>1, <1>4 DEF CallInv, Tired, Walked, Earned
<1>6. QED BY <1>1, <1>2, <1>3, <1>5 DEF Moved, TypeOK

-----------------------------------------------------------------------------
(***************************************************************************)
(* INCR.                                                                   *)
(***************************************************************************)
LEMMA IncrStep ==
    ASSUME IInv, NEW c \in Callers, Incr(c)
    PROVE  Moved(c) /\ breaker' \in [Providers -> Breaker] /\ Kept
<1> DEFINE k == Incremented(Own(c))
<1>1. TypeOK /\ Charged /\ CallInv(c) /\ pc[c] = "incr" /\ pc[c] # "idle"
  BY DEF IInv, Incr
<1>2. Own(c) \in Counter /\ KeyOK(Own(c))
  BY <1>1 DEF TypeOK, Own, Charged
<1>3. CASE k.count = 1 /\ Put(c, k) /\ ToExpire(c)
  <2>1. k \in Counter /\ KeyOK(k) /\ k.expired = Own(c).expired /\ Owing(k) /\ ~Owing(Own(c))
    BY <1>2, <1>3, IncrementedKey
  <2>2. ASSUME NEW d \in Callers \ {c} PROVE ~Beside(d, c)
    BY <1>1, <2>1 DEF Charged, Beside, Own
  <2> HIDE DEF k
  <2>3. QED BY <1>1, <1>3, <2>1, <2>2, ToExpireStep, KeyStep
<1>4. CASE k.count \in 2..MaxRequests /\ PutAndLeave(c, Requested(k)) /\ GoOn(c, "http")
  <2>1. /\ Requested(k) \in Counter /\ KeyOK(Requested(k))
        /\ Requested(k).expired = Own(c).expired
        /\ Owing(Own(c)) => Owing(Requested(k))
    BY <1>2, <1>4, AllowedKey
  <2>2. Moved(c) /\ Free(c)
    BY <1>1, <1>4, GoOnStep
  <2>3. breaker' \in [Providers -> Breaker]
    BY <1>1, <1>4 DEF GoOn, TypeOK
  <2> HIDE DEF k
  <2>4. QED BY <1>1, <1>4, <2>1, <2>2, <2>3, LeaveStep
<1>5. CASE PutAndLeave(c, k) /\ Limited(c)
  <2>1. /\ k \in Counter /\ KeyOK(k) /\ k.expired = Own(c).expired
        /\ Owing(Own(c)) => Owing(k)
    BY <1>2, IncrementedKey
  <2>2. Moved(c) /\ Free(c) /\ breaker' \in [Providers -> Breaker]
    BY <1>1, <1>5, LimitedStep
  <2> HIDE DEF k
  <2>3. QED BY <1>1, <1>5, <2>1, <2>2, LeaveStep
<1>6. QED BY <1>3, <1>4, <1>5 DEF Incr

(***************************************************************************)
(* EXPIRE, and a Redis call that raises.                                   *)
(***************************************************************************)
LEMMA RedisStep ==
    ASSUME IInv, NEW c \in Callers, SetExpiry(c) \/ RedisFails(c)
    PROVE  Moved(c) /\ breaker' \in [Providers -> Breaker] /\ Kept
<1> DEFINE i == Incremented(Own(c))
           e == Expiring(Own(c), key[c])
<1>1. TypeOK /\ Charged /\ CallInv(c) /\ key[c] \in Windows
  BY DEF IInv, TypeOK
<1>2. Own(c) \in Counter /\ KeyOK(Own(c)) /\ (key[c] = "now" => ~Own(c).expired)
  BY <1>1 DEF TypeOK, Own, Charged
<1>3. pc[c] = "expire" => Owing(Own(c))
  BY <1>1 DEF Charged
<1>4. pc[c] = "expire" =>
          /\ e \in Counter /\ Requested(e) \in Counter
          /\ e.expired = Own(c).expired /\ Requested(e).expired = Own(c).expired
          /\ KeyOK(e) /\ KeyOK(Requested(e))
  BY <1>1, <1>2, <1>3, ExpiringKey
<1>5. /\ i \in Counter /\ KeyOK(i) /\ i.expired = Own(c).expired
      /\ Owing(Own(c)) => Owing(i)
  BY <1>2, IncrementedKey
<1>6. CASE SetExpiry(c)
  <2>1. pc[c] = "expire" /\ pc[c] # "idle" /\ PutAndLeave(c, Requested(e)) /\ GoOn(c, "http")
    BY <1>6 DEF SetExpiry
  <2>2. Moved(c) /\ Free(c)
    BY <1>1, <2>1, GoOnStep
  <2>3. breaker' \in [Providers -> Breaker]
    BY <1>1, <2>1 DEF GoOn, TypeOK
  <2> HIDE DEF e
  <2>4. QED BY <1>1, <1>4, <2>1, <2>2, <2>3, LeaveStep
<1>7. CASE RedisFails(c)
  <2>1. Moved(c) /\ Free(c) /\ breaker' \in [Providers -> Breaker]
    BY <1>1, <1>7, LastStep DEF RedisFails
  <2>2. \/ PutAndLeave(c, i)
        \/ pc[c] = "expire" /\ PutAndLeave(c, e)
        \/ PutAndLeave(c, Own(c))
    BY <1>7 DEF RedisFails
  <2> HIDE DEF e, i
  <2>3. CASE PutAndLeave(c, i)
    BY <1>1, <1>5, <2>1, <2>3, LeaveStep
  <2>4. CASE pc[c] = "expire" /\ PutAndLeave(c, e)
    BY <1>1, <1>4, <2>1, <2>4, LeaveStep
  <2>5. CASE PutAndLeave(c, Own(c))
    BY <1>1, <1>2, <2>1, <2>5, LeaveStep
  <2>6. QED BY <2>1, <2>2, <2>3, <2>4, <2>5
<1>8. QED BY <1>6, <1>7

(***************************************************************************)
(* The pause is over.                                                      *)
(***************************************************************************)
LEMMA RetryStep ==
    ASSUME IInv, NEW c \in Callers, Retry(c)
    PROVE  Moved(c) /\ breaker' \in [Providers -> Breaker] /\ Kept
<1>1. TypeOK /\ Charged /\ CallInv(c)
  BY DEF IInv
<1>2. /\ pc[c] = "pause" /\ UNCHANGED <<breaker, counter, at, rest, key, fate, result>>
      /\ pc' = [pc EXCEPT ![c] = FirstStep(at[c])]
      /\ tries' = [tries EXCEPT ![c] = @ + 1]
  BY DEF Retry
<1>3. pc'[c] \in {"incr", "http"} /\ tries'[c] = tries[c] + 1
  BY <1>1, <1>2, FirstStepKinds DEF TypeOK
<1>4. \A d \in Callers \ {c} : Same(d)
  BY <1>1, <1>2 DEF TypeOK, Same
<1>5. CallTypes'
  <2>1. at[c] \in Providers /\ tries[c] \in Nat /\ tries[c] < Attempts[at[c]]
    BY <1>1, <1>2 DEF TypeOK, CallInv, Tired
  <2>2. tries'[c] <= Attempts[at'[c]]
    BY <1>2, <1>3, <2>1, MarketFacts
  <2>3. \A d \in Callers : tries'[d] <= Attempts[at'[d]]
    BY <1>1, <1>4, <2>2 DEF TypeOK, Same
  <2>4. /\ tries' \in [Callers -> Nat]
        /\ pc' \in [Callers -> {"idle", "incr", "expire", "http", "pause"}]
    BY <1>1, <1>2, FirstStepKinds DEF TypeOK
  <2>5. QED BY <1>1, <1>2, <2>3, <2>4 DEF TypeOK, CallTypes
<1>6. CallInv(c)'
  BY <1>1, <1>2, <1>3 DEF CallInv, Tired, Walked, Earned
<1>7. Moved(c) /\ Free(c)
  BY <1>3, <1>4, <1>5, <1>6 DEF Moved, Free
<1>8. QED BY <1>1, <1>2, <1>7, RestStep DEF TypeOK

(***************************************************************************)
(* A step of a call is right for it, for the breakers and for the keys.    *)
(***************************************************************************)
LEMMA CallerStep ==
    ASSUME IInv, NEW c \in Callers, Begin(c) \/ CallStep(c)
    PROVE  Moved(c) /\ breaker' \in [Providers -> Breaker] /\ Kept
<1>1. TypeOK /\ Charged /\ CallInv(c)
  BY DEF IInv
<1>2. CASE Begin(c)
  BY <1>1, <1>2, BeginStep, RestStep
<1>3. CASE HttpOk(c) \/ HttpRaises(c)
  <2>1. (Escapes(c) \/ HttpOk(c)) /\ UNCHANGED counter
    BY <1>3 DEF HttpOk, HttpRaises
  <2>2. QED BY <1>1, <2>1, LastStep, RestStep
<1>4. CASE HttpLimited(c)
  <2>1. pc[c] # "idle" /\ Limited(c) /\ UNCHANGED counter
    BY <1>4 DEF HttpLimited
  <2>2. QED BY <1>1, <2>1, LimitedStep, RestStep
<1>5. CASE HttpUnavailable(c)
  <2>1. pc[c] # "idle" /\ ProviderFails(c) /\ UNCHANGED counter
    BY <1>5 DEF HttpUnavailable
  <2>2. QED BY <1>1, <2>1, FailStep, RestStep
<1>6. QED
  BY <1>2, <1>3, <1>4, <1>5, IncrStep, RedisStep, RetryStep DEF CallStep

(***************************************************************************)
(* A key that expires keeps the keys right.                                *)
(***************************************************************************)
LEMMA ExpiryStep ==
    ASSUME TypeOK, Charged, NEW p \in Providers, KeyExpires(p)
    PROVE  Kept
<1> DEFINE k == counter[p]["last"]
           e == [k EXCEPT !.count = 0, !.mortal = FALSE, !.expired = TRUE]
<1>1. k \in Counter /\ KeyOK(k) /\ k.mortal
  BY MarketFacts DEF KeyExpires, TypeOK, Charged
<1>2. e \in Counter /\ KeyOK(e) /\ ~Owing(k)
  BY <1>1, ExpiredKey
<1>3. counter' = [counter EXCEPT ![p]["last"] = e] /\ UNCHANGED <<pc, at, key>>
  BY DEF KeyExpires, callVars
<1> HIDE DEF e
<1>4. counter' \in [Providers -> [Windows -> Counter]]
  BY <1>2, <1>3, MarketFacts DEF TypeOK
<1>5. \A q \in Providers, w \in Windows :
          counter'[q][w] = IF q = p /\ w = "last" THEN e ELSE counter[q][w]
  BY <1>3, MarketFacts DEF TypeOK
<1>6. \A q \in Providers, w \in Windows : KeyOK(counter'[q][w])
  BY <1>2, <1>5 DEF Charged
<1>7. \A q \in Providers : ~counter'[q]["now"].expired
  BY <1>5, MarketFacts DEF Charged
<1>8. ASSUME NEW c \in Callers, pc[c] = "expire"
      PROVE  Owing(counter'[at[c]][key[c]])
  <2>1. Owing(counter[at[c]][key[c]]) /\ at[c] \in Providers /\ key[c] \in Windows
    BY <1>8 DEF Charged, Own, TypeOK
  <2>2. ~(at[c] = p /\ key[c] = "last")
    BY <1>2, <2>1
  <2>3. QED BY <1>5, <2>1, <2>2
<1>9. Charged'
  BY <1>3, <1>6, <1>7, <1>8 DEF Charged, Own
<1>10. QED BY <1>4, <1>9 DEF Kept

(***************************************************************************)
(* The keys of the last window are those the calls in flight began with.   *)
(***************************************************************************)
LEMMA WindowStep ==
    ASSUME TypeOK, Charged, NextWindow
    PROVE  Kept
<1>1. UNCHANGED <<pc, at>> /\ \A c \in Callers : key[c] = "now"
  BY DEF NextWindow
<1>2. \A c \in Callers : pc[c] = "expire" => key'[c] = "last"
  BY DEF NextWindow
<1>3. /\ \A p \in Providers : counter'[p]["now"] = NewCounter
      /\ \A p \in Providers : counter'[p]["last"] \in {counter[p]["now"], NewCounter}
      /\ \A c \in Callers : pc[c] = "expire" =>
             counter'[at[c]]["last"] = counter[at[c]]["now"]
  BY MarketFacts DEF NextWindow, TypeOK
<1>4. counter' \in [Providers -> [Windows -> Counter]]
  BY NewKey, MarketFacts DEF NextWindow, TypeOK
<1>5. \A p \in Providers, w \in Windows : KeyOK(counter'[p][w])
  BY <1>3, NewKey, MarketFacts DEF Charged
<1>6. \A p \in Providers : ~counter'[p]["now"].expired
  BY <1>3, NewKey
<1>7. ASSUME NEW c \in Callers, pc[c] = "expire"
      PROVE  Owing(counter'[at[c]][key'[c]])
  <2>1. Owing(counter[at[c]]["now"])
    BY <1>1, <1>7 DEF Charged, Own
  <2>2. QED BY <1>2, <1>3, <1>7, <2>1
<1>8. ASSUME NEW c \in Callers, NEW d \in Callers, pc[c] = "expire", pc[d] = "expire", at[c] = at[d]
      PROVE  c = d
  BY <1>1, <1>8 DEF Charged
<1>9. Charged'
  BY <1>1, <1>5, <1>6, <1>7, <1>8 DEF Charged, Own
<1>10. QED BY <1>4, <1>9 DEF Kept

(***************************************************************************)
(* Every step keeps the invariant.                                         *)
(***************************************************************************)
LEMMA InvStep == IInv /\ [Next]_vars => IInv'
<1> SUFFICES ASSUME IInv, [Next]_vars PROVE IInv'
  OBVIOUS
<1>1. TypeOK /\ Charged /\ \A c \in Callers : CallInv(c)
  BY DEF IInv
<1>2. ASSUME NEW c \in Callers, Begin(c) \/ CallStep(c) PROVE IInv'
  <2>1. Moved(c) /\ breaker' \in [Providers -> Breaker] /\ Kept
    BY <1>2, CallerStep
  <2>2. ASSUME NEW d \in Callers \ {c} PROVE CallInv(d)'
    BY <1>1, <2>1 DEF Moved, Same, CallInv, Tired, Walked, Earned
  <2>3. TypeOK'
    BY <2>1 DEF Moved, CallTypes, Kept, TypeOK
  <2>4. QED BY <2>1, <2>2, <2>3 DEF Moved, Kept, IInv
<1>3. ASSUME NEW p \in Providers, KeyExpires(p) PROVE IInv'
  <2>1. UNCHANGED <<breaker, pc, at, rest, tries, key, fate, result>> /\ Kept
    BY <1>1, <1>3, ExpiryStep DEF KeyExpires, callVars
  <2>2. TypeOK'
    BY <1>1, <2>1 DEF TypeOK, Kept
  <2>3. QED BY <1>1, <2>1, <2>2 DEF Kept, IInv, CallInv, Tired, Walked, Earned
<1>4. CASE Tick
  <2>1. breaker' \in [Providers -> Breaker]
    BY <1>1, <1>4, BreakerClosed DEF Tick, TypeOK
  <2>2. UNCHANGED <<counter, pc, at, rest, tries, key, fate, result>>
    BY <1>4 DEF Tick, callVars
  <2>3. TypeOK'
    BY <1>1, <2>1, <2>2 DEF TypeOK
  <2>4. QED BY <1>1, <2>2, <2>3 DEF IInv, CallInv, Tired, Walked, Earned, Charged, Own
<1>5. CASE NextWindow
  <2>1. UNCHANGED <<breaker, pc, at, rest, tries, fate, result>> /\ Kept
    BY <1>1, <1>5, WindowStep DEF NextWindow
  <2>2. key' \in [Callers -> Windows]
    BY <1>5, MarketFacts DEF NextWindow
  <2>3. TypeOK'
    BY <1>1, <2>1, <2>2 DEF TypeOK, Kept
  <2>4. QED BY <1>1, <2>1, <2>3 DEF Kept, IInv, CallInv, Tired, Walked, Earned
<1>6. CASE UNCHANGED vars
  <2>1. TypeOK'
    BY <1>1, <1>6 DEF vars, TypeOK
  <2>2. QED BY <1>1, <1>6, <2>1 DEF vars, IInv, CallInv, Tired, Walked, Earned, Charged, Own
<1>7. QED
  BY <1>2, <1>3, <1>4, <1>5, <1>6 DEF Next

(***************************************************************************)
(* The invariant holds from the beginning.                                 *)
(***************************************************************************)
LEMMA InvariantHolds == Spec => []IInv
<1>1. Init => IInv
  <2> SUFFICES ASSUME Init PROVE IInv
    OBVIOUS
  <2>1. /\ breaker \in [Providers -> Breaker]
        /\ counter \in [Providers -> [Windows -> Counter]]
    BY BreakerClosed, NewKey DEF Init
  <2>2. \A c \in Callers : tries[c] <= Attempts[at[c]]
    BY MarketFacts DEF Init
  <2>3. TypeOK
    BY <2>1, <2>2, MarketFacts DEF Init, TypeOK, Fates, Results, Unasked
  <2>4. Charged
    BY NewKey, MarketFacts DEF Init, Charged
  <2>5. \A c \in Callers : CallInv(c)
    BY DEF Init, CallInv, Tired, Walked, Earned
  <2>6. QED BY <2>3, <2>4, <2>5 DEF IInv
<1>2. QED BY <1>1, InvStep, PTL DEF Spec

-----------------------------------------------------------------------------
(***************************************************************************)
(* The variables of the market data calls keep their types.                *)
(***************************************************************************)
THEOREM TypeCorrect == Spec => []TypeOK
<1>1. IInv => TypeOK
  BY DEF IInv
<1>2. QED BY <1>1, InvariantHolds, PTL

(***************************************************************************)
(* A call that sends has room left on the counter it has charged, and the  *)
(* room is the limit, once or, after an expiry, twice.                     *)
(***************************************************************************)
LEMMA RoomLeft ==
    ASSUME IInv, NEW c \in Callers, Begin(c) \/ CallStep(c), SendsCharged(c)
    PROVE  Own(c).sent < (IF key[c] = "last" /\ Own(c).expired
                          THEN 2 * MaxRequests ELSE MaxRequests)
<1> DEFINE k == Own(c)
<1>1. TypeOK /\ Charged /\ CallInv(c)
  BY DEF IInv
<1>2. k \in Counter /\ KeyOK(k) /\ (key[c] # "last" => ~k.expired)
  BY <1>1, MarketFacts DEF TypeOK, Own, Charged
<1>3. pc[c] \in {"incr", "expire"} /\ pc'[c] = "http" /\ at'[c] = at[c]
  BY DEF SendsCharged
<1>4. CASE SetExpiry(c)
  <2>1. k.sent < Covered(k)
    BY <1>1, <1>4 DEF SetExpiry, Charged, Owing
  <2>2. QED BY <1>2, <2>1, KeyFields, MarketFacts DEF Covered
<1>5. CASE Incr(c)
  <2>1. pc[c] # "idle" /\ at[c] \notin rest[c] /\ c \in DOMAIN pc /\ c \in DOMAIN at
    BY <1>1, <1>5 DEF Incr, CallInv, Walked, TypeOK
  <2>2. ~ToExpire(c) /\ ~GoOn(c, "pause") /\ ~End(c, "failed")
    BY <1>3, <2>1 DEF ToExpire, GoOn, End
  <2>3. \A f : ~Turn(c, rest[c], f)
    BY <1>3, <2>1 DEF Turn
  <2>4. ~Limited(c)
    BY <2>2, <2>3 DEF Limited, ProviderFails
  <2>5. Incremented(k).count \in 2..MaxRequests
    BY <1>5, <2>2, <2>4 DEF Incr
  <2>6. k.sent < Covered(Incremented(k)) /\ Incremented(k) \in Counter /\ Incremented(k).expired = k.expired
    BY <1>2, <2>5, AllowedKey, IncrementedKey
  <2>7. QED BY <1>2, <2>6, KeyFields, MarketFacts DEF Covered
<1>6. ~RedisFails(c)
  BY <1>1, <1>3 DEF RedisFails, Escapes, End, TypeOK
<1>7. QED
  BY <1>3, <1>4, <1>5, <1>6 DEF CallStep, Begin, HttpOk, HttpLimited, HttpUnavailable, HttpRaises, Retry

(***************************************************************************)
(* Whatever the number of calls and of retries, a request is sent only     *)
(* while what was sent on the charge of its window is below the limit, or  *)
(* below twice the limit once the counter of a past window has expired     *)
(* under a call that still names it.                                       *)
(***************************************************************************)
THEOREM BudgetIsRespected == Spec => BudgetRespected
<1> DEFINE Within(c) ==
        SendsCharged(c) =>
            Own(c).sent < (IF key[c] = "last" /\ Own(c).expired
                           THEN 2 * MaxRequests ELSE MaxRequests)
<1>1. IInv /\ [Next]_vars => [\A c \in Callers : Within(c)]_vars
  <2> SUFFICES ASSUME IInv, Next, NEW c \in Callers, SendsCharged(c) PROVE Within(c)
    OBVIOUS
  <2>1. pc'[c] # pc[c] /\ ~UNCHANGED pc
    BY DEF SendsCharged
  <2>2. PICK d \in Callers : Begin(d) \/ CallStep(d)
    BY <2>1 DEF Next, Tick, NextWindow, KeyExpires, callVars
  <2>3. d = c
    BY <2>1, <2>2, CallerStep DEF Moved, Same
  <2>4. QED BY <2>2, <2>3, RoomLeft
<1>2. QED BY <1>1, InvariantHolds, PTL DEF Spec, BudgetRespected

(***************************************************************************)
(* Who is told that all providers failed had a call in which all did.      *)
(***************************************************************************)
THEOREM FailureIsDeserved == Spec => []FailureIsEarned
<1>1. IInv => FailureIsEarned
  BY DEF IInv, CallInv, Earned, FailureIsEarned
<1>2. QED BY <1>1, InvariantHolds, PTL

=============================================================================
