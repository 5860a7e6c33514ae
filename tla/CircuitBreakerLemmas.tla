------------------------ MODULE CircuitBreakerLemmas ------------------------
(***************************************************************************)
(* What the circuit breaker's operators preserve, for every threshold and  *)
(* recovery timeout.                                                       *)
(***************************************************************************)
EXTENDS CircuitBreaker, TLAPS

(***************************************************************************)
(* The constants are natural numbers and so is the largest age.            *)
(***************************************************************************)
LEMMA BreakerNumbers ==
    /\ Threshold \in Nat /\ Threshold > 0
    /\ Recovery \in Nat /\ MaxAge \in Nat /\ MaxAge > Recovery
    /\ MaxFailures \in Nat /\ Threshold <= MaxFailures
BY BreakerAssumption DEF MaxAge

(***************************************************************************)
(* Every operation on a breaker returns a breaker.                         *)
(***************************************************************************)
LEMMA BreakerClosed ==
    /\ NewBreaker \in Breaker
    /\ \A b \in Breaker :
          /\ Peeked(b) \in Breaker
          /\ RecordSuccess(b) \in Breaker
          /\ RecordFailure(b) \in Breaker
          /\ Aged(b) \in Breaker
<1>1. NewBreaker \in Breaker
  BY BreakerNumbers DEF NewBreaker, Breaker, CircuitState
<1>2. ASSUME NEW b \in Breaker PROVE Peeked(b) \in Breaker
  BY DEF Peeked, Breaker, CircuitState
<1>3. ASSUME NEW b \in Breaker PROVE RecordSuccess(b) \in Breaker
  BY BreakerNumbers DEF RecordSuccess, Breaker, CircuitState
<1>4. ASSUME NEW b \in Breaker PROVE RecordFailure(b) \in Breaker
  <2>1. OneMore(b.failures) \in 0..MaxFailures
    BY BreakerNumbers DEF OneMore, Breaker
  <2>2. 0 \in 0..MaxAge
    BY BreakerNumbers
  <2>3. QED BY <2>1, <2>2 DEF RecordFailure, Breaker, CircuitState
<1>5. ASSUME NEW b \in Breaker PROVE Aged(b) \in Breaker
  BY BreakerNumbers DEF Aged, Breaker
<1>6. QED BY <1>1, <1>2, <1>3, <1>4, <1>5

\* The state of a breaker agrees with its failure count.
Agrees(b) == b.state = "closed" <=> b.failures < Threshold

(***************************************************************************)
(* Every operation keeps state and failure count in agreement.  A failure  *)
(* needs Threshold <= MaxFailures: a count that saturates below the        *)
(* threshold would never open the breaker.                                 *)
(***************************************************************************)
LEMMA AgreementKept ==
    /\ Agrees(NewBreaker)
    /\ \A b \in Breaker :
          Agrees(b) => /\ Agrees(Peeked(b))
                       /\ Agrees(RecordSuccess(b))
                       /\ Agrees(RecordFailure(b))
                       /\ Agrees(Aged(b))
<1>1. Agrees(NewBreaker)
  BY BreakerNumbers DEF Agrees, NewBreaker
<1>2. ASSUME NEW b \in Breaker, Agrees(b) PROVE Agrees(Peeked(b))
  BY <1>2 DEF Agrees, Peeked, Breaker
<1>3. ASSUME NEW b \in Breaker, Agrees(b) PROVE Agrees(RecordSuccess(b))
  BY BreakerNumbers DEF Agrees, RecordSuccess, Breaker
<1>4. ASSUME NEW b \in Breaker, Agrees(b) PROVE Agrees(RecordFailure(b))
  BY <1>4, BreakerNumbers DEF Agrees, RecordFailure, OneMore, Breaker
<1>5. ASSUME NEW b \in Breaker, Agrees(b) PROVE Agrees(Aged(b))
  BY <1>5 DEF Agrees, Aged, Breaker
<1>6. QED BY <1>1, <1>2, <1>3, <1>4, <1>5

(***************************************************************************)
(* Reading the state twice is reading it once; and a breaker is open after *)
(* the read exactly while its recovery timeout runs.                       *)
(***************************************************************************)
LEMMA PeekedTwice ==
    \A b \in Breaker :
        /\ Peeked(Peeked(b)) = Peeked(b)
        /\ IsOpen(b) <=> b.state = "open" /\ b.age <= Recovery
        /\ IsOpen(Peeked(b)) <=> IsOpen(b)
<1> TAKE b \in Breaker
<1>1. /\ b.age \in Nat /\ Recovery \in Nat
  BY BreakerNumbers DEF Breaker
<1>2. CASE b.state = "open" /\ b.age > Recovery
  <2>1. Peeked(b) = [b EXCEPT !.state = "half_open"] /\ Peeked(b).state = "half_open"
    BY <1>2 DEF Peeked, Breaker
  <2>2. Peeked(Peeked(b)) = Peeked(b)
    BY <2>1 DEF Peeked
  <2>3. ~IsOpen(b) /\ ~IsOpen(Peeked(b))
    BY <2>1, <2>2 DEF IsOpen
  <2>4. ~(b.age <= Recovery)
    BY <1>1, <1>2
  <2>5. QED BY <2>2, <2>3, <2>4
<1>3. CASE ~(b.state = "open" /\ b.age > Recovery)
  <2>1. Peeked(b) = b
    BY <1>3 DEF Peeked
  <2>2. IsOpen(b) <=> b.state = "open"
    BY <2>1 DEF IsOpen
  <2>3. b.state = "open" <=> b.state = "open" /\ b.age <= Recovery
    BY <1>1, <1>3
  <2>4. QED BY <2>1, <2>2, <2>3
<1>4. QED BY <1>2, <1>3

(***************************************************************************)
(* A failure never shortens a quarantine: a breaker that rejects requests  *)
(* still rejects them after one more failure.                              *)
(***************************************************************************)
LEMMA FailureKeepsOpen ==
    \A b \in Breaker : b.state = "open" => IsOpen(RecordFailure(b))
<1> SUFFICES ASSUME NEW b \in Breaker, b.state = "open" PROVE IsOpen(RecordFailure(b))
  OBVIOUS
<1>1. RecordFailure(b).state = "open" /\ RecordFailure(b).age = 0
  BY DEF RecordFailure
<1>2. RecordFailure(b) \in Breaker
  BY BreakerClosed
<1>3. QED BY <1>1, <1>2, PeekedTwice, BreakerNumbers

=============================================================================
