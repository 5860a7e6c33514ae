--------------------------- MODULE CircuitBreaker ---------------------------
(***************************************************************************)
(* The three-state circuit breaker the providers own: one record per       *)
(* breaker and one operator per method.  The code keeps the date of the    *)
(* last failure and compares it with the clock; here `age` is the time     *)
(* since that failure, counted up to the first value past the recovery     *)
(* timeout, which is all the comparison can tell.  A breaker that never    *)
(* failed has the largest age.  The failure count is only compared with    *)
(* the threshold, so it saturates at MaxFailures.                          *)
(***************************************************************************)
EXTENDS Integers

CONSTANTS
    Threshold,      \* failures that open the breaker
    Recovery,       \* ticks an open breaker rejects requests
    MaxFailures     \* bound: the failure count saturates here

ASSUME BreakerAssumption ==
    /\ Threshold \in Nat \ {0}
    /\ Recovery \in Nat
    /\ MaxFailures \in Nat
    /\ Threshold <= MaxFailures

CircuitState == {"closed", "open", "half_open"}

MaxAge == Recovery + 1

Breaker == [state : CircuitState, failures : 0..MaxFailures, age : 0..MaxAge]

NewBreaker == [state |-> "closed", failures |-> 0, age |-> MaxAge]

(***************************************************************************)
(* Reading `state` is not pure: an open breaker whose timeout has elapsed  *)
(* becomes half-open in the read.                                          *)
(***************************************************************************)
\* Mutant: nothing but a success ends the open state.
PeekedNever(b) == b

Peeked(b) ==
    IF b.state = "open" /\ b.age > Recovery
    THEN [b EXCEPT !.state = "half_open"]
    ELSE b

IsOpen(b) == Peeked(b).state = "open"

\* Mutant: a success pays back one failure, even when there is none.
SuccessPaysBackOne(b) == [state |-> "closed", failures |-> b.failures - 1, age |-> b.age]

RecordSuccess(b) == [state |-> "closed", failures |-> 0, age |-> b.age]

OneMore(n) == IF n < MaxFailures THEN n + 1 ELSE n

\* Mutant: the comparison with the threshold is off by one.
FailureOpensLate(b) ==
    [ state    |-> IF OneMore(b.failures) > Threshold THEN "open" ELSE b.state,
      failures |-> OneMore(b.failures),
      age      |-> 0 ]

RecordFailure(b) ==
    [ state    |-> IF OneMore(b.failures) >= Threshold THEN "open" ELSE b.state,
      failures |-> OneMore(b.failures),
      age      |-> 0 ]

\* The clock moves on by one tick.
Aged(b) == [b EXCEPT !.age = IF @ < MaxAge THEN @ + 1 ELSE @]

=============================================================================
