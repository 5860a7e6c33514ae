---------------------------- MODULE MarketData ----------------------------
(***************************************************************************)
(* Market data calls: MultiMarketDataProvider walks a fixed list of        *)
(* adapters (CoinGecko, CoinMarketCap), each with a circuit breaker; an    *)
(* adapter charges a Redis counter per time window before every HTTP       *)
(* request and retries, after a pause, what is refused for its rate.       *)
(*                                                                         *)
(* One task per call on one event loop.  Its awaits are the INCR, the      *)
(* EXPIRE that follows the first one of a key, the HTTP request and the    *)
(* pause.  Windows and breaker timeouts advance independently.             *)
(*                                                                         *)
(* The counter's key names the window in which the try began, and lives    *)
(* for the length of a window from its EXPIRE: it ends in the window after *)
(* its own, and an INCR still on its way then finds it gone.  Two windows  *)
(* are kept, the current one and the last: the bound is that the INCR and  *)
(* the EXPIRE of a try are over by the end of the window after its own.    *)
(***************************************************************************)
EXTENDS CircuitBreaker

CONSTANTS
    Callers,        \* concurrent market data calls
    NumProviders,   \* adapters, numbered in list order
    Metered,        \* the providers whose adapter was given a rate limiter
    MaxRequests,    \* requests allowed per metered provider and window
    Attempts        \* tries each adapter makes before it gives up

Providers == 1..NumProviders

ASSUME MarketAssumption ==
    /\ NumProviders \in Nat \ {0}
    /\ Metered \subseteq Providers
    /\ MaxRequests \in Nat \ {0}
    /\ Attempts \in [Providers -> Nat \ {0}]

Windows == {"now", "last"}

VARIABLES
    breaker,    \* one circuit breaker per provider
    counter,    \* the Redis counter of each provider and window
    pc,         \* progress of each call
    at,         \* the provider the call is at
    rest,       \* the providers of the snapshot the call has not reached
    tries,      \* tries made at this provider
    key,        \* the window whose counter the Redis call in flight names
    fate,       \* what became of each provider in the current call, or in the
                \* last one if it failed
    result      \* how the last call failed, "none" if it did not or one runs

callVars == <<pc, at, rest, tries, key, fate, result>>
vars == <<breaker, counter, pc, at, rest, tries, key, fate, result>>

Fates == {"open", "queued", "tried", "failed", "raised"}
Results == {"none", "no_provider", "failed", "raised"}

Unasked == [p \in Providers |-> "open"]

\* What the key counts, whether it ends within the next window, whether it has
\* ended once, and the HTTP requests sent on its charge.
Counter == [count : 0..(MaxRequests + 1), mortal : BOOLEAN, expired : BOOLEAN, sent : Nat]

\* No such key.
NewCounter == [count |-> 0, mortal |-> FALSE, expired |-> FALSE, sent |-> 0]

TypeOK ==
    /\ breaker \in [Providers -> Breaker]
    /\ counter \in [Providers -> [Windows -> Counter]]
    /\ pc \in [Callers -> {"idle", "incr", "expire", "http", "pause"}]
    /\ at \in [Callers -> Providers]
    /\ rest \in [Callers -> SUBSET Providers]
    /\ tries \in [Callers -> Nat]
    /\ \A c \in Callers : tries[c] <= Attempts[at[c]]
    /\ key \in [Callers -> Windows]
    /\ fate \in [Callers -> [Providers -> Fates]]
    /\ result \in [Callers -> Results]

Init ==
    /\ breaker = [p \in Providers |-> NewBreaker]
    /\ counter = [p \in Providers |-> [w \in Windows |-> NewCounter]]
    /\ pc = [c \in Callers |-> "idle"]
    /\ at = [c \in Callers |-> 1]
    /\ rest = [c \in Callers |-> {}]
    /\ tries = [c \in Callers |-> 0]
    /\ key = [c \in Callers |-> "now"]
    /\ fate = [c \in Callers |-> Unasked]
    /\ result = [c \in Callers |-> "none"]

-----------------------------------------------------------------------------
\* The call ends; its local variables die, what it tells the client stays.
End(c, outcome) ==
    /\ pc' = [pc EXCEPT ![c] = "idle"]
    /\ at' = [at EXCEPT ![c] = 1]
    /\ rest' = [rest EXCEPT ![c] = {}]
    /\ tries' = [tries EXCEPT ![c] = 0]
    /\ key' = [key EXCEPT ![c] = "now"]
    /\ result' = [result EXCEPT ![c] = outcome]

\* What a try of the adapter begins with.
FirstStep(p) == IF p \in Metered THEN "incr" ELSE "http"

\* The call turns to the first provider of S.  Its breaker is not asked again.
Turn(c, S, f) ==
    \E p \in S :
        /\ \A q \in S : p <= q
        /\ pc' = [pc EXCEPT ![c] = FirstStep(p)]
        /\ at' = [at EXCEPT ![c] = p]
        /\ rest' = [rest EXCEPT ![c] = S \ {p}]
        /\ tries' = [tries EXCEPT ![c] = 1]
        /\ key' = [key EXCEPT ![c] = "now"]
        /\ fate' = [fate EXCEPT ![c] = [f EXCEPT ![p] = "tried"]]
        /\ result' = [result EXCEPT ![c] = "none"]

Begin(c) ==
    LET read      == [p \in Providers |-> Peeked(breaker[p])]
        available == {p \in Providers : read[p].state # "open"}
        first     == [p \in Providers |-> IF p \in available THEN "queued" ELSE "open"]
    IN  /\ pc[c] = "idle"
        /\ breaker' = read
        /\ \/ Turn(c, available, first)
           \/ /\ available = {}
              /\ End(c, "no_provider")
              /\ fate' = [fate EXCEPT ![c] = first]
        /\ UNCHANGED counter

\* Mutant: the first error of a provider is the client's.
ProviderFailsAtOnce(c) ==
    /\ breaker' = [breaker EXCEPT ![at[c]] = RecordFailure(@)]
    /\ fate' = [fate EXCEPT ![c][at[c]] = "failed"]
    /\ End(c, "failed")

\* The adapter raised one of _FAILOVER_ERRORS: on to the next provider.
ProviderFails(c) ==
    /\ breaker' = [breaker EXCEPT ![at[c]] = RecordFailure(@)]
    /\ LET f == [fate[c] EXCEPT ![at[c]] = "failed"]
       IN  \/ Turn(c, rest[c], f)
           \/ /\ rest[c] = {}
              /\ fate' = [fate EXCEPT ![c] = f]
              /\ End(c, "failed")

\* The call goes on at the same provider, with no Redis call in flight.
GoOn(c, step) ==
    /\ pc' = [pc EXCEPT ![c] = step]
    /\ key' = [key EXCEPT ![c] = "now"]
    /\ UNCHANGED <<breaker, at, rest, tries, fate, result>>

\* Mutant: every refusal for the rate is tried again.
LimitedForEver(c) ==
    /\ GoOn(c, "pause")

(***************************************************************************)
(* RateLimitError, from the adapter's own counter or from an HTTP 429:     *)
(* AsyncRetrying tries again, and after the last try reraises it.          *)
(***************************************************************************)
Limited(c) ==
    \/ /\ tries[c] < Attempts[at[c]]
       /\ GoOn(c, "pause")
    \/ /\ tries[c] = Attempts[at[c]]
       /\ ProviderFails(c)

\* Any other exception leaves through the loop: nothing is recorded.
Escapes(c) ==
    /\ fate' = [fate EXCEPT ![c][at[c]] = "raised"]
    /\ End(c, "raised")
    /\ UNCHANGED breaker

-----------------------------------------------------------------------------
\* INCR.  Bound: the count is only compared with MaxRequests, and saturates.
Incremented(k) == [k EXCEPT !.count = IF @ <= MaxRequests THEN @ + 1 ELSE @]

\* EXPIRE: in the key's own window it sets an end within the next one, later
\* an end after the key is of any use.
Expiring(k, w) == [k EXCEPT !.mortal = (w = "now")]

\* A request goes out on the charge of the key.
Requested(k) == [k EXCEPT !.sent = @ + 1]

\* The counter that the Redis call of c names, and its new value.
Own(c) == counter[at[c]][key[c]]
Put(c, k) == counter' = [counter EXCEPT ![at[c]][key[c]] = k]

\* A call of D has a Redis call in flight on the last window of provider p.
Late(D, p) == \E d \in D : at[d] = p /\ key[d] = "last"

\* The last Redis call of a try.  The key of the last window is of no use once
\* no call names it, and is forgotten.
PutAndLeave(c, k) ==
    Put(c, IF key[c] = "now" \/ Late(Callers \ {c}, at[c]) THEN k ELSE NewCounter)

\* The first INCR of a key is followed by its EXPIRE.
ToExpire(c) ==
    /\ pc' = [pc EXCEPT ![c] = "expire"]
    /\ UNCHANGED <<breaker, at, rest, tries, key, fate, result>>

\* Mutant: the limit is tested on the counter as it was before the INCR.
IncrTestsOldCount(c) ==
    LET k == Incremented(Own(c))
        n == Own(c).count
    IN  /\ pc[c] = "incr"
        /\ \/ n = 0 /\ Put(c, k) /\ ToExpire(c)
           \/ n \in 1..MaxRequests /\ PutAndLeave(c, Requested(k)) /\ GoOn(c, "http")
           \/ n > MaxRequests /\ PutAndLeave(c, k) /\ Limited(c)

\* RedisRateLimiter.check_and_increment up to its EXPIRE, and the request if
\* it is allowed.
Incr(c) ==
    LET k == Incremented(Own(c))
        n == k.count
    IN  /\ pc[c] = "incr"
        /\ \/ n = 1 /\ Put(c, k) /\ ToExpire(c)
           \/ n \in 2..MaxRequests /\ PutAndLeave(c, Requested(k)) /\ GoOn(c, "http")
           \/ n > MaxRequests /\ PutAndLeave(c, k) /\ Limited(c)

\* EXPIRE of a count of one, which is within the limit: the request follows.
SetExpiry(c) ==
    /\ pc[c] = "expire"
    /\ PutAndLeave(c, Requested(Expiring(Own(c), key[c])))
    /\ GoOn(c, "http")

\* The INCR or the EXPIRE raised; it may have been executed all the same.
RedisFails(c) ==
    /\ \/ pc[c] = "incr" /\ PutAndLeave(c, Incremented(Own(c)))
       \/ pc[c] = "expire" /\ PutAndLeave(c, Expiring(Own(c), key[c]))
       \/ pc[c] \in {"incr", "expire"} /\ PutAndLeave(c, Own(c))
    /\ Escapes(c)

HttpOk(c) ==
    /\ pc[c] = "http"
    /\ breaker' = [breaker EXCEPT ![at[c]] = RecordSuccess(@)]
    /\ fate' = [fate EXCEPT ![c] = Unasked]
    /\ End(c, "none")
    /\ UNCHANGED counter

\* Status 429.
HttpLimited(c) ==
    /\ pc[c] = "http"
    /\ Limited(c)
    /\ UNCHANGED counter

\* Status 500 or more: ProviderUnavailableError.
HttpUnavailable(c) ==
    /\ pc[c] = "http"
    /\ ProviderFails(c)
    /\ UNCHANGED counter

\* A network error, another status, or a body without the fields read from it.
HttpRaises(c) ==
    /\ pc[c] = "http"
    /\ Escapes(c)
    /\ UNCHANGED counter

\* Mutant: tries are not counted.
RetryUncounted(c) ==
    /\ pc[c] = "pause"
    /\ pc' = [pc EXCEPT ![c] = FirstStep(at[c])]
    /\ UNCHANGED <<breaker, counter, at, rest, tries, key, fate, result>>

Retry(c) ==
    /\ pc[c] = "pause"
    /\ pc' = [pc EXCEPT ![c] = FirstStep(at[c])]
    /\ tries' = [tries EXCEPT ![c] = @ + 1]
    /\ UNCHANGED <<breaker, counter, at, rest, key, fate, result>>

-----------------------------------------------------------------------------
Tick ==
    /\ breaker' = [p \in Providers |-> Aged(breaker[p])]
    /\ UNCHANGED <<counter, callVars>>

(***************************************************************************)
(* Time enters the next window: new tries count on a new key, while a      *)
(* Redis call in flight keeps the key it was made with.                    *)
(***************************************************************************)
NextWindow ==
    LET InRedis(c) == pc[c] \in {"incr", "expire"}
        Named(p)   == \E c \in Callers : InRedis(c) /\ at[c] = p
    IN  /\ \A c \in Callers : key[c] = "now"
        /\ key' = [c \in Callers |-> IF InRedis(c) THEN "last" ELSE "now"]
        /\ counter' = [p \in Providers |->
               [w \in Windows |->
                   IF w = "last" /\ Named(p) THEN counter[p]["now"] ELSE NewCounter]]
        /\ UNCHANGED <<breaker, pc, at, rest, tries, fate, result>>

\* Redis drops the key of the last window while a call still names it: the
\* next INCR of it starts at one.
KeyExpires(p) ==
    /\ counter[p]["last"].mortal
    /\ Late(Callers, p)
    /\ counter' = [counter EXCEPT ![p]["last"] =
           [@ EXCEPT !.count = 0, !.mortal = FALSE, !.expired = TRUE]]
    /\ UNCHANGED <<breaker, callVars>>

CallStep(c) ==
    \/ Incr(c) \/ SetExpiry(c) \/ RedisFails(c)
    \/ HttpOk(c) \/ HttpLimited(c) \/ HttpUnavailable(c) \/ HttpRaises(c)
    \/ Retry(c)

Next ==
    \/ \E c \in Callers : Begin(c) \/ CallStep(c)
    \/ \E p \in Providers : KeyExpires(p)
    \/ Tick
    \/ NextWindow

Spec == Init /\ [][Next]_vars

\* Redis and HTTP requests end or time out, and a pause is finite.
Fairness == \A c \in Callers : WF_vars(CallStep(c))

FairSpec == Spec /\ Fairness

-----------------------------------------------------------------------------
\* Call c sends a request to the provider it has charged it to.
SendsCharged(c) ==
    pc[c] \in {"incr", "expire"} /\ pc'[c] = "http" /\ at'[c] = at[c]

(***************************************************************************)
(* What is sent to a provider on the charge of a window stays within its   *)
(* limit, whatever the order of the increments, the retries of other calls *)
(* and the change of the window under a running call.  The charge counts,  *)
(* not the time of sending.  Only calls that are late, whose INCR comes    *)
(* after the counter of their window has expired, may overdraw it: by the  *)
(* limit once more, since the counter they start again does not expire.    *)
(***************************************************************************)
BudgetRespected ==
    [][\A c \in Callers :
        SendsCharged(c) =>
            Own(c).sent < (IF key[c] = "last" /\ Own(c).expired
                           THEN 2 * MaxRequests ELSE MaxRequests)]_vars

(***************************************************************************)
(* A call that reports that all providers failed has had a failover error  *)
(* from every one of them, those skipped for their open breaker apart.     *)
(***************************************************************************)
FailureIsEarned ==
    \A c \in Callers, p \in Providers :
        result[c] = "failed" => fate[c][p] \in {"open", "failed"}

(***************************************************************************)
(* Every call ends: the retries of an adapter and the walk over the        *)
(* adapters are finite, even when every try is refused for its rate.       *)
(***************************************************************************)
EveryCallEnds == \A c \in Callers : pc[c] # "idle" ~> pc[c] = "idle"

(***************************************************************************)
(* "Automatic failover between CoinGecko and CMC with no client-facing     *)
(* error" (github-kanban.md:439): a client sees an error only after every  *)
(* provider was tried or had its breaker open.                             *)
(***************************************************************************)
NoClientFacingError ==
    \A c \in Callers, p \in Providers :
        result[c] \in {"failed", "raised"} => fate[c][p] # "queued"

=============================================================================
