---------------------------- MODULE RpcFailover ----------------------------
(***************************************************************************)
(* Concurrent calls through MultiProvider and RpcProvider, each provider   *)
(* with its own circuit breaker.  The code runs on one event loop, so      *)
(* everything between two awaits is one step; a call awaits only the       *)
(* answer of the provider it has sent its request to.  A step is therefore *)
(* a call that begins (availability snapshot and first request), or the    *)
(* answer to a request in flight (breaker update, and on a failure the     *)
(* walk to the next provider of the snapshot).                             *)
(*                                                                         *)
(* HealthService probes providers directly, through the same breakers:     *)
(* such a probe is a call to one provider.                                 *)
(***************************************************************************)
EXTENDS CircuitBreaker

CONSTANTS
    Callers,        \* tasks that call the provider set
    NumProviders,   \* providers, numbered by their place in the configuration
    Priority        \* the configured priority of each provider

Providers == 1..NumProviders

ASSUME ProvidersAssumption ==
    /\ NumProviders \in Nat \ {0}
    /\ Priority \in [Providers -> Nat]

VARIABLES
    breaker,    \* one circuit breaker per provider
    pc,         \* "idle" or "waiting" for the answer of provider at[c]
    at,         \* the provider the call's request is in flight to
    rest,       \* the providers of the snapshot the call has not reached
    mode,       \* "failover" for MultiProvider, "probe" for HealthService
    fate,       \* what became of each provider in the current or last call
    result      \* how the last call ended, "none" while one runs

vars == <<breaker, pc, at, rest, mode, fate, result>>

Fates == {"outside", "open", "queued", "sent", "failed", "answered"}
Results == {"none", "ok", "no_provider", "failed"}

TypeOK ==
    /\ breaker \in [Providers -> Breaker]
    /\ pc \in [Callers -> {"idle", "waiting"}]
    /\ at \in [Callers -> Providers]
    /\ rest \in [Callers -> SUBSET Providers]
    /\ mode \in [Callers -> {"failover", "probe"}]
    /\ fate \in [Callers -> [Providers -> Fates]]
    /\ result \in [Callers -> Results]

\* sorted(providers, key=priority): a stable sort, so ties keep their order.
Before(p, q) ==
    \/ Priority[p] < Priority[q]
    \/ Priority[p] = Priority[q] /\ p < q

InFlight(c, p) == pc[c] = "waiting" /\ at[c] = p

Init ==
    /\ breaker = [p \in Providers |-> NewBreaker]
    /\ pc = [c \in Callers |-> "idle"]
    /\ at = [c \in Callers |-> 1]
    /\ rest = [c \in Callers |-> {}]
    /\ mode = [c \in Callers |-> "failover"]
    /\ fate = [c \in Callers |-> [p \in Providers |-> "outside"]]
    /\ result = [c \in Callers |-> "none"]

-----------------------------------------------------------------------------
(***************************************************************************)
(* The loop over the providers: with breakers b, the call walks the        *)
(* providers of S in priority order; one whose breaker is open raises at   *)
(* once and is passed over, the first other one is sent the request.       *)
(* f is what is known of the providers so far.                             *)
(***************************************************************************)
Passed(f, S, b, p) ==
    [q \in Providers |-> IF q = p THEN "sent"
                         ELSE IF q \in S /\ Before(q, p) /\ IsOpen(b[q]) THEN "open"
                         ELSE f[q]]

SendTo(c, S, b, f, p) ==
    /\ breaker' = [b EXCEPT ![p] = Peeked(@)]
    /\ pc' = [pc EXCEPT ![c] = "waiting"]
    /\ at' = [at EXCEPT ![c] = p]
    /\ rest' = [rest EXCEPT ![c] = {q \in S : Before(p, q)}]
    /\ fate' = [fate EXCEPT ![c] = Passed(f, S, b, p)]
    /\ result' = [result EXCEPT ![c] = "none"]

\* Mutant: the loop trusts the snapshot and does not ask the breaker again.
SendUnguarded(c, S, b, f) ==
    \E p \in S : /\ \A q \in S : ~Before(q, p)
                 /\ SendTo(c, S, b, f, p)

\* Mutant: any usable provider will do.
SendUnordered(c, S, b, f) ==
    \E p \in S : /\ ~IsOpen(b[p])
                 /\ SendTo(c, S, b, f, p)

SendNext(c, S, b, f) ==
    \E p \in S : /\ ~IsOpen(b[p])
                 /\ \A q \in S : Before(q, p) => IsOpen(b[q])
                 /\ SendTo(c, S, b, f, p)

\* No provider of S is left to try: the call raises.
GiveUp(c, S, b, f) ==
    /\ \A p \in S : IsOpen(b[p])
    /\ breaker' = b
    /\ pc' = [pc EXCEPT ![c] = "idle"]
    /\ rest' = [rest EXCEPT ![c] = {}]
    /\ fate' = [fate EXCEPT ![c] = [q \in Providers |-> IF q \in S THEN "open" ELSE f[q]]]
    /\ result' = [result EXCEPT ![c] = "failed"]
    /\ UNCHANGED at

-----------------------------------------------------------------------------
(***************************************************************************)
(* MultiProvider._call_with_failover: the snapshot reads every breaker,    *)
(* which also makes those whose timeout has elapsed half-open.             *)
(***************************************************************************)
Begin(c) ==
    LET read      == [p \in Providers |-> Peeked(breaker[p])]
        available == {p \in Providers : read[p].state # "open"}
        first     == [p \in Providers |-> IF p \in available THEN "queued" ELSE "open"]
    IN  /\ pc[c] = "idle"
        /\ mode' = [mode EXCEPT ![c] = "failover"]
        /\ \/ SendNext(c, available, read, first)
           \/ /\ available = {}
              /\ breaker' = read
              /\ fate' = [fate EXCEPT ![c] = first]
              /\ result' = [result EXCEPT ![c] = "no_provider"]
              /\ UNCHANGED <<pc, at, rest>>

\* HealthService._check_one: provider.get_block_number() on one provider.
Probe(c, p) ==
    LET only == [q \in Providers |-> IF q = p THEN "queued" ELSE "outside"]
    IN  /\ pc[c] = "idle"
        /\ mode' = [mode EXCEPT ![c] = "probe"]
        /\ \/ SendNext(c, {p}, breaker, only)
           \/ GiveUp(c, {p}, breaker, only)

\* RpcProvider._guarded, the answer arrived: the call returns it.
Succeed(c) ==
    /\ pc[c] = "waiting"
    /\ breaker' = [breaker EXCEPT ![at[c]] = RecordSuccess(@)]
    /\ pc' = [pc EXCEPT ![c] = "idle"]
    /\ rest' = [rest EXCEPT ![c] = {}]
    /\ fate' = [fate EXCEPT ![c][at[c]] = "answered"]
    /\ result' = [result EXCEPT ![c] = "ok"]
    /\ UNCHANGED <<at, mode>>

\* Mutant: an error of the provider ends the loop.
FailAtOnce(c) ==
    LET b == [breaker EXCEPT ![at[c]] = RecordFailure(@)]
        f == [fate[c] EXCEPT ![at[c]] = "failed"]
    IN  /\ pc[c] = "waiting"
        /\ UNCHANGED mode
        /\ GiveUp(c, {}, b, f)

(***************************************************************************)
(* RpcProvider._guarded, the request raised (a timeout, an HTTP status, a  *)
(* JSON-RPC error): the failure is recorded and the loop goes on.          *)
(***************************************************************************)
Fail(c) ==
    LET b == [breaker EXCEPT ![at[c]] = RecordFailure(@)]
        f == [fate[c] EXCEPT ![at[c]] = "failed"]
    IN  /\ pc[c] = "waiting"
        /\ UNCHANGED mode
        /\ \/ SendNext(c, rest[c], b, f)
           \/ GiveUp(c, rest[c], b, f)

Tick ==
    /\ breaker' = [p \in Providers |-> Aged(breaker[p])]
    /\ UNCHANGED <<pc, at, rest, mode, fate, result>>

Next ==
    \/ \E c \in Callers :
          \/ Begin(c)
          \/ \E p \in Providers : Probe(c, p)
          \/ Succeed(c)
          \/ Fail(c)
    \/ Tick

Spec == Init /\ [][Next]_vars

(***************************************************************************)
(* Every request is answered or times out (httpx.Timeout in EthRpcClient), *)
(* and time passes.  Nothing obliges a caller to begin a call.             *)
(***************************************************************************)
Fairness ==
    /\ \A c \in Callers : WF_vars(Succeed(c) \/ Fail(c))
    /\ WF_vars(Tick)

FairSpec == Spec /\ Fairness

-----------------------------------------------------------------------------
(***************************************************************************)
(* The state of a breaker and its failure count never disagree: it is      *)
(* closed exactly while fewer failures than the threshold are counted.     *)
(* record_success, record_failure and the lazy read change the two         *)
(* separately, and a half-open breaker keeps its count, so that a single   *)
(* failed probe opens it again.                                            *)
(***************************************************************************)
BreakerAgreesWithCount ==
    \A p \in Providers :
        breaker[p].state = "closed" <=> breaker[p].failures < Threshold

(***************************************************************************)
(* A call that ends in an error has used up its providers: each one        *)
(* refused by its breaker or failed this very call.  None is forgotten     *)
(* because a breaker opened, or half-opened, while the call was waiting.   *)
(***************************************************************************)
FailoverComplete ==
    \A c \in Callers, p \in Providers :
        result[c] \in {"no_provider", "failed"}
            => fate[c][p] \in {"open", "failed", "outside"}

(***************************************************************************)
(* While a failover call waits for a provider, every provider of better    *)
(* priority was refused by its breaker, as the snapshot or its own turn    *)
(* read it, or has failed this call.  One that half-opens later in the     *)
(* walk is not gone back to.                                               *)
(***************************************************************************)
PriorityRespected ==
    \A c \in Callers, p, q \in Providers :
        InFlight(c, p) /\ mode[c] = "failover" /\ Before(q, p)
            => fate[c][q] \in {"open", "failed"}

(***************************************************************************)
(* "OPEN: rejecting all requests".  Until its recovery timeout elapses no  *)
(* new request reaches a provider whose breaker is open, whoever asks: not *)
(* a caller whose availability snapshot is older than the opening, and not *)
(* a health probe.                                                         *)
(***************************************************************************)
Quarantine ==
    [][\A p \in Providers :
          breaker[p].state = "open" /\ breaker[p].age <= Recovery
             => \A c \in Callers : InFlight(c, p)' => InFlight(c, p)]_vars

(***************************************************************************)
(* The preferred provider comes back.  If calls keep beginning and only    *)
(* finitely many requests to the provider of best priority fail, its       *)
(* breaker ends up closed for good: no order of late answers, probes and   *)
(* timeouts leaves it open or half-open for ever.                          *)
(***************************************************************************)
Best(p) == \A q \in Providers : ~Before(q, p)

SomeBegin == \E c \in Callers : Begin(c)
FailsAt(p) == \E c \in Callers : InFlight(c, p) /\ Fail(c)

PrimaryRejoins ==
    \A p \in Providers :
        Best(p) => \/ ~[]<><<SomeBegin>>_vars
                   \/ []<><<FailsAt(p)>>_vars
                   \/ <>[](breaker[p].state = "closed")

=============================================================================
