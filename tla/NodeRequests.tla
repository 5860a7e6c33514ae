---------------------------- MODULE NodeRequests ----------------------------
(***************************************************************************)
(* The Bitcoin service: its two requests, over the nodes' failover.  GET   *)
(* /health asks every node at once, records what each said, and then asks  *)
(* for the height, by failover; GET /network makes three failover calls,   *)
(* one after the other.  Requests interleave where they wait for a node or *)
(* for the repository, and share the circuit breakers of the nodes, which  *)
(* are written as the Ethereum ones.                                       *)
(*                                                                         *)
(* The lifespan makes one node; the factory takes a list.  The rows a      *)
(* check reads and writes, and the staleness it reports, decide nothing    *)
(* here: they are HealthService's.  What an answer says is left out, who   *)
(* gave it is kept.                                                        *)
(***************************************************************************)
EXTENDS CircuitBreaker

CONSTANTS
    Requests,       \* concurrent requests
    NumNodes        \* nodes, numbered in the order of their priorities

\* What the constants satisfy.
NodeAssumption == NumNodes \in Nat \ {0}

VARIABLES
    breaker,    \* the circuit breaker of each node
    doing,      \* what each request is at
    unasked,    \* the nodes its health check has still to ask
    asked,      \* the nodes the check waits for
    healthy,    \* the nodes that have answered the check
    at,         \* the node its failover call waits for
    rest,       \* the nodes after that one in the call's list
    left,       \* the calls it has still to finish
    source,     \* the node that answered its last call
    failed      \* history: of healthy and source, those that failed afterwards

callVars == <<at, rest, left, source>>
vars == <<breaker, doing, unasked, asked, healthy, callVars, failed>>

Nodes == 1..NumNodes
NoNode == 0

TypeOK ==
    /\ breaker \in [Nodes -> Breaker]
    /\ doing \in [Requests -> {"idle", "checking", "calling", "ended"}]
    /\ unasked \in [Requests -> SUBSET Nodes]
    /\ asked \in [Requests -> SUBSET Nodes]
    /\ healthy \in [Requests -> SUBSET Nodes]
    /\ at \in [Requests -> Nodes \cup {NoNode}]
    /\ rest \in [Requests -> SUBSET Nodes]
    /\ left \in [Requests -> 0..3]
    /\ source \in [Requests -> Nodes \cup {NoNode}]
    /\ failed \in [Requests -> SUBSET Nodes]

Init ==
    /\ breaker = [p \in Nodes |-> NewBreaker]
    /\ doing = [r \in Requests |-> "idle"]
    /\ unasked = [r \in Requests |-> {}]
    /\ asked = [r \in Requests |-> {}]
    /\ healthy = [r \in Requests |-> {}]
    /\ at = [r \in Requests |-> NoNode]
    /\ rest = [r \in Requests |-> {}]
    /\ left = [r \in Requests |-> 0]
    /\ source = [r \in Requests |-> NoNode]
    /\ failed = [r \in Requests |-> {}]

-----------------------------------------------------------------------------
\* A failover call of r waits for node p, and S comes after it.
Waits(r, p, S) ==
    /\ at' = [at EXCEPT ![r] = p]
    /\ rest' = [rest EXCEPT ![r] = S]

\* Mutant: the nodes are not sorted by their priority.
TryAny(r, S, b, n) ==
    \E p \in S :
        /\ ~IsOpen(b[p])
        /\ Waits(r, p, S \ {p})
        /\ breaker' = [b EXCEPT ![p] = Peeked(@)]
        /\ left' = [left EXCEPT ![r] = n] /\ doing' = [doing EXCEPT ![r] = "calling"]

(***************************************************************************)
(* The loop of a call over the nodes S, with breakers b and n calls left:  *)
(* a node whose breaker is open raises at once, the first other one is     *)
(* asked.  If there is none the call raises, and the request ends.         *)
(***************************************************************************)
Try(r, S, b, n) ==
    LET usable == {p \in S : ~IsOpen(b[p])} IN
    \/ \E p \in usable :
          /\ \A q \in usable : p <= q
          /\ Waits(r, p, {q \in S : q > p})
          /\ breaker' = [b EXCEPT ![p] = Peeked(@)]
          /\ left' = [left EXCEPT ![r] = n] /\ doing' = [doing EXCEPT ![r] = "calling"]
    \/ /\ usable = {}
       /\ Waits(r, NoNode, {})
       /\ breaker' = b
       /\ left' = [left EXCEPT ![r] = 0] /\ doing' = [doing EXCEPT ![r] = "ended"]

\* _call_with_failover: the list is of the nodes available when it begins.
Call(r, b, n) ==
    LET read == [p \in Nodes |-> Peeked(b[p])] IN
    Try(r, {p \in Nodes : ~IsOpen(read[p])}, read, n)

-----------------------------------------------------------------------------
\* check_health makes a task for every node.
StartHealth(r) ==
    /\ doing[r] = "idle"
    /\ doing' = [doing EXCEPT ![r] = "checking"]
    /\ unasked' = [unasked EXCEPT ![r] = Nodes]
    /\ UNCHANGED <<breaker, asked, healthy, callVars, failed>>

\* _check_one, up to its request; an open breaker refuses it.
CheckOne(r, p) ==
    /\ p \in unasked[r]
    /\ unasked' = [unasked EXCEPT ![r] = @ \ {p}]
    /\ breaker' = [breaker EXCEPT ![p] = Peeked(@)]
    /\ asked' = IF IsOpen(breaker[p]) THEN asked ELSE [asked EXCEPT ![r] = @ \cup {p}]
    /\ UNCHANGED <<doing, healthy, callVars, failed>>

CheckSucceeds(r, p) ==
    /\ p \in asked[r]
    /\ asked' = [asked EXCEPT ![r] = @ \ {p}]
    /\ healthy' = [healthy EXCEPT ![r] = @ \cup {p}]
    /\ breaker' = [breaker EXCEPT ![p] = RecordSuccess(@)]
    /\ UNCHANGED <<doing, unasked, callVars, failed>>

\* Node p has failed a request: those it has answered before take note.
NoteFailure(p) ==
    failed' = [q \in Requests |-> failed[q] \cup ({p} \cap (healthy[q] \cup {source[q]}))]

CheckFails(r, p) ==
    /\ p \in asked[r]
    /\ asked' = [asked EXCEPT ![r] = @ \ {p}]
    /\ breaker' = [breaker EXCEPT ![p] = RecordFailure(@)]
    /\ NoteFailure(p)
    /\ UNCHANGED <<doing, unasked, healthy, callVars>>

\* Mutant: the height is asked from the first node alone.
GetHeightOfFirst(r) ==
    /\ doing[r] = "checking"
    /\ unasked[r] = {} /\ asked[r] = {}
    /\ Try(r, {1}, breaker, 1)
    /\ UNCHANGED <<unasked, asked, healthy, source, failed>>

\* get_current_block_height, once every check has been recorded.
GetHeight(r) ==
    /\ doing[r] = "checking"
    /\ unasked[r] = {} /\ asked[r] = {}
    /\ Call(r, breaker, 1)
    /\ UNCHANGED <<unasked, asked, healthy, source, failed>>

\* get_network_info: the network, the height, whether it is syncing.
GetNetwork(r) ==
    /\ doing[r] = "idle"
    /\ Call(r, breaker, 3)
    /\ UNCHANGED <<unasked, asked, healthy, source, failed>>

\* The node answers; the next call begins before anyone else runs.
CallSucceeds(r) ==
    LET b == [breaker EXCEPT ![at[r]] = RecordSuccess(@)] IN
    /\ at[r] # NoNode
    /\ source' = [source EXCEPT ![r] = at[r]]
    /\ failed' = [failed EXCEPT ![r] = @ \ ({at[r]} \cup ({source[r]} \ healthy[r]))]
    /\ \/ left[r] > 1 /\ Call(r, b, left[r] - 1)
       \/ /\ left[r] = 1
          /\ Waits(r, NoNode, {})
          /\ breaker' = b
          /\ left' = [left EXCEPT ![r] = 0] /\ doing' = [doing EXCEPT ![r] = "ended"]
    /\ UNCHANGED <<unasked, asked, healthy>>

\* The failure is recorded and the loop goes on.
CallFails(r) ==
    /\ at[r] # NoNode
    /\ Try(r, rest[r], [breaker EXCEPT ![at[r]] = RecordFailure(@)], left[r])
    /\ NoteFailure(at[r])
    /\ UNCHANGED <<unasked, asked, healthy, source>>

(***************************************************************************)
(* The response.  That of /health says whether some node was healthy, and  *)
(* a height that could not be had is null; that of /network is refused     *)
(* with 503 if a call raised.                                              *)
(***************************************************************************)
Respond(r) ==
    /\ doing[r] = "ended"
    /\ doing' = [doing EXCEPT ![r] = "idle"]
    /\ healthy' = [healthy EXCEPT ![r] = {}]
    /\ source' = [source EXCEPT ![r] = NoNode]
    /\ failed' = [failed EXCEPT ![r] = {}]
    /\ UNCHANGED <<breaker, unasked, asked, at, rest, left>>

\* The time-outs of the breakers pass.
Tick ==
    /\ breaker' = [p \in Nodes |-> Aged(breaker[p])]
    /\ UNCHANGED <<doing, unasked, asked, healthy, callVars, failed>>

Next ==
    \/ \E r \in Requests :
          \/ StartHealth(r) \/ GetHeight(r) \/ GetNetwork(r)
          \/ \E p \in Nodes : CheckOne(r, p) \/ CheckSucceeds(r, p) \/ CheckFails(r, p)
          \/ CallSucceeds(r) \/ CallFails(r)
          \/ Respond(r)
    \/ Tick

Spec == Init /\ [][Next]_vars

-----------------------------------------------------------------------------
(***************************************************************************)
(* The halves of a health response are found one after the other, through  *)
(* breakers that other requests move.  It calls the service healthy and    *)
(* has no height only if every node it found healthy has failed since.     *)
(***************************************************************************)
HeightLostOnlyByFailure ==
    \A r \in Requests :
        doing[r] = "ended" /\ source[r] = NoNode => healthy[r] \subseteq failed[r]

(***************************************************************************)
(* The network, the height and the state of synchronisation in a response  *)
(* are of one node, unless that node has failed between two of the calls,  *)
(* or a node of better priority is back.                                   *)
(***************************************************************************)
MixedOnlyByFailover ==
    [][\A r \in Requests :
          NoNode < source[r] /\ source[r] < source'[r] => source[r] \in failed[r]]_vars

=============================================================================
