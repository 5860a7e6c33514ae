----------------------------- MODULE RateLimits -----------------------------
(***************************************************************************)
(* RateLimitService and its routes, for one key.  The counter is not one   *)
(* item: requests that find none through the index each create their own,  *)
(* and the count is the sum over all of them.  The window of a counter is  *)
(* written and never read, so it is left out.                              *)
(***************************************************************************)
EXTENDS DynamoTable, FiniteSetsExt

CONSTANTS
    CounterIds,     \* ids of counter items
    LimitThreads,   \* threads of the pool
    MaxRequests     \* bound on the increments

\* What the constants satisfy.
RateAssumption ==
    /\ MaxRequests \in Nat /\ NoItem \cap Nat = {}
    /\ IsFiniteSet(CounterIds) /\ None \notin CounterIds

VARIABLES
    counters,   \* BLOCKCHAIN_rate_limits: the count of each item
    counting,   \* what each thread is about to do: step, item
    written,    \* history: increments written
    counted,    \* the last count answered
    deleted     \* history: a reset has deleted an item

vars == <<counters, counting, written, counted, deleted>>

TypeOK ==
    /\ IsTable(counters, CounterIds, 1..MaxRequests)
    /\ counting \in [LimitThreads -> [step : {"add", "put", "count", "delete"}, ids : SUBSET CounterIds]
                                     \cup {None}]
    /\ written \in 0..MaxRequests /\ counted \in Nat
    /\ deleted \in BOOLEAN

Init ==
    /\ counters = EmptyTable(CounterIds)
    /\ counting = [h \in LimitThreads |-> None]
    /\ written = 0 /\ counted = 0
    /\ deleted = FALSE

-----------------------------------------------------------------------------
Do(h, step, ids) == counting' = [counting EXCEPT ![h] = [step |-> step, ids |-> ids]]

Doing(h, step) == counting[h] # None /\ counting[h].step = step

\* increment, its query: an item of the key if the index shows one, else a new one.
Increment(h, i) ==
    /\ counting[h] = None
    /\ \/ i \in Indexed(counters) /\ Do(h, "add", {i})
       \/ Indexed(counters) = {} /\ Fresh(counters, i)
          /\ (\A k \in LimitThreads : Doing(k, "put") => i \notin counting[k].ids)
          /\ Do(h, "put", {i})
    /\ UNCHANGED <<counters, written, counted, deleted>>

\* Mutant: the count read is written back plus one, in place of ADD.
AddToShown(h, i) ==
    /\ Doing(h, "add") /\ i \in counting[h].ids
    /\ HasRoom(counters, i) /\ written < MaxRequests
    /\ counters' = UpdateItem(counters, i, Shown(counters, i) + 1)
    /\ written' = written + 1
    /\ Do(h, "count", {})
    /\ UNCHANGED <<counted, deleted>>

\* ADD is atomic; on a deleted item it starts a count that no index shows.
Add(h, i) ==
    /\ Doing(h, "add") /\ i \in counting[h].ids
    /\ HasRoom(counters, i) /\ written < MaxRequests
    /\ counters' = UpdateItem(counters, i, Held(counters, i) + 1)
    /\ written' = written + 1
    /\ Do(h, "count", {})
    /\ UNCHANGED <<counted, deleted>>

Put(h, i) ==
    /\ Doing(h, "put") /\ i \in counting[h].ids
    /\ written < MaxRequests
    /\ counters' = PutItem(counters, i, 1)
    /\ written' = written + 1
    /\ Do(h, "count", {})
    /\ UNCHANGED <<counted, deleted>>

\* Mutant: the request's own increment is counted on top of what the index shows.
CountForPlusOwn(t) == 1 + FoldSet(LAMBDA i, sum : Shown(t, i) + sum, 0, Indexed(t))

\* The sum over the items the index shows.
CountFor(t) == FoldSet(LAMBDA i, sum : Shown(t, i) + sum, 0, Indexed(t))

\* The answer of POST /rate-limits/increment, and of GET /rate-limits at any time.
Count(h) ==
    /\ Doing(h, "count")
    /\ counted' = CountFor(counters)
    /\ counting' = [counting EXCEPT ![h] = None]
    /\ UNCHANGED <<counters, written, deleted>>

\* reset: the items the index shows are deleted one by one.  No route calls it.
Reset(h) ==
    /\ counting[h] = None /\ Indexed(counters) # {}
    /\ Do(h, "delete", Indexed(counters))
    /\ UNCHANGED <<counters, written, counted, deleted>>

Delete(h, i) ==
    /\ Doing(h, "delete") /\ i \in counting[h].ids
    /\ HasRoom(counters, i)
    /\ counters' = DeleteItem(counters, i)
    /\ LET left == counting[h].ids \ {i} IN
       counting' = [counting EXCEPT ![h] = IF left = {} THEN None ELSE [@ EXCEPT !.ids = left]]
    /\ deleted' = TRUE
    /\ UNCHANGED <<written, counted>>

IndexCatchesUp(i) ==
    /\ i \in Lagging(counters)
    /\ counters' = CatchUp(counters, i)
    /\ UNCHANGED <<counting, written, counted, deleted>>

Next ==
    \/ \E h \in LimitThreads, i \in CounterIds :
          Increment(h, i) \/ Add(h, i) \/ Put(h, i) \/ Delete(h, i)
    \/ \E h \in LimitThreads : Count(h) \/ Reset(h)
    \/ \E i \in CounterIds : IndexCatchesUp(i)

Spec == Init /\ [][Next]_vars

-----------------------------------------------------------------------------
\* What the table itself holds for the key.
Total == FoldSet(LAMBDA i, sum : Held(counters, i) + sum, 0, Present(counters))

(***************************************************************************)
(* No increment is lost unless a reset deleted its item: concurrent first  *)
(* requests, which create an item each, and requests that find an item at  *)
(* an older count through the index, are all in the sum.                   *)
(***************************************************************************)
LostOnlyByReset == Total <= written /\ (~deleted => Total = written)

(***************************************************************************)
(* A client is never told a count beyond the increments really written,    *)
(* whatever mixture of old and new items its query saw.                    *)
(***************************************************************************)
NeverOverCounted == counted <= written

=============================================================================
