--------------------------- MODULE HealthService ---------------------------
(***************************************************************************)
(* HealthService._check_one for one provider: concurrent health checks ask *)
(* the node for its head, compare it with the record the previous checks   *)
(* left in the repository, and write a new record.  Request, read and      *)
(* write are separate awaits, so checks overlap in any order.              *)
(*                                                                         *)
(* Dates are kept as ages that saturate one tick past the threshold, the   *)
(* only value the staleness test compares them with.  The local variables  *)
(* of a check are reset when it ends.                                      *)
(***************************************************************************)
EXTENDS Naturals

CONSTANTS
    Checks,         \* concurrent GET /health requests
    StaleAfter,     \* stale_block_threshold_seconds
    MaxBlock        \* bound on the height of the chain

ASSUME HealthAssumption ==
    /\ StaleAfter \in Nat
    /\ MaxBlock \in Nat \ {0}

VARIABLES
    head,       \* the node's block number
    headAge,    \* time since the node produced it
    stored,     \* the provider's row in the repository
    pc,         \* progress of each check
    block,      \* the block number the node answered to the check
    still,      \* time since the node produced that block, no later one counted
    draft,      \* the record the check is about to write
    verdict     \* what the check is about to report

nodeVars == <<head, headAge>>
vars == <<head, headAge, stored, pc, block, still, draft, verdict>>

NoBlock == 0
MaxAge == StaleAfter + 1
Older(age) == IF age < MaxAge THEN age + 1 ELSE age

Age == 0..MaxAge
Status == {"unknown", "healthy", "degraded", "down"}
ProviderRecord == [status : Status, block : 0..MaxBlock, age : Age]

TypeOK ==
    /\ head \in 1..MaxBlock
    /\ headAge \in Age
    /\ stored \in ProviderRecord
    /\ pc \in [Checks -> {"idle", "asked", "answered", "writing"}]
    /\ block \in [Checks -> 0..MaxBlock]
    /\ still \in [Checks -> Age]
    /\ draft \in [Checks -> ProviderRecord]
    /\ verdict \in [Checks -> {"none", "fresh", "stale", "down"}]

NoRecord == [status |-> "unknown", block |-> NoBlock, age |-> 0]

Init ==
    /\ head = 1
    /\ headAge = 0
    /\ stored = NoRecord
    /\ pc = [c \in Checks |-> "idle"]
    /\ block = [c \in Checks |-> NoBlock]
    /\ still = [c \in Checks |-> 0]
    /\ draft = [c \in Checks |-> NoRecord]
    /\ verdict = [c \in Checks |-> "none"]

-----------------------------------------------------------------------------
Ask(c) ==
    /\ pc[c] = "idle"
    /\ pc' = [pc EXCEPT ![c] = "asked"]
    /\ UNCHANGED <<nodeVars, stored, block, still, draft, verdict>>

\* The node's answer is on its way from here on: it may be old on arrival.
NodeAnswers(c) ==
    /\ pc[c] = "asked"
    /\ pc' = [pc EXCEPT ![c] = "answered"]
    /\ block' = [block EXCEPT ![c] = head]
    /\ still' = [still EXCEPT ![c] = headAge]
    /\ UNCHANGED <<nodeVars, stored, draft, verdict>>

\* The check has decided what to report and what to write.
Conclude(c, report, status, seen) ==
    /\ pc' = [pc EXCEPT ![c] = "writing"]
    /\ verdict' = [verdict EXCEPT ![c] = report]
    /\ draft' = [draft EXCEPT ![c] = [status |-> status, block |-> seen, age |-> 0]]
    /\ UNCHANGED <<nodeVars, stored, block, still>>

\* Mutant: a status that ProviderStatus does not have.
RequestFailsOffline(c) ==
    /\ pc[c] \in {"asked", "answered"}
    /\ Conclude(c, "down", "offline", NoBlock)

\* The request raised: circuit breaker open, timeout, or an error of the node.
RequestFails(c) ==
    /\ pc[c] \in {"asked", "answered"}
    /\ Conclude(c, "down", "down", NoBlock)

\* Mutant: an old record is enough, whatever block it holds.
StaleByAgeAlone(b) ==
    /\ stored.block # NoBlock
    /\ stored.age > StaleAfter

(***************************************************************************)
(* _is_stale: the age is that of the last check, whatever that check saw.  *)
(***************************************************************************)
IsStale(b) ==
    /\ stored.block # NoBlock
    /\ stored.age > StaleAfter
    /\ stored.block = b

ReadRecord(c) ==
    /\ pc[c] = "answered"
    /\ IF IsStale(block[c])
       THEN Conclude(c, "stale", "degraded", block[c])
       ELSE Conclude(c, "fresh", "healthy", block[c])

\* A repository that cannot be read never makes a provider stale.
ReadFails(c) ==
    /\ pc[c] = "answered"
    /\ Conclude(c, "fresh", "healthy", block[c])

Finish(c) ==
    /\ pc[c] = "writing"
    /\ pc' = [pc EXCEPT ![c] = "idle"]
    /\ block' = [block EXCEPT ![c] = NoBlock]
    /\ still' = [still EXCEPT ![c] = 0]
    /\ draft' = [draft EXCEPT ![c] = NoRecord]
    /\ verdict' = [verdict EXCEPT ![c] = "none"]
    /\ UNCHANGED nodeVars

Write(c) ==
    /\ Finish(c)
    /\ stored' = draft[c]

\* _safe_upsert swallows the failure: the verdict stands, the row does not move.
WriteFails(c) ==
    /\ Finish(c)
    /\ UNCHANGED stored

-----------------------------------------------------------------------------
\* The chain, outside the service.
NewBlock ==
    /\ head < MaxBlock
    /\ head' = head + 1
    /\ headAge' = 0
    /\ UNCHANGED <<stored, pc, block, still, draft, verdict>>

Tick ==
    /\ headAge' = Older(headAge)
    /\ stored' = IF stored = NoRecord THEN stored ELSE [stored EXCEPT !.age = Older(@)]
    /\ still' = [c \in Checks |-> IF pc[c] = "answered" THEN Older(still[c]) ELSE still[c]]
    /\ draft' = [c \in Checks |-> IF pc[c] = "writing"
                                  THEN [draft[c] EXCEPT !.age = Older(@)] ELSE draft[c]]
    /\ UNCHANGED <<head, pc, block, verdict>>

Next ==
    \/ \E c \in Checks :
          \/ Ask(c)
          \/ NodeAnswers(c) \/ RequestFails(c)
          \/ ReadRecord(c) \/ ReadFails(c)
          \/ Write(c) \/ WriteFails(c)
    \/ NewBlock
    \/ Tick

Spec == Init /\ [][Next]_vars

-----------------------------------------------------------------------------
(***************************************************************************)
(* A provider is reported stale only when its node really stood still: up  *)
(* to the moment of the verdict, the answer's own travel time included,    *)
(* more than the threshold has passed since the block was produced.  Late  *)
(* answers, late writes and overlapping checks do not make one up.         *)
(***************************************************************************)
StaleIsGenuine ==
    \A c \in Checks : verdict[c] = "stale" => still[c] > StaleAfter

(***************************************************************************)
(* "last_seen_block: most recent block number successfully fetched from    *)
(* this provider" (migrations/ethereum/001): a check never replaces it by  *)
(* an older block, or by none.                                             *)
(***************************************************************************)
LastSeenIsMostRecent == [][stored'.block >= stored.block]_vars

=============================================================================
