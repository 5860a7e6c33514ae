---------------------------- MODULE OneTimeToken ----------------------------
(***************************************************************************)
(* What the authentication service promises of a token: it can be spent    *)
(* once, by one request, and only the request that spent it may be let     *)
(* through.  A request that spent its token may also never be let through  *)
(* (the process died, the answer was lost): the token is then gone.        *)
(***************************************************************************)
CONSTANTS Tokens, Requests

VARIABLES
    live,       \* tokens that can still be spent
    spentBy,    \* the requests that have spent each token
    admitted    \* requests let through to their handler

oneTimeVars == <<live, spentBy, admitted>>

Init ==
    /\ live = {}
    /\ spentBy = [t \in Tokens |-> {}]
    /\ admitted = {}

Issue(t) ==
    /\ t \notin live
    /\ spentBy[t] = {}
    /\ live' = live \cup {t}
    /\ UNCHANGED <<spentBy, admitted>>

Spend(r, t) ==
    /\ t \in live
    /\ live' = live \ {t}
    /\ spentBy' = [spentBy EXCEPT ![t] = {r}]
    /\ UNCHANGED admitted

Admit(r, t) ==
    /\ spentBy[t] = {r}
    /\ r \notin admitted
    /\ admitted' = admitted \cup {r}
    /\ UNCHANGED <<live, spentBy>>

Next ==
    \E t \in Tokens :
        \/ Issue(t)
        \/ \E r \in Requests : Spend(r, t) \/ Admit(r, t)

Spec == Init /\ [][Next]_oneTimeVars

=============================================================================
