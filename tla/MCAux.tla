------------------------------- MODULE MCAux -------------------------------
(***************************************************************************)
(* AuxServices for TLC.  The services share no state, so each behaviour    *)
(* exercises one of them, the focus: the sum of their state spaces and not *)
(* the product.  Two rows per table and two threads or requests; the two   *)
(* larger tables let one write wait for its indices at a time, the others  *)
(* MaxLag.                                                                 *)
(***************************************************************************)
EXTENDS AuxServices, TLC

MCSymbols == {"symbol"}
MCStatuses == {"ACTIVE", "BLOCKED", "other"}
MCDurations == {0}
MCOldTables == {{}, {"sessions", "rate_limits", "positions"}}

VARIABLE focus

FocusInit ==
    /\ focus \in {"sessions", "kyc", "limits", "users", "deploy", "nodes"}
    /\ AuxInit
    /\ focus = "deploy" \/ \A t \in Deploy!TableNames : schema[t] = NoTable

FocusNext ==
    /\ UNCHANGED focus
    /\ \/ focus = "sessions" /\ SessionStep
       \/ focus = "kyc" /\ KycStep
       \/ focus = "limits" /\ LimitStep
       \/ focus = "users" /\ UserStep
       \/ focus = "deploy" /\ DeployStep
       \/ focus = "nodes" /\ NodeStep

FocusSpec == FocusInit /\ [][FocusNext]_<<focus, auxVars>>

MCSymmetry ==
    Permutations(Rows) \cup Permutations(Threads) \cup Permutations(Wallets) \cup Permutations(Emails)

=============================================================================
