------------------------------ MODULE MCFlows ------------------------------
(***************************************************************************)
(* Flows for TLC.  Its parts share no state, so each behaviour exercises   *)
(* one of them, the focus: the sum of their state spaces and not the       *)
(* product.                                                                *)
(***************************************************************************)
EXTENDS Flows, TLC

\* Every category by a keyword of its own, keywords that contain others,
\* keywords of two categories, and none.
MCDescriptions ==
    {{"revenue"},
     {"sales decline"},
     {"acquire"},
     {"engagement"},
     {"loyalty", "loyal"},
     {"tokenize"},
     {"copyright"},
     {"incentive"},
     {"community"},
     {"governance"},
     {"yield"},
     {"ecosystem"},
     {"visibility"},
     {"efficiency"},
     {"partnership", "partner", "art"},
     {"churn", "revenue", "revenue drop"},
     {"rewards", "rewards program"},
     {"referral", "referral program"},
     {"integration"},
     {"dao"},
     {"retention"},
     {"ltv"},
     {"capital raise", "api"},
     {"social token", "social"},
     {}}

MCObjectives ==
    [text : MCDescriptions, industry : {""}, enterprise : {FALSE}, known : {FALSE}]
    \cup [text : {{"revenue"}, {"loyalty", "loyal"}}, industry : {"retail"},
          enterprise : {TRUE}, known : {TRUE}]

\* The model is off or unreadable, agrees, disagrees, or knows no category.
MCReplies ==
    [category : {"customer_acquisition", "governance", "other"}, readable : BOOLEAN]
    \cup {[category |-> None, readable |-> FALSE]}

MCRepositories == {"memory", "dynamodb"}

VARIABLE focus

FocusInit ==
    /\ focus \in {"journey", "choices", "wallets", "secrets"}
    /\ FlowInit
    /\ focus = "journey"
       \/ objective = [text |-> {}, industry |-> "", enterprise |-> FALSE, known |-> FALSE]
    /\ focus = "choices" \/ repository = "memory"
    /\ focus = "wallets" \/ screening

FocusNext ==
    /\ UNCHANGED focus
    /\ \/ focus = "journey" /\ JourneyStep
       \/ focus = "choices" /\ ChoiceStep
       \/ focus = "wallets" /\ WalletStep
       \/ focus = "secrets" /\ SecretStep

FocusSpec == FocusInit /\ [][FocusNext]_<<focus, flowVars>>

MCSymmetry == Permutations(Handlers) \cup Permutations(Keys) \cup Permutations(CatalogNames)

=============================================================================
