------------------------- MODULE MCTemplateCatalog -------------------------
(***************************************************************************)
(* Two processes, a seed and two templates that users create.  A content   *)
(* stands for a token model: the default one of a request, one that        *)
(* create_template has to correct, and one that only a seed may have.      *)
(***************************************************************************)
EXTENDS TemplateCatalog, TLC

CONSTANTS Default, Collection, Doubtful

Rules == INSTANCE TokenModel WITH Unset <- None

TokenModelOf ==
    Default :> Rules!DefaultModel("ERC20")
    @@ Collection :> Rules!Corrected("ERC721",
          [Rules!DefaultModel("ERC721") EXCEPT !.decimals = 18, !.initial_supply = 5, !.max_supply = 9])
    @@ Doubtful :> [Rules!DefaultModel("ERC20") EXCEPT !.governance_enabled = TRUE]

\* Small token models, on both sides of every rule.
SmallModels ==
    {[Rules!DefaultModel(s) EXCEPT !.decimals = d, !.initial_supply = i, !.max_supply = m,
                                   !.max_emissions = e, !.max_holders = h] :
        s \in {"ERC20", "ERC721", "ERC1155", "ERC4626", "BEP20"}, d \in {0, 18},
        i \in 0..2, m \in {None} \cup 0..2, e \in {None} \cup 0..1, h \in {None} \cup 0..3}

(***************************************************************************)
(* The contents are those the rules say.  A request that gives no token    *)
(* model is never refused for the model it is given; correcting a model    *)
(* removes no other error and adds none; and a capped model that passes    *)
(* both sets of rules never promises more than its cap.                    *)
(***************************************************************************)
ASSUME ContentAssumption ==
    /\ Contents = DOMAIN TokenModelOf
    /\ \A c \in Contents : Rules!SupplyRulesHold(TokenModelOf[c])
    /\ Consistent = {c \in Contents : Rules!IsConsistent(TokenModelOf[c])}
    /\ \A s \in {"ERC20", "ERC721", "ERC1155", "ERC4626"} :
          LET tm == Rules!DefaultModel(s) IN Rules!SupplyRulesHold(tm) /\ Rules!IsConsistent(tm)
    /\ \A tm \in SmallModels :
          Rules!IsConsistent(Rules!Corrected(tm.standard, tm))
              <=> \E d \in {0, 18} : Rules!IsConsistent([tm EXCEPT !.decimals = d])
    /\ \A tm \in SmallModels :
          Rules!SupplyRulesHold(tm) /\ Rules!IsConsistent(tm) /\ tm.max_supply \notin {None, 0} =>
              /\ tm.initial_supply <= tm.max_supply
              /\ tm.max_emissions # None => tm.initial_supply + tm.max_emissions <= tm.max_supply
              /\ tm.max_holders # None => tm.max_holders <= tm.max_supply

MCSymmetry == Permutations(Workers) \cup Permutations(Consistent) \cup Permutations(Ids \ {Seed})

=============================================================================
