----------------------------- MODULE TokenModel -----------------------------
(***************************************************************************)
(* The token model of a template: what pydantic accepts as one, what the   *)
(* catalog calls consistent, and what create_template makes of a request.  *)
(* Percentages are whole numbers.  Fields that no rule reads are left out. *)
(***************************************************************************)
EXTENDS Integers

CONSTANT Unset      \* None in an optional number

Optional == Nat \cup {Unset}

TokenModels ==
    [standard : STRING, decimals : 0..18,
     initial_supply : Nat, max_supply : Optional,
     mintable : BOOLEAN, burnable : BOOLEAN,
     cliff_months : Nat, vesting_months : Nat,
     emission_type : STRING, max_emissions : Optional,
     governance_enabled : BOOLEAN, voting_threshold_pct : 0..100, voting_period_hours : Nat,
     max_holders : Optional]

\* The validator of TokenModel: a model that fails it is never made.
SupplyRulesHold(tm) ==
    /\ tm.initial_supply > 0 /\ tm.max_supply # Unset => tm.initial_supply <= tm.max_supply
    /\ tm.burnable => tm.mintable
    /\ tm.max_supply \notin {Unset, 0} /\ tm.max_emissions # Unset
          => tm.initial_supply + tm.max_emissions <= tm.max_supply

WholeStandards == {"ERC721", "ERC1155"}

\* _validate_token_model_consistency finds no error.
IsConsistent(tm) ==
    /\ tm.standard \in WholeStandards \cup {"ERC20", "ERC4626"}
    /\ tm.standard \in WholeStandards => tm.decimals = 0
    /\ tm.standard = "ERC721" /\ tm.initial_supply > 1 => tm.max_supply \notin {Unset, 0}
    /\ tm.governance_enabled => tm.voting_period_hours # 0 /\ tm.voting_threshold_pct > 0
    /\ tm.max_holders # Unset /\ tm.max_supply # Unset => tm.max_holders <= tm.max_supply
    /\ tm.vesting_months > 0 => tm.cliff_months <= tm.vesting_months
    /\ tm.emission_type \in {"fixed", "decreasing", "increasing"}

\* The model of a request that gives none.
DefaultModel(token_standard) ==
    [standard |-> token_standard, decimals |-> IF token_standard \in WholeStandards THEN 0 ELSE 18,
     initial_supply |-> 0, max_supply |-> Unset,
     mintable |-> FALSE, burnable |-> FALSE,
     cliff_months |-> 0, vesting_months |-> 0,
     emission_type |-> "fixed", max_emissions |-> Unset,
     governance_enabled |-> FALSE, voting_threshold_pct |-> 50, voting_period_hours |-> 0,
     max_holders |-> Unset]

\* The model of a request that gives one: the standard of the template decides the decimals.
Corrected(token_standard, tm) ==
    IF token_standard \in WholeStandards THEN [tm EXCEPT !.decimals = 0] ELSE tm

=============================================================================
