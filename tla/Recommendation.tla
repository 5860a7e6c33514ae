--------------------------- MODULE Recommendation ---------------------------
(***************************************************************************)
(* RecommendationService over the seed templates: which strategies and     *)
(* templates it recommends, in which order, and the plan it makes.  Scores *)
(* are in hundredths.  Names, reasons, features and other wording are left *)
(* out; a strategy is its code.                                            *)
(***************************************************************************)
EXTENDS Integers, Sequences, FiniteSets

Strategy(code, fit_base, complexity, months) ==
    [code |-> code, fit |-> fit_base, complexity |-> complexity, months |-> months]

CustomerStrategies ==
    [revenue_growth |-> <<Strategy("loyalty-tokenization", 90, "medium", 4),
                          Strategy("ecosystem-utility", 80, "high", 6)>>,
     customer_loyalty |-> <<Strategy("loyalty-tokenization", 95, "medium", 3)>>,
     customer_engagement |-> <<Strategy("gamified-rewards", 90, "medium", 3),
                               Strategy("social-token", 80, "medium", 4)>>]

MarketStrategies ==
    [customer_acquisition |-> <<Strategy("referral-incentive", 90, "low", 2),
                                Strategy("airdrop-campaign", 75, "low", 2)>>,
     asset_tokenization |-> <<Strategy("asset-tokenization", 95, "high", 8)>>,
     rights_tokenization |-> <<Strategy("rights-tokenization", 90, "high", 6)>>,
     incentive_model |-> <<Strategy("behavior-incentive", 90, "medium", 3)>>,
     community_building |-> <<Strategy("community-token", 90, "medium", 4)>>]

NetworkStrategies ==
    [governance |-> <<Strategy("governance-token", 95, "medium", 4)>>,
     financing |-> <<Strategy("defi-lending", 90, "high", 6)>>,
     ecosystem_growth |-> <<Strategy("ecosystem-utility", 90, "high", 6)>>,
     sales_decline |-> <<Strategy("loyalty-tokenization", 85, "medium", 3)>>,
     brand_awareness |-> <<Strategy("airdrop-campaign", 80, "low", 2)>>,
     cost_reduction |-> <<Strategy("process-automation", 80, "medium", 4)>>,
     partnership_enablement |-> <<Strategy("partnership-token", 85, "medium", 4)>>]

CATEGORY_STRATEGIES ==
    [category \in DOMAIN CustomerStrategies \cup DOMAIN MarketStrategies \cup DOMAIN NetworkStrategies |->
        IF category \in DOMAIN CustomerStrategies THEN CustomerStrategies[category]
        ELSE IF category \in DOMAIN MarketStrategies THEN MarketStrategies[category]
        ELSE NetworkStrategies[category]]

Lesser(a, b) == IF a <= b THEN a ELSE b

\* A stable sort by score, greatest first, of the entries at the positions K: an
\* entry follows those that come before it.
Ranked(scored, K) ==
    LET before(i, j) == scored[i].fit > scored[j].fit \/ (scored[i].fit = scored[j].fit /\ i < j)
        at(n) == CHOOSE k \in K : Cardinality({j \in K : before(j, k)}) = n - 1
    IN  [n \in 1..Cardinality(K) |-> scored[at(n)]]

FitScore(strategy, objective) ==
    LET known == IF objective.industry # "" THEN Lesser(strategy.fit + 5, 100) ELSE strategy.fit
    IN  IF objective.enterprise THEN Lesser(known + 3, 100) ELSE known

RecommendStrategies(objective, category) ==
    IF category \notin DOMAIN CATEGORY_STRATEGIES THEN <<>>
    ELSE LET all == CATEGORY_STRATEGIES[category] IN
         Ranked([k \in DOMAIN all |-> [all[k] EXCEPT !.fit = FitScore(all[k], objective)]], DOMAIN all)

-----------------------------------------------------------------------------
Seed(name, category, strategy, tags) ==
    [name |-> name, category |-> category, strategy |-> strategy, tags |-> tags]

FirstSeeds ==
    <<Seed("Loyalty Token", "loyalty", "customer-retention", {"loyalty", "rewards", "retail", "customer-retention"}),
      Seed("Reward Token", "reward", "engagement", {"reward", "gamification", "engagement", "gaming"}),
      Seed("Access Token", "access", "premium-access", {"access", "membership", "nft", "gated-content"}),
      Seed("Participation Token", "participation", "governance", {"governance", "voting", "dao", "participation"}),
      Seed("Asset-Backed Token", "asset-rights", "asset-tokenization",
           {"asset", "fractional-ownership", "rwa", "real-estate"}),
      Seed("Incentive Token", "incentive", "behavior-incentive", {"incentive", "referral", "behavior", "fintech"})>>

LaterSeeds ==
    <<Seed("Community Token", "community", "community-building", {"community", "social", "engagement", "creator-economy"}),
      Seed("Financing Token", "financing", "defi-lending", {"defi", "lending", "borrowing", "yield", "financing"}),
      Seed("Ecosystem Token", "ecosystem", "ecosystem-utility", {"ecosystem", "utility", "platform", "infrastructure"}),
      Seed("Multi-Token Collection", "asset-rights", "multi-asset",
           {"erc1155", "multi-token", "game-items", "collectibles"}),
      Seed("Tokenized Vault", "financing", "yield-vault", {"erc4626", "vault", "yield", "structured-product"})>>

SEED_TEMPLATES == FirstSeeds \o LaterSeeds

category_map ==
    [customer_loyalty |-> "loyalty", customer_engagement |-> "reward", customer_acquisition |-> "incentive",
     asset_tokenization |-> "asset-rights", rights_tokenization |-> "asset-rights",
     incentive_model |-> "incentive", community_building |-> "community", governance |-> "participation",
     financing |-> "financing", ecosystem_growth |-> "ecosystem", revenue_growth |-> "loyalty",
     sales_decline |-> "loyalty", brand_awareness |-> "community", cost_reduction |-> "financing",
     partnership_enablement |-> "ecosystem"]

strategy_map ==
    [code \in {"loyalty-tokenization", "gamified-rewards", "social-token", "referral-incentive",
               "airdrop-campaign", "asset-tokenization", "rights-tokenization", "behavior-incentive",
               "community-token", "governance-token", "defi-lending", "ecosystem-utility",
               "process-automation", "partnership-token"} |->
        CASE code = "loyalty-tokenization" -> "customer-retention"
          [] code = "gamified-rewards" -> "engagement"
          [] code \in {"social-token", "airdrop-campaign", "community-token"} -> "community-building"
          [] code \in {"referral-incentive", "behavior-incentive"} -> "behavior-incentive"
          [] code \in {"asset-tokenization", "rights-tokenization"} -> "asset-tokenization"
          [] code = "governance-token" -> "governance"
          [] code = "defi-lending" -> "defi-lending"
          [] OTHER -> "ecosystem-utility"]

Points(condition, points) == IF condition THEN points ELSE 0

\* The seeds are active, which is worth the last ten.
ScoreTemplate(template, category, strategy, objective) ==
    Points(category \in DOMAIN category_map /\ template.category = category_map[category], 50)
    + Points(template.strategy = strategy_map[strategy.code], 30)
    + Points(objective.industry \in template.tags, 10)
    + 10

\* Mutant: only templates of a good fit are listed.
EnoughIfGood(score) == score >= 70

Enough(score) == score > 20

\* The five best of the templates that score enough.
RecommendTemplates(objective, category, strategy) ==
    LET scored == [k \in DOMAIN SEED_TEMPLATES |->
                      [name |-> SEED_TEMPLATES[k].name,
                       fit |-> ScoreTemplate(SEED_TEMPLATES[k], category, strategy, objective)]]
        best == Ranked(scored, {k \in DOMAIN scored : Enough(scored[k].fit)})
    IN  SubSeq(best, 1, Lesser(5, Len(best)))

estimate_cost == [low |-> 15, medium |-> 50, high |-> 150]

\* The greatest cost is in thousands of dollars.
CreatePlan(strategy, template) ==
    [strategy |-> strategy.code, template |-> template, months |-> strategy.months,
     cost |-> estimate_cost[strategy.complexity]]

=============================================================================
