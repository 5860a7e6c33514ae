----------------------------- MODULE Diagnosis -----------------------------
(***************************************************************************)
(* DiagnosisService: the category of a business objective, by keywords or  *)
(* by a language model, and the history of what was diagnosed.             *)
(*                                                                         *)
(* A description is the set of the keywords it contains.  Weights are in   *)
(* tenths, so sums are exact where the code's floats round.  Reasonings,   *)
(* contexts, pain points and goals are wording and left out.               *)
(***************************************************************************)
EXTENDS Integers, Sequences, FiniteSetsExt

CONSTANTS Nobody    \* no category, no history entry

\* The categories with keywords, in the order of _CATEGORY_KEYWORDS.
CategoryOrder ==
    <<"revenue_growth", "sales_decline", "customer_acquisition", "customer_engagement",
      "customer_loyalty", "asset_tokenization", "rights_tokenization", "incentive_model",
      "community_building", "governance", "financing", "ecosystem_growth", "brand_awareness",
      "cost_reduction", "partnership_enablement">>

ObjectiveCategory == {CategoryOrder[k] : k \in DOMAIN CategoryOrder} \cup {"other"}

At(weight, keywords) == keywords \X {weight}

CATEGORY_KEYWORDS ==
  [revenue_growth |-> At(10, {"revenue", "sales increase"})
        \cup At(9, {"income", "monetize", "mrr", "arr", "arpu"}) \cup At(8, {"profit", "recurring", "ltv"})
        \cup At(7, {"upsell", "cross-sell", "subscription"}) \cup At(6, {"premium"}),
   sales_decline |-> At(10, {"sales decline", "revenue drop", "decreasing sales"})
        \cup At(9, {"churn", "losing customers", "customer loss"})
        \cup At(8, {"retention", "attrition"}) \cup At(7, {"down trend"}),
   customer_acquisition |-> At(10, {"acquire", "acquisition", "new customers"})
        \cup At(9, {"user growth", "referral"}) \cup At(8, {"sign up", "viral", "lead generation"})
        \cup At(7, {"onboard", "growth hack", "prospects"}),
   customer_engagement |-> At(10, {"engagement"})
        \cup At(9, {"active users", "participation", "gamification", "daily active", "dau"})
        \cup At(8, {"hu dong", "rewards", "stickiness", "mau"}) \cup At(7, {"session time", "frequency"}),
   customer_loyalty |-> At(10, {"loyalty"})
        \cup At(9, {"retention", "repeat purchase", "clv", "ltv", "rewards program"})
        \cup At(8, {"customer lifetime", "loyal", "points"}) \cup At(7, {"vip"}) \cup At(6, {"tier"}),
   asset_tokenization |-> At(10, {"tokenize", "tokenization", "rwa"})
        \cup At(9, {"real estate", "fractional", "real-world"}) \cup At(8, {"asset"})
        \cup At(7, {"property", "ownership", "commodit"}) \cup At(6, {"art", "collectible"}),
   rights_tokenization |-> At(10, {"intellectual property", "ip rights"})
        \cup At(9, {"copyright", "royalt", "content rights", "media rights", "music rights", "digital rights"})
        \cup At(8, {"licensing"}) \cup At(7, {"patent", "nft"}),
   incentive_model |-> At(10, {"incentive"}) \cup At(9, {"referral program", "reward behavior"})
        \cup At(8, {"bonus", "target action", "cashback"})
        \cup At(7, {"gamification", "badges", "achievements", "kickback"}) \cup At(6, {"milestones"}),
   community_building |-> At(10, {"community"}) \cup At(9, {"social token", "fan token"})
        \cup At(8, {"creator economy", "membership"})
        \cup At(7, {"social", "dao", "collective"}) \cup At(6, {"movement"}),
   governance |-> At(10, {"governance"}) \cup At(9, {"voting"})
        \cup At(8, {"decision making", "dao", "proposal"})
        \cup At(7, {"decentralized", "stakeholder", "consensus"}) \cup At(6, {"transparent"}),
   financing |-> At(10, {"financing"}) \cup At(9, {"lending", "borrowing", "capital raise"})
        \cup At(8, {"yield", "defi", "liquidity", "fundraising"}) \cup At(7, {"ico", "ido", "investment"}),
   ecosystem_growth |-> At(10, {"ecosystem"}) \cup At(9, {"platform token", "utility token"})
        \cup At(8, {"network effect"}) \cup At(7, {"protocol", "infrastructure"})
        \cup At(6, {"developer", "integration"}) \cup At(5, {"api"}),
   brand_awareness |-> At(10, {"brand awareness"}) \cup At(8, {"visibility"})
        \cup At(7, {"marketing", "recognition", "mindshare"}) \cup At(6, {"hype", "launch", "campaign"}),
   cost_reduction |-> At(10, {"cost reduction"}) \cup At(9, {"reduce fees"})
        \cup At(8, {"efficiency", "automate", "disintermediat"})
        \cup At(7, {"streamline", "intermediary"}) \cup At(6, {"optimize"}),
   partnership_enablement |-> At(10, {"partnership"}) \cup At(9, {"partner"})
        \cup At(8, {"alliance", "ecosystem partner"})
        \cup At(7, {"collaboration", "b2b"}) \cup At(6, {"integration"})]

\* The weights are those of CATEGORY_KEYWORDS.
CategoryScore(text, k) ==
    LET found(weight) == Cardinality({w \in text : <<w, weight>> \in CATEGORY_KEYWORDS[CategoryOrder[k]]})
    IN  10 * found(10) + 9 * found(9) + 8 * found(8) + 7 * found(7) + 6 * found(6) + 5 * found(5)

\* The first of the categories with the greatest score; "other" if no keyword is found.
Diagnose(text) ==
    LET scores == [k \in DOMAIN CategoryOrder |-> CategoryScore(text, k)] IN
    IF \A k \in DOMAIN scores : scores[k] = 0 THEN "other"
    ELSE CategoryOrder[CHOOSE k \in DOMAIN scores :
            \A j \in DOMAIN scores : scores[j] < scores[k] \/ (scores[j] = scores[k] /\ k <= j)]

-----------------------------------------------------------------------------
(***************************************************************************)
(* A reply of the model: the category it names, or Nobody if it is off,    *)
(* fails, or names none of ObjectiveCategory; and whether the rest of the  *)
(* reply can be read.                                                      *)
(***************************************************************************)
Reply == [category : ObjectiveCategory \cup {Nobody}, readable : BOOLEAN]

Adopted(reply) == reply.category # Nobody /\ reply.readable

\* The category diagnose_with_llm returns.
DiagnoseWithLlm(text, reply) == IF Adopted(reply) THEN reply.category ELSE Diagnose(text)

(***************************************************************************)
(* What it saves for a known user, in order.  The model's category is      *)
(* saved before the rest of the reply is read; if the reading fails the    *)
(* keywords take over and their category is saved as well.                 *)
(***************************************************************************)
Saves(text, reply) ==
    (IF reply.category = Nobody THEN <<>> ELSE <<reply.category>>)
    \o (IF Adopted(reply) THEN <<>> ELSE <<Diagnose(text)>>)

=============================================================================
