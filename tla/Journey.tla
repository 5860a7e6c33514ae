------------------------------ MODULE Journey ------------------------------
(***************************************************************************)
(* JourneyService and its three routes, over DiagnosisService and          *)
(* RecommendationService.  The server keeps nothing between the requests:  *)
(* the client sends its objective again with each, and /start alone asks   *)
(* the language model; the other two diagnose by keywords.  One client     *)
(* walks through the journey in any order, with one objective.             *)
(***************************************************************************)
EXTENDS Diagnosis, Recommendation

CONSTANTS
    Objectives,     \* objectives: the keywords of the text, the industry or "", the size, the user
    Replies         \* the replies of the model that are considered

\* What the constants satisfy.
JourneyAssumption ==
    /\ Replies \subseteq Reply /\ Nobody \notin ObjectiveCategory
    /\ \A o \in Objectives : IsFiniteSet(o.text)

VARIABLES
    objective,  \* what the client sends with every request
    diagnosed,  \* the category /start answered
    offered,    \* the codes of the strategies it offered
    chosen,     \* the code the client has sent last
    shown,      \* the names of the templates /select-strategy showed for it
    plan,       \* the last plan made
    outcome,    \* how the last request ended
    recorded,   \* the last category saved in the history
    unsaved     \* history: a category was not saved

vars == <<objective, diagnosed, offered, chosen, shown, plan, outcome, recorded, unsaved>>

Codes == DOMAIN strategy_map
Names == {SEED_TEMPLATES[k].name : k \in DOMAIN SEED_TEMPLATES}
NoPlan == [strategy |-> "", template |-> "", months |-> 0, cost |-> 0]

TypeOK ==
    /\ objective \in Objectives
    /\ diagnosed \in ObjectiveCategory \cup {Nobody}
    /\ offered \subseteq Codes
    /\ chosen \in Codes \cup {""}
    /\ shown \subseteq Names
    /\ plan = NoPlan \/ plan \in [strategy : Codes, template : Names, months : 1..12, cost : {15, 50, 150}]
    /\ outcome \in {"ok", "not found", "bad request", "error"}
    /\ recorded \in ObjectiveCategory \cup {Nobody}
    /\ unsaved \in BOOLEAN

\* known: the caller of diagnose_with_llm passes a user id, which the route does not do.
Init ==
    /\ objective \in Objectives
    /\ diagnosed = Nobody
    /\ offered = {} /\ chosen = "" /\ shown = {}
    /\ plan = NoPlan /\ outcome = "ok"
    /\ recorded = Nobody /\ unsaved = FALSE

-----------------------------------------------------------------------------
\* What the keywords say of each text.
KeywordCategory == [text \in {o.text : o \in Objectives} |-> Diagnose(text)]

Elements(seq) == {seq[k] : k \in DOMAIN seq}

\* Mutant: the category that is answered in the end is not saved.
RecordFirst(reply) ==
    LET saves == Saves(objective.text, reply) IN
    \E done \in [1..1 -> BOOLEAN] :
        /\ recorded' = IF done[1] /\ objective.known THEN saves[1] ELSE recorded
        /\ unsaved' = (objective.known /\ ~done[1])

\* Each save may fail, and nobody hears of it.
Record(reply) ==
    LET saves == Saves(objective.text, reply) IN
    \E done \in [DOMAIN saves -> BOOLEAN] :
        LET kept == {k \in DOMAIN saves : done[k]} IN
        /\ recorded' = IF objective.known /\ kept # {} THEN saves[Max(kept)] ELSE recorded
        /\ unsaved' = (objective.known /\ \E k \in DOMAIN saves : ~done[k])

\* POST /journey/start, with the reply of the model.
StartJourney(reply) ==
    LET strategies == RecommendStrategies(objective, DiagnoseWithLlm(objective.text, reply)) IN
    /\ diagnosed' = DiagnoseWithLlm(objective.text, reply)
    /\ offered' = {s.code : s \in Elements(strategies)}
    /\ outcome' = IF strategies = <<>> THEN "not found" ELSE "ok"
    /\ chosen' = "" /\ shown' = {} /\ plan' = NoPlan
    /\ Record(reply)
    /\ UNCHANGED objective

\* The strategies of the objective as the two other routes see it.
Recommended == RecommendStrategies(objective, KeywordCategory[objective.text])

Templates(strategy) == RecommendTemplates(objective, KeywordCategory[objective.text], strategy)

TemplateNames(strategy) == {t.name : t \in Elements(Templates(strategy))}

\* POST /journey/select-strategy.
SelectStrategy(code) ==
    LET found == {s \in Elements(Recommended) : s.code = code} IN
    /\ chosen' = code
    /\ shown' = UNION {TemplateNames(s) : s \in found}
    /\ outcome' = IF shown' = {} THEN "not found" ELSE "ok"
    /\ UNCHANGED <<objective, diagnosed, offered, plan, recorded, unsaved>>

\* Mutant: the best strategy is taken whatever the code.
BestStrategy(code) == IF Recommended = <<>> THEN {} ELSE {Recommended[1]}

\* The strategy of the code, or else the best one.
SelectedStrategy(code) ==
    IF \E s \in Elements(Recommended) : s.code = code
    THEN {s \in Elements(Recommended) : s.code = code}
    ELSE IF Recommended = <<>> THEN {} ELSE {Recommended[1]}

\* POST /journey/select-template; a template that is not recommended raises.
SelectTemplate(name) ==
    /\ \/ /\ SelectedStrategy(chosen) = {}
          /\ outcome' = "bad request"
          /\ UNCHANGED plan
       \/ \E s \in SelectedStrategy(chosen) :
             IF name \in TemplateNames(s)
             THEN plan' = CreatePlan(s, name) /\ outcome' = "ok"
             ELSE outcome' = "error" /\ UNCHANGED plan
    /\ UNCHANGED <<objective, diagnosed, offered, chosen, shown, recorded, unsaved>>

Next ==
    \/ \E reply \in Replies : StartJourney(reply)
    \/ \E code \in offered \cup {CHOOSE c \in Codes : c \notin offered} : SelectStrategy(code)
    \/ \E name \in Names : SelectTemplate(name)

Spec == Init /\ [][Next]_vars

-----------------------------------------------------------------------------
\* The later routes see the category that /start answered.
SameDiagnosis == diagnosed = KeywordCategory[objective.text]

(***************************************************************************)
(* No dead end: a strategy /start has offered, unless the model saw the    *)
(* objective in another category than the keywords, leads to at least one  *)
(* template, and each template shown for it to a plan.                     *)
(***************************************************************************)
NoDeadEnd ==
    [][/\ \A code \in offered : SameDiagnosis /\ SelectStrategy(code) => outcome' = "ok"
       /\ \A name \in shown : SameDiagnosis /\ SelectTemplate(name) => outcome' = "ok"]_vars

(***************************************************************************)
(* A plan is for the strategy the client chose and a template shown for    *)
(* it: the route takes the best strategy silently when it does not find    *)
(* the code, which happens to an offered code only if the model and the    *)
(* keywords disagree.                                                      *)
(***************************************************************************)
PlanIsForChoice ==
    [][plan' # plan /\ plan' # NoPlan /\ SameDiagnosis /\ chosen \in offered \ {""} =>
          plan'.strategy = chosen /\ plan'.template \in shown]_vars

(***************************************************************************)
(* The history ends with the category that was answered, although that of  *)
(* the model is saved before its reply has been read to the end; unless a  *)
(* save failed.                                                            *)
(***************************************************************************)
HistoryTellsAnswer ==
    objective.known /\ ~unsaved => recorded = diagnosed

=============================================================================
