-------------------------------- MODULE Flows --------------------------------
(***************************************************************************)
(* The journey, the choices, the wallet sessions and the platform secrets, *)
(* side by side.  They share no state and interleave freely; what each     *)
(* promises is stated of the whole.                                        *)
(***************************************************************************)
EXTENDS PlatformSecrets

CONSTANTS
    Handlers, Keys,             \* concurrent requests, and ids
    CatalogNames, Repositories, MaxCatalog, MaxReply,
    Objectives, Replies,
    Addresses, Sanctioned, TTL, Now

VARIABLES
    objective, diagnosed, offered, chosen, shown, plan, outcome, recorded, unsaved,
    repository, catalog, choices, copies, waiting, listed, ordered, confirmed, uncopied,
    screening, time, sessions, serving, answered

JourneySpec == INSTANCE Journey WITH Nobody <- None
ChoicesSpec == INSTANCE Choices WITH
    Requests <- Handlers, ChoiceIds <- Keys, Templates <- CatalogNames
WalletSpec == INSTANCE WalletSessions WITH
    Accounts <- Addresses, SessionKeys <- Keys, Connects <- Handlers, NoSession <- None

\* The constants of each part satisfy what its module says of them.
ASSUME FlowAssumption ==
    /\ JourneySpec!JourneyAssumption /\ ChoicesSpec!ChoiceAssumption
    /\ WalletSpec!WalletAssumption /\ SecretAssumption

journeyVars == <<objective, diagnosed, offered, chosen, shown, plan, outcome, recorded, unsaved>>
choiceVars ==
    <<repository, catalog, choices, copies, waiting, listed, ordered, confirmed, uncopied>>
walletVars == <<screening, time, sessions, serving, answered>>
flowVars == <<journeyVars, choiceVars, walletVars, vars>>

FlowInit == JourneySpec!Init /\ ChoicesSpec!Init /\ WalletSpec!Init /\ Init

\* A step of one part leaves the others as they are.
JourneyStep == JourneySpec!Next /\ UNCHANGED <<choiceVars, walletVars, vars>>
ChoiceStep == ChoicesSpec!Next /\ UNCHANGED <<journeyVars, walletVars, vars>>
WalletStep == WalletSpec!Next /\ UNCHANGED <<journeyVars, choiceVars, vars>>
SecretStep == Next /\ UNCHANGED <<journeyVars, choiceVars, walletVars>>

FlowNext == JourneyStep \/ ChoiceStep \/ WalletStep \/ SecretStep

FlowSpec == FlowInit /\ [][FlowNext]_flowVars

-----------------------------------------------------------------------------
\* The variables of each part keep their types.
FlowTypeOK == JourneySpec!TypeOK /\ ChoicesSpec!TypeOK /\ WalletSpec!TypeOK /\ TypeOK

\* Journey: an offered strategy leads to templates, and a shown template to a plan.
NoDeadEnd == JourneySpec!NoDeadEnd

\* Journey: a plan is for the strategy and the template the client chose.
PlanIsForChoice == JourneySpec!PlanIsForChoice

\* Journey: the history ends with the category that was answered.
HistoryTellsAnswer == JourneySpec!HistoryTellsAnswer

\* Choices: the model neither loses nor adds a template.
ReorderIsComplete == ChoicesSpec!ReorderIsComplete

\* Choices: DynamoDB holds every confirmed choice and all that Postgres holds.
CopyFollowsChoice == ChoicesSpec!CopyFollowsChoice

\* Choices: the choices in the table do not disturb the listing of the templates.
TemplatesStayListed == ChoicesSpec!TemplatesStayListed

\* WalletSessions: where it is screened, no session is for a sanctioned account.
SessionsScreened == WalletSpec!SessionsScreened

=============================================================================
