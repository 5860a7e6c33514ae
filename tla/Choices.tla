------------------------------ MODULE Choices ------------------------------
(***************************************************************************)
(* RecommendationChoiceService with its routes, the language model         *)
(* adapters and the choice repositories, for one registered user and one   *)
(* business type.  Requests share an event loop: they interleave where one *)
(* waits, for the model or for Postgres; a call to DynamoDB blocks them    *)
(* all.                                                                    *)
(*                                                                         *)
(* The templates come from a repository in memory, which the catalog fills,*)
(* or from DynamoDBTemplateRepository, which reads the table the choices   *)
(* are stored in and never manages to write a template into it.            *)
(***************************************************************************)
EXTENDS Naturals, Sequences, SequencesExt

CONSTANTS
    Requests,       \* concurrent requests
    ChoiceIds,      \* ids of choices
    Templates,      \* names of templates
    Repositories,   \* the wirings considered, among "memory" and "dynamodb"
    MaxCatalog,     \* bound on the templates of the catalog
    MaxReply,       \* bound on the names in a reply of the model
    None

\* The option after the templates; it stands for any name that is no template's.
CREATE_ZERO_OPTION == "Nenhuma destas - Criar do Zero"

\* What the constants satisfy.
ChoiceAssumption ==
    /\ CREATE_ZERO_OPTION \notin Templates /\ None \notin Templates \cup {CREATE_ZERO_OPTION}
    /\ Repositories \subseteq {"memory", "dynamodb"}
    /\ MaxCatalog \in Nat /\ MaxReply \in Nat

VARIABLES
    repository, \* where templates are read from
    catalog,    \* the names in memory, in the order of the listing
    choices,    \* the choices in DynamoDB: the template of each id
    copies,     \* the choices in Postgres
    waiting,    \* what each request waits for: the model, or Postgres
    listed,     \* how the last listing of templates ended
    ordered,    \* the last reordered list and what was to be reordered
    confirmed,  \* the choices answered with 201
    uncopied    \* history: the choices whose copy failed

vars == <<repository, catalog, choices, copies, waiting, listed, ordered, confirmed, uncopied>>

Named == Templates \cup {CREATE_ZERO_OPTION}
Catalogs == BoundedSeq(Templates, MaxCatalog)

Reordering == [for : {"model"}, candidates : Catalogs]
Copied == [for : {"postgres"}, id : ChoiceIds, name : Named]

TypeOK ==
    /\ repository \in Repositories
    /\ catalog \in Catalogs
    /\ choices \in [ChoiceIds -> Named \cup {None}]
    /\ copies \in [ChoiceIds -> Named \cup {None}]
    /\ waiting \in [Requests -> {None} \cup Reordering \cup Copied]
    /\ listed \in {"ok", "error"}
    /\ ordered \in [candidates : Catalogs, options : Seq(Named)]
    /\ confirmed \subseteq ChoiceIds /\ uncopied \subseteq ChoiceIds

Init ==
    /\ repository \in Repositories
    /\ catalog = <<>>
    /\ choices = [i \in ChoiceIds |-> None]
    /\ copies = [i \in ChoiceIds |-> None]
    /\ waiting = [r \in Requests |-> None]
    /\ listed = "ok"
    /\ ordered = [candidates |-> <<>>, options |-> <<>>]
    /\ confirmed = {} /\ uncopied = {}

-----------------------------------------------------------------------------
\* The catalog changes while requests wait.
CatalogChanges ==
    /\ repository = "memory"
    /\ catalog' \in Catalogs
    /\ UNCHANGED <<repository, choices, copies, waiting, listed, ordered, confirmed, uncopied>>

Stored == {i \in ChoiceIds : choices[i] # None}

\* _from_item reads the description of every item of the user, and a choice has none.
Unreadable == repository = "dynamodb" /\ Stored # {}

get_templates_by_business_type == IF repository = "memory" THEN catalog ELSE <<>>

TemplatesByBusinessType ==
    /\ listed' = IF Unreadable THEN "error" ELSE "ok"
    /\ UNCHANGED <<repository, catalog, choices, copies, waiting, ordered, confirmed, uncopied>>

Wait(r, what) == waiting' = [waiting EXCEPT ![r] = what]

\* POST /recommendation/order, up to the wait for the model.
OrderTemplates(r) ==
    /\ waiting[r] = None
    /\ listed' = IF Unreadable THEN "error" ELSE "ok"
    /\ IF Unreadable \/ get_templates_by_business_type = <<>> THEN UNCHANGED waiting
       ELSE Wait(r, [for |-> "model", candidates |-> get_templates_by_business_type])
    /\ UNCHANGED <<repository, catalog, choices, copies, ordered, confirmed, uncopied>>

\* The entries of seq that are in S, in their order.
Those(seq, S) ==
    LET upTo[n \in 0..Len(seq)] ==
            IF n = 0 THEN <<>>
            ELSE IF seq[n] \in S THEN Append(upTo[n - 1], seq[n]) ELSE upTo[n - 1]
    IN upTo[Len(seq)]

\* Mutant: what the model leaves out is left out.
KeepAllowed(names, available) == Those(names, ToSet(available))

\* What the names keep of the available templates, then those they miss.
Completed(names, available) ==
    LET allowed == Those(names, ToSet(available)) IN
    allowed \o Those(available, ToSet(available) \ ToSet(allowed))

\* GroqReorderAdapter.reorder and Grok's: any failure leaves the order as it is.
AdapterReorder(reply, available) ==
    IF reply = None THEN available ELSE Completed(reply, available)

\* The rest of the request.  Its entry in the history holds the same, and may fail to be saved.
Reorder(r) ==
    /\ waiting[r] # None /\ waiting[r].for = "model"
    /\ \E reply \in BoundedSeq(Named, MaxReply) \cup {None} :
          LET available == waiting[r].candidates IN
          ordered' = [candidates |-> available,
                      options |-> Append(Completed(AdapterReorder(reply, available), available), CREATE_ZERO_OPTION)]
    /\ Wait(r, None)
    /\ UNCHANGED <<repository, catalog, choices, copies, listed, confirmed, uncopied>>

Unused(i) == choices[i] = None /\ copies[i] = None
             /\ \A r \in Requests : waiting[r] # None /\ waiting[r].for = "postgres" => waiting[r].id # i

\* Mutant: the choice goes to DynamoDB only if its copy could be written.
CreateChoiceLater(r, i) ==
    \E name \in Named :
        /\ waiting[r] = None /\ Unused(i)
        /\ Wait(r, [for |-> "postgres", id |-> i, name |-> name])
        /\ UNCHANGED <<repository, catalog, choices, copies, listed, ordered, confirmed, uncopied>>

\* POST /choices: any name is taken, without its surrounding blanks.
CreateChoice(r, i) ==
    \E name \in Named :
        /\ waiting[r] = None /\ Unused(i)
        /\ choices' = [choices EXCEPT ![i] = name]
        /\ Wait(r, [for |-> "postgres", id |-> i, name |-> name])
        /\ UNCHANGED <<repository, catalog, copies, listed, ordered, confirmed, uncopied>>

Confirm(r) == Wait(r, None) /\ confirmed' = confirmed \cup {waiting[r].id}

Copying(r) == waiting[r] # None /\ waiting[r].for = "postgres"

CopyChoice(r) ==
    /\ Copying(r)
    /\ copies' = [copies EXCEPT ![waiting[r].id] = waiting[r].name]
    /\ Confirm(r)
    /\ UNCHANGED <<repository, catalog, choices, listed, ordered, uncopied>>

\* The failure is logged and the choice confirmed all the same.
CopyFails(r) ==
    /\ Copying(r)
    /\ uncopied' = uncopied \cup {waiting[r].id}
    /\ Confirm(r)
    /\ UNCHANGED <<repository, catalog, choices, copies, listed, ordered>>

\* The process stops: its requests end, and the catalog in memory is gone.
Crash ==
    /\ waiting' = [r \in Requests |-> None]
    /\ catalog' = <<>>
    /\ UNCHANGED <<repository, choices, copies, listed, ordered, confirmed, uncopied>>

Next ==
    \/ CatalogChanges
    \/ TemplatesByBusinessType
    \/ \E r \in Requests :
          \/ OrderTemplates(r) \/ Reorder(r)
          \/ \E i \in ChoiceIds : CreateChoice(r, i)
          \/ CopyChoice(r) \/ CopyFails(r)
    \/ Crash

Spec == Init /\ [][Next]_vars

-----------------------------------------------------------------------------
(***************************************************************************)
(* "Groq reorders only - never invents" (README.md): whatever the model    *)
(* replies, and whatever happens to the catalog while it is asked, the     *)
(* options are the templates that were listed, none lost and none added,   *)
(* and after them the way to create one from zero.                         *)
(***************************************************************************)
ReorderIsComplete ==
    ordered.options # <<>> =>
        /\ Last(ordered.options) = CREATE_ZERO_OPTION
        /\ ToSet(Front(ordered.options)) = ToSet(ordered.candidates)

(***************************************************************************)
(* DynamoDB holds every choice that was confirmed and every choice that    *)
(* Postgres holds, with the same template; a confirmed choice without a    *)
(* copy is one whose copy failed.                                          *)
(***************************************************************************)
CopyFollowsChoice ==
    /\ confirmed \subseteq Stored
    /\ \A i \in ChoiceIds : copies[i] # None => copies[i] = choices[i]
    /\ \A i \in confirmed : copies[i] = None => i \in uncopied

(***************************************************************************)
(* The "marker to distinguish from template catalog items"                 *)
(* (dynamodb_choice_repository.py): the choices in the table do not        *)
(* disturb the listing of the templates.                                   *)
(***************************************************************************)
TemplatesStayListed == listed = "ok"

=============================================================================
