-------------------------- MODULE TemplateCatalog --------------------------
(***************************************************************************)
(* TemplateCatalogService over an ITemplateRepository.  Every operation    *)
(* reads a template by its name, checks its status, and writes the whole   *)
(* record back under its id; nothing tells the repository which version    *)
(* was read.  The store is one map whose reads see the last write, as      *)
(* InMemoryTemplateRepository's do.  The repositories never suspend a      *)
(* handler, so one process runs its handlers one after the other: the      *)
(* interleaving is that of several server processes, the workers, on one   *)
(* store, for one user.                                                    *)
(*                                                                         *)
(* A content is what create, clone and update set and validate together:   *)
(* description, token model, characteristics, rules.  The approval stands  *)
(* for approved_by and approved_at, and remembers the content the approver *)
(* was given.  A version counts its bumps.                                 *)
(***************************************************************************)
EXTENDS Naturals

CONSTANTS
    Workers,    \* server processes
    Ids,        \* template ids
    Names,      \* template names
    Contents,   \* template contents
    Consistent, \* the contents _validate_token_model_consistency accepts (TokenModel)
    Seed,       \* the id of the seed template
    SeedName,   \* and its name
    None,       \* no template, no parent, no approval
    MaxVersion  \* bound on the bumps of a version

Status == {"draft", "pending_review", "approved", "active", "deprecated", "archived"}

Template ==
    [name : Names, status : Status, content : Contents, version : 0..MaxVersion,
     parent : Ids \cup {None}, approval : Contents \cup {None}]

\* What the constants satisfy.
ASSUME CatalogAssumption ==
    /\ Consistent \subseteq Contents /\ Consistent # {}
    /\ Seed \in Ids /\ SeedName \in Names
    /\ None \notin Ids \cup Contents \cup Template
    /\ MaxVersion \in Nat

VARIABLES
    catalog,    \* the stored template of each id, None if there is none
    pc,         \* "idle", "naming" (clone, source read) or "writing"
    target,     \* the id the worker is about to write
    draft,      \* the record it is about to write, or is about to name
    stale       \* history: another worker has written that id since it was read

vars == <<catalog, pc, target, draft, stale>>

TypeOK ==
    /\ catalog \in [Ids -> Template \cup {None}]
    /\ pc \in [Workers -> {"idle", "naming", "writing"}]
    /\ target \in [Workers -> Ids]
    /\ draft \in [Workers -> Template \cup {None}]
    /\ stale \in [Workers -> BOOLEAN]

Init ==
    /\ catalog = [i \in Ids |-> None]
    /\ pc = [w \in Workers |-> "idle"]
    /\ target = [w \in Workers |-> Seed]
    /\ draft = [w \in Workers |-> None]
    /\ stale = [w \in Workers |-> FALSE]

-----------------------------------------------------------------------------
Stored == {i \in Ids : catalog[i] # None}

\* get_by_name: some template of that name.
Named(n) == {i \in Stored : catalog[i].name = n}

IsEditable(t) == t.status \in {"draft", "pending_review"}

\* The worker has decided what to write under id i.
Prepare(w, i, t) ==
    /\ pc' = [pc EXCEPT ![w] = "writing"]
    /\ target' = [target EXCEPT ![w] = i]
    /\ draft' = [draft EXCEPT ![w] = t]
    /\ UNCHANGED <<catalog, stale>>

\* An operation on an existing template: read it, change it, write it back.
Change(w, i, t) ==
    /\ pc[w] = "idle"
    /\ i \in Stored
    /\ Prepare(w, i, t)

\* A template nobody has yet: its id is a fresh uuid.
Fresh(i) ==
    /\ i \notin Stored \cup {Seed}
    /\ \A w \in Workers : pc[w] = "writing" => target[w] # i

(***************************************************************************)
(* The name is looked up as it was sent, and stored without its leading    *)
(* and trailing blanks: a padded name is never found.                      *)
(***************************************************************************)
NameIsFree(n, padded) == padded \/ Named(n) = {}

CreateTemplate(w, i) ==
    \E n \in Names, padded \in BOOLEAN, c \in Consistent :
        /\ pc[w] = "idle"
        /\ NameIsFree(n, padded)
        /\ Fresh(i)
        /\ Prepare(w, i, [name |-> n, status |-> "draft", content |-> c, version |-> 0,
                          parent |-> None, approval |-> None])

\* clone_template, first read: the source, which becomes the draft's parent.
CloneRead(w, i) ==
    /\ pc[w] = "idle"
    /\ i \in Stored
    /\ pc' = [pc EXCEPT ![w] = "naming"]
    /\ target' = [target EXCEPT ![w] = i]
    /\ draft' = [draft EXCEPT ![w] = catalog[i]]
    /\ UNCHANGED <<catalog, stale>>

\* Mutant: the clone becomes its own parent.
CloneNameOwnParent(w, i) ==
    \E n \in Names, padded \in BOOLEAN, c \in Consistent :
        /\ pc[w] = "naming"
        /\ NameIsFree(n, padded)
        /\ draft[w].status = "active" \/ IsEditable(draft[w])
        /\ Fresh(i)
        /\ Prepare(w, i, [name |-> n, status |-> "draft", content |-> c, version |-> 0,
                          parent |-> i, approval |-> None])

\* clone_template, second read: the new name must be free.
CloneName(w, i) ==
    \E n \in Names, padded \in BOOLEAN, c \in Consistent :
        /\ pc[w] = "naming"
        /\ NameIsFree(n, padded)
        /\ draft[w].status = "active" \/ IsEditable(draft[w])
        /\ Fresh(i)
        /\ Prepare(w, i, [name |-> n, status |-> "draft", content |-> c, version |-> 0,
                          parent |-> target[w], approval |-> None])

\* The clone's name is taken, its source cannot be cloned, or a read failed.
CloneRefused(w) ==
    /\ pc[w] = "naming"
    /\ pc' = [pc EXCEPT ![w] = "idle"]
    /\ target' = [target EXCEPT ![w] = Seed]
    /\ draft' = [draft EXCEPT ![w] = None]
    /\ UNCHANGED <<catalog, stale>>

\* seed_catalog: the seed is written active and unvalidated, if its name is not found.
SeedCatalog(w) ==
    \E c \in Contents :
        /\ pc[w] = "idle"
        /\ Named(SeedName) = {}
        /\ Prepare(w, Seed, [name |-> SeedName, status |-> "active", content |-> c, version |-> 0,
                             parent |-> None, approval |-> None])

\* Mutant: an approved template can be edited too.
UpdateApproved(w, i) ==
    \E c \in Consistent :
        /\ i \in Stored
        /\ IsEditable(catalog[i]) \/ catalog[i].status = "approved"
        /\ Change(w, i, [catalog[i] EXCEPT !.content = c])

UpdateTemplate(w, i) ==
    \E c \in Consistent :
        /\ i \in Stored
        /\ IsEditable(catalog[i])
        /\ Change(w, i, [catalog[i] EXCEPT !.content = c])

ArchiveTemplate(w, i) ==
    /\ i \in Stored
    /\ catalog[i].status # "archived"
    /\ Change(w, i, [catalog[i] EXCEPT !.status = "archived"])

\* Mutant: whatever is not yet submitted, live or not, can be.
SubmitAny(w, i) ==
    /\ i \in Stored
    /\ catalog[i].status # "pending_review"
    /\ Change(w, i, [catalog[i] EXCEPT !.status = "pending_review"])

SubmitForReview(w, i) ==
    /\ i \in Stored
    /\ catalog[i].status = "draft"
    /\ Change(w, i, [catalog[i] EXCEPT !.status = "pending_review"])

ApproveTemplate(w, i) ==
    /\ i \in Stored
    /\ catalog[i].status = "pending_review"
    /\ Change(w, i, [catalog[i] EXCEPT !.status = "approved", !.approval = catalog[i].content])

ActivateTemplate(w, i) ==
    /\ i \in Stored
    /\ catalog[i].status = "approved"
    /\ Change(w, i, [catalog[i] EXCEPT !.status = "active"])

DeprecateTemplate(w, i) ==
    /\ i \in Stored
    /\ Change(w, i, [catalog[i] EXCEPT !.status = "deprecated"])

\* Mutant: two parts of the version are raised.
BumpTwice(w, i) ==
    /\ i \in Stored
    /\ catalog[i].version < MaxVersion
    /\ Change(w, i, [catalog[i] EXCEPT !.version = @ + 2])

\* Every kind of bump gives a greater version.
BumpVersion(w, i) ==
    /\ i \in Stored
    /\ catalog[i].version < MaxVersion
    /\ Change(w, i, [catalog[i] EXCEPT !.version = @ + 1])

-----------------------------------------------------------------------------
\* The handler ends and its draft dies with it.
End(w) ==
    /\ pc[w] = "writing"
    /\ pc' = [pc EXCEPT ![w] = "idle"]
    /\ target' = [target EXCEPT ![w] = Seed]
    /\ draft' = [draft EXCEPT ![w] = None]

Write(w) ==
    /\ End(w)
    /\ catalog' = [catalog EXCEPT ![target[w]] = draft[w]]
    /\ stale' = [v \in Workers |-> IF v = w THEN FALSE
                                   ELSE \/ stale[v]
                                        \/ pc[v] = "writing" /\ target[v] = target[w]]

WriteFails(w) ==
    /\ End(w)
    /\ stale' = [stale EXCEPT ![w] = FALSE]
    /\ UNCHANGED catalog

Next ==
    \E w \in Workers :
        \/ \E i \in Ids :
              \/ CreateTemplate(w, i)
              \/ CloneRead(w, i)
              \/ CloneName(w, i)
              \/ UpdateTemplate(w, i)
              \/ ArchiveTemplate(w, i)
              \/ SubmitForReview(w, i)
              \/ ApproveTemplate(w, i)
              \/ ActivateTemplate(w, i)
              \/ DeprecateTemplate(w, i)
              \/ BumpVersion(w, i)
        \/ CloneRefused(w)
        \/ SeedCatalog(w)
        \/ Write(w)
        \/ WriteFails(w)

Spec == Init /\ [][Next]_vars

-----------------------------------------------------------------------------
(***************************************************************************)
(* What is approved or live is what the approver was given, seeds apart,   *)
(* whatever edits raced with the approval: a record is always written      *)
(* whole, from one read, so an edit that lands after the approval takes    *)
(* the approval back with it.  Nothing editable carries an approval, and   *)
(* seeds apart nothing was ever stored that the consistency rules reject.  *)
(***************************************************************************)
ApprovalCoversContent ==
    \A i \in Stored :
        /\ catalog[i].status \in {"approved", "active"} /\ i # Seed
              => catalog[i].approval = catalog[i].content
        /\ IsEditable(catalog[i]) => catalog[i].approval = None
        /\ i # Seed => catalog[i].content \in Consistent

(***************************************************************************)
(* get_template_lineage follows parents until there is none and keeps no   *)
(* list of those it has seen: it ends because the parents of a stored      *)
(* template are stored, and every set of stored templates has one whose    *)
(* parent is outside: no template is its own ancestor.                     *)
(***************************************************************************)
LineageEnds ==
    /\ \A i \in Stored : catalog[i].parent \in Stored \cup {None}
    /\ \A S \in SUBSET Stored : S # {} => \E i \in S : catalog[i].parent \notin S

Retired(t) == t.status \in {"deprecated", "archived"}

(***************************************************************************)
(* A template that was archived or deprecated comes back, or a version     *)
(* falls, only by the write of a worker whose read another worker's write  *)
(* has overtaken.  A single process never does either.                     *)
(***************************************************************************)
SetBackOnlyByRace ==
    [][\A i \in Stored :
          \/ Retired(catalog[i]) /\ ~Retired(catalog'[i])
          \/ catalog'[i].version < catalog[i].version
          => \E w \in Workers : stale[w] /\ target[w] = i /\ Write(w)]_vars

(***************************************************************************)
(* "name: Unique business key used as API identifier"                      *)
(* (migrations/tokenization/001): no two templates have the same name.     *)
(***************************************************************************)
NamesUnique ==
    \A i, j \in Stored : catalog[i].name = catalog[j].name => i = j

=============================================================================
