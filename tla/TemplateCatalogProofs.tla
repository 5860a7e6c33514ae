----------------------- MODULE TemplateCatalogProofs -----------------------
(***************************************************************************)
(* The types of TemplateCatalog, that an approval covers the content, that *)
(* a lineage ends, and that only a race sets a template back, for any      *)
(* number of processes, any ids, names and contents.                       *)
(*                                                                         *)
(* The properties speak of stored templates; they are inductive together   *)
(* with what is known of the drafts in flight: a draft keeps the approval  *)
(* rules itself (Sound), while no other worker has overtaken it it does    *)
(* not set back the record it will replace (Follows), and its parent is    *)
(* that of the record it will replace or an older template (Descends).     *)
(***************************************************************************)
EXTENDS TemplateCatalog, TLAPS

\* The template t may stand under the id i.
Sound(i, t) ==
    /\ t.status \in {"approved", "active"} /\ i # Seed => t.approval = t.content
    /\ IsEditable(t) => t.approval = None
    /\ i = Seed => t.name = SeedName /\ t.parent = None
    /\ i # Seed => t.content \in Consistent

\* To replace the record t by u does not set it back.
NotBack(t, u) ==
    /\ Retired(t) => Retired(u)
    /\ u.version >= t.version

DraftsTyped == \A w \in Workers : pc[w] # "idle" => draft[w] \in Template
DraftsSound == \A w \in Workers : pc[w] = "writing" => Sound(target[w], draft[w])
StoredSound == \A i \in Stored : Sound(i, catalog[i])

Follows(w) ==
    /\ pc[w] # "writing" => ~stale[w]
    /\ pc[w] = "writing" /\ ~stale[w] /\ target[w] \in Stored
          => NotBack(catalog[target[w]], draft[w])

IInv ==
    /\ TypeOK
    /\ DraftsTyped
    /\ DraftsSound
    /\ StoredSound
    /\ \A w \in Workers : Follows(w)

\* The draft of w continues a stored lineage, and nobody else starts the same one.
Descends(w) ==
    /\ pc[w] = "naming" => target[w] \in Stored
    /\ pc[w] = "writing" /\ target[w] \in Stored => draft[w].parent = catalog[target[w]].parent
    /\ pc[w] = "writing" /\ target[w] \notin Stored =>
           /\ draft[w].parent \in Stored \cup {None}
           /\ \A v \in Workers \ {w} :
                  pc[v] = "writing" /\ target[v] = target[w] => target[w] = Seed

LineageInv ==
    /\ IInv
    /\ LineageEnds
    /\ \A w \in Workers : Descends(w)

-----------------------------------------------------------------------------
(***************************************************************************)
(* Stored templates are templates.                                         *)
(***************************************************************************)
LEMMA StoredTyped ==
    ASSUME TypeOK, NEW i \in Stored
    PROVE  i \in Ids /\ catalog[i] \in Template
BY DEF TypeOK, Stored

(***************************************************************************)
(* A worker that is about to write a sound record keeps the invariant.     *)
(***************************************************************************)
LEMMA PrepareStep ==
    ASSUME IInv, NEW w \in Workers, pc[w] # "writing",
           NEW i \in Ids, NEW t \in Template, Sound(i, t),
           i \in Stored => NotBack(catalog[i], t),
           Prepare(w, i, t)
    PROVE  IInv'
<1>1. /\ UNCHANGED <<catalog, stale>>
      /\ pc' = [pc EXCEPT ![w] = "writing"]
      /\ target' = [target EXCEPT ![w] = i]
      /\ draft' = [draft EXCEPT ![w] = t]
  BY DEF Prepare
<1>2. pc'[w] = "writing" /\ target'[w] = i /\ draft'[w] = t
  BY <1>1 DEF IInv, TypeOK
<1>3. \A v \in Workers \ {w} : pc'[v] = pc[v] /\ target'[v] = target[v] /\ draft'[v] = draft[v]
  BY <1>1 DEF IInv, TypeOK
<1>4. TypeOK'
  BY <1>1 DEF IInv, TypeOK
<1>5. DraftsTyped' /\ DraftsSound'
  BY <1>2, <1>3 DEF IInv, DraftsTyped, DraftsSound, Sound, IsEditable
<1>6. Stored' = Stored
  BY <1>1 DEF Stored
<1>7. StoredSound'
  BY <1>1, <1>6 DEF IInv, StoredSound, Sound, IsEditable
<1>8. \A v \in Workers : Follows(v)'
  BY <1>1, <1>2, <1>3, <1>6 DEF IInv, Follows, NotBack, Retired
<1>9. QED BY <1>4, <1>5, <1>7, <1>8 DEF IInv

(***************************************************************************)
(* The operations on a stored template: what they write is sound, and sets *)
(* nothing back, if nobody else writes first.                              *)
(***************************************************************************)
LEMMA ChangeStep ==
    ASSUME IInv, NEW w \in Workers, NEW i \in Ids,
           \/ UpdateTemplate(w, i) \/ ArchiveTemplate(w, i) \/ SubmitForReview(w, i)
           \/ ApproveTemplate(w, i) \/ ActivateTemplate(w, i) \/ DeprecateTemplate(w, i)
           \/ BumpVersion(w, i)
    PROVE  IInv'
<1> DEFINE t == catalog[i]
<1>1. i \in Stored /\ pc[w] = "idle"
  BY DEF UpdateTemplate, ArchiveTemplate, SubmitForReview, ApproveTemplate, ActivateTemplate,
         DeprecateTemplate, BumpVersion, Change
<1>2. t \in Template /\ Sound(i, t)
  BY <1>1, StoredTyped DEF IInv, StoredSound
<1>3. t.version \in Nat /\ t.version \in 0..MaxVersion
  BY <1>2, CatalogAssumption DEF Template
<1>4. ASSUME NEW u \in Template, Sound(i, u), NotBack(t, u), Change(w, i, u) PROVE IInv'
  BY <1>1, <1>4, PrepareStep DEF Change
<1>5. CASE UpdateTemplate(w, i)
  <2>1. PICK c \in Consistent : IsEditable(t) /\ Change(w, i, [t EXCEPT !.content = c])
    BY <1>5 DEF UpdateTemplate
  <2> DEFINE u == [t EXCEPT !.content = c]
  <2>2. u \in Template
    BY <1>2, CatalogAssumption DEF Template
  <2>3. Sound(i, u) /\ NotBack(t, u)
    BY <1>2, <1>3, <2>1 DEF Template, Sound, NotBack, IsEditable, Retired
  <2>4. QED BY <1>4, <2>1, <2>2, <2>3
<1>6. CASE \/ ArchiveTemplate(w, i) \/ SubmitForReview(w, i) \/ ActivateTemplate(w, i)
           \/ DeprecateTemplate(w, i)
  <2>1. PICK s \in Status :
            /\ Change(w, i, [t EXCEPT !.status = s])
            /\ \/ s \in {"archived", "deprecated"}
               \/ t.status = "draft" /\ s = "pending_review"
               \/ t.status = "approved" /\ s = "active"
    BY <1>6 DEF ArchiveTemplate, SubmitForReview, ActivateTemplate, DeprecateTemplate, Status
  <2> DEFINE u == [t EXCEPT !.status = s]
  <2>2. u \in Template
    BY <1>2 DEF Template
  <2>3. Sound(i, u) /\ NotBack(t, u)
    BY <1>2, <1>3, <2>1 DEF Template, Sound, NotBack, IsEditable, Retired
  <2>4. QED BY <1>4, <2>1, <2>2, <2>3
<1>7. CASE ApproveTemplate(w, i)
  <2> DEFINE u == [t EXCEPT !.status = "approved", !.approval = t.content]
  <2>1. t.status = "pending_review" /\ Change(w, i, u)
    BY <1>7 DEF ApproveTemplate
  <2>2. u \in Template
    BY <1>2 DEF Template, Status
  <2>3. Sound(i, u) /\ NotBack(t, u)
    BY <1>2, <1>3, <2>1 DEF Template, Sound, NotBack, IsEditable, Retired
  <2>4. QED BY <1>4, <2>1, <2>2, <2>3
<1>8. CASE BumpVersion(w, i)
  <2> DEFINE u == [t EXCEPT !.version = @ + 1]
  <2>1. t.version < MaxVersion /\ Change(w, i, u)
    BY <1>8 DEF BumpVersion
  <2>2. u \in Template
    BY <1>2, <1>3, <2>1, CatalogAssumption DEF Template
  <2>3. Sound(i, u) /\ NotBack(t, u)
    BY <1>2, <1>3, <2>1 DEF Template, Sound, NotBack, IsEditable, Retired
  <2>4. QED BY <1>4, <2>1, <2>2, <2>3
<1>9. QED BY <1>5, <1>6, <1>7, <1>8

(***************************************************************************)
(* The operations that bring a template that is not stored.                *)
(***************************************************************************)
LEMMA NewStep ==
    ASSUME IInv, NEW w \in Workers,
           \/ SeedCatalog(w)
           \/ \E i \in Ids : CreateTemplate(w, i) \/ CloneName(w, i)
    PROVE  IInv'
<1>1. 0 \in 0..MaxVersion /\ Consistent \subseteq Contents
  BY CatalogAssumption
<1>2. CASE SeedCatalog(w)
  <2>1. PICK c \in Contents :
            /\ pc[w] = "idle" /\ Named(SeedName) = {}
            /\ Prepare(w, Seed, [name |-> SeedName, status |-> "active", content |-> c,
                                 version |-> 0, parent |-> None, approval |-> None])
    BY <1>2 DEF SeedCatalog
  <2> DEFINE t == [name |-> SeedName, status |-> "active", content |-> c,
                   version |-> 0, parent |-> None, approval |-> None]
  <2>2. t \in Template /\ Seed \in Ids
    BY <1>1, CatalogAssumption DEF Template, Status
  <2>3. Sound(Seed, t)
    BY DEF Sound, IsEditable
  <2>4. Seed \notin Stored
    BY <2>1 DEF Named, IInv, StoredSound, Sound
  <2>5. QED BY <2>1, <2>2, <2>3, <2>4, PrepareStep
<1>3. ASSUME NEW i \in Ids, CreateTemplate(w, i) \/ CloneName(w, i) PROVE IInv'
  <2>1. PICK n \in Names, c \in Consistent, p \in {None, target[w]} :
            /\ pc[w] # "writing" /\ Fresh(i)
            /\ Prepare(w, i, [name |-> n, status |-> "draft", content |-> c, version |-> 0,
                              parent |-> p, approval |-> None])
    BY <1>3 DEF CreateTemplate, CloneName
  <2> DEFINE t == [name |-> n, status |-> "draft", content |-> c, version |-> 0,
                   parent |-> p, approval |-> None]
  <2>2. t \in Template
    BY <1>1 DEF Template, Status, IInv, TypeOK
  <2>3. i \notin Stored /\ i # Seed
    BY <2>1 DEF Fresh
  <2>4. Sound(i, t)
    BY <2>3 DEF Sound, IsEditable
  <2>5. QED BY <2>1, <2>2, <2>3, <2>4, PrepareStep
<1>4. QED BY <1>2, <1>3

(***************************************************************************)
(* A write makes stale whatever draft is for the same id.                  *)
(***************************************************************************)
LEMMA WriteStep ==
    ASSUME IInv, NEW w \in Workers, Write(w)
    PROVE  IInv'
<1>1. /\ pc[w] = "writing"
      /\ pc' = [pc EXCEPT ![w] = "idle"]
      /\ target' = [target EXCEPT ![w] = Seed]
      /\ draft' = [draft EXCEPT ![w] = None]
      /\ catalog' = [catalog EXCEPT ![target[w]] = draft[w]]
      /\ \A v \in Workers : stale'[v] = IF v = w THEN FALSE
                                        ELSE \/ stale[v]
                                             \/ pc[v] = "writing" /\ target[v] = target[w]
  BY DEF Write, End
<1>2. target[w] \in Ids /\ draft[w] \in Template /\ Sound(target[w], draft[w])
  BY <1>1 DEF IInv, TypeOK, DraftsTyped, DraftsSound
<1>3. \A v \in Workers \ {w} : pc'[v] = pc[v] /\ target'[v] = target[v] /\ draft'[v] = draft[v]
  BY <1>1 DEF IInv, TypeOK
<1>4. pc'[w] = "idle" /\ ~stale'[w]
  BY <1>1 DEF IInv, TypeOK
<1>5. TypeOK'
  <2>1. stale' \in [Workers -> BOOLEAN]
    BY DEF Write, IInv, TypeOK
  <2>2. QED BY <1>1, <1>2, <2>1, CatalogAssumption DEF IInv, TypeOK
<1>6. \A i \in Ids : catalog'[i] = IF i = target[w] THEN draft[w] ELSE catalog[i]
  BY <1>1 DEF IInv, TypeOK
<1>7. DraftsTyped' /\ DraftsSound'
  BY <1>3, <1>4 DEF IInv, DraftsTyped, DraftsSound, Sound, IsEditable
<1>8. StoredSound'
  BY <1>2, <1>6 DEF IInv, StoredSound, Stored, Sound, IsEditable
<1>9. \A v \in Workers : Follows(v)'
  <2> SUFFICES ASSUME NEW v \in Workers \ {w} PROVE Follows(v)'
    BY <1>4 DEF Follows
  <2>1. stale'[v] = (stale[v] \/ (pc[v] = "writing" /\ target[v] = target[w]))
    BY <1>1
  <2>2. pc[v] # "writing" => ~stale'[v]
    BY <2>1 DEF IInv, Follows
  <2>3. CASE pc[v] = "writing" /\ ~stale'[v] /\ target[v] \in Stored'
    <3>1. target[v] # target[w] /\ ~stale[v]
      BY <2>1, <2>3
    <3>2. catalog'[target[v]] = catalog[target[v]] /\ target[v] \in Stored
      BY <1>6, <2>3, <3>1 DEF Stored
    <3>3. NotBack(catalog[target[v]], draft[v])
      BY <2>3, <3>1, <3>2 DEF IInv, Follows
    <3>4. QED BY <1>3, <2>3, <3>2, <3>3 DEF Follows, NotBack, Retired
  <2>4. QED BY <1>3, <2>2, <2>3 DEF Follows
<1>10. QED BY <1>5, <1>7, <1>8, <1>9 DEF IInv

(***************************************************************************)
(* Every step keeps the invariant.                                         *)
(***************************************************************************)
LEMMA InvStep == IInv /\ [Next]_vars => IInv'
<1> SUFFICES ASSUME IInv, [Next]_vars PROVE IInv'
  OBVIOUS
<1>1. ASSUME NEW w \in Workers, NEW i \in Ids, CloneRead(w, i) PROVE IInv'
  <2>1. catalog[i] \in Template
    BY <1>1, StoredTyped DEF CloneRead, IInv
  <2>2. /\ UNCHANGED <<catalog, stale>>
        /\ \A v \in Workers \ {w} : pc'[v] = pc[v] /\ target'[v] = target[v] /\ draft'[v] = draft[v]
        /\ pc[w] = "idle" /\ pc'[w] = "naming" /\ draft'[w] = catalog[i]
    BY <1>1 DEF CloneRead, IInv, TypeOK
  <2>3. TypeOK'
    BY <1>1, <2>1 DEF CloneRead, IInv, TypeOK
  <2>4. DraftsTyped' /\ DraftsSound'
    BY <2>1, <2>2 DEF IInv, DraftsTyped, DraftsSound, Sound, IsEditable
  <2>5. Stored' = Stored /\ StoredSound'
    BY <2>2 DEF IInv, Stored, StoredSound, Sound, IsEditable
  <2>6. \A v \in Workers : Follows(v)'
    BY <2>2, <2>5 DEF IInv, Follows, NotBack, Retired
  <2>7. QED BY <2>3, <2>4, <2>5, <2>6 DEF IInv
<1>2. ASSUME NEW w \in Workers, CloneRefused(w) \/ WriteFails(w) PROVE IInv'
  <2>1. /\ UNCHANGED catalog
        /\ \A v \in Workers \ {w} : /\ pc'[v] = pc[v] /\ target'[v] = target[v]
                                    /\ draft'[v] = draft[v] /\ stale'[v] = stale[v]
        /\ pc'[w] = "idle"
    BY <1>2 DEF CloneRefused, WriteFails, End, IInv, TypeOK
  <2>2. ~stale'[w]
    BY <1>2 DEF CloneRefused, WriteFails, IInv, TypeOK, Follows
  <2>3. TypeOK'
    <3>1. Seed \in Ids
      BY CatalogAssumption
    <3>2. CASE CloneRefused(w)
      BY <3>1, <3>2 DEF CloneRefused, IInv, TypeOK
    <3>3. CASE WriteFails(w)
      BY <3>1, <3>3 DEF WriteFails, End, IInv, TypeOK
    <3>4. QED BY <1>2, <3>2, <3>3
  <2>4. DraftsTyped' /\ DraftsSound'
    BY <2>1 DEF IInv, DraftsTyped, DraftsSound, Sound, IsEditable
  <2>5. Stored' = Stored /\ StoredSound'
    BY <2>1 DEF IInv, Stored, StoredSound, Sound, IsEditable
  <2>6. \A v \in Workers : Follows(v)'
    BY <2>1, <2>2, <2>5 DEF IInv, Follows, NotBack, Retired
  <2>7. QED BY <2>3, <2>4, <2>5, <2>6 DEF IInv
<1>3. CASE UNCHANGED vars
  BY <1>3 DEF vars, IInv, TypeOK, DraftsTyped, DraftsSound, StoredSound, Stored, Follows,
              Sound, NotBack, IsEditable, Retired
<1>4. QED BY <1>1, <1>2, <1>3, ChangeStep, NewStep, WriteStep DEF Next

(***************************************************************************)
(* A worker that is about to write a record with the parent of the stored  *)
(* one, or with an older parent under an id nobody else writes, keeps the  *)
(* lineages.                                                               *)
(***************************************************************************)
LEMMA PrepareLineage ==
    ASSUME LineageInv, NEW w \in Workers, pc[w] # "writing", NEW i \in Ids, NEW t,
           i \in Stored => t.parent = catalog[i].parent,
           i \notin Stored =>
               /\ t.parent \in Stored \cup {None}
               /\ i = Seed \/ \A v \in Workers : pc[v] = "writing" => target[v] # i,
           Prepare(w, i, t)
    PROVE  LineageEnds' /\ \A v \in Workers : Descends(v)'
<1>1. /\ UNCHANGED <<catalog, stale>>
      /\ pc' = [pc EXCEPT ![w] = "writing"]
      /\ target' = [target EXCEPT ![w] = i]
      /\ draft' = [draft EXCEPT ![w] = t]
  BY DEF Prepare
<1>2. pc'[w] = "writing" /\ target'[w] = i /\ draft'[w] = t
  BY <1>1 DEF LineageInv, IInv, TypeOK
<1>3. \A v \in Workers \ {w} : pc'[v] = pc[v] /\ target'[v] = target[v] /\ draft'[v] = draft[v]
  BY <1>1 DEF LineageInv, IInv, TypeOK
<1>4. Stored' = Stored /\ LineageEnds'
  BY <1>1 DEF LineageInv, LineageEnds, Stored
<1>5. Descends(w)'
  BY <1>1, <1>2, <1>3, <1>4 DEF Descends
<1>6. ASSUME NEW v \in Workers \ {w} PROVE Descends(v)'
  BY <1>1, <1>2, <1>3, <1>4 DEF LineageInv, Descends
<1>7. QED BY <1>4, <1>5, <1>6

(***************************************************************************)
(* No operation on a stored template changes its parent.                   *)
(***************************************************************************)
LEMMA ChangeLineage ==
    ASSUME LineageInv, NEW w \in Workers, NEW i \in Ids,
           \/ UpdateTemplate(w, i) \/ ArchiveTemplate(w, i) \/ SubmitForReview(w, i)
           \/ ApproveTemplate(w, i) \/ ActivateTemplate(w, i) \/ DeprecateTemplate(w, i)
           \/ BumpVersion(w, i)
    PROVE  LineageEnds' /\ \A v \in Workers : Descends(v)'
<1>1. i \in Stored /\ pc[w] = "idle"
  BY DEF UpdateTemplate, ArchiveTemplate, SubmitForReview, ApproveTemplate, ActivateTemplate,
         DeprecateTemplate, BumpVersion, Change
<1>2. catalog[i] \in Template
  BY <1>1, StoredTyped DEF LineageInv, IInv
<1>3. /\ \A c, s, a, n :
          /\ [catalog[i] EXCEPT !.content = c].parent = catalog[i].parent
          /\ [catalog[i] EXCEPT !.status = s].parent = catalog[i].parent
          /\ [catalog[i] EXCEPT !.status = s, !.approval = a].parent = catalog[i].parent
          /\ [catalog[i] EXCEPT !.version = n].parent = catalog[i].parent
  BY <1>2 DEF Template
<1>4. ASSUME NEW t, t.parent = catalog[i].parent, Change(w, i, t)
      PROVE  LineageEnds' /\ \A v \in Workers : Descends(v)'
  BY <1>1, <1>4, PrepareLineage DEF Change
<1>5. CASE UpdateTemplate(w, i)
  BY <1>3, <1>4, <1>5 DEF UpdateTemplate
<1>6. CASE ArchiveTemplate(w, i)
  BY <1>3, <1>4, <1>6 DEF ArchiveTemplate
<1>7. CASE SubmitForReview(w, i)
  BY <1>3, <1>4, <1>7 DEF SubmitForReview
<1>8. CASE ApproveTemplate(w, i)
  BY <1>3, <1>4, <1>8 DEF ApproveTemplate
<1>9. CASE ActivateTemplate(w, i)
  BY <1>3, <1>4, <1>9 DEF ActivateTemplate
<1>10. CASE DeprecateTemplate(w, i)
  BY <1>3, <1>4, <1>10 DEF DeprecateTemplate
<1>11. CASE BumpVersion(w, i)
  BY <1>3, <1>4, <1>11 DEF BumpVersion
<1>12. QED BY <1>5, <1>6, <1>7, <1>8, <1>9, <1>10, <1>11

(***************************************************************************)
(* A new template has no parent, or the stored one it is a clone of.       *)
(***************************************************************************)
LEMMA NewLineage ==
    ASSUME LineageInv, NEW w \in Workers,
           \/ SeedCatalog(w)
           \/ \E i \in Ids : CreateTemplate(w, i) \/ CloneName(w, i)
    PROVE  LineageEnds' /\ \A v \in Workers : Descends(v)'
<1>1. CASE SeedCatalog(w)
  <2>1. PICK c \in Contents :
            /\ pc[w] = "idle" /\ Named(SeedName) = {}
            /\ Prepare(w, Seed, [name |-> SeedName, status |-> "active", content |-> c,
                                 version |-> 0, parent |-> None, approval |-> None])
    BY <1>1 DEF SeedCatalog
  <2>2. Seed \in Ids /\ Seed \notin Stored
    BY <2>1, CatalogAssumption DEF Named, LineageInv, IInv, StoredSound, Sound
  <2>3. QED BY <2>1, <2>2, PrepareLineage
<1>2. ASSUME NEW i \in Ids, CreateTemplate(w, i) \/ CloneName(w, i)
      PROVE  LineageEnds' /\ \A v \in Workers : Descends(v)'
  <2>1. PICK n \in Names, c \in Consistent, p \in Stored \cup {None} :
            /\ pc[w] # "writing" /\ Fresh(i)
            /\ Prepare(w, i, [name |-> n, status |-> "draft", content |-> c, version |-> 0,
                              parent |-> p, approval |-> None])
    BY <1>2 DEF CreateTemplate, CloneName, LineageInv, Descends
  <2>2. i \notin Stored /\ \A v \in Workers : pc[v] = "writing" => target[v] # i
    BY <2>1 DEF Fresh
  <2>3. QED BY <2>1, <2>2, PrepareLineage
<1>3. QED BY <1>1, <1>2

(***************************************************************************)
(* A write keeps the parents that are stored, or adds a leaf: a template   *)
(* that is nobody's parent yet, so that it closes no circle.               *)
(***************************************************************************)
LEMMA WriteLineage ==
    ASSUME LineageInv, NEW w \in Workers, Write(w)
    PROVE  LineageEnds' /\ \A v \in Workers : Descends(v)'
<1> DEFINE i == target[w]
<1>1. /\ pc[w] = "writing"
      /\ pc' = [pc EXCEPT ![w] = "idle"]
      /\ target' = [target EXCEPT ![w] = Seed]
      /\ draft' = [draft EXCEPT ![w] = None]
      /\ catalog' = [catalog EXCEPT ![i] = draft[w]]
  BY DEF Write, End
<1>2. i \in Ids /\ draft[w] \in Template /\ draft[w] # None
  BY <1>1, CatalogAssumption DEF LineageInv, IInv, TypeOK, DraftsTyped
<1>3. \A v \in Workers \ {w} : pc'[v] = pc[v] /\ target'[v] = target[v] /\ draft'[v] = draft[v]
  BY <1>1 DEF LineageInv, IInv, TypeOK
<1>4. pc'[w] = "idle"
  BY <1>1 DEF LineageInv, IInv, TypeOK
<1>5. \A j \in Ids : catalog'[j] = IF j = i THEN draft[w] ELSE catalog[j]
  BY <1>1 DEF LineageInv, IInv, TypeOK
<1>6. Stored' = Stored \cup {i}
  BY <1>2, <1>5 DEF Stored
<1>7. CASE i \in Stored
  <2>1. \A j \in Ids : j \in Stored => catalog'[j].parent = catalog[j].parent
    BY <1>1, <1>5, <1>7 DEF LineageInv, Descends
  <2>2. Stored' = Stored
    BY <1>6, <1>7
  <2>3. LineageEnds'
    BY <2>1, <2>2 DEF LineageInv, LineageEnds, Stored
  <2>4. ASSUME NEW v \in Workers \ {w} PROVE Descends(v)'
    BY <1>3, <1>4, <2>1, <2>2, <2>4 DEF LineageInv, IInv, TypeOK, Descends
  <2>5. QED BY <1>4, <2>3, <2>4 DEF Descends
<1>8. CASE i \notin Stored
  <2>1. /\ catalog'[i].parent \in Stored \cup {None}
        /\ \A j \in Stored : catalog'[j] = catalog[j] /\ j # i
    BY <1>1, <1>2, <1>5, <1>8 DEF LineageInv, Descends, Stored
  <2>2. \A j \in Stored' : catalog'[j].parent \in Stored \cup {None}
    BY <1>6, <2>1 DEF LineageInv, LineageEnds
  <2>3. ASSUME NEW S \in SUBSET Stored', S # {}
        PROVE  \E j \in S : catalog'[j].parent \notin S
    <3>1. CASE S \ {i} = {}
      <4>1. S = {i} /\ i \notin Stored \cup {None}
        BY <1>2, <1>8, <2>3, <3>1, CatalogAssumption
      <4>2. QED BY <2>1, <4>1
    <3>2. CASE S \ {i} # {}
      <4>1. S \ {i} \in SUBSET Stored
        BY <1>6
      <4>2. PICK j \in S \ {i} : catalog[j].parent \notin S \ {i}
        BY <3>2, <4>1 DEF LineageInv, LineageEnds
      <4>3. j \in Stored /\ catalog'[j].parent = catalog[j].parent
        BY <2>1, <4>1
      <4>4. catalog'[j].parent # i
        BY <1>2, <1>6, <1>8, <2>2, <4>3, CatalogAssumption
      <4>5. QED BY <4>2, <4>3, <4>4
    <3>3. QED BY <3>1, <3>2
  <2>4. LineageEnds'
    BY <1>6, <2>2, <2>3 DEF LineageEnds
  <2>5. ASSUME NEW v \in Workers \ {w} PROVE Descends(v)'
    <3>1. pc[v] = "naming" => target[v] \in Stored'
      BY <1>6 DEF LineageInv, Descends
    <3>2. CASE pc[v] = "writing" /\ target[v] = i
      <4>1. i = Seed
        BY <1>1, <1>8, <3>2 DEF LineageInv, Descends
      <4>2. draft[v].parent = None /\ draft[w].parent = None
        BY <1>1, <3>2, <4>1 DEF LineageInv, IInv, DraftsSound, Sound
      <4>3. QED BY <1>2, <1>3, <1>5, <1>6, <3>2, <4>2 DEF Descends
    <3>3. CASE pc[v] = "writing" /\ target[v] # i
      <4>1. target[v] \in Ids /\ catalog'[target[v]] = catalog[target[v]]
        BY <1>5, <3>3 DEF LineageInv, IInv, TypeOK
      <4>2. target[v] \in Stored' <=> target[v] \in Stored
        BY <1>6, <3>3
      <4>3. QED BY <1>3, <1>4, <1>6, <3>3, <4>1, <4>2 DEF LineageInv, Descends
    <3>4. QED BY <1>3, <3>1, <3>2, <3>3 DEF Descends
  <2>6. QED BY <1>4, <2>4, <2>5 DEF Descends
<1>9. QED BY <1>7, <1>8

(***************************************************************************)
(* Every step keeps the lineages.                                          *)
(***************************************************************************)
LEMMA LineageStep == LineageInv /\ [Next]_vars => LineageInv'
<1> SUFFICES ASSUME LineageInv, [Next]_vars PROVE LineageEnds' /\ \A v \in Workers : Descends(v)'
  BY InvStep DEF LineageInv
<1>1. ASSUME NEW w \in Workers, NEW i \in Ids, CloneRead(w, i)
      PROVE  LineageEnds' /\ \A v \in Workers : Descends(v)'
  <2>1. /\ UNCHANGED catalog /\ i \in Stored
        /\ \A v \in Workers \ {w} : pc'[v] = pc[v] /\ target'[v] = target[v] /\ draft'[v] = draft[v]
        /\ pc'[w] = "naming" /\ target'[w] = i
    BY <1>1 DEF CloneRead, LineageInv, IInv, TypeOK
  <2>2. Stored' = Stored /\ LineageEnds'
    BY <2>1 DEF Stored, LineageInv, LineageEnds
  <2>3. QED BY <2>1, <2>2 DEF LineageInv, Descends
<1>2. ASSUME NEW w \in Workers, CloneRefused(w) \/ WriteFails(w)
      PROVE  LineageEnds' /\ \A v \in Workers : Descends(v)'
  <2>1. /\ UNCHANGED catalog
        /\ \A v \in Workers \ {w} : pc'[v] = pc[v] /\ target'[v] = target[v] /\ draft'[v] = draft[v]
        /\ pc'[w] = "idle"
    BY <1>2 DEF CloneRefused, WriteFails, End, LineageInv, IInv, TypeOK
  <2>2. Stored' = Stored /\ LineageEnds'
    BY <2>1 DEF Stored, LineageInv, LineageEnds
  <2>3. QED BY <2>1, <2>2 DEF LineageInv, Descends
<1>3. CASE UNCHANGED vars
  BY <1>3 DEF vars, LineageInv, LineageEnds, Descends, Stored
<1>4. QED BY <1>1, <1>2, <1>3, ChangeLineage, NewLineage, WriteLineage DEF Next

(***************************************************************************)
(* The invariant holds from the beginning.                                 *)
(***************************************************************************)
LEMMA InvariantHolds == Spec => []IInv
<1>1. Init => IInv
  BY CatalogAssumption
     DEF Init, IInv, TypeOK, DraftsTyped, DraftsSound, StoredSound, Stored, Follows
<1>2. QED BY <1>1, InvStep, PTL DEF Spec

(***************************************************************************)
(* So do the lineages.                                                     *)
(***************************************************************************)
LEMMA LineageHolds == Spec => []LineageInv
<1>1. Init => LineageInv
  <2>1. Init => IInv
    BY CatalogAssumption
       DEF Init, IInv, TypeOK, DraftsTyped, DraftsSound, StoredSound, Stored, Follows
  <2>2. QED BY <2>1 DEF Init, LineageInv, LineageEnds, Stored, Descends
<1>2. QED BY <1>1, LineageStep, PTL DEF Spec

-----------------------------------------------------------------------------
(***************************************************************************)
(* The variables of the catalog keep their types.                          *)
(***************************************************************************)
THEOREM TypeCorrect == Spec => []TypeOK
<1>1. IInv => TypeOK
  BY DEF IInv
<1>2. QED BY <1>1, InvariantHolds, PTL

(***************************************************************************)
(* What is approved or live is what the approver was given, whatever the   *)
(* processes do to each other's records.                                   *)
(***************************************************************************)
THEOREM ApprovalIsForContent == Spec => []ApprovalCoversContent
<1>1. IInv => ApprovalCoversContent
  BY DEF IInv, StoredSound, Sound, ApprovalCoversContent
<1>2. QED BY <1>1, InvariantHolds, PTL

(***************************************************************************)
(* Following the parents of a stored template always comes to an end.      *)
(***************************************************************************)
THEOREM NoEndlessLineage == Spec => []LineageEnds
<1>1. LineageInv => LineageEnds
  BY DEF LineageInv
<1>2. QED BY <1>1, LineageHolds, PTL

(***************************************************************************)
(* Only a write that was overtaken revives a template or lowers a version. *)
(***************************************************************************)
THEOREM OnlyRacesSetBack == Spec => SetBackOnlyByRace
<1> DEFINE Kept(i) ==
        \/ Retired(catalog[i]) /\ ~Retired(catalog'[i])
        \/ catalog'[i].version < catalog[i].version
        => \E w \in Workers : stale[w] /\ target[w] = i /\ Write(w)
<1>1. IInv /\ [Next]_vars => [\A i \in Stored : Kept(i)]_vars
  <2> SUFFICES ASSUME IInv, [Next]_vars, NEW i \in Stored PROVE Kept(i)
    OBVIOUS
  <2>1. i \in Ids /\ catalog[i] \in Template /\ catalog[i].version \in Nat
    BY StoredTyped, CatalogAssumption DEF IInv, Template
  <2>2. CASE UNCHANGED catalog
    BY <2>1, <2>2
  <2>3. ASSUME NEW w \in Workers, Write(w) PROVE Kept(i)
    <3>1. /\ pc[w] = "writing" /\ target[w] \in Ids /\ draft[w] \in Template
          /\ catalog' = [catalog EXCEPT ![target[w]] = draft[w]]
      BY <2>3 DEF Write, End, IInv, TypeOK, DraftsTyped
    <3>2. catalog'[i] = IF i = target[w] THEN draft[w] ELSE catalog[i]
      BY <2>1, <3>1 DEF IInv, TypeOK
    <3>3. CASE i # target[w]
      BY <2>1, <3>2, <3>3
    <3>4. CASE i = target[w] /\ stale[w]
      BY <2>3, <3>4
    <3>5. CASE i = target[w] /\ ~stale[w]
      <4>1. NotBack(catalog[i], draft[w])
        BY <3>1, <3>5 DEF IInv, Follows
      <4>2. draft[w].version \in Nat
        BY <3>1, CatalogAssumption DEF Template
      <4>3. QED BY <2>1, <3>2, <3>5, <4>1, <4>2 DEF NotBack
    <3>6. QED BY <3>3, <3>4, <3>5
  <2>4. ASSUME NEW w \in Workers, NEW j \in Ids,
               \/ CreateTemplate(w, j) \/ CloneRead(w, j) \/ CloneName(w, j)
               \/ UpdateTemplate(w, j) \/ ArchiveTemplate(w, j) \/ SubmitForReview(w, j)
               \/ ApproveTemplate(w, j) \/ ActivateTemplate(w, j) \/ DeprecateTemplate(w, j)
               \/ BumpVersion(w, j)
        PROVE  UNCHANGED catalog
    BY <2>4 DEF CreateTemplate, CloneRead, CloneName, UpdateTemplate, ArchiveTemplate,
                SubmitForReview, ApproveTemplate, ActivateTemplate, DeprecateTemplate,
                BumpVersion, Change, Prepare
  <2>5. ASSUME NEW w \in Workers, CloneRefused(w) \/ SeedCatalog(w) \/ WriteFails(w)
        PROVE  UNCHANGED catalog
    BY <2>5 DEF CloneRefused, SeedCatalog, WriteFails, Prepare
  <2>6. CASE UNCHANGED vars
    BY <2>2, <2>6 DEF vars
  <2>7. QED BY <2>2, <2>3, <2>4, <2>5, <2>6 DEF Next
<1>2. QED BY <1>1, InvariantHolds, PTL DEF Spec, SetBackOnlyByRace

=============================================================================
