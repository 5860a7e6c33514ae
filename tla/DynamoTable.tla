---------------------------- MODULE DynamoTable ----------------------------
(***************************************************************************)
(* A DynamoDB table as DynamoDBClient uses it.  The services find items    *)
(* only through global secondary indices, which follow the table with a    *)
(* delay, and write only by the primary key, without a condition.          *)
(*                                                                         *)
(* A table maps each id to the versions of its item that the indices have  *)
(* not passed: the first is the one the indices show, the last the one the *)
(* table holds.  All the indices of a table follow an item together.       *)
(*                                                                         *)
(* A version is an item, None (never written), Gone (deleted) or Orphan:   *)
(* what an update of a deleted item leaves, the key and the attributes it  *)
(* sets.  It lacks the attributes of every index that the modelled queries *)
(* use, so that none of them finds it; the sessions' index on expires_at,  *)
(* which would show it, is queried by none.                                *)
(***************************************************************************)
EXTENDS Naturals, Sequences

CONSTANTS
    None, Gone, Orphan,
    MaxLag      \* bound on the versions of an item the indices have not passed

NoItem == {None, Gone, Orphan}

\* What the constants satisfy.
TableAssumption == MaxLag \in Nat \ {0} /\ None \notin {Gone, Orphan}

IsTable(t, Ids, Item) ==
    /\ t \in [Ids -> Seq(Item \cup NoItem)]
    /\ \A i \in Ids : Len(t[i]) \in 1..MaxLag+1

EmptyTable(Ids) == [i \in Ids |-> <<None>>]

Shown(t, i) == t[i][1]
Held(t, i)  == t[i][Len(t[i])]

\* query_index, without its key condition.
Indexed(t)  == {i \in DOMAIN t : Shown(t, i) \notin NoItem}
Present(t)  == {i \in DOMAIN t : Held(t, i) \notin NoItem}

Lagging(t)  == {i \in DOMAIN t : Len(t[i]) > 1}

\* generate_id: an id nobody has used, nor is about to.
Fresh(t, i) == t[i] = <<None>>

Write(t, i, version) == [t EXCEPT ![i] = Append(@, version)]

HasRoom(t, i) == Len(t[i]) <= MaxLag

PutItem(t, i, item) == Write(t, i, item)

DeleteItem(t, i) == Write(t, i, Gone)

\* item is the present one with the attributes of the update expression set.
UpdateItem(t, i, item) == Write(t, i, IF Held(t, i) \in NoItem THEN Orphan ELSE item)

\* The indices take in the next write to item i.
CatchUp(t, i) == [t EXCEPT ![i] = Tail(@)]

=============================================================================
